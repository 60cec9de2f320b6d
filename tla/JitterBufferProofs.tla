------------------------ MODULE JitterBufferProofs ------------------------
(***************************************************************************)
(* The ring for every length, every counter width that the length divides  *)
(* and every stream: it implements the drop-oldest queue for ever, also    *)
(* across the wrap of its counters.                                        *)
(***************************************************************************)
EXTENDS JitterBuffer, SequenceTheorems, TLAPS

Count == 0 .. Wrap - 1

---------------------------------------------------------------------------
(* Modular arithmetic *)

\* A remainder is determined by the quotient's multiple and its range.
LEMMA ModUnique ==
    ASSUME NEW N \in Nat \ {0}, NEW x \in Int, NEW q \in Int, NEW s \in Int,
           0 <= s, s < N, x = q * N + s
    PROVE  x % N = s
  BY SMTT(20)

\* Division with remainder.
LEMMA ModSplit ==
    ASSUME NEW N \in Nat \ {0}, NEW x \in Int
    PROVE  /\ x % N \in Int /\ 0 <= x % N /\ x % N < N
           /\ \E q \in Int : x = q * N + (x % N)
  <1>1. x % N \in Int /\ 0 <= x % N /\ x % N < N
    BY SMTT(20)
  <1>2. x \div N \in Int /\ x = (x \div N) * N + (x % N)
    BY SMTT(20)
  <1> QED
    BY <1>1, <1>2

\* The ring index does not notice that the counters wrap, because the ring
\* length divides the wrap.
LEMMA SlotOfCounter ==
    ASSUME NEW x \in Int
    PROVE  (x % Wrap) % LEN = x % LEN
  <1>1. LEN \in Nat \ {0} /\ Wrap \in Nat \ {0}
    BY RingAssumption
  <1>2. PICK m \in Int : Wrap = m * LEN + (Wrap % LEN)
    <2>1. Wrap \in Int
      BY <1>1
    <2> QED
      BY <1>1, <2>1, ModSplit
  <1>3. Wrap = m * LEN
    BY <1>1, <1>2, RingAssumption
  <1>4. PICK q \in Int : x = q * Wrap + (x % Wrap)
    BY <1>1, ModSplit
  <1>5. PICK p \in Int : x = p * LEN + (x % LEN)
    BY <1>1, ModSplit
  <1>6. x % Wrap \in Int /\ x % LEN \in Int /\ 0 <= x % LEN /\ x % LEN < LEN
    BY <1>1, ModSplit
  <1>7. q * Wrap = (q * m) * LEN
    BY <1>1, <1>3
  <1>8. x % Wrap = (p - q * m) * LEN + (x % LEN)
    BY <1>1, <1>4, <1>5, <1>6, <1>7
  <1>9. p - q * m \in Int
    OBVIOUS
  <1> QED
    BY <1>1, <1>6, <1>8, <1>9, ModUnique

\* Positions less than a ring length apart are different slots.
LEMMA SlotsDiffer ==
    ASSUME NEW x \in Int, NEW d \in 1 .. LEN - 1
    PROVE  x % LEN # (x + d) % LEN
  <1>1. LEN \in Nat \ {0}
    BY RingAssumption
  <1>2. PICK p \in Int : x = p * LEN + (x % LEN)
    BY <1>1, ModSplit
  <1>d. x + d \in Int
    OBVIOUS
  <1>3. PICK q \in Int : x + d = q * LEN + ((x + d) % LEN)
    BY <1>1, <1>d, ModSplit, Zenon
  <1>4. x % LEN \in Int /\ (x + d) % LEN \in Int
    BY <1>1, ModSplit
  <1> SUFFICES ASSUME x % LEN = (x + d) % LEN PROVE FALSE
    OBVIOUS
  <1>5. d = q * LEN - p * LEN
    BY <1>1, <1>2, <1>3, <1>4
  <1>6. d = (q - p) * LEN
    BY <1>1, <1>5
  <1>7. q - p >= 1 \/ q - p <= 0
    OBVIOUS
  <1>8. CASE q - p >= 1
    BY <1>1, <1>6, <1>8
  <1>9. CASE q - p <= 0
    BY <1>1, <1>6, <1>9
  <1> QED
    BY <1>7, <1>8, <1>9

\* The fill level in plain arithmetic.
LEMMA FillValue ==
    ASSUME NEW w \in Count, NEW r \in Count
    PROVE  /\ Fill(w, r) \in Count
           /\ w >= r => Fill(w, r) = w - r
           /\ w < r => Fill(w, r) = w - r + Wrap
  <1>1. Wrap \in Nat \ {0} /\ w \in Int /\ r \in Int /\ 0 <= w /\ w < Wrap
        /\ 0 <= r /\ r < Wrap
    BY RingAssumption DEF Count
  <1>2. CASE w >= r
    <2>1. (w - r) % Wrap = w - r
      BY <1>1, <1>2, ModUnique
    <2> QED
      BY <1>1, <1>2, <2>1 DEF Fill, Count
  <1>3. CASE w < r
    <2>1. (w - r) = (-1) * Wrap + (w - r + Wrap)
      BY <1>1
    <2>2. (w - r) % Wrap = w - r + Wrap
      BY <1>1, <1>3, <2>1, ModUnique
    <2> QED
      BY <1>1, <1>3, <2>2 DEF Fill, Count
  <1> QED
    BY <1>1, <1>2, <1>3

\* The successor of a counter.
LEMMA NextCount ==
    ASSUME NEW w \in Count
    PROVE  /\ (w + 1) % Wrap \in Count
           /\ (w + 1) % Wrap = IF w + 1 = Wrap THEN 0 ELSE w + 1
  <1>1. Wrap \in Nat \ {0} /\ w \in Int /\ 0 <= w /\ w < Wrap
    BY RingAssumption DEF Count
  <1>2. CASE w + 1 = Wrap
    <2>1. (w + 1) = 1 * Wrap + 0
      BY <1>1, <1>2
    <2>2. (w + 1) % Wrap = 0
      BY <1>1, <2>1, ModUnique
    <2> QED
      BY <1>1, <1>2, <2>2 DEF Count
  <1>3. CASE w + 1 # Wrap
    <2>1. (w + 1) = 0 * Wrap + (w + 1)
      BY <1>1
    <2>2. (w + 1) % Wrap = w + 1
      BY <1>1, <1>3, <2>1, ModUnique
    <2> QED
      BY <1>1, <1>3, <2>2 DEF Count
  <1> QED
    BY <1>2, <1>3

\* Writing one sample raises the fill level by one.
LEMMA FillAfterWrite ==
    ASSUME NEW w \in Count, NEW r \in Count, Fill(w, r) <= LEN
    PROVE  Fill((w + 1) % Wrap, r) = Fill(w, r) + 1
  <1>1. /\ Wrap \in Nat /\ LEN \in Nat /\ LEN + 1 < Wrap
        /\ w \in Int /\ r \in Int /\ 0 <= w /\ w < Wrap /\ 0 <= r /\ r < Wrap
    BY RingAssumption DEF Count
  <1> DEFINE v == (w + 1) % Wrap
  <1>2. v \in Count /\ v = IF w + 1 = Wrap THEN 0 ELSE w + 1
    BY NextCount
  <1> HIDE DEF v
  <1>3. /\ v >= r => Fill(v, r) = v - r
        /\ v < r => Fill(v, r) = v - r + Wrap
    BY <1>2, FillValue
  <1>4. /\ w >= r => Fill(w, r) = w - r
        /\ w < r => Fill(w, r) = w - r + Wrap
    BY FillValue
  <1>5. Fill(v, r) = Fill(w, r) + 1
    BY <1>1, <1>2, <1>3, <1>4
  <1> QED
    BY <1>5 DEF v

\* Reading one sample lowers it by one, and only an empty ring has equal
\* counters.
LEMMA FillAfterRead ==
    ASSUME NEW w \in Count, NEW r \in Count, w # r
    PROVE  Fill(w, r) > 0 /\ Fill(w, (r + 1) % Wrap) = Fill(w, r) - 1
  <1>1. /\ Wrap \in Nat
        /\ w \in Int /\ r \in Int /\ 0 <= w /\ w < Wrap /\ 0 <= r /\ r < Wrap
    BY RingAssumption DEF Count
  <1> DEFINE v == (r + 1) % Wrap
  <1>2. v \in Count /\ v = IF r + 1 = Wrap THEN 0 ELSE r + 1
    BY NextCount
  <1> HIDE DEF v
  <1>3. /\ w >= v => Fill(w, v) = w - v
        /\ w < v => Fill(w, v) = w - v + Wrap
    BY <1>2, FillValue
  <1>4. /\ w >= r => Fill(w, r) = w - r
        /\ w < r => Fill(w, r) = w - r + Wrap
    BY FillValue
  <1>5. Fill(w, r) > 0 /\ Fill(w, v) = Fill(w, r) - 1
    BY <1>1, <1>2, <1>3, <1>4
  <1> QED
    BY <1>5 DEF v

\* The reader of a full ring moves on by exactly one when it is overtaken.
LEMMA OvertakenByOne ==
    ASSUME NEW w \in Count, NEW r \in Count, Fill(w, r) <= LEN
    PROVE  Overtaken((w + 1) % Wrap, r) =
               IF Fill(w, r) = LEN THEN (r + 1) % Wrap ELSE r
  <1>1. /\ Wrap \in Nat \ {0} /\ LEN \in Nat /\ LEN + 1 < Wrap
        /\ w \in Int /\ r \in Int /\ 0 <= w /\ w < Wrap /\ 0 <= r /\ r < Wrap
    BY RingAssumption DEF Count
  <1> DEFINE v == (w + 1) % Wrap
             u == (r + 1) % Wrap
  <1>2. v \in Count /\ v = IF w + 1 = Wrap THEN 0 ELSE w + 1
    BY NextCount
  <1>3. u \in Count /\ u = IF r + 1 = Wrap THEN 0 ELSE r + 1
    BY NextCount
  <1>4. Fill(v, r) = Fill(w, r) + 1 /\ Fill(w, r) \in Int
    BY FillAfterWrite, FillValue, <1>1 DEF Count
  <1> HIDE DEF v, u
  <1>5. CASE Fill(w, r) # LEN
    BY <1>1, <1>4, <1>5 DEF Overtaken, v, u
  <1>6. CASE Fill(w, r) = LEN
    <2>1. /\ w >= r => w - r = LEN
          /\ w < r => w - r + Wrap = LEN
      BY <1>6, FillValue
    <2>2. u \in Int /\ 0 <= u /\ u < Wrap /\ v \in Int
      BY <1>1, <1>2, <1>3 DEF Count
    <2>3. v - LEN = 0 * Wrap + u \/ v - LEN = (-1) * Wrap + u
      BY <1>1, <1>2, <1>3, <2>1
    <2>4. (v - LEN) % Wrap = u
      BY <1>1, <2>2, <2>3, ModUnique
    <2>5. Overtaken(v, r) = (v - LEN) % Wrap
      BY <1>1, <1>4, <1>6 DEF Overtaken
    <2> QED
      BY <1>6, <2>4, <2>5 DEF v, u
  <1> QED
    BY <1>5, <1>6

\* The write position is the slot behind the last sample.
LEMMA WriteSlot ==
    ASSUME NEW w \in Count, NEW r \in Count
    PROVE  w % LEN = (r + Fill(w, r)) % LEN
  <1>1. /\ Wrap \in Nat \ {0} /\ w \in Int /\ r \in Int /\ 0 <= w /\ w < Wrap
        /\ 0 <= r /\ r < Wrap /\ Fill(w, r) \in Int
    BY RingAssumption, FillValue DEF Count
  <1>2. r + Fill(w, r) = 0 * Wrap + w \/ r + Fill(w, r) = 1 * Wrap + w
    BY <1>1, FillValue
  <1>3. (r + Fill(w, r)) % Wrap = w
    <2> DEFINE y == r + Fill(w, r)
    <2>1. y \in Int /\ (y = 0 * Wrap + w \/ y = 1 * Wrap + w)
      BY <1>1, <1>2
    <2> HIDE DEF y
    <2>2. y % Wrap = w
      BY <1>1, <2>1, ModUnique
    <2> QED
      BY <2>2 DEF y
  <1>4. r + Fill(w, r) \in Int
    BY <1>1
  <1> QED
    BY <1>3, <1>4, SlotOfCounter
---------------------------------------------------------------------------
(* The contents of the ring *)

Ring == [0 .. LEN - 1 -> Sample]

\* The contents are a sequence, and the x-th sample is x - 1 slots behind
\* the read position.
LEMMA ContentsSeq ==
    ASSUME NEW b \in Ring, NEW w \in Count, NEW r \in Count
    PROVE  /\ Contents(b, w, r) \in Seq(Sample)
           /\ Len(Contents(b, w, r)) = Fill(w, r)
           /\ \A x \in 1 .. Fill(w, r) :
                 /\ Contents(b, w, r)[x] = b[(r + x - 1) % LEN]
                 /\ (r + x - 1) % LEN \in 0 .. LEN - 1
  <1>1. LEN \in Nat \ {0} /\ r \in Int
    BY RingAssumption DEF Count
  <1>2. Fill(w, r) \in Nat
    BY FillValue DEF Count
  <1>3. \A x \in 1 .. Fill(w, r) :
           /\ r + x - 1 \in Int
           /\ ((r + x - 1) % Wrap) % LEN = (r + x - 1) % LEN
    <2> SUFFICES ASSUME NEW x \in 1 .. Fill(w, r)
                 PROVE  /\ r + x - 1 \in Int
                        /\ ((r + x - 1) % Wrap) % LEN = (r + x - 1) % LEN
      OBVIOUS
    <2>1. r + x - 1 \in Int
      BY <1>1, <1>2
    <2> QED
      BY <2>1, SlotOfCounter
  <1>4. \A x \in 1 .. Fill(w, r) : (r + x - 1) % LEN \in 0 .. LEN - 1
    <2> SUFFICES ASSUME NEW x \in 1 .. Fill(w, r)
                 PROVE  (r + x - 1) % LEN \in 0 .. LEN - 1
      OBVIOUS
    <2> DEFINE y == r + x - 1
    <2>1. y \in Int
      BY <1>3
    <2> HIDE DEF y
    <2>2. y % LEN \in Int /\ 0 <= y % LEN /\ y % LEN < LEN
      BY <1>1, <2>1, ModSplit
    <2>3. y % LEN \in 0 .. LEN - 1
      BY <1>1, <2>2
    <2> QED
      BY <2>3 DEF y
  <1>5. \A x \in 1 .. Fill(w, r) : b[((r + x - 1) % Wrap) % LEN] \in Sample
    BY <1>3, <1>4 DEF Ring
  <1>6. Contents(b, w, r) \in [1 .. Fill(w, r) -> Sample]
    BY <1>5 DEF Contents
  <1>7. Contents(b, w, r) \in Seq(Sample) /\ Len(Contents(b, w, r)) = Fill(w, r)
    BY <1>2, <1>6
  <1>8. \A x \in 1 .. Fill(w, r) : Contents(b, w, r)[x] = b[(r + x - 1) % LEN]
    BY <1>3 DEF Contents
  <1> QED
    BY <1>4, <1>7, <1>8

\* Storing a sample into a ring that is not full appends it.
LEMMA StoreAppends ==
    ASSUME NEW b \in Ring, NEW w \in Count, NEW r \in Count,
           NEW v \in Sample, Fill(w, r) < LEN
    PROVE  Contents([b EXCEPT ![w % LEN] = v], (w + 1) % Wrap, r)
             = Append(Contents(b, w, r), v)
  <1> DEFINE w1 == (w + 1) % Wrap
             b1 == [b EXCEPT ![w % LEN] = v]
             F == Fill(w, r)
             old == Contents(b, w, r)
             new == Contents(b1, w1, r)
             app == Append(old, v)
  <1>1. /\ LEN \in Nat \ {0} /\ w1 \in Count /\ F \in Nat /\ r \in Int
        /\ w \in Int /\ F < LEN
    BY RingAssumption, NextCount, FillValue DEF Count
  <1>2. w % LEN \in 0 .. LEN - 1
    <2>1. w % LEN \in Int /\ 0 <= w % LEN /\ w % LEN < LEN
      BY <1>1, ModSplit
    <2> QED
      BY <1>1, <2>1
  <1>3. b1 \in Ring
    BY <1>2 DEF Ring
  <1>4. Fill(w1, r) = F + 1
    BY <1>1, FillAfterWrite
  <1>5. w % LEN = (r + F) % LEN
    BY WriteSlot
  <1>6. /\ old \in Seq(Sample) /\ Len(old) = F
        /\ \A x \in 1 .. F : /\ old[x] = b[(r + x - 1) % LEN]
                             /\ (r + x - 1) % LEN \in 0 .. LEN - 1
    BY ContentsSeq
  <1> HIDE DEF w1, b1
  <1>7. /\ new \in Seq(Sample) /\ Len(new) = F + 1
        /\ \A x \in 1 .. F + 1 : /\ new[x] = b1[(r + x - 1) % LEN]
                                 /\ (r + x - 1) % LEN \in 0 .. LEN - 1
    BY <1>1, <1>3, <1>4, ContentsSeq
  <1> HIDE DEF F, old, new
  <1>8. /\ app \in Seq(Sample) /\ Len(app) = F + 1 /\ app[F + 1] = v
        /\ \A x \in 1 .. F : app[x] = old[x]
    BY <1>6, AppendProperties
  <1> HIDE DEF app
  <1>9. \A x \in 1 .. F : new[x] = app[x]
    <2> SUFFICES ASSUME NEW x \in 1 .. F PROVE new[x] = app[x]
      OBVIOUS
    <2>1. r + x - 1 \in Int /\ F - (x - 1) \in 1 .. LEN - 1
          /\ (r + x - 1) + (F - (x - 1)) = r + F /\ x \in 1 .. F + 1
      BY <1>1
    <2> DEFINE y == r + x - 1
               d == F - (x - 1)
    <2>2. y % LEN # (y + d) % LEN
      <3> HIDE DEF y, d
      <3>1. y \in Int /\ d \in 1 .. LEN - 1
        BY <2>1 DEF y, d
      <3> QED
        BY <3>1, SlotsDiffer
    <2>3. y % LEN # w % LEN
      BY <1>5, <2>1, <2>2
    <2>4. new[x] = b1[y % LEN] /\ y % LEN \in 0 .. LEN - 1
      BY <1>7, <2>1
    <2>5. app[x] = b[y % LEN]
      BY <1>6, <1>8
    <2> HIDE DEF y
    <2>6. b1[y % LEN] = b[y % LEN]
      BY <2>3, <2>4 DEF b1, Ring
    <2> QED
      BY <2>4, <2>5, <2>6
  <1>10. new[F + 1] = v
    <2>1. F + 1 \in 1 .. F + 1 /\ r + (F + 1) - 1 = r + F
      BY <1>1
    <2>2. new[F + 1] = b1[w % LEN]
      BY <1>5, <1>7, <2>1
    <2>3. b1[w % LEN] = v
      BY <1>2 DEF b1, Ring
    <2> QED
      BY <2>2, <2>3
  <1>11. \A x \in 1 .. Len(new) : new[x] = app[x]
    BY <1>1, <1>7, <1>8, <1>9, <1>10
  <1>12. new = app
    BY <1>7, <1>8, <1>11, SeqEqual
  <1> QED
    BY <1>12 DEF new, app, old, b1, w1

\* Moving the read position on by one takes the head off.
LEMMA ReadTakesHead ==
    ASSUME NEW b \in Ring, NEW w \in Count, NEW r \in Count, w # r
    PROVE  /\ Contents(b, w, r) # <<>>
           /\ Head(Contents(b, w, r)) = b[r % LEN]
           /\ Contents(b, w, (r + 1) % Wrap) = Tail(Contents(b, w, r))
  <1> DEFINE r1 == (r + 1) % Wrap
             F == Fill(w, r)
             old == Contents(b, w, r)
             new == Contents(b, w, r1)
             tl == Tail(old)
  <1>1. LEN \in Nat \ {0} /\ r1 \in Count /\ F \in Nat /\ r \in Int /\ F > 0
    <2>1. LEN \in Nat \ {0} /\ r \in Int /\ r1 \in Count
      BY RingAssumption, NextCount DEF Count
    <2>2. F \in Nat
      BY FillValue DEF Count
    <2>3. F > 0
      BY FillAfterRead
    <2> QED
      BY <2>1, <2>2, <2>3
  <1>2. Fill(w, r1) = F - 1
    BY FillAfterRead
  <1>3. /\ old \in Seq(Sample) /\ Len(old) = F
        /\ \A x \in 1 .. F : old[x] = b[(r + x - 1) % LEN]
    BY ContentsSeq
  <1>r. r1 \in Int
    BY <1>1 DEF Count
  <1>s. r1 = r + 1 \/ r1 = r + 1 - Wrap
    <2>1. Wrap \in Int
      BY RingAssumption
    <2> QED
      BY <1>1, <2>1, NextCount
  <1>4. /\ new \in Seq(Sample) /\ Len(new) = F - 1
        /\ \A x \in 1 .. F - 1 : new[x] = b[(r1 + x - 1) % LEN]
    <2> HIDE DEF r1
    <2> QED
      BY <1>1, <1>2, ContentsSeq
  <1>5. \A x \in 1 .. F - 1 : (r1 + x - 1) % LEN = (r + x) % LEN
    <2> SUFFICES ASSUME NEW x \in 1 .. F - 1
                 PROVE  (r1 + x - 1) % LEN = (r + x) % LEN
      OBVIOUS
    <2> HIDE DEF r1
    <2>1. x \in Int /\ Wrap \in Nat \ {0} /\ r + x \in Int /\ r1 + x - 1 \in Int
      BY <1>1, <1>r, RingAssumption
    <2>2. CASE r1 = r + 1
      <3>1. r1 + x - 1 = r + x
        BY <1>1, <2>1, <2>2
      <3> QED
        BY <3>1
    <2>3. CASE r1 = r + 1 - Wrap
      <3>1. PICK m \in Int : Wrap = m * LEN + (Wrap % LEN)
        <4>1. Wrap \in Int
          BY <2>1
        <4> QED
          BY <1>1, <4>1, ModSplit
      <3>2. Wrap = m * LEN
        BY <1>1, <3>1, RingAssumption
      <3> DEFINE y == r1 + x - 1
                 z == r + x
      <3>3. z = y + m * LEN /\ y \in Int /\ z \in Int
        BY <1>1, <1>r, <2>1, <2>3, <3>2
      <3> HIDE DEF y, z
      <3>4. PICK p \in Int : y = p * LEN + (y % LEN)
        BY <1>1, <3>3, ModSplit
      <3>5. y % LEN \in Int /\ 0 <= y % LEN /\ y % LEN < LEN
        BY <1>1, <3>3, ModSplit
      <3>6. p + m \in Int /\ z = (p + m) * LEN + (y % LEN)
        BY <1>1, <3>3, <3>4, <3>5
      <3>7. z % LEN = y % LEN
        BY <1>1, <3>3, <3>5, <3>6, ModUnique
      <3> QED
        BY <3>7 DEF y, z
    <2> QED
      BY <1>s, <2>2, <2>3
  <1> HIDE DEF old, new, F, r1
  <1>6. old # <<>>
    BY <1>1, <1>3, EmptySeq
  <1>7. Head(old) = b[r % LEN]
    <2>1. Head(old) = old[1]
      BY <1>3, <1>6
    <2>2. 1 \in 1 .. F /\ r + 1 - 1 = r
      BY <1>1
    <2> QED
      BY <1>3, <2>1, <2>2
  <1>8. /\ tl \in Seq(Sample) /\ Len(tl) = F - 1
        /\ \A x \in 1 .. F - 1 : tl[x] = old[x + 1]
    BY <1>3, <1>6, HeadTailProperties
  <1>9. \A x \in 1 .. F - 1 : new[x] = tl[x]
    <2> SUFFICES ASSUME NEW x \in 1 .. F - 1 PROVE new[x] = tl[x]
      OBVIOUS
    <2>1. x + 1 \in 1 .. F /\ r + (x + 1) - 1 = r + x
      BY <1>1
    <2>2. old[x + 1] = b[(r + x) % LEN]
      BY <1>3, <2>1
    <2> QED
      BY <1>4, <1>5, <1>8, <2>2
  <1>10. new = tl
    <2> HIDE DEF tl
    <2>1. Len(new) = Len(tl) /\ \A x \in 1 .. Len(new) : new[x] = tl[x]
      BY <1>4, <1>8, <1>9
    <2> QED
      BY <1>4, <1>8, <2>1, SeqEqual
  <1> QED
    BY <1>6, <1>7, <1>10 DEF old, new, r1

---------------------------------------------------------------------------
(* The invariant and the refinement *)

\* The fill level is at most LEN: without it, one more write could not tell
\* a full ring from one that was lapped several times.
IInv == TypeOK /\ FillBounded

\* memset leaves an empty ring.
LEMMA InitInv == Init => IInv
  <1> SUFFICES ASSUME Init PROVE IInv
    OBVIOUS
  <1>1. LEN \in Nat /\ Wrap \in Nat /\ LEN + 1 < Wrap /\ Zero \in Sample
    BY RingAssumption
  <1>2. 0 \in Count
    BY <1>1 DEF Count
  <1>3. Fill(0, 0) = 0
    BY <1>2, FillValue
  <1>4. <<>> \in Seq(Sample)
    OBVIOUS
  <1> QED
    BY <1>1, <1>2, <1>3, <1>4 DEF Init, IInv, TypeOK, FillBounded, Count

\* What one turn of the store loop does to the state and to the contents.
LEMMA StoreStep ==
    ASSUME IInv, StoreFrame
    PROVE  /\ IInv'
           /\ Head(todo) \in Sample
           /\ Queue' = IF Len(Queue) < LEN THEN Append(Queue, Head(todo))
                       ELSE Append(Tail(Queue), Head(todo))
  <1> DEFINE w == jbuf_w
             r == jbuf_r
             v == Head(todo)
             w1 == (w + 1) % Wrap
             r1 == (r + 1) % Wrap
             b1 == [jbuf EXCEPT ![w % LEN] = v]
  <1>1. /\ LEN \in Nat \ {0} /\ Wrap \in Nat /\ jbuf \in Ring
        /\ w \in Count /\ r \in Count /\ todo \in Seq(Sample) /\ todo # <<>>
        /\ out \in Sample /\ Fill(w, r) <= LEN
    BY RingAssumption DEF IInv, TypeOK, FillBounded, StoreFrame, Ring, Count
  <1>2. v \in Sample /\ Tail(todo) \in Seq(Sample)
    BY <1>1, HeadTailProperties
  <1>3. /\ jbuf' = b1 /\ jbuf_w' = w1 /\ jbuf_r' = Overtaken(w1, r)
        /\ todo' = Tail(todo) /\ out' = out
    BY DEF StoreFrame
  <1>4. w1 \in Count /\ r1 \in Count
    BY <1>1, NextCount
  <1>5. w % LEN \in 0 .. LEN - 1
    <2>1. w \in Int
      BY <1>1 DEF Count
    <2>2. w % LEN \in Int /\ 0 <= w % LEN /\ w % LEN < LEN
      BY <1>1, <2>1, ModSplit
    <2> QED
      BY <1>1, <2>2
  <1>6. b1 \in Ring
    BY <1>1, <1>2, <1>5 DEF Ring
  <1>7. Len(Queue) = Fill(w, r) /\ Fill(w, r) \in Nat
    BY <1>1, ContentsSeq, FillValue DEF Queue, Count
  <1>8. Fill(w1, r) = Fill(w, r) + 1
    BY <1>1, FillAfterWrite
  <1>9. Overtaken(w1, r) = IF Fill(w, r) = LEN THEN r1 ELSE r
    BY <1>1, OvertakenByOne
  <1>10. CASE Fill(w, r) < LEN
    <2>1. jbuf_r' = r
      BY <1>1, <1>3, <1>7, <1>9, <1>10
    <2>2. Queue' = Append(Queue, v)
      <3>1. Contents(b1, w1, r) = Append(Contents(jbuf, w, r), v)
        BY <1>1, <1>2, <1>10, StoreAppends
      <3> QED
        BY <1>3, <2>1, <3>1 DEF Queue
    <2>3. Fill(jbuf_w', jbuf_r') <= LEN
      BY <1>1, <1>3, <1>7, <1>8, <1>10, <2>1
    <2>4. TypeOK' /\ FillBounded'
      BY <1>1, <1>2, <1>3, <1>4, <1>6, <2>1, <2>3
         DEF TypeOK, FillBounded, Ring, Count
    <2> QED
      BY <1>2, <1>7, <1>10, <2>2, <2>4 DEF IInv
  <1>11. CASE Fill(w, r) = LEN
    <2>1. jbuf_r' = r1
      BY <1>3, <1>9, <1>11
    <2>2. w # r
      BY <1>1, <1>11, FillValue DEF Count
    <2>3. Fill(w, r1) = LEN - 1
      BY <1>1, <1>11, <2>2, FillAfterRead
    <2>4. Contents(jbuf, w, r1) = Tail(Contents(jbuf, w, r))
      BY <1>1, <2>2, ReadTakesHead
    <2>5. Contents(b1, w1, r1) = Append(Contents(jbuf, w, r1), v)
      <3> HIDE DEF r1
      <3>1. Fill(w, r1) < LEN
        BY <1>1, <2>3
      <3> QED
        BY <1>1, <1>2, <1>4, <3>1, StoreAppends
    <2>6. Queue' = Append(Tail(Queue), v)
      BY <1>3, <2>1, <2>4, <2>5 DEF Queue
    <2>7. Fill(w1, r1) = LEN
      <3> HIDE DEF r1
      <3>1. Fill(w, r1) <= LEN
        BY <1>1, <2>3
      <3>2. Fill(w1, r1) = Fill(w, r1) + 1
        BY <1>1, <1>4, <3>1, FillAfterWrite
      <3> QED
        BY <1>1, <2>3, <3>2
    <2>8. TypeOK' /\ FillBounded'
      BY <1>1, <1>2, <1>3, <1>4, <1>6, <2>1, <2>7
         DEF TypeOK, FillBounded, Ring, Count
    <2>9. ~(Len(Queue) < LEN)
      BY <1>1, <1>7, <1>11
    <2> QED
      BY <1>2, <2>6, <2>8, <2>9 DEF IInv
  <1> QED
    BY <1>1, <1>7, <1>10, <1>11

\* What a TDM frame does.
LEMMA ReadStep ==
    ASSUME IInv, TdmFrame
    PROVE  /\ IInv'
           /\ Queue # <<>> /\ out' = Head(Queue) /\ Queue' = Tail(Queue)
  <1>1. /\ jbuf \in Ring /\ jbuf_w \in Count /\ jbuf_r \in Count
        /\ jbuf_w # jbuf_r /\ LEN \in Nat \ {0} /\ Fill(jbuf_w, jbuf_r) <= LEN
        /\ todo \in Seq(Sample)
    BY RingAssumption DEF IInv, TypeOK, FillBounded, TdmFrame, Ring, Count
  <1>2. /\ jbuf' = jbuf /\ jbuf_w' = jbuf_w /\ todo' = todo
        /\ jbuf_r' = (jbuf_r + 1) % Wrap /\ out' = jbuf[jbuf_r % LEN]
    BY DEF TdmFrame
  <1>3. /\ Queue # <<>> /\ Head(Queue) = jbuf[jbuf_r % LEN]
        /\ Queue' = Tail(Queue)
    BY <1>1, <1>2, ReadTakesHead DEF Queue
  <1>4. (jbuf_r + 1) % Wrap \in Count
    BY <1>1, NextCount
  <1>5. Fill(jbuf_w, (jbuf_r + 1) % Wrap) = Fill(jbuf_w, jbuf_r) - 1
    BY <1>1, FillAfterRead
  <1>6. Fill(jbuf_w, jbuf_r) \in Nat
    BY <1>1, FillValue DEF Count
  <1>7. Fill(jbuf_w', jbuf_r') <= LEN
    BY <1>1, <1>2, <1>5, <1>6
  <1>8. out' \in Sample
    <2>1. jbuf_r \in Int
      BY <1>1 DEF Count
    <2>2. jbuf_r % LEN \in Int /\ 0 <= jbuf_r % LEN /\ jbuf_r % LEN < LEN
      BY <1>1, <2>1, ModSplit
    <2>3. jbuf_r % LEN \in 0 .. LEN - 1
      BY <1>1, <2>2
    <2> QED
      BY <1>1, <1>2, <2>3 DEF Ring
  <1>9. TypeOK' /\ FillBounded'
    BY <1>1, <1>2, <1>4, <1>7, <1>8 DEF TypeOK, FillBounded, Ring, Count
  <1> QED
    BY <1>2, <1>3, <1>9 DEF IInv

\* Counters that are both zero leave nothing in the ring.
LEMMA EmptyRing ==
    ASSUME NEW b PROVE Fill(0, 0) = 0 /\ Contents(b, 0, 0) = <<>>
  <1>1. 0 \in Count
    BY RingAssumption DEF Count
  <1>2. Fill(0, 0) = 0
    BY <1>1, FillValue
  <1>3. 1 .. 0 = {}
    OBVIOUS
  <1>4. Contents(b, 0, 0) = [x \in {} |-> b[((0 + x - 1) % Wrap) % LEN]]
    BY <1>2, <1>3 DEF Contents
  <1>5. Contents(b, 0, 0) = <<>>
    BY <1>4
  <1> QED
    BY <1>2, <1>5

\* What a new subscription does.
LEMMA ClearStep ==
    ASSUME IInv, ReuseEntry PROVE IInv' /\ Queue' = <<>> /\ out' = out
  <1>1. /\ jbuf' = [x \in 0 .. LEN - 1 |-> Zero] /\ jbuf_w' = 0 /\ jbuf_r' = 0
        /\ todo' = todo /\ out' = out
    BY DEF ReuseEntry
  <1>2. Queue' = <<>> /\ Fill(jbuf_w', jbuf_r') = 0
    BY <1>1, EmptyRing DEF Queue
  <1>3. 0 \in Count /\ LEN \in Nat /\ Zero \in Sample
    BY RingAssumption DEF Count
  <1>4. TypeOK' /\ FillBounded'
    BY <1>1, <1>2, <1>3 DEF IInv, TypeOK, FillBounded, Count
  <1> QED
    BY <1>1, <1>2, <1>4 DEF IInv

\* The arrival of a packet stores nothing yet.
LEMMA PacketStep ==
    ASSUME IInv, BufferPacket
    PROVE  IInv' /\ Queue' = Queue /\ out' = out
  <1>1. UNCHANGED <<jbuf, jbuf_w, jbuf_r, out>> /\ todo' \in Packets
    BY DEF BufferPacket
  <1>2. todo' \in Seq(Sample)
    <2>1. PICK n \in 0 .. MaxFrames : todo' \in [1 .. n -> Sample]
      BY <1>1 DEF Packets
    <2>2. n \in Nat
      BY RingAssumption
    <2> QED
      BY <2>1, <2>2
  <1> QED
    BY <1>1, <1>2 DEF IInv, TypeOK, FillBounded, Queue

\* Every step preserves the invariant.
LEMMA NextInv == IInv /\ [Next]_vars => IInv'
  <1> SUFFICES ASSUME IInv, [Next]_vars PROVE IInv'
    OBVIOUS
  <1>1. CASE UNCHANGED vars
    BY <1>1 DEF IInv, TypeOK, FillBounded, vars
  <1> QED
    BY <1>1, StoreStep, ReadStep, ClearStep, PacketStep DEF Next

\* The invariant holds in every reachable state.
LEMMA Invariance == Spec => []IInv
  BY InitInv, NextInv, PTL DEF Spec

\* The ring never claims more samples than it holds (link_audio.c:472-474).
THEOREM FillStaysBounded == Spec => []FillBounded
  <1>1. IInv => FillBounded
    BY DEF IInv
  <1> QED
    BY <1>1, Invariance, PTL

\* The ring implements the drop-oldest queue, wrap included
\* (link_audio.c:468-475, 556-564).
THEOREM ImplementsFifo == Spec => RefinesFifo
  <1>1. Init => Fifo!Init
    <2> SUFFICES ASSUME Init PROVE Fifo!Init
      OBVIOUS
    <2>1. Queue = <<>>
      BY EmptyRing DEF Init, Queue
    <2> QED
      BY <2>1, RingAssumption DEF Init, Fifo!Init
  <1>2. IInv /\ [Next]_vars => [Fifo!Next]_(Fifo!vars)
    <2> SUFFICES ASSUME IInv, [Next]_vars PROVE [Fifo!Next]_(Fifo!vars)
      OBVIOUS
    <2>1. CASE UNCHANGED vars
      BY <2>1 DEF vars, Queue, Fifo!vars
    <2>2. CASE BufferPacket
      BY <2>2, PacketStep DEF Fifo!vars
    <2>3. CASE StoreFrame
      <3>1. Head(todo) \in Sample /\ Fifo!Put(Head(todo))
        BY <2>3, StoreStep DEF StoreFrame, Fifo!Put
      <3> QED
        BY <3>1 DEF Fifo!Next
    <2>4. CASE TdmFrame
      BY <2>4, ReadStep DEF Fifo!Get, Fifo!Next
    <2>5. CASE ReuseEntry
      BY <2>5, ClearStep DEF Fifo!Clear, Fifo!Next
    <2> QED
      BY <2>1, <2>2, <2>3, <2>4, <2>5 DEF Next
  <1> QED
    BY <1>1, <1>2, Invariance, PTL DEF Spec, RefinesFifo, Fifo!Spec
=============================================================================
