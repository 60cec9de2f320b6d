------------------------- MODULE MeasurementProofs -------------------------
(***************************************************************************)
(* The measurement for every interval, budget, threshold, session set and  *)
(* offset: types, the accuracy of the samples of both formulas and of the  *)
(* reported intercept, the sample count, and that the module implements    *)
(* MeasureService.                                                         *)
(***************************************************************************)
EXTENDS Measurement, SequenceTheorems, FiniteSetTheorems,
        WellFoundedInduction, TLAPS

PingRec == [type: {"PING"}, ht: Nat, has_pgt: BOOLEAN, pgt: Int, of: Session]
PongRec == [type: {"PONG"}, ht: Nat, has_pgt: BOOLEAN, pgt: Int,
            of: Session, sess: Session, gt: Int]
StateRec == [active: BOOLEAN, target: Session, pings_sent: Nat,
             next_send: Nat, prev_ghost: Int, prev_host: Nat,
             samples: Seq(SampleRec)]

\* Every datagram was sent in the past, and a pong carries the ghost time of
\* an instant between the sending of its ping and now.
WireSound ==
    \A m \in wire :
        /\ m.ht <= now
        /\ m.type = "PONG" =>
              m.ht <= m.gt - Offset[m.sess] /\ m.gt - Offset[m.sess] <= now

\* The samples part, for a state record st.
SoundSamples(st) ==
    \A i \in DOMAIN st.samples :
        st.samples[i].kind = "rtt" =>
            /\ -st.samples[i].span <= TwiceError(st.samples[i], st.target)
            /\ TwiceError(st.samples[i], st.target) <= st.samples[i].span + 1

IInv == TypeOK /\ WireSound /\ RttSamplesAccurate /\ SampleCount
        /\ CompletionOnce

\* TypeOK in terms of the record sets above.
LEMMA TypeOKRecs ==
    TypeOK <=> /\ now \in Nat /\ S \in StateRec /\ rsess \in Session
               /\ wire \subseteq PingRec \cup PongRec
               /\ dups \in Nat /\ starts \in Nat
               /\ result.status \in {"none", "pending", "ok", "failed"}
BY DEF TypeOK, StateRec, PingRec, PongRec

\* C division by two of a non-negative number.
LEMMA HalfOfNat ==
    ASSUME NEW x \in Nat
    PROVE  Half(x) \in Nat /\ 2 * Half(x) <= x /\ x <= 2 * Half(x) + 1
BY DEF Half

\* C division by two yields an integer.
LEMMA HalfIsInt == ASSUME NEW x \in Int PROVE Half(x) \in Int
BY DEF Half

\* A stored round-trip sample is within half its round trip.
LEMMA RttSampleSound ==
    ASSUME IInv, NEW q \in wire, q.type = "PONG"
    PROVE  /\ RttSample(q) \in SampleRec
           /\ -RttSample(q).span <= TwiceError(RttSample(q), q.sess)
           /\ TwiceError(RttSample(q), q.sess) <= RttSample(q).span + 1
<1>1. /\ q \in PongRec /\ now \in Nat
      /\ q.ht <= now /\ q.ht <= q.gt - Offset[q.sess]
      /\ q.gt - Offset[q.sess] <= now
  BY TypeOKRecs DEF IInv, WireSound, PingRec, PongRec
<1>2. q.ht \in Nat /\ q.gt \in Int /\ Offset[q.sess] \in Int
  BY <1>1, MeasurementAssumption DEF PongRec
<1>3. now + q.ht \in Nat
  BY <1>1, <1>2
<1>4. PICK h \in Nat : h = Half(now + q.ht) /\ 2 * h <= now + q.ht
                       /\ now + q.ht <= 2 * h + 1
  BY <1>3, HalfOfNat
<1>5. RttSample(q) = [v |-> q.gt - h, kind |-> "rtt", span |-> now - q.ht]
  BY <1>4 DEF RttSample
<1> QED
  BY <1>1, <1>2, <1>4, <1>5 DEF SampleRec, TwiceError

\* The second sample is a sample.
LEMMA PrevSampleType ==
    ASSUME IInv, NEW q \in wire, q.type = "PONG"
    PROVE  PrevSample(q) \in SampleRec /\ PrevSample(q).kind # "rtt"
<1>1. q \in PongRec /\ now \in Nat
  BY TypeOKRecs DEF IInv, PingRec, PongRec
<1>2. /\ q.ht \in Int /\ q.gt \in Int /\ q.pgt \in Int
      /\ Offset[q.of] \in Int
  BY <1>1, MeasurementAssumption DEF PongRec
<1>3. Half(q.gt + q.pgt) \in Int
  BY <1>2, HalfIsInt
<1> QED
  BY <1>1, <1>2, <1>3 DEF PrevSample, PrevKind, PrevSpan, SampleRec

\* What the two guarded stores of a pong can do to the sample array.
LEMMA CollectedCases ==
    ASSUME IInv, NEW q \in wire, q.type = "PONG", S.active
    PROVE  \/ Collected(q) = Append(S.samples, RttSample(q))
           \/ Collected(q) = Append(Append(S.samples, RttSample(q)),
                                    PrevSample(q))
<1>1. /\ Len(S.samples) <= Threshold
      /\ Threshold + 2 <= MaxSamples /\ Threshold \in Nat /\ MaxSamples \in Nat
      /\ S.samples \in Seq(SampleRec)
  BY MeasurementAssumption, TypeOKRecs DEF IInv, SampleCount, StateRec
<1>2. RttSample(q) \in SampleRec
  BY RttSampleSound
<1>3. Store(S.samples, RttSample(q), TRUE) = Append(S.samples, RttSample(q))
  BY <1>1 DEF Store
<1> QED
  BY <1>3 DEF Collected, Store

\* What a pong of the target session adds to the samples is sound.
LEMMA CollectedSound ==
    ASSUME IInv, NEW q \in wire, q.type = "PONG", S.active, q.sess = S.target
    PROVE  /\ Collected(q) \in Seq(SampleRec)
           /\ SoundSamples([S EXCEPT !.samples = Collected(q)])
           /\ Len(Collected(q)) \in Nat
           /\ Len(Collected(q)) <= Threshold + 2
<1> DEFINE r == RttSample(q)
           p == PrevSample(q)
           s0 == S.samples
           s1 == Append(s0, r)
           s2 == Append(s1, p)
           Good(x) == x.kind = "rtt" =>
                         /\ -x.span <= TwiceError(x, S.target)
                         /\ TwiceError(x, S.target) <= x.span + 1
<1>1. s0 \in Seq(SampleRec) /\ Len(s0) <= Threshold /\ S \in StateRec
  BY TypeOKRecs DEF IInv, SampleCount, StateRec
<1>2. r \in SampleRec /\ p \in SampleRec
  BY RttSampleSound, PrevSampleType
<1>3. Good(r) /\ Good(p)
  BY RttSampleSound, PrevSampleType
<1>4. \A i \in 1..Len(s0) : Good(s0[i])
  BY <1>1 DEF IInv, RttSamplesAccurate
<1> HIDE DEF r, p, s0, Good
<1>5. /\ s1 \in Seq(SampleRec) /\ Len(s1) = Len(s0) + 1
      /\ \A i \in 1..Len(s1) : s1[i] = IF i <= Len(s0) THEN s0[i] ELSE r
  BY <1>1, <1>2
<1>6. \A i \in 1..Len(s1) : Good(s1[i])
  BY <1>1, <1>3, <1>4, <1>5
<1> HIDE DEF s1
<1>7. /\ s2 \in Seq(SampleRec) /\ Len(s2) = Len(s1) + 1
      /\ \A i \in 1..Len(s2) : s2[i] = IF i <= Len(s1) THEN s1[i] ELSE p
  BY <1>2, <1>5
<1>8. \A i \in 1..Len(s2) : Good(s2[i])
  BY <1>3, <1>5, <1>6, <1>7
<1>9. Len(s1) <= Threshold + 2 /\ Len(s2) <= Threshold + 2
  BY <1>1, <1>5, <1>7, MeasurementAssumption
<1> HIDE DEF s2
<1>10. Collected(q) = s1 \/ Collected(q) = s2
  BY CollectedCases DEF r, p, s0, s1, s2
<1>11. /\ Collected(q) \in Seq(SampleRec)
       /\ Len(Collected(q)) <= Threshold + 2
       /\ \A i \in 1..Len(Collected(q)) : Good(Collected(q)[i])
  BY <1>5, <1>6, <1>7, <1>8, <1>9, <1>10
<1>12. SoundSamples([S EXCEPT !.samples = Collected(q)])
  <2>1. /\ [S EXCEPT !.samples = Collected(q)].samples = Collected(q)
        /\ [S EXCEPT !.samples = Collected(q)].target = S.target
    BY <1>1 DEF StateRec
  <2>2. DOMAIN Collected(q) = 1..Len(Collected(q))
    BY <1>11
  <2> QED
    BY <1>11, <2>1, <2>2 DEF SoundSamples, Good
<1> QED
  BY <1>11, <1>12

---------------------------------------------------------------------------
LEMMA InitIInv == Init => IInv
<1> SUFFICES ASSUME Init PROVE IInv
  OBVIOUS
<1>1. PICK s \in Session : S = [Fresh(s) EXCEPT !.active = FALSE] /\ rsess = s
  BY DEF Init
<1>2. S.samples = <<>> /\ S.active = FALSE /\ S \in StateRec
  <2>1. S = [active |-> FALSE, target |-> s, pings_sent |-> 0,
             next_send |-> 0, prev_ghost |-> 0, prev_host |-> 0,
             samples |-> <<>>]
    BY <1>1 DEF Fresh
  <2>2. <<>> \in Seq(SampleRec)
    OBVIOUS
  <2> QED
    BY <2>1, <2>2 DEF StateRec
<1>3. TypeOK
  BY <1>1, <1>2, TypeOKRecs DEF Init
<1>4. WireSound /\ CompletionOnce
  BY <1>2 DEF Init, WireSound, CompletionOnce
<1>5. RttSamplesAccurate /\ SampleCount
  BY <1>2 DEF Init, RttSamplesAccurate, SampleCount
<1> QED
  BY <1>3, <1>4, <1>5 DEF IInv

\* A ping sent now is a datagram of the right shape, sent in the past.
LEMMA PingSound ==
    ASSUME TypeOK, NEW st \in StateRec
    PROVE  /\ PingOf(st) \in PingRec /\ PingOf(st).ht = now
           /\ PingOf(st).type = "PING" /\ PingOf(st).type # "PONG"
           /\ Pinged(st) \in StateRec
           /\ Pinged(st).active = st.active /\ Pinged(st).target = st.target
           /\ Pinged(st).samples = st.samples
<1>1. now \in Nat /\ Interval \in Nat
  BY MeasurementAssumption DEF TypeOK
<1>2. PingOf(st) \in PingRec /\ PingOf(st).ht = now
      /\ PingOf(st).type = "PING"
  BY <1>1 DEF PingOf, Ping, PingRec, StateRec
<1>3. Pinged(st) \in StateRec
  <2>1. /\ st.pings_sent \in Nat /\ st.active \in BOOLEAN
        /\ st.target \in Session /\ st.prev_ghost \in Int
        /\ st.samples \in Seq(SampleRec)
    BY DEF StateRec
  <2>2. Pinged(st) = [active |-> st.active, target |-> st.target,
                      pings_sent |-> st.pings_sent + 1,
                      next_send |-> now + Interval,
                      prev_ghost |-> st.prev_ghost, prev_host |-> now,
                      samples |-> st.samples]
    <3>1. PICK a \in BOOLEAN, t \in Session, p \in Nat, n \in Nat, g \in Int,
               h \in Nat, z \in Seq(SampleRec) :
            st = [active |-> a, target |-> t, pings_sent |-> p,
                  next_send |-> n, prev_ghost |-> g, prev_host |-> h,
                  samples |-> z]
      BY DEF StateRec
    <3> DEFINE R(x, y, w) == [active |-> a, target |-> t, pings_sent |-> x,
                             next_send |-> y, prev_ghost |-> g,
                             prev_host |-> w, samples |-> z]
    <3>2. [st EXCEPT !.prev_host = now] = R(p, n, now)
      BY <3>1
    <3>3. [R(p, n, now) EXCEPT !.pings_sent = @ + 1] = R(p + 1, n, now)
      OBVIOUS
    <3>4. [R(p + 1, n, now) EXCEPT !.next_send = now + Interval]
            = R(p + 1, now + Interval, now)
      OBVIOUS
    <3>5. Pinged(st) = [[[st EXCEPT !.prev_host = now]
                            EXCEPT !.pings_sent = @ + 1]
                            EXCEPT !.next_send = now + Interval]
      BY DEF Pinged
    <3>6. Pinged(st) = R(p + 1, now + Interval, now)
      <4> HIDE DEF R
      <4> QED
        BY <3>2, <3>3, <3>4, <3>5
    <3> QED
      BY <3>1, <3>6
  <2>3. st.pings_sent + 1 \in Nat /\ now + Interval \in Nat
    BY <1>1, <2>1
  <2> QED
    BY <1>1, <2>1, <2>2, <2>3 DEF StateRec
<1>4. /\ Pinged(st).active = st.active /\ Pinged(st).target = st.target
      /\ Pinged(st).samples = st.samples
  BY DEF Pinged, StateRec
<1> QED
  BY <1>2, <1>3, <1>4

\* Sending a datagram that is sound keeps the wire sound; so does losing any.
LEMMA WireKeeps ==
    ASSUME IInv, now' = now, NEW p,
           p \in PingRec \cup PongRec, p.ht <= now,
           p.type = "PONG" =>
               p.ht <= p.gt - Offset[p.sess] /\ p.gt - Offset[p.sess] <= now,
           wire' \subseteq wire \cup {p}
    PROVE  wire' \subseteq PingRec \cup PongRec /\ WireSound'
BY TypeOKRecs DEF IInv, WireSound

\* Losing datagrams keeps the wire sound.
LEMMA WireShrinks ==
    ASSUME IInv, now' = now, wire' \subseteq wire
    PROVE  wire' \subseteq PingRec \cup PongRec /\ WireSound'
BY TypeOKRecs DEF IInv, WireSound

\* Delivery adds nothing to the wire.
LEMMA TakenShrinks ==
    ASSUME TypeOK, NEW m, Taken(m)
    PROVE  wire' \subseteq wire /\ dups' \in Nat
BY DEF Taken, TypeOK

\* Delivery with an answer adds the answer only.
LEMMA TakenAndSentShrinks ==
    ASSUME TypeOK, NEW m, NEW p, TakenAndSent(m, p)
    PROVE  wire' \subseteq wire \cup {p} /\ dups' \in Nat
BY DEF TakenAndSent, TypeOK

\* measurement_start preserves the invariant.
LEMMA StartIInv ==
    ASSUME IInv, NEW s \in Session, MeasurementStart(s)
    PROVE  IInv'
<1>1. TypeOK /\ now' = now /\ rsess' = rsess /\ dups' = dups
      /\ starts' = starts + 1
  BY DEF IInv, MeasurementStart
<1>2. CASE S.active
  <2>1. UNCHANGED <<S, wire, result>>
    BY <1>2 DEF MeasurementStart
  <2>2. TypeOK'
    BY <1>1, <2>1 DEF TypeOK
  <2> QED
    BY <1>1, <2>1, <2>2 DEF IInv, WireSound, RttSamplesAccurate, SampleCount,
                            CompletionOnce
<1>3. CASE ~S.active
  <2>1. /\ S' = Pinged(Fresh(s)) /\ wire' = wire \cup {PingOf(Fresh(s))}
        /\ result' = [status |-> "pending", intercept |-> 0]
    BY <1>3 DEF MeasurementStart
  <2>2. Fresh(s) \in StateRec /\ Fresh(s).active = TRUE
        /\ Fresh(s).samples = <<>>
    BY DEF Fresh, StateRec
  <2>3. /\ S' \in StateRec /\ S'.active = TRUE /\ S'.samples = <<>>
        /\ PingOf(Fresh(s)) \in PingRec /\ PingOf(Fresh(s)).ht = now
        /\ PingOf(Fresh(s)).type # "PONG"
    BY <1>1, <2>1, <2>2, PingSound
  <2>4. now <= now
    BY <1>1 DEF TypeOK
  <2>5. wire' \subseteq PingRec \cup PongRec /\ WireSound'
    BY <1>1, <2>1, <2>3, <2>4, WireKeeps
  <2>6. TypeOK'
    BY <1>1, <2>1, <2>3, <2>5 DEF TypeOK, StateRec, PingRec, PongRec
  <2>7. RttSamplesAccurate' /\ SampleCount' /\ CompletionOnce'
    BY <2>1, <2>3, MeasurementAssumption
       DEF RttSamplesAccurate, SampleCount, CompletionOnce
  <2> QED
    BY <2>5, <2>6, <2>7 DEF IInv
<1> QED
  BY <1>2, <1>3

\* measurement_tick preserves it.
LEMMA TickIInv ==
    ASSUME IInv, MeasurementTick
    PROVE  IInv'
<1>1. TypeOK /\ S \in StateRec /\ now' = now
  BY TypeOKRecs DEF IInv, MeasurementTick, TickGiveUp, TickRetry
<1>2. CASE TickGiveUp
  <2>1. /\ S' = [S EXCEPT !.active = FALSE] /\ result'.status = "failed"
        /\ UNCHANGED <<now, rsess, wire, dups, starts>>
    BY <1>2 DEF TickGiveUp, Finish
  <2>2. /\ S' \in StateRec /\ S'.active = FALSE
        /\ S'.samples = S.samples /\ S'.target = S.target
    BY <1>1, <2>1 DEF StateRec
  <2>3. TypeOK' /\ WireSound'
    BY <1>1, <2>1, <2>2 DEF TypeOK, StateRec, IInv, WireSound
  <2> QED
    BY <2>1, <2>2, <2>3 DEF IInv, RttSamplesAccurate, SampleCount,
                            CompletionOnce
<1>3. CASE TickRetry
  <2>1. /\ S' = Pinged(S) /\ wire' = wire \cup {PingOf(S)} /\ S.active
        /\ UNCHANGED <<now, rsess, dups, starts, result>>
    BY <1>3 DEF TickRetry, TimerDue
  <2>2. /\ S' \in StateRec /\ S'.active = S.active
        /\ S'.samples = S.samples /\ S'.target = S.target
        /\ PingOf(S) \in PingRec /\ PingOf(S).ht = now
        /\ PingOf(S).type # "PONG"
    BY <1>1, <2>1, PingSound
  <2>5. now <= now
    BY <1>1 DEF TypeOK
  <2>3. wire' \subseteq PingRec \cup PongRec /\ WireSound'
    BY <1>1, <2>1, <2>2, <2>5, WireKeeps
  <2>4. TypeOK'
    BY <1>1, <2>1, <2>2, <2>3 DEF TypeOK, StateRec, PingRec, PongRec
  <2> QED
    BY <2>1, <2>2, <2>3, <2>4 DEF IInv, RttSamplesAccurate, SampleCount,
                                  CompletionOnce
<1> QED
  BY <1>2, <1>3 DEF MeasurementTick

\* A state record with the collected samples and the new previous ghost time.
LEMMA WithCollected ==
    ASSUME IInv, NEW q \in wire, q.type = "PONG", S.active, q.sess = S.target,
           NEW st, st = [S EXCEPT !.samples = Collected(q), !.prev_ghost = q.gt]
    PROVE  /\ st \in StateRec /\ st.active = S.active /\ st.target = S.target
           /\ st.samples = Collected(q) /\ SoundSamples(st)
<1>1. S \in StateRec /\ q \in PongRec
  BY TypeOKRecs DEF IInv, PingRec, PongRec
<1>2. Collected(q) \in Seq(SampleRec) /\ q.gt \in Int
  BY <1>1, CollectedSound DEF PongRec
<1>3. /\ st.active = S.active /\ st.target = S.target
      /\ st.samples = Collected(q)
  BY <1>1 DEF StateRec
<1>4. st \in StateRec
  <2>1. [S EXCEPT !.samples = Collected(q)] \in StateRec
    BY <1>1, <1>2 DEF StateRec
  <2> QED
    BY <1>2, <2>1 DEF StateRec
<1>5. SoundSamples(st)
  <2>1. /\ [S EXCEPT !.samples = Collected(q)].samples = Collected(q)
        /\ [S EXCEPT !.samples = Collected(q)].target = S.target
    BY <1>1 DEF StateRec
  <2> QED
    BY <1>3, <2>1, CollectedSound DEF SoundSamples
<1> QED
  BY <1>3, <1>4, <1>5

\* measurement_handle_rx preserves it, in each of its exits.
LEMMA PongIInv ==
    ASSUME IInv, NEW q \in wire, q.type = "PONG",
           PongIgnored(q) \/ PongMismatch(q) \/ PongFinal(q) \/ PongNext(q)
    PROVE  IInv'
<1> DEFINE st == [S EXCEPT !.samples = Collected(q), !.prev_ghost = q.gt]
<1>1. TypeOK /\ S \in StateRec /\ now \in Nat /\ now' = now
  BY TypeOKRecs DEF IInv, PongIgnored, PongMismatch, PongFinal, PongNext
<1>2. CASE PongIgnored(q)
  <2>1. wire' \subseteq wire /\ dups' \in Nat
        /\ UNCHANGED <<now, S, rsess, starts, result>>
    BY <1>1, <1>2, TakenShrinks DEF PongIgnored
  <2>2. wire' \subseteq PingRec \cup PongRec /\ WireSound'
    BY <2>1, WireShrinks
  <2>3. TypeOK'
    BY <1>1, <2>1, <2>2 DEF TypeOK, PingRec, PongRec
  <2> QED
    BY <2>1, <2>2, <2>3 DEF IInv, RttSamplesAccurate, SampleCount,
                            CompletionOnce
<1>3. CASE PongMismatch(q)
  <2>1. /\ S' = [S EXCEPT !.active = FALSE] /\ result'.status = "failed"
        /\ wire' \subseteq wire /\ dups' \in Nat
        /\ UNCHANGED <<now, rsess, starts>>
    BY <1>1, <1>3, TakenShrinks DEF PongMismatch, Finish
  <2>2. /\ S' \in StateRec /\ S'.active = FALSE
        /\ S'.samples = S.samples /\ S'.target = S.target
    BY <1>1, <2>1 DEF StateRec
  <2>3. wire' \subseteq PingRec \cup PongRec /\ WireSound'
    BY <2>1, WireShrinks
  <2>4. TypeOK'
    BY <1>1, <2>1, <2>2, <2>3 DEF TypeOK, StateRec, PingRec, PongRec
  <2> QED
    BY <2>1, <2>2, <2>3, <2>4 DEF IInv, RttSamplesAccurate, SampleCount,
                                  CompletionOnce
<1>4. CASE PongFinal(q)
  <2>1. /\ S' = [st EXCEPT !.active = FALSE] /\ result'.status = "ok"
        /\ wire' \subseteq wire /\ dups' \in Nat
        /\ UNCHANGED <<now, rsess, starts>>
        /\ S.active /\ q.sess = S.target /\ Enough(Collected(q))
    BY <1>1, <1>4, TakenShrinks DEF PongFinal, Finish
  <2>2. /\ st \in StateRec /\ st.active = S.active /\ st.target = S.target
        /\ st.samples = Collected(q) /\ SoundSamples(st)
    BY <2>1, WithCollected
  <2> HIDE DEF st
  <2>3. /\ S' \in StateRec /\ S'.active = FALSE
        /\ S'.samples = Collected(q) /\ S'.target = st.target
    BY <2>1, <2>2 DEF StateRec
  <2>4. wire' \subseteq PingRec \cup PongRec /\ WireSound'
    BY <2>1, WireShrinks
  <2>5. TypeOK'
    BY <1>1, <2>1, <2>3, <2>4 DEF TypeOK, StateRec, PingRec, PongRec
  <2>6. RttSamplesAccurate'
    BY <2>2, <2>3 DEF SoundSamples, RttSamplesAccurate, TwiceError
  <2>7. SampleCount' /\ CompletionOnce'
    <3>1. Len(Collected(q)) \in Nat /\ Len(Collected(q)) <= Threshold + 2
      BY <2>1, CollectedSound
    <3> QED
      BY <2>1, <2>3, <3>1, MeasurementAssumption
         DEF Enough, SampleCount, CompletionOnce
  <2> QED
    BY <2>4, <2>5, <2>6, <2>7 DEF IInv
<1>5. CASE PongNext(q)
  <2>1. /\ S' = Pinged(st) /\ TakenAndSent(q, PingOf(st))
        /\ UNCHANGED <<now, rsess, starts, result>>
        /\ S.active /\ q.sess = S.target /\ ~Enough(Collected(q))
    BY <1>5 DEF PongNext
  <2>2. /\ st \in StateRec /\ st.active = S.active /\ st.target = S.target
        /\ st.samples = Collected(q) /\ SoundSamples(st)
    BY <2>1, WithCollected
  <2> HIDE DEF st
  <2>3. /\ S' \in StateRec /\ S'.active = st.active
        /\ S'.samples = Collected(q) /\ S'.target = st.target
        /\ PingOf(st) \in PingRec /\ PingOf(st).ht = now
        /\ PingOf(st).type # "PONG"
    BY <1>1, <2>1, <2>2, PingSound
  <2>4. now <= now
    BY <1>1
  <2>5. wire' \subseteq wire \cup {PingOf(st)} /\ dups' \in Nat
    BY <1>1, <2>1, TakenAndSentShrinks
  <2>6. wire' \subseteq PingRec \cup PongRec /\ WireSound'
    BY <1>1, <2>3, <2>4, <2>5, WireKeeps
  <2>7. TypeOK'
    BY <1>1, <2>1, <2>3, <2>5, <2>6 DEF TypeOK, StateRec, PingRec, PongRec
  <2>8. RttSamplesAccurate'
    BY <2>2, <2>3 DEF SoundSamples, RttSamplesAccurate, TwiceError
  <2>9. CompletionOnce'
    BY <2>1, <2>2, <2>3 DEF IInv, CompletionOnce
  <2>10. SampleCount'
    <3>1. Len(Collected(q)) \in Nat
      BY <2>1, CollectedSound
    <3>2. result'.status # "ok"
      BY <2>1 DEF IInv, CompletionOnce
    <3> QED
      BY <2>1, <2>3, <3>1, <3>2, MeasurementAssumption DEF Enough, SampleCount
  <2> QED
    BY <2>6, <2>7, <2>8, <2>9, <2>10 DEF IInv
<1> QED
  BY <1>2, <1>3, <1>4, <1>5

\* The responder preserves it: a pong is stamped between its ping and now.
LEMMA RespondIInv ==
    ASSUME IInv, Respond
    PROVE  IInv'
<1>1. PICK m \in wire : /\ m.type = "PING"
                        /\ TakenAndSent(m, Pong(m, rsess, now + Offset[rsess]))
                        /\ UNCHANGED <<now, S, rsess, starts, result>>
  BY DEF Respond
<1> DEFINE p == Pong(m, rsess, now + Offset[rsess])
<1>2. /\ TypeOK /\ m \in PingRec /\ now \in Nat /\ rsess \in Session
      /\ Offset[rsess] \in Int /\ m.ht <= now
  BY <1>1, TypeOKRecs, MeasurementAssumption
     DEF IInv, WireSound, PingRec, PongRec
<1>3. /\ p \in PongRec /\ p.ht = m.ht /\ p.gt = now + Offset[rsess]
      /\ p.sess = rsess
  BY <1>2 DEF Pong, PingRec, PongRec
<1>4. m.ht \in Nat
  BY <1>2 DEF PingRec
<1>5. p.ht <= now /\ p.ht <= p.gt - Offset[p.sess]
      /\ p.gt - Offset[p.sess] <= now
  BY <1>2, <1>3, <1>4
<1> HIDE DEF p
<1>6. wire' \subseteq wire \cup {p} /\ dups' \in Nat
  BY <1>1, <1>2, TakenAndSentShrinks DEF p
<1>7. wire' \subseteq PingRec \cup PongRec /\ WireSound'
  BY <1>1, <1>3, <1>5, <1>6, WireKeeps
<1>8. TypeOK'
  BY <1>1, <1>2, <1>6, <1>7 DEF TypeOK, PingRec, PongRec
<1> QED
  BY <1>1, <1>7, <1>8 DEF IInv, RttSamplesAccurate, SampleCount,
                          CompletionOnce

\* So do loss, the clock and a session switch of the responder.
LEMMA EnvironmentIInv ==
    ASSUME IInv, ResponderSwitch \/ Lose \/ Clock
    PROVE  IInv'
<1>1. TypeOK /\ now \in Nat
  BY DEF IInv, TypeOK
<1>2. /\ UNCHANGED <<S, dups, starts, result>> /\ wire' \subseteq wire
      /\ rsess' \in Session /\ now' \in Nat /\ now <= now'
  BY <1>1 DEF ResponderSwitch, Lose, Clock, TypeOK
<1>3. TypeOK'
  BY <1>1, <1>2 DEF TypeOK
<1>4. WireSound'
  <2> SUFFICES ASSUME NEW m \in wire'
               PROVE  /\ m.ht <= now'
                      /\ m.type = "PONG" =>
                            /\ m.ht <= m.gt - Offset[m.sess]
                            /\ m.gt - Offset[m.sess] <= now'
    BY DEF WireSound
  <2>1. /\ m.ht <= now
        /\ m.type = "PONG" =>
              m.ht <= m.gt - Offset[m.sess] /\ m.gt - Offset[m.sess] <= now
    BY <1>2 DEF IInv, WireSound
  <2>2. m \in PingRec \/ m \in PongRec
    BY <1>1, <1>2, TypeOKRecs
  <2>3. m.ht \in Nat
    BY <2>2 DEF PingRec, PongRec
  <2>4. m.type = "PONG" => m.gt - Offset[m.sess] \in Int
    BY <2>2, MeasurementAssumption DEF PingRec, PongRec
  <2> QED
    BY <1>1, <1>2, <2>1, <2>3, <2>4
<1> QED
  BY <1>2, <1>3, <1>4 DEF IInv, RttSamplesAccurate, SampleCount,
                          CompletionOnce

\* Every step preserves the invariant.
LEMMA NextIInv == IInv /\ [Next]_vars => IInv'
<1> SUFFICES ASSUME IInv, [Next]_vars PROVE IInv'
  OBVIOUS
<1>1. CASE \E s \in Session : MeasurementStart(s)
  BY <1>1, StartIInv
<1>2. CASE MeasurementHandleRx
  BY <1>2, PongIInv DEF MeasurementHandleRx
<1>3. CASE UNCHANGED vars
  BY <1>3 DEF vars, IInv, TypeOK, WireSound, RttSamplesAccurate, SampleCount,
              CompletionOnce
<1> QED
  BY <1>1, <1>2, <1>3, TickIInv, RespondIInv, EnvironmentIInv DEF Next

\* The invariant holds in every reachable state.
LEMMA Invariance == Spec => []IInv
BY InitIInv, NextIInv, PTL DEF Spec

---------------------------------------------------------------------------
\* Type correctness of the measurement state and of the datagrams.
THEOREM TypeCorrect == Spec => []TypeOK
<1>1. IInv => TypeOK
  BY DEF IInv
<1> QED
  BY <1>1, Invariance, PTL

\* Every round-trip sample is within half its round trip of the true offset,
\* whatever the network does to the datagrams.
THEOREM RoundTripAccuracy == Spec => []RttSamplesAccurate
<1>1. IInv => RttSamplesAccurate
  BY DEF IInv
<1> QED
  BY <1>1, Invariance, PTL

\* Success means more samples than the threshold; the array never overflows.
THEOREM SampleCountHolds == Spec => []SampleCount
<1>1. IInv => SampleCount
  BY DEF IInv
<1> QED
  BY <1>1, Invariance, PTL

\* The measurement module implements MeasureService: one verdict for each
\* measurement, and no late pong changes it.
THEOREM ImplementsService == Spec => RefinesService
<1>1. Init => Service!Init
  <2> SUFFICES ASSUME Init PROVE Service!Init
    OBVIOUS
  <2>1. PICK s \in Session : S = [Fresh(s) EXCEPT !.active = FALSE]
    BY DEF Init
  <2>2. S.active = FALSE /\ S.target = s
    BY <2>1 DEF Fresh
  <2> QED
    BY <2>2 DEF Init, Service!Init
<1>2. IInv /\ [Next]_vars => [Service!Next]_(Service!vars)
  <2> SUFFICES ASSUME IInv, [Next]_vars
               PROVE  [Service!Next]_(Service!vars)
    OBVIOUS
  <2> USE DEF Service!Next, Service!Start, Service!Done, Service!vars
  <2>1. S \in StateRec
    BY TypeOKRecs DEF IInv
  <2>2. ASSUME NEW s \in Session, MeasurementStart(s)
        PROVE  [Service!Next]_(Service!vars)
    <3>1. CASE S.active
      BY <2>2, <3>1 DEF MeasurementStart
    <3>2. CASE ~S.active
      <4>1. S' = Pinged(Fresh(s)) /\ result'.status = "pending"
        BY <2>2, <3>2 DEF MeasurementStart
      <4>2. S'.active = TRUE /\ S'.target = s
        BY <4>1 DEF Pinged, Fresh
      <4> QED
        BY <3>2, <4>1, <4>2
    <3> QED
      BY <3>1, <3>2
  <2>3. ASSUME NEW st \in StateRec, NEW ok \in BOOLEAN, NEW x,
               Finish(st, ok, x), S.active, st.target = S.target
        PROVE  Service!Done
    <3>1. S'.active = FALSE /\ S'.target = S.target
      BY <2>3 DEF Finish, StateRec
    <3>2. result'.status \in {"ok", "failed"}
      BY <2>3 DEF Finish
    <3> QED
      BY <2>3, <3>1, <3>2
  <2>4. CASE MeasurementTick
    <3>1. CASE TickGiveUp
      BY <2>1, <2>3, <3>1 DEF TickGiveUp, TimerDue
    <3>2. CASE TickRetry
      <4>1. S' = Pinged(S) /\ result' = result
        BY <3>2 DEF TickRetry
      <4>2. S'.active = S.active /\ S'.target = S.target
        BY <4>1, <2>1, PingSound DEF IInv
      <4> QED
        BY <4>1, <4>2
    <3> QED
      BY <2>4, <3>1, <3>2 DEF MeasurementTick
  <2>5. ASSUME NEW q \in wire, q.type = "PONG",
               PongIgnored(q) \/ PongMismatch(q) \/ PongFinal(q) \/ PongNext(q)
        PROVE  [Service!Next]_(Service!vars)
    <3>1. CASE PongIgnored(q)
      BY <3>1 DEF PongIgnored
    <3>2. CASE PongMismatch(q)
      BY <2>1, <2>3, <3>2 DEF PongMismatch
    <3>3. CASE PongFinal(q)
      <4>1. PICK st : /\ st = [S EXCEPT !.samples = Collected(q),
                                        !.prev_ghost = q.gt]
                      /\ Finish(st, TRUE, Estimate(Collected(q)))
        BY <3>3 DEF PongFinal
      <4>2. st \in StateRec /\ st.target = S.target /\ S.active
        BY <2>5, <3>3, <4>1, WithCollected DEF PongFinal
      <4> QED
        BY <2>3, <4>1, <4>2
    <3>4. CASE PongNext(q)
      <4>1. PICK st : /\ st = [S EXCEPT !.samples = Collected(q),
                                        !.prev_ghost = q.gt]
                      /\ S' = Pinged(st)
        BY <3>4 DEF PongNext
      <4>2. st \in StateRec /\ st.target = S.target /\ st.active = S.active
        BY <2>5, <3>4, <4>1, WithCollected DEF PongNext
      <4>3. S'.active = S.active /\ S'.target = S.target
        BY <4>1, <4>2, PingSound DEF IInv
      <4> QED
        BY <3>4, <4>3 DEF PongNext
    <3> QED
      BY <2>5, <3>1, <3>2, <3>3, <3>4
  <2>6. CASE MeasurementHandleRx
    BY <2>5, <2>6 DEF MeasurementHandleRx
  <2>7. CASE Respond \/ ResponderSwitch \/ Lose \/ Clock \/ UNCHANGED vars
    BY <2>7 DEF Respond, ResponderSwitch, Lose, Clock, vars
  <2> QED
    BY <2>2, <2>4, <2>6, <2>7 DEF Next
<1> QED
  BY <1>1, <1>2, Invariance, PTL DEF Spec, RefinesService, Service!Spec

---------------------------------------------------------------------------
(* The second sample of a pong is as good as the reply it averages in: that *)
(* has to be an instant of the same clock, before the ping was sent.       *)

\* A ghost time that a ping carries was read before the ping was sent.
WirePast ==
    \A m \in wire : m.pgt # 0 => m.pgt - Offset[m.of] <= m.ht

\* So was the one that the next ping will carry.
GhostPast == S.prev_ghost # 0 => S.prev_ghost - Offset[S.target] <= now

\* The previous reply is a past instant of the clock it is said to be of.
PastInv == WirePast /\ GhostPast /\ PrevSamplesAccurate

\* C division by two is off by at most a half.
LEMMA HalfOfInt ==
    ASSUME NEW x \in Int
    PROVE  Half(x) \in Int /\ x - 1 <= 2 * Half(x) /\ 2 * Half(x) <= x + 1
BY DEF Half

\* A sample that averages in the previous reply of the same session.
LEMMA PrevSampleSound ==
    ASSUME IInv, WirePast, NEW q \in wire, q.type = "PONG", PrevSample(q).kind = "prev"
    PROVE  Abs(TwiceError(PrevSample(q), q.sess)) <= PrevSample(q).span + 1
<1>1. /\ q \in PongRec /\ now \in Nat
      /\ q.ht <= now /\ q.ht <= q.gt - Offset[q.sess]
      /\ q.gt - Offset[q.sess] <= now
  BY TypeOKRecs DEF IInv, WireSound, PingRec, PongRec
<1>2. q.ht \in Int /\ q.gt \in Int /\ q.pgt \in Int /\ Offset[q.sess] \in Int
  BY <1>1, MeasurementAssumption DEF PongRec
<1>3. q.pgt # 0 /\ q.of = q.sess
  BY DEF PrevSample, PrevKind
<1>4. q.pgt - Offset[q.sess] <= q.ht
  BY <1>3 DEF WirePast
<1>5. PICK h \in Int : /\ h = Half(q.gt + q.pgt)
                       /\ q.gt + q.pgt - 1 <= 2 * h /\ 2 * h <= q.gt + q.pgt + 1
  BY <1>2, HalfOfInt
<1>6. /\ PrevSample(q).v = h - q.ht
      /\ PrevSample(q).span = now - (q.pgt - Offset[q.sess])
  BY <1>3, <1>5 DEF PrevSample, PrevSpan
<1>7. /\ 2 * ((h - q.ht) - Offset[q.sess]) <= (now - (q.pgt - Offset[q.sess])) + 1
      /\ -(2 * ((h - q.ht) - Offset[q.sess])) <= (now - (q.pgt - Offset[q.sess])) + 1
  <2> DEFINE g == q.gt
             pg == q.pgt
             t == q.ht
             d == Offset[q.sess]
  <2>1. /\ g \in Int /\ pg \in Int /\ t \in Int /\ d \in Int /\ now \in Int
        /\ g + pg - 1 <= 2 * h /\ 2 * h <= g + pg + 1
        /\ t <= g - d /\ g - d <= now /\ pg - d <= t /\ t <= now
    BY <1>1, <1>2, <1>4, <1>5
  <2> HIDE DEF g, pg, t, d
  <2>2. /\ 2 * ((h - t) - d) <= (now - (pg - d)) + 1
        /\ -(2 * ((h - t) - d)) <= (now - (pg - d)) + 1
    BY <2>1
  <2> QED
    BY <2>2 DEF g, pg, t, d
<1> QED
  BY <1>6, <1>7 DEF TwiceError, Abs

\* The samples part, for samples z and the target t.
Averaged(z, t) ==
    \A i \in DOMAIN z :
        z[i].kind = "prev" => Abs(TwiceError(z[i], t)) <= z[i].span + 1

\* One more sample that is as accurate.
LEMMA AveragedAppend ==
    ASSUME NEW z \in Seq(SampleRec), NEW t, NEW x \in SampleRec, Averaged(z, t),
           x.kind = "prev" => Abs(TwiceError(x, t)) <= x.span + 1
    PROVE  Append(z, x) \in Seq(SampleRec) /\ Averaged(Append(z, x), t)
<1> DEFINE y == Append(z, x)
<1>1. /\ y \in Seq(SampleRec) /\ Len(y) = Len(z) + 1 /\ Len(z) \in Nat
      /\ DOMAIN y = 1 .. Len(y) /\ DOMAIN z = 1 .. Len(z)
      /\ \A i \in 1 .. Len(y) : y[i] = IF i <= Len(z) THEN z[i] ELSE x
  OBVIOUS
<1> HIDE DEF y
<1>2. ASSUME NEW i \in DOMAIN y, y[i].kind = "prev"
      PROVE  Abs(TwiceError(y[i], t)) <= y[i].span + 1
  <2>1. CASE i <= Len(z)
    <3>1. i \in DOMAIN z /\ y[i] = z[i]
      BY <1>1, <2>1
    <3> QED BY <1>2, <3>1 DEF Averaged
  <2>2. CASE ~(i <= Len(z))
    BY <1>1, <1>2, <2>2
  <2> QED BY <2>1, <2>2
<1>3. y \in Seq(SampleRec) /\ Averaged(y, t)
  BY <1>1, <1>2 DEF Averaged
<1> QED
  BY <1>3 DEF y

\* What a pong of the target session adds.
LEMMA CollectedAveraged ==
    ASSUME IInv, PastInv, NEW q \in wire, q.type = "PONG", S.active, q.sess = S.target
    PROVE  Averaged(Collected(q), S.target)
<1>1. S.samples \in Seq(SampleRec)
  BY TypeOKRecs DEF IInv, StateRec
<1>2. RttSample(q) \in SampleRec /\ PrevSample(q) \in SampleRec
  BY RttSampleSound, PrevSampleType
<1>3. RttSample(q).kind # "prev"
  BY DEF RttSample
<1>4. PrevSample(q).kind = "prev" =>
         Abs(TwiceError(PrevSample(q), S.target)) <= PrevSample(q).span + 1
  BY PrevSampleSound DEF PastInv
<1>5. Averaged(S.samples, S.target)
  BY DEF PastInv, PrevSamplesAccurate, Averaged
<1> DEFINE s1 == Append(S.samples, RttSample(q))
<1>6. s1 \in Seq(SampleRec) /\ Averaged(s1, S.target)
  BY <1>1, <1>2, <1>3, <1>5, AveragedAppend
<1> HIDE DEF s1
<1>7. Averaged(Append(s1, PrevSample(q)), S.target)
  BY <1>2, <1>4, <1>6, AveragedAppend
<1> QED
  BY <1>6, <1>7, CollectedCases DEF s1

\* What a ping carries of the state it is sent from.
LEMMA PingCarries ==
    ASSUME TypeOK, NEW st \in StateRec
    PROVE  /\ PingOf(st).pgt = st.prev_ghost /\ PingOf(st).of = st.target
           /\ PingOf(st).ht = now /\ Pinged(st).prev_ghost = st.prev_ghost
           /\ Pinged(st).target = st.target /\ Pinged(st).samples = st.samples
<1>1. Pinged(st).prev_ghost = st.prev_ghost
  BY DEF Pinged, StateRec
<1> QED
  BY <1>1, PingSound DEF PingOf, Ping

\* A step that sends at most a ping from a state whose ghost time is past.
LEMMA PastKeeps ==
    ASSUME PastInv, NEW p, p.pgt # 0 => p.pgt - Offset[p.of] <= p.ht,
           wire' \subseteq wire \cup {p}
    PROVE  WirePast'
BY DEF PastInv, WirePast

\* Before the first ping there is no previous reply.
LEMMA PastInit == Init => PastInv
<1> SUFFICES ASSUME Init PROVE PastInv
  OBVIOUS
<1>1. PICK s \in Session : S = [Fresh(s) EXCEPT !.active = FALSE]
  BY DEF Init
<1>2. S.samples = <<>> /\ S.prev_ghost = 0
  BY <1>1 DEF Fresh
<1> QED
  BY <1>2 DEF Init, PastInv, WirePast, GhostPast, PrevSamplesAccurate

\* The parts of the state that the three parts are about.
LEMMA PastSame ==
    ASSUME PastInv, IInv, now' \in Nat, now <= now', WirePast',
           S'.prev_ghost = S.prev_ghost, S'.target = S.target, S'.samples = S.samples
    PROVE  PastInv'
<1>1. S.prev_ghost \in Int /\ Offset[S.target] \in Int /\ now \in Nat
  BY TypeOKRecs, MeasurementAssumption DEF IInv, StateRec
<1>2. GhostPast'
  BY <1>1 DEF PastInv, GhostPast
<1>3. PrevSamplesAccurate'
  BY DEF PastInv, PrevSamplesAccurate, TwiceError
<1> QED
  BY <1>2, <1>3 DEF PastInv

\* measurement_start forgets the previous reply.
LEMMA PastStart ==
    ASSUME IInv, PastInv, NEW s \in Session, MeasurementStart(s)
    PROVE  PastInv'
<1>1. TypeOK /\ now' = now /\ now \in Nat
  BY DEF IInv, TypeOK, MeasurementStart
<1>2. CASE S.active
  <2>1. UNCHANGED <<S, wire>>
    BY <1>2 DEF MeasurementStart
  <2> QED
    BY <1>1, <2>1 DEF PastInv, WirePast, GhostPast, PrevSamplesAccurate, TwiceError
<1>3. CASE ~S.active
  <2>1. S' = Pinged(Fresh(s)) /\ wire' = wire \cup {PingOf(Fresh(s))}
    BY <1>3 DEF MeasurementStart
  <2>2. Fresh(s) \in StateRec /\ Fresh(s).prev_ghost = 0 /\ Fresh(s).samples = <<>>
    BY DEF Fresh, StateRec
  <2>3. S'.prev_ghost = 0 /\ S'.samples = <<>> /\ PingOf(Fresh(s)).pgt = 0
    BY <1>1, <2>1, <2>2, PingCarries
  <2>4. WirePast'
    BY <2>1, <2>3, PastKeeps
  <2> QED
    BY <2>3, <2>4 DEF PastInv, GhostPast, PrevSamplesAccurate
<1> QED
  BY <1>2, <1>3

\* A retry sends what the state holds.
LEMMA PastTick ==
    ASSUME IInv, PastInv, MeasurementTick
    PROVE  PastInv'
<1>1. TypeOK /\ S \in StateRec /\ now' = now /\ now \in Nat /\ now <= now'
  <2>1. TypeOK /\ S \in StateRec /\ now' = now /\ now \in Nat
    BY TypeOKRecs DEF IInv, MeasurementTick, TickGiveUp, TickRetry
  <2> QED BY <2>1
<1>2. CASE TickGiveUp
  <2>1. S' = [S EXCEPT !.active = FALSE] /\ wire' = wire
    BY <1>2 DEF TickGiveUp, Finish
  <2>2. S'.prev_ghost = S.prev_ghost /\ S'.target = S.target /\ S'.samples = S.samples
    BY <1>1, <2>1 DEF StateRec
  <2>3. WirePast'
    BY <2>1 DEF PastInv, WirePast
  <2> QED
    BY <1>1, <2>2, <2>3, PastSame
<1>3. CASE TickRetry
  <2>1. S' = Pinged(S) /\ wire' = wire \cup {PingOf(S)}
    BY <1>3 DEF TickRetry
  <2>2. /\ S'.prev_ghost = S.prev_ghost /\ S'.target = S.target /\ S'.samples = S.samples
        /\ PingOf(S).pgt = S.prev_ghost /\ PingOf(S).of = S.target /\ PingOf(S).ht = now
    BY <1>1, <2>1, PingCarries
  <2>3. WirePast'
    BY <2>1, <2>2, PastKeeps DEF PastInv, GhostPast
  <2> QED
    BY <1>1, <2>2, <2>3, PastSame
<1> QED
  BY <1>2, <1>3 DEF MeasurementTick

\* A pong of the target session becomes the previous reply.
LEMMA PastPong ==
    ASSUME IInv, PastInv, NEW q \in wire, q.type = "PONG",
           PongIgnored(q) \/ PongMismatch(q) \/ PongFinal(q) \/ PongNext(q)
    PROVE  PastInv'
<1> DEFINE st == [S EXCEPT !.samples = Collected(q), !.prev_ghost = q.gt]
<1>1. TypeOK /\ S \in StateRec /\ now \in Nat /\ now' = now /\ now <= now'
  <2>1. TypeOK /\ S \in StateRec /\ now \in Nat /\ now' = now
    BY TypeOKRecs DEF IInv, PongIgnored, PongMismatch, PongFinal, PongNext
  <2> QED BY <2>1
<1>2. ASSUME Taken(q) PROVE WirePast'
  BY <1>1, <1>2, TakenShrinks DEF PastInv, WirePast
<1>3. CASE PongIgnored(q)
  <2>1. S' = S /\ WirePast'
    BY <1>2, <1>3 DEF PongIgnored
  <2> QED
    BY <1>1, <2>1, PastSame
<1>4. CASE PongMismatch(q)
  <2>1. S' = [S EXCEPT !.active = FALSE] /\ WirePast'
    BY <1>2, <1>4 DEF PongMismatch, Finish
  <2>2. S'.prev_ghost = S.prev_ghost /\ S'.target = S.target /\ S'.samples = S.samples
    BY <1>1, <2>1 DEF StateRec
  <2> QED
    BY <1>1, <2>1, <2>2, PastSame
<1>5. ASSUME S.active, q.sess = S.target, S'.target = S.target,
             S'.samples = Collected(q), S'.prev_ghost = q.gt, WirePast'
      PROVE  PastInv'
  <2>1. Averaged(Collected(q), S.target)
    BY <1>5, CollectedAveraged
  <2>2. PrevSamplesAccurate'
    BY <1>5, <2>1 DEF Averaged, PrevSamplesAccurate, TwiceError
  <2>3. q.gt - Offset[S.target] <= now
    BY <1>5 DEF IInv, WireSound
  <2>4. GhostPast'
    BY <1>1, <1>5, <2>3 DEF GhostPast
  <2> QED
    BY <1>5, <2>2, <2>4 DEF PastInv
<1>6. ASSUME S.active, q.sess = S.target
      PROVE  st \in StateRec /\ st.target = S.target /\ st.samples = Collected(q)
             /\ st.prev_ghost = q.gt
  <2>1. st \in StateRec /\ st.target = S.target /\ st.samples = Collected(q)
    BY <1>6, WithCollected
  <2>2. st.prev_ghost = q.gt
    BY <1>1 DEF StateRec
  <2> QED BY <2>1, <2>2
<1>7. CASE PongFinal(q)
  <2>1. S' = [st EXCEPT !.active = FALSE] /\ WirePast' /\ S.active /\ q.sess = S.target
    BY <1>2, <1>7 DEF PongFinal, Finish
  <2>2. st \in StateRec /\ st.target = S.target /\ st.samples = Collected(q)
             /\ st.prev_ghost = q.gt
    BY <1>6, <2>1
  <2> HIDE DEF st
  <2>3. S'.target = S.target /\ S'.samples = Collected(q) /\ S'.prev_ghost = q.gt
    BY <2>1, <2>2 DEF StateRec
  <2> QED
    BY <1>5, <2>1, <2>3
<1>8. CASE PongNext(q)
  <2>1. S' = Pinged(st) /\ TakenAndSent(q, PingOf(st)) /\ S.active /\ q.sess = S.target
    BY <1>8 DEF PongNext
  <2>2. st \in StateRec /\ st.target = S.target /\ st.samples = Collected(q)
             /\ st.prev_ghost = q.gt
    BY <1>6, <2>1
  <2> HIDE DEF st
  <2>3. /\ S'.target = S.target /\ S'.samples = Collected(q) /\ S'.prev_ghost = q.gt
        /\ PingOf(st).pgt = q.gt /\ PingOf(st).of = S.target /\ PingOf(st).ht = now
    BY <1>1, <2>1, <2>2, PingCarries
  <2>4. q.gt - Offset[S.target] <= now
    BY <2>1 DEF IInv, WireSound
  <2>5. wire' \subseteq wire \cup {PingOf(st)}
    BY <1>1, <2>1, TakenAndSentShrinks
  <2>6. WirePast'
    BY <2>3, <2>4, <2>5, PastKeeps
  <2> QED
    BY <1>5, <2>1, <2>3, <2>6
<1> QED
  BY <1>3, <1>4, <1>7, <1>8

\* The responder echoes what it got.
LEMMA PastRespond ==
    ASSUME IInv, PastInv, Respond
    PROVE  PastInv'
<1>1. PICK m \in wire : /\ m.type = "PING"
                        /\ TakenAndSent(m, Pong(m, rsess, now + Offset[rsess]))
                        /\ UNCHANGED <<now, S>>
  BY DEF Respond
<1> DEFINE r == Pong(m, rsess, now + Offset[rsess])
<1>2. r.pgt = m.pgt /\ r.of = m.of /\ r.ht = m.ht
  BY DEF Pong
<1>3. wire' \subseteq wire \cup {r} /\ now \in Nat
  BY <1>1, TakenAndSentShrinks DEF IInv, TypeOK
<1> HIDE DEF r
<1>4. WirePast'
  BY <1>1, <1>2, <1>3, PastKeeps DEF PastInv, WirePast
<1>5. now' \in Nat /\ now <= now' /\ S' = S
  BY <1>1, <1>3
<1> QED
  BY <1>4, <1>5, PastSame

\* Time only moves the instants further into the past.
LEMMA PastEnvironment ==
    ASSUME IInv, PastInv, ResponderSwitch \/ Lose \/ Clock
    PROVE  PastInv'
<1>1. now \in Nat
  BY DEF IInv, TypeOK
<1>2. S' = S /\ wire' \subseteq wire /\ now' \in Nat /\ now <= now'
  BY <1>1 DEF ResponderSwitch, Lose, Clock
<1>3. WirePast'
  BY <1>2 DEF PastInv, WirePast
<1> QED
  BY <1>2, <1>3, PastSame

\* Every step keeps the previous replies in the past.
LEMMA PastNext == IInv /\ PastInv /\ [Next]_vars => PastInv'
<1> SUFFICES ASSUME IInv, PastInv, [Next]_vars PROVE PastInv'
  OBVIOUS
<1>1. CASE \E s \in Session : MeasurementStart(s)
  BY <1>1, PastStart
<1>2. CASE MeasurementHandleRx
  BY <1>2, PastPong DEF MeasurementHandleRx
<1>3. CASE UNCHANGED vars
  BY <1>3 DEF vars, PastInv, WirePast, GhostPast, PrevSamplesAccurate, TwiceError
<1> QED
  BY <1>1, <1>2, <1>3, PastTick, PastRespond, PastEnvironment DEF Next

\* measurement.c:143-147.  A sample that averages in the previous reply of the
\* session is within half the time it spans of the true offset, whatever the
\* network does, and whichever measurement its ping belonged to.
THEOREM AveragedAccuracy == Spec => []PrevSamplesAccurate
<1>1. PastInv => PrevSamplesAccurate
  BY DEF PastInv
<1> QED
  BY <1>1, Invariance, PastInit, PastNext, PTL DEF Spec

---------------------------------------------------------------------------
(* The reported intercept.  It is the median of the samples, and the k-th *)
(* smallest of them exists by counting; so when fewer than half of them    *)
(* mislead, it lies between two accurate ones.                             *)

\* A set of naturals has a least element.
LEMMA LeastNat ==
    ASSUME NEW T \in SUBSET Nat, T # {}
    PROVE  \E x \in T : \A y \in T : x <= y
<1> DEFINE R == OpToRel(<, Nat)
<1>1. IsWellFoundedOn(R, Nat)
  BY NatLessThanWellFounded
<1> HIDE DEF R
<1>2. PICK x \in T : \A y \in T : ~(<<y, x>> \in R)
  BY <1>1, WFMin
<1>3. \A y \in T : y < x => <<y, x>> \in R
  BY DEF OpToRel, R
<1>4. ASSUME NEW y \in T PROVE x <= y
  <2>1. x \in Nat /\ y \in Nat /\ ~(y < x)
    BY <1>2, <1>3
  <2> QED
    BY <2>1
<1> QED
  BY <1>4

\* A set of positions has at most as many members as there are positions.
LEMMA PositionSets ==
    ASSUME NEW N \in Nat, NEW T \in SUBSET (1 .. N)
    PROVE  IsFiniteSet(T) /\ Cardinality(T) \in 0 .. N
<1>1. IsFiniteSet(1 .. N) /\ Cardinality(1 .. N) = N
  <2>1. 1 \in Int /\ N \in Int
    OBVIOUS
  <2> QED
    BY <2>1, FS_Interval
<1>2. IsFiniteSet(T) /\ Cardinality(T) <= N
  BY <1>1, FS_Subset
<1>3. Cardinality(T) \in Nat
  BY <1>2, FS_CardinalityType
<1> QED
  BY <1>2, <1>3

\* A larger set of positions has more members.
LEMMA PositionSubsets ==
    ASSUME NEW N \in Nat, NEW T \in SUBSET (1 .. N), NEW U \in SUBSET T
    PROVE  /\ Cardinality(U) <= Cardinality(T)
           /\ U # T => Cardinality(U) < Cardinality(T)
<1>1. /\ IsFiniteSet(T) /\ Cardinality(T) \in 0 .. N
      /\ IsFiniteSet(U) /\ Cardinality(U) \in 0 .. N
  BY PositionSets
<1>2. Cardinality(U) <= Cardinality(T) /\ (Cardinality(T) = Cardinality(U) => T = U)
  BY <1>1, FS_Subset
<1> QED
  BY <1>1, <1>2

\* Among some positions there is one of a largest value.
LEMMA LargestAt ==
    ASSUME NEW N \in Nat, NEW z \in [1 .. N -> Int],
           NEW T \in SUBSET (1 .. N), T # {}
    PROVE  \E i \in T : \A j \in T : z[j] <= z[i]
<1> DEFINE Up(i) == {j \in T : z[j] <= z[i]}
           D == {N - Cardinality(Up(i)) : i \in T}
<1>1. \A i \in T : Up(i) \in SUBSET (1 .. N) /\ Cardinality(Up(i)) \in 0 .. N
  BY PositionSets
<1>2. D \in SUBSET Nat /\ D # {}
  <2>1. \A i \in T : Cardinality(Up(i)) \in 0 .. N
    BY <1>1
  <2> HIDE DEF Up
  <2>2. \A i \in T : N - Cardinality(Up(i)) \in Nat
    BY <2>1
  <2> QED
    BY <2>2
<1>3. PICK x \in D : \A y \in D : x <= y
  <2> HIDE DEF D
  <2> QED
    BY <1>2, LeastNat
<1>4. PICK i \in T : x = N - Cardinality(Up(i))
  OBVIOUS
<1>5. ASSUME NEW j \in T, ~(z[j] <= z[i])
      PROVE  FALSE
  <2>1. z[i] \in Int /\ z[j] \in Int /\ z[i] < z[j]
    BY <1>5
  <2>2. Up(i) \in SUBSET Up(j) /\ j \in Up(j) /\ j \notin Up(i)
    <3>1. \A h \in T : z[h] \in Int
      OBVIOUS
    <3>2. \A h \in T : z[h] <= z[i] => z[h] <= z[j]
      BY <2>1, <3>1
    <3>3. z[j] <= z[j] /\ ~(z[j] <= z[i])
      BY <2>1
    <3> QED
      BY <3>2, <3>3
  <2>3. Up(j) \in SUBSET (1 .. N) /\ Cardinality(Up(j)) \in 0 .. N
        /\ Cardinality(Up(i)) \in 0 .. N
    BY <1>1
  <2>4. N - Cardinality(Up(j)) \in D
    BY <1>5
  <2> HIDE DEF Up, D
  <2>5. Cardinality(Up(i)) < Cardinality(Up(j))
    BY <2>2, <2>3, PositionSubsets
  <2>6. N - Cardinality(Up(i)) <= N - Cardinality(Up(j))
    BY <1>3, <1>4, <2>4
  <2> QED
    BY <2>3, <2>5, <2>6
<1> QED
  BY <1>5

\* And one of a smallest value.
LEMMA SmallestAt ==
    ASSUME NEW N \in Nat, NEW z \in [1 .. N -> Int],
           NEW T \in SUBSET (1 .. N), T # {}
    PROVE  \E i \in T : \A j \in T : z[i] <= z[j]
<1> DEFINE neg == [i \in 1 .. N |-> -z[i]]
<1>1. neg \in [1 .. N -> Int]
  OBVIOUS
<1>2. PICK i \in T : \A j \in T : neg[j] <= neg[i]
  <2> HIDE DEF neg
  <2> QED
    BY <1>1, LargestAt
<1>3. \A j \in T : z[j] \in Int /\ neg[j] = -z[j]
  OBVIOUS
<1> HIDE DEF neg
<1> QED
  BY <1>2, <1>3

\* The positions of the values below v, and up to v.
Lower(z, v) == {i \in DOMAIN z : z[i] < v}
UpTo(z, v) == {i \in DOMAIN z : z[i] <= v}

\* The q-th smallest value exists.
LEMMA KthExists ==
    ASSUME NEW N \in Nat, NEW z \in [1 .. N -> Int], NEW q \in 0 .. N - 1
    PROVE  /\ KthSmallest(z, q) \in {z[i] : i \in 1 .. N}
           /\ Cardinality(Lower(z, KthSmallest(z, q))) <= q
           /\ Cardinality(UpTo(z, KthSmallest(z, q))) > q
<1>1. \A v \in Int : Lower(z, v) \in SUBSET (1 .. N) /\ UpTo(z, v) \in SUBSET (1 .. N)
  BY DEF Lower, UpTo
<1> DEFINE T == {i \in 1 .. N : Cardinality(Lower(z, z[i])) <= q}
<1>2. T # {}
  <2>1. 1 .. N # {} /\ 1 .. N \in SUBSET (1 .. N)
    OBVIOUS
  <2>2. PICK i \in 1 .. N : \A j \in 1 .. N : z[i] <= z[j]
    BY <2>1, SmallestAt
  <2>3. Lower(z, z[i]) = {}
    BY <2>2 DEF Lower
  <2>4. Cardinality(Lower(z, z[i])) <= q
    BY <2>3, FS_EmptySet
  <2> QED
    BY <2>4
<1>3. PICK i \in T : \A j \in T : z[j] <= z[i]
  <2>1. T \in SUBSET (1 .. N)
    OBVIOUS
  <2> HIDE DEF T
  <2> QED
    BY <1>2, <2>1, LargestAt
<1>4. i \in 1 .. N /\ z[i] \in Int /\ Cardinality(Lower(z, z[i])) <= q
  OBVIOUS
<1>5. Cardinality(UpTo(z, z[i])) > q
  <2> SUFFICES ASSUME ~(Cardinality(UpTo(z, z[i])) > q) PROVE FALSE
    OBVIOUS
  <2> DEFINE U == {j \in 1 .. N : z[i] < z[j]}
  <2>1. Cardinality(UpTo(z, z[i])) \in 0 .. N /\ Cardinality(1 .. N) = N
    <3>1. Cardinality(UpTo(z, z[i])) \in 0 .. N
      BY <1>1, <1>4, PositionSets
    <3>2. 1 \in Int /\ N \in Int /\ ~(1 > N) /\ N - 1 + 1 = N
      OBVIOUS
    <3>3. Cardinality(1 .. N) = N - 1 + 1
      BY <3>2, FS_Interval
    <3> QED
      BY <3>1, <3>2, <3>3
  <2>2. U # {}
    <3> SUFFICES ASSUME U = {} PROVE FALSE
      OBVIOUS
    <3>1. UpTo(z, z[i]) = 1 .. N
      BY <1>4 DEF UpTo
    <3> QED
      BY <2>1, <3>1
  <2>3. PICK j \in U : \A h \in U : z[j] <= z[h]
    <3>1. U \in SUBSET (1 .. N)
      OBVIOUS
    <3> HIDE DEF U
    <3> QED
      BY <2>2, <3>1, SmallestAt
  <2>4. j \in 1 .. N /\ z[j] \in Int /\ z[i] < z[j]
    OBVIOUS
  <2>5. Lower(z, z[j]) = UpTo(z, z[i])
    <3>1. ASSUME NEW h \in 1 .. N
          PROVE  z[h] < z[j] <=> z[h] <= z[i]
      <4>1. z[h] \in Int
        OBVIOUS
      <4>2. ~(z[h] <= z[i]) => h \in U
        BY <1>4, <4>1
      <4> HIDE DEF U
      <4> QED
        BY <1>4, <2>3, <2>4, <4>1, <4>2
    <3> QED
      BY <3>1 DEF Lower, UpTo
  <2>6. j \in T
    BY <2>1, <2>4, <2>5
  <2> QED
    BY <1>3, <1>4, <2>4, <2>6
<1>6. /\ {h \in DOMAIN z : z[h] < z[i]} = Lower(z, z[i])
      /\ {h \in DOMAIN z : z[h] <= z[i]} = UpTo(z, z[i])
  BY DEF Lower, UpTo
<1>7. \E v \in {z[h] : h \in DOMAIN z} :
         /\ Cardinality({h \in DOMAIN z : z[h] < v}) <= q
         /\ Cardinality({h \in DOMAIN z : z[h] <= v}) > q
  BY <1>4, <1>5, <1>6
<1> QED
  BY <1>7 DEF KthSmallest, Lower, UpTo

\* When the positions B are too few to fill either side of rank q, the q-th
\* smallest value lies between two values at other positions.
LEMMA KthBetween ==
    ASSUME NEW N \in Nat, NEW z \in [1 .. N -> Int], NEW q \in 0 .. N - 1,
           NEW B \in SUBSET (1 .. N),
           Cardinality(B) <= q, Cardinality(B) < N - q
    PROVE  /\ KthSmallest(z, q) \in Int
           /\ \E i, j \in (1 .. N) \ B :
                 z[i] <= KthSmallest(z, q) /\ KthSmallest(z, q) <= z[j]
<1> DEFINE v == KthSmallest(z, q)
<1>1. /\ v \in {z[i] : i \in 1 .. N}
      /\ Cardinality(Lower(z, v)) <= q /\ Cardinality(UpTo(z, v)) > q
  BY KthExists
<1>2. v \in Int
  BY <1>1
<1> HIDE DEF v
<1> DEFINE High == (1 .. N) \ Lower(z, v)
<1>3. /\ UpTo(z, v) \in SUBSET (1 .. N) /\ Lower(z, v) \in SUBSET (1 .. N)
      /\ High \in SUBSET (1 .. N)
  BY DEF UpTo, Lower
<1>4. /\ Cardinality(B) \in 0 .. N /\ Cardinality(UpTo(z, v)) \in 0 .. N
      /\ Cardinality(Lower(z, v)) \in 0 .. N /\ Cardinality(High) \in 0 .. N
  <2> HIDE DEF High
  <2> QED
    BY <1>3, PositionSets
<1>5. Cardinality(High) = N - Cardinality(Lower(z, v))
  <2>1. 1 \in Int /\ N \in Int /\ ~(1 > N) /\ N - 1 + 1 = N
    OBVIOUS
  <2>2. IsFiniteSet(1 .. N) /\ Cardinality(1 .. N) = N - 1 + 1
    BY <2>1, FS_Interval
  <2>3. (1 .. N) \cap Lower(z, v) = Lower(z, v)
    BY <1>3
  <2>4. Cardinality(High) = Cardinality(1 .. N) - Cardinality((1 .. N) \cap Lower(z, v))
    BY <2>2, FS_Difference
  <2> HIDE DEF High
  <2> QED
    BY <2>1, <2>2, <2>3, <2>4
<1>6. \E i \in (1 .. N) \ B : z[i] <= v
  <2> SUFFICES ASSUME ~ \E i \in (1 .. N) \ B : z[i] <= v PROVE FALSE
    OBVIOUS
  <2>1. UpTo(z, v) \in SUBSET B
    BY DEF UpTo
  <2>2. Cardinality(UpTo(z, v)) <= Cardinality(B)
    BY <2>1, PositionSubsets
  <2> QED
    BY <1>1, <1>4, <2>2
<1>7. \E j \in (1 .. N) \ B : v <= z[j]
  <2> SUFFICES ASSUME ~ \E j \in (1 .. N) \ B : v <= z[j] PROVE FALSE
    OBVIOUS
  <2>1. High \in SUBSET B
    <3>1. ASSUME NEW h \in High, h \notin B PROVE FALSE
      <4>1. h \in 1 .. N /\ ~(v <= z[h]) /\ z[h] \in Int
        BY <3>1
      <4>2. z[h] < v
        BY <1>2, <4>1
      <4> QED
        BY <3>1, <4>1, <4>2 DEF Lower
    <3> QED
      BY <3>1
  <2> HIDE DEF High
  <2>2. Cardinality(High) <= Cardinality(B)
    BY <2>1, PositionSubsets
  <2> QED
    BY <1>1, <1>4, <1>5, <2>2
<1> QED
  BY <1>2, <1>6, <1>7 DEF v

\* The average of two numbers, as C computes it, is not below both and not
\* above both.
LEMMA HalfBetween ==
    ASSUME NEW x \in Int, NEW y \in Int
    PROVE  /\ Half(x + y) \in Int
           /\ x <= Half(x + y) \/ y <= Half(x + y)
           /\ Half(x + y) <= x \/ Half(x + y) <= y
<1> DEFINE h == Half(x + y)
<1>1. x + y \in Int
  OBVIOUS
<1>2. h \in Int /\ 2 * h - 1 <= x + y /\ x + y <= 2 * h + 1
  BY <1>1, HalfOfInt
<1> HIDE DEF h
<1>3. (x <= h \/ y <= h) /\ (h <= x \/ h <= y)
  BY <1>2
<1> QED
  BY <1>2, <1>3 DEF h

\* A minority cannot move the median past all the others: it lies between
\* two values at positions outside B.
LEMMA MedianBetween ==
    ASSUME NEW z \in Seq(Int), NEW B \in SUBSET DOMAIN z,
           2 * Cardinality(B) < Len(z)
    PROVE  /\ MedianOf(z) \in Int
           /\ \E i, j \in DOMAIN z \ B :
                 z[i] <= MedianOf(z) /\ MedianOf(z) <= z[j]
<1> DEFINE N == Len(z)
<1>1. N \in Nat /\ DOMAIN z = 1 .. N /\ z \in [1 .. N -> Int]
  OBVIOUS
<1>2. Cardinality(B) \in 0 .. N /\ 2 * Cardinality(B) < N
  <2> HIDE DEF N
  <2>1. Cardinality(B) \in 0 .. N
    BY <1>1, PositionSets
  <2> QED
    BY <2>1 DEF N
<1> HIDE DEF N
<1>3. N # 0
  BY <1>1, <1>2
<1>4. CASE N % 2 = 1
  <2>1. MedianOf(z) = KthSmallest(z, N \div 2)
    BY <1>3, <1>4 DEF MedianOf, N
  <2>2. /\ N \div 2 \in 0 .. N - 1 /\ Cardinality(B) <= N \div 2
        /\ Cardinality(B) < N - (N \div 2)
    BY <1>1, <1>2, <1>4
  <2>3. /\ KthSmallest(z, N \div 2) \in Int
        /\ \E i, j \in (1 .. N) \ B :
              z[i] <= KthSmallest(z, N \div 2) /\ KthSmallest(z, N \div 2) <= z[j]
    BY <1>1, <2>2, KthBetween
  <2> QED
    BY <1>1, <2>1, <2>3
<1>5. CASE N % 2 # 1
  <2> DEFINE x == KthSmallest(z, N \div 2 - 1)
             y == KthSmallest(z, N \div 2)
  <2>1. MedianOf(z) = Half(x + y)
    BY <1>3, <1>5 DEF MedianOf, N
  <2>2. /\ N \div 2 \in 0 .. N - 1 /\ Cardinality(B) <= N \div 2
        /\ Cardinality(B) < N - (N \div 2)
    BY <1>1, <1>2, <1>3, <1>5
  <2>3. /\ N \div 2 - 1 \in 0 .. N - 1 /\ Cardinality(B) <= N \div 2 - 1
        /\ Cardinality(B) < N - (N \div 2 - 1)
    BY <1>1, <1>2, <1>3, <1>5
  <2>4. x \in Int /\ \E i, j \in (1 .. N) \ B : z[i] <= x /\ x <= z[j]
    BY <1>1, <2>3, KthBetween
  <2>5. y \in Int /\ \E i, j \in (1 .. N) \ B : z[i] <= y /\ y <= z[j]
    BY <1>1, <2>2, KthBetween
  <2> HIDE DEF x, y
  <2>6. PICK i1, j1 \in (1 .. N) \ B : z[i1] <= x /\ x <= z[j1]
    BY <2>4
  <2>7. PICK i2, j2 \in (1 .. N) \ B : z[i2] <= y /\ y <= z[j2]
    BY <2>5
  <2>8. z[i1] \in Int /\ z[j1] \in Int /\ z[i2] \in Int /\ z[j2] \in Int
    BY <1>1
  <2>9. Half(x + y) \in Int /\ (z[i1] <= Half(x + y) \/ z[i2] <= Half(x + y))
        /\ (Half(x + y) <= z[j1] \/ Half(x + y) <= z[j2])
    <3> DEFINE h == Half(x + y)
    <3>1. h \in Int /\ (x <= h \/ y <= h) /\ (h <= x \/ h <= y)
      BY <2>4, <2>5, HalfBetween
    <3> HIDE DEF h
    <3>2. (z[i1] <= h \/ z[i2] <= h) /\ (h <= z[j1] \/ h <= z[j2])
      <4>1. ASSUME NEW a \in Int, NEW b \in Int, NEW c \in Int, a <= b, b <= c
            PROVE  a <= c
        BY <4>1
      <4>2. z[i1] <= h \/ z[i2] <= h
        BY <2>4, <2>5, <2>6, <2>7, <2>8, <3>1, <4>1
      <4>3. h <= z[j1] \/ h <= z[j2]
        BY <2>4, <2>5, <2>6, <2>7, <2>8, <3>1, <4>1
      <4> QED
        BY <4>2, <4>3
    <3> QED
      BY <3>1, <3>2 DEF h
  <2> QED
    BY <1>1, <2>1, <2>9
<1> QED
  BY <1>4, <1>5

\* What the callback is told is the median of the samples that are kept.
ReportedIsMedian ==
    result.status = "ok" => result.intercept = Estimate(S.samples)

\* Only the last pong reports success, and no later step touches the samples.
LEMMA ReportedStep ==
    ASSUME IInv, ReportedIsMedian, [Next]_vars
    PROVE  ReportedIsMedian'
<1>1. CASE UNCHANGED <<S, result>>
  BY <1>1 DEF ReportedIsMedian
<1>2. CASE \E s \in Session : MeasurementStart(s)
  BY <1>1, <1>2 DEF MeasurementStart, ReportedIsMedian
<1>3. CASE MeasurementTick
  BY <1>3 DEF MeasurementTick, TickGiveUp, TickRetry, TimerDue, Finish, IInv,
              CompletionOnce, ReportedIsMedian
<1>4. ASSUME NEW q \in wire,
             PongIgnored(q) \/ PongMismatch(q) \/ PongFinal(q) \/ PongNext(q)
      PROVE  ReportedIsMedian'
  <2>1. CASE PongIgnored(q)
    BY <1>1, <2>1 DEF PongIgnored
  <2>2. CASE PongMismatch(q)
    BY <2>2 DEF PongMismatch, Finish, ReportedIsMedian
  <2>3. CASE PongNext(q)
    BY <2>3 DEF PongNext, IInv, CompletionOnce, ReportedIsMedian
  <2>4. CASE PongFinal(q)
    <3>1. S \in StateRec
      BY TypeOKRecs DEF IInv
    <3> DEFINE st == [S EXCEPT !.samples = Collected(q), !.prev_ghost = q.gt]
    <3>2. S' = [st EXCEPT !.active = FALSE] /\ result'.intercept = Estimate(Collected(q))
      BY <2>4 DEF PongFinal, Finish
    <3>3. S'.samples = Collected(q)
      BY <3>1, <3>2 DEF StateRec
    <3> QED
      BY <3>2, <3>3 DEF ReportedIsMedian
  <2> QED
    BY <1>4, <2>1, <2>2, <2>3, <2>4
<1> QED
  BY <1>1, <1>2, <1>3, <1>4 DEF Next, MeasurementHandleRx, Respond,
     ResponderSwitch, Lose, Clock, vars

\* The samples that say nothing of the session measured: they average in no
\* reply, or that of another session.
Misleading == {i \in DOMAIN S.samples : S.samples[i].kind \notin {"rtt", "prev"}}

\* measurement.c:149-154.  As long as they are fewer than half of the samples,
\* the reported intercept misses the true offset by no more than half the
\* longest time that any other sample spans, and the rounding.
MinorityOutvoted ==
    result.status = "ok" /\ 2 * Cardinality(Misleading) < Len(S.samples) =>
        \A D \in Nat :
            (\A i \in DOMAIN S.samples \ Misleading : S.samples[i].span <= D) =>
                Abs(2 * (result.intercept - Offset[S.target])) <= D + 1

\* A deviation within the span of a sample is within any bound on the spans.
LEMMA WithinBound ==
    ASSUME NEW d \in Int, NEW sp \in Int, NEW D \in Nat, sp <= D,
           (-sp <= d /\ d <= sp + 1) \/ Abs(d) <= sp + 1
    PROVE  -(D + 1) <= d /\ d <= D + 1
BY DEF Abs

\* The accuracy of the samples and the place of the median give the accuracy
\* of the result.
LEMMA AccurateResult ==
    ASSUME IInv, PastInv, ReportedIsMedian
    PROVE  MinorityOutvoted
<1> SUFFICES ASSUME result.status = "ok",
                    2 * Cardinality(Misleading) < Len(S.samples),
                    NEW D \in Nat,
                    \A i \in DOMAIN S.samples \ Misleading : S.samples[i].span <= D
             PROVE  Abs(2 * (result.intercept - Offset[S.target])) <= D + 1
  BY DEF MinorityOutvoted
<1> DEFINE z == Values(S.samples)
           o == Offset[S.target]
<1>1. S.samples \in Seq(SampleRec) /\ S.target \in Session
  BY TypeOKRecs DEF IInv, StateRec
<1>2. o \in Int
  BY <1>1, MeasurementAssumption
<1>3. /\ z \in Seq(Int) /\ Len(z) = Len(S.samples) /\ DOMAIN z = DOMAIN S.samples
      /\ \A i \in DOMAIN z : z[i] = S.samples[i].v
  <2>1. DOMAIN S.samples = 1 .. Len(S.samples) /\ Len(S.samples) \in Nat
    BY <1>1
  <2>2. \A i \in 1 .. Len(S.samples) : S.samples[i].v \in Int
    <3>1. \A i \in 1 .. Len(S.samples) : S.samples[i] \in SampleRec
      BY <1>1, <2>1
    <3> QED
      BY <3>1 DEF SampleRec
  <2>3. z = [i \in 1 .. Len(S.samples) |-> S.samples[i].v]
    BY <2>1 DEF Values
  <2> HIDE DEF z
  <2>4. z \in [1 .. Len(S.samples) -> Int]
    BY <2>2, <2>3
  <2> QED
    BY <2>1, <2>3, <2>4
<1>4. Misleading \in SUBSET DOMAIN z
  BY <1>3 DEF Misleading
<1>5. result.intercept = MedianOf(z)
  BY DEF ReportedIsMedian, Estimate
<1>6. ASSUME NEW i \in DOMAIN z \ Misleading
      PROVE  z[i] \in Int /\ -(D + 1) <= 2 * (z[i] - o) /\ 2 * (z[i] - o) <= D + 1
  <2>1. i \in DOMAIN S.samples /\ S.samples[i] \in SampleRec
    BY <1>1, <1>3
  <2>2. S.samples[i].span <= D /\ S.samples[i].kind \in {"rtt", "prev"}
    BY <1>3, <1>6, <2>1 DEF Misleading
  <2>3. S.samples[i].v \in Int /\ S.samples[i].span \in Int /\ z[i] = S.samples[i].v
    BY <1>3, <2>1 DEF SampleRec
  <2>4. TwiceError(S.samples[i], S.target) = 2 * (z[i] - o)
    BY <2>3 DEF TwiceError
  <2> HIDE DEF z, o
  <2>5. 2 * (z[i] - o) \in Int
    BY <1>2, <2>3
  <2>6. CASE S.samples[i].kind = "rtt"
    <3>1. /\ -S.samples[i].span <= 2 * (z[i] - o)
          /\ 2 * (z[i] - o) <= S.samples[i].span + 1
      BY <2>1, <2>4, <2>6 DEF IInv, RttSamplesAccurate
    <3> QED
      BY <2>2, <2>3, <2>5, <3>1, WithinBound
  <2>7. CASE S.samples[i].kind = "prev"
    <3>1. Abs(2 * (z[i] - o)) <= S.samples[i].span + 1
      BY <2>1, <2>4, <2>7 DEF PastInv, PrevSamplesAccurate
    <3> QED
      BY <2>2, <2>3, <2>5, <3>1, WithinBound
  <2> QED
    BY <2>2, <2>6, <2>7
<1> HIDE DEF z, o
<1>7. /\ MedianOf(z) \in Int
      /\ \E i, j \in DOMAIN z \ Misleading :
            z[i] <= MedianOf(z) /\ MedianOf(z) <= z[j]
  BY <1>3, <1>4, MedianBetween
<1>8. PICK i, j \in DOMAIN z \ Misleading :
         z[i] <= MedianOf(z) /\ MedianOf(z) <= z[j]
  BY <1>7
<1>9. /\ z[i] \in Int /\ -(D + 1) <= 2 * (z[i] - o)
      /\ z[j] \in Int /\ 2 * (z[j] - o) <= D + 1
  BY <1>6
<1>10. ASSUME NEW x \in Int, NEW a \in Int, NEW b \in Int, a <= x, x <= b,
              -(D + 1) <= 2 * (a - o), 2 * (b - o) <= D + 1
       PROVE  Abs(2 * (x - o)) <= D + 1
  BY <1>2, <1>10 DEF Abs
<1>11. Abs(2 * (MedianOf(z) - o)) <= D + 1
  BY <1>7, <1>8, <1>9, <1>10
<1> QED
  BY <1>5, <1>11 DEF o

\* For every network, threshold and budget: a minority of misleading samples,
\* from retried pings or from an earlier measurement of another session, costs
\* a reported intercept nothing (measurement.c:149-154, median.c).
THEOREM InterceptIsAccurate == Spec => []MinorityOutvoted
<1>1. Init => ReportedIsMedian
  BY DEF Init, ReportedIsMedian
<1>2. IInv /\ ReportedIsMedian /\ [Next]_vars => ReportedIsMedian'
  BY ReportedStep
<1> QED
  BY <1>1, <1>2, Invariance, PastInit, PastNext, AccurateResult, PTL DEF Spec

---------------------------------------------------------------------------
(* How many samples can be off.  A ping sent in answer to a pong carries a  *)
(* reply that is at most a round trip old, so its samples are near.  Only   *)
(* the first ping of a retry, and what an earlier measurement has left on   *)
(* the wire, can mislead: at most MaxPings - 1 and the duplicates.          *)

\* Twice an error of at most half the longest round trip, and the rounding.
Near(d) == -(MaxRtt + 1) <= d /\ d <= MaxRtt + 1

\* The previous reply that m carries, if any, is an instant of t's clock no
\* more than a round trip before m was sent.
FreshFor(m, t) ==
    m.has_pgt => m.ht - MaxRtt <= m.pgt - Offset[t] /\ m.pgt - Offset[t] <= m.ht

\* The samples that are off, and the datagrams that will give one.
OffIn(s, t) == {i \in DOMAIN s : ~Near(TwiceError(s[i], t))}
AgedIn(W, t) == {m \in W : ~FreshFor(m, t)}
Weight(m, t) == IF FreshFor(m, t) THEN 0 ELSE 1
StraysIn(s, W, t) == Cardinality(OffIn(s, t)) + Cardinality(AgedIn(W, t))

\* A round trip is shorter than the ping interval, and the pings sent on a
\* timer and the duplicates are few against the samples that are waited for.
LanTiming ==
    /\ MaxRtt < Interval
    /\ MaxPings >= 1
    /\ 2 * (MaxPings - 1 + MaxDup) <= Threshold

\* Nothing on the wire is older than a round trip, nor younger than the ping
\* that the timer is set from.
InFlight ==
    \A m \in wire :
        /\ now <= m.ht + MaxRtt
        /\ S.active => m.ht + Interval <= S.next_send

\* One datagram of the running measurement, and the duplicates.
FewInFlight ==
    /\ IsFiniteSet(wire)
    /\ Cardinality(wire) <= dups + (IF S.active THEN 1 ELSE 0)
    /\ dups <= MaxDup

\* Only a duplicate, or a ping of the timer, adds a stray; the budget bounds
\* the latter.
FewStrays ==
    /\ S.active =>
          /\ S.pings_sent >= 1
          /\ StraysIn(S.samples, wire, S.target) <= dups + S.pings_sent - 1
          /\ StraysIn(S.samples, wire, S.target) <= dups + MaxPings - 1
    /\ result.status = "ok" =>
          Cardinality(OffIn(S.samples, S.target)) <= dups + MaxPings - 1

LanInv == InFlight /\ FewInFlight /\ FewStrays

---------------------------------------------------------------------------
\* A part of a finite set.
LEMMA Fewer ==
    ASSUME NEW B, IsFiniteSet(B), NEW A \in SUBSET B
    PROVE  /\ IsFiniteSet(A) /\ Cardinality(A) \in Nat /\ Cardinality(B) \in Nat
           /\ Cardinality(A) <= Cardinality(B)
BY FS_Subset, FS_CardinalityType

\* One datagram more.
LEMMA SentCount ==
    ASSUME NEW W, IsFiniteSet(W), NEW p, NEW t
    PROVE  /\ IsFiniteSet(W \cup {p}) /\ Cardinality(W) \in Nat
           /\ Cardinality(W \cup {p}) \in Nat
           /\ Cardinality(W \cup {p}) <= Cardinality(W) + 1
           /\ Weight(p, t) \in {0, 1}
           /\ Cardinality(AgedIn(W, t)) \in Nat
           /\ Cardinality(AgedIn(W \cup {p}, t)) \in Nat
           /\ Cardinality(AgedIn(W \cup {p}, t))
                 <= Cardinality(AgedIn(W, t)) + Weight(p, t)
<1> DEFINE V == W \cup {p}
           A == AgedIn(W, t)
           B == AgedIn(V, t)
<1>1. IsFiniteSet(V) /\ Cardinality(W) \in Nat /\ Cardinality(V) \in Nat
      /\ Cardinality(V) <= Cardinality(W) + 1
  <2>1. /\ IsFiniteSet(V) /\ Cardinality(V) = IF p \in W THEN Cardinality(W)
                                              ELSE Cardinality(W) + 1
    BY FS_AddElement
  <2> HIDE DEF V
  <2>2. Cardinality(W) \in Nat /\ Cardinality(V) \in Nat
    BY <2>1, FS_CardinalityType
  <2> QED
    BY <2>1, <2>2
<1>2. A \in SUBSET W /\ B \in SUBSET V
  BY DEF AgedIn
<1>3. IsFiniteSet(A) /\ Cardinality(A) \in Nat /\ Cardinality(B) \in Nat
  <2> HIDE DEF V, A, B
  <2> QED
    BY <1>1, <1>2, Fewer
<1>4. B \in SUBSET (IF FreshFor(p, t) THEN A ELSE A \cup {p})
  BY DEF AgedIn
<1>5. /\ IsFiniteSet(A \cup {p})
      /\ Cardinality(A \cup {p}) \in Nat
      /\ Cardinality(A \cup {p}) <= Cardinality(A) + 1
  <2> HIDE DEF A
  <2>1. IsFiniteSet(A \cup {p})
        /\ Cardinality(A \cup {p}) = IF p \in A THEN Cardinality(A)
                                     ELSE Cardinality(A) + 1
    BY <1>3, FS_AddElement
  <2> QED
    BY <1>3, <2>1
<1> HIDE DEF A, B, V
<1>6. Cardinality(B) <= Cardinality(A) + Weight(p, t)
  <2>1. CASE FreshFor(p, t)
    <3>1. Cardinality(B) <= Cardinality(A)
      BY <1>3, <1>4, <2>1, Fewer
    <3> QED
      BY <1>3, <2>1, <3>1 DEF Weight
  <2>2. CASE ~FreshFor(p, t)
    <3>1. Cardinality(B) <= Cardinality(A \cup {p})
      BY <1>4, <1>5, <2>2, Fewer
    <3> QED
      BY <1>3, <1>5, <2>2, <3>1 DEF Weight
  <2> QED
    BY <2>1, <2>2
<1> QED
  BY <1>1, <1>3, <1>6 DEF Weight, A, B, V

\* One datagram less.
LEMMA TakenCount ==
    ASSUME NEW W, IsFiniteSet(W), NEW m \in W, NEW t
    PROVE  /\ IsFiniteSet(W \ {m}) /\ Cardinality(W \ {m}) \in Nat
           /\ Cardinality(W) \in Nat
           /\ Cardinality(W \ {m}) = Cardinality(W) - 1
           /\ Cardinality(AgedIn(W, t)) \in Nat
           /\ Cardinality(AgedIn(W \ {m}, t)) \in Nat
           /\ Cardinality(AgedIn(W \ {m}, t))
                 = Cardinality(AgedIn(W, t)) - Weight(m, t)
<1> DEFINE V == W \ {m}
           A == AgedIn(W, t)
           B == AgedIn(V, t)
<1>1. IsFiniteSet(V) /\ Cardinality(V) = Cardinality(W) - 1
  BY FS_RemoveElement
<1>2. A \in SUBSET W /\ B \in SUBSET V
  BY DEF AgedIn
<1>3. B = IF FreshFor(m, t) THEN A ELSE A \ {m}
  BY DEF AgedIn
<1>4. FreshFor(m, t) \/ m \in A
  BY DEF AgedIn
<1> HIDE DEF V, A, B
<1>5. /\ IsFiniteSet(A) /\ Cardinality(A) \in Nat /\ Cardinality(B) \in Nat
      /\ Cardinality(W) \in Nat /\ Cardinality(V) \in Nat
  BY <1>1, <1>2, Fewer, FS_CardinalityType
<1>6. Cardinality(A \ {m}) = IF m \in A THEN Cardinality(A) - 1
                             ELSE Cardinality(A)
  BY <1>5, FS_RemoveElement
<1>7. Cardinality(B) = Cardinality(A) - Weight(m, t)
  BY <1>3, <1>4, <1>5, <1>6 DEF Weight
<1> QED
  BY <1>1, <1>5, <1>7 DEF A, B, V

\* Delivery: a datagram that is not duplicated leaves the wire, a duplicate
\* costs one of the duplicates.
LEMMA TakenFew ==
    ASSUME TypeOK, FewInFlight, NEW m \in wire, Taken(m), NEW t
    PROVE  /\ wire' \subseteq wire /\ IsFiniteSet(wire')
           /\ dups \in Nat /\ dups' \in Nat /\ dups <= dups' /\ dups' <= MaxDup
           /\ Cardinality(wire) \in Nat /\ Cardinality(wire') \in Nat
           /\ Cardinality(wire') + dups + 1 <= Cardinality(wire) + dups'
           /\ Weight(m, t) \in {0, 1}
           /\ Cardinality(AgedIn(wire, t)) \in Nat
           /\ Cardinality(AgedIn(wire', t)) \in Nat
           /\ Cardinality(AgedIn(wire', t)) + dups + Weight(m, t)
                 <= Cardinality(AgedIn(wire, t)) + dups'
<1>1. dups \in Nat /\ MaxDup \in Nat /\ IsFiniteSet(wire) /\ dups <= MaxDup
  BY MeasurementAssumption DEF TypeOK, FewInFlight
<1>2. Weight(m, t) \in {0, 1}
  BY DEF Weight
<1> DEFINE V == wire \ {m}
<1>5. /\ IsFiniteSet(V) /\ Cardinality(V) \in Nat /\ Cardinality(wire) \in Nat
      /\ Cardinality(V) = Cardinality(wire) - 1
      /\ Cardinality(AgedIn(wire, t)) \in Nat /\ Cardinality(AgedIn(V, t)) \in Nat
      /\ Cardinality(AgedIn(V, t)) = Cardinality(AgedIn(wire, t)) - Weight(m, t)
  BY <1>1, TakenCount
<1>3. CASE wire' = V /\ dups' = dups
  <2>1. V \subseteq wire
    OBVIOUS
  <2> HIDE DEF V
  <2> QED
    BY <1>1, <1>2, <1>3, <1>5, <2>1
<1>4. CASE dups < MaxDup /\ dups' = dups + 1 /\ wire' = wire
  BY <1>1, <1>2, <1>4, <1>5
<1> QED
  BY <1>3, <1>4 DEF Taken

\* Delivery with an answer.
LEMMA TakenAndSentFew ==
    ASSUME TypeOK, FewInFlight, NEW m \in wire, NEW p, TakenAndSent(m, p), NEW t
    PROVE  /\ wire' \subseteq wire \cup {p} /\ IsFiniteSet(wire')
           /\ dups \in Nat /\ dups' \in Nat /\ dups <= dups' /\ dups' <= MaxDup
           /\ Cardinality(wire) \in Nat /\ Cardinality(wire') \in Nat
           /\ Cardinality(wire') + dups <= Cardinality(wire) + dups'
           /\ Weight(m, t) \in {0, 1} /\ Weight(p, t) \in {0, 1}
           /\ Cardinality(AgedIn(wire, t)) \in Nat
           /\ Cardinality(AgedIn(wire', t)) \in Nat
           /\ Cardinality(AgedIn(wire', t)) + dups + Weight(m, t)
                 <= Cardinality(AgedIn(wire, t)) + dups' + Weight(p, t)
<1>1. dups \in Nat /\ MaxDup \in Nat /\ IsFiniteSet(wire) /\ dups <= MaxDup
  BY MeasurementAssumption DEF TypeOK, FewInFlight
<1>2. Weight(m, t) \in {0, 1} /\ Weight(p, t) \in {0, 1}
  BY DEF Weight
<1>3. CASE wire' = (wire \ {m}) \cup {p} /\ dups' = dups
  <2> DEFINE V == wire \ {m}
  <2>1. /\ IsFiniteSet(V) /\ Cardinality(V) \in Nat /\ Cardinality(wire) \in Nat
        /\ Cardinality(V) = Cardinality(wire) - 1
        /\ Cardinality(AgedIn(wire, t)) \in Nat
        /\ Cardinality(AgedIn(V, t)) = Cardinality(AgedIn(wire, t)) - Weight(m, t)
    BY <1>1, TakenCount
  <2>2. wire' = V \cup {p} /\ wire' \subseteq wire \cup {p}
    BY <1>3
  <2> HIDE DEF V
  <2>3. /\ IsFiniteSet(wire') /\ Cardinality(wire') \in Nat
        /\ Cardinality(wire') <= Cardinality(V) + 1
        /\ Cardinality(AgedIn(V, t)) \in Nat
        /\ Cardinality(AgedIn(wire', t)) \in Nat
        /\ Cardinality(AgedIn(wire', t)) <= Cardinality(AgedIn(V, t)) + Weight(p, t)
    BY <2>1, <2>2, SentCount
  <2> QED
    BY <1>1, <1>2, <1>3, <2>1, <2>2, <2>3
<1>4. CASE dups < MaxDup /\ dups' = dups + 1 /\ wire' = wire \cup {p}
  <2>1. /\ IsFiniteSet(wire') /\ Cardinality(wire') \in Nat
        /\ Cardinality(wire) \in Nat
        /\ Cardinality(wire') <= Cardinality(wire) + 1
        /\ Cardinality(AgedIn(wire, t)) \in Nat
        /\ Cardinality(AgedIn(wire', t)) \in Nat
        /\ Cardinality(AgedIn(wire', t)) <= Cardinality(AgedIn(wire, t)) + Weight(p, t)
    BY <1>1, <1>4, SentCount
  <2> QED
    BY <1>1, <1>2, <1>4, <2>1
<1> QED
  BY <1>3, <1>4 DEF TakenAndSent

---------------------------------------------------------------------------
\* A round-trip sample is near: no round trip is longer than MaxRtt.
LEMMA RttSampleNear ==
    ASSUME IInv, InFlight, NEW q \in wire, q.type = "PONG"
    PROVE  Near(TwiceError(RttSample(q), q.sess))
<1>1. q \in PongRec /\ now \in Nat /\ MaxRtt \in Nat /\ now <= q.ht + MaxRtt
  BY TypeOKRecs, MeasurementAssumption DEF IInv, PingRec, PongRec, InFlight
<1>2. q.ht \in Nat /\ q.sess \in Session /\ Offset[q.sess] \in Int
  BY <1>1, MeasurementAssumption DEF PongRec
<1>3. /\ RttSample(q).v \in Int /\ RttSample(q).span = now - q.ht
      /\ -RttSample(q).span <= TwiceError(RttSample(q), q.sess)
      /\ TwiceError(RttSample(q), q.sess) <= RttSample(q).span + 1
  BY RttSampleSound DEF RttSample, SampleRec
<1>4. TwiceError(RttSample(q), q.sess) \in Int
  BY <1>2, <1>3 DEF TwiceError
<1> QED
  BY <1>1, <1>2, <1>3, <1>4 DEF Near

\* The second sample is near when the reply it averages in is fresh.
LEMMA PrevSampleNear ==
    ASSUME IInv, InFlight, NEW q \in wire, q.type = "PONG", q.has_pgt,
           FreshFor(q, q.sess)
    PROVE  Near(TwiceError(PrevSample(q), q.sess))
<1>1. /\ q \in PongRec /\ now \in Nat /\ MaxRtt \in Nat /\ now <= q.ht + MaxRtt
      /\ q.ht <= q.gt - Offset[q.sess] /\ q.gt - Offset[q.sess] <= now
  BY TypeOKRecs, MeasurementAssumption
     DEF IInv, WireSound, PingRec, PongRec, InFlight
<1>2. q.ht \in Int /\ q.gt \in Int /\ q.pgt \in Int /\ Offset[q.sess] \in Int
  BY <1>1, MeasurementAssumption DEF PongRec
<1>3. q.ht - MaxRtt <= q.pgt - Offset[q.sess] /\ q.pgt - Offset[q.sess] <= q.ht
  BY DEF FreshFor
<1>4. PICK h \in Int : /\ h = Half(q.gt + q.pgt)
                       /\ q.gt + q.pgt - 1 <= 2 * h /\ 2 * h <= q.gt + q.pgt + 1
  BY <1>2, HalfOfInt
<1>5. TwiceError(PrevSample(q), q.sess) = 2 * ((h - q.ht) - Offset[q.sess])
  BY <1>4 DEF TwiceError, PrevSample
<1> DEFINE g == q.gt
           pg == q.pgt
           t == q.ht
           d == Offset[q.sess]
<1>6. /\ g \in Int /\ pg \in Int /\ t \in Int /\ d \in Int /\ now \in Int
      /\ g + pg - 1 <= 2 * h /\ 2 * h <= g + pg + 1 /\ MaxRtt \in Nat
      /\ t <= g - d /\ g - d <= now /\ pg - d <= t /\ t - MaxRtt <= pg - d
      /\ now <= t + MaxRtt
  BY <1>1, <1>2, <1>3, <1>4
<1> HIDE DEF g, pg, t, d
<1>7. Near(2 * ((h - t) - d))
  BY <1>6 DEF Near
<1> QED
  BY <1>5, <1>7 DEF g, pg, t, d

\* One more sample is at most one more that is off.
LEMMA OffAppend ==
    ASSUME NEW s \in Seq(SampleRec), NEW x \in SampleRec, NEW t
    PROVE  /\ Append(s, x) \in Seq(SampleRec)
           /\ Cardinality(OffIn(s, t)) \in Nat
           /\ Cardinality(OffIn(Append(s, x), t)) \in Nat
           /\ Cardinality(OffIn(Append(s, x), t)) <= Cardinality(OffIn(s, t)) + 1
           /\ Near(TwiceError(x, t)) =>
                 Cardinality(OffIn(Append(s, x), t)) <= Cardinality(OffIn(s, t))
<1> DEFINE y == Append(s, x)
           A == OffIn(s, t)
           B == OffIn(y, t)
           n == Len(s) + 1
<1>1. /\ y \in Seq(SampleRec) /\ Len(s) \in Nat /\ DOMAIN s = 1 .. Len(s)
      /\ DOMAIN y = 1 .. n /\ y[n] = x /\ n \in Nat
      /\ \A i \in 1 .. Len(s) : y[i] = s[i]
  OBVIOUS
<1>2. A \in SUBSET (1 .. Len(s))
  BY <1>1 DEF OffIn
<1>3. IsFiniteSet(A) /\ Cardinality(A) \in Nat
  <2> HIDE DEF A
  <2> QED
    BY <1>1, <1>2, PositionSets
<1>4. B \in SUBSET (A \cup {n})
  <2> HIDE DEF y
  <2>1. \A i \in 1 .. n : i = n \/ i \in 1 .. Len(s)
    BY <1>1
  <2> QED
    BY <1>1, <2>1 DEF OffIn
<1>5. Near(TwiceError(x, t)) => B \in SUBSET A
  <2> HIDE DEF y
  <2>1. \A i \in 1 .. n : i = n \/ i \in 1 .. Len(s)
    BY <1>1
  <2> QED
    BY <1>1, <2>1 DEF OffIn
<1> HIDE DEF y, A, B, n
<1>6. /\ IsFiniteSet(A \cup {n}) /\ Cardinality(A \cup {n}) \in Nat
      /\ Cardinality(A \cup {n}) <= Cardinality(A) + 1
  <2>1. IsFiniteSet(A \cup {n})
        /\ Cardinality(A \cup {n}) = IF n \in A THEN Cardinality(A)
                                     ELSE Cardinality(A) + 1
    BY <1>3, FS_AddElement
  <2> QED
    BY <1>3, <2>1
<1>7. Cardinality(B) \in Nat /\ Cardinality(B) <= Cardinality(A \cup {n})
  BY <1>4, <1>6, Fewer
<1>8. B \in SUBSET A => Cardinality(B) <= Cardinality(A)
  BY <1>3, Fewer
<1> QED
  BY <1>1, <1>3, <1>5, <1>6, <1>7, <1>8 DEF y, A, B

\* A pong adds a sample that is off only when what it carries is aged.
LEMMA CollectedOff ==
    ASSUME IInv, InFlight, NEW q \in wire, q.type = "PONG", S.active,
           q.sess = S.target
    PROVE  /\ Cardinality(OffIn(S.samples, S.target)) \in Nat
           /\ Cardinality(OffIn(Collected(q), S.target)) \in Nat
           /\ Cardinality(OffIn(Collected(q), S.target))
                 <= Cardinality(OffIn(S.samples, S.target)) + Weight(q, S.target)
<1> DEFINE t == S.target
           r == RttSample(q)
           p == PrevSample(q)
           s1 == Append(S.samples, r)
           s2 == Append(s1, p)
           n0 == Cardinality(OffIn(S.samples, t))
           n1 == Cardinality(OffIn(s1, t))
           n2 == Cardinality(OffIn(s2, t))
<1>1. S.samples \in Seq(SampleRec) /\ r \in SampleRec /\ p \in SampleRec
  BY TypeOKRecs, RttSampleSound, PrevSampleType DEF IInv, StateRec
<1>2. Near(TwiceError(r, t))
  BY RttSampleNear
<1> HIDE DEF r, p, t
<1>3. s1 \in Seq(SampleRec) /\ n0 \in Nat /\ n1 \in Nat /\ n1 <= n0
  BY <1>1, <1>2, OffAppend
<1> HIDE DEF s1
<1>4. /\ n2 \in Nat /\ n2 <= n1 + 1
      /\ Near(TwiceError(p, t)) => n2 <= n1
  BY <1>1, <1>3, OffAppend
<1> HIDE DEF s2, n0, n1, n2
<1>5. CASE Collected(q) = s1
  <2>1. Weight(q, t) \in {0, 1} /\ Cardinality(OffIn(Collected(q), t)) = n1
    BY <1>5 DEF Weight, n1
  <2> QED
    BY <1>3, <2>1 DEF n0, t
<1>6. CASE Collected(q) = s2 /\ ~q.has_pgt
  <2>1. Collected(q) = Store(S.samples, RttSample(q), TRUE)
    BY <1>6 DEF Collected, Store
  <2>2. Store(S.samples, RttSample(q), TRUE) \in {S.samples, s1}
    BY DEF Store, s1, r
  <2>3. /\ Len(s1) = Len(S.samples) + 1 /\ Len(s2) = Len(s1) + 1
        /\ Len(S.samples) \in Nat
    BY <1>1, <1>3 DEF s1, s2
  <2>4. S.samples # s2 /\ s1 # s2
    BY <2>3
  <2> QED
    BY <1>6, <2>1, <2>2, <2>4
<1>7. CASE Collected(q) = s2 /\ q.has_pgt
  <2>1. Cardinality(OffIn(Collected(q), t)) = n2
    BY <1>7 DEF n2
  <2>2. FreshFor(q, t) => Near(TwiceError(p, t))
    BY <1>7, PrevSampleNear DEF t, p
  <2>3. n2 <= n0 + Weight(q, t)
    BY <1>3, <1>4, <2>2 DEF Weight
  <2> QED
    BY <1>3, <1>4, <2>1, <2>3 DEF n0, t
<1> QED
  BY <1>5, <1>6, <1>7, CollectedCases DEF s1, s2, r, p

---------------------------------------------------------------------------
\* The samples that are off can be counted.
LEMMA OffCounted ==
    ASSUME IInv
    PROVE  Cardinality(OffIn(S.samples, S.target)) \in Nat
<1>1. Len(S.samples) \in Nat
      /\ OffIn(S.samples, S.target) \in SUBSET (1 .. Len(S.samples))
  BY TypeOKRecs DEF IInv, StateRec, OffIn
<1> QED
  BY <1>1, PositionSets

\* Nothing is on the wire before the first measurement.
LEMMA LanInit == Init => LanInv
<1> SUFFICES ASSUME Init PROVE LanInv
  OBVIOUS
<1>1. PICK s \in Session : S = [Fresh(s) EXCEPT !.active = FALSE]
  BY DEF Init
<1>2. S.active = FALSE
  BY <1>1 DEF Fresh
<1>3. wire = {} /\ dups = 0 /\ result.status = "none" /\ MaxDup \in Nat
  BY MeasurementAssumption DEF Init
<1> QED
  BY <1>2, <1>3, FS_EmptySet DEF LanInv, InFlight, FewInFlight, FewStrays

\* What a ping sent from st leaves in the state.
LEMMA PingCounts ==
    ASSUME TypeOK, NEW st \in StateRec
    PROVE  /\ Pinged(st).pings_sent = st.pings_sent + 1
           /\ Pinged(st).next_send = now + Interval
BY DEF Pinged, StateRec

\* The wire of a step that sends at most p, a ping sent now, or a copy of a
\* datagram that was there.
LEMMA InFlightSent ==
    ASSUME IInv, InFlight, NEW p, wire' \subseteq wire \cup {p}, now' = now,
           S'.active => S'.next_send = now + Interval, p.ht = now
    PROVE  InFlight'
<1>1. now \in Nat /\ Interval \in Nat /\ MaxRtt \in Nat
  BY MeasurementAssumption DEF IInv, TypeOK
<1> SUFFICES ASSUME NEW m \in wire'
             PROVE  /\ now <= m.ht + MaxRtt
                    /\ S'.active => m.ht + Interval <= now + Interval
  BY DEF InFlight
<1>2. CASE m = p
  BY <1>1, <1>2
<1>3. CASE m \in wire
  <2>1. m.ht \in Nat /\ m.ht <= now /\ now <= m.ht + MaxRtt
    BY <1>3, TypeOKRecs DEF IInv, WireSound, InFlight, PingRec, PongRec
  <2> QED
    BY <1>1, <2>1
<1> QED
  BY <1>2, <1>3

\* measurement_start: everything still on the wire may mislead the new
\* measurement, and that is the duplicates.
LEMMA LanStart ==
    ASSUME LanTiming, IInv, LanInv, NEW s \in Session, MeasurementStart(s)
    PROVE  LanInv'
<1>1. /\ TypeOK /\ now' = now /\ dups' = dups /\ dups \in Nat
      /\ MaxPings \in Nat /\ MaxPings >= 1
  BY MeasurementAssumption DEF IInv, TypeOK, MeasurementStart, LanTiming
<1>2. CASE S.active
  BY <1>1, <1>2 DEF MeasurementStart, LanInv, InFlight, FewInFlight, FewStrays,
                    StraysIn, OffIn, AgedIn, TwiceError
<1>3. CASE ~S.active
  <2> DEFINE p == PingOf(Fresh(s))
  <2>1. /\ S' = Pinged(Fresh(s)) /\ wire' = wire \cup {p}
        /\ result'.status = "pending"
    BY <1>3 DEF MeasurementStart
  <2>2. /\ Fresh(s) \in StateRec /\ Fresh(s).active = TRUE
        /\ Fresh(s).target = s /\ Fresh(s).samples = <<>> /\ Fresh(s).pings_sent = 0
    BY DEF Fresh, StateRec
  <2>3. /\ S'.active = TRUE /\ S'.samples = <<>> /\ S'.target = s
        /\ p.ht = now /\ S'.pings_sent = 1 /\ S'.next_send = now + Interval
    BY <1>1, <2>1, <2>2, PingSound, PingCounts
  <2>13. ~p.has_pgt
    <3>1. p.has_pgt = (Fresh(s).pings_sent > 0)
      BY Zenon DEF PingOf, Ping
    <3>2. (Fresh(s).pings_sent > 0) = FALSE
      BY <2>2
    <3> QED
      BY <3>1, <3>2
  <2> HIDE DEF p
  <2>4. InFlight'
    BY <1>1, <2>1, <2>3, InFlightSent DEF LanInv
  <2>5. /\ IsFiniteSet(wire) /\ Cardinality(wire) <= dups /\ dups <= MaxDup
        /\ Cardinality(wire) \in Nat
    BY <1>1, <1>3, FS_CardinalityType DEF LanInv, FewInFlight
  <2>6. FreshFor(p, s)
    BY <2>13 DEF FreshFor
  <2>7. /\ IsFiniteSet(wire') /\ Cardinality(wire') \in Nat
        /\ Cardinality(wire') <= Cardinality(wire) + 1
        /\ Cardinality(AgedIn(wire, s)) \in Nat /\ Cardinality(AgedIn(wire', s)) \in Nat
        /\ Cardinality(AgedIn(wire', s)) <= Cardinality(AgedIn(wire, s))
    BY <2>1, <2>5, <2>6, SentCount DEF Weight
  <2>8. Cardinality(AgedIn(wire, s)) <= Cardinality(wire)
    <3>1. AgedIn(wire, s) \in SUBSET wire
      BY DEF AgedIn
    <3> QED
      BY <2>5, <3>1, Fewer
  <2>9. Cardinality(OffIn(S'.samples, s)) = 0
    <3>1. OffIn(<<>>, s) = {}
      BY DEF OffIn
    <3> QED
      BY <2>3, <3>1, FS_EmptySet
  <2>10. StraysIn(S'.samples, wire', s) <= dups /\ StraysIn(S'.samples, wire', s) \in Nat
    BY <1>1, <2>5, <2>7, <2>8, <2>9 DEF StraysIn
  <2>11. FewInFlight'
    BY <1>1, <2>3, <2>5, <2>7 DEF FewInFlight
  <2>12. FewStrays'
    <3> DEFINE n == StraysIn(S'.samples, wire', s)
    <3>1. n <= dups' + S'.pings_sent - 1 /\ n <= dups' + MaxPings - 1
      <4>1. n \in Nat /\ n <= dups
        BY <2>10
      <4> HIDE DEF n
      <4> QED
        BY <1>1, <2>3, <4>1
    <3> QED
      BY <2>1, <2>3, <3>1 DEF FewStrays, StraysIn, OffIn, AgedIn, TwiceError, Near, FreshFor
  <2> QED
    BY <2>4, <2>11, <2>12 DEF LanInv
<1> QED
  BY <1>2, <1>3

\* When the timer is due, what the last ping set off has come to an end.
LEMMA TimerAfterAnswers ==
    ASSUME LanTiming, IInv, InFlight, TimerDue
    PROVE  wire = {}
<1> SUFFICES ASSUME NEW m \in wire PROVE FALSE
  OBVIOUS
<1>1. /\ now \in Nat /\ S.next_send \in Nat /\ m.ht \in Nat
      /\ Interval \in Nat /\ MaxRtt \in Nat
  BY TypeOKRecs, MeasurementAssumption DEF IInv, StateRec, PingRec, PongRec
<1>2. /\ now <= m.ht + MaxRtt /\ m.ht + Interval <= S.next_send
      /\ S.next_send <= now /\ MaxRtt < Interval
  BY <1>1 DEF InFlight, TimerDue, LanTiming
<1> QED
  BY <1>1, <1>2

\* measurement_tick: a retry is one stray more, and one ping more.
LEMMA LanTick ==
    ASSUME LanTiming, IInv, LanInv, MeasurementTick
    PROVE  LanInv'
<1>1. /\ TypeOK /\ S \in StateRec /\ now' = now /\ dups' = dups /\ dups \in Nat
      /\ MaxPings \in Nat /\ S.active /\ wire = {}
  BY TypeOKRecs, MeasurementAssumption, TimerAfterAnswers
     DEF IInv, TypeOK, MeasurementTick, TickGiveUp, TickRetry, LanInv, TimerDue
<1>2. CASE TickGiveUp
  <2>1. /\ S' = [S EXCEPT !.active = FALSE] /\ result'.status = "failed"
        /\ wire' = wire
    BY <1>2 DEF TickGiveUp, Finish
  <2>2. S'.active = FALSE
    BY <1>1, <2>1 DEF StateRec
  <2> QED
    BY <1>1, <2>1, <2>2, FS_EmptySet DEF LanInv, InFlight, FewInFlight, FewStrays
<1>3. CASE TickRetry
  <2> DEFINE p == PingOf(S)
             t == S.target
  <2>1. /\ S' = Pinged(S) /\ wire' = wire \cup {p} /\ result' = result
        /\ ~(S.pings_sent >= MaxPings)
    BY <1>3 DEF TickRetry, BudgetSpent
  <2>2. /\ S'.active = S.active /\ S'.samples = S.samples /\ S'.target = t
        /\ p.ht = now /\ S'.pings_sent = S.pings_sent + 1
        /\ S'.next_send = now + Interval /\ S.pings_sent \in Nat
    BY <1>1, <2>1, PingSound, PingCounts DEF StateRec
  <2> HIDE DEF p
  <2>3. InFlight'
    BY <1>1, <2>1, <2>2, InFlightSent DEF LanInv
  <2>4. IsFiniteSet(wire) /\ Cardinality(wire) = 0 /\ dups <= MaxDup
    BY <1>1, FS_EmptySet DEF LanInv, FewInFlight
  <2>5. /\ IsFiniteSet(wire') /\ Cardinality(wire') \in Nat
        /\ Cardinality(wire') <= 1 /\ Weight(p, t) \in {0, 1}
        /\ Cardinality(AgedIn(wire, t)) \in Nat /\ Cardinality(AgedIn(wire', t)) \in Nat
        /\ Cardinality(AgedIn(wire', t)) <= Cardinality(AgedIn(wire, t)) + Weight(p, t)
    BY <2>1, <2>4, SentCount
  <2>6. FewInFlight'
    BY <1>1, <2>2, <2>4, <2>5 DEF FewInFlight
  <2>7. Cardinality(OffIn(S.samples, t)) \in Nat
    BY OffCounted
  <2>8. /\ StraysIn(S.samples, wire, t) <= dups + S.pings_sent - 1
    BY <1>1 DEF LanInv, FewStrays
  <2>9. /\ StraysIn(S.samples, wire', t) <= dups + S'.pings_sent - 1
        /\ StraysIn(S.samples, wire', t) <= dups + MaxPings - 1
        /\ S'.pings_sent >= 1
    <3> HIDE DEF t
    <3> QED
      BY <1>1, <2>1, <2>2, <2>5, <2>7, <2>8 DEF StraysIn
  <2>10. result.status # "ok"
    BY <1>1 DEF IInv, CompletionOnce
  <2>11. FewStrays'
    BY <1>1, <2>1, <2>2, <2>9, <2>10
       DEF FewStrays, StraysIn, OffIn, AgedIn, TwiceError, Near, FreshFor
  <2> QED
    BY <2>3, <2>6, <2>11 DEF LanInv
<1> QED
  BY <1>2, <1>3 DEF MeasurementTick

\* measurement_handle_rx: a sample that is off takes an aged pong off the
\* wire, and the ping of an answer is fresh.
LEMMA LanPong ==
    ASSUME LanTiming, IInv, LanInv, NEW q \in wire, q.type = "PONG",
           PongIgnored(q) \/ PongMismatch(q) \/ PongFinal(q) \/ PongNext(q)
    PROVE  LanInv'
<1> DEFINE t == S.target
           st == [S EXCEPT !.samples = Collected(q), !.prev_ghost = q.gt]
           off == Cardinality(OffIn(S.samples, t))
<1>1. /\ TypeOK /\ S \in StateRec /\ now \in Nat /\ now' = now
      /\ MaxPings \in Nat /\ MaxDup \in Nat
      /\ InFlight /\ FewInFlight /\ FewStrays
  BY TypeOKRecs, MeasurementAssumption
     DEF IInv, LanInv, PongIgnored, PongMismatch, PongFinal, PongNext
<1>2. CASE PongIgnored(q)
  <2>1. /\ wire' \subseteq wire /\ IsFiniteSet(wire') /\ S' = S /\ result' = result
        /\ dups \in Nat /\ dups' \in Nat /\ dups <= dups' /\ dups' <= MaxDup
        /\ Cardinality(wire) \in Nat /\ Cardinality(wire') \in Nat
        /\ Cardinality(wire') + dups + 1 <= Cardinality(wire) + dups'
        /\ ~S.active
    BY <1>1, <1>2, TakenFew DEF PongIgnored
  <2>2. InFlight'
    BY <1>1, <2>1 DEF InFlight
  <2>3. FewInFlight'
    BY <1>1, <2>1 DEF FewInFlight
  <2>4. FewStrays'
    <3>1. off \in Nat
      BY OffCounted
    <3>2. PICK n \in Nat : n = off
      BY <3>1
    <3>3. ASSUME result.status = "ok" PROVE n <= dups' + MaxPings - 1
      <4>1. n <= dups + MaxPings - 1
        BY <1>1, <3>2, <3>3 DEF FewStrays
      <4>2. dups \in Nat /\ dups' \in Nat /\ dups <= dups' /\ MaxPings \in Nat
        BY <1>1, <2>1
      <4> QED
        BY <3>2, <4>1, <4>2
    <3> QED
      BY <2>1, <3>2, <3>3 DEF FewStrays, OffIn, TwiceError, Near
  <2> QED
    BY <2>2, <2>3, <2>4 DEF LanInv
<1>3. CASE PongMismatch(q)
  <2>1. /\ wire' \subseteq wire /\ IsFiniteSet(wire') /\ result'.status = "failed"
        /\ dups \in Nat /\ dups' \in Nat /\ dups <= dups' /\ dups' <= MaxDup
        /\ Cardinality(wire) \in Nat /\ Cardinality(wire') \in Nat
        /\ Cardinality(wire') + dups + 1 <= Cardinality(wire) + dups'
        /\ S.active /\ S' = [S EXCEPT !.active = FALSE]
    BY <1>1, <1>3, TakenFew DEF PongMismatch, Finish
  <2>2. S'.active = FALSE
    BY <1>1, <2>1 DEF StateRec
  <2> QED
    BY <1>1, <2>1, <2>2 DEF LanInv, InFlight, FewInFlight, FewStrays
<1>4. ASSUME S.active, q.sess = t
      PROVE  /\ off \in Nat /\ Cardinality(OffIn(Collected(q), t)) \in Nat
             /\ Cardinality(OffIn(Collected(q), t)) <= off + Weight(q, t)
             /\ off + Cardinality(AgedIn(wire, t)) <= dups + S.pings_sent - 1
             /\ off + Cardinality(AgedIn(wire, t)) <= dups + MaxPings - 1
             /\ S.pings_sent \in Nat /\ S.pings_sent >= 1
             /\ st \in StateRec /\ st.active = S.active /\ st.target = t
             /\ st.samples = Collected(q) /\ st.prev_ghost = q.gt
             /\ st.pings_sent = S.pings_sent
  <2>1. /\ off \in Nat /\ Cardinality(OffIn(Collected(q), t)) \in Nat
        /\ Cardinality(OffIn(Collected(q), t)) <= off + Weight(q, t)
    BY <1>1, <1>4, CollectedOff
  <2>2. /\ off + Cardinality(AgedIn(wire, t)) <= dups + S.pings_sent - 1
        /\ off + Cardinality(AgedIn(wire, t)) <= dups + MaxPings - 1
        /\ S.pings_sent >= 1
    BY <1>1, <1>4 DEF FewStrays, StraysIn
  <2>3. /\ st \in StateRec /\ st.active = S.active /\ st.target = t
        /\ st.samples = Collected(q)
    BY <1>4, WithCollected
  <2>4. st.prev_ghost = q.gt /\ st.pings_sent = S.pings_sent /\ S.pings_sent \in Nat
    BY <1>1 DEF StateRec
  <2> QED
    BY <2>1, <2>2, <2>3, <2>4
<1>5. CASE PongFinal(q)
  <2>1. /\ S.active /\ q.sess = t /\ S' = [st EXCEPT !.active = FALSE] /\ Taken(q)
    BY <1>5 DEF PongFinal, Finish
  <2>2. /\ wire' \subseteq wire /\ IsFiniteSet(wire')
        /\ dups \in Nat /\ dups' \in Nat /\ dups <= dups' /\ dups' <= MaxDup
        /\ Cardinality(wire) \in Nat /\ Cardinality(wire') \in Nat
        /\ Cardinality(wire') + dups + 1 <= Cardinality(wire) + dups'
        /\ Weight(q, t) \in {0, 1}
        /\ Cardinality(AgedIn(wire, t)) \in Nat
        /\ Cardinality(AgedIn(wire', t)) \in Nat
        /\ Cardinality(AgedIn(wire', t)) + dups + Weight(q, t)
              <= Cardinality(AgedIn(wire, t)) + dups'
    BY <1>1, <2>1, TakenFew
  <2> HIDE DEF st, off
  <2>3. S'.active = FALSE /\ S'.samples = Collected(q) /\ S'.target = t
    BY <1>4, <2>1 DEF StateRec
  <2>4. InFlight' /\ FewInFlight'
    BY <1>1, <2>1, <2>2, <2>3 DEF InFlight, FewInFlight
  <2>5. Cardinality(OffIn(Collected(q), t)) <= dups' + MaxPings - 1
    <3> HIDE DEF t
    <3> QED
      BY <1>1, <1>4, <2>1, <2>2
  <2>6. FewStrays'
    BY <2>3, <2>5 DEF FewStrays, OffIn, TwiceError, Near
  <2> QED
    BY <2>4, <2>6 DEF LanInv
<1>6. CASE PongNext(q)
  <2> DEFINE p == PingOf(st)
  <2>1. /\ S.active /\ q.sess = t /\ S' = Pinged(st) /\ TakenAndSent(q, p)
        /\ result' = result
    BY <1>6 DEF PongNext
  <2>2. /\ wire' \subseteq wire \cup {p} /\ IsFiniteSet(wire')
        /\ dups \in Nat /\ dups' \in Nat /\ dups <= dups' /\ dups' <= MaxDup
        /\ Cardinality(wire) \in Nat /\ Cardinality(wire') \in Nat
        /\ Cardinality(wire') + dups <= Cardinality(wire) + dups'
        /\ Weight(q, t) \in {0, 1} /\ Weight(p, t) \in {0, 1}
        /\ Cardinality(AgedIn(wire, t)) \in Nat
        /\ Cardinality(AgedIn(wire', t)) \in Nat
        /\ Cardinality(AgedIn(wire', t)) + dups + Weight(q, t)
              <= Cardinality(AgedIn(wire, t)) + dups' + Weight(p, t)
    BY <1>1, <2>1, TakenAndSentFew
  <2> HIDE DEF st, off
  <2>3. /\ S'.active = S.active /\ S'.samples = Collected(q) /\ S'.target = t
        /\ S'.pings_sent = S.pings_sent + 1 /\ S'.next_send = now + Interval
        /\ p.ht = now /\ p.pgt = q.gt
    BY <1>1, <1>4, <2>1, PingSound, PingCounts, PingCarries
  <2> HIDE DEF p
  <2>4. FreshFor(p, t)
    <3>1. q \in PongRec /\ MaxRtt \in Nat
      BY TypeOKRecs, MeasurementAssumption DEF IInv, PingRec, PongRec
    <3>2. q.ht \in Nat /\ q.gt \in Int /\ Offset[t] \in Int
      BY <1>1, <3>1, MeasurementAssumption DEF PongRec, StateRec
    <3>3. /\ now <= q.ht + MaxRtt /\ q.ht <= q.gt - Offset[t]
          /\ q.gt - Offset[t] <= now
      BY <1>1, <2>1 DEF InFlight, IInv, WireSound
    <3> QED
      BY <1>1, <2>3, <3>1, <3>2, <3>3 DEF FreshFor
  <2>5. InFlight'
    BY <1>1, <2>2, <2>3, InFlightSent
  <2>6. FewInFlight'
    BY <1>1, <2>1, <2>2, <2>3 DEF FewInFlight
  <2>7. /\ Cardinality(OffIn(Collected(q), t)) + Cardinality(AgedIn(wire', t))
              <= dups' + S'.pings_sent - 1
        /\ Cardinality(OffIn(Collected(q), t)) + Cardinality(AgedIn(wire', t))
              <= dups' + MaxPings - 1
        /\ S'.pings_sent >= 1
    <3>1. Weight(p, t) = 0
      BY <2>4 DEF Weight
    <3> HIDE DEF t
    <3> QED
      BY <1>1, <1>4, <2>1, <2>2, <2>3, <3>1
  <2>8. result'.status # "ok"
    BY <2>1 DEF IInv, CompletionOnce
  <2>9. FewStrays'
    BY <2>3, <2>7, <2>8 DEF FewStrays, StraysIn, OffIn, AgedIn, TwiceError, Near, FreshFor
  <2> QED
    BY <2>5, <2>6, <2>9 DEF LanInv
<1> QED
  BY <1>2, <1>3, <1>5, <1>6

\* The strays of a state whose wire only loses datagrams, or of which one is
\* delivered and answered; S and result stay.
LEMMA StraysKept ==
    ASSUME IInv, FewStrays, UNCHANGED <<S, result>>,
           dups \in Nat, dups' \in Nat, dups <= dups',
           Cardinality(AgedIn(wire, S.target)) \in Nat,
           Cardinality(AgedIn(wire', S.target)) \in Nat,
           Cardinality(AgedIn(wire', S.target)) + dups
              <= Cardinality(AgedIn(wire, S.target)) + dups'
    PROVE  FewStrays'
<1> DEFINE t == S.target
<1>1. S \in StateRec /\ MaxPings \in Nat
  BY TypeOKRecs, MeasurementAssumption DEF IInv
<1>2. S.pings_sent \in Nat
  BY <1>1 DEF StateRec
<1>3. Cardinality(OffIn(S.samples, t)) \in Nat
  BY OffCounted
<1>9. ASSUME NEW d \in Nat, NEW e \in Nat, NEW x \in Nat, NEW y \in Nat,
             NEW u \in Nat, NEW k \in Nat, y + d <= x + e, u + x <= d + k - 1
      PROVE  u + y <= e + k - 1
  BY <1>9
<1>4. PICK n \in Nat : n = Cardinality(OffIn(S.samples, t))
  BY <1>3
<1>5. PICK a \in Nat, b \in Nat : /\ a = Cardinality(AgedIn(wire, t))
                                  /\ b = Cardinality(AgedIn(wire', t))
                                  /\ b + dups <= a + dups'
  OBVIOUS
<1>6. ASSUME S.active
      PROVE  S.pings_sent >= 1 /\ n + b <= dups' + S.pings_sent - 1
             /\ n + b <= dups' + MaxPings - 1
  <2>1. S.pings_sent >= 1 /\ n + a <= dups + S.pings_sent - 1
        /\ n + a <= dups + MaxPings - 1
    BY <1>4, <1>5, <1>6 DEF FewStrays, StraysIn
  <2> QED
    BY <1>1, <1>2, <1>4, <1>5, <1>9, <2>1
<1>7. ASSUME result.status = "ok"
      PROVE  n <= dups' + MaxPings - 1
  <2>1. n <= dups + MaxPings - 1
    BY <1>4, <1>7 DEF FewStrays
  <2> QED
    BY <1>1, <1>4, <2>1
<1>8. /\ n = Cardinality(OffIn(S'.samples, S'.target))
      /\ b = Cardinality(AgedIn(wire', S'.target))
  BY <1>4, <1>5
<1> QED
  BY <1>6, <1>7, <1>8 DEF FewStrays, StraysIn, OffIn, AgedIn, TwiceError, Near, FreshFor

\* The pong is as fresh as its ping.
LEMMA LanRespond ==
    ASSUME IInv, LanInv, Respond
    PROVE  LanInv'
<1>1. PICK m \in wire : /\ m.type = "PING"
                        /\ TakenAndSent(m, Pong(m, rsess, now + Offset[rsess]))
                        /\ UNCHANGED <<now, S, rsess, starts, result>>
  BY DEF Respond
<1> DEFINE p == Pong(m, rsess, now + Offset[rsess])
           t == S.target
<1>2. TypeOK /\ InFlight /\ FewInFlight /\ FewStrays
  BY DEF IInv, LanInv
<1>3. p.ht = m.ht /\ p.has_pgt = m.has_pgt /\ p.pgt = m.pgt
  BY DEF Pong
<1> HIDE DEF p
<1>4. Weight(p, t) = Weight(m, t)
  BY <1>3 DEF Weight, FreshFor
<1>5. /\ wire' \subseteq wire \cup {p} /\ IsFiniteSet(wire')
      /\ dups \in Nat /\ dups' \in Nat /\ dups <= dups' /\ dups' <= MaxDup
      /\ Cardinality(wire) \in Nat /\ Cardinality(wire') \in Nat
      /\ Cardinality(wire') + dups <= Cardinality(wire) + dups'
      /\ Weight(m, t) \in {0, 1} /\ Weight(p, t) \in {0, 1}
      /\ Cardinality(AgedIn(wire, t)) \in Nat
      /\ Cardinality(AgedIn(wire', t)) \in Nat
      /\ Cardinality(AgedIn(wire', t)) + dups + Weight(m, t)
            <= Cardinality(AgedIn(wire, t)) + dups' + Weight(p, t)
  BY <1>1, <1>2, TakenAndSentFew DEF p
<1>6. InFlight'
  BY <1>1, <1>2, <1>3, <1>5 DEF InFlight
<1>7. FewInFlight'
  BY <1>1, <1>2, <1>5 DEF FewInFlight
<1>8. Cardinality(AgedIn(wire', t)) + dups <= Cardinality(AgedIn(wire, t)) + dups'
  <2> HIDE DEF t
  <2> QED
    BY <1>4, <1>5
<1>9. FewStrays'
  BY <1>1, <1>2, <1>5, <1>8, StraysKept
<1> QED
  BY <1>6, <1>7, <1>9 DEF LanInv

\* Loss and the clock only take datagrams away.
LEMMA LanEnvironment ==
    ASSUME IInv, LanInv, ResponderSwitch \/ Lose \/ Clock \/ UNCHANGED vars
    PROVE  LanInv'
<1>1. /\ TypeOK /\ InFlight /\ FewInFlight /\ FewStrays /\ dups \in Nat
      /\ IsFiniteSet(wire) /\ MaxRtt \in Nat /\ now \in Nat
  BY MeasurementAssumption DEF IInv, LanInv, TypeOK, FewInFlight
<1>2. UNCHANGED <<S, dups, result>> /\ wire' \in SUBSET wire
  BY DEF ResponderSwitch, Lose, Clock, vars
<1>3. \A m \in wire' : now' <= m.ht + MaxRtt
  <2>1. CASE now' = now
    BY <1>1, <1>2, <2>1 DEF InFlight
  <2>2. CASE Clock
    <3> SUFFICES ASSUME NEW m \in wire' PROVE now' <= m.ht + MaxRtt
      OBVIOUS
    <3>1. now' = now + 1 /\ now + 1 - m.ht <= MaxRtt
      BY <2>2 DEF Clock
    <3>2. m.ht \in Nat
      BY <1>2, TypeOKRecs DEF IInv, PingRec, PongRec
    <3> QED
      BY <1>1, <3>1, <3>2
  <2> QED
    BY <2>1, <2>2 DEF ResponderSwitch, Lose, vars
<1>4. InFlight'
  BY <1>1, <1>2, <1>3 DEF InFlight
<1>5. /\ IsFiniteSet(wire') /\ Cardinality(wire') \in Nat
      /\ Cardinality(wire) \in Nat /\ Cardinality(wire') <= Cardinality(wire)
  BY <1>1, <1>2, Fewer
<1>6. FewInFlight'
  BY <1>1, <1>2, <1>5 DEF FewInFlight
<1>7. /\ Cardinality(AgedIn(wire, S.target)) \in Nat
      /\ Cardinality(AgedIn(wire', S.target)) \in Nat
      /\ Cardinality(AgedIn(wire', S.target)) <= Cardinality(AgedIn(wire, S.target))
  <2>1. /\ AgedIn(wire, S.target) \in SUBSET wire
        /\ AgedIn(wire', S.target) \in SUBSET AgedIn(wire, S.target)
    BY <1>2 DEF AgedIn
  <2>2. IsFiniteSet(AgedIn(wire, S.target))
    BY <1>1, <2>1, Fewer
  <2> QED
    BY <2>1, <2>2, Fewer
<1>8. FewStrays'
  <2>1. /\ dups' \in Nat /\ dups <= dups' /\ UNCHANGED <<S, result>>
        /\ Cardinality(AgedIn(wire', S.target)) + dups
              <= Cardinality(AgedIn(wire, S.target)) + dups'
    BY <1>1, <1>2, <1>7
  <2> QED
    BY <1>1, <1>7, <2>1, StraysKept
<1> QED
  BY <1>4, <1>6, <1>8 DEF LanInv

\* Every step of a measurement whose round trips are short keeps the strays few.
LEMMA LanNext == LanTiming /\ IInv /\ LanInv /\ [Next]_vars => LanInv'
<1> SUFFICES ASSUME LanTiming, IInv, LanInv, [Next]_vars PROVE LanInv'
  OBVIOUS
<1>1. CASE \E s \in Session : MeasurementStart(s)
  BY <1>1, LanStart
<1>2. CASE MeasurementHandleRx
  BY <1>2, LanPong DEF MeasurementHandleRx
<1> QED
  BY <1>1, <1>2, LanTick, LanRespond, LanEnvironment DEF Next

\* More than half of the samples of a reported intercept are near, so the
\* median is.
LEMMA LanResult ==
    ASSUME LanTiming, IInv, LanInv, ReportedIsMedian
    PROVE  InterceptAccurate
<1> SUFFICES ASSUME result.status = "ok"
             PROVE  Abs(result.intercept - Offset[S.target]) <= MaxRtt
  BY DEF InterceptAccurate
<1> DEFINE z == Values(S.samples)
           o == Offset[S.target]
           B == OffIn(S.samples, S.target)
<1>1. /\ S.samples \in Seq(SampleRec) /\ S.target \in Session
      /\ MaxRtt \in Nat /\ MaxPings \in Nat /\ Threshold \in Nat /\ MaxDup \in Nat
      /\ dups \in Nat /\ dups <= MaxDup
  BY TypeOKRecs, MeasurementAssumption DEF IInv, StateRec, LanInv, FewInFlight
<1>2. o \in Int
  BY <1>1, MeasurementAssumption
<1>3. /\ z \in Seq(Int) /\ Len(z) = Len(S.samples) /\ DOMAIN z = DOMAIN S.samples
      /\ \A i \in DOMAIN z : z[i] = S.samples[i].v /\ z[i] \in Int
      /\ DOMAIN z = 1 .. Len(S.samples) /\ Len(S.samples) \in Nat
  <2>1. DOMAIN S.samples = 1 .. Len(S.samples) /\ Len(S.samples) \in Nat
    BY <1>1
  <2>2. \A i \in 1 .. Len(S.samples) : S.samples[i].v \in Int
    <3>1. \A i \in 1 .. Len(S.samples) : S.samples[i] \in SampleRec
      BY <1>1, <2>1
    <3> QED
      BY <3>1 DEF SampleRec
  <2>3. z = [i \in 1 .. Len(S.samples) |-> S.samples[i].v]
    BY <2>1 DEF Values
  <2> HIDE DEF z
  <2>4. z \in [1 .. Len(S.samples) -> Int]
    BY <2>2, <2>3
  <2> QED
    BY <2>1, <2>3, <2>4
<1>4. B \in SUBSET DOMAIN z
  BY <1>3 DEF OffIn
<1>5. 2 * Cardinality(B) < Len(z)
  <2>1. Cardinality(B) \in Nat
    <3> HIDE DEF B
    <3> QED
      BY <1>3, <1>4, PositionSets
  <2>2. PICK n \in Nat : n = Cardinality(B)
    BY <2>1
  <2>3. n <= dups + MaxPings - 1
    BY <2>2 DEF LanInv, FewStrays
  <2>4. Len(z) \in Nat /\ Len(z) >= Threshold + 1
    BY <1>1, <1>3 DEF IInv, SampleCount
  <2>5. 2 * (MaxPings - 1 + MaxDup) <= Threshold
    BY DEF LanTiming
  <2> QED
    BY <1>1, <2>2, <2>3, <2>4, <2>5
<1>6. result.intercept = MedianOf(z)
  BY DEF ReportedIsMedian, Estimate
<1>7. \A i \in DOMAIN z \ B : Near(2 * (z[i] - o))
  BY <1>3 DEF OffIn, TwiceError
<1> HIDE DEF z, o, B
<1>8. /\ MedianOf(z) \in Int
      /\ \E i, j \in DOMAIN z \ B :
            z[i] <= MedianOf(z) /\ MedianOf(z) <= z[j]
  BY <1>3, <1>4, <1>5, MedianBetween
<1>9. PICK i, j \in DOMAIN z \ B :
         z[i] <= MedianOf(z) /\ MedianOf(z) <= z[j]
  BY <1>8
<1>10. z[i] \in Int /\ z[j] \in Int /\ Near(2 * (z[i] - o)) /\ Near(2 * (z[j] - o))
  BY <1>3, <1>7
<1>11. ASSUME NEW x \in Int, NEW a \in Int, NEW b \in Int, a <= x, x <= b,
              -(MaxRtt + 1) <= 2 * (a - o), 2 * (b - o) <= MaxRtt + 1
       PROVE  Abs(x - o) <= MaxRtt
  BY <1>1, <1>2, <1>11 DEF Abs
<1>12. Abs(MedianOf(z) - o) <= MaxRtt
  BY <1>8, <1>9, <1>10, <1>11 DEF Near
<1> QED
  BY <1>6, <1>12 DEF o

\* measurement.c:149-154.  On a network whose round trips are shorter than the
\* ping interval, every reported intercept is within a round trip of the
\* truth: at most MaxPings - 1 samples come of pings that carry an old reply
\* or none, one for each retry, and at most one more for each duplicate.
THEOREM InterceptWithinRoundTrip == LanTiming => (Spec => []InterceptAccurate)
<1> SUFFICES ASSUME LanTiming PROVE Spec => []InterceptAccurate
  OBVIOUS
<1>1. Init => ReportedIsMedian
  BY DEF Init, ReportedIsMedian
<1>2. IInv /\ ReportedIsMedian /\ [Next]_vars => ReportedIsMedian'
  BY ReportedStep
<1>3. IInv /\ LanInv /\ [Next]_vars => LanInv'
  BY LanNext
<1>4. IInv /\ LanInv /\ ReportedIsMedian => InterceptAccurate
  BY LanResult
<1> QED
  BY <1>1, <1>2, <1>3, <1>4, LanInit, Invariance, PTL DEF Spec

=============================================================================
