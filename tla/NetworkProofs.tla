---------------------------- MODULE NetworkProofs ----------------------------
(***************************************************************************)
(* The layers of the network side, each for every size of its buffers,     *)
(* pools and tables and every split of the traffic: the HTTP server with   *)
(* the listings it formats, the UDP layer, the Ethernet driver, and the    *)
(* TLV codec for every list of channels.                                   *)
(***************************************************************************)
EXTENDS HttpServer, Udp, EthMac, Tlv, WellFoundedInduction, TLAPS

---------------------------------------------------------------------------
(* The HTTP server: any number of connections, any requests, any split of  *)
(* them into segments, any size of the buffer and of the heap.             *)

Status == {"200", "400", "404", "413", "none"}

HttpTypes ==
    /\ st \in [Conn -> {"new", "open", "closed", "reset"}]
    /\ req \in [Conn -> HttpRequest]
    /\ used \in [Conn -> Nat]
    /\ heap \subseteq Conn
    /\ tcp_arg \in [Conn -> BOOLEAN]
    /\ DOMAIN resp = Conn /\ DOMAIN served = Conn
    /\ DOMAIN queued = Conn /\ DOMAIN got = Conn

\* Nothing was answered, handed to TCP or sent on a connection that still
\* reads its request; and one that was never accepted has read nothing.
Untouched ==
    \A c \in Conn : st[c] \in {"new", "open"} =>
        /\ resp[c] = "none"
        /\ queued[c] = FALSE
        /\ got[c] = NoBody
        /\ st[c] = "new" => used[c] = 0

HttpInv == HttpTypes /\ Untouched /\ AnsweredExactly /\ ServedAsWritten /\ StateOwned

---------------------------------------------------------------------------
(* The helpers *)

\* A request has its two lengths, and a header that is not empty.
LEMMA RequestLengths ==
    ASSUME HttpTypes, NEW c \in Conn
    PROVE  /\ req[c].hdr \in Nat \ {0} /\ req[c].cl \in Nat
           /\ req[c].path \in Path /\ req[c].spelled \in BOOLEAN
           /\ Total(c) \in Nat /\ Total(c) > 0
  <1>1. req[c] \in [hdr: Nat \ {0}, cl: Nat, spelled: BOOLEAN, path: Path, arg: Arg]
    BY HttpAssumption DEF HttpTypes
  <1> QED
    BY <1>1 DEF Total

\* No handler and no error of dispatch answers with the status that the
\* buffer check uses.
LEMMA ReplyStatus ==
    ASSUME NEW path \in Path, NEW a, NEW r \in Replies(path, a)
    PROVE  r.status \in {"200", "400", "404"}
  <1>1. \A s, w, n : Fixed(s, w, n).status = s
    BY DEF Fixed
  <1>2. \A x : Edited(x).status = "200"
    BY DEF Fixed, Edited
  <1>3. \A x : Formatted(x).status = "200"
    BY DEF Formatted
  <1>4. \A x : PostTempo(x).status \in {"200", "400"}
    BY <1>1, <1>2 DEF PostTempo, Failed
  <1>5. CASE path \in {"/", "unknown", "no line"}
    <2>1. r \in {Fixed("200", "page", PageLen), Fixed("404", "not found", Short),
                Fixed("400", "bad", Short)}
      BY <1>5 DEF Replies, ServeIndex
    <2>2. /\ Fixed("200", "page", PageLen).status = "200"
          /\ Fixed("404", "not found", Short).status = "404"
          /\ Fixed("400", "bad", Short).status = "400"
      BY DEF Fixed
    <2> QED
      BY <2>1, <2>2
  <1>6. CASE path \in {"play", "stop", "name"}
    <2>1. \E x : r = Edited(x)
      BY <1>6 DEF Replies, PostPlay, PostName
    <2> QED
      BY <1>2, <2>1
  <1>7. CASE path = "tempo"
    BY <1>4, <1>7 DEF Replies
  <1>8. CASE path \in {"status", "channels"}
    BY <1>3, <1>8 DEF Replies
  <1>9. CASE path \in {"subscribe", "unsubscribe"}
    <2>1. r \in PostSubscription(a)
      BY <1>9 DEF Replies
    <2> QED
      BY <1>1, <1>2, <2>1 DEF PostSubscription, Failed
  <1> QED
    BY <1>5, <1>6, <1>7, <1>8, <1>9 DEF Path

\* A complete request, correctly spelled, was received to its last byte.
LEMMA CompleteIsWhole ==
    ASSUME HttpTypes, NEW c \in Conn, NEW n \in Nat, n <= Total(c), req[c].spelled
    PROVE  Complete(c, n) <=> n = Total(c)
  BY RequestLengths DEF Complete, ContentLength, Total

---------------------------------------------------------------------------
(* The invariant *)

LEMMA HttpInitInv == HttpInit => HttpInv
  <1> SUFFICES ASSUME HttpInit PROVE HttpInv
    OBVIOUS
  <1>1. HttpTypes
    BY DEF HttpInit, HttpTypes
  <1>2. Untouched /\ ServedAsWritten /\ StateOwned
    BY DEF HttpInit, Untouched, ServedAsWritten, StateOwned
  <1>3. AnsweredExactly
    BY <1>1, RequestLengths DEF HttpInit, AnsweredExactly
  <1> QED
    BY <1>1, <1>2, <1>3 DEF HttpInv

LEMMA AcceptInv ==
    ASSUME HttpInv, NEW c \in Conn, Accept(c)
    PROVE  HttpInv'
  <1> USE DEF HttpInv
  <1>1. HttpTypes'
    BY DEF Accept, HttpTypes
  <1>2. StateOwned'
    BY DEF Accept, HttpTypes, StateOwned
  <1>3. (Untouched /\ ServedAsWritten)'
    BY DEF Accept, HttpTypes, Untouched, ServedAsWritten
  <1>4. AnsweredExactly'
    <2> SUFFICES ASSUME NEW d \in Conn, req[d].spelled
                 PROVE  /\ resp[d] = "413" => Total(d) > BufMax
                        /\ resp[d] \notin {"413", "none"} =>
                              Total(d) <= BufMax /\ used[d] = Total(d)
                        /\ st'[d] = "open" => used[d] < Total(d)
      BY DEF Accept, AnsweredExactly, Total
    <2>1. st'[d] = "open" => st[d] = "open" \/ used[d] = 0
      BY DEF Accept, HttpTypes, Untouched
    <2> QED
      BY <2>1, RequestLengths DEF AnsweredExactly
  <1> QED
    BY <1>1, <1>2, <1>3, <1>4

\* What a released connection leaves behind.
LEMMA Released ==
    ASSUME HttpTypes, StateOwned, NEW c \in Conn, Release(c)
    PROVE  /\ st' \in [Conn -> {"new", "open", "closed", "reset"}]
           /\ heap' \subseteq Conn /\ tcp_arg' \in [Conn -> BOOLEAN]
           /\ \A d \in Conn : st'[d] = IF d = c THEN "closed" ELSE st[d]
           /\ StateOwned'
  BY DEF HttpTypes, StateOwned, Release

LEMMA RecvClosedInv ==
    ASSUME HttpInv, NEW c \in Conn, RecvClosed(c)
    PROVE  HttpInv'
  <1> USE DEF HttpInv
  <1>0. /\ Release(c)
        /\ UNCHANGED <<req, used, resp, served, queued, got>>
    BY DEF RecvClosed
  <1>1. HttpTypes' /\ StateOwned'
    BY <1>0, Released DEF HttpTypes
  <1>2. \A d \in Conn : st'[d] \in {"new", "open"} => st[d] = st'[d]
    BY <1>0, Released
  <1>3. (Untouched /\ ServedAsWritten)'
    BY <1>0, <1>2 DEF Untouched, ServedAsWritten
  <1>4. AnsweredExactly'
    BY <1>0, <1>2 DEF AnsweredExactly, Total
  <1> QED
    BY <1>1, <1>3, <1>4

LEMMA AbortedInv ==
    ASSUME HttpInv, NEW c \in Conn, Aborted(c)
    PROVE  HttpInv'
  <1> USE DEF HttpInv
  <1>1. HttpTypes' /\ StateOwned'
    BY DEF Aborted, HttpTypes, StateOwned
  <1>2. /\ \A d \in Conn : st'[d] \in {"new", "open"} => st[d] = st'[d]
        /\ UNCHANGED <<req, used, resp, served, queued, got>>
    BY DEF Aborted, HttpTypes
  <1>3. (Untouched /\ ServedAsWritten)'
    BY <1>2 DEF Untouched, ServedAsWritten
  <1>4. AnsweredExactly'
    BY <1>2 DEF AnsweredExactly, Total
  <1> QED
    BY <1>1, <1>3, <1>4

LEMMA TransmitInv ==
    ASSUME HttpInv, NEW c \in Conn, Transmit(c)
    PROVE  HttpInv'
  <1> USE DEF HttpInv
  <1>1. HttpTypes' /\ StateOwned'
    BY DEF Transmit, HttpTypes, StateOwned
  <1>2. AnsweredExactly'
    BY DEF Transmit, AnsweredExactly, Total
  <1>3. st[c] \notin {"new", "open"}
    BY DEF Transmit, Untouched
  <1>4. Untouched'
    BY <1>3 DEF Transmit, Untouched, HttpTypes
  <1>5. ServedAsWritten'
    BY DEF Transmit, ServedAsWritten, Segment, HttpTypes
  <1> QED
    BY <1>1, <1>2, <1>4, <1>5

\* An answer changes what was served on its own connection only.
LEMMA Answered ==
    ASSUME HttpTypes, NEW c \in Conn, NEW s, NEW b, SendResponse(c, s, b)
    PROVE  /\ DOMAIN resp' = Conn /\ DOMAIN served' = Conn /\ DOMAIN queued' = Conn
           /\ resp'[c] = s
           /\ \A d \in Conn \ {c} : /\ resp'[d] = resp[d] /\ served'[d] = served[d]
                                    /\ queued'[d] = queued[d]
  BY DEF HttpTypes, SendResponse

\* The connection is answered with s and closed.
LEMMA AnswerInv ==
    ASSUME HttpInv, NEW c \in Conn, st[c] = "open",
           NEW s, NEW b, SendResponse(c, s, b), Release(c),
           UNCHANGED <<req, got>>,
           used' \in [Conn -> Nat],
           \A d \in Conn \ {c} : used'[d] = used[d],
           s \in Status \ {"none"},
           req[c].spelled =>
              /\ s = "413" => Total(c) > BufMax
              /\ s # "413" => Total(c) <= BufMax /\ used'[c] = Total(c)
    PROVE  HttpInv'
  <1> USE DEF HttpInv
  <1>1. HttpTypes' /\ StateOwned'
    BY Released, Answered DEF HttpTypes
  <1>2. \A d \in Conn : st'[d] = IF d = c THEN "closed" ELSE st[d]
    BY Released
  <1>3. Untouched'
    <2> SUFFICES ASSUME NEW d \in Conn, st'[d] \in {"new", "open"}
                 PROVE  /\ resp'[d] = "none" /\ queued'[d] = FALSE
                        /\ got'[d] = NoBody /\ (st'[d] = "new" => used'[d] = 0)
      BY DEF Untouched, NoBody, Body, Blank
    <2>1. d # c /\ st'[d] = st[d]
      BY <1>2
    <2> QED
      BY <2>1, Answered DEF Untouched
  <1>4. ServedAsWritten'
    <2> SUFFICES ASSUME NEW d \in Conn, got[d] # NoBody
                 PROVE  got[d] = served'[d]
      BY DEF ServedAsWritten, NoBody, Body, Blank
    <2>1. d # c
      BY DEF Untouched
    <2> QED
      BY <2>1, Answered DEF ServedAsWritten
  <1>5. AnsweredExactly'
    <2> SUFFICES ASSUME NEW d \in Conn, req[d].spelled
                 PROVE  /\ resp'[d] = "413" => Total(d) > BufMax
                        /\ resp'[d] \notin {"413", "none"} =>
                              Total(d) <= BufMax /\ used'[d] = Total(d)
                        /\ st'[d] = "open" => used'[d] < Total(d)
      BY DEF AnsweredExactly, Total
    <2>1. CASE d = c
      BY <2>1, <1>2, Answered
    <2>2. CASE d # c
      BY <2>2, <1>2, Answered DEF AnsweredExactly
    <2> QED
      BY <2>1, <2>2
  <1> QED
    BY <1>1, <1>3, <1>4, <1>5

LEMMA RecvInv ==
    ASSUME HttpInv, NEW c \in Conn, NEW k \in 1 .. Total(c), Recv(c, k)
    PROVE  HttpInv'
  <1> USE DEF HttpInv
  <1> DEFINE n == used[c] + k
  <1>0. /\ st[c] = "open" /\ n \in Nat /\ n <= Total(c) /\ BufMax \in Nat
        /\ Total(c) \in Nat /\ UNCHANGED <<req, got>>
    <2>1. Total(c) \in Nat /\ used[c] \in Nat
      BY RequestLengths DEF HttpTypes
    <2>2. st[c] = "open" /\ n <= Total(c) /\ UNCHANGED <<req, got>>
      BY DEF Recv
    <2> QED
      BY <2>1, <2>2, HttpAssumption
  <1>1. CASE TooLarge(n)
    <2>1. SendResponse(c, "413", Body("too large", Blank, Short)) /\ Release(c) /\ used' = used
      BY <1>1 DEF Recv
    <2>2. Total(c) > BufMax
      BY <1>0, <1>1 DEF TooLarge
    <2>3. used' \in [Conn -> Nat]
      BY <2>1 DEF HttpTypes
    <2> HIDE DEF HttpInv, n
    <2> QED
      BY <1>0, <2>1, <2>2, <2>3, AnswerInv DEF Status
  <1>2. CASE ~TooLarge(n) /\ Complete(c, n)
    <2>1. used' = [used EXCEPT ![c] = n] /\ Dispatch(c) /\ Release(c)
      BY <1>2 DEF Recv
    <2>2. used' \in [Conn -> Nat] /\ used'[c] = n
          /\ \A d \in Conn \ {c} : used'[d] = used[d]
      BY <2>1, <1>0 DEF HttpTypes
    <2>3. req[c].spelled => n = Total(c)
      BY <1>0, <1>2, CompleteIsWhole
    <2>4. n <= BufMax
      BY <1>0, <1>2 DEF TooLarge
    <2> HIDE DEF HttpInv, n
    <2>5. req[c].spelled => Total(c) <= BufMax /\ used'[c] = Total(c)
      BY <2>2, <2>3, <2>4
    <2>6. PICK r \in Replies(req[c].path,
                             IF ContentLength(c) = 0 THEN "" ELSE req[c].arg) :
             SendResponse(c, r.status, r.body)
      BY <2>1 DEF Dispatch
    <2>7. r.status \in {"200", "400", "404"}
      BY <2>6, RequestLengths, ReplyStatus DEF HttpInv
    <2> QED
      BY <1>0, <2>1, <2>2, <2>5, <2>6, <2>7, AnswerInv DEF Status
  <1>3. CASE ~TooLarge(n) /\ ~Complete(c, n)
    <2>1. /\ used' = [used EXCEPT ![c] = n]
          /\ UNCHANGED <<st, heap, tcp_arg, resp, served, queued, req, got>>
      BY <1>0, <1>3 DEF Recv
    <2>2. (HttpTypes /\ StateOwned)'
      BY <2>1, <1>0 DEF HttpTypes, StateOwned
    <2>3. (Untouched /\ ServedAsWritten)'
      BY <2>1, <1>0 DEF HttpTypes, Untouched, ServedAsWritten
    <2>4. req[c].spelled => n < Total(c)
      BY <1>0, <1>3, CompleteIsWhole
    <2>5. resp[c] = "none"
      BY <1>0 DEF Untouched
    <2>6. AnsweredExactly'
      BY <2>1, <2>4, <2>5, <1>0 DEF AnsweredExactly, Total, HttpTypes
    <2> QED
      BY <2>2, <2>3, <2>6
  <1> QED
    BY <1>1, <1>2, <1>3

LEMMA HttpNextInv == HttpInv /\ [HttpNext]_httpVars => HttpInv'
  <1> SUFFICES ASSUME HttpInv, [HttpNext]_httpVars PROVE HttpInv'
    OBVIOUS
  <1>1. CASE HttpNext
    BY <1>1, AcceptInv, RecvClosedInv, AbortedInv, TransmitInv, RecvInv DEF HttpNext
  <1>2. CASE UNCHANGED httpVars
    BY <1>2 DEF httpVars, connVars, HttpInv, HttpTypes, Untouched, AnsweredExactly,
                Total, ServedAsWritten, StateOwned, NoBody, Body, Blank
  <1> QED
    BY <1>1, <1>2

LEMMA HttpInvariant == HttpSpec => []HttpInv
  BY HttpInitInv, HttpNextInv, PTL DEF HttpSpec

\* http_server.c:172-195.  However TCP splits a request, the answer is the
\* one its length calls for, the handler has the whole body, and nobody
\* waits for bytes that do not come; for every buffer size.
THEOREM AnswersAreExact == HttpSpec => []AnsweredExactly
  BY HttpInvariant, PTL DEF HttpInv

\* http_server.c:87, webui.c:26.  Every client gets the body that was made
\* for it, with any number of connections sharing the static buffer.
THEOREM BodiesAreKept == HttpSpec => []ServedAsWritten
  BY HttpInvariant, PTL DEF HttpInv

\* http_server.c:162-207.  No connection has a pointer to a freed state, and
\* a state outlives only a connection that was reset.
THEOREM StatesAreOwned == HttpSpec => []StateOwned
  BY HttpInvariant, PTL DEF HttpInv

---------------------------------------------------------------------------
(* The listings of webui.c.  A listing is a loop over a table, a recursive *)
(* function in the model; that it closes its text for every length of the  *)
(* table is shown from its first turn that would not.                      *)

\* Every non-empty set of natural numbers has a least element.
LEMMA LeastElement ==
    ASSUME NEW T \in SUBSET Nat, T # {}
    PROVE  \E x \in T : \A y \in T : x <= y
  <1> DEFINE R == OpToRel(<, Nat)
  <1>1. IsWellFoundedOn(R, Nat)
    BY NatLessThanWellFounded
  <1> HIDE DEF R
  <1>2. PICK x \in T : \A y \in T : ~(<<y, x>> \in R)
    BY <1>1, WFMin
  <1>3. ASSUME NEW y \in T PROVE x <= y
    <2>1. x \in Nat /\ y \in Nat
      OBVIOUS
    <2>2. y < x => <<y, x>> \in R
      BY <2>1 DEF OpToRel, R
    <2> QED BY <1>2, <2>1, <2>2
  <1> QED BY <1>3

\* One turn of the loop over a table: entry i behind the text b.
Turn(start, margin, table, b, i) ==
    LET comma == IF b.len = start.len THEN 0 ELSE 1
    IN  IF table[i] = 0 \/ ~More(b, margin) THEN b
        ELSE Appended(b, comma + table[i])

\* The texts f[0] .. f[n] that the loop goes through.
Loop(start, margin, table, f, n) ==
    f = [i \in 0 .. n |->
            IF i = 0 THEN start ELSE Turn(start, margin, table, f[i - 1], i)]

\* The loop runs: there are such texts for every number of turns.
LEMMA LoopExists ==
    ASSUME NEW start, NEW margin, NEW table, NEW n \in Nat
    PROVE  \E f : Loop(start, margin, table, f, n)
  <1> DEFINE Bad == {m \in Nat : ~ \E f : Loop(start, margin, table, f, m)}
  <1>1. SUFFICES ASSUME Bad # {} PROVE FALSE
    OBVIOUS
  <1>2. PICK m \in Bad : \A x \in Bad : m <= x
    <2>1. Bad \in SUBSET Nat
      OBVIOUS
    <2> HIDE DEF Bad
    <2> QED BY <1>1, <2>1, LeastElement
  <1>3. m \in Nat /\ ~ \E f : Loop(start, margin, table, f, m)
    OBVIOUS
  <1>4. CASE m = 0
    <2> DEFINE f == [i \in 0 .. 0 |-> start]
    <2>1. Loop(start, margin, table, f, 0)
      BY DEF Loop
    <2> QED BY <1>3, <1>4, <2>1
  <1>5. CASE m # 0
    <2>1. m - 1 \in Nat /\ ~(m <= m - 1)
      BY <1>3, <1>5
    <2>2. m - 1 \notin Bad
      BY <1>2, <2>1
    <2>3. PICK g : Loop(start, margin, table, g, m - 1)
      BY <2>1, <2>2
    <2> DEFINE f == [i \in 0 .. m |-> IF i = m THEN Turn(start, margin, table, g[m - 1], m)
                                      ELSE g[i]]
    <2>4. ASSUME NEW i \in 0 .. m
          PROVE  f[i] = IF i = 0 THEN start ELSE Turn(start, margin, table, f[i - 1], i)
      <3>1. CASE i = m
        <4>1. f[i] = Turn(start, margin, table, g[m - 1], m) /\ f[m - 1] = g[m - 1]
          BY <1>3, <1>5, <3>1
        <4> QED BY <1>5, <3>1, <4>1
      <3>2. CASE i # m
        <4>1. i \in 0 .. m - 1 /\ f[i] = g[i]
          BY <1>3, <3>2
        <4>2. g[i] = IF i = 0 THEN start ELSE Turn(start, margin, table, g[i - 1], i)
          BY <2>3, <4>1 DEF Loop
        <4>3. i # 0 => f[i - 1] = g[i - 1]
          BY <1>3, <4>1
        <4> QED BY <4>1, <4>2, <4>3
      <3> QED BY <3>1, <3>2
    <2>5. Loop(start, margin, table, f, m)
      <3>1. f = [i \in 0 .. m |-> f[i]]
        OBVIOUS
      <3> HIDE DEF f
      <3> QED BY <2>4, <3>1 DEF Loop
    <2> QED BY <1>3, <2>5
  <1> QED BY <1>4, <1>5

\* The recursion in Listing defines those texts.
LEMMA ListingLoop ==
    ASSUME NEW start, NEW margin, NEW table
    PROVE  \E f : /\ Loop(start, margin, table, f, TableSize)
                  /\ Listing(start, margin, table) = Appended(f[TableSize], 2)
  <1> DEFINE after[i \in 0 .. TableSize] ==
                 IF i = 0 THEN start
                 ELSE LET b == after[i - 1]
                          comma == IF b.len = start.len THEN 0 ELSE 1
                      IN  IF table[i] = 0 \/ ~More(b, margin) THEN b
                          ELSE Appended(b, comma + table[i])
  <1>1. Listing(start, margin, table) = Appended(after[TableSize], 2)
    BY DEF Listing
  <1>2. after = CHOOSE f : Loop(start, margin, table, f, TableSize)
    BY DEF Loop, Turn
  <1>3. TableSize \in Nat
    BY WebUiAssumption
  <1>4. \E f : Loop(start, margin, table, f, TableSize)
    BY <1>3, LoopExists
  <1> HIDE DEF after
  <1>5. Loop(start, margin, table, after, TableSize)
    BY <1>2, <1>4
  <1> QED BY <1>1, <1>5

\* Bodies of kind w on o, whole or cut.
Texts(w, o) == [what : {w}, of : {o}, len : Nat, whole : BOOLEAN]

\* What snprintf makes of a text and k more bytes: whole while it fits.
LEMMA AppendedText ==
    ASSUME NEW w, NEW o, NEW b \in Texts(w, o), NEW k \in Nat
    PROVE  /\ Appended(b, k) \in Texts(w, o)
           /\ Appended(b, k).len = b.len + k
           /\ b.whole /\ b.len + k < RespSize => Appended(b, k).whole
  <1> DEFINE fit == b.whole /\ b.len + k < RespSize
             a == [b EXCEPT !.len = b.len + k, !.whole = fit]
  <1>1. b.len + k \in Nat /\ fit \in BOOLEAN
    BY DEF Texts
  <1>2. Appended(b, k) = a
    BY DEF Appended
  <1>3. ASSUME NEW n \in Nat, NEW u \in BOOLEAN
        PROVE  /\ [b EXCEPT !.len = n, !.whole = u] \in Texts(w, o)
               /\ [b EXCEPT !.len = n, !.whole = u].len = n
               /\ [b EXCEPT !.len = n, !.whole = u].whole = u
    BY DEF Texts
  <1> HIDE DEF fit
  <1>4. a \in Texts(w, o) /\ a.len = b.len + k /\ a.whole = fit
    BY <1>1, <1>3
  <1> QED BY <1>2, <1>4 DEF fit

\* A listing that begins with h bytes, with entries of at most e bytes
\* against a margin that has room for a comma and the brackets as well.
LEMMA ListingClosed ==
    ASSUME NEW w, NEW o, NEW h \in Nat, NEW e \in Nat, NEW margin \in Nat,
           h + 2 < RespSize, e + 3 <= margin, NEW table \in Tables(e)
    PROVE  /\ Listing(Body(w, o, h), margin, table).whole
           /\ Listing(Body(w, o, h), margin, table).len < RespSize
  <1> DEFINE start == Body(w, o, h)
             Fits(b) == b \in Texts(w, o) /\ b.whole /\ b.len + 2 < RespSize
  <1>1. RespSize \in Nat /\ TableSize \in Nat
    BY WebUiAssumption
  <1>2. Fits(start)
    BY <1>1 DEF Body, Texts
  <1> HIDE DEF start
  <1>3. ASSUME NEW b, Fits(b), NEW i \in 1 .. TableSize
        PROVE  Fits(Turn(start, margin, table, b, i))
    <2>1. table[i] \in Nat /\ table[i] <= e
      BY DEF Tables
    <2>2. b.len \in Nat /\ b.len + 2 < RespSize
      BY <1>3 DEF Texts
    <2> DEFINE k == (IF b.len = start.len THEN 0 ELSE 1) + table[i]
    <2>3. CASE table[i] = 0 \/ ~More(b, margin)
      BY <1>3, <2>3 DEF Turn
    <2>4. CASE ~(table[i] = 0 \/ ~More(b, margin))
      <3>1. Turn(start, margin, table, b, i) = Appended(b, k)
        BY <2>4 DEF Turn
      <3>2. k \in Nat /\ k <= 1 + e
        BY <2>1
      <3>3. b.len < RespSize - margin
        BY <2>4 DEF More
      <3> HIDE DEF k
      <3>4. b.len + k + 2 < RespSize /\ b.len + k < RespSize
        BY <1>1, <2>2, <3>2, <3>3
      <3>5. Appended(b, k) \in Texts(w, o) /\ Appended(b, k).len = b.len + k
            /\ Appended(b, k).whole
        <4>1. b \in Texts(w, o) /\ b.whole
          BY <1>3
        <4>2. Appended(b, k) \in Texts(w, o) /\ Appended(b, k).len = b.len + k
          BY <3>2, <4>1, AppendedText
        <4>3. b.whole /\ b.len + k < RespSize => Appended(b, k).whole
          BY <3>2, <4>1, AppendedText
        <4> QED BY <3>4, <4>1, <4>2, <4>3
      <3>6. Fits(Appended(b, k))
        BY <3>4, <3>5
      <3> QED BY <3>1, <3>6
    <2> QED BY <2>3, <2>4
  <1>4. PICK f : /\ Loop(start, margin, table, f, TableSize)
                 /\ Listing(start, margin, table) = Appended(f[TableSize], 2)
    BY ListingLoop
  <1>5. /\ f[0] = start
        /\ \A i \in 1 .. TableSize : f[i] = Turn(start, margin, table, f[i - 1], i)
    BY <1>1, <1>4 DEF Loop
  <1>6. Fits(f[TableSize])
    <2> DEFINE Bad == {m \in Nat : m <= TableSize /\ ~Fits(f[m])}
    <2>1. SUFFICES ASSUME Bad # {} PROVE FALSE
      BY <1>1
    <2>2. PICK m \in Bad : \A x \in Bad : m <= x
      <3>1. Bad \in SUBSET Nat
        OBVIOUS
      <3> HIDE DEF Bad
      <3> QED BY <2>1, <3>1, LeastElement
    <2>3. m \in Nat /\ m <= TableSize /\ ~Fits(f[m])
      OBVIOUS
    <2>4. m # 0
      BY <1>2, <1>5, <2>3
    <2>5. m - 1 \in Nat /\ ~(m <= m - 1) /\ m - 1 <= TableSize /\ m \in 1 .. TableSize
      BY <1>1, <2>3, <2>4
    <2>6. Fits(f[m - 1])
      BY <2>2, <2>5
    <2> HIDE DEF Fits
    <2> QED BY <1>3, <1>5, <2>3, <2>5, <2>6
  <1> DEFINE l == Appended(f[TableSize], 2)
  <1>7. l.whole /\ l.len < RespSize
    <2>1. f[TableSize] \in Texts(w, o) /\ f[TableSize].whole
          /\ f[TableSize].len + 2 < RespSize
      BY <1>6
    <2> QED BY <2>1, AppendedText
  <1> QED BY <1>4, <1>7 DEF start

\* Every handler leaves a closed body in the buffer, or leaves it alone.
LEMMA ReplyClosed ==
    ASSUME BodyClosed, NEW path \in Path, NEW a, NEW r \in Replies(path, a)
    PROVE  r.buf.whole /\ r.buf.len < RespSize
  <1>0. s_resp_buf.whole /\ s_resp_buf.len < RespSize
    BY DEF BodyClosed
  <1>1. \A s, w, n : Fixed(s, w, n).buf = s_resp_buf
    BY DEF Fixed
  <1>2. \A x : Edited(x).buf = s_resp_buf
    BY DEF Fixed, Edited
  <1>3. \A x : Formatted(x).buf = x
    BY DEF Formatted
  <1>4. CASE path = "status"
    <2>1. PICK t \in Tables(StatusEntry) : r = Formatted(ServeStatus(t))
      BY <1>4 DEF Replies
    <2>2. ServeStatus(t).whole /\ ServeStatus(t).len < RespSize
      BY WebUiAssumption, ListingClosed DEF ServeStatus
    <2> QED BY <1>3, <2>1, <2>2
  <1>5. CASE path = "channels"
    <2>1. PICK t \in Tables(ChannelEntry) : r = Formatted(ServeChannels(t))
      BY <1>5 DEF Replies
    <2>2. ServeChannels(t).whole /\ ServeChannels(t).len < RespSize
      BY WebUiAssumption, ListingClosed DEF ServeChannels
    <2> QED BY <1>3, <2>1, <2>2
  <1>6. CASE path \notin {"status", "channels"}
    <2>1. r.buf = s_resp_buf
      <3>1. CASE path \in {"/", "unknown", "no line"}
        <4>1. \E s, w, n : r = Fixed(s, w, n)
          BY <3>1 DEF Replies, ServeIndex
        <4> QED BY <1>1, <4>1
      <3>2. CASE path \in {"play", "stop", "name"}
        <4>1. \E x : r = Edited(x)
          BY <3>2 DEF Replies, PostPlay, PostName
        <4> QED BY <1>2, <4>1
      <3>3. CASE path = "tempo"
        BY <1>1, <1>2, <3>3 DEF Replies, PostTempo, Failed
      <3>4. CASE path \in {"subscribe", "unsubscribe"}
        <4>1. r \in PostSubscription(a)
          BY <3>4 DEF Replies
        <4> QED BY <1>1, <1>2, <4>1 DEF PostSubscription, Failed
      <3> QED BY <1>6, <3>1, <3>2, <3>3, <3>4 DEF Path
    <2> QED BY <1>0, <2>1
  <1> QED BY <1>4, <1>5, <1>6

\* The buffer is closed from the start and after every answer.
LEMMA ClosedInit == HttpInit => BodyClosed
  <1>1. 0 < RespSize
    <2>1. RespSize \in Nat /\ StatusHead \in Nat /\ StatusHead + 2 < RespSize
      BY WebUiAssumption
    <2> QED BY <2>1
  <1> QED
    BY <1>1 DEF HttpInit, WebInit, BodyClosed, Body

LEMMA ClosedNext == HttpInv /\ BodyClosed /\ [HttpNext]_httpVars => BodyClosed'
  <1> SUFFICES ASSUME HttpInv, BodyClosed, [HttpNext]_httpVars PROVE BodyClosed'
    OBVIOUS
  <1>1. CASE s_resp_buf' = s_resp_buf
    BY <1>1 DEF BodyClosed
  <1>2. ASSUME NEW c \in Conn, Dispatch(c)
        PROVE  BodyClosed'
    <2> DEFINE a == IF ContentLength(c) = 0 THEN "" ELSE req[c].arg
    <2>1. PICK r \in Replies(req[c].path, a) : s_resp_buf' = r.buf
      BY <1>2 DEF Dispatch
    <2>2. req[c].path \in Path
      BY RequestLengths DEF HttpInv
    <2> HIDE DEF a
    <2>3. r.buf.whole /\ r.buf.len < RespSize
      BY <2>1, <2>2, ReplyClosed
    <2> QED
      BY <2>1, <2>3 DEF BodyClosed
  <1>3. s_resp_buf' = s_resp_buf \/ \E c \in Conn : Dispatch(c)
    BY DEF HttpNext, Accept, RecvClosed, Aborted, Transmit, Recv, httpVars, webVars
  <1> QED
    BY <1>1, <1>2, <1>3

\* webui.c:169-191 and 199-213.  A listing of any table is cut between two
\* entries and closed inside the buffer, in every state of the server: for
\* every size of the table and of the buffer whose margin has room for one
\* entry, a comma and the brackets.
THEOREM BodiesAreClosed == HttpSpec => []BodyClosed
  BY HttpInvariant, ClosedInit, ClosedNext, PTL DEF HttpSpec

---------------------------------------------------------------------------
(* The UDP layer: any sizes of lwIP's pools, any datagrams and any number  *)
(* of sendings per tick.                                                   *)

UdpTypes ==
    /\ others \in Nat /\ pcbs \in Nat /\ pool \in Nat /\ sends \in Nat
    /\ refs \in [Pbuf -> Nat]
    /\ arp \subseteq Pbuf
    /\ held \in BOOLEAN
    /\ udp_pc \in {"idle", "new", "send", "remove"}
    /\ udp_pc # "idle" => tx_p \in Pbuf /\ sends > 0

\* The references to a buffer: the one of udp_tx and the one of address
\* resolution.
RefCount(b) ==
    IF b \in arp THEN (IF udp_pc # "idle" /\ b = tx_p THEN 2 ELSE 1)
    ELSE (IF udp_pc # "idle" /\ b = tx_p THEN 1 ELSE 0)

\* Who holds what at each place of the code.
Accounted ==
    /\ pcbs = IF udp_pc \in {"send", "remove"} THEN others + 1 ELSE others
    /\ pool = IF held THEN 1 ELSE 0
    /\ \A b \in Pbuf : refs[b] = RefCount(b)
    /\ udp_pc \in {"new", "send"} => tx_p \notin arp

UdpInv == UdpTypes /\ Accounted

---------------------------------------------------------------------------
LEMMA UdpInitInv == UdpInit => UdpInv
  <1> SUFFICES ASSUME UdpInit PROVE UdpInv
    OBVIOUS
  <1>1. others \in Nat /\ pcbs = others
    BY UdpAssumption DEF UdpInit
  <1>2. UdpTypes
    BY <1>1 DEF UdpInit, UdpTypes
  <1>3. Accounted
    BY <1>1 DEF UdpInit, Accounted, RefCount
  <1> QED
    BY <1>2, <1>3 DEF UdpInv

\* Only the receive path moves: what it leaves alone stays accounted for.
LEMMA ReceiveInv ==
    ASSUME UdpInv, udp_pc = "idle", UNCHANGED <<others, pcbs, refs, arp, udp_pc, tx_p>>,
           sends' \in Nat, held' \in BOOLEAN, pool' = IF held' THEN 1 ELSE 0
    PROVE  UdpInv'
  BY DEF UdpInv, UdpTypes, Accounted, RefCount

LEMMA UdpRxInv ==
    ASSUME UdpInv, NEW d \in Datagram, UdpRx(d)
    PROVE  UdpInv'
  <1>1. Answers(d) \subseteq Nat
    BY DEF Answers
  <1>2. sends' \in Nat
    BY <1>1 DEF UdpRx
  <1>3. /\ udp_pc = "idle" /\ UNCHANGED <<others, pcbs, refs, arp, udp_pc, tx_p>>
        /\ held' \in BOOLEAN /\ pool' = IF held' THEN 1 ELSE 0
    BY DEF UdpRx, UdpInv, UdpTypes, Accounted
  <1> QED
    BY <1>2, <1>3, ReceiveInv

LEMMA UdpRxDoneInv ==
    ASSUME UdpInv, UdpRxDone
    PROVE  UdpInv'
  <1>1. pool = 1
    BY DEF UdpRxDone, UdpInv, Accounted
  <1>2. pool' = 0 /\ held' = FALSE
    BY <1>1 DEF UdpRxDone
  <1>3. /\ udp_pc = "idle" /\ UNCHANGED <<others, pcbs, refs, arp, udp_pc, tx_p>>
        /\ sends' \in Nat
    BY DEF UdpRxDone, UdpInv, UdpTypes
  <1> QED
    BY <1>2, <1>3, ReceiveInv

LEMMA TickInv ==
    ASSUME UdpInv, Tick
    PROVE  UdpInv'
  <1>1. /\ udp_pc = "idle" /\ UNCHANGED <<others, pcbs, refs, arp, udp_pc, tx_p>>
        /\ held' \in BOOLEAN /\ pool' = IF held' THEN 1 ELSE 0
        /\ sends' \in Nat
    BY UdpAssumption DEF Tick, lwip, UdpInv, UdpTypes, Accounted
  <1> QED
    BY <1>1, ReceiveInv

LEMMA PbufAllocInv ==
    ASSUME UdpInv, PbufAlloc
    PROVE  UdpInv'
  <1> USE DEF UdpInv
  <1>1. CASE FreePbufs = {}
    BY <1>1 DEF PbufAlloc, UdpTxReturns, UdpTypes, Accounted, RefCount
  <1>2. CASE FreePbufs # {}
    <2>1. tx_p' \in FreePbufs
      BY <1>2 DEF PbufAlloc
    <2>2. tx_p' \in Pbuf /\ refs[tx_p'] = 0 /\ tx_p' \notin arp
      BY <2>1 DEF FreePbufs, Accounted, RefCount
    <2>3. UdpTypes'
      BY <1>2, <2>2 DEF PbufAlloc, UdpTypes
    <2>4. Accounted'
      BY <1>2, <2>2 DEF PbufAlloc, UdpTypes, Accounted, RefCount
    <2> QED
      BY <2>3, <2>4
  <1> QED
    BY <1>1, <1>2

LEMMA UdpNewInv ==
    ASSUME UdpInv, UdpNew
    PROVE  UdpInv'
  <1> USE DEF UdpInv
  <1>1. CASE pcbs = Pcbs
    <2>1. refs[tx_p] = 1
      BY DEF UdpNew, UdpTypes, Accounted, RefCount
    <2>2. UdpTypes'
      BY <1>1, <2>1 DEF UdpNew, UdpTxReturns, Freed, UdpTypes
    <2>3. Accounted'
      BY <1>1, <2>1 DEF UdpNew, UdpTxReturns, Freed, UdpTypes, Accounted, RefCount
    <2> QED
      BY <2>2, <2>3
  <1>2. CASE pcbs # Pcbs
    BY <1>2 DEF UdpNew, UdpTypes, Accounted, RefCount
  <1> QED
    BY <1>1, <1>2

LEMMA UdpSendtoInv ==
    ASSUME UdpInv, UdpSendto
    PROVE  UdpInv'
  <1> USE DEF UdpInv
  <1>0. tx_p \in Pbuf /\ tx_p \notin arp /\ refs[tx_p] = 1
    BY DEF UdpSendto, UdpTypes, Accounted, RefCount
  <1>1. CASE UNCHANGED <<refs, arp>>
    BY <1>1 DEF UdpSendto, UdpTypes, Accounted, RefCount
  <1>2. CASE arp' = arp \cup {tx_p} /\ refs' = [refs EXCEPT ![tx_p] = @ + 1]
    BY <1>0, <1>2 DEF UdpSendto, UdpTypes, Accounted, RefCount
  <1>3. ASSUME NEW b \in arp, arp' = (arp \ {b}) \cup {tx_p},
               refs' = [refs EXCEPT ![b] = @ - 1, ![tx_p] = @ + 1]
        PROVE  UdpInv'
    <2>1. b \in Pbuf /\ b # tx_p /\ refs[b] = 1
      BY <1>0 DEF UdpTypes, Accounted, RefCount
    <2>2. UdpTypes'
      BY <1>0, <1>3, <2>1 DEF UdpSendto, UdpTypes
    <2>3. \A x \in Pbuf : refs'[x] = IF x = b THEN 0 ELSE IF x = tx_p THEN 2 ELSE refs[x]
      BY <1>0, <1>3, <2>1 DEF UdpTypes
    <2>4. Accounted'
      BY <1>0, <1>3, <2>1, <2>3 DEF UdpSendto, Accounted, RefCount
    <2> QED
      BY <2>2, <2>4
  <1> QED
    BY <1>1, <1>2, <1>3 DEF UdpSendto

LEMMA UdpRemoveInv ==
    ASSUME UdpInv, UdpRemove
    PROVE  UdpInv'
  <1> USE DEF UdpInv
  <1>1. tx_p \in Pbuf /\ refs[tx_p] \in {1, 2} /\ pcbs = others + 1 /\ sends > 0
    BY DEF UdpRemove, UdpTypes, Accounted, RefCount
  <1>2. UdpTypes'
    BY <1>1 DEF UdpRemove, UdpTxReturns, Freed, UdpTypes
  <1>3. Accounted'
    BY <1>1 DEF UdpRemove, UdpTxReturns, Freed, UdpTypes, Accounted, RefCount
  <1> QED
    BY <1>2, <1>3

LEMMA ArpDoneInv ==
    ASSUME UdpInv, NEW b \in Pbuf, ArpDone(b)
    PROVE  UdpInv'
  <1> USE DEF UdpInv
  <1>1. b \in arp /\ refs[b] \in {1, 2}
    BY DEF ArpDone, Accounted, RefCount
  <1>2. UdpTypes'
    BY <1>1 DEF ArpDone, Freed, UdpTypes
  <1>3. Accounted'
    BY <1>1 DEF ArpDone, Freed, UdpTypes, Accounted, RefCount
  <1> QED
    BY <1>2, <1>3

LEMMA UdpNextInv == UdpInv /\ [UdpNext]_udpVars => UdpInv'
  <1> SUFFICES ASSUME UdpInv, [UdpNext]_udpVars PROVE UdpInv'
    OBVIOUS
  <1>1. CASE UdpNext
    BY <1>1, UdpRxInv, UdpRxDoneInv, TickInv, PbufAllocInv, UdpNewInv,
       UdpSendtoInv, UdpRemoveInv, ArpDoneInv DEF UdpNext
  <1>2. CASE UNCHANGED udpVars
    BY <1>2 DEF udpVars, UdpInv, UdpTypes, Accounted, RefCount
  <1> QED
    BY <1>1, <1>2

LEMMA InvLeavesNothing == UdpInv => NothingLeaks
  BY DEF UdpInv, UdpTypes, Accounted, RefCount, NothingLeaks

\* net.c:54-68 and 123-139.  Every failure path of udp_tx and every way
\* through udp_rx_handler gives back what it took, and a buffer that lwIP
\* still holds is not given out again; for pools of every size.
THEOREM NothingIsLeaked == UdpSpec => []NothingLeaks
  BY UdpInitInv, UdpNextInv, InvLeavesNothing, PTL DEF UdpSpec

---------------------------------------------------------------------------
(* The Ethernet driver: any number of slots.  A queue of frames is a       *)
(* window of the slots that ends before the one to be taken next; that the *)
(* next slot is free follows from where the others are.                    *)

\* The successor of a slot.
LEMMA NextSlot ==
    ASSUME NEW n \in Nat \ {0}, NEW x \in 0 .. n - 1
    PROVE  (x + 1) % n = IF x = n - 1 THEN 0 ELSE x + 1
  <1>1. CASE x = n - 1
    BY <1>1, SMTT(20)
  <1>2. CASE x # n - 1
    BY <1>2, SMTT(20)
  <1> QED
    BY <1>1, <1>2

\* Of n slots taken in turn, with slot nxt to be taken next: the slot of the
\* i-th of the last k.
Place(n, nxt, k, i) ==
    IF nxt + i > k THEN nxt + i - k - 1 ELSE nxt + i - k - 1 + n

\* The queue q holds the last slots taken, and each still has its frame.
Kept(buf, q, n, nxt) ==
    /\ buf \in [0 .. n - 1 -> Nat] /\ nxt \in 0 .. n - 1
    /\ q \in Seq([slot : 0 .. n - 1, frame : Nat]) /\ Len(q) <= n
    /\ \A i \in 1 .. Len(q) : /\ q[i].slot = Place(n, nxt, Len(q), i)
                              /\ buf[q[i].slot] = q[i].frame

\* An element of a sequence.
LEMMA EntryIn ==
    ASSUME NEW S, NEW q \in Seq(S), NEW i \in 1 .. Len(q)
    PROVE  q[i] \in S
  OBVIOUS

\* No waiting slot is the next one, while one is free.
LEMMA PlaceIsTaken ==
    ASSUME NEW n \in Nat \ {0}, NEW nxt \in 0 .. n - 1, NEW k \in Nat, k < n,
           NEW i \in Nat, 1 <= i, i <= k
    PROVE  Place(n, nxt, k, i) # nxt
  BY DEF Place

\* While there is a free slot, writing to the next one disturbs no other.
LEMMA WriteKeeps ==
    ASSUME NEW n \in Nat \ {0}, NEW buf, NEW q, NEW nxt, NEW f \in Nat,
           Kept(buf, q, n, nxt), Len(q) < n
    PROVE  /\ Kept([buf EXCEPT ![nxt] = f], q, n, nxt)
           /\ [buf EXCEPT ![nxt] = f][nxt] = f
  <1>1. /\ buf \in [0 .. n - 1 -> Nat] /\ nxt \in 0 .. n - 1
        /\ q \in Seq([slot : 0 .. n - 1, frame : Nat]) /\ Len(q) \in Nat
    BY DEF Kept
  <1>2. ASSUME NEW i \in 1 .. Len(q)
        PROVE  q[i].slot # nxt /\ q[i].slot \in 0 .. n - 1
    <2>1. i \in Nat /\ 1 <= i /\ i <= Len(q)
      BY <1>1
    <2>2. q[i].slot = Place(n, nxt, Len(q), i)
      BY DEF Kept
    <2>3. q[i] \in [slot : 0 .. n - 1, frame : Nat]
      BY <1>1, EntryIn
    <2>4. Place(n, nxt, Len(q), i) # nxt
      BY <1>1, <2>1, PlaceIsTaken
    <2> QED BY <2>2, <2>3, <2>4
  <1> DEFINE b == [buf EXCEPT ![nxt] = f]
  <1>3. b \in [0 .. n - 1 -> Nat] /\ b[nxt] = f
        /\ \A s \in 0 .. n - 1 : s # nxt => b[s] = buf[s]
    BY <1>1
  <1> HIDE DEF b
  <1>4. Kept(b, q, n, nxt)
    BY <1>1, <1>2, <1>3 DEF Kept
  <1> QED
    BY <1>3, <1>4 DEF b

\* Taking the next slot, in which the frame is.
LEMMA TakeKeeps ==
    ASSUME NEW n \in Nat \ {0}, NEW buf, NEW q, NEW nxt, NEW f \in Nat,
           Kept(buf, q, n, nxt), Len(q) < n, buf[nxt] = f
    PROVE  Kept(buf, Append(q, [slot |-> nxt, frame |-> f]), n, (nxt + 1) % n)
  <1> DEFINE e == [slot |-> nxt, frame |-> f]
             q1 == Append(q, e)
             k == Len(q)
             n1 == (nxt + 1) % n
  <1>1. /\ buf \in [0 .. n - 1 -> Nat] /\ nxt \in 0 .. n - 1
        /\ q \in Seq([slot : 0 .. n - 1, frame : Nat]) /\ k \in Nat /\ k < n
    BY DEF Kept
  <1>2. e \in [slot : 0 .. n - 1, frame : Nat] /\ e.slot = nxt /\ e.frame = f
    BY <1>1
  <1>3. n1 = (IF nxt = n - 1 THEN 0 ELSE nxt + 1) /\ n1 \in 0 .. n - 1
    BY <1>1, NextSlot
  <1> HIDE DEF e, n1
  <1>4. /\ q1 \in Seq([slot : 0 .. n - 1, frame : Nat]) /\ Len(q1) = k + 1
        /\ q1[k + 1] = e /\ \A i \in 1 .. k : q1[i] = q[i]
    BY <1>1, <1>2
  <1>5. ASSUME NEW i \in 1 .. k + 1
        PROVE  q1[i].slot = Place(n, n1, k + 1, i) /\ buf[q1[i].slot] = q1[i].frame
    <2>1. CASE i = k + 1
      <3>1. Place(n, n1, k + 1, k + 1) = nxt
        BY <1>1, <1>3 DEF Place
      <3> QED BY <1>2, <1>4, <2>1, <3>1
    <2>2. CASE i # k + 1
      <3>1. i \in 1 .. k
        BY <1>1, <2>2
      <3>2. q[i].slot = Place(n, nxt, k, i) /\ buf[q[i].slot] = q[i].frame
        BY <3>1 DEF Kept
      <3>3. Place(n, n1, k + 1, i) = Place(n, nxt, k, i)
        <4>1. i \in Nat /\ 1 <= i /\ i <= k
          BY <1>1, <3>1
        <4> HIDE DEF k
        <4>2. nxt \in 0 .. n - 1 /\ k \in Nat /\ k < n
              /\ (nxt = n - 1 => n1 = 0) /\ (nxt # n - 1 => n1 = nxt + 1)
          BY <1>1, <1>3
        <4>3. CASE nxt = n - 1
          BY <4>1, <4>2, <4>3 DEF Place
        <4>4. CASE nxt # n - 1
          BY <4>1, <4>2, <4>4 DEF Place
        <4> QED BY <4>3, <4>4
      <3> QED BY <1>4, <3>1, <3>2, <3>3
    <2> QED BY <2>1, <2>2
  <1> HIDE DEF q1
  <1>6. Kept(buf, q1, n, n1)
    BY <1>1, <1>3, <1>4, <1>5 DEF Kept
  <1> QED
    BY <1>6 DEF q1, e, n1

\* The oldest slot is released.
LEMMA ReleaseKeeps ==
    ASSUME NEW n \in Nat \ {0}, NEW buf, NEW q, NEW nxt,
           Kept(buf, q, n, nxt), q # <<>>
    PROVE  Kept(buf, Tail(q), n, nxt)
  <1> DEFINE k == Len(q)
             q1 == Tail(q)
  <1>1. /\ nxt \in 0 .. n - 1
        /\ q \in Seq([slot : 0 .. n - 1, frame : Nat]) /\ k \in Nat \ {0} /\ k <= n
    BY DEF Kept
  <1>2. /\ q1 \in Seq([slot : 0 .. n - 1, frame : Nat]) /\ Len(q1) = k - 1
        /\ \A i \in 1 .. k - 1 : q1[i] = q[i + 1]
    BY <1>1
  <1>3. ASSUME NEW i \in 1 .. k - 1
        PROVE  q1[i].slot = Place(n, nxt, k - 1, i) /\ buf[q1[i].slot] = q1[i].frame
    <2>1. i + 1 \in 1 .. k
      BY <1>1
    <2>2. q[i + 1].slot = Place(n, nxt, k, i + 1) /\ buf[q[i + 1].slot] = q[i + 1].frame
      BY <2>1 DEF Kept
    <2>3. Place(n, nxt, k, i + 1) = Place(n, nxt, k - 1, i)
      BY <1>1 DEF Place
    <2> QED BY <1>2, <2>2, <2>3
  <1> HIDE DEF q1
  <1>4. Kept(buf, q1, n, nxt)
    BY <1>1, <1>2, <1>3 DEF Kept
  <1> QED
    BY <1>4 DEF q1

\* The transmit side: a slot is free from the end of the spin to the start
\* command, and holds the frame when the command is given.
TxSide ==
    /\ out_frame \in Nat /\ out_pc \in {"idle", "spin", "copy", "start"}
    /\ Kept(txbuf, commands, TxSlots, s_tx_slot)
    /\ out_pc \in {"copy", "start"} => Len(commands) < TxSlots
    /\ out_pc = "start" => txbuf[s_tx_slot] = out_frame

\* The receive side: the slot that is copied is that of the oldest event,
\* which is acknowledged only afterwards.
RxSide ==
    /\ in_frame \in Nat /\ in_pc \in {"idle", "copy", "ack"}
    /\ Kept(rxbuf, stored, RxSlots, wr_slot)
    /\ in_pc \in {"copy", "ack"} => stored # <<>>
    /\ in_pc = "copy" => rx_slot = Head(stored).slot /\ expected = Head(stored).frame
    /\ in_pc \in {"idle", "ack"} => p \in {0, expected}

\* The inductive invariant of the driver.
EthInv == TxSide /\ RxSide

\* Before the first frame.
LEMMA EmptyKept ==
    ASSUME NEW n \in Nat \ {0}
    PROVE  Kept([s \in 0 .. n - 1 |-> 0], <<>>, n, 0)
  BY DEF Kept

LEMMA EthInitInv == EthInit => EthInv
  BY EthAssumption, EmptyKept DEF EthInit, EthInv, TxSide, RxSide

\* The numbers that the model gives to frames.
LEMMA FrameNumber ==
    ASSUME NEW f \in Nat
    PROVE  NextFrame(f) \in Nat
  <1>1. MaxFrame \in Nat \ {0}
    BY EthAssumption
  <1> QED
    BY <1>1, SMTT(20) DEF NextFrame

\* low_level_output and the MAC's reader.
LEMMA TxSideStep ==
    ASSUME TxSide, [Output \/ Spin \/ CopyOut \/ Start \/ Transmitted]_output
    PROVE  TxSide'
  <1> USE DEF TxSide
  <1>0. TxSlots \in Nat \ {0}
    BY EthAssumption
  <1>1. CASE Output
    BY <1>1, FrameNumber DEF Output
  <1>2. CASE Spin
    BY <1>2 DEF Spin, ReaderReady
  <1>3. CASE CopyOut
    <2>1. /\ Kept(txbuf, commands, TxSlots, s_tx_slot) /\ out_frame \in Nat
          /\ Len(commands) < TxSlots
      BY <1>3 DEF CopyOut
    <2> DEFINE b == [txbuf EXCEPT ![s_tx_slot] = out_frame]
    <2>2. Kept(b, commands, TxSlots, s_tx_slot) /\ b[s_tx_slot] = out_frame
      BY <1>0, <2>1, WriteKeeps
    <2>3. txbuf' = b /\ UNCHANGED <<s_tx_slot, out_frame, commands>>
          /\ out_pc' \in {"idle", "start"}
      BY <1>3 DEF CopyOut
    <2> HIDE DEF b
    <2> QED
      BY <2>1, <2>2, <2>3
  <1>4. CASE Start
    BY <1>0, <1>4, TakeKeeps DEF Start
  <1>5. CASE Transmitted
    <2>1. Kept(txbuf, commands', TxSlots, s_tx_slot)
      BY <1>0, <1>5, ReleaseKeeps DEF Transmitted
    <2>2. Len(commands') <= Len(commands) /\ Len(commands') \in Nat /\ Len(commands) \in Nat
      BY <1>5 DEF Transmitted, Kept
    <2> QED BY <1>0, <1>5, <2>1, <2>2 DEF Transmitted
  <1>6. CASE UNCHANGED output
    BY <1>6 DEF output
  <1> QED
    BY <1>1, <1>2, <1>3, <1>4, <1>5, <1>6

\* netif_litex_input and the MAC's writer.
LEMMA RxSideStep ==
    ASSUME RxSide, [Arrive \/ ReadSlot \/ CopyIn \/ AckEvent]_input
    PROVE  RxSide'
  <1> USE DEF RxSide
  <1>0. RxSlots \in Nat \ {0}
    BY EthAssumption
  <1>1. CASE Arrive
    <2>1. in_frame' \in Nat
      BY <1>1, FrameNumber DEF Arrive
    <2>2. CASE Len(stored) = RxSlots /\ UNCHANGED <<rxbuf, stored, wr_slot>>
      BY <1>1, <2>1, <2>2 DEF Arrive
    <2>3. CASE /\ Len(stored) < RxSlots
               /\ rxbuf' = [rxbuf EXCEPT ![wr_slot] = in_frame']
               /\ stored' = Append(stored, [slot |-> wr_slot, frame |-> in_frame'])
               /\ wr_slot' = (wr_slot + 1) % RxSlots
      <3>1. Kept(rxbuf', stored, RxSlots, wr_slot) /\ rxbuf'[wr_slot] = in_frame'
        <4> DEFINE f == in_frame'
                   b == [rxbuf EXCEPT ![wr_slot] = f]
        <4>1. f \in Nat /\ Len(stored) < RxSlots /\ Kept(rxbuf, stored, RxSlots, wr_slot)
          BY <2>1, <2>3
        <4> HIDE DEF f
        <4>2. Kept(b, stored, RxSlots, wr_slot) /\ b[wr_slot] = f
          BY <1>0, <4>1, WriteKeeps
        <4>3. rxbuf' = b
          BY <2>3 DEF f
        <4> QED BY <4>2, <4>3 DEF f
      <3>2. Kept(rxbuf', stored', RxSlots, wr_slot')
        BY <1>0, <2>1, <2>3, <3>1, TakeKeeps
      <3>3. stored' # <<>> /\ (stored # <<>> => Head(stored') = Head(stored))
        BY <2>3 DEF Kept
      <3> QED
        BY <1>1, <2>1, <3>2, <3>3 DEF Arrive
    <2> QED
      BY <1>1, <2>2, <2>3 DEF Arrive
  <1>2. CASE ReadSlot
    BY <1>2 DEF ReadSlot
  <1>3. CASE CopyIn
    <2>1. /\ rxbuf[rx_slot] = expected
      BY <1>3 DEF CopyIn, Kept
    <2> QED
      BY <1>3, <2>1 DEF CopyIn
  <1>4. CASE AckEvent
    BY <1>0, <1>4, ReleaseKeeps DEF AckEvent
  <1>5. CASE UNCHANGED input
    BY <1>5 DEF input
  <1> QED
    BY <1>1, <1>2, <1>3, <1>4, <1>5

\* The two sides share no variable.
LEMMA EthStep == EthInv /\ [EthNext]_ethVars => EthInv'
  <1> SUFFICES ASSUME EthInv, [EthNext]_ethVars PROVE EthInv'
    OBVIOUS
  <1>1. [Output \/ Spin \/ CopyOut \/ Start \/ Transmitted]_output
    BY DEF EthNext, ethVars, Arrive, ReadSlot, CopyIn, AckEvent
  <1>2. [Arrive \/ ReadSlot \/ CopyIn \/ AckEvent]_input
    BY DEF EthNext, ethVars, Output, Spin, CopyOut, Start, Transmitted
  <1> QED
    BY <1>1, <1>2, TxSideStep, RxSideStep DEF EthInv

\* netif_litex.c:64-89 and 126-153.  A frame that waits in a slot of the MAC,
\* on its way out or in, is never overwritten before it is sent or handed to
\* lwIP; for every number of slots and whatever the MAC does between two steps
\* of the driver.
THEOREM SlotsAreKept == EthSpec => []SlotsKept
  <1>1. EthInv => SlotsKept
    <2> SUFFICES ASSUME EthInv PROVE SlotsKept
      OBVIOUS
    <2>1. /\ commands \in Seq([slot : 0 .. TxSlots - 1, frame : Nat])
          /\ \A i \in 1 .. Len(commands) : txbuf[commands[i].slot] = commands[i].frame
      BY DEF EthInv, TxSide, Kept
    <2>2. DOMAIN commands = 1 .. Len(commands)
      BY <2>1
    <2>3. in_pc \in {"idle", "ack"} => p \in {0, expected}
      BY DEF EthInv, RxSide
    <2> QED
      BY <2>1, <2>2, <2>3 DEF SlotsKept
  <1> QED
    BY <1>1, EthInitInv, EthStep, PTL DEF EthSpec

---------------------------------------------------------------------------
(* The TLV codec.  FlattenSeq and AucaTotal are recursive functions: that  *)
(* their equations have a solution, and what it is, is shown from the      *)
(* least index at which it would not.                                      *)

\* The concatenations f[1] .. f[n] of the first sequences of s.
Joins(s, f, n) ==
    f = [i \in 1 .. n |-> IF i = 1 THEN s[i] ELSE f[i - 1] \o s[i]]

\* There are such concatenations for every n.
LEMMA JoinsExist ==
    ASSUME NEW s, NEW n \in Nat
    PROVE  \E f : Joins(s, f, n)
  <1> DEFINE Bad == {m \in Nat : ~ \E f : Joins(s, f, m)}
  <1>1. SUFFICES ASSUME Bad # {} PROVE FALSE
    OBVIOUS
  <1>2. PICK m \in Bad : \A x \in Bad : m <= x
    <2>1. Bad \in SUBSET Nat
      OBVIOUS
    <2> HIDE DEF Bad
    <2> QED BY <1>1, <2>1, LeastElement
  <1>3. m \in Nat /\ ~ \E f : Joins(s, f, m)
    OBVIOUS
  <1>4. CASE m = 0
    <2> DEFINE f == [i \in 1 .. 0 |-> s]
    <2>1. Joins(s, f, 0)
      BY DEF Joins
    <2> QED BY <1>3, <1>4, <2>1
  <1>5. CASE m # 0
    <2>1. m - 1 \in Nat /\ ~(m <= m - 1)
      BY <1>3, <1>5
    <2>2. m - 1 \notin Bad
      BY <1>2, <2>1
    <2>3. PICK g : Joins(s, g, m - 1)
      BY <2>1, <2>2
    <2> DEFINE f == [i \in 1 .. m |-> IF i = m THEN IF m = 1 THEN s[m] ELSE g[m - 1] \o s[m]
                                      ELSE g[i]]
    <2>4. ASSUME NEW i \in 1 .. m
          PROVE  f[i] = IF i = 1 THEN s[i] ELSE f[i - 1] \o s[i]
      <3>1. CASE i = m
        <4>1. m # 1 => f[m - 1] = g[m - 1]
          BY <1>3, <1>5, <3>1
        <4> QED BY <1>5, <3>1, <4>1
      <3>2. CASE i # m
        <4>1. i \in 1 .. m - 1 /\ f[i] = g[i]
          BY <1>3, <3>2
        <4>2. g[i] = IF i = 1 THEN s[i] ELSE g[i - 1] \o s[i]
          BY <2>3, <4>1 DEF Joins
        <4>3. i # 1 => f[i - 1] = g[i - 1]
          BY <1>3, <4>1
        <4> QED BY <4>1, <4>2, <4>3
      <3> QED BY <3>1, <3>2
    <2>5. Joins(s, f, m)
      <3>1. f = [i \in 1 .. m |-> f[i]]
        OBVIOUS
      <3> HIDE DEF f
      <3> QED BY <2>4, <3>1 DEF Joins
    <2> QED BY <1>3, <2>5
  <1> QED BY <1>4, <1>5

\* FlattenSeq is the last of them.
LEMMA FlattenJoins ==
    ASSUME NEW s, Len(s) \in Nat \ {0}
    PROVE  \E f : Joins(s, f, Len(s)) /\ FlattenSeq(s) = f[Len(s)]
  <1> DEFINE flatten[i \in 1 .. Len(s)] == IF i = 1 THEN s[i] ELSE flatten[i - 1] \o s[i]
  <1>1. FlattenSeq(s) = flatten[Len(s)]
    BY DEF FlattenSeq
  <1>2. flatten = CHOOSE f : Joins(s, f, Len(s))
    BY DEF Joins
  <1>3. \E f : Joins(s, f, Len(s))
    BY JoinsExist
  <1> HIDE DEF flatten
  <1>4. Joins(s, flatten, Len(s))
    BY <1>2, <1>3
  <1> QED BY <1>1, <1>4

\* They depend on the sequences joined only.
LEMMA JoinsAgree ==
    ASSUME NEW s, NEW r, NEW n \in Nat, NEW m \in 0 .. n, NEW f, NEW g,
           Joins(s, f, n), Joins(r, g, m), \A i \in 1 .. m : r[i] = s[i]
    PROVE  \A i \in 1 .. m : g[i] = f[i]
  <1> DEFINE Bad == {i \in 1 .. m : g[i] # f[i]}
  <1>1. SUFFICES ASSUME Bad # {} PROVE FALSE
    OBVIOUS
  <1>2. PICK i \in Bad : \A x \in Bad : i <= x
    <2>1. Bad \in SUBSET Nat
      OBVIOUS
    <2> HIDE DEF Bad
    <2> QED BY <1>1, <2>1, LeastElement
  <1>3. /\ i \in 1 .. m /\ i \in 1 .. n /\ g[i] # f[i] /\ r[i] = s[i]
    OBVIOUS
  <1>4. /\ f[i] = IF i = 1 THEN s[i] ELSE f[i - 1] \o s[i]
        /\ g[i] = IF i = 1 THEN r[i] ELSE g[i - 1] \o r[i]
    BY <1>3 DEF Joins
  <1>5. i # 1 => g[i - 1] = f[i - 1]
    <2>1. i # 1 => i - 1 \in 1 .. m /\ ~(i <= i - 1)
      BY <1>3
    <2> QED BY <1>2, <2>1
  <1> QED BY <1>3, <1>4, <1>5

\* The last sequence of u is behind the others, which are those of v.
LEMMA FlattenGrows ==
    ASSUME NEW u, NEW v, NEW i \in Nat, i # 0, Len(u) = i, Len(v) = i - 1,
           \A h \in 1 .. i - 1 : v[h] = u[h]
    PROVE  FlattenSeq(u) = IF i = 1 THEN u[i] ELSE FlattenSeq(v) \o u[i]
  <1>1. PICK f : Joins(u, f, i) /\ FlattenSeq(u) = f[i]
    BY FlattenJoins
  <1>2. i \in 1 .. i
    OBVIOUS
  <1>3. f[i] = IF i = 1 THEN u[i] ELSE f[i - 1] \o u[i]
    BY <1>1, <1>2 DEF Joins
  <1>4. CASE i = 1
    BY <1>1, <1>3, <1>4
  <1>5. CASE i # 1
    <2>1. i - 1 \in Nat \ {0} /\ i - 1 \in 0 .. i /\ i - 1 \in 1 .. i - 1
      BY <1>5
    <2>2. PICK g : Joins(v, g, i - 1) /\ FlattenSeq(v) = g[i - 1]
      BY <2>1, FlattenJoins
    <2>3. \A h \in 1 .. i - 1 : g[h] = f[h]
      BY <1>1, <2>1, <2>2, JoinsAgree
    <2>4. g[i - 1] = f[i - 1]
      BY <2>1, <2>3
    <2> QED BY <1>1, <1>3, <1>5, <2>2, <2>4
  <1> QED BY <1>4, <1>5

\* The first i sequences of s in one.
Joined(s, i) == FlattenSeq(SubSeq(s, 1, i))

\* One sequence more.
LEMMA JoinedStep ==
    ASSUME NEW C, NEW s \in Seq(Seq(C)), NEW i \in 1 .. Len(s)
    PROVE  /\ Joined(s, 0) = <<>>
           /\ Joined(s, i) = Joined(s, i - 1) \o s[i]
           /\ Joined(s, Len(s)) = FlattenSeq(s)
  <1>1. Len(s) \in Nat /\ i \in Nat /\ i # 0 /\ i - 1 \in 0 .. Len(s) /\ i \in 0 .. Len(s)
        /\ s[i] \in Seq(C) /\ 0 \in 0 .. Len(s)
    OBVIOUS
  <1>2. ASSUME NEW j \in 0 .. Len(s)
        PROVE  /\ Len(SubSeq(s, 1, j)) = j /\ SubSeq(s, 1, j) \in Seq(Seq(C))
               /\ \A h \in 1 .. j : SubSeq(s, 1, j)[h] = s[h]
    BY <1>1
  <1>3. Joined(s, 0) = <<>>
    <2>1. SubSeq(s, 1, 0) = <<>>
      BY <1>1, <1>2
    <2> QED BY <2>1 DEF Joined, FlattenSeq
  <1>4. SubSeq(s, 1, Len(s)) = s
    BY <1>1
  <1>5. Joined(s, Len(s)) = FlattenSeq(s)
    BY <1>4 DEF Joined
  <1> DEFINE u == SubSeq(s, 1, i)
             v == SubSeq(s, 1, i - 1)
  <1>6. /\ Len(u) = i /\ Len(v) = i - 1 /\ u[i] = s[i]
        /\ \A h \in 1 .. i - 1 : v[h] = u[h]
    BY <1>1, <1>2
  <1> HIDE DEF u, v
  <1>7. FlattenSeq(u) = IF i = 1 THEN u[i] ELSE FlattenSeq(v) \o u[i]
    BY <1>1, <1>6, FlattenGrows
  <1>8. CASE i = 1
    <2>1. FlattenSeq(u) = <<>> \o s[i]
      BY <1>1, <1>6, <1>7, <1>8
    <2>2. FlattenSeq(v) = <<>> /\ FlattenSeq(v) = Joined(s, i - 1)
      BY <1>3, <1>8 DEF v, Joined
    <2> QED BY <1>3, <1>5, <2>1, <2>2 DEF Joined, u
  <1>9. CASE i # 1
    <2>1. FlattenSeq(u) = FlattenSeq(v) \o s[i]
      BY <1>6, <1>7, <1>9
    <2> QED BY <1>3, <1>5, <2>1 DEF Joined, u, v
  <1> QED BY <1>8, <1>9

\* What is joined is a sequence.
LEMMA JoinedType ==
    ASSUME NEW C, NEW s \in Seq(Seq(C)), NEW i \in 0 .. Len(s)
    PROVE  Joined(s, i) \in Seq(C) /\ Len(Joined(s, i)) \in Nat
  <1> DEFINE Bad == {n \in 0 .. Len(s) : ~(Joined(s, n) \in Seq(C))}
  <1>1. Len(s) \in Nat
    OBVIOUS
  <1>2. Bad = {}
    <2> SUFFICES ASSUME Bad # {} PROVE FALSE
      OBVIOUS
    <2>1. PICK n \in Bad : \A x \in Bad : n <= x
      <3>1. Bad \in SUBSET Nat
        BY <1>1
      <3> HIDE DEF Bad
      <3> QED BY <3>1, LeastElement
    <2>2. n \in 0 .. Len(s) /\ ~(Joined(s, n) \in Seq(C))
      OBVIOUS
    <2>3. CASE n = 0
      <3>1. SubSeq(s, 1, 0) = <<>>
        OBVIOUS
      <3>2. Joined(s, 0) = <<>>
        BY <3>1 DEF Joined, FlattenSeq
      <3>3. <<>> \in Seq(C)
        OBVIOUS
      <3> QED BY <2>2, <2>3, <3>2, <3>3
    <2>4. CASE n # 0
      <3>1. n \in 1 .. Len(s) /\ n - 1 \in 0 .. Len(s) /\ ~(n <= n - 1)
        BY <1>1, <2>2, <2>4
      <3>2. n - 1 \notin Bad
        BY <2>1, <3>1
      <3>3. Joined(s, n - 1) \in Seq(C)
        BY <3>1, <3>2
      <3>4. Joined(s, n) = Joined(s, n - 1) \o s[n]
        BY <3>1, JoinedStep
      <3>5. s[n] \in Seq(C)
        BY <3>1
      <3> QED BY <2>2, <3>3, <3>4, <3>5
    <2> QED BY <2>3, <2>4
  <1>3. Joined(s, i) \in Seq(C)
    BY <1>2
  <1> QED BY <1>3

\* One more sequence behind those that are joined.
LEMMA JoinedLast ==
    ASSUME NEW C, NEW s \in Seq(Seq(C)), NEW n \in 1 .. Len(s)
    PROVE  /\ Joined(s, n - 1) \in Seq(C) /\ Joined(s, n) \in Seq(C)
           /\ Len(Joined(s, n - 1)) \in Nat /\ Len(s[n]) \in Nat
           /\ Len(Joined(s, n)) = Len(Joined(s, n - 1)) + Len(s[n])
           /\ \A x \in 1 .. Len(Joined(s, n - 1)) : Joined(s, n)[x] = Joined(s, n - 1)[x]
           /\ \A x \in 1 .. Len(s[n]) : Joined(s, n)[Len(Joined(s, n - 1)) + x] = s[n][x]
  <1> DEFINE a == Joined(s, n - 1)
             b == s[n]
             c == Joined(s, n)
  <1>1. n - 1 \in 0 .. Len(s) /\ n \in 0 .. Len(s)
    OBVIOUS
  <1>2. a \in Seq(C) /\ c \in Seq(C)
    BY <1>1, JoinedType
  <1>3. b \in Seq(C)
    OBVIOUS
  <1>4. c = a \o b
    BY JoinedStep
  <1> HIDE DEF a, b, c
  <1>5. Len(a) \in Nat /\ Len(b) \in Nat /\ Len(c) = Len(a) + Len(b)
    BY <1>2, <1>3, <1>4
  <1>6. \A x \in 1 .. Len(a) : c[x] = a[x]
    BY <1>2, <1>3, <1>4, <1>5
  <1>7. \A x \in 1 .. Len(b) : c[Len(a) + x] = b[x]
    BY <1>2, <1>3, <1>4, <1>5
  <1> QED BY <1>2, <1>5, <1>6, <1>7 DEF a, b, c

\* What is joined later leaves it in its place.
LEMMA JoinedGrows ==
    ASSUME NEW C, NEW s \in Seq(Seq(C)), NEW i \in 0 .. Len(s), NEW j \in i .. Len(s)
    PROVE  /\ Len(Joined(s, i)) <= Len(Joined(s, j))
           /\ \A x \in 1 .. Len(Joined(s, i)) : Joined(s, j)[x] = Joined(s, i)[x]
  <1> DEFINE G(n) == Joined(s, n)
             Same(n) == /\ Len(G(i)) <= Len(G(n))
                        /\ \A x \in 1 .. Len(G(i)) : G(n)[x] = G(i)[x]
             Bad == {n \in i .. Len(s) : ~Same(n)}
  <1>1. Len(s) \in Nat /\ i \in Nat /\ j \in 0 .. Len(s) /\ i <= j
    OBVIOUS
  <1>2. Bad = {}
    <2> SUFFICES ASSUME Bad # {} PROVE FALSE
      OBVIOUS
    <2>1. PICK n \in Bad : \A x \in Bad : n <= x
      <3>1. Bad \in SUBSET Nat
        BY <1>1
      <3> HIDE DEF Bad
      <3> QED BY <3>1, LeastElement
    <2>2. n \in i .. Len(s) /\ ~Same(n)
      OBVIOUS
    <2>3. Len(G(i)) \in Nat
      BY JoinedType
    <2>4. CASE n = i
      <3> HIDE DEF G
      <3> QED BY <2>2, <2>4, <2>3
    <2>5. CASE n # i
      <3>1. n \in 1 .. Len(s) /\ n - 1 \in i .. Len(s) /\ ~(n <= n - 1)
        BY <1>1, <2>2, <2>5
      <3>2. Same(n - 1)
        BY <2>1, <3>1
      <3> DEFINE a == Joined(s, i)
                 u == Joined(s, n - 1)
                 q == Joined(s, n)
      <3>3. /\ Len(u) \in Nat /\ Len(s[n]) \in Nat /\ Len(q) = Len(u) + Len(s[n])
            /\ \A x \in 1 .. Len(u) : q[x] = u[x]
        <4> HIDE DEF Bad, Same
        <4> QED BY <3>1, JoinedLast
      <3>4. Len(a) <= Len(u) /\ (\A x \in 1 .. Len(a) : u[x] = a[x]) /\ Len(a) \in Nat
        BY <2>3, <3>2
      <3>5. ~(Len(a) <= Len(q) /\ \A x \in 1 .. Len(a) : q[x] = a[x])
        BY <2>2
      <3> HIDE DEF a, u, q, Bad, Same
      <3>6. Len(a) <= Len(q)
        BY <3>3, <3>4
      <3>7. ASSUME NEW x \in 1 .. Len(a) PROVE q[x] = a[x]
        <4>1. x \in 1 .. Len(u)
          BY <3>3, <3>4
        <4> QED BY <3>3, <3>4, <4>1
      <3> QED BY <3>5, <3>6, <3>7
    <2> QED BY <2>4, <2>5
  <1>3. Same(j)
    BY <1>2
  <1> QED BY <1>3

\* The place of sequence i, and of its members, in the whole.
LEMMA FlattenPlaces ==
    ASSUME NEW C, NEW s \in Seq(Seq(C)), NEW i \in 1 .. Len(s)
    PROVE  /\ FlattenSeq(s) \in Seq(C) /\ FlattenSeq(s) = Joined(s, Len(s))
           /\ Len(Joined(s, i - 1)) \in Nat /\ Len(s[i]) \in Nat
           /\ Len(Joined(s, i)) = Len(Joined(s, i - 1)) + Len(s[i])
           /\ Len(Joined(s, i)) <= Len(FlattenSeq(s))
           /\ \A x \in 1 .. Len(s[i]) :
                 FlattenSeq(s)[Len(Joined(s, i - 1)) + x] = s[i][x]
  <1> DEFINE a == Joined(s, i - 1)
             b == s[i]
             c == Joined(s, i)
             w == FlattenSeq(s)
  <1>1. i \in 0 .. Len(s) /\ Len(s) \in i .. Len(s) /\ Len(s) \in 0 .. Len(s)
    OBVIOUS
  <1>2. w = Joined(s, Len(s))
    BY JoinedStep
  <1>3. w \in Seq(C)
    BY <1>1, <1>2, JoinedType
  <1>4. Len(c) <= Len(w) /\ \A x \in 1 .. Len(c) : w[x] = c[x]
    BY <1>1, <1>2, JoinedGrows
  <1>5. /\ Len(a) \in Nat /\ Len(b) \in Nat /\ Len(c) = Len(a) + Len(b)
        /\ \A x \in 1 .. Len(b) : c[Len(a) + x] = b[x]
    BY JoinedLast
  <1> HIDE DEF a, b, c, w
  <1>6. ASSUME NEW x \in 1 .. Len(b) PROVE w[Len(a) + x] = b[x]
    <2>1. Len(a) + x \in 1 .. Len(c)
      BY <1>5
    <2> QED BY <1>4, <1>5, <2>1
  <1> QED BY <1>2, <1>3, <1>4, <1>5, <1>6 DEF a, b, c, w

\* The keys of entries, and everything a cell may be of.
EntryKey == MsgKey \cup {"news", "__pi", "__ht", "auca", "chid"}
Tag == Field \cup EntryKey \cup {"pad", "len", "name", "id", "count"}

Byte == [f : Tag, x : Nat]

\* The n bytes of field f are at offset o of v.
Lies(v, o, f, n) ==
    /\ o \in Nat /\ n \in Nat /\ o + n <= Len(v)
    /\ \A x \in 1 .. n : v[o + x] = Cell(f, x)

\* What the cells of v are of, and those of an entry behind its header.
Tags(v) == {v[x].f : x \in 1 .. Len(v)}
Brought(e) == {e[x].f : x \in 9 .. Len(e)}

\* A cell.
LEMMA CellType ==
    ASSUME NEW f \in Tag, NEW x \in Nat
    PROVE  Cell(f, x) \in Byte /\ Cell(f, x).f = f /\ Cell(f, x).x = x
  BY DEF Cell, Byte

\* A field of n bytes.
LEMMA BytesShape ==
    ASSUME NEW f \in Tag, NEW n \in Nat
    PROVE  /\ Bytes(f, n) \in Seq(Byte) /\ Len(Bytes(f, n)) = n
           /\ Lies(Bytes(f, n), 0, f, n)
           /\ n > 0 => Tags(Bytes(f, n)) = {f}
           /\ Tags(Bytes(f, n)) \in SUBSET {f}
  <1>1. ASSUME NEW x \in 1 .. n PROVE Cell(f, x) \in Byte /\ Cell(f, x).f = f
    BY CellType
  <1>2. Bytes(f, n) \in [1 .. n -> Byte]
    BY <1>1 DEF Bytes
  <1>3. Bytes(f, n) \in Seq(Byte) /\ Len(Bytes(f, n)) = n
    BY <1>2
  <1>4. ASSUME NEW x \in 1 .. n PROVE Bytes(f, n)[x] = Cell(f, x)
    BY DEF Bytes
  <1>5. Lies(Bytes(f, n), 0, f, n)
    BY <1>3, <1>4 DEF Lies
  <1>6. ASSUME NEW x \in 1 .. n PROVE Bytes(f, n)[x].f = f
    BY <1>1, <1>4
  <1>7. n > 0 => 1 \in 1 .. n
    OBVIOUS
  <1>8. Tags(Bytes(f, n)) \in SUBSET {f} /\ (n > 0 => f \in Tags(Bytes(f, n)))
    BY <1>3, <1>6, <1>7 DEF Tags
  <1> QED BY <1>3, <1>5, <1>8

\* One sequence behind another.
LEMMA Behind ==
    ASSUME NEW C, NEW a \in Seq(C), NEW b \in Seq(C)
    PROVE  /\ a \o b \in Seq(C) /\ Len(a \o b) = Len(a) + Len(b)
           /\ Len(a) \in Nat /\ Len(b) \in Nat
           /\ \A x \in 1 .. Len(a) : (a \o b)[x] = a[x]
           /\ \A x \in 1 .. Len(b) : (a \o b)[Len(a) + x] = b[x]
  OBVIOUS

\* Its fields, and where they are.
LEMMA BehindShape ==
    ASSUME NEW a \in Seq(Byte), NEW b \in Seq(Byte), NEW c, c = a \o b
    PROVE  /\ c \in Seq(Byte) /\ Len(c) = Len(a) + Len(b)
           /\ Len(a) \in Nat /\ Len(b) \in Nat
           /\ Tags(c) = Tags(a) \cup Tags(b)
           /\ \A o, f, n : Lies(a, o, f, n) => Lies(c, o, f, n)
           /\ \A o, f, n : Lies(b, o, f, n) => Lies(c, Len(a) + o, f, n)
  <1>1. /\ c \in Seq(Byte) /\ Len(c) = Len(a) + Len(b)
        /\ Len(a) \in Nat /\ Len(b) \in Nat
        /\ \A x \in 1 .. Len(a) : c[x] = a[x]
        /\ \A x \in 1 .. Len(b) : c[Len(a) + x] = b[x]
    BY Behind
  <1>2. ASSUME NEW x \in 1 .. Len(c)
        PROVE  \/ x \in 1 .. Len(a) /\ c[x] = a[x]
               \/ x - Len(a) \in 1 .. Len(b) /\ c[x] = b[x - Len(a)]
    <2>1. CASE x <= Len(a)
      BY <1>1, <2>1
    <2>2. CASE ~(x <= Len(a))
      <3>1. x - Len(a) \in 1 .. Len(b) /\ Len(a) + (x - Len(a)) = x
        BY <1>1, <2>2
      <3> QED BY <1>1, <3>1
    <2> QED BY <2>1, <2>2
  <1>3. ASSUME NEW x \in 1 .. Len(a) PROVE x \in 1 .. Len(c) /\ c[x] = a[x]
    BY <1>1
  <1>4. ASSUME NEW x \in 1 .. Len(b)
        PROVE  Len(a) + x \in 1 .. Len(c) /\ c[Len(a) + x] = b[x]
    BY <1>1
  <1>5. Tags(c) = Tags(a) \cup Tags(b)
    BY <1>2, <1>3, <1>4 DEF Tags
  <1>6. ASSUME NEW o, NEW f, NEW n, Lies(a, o, f, n) PROVE Lies(c, o, f, n)
    <2>1. o \in Nat /\ n \in Nat /\ o + n <= Len(a)
      BY <1>6 DEF Lies
    <2>2. ASSUME NEW x \in 1 .. n PROVE c[o + x] = Cell(f, x)
      <3>1. o + x \in 1 .. Len(a)
        BY <1>1, <2>1
      <3>2. a[o + x] = Cell(f, x)
        BY <1>6 DEF Lies
      <3> QED BY <1>3, <3>1, <3>2
    <2>3. o + n <= Len(c)
      BY <1>1, <2>1
    <2> QED BY <2>1, <2>2, <2>3 DEF Lies
  <1>7. ASSUME NEW o, NEW f, NEW n, Lies(b, o, f, n) PROVE Lies(c, Len(a) + o, f, n)
    <2>1. o \in Nat /\ n \in Nat /\ o + n <= Len(b)
      BY <1>7 DEF Lies
    <2>2. ASSUME NEW x \in 1 .. n PROVE c[(Len(a) + o) + x] = Cell(f, x)
      <3>1. o + x \in 1 .. Len(b) /\ (Len(a) + o) + x = Len(a) + (o + x)
        BY <1>1, <2>1
      <3>2. b[o + x] = Cell(f, x)
        BY <1>7 DEF Lies
      <3> QED BY <1>4, <3>1, <3>2
    <2>3. Len(a) + o \in Nat /\ (Len(a) + o) + n <= Len(c)
      BY <1>1, <2>1
    <2> QED BY <2>1, <2>2, <2>3 DEF Lies
  <1> QED BY <1>1, <1>5, <1>6, <1>7

\* Two fields.
Pair(a, n, b, m) == Bytes(a, n) \o Bytes(b, m)

\* What they are, and where.
LEMMA TwoFields ==
    ASSUME NEW a \in Tag, NEW b \in Tag, NEW n \in Nat, NEW m \in Nat, n > 0, m > 0
    PROVE  /\ Pair(a, n, b, m) \in Seq(Byte) /\ Len(Pair(a, n, b, m)) = n + m
           /\ Tags(Pair(a, n, b, m)) = {a, b}
           /\ Lies(Pair(a, n, b, m), 0, a, n) /\ Lies(Pair(a, n, b, m), n, b, m)
  <1> DEFINE u == Bytes(a, n)
             q == Bytes(b, m)
             c == Pair(a, n, b, m)
  <1>1. u \in Seq(Byte) /\ Len(u) = n /\ Lies(u, 0, a, n) /\ Tags(u) = {a}
    BY BytesShape
  <1>2. q \in Seq(Byte) /\ Len(q) = m /\ Lies(q, 0, b, m) /\ Tags(q) = {b}
    BY BytesShape
  <1>3. c = u \o q
    BY DEF Pair
  <1> HIDE DEF u, q, c
  <1>4. /\ c \in Seq(Byte) /\ Len(c) = Len(u) + Len(q) /\ Tags(c) = Tags(u) \cup Tags(q)
        /\ Lies(c, 0, a, n) /\ Lies(c, Len(u) + 0, b, m)
    BY <1>1, <1>2, <1>3, BehindShape
  <1>5. Len(u) + 0 = n
    BY <1>1
  <1>6. /\ c \in Seq(Byte) /\ Len(c) = n + m /\ Tags(c) = {a, b}
        /\ Lies(c, 0, a, n) /\ Lies(c, n, b, m)
    BY <1>1, <1>2, <1>4, <1>5
  <1> QED BY <1>6 DEF c

\* Three fields.
Triple(a, n, b, m, c, k) == Pair(a, n, b, m) \o Bytes(c, k)

\* What they are, and where.
LEMMA ThreeFields ==
    ASSUME NEW a \in Tag, NEW b \in Tag, NEW c \in Tag, NEW n \in Nat, NEW m \in Nat,
           NEW k \in Nat, n > 0, m > 0, k > 0
    PROVE  LET d == Triple(a, n, b, m, c, k) IN
           /\ d \in Seq(Byte) /\ Len(d) = n + m + k /\ Tags(d) = {a, b, c}
           /\ Lies(d, 0, a, n) /\ Lies(d, n, b, m) /\ Lies(d, n + m, c, k)
  <1> DEFINE u == Pair(a, n, b, m)
             q == Bytes(c, k)
             d == Triple(a, n, b, m, c, k)
  <1>1. /\ u \in Seq(Byte) /\ Len(u) = n + m /\ Tags(u) = {a, b}
        /\ Lies(u, 0, a, n) /\ Lies(u, n, b, m)
    BY TwoFields
  <1>2. q \in Seq(Byte) /\ Len(q) = k /\ Lies(q, 0, c, k) /\ Tags(q) = {c}
    BY BytesShape
  <1>3. d = u \o q
    BY DEF Triple
  <1> HIDE DEF u, q, d
  <1>4. /\ d \in Seq(Byte) /\ Len(d) = Len(u) + Len(q) /\ Tags(d) = Tags(u) \cup Tags(q)
        /\ Lies(d, 0, a, n) /\ Lies(d, n, b, m) /\ Lies(d, Len(u) + 0, c, k)
    BY <1>1, <1>2, <1>3, BehindShape
  <1>5. Len(u) + 0 = n + m
    BY <1>1
  <1>6. /\ d \in Seq(Byte) /\ Len(d) = n + m + k /\ Tags(d) = {a, b, c}
        /\ Lies(d, 0, a, n) /\ Lies(d, n, b, m) /\ Lies(d, n + m, c, k)
    BY <1>1, <1>2, <1>4, <1>5
  <1> QED BY <1>6 DEF d

\* A number.
LEMMA NumberShape ==
    ASSUME NEW f \in Tag, NEW n \in Nat
    PROVE  /\ Number(f, n) \in Seq(Byte) /\ Len(Number(f, n)) = 4
           /\ Number(f, n)[1] = Cell(f, n) /\ Tags(Number(f, n)) = {f, "pad"}
  <1> DEFINE u == <<Cell(f, n)>>
             q == Bytes("pad", 3)
             c == Number(f, n)
  <1>1. "pad" \in Tag
    BY DEF Tag
  <1>2. q \in Seq(Byte) /\ Len(q) = 3
    BY <1>1, BytesShape
  <1>3. Tags(q) = {"pad"}
    <2>1. 3 \in Nat /\ 3 > 0
      OBVIOUS
    <2> QED BY <1>1, <2>1, BytesShape
  <1>4. Cell(f, n) \in Byte /\ Cell(f, n).f = f
    BY CellType
  <1>5. u \in Seq(Byte) /\ Len(u) = 1 /\ u[1] = Cell(f, n)
    BY <1>4
  <1>6. c = u \o q
    BY DEF Number
  <1> HIDE DEF u, q, c
  <1>7. Tags(u) = {f}
    BY <1>4, <1>5 DEF Tags
  <1>8. c \in Seq(Byte) /\ Len(c) = Len(u) + Len(q) /\ Tags(c) = Tags(u) \cup Tags(q)
    BY <1>2, <1>5, <1>6, BehindShape
  <1>9. \A x \in 1 .. Len(u) : c[x] = u[x]
    <2>1. u \in Seq(Byte) /\ q \in Seq(Byte)
      BY <1>2, <1>5
    <2> QED BY <1>6, <2>1, Behind
  <1>10. c[1] = Cell(f, n)
    <2>1. 1 \in 1 .. Len(u)
      BY <1>5
    <2> QED BY <1>5, <1>9, <2>1
  <1>11. c \in Seq(Byte) /\ Len(c) = 4 /\ c[1] = Cell(f, n) /\ Tags(c) = {f, "pad"}
    BY <1>2, <1>5, <1>7, <1>8, <1>10, <1>3
  <1> QED BY <1>11 DEF c

\* An entry: the header, and the value behind it.
IsEntry(e, key, size, value) ==
    /\ e \in Seq(Byte) /\ Len(e) = 8 + Len(value) /\ Len(value) \in Nat
    /\ e[1].f = key /\ e[1].x = size
    /\ \A x \in 1 .. Len(value) : e[8 + x] = value[x]
    /\ Brought(e) = Tags(value)
    /\ \A o, f, n : Lies(value, o, f, n) => Lies(e, 8 + o, f, n)

\* Emit makes one.
LEMMA EmitShape ==
    ASSUME NEW key \in EntryKey, NEW size \in Nat, NEW value \in Seq(Byte)
    PROVE  IsEntry(Emit(key, size, value), key, size, value)
  <1>1. PICK e : e = Emit(key, size, value)
    OBVIOUS
  <1> DEFINE u == <<Cell(key, size)>>
             q == Bytes("pad", 7)
             h == u \o q
  <1>2. Cell(key, size) \in Byte /\ Cell(key, size).f = key /\ Cell(key, size).x = size
    <2>1. key \in Tag
      BY DEF Tag
    <2> QED BY <2>1, CellType
  <1>3. "pad" \in Tag
    BY DEF Tag
  <1>4. q \in Seq(Byte)
    BY <1>3, BytesShape
  <1>5. Len(q) = 7
    BY <1>3, BytesShape
  <1>6. Len(value) \in Nat
    OBVIOUS
  <1>7. e = h \o value
    BY <1>1 DEF Emit
  <1>8. u \in Seq(Byte)
    BY <1>2
  <1>9. Len(u) = 1 /\ u[1] = Cell(key, size)
    OBVIOUS
  <1> HIDE DEF u, q, h
  <1>10. /\ u \o q \in Seq(Byte) /\ Len(u \o q) = Len(u) + Len(q)
         /\ \A x \in 1 .. Len(u) : (u \o q)[x] = u[x]
    BY <1>4, <1>8, Behind
  <1>11. h \in Seq(Byte)
    BY <1>10 DEF h
  <1>12. Len(h) = 8 /\ h[1] = Cell(key, size)
    BY <1>5, <1>9, <1>10 DEF h
  <1>13. /\ h \o value \in Seq(Byte) /\ Len(h \o value) = Len(h) + Len(value)
         /\ \A x \in 1 .. Len(h) : (h \o value)[x] = h[x]
         /\ \A x \in 1 .. Len(value) : (h \o value)[Len(h) + x] = value[x]
    BY <1>11, Behind
  <1>14. /\ e \in Seq(Byte) /\ Len(e) = 8 + Len(value)
         /\ e[1] = Cell(key, size)
         /\ \A x \in 1 .. Len(value) : e[8 + x] = value[x]
    BY <1>7, <1>12, <1>13
  <1>15. e[1].f = key /\ e[1].x = size
    BY <1>2, <1>14
  <1>16. Brought(e) = Tags(value)
    <2>1. ASSUME NEW x \in 9 .. Len(e) PROVE x - 8 \in 1 .. Len(value) /\ e[x] = value[x - 8]
      <3>1. x - 8 \in 1 .. Len(value) /\ 8 + (x - 8) = x
        BY <1>6, <1>14
      <3> QED BY <1>14, <3>1
    <2>2. ASSUME NEW x \in 1 .. Len(value) PROVE 8 + x \in 9 .. Len(e) /\ e[8 + x] = value[x]
      <3>1. 8 + x \in 9 .. Len(e)
        BY <1>6, <1>14
      <3> QED BY <1>14, <3>1
    <2> QED BY <2>1, <2>2 DEF Brought, Tags
  <1>17. \A o, f, n : Lies(value, o, f, n) => Lies(e, 8 + o, f, n)
    BY <1>7, <1>11, <1>12, BehindShape
  <1>18. IsEntry(e, key, size, value)
    BY <1>6, <1>14, <1>15, <1>16, <1>17 DEF IsEntry
  <1> QED BY <1>1, <1>18

\* Entry e is one of this key and size, with the fields of layout.
Sent(e, key, size, layout) ==
    /\ e \in Seq(Byte) /\ size \in Nat /\ Len(e) = 8 + size
    /\ e[1].f = key /\ e[1].x = size
    /\ Brought(e) \cap Field = DOMAIN layout
    /\ \A f \in DOMAIN layout :
          layout[f].at \in Nat /\ Lies(e, 8 + layout[f].at, f, layout[f].n)

\* It is in the message at offset o.
Placed(o, e) == \A x \in 1 .. Len(e) : Buf[o + x] = e[x]

\* The fields after the fields F were read.
Updated(F) == [f \in Field |-> IF f \in F THEN "new" ELSE tlv_out[f]]

\* An entry of one field.
LEMMA OneSent ==
    ASSUME NEW key \in EntryKey, NEW a \in Field, NEW n \in Nat, n > 0, NEW layout,
           DOMAIN layout = {a}, layout[a] = At(0, n)
    PROVE  Sent(Emit(key, n, Bytes(a, n)), key, n, layout)
  <1> DEFINE v == Bytes(a, n)
             e == Emit(key, n, v)
  <1>1. a \in Tag
    BY DEF Tag
  <1>2. v \in Seq(Byte) /\ Len(v) = n /\ Lies(v, 0, a, n) /\ Tags(v) = {a}
    BY <1>1, BytesShape
  <1> HIDE DEF v
  <1>3. /\ e \in Seq(Byte) /\ Len(e) = 8 + Len(v) /\ e[1].f = key /\ e[1].x = n
        /\ Brought(e) = Tags(v) /\ Lies(e, 8 + 0, a, n)
    <2>1. IsEntry(e, key, n, v)
      BY <1>2, EmitShape
    <2> QED BY <1>2, <2>1 DEF IsEntry
  <1>4. layout[a].at = 0 /\ layout[a].n = n
    BY DEF At
  <1> HIDE DEF e
  <1>5. Sent(e, key, n, layout)
    BY <1>2, <1>3, <1>4 DEF Sent
  <1> QED BY <1>5 DEF e, v

\* An entry of two fields.
LEMMA TwoSent ==
    ASSUME NEW key \in EntryKey, NEW a \in Field, NEW b \in Field, a # b,
           NEW n \in Nat, NEW m \in Nat, n > 0, m > 0, NEW layout,
           DOMAIN layout = {a, b}, layout[a] = At(0, n), layout[b] = At(n, m)
    PROVE  Sent(Emit(key, n + m, Pair(a, n, b, m)), key, n + m, layout)
  <1> DEFINE v == Pair(a, n, b, m)
             e == Emit(key, n + m, v)
  <1>1. a \in Tag /\ b \in Tag
    BY DEF Tag
  <1>2. /\ v \in Seq(Byte) /\ Len(v) = n + m /\ Tags(v) = {a, b}
        /\ Lies(v, 0, a, n) /\ Lies(v, n, b, m)
    BY <1>1, TwoFields
  <1> HIDE DEF v
  <1>3. n + m \in Nat
    OBVIOUS
  <1>4. /\ e \in Seq(Byte) /\ Len(e) = 8 + Len(v) /\ e[1].f = key /\ e[1].x = n + m
        /\ Brought(e) = Tags(v) /\ Lies(e, 8 + 0, a, n) /\ Lies(e, 8 + n, b, m)
    <2>1. IsEntry(e, key, n + m, v)
      BY <1>2, <1>3, EmitShape
    <2> HIDE DEF e
    <2> QED BY <1>2, <2>1 DEF IsEntry
  <1>5. layout[a].at = 0 /\ layout[a].n = n /\ layout[b].at = n /\ layout[b].n = m
    BY DEF At
  <1> HIDE DEF e
  <1>6. Sent(e, key, n + m, layout)
    BY <1>2, <1>4, <1>5, <1>3 DEF Sent
  <1> QED BY <1>6 DEF e, v

\* An entry of three fields.
LEMMA ThreeSent ==
    ASSUME NEW key \in EntryKey, NEW a \in Field, NEW b \in Field, NEW c \in Field,
           a # b, a # c, b # c,
           NEW n \in Nat, NEW m \in Nat, NEW k \in Nat, n > 0, m > 0, k > 0, NEW layout,
           DOMAIN layout = {a, b, c}, layout[a] = At(0, n), layout[b] = At(n, m),
           layout[c] = At(n + m, k)
    PROVE  Sent(Emit(key, n + m + k, Triple(a, n, b, m, c, k)),
                key, n + m + k, layout)
  <1> DEFINE v == Triple(a, n, b, m, c, k)
             e == Emit(key, n + m + k, v)
  <1>1. a \in Tag /\ b \in Tag /\ c \in Tag
    BY DEF Tag
  <1>2. /\ v \in Seq(Byte) /\ Len(v) = n + m + k /\ Tags(v) = {a, b, c}
        /\ Lies(v, 0, a, n) /\ Lies(v, n, b, m) /\ Lies(v, n + m, c, k)
    BY <1>1, ThreeFields
  <1> HIDE DEF v
  <1>3. n + m + k \in Nat /\ n + m \in Nat
    OBVIOUS
  <1>4. /\ e \in Seq(Byte) /\ Len(e) = 8 + Len(v) /\ e[1].f = key /\ e[1].x = n + m + k
        /\ Brought(e) = Tags(v) /\ Lies(e, 8 + 0, a, n) /\ Lies(e, 8 + n, b, m)
        /\ Lies(e, 8 + (n + m), c, k)
    <2>1. IsEntry(e, key, n + m + k, v)
      BY <1>2, <1>3, EmitShape
    <2> HIDE DEF e
    <2> QED BY <1>2, <1>3, <2>1 DEF IsEntry
  <1>5. /\ layout[a].at = 0 /\ layout[a].n = n /\ layout[b].at = n /\ layout[b].n = m
        /\ layout[c].at = n + m /\ layout[c].n = k
    BY DEF At
  <1> HIDE DEF e
  <1>6. Sent(e, key, n + m + k, layout)
    BY <1>2, <1>4, <1>5, <1>3 DEF Sent
  <1> QED BY <1>6 DEF e, v

\* Reading it gives its fields, and leaves the others.
LEMMA ReadsSent ==
    ASSUME NEW e, NEW key, NEW size, NEW layout, NEW o \in Nat,
           Sent(e, key, size, layout), Placed(o, e), DOMAIN tlv_out = Field
    PROVE  Reads(o + 8, layout) = Updated(Brought(e))
  <1>1. ASSUME NEW f \in DOMAIN layout
        PROVE  Read((o + 8) + layout[f].at, f, layout[f].n) = "new"
    <2> DEFINE at == layout[f].at
               n == layout[f].n
    <2>1. at \in Nat /\ Lies(e, 8 + at, f, n)
      BY DEF Sent
    <2> HIDE DEF at, n
    <2>2. Len(e) \in Nat
      BY DEF Sent
    <2>3. n \in Nat /\ (8 + at) + n <= Len(e) /\ \A x \in 1 .. n : e[(8 + at) + x] = Cell(f, x)
      BY <2>1 DEF Lies
    <2>4. ASSUME NEW x \in 1 .. n PROVE Buf[((o + 8) + at) + x] = Cell(f, x)
      <3>1. (8 + at) + x \in 1 .. Len(e) /\ ((o + 8) + at) + x = o + ((8 + at) + x)
        BY <2>1, <2>2, <2>3
      <3>2. Buf[o + ((8 + at) + x)] = e[(8 + at) + x]
        BY <3>1 DEF Placed
      <3> QED BY <2>3, <3>1, <3>2
    <2> QED BY <2>4 DEF Read, at, n
  <1>2. ASSUME NEW f \in Field PROVE f \in DOMAIN layout <=> f \in Brought(e)
    BY DEF Sent
  <1> QED BY <1>1, <1>2 DEF Reads, Updated

\* Key and size of the entry at o.
LEMMA HeaderSent ==
    ASSUME NEW e, NEW key, NEW size, NEW layout, NEW o \in Nat,
           Sent(e, key, size, layout), Placed(o, e)
    PROVE  Buf[o + 1].f = key /\ Buf[o + 1].x = size
  <1>1. 1 \in 1 .. Len(e) /\ e[1].f = key /\ e[1].x = size
    BY DEF Sent
  <1>2. Buf[o + 1] = e[1]
    BY <1>1 DEF Placed
  <1> QED BY <1>1, <1>2

\* The entries of encode_msg: the timeline.
LEMMA TmlnSent == Sent(Tmln, "tmln", MsgSize("tmln"), MsgLayout("tmln"))
  <1> DEFINE l == MsgLayout("tmln")
  <1>1. l = [tempo |-> At(0, 8), beat_origin |-> At(8, 8), time_origin |-> At(16, 8)]
    BY DEF MsgLayout
  <1>2. /\ DOMAIN l = {"tempo", "beat_origin", "time_origin"}
        /\ l["tempo"] = At(0, 8) /\ l["beat_origin"] = At(8, 8)
        /\ l["time_origin"] = At(8 + 8, 8)
    BY <1>1
  <1> HIDE DEF l
  <1>3. /\ "tmln" \in EntryKey /\ "tempo" \in Field /\ "beat_origin" \in Field
        /\ "time_origin" \in Field /\ 8 \in Nat /\ 8 > 0
        /\ "tempo" # "beat_origin" /\ "tempo" # "time_origin" /\ "beat_origin" # "time_origin"
    BY DEF EntryKey, MsgKey, Field
  <1>4. Sent(Emit("tmln", 8 + 8 + 8, Triple("tempo", 8, "beat_origin", 8, "time_origin", 8)),
             "tmln", 8 + 8 + 8, l)
    BY <1>2, <1>3, ThreeSent
  <1>5. Tmln = Emit("tmln", 8 + 8 + 8, Triple("tempo", 8, "beat_origin", 8, "time_origin", 8))
    BY DEF Tmln, Triple, Pair
  <1>6. MsgSize("tmln") = 8 + 8 + 8
    BY DEF MsgSize
  <1> QED BY <1>4, <1>5, <1>6 DEF l

\* The session id.
LEMMA SessSent == Sent(Sess, "sess", MsgSize("sess"), MsgLayout("sess"))
  <1> DEFINE l == MsgLayout("sess")
  <1>1. l = [session |-> At(0, 8)]
    BY DEF MsgLayout
  <1>2. DOMAIN l = {"session"} /\ l["session"] = At(0, 8)
    BY <1>1
  <1> HIDE DEF l
  <1>3. "sess" \in EntryKey /\ "session" \in Field /\ 8 \in Nat /\ 8 > 0
    BY DEF EntryKey, MsgKey, Field
  <1>4. Sent(Emit("sess", 8, Bytes("session", 8)), "sess", 8, l)
    BY <1>2, <1>3, OneSent
  <1>5. MsgSize("sess") = 8
    BY DEF MsgSize
  <1> QED BY <1>4, <1>5 DEF l, Sess

\* The start-stop state.
LEMMA StstSent == Sent(Stst, "stst", MsgSize("stst"), MsgLayout("stst"))
  <1> DEFINE l == MsgLayout("stst")
  <1>1. l = [is_playing |-> At(0, 1), beats |-> At(1, 8), timestamp |-> At(9, 8)]
    BY DEF MsgLayout
  <1>2. /\ DOMAIN l = {"is_playing", "beats", "timestamp"}
        /\ l["is_playing"] = At(0, 1) /\ l["beats"] = At(1, 8)
        /\ l["timestamp"] = At(1 + 8, 8)
    BY <1>1
  <1> HIDE DEF l
  <1>3. /\ "stst" \in EntryKey /\ "is_playing" \in Field /\ "beats" \in Field
        /\ "timestamp" \in Field /\ 8 \in Nat /\ 8 > 0 /\ 1 \in Nat /\ 1 > 0
        /\ "is_playing" # "beats" /\ "is_playing" # "timestamp" /\ "beats" # "timestamp"
    BY DEF EntryKey, MsgKey, Field
  <1>4. Sent(Emit("stst", 1 + 8 + 8, Triple("is_playing", 1, "beats", 8, "timestamp", 8)),
             "stst", 1 + 8 + 8, l)
    BY <1>2, <1>3, ThreeSent
  <1>5. Stst = Emit("stst", 1 + 8 + 8, Triple("is_playing", 1, "beats", 8, "timestamp", 8))
    BY DEF Stst, Triple, Pair
  <1>6. MsgSize("stst") = 1 + 8 + 8
    BY DEF MsgSize
  <1> QED BY <1>4, <1>5, <1>6 DEF l

\* The four endpoints.
LEMMA EndpointSent ==
    ASSUME NEW key \in MsgKey, NEW n \in Nat, n > 0, NEW addr \in Field, NEW port \in Field,
           addr # port, MsgSize(key) = n + 2, DOMAIN MsgLayout(key) = {addr, port},
           MsgLayout(key)[addr] = At(0, n), MsgLayout(key)[port] = At(n, 2)
    PROVE  Sent(Endpoint(key, n, addr, port), key, MsgSize(key), MsgLayout(key))
  <1>1. key \in EntryKey /\ 2 \in Nat /\ 2 > 0
    BY DEF EntryKey
  <1>2. Sent(Emit(key, n + 2, Pair(addr, n, port, 2)), key, n + 2, MsgLayout(key))
    BY <1>1, TwoSent
  <1>3. Endpoint(key, n, addr, port) = Emit(key, n + 2, Pair(addr, n, port, 2))
    BY DEF Endpoint, Pair
  <1> QED BY <1>2, <1>3

\* The measurement endpoint, IPv4,
LEMMA Mep4Sent == Sent(Endpoint("mep4", 4, "mep4_addr", "mep4_port"), "mep4",
                  MsgSize("mep4"), MsgLayout("mep4"))
  <1>1. MsgLayout("mep4") = [mep4_addr |-> At(0, 4), mep4_port |-> At(4, 2)]
    BY DEF MsgLayout
  <1>2. /\ DOMAIN MsgLayout("mep4") = {"mep4_addr", "mep4_port"}
        /\ MsgLayout("mep4")["mep4_addr"] = At(0, 4) /\ MsgLayout("mep4")["mep4_port"] = At(4, 2)
    BY <1>1
  <1>3. MsgSize("mep4") = 4 + 2
    BY DEF MsgSize
  <1>4. /\ "mep4" \in MsgKey /\ 4 \in Nat /\ 4 > 0 /\ "mep4_addr" \in Field
        /\ "mep4_port" \in Field /\ "mep4_addr" # "mep4_port"
    BY DEF MsgKey, Field
  <1> QED BY <1>2, <1>3, <1>4, EndpointSent

\* and IPv6.
LEMMA Mep6Sent == Sent(Endpoint("mep6", 16, "mep6_addr", "mep6_port"), "mep6",
                  MsgSize("mep6"), MsgLayout("mep6"))
  <1>1. MsgLayout("mep6") = [mep6_addr |-> At(0, 16), mep6_port |-> At(16, 2)]
    BY DEF MsgLayout
  <1>2. /\ DOMAIN MsgLayout("mep6") = {"mep6_addr", "mep6_port"}
        /\ MsgLayout("mep6")["mep6_addr"] = At(0, 16) /\ MsgLayout("mep6")["mep6_port"] = At(16, 2)
    BY <1>1
  <1>3. MsgSize("mep6") = 16 + 2
    BY DEF MsgSize
  <1>4. /\ "mep6" \in MsgKey /\ 16 \in Nat /\ 16 > 0 /\ "mep6_addr" \in Field
        /\ "mep6_port" \in Field /\ "mep6_addr" # "mep6_port"
    BY DEF MsgKey, Field
  <1> QED BY <1>2, <1>3, <1>4, EndpointSent

\* The audio endpoint, IPv4,
LEMMA Aep4Sent == Sent(Endpoint("aep4", 4, "aep4_addr", "aep4_port"), "aep4",
                  MsgSize("aep4"), MsgLayout("aep4"))
  <1>1. MsgLayout("aep4") = [aep4_addr |-> At(0, 4), aep4_port |-> At(4, 2)]
    BY DEF MsgLayout
  <1>2. /\ DOMAIN MsgLayout("aep4") = {"aep4_addr", "aep4_port"}
        /\ MsgLayout("aep4")["aep4_addr"] = At(0, 4) /\ MsgLayout("aep4")["aep4_port"] = At(4, 2)
    BY <1>1
  <1>3. MsgSize("aep4") = 4 + 2
    BY DEF MsgSize
  <1>4. /\ "aep4" \in MsgKey /\ 4 \in Nat /\ 4 > 0 /\ "aep4_addr" \in Field
        /\ "aep4_port" \in Field /\ "aep4_addr" # "aep4_port"
    BY DEF MsgKey, Field
  <1> QED BY <1>2, <1>3, <1>4, EndpointSent

\* and IPv6.
LEMMA Aep6Sent == Sent(Endpoint("aep6", 16, "aep6_addr", "aep6_port"), "aep6",
                  MsgSize("aep6"), MsgLayout("aep6"))
  <1>1. MsgLayout("aep6") = [aep6_addr |-> At(0, 16), aep6_port |-> At(16, 2)]
    BY DEF MsgLayout
  <1>2. /\ DOMAIN MsgLayout("aep6") = {"aep6_addr", "aep6_port"}
        /\ MsgLayout("aep6")["aep6_addr"] = At(0, 16) /\ MsgLayout("aep6")["aep6_port"] = At(16, 2)
    BY <1>1
  <1>3. MsgSize("aep6") = 16 + 2
    BY DEF MsgSize
  <1>4. /\ "aep6" \in MsgKey /\ 16 \in Nat /\ 16 > 0 /\ "aep6_addr" \in Field
        /\ "aep6_port" \in Field /\ "aep6_addr" # "aep6_port"
    BY DEF MsgKey, Field
  <1> QED BY <1>2, <1>3, <1>4, EndpointSent

\* Entry i of encode_msg is one of these.
LEMMA EncodedMsg ==
    ASSUME NEW i \in 1 .. 7
    PROVE  /\ EncodeMsg \in Seq(Seq(Byte)) /\ Len(EncodeMsg) = 7
           /\ \E key \in MsgKey : Sent(EncodeMsg[i], key, MsgSize(key), MsgLayout(key))
  <1> DEFINE a == Tmln
             b == Sess
             c == Stst
             d == Endpoint("mep4", 4, "mep4_addr", "mep4_port")
             e == Endpoint("mep6", 16, "mep6_addr", "mep6_port")
             f == Endpoint("aep4", 4, "aep4_addr", "aep4_port")
             g == Endpoint("aep6", 16, "aep6_addr", "aep6_port")
             S(x) == \E key \in MsgKey : Sent(x, key, MsgSize(key), MsgLayout(key))
  <1>1. EncodeMsg = <<a, b, c, d, e, f, g>>
    BY DEF EncodeMsg
  <1>2. S(a) /\ S(b) /\ S(c)
    BY TmlnSent, SessSent, StstSent DEF MsgKey
  <1>3. S(d) /\ S(e) /\ S(f) /\ S(g)
    BY Mep4Sent, Mep6Sent, Aep4Sent, Aep6Sent DEF MsgKey
  <1>4. ASSUME NEW x, S(x) PROVE x \in Seq(Byte)
    BY <1>4 DEF Sent
  <1> HIDE DEF a, b, c, d, e, f, g, S
  <1>5. /\ a \in Seq(Byte) /\ b \in Seq(Byte) /\ c \in Seq(Byte) /\ d \in Seq(Byte)
        /\ e \in Seq(Byte) /\ f \in Seq(Byte) /\ g \in Seq(Byte)
    BY <1>2, <1>3, <1>4
  <1>6. EncodeMsg \in Seq(Seq(Byte)) /\ Len(EncodeMsg) = 7
    BY <1>1, <1>5
  <1>7. /\ EncodeMsg[1] = a /\ EncodeMsg[2] = b /\ EncodeMsg[3] = c /\ EncodeMsg[4] = d
        /\ EncodeMsg[5] = e /\ EncodeMsg[6] = f /\ EncodeMsg[7] = g
    BY <1>1
  <1>8. i = 1 \/ i = 2 \/ i = 3 \/ i = 4 \/ i = 5 \/ i = 6 \/ i = 7
    OBVIOUS
  <1>9. S(EncodeMsg[i])
    BY <1>2, <1>3, <1>7, <1>8
  <1> QED BY <1>6, <1>9 DEF S

\* handle_entry takes it.
LEMMA MsgHandled ==
    ASSUME NEW e, NEW key \in MsgKey, NEW o \in Nat, DOMAIN tlv_out = Field,
           Sent(e, key, MsgSize(key), MsgLayout(key)), Placed(o, e)
    PROVE  HandleEntry(key, o + 8, MsgSize(key)) = Result(TRUE, Updated(Brought(e)), {})
  <1>1. Reads(o + 8, MsgLayout(key)) = Updated(Brought(e))
    BY ReadsSent
  <1> QED BY <1>1 DEF HandleEntry

\* Cells that are not of a field.
Other == [f : Tag \ Field, x : Nat]

\* Sequences of them.
LEMMA OtherTags ==
    ASSUME NEW v \in Seq(Byte)
    PROVE  v \in Seq(Other) <=> Tags(v) \cap Field = {}
  <1>1. Len(v) \in Nat /\ v \in [1 .. Len(v) -> Byte]
    OBVIOUS
  <1>2. ASSUME v \in Seq(Other) PROVE Tags(v) \cap Field = {}
    <2>1. ASSUME NEW x \in 1 .. Len(v) PROVE v[x].f \notin Field
      <3>1. v[x] \in Other
        BY <1>2
      <3> QED BY <3>1 DEF Other
    <2> QED BY <2>1 DEF Tags
  <1>3. ASSUME Tags(v) \cap Field = {} PROVE v \in Seq(Other)
    <2>1. ASSUME NEW x \in 1 .. Len(v) PROVE v[x] \in Other
      <3>1. v[x].f \notin Field
        BY <1>3 DEF Tags
      <3>2. v[x] \in Byte
        BY <1>1
      <3> QED BY <3>1, <3>2 DEF Other, Byte
    <2>2. v \in [1 .. Len(v) -> Other]
      BY <1>1, <2>1
    <2> QED BY <1>1, <2>2
  <1> QED BY <1>2, <1>3

\* Those are cells.
LEMMA OtherBytes ==
    ASSUME NEW v \in Seq(Other)
    PROVE  v \in Seq(Byte) /\ Tags(v) \cap Field = {}
  <1>1. Other \in SUBSET Byte
    BY DEF Other, Byte
  <1>2. v \in Seq(Byte)
    BY <1>1
  <1> QED BY <1>2, OtherTags

\* A function on 1 .. n is a sequence.
LEMMA FunctionSeq ==
    ASSUME NEW C, NEW n \in Nat, NEW d \in [1 .. n -> C]
    PROVE  d \in Seq(C) /\ Len(d) = n
  OBVIOUS

\* The id of a channel.
Id(c) == [x \in 1 .. 8 |-> Cell("id", 8 * c + x)]

\* The entry of a channel: length, name, id.
LEMMA AnnouncedShape ==
    ASSUME NEW c \in Nat, NEW k \in Nat, Names[c] = k
    PROVE  /\ Announced(c) \in Seq(Other) /\ Len(Announced(c)) = 12 + k
           /\ Announced(c)[1] = Cell("len", k)
           /\ \A x \in 1 .. 8 : Announced(c)[(4 + k) + x] = Cell("id", 8 * c + x)
  <1> DEFINE a == Number("len", k)
             b == Bytes("name", k)
             d == Id(c)
  <1>1. /\ "len" \in Tag /\ "name" \in Tag /\ "id" \in Tag /\ "len" \notin Field
        /\ "name" \notin Field /\ "id" \notin Field /\ "pad" \notin Field
    BY DEF Tag, Field
  <1>2. a \in Seq(Byte) /\ Len(a) = 4 /\ a[1] = Cell("len", k) /\ Tags(a) = {"len", "pad"}
    BY <1>1, NumberShape
  <1>3. b \in Seq(Byte) /\ Len(b) = k /\ Tags(b) \in SUBSET {"name"}
    BY <1>1, BytesShape
  <1>4. ASSUME NEW x \in 1 .. 8
        PROVE  Cell("id", 8 * c + x) \in Byte /\ Cell("id", 8 * c + x).f = "id"
    <2>1. 8 * c + x \in Nat
      OBVIOUS
    <2> QED BY <1>1, <2>1, CellType
  <1>5. d \in [1 .. 8 -> Byte]
    BY <1>4 DEF Id
  <1>6. d \in Seq(Byte) /\ Len(d) = 8
    <2> HIDE DEF d
    <2>1. 8 \in Nat
      OBVIOUS
    <2> QED BY <1>5, <2>1, FunctionSeq
  <1>7. \A x \in 1 .. 8 : d[x] = Cell("id", 8 * c + x)
    BY DEF Id
  <1>8. Tags(d) \in SUBSET {"id"}
    BY <1>4, <1>6, <1>7 DEF Tags
  <1>9. Announced(c) = (a \o b) \o d
    BY DEF Announced, Id
  <1> HIDE DEF a, b, d
  <1>10. PICK u : u = a \o b
    OBVIOUS
  <1>11. PICK q : q = u \o d
    OBVIOUS
  <1>12. a \in Seq(Byte) /\ b \in Seq(Byte) /\ d \in Seq(Byte)
    BY <1>2, <1>3, <1>6
  <1>13. /\ u \in Seq(Byte) /\ Len(u) = Len(a) + Len(b) /\ Tags(u) = Tags(a) \cup Tags(b)
    BY <1>10, <1>12, BehindShape
  <1>14. \A x \in 1 .. Len(a) : u[x] = a[x]
    BY <1>10, <1>12, Behind
  <1>15. /\ q \in Seq(Byte) /\ Len(q) = Len(u) + Len(d) /\ Tags(q) = Tags(u) \cup Tags(d)
    BY <1>11, <1>12, <1>13, BehindShape
  <1>16. u \in Seq(Byte)
    BY <1>13
  <1>17. /\ \A x \in 1 .. Len(u) : q[x] = u[x]
         /\ \A x \in 1 .. Len(d) : q[Len(u) + x] = d[x]
    BY <1>11, <1>12, <1>16, Behind
  <1>18. Len(u) = 4 + k /\ Len(q) = 12 + k
    BY <1>2, <1>3, <1>6, <1>13, <1>15
  <1>19. q[1] = Cell("len", k)
    <2>1. 1 \in 1 .. Len(a) /\ 1 \in 1 .. Len(u)
      BY <1>2, <1>18
    <2> QED BY <1>2, <1>14, <1>17, <2>1
  <1>20. \A x \in 1 .. 8 : q[(4 + k) + x] = Cell("id", 8 * c + x)
    BY <1>6, <1>7, <1>17, <1>18
  <1>21. q \in Seq(Other)
    <2>1. Tags(q) \cap Field = {}
      BY <1>1, <1>2, <1>3, <1>8, <1>13, <1>15
    <2> QED BY <1>15, <2>1, OtherTags
  <1>22. Announced(c) = q
    BY <1>9, <1>10, <1>11
  <1> QED BY <1>18, <1>19, <1>20, <1>21, <1>22

---------------------------------------------------------------------------
\* What ann_handler reads channel by channel.
Channels == [c \in ChannelNo |-> Announced(c)]

\* Numbers of channels, and the lengths of their names.
LEMMA ChannelsShape ==
    /\ Len(Names) \in Nat /\ ChannelNo = 1 .. Len(Names)
    /\ \A c \in ChannelNo : Names[c] \in Nat
    /\ Channels \in Seq(Seq(Other)) /\ Len(Channels) = Len(Names)
    /\ \A c \in ChannelNo : Channels[c] = Announced(c) /\ Len(Channels[c]) = 12 + Names[c]
  <1>1. Names \in Seq(Nat)
    BY TlvAssumption
  <1>2. Len(Names) \in Nat /\ ChannelNo = 1 .. Len(Names) /\ \A c \in ChannelNo : Names[c] \in Nat
    BY <1>1 DEF ChannelNo
  <1>3. ASSUME NEW c \in ChannelNo
        PROVE  Announced(c) \in Seq(Other) /\ Len(Announced(c)) = 12 + Names[c]
    <2>1. c \in Nat /\ Names[c] \in Nat
      BY <1>2
    <2> QED BY <2>1, AnnouncedShape
  <1>4. Channels \in [1 .. Len(Names) -> Seq(Other)]
    BY <1>2, <1>3 DEF Channels
  <1>5. Channels \in Seq(Seq(Other)) /\ Len(Channels) = Len(Names)
    BY <1>2, <1>4
  <1>6. \A c \in ChannelNo : Channels[c] = Announced(c) /\ Len(Channels[c]) = 12 + Names[c]
    BY <1>3 DEF Channels
  <1> QED BY <1>2, <1>5, <1>6

\* The bytes of the first i channels.
LEMMA ChannelsJoined ==
    ASSUME NEW i \in ChannelNo
    PROVE  /\ i - 1 \in 0 .. Len(Names) /\ i \in 0 .. Len(Names)
           /\ Len(Joined(Channels, i - 1)) \in Nat
           /\ Len(Joined(Channels, i)) = Len(Joined(Channels, i - 1)) + (12 + Names[i])
  <1>1. i \in 1 .. Len(Channels) /\ Channels \in Seq(Seq(Other)) /\ Len(Channels) = Len(Names)
        /\ Len(Channels[i]) = 12 + Names[i] /\ Len(Names) \in Nat
    BY ChannelsShape
  <1>2. /\ Len(Joined(Channels, i - 1)) \in Nat
        /\ Len(Joined(Channels, i)) = Len(Joined(Channels, i - 1)) + Len(Channels[i])
    BY <1>1, JoinedLast
  <1> QED BY <1>1, <1>2

\* The recursion of AucaTotal has a solution.
LEMMA AucaTotalStep ==
    AucaTotal = [c \in 0 .. Len(Names) |->
                    IF c = 0 THEN 4 ELSE AucaTotal[c - 1] + 4 + Names[c] + 8]
  <1> DEFINE P(g) == g = [c \in 0 .. Len(Names) |->
                             IF c = 0 THEN 4 ELSE g[c - 1] + 4 + Names[c] + 8]
             h == [c \in 0 .. Len(Names) |-> Len(Joined(Channels, c)) + 4]
  <1>1. Len(Joined(Channels, 0)) = 0
    <2>1. SubSeq(Channels, 1, 0) = <<>>
      BY ChannelsShape
    <2>2. Joined(Channels, 0) = <<>>
      BY <2>1 DEF Joined, FlattenSeq
    <2> QED BY <2>2
  <1>2. ASSUME NEW c \in 0 .. Len(Names)
        PROVE  h[c] = IF c = 0 THEN 4 ELSE h[c - 1] + 4 + Names[c] + 8
    <2>1. CASE c = 0
      BY <1>1, <2>1
    <2>2. CASE c # 0
      <3>1. c \in ChannelNo /\ Names[c] \in Nat
        BY <2>2, ChannelsShape
      <3>2. /\ c - 1 \in 0 .. Len(Names) /\ Len(Joined(Channels, c - 1)) \in Nat
            /\ Len(Joined(Channels, c)) = Len(Joined(Channels, c - 1)) + (12 + Names[c])
        BY <3>1, ChannelsJoined
      <3>3. h[c - 1] = Len(Joined(Channels, c - 1)) + 4 /\ h[c] = Len(Joined(Channels, c)) + 4
        BY <3>2
      <3> HIDE DEF h
      <3> QED BY <2>2, <3>1, <3>2, <3>3
    <2> QED BY <2>1, <2>2
  <1>3. P(h)
    <2>1. h = [c \in 0 .. Len(Names) |-> h[c]]
      OBVIOUS
    <2> HIDE DEF h
    <2> QED BY <1>2, <2>1
  <1>4. AucaTotal = CHOOSE g : P(g)
    BY DEF AucaTotal
  <1> HIDE DEF P, h
  <1>5. P(AucaTotal)
    BY <1>3, <1>4
  <1> QED BY <1>5 DEF P

\* The first pass of encode_peer_announcement computes the size of what the
\* second one writes.
LEMMA AucaTotalIsSize ==
    ASSUME NEW i \in 0 .. Len(Names)
    PROVE  AucaTotal[i] = 4 + Len(Joined(Channels, i)) /\ Len(Joined(Channels, i)) \in Nat
  <1> DEFINE L(n) == Len(Joined(Channels, n))
             Bad == {n \in 0 .. Len(Names) : ~(AucaTotal[n] = 4 + L(n) /\ L(n) \in Nat)}
  <1>1. Bad = {}
    <2> SUFFICES ASSUME Bad # {} PROVE FALSE
      OBVIOUS
    <2>1. PICK n \in Bad : \A x \in Bad : n <= x
      <3>1. Bad \in SUBSET Nat
        BY ChannelsShape
      <3> HIDE DEF Bad
      <3> QED BY <3>1, LeastElement
    <2>2. n \in 0 .. Len(Names) /\ ~(AucaTotal[n] = 4 + L(n) /\ L(n) \in Nat)
      OBVIOUS
    <2>3. AucaTotal[n] = IF n = 0 THEN 4 ELSE AucaTotal[n - 1] + 4 + Names[n] + 8
      BY <2>2, AucaTotalStep
    <2>4. CASE n = 0
      <3>1. SubSeq(Channels, 1, 0) = <<>>
        BY ChannelsShape
      <3>2. Joined(Channels, 0) = <<>>
        BY <3>1 DEF Joined, FlattenSeq
      <3>3. L(0) = 0
        BY <3>2
      <3> HIDE DEF L
      <3> QED BY <2>2, <2>3, <2>4, <3>3
    <2>5. CASE n # 0
      <3>1. n \in ChannelNo /\ Names[n] \in Nat /\ ~(n <= n - 1)
        BY <2>2, <2>5, ChannelsShape
      <3>2. n - 1 \in 0 .. Len(Names) /\ L(n - 1) \in Nat /\ L(n) = L(n - 1) + (12 + Names[n])
        BY <3>1, ChannelsJoined
      <3>3. n - 1 \notin Bad
        BY <2>1, <3>1
      <3>4. AucaTotal[n - 1] = 4 + L(n - 1)
        BY <3>2, <3>3
      <3>5. AucaTotal[n] = AucaTotal[n - 1] + 4 + Names[n] + 8
        BY <2>3, <2>5
      <3> DEFINE a == Len(Joined(Channels, n - 1))
                 b == Len(Joined(Channels, n))
                 k == Names[n]
                 u == AucaTotal[n]
                 w == AucaTotal[n - 1]
      <3>6. a \in Nat /\ k \in Nat /\ b = a + (12 + k)
        BY <3>1, <3>2
      <3>7. w = 4 + a /\ u = w + 4 + k + 8
        BY <3>4, <3>5
      <3>8. ~(u = 4 + b /\ b \in Nat)
        BY <2>2
      <3> HIDE DEF a, b, k, u, w, Bad
      <3> QED BY <3>6, <3>7, <3>8
    <2> QED BY <2>4, <2>5
  <1> QED BY <1>1

\* All sequences of s in one.
LEMMA FlattenType ==
    ASSUME NEW C, NEW s \in Seq(Seq(C))
    PROVE  FlattenSeq(s) = Joined(s, Len(s)) /\ FlattenSeq(s) \in Seq(C)
           /\ Len(FlattenSeq(s)) \in Nat
  <1>1. SubSeq(s, 1, Len(s)) = s /\ Len(s) \in 0 .. Len(s)
    OBVIOUS
  <1>2. FlattenSeq(s) = Joined(s, Len(s))
    BY <1>1 DEF Joined
  <1>3. FlattenSeq(s) \in Seq(C)
    BY <1>1, <1>2, JoinedType
  <1> QED BY <1>2, <1>3

\* The value of an auca entry.
AucaValue == Number("count", Len(Names)) \o FlattenSeq(Channels)

\* The auca entry, and where its parts are.
LEMMA AucaShape ==
    /\ Sent(Auca, "auca", AucaSize, <<>>)
    /\ AucaSize = 4 + Len(FlattenSeq(Channels)) /\ Len(FlattenSeq(Channels)) \in Nat
    /\ Auca[8 + 1] = Cell("count", Len(Names))
    /\ \A x \in 1 .. Len(FlattenSeq(Channels)) : Auca[12 + x] = FlattenSeq(Channels)[x]
  <1> DEFINE a == Number("count", Len(Names))
             b == FlattenSeq(Channels)
             v == AucaValue
             e == Auca
  <1>1. "count" \in Tag /\ "count" \notin Field /\ "pad" \notin Field /\ "auca" \in EntryKey
    BY DEF Tag, Field, EntryKey
  <1>2. Len(Names) \in Nat /\ Channels \in Seq(Seq(Other)) /\ Len(Channels) = Len(Names)
    BY ChannelsShape
  <1>3. a \in Seq(Byte) /\ Len(a) = 4 /\ a[1] = Cell("count", Len(Names))
        /\ Tags(a) = {"count", "pad"}
    BY <1>1, <1>2, NumberShape
  <1>4. b \in Seq(Other) /\ Len(b) \in Nat /\ b = Joined(Channels, Len(Channels))
    BY <1>2, FlattenType
  <1>5. b \in Seq(Byte) /\ Tags(b) \cap Field = {}
    BY <1>4, OtherBytes
  <1>6. AucaSize = 4 + Len(b)
    <2>1. Len(Names) \in 0 .. Len(Names)
      BY <1>2
    <2>2. AucaTotal[Len(Names)] = 4 + Len(Joined(Channels, Len(Names)))
      BY <2>1, AucaTotalIsSize
    <2> QED BY <1>2, <1>4, <2>2 DEF AucaSize
  <1>7. v = a \o b
    BY DEF AucaValue
  <1>8. e = Emit("auca", AucaSize, v)
    BY DEF Auca, AucaValue, Channels
  <1> HIDE DEF a, b, v, e
  <1>9. a \in Seq(Byte) /\ b \in Seq(Byte)
    BY <1>3, <1>5
  <1>10. v \in Seq(Byte) /\ Len(v) = Len(a) + Len(b) /\ Tags(v) = Tags(a) \cup Tags(b)
    BY <1>7, <1>9, BehindShape
  <1>11. /\ \A x \in 1 .. Len(a) : v[x] = a[x]
         /\ \A x \in 1 .. Len(b) : v[Len(a) + x] = b[x]
    BY <1>7, <1>9, Behind
  <1>12. IsEntry(e, "auca", AucaSize, v)
    <2>1. AucaSize \in Nat
      BY <1>4, <1>6
    <2> QED BY <1>1, <1>8, <1>10, <2>1, EmitShape
  <1>13. Len(v) = AucaSize /\ AucaSize \in Nat
    BY <1>3, <1>4, <1>6, <1>10
  <1>14. Tags(v) \cap Field = {}
    BY <1>1, <1>3, <1>5, <1>10
  <1>15. Sent(e, "auca", AucaSize, <<>>)
    BY <1>12, <1>13, <1>14 DEF Sent, IsEntry
  <1>16. e[8 + 1] = Cell("count", Len(Names))
    <2>1. 1 \in 1 .. Len(a) /\ 1 \in 1 .. Len(v)
      BY <1>3, <1>4, <1>10
    <2>2. v[1] = Cell("count", Len(Names))
      BY <1>3, <1>11, <2>1
    <2>3. e[8 + 1] = v[1]
      BY <1>12, <2>1 DEF IsEntry
    <2> QED BY <2>2, <2>3
  <1>17. ASSUME NEW x \in 1 .. Len(b) PROVE e[12 + x] = b[x]
    <2>1. 4 + x \in 1 .. Len(v) /\ 8 + (4 + x) = 12 + x
      BY <1>3, <1>4, <1>10
    <2>2. e[8 + (4 + x)] = v[4 + x]
      BY <1>12, <2>1 DEF IsEntry
    <2>3. v[4 + x] = b[x]
      BY <1>3, <1>11
    <2> QED BY <2>1, <2>2, <2>3
  <1> QED BY <1>4, <1>6, <1>15, <1>16, <1>17 DEF b, e

\* What the loop of ann_handler holds behind channel i of the entry at o.
Scanned(o, i) ==
    [v |-> (o + 8) + AucaTotal[i], n |-> AucaSize - AucaTotal[i], ok |-> TRUE,
     chans |-> 1 .. i]

\* One turn of it.
ScanStep(s) ==
    LET name_len == Buf[s.v + 1].x
    IN  IF ~s.ok \/ s.n < 4 \/ s.n - 4 < name_len + 8
        THEN [s EXCEPT !.ok = FALSE]
        ELSE [v |-> s.v + 12 + name_len, n |-> s.n - 12 - name_len,
              ok |-> TRUE, chans |-> s.chans \cup Ident(s.v + 4 + name_len)]

\* Channel i in the message.
LEMMA ChannelPlaced ==
    ASSUME NEW o \in Nat, Placed(o, Auca), NEW i \in ChannelNo,
           NEW V, V = (o + 8) + AucaTotal[i - 1]
    PROVE  /\ V \in Nat /\ Names[i] \in Nat
           /\ AucaTotal[i - 1] \in Nat /\ AucaTotal[i] = AucaTotal[i - 1] + (12 + Names[i])
           /\ AucaTotal[i] <= AucaSize /\ AucaSize \in Nat
           /\ \A x \in 1 .. 12 + Names[i] : Buf[V + x] = Announced(i)[x]
  <1> DEFINE b == FlattenSeq(Channels)
             a == Len(Joined(Channels, i - 1))
             k == Names[i]
             e == Auca
  <1>1. /\ i \in 1 .. Len(Channels) /\ Channels \in Seq(Seq(Other)) /\ Len(Channels) = Len(Names)
        /\ Channels[i] = Announced(i) /\ Len(Channels[i]) = 12 + k /\ k \in Nat
        /\ Len(Names) \in Nat
    BY ChannelsShape
  <1>2. /\ a \in Nat /\ Len(Joined(Channels, i)) = a + Len(Channels[i])
        /\ Len(Joined(Channels, i)) <= Len(b)
        /\ \A x \in 1 .. Len(Channels[i]) : b[a + x] = Channels[i][x]
    BY <1>1, FlattenPlaces
  <1>3. i \in 0 .. Len(Names) /\ i - 1 \in 0 .. Len(Names)
    BY <1>1
  <1>4. AucaTotal[i] = 4 + Len(Joined(Channels, i)) /\ AucaTotal[i - 1] = 4 + a
    BY <1>3, AucaTotalIsSize
  <1>5. /\ AucaSize = 4 + Len(b) /\ Len(b) \in Nat
        /\ \A x \in 1 .. Len(b) : e[12 + x] = b[x]
    BY AucaShape
  <1>6. Len(e) = 8 + AucaSize
    BY AucaShape DEF Sent
  <1>7. \A x \in 1 .. Len(e) : Buf[o + x] = e[x]
    BY DEF Placed
  <1> HIDE DEF a, b, k, e
  <1>8. /\ V = o + 12 + a /\ V \in Nat /\ k \in Nat
        /\ AucaTotal[i - 1] \in Nat /\ AucaTotal[i] = AucaTotal[i - 1] + (12 + k)
        /\ AucaTotal[i] <= AucaSize /\ AucaSize \in Nat
    BY <1>1, <1>2, <1>4, <1>5
  <1>9. ASSUME NEW x \in 1 .. 12 + k PROVE Buf[V + x] = Announced(i)[x]
    <2>1. b[a + x] = Announced(i)[x]
      BY <1>1, <1>2
    <2>2. a + x \in 1 .. Len(b)
      BY <1>1, <1>2, <1>5
    <2>3. e[12 + (a + x)] = b[a + x]
      BY <1>5, <2>2
    <2>4. 12 + (a + x) \in 1 .. Len(e) /\ V + x = o + (12 + (a + x))
      <3>1. a \in Nat /\ x \in Nat /\ Len(b) \in Nat /\ a + x <= Len(b)
        BY <1>1, <1>2, <1>5, <2>2
      <3>2. Len(e) = 8 + (4 + Len(b)) /\ V = o + 12 + a
        BY <1>5, <1>6, <1>8
      <3> HIDE DEF Placed
      <3> QED BY <3>1, <3>2
    <2>5. Buf[o + (12 + (a + x))] = e[12 + (a + x)]
      BY <1>7, <2>4
    <2> QED BY <2>1, <2>3, <2>4, <2>5
  <1> QED BY <1>8, <1>9 DEF k

\* The id that is read behind its name is that of channel i.
LEMMA IdentPlaced ==
    ASSUME NEW i \in ChannelNo, NEW k \in Nat, Names[i] = k, NEW V \in Nat,
           \A x \in 1 .. 12 + k : Buf[V + x] = Announced(i)[x]
    PROVE  Ident((V + 4) + k) = {i} /\ Buf[V + 1].x = k
  <1>1. i \in Nat /\ \A c \in ChannelNo : c \in Nat
    BY ChannelsShape
  <1>2. /\ Announced(i)[1] = Cell("len", k)
        /\ \A x \in 1 .. 8 : Announced(i)[(4 + k) + x] = Cell("id", 8 * i + x)
    BY <1>1, AnnouncedShape
  <1>3. ASSUME NEW x \in 1 .. 8 PROVE Buf[((V + 4) + k) + x] = Cell("id", 8 * i + x)
    <2>1. (4 + k) + x \in 1 .. 12 + k /\ ((V + 4) + k) + x = V + ((4 + k) + x)
      OBVIOUS
    <2>2. Buf[V + ((4 + k) + x)] = Announced(i)[(4 + k) + x]
      BY <2>1
    <2> QED BY <1>2, <2>1, <2>2
  <1> DEFINE W == (V + 4) + k
             C == {c \in ChannelNo : \A x \in 1 .. 8 : Buf[W + x] = Cell("id", 8 * c + x)}
  <1>4. i \in C
    BY <1>3
  <1>5. ASSUME NEW c \in C PROVE c = i
    <2>1. c \in Nat /\ 1 \in 1 .. 8
      BY <1>1
    <2>2. Buf[W + 1] = Cell("id", 8 * c + 1) /\ Buf[W + 1] = Cell("id", 8 * i + 1)
      BY <1>3, <2>1
    <2>3. Cell("id", 8 * c + 1) = Cell("id", 8 * i + 1)
      BY <2>2
    <2>4. 8 * c + 1 = 8 * i + 1
      BY <2>3 DEF Cell
    <2> QED BY <1>1, <2>1, <2>4
  <1>6. C = {i}
    BY <1>4, <1>5
  <1>7. Ident(W) = IF C = {} THEN {0} ELSE C
    BY DEF Ident
  <1>8. Buf[V + 1].x = k
    <2>1. 1 \in 1 .. 12 + k
      OBVIOUS
    <2>2. Buf[V + 1] = Cell("len", k)
      BY <1>2, <2>1
    <2> QED BY <2>2 DEF Cell
  <1> HIDE DEF C
  <1> QED BY <1>6, <1>7, <1>8

\* A turn takes it from channel i - 1 to channel i.
LEMMA ScanStepSent ==
    ASSUME NEW o \in Nat, Placed(o, Auca), NEW i \in ChannelNo
    PROVE  ScanStep(Scanned(o, i - 1)) = Scanned(o, i)
  <1> DEFINE s == Scanned(o, i - 1)
             V == (o + 8) + AucaTotal[i - 1]
             n == AucaSize - AucaTotal[i - 1]
             k == Names[i]
             l == Buf[V + 1].x
             I == Ident((V + 4) + l)
  <1>1. s.v = V /\ s.n = n /\ s.chans = 1 .. (i - 1)
    BY DEF Scanned
  <1>2. s.ok = TRUE
    BY DEF Scanned
  <1>3. /\ V \in Nat /\ k \in Nat
        /\ AucaTotal[i - 1] \in Nat /\ AucaTotal[i] = AucaTotal[i - 1] + (12 + k)
        /\ AucaTotal[i] <= AucaSize /\ AucaSize \in Nat
    BY ChannelPlaced
  <1>4. \A x \in 1 .. 12 + k : Buf[V + x] = Announced(i)[x]
    BY ChannelPlaced
  <1> HIDE DEF V
  <1>5. Ident((V + 4) + k) = {i} /\ l = k
    BY <1>3, <1>4, IdentPlaced
  <1> HIDE DEF s, k, l
  <1>6. ~(n < 4 \/ n - 4 < l + 8)
    BY <1>3, <1>5
  <1>7. ScanStep(s) = IF ~s.ok \/ s.n < 4 \/ s.n - 4 < l + 8
                      THEN [s EXCEPT !.ok = FALSE]
                      ELSE [v |-> s.v + 12 + l, n |-> s.n - 12 - l,
                            ok |-> TRUE, chans |-> s.chans \cup Ident(s.v + 4 + l)]
    BY <1>1 DEF ScanStep, l
  <1>8. ScanStep(s) = [v |-> s.v + 12 + l, n |-> s.n - 12 - l,
                       ok |-> TRUE, chans |-> s.chans \cup Ident(s.v + 4 + l)]
    BY <1>1, <1>2, <1>6, <1>7
  <1>9. s.v + 12 + l = (o + 8) + AucaTotal[i]
    BY <1>1, <1>3, <1>5 DEF V
  <1>10. s.n - 12 - l = AucaSize - AucaTotal[i]
    BY <1>1, <1>3, <1>5
  <1>11. s.chans \cup Ident(s.v + 4 + l) = 1 .. i
    <2>1. i \in Nat /\ i > 0
      BY ChannelsShape
    <2>2. (1 .. (i - 1)) \cup {i} = 1 .. i
      BY <2>1
    <2> QED BY <1>1, <1>5, <2>2
  <1> QED BY <1>8, <1>9, <1>10, <1>11 DEF Scanned, s

\* ann_handler lists all channels, and no others.
LEMMA ChannelsListed ==
    ASSUME NEW o \in Nat, Placed(o, Auca)
    PROVE  ListChannels(o + 8, AucaSize) = Result(TRUE, tlv_out, ChannelNo)
  <1> DEFINE count == Buf[(o + 8) + 1].x
             Round(g, i) ==
                IF i = 0 THEN [v |-> (o + 8) + 4, n |-> AucaSize - 4, ok |-> TRUE, chans |-> {}]
                ELSE ScanStep(g[i - 1])
             P(g) == g = [i \in 0 .. count |-> Round(g, i)]
             h == [i \in 0 .. count |-> Scanned(o, i)]
             scan == CHOOSE g : P(g)
  <1>1. count = Len(Names)
    <2>1. Auca[8 + 1] = Cell("count", Len(Names))
      BY AucaShape
    <2>2. Len(Auca) = 8 + AucaSize /\ AucaSize = 4 + Len(FlattenSeq(Channels))
          /\ Len(FlattenSeq(Channels)) \in Nat
      BY AucaShape DEF Sent
    <2>3. 8 + 1 \in 1 .. Len(Auca) /\ (o + 8) + 1 = o + (8 + 1)
      BY <2>2
    <2>4. Buf[o + (8 + 1)] = Auca[8 + 1]
      BY <2>3 DEF Placed
    <2>5. Buf[(o + 8) + 1] = Cell("count", Len(Names))
      BY <2>1, <2>3, <2>4
    <2> QED BY <2>5 DEF Cell
  <1>2. /\ Len(Names) \in Nat /\ ChannelNo = 1 .. Len(Names)
    BY ChannelsShape
  <1> HIDE DEF count
  <1>3. Scanned(o, 0) = [v |-> (o + 8) + 4, n |-> AucaSize - 4, ok |-> TRUE, chans |-> {}]
    <2>1. 0 \in 0 .. Len(Names)
      BY <1>2
    <2>2. AucaTotal[0] = 4
      BY <2>1, AucaTotalStep
    <2>3. 1 .. 0 = {}
      OBVIOUS
    <2> QED BY <2>2, <2>3 DEF Scanned
  <1>4. ASSUME NEW i \in 0 .. count PROVE h[i] = Round(h, i)
    <2>1. CASE i = 0
      BY <1>3, <2>1
    <2>2. CASE i # 0
      <3>1. i \in ChannelNo /\ i - 1 \in 0 .. count
        BY <1>1, <1>2, <2>2
      <3>2. ScanStep(Scanned(o, i - 1)) = Scanned(o, i)
        BY <3>1, ScanStepSent
      <3>3. h[i - 1] = Scanned(o, i - 1) /\ h[i] = Scanned(o, i)
        BY <3>1
      <3> HIDE DEF h
      <3> QED BY <2>2, <3>2, <3>3
    <2> QED BY <2>1, <2>2
  <1>5. P(h)
    <2>1. h = [i \in 0 .. count |-> h[i]]
      OBVIOUS
    <2> HIDE DEF h, Round
    <2> QED BY <1>4, <2>1
  <1>6. P(scan)
    <2> HIDE DEF P, h
    <2> QED BY <1>5
  <1>7. ASSUME NEW i \in 0 .. count PROVE scan[i] = Round(scan, i)
    <2> HIDE DEF scan, Round
    <2> QED BY <1>6
  <1> DEFINE Bad == {i \in 0 .. count : scan[i] # Scanned(o, i)}
  <1> HIDE DEF scan, P
  <1>8. Bad = {}
    <2> SUFFICES ASSUME Bad # {} PROVE FALSE
      OBVIOUS
    <2>1. PICK i \in Bad : \A x \in Bad : i <= x
      <3>1. Bad \in SUBSET Nat
        BY <1>1, <1>2
      <3> HIDE DEF Bad
      <3> QED BY <3>1, LeastElement
    <2>2. i \in 0 .. count /\ scan[i] # Scanned(o, i)
      OBVIOUS
    <2>3. scan[i] = Round(scan, i)
      BY <1>7, <2>2
    <2>4. CASE i = 0
      BY <1>3, <2>2, <2>3, <2>4
    <2>5. CASE i # 0
      <3>1. i \in ChannelNo /\ i - 1 \in 0 .. count /\ ~(i <= i - 1)
        BY <1>1, <1>2, <2>2, <2>5
      <3>2. i - 1 \notin Bad
        BY <2>1, <3>1
      <3>3. scan[i - 1] = Scanned(o, i - 1)
        BY <3>1, <3>2
      <3>4. ScanStep(Scanned(o, i - 1)) = Scanned(o, i)
        BY <3>1, ScanStepSent
      <3>5. scan[i] = ScanStep(scan[i - 1])
        BY <2>3, <2>5
      <3> QED BY <2>2, <3>3, <3>4, <3>5
    <2> QED BY <2>4, <2>5
  <1>9. scan[count] = Scanned(o, count)
    BY <1>1, <1>2, <1>8
  <1>10. ListChannels(o + 8, AucaSize) = Result(scan[count].ok, tlv_out, scan[count].chans)
    BY DEF ListChannels, scan, P, count, ScanStep
  <1>11. scan[count].ok = TRUE
    BY <1>9 DEF Scanned
  <1>12. scan[count].chans = ChannelNo
    BY <1>1, <1>2, <1>9 DEF Scanned
  <1> QED BY <1>10, <1>11, <1>12

\* The beginning of a field.
LEMMA LiesShort ==
    ASSUME NEW v, NEW o, NEW f, NEW n, Lies(v, o, f, n), NEW m \in Nat, m <= n, Len(v) \in Nat
    PROVE  Lies(v, o, f, m)
  <1>1. o \in Nat /\ n \in Nat /\ o + n <= Len(v) /\ \A x \in 1 .. n : v[o + x] = Cell(f, x)
    BY DEF Lies
  <1>2. o + m <= Len(v)
    BY <1>1
  <1>3. \A x \in 1 .. m : x \in 1 .. n
    BY <1>1
  <1> QED BY <1>1, <1>2, <1>3 DEF Lies

\* The peer name and as much of it as the receiver keeps.
Pi == Emit("__pi", 4 + PeerNameLen,
           Number("len", PeerNameLen) \o Bytes("peer_name", PeerNameLen))
NameKept == Min({PeerNameLen, NameMax - 1})

\* The peer name may be cut; the rest of the entry is skipped.
LEMMA PiSent ==
    /\ Sent(Pi, "__pi", 4 + PeerNameLen, [peer_name |-> At(4, NameKept)])
    /\ Pi[8 + 1].x = PeerNameLen /\ PeerNameLen \in Nat
  <1>1. PeerNameLen \in Nat /\ PeerNameLen > 0 /\ NameMax \in Nat \ {0}
    BY TlvAssumption
  <1>2. NameKept \in Nat /\ NameKept <= PeerNameLen
    <2> DEFINE N == PeerNameLen
               M == NameMax - 1
               Least(x) == x \in {N, M} /\ \A y \in {N, M} : x <= y
    <2>1. N \in Nat /\ M \in Nat
      BY <1>1
    <2>2. NameKept = CHOOSE x \in {N, M} : \A y \in {N, M} : x <= y
      BY DEF NameKept, Min
    <2> HIDE DEF N, M
    <2>3. \E x \in {N, M} : \A y \in {N, M} : x <= y
      BY <2>1
    <2>4. NameKept \in {N, M} /\ \A y \in {N, M} : NameKept <= y
      BY <2>2, <2>3
    <2> QED BY <2>1, <2>4 DEF N
  <1> DEFINE N == PeerNameLen
             a == Number("len", N)
             b == Bytes("peer_name", N)
             e == Pi
             l == [peer_name |-> At(4, NameKept)]
  <1>3. /\ "len" \in Tag /\ "len" \notin Field /\ "pad" \notin Field
        /\ "peer_name" \in Tag /\ "peer_name" \in Field /\ "__pi" \in EntryKey
    BY DEF Tag, Field, EntryKey
  <1>4. a \in Seq(Byte) /\ Len(a) = 4 /\ a[1] = Cell("len", N) /\ Tags(a) = {"len", "pad"}
    BY <1>1, <1>3, NumberShape
  <1>5. b \in Seq(Byte) /\ Len(b) = N /\ Tags(b) = {"peer_name"} /\ Lies(b, 0, "peer_name", N)
    BY <1>1, <1>3, BytesShape
  <1>6. DOMAIN l = {"peer_name"} /\ l["peer_name"] = At(4, NameKept)
    OBVIOUS
  <1>7. l["peer_name"].at = 4 /\ l["peer_name"].n = NameKept
    BY <1>6 DEF At
  <1>8. PICK v : v = a \o b
    OBVIOUS
  <1>9. e = Emit("__pi", 4 + N, v)
    BY <1>8 DEF Pi
  <1> HIDE DEF N, a, b, e, l
  <1>10. a \in Seq(Byte) /\ b \in Seq(Byte)
    BY <1>4, <1>5
  <1>11. /\ v \in Seq(Byte) /\ Len(v) = Len(a) + Len(b) /\ Tags(v) = Tags(a) \cup Tags(b)
         /\ Lies(v, Len(a) + 0, "peer_name", N)
    BY <1>5, <1>8, <1>10, BehindShape
  <1>12. \A x \in 1 .. Len(a) : v[x] = a[x]
    BY <1>8, <1>10, Behind
  <1>13. N \in Nat /\ NameKept \in Nat /\ NameKept <= N
    BY <1>1, <1>2 DEF N
  <1>14. IsEntry(e, "__pi", 4 + N, v)
    <2>1. 4 + N \in Nat
      BY <1>13
    <2> QED BY <1>3, <1>9, <1>11, <2>1, EmitShape
  <1>15. Len(v) = 4 + N /\ Len(a) + 0 = 4
    BY <1>4, <1>5, <1>11, <1>13
  <1>16. Lies(e, 8 + 4, "peer_name", NameKept)
    <2>1. Lies(v, 4, "peer_name", N)
      BY <1>11, <1>15
    <2>2. Lies(e, 8 + 4, "peer_name", N)
      BY <1>14, <2>1 DEF IsEntry
    <2>3. Len(e) \in Nat
      BY <1>14 DEF IsEntry
    <2> QED BY <1>13, <2>2, <2>3, LiesShort
  <1>17. Sent(e, "__pi", 4 + N, l)
    <2>1. e \in Seq(Byte) /\ 4 + N \in Nat /\ Len(e) = 8 + (4 + N)
      BY <1>13, <1>14, <1>15 DEF IsEntry
    <2>2. e[1].f = "__pi" /\ e[1].x = 4 + N
      BY <1>14 DEF IsEntry
    <2>3. Brought(e) = {"len", "pad", "peer_name"}
      BY <1>4, <1>5, <1>11, <1>14 DEF IsEntry
    <2>4. Brought(e) \cap Field = DOMAIN l
      BY <1>3, <1>6, <2>3
    <2> QED BY <1>6, <1>7, <1>16, <2>1, <2>2, <2>4 DEF Sent
  <1>18. e[8 + 1].x = N
    <2>1. 1 \in 1 .. Len(a) /\ 1 \in 1 .. Len(v)
      BY <1>4, <1>13, <1>15
    <2>2. v[1] = Cell("len", N)
      BY <1>4, <1>12, <2>1
    <2>3. e[8 + 1] = v[1]
      BY <1>14, <2>1 DEF IsEntry
    <2> QED BY <2>2, <2>3 DEF Cell
  <1> QED BY <1>13, <1>17, <1>18 DEF N, e, l

\* The entries of one field.
Ht == Emit("__ht", 8, Bytes("ping_ht", 8))
Chid == Emit("chid", 8, Bytes("channel_id", 8))

\* The time of a ping.
LEMMA HtSent == Sent(Ht, "__ht", 8, [ping_ht |-> At(0, 8)])
  <1> DEFINE l == [ping_ht |-> At(0, 8)]
  <1>1. DOMAIN l = {"ping_ht"} /\ l["ping_ht"] = At(0, 8)
    OBVIOUS
  <1> HIDE DEF l
  <1>2. "__ht" \in EntryKey /\ "ping_ht" \in Field /\ 8 \in Nat /\ 8 > 0
    BY DEF EntryKey, Field
  <1>3. Sent(Emit("__ht", 8, Bytes("ping_ht", 8)), "__ht", 8, l)
    BY <1>1, <1>2, OneSent
  <1> QED BY <1>3 DEF l, Ht

\* The channel that is asked for.
LEMMA ChidSent == Sent(Chid, "chid", 8, [channel_id |-> At(0, 8)])
  <1> DEFINE l == [channel_id |-> At(0, 8)]
  <1>1. DOMAIN l = {"channel_id"} /\ l["channel_id"] = At(0, 8)
    OBVIOUS
  <1> HIDE DEF l
  <1>2. "chid" \in EntryKey /\ "channel_id" \in Field /\ 8 \in Nat /\ 8 > 0
    BY DEF EntryKey, Field
  <1>3. Sent(Emit("chid", 8, Bytes("channel_id", 8)), "chid", 8, l)
    BY <1>1, <1>2, OneSent
  <1> QED BY <1>3 DEF l, Chid

\* What other versions send.
News == Emit("news", 3, Bytes("news", 3))
LongStst == Emit("stst", 18, Bytes("is_playing", 18))

\* An entry this version does not know has none of its fields.
LEMMA NewsSent == Sent(News, "news", 3, <<>>)
  <1> DEFINE v == Bytes("news", 3)
             e == News
  <1>1. "news" \in Tag /\ "news" \in EntryKey /\ "news" \notin Field /\ 3 \in Nat /\ 3 > 0
    BY DEF Tag, EntryKey, Field, MsgKey
  <1>2. v \in Seq(Byte) /\ Len(v) = 3 /\ Tags(v) = {"news"}
    BY <1>1, BytesShape
  <1>3. e = Emit("news", 3, v)
    BY DEF News
  <1> HIDE DEF v, e
  <1>4. IsEntry(e, "news", 3, v)
    BY <1>1, <1>2, <1>3, EmitShape
  <1>5. Sent(e, "news", 3, <<>>)
    BY <1>1, <1>2, <1>4 DEF IsEntry, Sent
  <1> QED BY <1>5 DEF e

\* A start-stop state of another size.
LEMMA LongStstSent == Sent(LongStst, "stst", 18, [is_playing |-> At(0, 18)])
  <1> DEFINE l == [is_playing |-> At(0, 18)]
  <1>1. DOMAIN l = {"is_playing"} /\ l["is_playing"] = At(0, 18)
    OBVIOUS
  <1> HIDE DEF l
  <1>2. "stst" \in EntryKey /\ "is_playing" \in Field /\ 18 \in Nat /\ 18 > 0
    BY DEF EntryKey, MsgKey, Field
  <1>3. Sent(Emit("stst", 18, Bytes("is_playing", 18)), "stst", 18, l)
    BY <1>1, <1>2, OneSent
  <1> QED BY <1>3 DEF l, LongStst

\* An entry whose header tells its length.
Whole(e) == e \in Seq(Byte) /\ e[1].x \in Nat /\ Len(e) = 8 + e[1].x

\* What is sent is whole.
LEMMA SentWhole ==
    ASSUME NEW e, NEW key, NEW size, NEW layout, Sent(e, key, size, layout)
    PROVE  Whole(e) /\ e[1].f = key /\ e[1].x = size /\ e \in Seq(Byte)
  BY DEF Sent, Whole

\* A sequence is a function.
LEMMA SeqFunction ==
    ASSUME NEW C, NEW s \in Seq(C)
    PROVE  s \in [1 .. Len(s) -> C]
  OBVIOUS

\* The message with an entry more.
LEMMA Newer ==
    /\ NewerMsg \in Seq(Seq(Byte)) /\ Len(NewerMsg) = 8 /\ NewerMsg[1] = News
    /\ \A i \in 2 .. 8 : NewerMsg[i] = EncodeMsg[i - 1]
  <1> DEFINE a == <<News>>
             b == EncodeMsg
  <1>1. News \in Seq(Byte)
    BY NewsSent, SentWhole
  <1>2. a \in Seq(Seq(Byte)) /\ Len(a) = 1 /\ a[1] = News
    BY <1>1
  <1>3. b \in Seq(Seq(Byte)) /\ Len(b) = 7
    <2>1. 1 \in 1 .. 7
      OBVIOUS
    <2> QED BY <2>1, EncodedMsg
  <1>4. NewerMsg = a \o b
    BY DEF NewerMsg, News
  <1>5. PICK c : c = NewerMsg
    OBVIOUS
  <1> HIDE DEF a, b
  <1>6. a \in Seq(Seq(Byte)) /\ b \in Seq(Seq(Byte)) /\ c = a \o b
    BY <1>2, <1>3, <1>4, <1>5
  <1>7. /\ c \in Seq(Seq(Byte)) /\ Len(c) = Len(a) + Len(b)
        /\ \A x \in 1 .. Len(a) : c[x] = a[x]
        /\ \A x \in 1 .. Len(b) : c[Len(a) + x] = b[x]
    BY <1>6, Behind
  <1>8. Len(c) = 8 /\ c[1] = News
    <2>1. 1 \in 1 .. Len(a)
      BY <1>2
    <2> QED BY <1>2, <1>3, <1>7, <2>1
  <1>9. ASSUME NEW i \in 2 .. 8 PROVE c[i] = b[i - 1]
    <2>1. i - 1 \in 1 .. Len(b) /\ Len(a) + (i - 1) = i
      BY <1>2, <1>3
    <2> QED BY <1>7, <2>1
  <1> QED BY <1>5, <1>7, <1>8, <1>9 DEF b

\* The message with the longer start-stop state.
LEMMA OtherVersion ==
    /\ OtherMsg \in Seq(Seq(Byte)) /\ Len(OtherMsg) = 7 /\ OtherMsg[3] = LongStst
    /\ \A i \in 1 .. 7 : i # 3 => OtherMsg[i] = EncodeMsg[i]
  <1> DEFINE b == EncodeMsg
             e == LongStst
             c == OtherMsg
  <1>1. b \in Seq(Seq(Byte)) /\ Len(b) = 7
    <2>1. 1 \in 1 .. 7
      OBVIOUS
    <2> QED BY <2>1, EncodedMsg
  <1>2. e \in Seq(Byte)
    BY LongStstSent, SentWhole
  <1>3. c = [b EXCEPT ![3] = e]
    BY DEF OtherMsg, LongStst
  <1> HIDE DEF b, e, c
  <1>4. c \in Seq(Seq(Byte)) /\ Len(c) = 7
    <2>1. b \in [1 .. 7 -> Seq(Byte)] /\ 7 \in Nat
      BY <1>1, SeqFunction
    <2>2. c \in [1 .. 7 -> Seq(Byte)]
      BY <1>2, <1>3, <2>1
    <2> QED BY <2>1, <2>2, FunctionSeq
  <1>5. 3 \in DOMAIN b /\ DOMAIN b = 1 .. 7
    BY <1>1
  <1>6. c[3] = e /\ \A i \in 1 .. 7 : i # 3 => c[i] = b[i]
    BY <1>3, <1>5
  <1> QED BY <1>4, <1>6 DEF b, e, c

\* The announcement, with or without a ping.
LEMMA Announcing ==
    ASSUME NEW ping \in BOOLEAN, NEW s, s = EncodePeerAnnouncement(ping)
    PROVE  /\ s \in Seq(Seq(Byte)) /\ Len(s) = IF ping THEN 4 ELSE 3
           /\ s[1] = Sess /\ s[2] = Pi /\ s[3] = Auca /\ (ping => s[4] = Ht)
  <1> DEFINE a == Sess
             b == Pi
             c == Auca
             d == Ht
             u == <<a, b, c>>
             q == IF ping THEN <<d>> ELSE <<>>
  <1>1. a \in Seq(Byte) /\ b \in Seq(Byte)
    BY SessSent, PiSent, SentWhole
  <1>2. c \in Seq(Byte) /\ d \in Seq(Byte)
    BY AucaShape, HtSent, SentWhole
  <1>3. s = u \o q
    BY DEF EncodePeerAnnouncement, Pi, Ht
  <1> HIDE DEF a, b, c, d
  <1>4. u \in Seq(Seq(Byte)) /\ Len(u) = 3 /\ u[1] = a /\ u[2] = b /\ u[3] = c
    BY <1>1, <1>2
  <1>5. q \in Seq(Seq(Byte)) /\ Len(q) = (IF ping THEN 1 ELSE 0) /\ (ping => q[1] = d)
    <2>1. CASE ping
      BY <1>2, <2>1
    <2>2. CASE ~ping
      BY <2>2
    <2> QED BY <2>1, <2>2
  <1> HIDE DEF u, q
  <1>6. u \in Seq(Seq(Byte)) /\ q \in Seq(Seq(Byte))
    BY <1>4, <1>5
  <1>7. /\ s \in Seq(Seq(Byte)) /\ Len(s) = Len(u) + Len(q)
        /\ \A x \in 1 .. Len(u) : s[x] = u[x]
        /\ \A x \in 1 .. Len(q) : s[Len(u) + x] = q[x]
    BY <1>3, <1>6, Behind
  <1>8. s[1] = a /\ s[2] = b /\ s[3] = c
    <2>1. 1 \in 1 .. Len(u) /\ 2 \in 1 .. Len(u) /\ 3 \in 1 .. Len(u)
      BY <1>4
    <2> QED BY <1>4, <1>7, <2>1
  <1>9. ping => s[4] = d
    <2>1. ping => 1 \in 1 .. Len(q) /\ Len(u) + 1 = 4
      BY <1>4, <1>5
    <2> QED BY <1>5, <1>7, <2>1
  <1>10. Len(s) = IF ping THEN 4 ELSE 3
    BY <1>4, <1>5, <1>7
  <1> QED BY <1>7, <1>8, <1>9, <1>10 DEF a, b, c, d

\* Every message is a sequence of whole entries.
LEMMA EntriesWhole ==
    ASSUME NEW w \in Kind
    PROVE  /\ Entries(w) \in Seq(Seq(Byte)) /\ Len(Entries(w)) \in Nat
           /\ \A i \in 1 .. Len(Entries(w)) : Whole(Entries(w)[i])
  <1> DEFINE E == Entries(w)
             G == E \in Seq(Seq(Byte)) /\ Len(E) \in Nat /\ \A i \in 1 .. Len(E) : Whole(E[i])
  <1>1. /\ EncodeMsg \in Seq(Seq(Byte)) /\ Len(EncodeMsg) = 7
        /\ \A i \in 1 .. 7 : Whole(EncodeMsg[i])
    <2>1. ASSUME NEW i \in 1 .. 7 PROVE Whole(EncodeMsg[i])
      BY EncodedMsg, SentWhole
    <2>2. 1 \in 1 .. 7
      OBVIOUS
    <2>3. EncodeMsg \in Seq(Seq(Byte)) /\ Len(EncodeMsg) = 7
      BY <2>2, EncodedMsg
    <2> QED BY <2>1, <2>3
  <1>2. Whole(Sess) /\ Whole(Pi)
    BY SessSent, PiSent, SentWhole
  <1>3. Whole(Auca) /\ Whole(Ht) /\ Whole(Chid) /\ Chid \in Seq(Byte)
    BY AucaShape, HtSent, ChidSent, SentWhole
  <1>4. Whole(News) /\ Whole(LongStst)
    BY NewsSent, LongStstSent, SentWhole
  <1>5. CASE w = "discovery"
    <2>1. E = EncodeMsg
      BY <1>5 DEF Entries
    <2> HIDE DEF E
    <2>2. E \in Seq(Seq(Byte)) /\ Len(E) = 7 /\ \A i \in 1 .. 7 : Whole(E[i])
      BY <1>1, <2>1
    <2>3. G
      BY <2>2
    <2> QED BY <2>3 DEF E
  <1>6. CASE w = "newer"
    <2>1. E = NewerMsg
      BY <1>6 DEF Entries
    <2> HIDE DEF E
    <2>2. ASSUME NEW i \in 1 .. 8 PROVE Whole(E[i])
      <3>1. CASE i = 1
        BY <1>4, <2>1, <3>1, Newer
      <3>2. CASE i # 1
        <4>1. i \in 2 .. 8 /\ i - 1 \in 1 .. 7
          BY <3>2
        <4>2. E[i] = EncodeMsg[i - 1]
          BY <2>1, <4>1, Newer
        <4> QED BY <1>1, <4>1, <4>2
      <3> QED BY <3>1, <3>2
    <2>3. E \in Seq(Seq(Byte)) /\ Len(E) = 8
      BY <2>1, Newer
    <2>4. G
      BY <2>2, <2>3
    <2> QED BY <2>4 DEF E
  <1>7. CASE w = "other"
    <2>1. E = OtherMsg
      BY <1>7 DEF Entries
    <2> HIDE DEF E
    <2>2. ASSUME NEW i \in 1 .. 7 PROVE Whole(E[i])
      <3>1. CASE i = 3
        BY <1>4, <2>1, <3>1, OtherVersion
      <3>2. CASE i # 3
        <4>1. E[i] = EncodeMsg[i]
          BY <2>1, <3>2, OtherVersion
        <4> QED BY <1>1, <4>1
      <3> QED BY <3>1, <3>2
    <2>3. E \in Seq(Seq(Byte)) /\ Len(E) = 7
      BY <2>1, OtherVersion
    <2>4. G
      BY <2>2, <2>3
    <2> QED BY <2>4 DEF E
  <1>8. CASE w = "announcement"
    <2>1. E = EncodePeerAnnouncement(FALSE)
      BY <1>8 DEF Entries
    <2> HIDE DEF E
    <2>2. E \in Seq(Seq(Byte)) /\ Len(E) = 3 /\ E[1] = Sess /\ E[2] = Pi /\ E[3] = Auca
      BY <2>1, Announcing
    <2>3. \A i \in 1 .. 3 : i = 1 \/ i = 2 \/ i = 3
      OBVIOUS
    <2>4. G
      BY <1>2, <1>3, <2>2, <2>3
    <2> QED BY <2>4 DEF E
  <1>9. CASE w = "with ping"
    <2>1. E = EncodePeerAnnouncement(TRUE)
      BY <1>9 DEF Entries
    <2> HIDE DEF E
    <2>2. /\ E \in Seq(Seq(Byte)) /\ Len(E) = 4
          /\ E[1] = Sess /\ E[2] = Pi /\ E[3] = Auca /\ E[4] = Ht
      BY <2>1, Announcing
    <2>3. \A i \in 1 .. 4 : i = 1 \/ i = 2 \/ i = 3 \/ i = 4
      OBVIOUS
    <2>4. G
      BY <1>2, <1>3, <2>2, <2>3
    <2> QED BY <2>4 DEF E
  <1> DEFINE f == Chid
  <1>10. Whole(f) /\ f \in Seq(Byte)
    BY <1>3
  <1>11. CASE w = "request"
    <2>1. E = <<f>>
      BY <1>11 DEF Entries, ChannelRequest, Chid
    <2> HIDE DEF E, f
    <2>2. E \in Seq(Seq(Byte)) /\ Len(E) = 1
      BY <1>10, <2>1
    <2>3. Whole(E[1])
      BY <1>10, <2>1
    <2>4. \A i \in 1 .. 1 : i = 1
      OBVIOUS
    <2>5. G
      BY <2>2, <2>3, <2>4
    <2> QED BY <2>5 DEF E
  <1> QED BY <1>5, <1>6, <1>7, <1>8, <1>9, <1>11 DEF Kind, Announcement

\* The channels that entry i lists.
Lists(i) == IF tlv_msg \in Announcement /\ i = 3 THEN ChannelNo ELSE {}

\* The result of the callback for an entry that it takes.
Taken(i) == Result(TRUE, Updated(Brings(i)), Lists(i))

\* Entry i, and what the receiver keeps of it.
LEMMA BringsIs ==
    ASSUME NEW i, NEW e, e = Entries(tlv_msg)[i]
    PROVE  Brings(i) = Brought(e) \ (IF tlv_msg \in Announcement THEN {"session"} ELSE {})
  BY DEF Brings, Brought

\* Only the fields count.
LEMMA UpdatedSame ==
    ASSUME NEW F, NEW G, F \cap Field = G \cap Field
    PROVE  Updated(F) = Updated(G)
  <1>1. \A f \in Field : f \in F <=> f \in G
    OBVIOUS
  <1> QED BY <1>1 DEF Updated

\* Reading none leaves them.
LEMMA UpdatedNone ==
    ASSUME NEW F, F \cap Field = {}, tlv_out = [f \in Field |-> tlv_out[f]]
    PROVE  Updated(F) = tlv_out
  <1>1. \A f \in Field : f \notin F
    OBVIOUS
  <1> QED BY <1>1 DEF Updated

\* link_on_packet's callback: entries of a discovery message, those of
\* encode_msg and others.
LEMMA DiscoveryTakes ==
    ASSUME NEW i, NEW e, e = Entries(tlv_msg)[i], NEW o \in Nat, Placed(o, e),
           tlv_out = [f \in Field |-> tlv_out[f]],
           tlv_msg \in {"discovery", "newer", "other"},
           e = News \/ \E key \in MsgKey : Sent(e, key, MsgSize(key), MsgLayout(key))
    PROVE  Callback(e[1].f, o + 8, e[1].x) = Taken(i)
  <1>1. tlv_msg \notin Announcement /\ tlv_msg # "request"
    BY DEF Announcement
  <1>2. Callback(e[1].f, o + 8, e[1].x) = HandleEntry(e[1].f, o + 8, e[1].x)
    BY <1>1 DEF Callback
  <1>3. Brings(i) = Brought(e) /\ Lists(i) = {}
    BY <1>1, BringsIs DEF Lists
  <1>4. DOMAIN tlv_out = Field
    OBVIOUS
  <1>5. CASE e = News
    <2>1. Sent(e, "news", 3, <<>>)
      BY <1>5, NewsSent
    <2>2. e[1].f = "news" /\ Brought(e) \cap Field = {}
      BY <2>1 DEF Sent
    <2>3. "news" \notin MsgKey
      BY DEF MsgKey
    <2>4. HandleEntry("news", o + 8, e[1].x) = Result(TRUE, tlv_out, {})
      BY <2>3 DEF HandleEntry
    <2>5. Updated(Brought(e)) = tlv_out
      BY <2>2, UpdatedNone
    <2> QED BY <1>2, <1>3, <2>2, <2>4, <2>5 DEF Taken
  <1>6. CASE \E key \in MsgKey : Sent(e, key, MsgSize(key), MsgLayout(key))
    <2>1. PICK key \in MsgKey : Sent(e, key, MsgSize(key), MsgLayout(key))
      BY <1>6
    <2>2. e[1].f = key /\ e[1].x = MsgSize(key)
      BY <2>1, SentWhole
    <2>3. HandleEntry(key, o + 8, MsgSize(key)) = Result(TRUE, Updated(Brought(e)), {})
      BY <1>4, <2>1, MsgHandled
    <2> QED BY <1>2, <1>3, <2>2, <2>3 DEF Taken
  <1> QED BY <1>5, <1>6

\* handle_chid_entry.
LEMMA RequestTakes ==
    ASSUME NEW i, NEW e, e = Entries(tlv_msg)[i], NEW o \in Nat, Placed(o, e),
           tlv_out = [f \in Field |-> tlv_out[f]], tlv_msg = "request", e = Chid
    PROVE  Callback(e[1].f, o + 8, e[1].x) = Taken(i)
  <1>1. tlv_msg \notin Announcement
    BY DEF Announcement
  <1>2. Sent(e, "chid", 8, [channel_id |-> At(0, 8)])
    BY ChidSent
  <1>3. e[1].f = "chid" /\ e[1].x = 8
    BY <1>2, SentWhole
  <1>4. Callback("chid", o + 8, 8) = Result(TRUE, Reads(o + 8, [channel_id |-> At(0, 8)]), {})
    BY <1>1 DEF Callback, HandleChidEntry
  <1>5. DOMAIN tlv_out = Field
    OBVIOUS
  <1>6. Reads(o + 8, [channel_id |-> At(0, 8)]) = Updated(Brought(e))
    BY <1>2, <1>5, ReadsSent
  <1>7. Brings(i) = Brought(e) /\ Lists(i) = {}
    BY <1>1, BringsIs DEF Lists
  <1> QED BY <1>3, <1>4, <1>6, <1>7 DEF Taken

\* ann_handler, entry by entry.
LEMMA AnnouncementTakes ==
    ASSUME NEW i \in 1 .. 4, NEW e, e = Entries(tlv_msg)[i], NEW o \in Nat, Placed(o, e),
           tlv_out = [f \in Field |-> tlv_out[f]], tlv_msg \in Announcement,
           i = 1 => e = Sess, i = 2 => e = Pi, i = 3 => e = Auca, i = 4 => e = Ht
    PROVE  Callback(e[1].f, o + 8, e[1].x) = Taken(i)
  <1>1. Callback(e[1].f, o + 8, e[1].x) = AnnHandler(e[1].f, o + 8, e[1].x)
    <2>1. tlv_msg # "request"
      BY DEF Announcement
    <2> QED BY <2>1 DEF Callback
  <1>2. Brings(i) = Brought(e) \ {"session"}
    BY BringsIs
  <1>3. DOMAIN tlv_out = Field
    OBVIOUS
  <1>4. CASE i = 1
    <2>1. Sent(e, "sess", MsgSize("sess"), MsgLayout("sess"))
      BY <1>4, SessSent
    <2>2. MsgSize("sess") = 8 /\ MsgLayout("sess") = [session |-> At(0, 8)]
      BY DEF MsgSize, MsgLayout
    <2>3. e[1].f = "sess" /\ e[1].x = 8
      BY <2>1, <2>2, SentWhole
    <2>4. Brought(e) \cap Field = {"session"}
      BY <2>1, <2>2 DEF Sent
    <2>5. Updated(Brings(i)) = tlv_out
      <3>1. Brings(i) \cap Field = {}
        BY <1>2, <2>4
      <3> QED BY <3>1, UpdatedNone
    <2>6. AnnHandler("sess", o + 8, 8) = Result(8 = 8, tlv_out, {})
      BY DEF AnnHandler
    <2>7. Lists(i) = {}
      BY <1>4 DEF Lists
    <2>8. Result(8 = 8, tlv_out, {}) = Result(TRUE, tlv_out, {})
      OBVIOUS
    <2> QED BY <1>1, <2>3, <2>5, <2>6, <2>7, <2>8 DEF Taken
  <1>5. CASE i = 2
    <2> DEFINE N == PeerNameLen
               l == [peer_name |-> At(4, NameKept)]
    <2>1. Sent(e, "__pi", 4 + N, l) /\ e[8 + 1].x = N /\ N \in Nat
      BY <1>5, PiSent
    <2>2. e[1].f = "__pi" /\ e[1].x = 4 + N /\ Len(e) = 8 + (4 + N)
      BY <2>1 DEF Sent
    <2>3. Buf[(o + 8) + 1].x = N
      <3>1. 8 + 1 \in 1 .. Len(e) /\ (o + 8) + 1 = o + (8 + 1)
        BY <2>1, <2>2
      <3>2. Buf[o + (8 + 1)] = e[8 + 1]
        BY <3>1 DEF Placed
      <3> QED BY <2>1, <3>1, <3>2
    <2>4. Reads(o + 8, l) = Updated(Brought(e))
      BY <1>3, <2>1, ReadsSent
    <2>5. Updated(Brought(e)) = Updated(Brings(i))
      <3>1. Brought(e) \cap Field = {"peer_name"}
        BY <2>1 DEF Sent
      <3>2. Brings(i) \cap Field = Brought(e) \cap Field
        BY <1>2, <3>1
      <3> QED BY <3>2, UpdatedSame
    <2>6. Lists(i) = {}
      BY <1>5 DEF Lists
    <2>7. AnnHandler("__pi", o + 8, 4 + N) =
             IF 4 + N < 4 \/ 4 + N < 4 + Buf[(o + 8) + 1].x THEN Result(FALSE, tlv_out, {})
             ELSE Result(TRUE, Reads(o + 8, [peer_name |->
                     At(4, Min({Buf[(o + 8) + 1].x, NameMax - 1}))]), {})
      BY DEF AnnHandler
    <2>8. ~(4 + N < 4 \/ 4 + N < 4 + N)
      BY <2>1
    <2>9. AnnHandler("__pi", o + 8, 4 + N) = Result(TRUE, Reads(o + 8, l), {})
      BY <2>3, <2>7, <2>8 DEF NameKept
    <2> HIDE DEF N, l
    <2> QED BY <1>1, <2>2, <2>4, <2>5, <2>6, <2>9 DEF Taken
  <1>6. CASE i = 3
    <2>1. Sent(e, "auca", AucaSize, <<>>) /\ AucaSize = 4 + Len(FlattenSeq(Channels))
          /\ Len(FlattenSeq(Channels)) \in Nat
      BY <1>6, AucaShape
    <2>2. e[1].f = "auca" /\ e[1].x = AucaSize
      BY <2>1, SentWhole
    <2>3. ~(AucaSize < 4)
      BY <2>1
    <2>4. Placed(o, Auca)
      BY <1>6
    <2>5. ListChannels(o + 8, AucaSize) = Result(TRUE, tlv_out, ChannelNo)
      BY <2>4, ChannelsListed
    <2>6. AnnHandler("auca", o + 8, AucaSize) = ListChannels(o + 8, AucaSize)
      BY <2>3 DEF AnnHandler
    <2>7. Updated(Brings(i)) = tlv_out
      <3>1. Brought(e) \cap Field = {}
        BY <2>1 DEF Sent
      <3>2. Brings(i) \cap Field = {}
        BY <1>2, <3>1
      <3> QED BY <3>2, UpdatedNone
    <2>8. Lists(i) = ChannelNo
      BY <1>6 DEF Lists
    <2> QED BY <1>1, <2>2, <2>5, <2>6, <2>7, <2>8 DEF Taken
  <1>7. CASE i = 4
    <2> DEFINE l == [ping_ht |-> At(0, 8)]
    <2>1. Sent(e, "__ht", 8, l)
      BY <1>7, HtSent
    <2>2. e[1].f = "__ht" /\ e[1].x = 8
      BY <2>1, SentWhole
    <2>3. Reads(o + 8, l) = Updated(Brought(e))
      BY <1>3, <2>1, ReadsSent
    <2>4. Updated(Brought(e)) = Updated(Brings(i))
      <3>1. Brought(e) \cap Field = {"ping_ht"}
        BY <2>1 DEF Sent
      <3>2. Brings(i) \cap Field = Brought(e) \cap Field
        BY <1>2, <3>1
      <3> QED BY <3>2, UpdatedSame
    <2>5. Lists(i) = {}
      BY <1>7 DEF Lists
    <2>6. AnnHandler("__ht", o + 8, 8) = Result(TRUE, Reads(o + 8, l), {})
      BY DEF AnnHandler
    <2> HIDE DEF l
    <2> QED BY <1>1, <2>2, <2>3, <2>4, <2>5, <2>6 DEF Taken
  <1> QED BY <1>4, <1>5, <1>6, <1>7

\* Every receiver takes every entry, except the one of another version that
\* is too long,
LEMMA EntryTaken ==
    ASSUME tlv_msg \in Kind, NEW i \in 1 .. Len(Entries(tlv_msg)),
           ~(tlv_msg = "other" /\ i = 3), NEW o \in Nat,
           NEW e, e = Entries(tlv_msg)[i], Placed(o, e), tlv_out = [f \in Field |-> tlv_out[f]]
    PROVE  Callback(e[1].f, o + 8, e[1].x) = Taken(i)
  <1> DEFINE E == Entries(tlv_msg)
             Encoded(x) == \E key \in MsgKey : Sent(x, key, MsgSize(key), MsgLayout(key))
  <1>1. \A j \in 1 .. 7 : Encoded(EncodeMsg[j])
    BY EncodedMsg
  <1>2. Len(EncodeMsg) = 7
    <2>1. 1 \in 1 .. 7
      OBVIOUS
    <2> QED BY <2>1, EncodedMsg
  <1>3. CASE tlv_msg = "discovery"
    <2>1. E = EncodeMsg
      BY <1>3 DEF Entries
    <2>2. Encoded(e)
      BY <1>1, <1>2, <2>1
    <2> QED BY <1>3, <2>2, DiscoveryTakes
  <1>4. CASE tlv_msg = "newer"
    <2>1. E = NewerMsg
      BY <1>4 DEF Entries
    <2>2. i \in 1 .. 8
      BY <2>1, Newer
    <2>3. e = News \/ Encoded(e)
      <3>1. CASE i = 1
        BY <2>1, <3>1, Newer
      <3>2. CASE i # 1
        <4>1. i \in 2 .. 8 /\ i - 1 \in 1 .. 7
          BY <2>2, <3>2
        <4>2. e = EncodeMsg[i - 1]
          BY <2>1, <4>1, Newer
        <4> QED BY <1>1, <4>1, <4>2
      <3> QED BY <3>1, <3>2
    <2> QED BY <1>4, <2>3, DiscoveryTakes
  <1>5. CASE tlv_msg = "other"
    <2>1. E = OtherMsg
      BY <1>5 DEF Entries
    <2>2. i \in 1 .. 7 /\ i # 3
      BY <1>5, <2>1, OtherVersion
    <2>3. e = EncodeMsg[i]
      BY <2>1, <2>2, OtherVersion
    <2>4. Encoded(e)
      BY <1>1, <2>2, <2>3
    <2> QED BY <1>5, <2>4, DiscoveryTakes
  <1>6. CASE tlv_msg = "announcement"
    <2>1. E = EncodePeerAnnouncement(FALSE) /\ tlv_msg \in Announcement
      BY <1>6 DEF Entries, Announcement
    <2> HIDE DEF E
    <2>2. Len(E) = 3 /\ E[1] = Sess /\ E[2] = Pi /\ E[3] = Auca
      BY <2>1, Announcing
    <2>3. i \in 1 .. 4 /\ i # 4 /\ e = E[i]
      BY <2>2 DEF E
    <2>4. (i = 1 => e = Sess) /\ (i = 2 => e = Pi) /\ (i = 3 => e = Auca) /\ (i = 4 => e = Ht)
      BY <2>2, <2>3
    <2> QED BY <2>1, <2>3, <2>4, AnnouncementTakes
  <1>7. CASE tlv_msg = "with ping"
    <2>1. E = EncodePeerAnnouncement(TRUE) /\ tlv_msg \in Announcement
      BY <1>7 DEF Entries, Announcement
    <2> HIDE DEF E
    <2>2. Len(E) = 4 /\ E[1] = Sess /\ E[2] = Pi /\ E[3] = Auca /\ E[4] = Ht
      BY <2>1, Announcing
    <2>3. i \in 1 .. 4 /\ e = E[i]
      BY <2>2 DEF E
    <2>4. (i = 1 => e = Sess) /\ (i = 2 => e = Pi) /\ (i = 3 => e = Auca) /\ (i = 4 => e = Ht)
      BY <2>2, <2>3
    <2> QED BY <2>1, <2>3, <2>4, AnnouncementTakes
  <1>8. CASE tlv_msg = "request"
    <2>1. E = <<Chid>>
      BY <1>8 DEF Entries, ChannelRequest, Chid
    <2>2. i = 1 /\ e = Chid
      BY <2>1
    <2> QED BY <1>8, <2>2, RequestTakes
  <1> QED BY <1>3, <1>4, <1>5, <1>6, <1>7, <1>8 DEF Kind, Announcement

\* which it refuses.
LEMMA EntryRefused ==
    ASSUME tlv_msg = "other", NEW o \in Nat, NEW e, e = Entries(tlv_msg)[3]
    PROVE  Callback(e[1].f, o + 8, e[1].x) = Result(FALSE, tlv_out, {})
  <1>1. e = LongStst
    BY OtherVersion DEF Entries
  <1>2. e[1].f = "stst" /\ e[1].x = 18
    BY <1>1, LongStstSent, SentWhole
  <1>3. "stst" \in MsgKey /\ 18 # MsgSize("stst")
    BY DEF MsgKey, MsgSize
  <1>4. tlv_msg \notin Announcement /\ tlv_msg # "request"
    BY DEF Announcement
  <1> QED BY <1>2, <1>3, <1>4 DEF Callback, HandleEntry

\* The bytes of the first k entries.
Ends(k) == Len(Joined(Entries(tlv_msg), k))

\* The fields and the channels of the first k entries.
Got(k) == [f \in Field |-> IF \E i \in 1 .. k : f \in Brings(i) THEN "new" ELSE "old"]
Listed(k) == IF tlv_msg \in Announcement /\ 3 <= k THEN ChannelNo ELSE {}

\* k entries are done: p is behind them, and the receiver holds what they
\* brought.
Walked(k) ==
    /\ k \in 0 .. Len(Entries(tlv_msg))
    /\ tlv_pos = Ends(k) /\ tlv_pos <= tlv_len
    /\ tlv_msg = "other" => k < 3
    /\ tlv_out = Got(k) /\ tlv_listed = Listed(k)

\* The inductive invariant of the walk.
TlvInv ==
    /\ tlv_msg \in Kind /\ tlv_len \in 0 .. Len(Buf)
    /\ tlv_ret \in {"none", "walking", "0", "-1"}
    /\ tlv_ret = "none" => tlv_pos = 0 /\ tlv_out = [f \in Field |-> "old"] /\ tlv_listed = {}
    /\ tlv_ret = "walking" => \E k \in Nat : Walked(k)
    /\ DecodedAsSent

\* Nothing is before the first entry, the whole body before the end.
LEMMA EndsShape ==
    ASSUME tlv_msg \in Kind
    PROVE  /\ Len(Entries(tlv_msg)) \in Nat /\ Ends(0) = 0 /\ Ends(Len(Entries(tlv_msg))) = Len(Buf)
           /\ Len(Buf) \in Nat
           /\ \A k \in 0 .. Len(Entries(tlv_msg)) : Ends(k) \in Nat
           /\ \A k, j \in 0 .. Len(Entries(tlv_msg)) : k <= j => Ends(k) <= Ends(j)
  <1> DEFINE s == Entries(tlv_msg)
  <1>1. s \in Seq(Seq(Byte)) /\ Len(s) \in Nat
    BY EntriesWhole
  <1>2. Buf = FlattenSeq(s)
    BY DEF Buf, BodyOf
  <1> HIDE DEF s
  <1>3. FlattenSeq(s) = Joined(s, Len(s)) /\ Len(FlattenSeq(s)) \in Nat
    BY <1>1, FlattenType
  <1>4. Len(Joined(s, 0)) = 0
    <2>1. SubSeq(s, 1, 0) = <<>>
      BY <1>1
    <2>2. Joined(s, 0) = <<>>
      BY <2>1 DEF Joined, FlattenSeq
    <2> QED BY <2>2
  <1>5. ASSUME NEW k \in 0 .. Len(s) PROVE Len(Joined(s, k)) \in Nat
    BY <1>1, JoinedType
  <1>6. ASSUME NEW k \in 0 .. Len(s), NEW j \in 0 .. Len(s), k <= j
        PROVE  Len(Joined(s, k)) <= Len(Joined(s, j))
    <2>1. j \in k .. Len(s)
      BY <1>1, <1>6
    <2> QED BY <1>1, <2>1, JoinedGrows
  <1> QED BY <1>1, <1>2, <1>3, <1>4, <1>5, <1>6 DEF Ends, s

\* The entry behind k others is at its place, as long as its header says.
LEMMA NextEntry ==
    ASSUME tlv_msg \in Kind, NEW k \in 0 .. Len(Entries(tlv_msg)), k # Len(Entries(tlv_msg)),
           NEW e, e = Entries(tlv_msg)[k + 1]
    PROVE  /\ k + 1 \in 1 .. Len(Entries(tlv_msg)) /\ Ends(k) \in Nat
           /\ Placed(Ends(k), e) /\ Whole(e)
           /\ Ends(k + 1) = Ends(k) + 8 + e[1].x /\ e[1].x \in Nat
           /\ Buf[Ends(k) + 1].f = e[1].f /\ Buf[Ends(k) + 1].x = e[1].x
  <1> DEFINE s == Entries(tlv_msg)
             n == k + 1
             a == Len(Joined(s, n - 1))
  <1>1. s \in Seq(Seq(Byte)) /\ Len(s) \in Nat /\ \A j \in 1 .. Len(s) : Whole(s[j])
    BY EntriesWhole
  <1>2. Buf = FlattenSeq(s)
    BY DEF Buf, BodyOf
  <1>3. n \in 1 .. Len(s) /\ n - 1 = k
    BY <1>1
  <1>4. e = s[n]
    OBVIOUS
  <1> HIDE DEF s, n
  <1>5. /\ a \in Nat /\ Len(Joined(s, n)) = a + Len(s[n])
        /\ \A x \in 1 .. Len(s[n]) : FlattenSeq(s)[a + x] = s[n][x]
    BY <1>1, <1>3, FlattenPlaces
  <1>6. Whole(e) /\ e[1].x \in Nat /\ Len(e) = 8 + e[1].x
    BY <1>1, <1>3, <1>4 DEF Whole
  <1>7. Ends(k) = a /\ Ends(n) = Len(Joined(s, n))
    BY <1>3 DEF Ends, s
  <1> HIDE DEF a
  <1>8. Ends(n) = Ends(k) + 8 + e[1].x /\ Ends(k) \in Nat
    <2> DEFINE y == e[1].x
               z == Len(e)
               u == Len(Joined(s, n))
    <2>1. y \in Nat /\ z = 8 + y
      BY <1>6
    <2>2. a \in Nat /\ u = a + z
      BY <1>4, <1>5
    <2> HIDE DEF y, z, u
    <2>3. u = a + 8 + y
      BY <2>1, <2>2
    <2> QED BY <1>5, <1>7, <2>3 DEF y, u
  <1>9. \A x \in 1 .. Len(e) : Buf[Ends(k) + x] = e[x]
    BY <1>2, <1>4, <1>5, <1>7
  <1>10. Buf[Ends(k) + 1] = e[1]
    <2>1. 1 \in 1 .. Len(e)
      BY <1>6
    <2> QED BY <1>9, <2>1
  <1>11. Placed(Ends(k), e)
    BY <1>9 DEF Placed
  <1> QED BY <1>3, <1>6, <1>8, <1>10, <1>11 DEF n, s

\* Where the walk ends, the entries that arrived are those that are done.
LEMMA ArrivedIs ==
    ASSUME tlv_msg \in Kind, NEW k \in Nat, Walked(k), tlv_len \in Nat,
           \/ k = Len(Entries(tlv_msg))
           \/ Ends(k + 1) > tlv_len
           \/ tlv_msg = "other" /\ k = 2
    PROVE  Arrived = 1 .. k
  <1> DEFINE n == Len(Entries(tlv_msg))
  <1>1. /\ n \in Nat /\ \A j \in 0 .. n : Ends(j) \in Nat
        /\ \A i, j \in 0 .. n : i <= j => Ends(i) <= Ends(j)
    BY EndsShape
  <1>2. k \in 0 .. n /\ Ends(k) <= tlv_len /\ (tlv_msg = "other" => k < 3)
    BY DEF Walked
  <1>3. DOMAIN Entries(tlv_msg) = 1 .. n
    <2>1. Entries(tlv_msg) \in Seq(Seq(Byte))
      BY EntriesWhole
    <2> QED BY <2>1
  <1>4. Arrived = {i \in 1 .. n : Ends(i) <= tlv_len /\ (tlv_msg = "other" => i < 3)}
    BY <1>3 DEF Arrived, Ends, Joined
  <1> HIDE DEF n
  <1>5. ASSUME NEW i \in 1 .. k PROVE i \in Arrived
    <2>1. i \in 1 .. n /\ i \in 0 .. n /\ i <= k
      BY <1>1, <1>2
    <2>2. Ends(i) <= Ends(k) /\ Ends(i) \in Nat /\ Ends(k) \in Nat
      BY <1>1, <1>2, <2>1
    <2>3. Ends(i) <= tlv_len
      BY <1>2, <2>2
    <2> QED BY <1>2, <1>4, <2>1, <2>3
  <1>6. ASSUME NEW i \in Arrived PROVE i \in 1 .. k
    <2>1. i \in 1 .. n /\ Ends(i) <= tlv_len /\ (tlv_msg = "other" => i < 3)
      BY <1>4
    <2> SUFFICES ASSUME ~(i <= k) PROVE FALSE
      BY <2>1
    <2>2. k + 1 \in 0 .. n /\ i \in 0 .. n /\ k + 1 <= i
      BY <1>1, <1>2, <2>1
    <2>3. Ends(k + 1) <= Ends(i) /\ Ends(k + 1) \in Nat /\ Ends(i) \in Nat
      BY <1>1, <2>2
    <2>4. ~(Ends(k + 1) > tlv_len)
      BY <2>1, <2>3
    <2>5. k # n
      BY <1>1, <2>2
    <2>6. ~(tlv_msg = "other" /\ k = 2)
      BY <1>1, <2>1, <2>2
    <2> QED BY <2>4, <2>5, <2>6 DEF n
  <1> QED BY <1>5, <1>6

\* Then the receiver holds what it should.
LEMMA Outcome ==
    ASSUME NEW k \in Nat, Walked(k), Arrived = 1 .. k
    PROVE  /\ tlv_out = [f \in Field |-> IF \E i \in Arrived : f \in Brings(i)
                                         THEN "new" ELSE "old"]
           /\ tlv_listed = IF tlv_msg \in Announcement /\ 3 \in Arrived THEN ChannelNo ELSE {}
           /\ tlv_pos = tlv_len =>
                tlv_len \in {Len(FlattenSeq(SubSeq(Entries(tlv_msg), 1, i))) :
                                i \in Arrived \cup {0}}
  <1>1. tlv_out = Got(k) /\ tlv_listed = Listed(k) /\ tlv_pos = Ends(k)
    BY DEF Walked
  <1>2. 3 \in 1 .. k <=> 3 <= k
    OBVIOUS
  <1>3. k \in (1 .. k) \cup {0}
    OBVIOUS
  <1>4. tlv_out = [f \in Field |-> IF \E i \in Arrived : f \in Brings(i) THEN "new" ELSE "old"]
    BY <1>1 DEF Got
  <1>5. tlv_listed = IF tlv_msg \in Announcement /\ 3 \in Arrived THEN ChannelNo ELSE {}
    BY <1>1, <1>2 DEF Listed
  <1>6. Ends(k) = Len(FlattenSeq(SubSeq(Entries(tlv_msg), 1, k)))
    BY DEF Ends, Joined
  <1> QED BY <1>1, <1>3, <1>4, <1>5, <1>6

\* A step that ends the walk and leaves the receiver as it is.
LEMMA WalkEnds ==
    ASSUME TlvInv, NEW k \in Nat, Walked(k), Arrived = 1 .. k,
           tlv_ret' \in {"0", "-1"}, tlv_ret' = "0" => tlv_pos = tlv_len,
           UNCHANGED <<tlv_msg, tlv_len, tlv_pos, tlv_out, tlv_listed>>
    PROVE  TlvInv'
  <1>1. /\ tlv_out = [f \in Field |-> IF \E i \in Arrived : f \in Brings(i)
                                      THEN "new" ELSE "old"]
        /\ tlv_listed = IF tlv_msg \in Announcement /\ 3 \in Arrived THEN ChannelNo ELSE {}
        /\ tlv_pos = tlv_len =>
             tlv_len \in {Len(FlattenSeq(SubSeq(Entries(tlv_msg), 1, i))) :
                             i \in Arrived \cup {0}}
    BY Outcome
  <1>2. Arrived' = Arrived
    BY DEF Arrived
  <1>3. \A i : Brings(i)' = Brings(i)
    BY DEF Brings
  <1>4. Buf' = Buf
    BY DEF Buf
  <1>5. DecodedAsSent'
    BY <1>1, <1>2, <1>3 DEF DecodedAsSent
  <1>6. tlv_msg' \in Kind /\ tlv_len' \in 0 .. Len(Buf')
    BY <1>4 DEF TlvInv
  <1>7. tlv_ret' \in {"none", "walking", "0", "-1"} /\ tlv_ret' # "none" /\ tlv_ret' # "walking"
    OBVIOUS
  <1> QED BY <1>5, <1>6, <1>7 DEF TlvInv

\* At the start.
LEMMA TlvInitInv == TlvInit => TlvInv
  <1> SUFFICES ASSUME TlvInit PROVE TlvInv
    OBVIOUS
  <1>1. tlv_msg \in Kind
    BY DEF TlvInit, Kind
  <1>2. Len(Buf) \in Nat
    BY <1>1, EndsShape
  <1>3. tlv_len \in 0 .. Len(Buf)
    BY <1>2 DEF TlvInit
  <1>4. DecodedAsSent
    BY DEF DecodedAsSent, TlvInit
  <1> QED BY <1>1, <1>3, <1>4 DEF TlvInit, TlvInv

\* A message arrives.
LEMMA TransferKeeps == TlvInv /\ Transfer => TlvInv'
  <1> SUFFICES ASSUME TlvInv, Transfer PROVE TlvInv'
    OBVIOUS
  <1>1. tlv_pos' = 0 /\ tlv_out' = [f \in Field |-> "old"] /\ tlv_listed' = {}
    BY DEF TlvInv, Transfer
  <1>2. tlv_ret' = "walking" /\ tlv_msg' \in Kind /\ tlv_len' \in 0 .. Len(Buf')
    BY DEF Transfer, Buf
  <1>3. DecodedAsSent'
    BY <1>2 DEF DecodedAsSent
  <1>4. Len(Entries(tlv_msg')) \in Nat /\ Len(Joined(Entries(tlv_msg'), 0)) = 0 /\ Len(Buf') \in Nat
    <2>1. ASSUME NEW w \in Kind
          PROVE  /\ Len(Entries(w)) \in Nat /\ Len(Joined(Entries(w), 0)) = 0
                 /\ Len(BodyOf(w)) \in Nat
      <3>1. Entries(w) \in Seq(Seq(Byte)) /\ Len(Entries(w)) \in Nat
        BY EntriesWhole
      <3>2. SubSeq(Entries(w), 1, 0) = <<>>
        BY <3>1
      <3>3. Joined(Entries(w), 0) = <<>>
        BY <3>2 DEF Joined, FlattenSeq
      <3>4. Len(BodyOf(w)) \in Nat
        BY <3>1, FlattenType DEF BodyOf
      <3> QED BY <3>1, <3>3, <3>4
    <2> QED BY <1>2, <2>1 DEF Buf
  <1>5. 0 \in 0 .. Len(Entries(tlv_msg')) /\ tlv_pos' = Ends(0)' /\ tlv_pos' <= tlv_len'
    BY <1>1, <1>2, <1>4 DEF Ends
  <1>6. tlv_out' = Got(0)'
    <2>1. 1 .. 0 = {}
      OBVIOUS
    <2> QED BY <1>1, <2>1 DEF Got
  <1>7. tlv_listed' = Listed(0)'
    BY <1>1 DEF Listed
  <1>8. Walked(0)'
    BY <1>5, <1>6, <1>7 DEF Walked
  <1> QED BY <1>2, <1>3, <1>8 DEF TlvInv

\* Too little for a header is left.
LEMMA WalkEndKeeps == TlvInv /\ WalkEnd => TlvInv'
  <1> SUFFICES ASSUME TlvInv, WalkEnd PROVE TlvInv'
    OBVIOUS
  <1>1. PICK k \in Nat : Walked(k)
    BY DEF TlvInv, WalkEnd
  <1>2. tlv_msg \in Kind /\ tlv_len \in 0 .. Len(Buf)
    BY DEF TlvInv
  <1>3. tlv_len \in Nat
    BY <1>2, EndsShape
  <1>4. k \in 0 .. Len(Entries(tlv_msg)) /\ tlv_pos = Ends(k)
    BY <1>1 DEF Walked
  <1>5. tlv_pos + 8 > tlv_len
    BY DEF WalkEnd
  <1>6. k = Len(Entries(tlv_msg)) \/ Ends(k + 1) > tlv_len
    <2> SUFFICES ASSUME k # Len(Entries(tlv_msg)) PROVE Ends(k + 1) > tlv_len
      OBVIOUS
    <2>1. PICK e : e = Entries(tlv_msg)[k + 1]
      OBVIOUS
    <2>2. Ends(k + 1) = Ends(k) + 8 + e[1].x /\ e[1].x \in Nat /\ Ends(k) \in Nat
      BY <1>2, <1>4, <2>1, NextEntry
    <2> QED BY <1>3, <1>4, <1>5, <2>2
  <1>7. Arrived = 1 .. k
    BY <1>1, <1>2, <1>3, <1>6, ArrivedIs
  <1>8. /\ tlv_ret' \in {"0", "-1"} /\ (tlv_ret' = "0" => tlv_pos = tlv_len)
        /\ UNCHANGED <<tlv_msg, tlv_len, tlv_pos, tlv_out, tlv_listed>>
    BY DEF WalkEnd
  <1> QED BY <1>1, <1>7, <1>8, WalkEnds

\* There is another entry when a header is left, and p is at its beginning.
LEMMA AtEntry ==
    ASSUME TlvInv, tlv_ret = "walking", tlv_pos + 8 <= tlv_len
    PROVE  \E k \in Nat, e \in Seq(Byte) :
              /\ Walked(k) /\ k \in 0 .. Len(Entries(tlv_msg)) /\ k # Len(Entries(tlv_msg))
              /\ tlv_pos = Ends(k) /\ tlv_pos \in Nat
              /\ e = Entries(tlv_msg)[k + 1] /\ Key = e[1].f /\ Size = e[1].x
              /\ Placed(tlv_pos, e) /\ Size \in Nat /\ Ends(k + 1) = (tlv_pos + 8) + Size
              /\ k + 1 \in 1 .. Len(Entries(tlv_msg))
  <1>1. PICK k \in Nat : Walked(k)
    BY DEF TlvInv
  <1>2. tlv_msg \in Kind /\ tlv_len \in 0 .. Len(Buf)
    BY DEF TlvInv
  <1>3. k \in 0 .. Len(Entries(tlv_msg)) /\ tlv_pos = Ends(k)
    BY <1>1 DEF Walked
  <1>4. Ends(Len(Entries(tlv_msg))) = Len(Buf) /\ Len(Buf) \in Nat
    BY <1>2, EndsShape
  <1>5. k # Len(Entries(tlv_msg))
    BY <1>2, <1>3, <1>4
  <1>6. PICK e : e = Entries(tlv_msg)[k + 1]
    OBVIOUS
  <1>7. /\ k + 1 \in 1 .. Len(Entries(tlv_msg)) /\ Ends(k) \in Nat
        /\ Placed(Ends(k), e) /\ Whole(e)
        /\ Ends(k + 1) = Ends(k) + 8 + e[1].x /\ e[1].x \in Nat
        /\ Buf[Ends(k) + 1].f = e[1].f /\ Buf[Ends(k) + 1].x = e[1].x
    BY <1>2, <1>3, <1>5, <1>6, NextEntry
  <1>8. Key = e[1].f /\ Size = e[1].x
    BY <1>3, <1>7 DEF Key, Size
  <1>9. e \in Seq(Byte)
    BY <1>7 DEF Whole
  <1> QED BY <1>1, <1>3, <1>5, <1>6, <1>7, <1>8, <1>9

\* No address of an entry wraps, so the comparison of addresses is one of
\* lengths.
LEMMA ValueEndIs ==
    ASSUME TlvInv, tlv_ret = "walking", tlv_pos + 8 <= tlv_len
    PROVE  /\ ValueEnd - BodyAt = tlv_pos + 8 + Size
           /\ Overrun <=> tlv_pos + 8 + Size > tlv_len
  <1>1. PICK k \in Nat, e \in Seq(Byte) :
           /\ tlv_pos \in Nat /\ Size \in Nat /\ Ends(k + 1) = (tlv_pos + 8) + Size
           /\ k + 1 \in 1 .. Len(Entries(tlv_msg))
    BY AtEntry
  <1>2. tlv_msg \in Kind /\ tlv_len \in Nat
    BY EndsShape DEF TlvInv
  <1>3. Ends(k + 1) <= Len(Buf) /\ Len(Buf) \in Nat
    BY <1>1, <1>2, EndsShape
  <1>4. BodyAt \in Nat /\ AddrSpace \in Nat /\ BodyAt + Len(Buf) < AddrSpace
    BY <1>2, AddressAssumption DEF Buf
  <1> DEFINE a == BodyAt + tlv_pos + 8 + Size
  <1>5. a \in Nat /\ a < AddrSpace
    BY <1>1, <1>3, <1>4
  <1> HIDE DEF a
  <1>6. a % AddrSpace = a
    BY <1>4, <1>5
  <1>7. ValueEnd = BodyAt + tlv_pos + 8 + Size
    BY <1>6 DEF a, ValueEnd
  <1> QED BY <1>1, <1>2, <1>4, <1>7 DEF Overrun

\* Its value did not arrive.
LEMMA WalkOverrunKeeps == TlvInv /\ WalkOverrun => TlvInv'
  <1> SUFFICES ASSUME TlvInv, WalkOverrun PROVE TlvInv'
    OBVIOUS
  <1>1. tlv_ret = "walking" /\ tlv_pos + 8 <= tlv_len /\ tlv_pos + 8 + Size > tlv_len
    BY ValueEndIs DEF WalkOverrun
  <1>2. PICK k \in Nat, e \in Seq(Byte) :
           /\ Walked(k) /\ tlv_pos \in Nat /\ Size \in Nat
           /\ Ends(k + 1) = (tlv_pos + 8) + Size
    BY <1>1, AtEntry
  <1>3. tlv_msg \in Kind /\ tlv_len \in Nat
    BY EndsShape DEF TlvInv
  <1>4. Ends(k + 1) > tlv_len
    BY <1>1, <1>2
  <1>5. Arrived = 1 .. k
    BY <1>2, <1>3, <1>4, ArrivedIs
  <1>6. /\ tlv_ret' \in {"0", "-1"} /\ (tlv_ret' = "0" => tlv_pos = tlv_len)
        /\ UNCHANGED <<tlv_msg, tlv_len, tlv_pos, tlv_out, tlv_listed>>
    BY DEF WalkOverrun
  <1> QED BY <1>2, <1>5, <1>6, WalkEnds

\* It is handed to the callback.
LEMMA WalkEntryKeeps == TlvInv /\ WalkEntry => TlvInv'
  <1> SUFFICES ASSUME TlvInv, WalkEntry PROVE TlvInv'
    OBVIOUS
  <1>1. tlv_ret = "walking" /\ tlv_pos + 8 <= tlv_len /\ ~(tlv_pos + 8 + Size > tlv_len)
    BY ValueEndIs DEF WalkEntry
  <1>2. PICK k \in Nat, e \in Seq(Byte) :
              /\ Walked(k) /\ k \in 0 .. Len(Entries(tlv_msg)) /\ k # Len(Entries(tlv_msg))
              /\ tlv_pos = Ends(k) /\ tlv_pos \in Nat
              /\ e = Entries(tlv_msg)[k + 1] /\ Key = e[1].f /\ Size = e[1].x
              /\ Placed(tlv_pos, e) /\ Size \in Nat /\ Ends(k + 1) = (tlv_pos + 8) + Size
              /\ k + 1 \in 1 .. Len(Entries(tlv_msg))
    BY <1>1, AtEntry
  <1>3. tlv_msg \in Kind /\ tlv_len \in Nat /\ tlv_len \in 0 .. Len(Buf)
    BY EndsShape DEF TlvInv
  <1>4. UNCHANGED <<tlv_msg, tlv_len>>
    BY DEF WalkEntry
  <1>5. Buf' = Buf
    BY <1>4 DEF Buf
  <1> DEFINE r == Callback(Key, tlv_pos + 8, Size)
  <1>6. /\ tlv_out' = r.fields
        /\ tlv_listed' = tlv_listed \cup r.chans
        /\ IF r.ok THEN tlv_pos' = tlv_pos + 8 + Size /\ tlv_ret' = tlv_ret
           ELSE tlv_ret' = "-1" /\ tlv_pos' = tlv_pos
    BY <1>1, ValueEndIs DEF WalkEntry
  <1> HIDE DEF r
  <1>7. tlv_out = Got(k) /\ tlv_listed = Listed(k) /\ (tlv_msg = "other" => k < 3)
    BY <1>2 DEF Walked
  <1>8. CASE tlv_msg = "other" /\ k + 1 = 3
    <2>1. e = Entries(tlv_msg)[3] /\ k = 2
      BY <1>2, <1>8
    <2>2. r = Result(FALSE, tlv_out, {})
      BY <1>2, <1>8, <2>1, EntryRefused DEF r
    <2>3. r.fields = tlv_out /\ r.chans = {}
      BY <2>2 DEF Result
    <2>4. r.ok = FALSE
      BY <2>2 DEF Result
    <2>5. tlv_ret' = "-1" /\ UNCHANGED <<tlv_msg, tlv_len, tlv_pos, tlv_out, tlv_listed>>
      BY <1>4, <1>6, <2>3, <2>4
    <2>6. Arrived = 1 .. k
      BY <1>2, <1>3, <1>8, <2>1, ArrivedIs
    <2> QED BY <1>2, <2>5, <2>6, WalkEnds
  <1>9. CASE ~(tlv_msg = "other" /\ k + 1 = 3)
    <2> DEFINE n == k + 1
    <2>1. tlv_out = [f \in Field |-> tlv_out[f]]
      BY <1>7 DEF Got
    <2>2. r = Taken(n)
      BY <1>2, <1>3, <1>9, <2>1, EntryTaken DEF r
    <2>3. r.fields = Updated(Brings(n)) /\ r.chans = Lists(n)
      BY <2>2 DEF Taken, Result
    <2>4. r.ok = TRUE
      BY <2>2 DEF Taken, Result
    <2>5. tlv_pos' = (tlv_pos + 8) + Size /\ tlv_ret' = "walking"
      BY <1>1, <1>6, <2>4
    <2>6. Updated(Brings(n)) = Got(n)
      <3>1. ASSUME NEW f \in Field
            PROVE  Updated(Brings(n))[f] =
                      IF \E i \in 1 .. n : f \in Brings(i) THEN "new" ELSE "old"
        <4>1. 1 .. n = (1 .. k) \cup {n}
          OBVIOUS
        <4>2. tlv_out[f] = IF \E i \in 1 .. k : f \in Brings(i) THEN "new" ELSE "old"
          BY <1>7 DEF Got
        <4>3. Updated(Brings(n))[f] = IF f \in Brings(n) THEN "new" ELSE tlv_out[f]
          BY DEF Updated
        <4> HIDE DEF n
        <4> QED BY <4>1, <4>2, <4>3
      <3>2. Updated(Brings(n)) = [f \in Field |-> Updated(Brings(n))[f]]
        BY DEF Updated
      <3> QED BY <3>1, <3>2 DEF Got
    <2>7. tlv_listed \cup Lists(n) = Listed(n)
      <3>1. 3 <= n <=> 3 <= k \/ n = 3
        OBVIOUS
      <3> HIDE DEF n
      <3> QED BY <1>7, <3>1 DEF Lists, Listed
    <2>8. Got(n)' = Got(n) /\ Listed(n)' = Listed(n) /\ Ends(n)' = Ends(n)
      <3> HIDE DEF n
      <3>1. \A i : Brings(i)' = Brings(i)
        BY <1>4 DEF Brings
      <3>2. Got(n)' = Got(n)
        BY <3>1 DEF Got
      <3> QED BY <1>4, <3>2 DEF Listed, Ends
    <2>9. n \in Nat /\ n \in 0 .. Len(Entries(tlv_msg)) /\ (tlv_msg = "other" => n < 3)
      BY <1>2, <1>7, <1>9
    <2>10. tlv_pos' = Ends(n) /\ tlv_pos' <= tlv_len
      BY <1>1, <1>2, <1>3, <2>5
    <2> HIDE DEF n
    <2>11. Walked(n)'
      BY <1>4, <1>6, <2>3, <2>6, <2>7, <2>8, <2>9, <2>10 DEF Walked
    <2>12. DecodedAsSent'
      BY <2>5 DEF DecodedAsSent
    <2> QED BY <1>3, <1>4, <1>5, <2>5, <2>9, <2>11, <2>12 DEF TlvInv
  <1> QED BY <1>8, <1>9

\* No step.
LEMMA TlvStutterKeeps == TlvInv /\ UNCHANGED tlvVars => TlvInv'
  <1> SUFFICES ASSUME TlvInv, UNCHANGED tlvVars PROVE TlvInv'
    OBVIOUS
  <1>1. UNCHANGED <<tlv_msg, tlv_len, tlv_pos, tlv_out, tlv_listed, tlv_ret>>
    BY DEF tlvVars
  <1>2. Arrived' = Arrived /\ Buf' = Buf
    BY <1>1 DEF Arrived, Buf
  <1>3. \A i : Brings(i)' = Brings(i)
    BY <1>1 DEF Brings
  <1>4. DecodedAsSent'
    BY <1>1, <1>2, <1>3 DEF DecodedAsSent, TlvInv
  <1>5. ASSUME NEW k \in Nat, Walked(k) PROVE Walked(k)'
    <2>1. Got(k)' = Got(k) /\ Listed(k)' = Listed(k) /\ Ends(k)' = Ends(k)
      BY <1>1, <1>3 DEF Got, Listed, Ends
    <2> QED BY <1>1, <1>5, <2>1 DEF Walked
  <1> QED BY <1>1, <1>2, <1>4, <1>5 DEF TlvInv

\* tlv.c:34-46, link.c:177-223, link_audio.c:300-369: for every list of
\* channels and names of every length, however much of a message arrives,
\* the receiver ends with exactly the fields and channels of the entries that
\* arrived whole and that it knows, none of them torn.
THEOREM DecodingIsExact == TlvSpec => []DecodedAsSent
  <1>1. TlvInv /\ [TlvNext]_tlvVars => TlvInv'
    BY TransferKeeps, WalkEndKeeps, WalkOverrunKeeps, WalkEntryKeeps, TlvStutterKeeps
       DEF TlvNext
  <1>2. TlvInv => DecodedAsSent
    BY DEF TlvInv
  <1> QED BY TlvInitInv, <1>1, <1>2, PTL DEF TlvSpec

=============================================================================
