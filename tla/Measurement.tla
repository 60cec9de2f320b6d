---------------------------- MODULE Measurement ----------------------------
(***************************************************************************)
(* The ping/pong measurement of firmware/measurement.c against the         *)
(* responder of firmware/measurement_responder.c, over UDP that may lose,  *)
(* delay, reorder and duplicate datagrams.                                 *)
(*                                                                         *)
(* The measurer's host time is now.  The ghost time of session s is        *)
(* now + Offset[s]: Offset[s] is the intercept a measurement of s should   *)
(* find.  A sample is a record: v is the value the code stores, kind and   *)
(* span are history (which formula produced it, and the time between the   *)
(* two instants it averages), and so is the field of of a datagram: the    *)
(* session that was being measured when the ping was sent.                 *)
(***************************************************************************)
EXTENDS MedianSpec

CONSTANTS
    Session,      \* sessions the responder may belong to
    Offset,       \* true intercept of each session
    Interval,     \* LINK_PING_INTERVAL_MS
    MaxPings,     \* LINK_MAX_PINGS
    Threshold,    \* LINK_SAMPLE_THRESHOLD
    MaxSamples,   \* MAX_SAMPLES, the length of the sample array
    MaxRtt,       \* a datagram older than this is lost (the network)
    MaxStarts,    \* bound: measurements started
    MaxDup,       \* bound: datagrams delivered twice
    MaxNow        \* bound on the clock

ASSUME MeasurementAssumption ==
    /\ Offset \in [Session -> Int]
    /\ Interval \in Nat \ {0}
    /\ MaxPings \in Nat /\ Threshold \in Nat
    /\ MaxSamples \in Nat /\ Threshold + 2 <= MaxSamples
    /\ MaxRtt \in Nat /\ MaxStarts \in Nat /\ MaxDup \in Nat /\ MaxNow \in Nat

VARIABLES
    now,          \* host_time_us()
    S,            \* the static state_t of measurement.c
    rsess,        \* the responder's link_self_session
    wire,         \* datagrams in flight
    dups,         \* datagrams duplicated so far
    starts,       \* measurements started so far
    result        \* what the completion callback was last told

vars == <<now, S, rsess, wire, dups, starts, result>>

Ping(ht, has, pgt, of) ==
    [type |-> "PING", ht |-> ht, has_pgt |-> has, pgt |-> pgt, of |-> of]

\* The pong body is sess and __gt followed by the ping payload verbatim.
Pong(ping, sess, gt) ==
    [type |-> "PONG", ht |-> ping.ht, has_pgt |-> ping.has_pgt,
     pgt |-> ping.pgt, of |-> ping.of, sess |-> sess, gt |-> gt]

\* memset(&S, 0, ...) followed by the target.
Fresh(sess) == [active |-> TRUE, target |-> sess, pings_sent |-> 0,
                next_send |-> 0, prev_ghost |-> 0, prev_host |-> 0,
                samples |-> <<>>]

---------------------------------------------------------------------------
(* The measurer *)

\* send_ping on state st: the previous ghost time rides along on every ping
\* but the first, and every ping counts towards the budget.
PingOf(st) == Ping(now, st.pings_sent > 0, st.prev_ghost, st.target)

Pinged(st) == [st EXCEPT !.prev_host = now, !.pings_sent = @ + 1,
                         !.next_send = now + Interval]

\* measurement_start: ignored while a measurement runs.
MeasurementStart(sess) ==
    /\ starts < MaxStarts
    /\ starts' = starts + 1
    /\ IF S.active THEN UNCHANGED <<S, wire, result>>
       ELSE /\ S' = Pinged(Fresh(sess))
            /\ wire' = wire \cup {PingOf(Fresh(sess))}
            /\ result' = [status |-> "pending", intercept |-> 0]
    /\ UNCHANGED <<now, rsess, dups>>

\* The completion callback; S.active is cleared before it is called.
Finish(st, ok, intercept) ==
    /\ S' = [st EXCEPT !.active = FALSE]
    /\ result' = [status |-> IF ok THEN "ok" ELSE "failed",
                  intercept |-> intercept]

TimerDue == S.active /\ now >= S.next_send

\* Slip: the budget is never checked.
BudgetSpentNever == FALSE

BudgetSpent == S.pings_sent >= MaxPings

\* measurement_tick.
TickGiveUp ==
    /\ TimerDue
    /\ BudgetSpent
    /\ Finish(S, FALSE, 0)
    /\ UNCHANGED <<now, rsess, wire, dups, starts>>

TickRetry ==
    /\ TimerDue
    /\ ~BudgetSpent
    /\ S' = Pinged(S)
    /\ wire' = wire \cup {PingOf(S)}
    /\ UNCHANGED <<now, rsess, dups, starts, result>>

MeasurementTick == TickGiveUp \/ TickRetry

\* Slip: the reception time alone is used, not the middle of the round trip.
RttSampleLate(q) == [v |-> q.gt - now, kind |-> "rtt", span |-> now - q.ht]

\* gt - (now + ht) / 2.
RttSample(q) == [v |-> q.gt - Half(now + q.ht), kind |-> "rtt",
                 span |-> now - q.ht]

\* A pgt of 0 means that no reply had come yet when the ping was sent; that
\* of another session is left from a measurement that has ended since.
PrevKind(q) == IF q.pgt = 0 THEN "zero" ELSE IF q.of # q.sess THEN "stale" ELSE "prev"

PrevSpan(q) == IF q.pgt = 0 THEN now - q.ht ELSE now - (q.pgt - Offset[q.of])

\* Slip: the reception time in place of the echoed sending time.
PrevSampleLate(q) == [v |-> Half(q.gt + q.pgt) - now,
                      kind |-> PrevKind(q), span |-> PrevSpan(q)]

\* (gt + pgt) / 2 - ht.
PrevSample(q) == [v |-> Half(q.gt + q.pgt) - q.ht,
                  kind |-> PrevKind(q), span |-> PrevSpan(q)]

\* The array bound of the samples is checked before each store.
Store(s, sample, cond) ==
    IF cond /\ Len(s) < MaxSamples THEN Append(s, sample) ELSE s

Collected(q) ==
    Store(Store(S.samples, RttSample(q), TRUE),
          PrevSample(q), q.has_pgt /\ S.prev_host # 0)

Values(samples) == [i \in DOMAIN samples |-> samples[i].v]

\* Slip: the last sample instead of the median.
EstimateLast(samples) == samples[Len(samples)].v

Estimate(samples) == MedianOf(Values(samples))

Enough(samples) == Len(samples) > Threshold

\* Delivery takes the datagram off the wire, unless the network delivers it
\* a second time.
Taken(m) ==
    \/ wire' = wire \ {m} /\ dups' = dups
    \/ dups < MaxDup /\ dups' = dups + 1 /\ wire' = wire

\* The wire of a step that takes m and sends p.
TakenAndSent(m, p) ==
    \/ wire' = (wire \ {m}) \cup {p} /\ dups' = dups
    \/ dups < MaxDup /\ dups' = dups + 1 /\ wire' = wire \cup {p}

\* measurement_handle_rx with no measurement running: ignored.
PongIgnored(q) ==
    /\ ~S.active
    /\ Taken(q)
    /\ UNCHANGED <<now, S, rsess, starts, result>>

\* Slip: a late pong of another session is not ignored.
PongMismatchLate(q) ==
    /\ q.sess # S.target
    /\ Finish(S, FALSE, 0)
    /\ Taken(q)
    /\ UNCHANGED <<now, rsess, starts>>

\* A pong of another session ends the measurement.
PongMismatch(q) ==
    /\ S.active
    /\ q.sess # S.target
    /\ Finish(S, FALSE, 0)
    /\ Taken(q)
    /\ UNCHANGED <<now, rsess, starts>>

PongFinal(q) ==
    /\ S.active
    /\ q.sess = S.target
    /\ Enough(Collected(q))
    /\ Finish([S EXCEPT !.samples = Collected(q), !.prev_ghost = q.gt],
              TRUE, Estimate(Collected(q)))
    /\ Taken(q)
    /\ UNCHANGED <<now, rsess, starts>>

\* Keep the samples and send another ping immediately.
PongNext(q) ==
    LET st == [S EXCEPT !.samples = Collected(q), !.prev_ghost = q.gt] IN
    /\ S.active
    /\ q.sess = S.target
    /\ ~Enough(Collected(q))
    /\ S' = Pinged(st)
    /\ TakenAndSent(q, PingOf(st))
    /\ UNCHANGED <<now, rsess, starts, result>>

MeasurementHandleRx ==
    \E q \in {m \in wire : m.type = "PONG"} :
        PongIgnored(q) \/ PongMismatch(q) \/ PongFinal(q) \/ PongNext(q)

---------------------------------------------------------------------------
(* The responder and the network *)

\* measurement_responder_handle_rx.
Respond ==
    \E m \in {p \in wire : p.type = "PING"} :
        /\ TakenAndSent(m, Pong(m, rsess, now + Offset[rsess]))
        /\ UNCHANGED <<now, S, rsess, starts, result>>

\* The responder joins another session (its on_measure_done).
ResponderSwitch ==
    /\ \E s \in Session \ {rsess} : rsess' = s
    /\ UNCHANGED <<now, S, wire, dups, starts, result>>

Lose ==
    /\ \E m \in wire : wire' = wire \ {m}
    /\ UNCHANGED <<now, S, rsess, dups, starts, result>>

\* Time passes; a datagram does not outlive MaxRtt.
Clock ==
    /\ now < MaxNow
    /\ now' = now + 1
    /\ wire' = {m \in wire : now + 1 - m.ht <= MaxRtt}
    /\ UNCHANGED <<S, rsess, dups, starts, result>>

---------------------------------------------------------------------------
\* The counter has left its reset value when the first peer is heard.
Init ==
    /\ now = 1
    /\ \E s \in Session :
          /\ S = [Fresh(s) EXCEPT !.active = FALSE]
          /\ rsess = s
    /\ wire = {}
    /\ dups = 0
    /\ starts = 0
    /\ result = [status |-> "none", intercept |-> 0]

Next ==
    \/ \E s \in Session : MeasurementStart(s)
    \/ MeasurementTick
    \/ MeasurementHandleRx
    \/ Respond
    \/ ResponderSwitch
    \/ Lose
    \/ Clock

Spec == Init /\ [][Next]_vars

\* The main loop turns at least once per clock unit: a due timer is served
\* before time goes on.  Termination needs it; the safety properties do not.
PromptNext == Next /\ (now' # now => ~TimerDue)

PromptSpec ==
    /\ Init /\ [][PromptNext]_vars
    /\ WF_vars(MeasurementTick)
    /\ WF_vars(Clock /\ ~TimerDue)

---------------------------------------------------------------------------
(* Properties *)

SampleRec == [v: Int, kind: {"rtt", "prev", "zero", "stale"}, span: Int]

TypeOK ==
    /\ now \in Nat
    /\ S \in [active: BOOLEAN, target: Session, pings_sent: Nat,
              next_send: Nat, prev_ghost: Int, prev_host: Nat,
              samples: Seq(SampleRec)]
    /\ rsess \in Session
    /\ wire \subseteq
          [type: {"PING"}, ht: Nat, has_pgt: BOOLEAN, pgt: Int, of: Session]
          \cup [type: {"PONG"}, ht: Nat, has_pgt: BOOLEAN, pgt: Int,
                of: Session, sess: Session, gt: Int]
    /\ dups \in Nat
    /\ starts \in Nat
    /\ result.status \in {"none", "pending", "ok", "failed"}

Abs(x) == IF x >= 0 THEN x ELSE -x

\* Twice the error of a sample as an estimate of the session's offset.
TwiceError(sample, sess) == 2 * (sample.v - Offset[sess])

\* measurement.c:139-142.  A round-trip sample misses the session's true
\* offset by at most half its round trip (and the rounding), however late, reordered or
\* duplicated the pong is, and whichever measurement its ping belonged to.
RttSamplesAccurate ==
    \A i \in DOMAIN S.samples :
        S.samples[i].kind = "rtt" =>
            /\ -S.samples[i].span <= TwiceError(S.samples[i], S.target)
            /\ TwiceError(S.samples[i], S.target) <= S.samples[i].span + 1

\* measurement.c:143-147, LINK_PROTOCOL_SPEC.md:580-586.  So does a sample
\* that averages in the previous reply of the same session, also when its ping
\* belonged to an earlier measurement.  One that averages in a reply of
\* another session ("stale") is off by half the distance of the two clocks.
PrevSamplesAccurate ==
    \A i \in DOMAIN S.samples :
        S.samples[i].kind = "prev" =>
            Abs(TwiceError(S.samples[i], S.target)) <= S.samples[i].span + 1

\* measurement.c:149-154.  A reported intercept lies within one maximal
\* round trip of the truth: the median outvotes the few samples taken from
\* retried pings, and from pings of an earlier measurement of another session.
InterceptAccurate ==
    result.status = "ok" =>
        Abs(result.intercept - Offset[S.target]) <= MaxRtt

\* measurement.c:140, 144, 149.  Success is reported on more samples than
\* the threshold, a running measurement never has that many, and the array
\* bound never costs a sample.
SampleCount ==
    /\ S.active => Len(S.samples) <= Threshold
    /\ result.status = "ok" => Len(S.samples) \in Threshold + 1 .. Threshold + 2

\* measurement.c:68, 83-84, 132-133, 151-152.  The completion callback is
\* told exactly once how each measurement ended, and S.active is what says
\* that it has not been told yet.
CompletionOnce == S.active <=> result.status = "pending"

\* session.c:75, 153.  To the session supervisor the module is the
\* MeasureService: one measurement at a time, one verdict for each, and a
\* late pong changes no verdict.
Service == INSTANCE MeasureService WITH
    busy <- S.active, sess <- S.target, verdict <- result.status

RefinesService == Service!Spec

\* measurement.c:78-89.  Every measurement ends, whatever is lost (stated
\* while the bounded clock leaves room for the longest one).
Terminates ==
    (S.active /\ now + (Threshold + MaxPings + 1) * Interval <= MaxNow) ~> ~S.active

=============================================================================
