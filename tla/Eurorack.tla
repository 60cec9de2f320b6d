------------------------------ MODULE Eurorack ------------------------------
(***************************************************************************)
(* The modular inputs: edge counters and period meter of                   *)
(* litex_soc/eurorack.py, polled by euro_tick of firmware/eurorack.c.      *)
(*                                                                         *)
(* An edge is a step of its own; euro_tick reads one register per step, so *)
(* edges fall between its reads.                                           *)
(***************************************************************************)
EXTENDS LocalTimeline

CONSTANTS
    Ppqn,         \* values for euro_set_ppqn
    MaxEdges,     \* bound: edges on the three inputs together
    MaxModes      \* bound: calls of euro_set_sync_mode and euro_set_ppqn

ASSUME EuroAssumption ==
    /\ Ppqn \subseteq Nat
    /\ MaxEdges \in Nat /\ MaxModes \in Nat

VARIABLES
    clk_count, clk_period, last_clk_ts, rst_count, run_count, run_s,
    mode, ppqn, bpm, s_period,        \* s_mode, s_ppqn, s_bpm, s_period
    last_clk, last_rst, last_run, run_level,
    pc, r,                            \* euro_tick: next read, values so far
    modes

inputs == <<clk_count, clk_period, last_clk_ts, rst_count, run_count, run_s>>
kept == <<bpm, s_period, last_clk, last_rst, last_run, run_level>>
euroVars == <<host_us, inputs, mode, ppqn, kept, pc, r, link, modes>>

---------------------------------------------------------------------------
(* The gateware *)

MoreEdges == clk_count + rst_count + run_count < MaxEdges

ClkEdge ==
    /\ MoreEdges
    /\ clk_count' = clk_count + 1
    /\ clk_period' = IF last_clk_ts # 0 THEN host_us - last_clk_ts ELSE clk_period
    /\ last_clk_ts' = host_us
    /\ UNCHANGED <<host_us, rst_count, run_count, run_s, mode, ppqn, kept, pc, r,
                   link, modes>>

RstEdge ==
    /\ MoreEdges
    /\ rst_count' = rst_count + 1
    /\ UNCHANGED <<host_us, clk_count, clk_period, last_clk_ts, run_count, run_s,
                   mode, ppqn, kept, pc, r, link, modes>>

\* Both edges of RUN_IN count.
RunEdge ==
    /\ MoreEdges
    /\ run_count' = run_count + 1
    /\ run_s' = ~run_s
    /\ UNCHANGED <<host_us, clk_count, clk_period, last_clk_ts, rst_count,
                   mode, ppqn, kept, pc, r, link, modes>>

---------------------------------------------------------------------------
(* euro_tick *)

\* Slip: the period is read before the clock count.
ReadCountsPeriodFirst ==
    \/ pc = "idle" /\ pc' = "clk" /\ r' = [r EXCEPT !.period = clk_period]
    \/ pc = "clk" /\ pc' = "rst" /\ r' = [r EXCEPT !.clk = clk_count]
    \/ pc = "rst" /\ pc' = "run" /\ r' = [r EXCEPT !.rst = rst_count]
    \/ pc = "run" /\ pc' = "level" /\ r' = [r EXCEPT !.run = run_count]

\* The first four registers, one after the other.
ReadCounts ==
    \/ pc = "idle" /\ pc' = "rst" /\ r' = [r EXCEPT !.clk = clk_count]
    \/ pc = "rst" /\ pc' = "run" /\ r' = [r EXCEPT !.rst = rst_count]
    \/ pc = "run" /\ pc' = "period" /\ r' = [r EXCEPT !.run = run_count]
    \/ pc = "period" /\ pc' = "level" /\ r' = [r EXCEPT !.period = clk_period]

EuroRead ==
    /\ ReadCounts
    /\ UNCHANGED <<host_us, inputs, mode, ppqn, kept, link, modes>>

\* The tempo is computed when the period changes.
NewBpm == IF r.period > 0 /\ r.period # s_period
          THEN [period |-> r.period, ppqn |-> ppqn] ELSE bpm

Following == mode = "FOLLOWER"

\* A clock edge was counted: link_set_local_tempo, which moves the origin.
SetsTempo == r.clk # last_clk /\ Following /\ NewBpm.period > 0

\* Slip: a counted edge sets the level of the previous turn.
PlayAfterCountOnly ==
    IF r.run # last_run /\ Following THEN run_level ELSE play

\* link_set_play with the level just read.
PlayAfter ==
    IF (r.run # last_run \/ run_s # run_level) /\ Following
    THEN run_s ELSE play

\* The last read, the run level, and then everything euro_tick does.
EuroAct ==
    /\ pc = "level" /\ pc' = "idle"
    /\ bpm' = NewBpm
    /\ s_period' = NewBpm.period
    /\ last_clk' = r.clk /\ last_rst' = r.rst /\ last_run' = r.run
    /\ run_level' = run_s
    /\ tempo' = IF SetsTempo THEN NewBpm ELSE tempo
    /\ origin' = IF SetsTempo \/ (r.rst # last_rst /\ Following) THEN host_us ELSE origin
    /\ play' = PlayAfter
    /\ UNCHANGED <<host_us, inputs, mode, ppqn, r, modes>>

EuroTick == EuroRead \/ EuroAct

---------------------------------------------------------------------------
(* The settings, between two turns of the main loop *)

SetEuroSyncMode ==
    /\ pc = "idle" /\ modes < MaxModes
    /\ modes' = modes + 1
    /\ mode' \in {"OFF", "OBSERVE", "FOLLOWER"} \ {mode}
    /\ UNCHANGED <<host_us, inputs, ppqn, kept, pc, r, link>>

SetPpqn ==
    /\ pc = "idle" /\ modes < MaxModes
    /\ modes' = modes + 1
    /\ \E p \in Ppqn : ppqn' = IF p = 0 THEN 1 ELSE p
    /\ UNCHANGED <<host_us, inputs, mode, kept, pc, r, link>>

---------------------------------------------------------------------------
\* euro_init: RUN_IN may be at either level.
EuroInit ==
    /\ clk_count = 0 /\ clk_period = 0 /\ last_clk_ts = 0
    /\ rst_count = 0 /\ run_count = 0 /\ run_s \in BOOLEAN
    /\ mode = "OBSERVE" /\ ppqn = 4 /\ bpm = NoTempo /\ s_period = 0
    /\ last_clk = 0 /\ last_rst = 0 /\ last_run = 0 /\ run_level = run_s
    /\ pc = "idle" /\ r = [clk |-> 0, rst |-> 0, run |-> 0, period |-> 0]
    /\ modes = 0

EuroNext ==
    \/ ClkEdge \/ RstEdge \/ RunEdge \/ EuroTick \/ SetEuroSyncMode \/ SetPpqn

---------------------------------------------------------------------------
(* Properties *)

\* eurorack.c:56-61, 73-78.  A clock edge that comes while the board follows
\* brings the tempo to the period that edge measured, wherever it falls
\* between the reads of euro_tick (unless another edge in the same
\* microsecond makes the meter show 0, which euro_tick ignores).
TempoCatchesUp ==
    (Following /\ clk_count # last_clk /\ clk_period > 0)
        ~> (tempo.period = clk_period \/ clk_period = 0 \/ ~Following)

\* eurorack.c:93-99.  A change of RUN_IN that comes while the board follows
\* brings the play state to the level, also when the count and the level
\* were read on different sides of the edge.
PlayCatchesUp ==
    (Following /\ run_count # last_run) ~> (play = run_s \/ ~Following)

=============================================================================
