----------------------------- MODULE BeatPulse -----------------------------
(***************************************************************************)
(* The pulse generator: litex_soc/beat_pulse.py, one of its five identical *)
(* periodic outputs and the start/stop one-shots, programmed by            *)
(* beat_pulse_load_timeline of firmware/beat_pulse.c.                      *)
(*                                                                         *)
(* A step is one clock cycle.  All registers change at once; the CPU makes *)
(* at most one register write in a cycle, so the writes of one call are    *)
(* spread over cycles in which the gateware goes on.                       *)
(***************************************************************************)
EXTENDS Integers

CONSTANTS
    Period,       \* periods the firmware computes from a tempo
    Reset,        \* the period register at power-up (120 BPM)
    PulseWidth,   \* PULSE_WIDTH_US
    CntWrap,         \* 2^32
    MaxLoads      \* bound: calls of beat_pulse_load_timeline

ASSUME PulseAssumption ==
    /\ CntWrap \in Nat /\ Period \subseteq 1 .. CntWrap - 1 /\ Reset \in 1 .. CntWrap - 1
    /\ PulseWidth \in Nat \ {0} /\ MaxLoads \in Nat

VARIABLES
    period, flag_run, soft_reset,            \* registers the CPU writes
    cnt, pulse, width,                       \* make_periodic
    run_prev, start_pulse, sp_w, stop_pulse, tp_w,
    load_pc, loads,                               \* the firmware
    age, due                                 \* history: ticks since the last
                                             \* reload, and the period then

registers == <<period, flag_run, soft_reset>>
oneShots == <<run_prev, start_pulse, sp_w, stop_pulse, tp_w>>
pulseVars == <<registers, cnt, pulse, width, oneShots, load_pc, loads, age, due>>

---------------------------------------------------------------------------
(* The gateware: every cycle *)

\* Slip: the counter is reloaded with the period itself.
ReloadLong == period

Reload == (period - 1) % CntWrap

\* make_periodic; the soft reset holds it for as long as the register is set.
Periodic(tick) ==
    \/ /\ soft_reset
       /\ cnt' = 0 /\ pulse' = FALSE /\ width' = 0
       /\ age' = 0 /\ due' = 0
    \/ /\ ~soft_reset /\ tick /\ cnt = 0
       /\ cnt' = Reload /\ pulse' = TRUE /\ width' = PulseWidth
       /\ age' = 0 /\ due' = period
    \/ /\ ~soft_reset /\ tick /\ cnt # 0
       /\ cnt' = cnt - 1
       /\ width' = IF width # 0 THEN width - 1 ELSE 0
       /\ pulse' = (pulse /\ width # 1)
       /\ age' = age + 1 /\ due' = due
    \/ ~soft_reset /\ ~tick /\ UNCHANGED <<cnt, pulse, width, age, due>>

\* One of the start and stop outputs after a cycle.
OneShot(edge, tick, on, w) ==
    IF edge THEN [on |-> TRUE, w |-> PulseWidth]
    ELSE IF tick /\ w # 0 THEN [on |-> on /\ w # 1, w |-> w - 1]
    ELSE [on |-> on, w |-> w]

Transport(tick) ==
    LET s == OneShot(flag_run /\ ~run_prev, tick, start_pulse, sp_w)
        t == OneShot(~flag_run /\ run_prev, tick, stop_pulse, tp_w)
    IN  /\ run_prev' = flag_run
        /\ start_pulse' = s.on /\ sp_w' = s.w
        /\ stop_pulse' = t.on /\ tp_w' = t.w

---------------------------------------------------------------------------
(* The firmware: at most one write in a cycle *)

NoWrite == UNCHANGED <<registers, load_pc, loads>>

\* beat_pulse_load_timeline: the period (of this output), the soft reset,
\* the flags.  link_init calls it, and every later edit of the timeline or
\* the play state.
WritePeriod ==
    /\ load_pc = "idle" /\ loads < MaxLoads
    /\ \E p \in Period : period' = p
    /\ load_pc' = "reset" /\ loads' = loads + 1
    /\ UNCHANGED <<flag_run, soft_reset>>

WriteReset ==
    /\ load_pc = "reset" /\ load_pc' = "flags"
    /\ soft_reset' = TRUE
    /\ UNCHANGED <<period, flag_run, loads>>

WriteFlags ==
    /\ load_pc = "flags" /\ load_pc' = "idle"
    /\ flag_run' \in BOOLEAN
    /\ UNCHANGED <<period, soft_reset, loads>>

Firmware == NoWrite \/ WritePeriod \/ WriteReset \/ WriteFlags

---------------------------------------------------------------------------
\* Power-up: the registers' reset values.
PulseInit ==
    /\ period = Reset /\ flag_run = FALSE /\ soft_reset = FALSE
    /\ cnt = 0 /\ pulse = FALSE /\ width = 0
    /\ run_prev = FALSE
    /\ start_pulse = FALSE /\ sp_w = 0 /\ stop_pulse = FALSE /\ tp_w = 0
    /\ load_pc = "idle" /\ loads = 0
    /\ age = 0 /\ due = 0

PulseCycle(tick) == Periodic(tick) /\ Transport(tick) /\ Firmware

PulseNext == \E tick \in BOOLEAN : PulseCycle(tick)

PulseSpec == PulseInit /\ [][PulseNext]_pulseVars

\* The microsecond tick never stops, and a call runs to its end.
PulseFairSpec ==
    /\ PulseSpec
    /\ WF_pulseVars(PulseCycle(TRUE))
    /\ WF_pulseVars(\E tick \in BOOLEAN : PulseCycle(tick) /\ load_pc # "idle" /\ load_pc' # load_pc)

---------------------------------------------------------------------------
(* Properties *)

\* beat_pulse.py:80-103.  While the output runs, the next pulse begins exactly
\* one period after the last one began, with the period that was in force
\* then, and whatever the firmware writes in between.
PulseSpacing == due # 0 => age + cnt + 1 = due

\* docs/architecture.md:117 "N pulses per quarter note", beat_pulse.py:31
\* "reset all counters to 0 (one-shot)": the output pulses for ever.
BeatGoesOn == []<>pulse

=============================================================================
