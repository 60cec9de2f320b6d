----------------------------- MODULE GhostTime -----------------------------
(***************************************************************************)
(* The time base: the 64-bit microsecond counter and intercept register of *)
(* litex_soc/ghost_time.py, and the accessors of firmware/ghost_time.c     *)
(* that read and write them one 32-bit word at a time.                     *)
(*                                                                         *)
(* Words hold W values instead of 2^32.  A step is one clock cycle of the  *)
(* SoC, in which the CPU makes at most one access to a register; how many  *)
(* cycles lie between two accesses is left open.                           *)
(***************************************************************************)
EXTENDS Integers

CONSTANTS
    W,            \* values of one word
    Intercept,    \* intercepts that measurements find
    MaxCall,      \* a call of an accessor takes less than this many ticks
    MaxHost       \* bound on the counter

ASSUME GhostAssumption ==
    /\ W \in Nat \ {0} /\ MaxCall \in Nat /\ MaxCall < W
    /\ MaxHost \in Nat /\ MaxHost < W * W
    /\ Intercept \subseteq Int

VARIABLES
    host_time,
    inter_lo, inter_hi,
    snap_host, snap_ghost,  \* what the status registers show
    ghost_pc,           \* the accessor in progress and its next access
    lo,           \* the low word it has read
    new,          \* the intercept it writes
    began,        \* history: host_time when it was called
    ret           \* the last value returned, when, and from which counter

ghostVars == <<host_time, inter_lo, inter_hi, snap_host, snap_ghost, ghost_pc, lo, new,
          began, ret>>

Word64(h, l) == h * W + l

\* host_time + intercept, modulo 2^64.
GhostOf(t) == (t + Word64(inter_hi, inter_lo)) % (W * W)

---------------------------------------------------------------------------
(* The gateware: every cycle *)

\* The counter, which a microsecond tick advances, and the snapshots, which
\* are taken in every cycle and not only when host_lo is read.
CounterCycle ==
    /\ host_time' \in {host_time, host_time + 1}
    /\ host_time' <= MaxHost
    /\ ghost_pc # "idle" => host_time' - began < MaxCall
    /\ snap_host' = host_time
    /\ snap_ghost' = GhostOf(host_time)

---------------------------------------------------------------------------
(* The accessors: one access in a cycle *)

Wait ==
    /\ CounterCycle
    /\ UNCHANGED <<inter_lo, inter_hi, ghost_pc, lo, new, began, ret>>

Call(next) == ghost_pc = "idle" /\ ghost_pc' = next /\ began' = host_time /\ CounterCycle

Return(kind, v) ==
    /\ ghost_pc' = "idle"
    /\ ret' = [kind |-> kind, v |-> v, from |-> began, to |-> host_time]
    /\ CounterCycle
    /\ UNCHANGED <<inter_lo, inter_hi, lo, new, began>>

\* host_time_us: low word, then high word.
HostTimeUs ==
    \/ /\ Call("host_hi")
       /\ lo' = snap_host % W
       /\ UNCHANGED <<inter_lo, inter_hi, new, ret>>
    \/ ghost_pc = "host_hi" /\ Return("host", Word64(snap_host \div W, lo))

\* Slip: the access that comes before is saved, and the high word is first.
GhostTimeUsHiFirst ==
    \/ /\ Call("ghost_lo")
       /\ lo' = snap_ghost \div W
       /\ UNCHANGED <<inter_lo, inter_hi, new, ret>>
    \/ ghost_pc = "ghost_lo" /\ Return("ghost", Word64(lo, snap_ghost % W))

\* ghost_time_us: a read of host_lo for its side effect, then both words.
GhostTimeUs ==
    \/ Call("ghost_lo") /\ UNCHANGED <<inter_lo, inter_hi, lo, new, ret>>
    \/ /\ ghost_pc = "ghost_lo" /\ ghost_pc' = "ghost_hi"
       /\ lo' = snap_ghost % W
       /\ CounterCycle
       /\ UNCHANGED <<inter_lo, inter_hi, new, began, ret>>
    \/ ghost_pc = "ghost_hi" /\ Return("ghost", Word64(snap_ghost \div W, lo))

\* ghost_time_set_intercept: the low word, then the high word.
SetIntercept ==
    \/ \E x \in Intercept :
          /\ Call("inter_hi")
          /\ new' = x % (W * W)
          /\ inter_lo' = new' % W
          /\ UNCHANGED <<inter_hi, lo, ret>>
    \/ /\ ghost_pc = "inter_hi" /\ ghost_pc' = "idle"
       /\ inter_hi' = new \div W
       /\ CounterCycle
       /\ UNCHANGED <<inter_lo, lo, new, began, ret>>

---------------------------------------------------------------------------
\* Power-up; nothing has been returned yet.
GhostInit ==
    /\ host_time = 0
    /\ inter_lo = 0 /\ inter_hi = 0
    /\ snap_host = 0 /\ snap_ghost = 0
    /\ ghost_pc = "idle" /\ lo = 0 /\ new = 0 /\ began = 0
    /\ ret = [kind |-> "none", v |-> 0, from |-> 0, to |-> 0]

GhostNext == Wait \/ HostTimeUs \/ GhostTimeUs \/ SetIntercept

GhostSpec == GhostInit /\ [][GhostNext]_ghostVars

---------------------------------------------------------------------------
(* Properties *)

\* The instants a call may report: the snapshot lags by one tick.
During(r) == r.from - 1 .. r.to

\* litex_soc/ghost_time.py:32-35 "a coherent 64-bit timestamp", :77-79 and
\* docs/architecture.md:98-101: a host time is an instant of the call.
HostReadCoherent == ret.kind = "host" => ret.v \in During(ret)

\* The ghost time at host time t under the intercept that was set last.
GhostUnder(t) == (t + new) % (W * W)

\* ghost_time.c:11-23.  Both words of a ghost time are words of the counter
\* plus the intercept set last, at instants of the call: no word comes from
\* the intercept before, of which the snapshots still show a half while the
\* two registers are written.  (That the two instants are one is another
\* matter: HostReadCoherent.)
OneIntercept ==
    [][ret' # ret /\ ret'.kind = "ghost" =>
          \E t, u \in During(ret') :
              ret'.v = Word64(GhostUnder(u) \div W, GhostUnder(t) % W)]_ghostVars

=============================================================================
