# TLA+ models of the Colorlight i9 Ableton Link appliance

The repository turns an FPGA board into an Ableton Link peer: gateware written
in LiteX/Migen (`litex_soc/`) keeps time, makes clock pulses and moves MIDI,
modular and audio signals; a bare-metal C program (`firmware/`) on a soft CPU
speaks the Link protocol over lwIP. This directory models the parts of both
that decide something, checks them with TLC on small instances and proves the
central ones with TLAPS for every instance.

Contents: 1 the system, 2 the modules, 3 the runs, 4 the proofs, 5 where code
and documents disagree, 6 what is left out, 7 the plan.

## 1. The system

Everything in the firmware runs in one endless loop (`main.c:92-106`): poll
the network, then `link_tick`, `session_tick` (which calls
`measurement_tick`), `link_audio_tick`, `midi_tick`, `euro_tick`, then one
handler per TDM port with a finished frame. Received datagrams are handled
inside `net_poll`. There are no threads and no interrupt handlers. So a handler
is atomic with respect to other handlers, and the interleavings that matter
are those of boards with each other over UDP, of the loop with the gateware
between any two register accesses, and of events with the periods of the
ticks.

| component | state | operations | what is hard | what makes it correct |
|---|---|---|---|---|
| Peer discovery (`link.c`) | peer table, broadcast schedule, dirty flag | receive ALIVE/RESPONSE/BYEBYE, tick (broadcast, throttle, prune), broadcast now | full table, slots reused out of order, a change that meets the throttle | one slot per node, nobody evicted early, changes announced |
| Session selection (`session.c`) | own session, intercept, timeline, target of the measurement | observe a peer, measurement done, periodic remeasurement, local edit | several boards deciding on stale views, clock differences near EPS | boards run on their session's clock, never swap, agree on one session |
| Clock-offset measurement (`measurement.c`, `measurement_responder.c`) | running measurement with samples and timer | start, tick (retry, give up), pong, ping | loss, duplication, reordering, pongs of earlier measurements | samples and intercept are accurate, exactly one verdict, it ends |
| Median (`median.c`) | the sample array | `median_i64` | ties, even and tiny lengths, indices | the median, in bounds, terminates |
| Time base (`ghost_time.py`, `ghost_time.c`) | 64-bit counter, intercept, snapshots | read host time, read ghost time, set intercept | 64-bit values in two accesses while the counter and the intercept change | a host time is an instant of the call, a ghost time never mixes two intercepts |
| Pulse generator (`beat_pulse.py`, `beat_pulse.c`) | period, down counters, widths | load a timeline, one clock cycle | registers rewritten while counters run | next pulse one period after the last |
| MIDI transmit (`midi.py`, `midi.c`) | pending real-time bytes, FIFO, UART | pulses in, byte out | overlapping requests, data behind real-time bytes | bounded latency, no data lost or doubled |
| MIDI receive (`midi.py`, `midi.c`) | event slot, timestamp, period meter, mode | byte in, `midi_tick` register by register | bytes between the reads | an event carries the time of its byte, transport is followed |
| Eurorack inputs (`eurorack.py`, `eurorack.c`) | edge counters, period meter, cached values | edges, `euro_tick` register by register | edges between the reads | tempo and play state catch up |
| Audio channels (`link_audio.c`) | subscriber lists, catalog, subscriptions | announce, request, stop, byes, audio, subscribe, restart | lost, repeated and overtaking requests, restarts, packets of another session | nobody is served twice, a standing subscription is served |
| Jitter buffer (`link_audio.c`) | ring with two wrapping counters | packet in, one sample per frame out | overrun and wrap of the counters | a bounded FIFO that drops the oldest |
| TDM port (`tdm.py`, `tdm.c`, `main.c`) | shift registers, frame counter, pending flag | one bit period, poll, handler, clear | CPU writes during a slot, synchronisers, frames during the handler | a word goes out bit for bit, a frame is handled at most once |
| TLV codec (`tlv.c`, encoders and decoders of `link.c`, `link_audio.c`) | position of the walk, fields decoded | emit, walk one entry | datagrams cut anywhere, unknown and resized entries, two passes over the channels | what arrived whole is decoded as it was sent, nothing else changes |
| UDP layer (`net.c`, `on_udp_rx`) | PCBs and buffers in use | receive and dispatch, send | a pool runs empty halfway, lwIP keeps a reference | nothing leaks, nothing is given out twice |
| Ethernet driver (`netif_litex.c`) | slot rotation | output, input | slots reused while the MAC works, output inside input | slots keep their frame |
| HTTP server (`http_server.c`) | buffer and state per connection | accept, segment, close, reset, send | a request split anywhere, the buffer limit, a close after the answer, TCP sending later | the answer does not depend on the split, states are freed once, bodies arrive as written |
| Web UI (`webui.c`) | static answer buffer, name | nine routes | listings near the end of the buffer, one buffer for all clients | listings are closed inside the buffer |

Interactions. `link.c` hands every peer with a session to
`session_observe_peer`; `session.c` starts measurements and gets one callback
for each; on success it writes the intercept to the time base and broadcasts.
`midi.c` and `eurorack.c` edit the local timeline through `link.c`, and so does
the web UI. The pulse generator feeds the MIDI transmitter in gateware. Audio
packets fill jitter rings that the TDM handler drains.

## 2. The modules

Names follow the source. A definition whose comment begins with *Slip* is a
plausible wrong version of the definition after it; it is used only to show
that a property would notice the mistake.

* **Discovery** (`link.c`). `peers` is `link_peers`; `now` is host time.
  `LinkHandleRx` is one step with the early returns as `Dropped` (foreign
  group, own id, unknown type, full table); `LinkTick` is one step made of
  broadcast or throttle and then prune, in the order of the code. Any message
  may arrive at any time, which includes loss, duplication and reordering;
  `Heard` says which messages an instance lets arrive, of all there are.
* **Measurement** (`measurement.c`, the responder). `S` is the record `S` of
  the code, `wire` the datagrams in flight: they may be lost, delivered twice
  and in any order, and stay in flight across measurements. `ResponderSwitch` is the
  responder changing session. Sample values are real arithmetic on clocks, with
  the halving of the code. History says of each sample which formula made it and
  which session the ping was sent for (`of`): "zero" and "stale" samples average
  in no reply, or that of another session. **MeasureService** is what `session.c` relies on: one
  measurement at a time and one verdict for each.
* **Session** (`session.c` and the parts of `link.c` it uses). Several boards,
  a one-place channel per ordered pair (a newer announcement overtakes an older
  one), a measurement as the sending and the arrival of its last pong, with a
  bounded error: the peer may switch between the two. `Join` is the whole
  success path of `on_measure_done`: session, intercept, adopted timeline,
  broadcast. `Drift` and `GetAddress` are the environment.
* **Median** (`median.c`) runs the quickselect assignment by assignment;
  **MedianSpec** defines the median by rank, without recursion.
* **GhostTime**, **BeatPulse**, **MidiTx**: one step is one clock cycle, all
  registers change at once, and the firmware makes at most one access per
  cycle. Words, widths and wraps are constants.
* **MidiRx**, **Eurorack** over **LocalTimeline** (clock, tempo and play state
  of the board): one step is an input event or one register access of a tick.
  `RxSpec` is the MIDI receiver with the running clock alone.
* **AudioChannels** (`link_audio.c`): one publisher and its clients, both this
  firmware, with power cycles of either side. A packet carries the session of
  the publisher, and a client in another session drops it; either side changes
  its session at any time (`JoinSession`).
* **JitterBuffer** (`link_audio.c`): the ring; **BoundedFifo** is its abstract
  specification.
* **Tdm** (`tdm.py`, `tdm.c`, the end of the main loop): one period of BCK per
  step; a register that crosses clock domains may show any mixture of old and
  new bits while it changes. The synchroniser of SDIN (`sdin_r`) takes two
  cycles of the audio clock, one period, so the bit shifted in is the one that
  the codec sent a period earlier. `loaded` and `wire` are history: what is to
  go out in a slot, and what went.
* **EthMac** (`netif_litex.c`): the two directions of the driver on the slots
  of LiteEth's MAC, which is external and modelled from how the driver uses it.
* **WebUi** (`webui.c`): each handler maps the board and an argument to a
  status, a body and a new board. A body is what it shows and how long it is;
  `Listing` is the loop of the two JSON lists with its margin, over every
  filling of the table.
* **HttpServer** (`http_server.c`) extends WebUi: a request is lengths, a route
  and an argument, and TCP splits it anywhere. `Release` is the free, `tcp_arg`
  and `tcp_close` of every way out. `Transmit` is lwIP, which sends at any later
  time what `tcp_write` has copied.
* **Udp** (`net.c`, `on_udp_rx`): `udp_tx` call by call, against the pools of
  `lwipopts.h`; address resolution may keep a reference to a buffer that
  `udp_tx` frees.
* **Tlv** (`tlv.c` and its users): a message is a sequence of cells, one per
  byte, that name field and place, so a wrong offset or size reads wrong cells.
  `tlv_walk` goes one entry per step over as much of the message as arrived,
  and compares addresses, which wrap at `AddrSpace`.

The `MC...` modules give the instances. Three of them put together parts that
share no state, or no more than the timeline of the board: `MCBoards` (the
election of a session, and the audio channels), `MCTicks` (what comes in over
LAN, MIDI and modular inputs, the MIDI transmitter, the median) and `MCDevices`
(HTTP, Ethernet, UDP, TLV, the audio publisher, and the clocked cores with the
jitter ring). A variable chosen in the initial state says which part moves, so
that TLC explores the union of their behaviours rather than the product: a
behaviour of the composite is, but for that variable and parts at rest, a
behaviour of the specification of one part, which is what the theorems are
about. `MCWebBody` and `MCAnnouncement` have the sizes of the real build.

## 3. The runs

All bounds are constants of the modules, with a comment that says so.

| run | instance | properties | result |
|---|---|---|---|
| `measurement` | 2 sessions, 2 measurements, delays up to 2, budget 3, threshold 4, clock to 6 | `PrevSamplesAccurate`, `InterceptAccurate` | hold |
| `measurement_faults` | 2 measurements, losses, one duplicate, session switches | `RttSamplesAccurate`, `RefinesService`, `Terminates` | hold |
| `boards` | 2 boards, clocks apart by more or by less than EPS, late address, jitter and expiry, or an edit or drift step; or a publisher and a client with 2 entries, 2 sessions, losses, a restart of either side, the publisher with the ids it had | `OnSessionClock`, `NoSwap`, `NoBackwardJump`, `WinnerElected`, `StandingSubscription`, `EntryFed` | hold |
| `ticks` | 3 remote nodes, 2 slots, clock to 4 with TTL 2, grace 1, period 3, gap 2; 3 MIDI bytes or 2 edges per input, 2 mode changes, clock to 3; FIFO of 2, 3 pulses, 4 data bytes; all arrays of up to 4 samples from -2 .. 2 | `UniqueIds`, `NoEarlyEviction`, `ChangeAnnounced`, `TransportFollowed`, `TempoCatchesUp`, `PlayCatchesUp`, `RtLatency`, `DataComplete`, `StartSent`, `InBounds`, `MedianCorrect`, `Returns` | hold |
| `devices` | 3 connections, heap for 2, request buffer of 4, answer buffer of 10, tables of 3; 2 Ethernet slots each way; 4 PCBs, 3 and 2 buffers; messages cut at every byte; 2 clients, 2 places per list, 2 boots with different ids; 4-valued words; periods 1, 2, 4 and a wrap at 8; ring of 4 with counters that wrap at 8; 2 TDM slots of 2 bits, frame counter modulo 4 | `AnsweredExactly`, `ServedAsWritten`, `BodyClosed`, `StateOwned`, `SlotsKept`, `NothingLeaks`, `DecodedAsSent`, `NoDoubleDelivery`, `OneIntercept`, `PulseSpacing`, `RefinesFifo`, `HandledOnce` | hold |
| `session_clock` | 3 boards, exact measurements | `OnSessionClock` | violated, section 5 item 1 |
| `beat_stops` | the pulse generator with fairness | `BeatGoesOn` | violated, section 5 item 2 |
| `web_body` | 1 connection, the sizes of the build | `BodyDelivered` | violated, section 5 item 3 |
| `announcement_size` | 64 channels, the sizes of the build | `MessageFits` | violated, section 5 item 4 |
| `clock_tear` | 4-valued words, no intercept | `HostReadCoherent` | violated, section 5 item 5 |
| `event_time` | 3 MIDI bytes | `EventTimed` | violated, section 5 item 6 |
| `tdm_word` | 1 slot of 2 bits | `WordGoesOut` | violated, section 5 item 7 |

Why the bounds are enough. *Discovery*: three nodes compete for two slots, so the
table fills, a slot is freed before and behind a match, and a node is turned
away; the clock lets a peer expire and come back. Of the messages that
`link_handle_rx` drops whoever sent them there is one of each kind.
*Measurement*: budget and
threshold are scaled together so that the samples of retried pings stay a
minority, as with 5 pings and 100 samples in the code; two starts let a late
pong meet a later measurement. *Session*: EPS 4 with jitter 1 and drift 1 lets
both margins be approached but not crossed, so the rule names one winner; a
difference of exactly EPS is not in the instance (section 5 item 8). *Audio*:
with two entries and one channel the client may hold it twice, so the first
entry is not the only one; two sessions let packets of the wrong one be under
way; for the lists, as many clients as places, and every request may come twice.
*Inputs and cores*: two edges of each input, or three bytes, lie anywhere
between the reads of several ticks; every counter carries or wraps. A TDM slot of two
bits has a first and a last one. *Network*: requests
that leave room, fill the buffer exactly and exceed it in the header or in the
body; one more connection than the heap has states for; tables whose entries,
of every length up to the longest, end before, at and behind the margin, which
keeps the distance that 256 and 192 have to the longest entries; pools that are
empty at each allocation. The TLV
messages have their real layout, and only the number and length of names are
small; the receive buffer lies below the end of the addresses. *Median*: ties,
both signs, odd sums, and lengths 0 to 4.

Fairness. The loop of `main.c` never ends and calls every tick on every turn,
which justifies weak fairness of `LinkTick`, `MidiTick`, `EuroTick`,
`MeasurementTick`, `Announce` (of Session) and `Request`; the clock and the
gateware never stop, and the median, sequential code, runs to its end. The LAN is taken to be fair-lossy: a datagram that is sent again and
again gets through again and again (strong fairness of `Receive`,
`ArriveRequest`, `ArriveAudio`, and of a measurement succeeding when it is
tried for ever). `Terminates` needs nothing of the network. `PromptSpec` in
`measurement_faults` says that the tick runs before the clock moves past a
timer, since the loop turns thousands of times per interval; the safety
properties of the same run are proved without it. In a composite the fairness
is that of the part that moves.

A run that ends by itself (a bounded clock, closed connections) sets
`CHECK_DEADLOCK FALSE`; all others check for deadlock, and only the finished
median may rest (`Returned`).

## 4. The proofs

The theorems hold for every value of the constants allowed by the assumptions
named in the modules (`PeriodAssumption`, `IdAssumption`,
`MeasurementAssumption`, `SessionAssumption`, `MedianAssumption`,
`RingAssumption`, `WebUiAssumption`, `HttpAssumption`, `UdpAssumption`,
`EthAssumption`, `TlvAssumption`, `AddressAssumption`, `AudioAssumption`,
`GhostAssumption`, `PulseAssumption`, `MidiTxAssumption`, `TdmAssumption`). They give the
constants their types and say what the sizes of the build satisfy: the margin
of a listing exceeds its longest entry, the ring length divides the wrap of
its counters, and the receive buffer ends before the addresses do. `MaxFrame`, the number of different frames of the Ethernet model,
exceeds the slots, so that two frames in slots can be told apart.

* **DiscoveryProofs**: `TypeCorrect`, `NoDuplicatePeers`, `ExpiryIsFresh`,
  `ScheduleIsSound`, `EvictionIsJustified`. The inductive
  invariant is `TypeOK`, `UniqueIds`, `ExpiryFollowsHeard` and `ScheduleSound`
  together: eviction needs to know that the
  expiry the prune reads is that of the message last heard, which in turn needs
  a node to have one slot.
* **MeasurementProofs**: `TypeCorrect`, `RoundTripAccuracy`,
  `AveragedAccuracy`, `InterceptIsAccurate`, `InterceptWithinRoundTrip`,
  `SampleCountHolds`, `ImplementsService`. The invariant adds `WireSound` (what a pong in flight
  says was true at some time between its ping and now) to `TypeOK`,
  `RttSamplesAccurate`, `SampleCount` and `CompletionOnce`: the accuracy of a
  sample follows from a fact about a datagram that may be arbitrarily old.
  `PastInv` does the same for the previous ghost time that rides along, which is
  a past instant of the clock of the session the ping was sent for.
  `InterceptIsAccurate` is about the number that is reported: while fewer than
  half of the samples are misleading, it is as accurate as the widest of the
  others (`MinorityOutvoted`). Its argument is that the k-th smallest sample
  exists (`KthExists`, by a least element) and that a minority can fill neither
  side of it (`KthBetween`). `InterceptWithinRoundTrip` says when misleading
  samples are that few, under `LanTiming`: round trips shorter than the ping
  interval, and a threshold of at least twice the retries and the duplicates
  together. In the code these are 50 ms, 5 pings and 100, which leaves room for
  46 duplicated datagrams. The argument is in three
  invariants: nothing in flight is older than `MaxRtt`, so that no answer is
  under way when the timer fires (`InFlight`); at most one ping or pong is in
  flight but for duplicates (`FewInFlight`); and what has misled or may still
  mislead is at most one sample for each retry and one for each duplicate
  (`FewStrays`). The run `measurement` checks the property also where a round
  trip may take as long as the interval, which `LanTiming` excludes. The
  refinement maps `busy` to `S.active` and the
  verdict to the last result.
* **SessionProofs**: `TypeCorrect`, `NeverBackward`, for any number of boards.
  The invariant is `TypeOK` with `Named`: a message in flight names a real
  session, and so does the target of a running measurement, so no board can
  join the empty one. `BoardsKeepTheClock` and `NobodySwaps` are for two boards
  (`TwoBoards`) whose clocks at boot are farther from a difference of EPS than
  measurement error and drift together. Both conditions are needed: with three
  boards `OnSessionClock` is false (section 5 item 1), and at EPS two boards can
  each measure the other as better. The instance of the run `boards` satisfies
  them. The proof follows the board that the rule favours (`DuelInv`): it never
  finds the other session better, so it never leaves its own, so everything the
  other one hears and measures is that session, on a clock with intercept 0.
* **MedianProofs**: `StaysInBounds`, `SelectionCorrect`, `OnlyRearranges`,
  `ResultIsMedian`, for arrays of every length. The invariant adds what the two loops maintain:
  everything left of the window is at most, and everything right of it at
  least, what is inside (`WindowSplits`), the scanned part is split by the
  pivot (`Partitioned`), and which of the two middle positions is being
  selected (`Middle`, `Fresh`). That the result is the median by rank follows
  by counting: at most one value has at most k samples below it and more than k
  up to it (`KthUnique`), and a position that separates a rearrangement of the
  samples holds such a value (`SeparatorIsKth`).
* **JitterBufferProofs**: `FillStaysBounded`, `ImplementsFifo`, from `TypeOK`
  and `FillBounded` and lemmas about remainders. The assumption that matters is
  that the ring length divides the wrap of the counters, as 1024 divides 2^32:
  without it the ring would lose its place at the wrap.
* **NetworkProofs**, of the HTTP server and the web UI: `AnswersAreExact`,
  `BodiesAreKept`, `StatesAreOwned`, `BodiesAreClosed`, for any number of
  connections and any sizes. The first three are inductive together with
  `Untouched`: on a connection that still reads its request nothing was
  answered, queued or sent. The proof shows that the status 413 is reserved to
  the buffer check (`ReplyStatus`) and that a request is complete exactly at its
  last byte (`CompleteIsWhole`). `BodiesAreClosed` is about the loop of a
  listing over a table of any length; the loop is unrolled by taking the least
  index at which it would leave the buffer.
  Of the UDP layer: `NothingIsLeaked`, for pools of any size. The invariant
  `Accounted` says who holds what at each place of the code: the references of
  a buffer are the one of `udp_tx` and the one of address resolution.
  Of the Ethernet driver: `SlotsAreKept`, for any number of slots. The invariant
  places the frames that wait in a window of consecutive slots that ends before
  the slot to be written next, on the side of the driver for sending and on that
  of the MAC for receiving.
  Of the TLV codec: `DecodingIsExact`, for every number of channels, names of
  every length and every cut; the peer name is not empty, as in
  `link_audio.c:52`. The invariant `TlvInv` says that the walk is behind some
  k-th entry and that the receiver holds what the first k brought (`Walked`).
  No address of an entry wraps, since none lies behind the message
  (`ValueEndIs`).
  It rests on where an entry lies in the whole message (`FlattenPlaces`), where
  a field lies in its entry (`Sent`, one lemma for each kind), and on the
  two passes of `encode_peer_announcement` and the loop of `ann_handler`
  agreeing about every channel (`AucaTotalIsSize`, `ScanStepSent`). The
  recursive functions behind these (`FlattenSeq`, `AucaTotal`, the loop) are
  unfolded by exhibiting a solution of their equation and taking the least index
  at which another one would differ.
* **GatewareProofs**. TDM port: `FramesAreHandledOnce`. MIDI
  transmitter: `RealTimeIsPrompt`, `DataIsComplete`; the wait and the rest of
  the byte on the wire together never exceed a byte (`WaitFits`). Pulses:
  `PulsesAreSpaced`. Time base: `GhostReadsAreWhole`, that no word of a ghost
  time comes from the intercept before, and `HostReadsAreCoherent`, which says
  when a host time is right although the hardware does not latch it (section 5
  item 5): when no carry reaches the high word during the call. Both are for
  every word size; the invariant says of what instant each word read so far is,
  and that the halves of an intercept which is being written are those of the
  new one by the time anything reads them.
* **AudioChannelsProofs**: `TypeCorrect`, `NobodyTwice`, for any clients,
  channels and table sizes. `HoldInv` gives datagrams their types; the work is
  in `AddedKeeps` and `RemovedKeeps`, that appending behind a failed search and
  closing the gap keep a list free of repetitions.

Only model-checked: everything about liveness (`ChangeAnnounced`,
`Terminates`, `WinnerElected`, `Returns`, `StartSent`, `TransportFollowed`,
`TempoCatchesUp`, `PlayCatchesUp`, `StandingSubscription`, `EntryFed`), because
fairness and ENABLED are out of
the prover's reach. Every invariant of a passing run is stated by a theorem.

## 5. Where code and documents disagree

Seven disagreements are runs that TLC refutes:

1. `session_clock`: `session.c:74` overwrites `s_active_target_session` before
   `measurement_start` refuses a second measurement, so the first one's
   completion joins the second session with the wrong intercept;
   `session.c:31` calls the variable "what we just tried to measure".
2. `beat_stops`: `beat_pulse.c:28` sets `soft_reset` and nothing clears it, so
   the counters are held; `beat_pulse.py:31` says "one-shot" and
   `docs/architecture.md:117` promises "N pulses per quarter note".
3. `web_body`: `http_server.c:86-88` ignores what `tcp_write` says. lwIP takes
   data as a whole or not at all, at most `TCP_SND_BUF` = 1072 bytes here
   (`lwipopts.h:78`), so the admin page of more than 4000 bytes, and a status
   with more than four or five peers, is announced by Content-Length and never
   sent; `webui.c:5` promises the page for `GET /`.
4. `announcement_size`: with four TDM ports, which `README.md:209` builds, the
   announcement has 1412 bytes and more, and `link_audio.c:156` gives it a
   buffer of 1200; `tlv.h:58-60` leaves it to the caller "to know the buffer is
   large enough". With up to three ports it fits.
5. `clock_tear`: the snapshots of the host time follow the counter in every
   cycle (`ghost_time.py:91`), so a carry between two reads gives a time one
   low-word period ahead; lines 32-35 and 77-79 and `docs/architecture.md:98-101`
   promise that a read of `host_lo` latches the others. In the build the low word
   wraps every 71 minutes. `HostReadsAreCoherent` says when a read is right.
6. `event_time`: the event slot takes the time stored at the byte before
   (`midi.py:319`), and so does the period meter (line 323); `midi.py:13-18`,
   `midi.c:70-71` and `docs/architecture.md:170-171` promise the time at which the
   stop bit of this byte was complete.
7. `tdm_word`: the TDM serialiser sends the top bit twice and never the last
   one, since the register is loaded unshifted (`tdm.py:133`, against line 97 and
   `docs/architecture.md:127`).

The others were met while reading; the models contain the behaviour and the
properties are stated so that they hold of it:

8. A difference of exactly EPS satisfies neither rule (`session.c:89`), so
   such boards never agree; `docs/sync-guide.md:259-261` says they will.
9. The `measured` flag of a peer survives its change of session (`link.c:187`,
   `link.h:54`), and a session seen before is not measured (`session.c:68`,
   against `session.c:6-8`).
10. Edits by peers of the own session are never adopted (`session.c:64`, against
    `README.md:756` and `LINK_PROTOCOL_SPEC.md:490-494`).
11. The remeasurement of the own session discards its result (`session.c:88`,
    against `ghost_time.py:28-30`).
12. A retry with previous ghost time 0 still yields a sample
    (`measurement.c:57`, against `LINK_PROTOCOL_SPEC.md:581`); the median
    outvotes it. So does one with the ghost time of another session: a late
    pong to a ping of an earlier measurement, answered after the responder
    joined the session measured now, is accepted by its session id alone
    (`measurement.c:131`), and its second sample is off by half the distance of
    the two clocks (line 145, against `LINK_PROTOCOL_SPEC.md:585` "Both samples
    estimate `ghost - host`"). `InterceptIsAccurate` says when this is harmless.
13. A `clk_24` pulse outlasts a byte and is tested by level, so one pulse sends
    several 0xF8 (`midi.py:188`, against 6-7).
14. OBSERVE changes the play state (`midi.c:102`, against `midi.h:41`).
15. A frame pulse crosses clock domains without being shortened, so a frame adds
    about three to the counter (`tdm.py:82`).
16. The synchroniser of SDIN delays the data by one period of BCK against the FS
    that the codec sees (`tdm.py:166`), so a received word is the last bit of the
    slot before and all but the last bit of its own; `README.md:308` says that the
    falling edge of FS marks slot 0, and `tdm.py:97-99` that the word is written at
    the end of its slot.
17. A RUN level from before the board follows is not followed, and a new PPQN
    waits for a new period (`eurorack.c:93` and `67`, against `README.md:354`
    and `eurorack.h:8-9`).
18. A second subscription to a channel is never fed (`link_audio.c:418`,
    against `link_audio.h:84-87`).
19. Subscribers never expire (`link_audio.c:210`, against
    `LINK_PROTOCOL_SPEC.md:851-852`).
20. The catalog never forgets (`link_audio.c:259`, against
    `LINK_PROTOCOL_SPEC.md:795-797`).
21. Only two spellings of Content-Length are found (`http_server.c:103`, against
    "case-insensitive" in line 99).
22. A connection that is reset keeps its state for ever, since no `tcp_err` is
    registered (`http_server.c:198`).
23. `POST /api/name` changes the name that the status page shows and nothing
    else: `link_audio.c:52` announces a variable of its own (`webui.c:27`,
    against `webui.c:11` "peer name").
24. The catalog of `/api/channels` is cut at about 42 channels with long names
    (`webui.c:199`, against `webui.c:7` "list of remote audio channels"); it
    stays well formed, which `BodyClosed` checks.
25. Several connections are served at a time (`http_server.c:198`, against "One
    connection at a time" in `http_server.h`); `ServedAsWritten` shows that they
    do not disturb each other. A request that is too large is answered without
    `tcp_recved`, so that lwIP may close with a reset before the 413 arrives.
26. Every datagram is sent from a one-shot PCB bound to the port that
    `s_rx_pcb` holds, and the result of `udp_bind` is ignored (`net.c:134`). If
    lwIP refuses, the datagram leaves from another port, and a pong or a
    request that goes back to its source port is not heard.
27. Only one port is listened to, and a datagram is told by its first eight
    bytes (`main.c:33-52`, against "any port" and "destination port" in
    `net.h`).
28. `send_alive` clears the dirty flag although both sendings may have failed
    (`link.c:141`); the change is announced with the next period.
29. `link_handle_rx` ignores the result of `tlv_walk` (`link.c:275`): a message
    that is cut is taken as far as it goes, which `DecodedAsSent` describes.

## 6. What is left out

* Packet filter: a combinational match that the SoC does not instantiate
  (`soc.py:41-48`).
* lwIP, LiteEth and the C library are external: they appear as the guards and
  choices that the code meets (`TcpTakes`, `Transmit`, `Aborted`, `ArpDone`).
* Byte order inside a number. `vp + size` of `tlv.c:41` wraps in the model as in
  the code, but sizes near 2^32, with which it would, are in no message of the
  instances: no encoder writes them.
* Beyond the first of several subscriptions to one channel, which alone is fed,
  `EntryFed` says nothing; what a board does at a clock difference of exactly EPS
  is not in the instance of `NoSwap` and `WinnerElected`.
* SoC, platform, start-up, build, pinout generator: no behaviour of their own.
* Within modelled parts: logging, LEDs, the PPS output, the bit level of the
  UART, the MIDI data FIFO on the receive side, the virtual TDM port, audio
  pongs, and the interface bring-up. `PROJECT.json` says so part by part.
* Real time: periods are ordered and scaled, not measured in microseconds.
* `WinnerElected` depends on the margins of its instance and is not claimed
  beyond it; `InterceptAccurate` is claimed under `LanTiming`, `OnSessionClock`
  and `NoSwap` for two boards and the margin of `TwoBoards`.

## 7. The plan

The order was: discovery, measurement and median, session (the behaviour the
product stands for), then the gateware it drives, then audio and network. What
comes next:

1. Compose Session with Measurement through MeasureService, so that the
   measurement of one board meets the session switch of its responder, and
   settle three boards under the assumption that no second session is observed
   while a measurement runs.
2. Proofs: `InterceptAccurate` where a round trip outlasts the ping interval,
   with a count of the pings that overlap; `OnSessionClock` for three boards
   under the assumption of item 1.
3. The virtual TDM port and the audio pong, which are small; the data FIFO of
   the MIDI receiver, once something reads it.
