# FlEC in TLA+

FlEC adds forward erasure correction (FEC) to PQUIC, a QUIC implementation (picoquic) whose operations
can be replaced by plugins.  This directory models the `simple_fec` plugin and the core it runs in,
model-checks the models with TLC and proves their main properties with TLAPS.

Paths are relative to `src/`.  `PROJECT.json` lists every component with what is left out of it, the
source lines of every definition, the hazards (what can go wrong and a test would hardly meet), the runs,
the theorems, and the findings with their quotations.

## The system and its parts

The core (`picoquic/`) has a handshake, packets with headers and numbers, frames, streams with flow
control, ACK frames built from lists of ranges, timers and retransmission, congestion control.  Its steps
are *protocol operations*: a call looks the operation up in a table, runs the observers before it, the
operation or its replacement, and the observers after it.  Plugins put pluglets in that table; each has a
pool of memory, reserves frames in queues of the core, and may be fetched from the peer.

The FEC plugin (`plugins/simple_fec/`) gives every protected packet a *source symbol*, keeps the symbols
in a *sending window*, and sends *repair symbols*, linear combinations of the window.  Protected packets
are not retransmitted.  The receiver keeps the symbols in a *receive ring*, tracks the ids it has in a list
of intervals, rebuilds packets, and talks back: *RWIN frames* say up to which id nothing is missing and
how many more symbols it can take, *RECOVERED frames* name the packets it rebuilt.  A *redundancy
controller* decides, slot by slot, between a new symbol and a repair symbol.

```
 application                                               application
     |  streams                                                 ^
 slots & controller --> sending window == packets ==> ring, tracker --> decoder
        ^                 ^   ^                          |            |
        |                 |   +------ RWIN frames -------+            |
   loss monitor       packet fate <---- ACKs, RECOVERED frames -------+
 ------------------------------------------------------------------------------
  core: connection, packet headers, frames, streams, ACK ranges, timers, congestion
        protocol operations, plugins and their frames, transfer and memory
```

## Modules

The first table is the FEC plugin, the second the core.  "Operators" marks a module without variables.

| module | models | state and actions |
|---|---|---|
| `ReceivedSymbols` (operators), `ReceivedTracker` | `window_framework/search_structures.h` 422-548, `window_receive_buffers.h` | the list of received intervals with the one loop of the code and its four outcomes; the ring with its index arithmetic modulo `IdSpace` (2^32); one action per received symbol, in any order, repetitions included |
| `SendWindow` | `framework_sender.h` | a ring of `N` slots, the window bounds, the two deadline trees; protect a packet, announce it as received, process an RWIN frame, start sending |
| `WindowFlow` | both sides together | SendWindow, a network that loses and reorders, ReceivedSymbols, and RWIN frames that are reserved, written with the id of that moment, lost or processed, and reported to their sender, rightly or not; the decoder is "a symbol of the sending window can be rebuilt" |
| `PacketFate` | `fec.h`, `protoops/`, `picoquic/frames.c`, `sender.c` | every packet from its sending to its announcement: retransmission queue, `lost_packets`, `recovered_packets_ranges`, ACK frames of several blocks, losses declared rightly or wrongly |
| `RecoveredFrames`, `RecoveredWire` | `framework_receiver.h`, `types.h` 455-716 | the life of a RECOVERED frame at the receiver; the same frame as it is written, estimated, and parsed |
| `SlotReservation` | `causal_redundancy_controller_protoops/`, `protoops/`, `utils.h`, queues of `picoquic/sender.c` | the slot history, lost slots and degrees of freedom; one packet of the core with its hooks is one action, the feedback the others |
| `LossMonitor`, `MinMaxHeap`, `RedBlackTree` | `plugins/loss_monitor/`, `search_structures.h`, `red_black_tree*.c/.h` | the bounded history of packets, its expiry and its estimates, with the time they are taken at; the search structures with all operations |

| module | models | state and actions |
|---|---|---|
| `Connection` | `picoquic/packet.c`, `sender.c`, `quicctx.c` | client and server from the first packet to the closing states, Retry, lost and repeated datagrams, a lost context; TLS is external, and the server speaks the client's version, since this code's parser refuses its own version negotiation packets (`VersionNegotiationIsRead` below) |
| `PacketHeader`, `FrameCodec`, `TransportParameters`, `IntFormat` | `packet.c`, `frames.c`, `transport.c`, `intformat.c` | bytes written and read back: headers and the contexts they lead to, every frame, the transport parameters this code writes, in the order it writes them, integers |
| `StreamBlocks` (operators), `Streams` | `frames.c`, `sender.c`, `quicctx.c` | reassembly of blocks; a client that writes, is polled, resets, and a server that reads, grants credit, stops: the choice of a stream, frames and their splitting, loss, repetition, delivery |
| `Sacks` (operators), `SackLists`, `AckExchange` | `sacks.c`, `frames.c` | the lists of ranges; two endpoints that acknowledge each other, and acknowledgements of acknowledgements |
| `LossRecovery` | `sender.c`, `frames.c`, `newreno.c` | RTT, timers, loss thresholds, retransmission, the window of New Reno, time included |
| `CongestionControl` | `bbr.c`, `cubic.c`, `plugins/westwood/` | the three algorithms fed with acknowledgements and losses, in small integers; `before` is a history variable, the window that BBR sets aside while it probes |
| `FrameScheduler` | `sender.c`, `plugin.c` | the queues of plugin frames, budgets and turns, what is moved into a packet and what is retried, the oldest packet lost or acknowledged (the loop of `retransmit_needed` visits no other), notification |
| `ProtoopCalls` | `plugin.c` | a call of a protocol operation step by step, nested calls included: argument and output arrays, the current plugin, the stack |
| `PluginLoad`, `PluginExchange` | `plugin.c`, `frames.c`, `sender.c` | insertion line by line, the cache, what a connection negotiates; the transfer of an archive |
| `MemoryPool`, `BlockAllocator` | `memory.c` | the pool with its chain of free blocks; the allocator it implements |
| `SplayTree` | `picosplay.c` | the tree of wake-up times |

`ListEdits` holds two edits of a list (put one in, take one out).  It takes the place of the community
module in everything the proofs reach, because `SequencesExt` brings definitions along that the prover
does not accept.

The proofs: `CommonLemmas` (sequences, minima, remainders, the blocks received of a stream),
`TrackerLemmas` (interval list, ring, slots modulo `N`), `Receiver_proofs` (tracker, fate of packets,
RECOVERED frames), `WindowFlow_proofs` (sending window and window flow), `Plugin_proofs` (pool, protocol
operations), and for the streams `StreamsInvariant` (the invariant and the kinds of steps, definitions
only), `StreamSteps_proofs` (what each kind of step keeps), `StreamActions_proofs` (what the client and
the server do to a stream) and `Streams_proofs` (every action is a step of one of these kinds, and the
theorems).

Data is reduced to what the properties tell apart.  Payloads are not modelled, a protected packet holds
one symbol, allocation does not fail, there is one path (as the FEC code assumes,
`protoops/pre_packet_has_been_lost.c:7`).

## What TLC checks

Most components do not interact in the properties checked, so a run takes several of them side by side.
An `MC` module EXTENDS one component and INSTANCEs the others, picks in its initial state the *part* that
moves, and leaves the others where they began: the states are the sum of the parts, not their product.  A
property that is a conjunction says "if this part is in play, its properties hold".

| run | properties | what they say |
|---|---|---|
| `window_flow` | `NothingLostForGood`, `CreditProtectsRing`, `WindowIsSound`, `EverythingArrives` | what was sent is at the receiver or still protected; the credit keeps the ring exact for every id a repair symbol refers to; the window is gapless, starts at a missing symbol and drops none the peer lacks; every symbol is sent, arrives and leaves the window in the end, unless an RWIN frame was lost in a packet with nothing to retransmit |
| `fec` | `TrackerIsExact`, `RingIsExact`, `WindowsAreExact`, `RecoveredFrameIsExact`, `SlotsAreExact`, `DegreesAreExact` | the tracker and the ring hold what was received; the window never takes a symbol back; a RECOVERED frame fits and is understood; reservations are those in the four queues, a lost symbol the peer needs has an answer under way; the incremental degrees of freedom are those recomputed from the history |
| `reports` | `ReportsAreSound`, `ReportedUnlessLost`, `TimersAreSound`, `SilentPeerIsGivenUp`, `EndedStreamIsDelivered` | counters of RECOVERED frames; rebuilt packets are reported; a connection wakes in time, gives up only after the retransmissions it owes, and does give a silent peer up, and the window of New Reno grows no faster than acknowledgements allow; a stream that was ended is delivered |
| `packets` | `FateIsSound`, `AcksAreSound`, `PluginQueuesAreSound`, `WindowsFollowTheirAlgorithm` | one fate and one true announcement per packet; ACK frames tell nothing that was not received and nothing is forgotten too soon; no slot of a plugin is lost or served twice, counters agree with queues, an idle connection serves plugins; the congestion window follows filter and curve, and BBR leaves PROBE_RTT with the window it entered with, or with what the path holds if that is less |
| `streams` | `BlocksAreInOrder`, `NothingIsLost`, `EndIsTheEnd`, `NoErrorIsRaised`, `TurnsAreTaken`, `StreamsAreSound` | reassembly in order, no byte without a holder, the end told at the end, no limit found broken, turns between streams; `StreamsAreSound` has the same for other configurations (a longer stream, little credit and resets, polling and stops) |
| `structures` | `PoolIsAnAllocator`, `AckedRangesAreExact`, `TreesAreExact`, `LossHistoryIsExact`, `FramesAreExact`, `HeadersAreExact`, `ParametersAreExact` | each structure answers for the set or map it stands for after any sequence of calls; the estimates of the loss monitor are those of its history and rest on nothing older than the life of an event and the estimation interval together; what is written is what is read |
| `endpoints` | `ConnectionIsSound`, `PluginsAreWhole`, `ExchangeIsSound`, `CallsAreIsolated` | a confirmed handshake is complete, a handshake with a packet missing has something left to send, the end is told; plugins are inserted whole, never have two owners, lose theirs only where the search of the cache drops one, and the negotiated ones are there; an archive arrives as it was; a call leaves its caller's context as it found it |

Runs that TLC refutes, each a place where the code departs from what its own comments, messages or tests
say:

| run | what happens |
|---|---|
| `late_ack` | lower blocks of an ACK frame are skipped though they acknowledge packets in `lost_packets` |
| `stop_sending` | the error code of STOP_SENDING is written in 16 bits and read as a varint |
| `plugin_transaction` | the pluglets of a plugin whose insertion fails stay in the operations |
| `reset_then_data` | an active stream is polled, and its data sent, after its RESET_STREAM |
| `observed_value` | an observer that calls another operation no longer finds the returned value it observes |

The modules state further properties that this code breaks.  They have no run of their own; most quote, where
they are defined, the comment or the message they are taken from.  TLC refutes them on the instances of the
MC modules, except where the table names the constants the case needs.

| module | refuted property |
|---|---|
| `SendWindow` | `KeptUntilReceived` with `MaxLag > N`: a symbol announced after its slot was reused flags another one |
| `WindowFlow` | `CreditComesBack`, with the fairness below: an RWIN frame that is lost in a packet with nothing to retransmit is reported as received (`sender.c:3396`), no other one is reserved, and the sender waits for credit |
| `PacketFate` | `ValuableRangesAreNoted`: an address is compared with a packet number |
| `RecoveredFrames`, `RecoveredWire` | `EveryRecoveryIsReported`: a lost RECOVERED frame is not sent again; `IdsSurviveTheWire`: the third packet range inside one id range is read with a wrong id |
| `Streams` | `FoundStreamHasAFrame`: a stream is chosen that has nothing to send; `CreditedIsComplete`: a stream gives credit for a new one before all of it arrived |
| `SackLists`, `AckExchange`, `LossRecovery` | `AckedIsNotRepeated`, `ProcessedOnce`, `AcknowledgedIsForgotten`: forgotten ranges let bytes be repeated and packets be processed again, and acknowledged packets are kept |
| `Connection` | `ClosedIsToldOnce`, `StateChangesAreObserved`, `DisconnectedIsFinal`, `HandshakeQueuesAreEmptied` |
| `PacketHeader`, `TransportParameters` | `VersionNegotiationIsRead`; `StreamLimitIsThePeers`, when `Params` has a `streams_bidi` of 0: the own limit is taken for the peer's |
| `FrameScheduler` | `NotifiedIsTrue`: a frame is reported received when its packet was only freed; `SkippedDoesNotFit`, when a slot of `Kinds` has size `Mss - Header`: it fits exactly and is passed over |
| `ProtoopCalls` | `UnknownParameterReturns`: the fatal error a comment says is gone is still there |
| `PluginLoad` | `EveryPluginHasAnOwner`: after a search of the cache that finds nothing, the loop of `plugin.c:961` has taken the oldest entry out and nobody holds it |
| `CongestionControl` | `CubicKeepsMinimum`: a loss multiplies the window without a floor (`cubic.c:145-158`, 347-355); `StalledRoundsAreRounds`, with `CwinInitial = 16` and `Fills = FALSE`: acknowledgements outside a full window count one round again; `WestwoodPacingFollowsWindow`, `WestwoodLossReduces` |
| `LossMonitor`, `MinMaxHeap`, `RedBlackTree` | `MemoryIsBounded`; `UsableRestsOnEnough`: estimates stay usable when events expire below `MIN_STORED_EVENTS_FOR_ESTIMATION`; `PopMaxRemovesMax`; `DeleteMaxRemoves` (`rbt_delete_max` has no caller) |

### Bounds

Rings of 3 or 4 slots with twice as many ids make every slot be reused, full, empty and wrapped; a window
of one symbol more than the credit makes the credit bind.  Four packets allow an ACK frame or a RECOVERED
frame of two ranges with a packet below, between and above.  Eight packets let a RECOVERED frame have
four ranges and overflow its (scaled) size: `OneByte`, `Longest` and `MaxBytes` scale the 64, 8 and 1000
of the code together.  Three slots are a source symbol, the repair symbol that answers its loss, and the
answer to the loss of that one.  Streams of four bytes with rooms of 1 to 3 are split twice; two streams
with less credit than data wait for each other.  Nine keys give a red-black tree of height four, where
every case of its deletion occurs.  Times run to past the silence after which a peer is given up.
In `window_flow` the threshold for a new RWIN frame is 0 for rings of two; with `MaxSize = 3`, `RwinSizes =
{3}` and `MaxLag = 2` it is 1, and the same properties hold (1.2 million states, 6 minutes).

`MaxLosses`, `MaxPackets`, `MaxFlight`, `MaxFrames`, `MaxDatagrams`, `MaxSegments`, `MaxSteps`,
`MaxDepth`, `MaxTime`, `MaxFaults`, `MaxReports` and the like bound what is outstanding or how long a behaviour is; they are guards,
and the state of a run is left when its bound is used up, which is why deadlock is not checked.

Assumptions on the environment: `MaxLag <= N`, a packet is announced before 8000 further symbols were sent
(the code does not enforce it; a slot that is reused before a late announcement is thus outside the runs and
the theorems, and breaks `KeptUntilReceived`, see above); `InitialSymbols <= Size + 1`, the credit of the transport parameters fits
the ring; `set_rwin_size` is called before the first symbol, as its comment asks; in the slots, feedback
arrives while the history still has the slot (8005 slots), and two repair frames do not fit in a packet; a source symbol (at most 1313 bytes) fits the slot it is
reserved for (`DEFAULT_SLOT_SIZE`, 1320); a plugin frees only what its pool gave it, once.

### Fairness

- `EverythingArrives`: the sender sends when it may (the packet loop), a symbol of the window is rebuilt at
  some time (repair symbols are sent while the window is not empty), an RWIN frame asked for is reserved, a
  reserved one is written, and the core reports the fate of one that was written.  Strong fairness on
  processing RWIN frames says that the network does not lose all of them.  Nothing is assumed of the delivery
  of source packets, nor of their announcement: an acknowledgement the sender skips, or a RECOVERED frame that
  is lost and not sent again, costs the sender a flag and no credit.
- `ReportedUnlessLost`: a reserved frame is written, a packet that is not lost arrives and is acknowledged.
  It says nothing of a behaviour in which a RECOVERED frame is lost (`EveryRecoveryIsReported` is refuted).
- `SilentPeerIsGivenUp`: time passes and the loop calls a connection whose wake time has come.
- `EndedStreamIsDelivered`: both ends prepare packets when they have something to send, a packet that waits
  for its acknowledgement arrives (it is repeated until it does; losses are bounded), and credit frames are
  processed.

## What is proved

For every value of the constants, within the named assumptions of each module (`...Assumption`):

| theorem | states | inductive invariant, and why it is needed |
|---|---|---|
| `TrackerListIsExact`, `TrackerStaysExact` | the tracker is exact for any order and number of arrivals | `TrackerTypeOK /\ ListIsExact` |
| `RingStaysExact` | the ring holds exactly the symbols received among its last ids, each where the decoder looks, unless an id jumped past a whole ring | `RingExact`: also what the other entries of the array are, since a later id moves them into view |
| `WindowStaysContiguous` | the window is a gapless run of ids, each in its slot, the others free | `WindowInv`: an empty window also has `highest_in_transit = 0` |
| `SymbolsKeptUntilReceived`, `DeadlinesStayOnMissingSymbols`, `WindowStaysSound` | with `MaxLag <= N`, no symbol leaves before it was received or given up by the peer, the deadline trees name missing symbols only | `KeepInv`: a flag means received, and the peer's smallest id is at most one beyond what was sent; `DeadlineInv`: the trees are inverse of each other |
| `NothingEverComesBack` | no step brings a symbol back or lowers a bound of the peer | an action property, from `WindowInv` |
| `FlowImplementsSendWindow` | sender, network and receiver implement the sender's specification | the receiver's side of `FlowInv` |
| `NoSymbolLostForGood` | with `MaxLag <= N`, everything sent is received or still protected | `FlowInv`: every smallest id on its way or at either end is *safe* (everything below it was received) |
| `CreditAlwaysProtectsRing` | the ring is exact for the ids of the window, and no symbol in flight is a ring's length above the last one | `CreditInv`: what is sent stays within the ring's size of the bound the receiver gave, and the window holds nothing below that bound |
| `FateStaysSound` | one fate and at most one announcement per packet, and true ones | `FateInv`: where a packet may be, given its number and kind, and that noted ranges name rebuilt packets only |
| `ReportsStaySound` | the RECOVERED counters are exact, no frame is empty | `ReportInv`: a reserved frame stands for a packet that no frame in flight names, so no notification can take it away |
| `PoolIsSound`, `PoolImplementsAllocator` | the pool implements an allocator that hands out any block nobody holds | `PoolInv`: the chain through the blocks, as a sequence without repetition |
| `CallsStayIsolated` | a call gives its caller its context back, and no operation runs twice at a time, for any nesting | `CallInv`: every entry of the stack keeps what its caller saved, and the running operations are those of the stack |
| `ServerFindsNoFault` | a server never finds a limit or a final size broken by a client of the same code | `StreamsInv` (below) |
| `BlocksStayInOrder`, `EndSignalledIsTheEnd` | reassembly keeps disjoint blocks in order; the end is told when everything was given | `StreamsInv` |
| `NoByteIsLost` | each byte and FIN of a stream that was not reset is at the server or in a frame that waits for its acknowledgement | `StreamsInv /\ NothingIsLost` |
| `StreamsTakeTurns` | no stream sends data twice in a row while another is ready | an action property, from `StreamsInv` |

`StreamsInv` has five parts: types; what holds of the two ends of each stream and of each frame
(`HeadsInv`); flow control (`StreamCredit`), where the bytes the client counted and the server did not are
the *sum* over the streams of what was sent beyond the highest offset the server knows, a sum stated with
a numbering of the streams and its partial sums because a recursive sum cannot be reasoned about; the
frames that wait for an acknowledgement (`LiveInv`), no two of which carry the same byte, and of each of
which the server holds all or nothing; and that no error was raised.  `LiveInv` is what makes splitting a
lost frame safe: both halves are still whole or absent.  The stream theorems assume `OneWay` (no
application lets streams be polled and resets streams too; otherwise the run `reset_then_data` shows what
happens), and `NoByteIsLost` also `MinRoom > 0` (a retransmission finds room for a byte).

The argument for the window rests on `ModInjective` (two ids less than `N` apart have different slots), the
one for the composition on refinement: once every step of `WindowFlow` is a step of `SendWindow`, the
sender's invariants carry over.  Loops of the code that stop at the first match are `Min` of a set of
positions; `MinOfPositions` is the one fact about them.

Only model-checked:

- liveness (`EverythingArrives`, `ReportedUnlessLost`, `SilentPeerIsGivenUp`, `EndedStreamIsDelivered`),
  which the prover does not handle;
- what loops over data of any length compute: trees, heap, SACK lists, wire formats, the loss monitor,
  the congestion controllers, the slots with their controller.  It takes induction over data, which the
  installed provers do not do, and recursive operators, which they do not accept;
- the handshake, the plugin cache and the plugin exchange, whose properties are about finitely many steps
  of two endpoints and are covered by their instances;
- every refuted property.

## What is not modelled

The online and offline RLC decoders (elimination over GF(256); the models take from the decoder that what
it rebuilds is a symbol the window covers), GF(256) tables and generators, the deadline chunks and message
schedulers, the splitting of repair symbols over frames, Tetrys (the coding runs in another process), the
older `fec-pquic` plugin, multipath, 0-RTT, key update, hystart, the hash table (a function), TLS, encryption,
the virtual machine (a pluglet is what its C source does), logging, sockets, files, the demonstration
programs.  `plugins/cop2` is the output of a preprocessor; `plugins/tlp` does not compile against this core.
