------------------------------ MODULE MCPackets ------------------------------
(***************************************************************************)
(* What becomes of packets: their fate at a FEC sender, the ACK frames that *)
(* tell it, the queues that plugin frames wait in, and the congestion contro*)
(* of the core and of the westwood plugin.                                  *)
(***************************************************************************)
EXTENDS PacketFate, TLC

\* A frame that obeys the congestion window and is reserved again when lost, and one that does neither.
MCKinds == {[size |-> 2, cc |-> TRUE, again |-> TRUE], [size |-> 3, cc |-> FALSE, again |-> FALSE]}

VARIABLES part, ack_packets, ack_queue, ack_sack, ack_ack_needed, ack_highest_ack_sent, ack_delivered,
    ack_again, one_ack_packets, one_ack_queue, one_ack_sack, one_ack_ack_needed,
    one_ack_highest_ack_sent, one_ack_delivered, one_ack_again, plugins_slot, plugins_c,
    plugins_delivered, plugins_others, plugins_losses, blocks_slot, blocks_c, blocks_delivered,
    blocks_others, blocks_losses, bbr_now, bbr_alg, bbr_path, bbr_cc, bbr_before, probe_now, probe_alg,
    probe_path, probe_cc, probe_before, filter_now, filter_alg, filter_path, filter_cc, filter_before,
    cubic_now, cubic_alg, cubic_path, cubic_cc, cubic_before, westwood_now, westwood_alg,
    westwood_path, westwood_cc, westwood_before

Ack == INSTANCE AckExchange WITH
    Endpoints <- {"a", "b"}, MaxPackets <- ("a" :> 3 @@ "b" :> 2),
    ForcedAckGap <- 2, MaxAckBlocks <- 1, packets <- ack_packets, queue <- ack_queue, sack <- ack_sack,
    ack_needed <- ack_ack_needed, highest_ack_sent <- ack_highest_ack_sent, delivered <- ack_delivered,
    again <- ack_again

OneAck == INSTANCE AckExchange WITH
    Endpoints <- {"a", "b"}, MaxPackets <- ("a" :> 4 @@ "b" :> 1),
    ForcedAckGap <- 2, MaxAckBlocks <- 1, packets <- one_ack_packets, queue <- one_ack_queue,
    sack <- one_ack_sack, ack_needed <- one_ack_ack_needed,
    highest_ack_sent <- one_ack_highest_ack_sent, delivered <- one_ack_delivered,
    again <- one_ack_again

Plugins == INSTANCE FrameScheduler WITH
    NbPlugins <- 2, Unlimited <- {}, Kinds <- MCKinds,
    BlockSizes <- {1}, Mss <- 5, Header <- 1, Cwin <- 6, CoreRate <- 500,
    Answers <- {"written", "retry", "empty"}, MaxSlots <- 2, MaxOthers <- 1, MaxLosses <- 2,
    slot <- plugins_slot, c <- plugins_c, delivered <- plugins_delivered, others <- plugins_others,
    losses <- plugins_losses

Blocks == INSTANCE FrameScheduler WITH
    NbPlugins <- 1, Unlimited <- {},
    Kinds <- {[size |-> 2, cc |-> TRUE, again |-> TRUE]}, BlockSizes <- {1, 2}, Mss <- 5, Header <- 1,
    Cwin <- 3, CoreRate <- 500, Answers <- {"written"}, MaxSlots <- 5, MaxOthers <- 1, MaxLosses <- 2,
    slot <- blocks_slot, c <- blocks_c, delivered <- blocks_delivered, others <- blocks_others,
    losses <- blocks_losses

Bbr == INSTANCE CongestionControl WITH
    Algorithms <- {"bbr"}, Mtu <- 8, CwinInitial <- 24,
    CwinMinimum <- 16, SmoothedRtt <- 1, FilterLength <- 2, ProbeInterval <- 1, ProbeDuration <- 1,
    PacingLow <- 4, PacingMedium <- 30, CubicC <- 64, Garbage <- {0, 4}, Fills <- TRUE,
    Losses <- {"repeat", "timeout"}, MaxAcked <- 2, MaxPackets <- 5, MaxTime <- 5, now <- bbr_now,
    alg <- bbr_alg, path <- bbr_path, cc <- bbr_cc, before <- bbr_before

Probe == INSTANCE CongestionControl WITH
    Algorithms <- {"bbr"}, Mtu <- 8, CwinInitial <- 40,
    CwinMinimum <- 16, SmoothedRtt <- 1, FilterLength <- 2, ProbeInterval <- 1, ProbeDuration <- 1,
    PacingLow <- 4, PacingMedium <- 30, CubicC <- 64, Garbage <- {40}, Fills <- TRUE,
    Losses <- {"timeout"}, MaxAcked <- 3, MaxPackets <- 6, MaxTime <- 5, now <- probe_now,
    alg <- probe_alg, path <- probe_path, cc <- probe_cc, before <- probe_before

Filter == INSTANCE CongestionControl WITH
    Algorithms <- {"bbr"}, Mtu <- 8, CwinInitial <- 16,
    CwinMinimum <- 16, SmoothedRtt <- 1, FilterLength <- 2, ProbeInterval <- 1, ProbeDuration <- 1,
    PacingLow <- 4, PacingMedium <- 30, CubicC <- 64, Garbage <- {40}, Fills <- TRUE, Losses <- {},
    MaxAcked <- 1, MaxPackets <- 8, MaxTime <- 5, now <- filter_now, alg <- filter_alg,
    path <- filter_path, cc <- filter_cc, before <- filter_before

Cubic == INSTANCE CongestionControl WITH
    Algorithms <- {"cubic"}, Mtu <- 8, CwinInitial <- 24,
    CwinMinimum <- 16, SmoothedRtt <- 1, FilterLength <- 2, ProbeInterval <- 1, ProbeDuration <- 1,
    PacingLow <- 4, PacingMedium <- 30, CubicC <- 64, Garbage <- {0, 4}, Fills <- TRUE,
    Losses <- {"repeat", "timeout"}, MaxAcked <- 2, MaxPackets <- 5, MaxTime <- 5, now <- cubic_now,
    alg <- cubic_alg, path <- cubic_path, cc <- cubic_cc, before <- cubic_before

Westwood == INSTANCE CongestionControl WITH
    Algorithms <- {"westwood"}, Mtu <- 8,
    CwinInitial <- 24, CwinMinimum <- 16, SmoothedRtt <- 1, FilterLength <- 2, ProbeInterval <- 1,
    ProbeDuration <- 1, PacingLow <- 4, PacingMedium <- 30, CubicC <- 64, Garbage <- {0, 4},
    Fills <- TRUE, Losses <- {"repeat", "timeout"}, MaxAcked <- 2, MaxPackets <- 5, MaxTime <- 5,
    now <- westwood_now, alg <- westwood_alg, path <- westwood_path, cc <- westwood_cc,
    before <- westwood_before

FateVars == <<send_sequence, fec_related, queue, lost_packets, recovered_packets_ranges, announced,
    announced_twice, named, arrived, recovered>>
AckVars == <<ack_packets, ack_queue, ack_sack, ack_ack_needed, ack_highest_ack_sent, ack_delivered,
    ack_again>>
OneAckVars == <<one_ack_packets, one_ack_queue, one_ack_sack, one_ack_ack_needed,
    one_ack_highest_ack_sent, one_ack_delivered, one_ack_again>>
PluginsVars == <<plugins_slot, plugins_c, plugins_delivered, plugins_others, plugins_losses>>
BlocksVars == <<blocks_slot, blocks_c, blocks_delivered, blocks_others, blocks_losses>>
BbrVars == <<bbr_now, bbr_alg, bbr_path, bbr_cc, bbr_before>>
ProbeVars == <<probe_now, probe_alg, probe_path, probe_cc, probe_before>>
FilterVars == <<filter_now, filter_alg, filter_path, filter_cc, filter_before>>
CubicVars == <<cubic_now, cubic_alg, cubic_path, cubic_cc, cubic_before>>
WestwoodVars == <<westwood_now, westwood_alg, westwood_path, westwood_cc, westwood_before>>

\* The parts that are not in play keep this value.
Idle == 0

FateIdle == FateInit
AckIdle == ack_packets = Idle /\ ack_queue = Idle /\ ack_sack = Idle /\ ack_ack_needed = Idle
    /\ ack_highest_ack_sent = Idle /\ ack_delivered = Idle /\ ack_again = Idle
OneAckIdle == one_ack_packets = Idle /\ one_ack_queue = Idle /\ one_ack_sack = Idle
    /\ one_ack_ack_needed = Idle /\ one_ack_highest_ack_sent = Idle /\ one_ack_delivered = Idle
    /\ one_ack_again = Idle
PluginsIdle == plugins_slot = Idle /\ plugins_c = Idle /\ plugins_delivered = Idle
    /\ plugins_others = Idle /\ plugins_losses = Idle
BlocksIdle == blocks_slot = Idle /\ blocks_c = Idle /\ blocks_delivered = Idle
    /\ blocks_others = Idle /\ blocks_losses = Idle
BbrIdle == bbr_now = Idle /\ bbr_alg = Idle /\ bbr_path = Idle /\ bbr_cc = Idle
    /\ bbr_before = Idle
ProbeIdle == Probe!Init
FilterIdle == filter_now = Idle /\ filter_alg = Idle /\ filter_path = Idle /\ filter_cc = Idle
    /\ filter_before = Idle
CubicIdle == cubic_now = Idle /\ cubic_alg = Idle /\ cubic_path = Idle /\ cubic_cc = Idle
    /\ cubic_before = Idle
WestwoodIdle == westwood_now = Idle /\ westwood_alg = Idle /\ westwood_path = Idle
    /\ westwood_cc = Idle /\ westwood_before = Idle

\* One part is in play in each behaviour.
MCInit ==
  \/ part = "fate" /\ FateInit /\ AckIdle /\ OneAckIdle /\ PluginsIdle /\ BlocksIdle /\ BbrIdle
        /\ ProbeIdle /\ FilterIdle /\ CubicIdle /\ WestwoodIdle
  \/ part = "ack" /\ Ack!Init /\ FateIdle /\ OneAckIdle /\ PluginsIdle /\ BlocksIdle /\ BbrIdle
        /\ ProbeIdle /\ FilterIdle /\ CubicIdle /\ WestwoodIdle
  \/ part = "one_ack" /\ OneAck!Init /\ FateIdle /\ AckIdle /\ PluginsIdle /\ BlocksIdle /\ BbrIdle
        /\ ProbeIdle /\ FilterIdle /\ CubicIdle /\ WestwoodIdle
  \/ part = "plugins" /\ Plugins!Init /\ FateIdle /\ AckIdle /\ OneAckIdle /\ BlocksIdle /\ BbrIdle
        /\ ProbeIdle /\ FilterIdle /\ CubicIdle /\ WestwoodIdle
  \/ part = "blocks" /\ Blocks!Init /\ FateIdle /\ AckIdle /\ OneAckIdle /\ PluginsIdle /\ BbrIdle
        /\ ProbeIdle /\ FilterIdle /\ CubicIdle /\ WestwoodIdle
  \/ part = "bbr" /\ Bbr!Init /\ FateIdle /\ AckIdle /\ OneAckIdle /\ PluginsIdle /\ BlocksIdle
        /\ ProbeIdle /\ FilterIdle /\ CubicIdle /\ WestwoodIdle
  \/ part = "probe" /\ Probe!Init /\ FateIdle /\ AckIdle /\ OneAckIdle /\ PluginsIdle /\ BlocksIdle
        /\ BbrIdle /\ FilterIdle /\ CubicIdle /\ WestwoodIdle
  \/ part = "filter" /\ Filter!Init /\ FateIdle /\ AckIdle /\ OneAckIdle /\ PluginsIdle /\ BlocksIdle
        /\ BbrIdle /\ ProbeIdle /\ CubicIdle /\ WestwoodIdle
  \/ part = "cubic" /\ Cubic!Init /\ FateIdle /\ AckIdle /\ OneAckIdle /\ PluginsIdle /\ BlocksIdle
        /\ BbrIdle /\ ProbeIdle /\ FilterIdle /\ WestwoodIdle
  \/ part = "westwood" /\ Westwood!Init /\ FateIdle /\ AckIdle /\ OneAckIdle /\ PluginsIdle /\ BlocksIdle
        /\ BbrIdle /\ ProbeIdle /\ FilterIdle /\ CubicIdle

MCNext ==
  \/ part = "fate" /\ FateNext /\ UNCHANGED <<part, AckVars, OneAckVars, PluginsVars, BlocksVars, BbrVars, ProbeVars, FilterVars, CubicVars, WestwoodVars>>
  \/ part = "ack" /\ Ack!Next /\ UNCHANGED <<part, FateVars, OneAckVars, PluginsVars, BlocksVars, BbrVars, ProbeVars, FilterVars, CubicVars, WestwoodVars>>
  \/ part = "one_ack" /\ OneAck!Next /\ UNCHANGED <<part, FateVars, AckVars, PluginsVars, BlocksVars, BbrVars, ProbeVars, FilterVars, CubicVars, WestwoodVars>>
  \/ part = "plugins" /\ Plugins!Next /\ UNCHANGED <<part, FateVars, AckVars, OneAckVars, BlocksVars, BbrVars, ProbeVars, FilterVars, CubicVars, WestwoodVars>>
  \/ part = "blocks" /\ Blocks!Next /\ UNCHANGED <<part, FateVars, AckVars, OneAckVars, PluginsVars, BbrVars, ProbeVars, FilterVars, CubicVars, WestwoodVars>>
  \/ part = "bbr" /\ Bbr!Next /\ UNCHANGED <<part, FateVars, AckVars, OneAckVars, PluginsVars, BlocksVars, ProbeVars, FilterVars, CubicVars, WestwoodVars>>
  \/ part = "probe" /\ Probe!Next /\ UNCHANGED <<part, FateVars, AckVars, OneAckVars, PluginsVars, BlocksVars, BbrVars, FilterVars, CubicVars, WestwoodVars>>
  \/ part = "filter" /\ Filter!Next /\ UNCHANGED <<part, FateVars, AckVars, OneAckVars, PluginsVars, BlocksVars, BbrVars, ProbeVars, CubicVars, WestwoodVars>>
  \/ part = "cubic" /\ Cubic!Next /\ UNCHANGED <<part, FateVars, AckVars, OneAckVars, PluginsVars, BlocksVars, BbrVars, ProbeVars, FilterVars, WestwoodVars>>
  \/ part = "westwood" /\ Westwood!Next /\ UNCHANGED <<part, FateVars, AckVars, OneAckVars, PluginsVars, BlocksVars, BbrVars, ProbeVars, FilterVars, CubicVars>>

MCVars == <<part, FateVars, AckVars, OneAckVars, PluginsVars, BlocksVars, BbrVars, ProbeVars,
    FilterVars, CubicVars, WestwoodVars>>

MCSpec == MCInit /\ [][MCNext]_MCVars

\* The ranges of an endpoint stay separated, its ACK frames tell nothing it did not receive, no range is forgotten
\* before the peer knows of it, and every item is safe.
AcksAreSound ==
  /\ part = "ack" =>
       Ack!RangesAreSeparated /\ Ack!AcksAreTruthful /\ Ack!EveryItemIsSafe /\ Ack!ForgottenIsSettled
  /\ part = "one_ack" =>
       OneAck!RangesAreSeparated /\ OneAck!AcksAreTruthful /\ OneAck!EveryItemIsSafe /\
       OneAck!ForgottenIsSettled

\* No reserved slot of a plugin is lost or served twice, the counters are those of the queues, a connection without
\* core data serves the plugins, and the window of the path is kept.
PluginQueuesAreSound ==
  /\ part = "plugins" =>
       Plugins!SlotsAreConserved /\ Plugins!CountersAreExact /\ Plugins!IdleConnectionServes
  /\ part = "blocks" => Blocks!SlotsAreConserved /\ Blocks!CountersAreExact /\ Blocks!WindowIsKept

\* The windows of BBR and Westwood keep the minimum, which Cubic's does not. BBR's window is small while it probes the
\* round trip and is restored afterwards, its bandwidth is the maximum of its filter, and Cubic's window is between the
\* foot of its curve and the curve.
WindowsFollowTheirAlgorithm ==
  /\ [](part = "bbr" => Bbr!ProbeRttKeepsWindowSmall /\ Bbr!WindowKeepsMinimum)
  /\ [](part = "probe" => Probe!WindowKeepsMinimum)
  /\ [](part = "westwood" => Westwood!WindowKeepsMinimum)
  /\ [](part = "filter" => Filter!BandwidthIsTheFilterMax)
  /\ [](part = "cubic" => Cubic!CubicStaysOnItsCurve)
  /\ Probe!WindowIsRestored

=============================================================================
