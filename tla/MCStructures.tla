---------------------------- MODULE MCStructures ----------------------------
(***************************************************************************)
(* The search structures of the core and of the plugins, and the memory of  *)
(* a plugin, and the bytes of the core: frames, packet headers with the     *)
(* contexts they are sent to, and transport parameters.                     *)
(***************************************************************************)
EXTENDS MemoryPool

\* Transport parameters: the values of the code and small ones.
MCUsual == [data_bidi_local |-> 2097152, data_bidi_remote |-> 65635, data_uni |-> 65535, data |-> 1048576,
    streams_bidi |-> 10000, streams_uni |-> 10000, idle |-> 15000, packet_size |-> 1440, exponent |-> 3,
    no_migration |-> FALSE, supported |-> 0, inject |-> 0, plugin |-> 0]
MCSmall == [MCUsual EXCEPT !.data_bidi_local = 63, !.data_bidi_remote = 0, !.data_uni = 0, !.data = 64,
    !.streams_bidi = 3, !.streams_uni = 0, !.packet_size = 0, !.exponent = 10, !.no_migration = TRUE, !.idle = 0]
MCParams == {[p EXCEPT !.data = d, !.supported = s, !.inject = i, !.plugin = g] :
    p \in {MCUsual, MCSmall}, d \in {0, 16384}, s \in {0, 107}, i \in {0, 63}, g \in {0, 1}}

\* Datagrams that may be sent, as the types of their packets.
MCOpening == {<<"initial">>, <<"initial", "0rtt">>, <<"initial", "handshake", "1rtt">>}
MCLater == {<<"initial", "0rtt">>, <<"handshake", "1rtt">>, <<"1rtt">>}
MCServer == {<<"initial", "handshake", "1rtt">>, <<"1rtt">>}

VARIABLES part, sacks_length, sacks_sack, sacks_acked, sacks_fin_acked, tree_root, heap_pq, splay_tree,
    loss_now, loss_sent, loss_fate, loss_reports, loss_monitor, loss_blocks, loss_basis, loss_answer,
    codec_epoch, codec_capacity, codec_wire, codec_written, address_cli, address_srv, address_by_net,
    address_net, address_reading, numbers_cli, numbers_srv, numbers_by_net, numbers_net,
    numbers_reading, unproven_cli, unproven_srv, unproven_by_net, unproven_net, unproven_reading,
    parameters_local, parameters_wire, parameters_remote, parameters_limits, parameters_early,
    parameters_status

Sacks == INSTANCE SackLists WITH
    StreamLengths <- {0, 6}, Wrap <- 16, MaxAckBlocks <- 1,
    length <- sacks_length, sack <- sacks_sack, acked <- sacks_acked, fin_acked <- sacks_fin_acked

Tree == INSTANCE RedBlackTree WITH
    Keys <- 1..9, Values <- {1}, RBT_MAX_DEPTH <- 6,
    UINT64_MAX <- 100, root <- tree_root

Heap == INSTANCE MinMaxHeap WITH
    Keys <- 1..5, MaxSize <- 9, pq <- heap_pq

Splay == INSTANCE SplayTree WITH
    Values <- 1..4, Cells <- 1..5, tree <- splay_tree

Loss == INSTANCE LossMonitor WITH
    MAX_STORED_EVENTS <- 2, MIN_STORED_EVENTS_FOR_ESTIMATION <- 2,
    Lifetime <- 2, Interval <- 2, Granularity <- 100, MaxReports <- 3, MaxPackets <- 3, MaxTime <- 5,
    now <- loss_now, sent <- loss_sent, fate <- loss_fate, reports <- loss_reports,
    monitor <- loss_monitor, blocks <- loss_blocks, basis <- loss_basis, answer <- loss_answer

Codec == INSTANCE FrameCodec WITH
    Writers <- {"stop_sending", "reset_stream", "stream", "polled", "crypto_hs", "handshake_done", "ack", "connection_close", "application_close", "max_data", "max_stream_data", "path_challenge", "path_response", "plugin_validate", "plugin", "ping", "padding", "foreign"},
    StopErrors <- {0}, Epochs <- {0, 3}, Capacities <- {24, 80}, Numbers <- {0, 64, 16384},
    Lengths <- {0, 17, 63, 64, 75}, MaxFrames <- 2, epoch <- codec_epoch, capacity <- codec_capacity,
    wire <- codec_wire, written <- codec_written

Address == INSTANCE PacketHeader WITH
    Clients <- {1, 2}, AddressOf <- <<1, 1>>, Proposed <- {1},
    Supported <- <<1, 2>>, UseRetry <- FALSE, ClientDatagrams <- MCOpening,
    ServerDatagrams <- MCServer, Jumps <- {0}, PnSpan <- 8, MaxNumber <- 9, MaxContexts <- 3,
    MaxDatagrams <- 3, cli <- address_cli, srv <- address_srv, by_net <- address_by_net,
    net <- address_net, reading <- address_reading

Numbers == INSTANCE PacketHeader WITH
    Clients <- {1}, AddressOf <- <<1, 1>>, Proposed <- {1},
    Supported <- <<1, 2>>, UseRetry <- FALSE, ClientDatagrams <- MCLater, ServerDatagrams <- MCServer,
    Jumps <- {0, 1}, PnSpan <- 4, MaxNumber <- 6, MaxContexts <- 2, MaxDatagrams <- 4,
    cli <- numbers_cli, srv <- numbers_srv, by_net <- numbers_by_net, net <- numbers_net,
    reading <- numbers_reading

Unproven == INSTANCE PacketHeader WITH
    Clients <- {1}, AddressOf <- <<1, 1>>, Proposed <- {1, 9},
    Supported <- <<1, 2>>, UseRetry <- TRUE, ClientDatagrams <- MCOpening \cup {<<"1rtt">>},
    ServerDatagrams <- MCServer, Jumps <- {0}, PnSpan <- 8, MaxNumber <- 4, MaxContexts <- 3,
    MaxDatagrams <- 4, cli <- unproven_cli, srv <- unproven_srv, by_net <- unproven_by_net,
    net <- unproven_net, reading <- unproven_reading

Parameters == INSTANCE TransportParameters WITH
    Params <- MCParams, BufferSize <- 256,
    DefaultWindow <- 4096, local <- parameters_local, wire <- parameters_wire,
    remote <- parameters_remote, limits <- parameters_limits, early <- parameters_early,
    status <- parameters_status

PoolVars == <<num_initialized, num_free_blocks, next, header, held, asked, returned>>
SacksVars == <<sacks_length, sacks_sack, sacks_acked, sacks_fin_acked>>
TreeVars == <<tree_root>>
HeapVars == <<heap_pq>>
SplayVars == <<splay_tree>>
LossVars == <<loss_now, loss_sent, loss_fate, loss_reports, loss_monitor, loss_blocks, loss_basis,
    loss_answer>>
CodecVars == <<codec_epoch, codec_capacity, codec_wire, codec_written>>
AddressVars == <<address_cli, address_srv, address_by_net, address_net, address_reading>>
NumbersVars == <<numbers_cli, numbers_srv, numbers_by_net, numbers_net, numbers_reading>>
UnprovenVars == <<unproven_cli, unproven_srv, unproven_by_net, unproven_net, unproven_reading>>
ParametersVars == <<parameters_local, parameters_wire, parameters_remote, parameters_limits,
    parameters_early, parameters_status>>

\* The parts that are not in play keep this value.
Idle == 0

PoolIdle == init_block_memory_management
SacksIdle == sacks_length = Idle /\ sacks_sack = Idle /\ sacks_acked = Idle
    /\ sacks_fin_acked = Idle
TreeIdle == tree_root = Idle
HeapIdle == heap_pq = Idle
SplayIdle == splay_tree = Idle
LossIdle == loss_now = Idle /\ loss_sent = Idle /\ loss_fate = Idle /\ loss_reports = Idle
    /\ loss_monitor = Idle /\ loss_blocks = Idle /\ loss_basis = Idle /\ loss_answer = Idle
CodecIdle == codec_epoch = Idle /\ codec_capacity = Idle /\ codec_wire = Idle
    /\ codec_written = Idle
AddressIdle == address_cli = Idle /\ address_srv = Idle /\ address_by_net = Idle
    /\ address_net = Idle /\ address_reading = Idle
NumbersIdle == numbers_cli = Idle /\ numbers_srv = Idle /\ numbers_by_net = Idle
    /\ numbers_net = Idle /\ numbers_reading = Idle
UnprovenIdle == unproven_cli = Idle /\ unproven_srv = Idle /\ unproven_by_net = Idle
    /\ unproven_net = Idle /\ unproven_reading = Idle
ParametersIdle == parameters_local = Idle /\ parameters_wire = Idle /\ parameters_remote = Idle
    /\ parameters_limits = Idle /\ parameters_early = Idle /\ parameters_status = Idle

\* One part is in play in each behaviour.
MCInit ==
  \/ part = "pool" /\ init_block_memory_management /\ SacksIdle /\ TreeIdle /\ HeapIdle /\ SplayIdle /\ LossIdle
        /\ CodecIdle /\ AddressIdle /\ NumbersIdle /\ UnprovenIdle
        /\ ParametersIdle
  \/ part = "sacks" /\ Sacks!Init /\ PoolIdle /\ TreeIdle /\ HeapIdle /\ SplayIdle /\ LossIdle
        /\ CodecIdle /\ AddressIdle /\ NumbersIdle /\ UnprovenIdle
        /\ ParametersIdle
  \/ part = "tree" /\ Tree!Init /\ PoolIdle /\ SacksIdle /\ HeapIdle /\ SplayIdle /\ LossIdle
        /\ CodecIdle /\ AddressIdle /\ NumbersIdle /\ UnprovenIdle
        /\ ParametersIdle
  \/ part = "heap" /\ Heap!Init /\ PoolIdle /\ SacksIdle /\ TreeIdle /\ SplayIdle /\ LossIdle
        /\ CodecIdle /\ AddressIdle /\ NumbersIdle /\ UnprovenIdle
        /\ ParametersIdle
  \/ part = "splay" /\ Splay!Init /\ PoolIdle /\ SacksIdle /\ TreeIdle /\ HeapIdle /\ LossIdle
        /\ CodecIdle /\ AddressIdle /\ NumbersIdle /\ UnprovenIdle
        /\ ParametersIdle
  \/ part = "loss" /\ Loss!Init /\ PoolIdle /\ SacksIdle /\ TreeIdle /\ HeapIdle /\ SplayIdle
        /\ CodecIdle /\ AddressIdle /\ NumbersIdle /\ UnprovenIdle
        /\ ParametersIdle
  \/ part = "codec" /\ Codec!Init /\ PoolIdle /\ SacksIdle /\ TreeIdle /\ HeapIdle /\ SplayIdle
        /\ LossIdle /\ AddressIdle /\ NumbersIdle /\ UnprovenIdle
        /\ ParametersIdle
  \/ part = "address" /\ Address!Init /\ PoolIdle /\ SacksIdle /\ TreeIdle /\ HeapIdle /\ SplayIdle
        /\ LossIdle /\ CodecIdle /\ NumbersIdle /\ UnprovenIdle
        /\ ParametersIdle
  \/ part = "numbers" /\ Numbers!Init /\ PoolIdle /\ SacksIdle /\ TreeIdle /\ HeapIdle /\ SplayIdle
        /\ LossIdle /\ CodecIdle /\ AddressIdle /\ UnprovenIdle
        /\ ParametersIdle
  \/ part = "unproven" /\ Unproven!Init /\ PoolIdle /\ SacksIdle /\ TreeIdle /\ HeapIdle /\ SplayIdle
        /\ LossIdle /\ CodecIdle /\ AddressIdle /\ NumbersIdle
        /\ ParametersIdle
  \/ part = "parameters" /\ Parameters!Init /\ PoolIdle /\ SacksIdle /\ TreeIdle /\ HeapIdle /\ SplayIdle
        /\ LossIdle /\ CodecIdle /\ AddressIdle /\ NumbersIdle
        /\ UnprovenIdle

MCNext ==
  \/ part = "pool" /\ PoolNext /\ UNCHANGED <<part, SacksVars, TreeVars, HeapVars, SplayVars, LossVars, CodecVars, AddressVars, NumbersVars, UnprovenVars, ParametersVars>>
  \/ part = "sacks" /\ Sacks!Next /\ UNCHANGED <<part, PoolVars, TreeVars, HeapVars, SplayVars, LossVars, CodecVars, AddressVars, NumbersVars, UnprovenVars, ParametersVars>>
  \/ part = "tree" /\ Tree!Next /\ UNCHANGED <<part, PoolVars, SacksVars, HeapVars, SplayVars, LossVars, CodecVars, AddressVars, NumbersVars, UnprovenVars, ParametersVars>>
  \/ part = "heap" /\ Heap!Next /\ UNCHANGED <<part, PoolVars, SacksVars, TreeVars, SplayVars, LossVars, CodecVars, AddressVars, NumbersVars, UnprovenVars, ParametersVars>>
  \/ part = "splay" /\ Splay!Next /\ UNCHANGED <<part, PoolVars, SacksVars, TreeVars, HeapVars, LossVars, CodecVars, AddressVars, NumbersVars, UnprovenVars, ParametersVars>>
  \/ part = "loss" /\ Loss!Next /\ UNCHANGED <<part, PoolVars, SacksVars, TreeVars, HeapVars, SplayVars, CodecVars, AddressVars, NumbersVars, UnprovenVars, ParametersVars>>
  \/ part = "codec" /\ Codec!Next /\ UNCHANGED <<part, PoolVars, SacksVars, TreeVars, HeapVars, SplayVars, LossVars, AddressVars, NumbersVars, UnprovenVars, ParametersVars>>
  \/ part = "address" /\ Address!Next /\ UNCHANGED <<part, PoolVars, SacksVars, TreeVars, HeapVars, SplayVars, LossVars, CodecVars, NumbersVars, UnprovenVars, ParametersVars>>
  \/ part = "numbers" /\ Numbers!Next /\ UNCHANGED <<part, PoolVars, SacksVars, TreeVars, HeapVars, SplayVars, LossVars, CodecVars, AddressVars, UnprovenVars, ParametersVars>>
  \/ part = "unproven" /\ Unproven!Next /\ UNCHANGED <<part, PoolVars, SacksVars, TreeVars, HeapVars, SplayVars, LossVars, CodecVars, AddressVars, NumbersVars, ParametersVars>>
  \/ part = "parameters" /\ Parameters!Next /\ UNCHANGED <<part, PoolVars, SacksVars, TreeVars, HeapVars, SplayVars, LossVars, CodecVars, AddressVars, NumbersVars, UnprovenVars>>

MCVars == <<part, PoolVars, SacksVars, TreeVars, HeapVars, SplayVars, LossVars, CodecVars, AddressVars,
    NumbersVars, UnprovenVars, ParametersVars>>

MCSpec == MCInit /\ [][MCNext]_MCVars

\* The lists of acknowledged ranges (sacks.c) hold what was acknowledged and nothing else, answer for it, are read
\* back from the ACK frames they are written to, and never make a retransmission leave out a FIN.
AckedRangesAreExact == part = "sacks" => Sacks!SackListIsExact /\ Sacks!CheckAnswersForTheSet /\ Sacks!AckFrameIsReadBack /\ Sacks!FinIsRepeated

\* The red-black tree, in both copies, and the splay tree of the wake-up times stay trees of their kind and answer
\* for the set that was put into them, whatever the order of insertions and deletions.
TreesAreExact ==
  /\ part = "tree" =>
       Tree!TreeIsBalanced /\ Tree!UpdatesAreExact /\ Tree!LookupsAreExact /\ Tree!StackCopyAgrees
  /\ part = "splay" => Splay!LinksAgree /\ Splay!TreeIsTheList

\* The queue of the newest packets gives its ends and keeps the newest keys; the history of the loss monitor is
\* bounded; and the estimates a controller is given describe the packets they were made from, with their last
\* reported fates, and rest on none older than the lifetime of an event and the interval of estimations allow.
LossHistoryIsExact ==
  /\ part = "heap" => Heap!EndsAreExact /\ Heap!NewestAreKept
  /\ part = "loss" => Loss!EstimatesDescribeTheHistory /\ Loss!HistoryIsBounded /\ Loss!EstimatesAreRecent

\* The frame writers of frames.c stay within the packet, and what they write is read back as it was meant, a close
\* included, by picoquic_decode_frames.
FramesAreExact == part = "codec" => Codec!PacketIsNotOverrun /\ Codec!FramesAreReadBack /\ Codec!CloseIsFound

\* A header is as long as predicted, the packets of a live connection are decoded with their number, and an
\* attempt of a client makes one context.
HeadersAreExact ==
  /\ part = "address" =>
       Address!PredictedHeaderIsExact /\ Address!LivePacketsAreRead /\ Address!OneContextPerAttempt
  /\ part = "numbers" =>
       Numbers!PredictedHeaderIsExact /\ Numbers!LivePacketsAreRead /\ Numbers!OneContextPerAttempt
  /\ part = "unproven" =>
       Unproven!PredictedHeaderIsExact /\ Unproven!LivePacketsAreRead /\ Unproven!OneContextPerAttempt

\* An endpoint accepts the transport parameters its own writer produces, reads the values that were written, and
\* applies them to the streams that were opened before they arrived.
ParametersAreExact == part = "parameters" => Parameters!OwnParametersAreAccepted /\ Parameters!ParametersAreReadBack /\ Parameters!EarlyStreamIsUpdated

=============================================================================
