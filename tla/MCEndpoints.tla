----------------------------- MODULE MCEndpoints -----------------------------
(***************************************************************************)
(* Two endpoints from their first packet to the end of the connection, and t*)
(* plugins they load, exchange and call.                                    *)
(***************************************************************************)
EXTENDS ProtoopCalls, TLC

\* Plugin files: an observer with an operation for the application, a negotiated one with lines behind the
\* marker, a replacement, an observer of what only plugins provide, and two that cannot be inserted.
Line(pid, param, type) == [pid |-> pid, param |-> param, type |-> type, loads |-> TRUE]
Marker == [pid |-> "", param |-> "", type |-> "-", loads |-> TRUE]
MCFiles ==
     "mon" :> [negotiate |-> FALSE, lines |-> <<Line("parse", "f1", "pre"), Line("app", "none", "extern")>>]
  @@ "neg" :> [negotiate |-> TRUE, lines |-> <<Line("tp", "t7", "replace"), Marker, Line("parse", "f2", "replace"),
                                               Line("ready", "none", "post")>>]
  @@ "obs" :> [negotiate |-> FALSE, lines |-> <<Line("ready", "none", "pre"), Line("parse", "f1", "replace")>>]
  @@ "ext" :> [negotiate |-> FALSE, lines |-> <<Line("app", "none", "pre")>>]
  @@ "fail" :> [negotiate |-> FALSE, lines |-> <<Line("ready", "none", "pre"),
                                                 [Line("parse", "f1", "pre") EXCEPT !.loads = FALSE]>>]
MCCore == "parse" :> {"none", "f1"} @@ "ready" :> {"none"}

\* Operations: with observers and a replacement, plain, of a plugin only, and for the application only.
MCOps ==
     <<"parse", "none">> :> [core |-> TRUE, intern |-> TRUE, replace |-> "null", pre |-> <<>>, post |-> <<"A">>]
  @@ <<"parse", "p1">> :> [core |-> TRUE, intern |-> TRUE, replace |-> "A", pre |-> <<"B">>, post |-> <<"A", "B">>]
  @@ <<"get", "none">> :> [core |-> TRUE, intern |-> TRUE, replace |-> "null", pre |-> <<>>, post |-> <<>>]
  @@ <<"write", "p1">> :> [core |-> FALSE, intern |-> TRUE, replace |-> "B", pre |-> <<>>, post |-> <<>>]
  @@ <<"app", "none">> :> [core |-> FALSE, intern |-> FALSE, replace |-> "B", pre |-> <<>>, post |-> <<>>]
MCCalls == {<<"parse", "p1">>, <<"parse", "p2">>, <<"get", "none">>, <<"write", "p1">>, <<"write", "p2">>,
    <<"app", "none">>}

VARIABLES part, handshake_cnx, handshake_net, handshake_faults, handshake_restarts,
    handshake_incarnation, repeated_cnx, repeated_net, repeated_faults, repeated_restarts,
    repeated_incarnation, hasty_cnx, hasty_net, hasty_faults, hasty_restarts, hasty_incarnation,
    unproven_cnx, unproven_net, unproven_faults, unproven_restarts, unproven_incarnation, close_cnx,
    close_net, close_faults, close_restarts, close_incarnation, negotiated_cnx, negotiated_cache,
    negotiated_count, negotiated_freed, cached_cnx, cached_cache, cached_count, cached_freed,
    exchange_plugin_requested, exchange_asked, exchange_snd, exchange_data_sent, exchange_last_visited,
    exchange_frames, exchange_rcv, exchange_data_received, exchange_stored, exchange_heard,
    exchange_arrived, exchange_error

Handshake == INSTANCE Connection WITH
    Flight <- 2, Retry <- FALSE, Calls <- {},
    Duplicates <- FALSE, Spurious <- FALSE, MaxSegments <- 2, MaxFaults <- 1, MaxPackets <- 4,
    cnx <- handshake_cnx, net <- handshake_net, faults <- handshake_faults,
    restarts <- handshake_restarts, incarnation <- handshake_incarnation

Repeated == INSTANCE Connection WITH
    Flight <- 1, Retry <- FALSE, Calls <- {}, Duplicates <- TRUE,
    Spurious <- FALSE, MaxSegments <- 2, MaxFaults <- 1, MaxPackets <- 4, cnx <- repeated_cnx,
    net <- repeated_net, faults <- repeated_faults, restarts <- repeated_restarts,
    incarnation <- repeated_incarnation

Hasty == INSTANCE Connection WITH
    Flight <- 1, Retry <- FALSE, Calls <- {}, Duplicates <- FALSE,
    Spurious <- TRUE, MaxSegments <- 2, MaxFaults <- 0, MaxPackets <- 3, cnx <- hasty_cnx,
    net <- hasty_net, faults <- hasty_faults, restarts <- hasty_restarts,
    incarnation <- hasty_incarnation

Unproven == INSTANCE Connection WITH
    Flight <- 1, Retry <- TRUE, Calls <- {"data"},
    Duplicates <- FALSE, Spurious <- FALSE, MaxSegments <- 2, MaxFaults <- 1, MaxPackets <- 4,
    cnx <- unproven_cnx, net <- unproven_net, faults <- unproven_faults, restarts <- unproven_restarts,
    incarnation <- unproven_incarnation

Close == INSTANCE Connection WITH
    Flight <- 1, Retry <- FALSE,
    Calls <- {"close", "silence", "restart", "reject"}, Duplicates <- FALSE, Spurious <- FALSE,
    MaxSegments <- 2, MaxFaults <- 0, MaxPackets <- 3, cnx <- close_cnx, net <- close_net,
    faults <- close_faults, restarts <- close_restarts, incarnation <- close_incarnation

Negotiated == INSTANCE PluginLoad WITH
    Files <- MCFiles, CoreOps <- MCCore,
    Parametric <- {"parse"}, NO_PARAM <- "none", Local <- <<"neg">>, ToInject <- <<"mon", "obs">>,
    Supported <- {<<>>, <<"mon">>, <<"obs", "mon">>, <<"other">>}, Slots <- {1, 2}, None <- 0,
    MaxPlugins <- 5, MaxCached <- 3, cnx <- negotiated_cnx, cache <- negotiated_cache,
    count <- negotiated_count, freed <- negotiated_freed

Cached == INSTANCE PluginLoad WITH
    Files <- MCFiles, CoreOps <- MCCore, Parametric <- {"parse"},
    NO_PARAM <- "none", Local <- <<>>, ToInject <- <<"mon", "obs", "fail", "ext">>,
    Supported <- {<<>>, <<"mon">>, <<"obs", "mon">>, <<"mon", "ext">>, <<"ext", "mon">>, <<"fail">>},
    Slots <- {1, 2}, None <- 0, MaxPlugins <- 5, MaxCached <- 3, cnx <- cached_cnx,
    cache <- cached_cache, count <- cached_count, freed <- cached_freed

Exchange == INSTANCE PluginExchange WITH
    Plugins <- <<"a", "b", "c">>,
    FrameSize <- ("a" :> 2 @@ "b" :> 1 @@ "c" :> 2), ArchiveSize <- ("a" :> 3 @@ "b" :> 2),
    PacketRooms <- {2, 5}, MaxRoom <- 2, MaxData <- 6, MAX_PLUGIN_DATA_LEN <- 3,
    plugin_requested <- exchange_plugin_requested, asked <- exchange_asked, snd <- exchange_snd,
    data_sent <- exchange_data_sent, last_visited <- exchange_last_visited, frames <- exchange_frames,
    rcv <- exchange_rcv, data_received <- exchange_data_received, stored <- exchange_stored,
    heard <- exchange_heard, arrived <- exchange_arrived, error <- exchange_error

HandshakeVars == <<handshake_cnx, handshake_net, handshake_faults, handshake_restarts,
    handshake_incarnation>>
RepeatedVars == <<repeated_cnx, repeated_net, repeated_faults, repeated_restarts, repeated_incarnation>>
HastyVars == <<hasty_cnx, hasty_net, hasty_faults, hasty_restarts, hasty_incarnation>>
UnprovenVars == <<unproven_cnx, unproven_net, unproven_faults, unproven_restarts, unproven_incarnation>>
CloseVars == <<close_cnx, close_net, close_faults, close_restarts, close_incarnation>>
ProtoopsVars == <<cnx, running, stack, fatal, results, steps>>
NegotiatedVars == <<negotiated_cnx, negotiated_cache, negotiated_count, negotiated_freed>>
CachedVars == <<cached_cnx, cached_cache, cached_count, cached_freed>>
ExchangeVars == <<exchange_plugin_requested, exchange_asked, exchange_snd, exchange_data_sent,
    exchange_last_visited, exchange_frames, exchange_rcv, exchange_data_received, exchange_stored,
    exchange_heard, exchange_arrived, exchange_error>>

\* The parts that are not in play keep this value.
Idle == 0

HandshakeIdle == handshake_cnx = Idle /\ handshake_net = Idle /\ handshake_faults = Idle
    /\ handshake_restarts = Idle /\ handshake_incarnation = Idle
RepeatedIdle == repeated_cnx = Idle /\ repeated_net = Idle /\ repeated_faults = Idle
    /\ repeated_restarts = Idle /\ repeated_incarnation = Idle
HastyIdle == hasty_cnx = Idle /\ hasty_net = Idle /\ hasty_faults = Idle /\ hasty_restarts = Idle
    /\ hasty_incarnation = Idle
UnprovenIdle == unproven_cnx = Idle /\ unproven_net = Idle /\ unproven_faults = Idle
    /\ unproven_restarts = Idle /\ unproven_incarnation = Idle
CloseIdle == close_cnx = Idle /\ close_net = Idle /\ close_faults = Idle /\ close_restarts = Idle
    /\ close_incarnation = Idle
ProtoopsIdle == CallInit
NegotiatedIdle == Negotiated!Init
CachedIdle == Cached!Init
ExchangeIdle == exchange_plugin_requested = Idle /\ exchange_asked = Idle /\ exchange_snd = Idle
    /\ exchange_data_sent = Idle /\ exchange_last_visited = Idle /\ exchange_frames = Idle
    /\ exchange_rcv = Idle /\ exchange_data_received = Idle /\ exchange_stored = Idle
    /\ exchange_heard = Idle /\ exchange_arrived = Idle /\ exchange_error = Idle

\* One part is in play in each behaviour.
MCInit ==
  \/ part = "handshake" /\ Handshake!Init /\ RepeatedIdle /\ HastyIdle /\ UnprovenIdle /\ CloseIdle
        /\ ProtoopsIdle /\ NegotiatedIdle /\ CachedIdle /\ ExchangeIdle
  \/ part = "repeated" /\ Repeated!Init /\ HandshakeIdle /\ HastyIdle /\ UnprovenIdle /\ CloseIdle
        /\ ProtoopsIdle /\ NegotiatedIdle /\ CachedIdle /\ ExchangeIdle
  \/ part = "hasty" /\ Hasty!Init /\ HandshakeIdle /\ RepeatedIdle /\ UnprovenIdle /\ CloseIdle
        /\ ProtoopsIdle /\ NegotiatedIdle /\ CachedIdle /\ ExchangeIdle
  \/ part = "unproven" /\ Unproven!Init /\ HandshakeIdle /\ RepeatedIdle /\ HastyIdle /\ CloseIdle
        /\ ProtoopsIdle /\ NegotiatedIdle /\ CachedIdle /\ ExchangeIdle
  \/ part = "close" /\ Close!Init /\ HandshakeIdle /\ RepeatedIdle /\ HastyIdle /\ UnprovenIdle
        /\ ProtoopsIdle /\ NegotiatedIdle /\ CachedIdle /\ ExchangeIdle
  \/ part = "protoops" /\ CallInit /\ HandshakeIdle /\ RepeatedIdle /\ HastyIdle /\ UnprovenIdle
        /\ CloseIdle /\ NegotiatedIdle /\ CachedIdle /\ ExchangeIdle
  \/ part = "negotiated" /\ Negotiated!Init /\ HandshakeIdle /\ RepeatedIdle /\ HastyIdle /\ UnprovenIdle
        /\ CloseIdle /\ ProtoopsIdle /\ CachedIdle /\ ExchangeIdle
  \/ part = "cached" /\ Cached!Init /\ HandshakeIdle /\ RepeatedIdle /\ HastyIdle /\ UnprovenIdle
        /\ CloseIdle /\ ProtoopsIdle /\ NegotiatedIdle /\ ExchangeIdle
  \/ part = "exchange" /\ Exchange!Init /\ HandshakeIdle /\ RepeatedIdle /\ HastyIdle /\ UnprovenIdle
        /\ CloseIdle /\ ProtoopsIdle /\ NegotiatedIdle /\ CachedIdle

MCNext ==
  \/ part = "handshake" /\ Handshake!Next /\ UNCHANGED <<part, RepeatedVars, HastyVars, UnprovenVars, CloseVars, ProtoopsVars, NegotiatedVars, CachedVars, ExchangeVars>>
  \/ part = "repeated" /\ Repeated!Next /\ UNCHANGED <<part, HandshakeVars, HastyVars, UnprovenVars, CloseVars, ProtoopsVars, NegotiatedVars, CachedVars, ExchangeVars>>
  \/ part = "hasty" /\ Hasty!Next /\ UNCHANGED <<part, HandshakeVars, RepeatedVars, UnprovenVars, CloseVars, ProtoopsVars, NegotiatedVars, CachedVars, ExchangeVars>>
  \/ part = "unproven" /\ Unproven!Next /\ UNCHANGED <<part, HandshakeVars, RepeatedVars, HastyVars, CloseVars, ProtoopsVars, NegotiatedVars, CachedVars, ExchangeVars>>
  \/ part = "close" /\ Close!Next /\ UNCHANGED <<part, HandshakeVars, RepeatedVars, HastyVars, UnprovenVars, ProtoopsVars, NegotiatedVars, CachedVars, ExchangeVars>>
  \/ part = "protoops" /\ CallNext /\ UNCHANGED <<part, HandshakeVars, RepeatedVars, HastyVars, UnprovenVars, CloseVars, NegotiatedVars, CachedVars, ExchangeVars>>
  \/ part = "negotiated" /\ Negotiated!Next /\ UNCHANGED <<part, HandshakeVars, RepeatedVars, HastyVars, UnprovenVars, CloseVars, ProtoopsVars, CachedVars, ExchangeVars>>
  \/ part = "cached" /\ Cached!Next /\ UNCHANGED <<part, HandshakeVars, RepeatedVars, HastyVars, UnprovenVars, CloseVars, ProtoopsVars, NegotiatedVars, ExchangeVars>>
  \/ part = "exchange" /\ Exchange!Next /\ UNCHANGED <<part, HandshakeVars, RepeatedVars, HastyVars, UnprovenVars, CloseVars, ProtoopsVars, NegotiatedVars, CachedVars>>

MCVars == <<part, HandshakeVars, RepeatedVars, HastyVars, UnprovenVars, CloseVars, ProtoopsVars,
    NegotiatedVars, CachedVars, ExchangeVars>>

MCSpec == MCInit /\ [][MCNext]_MCVars

\* A confirmed handshake is complete, a handshake with a packet missing always has something left to send, and the
\* end of a connection is told to the application.
ConnectionIsSound ==
  /\ part = "handshake" => Handshake!ConfirmedIsComplete /\ Handshake!HandshakeNeverStalls
  /\ part = "repeated" => Repeated!ConfirmedIsComplete /\ Repeated!HandshakeNeverStalls
  /\ part = "hasty" => Hasty!ConfirmedIsComplete /\ Hasty!HandshakeNeverStalls
  /\ part = "unproven" => Unproven!ConfirmedIsComplete /\ Unproven!HandshakeNeverStalls
  /\ part = "close" => Close!ConfirmedIsComplete /\ Close!EndIsTold

\* An inserted plugin is whole, shares no external operation and has no second owner, the connection has the plugins
\* it negotiated, and a plugin stays with a connection or in the cache until it is freed, but for the oldest entry of
\* the cache when a search finds nothing.
PluginsAreWhole ==
  /\ [](part = "negotiated" =>
       Negotiated!ExternIsAlone /\ Negotiated!InsertedIsWhole /\ Negotiated!ConnectionHasWhatItWants /\
       Negotiated!PluginHasOneOwner)
  /\ [](part = "cached" =>
       Cached!ExternIsAlone /\ Cached!InsertedIsWhole /\ Cached!ConnectionHasWhatItWants /\
       Cached!PluginHasOneOwner)
  /\ Negotiated!PluginsAreKept
  /\ Cached!PluginsAreKept

\* A plugin asked for is stored as the peer's archive, without error and whatever the loss of its frames.
ExchangeIsSound == part = "exchange" => Exchange!ExchangeIsErrorFree /\ Exchange!StoredIsTheArchive /\ Exchange!AskedIsStored

(* "in an atomic, transaction style. This means, if one of the plugins     *)
(* cannot be inserted for any reason, all the previously inserted ones     *)
(* will be unplugged": no operation of a connection has a pluglet of a     *)
(* plugin whose insertion failed.                                          *)
InsertionIsATransaction == part = "cached" => Cached!InsertionIsATransaction

=============================================================================
