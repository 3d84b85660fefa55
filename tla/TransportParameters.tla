------------------------- MODULE TransportParameters -------------------------
(***************************************************************************)
(* The transport parameters the two ends of a connection tell each other   *)
(* during the handshake (picoquic/transport.c): each end writes its own    *)
(* into a buffer of fixed size, as a sequence of types, lengths and        *)
(* values, and reads those of its peer into remote_parameters, the flow    *)
(* control limits and the streams that 0-RTT data has opened already.      *)
(*                                                                         *)
(* Numbers are the bytes the code writes.  The lists of plugin names, the  *)
(* reset secret and what a plugin writes are runs of one byte.             *)
(***************************************************************************)
EXTENDS IntFormat, FiniteSets

CONSTANTS
    Params,       \* the local_parameters an application may set
    BufferSize,   \* sizeof(ext_data)
    DefaultWindow \* PICOQUIC_DEFAULT_0RTT_WINDOW

VARIABLES
    local,    \* local_parameters of each side
    wire,     \* the extension each side has written
    remote,   \* remote_parameters of each side
    limits,   \* maxdata_remote and the stream limits of each side
    early,    \* maxdata_remote of the bidirectional stream opened for 0-RTT data
    status    \* how far each side is: "start", "written", "read", or an error

vars == <<local, wire, remote, limits, early, status>>

Sides == {"client", "server"}
Peer(side) == IF side = "client" THEN "server" ELSE "client"

max_idle_timeout == 1
stateless_reset_secret == 2
max_packet_size == 3
initial_max_data == 4
initial_max_stream_data_bidi_local == 5
initial_max_stream_data_bidi_remote == 6
initial_max_stream_data_uni == 7
initial_max_streams_bidi == 8
initial_max_streams_uni == 9
ack_delay_exponent == 10
disable_active_migration == 12
supported_plugins == 121
plugins_to_inject == 122
PluginType == 64

ResetSecretSize == 16
NoStream == -1      \* 0xFFFFFFFF: no stream at all
Fill(n) == [i \in 1 .. n |-> 7]

-----------------------------------------------------------------------------
(* Writing.  w is what is written so far; a parameter that does not fit     *)
(* makes the encoder return (size_t)-1, which takes one byte back.          *)

Encoded(w, room, bytes) ==
    IF Len(bytes) > room - Len(w) THEN SubSeq(w, 1, Len(w) - 1) ELSE w \o bytes

tp_varint_encode(w, room, type, value) ==
    Encoded(w, room, VarintBytes(type) \o VarintBytes(Len(VarintBytes(value)))
                         \o VarintBytes(value))

tp_data_encode(w, room, type, data) ==
    Encoded(w, room, VarintBytes(type) \o VarintBytes(Len(data)) \o data)

\* What the buffer must hold, estimated before anything is written.
ParamSize(p, side) ==
    LET If(cond, n) == IF cond THEN n ELSE 0 IN
    6 + 6 + 4 + 4
      + If(p.streams_bidi # 0, 2 + Len(VarintBytes(p.streams_bidi)))
      + If(side = "server", 2 + ResetSecretSize)
      + If(p.exponent # 3, 3)
      + If(p.streams_uni # 0, 4)
      + If(p.no_migration, 2)
      + If(p.data_bidi_remote > 0, 6)
      + If(p.data_uni > 0, 6)
      + If(p.packet_size >= 1200, 4)
      + If(p.supported > 0, 3 + p.supported)
      + If(p.inject > 0, 3 + p.inject)

\* The parameters in the order they are written: type, kind and value.  Some
\* are always sent, the others only where they differ from the default.
InOrder(p, side) ==
    LET Number(type, value)        == <<[type |-> type, int |-> TRUE, value |-> value]>>
        Data(type, n)           == <<[type |-> type, int |-> FALSE, value |-> n]>>
        When(cond, parameter)   == IF cond THEN parameter ELSE <<>>
    IN  Number(initial_max_stream_data_bidi_local, p.data_bidi_local)
          \o Number(initial_max_data, p.data)
          \o When(p.streams_bidi > 0, Number(initial_max_streams_bidi, p.streams_bidi))
          \o Number(max_idle_timeout, p.idle)
          \o When(p.packet_size >= 1200, Number(max_packet_size, p.packet_size))
          \o When(side = "server", Data(stateless_reset_secret, ResetSecretSize))
          \o When(p.exponent # 3, Number(ack_delay_exponent, p.exponent))
          \o When(p.streams_uni > 0, Number(initial_max_streams_uni, p.streams_uni))
          \o When(p.no_migration, Data(disable_active_migration, 0))
          \o When(p.data_bidi_remote > 0,
                  Number(initial_max_stream_data_bidi_remote, p.data_bidi_remote))
          \o When(p.data_uni > 0, Number(initial_max_stream_data_uni, p.data_uni))
          \o When(p.supported > 0, Data(supported_plugins, p.supported))
          \o When(p.inject > 0, Data(plugins_to_inject, p.inject))

\* A plugin writes at most 64 bytes, and only where more than 64 are left.
prepare_plugin_transport_extensions(w, p) ==
    IF p.plugin > 0 /\ BufferSize - Len(w) > 64
    THEN tp_data_encode(w, BufferSize, PluginType, Fill(p.plugin)) ELSE w

prepare_transport_extensions(p, side) ==
    prepare_plugin_transport_extensions(
        FoldLeft(LAMBDA w, e : IF e.int THEN tp_varint_encode(w, BufferSize, e.type, e.value)
                               ELSE tp_data_encode(w, BufferSize, e.type, Fill(e.value)),
                 <<>>, InOrder(p, side)), p)

-----------------------------------------------------------------------------
(* Reading.  r is the reader: its place, what it has understood, the types  *)
(* it has seen and whether it gave up.                                      *)

\* Mutant: an exponent that is not sent is taken for 0.
Default_Zeroed == [data_bidi_local |-> 0, data_bidi_remote |-> 0, data_uni |-> 0, data |-> 0,
            streams_bidi |-> 0, streams_uni |-> 0, idle |-> 0, packet_size |-> 65527,
            exponent |-> 0, no_migration |-> FALSE, supported |-> 0, inject |-> 0,
            plugin |-> 0]

Default == [data_bidi_local |-> 0, data_bidi_remote |-> 0, data_uni |-> 0, data |-> 0,
            streams_bidi |-> 0, streams_uni |-> 0, idle |-> 0, packet_size |-> 65527,
            exponent |-> 3, no_migration |-> FALSE, supported |-> 0, inject |-> 0,
            plugin |-> 0]

IntTypes == {initial_max_stream_data_bidi_local, initial_max_stream_data_bidi_remote,
             initial_max_stream_data_uni, initial_max_data, initial_max_streams_bidi,
             initial_max_streams_uni, ack_delay_exponent, max_idle_timeout}

\* The stream of rank n among those the given side opens.
StreamIdFromRank(n, side, type) == 4 * (n - 1) + type + IF side = "server" THEN 1 ELSE 0

decode_transport_param_stream_id(n, side, type) ==
    IF n % 65536 > 0 THEN StreamIdFromRank(n % 65536, side, type) ELSE NoStream

Refused(r) == [r EXCEPT !.ok = FALSE]

update_stream_initial_remote(r) ==
    [r EXCEPT !.early = IF @ < r.remote.data_bidi_remote THEN r.remote.data_bidi_remote ELSE @]

TooSmall(size) == size < 1200

\* One parameter, whose value begins behind r.at; own is local_parameters.
ReadInt(r, side, own, type, value) ==
    CASE type = initial_max_stream_data_bidi_local ->
           update_stream_initial_remote([r EXCEPT !.remote.data_bidi_local = value])
      [] type = initial_max_stream_data_bidi_remote ->
           update_stream_initial_remote([r EXCEPT !.remote.data_bidi_remote = value])
      [] type = initial_max_stream_data_uni ->
           update_stream_initial_remote([r EXCEPT !.remote.data_uni = value])
      [] type = initial_max_data ->
           [r EXCEPT !.remote.data = value, !.limits.data = value,
                     !.limits.bidir = StreamIdFromRank(own.streams_bidi, side, 0)]
      [] type = initial_max_streams_bidi ->
           [r EXCEPT !.remote.streams_bidi = value,
                     !.limits.bidir = decode_transport_param_stream_id(value, side, 0)]
      [] type = initial_max_streams_uni ->
           [r EXCEPT !.remote.streams_uni = value,
                     !.limits.unidir = decode_transport_param_stream_id(value, side, 2)]
      [] type = max_idle_timeout -> [r EXCEPT !.remote.idle = value]
      [] type = max_packet_size ->
           IF TooSmall(value) THEN Refused(r) ELSE [r EXCEPT !.remote.packet_size = value]
      [] type = ack_delay_exponent ->
           IF value > 20 THEN Refused(r) ELSE [r EXCEPT !.remote.exponent = value]

ReadData(r, type, length) ==
    CASE type = stateless_reset_secret -> IF length # ResetSecretSize THEN Refused(r) ELSE r
      [] type = disable_active_migration ->
           IF length # 0 THEN Refused(r) ELSE [r EXCEPT !.remote.no_migration = TRUE]
      [] type = supported_plugins -> [r EXCEPT !.remote.supported = length]
      [] type = plugins_to_inject -> [r EXCEPT !.remote.inject = length]
      [] OTHER -> [r EXCEPT !.remote.plugin = length]

Repeated(r, type) == type < 64 /\ type \in r.seen

ReadOne(r, b, side, own) ==
    LET Value(s, type, length, at, v) ==
            IF type \in IntTypes \cup {max_packet_size}
            THEN IF v.length < length THEN Refused(r)
                 ELSE [ReadInt(s, side, own, type, v.value) EXCEPT !.at = at + v.length]
            ELSE [ReadData(s, type, length) EXCEPT !.at = at + length]
        Length(type, length, at) ==
            IF \/ r.at + 2 > Len(b)
               \/ at + length > Len(b)
               \/ type \in IntTypes /\ length \notin {1, 2, 4, 8}
               \/ Repeated(r, type)
            THEN Refused(r)
            ELSE Value([r EXCEPT !.seen = @ \cup {type}], type, length, at, varint_decode(b, at + 1))
        Behind(type, at, l) == Length(type, l.value, at + l.length)
        Type(t) == Behind(t.value, r.at + t.length, varint_decode(b, r.at + t.length + 1))
    IN  Type(varint_decode(b, r.at + 1))

RECURSIVE ReadFrom(_, _, _, _)
ReadFrom(r, b, side, own) ==
    IF ~ r.ok \/ r.at >= Len(b) THEN r ELSE ReadFrom(ReadOne(r, b, side, own), b, side, own)

\* Parameters only a server may send are refused by a server.
receive_transport_extensions(b, side, own, lim, opened) ==
    LET Checked(r) == IF r.ok /\ side = "server" /\ stateless_reset_secret \in r.seen THEN Refused(r) ELSE r
    IN  Checked(ReadFrom([at |-> 0, ok |-> TRUE, seen |-> {}, remote |-> Default,
                          limits |-> lim, early |-> opened], b, side, own))

-----------------------------------------------------------------------------
Init ==
    /\ local \in [Sides -> Params]
    /\ wire = [s \in Sides |-> <<>>]
    /\ remote = [s \in Sides |-> Default]
    /\ limits = [s \in Sides |-> [data |-> DefaultWindow, unidir |-> 0,
                                  bidir |-> IF s = "client" THEN 4 ELSE 0]]
    /\ early = DefaultWindow
    /\ status = [s \in Sides |-> "start"]

\* The client writes into its ClientHello, the server once it has read that.
Prepare(side) ==
    /\ status[side] = IF side = "client" THEN "start" ELSE "read"
    /\ wire[side] = <<>>
    /\ IF ParamSize(local[side], side) > BufferSize
       THEN status' = [status EXCEPT ![side] = "too_small"] /\ UNCHANGED wire
       ELSE /\ wire' = [wire EXCEPT ![side] = prepare_transport_extensions(local[side], side)]
            /\ status' = [status EXCEPT ![side] = IF side = "client" THEN "written" ELSE "done"]
    /\ UNCHANGED <<local, remote, limits, early>>

Receive(side) ==
    /\ wire[Peer(side)] # <<>>
    /\ status[side] = IF side = "client" THEN "written" ELSE "start"
    /\ \E r \in {receive_transport_extensions(wire[Peer(side)], side, local[side],
                                              limits[side], early)} :
           /\ remote' = [remote EXCEPT ![side] = r.remote]
           /\ limits' = [limits EXCEPT ![side] = r.limits]
           /\ early' = IF side = "client" THEN r.early ELSE early
           /\ status' = [status EXCEPT ![side] = CASE ~ r.ok -> "refused"
                                                   [] r.ok /\ side = "client" -> "done"
                                                   [] OTHER -> "read"]
    /\ UNCHANGED <<local, wire>>

Next == \E side \in Sides : Prepare(side) \/ Receive(side)

Spec == Init /\ [][Next]_vars

-----------------------------------------------------------------------------
HasRead(side) == status[side] \in {"read", "done"}

\* A packet size below 1200 is not sent, and a plugin's parameter only where
\* there is room for it.
Meant(p) == [p EXCEPT !.packet_size = IF @ >= 1200 THEN @ ELSE 65527]

\* What an endpoint writes, its peer accepts: picoquic_receive_transport_extensions
\* never closes the connection over what picoquic_prepare_transport_extensions wrote.
OwnParametersAreAccepted == \A side \in Sides : status[side] # "refused"

\* Each end comes to know exactly the parameters the other one was configured
\* with, defaults included, although most are only sent when they differ.
ParametersAreReadBack ==
    \A side \in Sides : HasRead(side) =>
        LET p == Meant(local[Peer(side)]) IN
        remote[side] \in {p, [p EXCEPT !.plugin = 0]}

\* A stream that 0-RTT data has opened before the server's parameters arrived
\* ends up with the window of those parameters at least.
EarlyStreamIsUpdated ==
    status["client"] = "done" => early >= local["server"].data_bidi_remote

\* Violated: the number of streams an endpoint may open is the one its peer
\* announced.
StreamLimitIsThePeers ==
    \A side \in Sides : HasRead(side) =>
        LET n == local[Peer(side)].streams_bidi IN
        IF n = 0 THEN limits[side].bidir < 4
        ELSE limits[side].bidir = StreamIdFromRank(n, side, 0)
=============================================================================
