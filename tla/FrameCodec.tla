----------------------------- MODULE FrameCodec -----------------------------
(***************************************************************************)
(* The frames of the core protocol as bytes (picoquic/frames.c,            *)
(* intformat.c).  One endpoint fills a packet with the frame writers, in   *)
(* any order and until the packet is full; the other parses it, skips over *)
(* it when it looks for a CONNECTION_CLOSE, and processes the frames.      *)
(*                                                                         *)
(* A frame is a record: its type, the values of its fields in the order of *)
(* the wire, and its data.  A byte is a number; the payload of a frame is  *)
(* a run of one byte, so only its length matters.                          *)
(***************************************************************************)
EXTENDS IntFormat, FiniteSets

CONSTANTS
    Writers,      \* the writers the sender uses
    StopErrors,   \* the error codes an application stops a stream with
    Epochs,       \* the epochs packets are built for: 0, 2 and 3
    Capacities,   \* the sizes of the packets
    Numbers,      \* the values of the fields
    Lengths,      \* the lengths of the data
    MaxFrames     \* how many frames a packet gets at most

VARIABLES
    epoch,        \* the epoch of the packet
    capacity,     \* the bytes of the packet
    wire,         \* the bytes written so far
    written       \* the frames meant by them

vars == <<epoch, capacity, wire, written>>

padding == 0
ping == 1
ack == 2
ack_ecn == 3
reset_stream == 4
stop_sending == 5
crypto_hs == 6
new_token == 7
stream_range_min == 8
max_data == 16
max_stream_data == 17
max_streams_bidi == 18
data_blocked == 20
stream_data_blocked == 21
bidi_streams_blocked == 22
uni_streams_blocked == 23
new_connection_id == 24
retire_connection_id == 25
path_challenge == 26
path_response == 27
connection_close == 28
application_close == 29
handshake_done == 30
plugin_validate == 48
plugin == 49

PayloadByte == 170
Data(n) == [i \in 1 .. n |-> PayloadByte]
Frame(type, fields, data) == [type |-> type, fields |-> fields, data |-> data]

-----------------------------------------------------------------------------
(* Reading.  A reader holds its place in the packet, NULL once something    *)
(* did not fit, and what it read.                                           *)

NULL == 0

At(i) == [at |-> i, fields |-> <<>>, data |-> <<>>]
Failed == At(NULL)

frames_varint_decode(b, r) ==
    IF r.at = NULL \/ r.at > Len(b) \/ r.at + varint_skip(b, r.at) > Len(b) + 1
    THEN Failed
    ELSE LET n     == varint_skip(b, r.at)
             value == FoldLeft(LAMBDA v, byte : v * 256 + byte, b[r.at] % 64,
                               SubSeq(b, r.at + 1, r.at + n - 1))
         IN  [r EXCEPT !.at = @ + n, !.fields = Append(@, value)]

frames_uint8_decode(b, r) ==
    IF r.at = NULL \/ r.at > Len(b) THEN Failed
    ELSE [r EXCEPT !.at = @ + 1, !.fields = Append(@, b[r.at])]

frames_uint64_decode(b, r) ==
    IF r.at = NULL \/ r.at + 8 > Len(b) + 1 THEN Failed
    ELSE [r EXCEPT !.at = @ + 8,
                   !.fields = Append(@, FoldLeft(LAMBDA v, byte : v * 256 + byte, 0,
                                                 SubSeq(b, r.at + 4, r.at + 7)))]

Varints(b, i, n) ==
    FoldLeft(LAMBDA r, k : frames_varint_decode(b, r), At(i), [k \in 1 .. n |-> k])

LastField(r) == r.fields[Len(r.fields)]

\* The data that the last field gives the length of.
TakeData(b, r, n) ==
    IF r.at = NULL \/ r.at + n > Len(b) + 1 THEN Failed
    ELSE [r EXCEPT !.at = @ + n, !.data = SubSeq(b, r.at, r.at + n - 1)]

Counted(b, r) == IF r.at = NULL THEN Failed ELSE TakeData(b, r, LastField(r))

After(b, i) == i + varint_skip(b, i)

-----------------------------------------------------------------------------
(* Parsers (PROTOOP_PARAM_PARSE_FRAME).  With the frame goes whether it     *)
(* wants an ACK; in the core the same frames are retransmitted.  What the   *)
(* packets hold is well formed: of a frame cut short only the failure is    *)
(* kept.                                                                    *)

Parsed(type, r, elicits) ==
    [at |-> r.at, frame |-> Frame(type, r.fields, r.data), ack_needed |-> elicits]

parse_reset_stream_frame(b, i) == Parsed(reset_stream, Varints(b, After(b, i), 3), TRUE)

parse_new_connection_id_frame(b, i) ==
    LET r == frames_uint8_decode(b, Varints(b, After(b, i), 2))
    IN  Parsed(new_connection_id,
               IF r.at = NULL \/ LastField(r) > 20 THEN Failed
               ELSE TakeData(b, r, LastField(r) + 16),
               TRUE)

parse_retire_connection_id_frame(b, i) ==
    Parsed(retire_connection_id, Varints(b, After(b, i), 1), TRUE)

parse_new_token_frame(b, i) ==
    Parsed(new_token, Counted(b, Varints(b, After(b, i), 1)), TRUE)

parse_stop_sending_frame(b, i) == Parsed(stop_sending, Varints(b, After(b, i), 2), TRUE)

\* The flags of the first byte of a STREAM frame.
HasFin(byte) == byte % 2 = 1
HasLen(byte) == (byte \div 2) % 2 = 1
HasOff(byte) == (byte \div 4) % 2 = 1

\* Without a length, the data goes on to the end of the packet.
parse_stream_header(b, i) ==
    LET Offset(id)     == IF HasOff(b[i]) THEN frames_varint_decode(b, id)
                          ELSE [id EXCEPT !.fields = Append(@, 0)]
        Length(offset) == IF HasLen(b[i]) THEN frames_varint_decode(b, offset)
                          ELSE [offset EXCEPT !.fields = Append(@, Len(b) + 1 - offset.at)]
    IN  Length(Offset(Varints(b, i + 1, 1)))

parse_stream_frame(b, i) ==
    LET Fin(r) == IF r.at = NULL THEN r
                  ELSE [r EXCEPT !.fields = <<r.fields[1], r.fields[2], IF HasFin(b[i]) THEN 1 ELSE 0>>]
    IN  Parsed(stream_range_min, Fin(Counted(b, parse_stream_header(b, i))), TRUE)

parse_crypto_hs_frame(b, i) == Parsed(crypto_hs, Counted(b, Varints(b, After(b, i), 2)), TRUE)

parse_handshake_done_frame(b, i) == Parsed(handshake_done, At(After(b, i)), TRUE)

\* The three counters of ECN marks follow the blocks.
AckCounters(b, r, is_ack_ecn) ==
    IF is_ack_ecn
    THEN frames_varint_decode(b, frames_varint_decode(b, frames_varint_decode(b, r)))
    ELSE r

parse_ack_frame_maybe_ecn(b, i) ==
    LET header == Varints(b, i + 1, 3)
        blocks == IF header.at = NULL \/ LastField(header) > 512 THEN Failed
                  ELSE Varints(b, i + 1, 4 + 2 * LastField(header))
    IN  Parsed(b[i], AckCounters(b, blocks, b[i] = ack_ecn), FALSE)

parse_connection_close_frame(b, i) ==
    Parsed(connection_close, Counted(b, Varints(b, After(b, i), 3)), TRUE)

parse_application_close_frame(b, i) ==
    Parsed(application_close, Counted(b, Varints(b, After(b, i), 2)), TRUE)

parse_max_data_frame(b, i) == Parsed(max_data, Varints(b, After(b, i), 1), TRUE)

parse_max_stream_data_frame(b, i) == Parsed(max_stream_data, Varints(b, After(b, i), 2), TRUE)

parse_max_streams_frame(b, i) == Parsed(b[i], Varints(b, After(b, i), 1), TRUE)

parse_path_challenge_frame(b, i) ==
    Parsed(path_challenge,
           IF Len(b) + 1 - i =< 8 THEN Failed ELSE frames_uint64_decode(b, At(After(b, i))),
           FALSE)

parse_path_response_frame(b, i) ==
    Parsed(path_response, frames_uint64_decode(b, At(After(b, i))), FALSE)

parse_blocked_frame(b, i) == Parsed(data_blocked, Varints(b, After(b, i), 1), TRUE)

parse_stream_blocked_frame(b, i) ==
    Parsed(stream_data_blocked, Varints(b, After(b, i), 2), TRUE)

parse_streams_blocked_frame(b, i) == Parsed(b[i], Varints(b, After(b, i), 1), TRUE)

\* A name of more than 250 bytes is refused.
parse_plugin_validate_frame(b, i) ==
    LET r == Varints(b, After(b, i), 2)
    IN  Parsed(plugin_validate,
               IF r.at = NULL \/ LastField(r) > 250 THEN Failed ELSE Counted(b, r),
               TRUE)

parse_plugin_frame(b, i) ==
    LET fin == frames_uint8_decode(b, At(i + 1))
        r   == frames_varint_decode(b, frames_varint_decode(b, frames_varint_decode(b, fin)))
    IN  Parsed(plugin, Counted(b, r), TRUE)

\* All the equal bytes that follow are read as one frame.
parse_padding_or_ping_frame(b, i) ==
    LET others == {j \in i .. Len(b) : b[j] # b[i]}
        next   == IF others = {} THEN Len(b) + 1
                  ELSE CHOOSE j \in others : \A k \in others : j =< k
    IN  Parsed(b[i], [At(next) EXCEPT !.fields = <<next - i>>], b[i] # padding)

parse_unknown_frame(b, i) == Parsed(b[i], Failed, FALSE)

\* frames_register_noparam_protoops: which parser and which handler a type has.
parse_frame(b, i) ==
    CASE b[i] \in {padding, ping}                              -> parse_padding_or_ping_frame(b, i)
      [] b[i] \in {ack, ack_ecn}                               -> parse_ack_frame_maybe_ecn(b, i)
      [] b[i] = reset_stream                                   -> parse_reset_stream_frame(b, i)
      [] b[i] = stop_sending                                   -> parse_stop_sending_frame(b, i)
      [] b[i] = crypto_hs                                      -> parse_crypto_hs_frame(b, i)
      [] b[i] = new_token                                      -> parse_new_token_frame(b, i)
      [] b[i] \in stream_range_min .. stream_range_min + 7     -> parse_stream_frame(b, i)
      [] b[i] = max_data                                       -> parse_max_data_frame(b, i)
      [] b[i] = max_stream_data                                -> parse_max_stream_data_frame(b, i)
      [] b[i] \in {max_streams_bidi, max_streams_bidi + 1}     -> parse_max_streams_frame(b, i)
      [] b[i] = data_blocked                                   -> parse_blocked_frame(b, i)
      [] b[i] = stream_data_blocked                            -> parse_stream_blocked_frame(b, i)
      [] b[i] \in {bidi_streams_blocked, uni_streams_blocked}  -> parse_streams_blocked_frame(b, i)
      [] b[i] = new_connection_id                              -> parse_new_connection_id_frame(b, i)
      [] b[i] = retire_connection_id                           -> parse_retire_connection_id_frame(b, i)
      [] b[i] = path_challenge                                 -> parse_path_challenge_frame(b, i)
      [] b[i] = path_response                                  -> parse_path_response_frame(b, i)
      [] b[i] = connection_close                               -> parse_connection_close_frame(b, i)
      [] b[i] = application_close                              -> parse_application_close_frame(b, i)
      [] b[i] = handshake_done                                 -> parse_handshake_done_frame(b, i)
      [] b[i] = plugin_validate                                -> parse_plugin_validate_frame(b, i)
      [] b[i] = plugin                                         -> parse_plugin_frame(b, i)
      [] OTHER                                                 -> parse_unknown_frame(b, i)

-----------------------------------------------------------------------------
(* A received packet: every frame is parsed before the first is processed.  *)

\* MAX_STREAMS for unidirectional streams has a parser but no handler.
process_frame_is_known(type) == type # max_streams_bidi + 1

\* In the packets of the handshake, only these.
AllowedEarly == {padding, path_challenge, path_response, connection_close, crypto_hs, ack, ack_ecn}

RECURSIVE ParseFrom(_, _, _, _)
ParseFrom(b, i, e, frames) ==
    IF i > Len(b) THEN [ok |-> TRUE, frames |-> frames]
    ELSE LET Go(r) == IF (e \notin {1, 3} /\ b[i] \notin AllowedEarly) \/ r.at = NULL
                      THEN [ok |-> FALSE, frames |-> <<>>]
                      ELSE ParseFrom(b, r.at, e, Append(frames, r))
         IN  Go(parse_frame(b, i))

\* What is processed, and whether an ACK is then owed.
decode_frames(b, e) ==
    LET AllKnown(parsed) == \A k \in DOMAIN parsed : process_frame_is_known(parsed[k].frame.type)
        Processed(ok, parsed) ==
            [ok         |-> ok,
             frames     |-> [k \in DOMAIN parsed |-> parsed[k].frame],
             ack_needed |-> ok /\ \E k \in DOMAIN parsed : parsed[k].ack_needed]
        Decoded(r) == Processed(r.ok /\ AllKnown(r.frames), r.frames)
    IN  Decoded(ParseFrom(b, 1, e, <<>>))

\* A frame that cannot be parsed takes the rest of the packet.
skip_frame(b, i) ==
    LET Skipped(at) == [error |-> at = NULL, next |-> IF at = NULL THEN Len(b) + 1 ELSE at]
    IN  Skipped(parse_frame(b, i).at)

IsClose(type) == type \in {connection_close, application_close}

RECURSIVE ClosingFrom(_, _)
ClosingFrom(b, i) ==
    /\ i =< Len(b)
    /\ \/ IsClose(b[i])
       \/ \E r \in {skip_frame(b, i)} : ~r.error /\ ClosingFrom(b, r.next)

decode_closing_frames(b) == ClosingFrom(b, 1)

-----------------------------------------------------------------------------
(* Writers.  The bytes of a frame, none when the room left is too small.    *)

Fit(bytes, room) == IF Len(bytes) =< room THEN bytes ELSE <<>>

Encoded(ns) == FlattenSeq([k \in DOMAIN ns |-> VarintBytes(ns[k])])

prepare_stream_reset_frame(room, id, error, offset) ==
    IF room =< 2 THEN <<>> ELSE Fit(<<reset_stream>> \o Encoded(<<id, error, offset>>), room)

\* The error code is two bytes, not a varint.
prepare_stop_sending_frame(room, id, error) ==
    IF room < 1 + 4 + 2 THEN <<>>
    ELSE <<stop_sending>> \o varint_encode(id, room - 1) \o picoformat(error, 2)

StreamType(offset, has_length, fin) ==
    stream_range_min + (IF offset > 0 THEN 4 ELSE 0) + (IF has_length THEN 2 ELSE 0) + fin

\* The length is left out of a frame that fills the packet.  One byte short
\* of that, a byte of padding goes in front instead of a length.
StreamFrame(id, offset, length, fin, space) ==
    (IF length = space - 1 THEN <<padding>> ELSE <<>>)
        \o <<StreamType(offset, length < space - 1, fin)>>
        \o VarintBytes(id) \o (IF offset > 0 THEN VarintBytes(offset) ELSE <<>>)
        \o (IF length < space - 1 THEN VarintBytes(length) ELSE <<>>)
        \o Data(length)

StreamHeader(id, offset) == 1 + Len(Encoded(IF offset > 0 THEN <<id, offset>> ELSE <<id>>))

\* length bytes were queued and the end of the stream, if it is asked for,
\* goes with the last of them.  How many go in the frame:
StreamLength(room, id, offset, length) ==
    LET space == room - StreamHeader(id, offset) IN IF length < space THEN length ELSE space

prepare_stream_frame(room, id, offset, length, fin) ==
    LET header == StreamHeader(id, offset)
        sent   == StreamLength(room, id, offset, length)
        last   == IF sent = length THEN fin ELSE 0
    IN  IF header + 3 > room \/ (sent = 0 /\ last = 0) THEN <<>>
        ELSE StreamFrame(id, offset, sent, last, room - header)

\* The frame of a polled stream: the application chooses the length within
\* the space and the layout is the same.
provide_stream_data_buffer(room, id, offset, length, fin) ==
    LET header == StreamHeader(id, offset)
    IN  IF header + 3 > room \/ length > room - header THEN <<>>
        ELSE StreamFrame(id, offset, length, fin, room - header)

\* The length is encoded, and encoded again when the data must be cut.
Shortened(length, space) ==
    IF length + Len(VarintBytes(length)) >= space
    THEN space - Len(VarintBytes(length)) ELSE length

prepare_crypto_hs_frame(room, offset, length) ==
    LET header == Fit(<<crypto_hs>> \o VarintBytes(offset), room)
        space  == room - Len(header)
        sent   == Shortened(length, space)
    IN  IF header = <<>> \/ space < 2 \/ sent =< 0 THEN <<>>
        ELSE header \o VarintBytes(sent) \o Data(sent)

prepare_handshake_done_frame(room) == Fit(<<handshake_done>>, room)

\* How many of the blocks fit after the header.
RECURSIVE Fitting(_, _)
Fitting(blocks, room) ==
    IF blocks = <<>> \/ Len(Encoded(Head(blocks))) > room THEN 0
    ELSE 1 + Fitting(Tail(blocks), room - Len(Encoded(Head(blocks))))

\* The number of blocks always takes two bytes.
prepare_ack_frame(room, largest, delay, first, blocks) ==
    LET start == <<ack>> \o Encoded(<<largest, delay>>)
        count == Fitting(blocks, room - Len(start) - 2 - Len(VarintBytes(first)))
    IN  IF room < 14 \/ Len(start) + 2 + Len(VarintBytes(first)) > room THEN <<>>
        ELSE start \o Tagged(picoformat(count, 2), 1) \o VarintBytes(first)
                   \o FlattenSeq([k \in 1 .. count |-> Encoded(blocks[k])])

\* There is never a reason phrase.
prepare_connection_close_frame(room, error, type) ==
    IF room =< 4 THEN <<>> ELSE Fit(<<connection_close>> \o Encoded(<<error, type, 0>>), room)

prepare_application_close_frame(room, error) ==
    IF room =< 2 THEN <<>> ELSE Fit(<<application_close>> \o Encoded(<<error, 0>>), room)

prepare_max_data_frame(room, value) == Fit(<<max_data>> \o VarintBytes(value), room)

prepare_max_stream_data_frame(room, id, value) ==
    Fit(<<max_stream_data>> \o Encoded(<<id, value>>), room)

prepare_path_challenge_frame(room, challenge) ==
    Fit(<<path_challenge>> \o picoformat(challenge, 8), room)

\* The response repeats the bytes of the challenge.
WritePathResponse(room, challenge) == Fit(<<path_response>> \o picoformat(challenge, 8), room)

write_plugin_validate_frame(room, pid_id, pid_len) ==
    Fit(<<plugin_validate>> \o Encoded(<<pid_id, pid_len>>) \o Data(pid_len), room)

\* As many bytes as the room allows, the end with the last of them.
PluginLength(space, length) ==
    IF length + Len(VarintBytes(length)) > space THEN space - Len(VarintBytes(length)) ELSE length

prepare_plugin_frame(room, pid_id, offset, length, fin) ==
    LET header == Encoded(<<pid_id, offset>>)
        space  == room - 2 - Len(header)
        sent   == PluginLength(space, length)
        last   == IF sent = length THEN fin ELSE 0
    IN  IF space < 2 \/ sent =< 0 THEN <<>>
        ELSE <<plugin, last>> \o header \o VarintBytes(sent) \o Data(sent)

\* Frames that the core reads and never writes, as another endpoint writes them.
WriteForeign(room, type, fields, data) == Fit(<<type>> \o Encoded(fields) \o data, room)

-----------------------------------------------------------------------------

Init ==
    /\ epoch \in Epochs
    /\ capacity \in Capacities
    /\ wire = <<>>
    /\ written = <<>>

Room == capacity - Len(wire)

\* A writer adds a frame, or nothing when it does not fit.
Put(writer, bytes, frame) ==
    /\ writer \in Writers
    /\ Len(written) < MaxFrames
    /\ Room > 0
    /\ bytes # <<>>
    /\ wire' = wire \o bytes
    /\ written' = Append(written, frame)
    /\ UNCHANGED <<epoch, capacity>>

PutReset == \E id, offset \in Numbers :
    epoch = 3 /\ Put("reset_stream", prepare_stream_reset_frame(Room, id, 0, offset),
                     Frame(reset_stream, <<id, 0, offset>>, <<>>))

PutStopSending == \E id \in Numbers, error \in StopErrors :
    epoch = 3 /\ Put("stop_sending", prepare_stop_sending_frame(Room, id, error),
                     Frame(stop_sending, <<id, error>>, <<>>))

PutStream == \E offset \in Numbers, length \in Lengths, fin \in {0, 1} :
    LET sent == StreamLength(Room, 4, offset, length)
    IN  epoch = 3 /\ Put("stream", prepare_stream_frame(Room, 4, offset, length, fin),
                         Frame(stream_range_min,
                               <<4, offset, IF sent = length THEN fin ELSE 0>>, Data(sent)))

PutPolled == \E offset \in Numbers, length \in Lengths, fin \in {0, 1} :
    epoch = 3 /\ Put("polled", provide_stream_data_buffer(Room, 4, offset, length, fin),
                     Frame(stream_range_min, <<4, offset, fin>>, Data(length)))

PutCrypto == \E offset \in Numbers, length \in Lengths :
    LET sent == Shortened(length, Room - 1 - Len(VarintBytes(offset)))
    IN  Put("crypto_hs", prepare_crypto_hs_frame(Room, offset, length),
            Frame(crypto_hs, <<offset, sent>>, Data(sent)))

PutDone == epoch = 3 /\ Put("handshake_done", prepare_handshake_done_frame(Room),
                            Frame(handshake_done, <<>>, <<>>))

PutAck == \E largest, first \in Numbers, n \in 0 .. 2 :
    LET blocks == [k \in 1 .. n |-> <<first, k>>]
        count  == Fitting(blocks, Room - 3 - Len(Encoded(<<largest, 0, first>>)))
    IN  Put("ack", prepare_ack_frame(Room, largest, 0, first, blocks),
            Frame(ack, <<largest, 0, count, first>> \o FlattenSeq(SubSeq(blocks, 1, count)), <<>>))

PutClose == \E error \in Numbers :
    Put("connection_close", prepare_connection_close_frame(Room, error, crypto_hs),
        Frame(connection_close, <<error, crypto_hs, 0>>, <<>>))

PutApplicationClose == \E error \in Numbers :
    epoch = 3 /\ Put("application_close", prepare_application_close_frame(Room, error),
                     Frame(application_close, <<error, 0>>, <<>>))

PutMaxData == \E value \in Numbers :
    epoch = 3 /\ Put("max_data", prepare_max_data_frame(Room, value), Frame(max_data, <<value>>, <<>>))

PutMaxStreamData == \E id, value \in Numbers :
    epoch = 3 /\ Put("max_stream_data", prepare_max_stream_data_frame(Room, id, value),
                     Frame(max_stream_data, <<id, value>>, <<>>))

PutChallenge == \E value \in Numbers :
    Put("path_challenge", prepare_path_challenge_frame(Room, value),
        Frame(path_challenge, <<value>>, <<>>))

PutResponse == \E value \in Numbers :
    Put("path_response", WritePathResponse(Room, value), Frame(path_response, <<value>>, <<>>))

PutPluginValidate == \E pid_id \in Numbers, length \in Lengths :
    epoch = 3 /\ Put("plugin_validate", write_plugin_validate_frame(Room, pid_id, length),
                     Frame(plugin_validate, <<pid_id, length>>, Data(length)))

PutPlugin == \E offset \in Numbers, length \in Lengths, fin \in {0, 1} :
    LET sent == PluginLength(Room - 2 - Len(Encoded(<<1, offset>>)), length)
    IN  epoch = 3 /\ Put("plugin", prepare_plugin_frame(Room, 1, offset, length, fin),
                         Frame(plugin, <<IF sent = length THEN fin ELSE 0, 1, offset, sent>>,
                               Data(sent)))

PutPing == epoch = 3 /\ Put("ping", Fit(<<ping>>, Room), Frame(ping, <<1>>, <<>>))

\* The rest of the packet is padding.
PutPadding == Put("padding", [i \in 1 .. Room |-> padding], Frame(padding, <<Room>>, <<>>))

PutForeign == \E value \in Numbers, type \in {ack_ecn, new_token, max_streams_bidi, data_blocked,
        stream_data_blocked, bidi_streams_blocked, uni_streams_blocked, new_connection_id,
        retire_connection_id} :
    LET fields == CASE type = ack_ecn             -> <<value, 0, 1, 0, 1, 2, value, 0, 3>>
                    [] type = new_token           -> <<5>>
                    [] type = new_connection_id   -> <<value, 0, 8>>
                    [] type = stream_data_blocked -> <<value, 7>>
                    [] OTHER                      -> <<value>>
        data   == CASE type = new_token           -> Data(5)
                    [] type = new_connection_id   -> Data(8 + 16)
                    [] OTHER                      -> <<>>
    IN  epoch = 3 /\ Put("foreign", WriteForeign(Room, type, fields, data), Frame(type, fields, data))

Next ==
    \/ PutReset \/ PutStopSending \/ PutStream \/ PutPolled \/ PutCrypto \/ PutDone \/ PutAck
    \/ PutClose \/ PutApplicationClose \/ PutMaxData \/ PutMaxStreamData \/ PutChallenge
    \/ PutResponse \/ PutPluginValidate \/ PutPlugin \/ PutPing \/ PutPadding \/ PutForeign

Spec == Init /\ [][Next]_vars

-----------------------------------------------------------------------------

\* Pings in a row are read as one frame, and padding says nothing.
Meant(frames) ==
    FlattenSeq([k \in DOMAIN frames |->
        CASE frames[k].type = padding -> <<>>
          [] frames[k].type = ping    -> [j \in 1 .. frames[k].fields[1] |-> ping]
          [] OTHER                    -> <<frames[k]>>])

\* What the writers put in a packet, whatever their order and however little
\* room they found, is what the peer's parsers find in it, frame by frame;
\* the peer processes all of it, and owes an ACK exactly when something other
\* than padding, ACKs, challenges and responses was written
\* (picoquic_decode_frames against the prepare_*_frame functions).
FramesAreReadBack ==
    \E decoded \in {decode_frames(wire, epoch)} :
        /\ decoded.ok
        /\ Meant(decoded.frames) = Meant(written)
        /\ decoded.ack_needed <=>
              \E k \in DOMAIN written :
                  written[k].type \notin {padding, ack, ack_ecn, path_challenge, path_response}

\* No writer goes past the end of the packet.
PacketIsNotOverrun == Len(wire) =< capacity

\* An endpoint that is closing finds a close in a packet exactly when one was
\* written: it skips over every other frame in the right place
\* (picoquic_decode_closing_frames).
CloseIsFound ==
    decode_closing_frames(wire) <=> \E k \in DOMAIN written : written[k].type \in {connection_close, application_close}
====
