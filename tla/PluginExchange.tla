--------------------------- MODULE PluginExchange ---------------------------
(***************************************************************************)
(* The transfer of plugins: a client asks, in PLUGIN_VALIDATE frames, for   *)
(* the plugins it does not have; the server sends the archive of each on a  *)
(* plugin stream, in PLUGIN frames; the client reassembles the archive and  *)
(* unpacks it in its plugin store.                                          *)
(*                                                                         *)
(* A byte of an archive is its offset.  Frames arrive in any order and any  *)
(* number of times; lost ones are retransmitted as they are, which is a     *)
(* late arrival.  pids_to_request[k] is the plugin Plugins[k + 1], and k the *)
(* number of its plugin stream.                                             *)
(***************************************************************************)
EXTENDS StreamBlocks, SequencesExt

CONSTANTS
  Plugins,       \* the plugins to request, in order
  FrameSize,     \* plugin |-> the size of its PLUGIN_VALIDATE frame
  ArchiveSize,   \* plugin |-> the size of its archive, those of plugins_to_inject
  PacketRooms,   \* the rooms the packet with the requests may have
  MaxRoom,       \* bound: bytes of an archive that fit in a packet
  MaxData,       \* the credit of the connection
  MAX_PLUGIN_DATA_LEN \* the credit of a plugin stream

VARIABLES
  plugin_requested,
  asked,         \* the PLUGIN_VALIDATE frames sent
  snd,           \* the server's plugin streams
  data_sent,
  last_visited,
  frames,        \* the PLUGIN frames sent
  rcv,           \* the client's plugin streams
  data_received,
  stored,        \* what plugin_process_plugin_data_exchange was called with, by stream
  heard,         \* the requests the server processed
  arrived,       \* the PLUGIN frames the client processed
  error

vars == <<plugin_requested, asked, snd, data_sent, last_visited, frames, rcv, data_received, stored, heard, arrived, error>>
client == <<plugin_requested, asked, rcv, data_received, stored, arrived, error>>
server == <<snd, data_sent, last_visited, frames, heard>>

Ids == DOMAIN Plugins
Injected(i) == Plugins[i] \in DOMAIN ArchiveSize
Archive(i) == [b \in 1..ArchiveSize[Plugins[i]] |-> b - 1]

NoStream == [exists |-> FALSE, queued |-> 0, sent_offset |-> 0, fin_requested |-> FALSE, fin_sent |-> FALSE]

create_plugin_stream ==
  [stream_data |-> <<>>, consumed_offset |-> 0, fin_offset |-> 0, fin_received |-> FALSE, received |-> <<>>]

Init ==
  /\ plugin_requested = FALSE
  /\ asked = {}
  /\ snd = [i \in Ids |-> NoStream]
  /\ data_sent = 0
  /\ last_visited = 0
  /\ frames = {}
  /\ rcv = [i \in Ids |-> create_plugin_stream]
  /\ data_received = 0
  /\ stored = [i \in Ids |-> <<>>]
  /\ heard = {}
  /\ arrived = {}
  /\ error = FALSE

-----------------------------------------------------------------------------
(* The requests that fit are written in one packet; the others are never    *)
(* written, for plugin_requested is set all the same.                       *)
write_plugin_validate_frames(room) ==
  LET Write(w, i) == IF FrameSize[Plugins[i]] <= w.room
                       THEN [room |-> w.room - FrameSize[Plugins[i]], ids |-> w.ids \cup {i}]
                       ELSE w
  IN FoldLeft(Write, [room |-> room, ids |-> {}], [i \in Ids |-> i]).ids

request_plugins(room) ==
  /\ ~plugin_requested
  /\ asked' = write_plugin_validate_frames(room)
  /\ plugin_requested' = TRUE
  /\ UNCHANGED <<rcv, data_received, stored, arrived, error, server>>

(* A second request for a plugin finds the end of its stream requested, and *)
(* adds nothing to it.                                                      *)
add_to_plugin_stream(s, n) ==
  IF s.fin_requested THEN s
  ELSE [s EXCEPT !.exists = TRUE, !.queued = @ + n, !.fin_requested = TRUE]

process_plugin_validate_frame(i) ==
  /\ i \in asked
  /\ snd' = IF Injected(i)
              THEN [snd EXCEPT ![i] = add_to_plugin_stream(@, ArchiveSize[Plugins[i]])]
              ELSE snd
  /\ heard' = heard \cup {i}
  /\ UNCHANGED <<data_sent, last_visited, frames, client>>

(* find_ready_plugin_stream: the streams after the last visited one come    *)
(* first, then the other ones.  No stream was visited at first, and then    *)
(* stream 0 is passed over.                                                 *)
IsReady(i) ==
  /\ snd[i].exists
  /\ data_sent < MaxData /\ snd[i].sent_offset < MAX_PLUGIN_DATA_LEN
  /\ snd[i].queued > 0 \/ (snd[i].fin_requested /\ ~snd[i].fin_sent)

ReadyStreams == {i \in Ids : IsReady(i)}
Lowest(S) == CHOOSE i \in S : \A j \in S : i <= j

find_ready_plugin_stream ==
  LET after == {i \in ReadyStreams : i - 1 > last_visited}
  IN IF after # {} THEN {Lowest(after)}
     ELSE IF ReadyStreams # {} THEN {Lowest(ReadyStreams)} ELSE {}

Least(S) == CHOOSE n \in S : \A m \in S : n <= m

prepare_plugin_frame(i, room) ==
  LET n == Least({room, snd[i].queued, MaxData - data_sent, MAX_PLUGIN_DATA_LEN - snd[i].sent_offset})
      last == n = snd[i].queued
  IN /\ frames' = frames \cup {[id |-> i, offset |-> snd[i].sent_offset, length |-> n, fin |-> last /\ snd[i].fin_requested]}
     /\ snd' = [snd EXCEPT ![i].queued = @ - n, ![i].sent_offset = @ + n,
                           ![i].fin_sent = @ \/ (last /\ snd[i].fin_requested)]
     /\ data_sent' = data_sent + n
     /\ last_visited' = i - 1
     /\ UNCHANGED <<heard, client>>

-----------------------------------------------------------------------------
(* picoquic_flow_control_check_stream_offset, with the credit of the stream *)
(* and of the connection.                                                   *)
Exceeds(r, end) ==
  /\ end > r.fin_offset
  /\ end > MAX_PLUGIN_DATA_LEN \/ data_received + (end - r.fin_offset) > MaxData

(* picoquic_plugin_data_callback: the contiguous blocks are appended to the *)
(* buffer of the request, which is unpacked once it is complete.            *)
Deliver(r) ==
  LET Step(x, b) ==
        IF b.offset > x.consumed_offset THEN x
        ELSE LET n == b.length - (x.consumed_offset - b.offset)
             IN [x EXCEPT !.consumed_offset = @ + n,
                          !.received = @ \o [k \in 1..n |-> b.offset + k - 1],
                          !.stream_data = Tail(@)]
  IN FoldLeft(Step, r, r.stream_data)

IsComplete_AtFin(r) == r.fin_received

IsComplete(r) == r.consumed_offset >= r.fin_offset /\ r.fin_received

process_plugin_frame(f) ==
  LET r == rcv[f.id]
      wrong == r.fin_received /\ (IF f.fin THEN r.fin_offset # End(f) ELSE End(f) > r.fin_offset)
      exceeds == ~r.fin_received /\ Exceeds(r, End(f))
      seen == IF r.fin_received THEN r
              ELSE [r EXCEPT !.fin_received = f.fin, !.fin_offset = IF End(f) > @ THEN End(f) ELSE @]
      blocks == queue_network_input(r.stream_data, r.consumed_offset, f)
      notify == (f.fin /\ ~r.fin_received) \/ blocks # r.stream_data
      queued == [seen EXCEPT !.stream_data = blocks]
      done == IF notify THEN Deliver(queued) ELSE queued
  IN /\ f \in frames /\ ~error
     /\ arrived' = arrived \cup {f}
     /\ error' = (wrong \/ exceeds)
     /\ IF wrong \/ exceeds THEN UNCHANGED <<rcv, data_received, stored>>
        ELSE /\ rcv' = [rcv EXCEPT ![f.id] = done]
             /\ data_received' = data_received + (done.fin_offset - r.fin_offset)
             /\ stored' = IF notify /\ IsComplete(done)
                            THEN [stored EXCEPT ![f.id] = Append(@, done.received)]
                            ELSE stored
     /\ UNCHANGED <<plugin_requested, asked, server>>

Next ==
  \/ \E room \in PacketRooms : request_plugins(room)
  \/ \E i \in Ids : process_plugin_validate_frame(i)
  \/ \E i \in find_ready_plugin_stream, room \in 1..MaxRoom : prepare_plugin_frame(i, room)
  \/ \E f \in frames : process_plugin_frame(f)

Spec == Init /\ [][Next]_vars

-----------------------------------------------------------------------------
(* The client unpacks the archive of a plugin at most once, and then the    *)
(* whole of it, with its bytes in order, however its frames were cut,       *)
(* delayed or repeated and however often the request arrived.               *)
StoredIsTheArchive ==
  \A i \in Ids : stored[i] # <<>> => Injected(i) /\ stored[i] = <<Archive(i)>>

(* No plugin that was asked for is forgotten: when everything sent has      *)
(* arrived and the server finds no stream to serve, the client has unpacked *)
(* every plugin that it asked for and that the server can inject.           *)
AskedIsStored ==
  (asked = heard /\ frames = arrived /\ find_ready_plugin_stream = {} /\ ~error /\ data_sent < MaxData)
    => \A i \in asked : Injected(i) => stored[i] # <<>>

(* A server that repeats what it was asked for, and a client that sees the  *)
(* frames in any order, never make an error of it.                          *)
ExchangeIsErrorFree == ~error
=============================================================================
