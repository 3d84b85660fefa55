------------------------------ MODULE Connection -----------------------------
(***************************************************************************)
(* The life of a connection: the handshake, its packet contexts, Retry, the *)
(* closing states, and the loss of the server's context.  One client, one   *)
(* server, a network that delays, reorders, loses and (where Duplicates     *)
(* holds) repeats datagrams.                                                *)
(*                                                                         *)
(* The server speaks the client's version.  Otherwise it answers each       *)
(* Initial packet with a version negotiation that the client's parser       *)
(* refuses (see PacketHeader), and the client ends by silence.              *)
(*                                                                         *)
(* TLS is external: the client sends one message in Initial packets and one *)
(* in Handshake packets, the server one and Flight.  A message fits in a    *)
(* packet.  An epoch and its packet context have one name; 0-RTT, which     *)
(* needs a stored ticket, is left out.  Timers fire at any time.            *)
(***************************************************************************)
EXTENDS Integers, Sequences, SequencesExt, FiniteSetsExt

CONSTANTS
  Flight,                   \* messages of the server in Handshake packets
  Retry,                    \* the server asks for a token: picoquic_context_check_token
  Calls,                    \* what applications and machines do: a subset of
                            \* {"close", "reject", "silence", "restart", "data"}
  Duplicates,               \* the network repeats datagrams
  Spurious,                 \* timers fire while the packet or its acknowledgement is under way
  MaxSegments,              \* bound: packets coalesced in a datagram
  MaxFaults,                \* bound: datagrams lost or repeated
  MaxPackets                \* bound: packets sent in a context by one side

VARIABLES
  cnx,                      \* cnx[e]: the context of an endpoint
  net,                      \* datagrams under way
  faults, restarts,
  incarnation               \* source connection ids the server has used

vars == <<cnx, net, faults, restarts, incarnation>>

Pcs == {"initial", "handshake", "application"}
Peer(e) == IF e = "client" THEN "server" ELSE "client"
Rank == [client_init |-> 1, client_init_sent |-> 2, client_renegotiate |-> 3, client_init_resent |-> 5,
         server_init |-> 6, server_handshake |-> 7, client_handshake_start |-> 8, handshake_failure |-> 10,
         client_almost_ready |-> 11, server_almost_ready |-> 12, client_ready |-> 13, server_ready |-> 14,
         disconnecting |-> 15, closing_received |-> 16, closing |-> 17, draining |-> 18, disconnected |-> 19]
Before(x, s) == Rank[x.state] < Rank[s]

Frames == [crypto |-> 0, ack |-> {}, close |-> "none", done |-> FALSE, data |-> FALSE]
IsPureAck(f) == f.crypto = 0 /\ f.close = "none" /\ ~f.done /\ ~f.data

create_cnx(e, state, key, id) ==
  [mode |-> e, exists |-> TRUE, state |-> state, observed |-> state,
   key |-> key,                                    \* initial_cnxid and version: they make the Initial keys
   id |-> id, remote |-> 0,                        \* local_cnxid and remote_cnxid
   token |-> FALSE, enc |-> {"initial"}, dec |-> {"initial"}, complete |-> FALSE,
   unsent |-> [p \in Pcs |-> IF e = "client" /\ p = "initial" THEN 1 ELSE 0], sent |-> [p \in Pcs |-> 0],
   got |-> [p \in Pcs |-> {}], consumed |-> [p \in Pcs |-> 0],
   pn |-> [p \in Pcs |-> 0], queue |-> [p \in Pcs |-> <<>>],
   received |-> [p \in Pcs |-> {}], ack_needed |-> [p \in Pcs |-> FALSE],
   done |-> FALSE, done_sent |-> FALSE, done_acked |-> FALSE,
   local_error |-> FALSE, data |-> "data" \in Calls /\ e = "client", events |-> <<>>]

NoContext == [create_cnx("server", "server_init", 0, 0) EXCEPT !.exists = FALSE]

Init ==
  /\ cnx = [client |-> create_cnx("client", "client_init", 1, 0), server |-> NoContext]
  /\ net = {} /\ faults = 0 /\ restarts = 0 /\ incarnation = 0

set_cnx_state(x, s) == [x EXCEPT !.state = s, !.observed = s]
Callback(x, event) == [x EXCEPT !.events = Append(@, event)]

connection_error(x) ==
  IF x.state \in {"client_ready", "server_ready"} THEN set_cnx_state([x EXCEPT !.local_error = TRUE], "disconnecting")
  ELSE IF Before(x, "client_ready") THEN set_cnx_state([x EXCEPT !.local_error = TRUE], "handshake_failure")
  ELSE x

-----------------------------------------------------------------------------
(***************************************************************************)
(* Sending.  A step of the sender is a pair: the context after it and the   *)
(* packets it made, none or one.                                            *)
(***************************************************************************)
Nothing(x) == [x |-> x, packets |-> <<>>]

Acknowledged(x, pc) == [x EXCEPT !.ack_needed[pc] = FALSE]

\* finalize_and_protect_packet and queue_for_retransmit
finalize_and_protect_packet(x, pc, f, padded) ==
  [x |-> [x EXCEPT !.pn[pc] = @ + 1, !.queue[pc] = Append(@, [pn |-> x.pn[pc], frames |-> [f EXCEPT !.ack = {}]])],
   packets |-> <<[from |-> x.mode, type |-> pc, pn |-> x.pn[pc], key |-> x.key, token |-> x.token,
                  source |-> x.id, to |-> x.remote, frames |-> f, padded |-> padded]>>]

\* picoquic_retransmit_needed: only the oldest packet is looked at; a pure acknowledgement is dropped
retransmit_needed(x, pc, due) ==
  IF due # pc \/ x.queue[pc] = <<>> THEN [x |-> x, frames |-> Frames]
  ELSE [x |-> [x EXCEPT !.queue[pc] = Tail(@)], frames |-> Head(x.queue[pc]).frames]

\* A repeated packet, with an acknowledgement where it has room: a client's Initial is padded before
Repeated(r, pc) ==
  IF r.x.mode = "client" /\ pc = "initial" THEN finalize_and_protect_packet(r.x, pc, r.frames, TRUE)
  ELSE finalize_and_protect_packet(Acknowledged(r.x, pc), pc, [r.frames EXCEPT !.ack = r.x.received[pc]], FALSE)

prepare_packet_old_context(x, pc, due) ==
  LET Behind(r, f) ==
        IF ~IsPureAck(r.frames) THEN Repeated(r, pc)
        ELSE IF r.x.ack_needed[pc] /\ f # Frames THEN finalize_and_protect_packet(Acknowledged(r.x, pc), pc, f, FALSE)
        ELSE Nothing(r.x)
      Looked(r) == Behind(r, [Frames EXCEPT !.ack = r.x.received[pc]])
  IN Looked(retransmit_needed(x, pc, due))

\* What the packets of an older number space leave to send
AfterOld(old, Then(_)) == IF old.packets # <<>> THEN old ELSE Then(old.x)

\* The number space of the next handshake packet
HandshakeSpace(x) == IF x.unsent["initial"] = 0 /\ "handshake" \in x.enc THEN "handshake" ELSE "initial"
OldInitial(x, due) ==
  IF HandshakeSpace(x) = "handshake" THEN prepare_packet_old_context(x, "initial", due) ELSE Nothing(x)

is_tls_stream_ready(x) == \E p \in x.enc : x.unsent[p] > 0

\* picoquic_prepare_crypto_hs_frame
WriteCrypto(x, pc) ==
  IF x.unsent[pc] = 0 THEN x ELSE [x EXCEPT !.unsent[pc] = @ - 1, !.sent[pc] = @ + 1]
CryptoFrame(x, pc) == IF x.unsent[pc] = 0 THEN 0 ELSE x.sent[pc] + 1

AllSent(x) == \A p \in Pcs : x.unsent[p] = 0

\* "If stream zero packets are sent, progress the state"
ClientProgress(x, pc, wrote) ==
  IF ~wrote \/ x.unsent[pc] > 0 THEN x
  ELSE CASE x.state = "client_init" -> set_cnx_state(x, "client_init_sent")
         [] x.state = "client_renegotiate" -> set_cnx_state(x, "client_init_resent")
         [] x.state = "client_almost_ready" /\ AllSent(x) -> Callback(set_cnx_state(x, "client_ready"), "almost_ready")
         [] OTHER -> x

ClientInit(r, pc) ==
  LET Write(f) == finalize_and_protect_packet(ClientProgress(Acknowledged(WriteCrypto(r.x, pc), pc), pc, f.crypto # 0),
                                              pc, f, pc = "initial")
  IN IF ~IsPureAck(r.frames) THEN Repeated(r, pc)
     ELSE IF ~is_tls_stream_ready(r.x) /\ ~r.x.ack_needed[pc] THEN Nothing(r.x)
     ELSE Write([Frames EXCEPT !.crypto = CryptoFrame(r.x, pc), !.ack = IF r.x.ack_needed[pc] THEN r.x.received[pc] ELSE {}])

prepare_packet_client_init(x, due) ==
  LET possible == x.state \in {"client_init_sent", "client_init_resent", "client_handshake_start"}
      New(y) == ClientInit(retransmit_needed(y, HandshakeSpace(x), IF possible THEN due ELSE "none"), HandshakeSpace(x))
  IN AfterOld(OldInitial(x, due), New)

\* "progress the state if the epoch data is all sent"
ServerProgress(x, pc, wrote) ==
  IF ~wrote \/ x.unsent[pc] > 0 THEN x
  ELSE IF pc = "handshake" THEN Callback(set_cnx_state(x, "server_ready"), "almost_ready")
  ELSE set_cnx_state(x, "server_handshake")

ServerInit(y, pc, due) ==
  LET Write(f) == finalize_and_protect_packet(ServerProgress(Acknowledged(WriteCrypto(y, pc), pc), pc, f.crypto # 0), pc, f, FALSE)
      Repeat(r) == IF IsPureAck(r.frames) THEN Nothing(r.x) ELSE Repeated(r, pc)
  IN IF is_tls_stream_ready(y) \/ y.ack_needed[pc]
       THEN Write([Frames EXCEPT !.crypto = CryptoFrame(y, pc), !.ack = y.received[pc]])
       ELSE Repeat(retransmit_needed(y, pc, due))

prepare_packet_server_init(x, due) ==
  LET New(y) == ServerInit(y, HandshakeSpace(x), due) IN AfterOld(OldInitial(x, due), New)

TellsDone(x) == x.mode = "server" /\ x.done /\ ~x.done_sent

\* Initial and Handshake packets are repeated and acknowledged until this holds no more
ServesHandshake_Client(x) == x.mode = "client" /\ ~x.done
ServesHandshake(x) == ~x.done \/ (x.mode = "server" /\ ~x.done_acked)

ReadyFrames(r) ==
  IF IsPureAck(r.frames)
    THEN [Frames EXCEPT !.done = TellsDone(r.x), !.data = r.x.data,
                        !.ack = IF r.x.ack_needed["application"] THEN r.x.received["application"] ELSE {}]
    ELSE [r.frames EXCEPT !.ack = r.x.received["application"]]

WriteReady(r, f, pad) ==
  IF f = Frames /\ ~pad THEN Nothing(r.x)
  ELSE finalize_and_protect_packet(
         Acknowledged([r.x EXCEPT !.done_sent = @ \/ f.done, !.data = IF IsPureAck(r.frames) THEN FALSE ELSE @], "application"),
         "application", f, pad)

\* coalesced: the datagram already holds an Initial packet
prepare_packet_ready(x, due, coalesced) ==
  LET Old(y, pc) == IF ServesHandshake(x) THEN prepare_packet_old_context(y, pc, due) ELSE Nothing(y)
      Written(r) == WriteReady(r, ReadyFrames(r), x.mode = "client" /\ coalesced)
      New(y) == Written(retransmit_needed(y, "application", due))
      Behind(y) == AfterOld(Old(y, "handshake"), New)
  IN AfterOld(Old(x, "initial"), Behind)

CloseFrame(x) == [Frames EXCEPT !.close = IF x.local_error THEN "connection" ELSE "application"]

\* exit: more than three retransmission timers have passed since the last progress
prepare_packet_closing(x, exit) ==
  LET failed == IF "handshake" \in x.enc THEN "handshake" ELSE "initial"
      pc == IF x.state = "handshake_failure" THEN failed ELSE "application"
      last == [CloseFrame(x) EXCEPT !.ack = x.received[pc]]
  IN CASE x.state = "closing_received" ->
            finalize_and_protect_packet(set_cnx_state(x, "draining"), pc, [Frames EXCEPT !.close = "connection"], FALSE)
       [] x.state = "closing" /\ exit -> Nothing(set_cnx_state(x, "disconnected"))
       [] x.state = "closing" /\ ~exit /\ x.ack_needed[pc] ->
            finalize_and_protect_packet(Acknowledged(x, pc), pc, CloseFrame(x), FALSE)
       [] x.state = "draining" /\ exit -> Nothing(set_cnx_state(x, "disconnected"))
       [] x.state \in {"disconnecting", "handshake_failure"} ->
            LET next == IF x.state = "handshake_failure" THEN "disconnected" ELSE "closing"
            IN finalize_and_protect_packet(Callback(Acknowledged(set_cnx_state(x, next), pc), "close"), pc, last, FALSE)
       [] OTHER -> Nothing(x)

prepare_segment(x, due, exit, coalesced) ==
  IF x.state \in {"client_ready", "server_ready"} THEN prepare_packet_ready(x, due, coalesced)
  ELSE IF x.state = "disconnected" THEN Nothing(x)
  ELSE IF x.state = "handshake_failure" \/ ~Before(x, "disconnecting") THEN prepare_packet_closing(x, exit)
  ELSE IF x.mode = "client" THEN prepare_packet_client_init(x, due)
  ELSE prepare_packet_server_init(x, due)

HasInitial(packets) == \E i \in DOMAIN packets : packets[i].type = "initial"

\* picoquic_prepare_packet: packets are coalesced until one has a short header, the datagram is full
\* (a padded packet, or room for n packets only), or there is nothing more to send
RECURSIVE Coalesce(_, _, _, _, _)
Coalesce(x, due, exit, n, packets) ==
  LET More(s, all) ==
        IF n = 1 \/ s.packets = <<>> \/ s.packets[1].type = "application" \/ s.packets[1].padded
          THEN [x |-> s.x, packets |-> all]
          ELSE Coalesce(s.x, "none", FALSE, n - 1, all)
      Made(s) == More(s, packets \o s.packets)
  IN Made(prepare_segment(x, due, exit, HasInitial(packets)))

\* What the timer of a packet may be: due at any time where Spurious holds, otherwise only when
\* neither the packet nor its acknowledgement is under way
UnderWay(e, pc) ==
  LET n == Head(cnx[e].queue[pc]).pn
      p == cnx[Peer(e)]
  IN \/ \E d \in net : \E i \in DOMAIN d :
           d[i].type = pc /\ (IF d[i].from = e THEN d[i].pn = n ELSE n \in d[i].frames.ack)
     \/ p.exists /\ p.ack_needed[pc] /\ n \in p.received[pc]
MayBeDue(e) ==
  {pc \in Pcs : cnx[e].queue[pc] # <<>> /\ (Spurious \/ ~UnderWay(e, pc))}

Send(datagram) == net' = IF datagram = <<>> THEN net ELSE net \cup {datagram}

\* One call of picoquic_prepare_packet
prepare_packet(e) ==
  /\ cnx[e].exists /\ cnx[e].state # "disconnected"
  /\ \A p \in Pcs : cnx[e].pn[p] < MaxPackets
  /\ \E due \in {"none"} \cup MayBeDue(e), n \in (IF e = "client" THEN {3} ELSE 1 .. MaxSegments), exit \in {FALSE, cnx[e].state \in {"closing", "draining"}} :
       \E s \in {Coalesce(cnx[e], due, exit, n, <<>>)} :
          /\ cnx' = [cnx EXCEPT ![e] = s.x]
          /\ Send(s.packets)
  /\ UNCHANGED <<faults, restarts, incarnation>>

-----------------------------------------------------------------------------
(***************************************************************************)
(* Receiving.                                                               *)
(***************************************************************************)
\* The queue is linked from the newest to the oldest: the walk from the oldest ends with it
implicit_handshake_ack(x, pc) == IF x.queue[pc] = <<>> THEN x ELSE [x EXCEPT !.queue[pc] = Tail(@)]

\* External: TLS.  The hello gives the handshake keys; at the server it also makes the whole answer
TlsHello(x, verdict) ==
  LET Answered(z) == IF z.state \in {"server_init", "server_handshake"} THEN set_cnx_state(z, "server_almost_ready") ELSE z
      Read(y) ==
        IF y.mode = "client" THEN [y EXCEPT !.enc = @ \cup {"handshake"}, !.dec = @ \cup {"handshake"}]
        ELSE IF verdict = "reject" THEN connection_error(y)
        ELSE Answered([y EXCEPT !.enc = Pcs, !.dec = @ \cup {"handshake"},
                                !.unsent["initial"] = 1, !.unsent["handshake"] = Flight])
  IN Read([x EXCEPT !.consumed["initial"] = 1])

Contiguous(set) == Max({k \in 0 .. Flight : 1 .. k \subseteq set})

\* External: TLS.  The last message completes the handshake
TlsFlight(x, verdict) ==
  LET Complete(z) == IF z.mode = "client" /\ Before(z, "handshake_failure") THEN set_cnx_state(z, "client_almost_ready") ELSE z
      Read(y) ==
        IF y.consumed["handshake"] < (IF y.mode = "client" THEN Flight ELSE 1) THEN y
        ELSE IF verdict = "reject" THEN connection_error(y)
        ELSE Complete([y EXCEPT !.complete = TRUE, !.enc = Pcs, !.dec = Pcs,
                                !.unsent["handshake"] = IF y.mode = "client" THEN 1 ELSE @])
  IN Read([x EXCEPT !.consumed["handshake"] = Contiguous(x.got["handshake"])])

tls_stream_process(x, verdict) ==
  LET Rest(y) == IF y.consumed["initial"] = 1 /\ "handshake" \in y.dec /\ ~y.complete
                    /\ Contiguous(y.got["handshake"]) > y.consumed["handshake"]
                   THEN TlsFlight(y, verdict) ELSE y
  IN Rest(IF x.consumed["initial"] = 0 /\ 1 \in x.got["initial"] THEN TlsHello(x, verdict) ELSE x)

\* process_ack_range: the packets of the queue that are acknowledged and told that the handshake is done
AckedDone(x, pc, ack) == SelectSeq(x.queue[pc], LAMBDA q : q.pn \in ack /\ q.frames.done)

process_ack_frame(x, pc, ack) ==
  LET Confirm(y, q) == implicit_handshake_ack(implicit_handshake_ack(y, "initial"), "handshake")
      Told(told) == FoldLeft(Confirm, [x EXCEPT !.done_acked = @ \/ told # <<>>], told)
  IN [Told(AckedDone(x, pc, ack)) EXCEPT !.queue[pc] = SelectSeq(@, LAMBDA q : q.pn \notin ack)]

\* The state is assigned, not set with picoquic_set_cnx_state
process_close_frame(x, kind) ==
  IF kind = "none" THEN x
  ELSE Callback([x EXCEPT !.state = IF Before(x, "client_ready") THEN "disconnected" ELSE "closing_received"],
                IF kind = "application" THEN "application_close" ELSE "close")

process_handshake_done_frame(x) ==
  IF x.mode # "client" THEN x
  ELSE implicit_handshake_ack(implicit_handshake_ack([x EXCEPT !.done = TRUE], "initial"), "handshake")

process_frames(x, pc, f) ==
  LET Crypto(y) == [y EXCEPT !.got[pc] = @ \cup ({f.crypto} \ {0})]
      Done(y) == IF f.done THEN process_handshake_done_frame(y) ELSE y
      Close(y) == process_close_frame(y, f.close)
  IN [Close(Done(Crypto(process_ack_frame(x, pc, f.ack)))) EXCEPT !.ack_needed[pc] = @ \/ ~IsPureAck(f)]

\* Before the keys of the application only some frames may be there: the others close the connection
decode_frames(x, pc, f) ==
  IF pc # "application" /\ (f.close = "application" \/ f.done \/ f.data)
    THEN [x |-> connection_error(x), ok |-> FALSE]
    ELSE [x |-> process_frames(x, pc, f), ok |-> TRUE]

Refuse(x) == [x |-> x, ok |-> FALSE]
Accept(x) == [x |-> x, ok |-> TRUE]

reset_cnx(x) ==
  [x EXCEPT !.key = @ + 1, !.queue = [p \in Pcs |-> <<>>], !.received = [p \in Pcs |-> {}],
            !.got = [p \in Pcs |-> {}], !.consumed = [p \in Pcs |-> 0], !.sent = [p \in Pcs |-> 0],
            !.unsent = [p \in Pcs |-> IF p = "initial" THEN 1 ELSE 0], !.enc = {"initial"}, !.dec = {"initial"}]

\* key: the connection id that the Retry packet echoes
incoming_retry(x, key) ==
  IF x.state \in {"client_init_sent", "client_init_resent"} /\ key = x.key
    THEN Refuse(reset_cnx([x EXCEPT !.token = TRUE])) ELSE Refuse(x)

incoming_server_cleartext(x, p, verdict) ==
  LET Keys(t) == IF "handshake" \in t.enc THEN implicit_handshake_ack(t, "initial") ELSE t
      Decoded(d, restricted) ==
        IF ~d.ok \/ restricted THEN d ELSE Accept(Keys(tls_stream_process(d.x, verdict)))
      Started(y) == IF y.remote # p.source THEN Refuse(y)
                    ELSE Decoded(decode_frames(y, p.type, p.frames), y.state # "client_handshake_start")
  IN Started(IF x.state \in {"client_init_sent", "client_init_resent"} THEN set_cnx_state(x, "client_handshake_start") ELSE x)

incoming_client_cleartext(x, p, verdict) ==
  LET Done(t) == implicit_handshake_ack(implicit_handshake_ack([t EXCEPT !.done = TRUE], "initial"), "handshake")
      Processed(t) == IF ~t.done /\ t.state = "server_ready" /\ t.complete THEN Accept(Callback(Done(t), "ready")) ELSE Accept(t)
      Decoded(d) == IF d.ok THEN Processed(tls_stream_process(d.x, verdict)) ELSE d
  IN IF x.state \notin {"server_init", "server_handshake", "server_almost_ready", "server_ready"} THEN Refuse(x)
     ELSE Decoded(decode_frames(x, "handshake", p.frames))

incoming_client_initial(x, p, verdict) ==
  LET Decoded(d) == IF d.ok THEN Accept(tls_stream_process(d.x, verdict)) ELSE d
  IN Decoded(decode_frames(x, "initial", p.frames))

\* "Do not process data in closing or draining modes"
IncomingClosing(x, f) ==
  IF x.state # "closing" THEN Refuse(x)
  ELSE IF f.close = "none" THEN Accept([x EXCEPT !.ack_needed["application"] = TRUE])
  ELSE Accept(set_cnx_state(x, IF x.mode = "client" THEN "disconnected" ELSE "draining"))

incoming_encrypted(x, p) ==
  IF Before(x, "client_almost_ready") \/ x.state = "disconnected" THEN Refuse(x)
  ELSE IF ~Before(x, "closing_received") THEN IncomingClosing(x, p.frames)
  ELSE decode_frames(x, "application", p.frames)

\* The source connection id of an Initial packet is learnt, or compared
RemoteIsRight(x, p) == x.mode = "server" \/ x.remote \in {0, p.source}

\* The whole of a packet whose keys are right and that is new; full: the datagram is not too short
IncomingNew(x, p, verdict) ==
  CASE p.type = "initial" /\ x.mode = "client" ->
         IF RemoteIsRight(x, p) THEN incoming_server_cleartext([x EXCEPT !.remote = p.source], p, verdict) ELSE Refuse(x)
    [] p.type = "initial" /\ x.mode = "server" -> incoming_client_initial(x, p, verdict)
    [] p.type = "handshake" /\ x.mode = "client" -> incoming_server_cleartext(x, p, verdict)
    [] p.type = "handshake" /\ x.mode = "server" -> incoming_client_cleartext(x, p, verdict)
    [] p.type = "application" -> incoming_encrypted(x, p)

record_pn_received(x, p) ==
  IF x.state = "disconnected" THEN x ELSE [x EXCEPT !.received[p.type] = @ \cup {p.pn}]

\* The packet is protected with keys that the context has
CanDecrypt(x, p) ==
  /\ p.type \in x.dec
  /\ IF p.type = "initial" THEN p.key = x.key
     ELSE IF x.mode = "client" THEN p.source = x.remote ELSE p.to = x.id

Recorded(r, p) == IF r.ok THEN Accept(record_pn_received(r.x, p)) ELSE r

incoming_segment(x, p, verdict) ==
  IF p.type = "retry" THEN incoming_retry(x, p.key)
  ELSE IF ~CanDecrypt(x, p) THEN Refuse(x)
  ELSE IF p.pn \in x.received[p.type] THEN Refuse([x EXCEPT !.ack_needed[p.type] = TRUE])
  ELSE Recorded(IncomingNew(x, p, verdict), p)

Drop(w) == [w EXCEPT !.reading = FALSE]

\* w: the context, the ids used, the answers sent without a context, and whether the datagram is still read
Went(w, r) == [w EXCEPT !.x = r.x, !.reading = r.ok]
AtClient(w, p, verdict) == IF ~w.x.exists THEN Drop(w) ELSE Went(w, incoming_segment(w.x, p, verdict))

Known(x, p) == x.exists /\ IF p.to = 0 THEN p.key = x.key ELSE p.to = x.id
Answer(w, type, key) ==
  [Drop(w) EXCEPT !.answers = @ \cup {<<[from |-> "server", type |-> type, key |-> key]>>}]

\* picoquic_incoming_initial on a context created for the packet: it is deleted when the packet fails
NewContext(w, p, verdict) ==
  LET Keep(r, kept) == [w EXCEPT !.x = IF kept THEN r.x ELSE @, !.incarnation = @ + 1, !.reading = kept]
      Tried(r) == Keep(r, r.ok /\ r.x.state # "disconnected")
  IN Tried(incoming_segment(create_cnx("server", "server_init", p.key, w.incarnation + 1), p, verdict))

\* full: "Create a connection context if the CI is acceptable" wants a datagram of 1200 bytes
AtServer(w, p, full, verdict) ==
  LET new == p.type = "initial" /\ ~Known(w.x, p) /\ p.to = 0
  IN CASE p.type = "initial" /\ ~full -> Drop(w)
       [] new /\ full /\ Retry /\ ~p.token -> Answer(w, "retry", p.key)
       [] new /\ full /\ ~(Retry /\ ~p.token) /\ ~w.x.exists -> NewContext(w, p, verdict)
       [] Known(w.x, p) /\ (p.type = "initial" => full) -> Went(w, incoming_segment(w.x, p, verdict))
       [] OTHER -> Drop(w)

\* picoquic_incoming_packet: the packets of a datagram in turn, until one fails
incoming_packet(d, verdict) ==
  LET e == Peer(d[1].from)
      full == \E i \in DOMAIN d : d[i].padded
      Step(w, p) == IF ~w.reading THEN w
                    ELSE IF e = "client" THEN AtClient(w, p, verdict) ELSE AtServer(w, p, full, verdict)
  IN \E w \in {FoldLeft(Step, [x |-> cnx[e], incarnation |-> incarnation, answers |-> {}, reading |-> TRUE], d)} :
       /\ cnx' = [cnx EXCEPT ![e] = w.x]
       /\ incarnation' = w.incarnation
       /\ \/ net' = (net \ {d}) \cup w.answers /\ faults' = faults
          \/ Duplicates /\ faults < MaxFaults /\ net' = net \cup w.answers /\ faults' = faults + 1
       /\ restarts' = restarts

Arrive == \E d \in net, verdict \in {"accept"} \cup (Calls \cap {"reject"}) : incoming_packet(d, verdict)

Lose ==
  /\ faults < MaxFaults
  /\ \E d \in net : net' = net \ {d}
  /\ faults' = faults + 1
  /\ UNCHANGED <<cnx, restarts, incarnation>>

-----------------------------------------------------------------------------
Update(e, x) == cnx' = [cnx EXCEPT ![e] = x] /\ UNCHANGED <<net, faults, restarts, incarnation>>

\* The application
picoquic_close(e) ==
  /\ "close" \in Calls /\ cnx[e].exists
  /\ \/ cnx[e].state \in {"client_ready", "server_ready"} /\ Update(e, set_cnx_state(cnx[e], "disconnecting"))
     \/ Before(cnx[e], "client_ready") /\ Update(e, set_cnx_state(cnx[e], "handshake_failure"))

\* picoquic_prepare_segment finds the connection silent for too long, or too many repetitions in vain
Silence(e) ==
  /\ "silence" \in Calls /\ cnx[e].exists /\ Before(cnx[e], "disconnecting")
  /\ Update(e, Callback(set_cnx_state(cnx[e], "disconnected"), "close"))

\* PICOQUIC_ERROR_DISCONNECTED: the application deletes the context
picoquic_delete_cnx(e) ==
  /\ cnx[e].exists /\ cnx[e].state = "disconnected"
  /\ Update(e, IF e = "server" THEN NoContext ELSE [cnx[e] EXCEPT !.exists = FALSE])

\* The server's machine loses the context
Restart ==
  /\ "restart" \in Calls /\ restarts = 0 /\ cnx["server"].exists
  /\ cnx' = [cnx EXCEPT !["server"] = NoContext]
  /\ restarts' = 1
  /\ UNCHANGED <<net, faults, incarnation>>

Next ==
  \/ \E e \in {"client", "server"} : prepare_packet(e) \/ picoquic_close(e) \/ Silence(e) \/ picoquic_delete_cnx(e)
  \/ Arrive \/ Lose \/ Restart

Spec == Init /\ [][Next]_vars

-----------------------------------------------------------------------------
TypeOK ==
  /\ \A e \in {"client", "server"} :
       /\ cnx[e].state \in DOMAIN Rank /\ cnx[e].enc \subseteq Pcs /\ cnx[e].dec \subseteq Pcs
       /\ cnx[e].unsent["handshake"] \in 0 .. Flight
  /\ faults \in 0 .. MaxFaults /\ restarts \in 0 .. 1 /\ incarnation \in Nat

Met == cnx["client"].exists /\ cnx["server"].exists /\ cnx["client"].remote = cnx["server"].id

(***************************************************************************)
(* A client that takes the handshake for confirmed (handshake_done, which   *)
(* stops its repetitions) has a server that read its last TLS message and    *)
(* holds the keys of both directions.                                       *)
(***************************************************************************)
ConfirmedIsComplete == Met /\ cnx["client"].done => cnx["server"].complete /\ cnx["server"].done_sent

(***************************************************************************)
(* Nobody is told that the connection is ready, or almost, after its close,  *)
(* and nobody is told of the close twice: the callbacks of incoming packets, *)
(* of timers and of the application's own close exclude each other.          *)
(***************************************************************************)
Ends == {"close", "application_close"}
ClosedIsToldOnce == \A e \in {"client", "server"} : \A i, j \in DOMAIN cnx[e].events :
                       i < j => cnx[e].events[i] \notin Ends

(***************************************************************************)
(* A context that is closed, for whatever reason (the peer's close, the      *)
(* application's own, a TLS failure, silence), has told its application, and *)
(* so it has before it may be deleted.                                      *)
(***************************************************************************)
EndIsTold == \A e \in {"client", "server"} :
  cnx[e].state \in {"closing_received", "closing", "draining", "disconnected"} =>
    \E i \in DOMAIN cnx[e].events : cnx[e].events[i] \in Ends

(***************************************************************************)
(* A handshake never stalls: when no datagram is under way and neither side  *)
(* would send, or repeat, anything, both have finished, and the server knows *)
(* that the client knows.                                                   *)
(***************************************************************************)
Quiet(e) == /\ cnx[e].exists
            /\ \A due \in {"none"} \cup MayBeDue(e) : Coalesce(cnx[e], due, FALSE, 3, <<>>) = Nothing(cnx[e])
Waiting == net = {} /\ Quiet("client") /\ (cnx["server"].exists => Quiet("server"))
HandshakeNeverStalls ==
  Waiting /\ (\A e \in {"client", "server"}, p \in Pcs : cnx[e].pn[p] < MaxPackets) =>
    /\ cnx["client"].state = "client_ready" /\ cnx["server"].state = "server_ready"
    /\ cnx["client"].done /\ cnx["server"].done_acked

\* "Observer-only anchor that must be triggered whenever the connection state has changed"
StateChangesAreObserved == \A e \in {"client", "server"} : cnx[e].observed = cnx[e].state

\* "Connection is disconnected. Just ignore the packet"
DisconnectedIsFinal ==
  [][\A e \in {"client", "server"} : cnx[e].state = "disconnected" /\ cnx'[e].exists => cnx'[e].state = "disconnected"]_vars

\* "Empty the handshake repeat queues when transitioning to the completely ready state"
HandshakeQueuesAreEmptied ==
  [][\A e \in {"client", "server"} : ~cnx[e].done /\ cnx'[e].done =>
        cnx'[e].queue["initial"] = <<>> /\ cnx'[e].queue["handshake"] = <<>>]_vars

=============================================================================
