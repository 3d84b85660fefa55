---------------------------- MODULE PacketHeader ----------------------------
(***************************************************************************)
(* Packet headers as bytes, and what a header is for: finding the          *)
(* connection a packet belongs to, its packet number, and where the next   *)
(* packet of the same datagram begins (picoquic/packet.c, sender.c,        *)
(* quicctx.c).  Clients talk to one server; every datagram ever sent may   *)
(* arrive, at any time, in any order and again, and the server forgets     *)
(* connections.                                                            *)
(*                                                                         *)
(* The first byte, ids, lengths and tokens are the bytes the code writes.  *)
(* A packet number takes its four bytes but counts modulo PnSpan instead   *)
(* of 2^32.  Header protection is the same mask applied twice, and is left *)
(* out.  AEAD is external: a packet opens where the reader has arrived at  *)
(* the same place, type, number, length and key as its sender.             *)
(***************************************************************************)
EXTENDS IntFormat, FiniteSets, FiniteSetsExt

CONSTANTS
    Clients,        \* client connections, 1 .. n
    AddressOf,      \* the address each of them sends from
    Proposed,       \* the versions clients may propose
    Supported,      \* picoquic_supported_versions
    UseRetry,       \* picoquic_context_check_token
    ClientDatagrams, \* the packets clients coalesce, sequences of types
    ServerDatagrams, \* the packets the server coalesces
    Jumps,          \* how far packet numbers advance between two packets kept
    PnSpan,         \* the numbers a packet number field can tell apart
    MaxNumber,      \* bound on packet numbers
    MaxContexts,    \* bound on the contexts the server creates
    MaxDatagrams    \* bound on the datagrams sent

VARIABLES
    cli,      \* the client contexts
    srv,      \* the contexts of the server, in the order of their creation
    by_net,   \* table_cnx_by_net of the server: a context, 0 for none
    net,      \* the datagrams sent so far
    reading   \* the datagram read last, and what was found in it

vars == <<cli, srv, by_net, net, reading>>

IdLength == 8            \* local_ctx_length, and the length of initial ids
Checksum == 16
PayloadLength == 24
RetryToken == [i \in 1 .. 16 |-> 90]
ENFORCED_INITIAL_MTU == 60
RESET_PACKET_MIN_SIZE == 37

Spaces == {"initial", "handshake", "application"}
Space(type) == IF type \in {"0rtt", "1rtt"} THEN "application" ELSE type

Id(tag) == [i \in 1 .. IdLength |-> tag]
NullId == <<>>

-----------------------------------------------------------------------------
(* Writing.  A context has the fields local_cnxid, remote_cnxid,            *)
(* initial_cnxid, retry_token and version of the connection.                *)

get_destination_connection_id(c, type) ==
    IF type \in {"initial", "0rtt"} /\ c.remote = NullId THEN c.initial ELSE c.remote

LongType(type) == CASE type = "initial" -> 0 [] type = "0rtt" -> 1
                    [] type = "handshake" -> 2 [] type = "retry" -> 3

PnBytes(number) == <<0, 0, 0, number % PnSpan>>

\* The header up to the payload length, whose two bytes update_payload_length
\* fills in.
LongHeader(c, type) ==
    LET dest == get_destination_connection_id(c, type) IN
    <<192 + 16 * LongType(type) + 3>> \o picoformat(c.version, 4)
        \o <<Len(dest)>> \o dest \o <<Len(c.local)>> \o c.local
        \o IF type = "initial" THEN VarintBytes(Len(c.token)) \o c.token ELSE <<>>

update_payload_length(length) == varint_encode_16(length)

create_packet_header(c, type, number, length) ==
    IF type = "1rtt"
    THEN <<64 + 3>> \o get_destination_connection_id(c, type) \o PnBytes(number)
    ELSE LongHeader(c, type) \o IF type = "retry" THEN <<>>
                                ELSE update_payload_length(length) \o PnBytes(number)

predict_packet_header_length(c, type) ==
    IF type = "1rtt" THEN 1 + Len(c.remote) + 4
    ELSE 1 + 4 + 2 + Len(get_destination_connection_id(c, type)) + Len(c.local) + 2 + 4
           + IF type = "initial" THEN Len(VarintBytes(Len(c.token))) + Len(c.token) ELSE 0

Filler(n) == [i \in 1 .. n |-> 0]

protect_packet(c, type, number) ==
    create_packet_header(c, type, number, 4 + PayloadLength + Checksum)
        \o Filler(PayloadLength + Checksum)

\* A datagram of packets of the given types; number gives the packet number
\* in each space and key what seals each type.
Coalesced(c, types, number, Key(_)) ==
    FoldLeft(LAMBDA d, type :
                 LET bytes == protect_packet(c, type, number[Space(type)]) IN
                 [bytes   |-> d.bytes \o bytes,
                  packets |-> Append(d.packets,
                      [at |-> Len(d.bytes), type |-> type, length |-> Len(bytes),
                       number |-> number[Space(type)], key |-> Key(type)])],
             [bytes |-> <<>>, packets |-> <<>>], types)

-----------------------------------------------------------------------------
(* Reading.  t holds the two tables: by_id, pairs of an id and a context;   *)
(* by_net, the context of the sender's address; initial, the initial id of  *)
(* each context.  Context 0 is NULL.                                        *)

ParseError(b) == [ret |-> 0, ptype |-> "error", offset |-> Len(b), payload |-> 0,
                  dest |-> NullId, srce |-> NullId, token |-> <<>>, vn |-> 0, cnx |-> 0]

cnx_by_id(t, id) ==
    LET found == {e \in t.by_id : e[1] = id} IN
    IF found = {} THEN 0 ELSE (CHOOSE e \in found : TRUE)[2]

FoundByAddress(t, ptype, dest) ==
    IF t.by_net # 0 /\ ptype \in {"initial", "0rtt"} /\ t.initial[t.by_net] = dest
    THEN t.by_net ELSE 0

FindContext(t, ptype, dest) ==
    IF cnx_by_id(t, dest) # 0 THEN cnx_by_id(t, dest) ELSE FoundByAddress(t, ptype, dest)

TypeOfLong(b) == <<"initial", "0rtt", "handshake", "retry">>[1 + ((b[1] \div 16) % 4)]

Quad(b, i) == b[i] * 16777216 + b[i + 1] * 65536 + b[i + 2] * 256 + b[i + 3]

\* The part of a long header behind the two ids; o bytes are read.
ParseBehindIds(b, t, o, h) ==
    LET ptype == TypeOfLong(b)
        Length(from, after, var) ==
            IF var.length = 0 \/ after + var.length + var.value > Len(b)
            THEN [h EXCEPT !.offset = after, !.payload = Max({0, Len(b) - after})]
            ELSE [h EXCEPT !.ptype = ptype, !.offset = after + var.length,
                           !.payload = var.value,
                           !.token = SubSeq(b, from + 1, after),
                           !.cnx = FindContext(t, ptype, h.dest)]
        Token(tok) == Length(o + tok.length, o + tok.length + tok.value,
                             varint_decode(b, o + tok.length + tok.value + 1))
    IN  CASE h.vn \notin Range(Supported) ->
               [h EXCEPT !.offset = o, !.payload = Len(b) - o]
          [] h.vn \in Range(Supported) /\ ptype = "retry" ->
               IF Len(b) =< o THEN [h EXCEPT !.offset = o]
               ELSE [h EXCEPT !.ptype = "retry", !.offset = o, !.payload = Len(b) - o,
                              !.cnx = FindContext(t, "retry", h.dest)]
          [] h.vn \in Range(Supported) /\ ptype = "initial" -> Token(varint_decode(b, o + 1))
          [] OTHER -> Length(o, o, varint_decode(b, o + 1))

\* picoquic_parse_connection_id takes an id of more than 20 bytes for none.
ParsedLength(l) == IF l =< 20 THEN l ELSE 0

ParseLong(b, t, o, ld, h) ==
    IF h.vn = 0
    THEN [h EXCEPT !.ptype = "version_negotiation", !.offset = o, !.payload = Len(b) - o,
                   !.cnx = IF ld > 0 THEN cnx_by_id(t, h.dest) ELSE 0]
    ELSE ParseBehindIds(b, t, o, h)

parse_long_header(b, t) ==
    IF Len(b) < 7 \/ 6 + b[6] + 1 > Len(b) THEN [ParseError(b) EXCEPT !.ret = -1]
    ELSE LET ld == ParsedLength(b[6])
             o  == 6 + ld + 1 + ParsedLength(b[6 + ld + 1])
         IN  ParseLong(b, t, o, ld,
                       [ParseError(b) EXCEPT !.vn = Quad(b, 2), !.dest = SubSeq(b, 7, 6 + ld),
                                              !.srce = SubSeq(b, 6 + ld + 2, o)])

\* The type of a short header is only set where its connection is known.
parse_short_header(b, t) ==
    IF Len(b) < 1 + IdLength THEN ParseError(b)
    ELSE LET dest == SubSeq(b, 2, 1 + IdLength)
             cnx  == cnx_by_id(t, dest)
         IN  [ParseError(b) EXCEPT !.ptype = IF cnx # 0 THEN "1rtt" ELSE "error",
                                   !.offset = 1 + IdLength, !.payload = Len(b) - 1 - IdLength,
                                   !.dest = dest, !.cnx = cnx]

parse_packet_header(b, t) ==
    IF (b[1] \div 64) % 2 = 0 THEN ParseError(b)
    ELSE IF b[1] >= 128 THEN parse_long_header(b, t) ELSE parse_short_header(b, t)

\* Mutant: the number is taken for a later one whenever it is behind.
get_packet_number64_Forward(highest, pn) ==
    LET expected == highest + 1
        pn64     == expected - (expected % PnSpan) + pn
    IN  IF pn64 < expected THEN pn64 + PnSpan ELSE pn64

get_packet_number64(highest, pn) ==
    LET expected == highest + 1
        pn64     == expected - (expected % PnSpan) + pn
    IN  IF pn64 < expected
        THEN IF PnSpan - (expected - pn64) < expected - pn64 THEN pn64 + PnSpan ELSE pn64
        ELSE IF PnSpan - (pn64 - expected) =< pn64 - expected /\ pn64 >= PnSpan
             THEN pn64 - PnSpan ELSE pn64

Highest(c, space) == Max(c.received[space] \cup {0})

\* Packet number, place of the payload and whether the packet opens.
decrypt_packet(d, pos, b, ph, c, key) ==
    LET Opened(number) ==
            [number |-> number,
             opens  |-> [at |-> pos, type |-> ph.ptype, length |-> ph.offset + ph.payload,
                         number |-> number, key |-> key] \in Range(d.packets),
             again  |-> number \in c.received[Space(ph.ptype)]]
    IN  Opened(get_packet_number64(Highest(c, Space(ph.ptype)), b[ph.offset + 4]))

Received(c, space, number) == [c EXCEPT !.received[space] = @ \cup {number}]

Rest(d, pos) == SubSeq(d.bytes, pos + 1, Len(d.bytes))

Stopped(s, why) == [s EXCEPT !.stop = why]

Found(s, d, ph, number, cnx) ==
    [s EXCEPT !.at = @ + ph.offset + ph.payload,
              !.found = Append(@, [type |-> ph.ptype, number |-> number, cnx |-> cnx])]

-----------------------------------------------------------------------------
(* The server.                                                              *)

ServerTables(s, from) ==
    [by_id   |-> {<<s.srv[i].local, i>> : i \in {j \in DOMAIN s.srv : s.srv[j].alive}},
     by_net  |-> s.by_net[from],
     initial |-> [i \in DOMAIN s.srv |-> s.srv[i].initial]]

\* Both registrations may fail silently: the address may belong to another
\* connection already.
create_cnx(s, from, ph) ==
    [s EXCEPT !.srv = Append(@, [initial |-> ph.dest, remote |-> ph.srce,
                                 local |-> Id(100 + Len(s.srv)), token |-> <<>>,
                                 version |-> ph.vn, alive |-> TRUE, peer |-> 0,
                                 next |-> [p \in Spaces |-> 0],
                                 received |-> [p \in Spaces |-> {}]]),
              !.by_net[from] = IF @ = 0 THEN Len(s.srv) + 1 ELSE @]

delete_cnx(s, i) ==
    [s EXCEPT !.srv[i].alive = FALSE,
              !.by_net = [a \in DOMAIN @ |-> IF @[a] = i THEN 0 ELSE @[a]]]

ServerKey(s, i, type) ==
    CASE type = "initial" -> s.srv[i].initial
      [] type = "0rtt"    -> <<s.srv[i].peer>>
      [] OTHER            -> <<s.srv[i].peer, i>>

\* The length byte of the original id is one of the old format, which keeps
\* the lengths of two ids in one byte.
OldLength(n) == IF n < 4 THEN 0 ELSE n - 3

queue_stateless_retry(s, d, i, ph) ==
    LET Bytes(c) == create_packet_header(c, "retry", 0, 0) \o <<OldLength(Len(c.initial))>>
                        \o c.initial \o RetryToken
        Asked(c) == [s EXCEPT !.srv[i] = c, !.out = @ \cup {[bytes |-> Bytes(c), packets |-> <<>>]}]
    IN  Asked([s.srv[i] EXCEPT !.remote = ph.srce])

\* The first byte is random, but for its first bit.
prepare_version_negotiation(s, ph) ==
    LET Bytes(first) == <<first>> \o picoformat(0, 4)
                            \o <<16 * OldLength(Len(ph.srce)) + OldLength(Len(ph.dest))>>
                            \o ph.srce \o ph.dest
                            \o FlattenSeq([i \in 1 .. Len(Supported) |-> picoformat(Supported[i], 4)])
    IN  [s EXCEPT !.out = @ \cup {[bytes |-> Bytes(first), packets |-> <<>>] : first \in {128, 192}}]

process_unexpected_cnxid(s, d, ph) ==
    IF Len(d.bytes) > RESET_PACKET_MIN_SIZE /\ ph.ptype = "1rtt"
    THEN [s EXCEPT !.out = @ \cup {[bytes |-> <<48>> \o Filler(RESET_PACKET_MIN_SIZE - 1),
                                    packets |-> <<>>]}]
    ELSE s

incoming_initial(s, d, i, ph, number, new) ==
    IF UseRetry /\ ph.token # RetryToken
    THEN LET Asked(r) == IF new THEN delete_cnx(r, i) ELSE r
         IN  Stopped(Asked(queue_stateless_retry(s, d, i, ph)), "retry")
    ELSE Found([s EXCEPT !.srv[i] = [Received(@, "initial", number)
                                     EXCEPT !.peer = d.client]], d, ph, number, i)

\* Context i is the connection of the packet; new where it was created for it.
OpenAtServer(s, d, ph, i, new) ==
    LET Opened(p) ==
          CASE ~ p.opens -> Stopped(IF new THEN delete_cnx(s, i) ELSE s, "aead")
            [] p.opens /\ p.again -> Stopped(s, "duplicate")
            [] p.opens /\ ~ p.again /\ ph.ptype = "initial" ->
                 IF s.srv[i].remote # ph.srce THEN Stopped(s, "unexpected")
                 ELSE incoming_initial(s, d, i, ph, p.number, new)
            [] OTHER -> Found([s EXCEPT !.srv[i] = Received(@, Space(ph.ptype), p.number)],
                              d, ph, p.number, i)
    IN  Opened(decrypt_packet(d, s.at, Rest(d, s.at), ph, s.srv[i], ServerKey(s, i, ph.ptype)))

SegmentAtServer(s, d) ==
    LET Read(ph) ==
        CASE ph.ret # 0 -> Stopped(s, "malformed")
          [] ph.ret = 0 /\ ph.ptype = "initial" /\ Len(d.bytes) < ENFORCED_INITIAL_MTU ->
               Stopped(s, "short")
          [] ph.ret = 0 /\ ph.ptype = "initial" /\ Len(d.bytes) >= ENFORCED_INITIAL_MTU
               /\ ph.cnx = 0 ->
               OpenAtServer(create_cnx(s, d.from, ph), d, ph, Len(s.srv) + 1, TRUE)
          [] ph.ret = 0 /\ ph.ptype # "initial" /\ ph.cnx = 0 ->
               IF ph.vn # 0 /\ ph.vn \notin Range(Supported)
               THEN Found(prepare_version_negotiation(s, ph), d, ph, 0, 0)
               ELSE Stopped(process_unexpected_cnxid(s, d, ph), "unknown")
          [] OTHER -> IF ph.ptype \in {"version_negotiation", "retry", "error"}
                      THEN Stopped(s, "unexpected")
                      ELSE OpenAtServer(s, d, ph, ph.cnx, FALSE)
    IN  Read(parse_packet_header(Rest(d, s.at), ServerTables(s, d.from)))

-----------------------------------------------------------------------------
(* A client: one connection, of its own picoquic context.                   *)

ClientTables(c) ==
    [by_id |-> {<<c.local, 1>>}, by_net |-> 1, initial |-> <<c.initial>>]

ClientKey(k, c, type) ==
    CASE type = "initial" -> c.initial
      [] type = "0rtt"    -> <<k>>
      [] OTHER            -> <<k, c.with>>

\* Before the first packet of a server: client_init_sent, client_init_resent.
InitSent(c) == c.with = 0

incoming_retry(s, b, ph) ==
    LET length == IF b[ph.offset + 1] % 16 = 0 THEN 0 ELSE (b[ph.offset + 1] % 16) + 3
        from   == ph.offset + 1
    IN  IF InitSent(s.c) /\ ph.vn = s.c.version /\ length = Len(s.c.initial)
           /\ SubSeq(b, from + 1, from + length) = s.c.initial
        THEN Stopped([s EXCEPT !.c = [@ EXCEPT !.initial = ph.srce,
                                               !.token = SubSeq(b, from + length + 1, Len(b)),
                                               !.received["initial"] = {}]], "retry")
        ELSE Stopped(s, "unexpected")

incoming_version_negotiation(s, d, ph) ==
    IF InitSent(s.c)
    THEN Found([s EXCEPT !.c.version = Supported[1]], d, ph, 0, 1)
    ELSE Stopped(s, "unexpected")

OpenAtClient(s, d, ph, k) ==
    LET Taken(number) == Found([s EXCEPT !.c = Received(@, Space(ph.ptype), number)], d, ph, number, 1)
        Opened(p) ==
          CASE ~ p.opens -> Stopped(s, "aead")
            [] p.opens /\ p.again -> Stopped(s, "duplicate")
            [] p.opens /\ ~ p.again /\ ph.ptype = "initial" ->
                 IF s.c.remote \notin {NullId, ph.srce} THEN Stopped(s, "unexpected")
                 ELSE [Taken(p.number) EXCEPT !.c.remote = ph.srce, !.c.with = d.context]
            [] OTHER -> Taken(p.number)
    IN  Opened(decrypt_packet(d, s.at, Rest(d, s.at), ph, s.c, ClientKey(k, s.c, ph.ptype)))

SegmentAtClient(s, d, k) ==
    LET Read(ph) ==
        CASE ph.ret # 0 -> Stopped(s, "malformed")
          [] ph.ret = 0 /\ ph.cnx = 0 -> Stopped(s, "unknown")
          [] ph.ret = 0 /\ ph.cnx # 0 /\ ph.ptype = "version_negotiation" ->
               incoming_version_negotiation(s, d, ph)
          [] ph.ret = 0 /\ ph.cnx # 0 /\ ph.ptype = "retry" ->
               incoming_retry(s, Rest(d, s.at), ph)
          [] OTHER -> IF ph.ptype = "error" THEN Stopped(s, "unexpected")
                      ELSE OpenAtClient(s, d, ph, k)
    IN  Read(parse_packet_header(Rest(d, s.at), ClientTables(s.c)))

RECURSIVE incoming_packet(_, _)
incoming_packet(s, d) ==
    IF s.stop # "" \/ s.at >= Len(d.bytes) THEN s
    ELSE incoming_packet(IF d.server THEN SegmentAtServer(s, d)
                         ELSE SegmentAtClient(s, d, d.client), d)

-----------------------------------------------------------------------------
NothingRead == [client |-> 0, packets |-> <<>>, found |-> <<>>, stop |-> "", expected |-> 0]

Init ==
    /\ \E proposed \in [Clients -> Proposed] :
          cli = [k \in Clients |->
                    [initial |-> Id(200 + k), local |-> Id(10 + k), remote |-> NullId,
                     token |-> <<>>, version |-> proposed[k], with |-> 0,
                     next |-> [p \in Spaces |-> 0], received |-> [p \in Spaces |-> {}]]]
    /\ srv = <<>>
    /\ by_net = [a \in Range(AddressOf) |-> 0]
    /\ net = {}
    /\ reading = NothingRead

\* The number of the next packet in each space.  In the application space
\* packets may have gone out that the model does not follow.
Numbers(c, jump) == [p \in Spaces |-> c.next[p] + IF p = "application" THEN jump ELSE 0]

Advanced(c, types, number) ==
    [c EXCEPT !.next = [p \in Spaces |-> IF \E i \in DOMAIN types : Space(types[i]) = p
                                         THEN number[p] + 1 ELSE @[p]]]

\* Keys for handshake and 1-RTT packets come with the first packets of the
\* server, those for 0-RTT from an earlier session.
ClientSends(k, types, jump) ==
    LET c      == cli[k]
        number == Numbers(c, jump)
        Key(type) == ClientKey(k, c, type)
        d      == Coalesced(c, types, number, Key)
    IN  /\ Cardinality(net) < MaxDatagrams
        /\ \A p \in Spaces : number[p] =< MaxNumber
        /\ InitSent(c) => Range(types) \subseteq {"initial", "0rtt"}
        /\ cli' = [cli EXCEPT ![k] = Advanced(c, types, number)]
        /\ net' = net \cup {[bytes |-> d.bytes, packets |-> d.packets, server |-> TRUE,
                             client |-> k, from |-> AddressOf[k], context |-> c.with,
                             fresh |-> c.remote = NullId /\ c.version \in Range(Supported)
                                         /\ (UseRetry => c.token = RetryToken)]}
        /\ UNCHANGED <<srv, by_net, reading>>

ServerSends(i, types, jump) ==
    LET c      == srv[i]
        number == Numbers(c, jump)
        Key(type) == ServerKey([srv |-> srv], i, type)
        d      == Coalesced(c, types, number, Key)
    IN  /\ Cardinality(net) < MaxDatagrams
        /\ c.alive /\ c.peer # 0
        /\ \A p \in Spaces : number[p] =< MaxNumber
        /\ srv' = [srv EXCEPT ![i] = Advanced(c, types, number)]
        /\ net' = net \cup {[bytes |-> d.bytes, packets |-> d.packets, server |-> FALSE,
                             client |-> c.peer, from |-> 0, context |-> i, fresh |-> FALSE]}
        /\ UNCHANGED <<cli, by_net, reading>>

\* The contexts of the server that packet p of d may be meant for: they hold
\* its key, and are the one the client talks to where it knows of one.
Holders(d, p) == {i \in DOMAIN srv : /\ srv[i].alive
                                      /\ ServerKey([srv |-> srv], i, p.type) = p.key
                                      /\ d.context \in {0, i}}

\* What an endpoint has received in the space of p, as far as p is concerned.
Known(d, p) ==
    IF d.server THEN UNION {srv[i].received[Space(p.type)] : i \in Holders(d, p)}
    ELSE cli[d.client].received[Space(p.type)]

\* Packets do not arrive half a span early or late.
Timely(d) ==
    \A p \in Range(d.packets) :
        LET expected == Max(Known(d, p) \cup {0}) + 1 IN
        p.number \in expected - PnSpan \div 2 .. expected + PnSpan \div 2 - 1

\* What still goes to the initial id is found by the address of the client,
\* which several connections may share but only the first one registers.
OwnsAddress(d) == by_net[d.from] = 0 \/ srv[by_net[d.from]].peer = d.client

\* Packet j of d is one that its receiver can read: it holds the key, or gets
\* it with an earlier packet of the datagram, and has not read it before.
ReadableAtServer(d, j) ==
    LET p == d.packets[j] IN
    /\ p.number \notin Known(d, p)
    /\ \/ Holders(d, p) # {}
       \/ d.fresh /\ j = 1 /\ p.type = "initial"
       \/ d.fresh /\ j > 1 /\ p.type = "0rtt"
    /\ p.type = "0rtt" /\ d.fresh => OwnsAddress(d)

ReadableAtClient(d, j) ==
    LET p == d.packets[j]
        c == cli[d.client]
    IN  /\ p.number \notin Known(d, p)
        /\ IF p.type = "initial"
           THEN p.key = c.initial /\ c.remote \in {NullId, srv[d.context].local}
           ELSE c.with = d.context \/ (c.with = 0 /\ j > 1 /\ d.packets[1].key = c.initial
                                         /\ c.remote = NullId)

Expected(d) ==
    Max({n \in 0 .. Len(d.packets) :
            \A j \in 1 .. n : IF d.server THEN ReadableAtServer(d, j)
                              ELSE ReadableAtClient(d, j)})

Answers(d, out) ==
    {[bytes |-> o.bytes, packets |-> o.packets, server |-> FALSE, client |-> d.client,
      from |-> 0, context |-> 0, fresh |-> FALSE] : o \in out}

Noted(d, r) == [client |-> d.client, packets |-> d.packets, found |-> r.found,
                stop |-> r.stop, expected |-> Expected(d)]

ArriveAtServer(d) ==
    /\ d.server /\ Timely(d) /\ Len(srv) < MaxContexts
    /\ \E r \in {incoming_packet([srv |-> srv, by_net |-> by_net, out |-> {}, at |-> 0,
                                  found |-> <<>>, stop |-> ""], d)} :
          /\ srv' = r.srv /\ by_net' = r.by_net
          /\ net' = net \cup Answers(d, r.out)
          /\ reading' = Noted(d, r)
          /\ UNCHANGED cli

ArriveAtClient(d) ==
    /\ ~ d.server /\ Timely(d)
    /\ \E r \in {incoming_packet([c |-> cli[d.client], at |-> 0, found |-> <<>>, stop |-> ""], d)} :
          /\ cli' = [cli EXCEPT ![d.client] = r.c]
          /\ reading' = Noted(d, r)
          /\ UNCHANGED <<srv, by_net, net>>

\* The server deletes a connection, and forgets its ids.
Forget(i) ==
    /\ srv[i].alive
    /\ LET s == delete_cnx([srv |-> srv, by_net |-> by_net], i) IN
       srv' = s.srv /\ by_net' = s.by_net
    /\ UNCHANGED <<cli, net, reading>>

Next ==
    \/ \E k \in Clients, types \in ClientDatagrams, jump \in Jumps : ClientSends(k, types, jump)
    \/ \E i \in DOMAIN srv, types \in ServerDatagrams, jump \in Jumps : ServerSends(i, types, jump)
    \/ \E d \in net : ArriveAtServer(d) \/ ArriveAtClient(d)
    \/ \E i \in DOMAIN srv : Forget(i)

Spec == Init /\ [][Next]_vars

-----------------------------------------------------------------------------
\* The header length a packet is laid out with, before its header exists, is
\* the length of the header written in front of it at the end: otherwise the
\* payload encrypted by picoquic_protect_packet is not the one prepared.
PredictedHeaderIsExact ==
    /\ \A k \in Clients, type \in {"initial", "0rtt", "handshake", "1rtt"} :
          predict_packet_header_length(cli[k], type)
              = Len(create_packet_header(cli[k], type, 0, 0))
    /\ \A i \in DOMAIN srv, type \in {"initial", "handshake", "1rtt"} :
          predict_packet_header_length(srv[i], type)
              = Len(create_packet_header(srv[i], type, 0, 0))

\* Whatever arrived before, in whatever order: the packets of a datagram that
\* their receiver holds the keys for are all found by picoquic_incoming_packet,
\* with the type and the full packet number they were sent with, up to the
\* first one that cannot be read.
LivePacketsAreRead ==
    /\ Len(reading.found) >= reading.expected
    /\ \A j \in 1 .. reading.expected :
          /\ reading.found[j].type = reading.packets[j].type
          /\ reading.found[j].number = reading.packets[j].number

\* A repeated client Initial does not open a second context next to a live one
\* that holds the client's address.
OneContextPerAttempt ==
    \A i, j \in DOMAIN srv :
        (i # j /\ srv[i].alive /\ srv[j].alive /\ srv[i].initial = srv[j].initial
           /\ srv[i].peer # 0)
        => by_net[AddressOf[srv[i].peer]] # i \/ j < i

\* Violated: a version negotiation packet is taken for what it is by the
\* client it is sent to.
VersionNegotiationIsRead ==
    (reading.client # 0 /\ reading.packets = <<>>) =>
        \/ reading.stop \in {"retry", "unexpected"}
        \/ reading.found # <<>>
=============================================================================
