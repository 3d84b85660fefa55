-------------------------- MODULE Receiver_proofs --------------------------
(***************************************************************************)
(* What the receiver notes and announces: the received-symbols tracker and  *)
(* the ring of symbols, the packets it announces as recovered and what the  *)
(* sender makes of them, and the frames that carry these announcements.     *)
(***************************************************************************)
EXTENDS ReceivedTracker, TrackerLemmas, PacketFate, RecoveredFrames, FiniteSetTheorems

\* The time the provers are given for a step.
USE SMTT(20), ZenonT(30)


(***************************************************************************)
(* For every order and repetition of arrivals the list of intervals is      *)
(* canonical and holds exactly the ids received.  TrackerTypeOK /\ ListIsExact is  *)
(* inductive.                                                              *)
(***************************************************************************)
THEOREM TrackerListIsExact == TrackerSpec => [](TrackerTypeOK /\ ListIsExact)
<1>1. TrackerInit => TrackerTypeOK /\ ListIsExact
  BY NewTracker DEF TrackerInit, TrackerTypeOK, ListIsExact, Nodes
<1>2. TrackerTypeOK /\ ListIsExact /\ [TrackerNext]_tracker_vars => (TrackerTypeOK /\ ListIsExact)'
  <2> SUFFICES ASSUME TrackerTypeOK, ListIsExact, [TrackerNext]_tracker_vars
               PROVE  (TrackerTypeOK /\ ListIsExact)'
    OBVIOUS
  <2>1. intervals \in Seq(Nodes) /\ Canonical(intervals) /\ Held(intervals) = received
        /\ received \subseteq Nat
    BY DEF TrackerTypeOK, ListIsExact, Nodes
  <2>2. CASE TrackerNext
    <3>1. PICK r \in Ids : Receive(r)
      BY <2>2 DEF TrackerNext
    <3>2. r \in Nat
      BY MaxIdAssumption DEF Ids, WINDOW_INITIAL_SYMBOL_ID
    <3>3. /\ intervals' \in Seq(Nodes) /\ Canonical(intervals')
          /\ Held(intervals') = Held(intervals) \cup {r}
      BY Zenon, <2>1, <3>1, <3>2, TrackerReceives DEF Receive
    <3>4. received' = received \cup {r}
      BY <3>1 DEF Receive
    <3> QED BY <2>1, <3>2, <3>3, <3>4 DEF TrackerTypeOK, ListIsExact, Nodes
  <2>3. CASE UNCHANGED tracker_vars
    BY <2>3 DEF tracker_vars, TrackerTypeOK, ListIsExact
  <2> QED BY <2>2, <2>3
<1> QED BY <1>1, <1>2, PTL DEF TrackerSpec

(***************************************************************************)
(* The id advertised in RWIN frames is exact too, for every sequence of     *)
(* arrivals: the receiver has every id up to it and not the next one.       *)
(***************************************************************************)
THEOREM TrackerStaysExact == TrackerSpec => []TrackerIsExact
<1>1. TrackerTypeOK /\ ListIsExact => TrackerIsExact
  BY HighestOfList
     DEF TrackerTypeOK, TrackerIsExact, ListIsExact, HighestContiguousIsExact, Highest, Nodes
<1> QED BY <1>1, TrackerListIsExact, PTL

(***************************************************************************)
(* For every size of the ring and every sequence of arrivals in which no id *)
(* is MaxSize or more above the last one, the ring holds exactly the        *)
(* symbols received among the last MaxSize ids, where ring_get looks for    *)
(* them.  RingExact (TrackerLemmas) is the inductive form: it also says     *)
(* what the entries of the array are.                                      *)
(***************************************************************************)
THEOREM RingStaysExact == TrackerSpec => []RingIsExact
<1> DEFINE RInv == /\ received \subseteq Nat /\ 0 \in received
                   /\ ~ jumped => RingExact(ring, received)
<1>1. TrackerInit => RInv
  BY DEF TrackerInit, RingExact
<1>2. RInv /\ [TrackerNext]_tracker_vars => RInv'
  <2> SUFFICES ASSUME RInv, [TrackerNext]_tracker_vars PROVE RInv'
    OBVIOUS
  <2>1. ASSUME NEW r \in Ids, Receive(r) PROVE RInv'
    <3>1. r \in Nat /\ r >= 1 /\ r < IdSpace
      BY MaxIdAssumption, RingAssumption DEF Ids, WINDOW_INITIAL_SYMBOL_ID
    <3>2. received' = received \cup {r} /\ ring' = ring_add(ring, r)
          /\ jumped' = (jumped \/ (received # {0} /\ r >= Max(received) + MaxSize))
      BY <2>1 DEF Receive
    <3>3. ASSUME ~ jumped' PROVE RingExact(ring', received')
      <4>1. RingExact(ring, received) /\ ~ (received # {0} /\ r >= Max(received) + MaxSize)
        BY Zenon, <3>2, <3>3
      <4>2. ASSUME Follows(ring, received) PROVE r < Newest(ring) + MaxSize
        <5>1. Max(received) = Newest(ring) /\ Newest(ring) \in Nat /\ Newest(ring) >= 1
          BY <4>2, ExactRingAnswers
        <5>2. received # {0}
          BY <4>2, <5>1 DEF Follows
        <5>3. ~ (r >= Newest(ring) + MaxSize)
          BY <4>1, <5>1, <5>2
        <5> QED BY <3>1, <5>1, <5>3, RingAssumption
      <4> QED BY <3>1, <3>2, <4>1, <4>2, AddKeepsRing DEF RingExact
    <3> QED BY <3>1, <3>2, <3>3
  <2>2. CASE UNCHANGED tracker_vars
    BY <2>2 DEF tracker_vars
  <2> QED BY <2>1, <2>2 DEF TrackerNext
<1>3. RInv => RingIsExact
  <2> SUFFICES ASSUME RInv, received # {0}, ~ jumped
               PROVE  LET last == Max(received)
                          first == Max({1, last - (MaxSize - 1)})
                      IN  /\ get_first_source_symbol_id(ring) = first
                          /\ get_last_source_symbol_id(ring) = last
                          /\ \A id \in first..last :
                               ring_get(ring, id) = IF id \in received THEN id ELSE NULL
    BY DEF RingIsExact
  <2>1. Follows(ring, received)
    BY DEF RingExact
  <2> DEFINE top == Newest(ring)
             f == ring.first_id
  <2>2. /\ top \in Nat /\ top >= 1 /\ f \in Nat /\ f >= 1 /\ top - f < MaxSize
        /\ f = 1 \/ f = top - (MaxSize - 1)
        /\ get_last_source_symbol_id(ring) = top
        /\ Max(received) = top
        /\ \A i \in f..top : ring_get(ring, i) = IF i \in received THEN i ELSE NULL
    BY <2>1, ExactRingAnswers
  <2>3. get_first_source_symbol_id(ring) = f
    BY DEF get_first_source_symbol_id
  <2> HIDE DEF top, f
  <2>4. Max({1, top - (MaxSize - 1)}) = f
    BY <2>2, MaxOfTwo, RingAssumption
  <2> QED BY <2>2, <2>3, <2>4
<1> QED BY <1>1, <1>2, <1>3, PTL DEF TrackerSpec

-----------------------------------------------------------------------------

(***************************************************************************)
(* The inductive invariant.  To OneFate and AnnouncementsAreTrue it adds    *)
(* where the packets of each queue come from (packets sent, FEC-related     *)
(* ones for all but the retransmission queue) and that the noted ranges     *)
(* name only packets the peer rebuilt, which is what a range that is        *)
(* consumed announces.                                                     *)
(***************************************************************************)
Sent == 1..(send_sequence - 1)

FateInv ==
  /\ FateTypeOK
  /\ OneFate
  /\ AnnouncementsAreTrue
  /\ queue \subseteq Sent /\ fec_related \subseteq Sent
  /\ lost_packets \subseteq fec_related /\ announced \subseteq fec_related
  /\ recovered \subseteq fec_related
  /\ \A pn \in Keys : pn..RangeEnd(pn) \subseteq recovered

(***************************************************************************)
(* retransmit_oldest is a packet of the queue (picoquic_queue_for_retransmit *)
(* and dequeue_retransmit_packet keep it so).                              *)
(***************************************************************************)
LEMMA OldestIsQueued ==
  ASSUME queue \subseteq Numbers, queue # {}
  PROVE  Oldest \in queue
<1>1. queue \in SUBSET Nat
  BY MaxPnAssumption DEF Numbers
<1> QED BY <1>1, MinOfPositions DEF Oldest

(***************************************************************************)
(* process_ack_frame announces no packet the frame does not acknowledge.    *)
(***************************************************************************)
LEMMA ProcessedIsAcked ==
  ASSUME NEW A
  PROVE  Processed(A) \subseteq A
BY DEF Processed, AckRange

(***************************************************************************)
(* The initial state satisfies the invariant.                              *)
(***************************************************************************)
LEMMA FateAtStart ==
  FateInit => FateInv
<1> SUFFICES ASSUME FateInit PROVE FateInv
  OBVIOUS
<1>1. FateTypeOK
  BY MaxPnAssumption DEF FateInit, FateTypeOK, Numbers
<1>2. Keys = {}
  BY DEF FateInit, Keys
<1> QED BY <1>1, <1>2 DEF FateInit, FateInv, OneFate, AnnouncementsAreTrue

(***************************************************************************)
(* A step that leaves the ranges alone, and takes no rebuilt packet back,   *)
(* leaves the ranges true.                                                 *)
(***************************************************************************)
LEMMA RangesStay ==
  ASSUME FateInv, UNCHANGED recovered_packets_ranges, recovered \subseteq recovered'
  PROVE  \A pn \in Keys' : (pn..RangeEnd(pn) \subseteq recovered)'
BY DEF FateInv, Keys, RangeEnd

(***************************************************************************)
(* A packet is sent: its number is new, so it has no fate yet.             *)
(***************************************************************************)
LEMMA SendKeepsFate ==
  ASSUME FateInv, NEW b \in BOOLEAN, queue_for_retransmit(b)
  PROVE  FateInv'
<1> USE DEF queue_for_retransmit, peer
<1>1. send_sequence \in Nat /\ send_sequence \in Numbers /\ Sent' = Sent \cup {send_sequence}
      /\ send_sequence \notin Sent /\ send_sequence + 1 \in 1..(MaxPn + 1)
  BY MaxPnAssumption DEF FateInv, FateTypeOK, Numbers, Sent
<1>2. FateTypeOK'
  BY <1>1 DEF FateInv, FateTypeOK
<1>3. OneFate' /\ AnnouncementsAreTrue'
  BY <1>1 DEF FateInv, OneFate, AnnouncementsAreTrue
<1>4. \A pn \in Keys' : (pn..RangeEnd(pn) \subseteq recovered)'
  BY RangesStay
<1> QED BY <1>1, <1>2, <1>3, <1>4 DEF FateInv

(***************************************************************************)
(* A packet reaches the peer, or is rebuilt there.                         *)
(***************************************************************************)
LEMMA PeerKeepsFate ==
  ASSUME FateInv, NEW pn \in Numbers, ArriveAtPeer(pn) \/ RebuildAtPeer(pn)
  PROVE  FateInv'
<1> USE DEF ArriveAtPeer, RebuildAtPeer
<1>1. FateTypeOK' /\ OneFate' /\ AnnouncementsAreTrue' /\ Sent' = Sent
  BY Zenon DEF FateInv, FateTypeOK, OneFate, AnnouncementsAreTrue, Sent
<1>2. recovered' \subseteq fec_related' /\ recovered \subseteq recovered'
  BY DEF FateInv
<1>3. \A p \in Keys' : (p..RangeEnd(p) \subseteq recovered)'
  BY <1>2, RangesStay
<1> QED BY <1>1, <1>2, <1>3 DEF FateInv

(***************************************************************************)
(* An ACK frame of packets the peer received, whichever blocks of it are    *)
(* processed.                                                              *)
(***************************************************************************)
LEMMA AckKeepsFate ==
  ASSUME FateInv, NEW A \in SUBSET arrived, process_ack_frame(A)
  PROVE  FateInv'
<1> DEFINE S == Processed(A)
<1>1. S \subseteq arrived
  BY ProcessedIsAcked
<1> HIDE DEF S
<1> USE DEF process_ack_frame, process_ack_ranges, Announce, peer
<1>2. process_ack_ranges(S)
  BY DEF S
<1>3. FateTypeOK' /\ Sent' = Sent
  BY Zenon, <1>2 DEF FateInv, FateTypeOK, Sent
<1>4. OneFate' /\ AnnouncementsAreTrue'
  BY <1>1, <1>2 DEF FateInv, OneFate, AnnouncementsAreTrue
<1>5. \A p \in Keys' : (p..RangeEnd(p) \subseteq recovered)'
  BY RangesStay
<1> QED BY <1>2, <1>3, <1>4, <1>5 DEF FateInv

(***************************************************************************)
(* A loss: the oldest packet changes queue, or is sent again.              *)
(***************************************************************************)
LEMMA LossKeepsFate ==
  ASSUME FateInv, NEW b \in BOOLEAN, retransmit_needed(b)
  PROVE  FateInv'
<1> USE DEF retransmit_needed, peer
<1>1. Oldest \in queue
  BY OldestIsQueued DEF FateInv, FateTypeOK
<1>2. send_sequence \in Nat /\ (b => send_sequence \in Numbers /\ send_sequence + 1 \in 1..(MaxPn + 1))
      /\ send_sequence \notin Sent /\ Sent' = Sent \cup (IF b THEN {send_sequence} ELSE {})
  BY MaxPnAssumption DEF FateInv, FateTypeOK, Numbers, Sent
<1>3. FateTypeOK'
  BY <1>1, <1>2 DEF FateInv, FateTypeOK
<1>4. OneFate' /\ AnnouncementsAreTrue'
  BY <1>1, <1>2 DEF FateInv, OneFate, AnnouncementsAreTrue
<1>5. \A p \in Keys' : (p..RangeEnd(p) \subseteq recovered)'
  BY RangesStay
<1> QED BY <1>1, <1>2, <1>3, <1>4, <1>5 DEF FateInv

(***************************************************************************)
(* A RECOVERED frame names packets the peer rebuilt.                       *)
(***************************************************************************)
LEMMA RecoveredKeepsFate ==
  ASSUME FateInv, NEW pn \in Numbers, NEW n \in Numbers, NEW start,
         InRange(pn, n) \subseteq recovered, process_recovered_packets(pn, n, start)
  PROVE  FateInv'
<1> USE DEF process_recovered_packets
<1>1. n \in 0..MaxPn
  BY MaxPnAssumption DEF Numbers
<1>2. FateTypeOK' /\ Sent' = Sent
  BY <1>1 DEF FateInv, FateTypeOK, Sent
<1>3. OneFate' /\ AnnouncementsAreTrue'
  BY DEF FateInv, OneFate, AnnouncementsAreTrue
<1>4. ASSUME NEW p \in Keys'
      PROVE  (p..RangeEnd(p) \subseteq recovered)'
  <2>1. CASE recovered_packets_ranges'[p] = recovered_packets_ranges[p]
    BY <2>1 DEF FateInv, Keys, RangeEnd
  <2>2. CASE recovered_packets_ranges'[p] # recovered_packets_ranges[p]
    <3>1. p = pn /\ recovered_packets_ranges'[p] = n
      BY <2>2 DEF FateInv, FateTypeOK, Keys
    <3> QED BY <3>1 DEF RangeEnd, InRange
  <2> QED BY <2>1, <2>2
<1> QED BY <1>2, <1>3, <1>4 DEF FateInv

(***************************************************************************)
(* Recovered packets are notified: those announced are lost ones that a     *)
(* range names, and the oldest one in flight when a range holds it.         *)
(***************************************************************************)
LEMMA NotifyKeepsFate ==
  ASSUME FateInv, NEW b \in BOOLEAN, maybe_notify_recovered_packets_to_everybody(b)
  PROVE  FateInv'
<1> DEFINE o == Oldest
           reached == First(Reaching(o))
           below == {pn \in Keys : \A r \in reached : pn < r}
           hit == b /\ \E r \in reached : r <= o
           gone == IF ~ hit THEN {}
                   ELSE reached \cup First({pn \in Keys : \E r \in reached : pn > r /\ RangeEnd(r) = o})
           lost == LostBelow(o, below \cup reached)
           new == IF hit THEN {o} ELSE {}
<1>1. /\ Announce(lost \cup new)
      /\ lost_packets' = lost_packets \ lost
      /\ queue' = queue \ new
      /\ recovered_packets_ranges' =
           [pn \in Numbers |-> IF pn \in below \cup gone THEN 0 ELSE recovered_packets_ranges[pn]]
      /\ queue # {}
  BY Zenon DEF maybe_notify_recovered_packets_to_everybody
<1>2. UNCHANGED <<send_sequence, fec_related, named, arrived, recovered>>
  <2>1. UNCHANGED <<send_sequence, fec_related, peer>>
    BY Zenon DEF maybe_notify_recovered_packets_to_everybody
  <2> QED BY <2>1 DEF peer
<1>3. o \in queue /\ o \in Int
  <2>1. queue \subseteq Numbers /\ queue # {} /\ Numbers \subseteq Int
    BY <1>1, MaxPnAssumption DEF FateInv, FateTypeOK, Numbers
  <2> QED BY Zenon, <2>1, OldestIsQueued
<1>4. Reaching(o) \in SUBSET Nat
  BY MaxPnAssumption DEF Reaching, Keys, Numbers
<1>5. reached \subseteq Reaching(o)
  BY <1>4, MinOfPositions DEF First
<1>6. lost \subseteq lost_packets /\ lost \subseteq recovered
  <2>1. \A pn \in below \cup reached : pn..Min({RangeEnd(pn), o - 1}) \subseteq pn..RangeEnd(pn)
    <3> SUFFICES ASSUME NEW pn \in below \cup reached
                 PROVE  pn..Min({RangeEnd(pn), o - 1}) \subseteq pn..RangeEnd(pn)
      OBVIOUS
    <3>1. RangeEnd(pn) \in Int /\ pn \in Int
      BY <1>5, MaxPnAssumption DEF Reaching, Keys, RangeEnd, FateInv, FateTypeOK, Numbers
    <3>2. Min({RangeEnd(pn), o - 1}) \in Int /\ Min({RangeEnd(pn), o - 1}) <= RangeEnd(pn)
      <4>1. o - 1 \in Int
        BY <1>3
      <4> QED BY <3>1, <4>1, MinOfTwo, Zenon
    <3> QED BY <3>1, <3>2
  <2>2. below \cup reached \subseteq Keys
    BY <1>5 DEF Reaching
  <2> QED BY Zenon, <2>1, <2>2 DEF LostBelow, FateInv
<1>7. new \subseteq queue \cap recovered
  <2>1. ASSUME hit PROVE o \in recovered
    <3>1. PICK r \in Reaching(o) : r <= o
      BY <1>5, <2>1
    <3>2. r \in Keys /\ r \in Int /\ RangeEnd(r) \in Int /\ RangeEnd(r) >= o
      BY MaxPnAssumption DEF Reaching, Keys, RangeEnd, FateInv, FateTypeOK, Numbers
    <3>3. o \in r..RangeEnd(r)
      BY <1>3, <3>1, <3>2
    <3> QED BY <3>2, <3>3 DEF FateInv
  <2> QED BY <1>3, <2>1
<1>8. \A pn \in Keys' : (pn..RangeEnd(pn) \subseteq recovered)'
  <2> SUFFICES ASSUME NEW pn \in Keys' PROVE (pn..RangeEnd(pn) \subseteq recovered)'
    OBVIOUS
  <2>1. pn \in Keys /\ recovered_packets_ranges'[pn] = recovered_packets_ranges[pn]
    BY <1>1 DEF Keys
  <2> QED BY <1>2, <2>1 DEF FateInv, RangeEnd
<1>9. recovered_packets_ranges' \in [Numbers -> 0..MaxPn]
  BY <1>1, MaxPnAssumption DEF FateInv, FateTypeOK
<1> HIDE DEF lost, new, below, gone
<1>10. FateTypeOK' /\ Sent' = Sent
  BY <1>1, <1>2, <1>6, <1>7, <1>9 DEF FateInv, FateTypeOK, Announce, Sent
<1>11. OneFate' /\ AnnouncementsAreTrue'
  BY <1>1, <1>2, <1>6, <1>7 DEF FateInv, OneFate, AnnouncementsAreTrue, Announce
<1> QED BY <1>1, <1>2, <1>6, <1>7, <1>8, <1>10, <1>11 DEF FateInv, Announce

(***************************************************************************)
(* The invariant is inductive: one lemma per handler.                      *)
(***************************************************************************)
LEMMA FateInductive ==
  FateSpec => []FateInv
<1>1. FateInv /\ [FateNext]_fate_vars => FateInv'
  <2> SUFFICES ASSUME FateInv, [FateNext]_fate_vars PROVE FateInv'
    OBVIOUS
  <2>1. ASSUME NEW b \in BOOLEAN, queue_for_retransmit(b) PROVE FateInv'
    BY <2>1, SendKeepsFate
  <2>2. ASSUME NEW pn \in Numbers, ArriveAtPeer(pn) \/ RebuildAtPeer(pn) PROVE FateInv'
    BY <2>2, PeerKeepsFate
  <2>3. ASSUME NEW A \in SUBSET arrived, process_ack_frame(A) PROVE FateInv'
    BY <2>3, AckKeepsFate
  <2>4. ASSUME NEW b \in BOOLEAN, retransmit_needed(b) PROVE FateInv'
    BY <2>4, LossKeepsFate
  <2>5. ASSUME NEW pn \in Numbers, NEW n \in Numbers, NEW start, InRange(pn, n) \subseteq recovered,
               process_recovered_packets(pn, n, start)
        PROVE  FateInv'
    BY <2>5, RecoveredKeepsFate
  <2>6. ASSUME NEW b \in BOOLEAN, maybe_notify_recovered_packets_to_everybody(b) PROVE FateInv'
    BY <2>6, NotifyKeepsFate
  <2>7. ASSUME UNCHANGED fate_vars PROVE FateInv'
    BY <2>7 DEF fate_vars, FateInv, FateTypeOK, OneFate, AnnouncementsAreTrue, Sent, Keys, RangeEnd
  <2> QED BY <2>1, <2>2, <2>3, <2>4, <2>5, <2>6, <2>7 DEF FateNext
<1> QED BY FateAtStart, <1>1, PTL DEF FateSpec

(***************************************************************************)
(* However ACK frames, RECOVERED frames and losses race for a packet, an    *)
(* FEC-related packet is in flight, declared lost or announced, never two   *)
(* of these, is announced to the framework once, and is announced only when *)
(* it was received or rebuilt by the peer.                                  *)
(***************************************************************************)
THEOREM FateStaysSound ==
  FateSpec => []FateIsSound
<1>1. FateInv => FateIsSound
  BY DEF FateInv, FateIsSound
<1> QED BY FateInductive, <1>1, PTL
-----------------------------------------------------------------------------
(***************************************************************************)
(* No packet that a frame names was never rebuilt.                         *)
(***************************************************************************)
NamesWereRebuilt == \A k \in DOMAIN flight : flight[k].names \subseteq rebuilt

(***************************************************************************)
(* A frame is reserved for a packet that no frame in flight names, so that *)
(* no notification can take that packet away before the frame is written.  *)
(***************************************************************************)
ReservedForAFreshPacket ==
    queued # 0 => \E p \in recovered_packets : \A k \in DOMAIN flight : p \notin flight[k].names

ReportInv ==
    /\ TypeOK
    /\ ReportCountersAreExact
    /\ EveryFrameNamesAPacket
    /\ NamesWereRebuilt
    /\ ReservedForAFreshPacket

(***************************************************************************)
(* A frame filled from a non-empty tree names its smallest packet.         *)
(***************************************************************************)
LEMMA FilledFrameIsNotEmpty ==
  ASSUME NEW packets \in SUBSET Pns, packets # {}
  PROVE  fill_recovered_frame(packets) # {}
<1>1. packets \in SUBSET Nat
  BY ReportAssumption
<1> DEFINE p == Min(packets)
<1>2. p \in packets /\ \A y \in packets : p <= y
  BY <1>1, MinOfPositions
<1> HIDE DEF p
<1>3. {q \in packets : q < p} = {}
  <2>1. ASSUME NEW q \in packets PROVE ~(q < p)
    <3>1. q \in Nat /\ p \in Nat /\ p <= q
      BY <1>1, <1>2
    <3> QED BY <3>1
  <2> QED BY <2>1
<1>4. Cardinality({q \in packets : q < p}) = 0
  BY <1>3, FS_EmptySet
<1>5. 0 < Room
  BY ReportAssumption
<1>6. p \in fill_recovered_frame(packets)
  BY <1>2, <1>4, <1>5 DEF fill_recovered_frame
<1> QED BY <1>6

(***************************************************************************)
(* Taking one frame out leaves the others (picoquic_dequeue).              *)
(***************************************************************************)
LEMMA OthersStay ==
  ASSUME NEW S, NEW s \in Seq(S), NEW i \in 1 .. Len(s)
  PROVE  /\ Removed(s, i) \in Seq(S)
         /\ Len(Removed(s, i)) = Len(s) - 1
         /\ \A k \in DOMAIN Removed(s, i) : \E j \in DOMAIN s : Removed(s, i)[k] = s[j]
<1> DEFINE a == SubSeq(s, 1, i - 1)
           b == SubSeq(s, i + 1, Len(s))
<1>1. /\ a \in Seq(S) /\ Len(a) = i - 1
      /\ \A k \in 1 .. (i - 1) : a[k] = s[k]
  OBVIOUS
<1>2. /\ b \in Seq(S) /\ Len(b) = Len(s) - i
      /\ \A k \in 1 .. (Len(s) - i) : b[k] = s[k + i]
  OBVIOUS
<1>3. Removed(s, i) = a \o b
  BY DEF Removed
<1> HIDE DEF a, b
<1>4. /\ a \o b \in Seq(S) /\ Len(a \o b) = Len(s) - 1
      /\ \A k \in 1 .. (Len(s) - 1) :
            (a \o b)[k] = IF k <= i - 1 THEN a[k] ELSE b[k - (i - 1)]
  <2>1. Len(a) + Len(b) = Len(s) - 1
    BY <1>1, <1>2
  <2>2. /\ a \o b \in Seq(S) /\ Len(a \o b) = Len(a) + Len(b)
        /\ \A k \in 1 .. Len(a) + Len(b) :
              (a \o b)[k] = IF k <= Len(a) THEN a[k] ELSE b[k - Len(a)]
    BY <1>1, <1>2, JoinedSeqs, Zenon
  <2>3. Len(a) = i - 1
    BY <1>1
  <2> QED BY <2>1, <2>2, <2>3, Zenon
<1>5. ASSUME NEW k \in 1 .. (Len(s) - 1)
      PROVE  \E j \in DOMAIN s : (a \o b)[k] = s[j]
  <2>1. CASE k <= i - 1
    <3>1. k \in 1 .. (i - 1) /\ k \in DOMAIN s
      BY <2>1
    <3> QED BY <1>1, <1>4, <2>1, <3>1
  <2>2. CASE ~(k <= i - 1)
    <3>1. k - (i - 1) \in 1 .. (Len(s) - i) /\ k + 1 \in DOMAIN s /\ (k - (i - 1)) + i = k + 1
      BY <2>2
    <3> QED BY Zenon, <1>2, <1>4, <2>2, <3>1
  <2> QED BY Zenon, <2>1, <2>2
<1>6. DOMAIN (a \o b) = 1 .. (Len(s) - 1)
  <2>1. \A t \in Seq(S) : DOMAIN t = 1 .. Len(t)
    OBVIOUS
  <2> QED BY <1>4, <2>1, Zenon
<1> QED BY <1>3, <1>4, <1>5, <1>6, Zenon

LEMMA ReportInit ==
  Init => ReportInv
BY ReportAssumption DEF Init, ReportInv, TypeOK, ReportCountersAreExact, EveryFrameNamesAPacket,
     NamesWereRebuilt, ReservedForAFreshPacket

(***************************************************************************)
(* try_to_recover reserves a frame for packets that are new.               *)
(***************************************************************************)
LEMMA RecoverKeeps ==
  ASSUME ReportInv, NEW new \in SUBSET Pns, Recover(new)
  PROVE  ReportInv'
<1> USE DEF ReportInv
<1>1. /\ recovered_packets' = recovered_packets \cup new
      /\ rebuilt' = rebuilt \cup new
      /\ flight' = flight /\ reported' = reported /\ losses' = losses
      /\ n_recovered_frames_in_flight' = n_recovered_frames_in_flight
      /\ new # {} /\ new \cap rebuilt = {}
  BY DEF Recover, try_to_recover
<1>2. queued' = 1 /\ n_reserved_recovered_frames' = 1
  BY DEF Recover, try_to_recover, ReportCountersAreExact, TypeOK
<1>3. TypeOK'
  BY <1>1, <1>2 DEF TypeOK
<1>4. ReportCountersAreExact'
  BY <1>1, <1>2 DEF ReportCountersAreExact
<1>5. EveryFrameNamesAPacket' /\ NamesWereRebuilt'
  BY <1>1 DEF EveryFrameNamesAPacket, NamesWereRebuilt
<1>6. ReservedForAFreshPacket'
  <2>1. PICK p \in new : TRUE
    BY <1>1
  <2>2. \A k \in DOMAIN flight : p \notin flight[k].names
    BY <1>1, <2>1 DEF NamesWereRebuilt
  <2> QED BY <1>1, <2>1, <2>2 DEF ReservedForAFreshPacket
<1> QED BY <1>3, <1>4, <1>5, <1>6

(***************************************************************************)
(* Writing takes the only reservation, and the tree is not empty then.     *)
(***************************************************************************)
LEMMA WriteKeeps ==
  ASSUME ReportInv, write_recovered_frame
  PROVE  ReportInv'
<1> USE DEF ReportInv
<1> DEFINE new == [names |-> fill_recovered_frame(recovered_packets), arrived |-> FALSE]
<1>1. /\ flight' = Append(flight, new)
      /\ queued > 0 /\ queued' = queued - 1
      /\ n_recovered_frames_in_flight' = n_recovered_frames_in_flight + 1
      /\ n_reserved_recovered_frames' = n_reserved_recovered_frames - 1
      /\ recovered_packets' = recovered_packets /\ reported' = reported
      /\ rebuilt' = rebuilt /\ losses' = losses
  BY DEF write_recovered_frame
<1>2. queued' = 0 /\ n_reserved_recovered_frames' = 0
  BY <1>1 DEF ReportCountersAreExact, TypeOK
<1>3. new.names \subseteq recovered_packets /\ recovered_packets \in SUBSET Pns
  BY DEF fill_recovered_frame, TypeOK
<1>4. new \in Frames /\ new.names \subseteq rebuilt
  BY <1>3 DEF Frames, TypeOK
<1>5. recovered_packets # {}
  BY <1>1 DEF ReservedForAFreshPacket
<1>6. new.names # {}
  BY <1>3, <1>5, FilledFrameIsNotEmpty
<1> HIDE DEF new
<1>7. /\ flight' \in Seq(Frames) /\ Len(flight') = Len(flight) + 1
      /\ \A k \in DOMAIN flight' : flight'[k] = new \/ \E j \in DOMAIN flight : flight'[k] = flight[j]
  BY <1>1, <1>4 DEF TypeOK
<1>8. TypeOK'
  BY <1>1, <1>2, <1>7 DEF TypeOK
<1>9. ReportCountersAreExact'
  BY <1>1, <1>2, <1>7 DEF ReportCountersAreExact
<1>10. EveryFrameNamesAPacket'
  BY <1>6, <1>7 DEF EveryFrameNamesAPacket
<1>11. NamesWereRebuilt'
  BY <1>1, <1>4, <1>7 DEF NamesWereRebuilt
<1>12. ReservedForAFreshPacket'
  BY <1>2 DEF ReservedForAFreshPacket
<1> QED BY <1>8, <1>9, <1>10, <1>11, <1>12

(***************************************************************************)
(* An arrival changes no counter and no name.                              *)
(***************************************************************************)
LEMMA ArriveKeeps ==
  ASSUME ReportInv, NEW k \in DOMAIN flight, Arrive(k)
  PROVE  ReportInv'
<1> USE DEF ReportInv
<1>1. /\ flight' = [flight EXCEPT ![k].arrived = TRUE]
      /\ reported' = reported \cup flight[k].names
      /\ queued' = queued /\ rebuilt' = rebuilt /\ losses' = losses
      /\ recovered_packets' = recovered_packets
      /\ n_recovered_frames_in_flight' = n_recovered_frames_in_flight
      /\ n_reserved_recovered_frames' = n_reserved_recovered_frames
  BY DEF Arrive, plugin_vars
<1>2. flight \in Seq(Frames) /\ flight[k] \in Frames
  BY DEF TypeOK
<1>3. [flight[k] EXCEPT !.arrived = TRUE] \in Frames
  BY Zenon, <1>2 DEF Frames
<1>4. /\ flight' \in Seq(Frames) /\ Len(flight') = Len(flight) /\ DOMAIN flight' = DOMAIN flight
  BY <1>1, <1>2, <1>3
<1>5. \A j \in DOMAIN flight : flight'[j].names = flight[j].names
  BY <1>1, <1>2 DEF Frames
<1>6. flight[k].names \subseteq Pns
  BY <1>2 DEF Frames
<1>7. TypeOK'
  BY <1>1, <1>4, <1>6 DEF TypeOK
<1>8. ReportCountersAreExact'
  BY <1>1, <1>4 DEF ReportCountersAreExact
<1>9. EveryFrameNamesAPacket' /\ NamesWereRebuilt' /\ ReservedForAFreshPacket'
  BY <1>1, <1>4, <1>5 DEF EveryFrameNamesAPacket, NamesWereRebuilt, ReservedForAFreshPacket
<1> QED BY <1>7, <1>8, <1>9

(***************************************************************************)
(* What a notification leaves: the frame is gone from the ones in flight,   *)
(* and only packets that it named are forgotten.                           *)
(***************************************************************************)
LEMMA NotificationKeeps ==
  ASSUME ReportInv, NEW k \in DOMAIN flight, NEW lost \in BOOLEAN,
         notify_recovered_frame(flight[k], lost),
         flight' = Removed(flight, k),
         reported' = reported, rebuilt' = rebuilt, losses' \in Nat
  PROVE  ReportInv'
<1> USE DEF ReportInv
<1>1. /\ n_recovered_frames_in_flight' = n_recovered_frames_in_flight - 1
      /\ recovered_packets \ flight[k].names \subseteq recovered_packets'
      /\ recovered_packets' \subseteq recovered_packets
      /\ queued' = queued /\ n_reserved_recovered_frames' = n_reserved_recovered_frames
  BY DEF notify_recovered_frame
<1>2. flight \in Seq(Frames) /\ k \in 1 .. Len(flight)
  BY DEF TypeOK
<1>3. /\ flight' \in Seq(Frames) /\ Len(flight') = Len(flight) - 1
      /\ \A i \in DOMAIN flight' : \E j \in DOMAIN flight : flight'[i] = flight[j]
  BY <1>2, OthersStay
<1>4. TypeOK'
  BY <1>1, <1>3 DEF TypeOK
<1>5. ReportCountersAreExact'
  BY <1>1, <1>3 DEF ReportCountersAreExact, TypeOK
<1>6. EveryFrameNamesAPacket' /\ NamesWereRebuilt'
  BY <1>3 DEF EveryFrameNamesAPacket, NamesWereRebuilt
<1>7. ReservedForAFreshPacket'
  BY <1>1, <1>3 DEF ReservedForAFreshPacket
<1> QED BY <1>4, <1>5, <1>6, <1>7

LEMMA ReportNext ==
  ReportInv /\ [Next]_vars => ReportInv'
<1> SUFFICES ASSUME ReportInv, [Next]_vars PROVE ReportInv'
  OBVIOUS
<1>1. ASSUME NEW new \in SUBSET Pns, Recover(new) PROVE ReportInv'
  BY <1>1, RecoverKeeps
<1>2. CASE write_recovered_frame
  BY <1>2, WriteKeeps
<1>3. ASSUME NEW k \in DOMAIN flight, Arrive(k) PROVE ReportInv'
  BY <1>3, ArriveKeeps
<1>4. ASSUME NEW k \in DOMAIN flight, Acknowledge(k) PROVE ReportInv'
  <2>1. losses' \in Nat
    BY <1>4 DEF Acknowledge, ReportInv, TypeOK
  <2>2. /\ notify_recovered_frame(flight[k], FALSE) /\ flight' = Removed(flight, k)
        /\ reported' = reported /\ rebuilt' = rebuilt
    BY Zenon, <1>4 DEF Acknowledge
  <2> QED BY Zenon, <2>1, <2>2, NotificationKeeps
<1>5. CASE DeclareLost
  <2>1. losses' \in Nat
    BY <1>5 DEF DeclareLost, ReportInv, TypeOK
  <2>2. /\ notify_recovered_frame(flight[1], TRUE) /\ flight' = Tail(flight) /\ flight # <<>>
        /\ reported' = reported /\ rebuilt' = rebuilt
    BY Zenon, <1>5 DEF DeclareLost
  <2>3. flight \in Seq(Frames) /\ 1 \in DOMAIN flight
    BY <2>2 DEF ReportInv, TypeOK
  <2>4. Tail(flight) = Removed(flight, 1)
    BY <2>3 DEF Removed
  <2> QED BY Zenon, <2>1, <2>2, <2>3, <2>4, NotificationKeeps
<1>6. CASE UNCHANGED vars
  <2>1. /\ recovered_packets' = recovered_packets /\ queued' = queued /\ flight' = flight
        /\ n_reserved_recovered_frames' = n_reserved_recovered_frames
        /\ n_recovered_frames_in_flight' = n_recovered_frames_in_flight
        /\ reported' = reported /\ rebuilt' = rebuilt /\ losses' = losses
    BY <1>6 DEF vars, plugin_vars
  <2> QED BY <2>1 DEF ReportInv, TypeOK, ReportCountersAreExact, EveryFrameNamesAPacket,
              NamesWereRebuilt, ReservedForAFreshPacket
<1> QED BY <1>1, <1>2, <1>3, <1>4, <1>5, <1>6 DEF Next

LEMMA ReportInvariance ==
  Spec => []ReportInv
BY ReportInit, ReportNext, PTL DEF Spec

(***************************************************************************)
(* n_reserved_recovered_frames and n_recovered_frames_in_flight, which      *)
(* try_to_recover and notify_recovered_frame decide by, are exact, and no   *)
(* RECOVERED frame that window_write_recovered_frame.c writes is empty.     *)
(***************************************************************************)
THEOREM ReportsStaySound ==
  Spec => []ReportsAreSound
<1>1. ReportInv => ReportsAreSound
  BY DEF ReportInv, ReportsAreSound
<1> QED BY <1>1, ReportInvariance, PTL
=============================================================================
