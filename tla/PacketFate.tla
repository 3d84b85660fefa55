----------------------------- MODULE PacketFate -----------------------------
(***************************************************************************)
(* What becomes of the packets of the sender.  A packet in flight is in the *)
(* retransmission queue of the core.  An FEC-related one (it carries a      *)
(* source symbol or a repair frame) is announced to the framework, once, as *)
(* received, on one of four ways: its ACK arrives; a RECOVERED frame of the *)
(* peer names it and it would be declared lost now; it was declared lost,   *)
(* which moved it to lost_packets, and the ACK arrives late; or it was      *)
(* declared lost and a RECOVERED frame names it.  Nothing FEC-related is    *)
(* retransmitted.                                                          *)
(*                                                                         *)
(* The queue is a set, in the order of the packet numbers.  The walks of    *)
(* the FEC plugin over it start at the oldest packet and follow             *)
(* next_packet, which leads to older packets: they see the oldest only.     *)
(* When a packet is declared lost, rightly or not, is left open.            *)
(***************************************************************************)
EXTENDS Integers, FiniteSetsExt

CONSTANT MaxPn              \* bound on the packets sent

ASSUME MaxPnAssumption == MaxPn \in Nat \ {0}

VARIABLES
  send_sequence,            \* number of the next packet
  fec_related,              \* packets with a source symbol or a repair frame
  queue,                    \* retransmit_oldest .. retransmit_newest
  lost_packets,
  recovered_packets_ranges, \* first packet number -> number of packets, 0 when absent
  announced,                \* history: packets announced as received
  announced_twice,          \* history: packets announced more than once
  named,                    \* history: packets a RECOVERED frame named, their range in the window
  arrived,                  \* packets the peer received
  recovered                 \* packets the peer rebuilt

fate_vars == <<send_sequence, fec_related, queue, lost_packets, recovered_packets_ranges,
          announced, announced_twice, named, arrived, recovered>>
peer == <<named, arrived, recovered>>

Numbers == 1..MaxPn
Oldest == Min(queue)

FateInit ==
  /\ send_sequence = 1
  /\ fec_related = {} /\ queue = {} /\ lost_packets = {}
  /\ recovered_packets_ranges = [pn \in Numbers |-> 0]
  /\ announced = {} /\ announced_twice = {} /\ named = {}
  /\ arrived = {} /\ recovered = {}

\* fec_packet_symbols_have_been_received for each packet of S
Announce(S) ==
  /\ announced' = announced \cup S
  /\ announced_twice' = announced_twice \cup (announced \cap S)

queue_for_retransmit(is_fec_related) ==
  /\ send_sequence \in Numbers
  /\ send_sequence' = send_sequence + 1
  /\ queue' = queue \cup {send_sequence}
  /\ fec_related' = IF is_fec_related THEN fec_related \cup {send_sequence} ELSE fec_related
  /\ UNCHANGED <<lost_packets, recovered_packets_ranges, announced, announced_twice, peer>>

ArriveAtPeer(pn) ==
  /\ pn \in 1..(send_sequence - 1) \ arrived
  /\ arrived' = arrived \cup {pn}
  /\ UNCHANGED <<send_sequence, fec_related, queue, lost_packets, recovered_packets_ranges,
                 announced, announced_twice, named, recovered>>

RebuildAtPeer(pn) ==
  /\ pn \in fec_related \ (arrived \cup recovered)
  /\ recovered' = recovered \cup {pn}
  /\ UNCHANGED <<send_sequence, fec_related, queue, lost_packets, recovered_packets_ranges,
                 announced, announced_twice, named, arrived>>

(***************************************************************************)
(* An ACK frame that acknowledges the packets of A, block after block from  *)
(* the highest.  After the second block and each later one the core stops   *)
(* when the retransmission queue has nothing below.  In each block the      *)
(* plugin looks at the lost packets before the core looks at the queue.     *)
(***************************************************************************)
Tops(A) == {t \in A : t + 1 \notin A}
AckRange(A, t) == {a \in A : a <= t /\ a..t \subseteq A}

StopsAfter(A, t) == t # Max(A) /\ \A pn \in queue \ AckRange(A, t) : pn > t

Processed(A) ==
  UNION {AckRange(A, t) : t \in {u \in Tops(A) : \A v \in Tops(A) : v > u => ~ StopsAfter(A, v)}}

process_ack_ranges_KeepsLost(S) ==
  /\ Announce((queue \cap fec_related \cap S) \cup (lost_packets \cap S))
  /\ queue' = queue \ S
  /\ UNCHANGED lost_packets

process_ack_ranges(S) ==
  /\ Announce((queue \cap fec_related \cap S) \cup (lost_packets \cap S))
  /\ queue' = queue \ S
  /\ lost_packets' = lost_packets \ S

process_ack_frame(A) ==
  /\ process_ack_ranges(Processed(A))
  /\ UNCHANGED <<send_sequence, fec_related, recovered_packets_ranges, peer>>

(***************************************************************************)
(* The oldest packet is declared lost.  An FEC-related one goes to          *)
(* lost_packets; of the others, one with frames to repeat is sent again in  *)
(* a new packet.                                                           *)
(***************************************************************************)
retransmit_needed(repeat) ==
  /\ queue # {}
  /\ repeat => Oldest \notin fec_related /\ send_sequence \in Numbers
  /\ queue' = (queue \ {Oldest}) \cup (IF repeat THEN {send_sequence} ELSE {})
  /\ send_sequence' = IF repeat THEN send_sequence + 1 ELSE send_sequence
  /\ lost_packets' = lost_packets \cup (fec_related \cap {Oldest})
  /\ UNCHANGED <<fec_related, recovered_packets_ranges, announced, announced_twice, peer>>

(***************************************************************************)
(* A range [pn, n] of a RECOVERED frame arrives.  It is noted when it       *)
(* touches the window, which starts at packet `start', and is "valuable":   *)
(* the code compares retransmit_oldest, the address of a packet, with the   *)
(* packet number, which only succeeds when the queue is empty.              *)
(***************************************************************************)
InRange(pn, n) == pn..(pn + n - 1)

process_recovered_packets(pn, n, start) ==
  /\ recovered_packets_ranges' =
       [recovered_packets_ranges EXCEPT
          ![pn] = IF /\ start < pn + n
                     /\ queue = {} \/ lost_packets \cap InRange(pn, n) # {}
                    THEN n ELSE @]
  /\ named' = IF start < pn + n THEN named \cup InRange(pn, n) ELSE named
  /\ UNCHANGED <<send_sequence, fec_related, queue, lost_packets, announced, announced_twice,
                 arrived, recovered>>

(***************************************************************************)
(* Before a packet is prepared, the recovered ranges are compared with the  *)
(* oldest packet in flight.  Ranges below it are consumed: their lost       *)
(* packets are announced.  Of the first range that reaches it, the lost     *)
(* packets below it are announced; if it is in the range itself and would   *)
(* be declared lost now, it is announced and leaves the queue, and the      *)
(* whole range is deleted; if it is the last of the range, the next range   *)
(* is deleted with it.                                                     *)
(***************************************************************************)
Keys == {pn \in Numbers : recovered_packets_ranges[pn] # 0}
RangeEnd(pn) == pn + recovered_packets_ranges[pn] - 1
Reaching(o) == {pn \in Keys : RangeEnd(pn) >= o}
First(S) == IF S = {} THEN {} ELSE {Min(S)}

\* the lost packets that the ranges of S name below o
LostBelow(o, S) ==
  UNION {lost_packets \cap (pn..Min({RangeEnd(pn), o - 1})) : pn \in S}

maybe_notify_recovered_packets_to_everybody(needed) ==
  LET o == Oldest
      reached == First(Reaching(o))
      below == {pn \in Keys : \A r \in reached : pn < r}
      hit == needed /\ \E r \in reached : r <= o
      gone == IF ~ hit THEN {}
              ELSE reached \cup First({pn \in Keys : \E r \in reached : pn > r /\ RangeEnd(r) = o})
      lost == LostBelow(o, below \cup reached)
      new == IF hit THEN {o} ELSE {}
  IN  /\ queue # {} /\ Keys # {}
      /\ Announce(lost \cup new)
      /\ lost_packets' = lost_packets \ lost
      /\ queue' = queue \ new
      /\ recovered_packets_ranges' =
           [pn \in Numbers |-> IF pn \in below \cup gone THEN 0 ELSE recovered_packets_ranges[pn]]
      /\ UNCHANGED <<send_sequence, fec_related, peer>>

(***************************************************************************)
(* RECOVERED frames name runs of packets the peer rebuilt.  The window      *)
(* starts no later than the first source packet the peer misses; it starts  *)
(* after all packets when it is empty.                                     *)
(***************************************************************************)
Missing == fec_related \ (arrived \cup recovered)

FateNext ==
  \/ \E is_fec_related \in BOOLEAN : queue_for_retransmit(is_fec_related)
  \/ \E pn \in Numbers : ArriveAtPeer(pn)
  \/ \E pn \in Numbers : RebuildAtPeer(pn)
  \/ \E A \in SUBSET arrived \ {{}} : process_ack_frame(A)
  \/ \E repeat \in BOOLEAN : retransmit_needed(repeat)
  \/ \E pn, n \in Numbers, start \in 1..(MaxPn + 1) :
       /\ InRange(pn, n) \subseteq recovered
       /\ \A m \in Missing : start <= m
       /\ process_recovered_packets(pn, n, start)
  \/ \E needed \in BOOLEAN : maybe_notify_recovered_packets_to_everybody(needed)

FateSpec == FateInit /\ [][FateNext]_fate_vars
-----------------------------------------------------------------------------
(***************************************************************************)
(* The types of the queues.                                                *)
(***************************************************************************)
FateTypeOK ==
  /\ send_sequence \in 1..(MaxPn + 1)
  /\ fec_related \subseteq Numbers /\ queue \subseteq Numbers /\ lost_packets \subseteq Numbers
  /\ recovered_packets_ranges \in [Numbers -> 0..MaxPn]
  /\ announced \subseteq Numbers /\ announced_twice \subseteq Numbers
  /\ arrived \subseteq Numbers /\ recovered \subseteq Numbers

(***************************************************************************)
(* A packet has one fate: each FEC-related packet is in flight, declared    *)
(* lost or announced, never two of these, and is announced once, however    *)
(* ACKs, RECOVERED frames and losses race for it.                          *)
(***************************************************************************)
OneFate ==
  /\ queue \cap lost_packets = {}
  /\ announced \cap (queue \cup lost_packets) = {}
  /\ fec_related \subseteq queue \cup lost_packets \cup announced
  /\ announced_twice = {}

(***************************************************************************)
(* What is announced as received was received or rebuilt by the peer: the   *)
(* sending window flags no symbol the peer misses.                         *)
(***************************************************************************)
AnnouncementsAreTrue == announced \subseteq arrived \cup recovered

(***************************************************************************)
(* The fate of packets is sound: one fate each, announced once, and never   *)
(* announced as received when the peer has not got it.                      *)
(***************************************************************************)
FateIsSound == OneFate /\ AnnouncementsAreTrue

Noted == UNION {pn..RangeEnd(pn) : pn \in Keys}

(***************************************************************************)
(* framework_sender.h:890: a range is noted when "the range concerns at     *)
(* least one in-flight or one lost packet": the packets a RECOVERED frame   *)
(* names for the first time, in flight or lost, are noted.                  *)
(***************************************************************************)
ValuableRangesAreNoted ==
  [][(named' \ named) \cap (queue \cup lost_packets) \subseteq Noted']_fate_vars

(***************************************************************************)
(* frames.c:2697: "no need to process the ack range if no further packet is *)
(* concerned": an ACK frame leaves no packet it acknowledges in             *)
(* lost_packets.                                                           *)
(***************************************************************************)
AckedAreNotLost ==
  [][\A A \in SUBSET arrived \ {{}} : process_ack_frame(A) => lost_packets' \cap A = {}]_fate_vars
=============================================================================
