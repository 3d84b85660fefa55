---------------------------- MODULE LossRecovery ----------------------------
(***************************************************************************)
(* Loss detection, the retransmission timers and the congestion window of   *)
(* one path, in the application packet context of a connection in a ready   *)
(* state, with the New Reno algorithm.  Every packet carries one message of *)
(* one byte and is congestion controlled; the peer acknowledges any packets *)
(* it received, in one ACK frame.  Time is in ticks: the connection is      *)
(* called when a packet arrives and when its wake time has come, and time   *)
(* does not pass while its wake time has come.                              *)
(***************************************************************************)
EXTENDS Integers, Sequences, SequencesExt, FiniteSetsExt

CONSTANTS
  InitialRtt, InitialTimer, \* PICOQUIC_INITIAL_RTT and _INITIAL_RETRANSMIT_TIMER
  MinTimer,                 \* PICOQUIC_MIN_RETRANSMIT_TIMER
  RackDelay,                \* PICOQUIC_RACK_DELAY
  Second,                   \* the timer after a first retransmission
  Silence,                  \* PICOQUIC_MICROSEC_SILENCE_MAX
  MaxRetransmits,           \* repetitions before the connection is given up: 5 in the code
  CwinInitial, CwinMinimum,
  MaxMessages,              \* bound: messages of the application
  MaxAcks,                  \* bound: ACK frames received
  MaxTime,                  \* bound: ticks, beyond the end of every behaviour
  LongestRtt                \* bound: age of a packet when its first acknowledgement arrives

VARIABLES
  now,
  message,                  \* messages sent so far
  queue,                    \* retransmission queue: records [seq, time, msg], from the oldest
  retransmitted,            \* packets declared lost: the "retransmitted" list
  acked,                    \* sequence numbers the peer received and acknowledged
  path,                     \* the path and its packet context
  reno,                     \* state of New Reno
  latest_progress_time,     \* of the connection
  wake,                     \* next_wake_time
  disconnected,
  acks                      \* ACK frames received

vars == <<now, message, queue, retransmitted, acked, path, reno, latest_progress_time, wake, disconnected, acks>>

Larger(a, b) == IF a > b THEN a ELSE b
Smaller(a, b) == IF a < b THEN a ELSE b
Abs(n) == IF n < 0 THEN -n ELSE n
\* the division of C, which truncates
Div(a, b) == IF a < 0 THEN -((-a) \div b) ELSE a \div b
RECURSIVE Shifted(_, _)
Shifted(n, k) == IF k = 0 THEN n ELSE Shifted(2 * n, k - 1)
None == -1

Init ==
  /\ now = 1 /\ message = 0 /\ queue = <<>> /\ retransmitted = {} /\ acked = {}
  /\ path = [send_sequence |-> 0, highest_acknowledged |-> None, latest_time_acknowledged |-> 0,
             smoothed_rtt |-> InitialRtt, rtt_variant |-> 0, rtt_min |-> 0, retransmit_timer |-> InitialTimer,
             last_1rtt |-> None, last_1rtt_at |-> 0,
             nb_retransmit |-> 0, latest_retransmit |-> 0, latest_cc |-> 0, latest_progress |-> 1,
             received |-> None]
  /\ reno = [cwin |-> CwinInitial, slow_start |-> TRUE, ssthresh |-> None, residual |-> 0, start |-> 0, blocked |-> 0,
             min_rtt |-> 0, last_rtt |-> <<0, 0, 0, 0>>, nb_rtt |-> 0]
  /\ latest_progress_time = 1 /\ wake = 1 /\ disconnected = FALSE /\ acks = 0

-----------------------------------------------------------------------------
(***************************************************************************)
(* picoquic_newreno_notify, by notification.  Sizes are in packets.         *)
(***************************************************************************)
Reno_acknowledgement(r, highest) ==
  IF r.slow_start
    THEN IF r.blocked = 0 \/ highest <= r.blocked
           THEN [r EXCEPT !.cwin = @ + 1,
                          !.slow_start = r.ssthresh = None \/ r.cwin + 1 < r.ssthresh]
           ELSE r
    ELSE LET delta == 1 + r.residual
         IN [r EXCEPT !.residual = delta % r.cwin, !.cwin = @ + delta \div r.cwin]

enter_recovery(r, timeout) ==
  LET threshold == Larger(r.cwin \div 2, CwinMinimum)
  IN [r EXCEPT !.ssthresh = threshold,
               !.cwin = IF timeout THEN CwinMinimum ELSE threshold,
               !.slow_start = timeout, !.start = now, !.residual = 0]

Reno_loss(r, timeout) == IF now - r.start > path.smoothed_rtt THEN enter_recovery(r, timeout) ELSE r
Reno_blocked(r, seq) == [r EXCEPT !.blocked = seq]

(***************************************************************************)
(* The measurement at index NB_RTT_RENO falls behind the array, on nb_rtt   *)
(* itself, which then starts again from 0.                                  *)
(***************************************************************************)
RollingMin(last) ==
  LET filled == {i \in 1..4 : \A j \in 2..i : last[j] # 0} IN Min({last[i] : i \in filled})

Reno_rtt(r, rtt) ==
  IF ~ (r.slow_start /\ r.ssthresh = None) THEN r
  ELSE LET min == IF r.min_rtt = 0 THEN rtt ELSE Smaller(rtt, r.min_rtt)
           nb == IF r.nb_rtt > 4 THEN 0 ELSE r.nb_rtt
           last == IF nb < 4 THEN [r.last_rtt EXCEPT ![nb + 1] = rtt] ELSE r.last_rtt
       IN [r EXCEPT !.min_rtt = min, !.last_rtt = last, !.nb_rtt = nb + 1,
                    !.slow_start = ~ ((RollingMin(last) - min) * 4 > min)]

-----------------------------------------------------------------------------
(***************************************************************************)
(* retransmit_needed_by_packet: when a packet is due, and on which ground.  *)
(***************************************************************************)
Overtaken(p, pa) == pa.highest_acknowledged > p.seq
Backoff(pa) == IF pa.nb_retransmit = 0 THEN pa.retransmit_timer ELSE Shifted(Second, pa.nb_retransmit - 1)

RetransmitTime(p, pa) ==
  IF Overtaken(p, pa)
    THEN LET rack == p.time + pa.smoothed_rtt + pa.smoothed_rtt \div 8
         IN IF pa.highest_acknowledged - p.seq < 3 THEN Larger(rack, pa.latest_time_acknowledged + RackDelay) ELSE rack
    ELSE Larger(p.time + Backoff(pa), pa.last_1rtt_at + pa.smoothed_rtt \div 4)

(***************************************************************************)
(* set_next_wake_time, when the other parts of the new state are known.     *)
(***************************************************************************)
HasData(m) == m < MaxMessages
IsDue(q, pa) == q # <<>> /\ RetransmitTime(Head(q), pa) <= now

WakeTime(q, m, pa, r, progress) ==
  IF IsDue(q, pa) \/ (HasData(m) /\ r.cwin > Len(q)) THEN now
  ELSE IF q = <<>> THEN progress + Silence
  ELSE Smaller(progress + Silence, RetransmitTime(Head(q), pa))

\* without congestion allowance, New Reno is told
BlockedAtWake(q, m, pa, r) ==
  IF ~ IsDue(q, pa) /\ HasData(m) /\ r.cwin <= Len(q) THEN Reno_blocked(r, pa.send_sequence) ELSE r

SetNextWakeTime(q, m, pa, r, progress) ==
  /\ reno' = BlockedAtWake(q, m, pa, r)
  /\ wake' = WakeTime(q, m, pa, r, progress)

-----------------------------------------------------------------------------
GiveUp ==
  /\ disconnected' = TRUE
  /\ UNCHANGED <<now, message, acked, path, reno, latest_progress_time, wake, acks>>

\* prepare_segment: too long silence
TooSilent_Strict(since) == now - since > Silence
TooSilent(since) == now - since >= Silence
silence_exceeded ==
  /\ TooSilent(latest_progress_time)
  /\ GiveUp /\ UNCHANGED <<queue, retransmitted>>

(***************************************************************************)
(* retransmit_needed: the oldest packet is due.  It moves to the list of    *)
(* retransmitted packets, and its message goes out again, unless the timer  *)
(* has expired too often without any progress.  New Reno learns of at most  *)
(* one loss per round trip.                                                 *)
(***************************************************************************)
RetransTimer ==
  LET since == IF path.received # None /\ path.latest_retransmit >= path.received
                 THEN path.latest_retransmit
                 ELSE path.received
  IN Larger(since, path.latest_progress) + path.smoothed_rtt

IsTimeout(p) == ~ Overtaken(p, path) /\ now >= RetransTimer
MayNotify == now >= path.latest_cc + path.smoothed_rtt

GivenUpAt_Early(n) == n > MaxRetransmits - 1
GivenUpAt(n) == n > MaxRetransmits

Sent(q, msg) == Append(q, [seq |-> path.send_sequence, time |-> now, msg |-> msg])

retransmit_needed ==
  LET p == Head(queue)
      q == Sent(Tail(queue), p.msg)
      timeout == IsTimeout(p)
      pa == [path EXCEPT !.send_sequence = @ + 1,
                         !.latest_retransmit = IF timeout THEN now ELSE @,
                         !.nb_retransmit = IF timeout /\ MayNotify THEN @ + 1 ELSE @,
                         !.latest_cc = IF MayNotify THEN now ELSE @]
      r == IF MayNotify THEN Reno_loss(reno, timeout) ELSE reno
  IN /\ IsDue(queue, path)
     /\ retransmitted' = retransmitted \cup {p}
     /\ IF timeout /\ GivenUpAt(path.nb_retransmit)
          THEN GiveUp /\ queue' = Tail(queue)
          ELSE /\ queue' = q /\ path' = pa /\ latest_progress_time' = now
               /\ SetNextWakeTime(q, message, pa, r, now)
               /\ UNCHANGED <<now, message, acked, disconnected, acks>>

\* a new packet with the next message
send_message ==
  LET q == Sent(queue, message + 1)
      pa == [path EXCEPT !.send_sequence = @ + 1]
      r == IF reno.cwin <= Len(q) THEN Reno_blocked(reno, path.send_sequence) ELSE reno
  IN /\ ~ IsDue(queue, path)
     /\ HasData(message) /\ reno.cwin > Len(queue)
     /\ queue' = q /\ path' = pa /\ message' = message + 1 /\ latest_progress_time' = now
     /\ SetNextWakeTime(q, message + 1, pa, r, now)
     /\ UNCHANGED <<now, retransmitted, acked, disconnected, acks>>

\* a call that finds nothing to send
idle_call ==
  /\ ~ IsDue(queue, path)
  /\ ~ (HasData(message) /\ reno.cwin > Len(queue))
  /\ SetNextWakeTime(queue, message, path, reno, latest_progress_time)
  /\ UNCHANGED <<now, message, queue, retransmitted, acked, path, latest_progress_time, disconnected, acks>>

prepare_packet ==
  /\ ~ disconnected /\ wake <= now
  /\ \/ silence_exceeded
     \/ ~ TooSilent(latest_progress_time) /\ (retransmit_needed \/ send_message \/ idle_call)

-----------------------------------------------------------------------------
(***************************************************************************)
(* update_rtt, with the packet that is the largest acknowledged if it is    *)
(* still in the queue.  The delay the peer reports is zero.                 *)
(***************************************************************************)
NewEstimate(pa, rtt) ==
  IF pa.smoothed_rtt = InitialRtt /\ pa.rtt_variant = 0
    THEN [pa EXCEPT !.smoothed_rtt = rtt, !.rtt_variant = rtt \div 2, !.rtt_min = rtt,
                    !.retransmit_timer = Larger(3 * rtt, MinTimer)]
    ELSE LET delta == rtt - pa.smoothed_rtt
             srtt == pa.smoothed_rtt + Div(delta, 8)
             min == Smaller(rtt, pa.rtt_min)
             var == pa.rtt_variant + Div(Abs(delta) - pa.rtt_variant, 4)
             variant == IF 4 * var < min THEN min \div 4 ELSE var
         IN [pa EXCEPT !.smoothed_rtt = srtt, !.rtt_variant = variant, !.rtt_min = min,
                       !.retransmit_timer = Larger(srtt + 4 * variant, MinTimer)]

update_rtt(largest) ==
  LET stored == {i \in DOMAIN queue : queue[i].seq = largest}
      new == largest > path.highest_acknowledged
      top == queue[CHOOSE i \in stored : TRUE]
      pa == [path EXCEPT !.highest_acknowledged = Larger(@, largest), !.received = now]
  IN IF ~ new \/ stored = {} THEN [path |-> pa, rtt |-> 0, progress |-> latest_progress_time]
     ELSE LET pb == [pa EXCEPT !.latest_time_acknowledged = Larger(@, top.time)]
          IN [path |-> IF now > top.time THEN NewEstimate(pb, now - top.time) ELSE pb,
              rtt |-> now - top.time, progress |-> now]

\* process_ack_range, for the packets of the queue that are acknowledged, from the newest
Delivered(pa, S) ==
  LET newest == Max({p.seq : p \in S})
  IN IF S = {} THEN pa
     ELSE [pa EXCEPT !.nb_retransmit = 0, !.latest_progress = now,
                     !.last_1rtt = Larger(@, newest), !.last_1rtt_at = IF newest > pa.last_1rtt THEN now ELSE @]

RECURSIVE Reno_acknowledgements(_, _, _)
Reno_acknowledgements(r, n, highest) ==
  IF n = 0 THEN r ELSE Reno_acknowledgements(Reno_acknowledgement(r, highest), n - 1, highest)

(***************************************************************************)
(* process_ack_frame: the frame acknowledges what the peer has received, S  *)
(* more than the frame before.                                              *)
(***************************************************************************)
process_ack_frame(S) ==
  LET all == acked \cup S
      u == update_rtt(Max(all))
      hit == {p \in Range(queue) : p.seq \in all}
      q == SelectSeq(queue, LAMBDA p : p.seq \notin all)
      pa == Delivered(u.path, hit)
      r0 == IF u.rtt > 0 THEN Reno_rtt(reno, u.rtt) ELSE reno
      r == Reno_acknowledgements(r0, Cardinality(hit), pa.highest_acknowledged)
  IN /\ ~ disconnected /\ acks < MaxAcks /\ acks' = acks + 1
     /\ acked' = all /\ queue' = q /\ path' = pa /\ latest_progress_time' = u.progress
     /\ SetNextWakeTime(q, message, pa, r, u.progress)
     /\ UNCHANGED <<now, message, retransmitted, disconnected>>

\* packets the peer can have received since
Arrivable ==
  {p.seq : p \in {x \in Range(queue) \cup retransmitted : x.time < now /\ x.time + LongestRtt >= now /\ x.seq \notin acked}}

Tick ==
  /\ ~ disconnected /\ wake > now /\ now < MaxTime
  /\ now' = now + 1
  /\ UNCHANGED <<message, queue, retransmitted, acked, path, reno, latest_progress_time, wake, disconnected, acks>>

Next ==
  \/ prepare_packet
  \/ \E S \in SUBSET Arrivable \ {{}} : process_ack_frame(S)
  \/ Tick

Spec == Init /\ [][Next]_vars

\* time passes, and the connection is called when it is woken
FairSpec == Spec /\ WF_vars(Tick) /\ WF_vars(prepare_packet)

-----------------------------------------------------------------------------
Outstanding == {p.msg : p \in Range(queue)}

\* No sleep past a deadline: the connection wakes no later than the time at which its
\* oldest packet is due.
WakesInTime == ~ disconnected /\ queue # <<>> => wake <= Larger(now, RetransmitTime(Head(queue), path))

\* The path is given up for repetitions only when nothing was acknowledged for the
\* time the last timer of the back-off stands for.
GivenUpIsDeserved ==
  disconnected => \/ now - latest_progress_time >= Silence
                  \/ now - path.latest_progress >= Shifted(Second, MaxRetransmits)

\* The window of New Reno keeps its minimum, a slow start below a known threshold stays
\* below it, and the peer's acknowledgements pay for the growth: one packet for each
\* packet acknowledged, and in congestion avoidance one for each window acknowledged.
WindowIsSane ==
  /\ reno.cwin >= CwinMinimum
  /\ reno.slow_start /\ reno.ssthresh # None => reno.cwin < reno.ssthresh \/ reno.cwin = CwinMinimum
  /\ reno.cwin <= CwinInitial + Cardinality(acked)
  /\ ~ reno.slow_start /\ reno.ssthresh # None =>
       SumSet((reno.ssthresh + 1)..(reno.cwin - 1)) + reno.residual <= Cardinality(acked)

\* A peer that answers no more is given up: repetitions do not go on for ever.
SilentPeerIsGivenUp == <>disconnected

\* An acknowledged packet is not kept in the list of retransmitted packets.
AcknowledgedIsForgotten == \A p \in retransmitted : p.seq \notin acked
====
