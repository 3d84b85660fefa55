------------------------- MODULE CongestionControl -------------------------
(***************************************************************************)
(* The congestion control algorithms BBR, Cubic and Westwood (a plugin),    *)
(* driven by the notifications of one path: a packet fills or does not fill *)
(* the window, an ACK frame covers the oldest packets, the oldest packet is *)
(* declared lost, time passes.  New Reno is part of LossRecovery.  Every    *)
(* packet has Mtu bytes, the smoothed RTT is constant, rates are in bytes   *)
(* per tick and gains in hundredths.  What the code never reaches is left   *)
(* out: BBR's long-RTT startup (its guard is "false &&"), fast recovery and *)
(* restart from idle, Cubic's recovery state, every spurious_repeat.        *)
(***************************************************************************)
EXTENDS Integers, Sequences, SequencesExt, FiniteSetsExt

CONSTANTS
  Algorithms,                      \* subset of {"bbr", "cubic", "westwood"}
  Mtu, CwinInitial, CwinMinimum,
  SmoothedRtt,
  FilterLength,                    \* BBR_BTL_BW_FILTER_LENGTH
  ProbeInterval, ProbeDuration,    \* BBR_PROBE_RTT_INTERVAL and _DURATION
  PacingLow, PacingMedium,         \* BBR_PACING_RATE_LOW and _MEDIUM
  CubicC,                          \* the C of Cubic, in 1/64 byte per cubed tick
  Garbage,                         \* first estimates of the bandwidth: see estimate_path_bandwidth
  Fills,                           \* bound: does the application fill the window (TRUE) or send packet by packet
  Losses,                          \* bound: subset of {"repeat", "timeout"}
  MaxAcked,                        \* bound: packets covered by one ACK frame
  MaxPackets, MaxTime              \* bounds: packets sent, ticks

VARIABLES now, alg, path, cc,
  before                           \* history: the window when BBR last entered PROBE_RTT

vars == <<now, alg, path, cc, before>>

None == -1
Larger(a, b) == IF a > b THEN a ELSE b
Smaller(a, b) == IF a < b THEN a ELSE b
InTransit(p) == Mtu * Len(p.flight)

\* picoquic_cc_was_cwin_blocked
was_cwin_blocked(p, last_blocked) == last_blocked = 0 \/ p.highest <= last_blocked

(***************************************************************************)
(* picoquic_update_pacing_data, by the window it was computed from.         *)
(***************************************************************************)
update_pacing_data(p) == [p EXCEPT !.paced = p.cwin]

(***************************************************************************)
(* The round trip times in the initial slow start, of Cubic and Westwood.   *)
(* Cubic, which compares with ">", writes the measurement after a full      *)
(* array over nb_rtt itself, and starts again.                              *)
(***************************************************************************)
RollingMin(last) ==
  Min({last[i] : i \in {i \in DOMAIN last : \A j \in 2..i : last[j] # 0}})

WithRtt(c, rtt, first) ==
  LET nb == IF c.nb_rtt >= first THEN 0 ELSE c.nb_rtt
      last == IF nb < Len(c.last_rtt) THEN [c.last_rtt EXCEPT ![nb + 1] = rtt] ELSE c.last_rtt
  IN [c EXCEPT !.min_rtt = IF @ = 0 THEN rtt ELSE Smaller(rtt, @), !.last_rtt = last, !.nb_rtt = nb + 1]

RttIncreased(c) == (RollingMin(c.last_rtt) - c.min_rtt) * 4 > c.min_rtt

-----------------------------------------------------------------------------
(***************************************************************************)
(* BBR.                                                                     *)
(***************************************************************************)
HighGain == 289
\* the last two of the eight phases probe and drain
bbr_pacing_gain_cycle == <<100, 100, 100, 100, 100, 100, 125, 75>>
MinPipe == 4 * Mtu

SendQuantum(rate) ==
  IF rate < PacingLow THEN Mtu ELSE IF rate < PacingMedium THEN 2 * Mtu ELSE Smaller(rate, 64 * Mtu)

BBRInflight(b, gain) ==
  IF b.rt_prop = None THEN CwinInitial
  ELSE (gain * b.btl_bw * b.rt_prop) \div 100 + 3 * b.send_quantum

BBREnterStartup(b) == [b EXCEPT !.state = "startup", !.pacing_gain = HighGain, !.cwnd_gain = HighGain]

bbr_init ==
  BBREnterStartup(
    [state |-> "startup", btl_bw |-> 0, next_round |-> 0, filter |-> [i \in 1..FilterLength |-> 0], full_bw |-> 0,
     rt_prop |-> None, rt_prop_stamp |-> now, cycle_stamp |-> now, done_stamp |-> 0, prior_cwnd |-> 0,
     prior_in_flight |-> 0, bytes_delivered |-> 0, send_quantum |-> Mtu, blocked |-> 0, pacing_gain |-> 0,
     cwnd_gain |-> 0, pacing_rate |-> 0, cycle_index |-> 0, loss_start |-> 0, round_count |-> 0, full_bw_count |-> 0,
     filled_pipe |-> FALSE, round_start |-> FALSE, expired |-> FALSE, round_done |-> FALSE, last_timeout |-> FALSE,
     cycle_on_loss |-> FALSE, last_lost |-> 0])

(***************************************************************************)
(* The maximum of the last rounds.  Nothing is done, and round_start stays  *)
(* as it was, when the window was not the limit.                            *)
(***************************************************************************)
Shifted(filter) == [i \in 1..FilterLength |-> IF i = 1 THEN 0 ELSE filter[i - 1]]
NewRound(b, p) ==
  LET filter == Shifted(b.filter)
  IN [b EXCEPT !.next_round = p.delivered, !.round_count = @ + 1, !.round_start = TRUE, !.filter = filter,
               !.btl_bw = Max({filter[i] : i \in 1..FilterLength})]

BBRUpdateBtlBw(b, p) ==
  IF b.blocked = 0 \/ ~ was_cwin_blocked(p, b.blocked) THEN b
  ELSE LET r == IF p.last_packet >= b.next_round THEN NewRound(b, p) ELSE [b EXCEPT !.round_start = FALSE]
       IN IF p.bandwidth > r.filter[1]
            THEN [r EXCEPT !.filter[1] = p.bandwidth, !.btl_bw = Larger(@, p.bandwidth)]
            ELSE r

BBRUpdateRTprop(b, rtt) ==
  LET expired == now > b.rt_prop_stamp + ProbeInterval
  IN IF b.rt_prop = None \/ rtt <= b.rt_prop \/ expired
       THEN [b EXCEPT !.expired = expired, !.rt_prop = rtt, !.rt_prop_stamp = now]
       ELSE [b EXCEPT !.expired = FALSE]

BBRIsNextCyclePhase(b) ==
  LET full == b.cycle_on_loss \/ (b.rt_prop # None /\ now - b.cycle_stamp > b.rt_prop)
  IN CASE b.pacing_gain > 100 -> full /\ b.prior_in_flight >= BBRInflight(b, b.pacing_gain)
       [] b.pacing_gain < 100 -> full \/ b.prior_in_flight <= BBRInflight(b, 100)
       [] OTHER -> full

\* the round trip times of the model are short: a new cycle starts at its first phase
BBRAdvanceCyclePhase(b) ==
  LET i == (b.cycle_index + 1) % 8
  IN [b EXCEPT !.cycle_on_loss = FALSE, !.cycle_stamp = now, !.cycle_index = i,
               !.pacing_gain = bbr_pacing_gain_cycle[i + 1]]

BBRCheckCyclePhase(b) ==
  IF b.state = "probe_bw" /\ BBRIsNextCyclePhase(b) THEN BBRAdvanceCyclePhase(b) ELSE b

BBRCheckFullPipe(b, limited) ==
  IF b.filled_pipe \/ ~ b.round_start \/ limited THEN b
  ELSE IF 4 * b.btl_bw >= 5 * b.full_bw THEN [b EXCEPT !.full_bw = b.btl_bw, !.full_bw_count = 0]
  ELSE [b EXCEPT !.full_bw_count = @ + 1, !.filled_pipe = b.full_bw_count + 1 >= 3]

BBREnterProbeBW(b) ==
  BBRAdvanceCyclePhase([b EXCEPT !.state = "probe_bw", !.cwnd_gain = 150, !.cycle_index = 4])

BBREnterDrain(b) ==
  [b EXCEPT !.state = "drain", !.pacing_gain = 10000 \div HighGain, !.cwnd_gain = HighGain]

BBRCheckDrain(b, p) ==
  LET d == IF b.state = "startup" /\ b.filled_pipe THEN BBREnterDrain(b) ELSE b
  IN IF d.state = "drain" /\ InTransit(p) <= BBRInflight(d, 100) THEN BBREnterProbeBW(d) ELSE d

BBRSaveCwnd(b, p) == IF b.state = "probe_bw" THEN Larger(p.cwin, b.prior_cwnd) ELSE p.cwin

\* the state is already probe_rtt when the window is saved
BBREnterProbeRTT(b, p) ==
  LET e == [b EXCEPT !.state = "probe_rtt", !.pacing_gain = 100, !.cwnd_gain = 100, !.done_stamp = 0]
  IN [e EXCEPT !.prior_cwnd = BBRSaveCwnd(e, p)]

BBRExitProbeRTT(b) == IF b.filled_pipe THEN BBREnterProbeBW(b) ELSE BBREnterStartup(b)

\* the algorithm and the path after it, as a pair
BBRHandleProbeRTT(b, p) ==
  IF b.done_stamp = 0
    THEN <<IF InTransit(p) <= MinPipe
             THEN [b EXCEPT !.done_stamp = now + ProbeDuration, !.round_done = FALSE, !.next_round = p.delivered]
             ELSE b, p>>
    ELSE LET d == [b EXCEPT !.round_done = @ \/ b.round_start]
         IN IF d.round_done /\ now > d.done_stamp
              THEN <<BBRExitProbeRTT([d EXCEPT !.rt_prop_stamp = now]),
                     [p EXCEPT !.cwin = Larger(@, d.prior_cwnd)]>>
              ELSE <<d, p>>

BBRCheckProbeRTT(b, p) ==
  LET e == IF b.state # "probe_rtt" /\ b.expired THEN BBREnterProbeRTT(b, p) ELSE b
  IN IF e.state = "probe_rtt" THEN BBRHandleProbeRTT(e, p) ELSE <<e, p>>

BBRUpdateModelAndState(b, p, rtt) ==
  LET phase == BBRCheckCyclePhase(BBRUpdateBtlBw(b, p))
      drain == BBRCheckDrain(BBRCheckFullPipe(phase, p.est_limited), p)
  IN BBRCheckProbeRTT(BBRUpdateRTprop(drain, rtt), p)

BBRSetPacingRate(b) ==
  LET rate == (b.pacing_gain * b.btl_bw) \div 100
  IN [b EXCEPT !.pacing_rate = IF b.filled_pipe \/ rate > @ THEN rate ELSE @]

BBRModulateCwndForProbeRTT(b, cwin) == IF b.state = "probe_rtt" THEN Smaller(cwin, MinPipe) ELSE cwin

\* no call reports lost packets, and packet_conservation is never set
BBRSetCwnd(b, p) ==
  LET target == BBRInflight(b, b.cwnd_gain)
      grown == p.cwin + b.bytes_delivered
      cwin == CASE b.filled_pipe -> Smaller(grown, target)
                [] ~ b.filled_pipe /\ (p.cwin < target \/ p.delivered < CwinInitial) -> Larger(grown, MinPipe)
                [] OTHER -> p.cwin
  IN [p EXCEPT !.cwin = BBRModulateCwndForProbeRTT(b, cwin)]

BBRUpdateOnACK(b, p, rtt) ==
  LET m == BBRUpdateModelAndState(b, p, rtt)
      paced == BBRSetPacingRate(m[1])
      quantum == [paced EXCEPT !.send_quantum = SendQuantum(paced.pacing_rate)]
  IN <<[quantum EXCEPT !.prior_in_flight = InTransit(p), !.bytes_delivered = 0], BBRSetCwnd(quantum, m[2])>>

Halved(cwin, timeout) == IF timeout THEN CwinMinimum ELSE Larger(cwin \div 2, CwinMinimum)

bbr_notify_congestion(b, p, timeout) ==
  LET again == timeout /\ ~ b.last_timeout
      loss == [b EXCEPT !.loss_start = now, !.last_timeout = timeout]
  IN IF (now < b.loss_start + SmoothedRtt \/ b.cycle_on_loss) /\ ~ again THEN <<b, p>>
     ELSE <<IF b.state = "startup" THEN BBREnterDrain([loss EXCEPT !.filled_pipe = TRUE])
                                   ELSE [loss EXCEPT !.cycle_on_loss = TRUE],
            [p EXCEPT !.cwin = Halved(@, timeout)]>>

(***************************************************************************)
(* Losses are ignored while the filter of the drop rate, here any outcome   *)
(* "high", finds few of them; a timeout always counts.                      *)
(***************************************************************************)
hystart_loss_test(b, event) == event.lost > b.last_lost /\ (event.type = "timeout" \/ event.high)

\* the pacing rate goes to the leaky bucket of the path, which is not modelled
bbr_notify(b, p, event) ==
  CASE event.type = "acknowledgement" -> <<[b EXCEPT !.bytes_delivered = @ + Mtu], p>>
    [] event.type \in {"repeat", "timeout"} ->
         LET l == [b EXCEPT !.last_lost = Larger(@, event.lost)]
         IN IF hystart_loss_test(b, event) THEN bbr_notify_congestion(l, p, event.type = "timeout") ELSE <<l, p>>
    [] event.type = "bw_measurement" -> BBRUpdateOnACK(b, p, event.rtt)
    [] event.type = "cwin_blocked" -> <<[b EXCEPT !.blocked = p.sent], p>>
    [] OTHER -> <<b, p>>

-----------------------------------------------------------------------------
(***************************************************************************)
(* Cubic.  Windows W are kept in 1/64 byte; beta is 7/8 and the root of     *)
(* picoquic_cubic_root is the largest integer below it.                     *)
(***************************************************************************)
NB_RTT_CUBIC == 6
cubic_init ==
  [state |-> "slow_start", epoch |-> 0, K |-> 0, W_max |-> None, W_last_max |-> None, ssthresh |-> None, min_rtt |-> 0,
   last_rtt |-> [i \in 1..NB_RTT_CUBIC |-> 0], nb_rtt |-> 0, blocked |-> 0]

Cube(n) == n * n * n
cubic_root(x) == Max({k \in 0..MaxTime : CubicC * Cube(k) <= x})

cubic_enter_avoidance(c) ==
  [c EXCEPT !.K = cubic_root(c.W_max \div 8), !.state = "tcp_friendly", !.epoch = now]

FastConvergence(c, cwin) ==
  LET W == 64 * cwin
  IN IF c.W_last_max = None \/ W < c.W_last_max
       THEN [c EXCEPT !.W_last_max = W, !.W_max = (W * 7) \div 8]
       ELSE [c EXCEPT !.W_last_max = W, !.W_max = W]

\* plausible slip: a timeout does not go back to slow start
cubic_enter_recovery_Avoids(c, p, timeout) ==
  LET f == FastConvergence(c, p.cwin)
      threshold == Larger((f.W_max * 7) \div 512, CwinMinimum)
  IN <<cubic_enter_avoidance([f EXCEPT !.ssthresh = threshold]),
       [p EXCEPT !.cwin = IF timeout THEN CwinMinimum ELSE threshold]>>
cubic_enter_recovery(c, p, timeout) ==
  LET f == FastConvergence(c, p.cwin)
      threshold == Larger((f.W_max * 7) \div 512, CwinMinimum)
      g == [f EXCEPT !.ssthresh = threshold]
  IN IF timeout THEN <<[g EXCEPT !.epoch = now, !.state = "slow_start"], [p EXCEPT !.cwin = CwinMinimum]>>
     ELSE <<cubic_enter_avoidance(g), [p EXCEPT !.cwin = threshold]>>

W_cubic(c) == CubicC * Cube(now - c.epoch - c.K) + c.W_max
W_est(c) == (c.W_max * 7) \div 8 + (64 * Mtu * (now - c.epoch)) \div (5 * SmoothedRtt)

cubic_ack(c, p) ==
  CASE c.state = "slow_start" ->
         IF ~ was_cwin_blocked(p, c.blocked) THEN <<c, p>>
         ELSE <<IF c.ssthresh # None /\ p.cwin + Mtu >= c.ssthresh THEN cubic_enter_avoidance(c) ELSE c,
                [p EXCEPT !.cwin = @ + Mtu]>>
    [] c.state = "tcp_friendly" ->
         IF W_cubic(c) > W_est(c)
           THEN <<[c EXCEPT !.state = "avoidance"], [p EXCEPT !.cwin = W_cubic(c) \div 64]>>
           ELSE <<c, [p EXCEPT !.cwin = W_est(c) \div 64]>>
    [] OTHER -> <<c, IF was_cwin_blocked(p, c.blocked) THEN [p EXCEPT !.cwin = W_cubic(c) \div 64] ELSE p>>

cubic_rtt(c, p, rtt) ==
  LET r == WithRtt(c, rtt, NB_RTT_CUBIC + 1)
  IN IF c.state # "slow_start" \/ c.ssthresh # None THEN c
     ELSE IF RttIncreased(r)
       THEN cubic_enter_avoidance([r EXCEPT !.ssthresh = p.cwin, !.W_max = 64 * p.cwin, !.W_last_max = 64 * p.cwin])
       ELSE r

cubic_event(c, p, event) ==
  CASE event.type = "acknowledgement" -> cubic_ack(c, p)
    [] event.type \in {"repeat", "timeout"} /\ now - c.epoch > SmoothedRtt ->
         cubic_enter_recovery(c, p, event.type = "timeout")
    [] event.type = "rtt_measurement" -> <<cubic_rtt(c, p, event.rtt), p>>
    [] event.type = "cwin_blocked" -> <<[c EXCEPT !.blocked = p.sent], p>>
    [] OTHER -> <<c, p>>

cubic_notify(c, p, event) == LET r == cubic_event(c, p, event) IN <<r[1], update_pacing_data(r[2])>>

-----------------------------------------------------------------------------
(***************************************************************************)
(* Westwood.  Its state is created by the first notification.               *)
(***************************************************************************)
NB_RTT_WESTWOOD == 4
initialize_westwood_state ==
  [state |-> "slow_start", ssthresh |-> None, residual |-> 0, start |-> 0, min_rtt |-> 0, nb_rtt |-> 0,
   last_rtt |-> [i \in 1..NB_RTT_WESTWOOD |-> 0], acked |-> 0, previous |-> 0, stamp |-> now, rtt_value |-> None,
   blocked |-> 0]

westwood_enter_recovery(w, p, timeout) ==
  LET rate == IF w.rtt_value = None THEN 0 ELSE (w.previous * w.min_rtt) \div w.rtt_value
      threshold == Larger(Larger(rate, p.cwin \div 2), CwinMinimum)
  IN <<[w EXCEPT !.ssthresh = threshold, !.state = IF timeout THEN "slow_start" ELSE "avoidance",
                 !.start = now, !.residual = 0],
       [p EXCEPT !.cwin = IF timeout THEN CwinMinimum ELSE threshold]>>

WestwoodRound(w) ==
  IF now - w.stamp > SmoothedRtt
    THEN [w EXCEPT !.previous = w.acked, !.acked = Mtu, !.stamp = now, !.rtt_value = SmoothedRtt]
    ELSE [w EXCEPT !.acked = @ + Mtu]

westwood_ack(w, p) ==
  IF w.state = "slow_start"
    THEN IF ~ was_cwin_blocked(p, w.blocked) THEN <<w, p>>
         ELSE <<IF w.ssthresh # None /\ p.cwin + Mtu >= w.ssthresh THEN [w EXCEPT !.state = "avoidance"] ELSE w,
                [p EXCEPT !.cwin = @ + Mtu]>>
    ELSE LET delta == Mtu * Mtu + w.residual
         IN <<[w EXCEPT !.residual = delta % p.cwin], [p EXCEPT !.cwin = @ + delta \div p.cwin]>>

westwood_rtt(w, rtt) ==
  LET r == WithRtt(w, rtt, NB_RTT_WESTWOOD)
  IN IF w.state # "slow_start" \/ w.ssthresh # None THEN w
     ELSE IF RttIncreased(r) THEN [r EXCEPT !.state = "avoidance"] ELSE r

westwood_event(w, p, event) ==
  CASE event.type = "acknowledgement" -> westwood_ack(WestwoodRound(w), p)
    [] event.type \in {"repeat", "timeout"} /\ now - w.start > SmoothedRtt ->
         westwood_enter_recovery(w, p, event.type = "timeout")
    [] event.type = "rtt_measurement" -> <<westwood_rtt(w, event.rtt), p>>
    [] event.type = "cwin_blocked" -> <<[w EXCEPT !.blocked = p.sent], p>>
    [] OTHER -> <<w, p>>

\* the pacing is computed before the new window is stored in the path
westwood_notify(w, p, event) ==
  LET r == westwood_event(IF w = <<>> THEN initialize_westwood_state ELSE w, p, event)
  IN <<r[1], [r[2] EXCEPT !.paced = p.cwin]>>

-----------------------------------------------------------------------------
congestion_algorithm_notify(s, event) ==
  CASE alg = "bbr" -> bbr_notify(s[1], s[2], event)
    [] alg = "cubic" -> cubic_notify(s[1], s[2], event)
    [] OTHER -> westwood_notify(s[1], s[2], event)

Init ==
  /\ now = 1 /\ alg \in Algorithms
  /\ path = [cwin |-> CwinInitial, paced |-> CwinInitial, flight |-> <<>>, sent |-> 0, highest |-> None, delivered |-> 0,
             reference |-> [kind |-> "none", delivered |-> 0, time |-> 0, sent |-> 0], sent_last |-> 0, bandwidth |-> 0, last_packet |-> 0, limited |-> 0,
             est_limited |-> FALSE]
  /\ before = 0
  /\ cc = CASE alg = "bbr" -> bbr_init [] alg = "cubic" -> cubic_init [] OTHER -> <<>>

Probes(c) == alg = "bbr" /\ c.state = "probe_rtt"
Store(after) ==
  \E s \in {after} :
    /\ cc' = s[1] /\ path' = s[2]
    /\ before' = IF ~ Probes(cc) /\ Probes(s[1]) THEN path.cwin ELSE before
    /\ UNCHANGED <<now, alg>>

(***************************************************************************)
(* finalize_and_protect_packet: what the bandwidth estimate needs goes with *)
(* the packet.  The window is tested before the packet is in transit.       *)
(***************************************************************************)
SendOne(s) ==
  LET p == s[2]
      packet == [seq |-> p.sent, time |-> now, reference |-> p.reference, limited |-> p.limited # 0]
      Sent(n) == <<n[1], [p EXCEPT !.sent = @ + 1, !.flight = Append(@, packet), !.cwin = n[2].cwin, !.paced = n[2].paced]>>
  IN Sent(IF p.cwin <= InTransit(p) + Mtu THEN congestion_algorithm_notify(s, [type |-> "cwin_blocked"]) ELSE s)

Send ==
  /\ path.cwin > InTransit(path) /\ path.sent < MaxPackets
  /\ Store(IF Fills THEN FoldLeft(LAMBDA s, i : IF s[2].cwin > InTransit(s[2]) /\ s[2].sent < MaxPackets THEN SendOne(s)
                                                                                                        ELSE s,
                                  <<cc, path>>, [i \in 1..MaxPackets |-> i])
                    ELSE SendOne(<<cc, path>>))

\* nothing to send although the window is open
AppLimited ==
  /\ path.cwin > InTransit(path) /\ path.limited # path.delivered
  /\ Store(<<cc, [path EXCEPT !.limited = path.delivered]>>)

\* set_next_wake_time with data to send and a full window
WakeBlocked ==
  /\ path.cwin <= InTransit(path) /\ path.sent < MaxPackets
  /\ Store(congestion_algorithm_notify(<<cc, path>>, [type |-> "cwin_blocked"]))

(***************************************************************************)
(* estimate_path_bandwidth, from the references that went with the packet.  *)
(* The first ACK sets them swapped: the count of bytes becomes the time and *)
(* the time the count.  A packet sent before it, or while they are swapped, *)
(* gives an interval as long as the age of the clock, and a rate that is 0  *)
(* or one of Garbage; the time is larger than any count of bytes.           *)
(***************************************************************************)
Rates(p, packet) ==
  CASE packet.reference.kind = "none" -> {0}
    [] packet.reference.kind = "swapped" -> Garbage
    [] OTHER -> LET interval == Larger(now - packet.reference.time, packet.time - packet.reference.sent)
                IN {(p.delivered - packet.reference.delivered) \div interval}

\* the interval is longer than the shortest one that is measured
IsMeasured(packet) == packet.reference.kind = "set" => now > packet.reference.time

estimate_path_bandwidth(p, packet, rate) ==
  IF packet.time < p.sent_last THEN p
  ELSE IF p.reference.kind = "none"
    THEN [p EXCEPT !.reference = [@ EXCEPT !.kind = "swapped", !.delivered = Mtu * (MaxPackets + 1)], !.sent_last = packet.time]
  ELSE [p EXCEPT !.bandwidth = IF ~ packet.limited \/ rate > @ THEN rate ELSE @,
                 !.reference = [kind |-> "set", delivered |-> p.delivered, time |-> now, sent |-> packet.time],
                 !.sent_last = packet.time,
                 !.last_packet = packet.reference.delivered,
                 !.est_limited = packet.limited,
                 !.limited = IF p.delivered > @ THEN 0 ELSE @]

(***************************************************************************)
(* process_ack_frame for the n oldest packets.                              *)
(***************************************************************************)
AckOne(s) ==
  LET p == [s[2] EXCEPT !.delivered = @ + Mtu]
      Gone(n) == <<n[1], [n[2] EXCEPT !.flight = Tail(@)]>>
  IN Gone(congestion_algorithm_notify(<<s[1], p>>, [type |-> "acknowledgement"]))

Acknowledge(n) ==
  LET packet == path.flight[n]
      rtt == now - packet.time
      told == congestion_algorithm_notify(<<cc, [path EXCEPT !.highest = Larger(@, packet.seq)]>>,
                                          [type |-> "rtt_measurement", rtt |-> rtt])
      Measured(p) == IF IsMeasured(packet) THEN {estimate_path_bandwidth(p, packet, rate) : rate \in Rates(p, packet)} ELSE {p}
  IN /\ rtt > 0
     /\ \E acked \in {FoldLeft(LAMBDA s, i : AckOne(s), told, [i \in 1..n |-> i])} :
          \E p \in Measured(acked[2]) :
            Store(congestion_algorithm_notify(<<acked[1], p>>, [type |-> "bw_measurement", rtt |-> rtt]))

(***************************************************************************)
(* The oldest packet is declared lost.                                      *)
(***************************************************************************)
Lose(type, high) ==
  LET packet == Head(path.flight)
      event == [type |-> type, lost |-> packet.seq, high |-> high]
  IN /\ path.flight # <<>> /\ now > packet.time
     /\ Store(congestion_algorithm_notify(<<cc, [path EXCEPT !.flight = Tail(@)]>>, event))

Tick ==
  /\ now < MaxTime
  /\ now' = now + 1
  /\ UNCHANGED <<alg, path, cc, before>>

Next ==
  \/ Send
  \/ AppLimited
  \/ WakeBlocked
  \/ \E n \in 1..Smaller(MaxAcked, Len(path.flight)) : Acknowledge(n)
  \/ \E type \in Losses, high \in BOOLEAN : Lose(type, high)
  \/ Tick

Spec == Init /\ [][Next]_vars

-----------------------------------------------------------------------------
(***************************************************************************)
(* BBR's bottleneck bandwidth is the largest of the estimates its filter    *)
(* keeps, whichever rounds began, were cut short or left it untouched       *)
(* (BBRUpdateBtlBw).                                                        *)
(***************************************************************************)
BandwidthIsTheFilterMax ==
  alg = "bbr" => cc.btl_bw = Max({cc.filter[i] : i \in 1..FilterLength})

(***************************************************************************)
(* While BBR probes the round trip time its window is at most four packets, *)
(* so that the queue of the path drains (BBRModulateCwndForProbeRTT).       *)
(***************************************************************************)
ProbeRttKeepsWindowSmall == alg = "bbr" /\ cc.state = "probe_rtt" => path.cwin <= MinPipe

(***************************************************************************)
(* Whatever losses, timeouts and late acknowledgements do, BBR's and        *)
(* Westwood's windows never fall below PICOQUIC_CWIN_MINIMUM.               *)
(***************************************************************************)
WindowKeepsMinimum == alg \in {"bbr", "westwood"} => path.cwin >= CwinMinimum

(***************************************************************************)
(* PROBE_RTT costs BBR no window: when it ends, however many losses and     *)
(* acknowledgements it took, the window is the one before it or what the    *)
(* path holds by the current estimates, if that is less                     *)
(* (BBRRestoreCwnd, then BBRSetCwnd).                                       *)
(***************************************************************************)
WindowIsRestored ==
  [][Probes(cc) /\ ~ Probes(cc') => path'.cwin >= Smaller(before, BBRInflight(cc', cc'.cwnd_gain))]_vars

(***************************************************************************)
(* Outside slow start Cubic's window is between the foot of its current     *)
(* curve, beta * W_max, and the higher of the two curves at this time, or   *)
(* the threshold and the packet that crossed it: K, epoch and W_max belong  *)
(* to the same loss (picoquic_cubic_enter_avoidance).                       *)
(***************************************************************************)
CubicStaysOnItsCurve ==
  alg = "cubic" /\ cc.state # "slow_start" =>
    /\ path.cwin >= (cc.W_max * 7) \div 512
    /\ path.cwin <= Larger(cc.ssthresh + Mtu, Larger(W_cubic(cc), W_est(cc)) \div 64)

(***************************************************************************)
(* Cubic's window keeps PICOQUIC_CWIN_MINIMUM, which                        *)
(* picoquic_cubic_enter_recovery and BBR and Westwood set as the floor.     *)
(***************************************************************************)
CubicKeepsMinimum == alg = "cubic" => path.cwin >= CwinMinimum

(***************************************************************************)
(* Westwood paces packets at the rate of its current window, in the words   *)
(* of picoquic_update_pacing_data: "Reset the pacing data after CWIN is     *)
(* updated"; the code computes the pacing before it stores the window.      *)
(***************************************************************************)
WestwoodPacingFollowsWindow == alg = "westwood" => path.paced = path.cwin

(***************************************************************************)
(* A loss never raises Westwood's window: its formula is the "westwood cwin *)
(* reduction formula" of westwood_enter_recovery.                           *)
(***************************************************************************)
WestwoodLossReduces ==
  [][alg = "westwood" /\ path'.flight # path.flight /\ path'.delivered = path.delivered /\ path'.sent = path.sent
       => path'.cwin <= path.cwin]_vars

(***************************************************************************)
(* BBR counts at most one round without growth per round trip, since it     *)
(* "only exits startup if three consecutive RTT pass without significant BW *)
(* measurement increase".                                                   *)
(***************************************************************************)
StalledRoundsAreRounds == alg = "bbr" => cc.full_bw_count <= cc.round_count

=============================================================================
