---------------------------- MODULE LossMonitor ----------------------------
(***************************************************************************)
(* The loss monitor plugin (plugins/loss_monitor): a bounded history of    *)
(* the fate of the packets of a path, ordered by packet number, from which *)
(* the redundancy controllers take a uniform loss rate and the two         *)
(* parameters of a two-state (good, bad) loss model.  The history is the   *)
(* map the red-black tree implements (RedBlackTree).  Each event lives in  *)
(* a block of the plugin's memory; blocks counts the ones allocated.       *)
(* Whichever call comes first creates the monitor.                         *)
(***************************************************************************)
EXTENDS Integers, Sequences, SequencesExt, FiniteSets, FiniteSetsExt, Functions

CONSTANTS
    MAX_STORED_EVENTS,
    MIN_STORED_EVENTS_FOR_ESTIMATION,
    Lifetime,       \* event_lifetime_microsec
    Interval,       \* estimations_update_interval
    Granularity,    \* the scale of the rates, the same for all callers
    MaxReports,     \* bound on the fates reported
    MaxPackets,     \* bound on the packets sent
    MaxTime         \* bound on the clock

VARIABLES
    now,
    sent,           \* the send time of every packet, by number
    fate,           \* the fate last reported of each packet, or "unknown"
    reports,        \* how many fates were reported
    monitor,        \* loss_monitor_t; events is the tree packet_events
    blocks,         \* event blocks allocated and not freed
    basis,          \* what the stored estimates were made from: the fates of packets
    answer          \* the last answer to a controller: the age of the oldest packet
                    \* it rests on, how many there are, and whether it is called usable

vars == <<now, sent, fate, reports, monitor, blocks, basis, answer>>

Stored == DOMAIN monitor.events

(* rbt_delete_min, with the block of the event.                            *)
WithoutMin(events) ==
    Restrict(events, DOMAIN events \ {Min(DOMAIN events)})

Expired(event) == now - event.send_time >= Lifetime

(* The oldest packets are dropped as long as their events are expired.     *)
RECURSIVE remove_expired_events(_)
remove_expired_events(events) ==
    IF DOMAIN events # {} /\ Expired(events[Min(DOMAIN events)])
    THEN remove_expired_events(WithoutMin(events))
    ELSE events

(* The walk over the tree in the order of the packet numbers.              *)
Fates(events) ==
    LET pns == SetToSortSeq(DOMAIN events, <)
    IN  [i \in DOMAIN pns |-> events[pns[i]].type]

FirstState_Bad == "lost"

FirstState == "acknowledged"

(* How often the walk goes from one state to another, the state it starts  *)
(* in included.                                                            *)
Transitions(fates, from, to) ==
    Cardinality({i \in DOMAIN fates :
                   /\ (IF i = 1 THEN FirstState ELSE fates[i - 1]) = from
                   /\ fates[i] = to})

Share(part, whole, otherwise) ==
    IF whole > 0 THEN (Granularity * part) \div whole ELSE otherwise

Count(fates, type) == Cardinality({i \in DOMAIN fates : fates[i] = type})

update_estimations(events) ==
    LET f    == Fates(events)
        good == "acknowledged"
        bad  == "lost"
        from(state) == Transitions(f, state, good) + Transitions(f, state, bad)
    IN  [uniform |-> Share(Count(f, bad), Len(f), 0),
         p |-> Share(Transitions(f, good, bad), from(good), 0),
         r |-> Share(Transitions(f, bad, good), from(bad), Granularity)]

(* A full history gives up the event of its smallest packet number.        *)
RoomMade(events) ==
    IF Cardinality(DOMAIN events) = MAX_STORED_EVENTS THEN WithoutMin(events)
    ELSE events

-----------------------------------------------------------------------------
loss_monitor_init(time) ==
    [exists |-> TRUE, events |-> <<>>, has_done_estimations |-> FALSE,
     last |-> time, uniform |-> 0, p |-> 0, r |-> Granularity]

Monitor == IF monitor.exists THEN monitor ELSE loss_monitor_init(now)

Init ==
    /\ now = 0
    /\ sent = <<>>
    /\ fate = <<>> /\ reports = 0
    /\ monitor = [loss_monitor_init(0) EXCEPT !.exists = FALSE]
    /\ blocks = 0
    /\ basis = <<>>
    /\ answer = [age |-> 0, events |-> 0, usable |-> FALSE]

Send ==
    /\ Len(sent) < MaxPackets
    /\ sent' = Append(sent, now)
    /\ fate' = Append(fate, "unknown")
    /\ UNCHANGED <<now, reports, monitor, blocks, basis, answer>>

(* monitor_packet_acknowledged and packet_lost: an event of the same       *)
(* packet that is already stored is replaced, its block is not freed.      *)
handle_packet_event(pn, type) ==
    LET room == RoomMade(monitor.events)
    IN  /\ reports < MaxReports
        /\ reports' = reports + 1
        /\ fate' = [fate EXCEPT ![pn] = type]
        /\ monitor' = [Monitor EXCEPT !.events =
                         (pn :> [type |-> type, send_time |-> sent[pn]]) @@ room]
        /\ blocks' = blocks + 1 - (Cardinality(Stored) - Cardinality(DOMAIN room))
        /\ UNCHANGED <<now, sent, basis, answer>>

(* The controllers ask at any time; the estimates are renewed at most once *)
(* per interval, otherwise the stored ones are the answer.                 *)
IsDue(m) == now - m.last >= Interval

Renewed(m) ==
    LET kept == remove_expired_events(m.events)
        e    == update_estimations(kept)
    IN  [m EXCEPT !.events = kept, !.has_done_estimations = TRUE, !.last = now,
                  !.uniform = e.uniform, !.p = e.p, !.r = e.r]

get_loss_parameters ==
    /\ monitor' = IF IsDue(Monitor) THEN Renewed(Monitor) ELSE Monitor
    /\ blocks' = blocks - Cardinality(Stored \ DOMAIN monitor'.events)
    /\ basis' = IF IsDue(Monitor) THEN Restrict(fate, DOMAIN monitor'.events) ELSE basis
    /\ answer' = [age    |-> Max({0} \cup {now - sent[pn] : pn \in DOMAIN basis'}),
                  events |-> Cardinality(DOMAIN basis'),
                  usable |-> /\ monitor'.has_done_estimations
                             /\ Cardinality(DOMAIN monitor'.events) >= MIN_STORED_EVENTS_FOR_ESTIMATION]
    /\ UNCHANGED <<now, sent, fate, reports>>

Tick ==
    /\ now < MaxTime
    /\ now' = now + 1
    /\ UNCHANGED <<sent, fate, reports, monitor, blocks, basis, answer>>

Next ==
    \/ Send
    \/ \E pn \in DOMAIN sent, type \in {"acknowledged", "lost"} :
         handle_packet_event(pn, type)
    \/ get_loss_parameters
    \/ Tick

Spec == Init /\ [][Next]_vars

-----------------------------------------------------------------------------
(* The estimates a controller is given are a loss model of the packets the *)
(* monitor knew of when it made them, each with its last reported fate:    *)
(* the rates lie between 0 and 1; a loss among the packets, and nothing    *)
(* else, makes the loss rate and the probability of going bad positive;    *)
(* without two losses in a row, or one at the end, recovery is certain;    *)
(* when all were lost the rate is 1 and there is no recovery.              *)
EstimatesDescribeTheHistory ==
    LET pns     == SetToSortSeq(DOMAIN basis, <)
        lost(i) == basis[pns[i]] = "lost"
        lossy   == \E i \in DOMAIN pns : lost(i)
        burst   == \E i \in DOMAIN pns : lost(i) /\ (i = Len(pns) \/ lost(i + 1))
        allLost == \A i \in DOMAIN pns : lost(i)
    IN  /\ \A rate \in {monitor.uniform, monitor.p, monitor.r} : rate \in 0 .. Granularity
        /\ (monitor.uniform > 0) = lossy
        /\ (monitor.p > 0) = lossy
        /\ ~burst => monitor.r = Granularity
        /\ lossy /\ allLost => monitor.uniform = Granularity /\ (Len(pns) > 1 => monitor.r = 0)

(* An answer rests on no packet sent longer ago than an event may live and *)
(* estimates may be kept together (each ends at its bound), whatever the   *)
(* order in which fates were reported and however rarely controllers ask.  *)
EstimatesAreRecent == answer.age <= (Lifetime - 1) + (Interval - 1)

(* MIN_STORED_EVENTS_FOR_ESTIMATION: an answer that says it is usable      *)
(* rests on that many events.                                              *)
UsableRestsOnEnough ==
    answer.usable => answer.events >= MIN_STORED_EVENTS_FOR_ESTIMATION

(* "ensure the max size is respected" (loss_monitor.h): the history never  *)
(* holds more than MAX_STORED_EVENTS events, and never fewer blocks are    *)
(* allocated than it points to.                                            *)
HistoryIsBounded ==
    /\ Cardinality(Stored) <= MAX_STORED_EVENTS
    /\ blocks >= Cardinality(Stored)

(* The memory of the history is bounded by the same number.                *)
MemoryIsBounded == blocks <= MAX_STORED_EVENTS

=============================================================================
