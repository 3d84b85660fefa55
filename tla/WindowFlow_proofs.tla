------------------------- MODULE WindowFlow_proofs -------------------------
(***************************************************************************)
(* The sending window stays contiguous for every window size, and keeps     *)
(* every symbol the peer may still need as long as packets are announced    *)
(* less than N symbols after they were sent.  Sender, network and receiver  *)
(* together lose no symbol, whatever the sizes of the windows.              *)
(***************************************************************************)
EXTENDS WindowFlow, TrackerLemmas

\* The time the provers are given for a step.
USE SMTT(20), ZenonT(30)

(***************************************************************************)
(* The inductive invariant: WindowIsContiguous, and an empty window has     *)
(* forgotten its highest id, so that adding a symbol does not fail.        *)
(***************************************************************************)
WindowInv ==
  /\ TypeOK
  /\ WindowIsContiguous
  /\ is_fec_window_empty => highest_in_transit = 0

Slots == [0..(N - 1) -> [id : Nat, received : BOOLEAN, deadline : Deadlines \cup {NoDeadline}]]

(***************************************************************************)
(* The ids of the window are naturals, less than N apart: no two share a    *)
(* slot.                                                                   *)
(***************************************************************************)
LEMMA OneSlotEach ==
  ASSUME WindowInv
  PROVE  /\ get_current_window \subseteq Nat
         /\ \A i, j \in get_current_window : i % N = j % N => i = j
<1>1. CASE is_fec_window_empty
  BY <1>1 DEF get_current_window
<1>2. CASE ~ is_fec_window_empty
  <2>1. /\ smallest_in_transit \in Nat /\ highest_in_transit \in Nat
        /\ highest_in_transit - smallest_in_transit < N /\ N \in Nat \ {0}
    BY <1>2, SizeAssumption DEF WindowInv, TypeOK, WindowIsContiguous
  <2>2. get_current_window = smallest_in_transit..highest_in_transit
    BY <1>2 DEF get_current_window
  <2>3. ASSUME NEW i \in smallest_in_transit..highest_in_transit,
               NEW j \in smallest_in_transit..highest_in_transit, i % N = j % N
        PROVE  i = j
    <3>1. i \in Nat /\ j \in Nat /\ i - j < N /\ j - i < N
      BY <2>1
    <3> QED BY Zenon, <2>1, <2>3, <3>1, ModInjective
  <2> QED BY <2>1, <2>2, <2>3
<1> QED BY <1>1, <1>2

(***************************************************************************)
(* The pruning loop stops after the flagged symbols that follow `last'.     *)
(***************************************************************************)
LEMMA FirstKeptStops ==
  ASSUME highest_in_transit \in Nat, NEW last \in Nat, last <= highest_in_transit
  PROVE  /\ FirstKept(last) \in (last + 1)..(highest_in_transit + 1)
         /\ \A i \in (last + 1)..highest_in_transit : i < FirstKept(last) => Slot(i).received
         /\ FirstKept(last) <= highest_in_transit => ~ Slot(FirstKept(last)).received
<1> DEFINE S == {i \in (last + 1)..(highest_in_transit + 1) :
                   i = highest_in_transit + 1 \/ ~ Slot(i).received}
<1>1. S \in SUBSET Nat /\ S # {}
  <2>1. highest_in_transit + 1 \in S
    OBVIOUS
  <2> QED BY <2>1
<1>2. FirstKept(last) = Min(S)
  BY DEF FirstKept
<1>3. Min(S) \in S /\ \A y \in S : Min(S) <= y
  BY <1>1, MinOfPositions, Zenon
<1>4. ASSUME NEW i \in (last + 1)..highest_in_transit, i < Min(S)
      PROVE  Slot(i).received
  <2>1. i \notin S
    BY <1>3, <1>4, <1>1
  <2> QED BY <2>1
<1> QED BY <1>2, <1>3, <1>4

(***************************************************************************)
(* Freeing the slots of the first symbols leaves the others alone.         *)
(***************************************************************************)
LEMMA FreedSlots ==
  ASSUME WindowInv, ~ is_fec_window_empty,
         NEW kept \in Nat, kept > smallest_in_transit, kept <= highest_in_transit + 1
  PROVE  /\ FreeSlots(smallest_in_transit, kept) \in Slots
         /\ \A i \in kept..highest_in_transit :
              FreeSlots(smallest_in_transit, kept)[i % N] = Slot(i)
         /\ \A k \in 0..(N - 1) : FreeSlots(smallest_in_transit, kept)[k].id # 0 =>
              /\ FreeSlots(smallest_in_transit, kept)[k] = fec_window[k]
              /\ fec_window[k].id \in kept..highest_in_transit
              /\ fec_window[k].id % N = k
         /\ Remaining(kept) = highest_in_transit + 1 - kept
<1> DEFINE w == FreeSlots(smallest_in_transit, kept)
           Freed(k) == \E i \in smallest_in_transit..(kept - 1) : i % N = k
<1>1. /\ smallest_in_transit \in Nat /\ highest_in_transit \in Nat
      /\ get_current_window = smallest_in_transit..highest_in_transit
      /\ N \in Nat \ {0} /\ fec_window \in Slots
  BY SizeAssumption DEF WindowInv, TypeOK, get_current_window, Slots
<1>2. Free \in [id : Nat, received : BOOLEAN, deadline : Deadlines \cup {NoDeadline}]
  BY DEF Free
<1>3. \A k \in 0..(N - 1) : w[k] = IF Freed(k) THEN Free ELSE fec_window[k]
  BY DEF FreeSlots
<1>4. w \in Slots
  BY <1>1, <1>2 DEF FreeSlots, Slots
<1>5. ASSUME NEW i \in kept..highest_in_transit
      PROVE  w[i % N] = Slot(i)
  <2>1. i \in Nat /\ i % N \in 0..(N - 1)
    BY <1>1, ModRange
  <2>2. ~ Freed(i % N)
    <3> SUFFICES ASSUME NEW j \in smallest_in_transit..(kept - 1), j % N = i % N
                 PROVE  FALSE
      OBVIOUS
    <3>1. i \in get_current_window /\ j \in get_current_window /\ i # j
      BY <1>1
    <3> QED BY <3>1, OneSlotEach, Zenon
  <2> QED BY <1>3, <2>1, <2>2 DEF Slot
<1>6. ASSUME NEW k \in 0..(N - 1), w[k].id # 0
      PROVE  /\ w[k] = fec_window[k]
             /\ fec_window[k].id \in kept..highest_in_transit
             /\ fec_window[k].id % N = k
  <2>1. ~ Freed(k) /\ w[k] = fec_window[k]
    BY <1>3, <1>6 DEF Free
  <2>2. /\ fec_window[k].id \in smallest_in_transit..highest_in_transit
        /\ fec_window[k].id % N = k
    BY <1>1, <1>6, <2>1 DEF WindowInv, WindowIsContiguous
  <2>3. fec_window[k].id >= kept
    BY <1>1, <2>1, <2>2
  <2> QED BY <1>1, <2>1, <2>2, <2>3
<1>7. Remaining(kept) = highest_in_transit + 1 - kept
  BY <1>1 DEF Remaining, WindowInv, WindowIsContiguous, TypeOK
<1> QED BY <1>4, <1>5, <1>6, <1>7

(***************************************************************************)
(* While the window is not full the slot of the next symbol is free: adding *)
(* it does not fail.                                                       *)
(***************************************************************************)
LEMMA NextSlotIsFree ==
  ASSUME WindowInv, window_length < N
  PROVE  /\ ~ SlotIsTaken(max_id + 1)
         /\ \A i \in get_current_window : i % N # (max_id + 1) % N
<1> DEFINE id == max_id + 1
<1>1. /\ N \in Nat \ {0} /\ id \in Nat /\ id % N \in 0..(N - 1)
      /\ highest_in_transit \in Nat /\ highest_in_transit < id
  <2>1. N \in Nat \ {0} /\ id \in Nat /\ highest_in_transit \in Nat
    BY SizeAssumption DEF WindowInv, TypeOK
  <2>2. highest_in_transit < id
    BY <2>1 DEF WindowInv, TypeOK, WindowIsContiguous
  <2> QED BY Zenon, <2>1, <2>2, ModRange
<1>2. ASSUME NEW i \in get_current_window
      PROVE  i % N # id % N
  <2>1. ~ is_fec_window_empty /\ i \in smallest_in_transit..highest_in_transit
    BY DEF get_current_window
  <2>2. /\ smallest_in_transit \in Nat /\ window_length \in Nat /\ max_id \in Nat
        /\ highest_in_transit = max_id
        /\ window_length = highest_in_transit + 1 - smallest_in_transit
    BY <2>1 DEF WindowInv, TypeOK, WindowIsContiguous
  <2>3. i \in Nat /\ i - id < N /\ id - i < N /\ i # id
    BY <1>1, <2>1, <2>2
  <2> QED BY <1>1, <2>3, ModInjective
<1>3. Slot(id).id = 0
  <2> SUFFICES ASSUME fec_window[id % N].id # 0
               PROVE  FALSE
    BY DEF Slot
  <2>1. fec_window[id % N].id \in get_current_window /\ fec_window[id % N].id % N = id % N
    BY <1>1 DEF WindowInv, WindowIsContiguous
  <2> QED BY <1>2, <2>1
<1> QED BY <1>1, <1>2, <1>3 DEF SlotIsTaken

(***************************************************************************)
(* Protecting a packet keeps the window contiguous.                        *)
(***************************************************************************)
LEMMA ProtectKeepsWindow ==
  ASSUME WindowInv, NEW d \in Deadlines \cup {NoDeadline}, window_protect_packet_payload(d)
  PROVE  /\ WindowInv'
         /\ get_current_window' = get_current_window \cup {max_id + 1}
         /\ \A i \in get_current_window : fec_window'[i % N] = fec_window[i % N]
         /\ fec_window'[(max_id + 1) % N] =
              [id |-> max_id + 1, received |-> FALSE, deadline |-> d]
         /\ smallest_in_transit' = IF is_fec_window_empty THEN max_id + 1
                                   ELSE smallest_in_transit
         /\ max_id' = max_id + 1 /\ RecordDeadline(max_id + 1, d)
         /\ UNCHANGED <<lowest_considered_id_by_peer, largest_authorized_id_by_peer, landed>>
<1> DEFINE id == max_id + 1
           new == [id |-> id, received |-> FALSE, deadline |-> d]
<1>1. /\ N \in Nat \ {0} /\ id \in Nat /\ id % N \in 0..(N - 1) /\ id \in Ids
      /\ max_id \in Nat /\ smallest_in_transit \in Nat /\ highest_in_transit \in Nat
      /\ window_length \in Nat /\ window_length < N /\ fec_window \in Slots
  <2>1. /\ N \in Nat \ {0} /\ max_id \in Nat /\ id \in Nat /\ smallest_in_transit \in Nat
        /\ highest_in_transit \in Nat /\ window_length \in Nat /\ fec_window \in Slots
    BY SizeAssumption DEF WindowInv, TypeOK, Slots
  <2>2. id \in Ids /\ window_length < N
    BY DEF window_protect_packet_payload, protect_source_symbol, window_get_next_source_symbol_id
  <2> QED BY <2>1, <2>2, ModRange
<1>2. ~ SlotIsTaken(id) /\ \A i \in get_current_window : i % N # id % N
  BY <1>1, NextSlotIsFree
<1>3. /\ fec_window' = [fec_window EXCEPT ![id % N] = new]
      /\ smallest_in_transit' = IF is_fec_window_empty THEN id ELSE smallest_in_transit
      /\ highest_in_transit' = id /\ window_length' = window_length + 1 /\ max_id' = id
      /\ RecordDeadline(id, d)
      /\ UNCHANGED <<lowest_considered_id_by_peer, largest_authorized_id_by_peer, landed>>
  BY <1>2 DEF window_protect_packet_payload, protect_source_symbol,
              window_get_next_source_symbol_id, add_source_symbol_to_window
<1>4. fec_window' \in Slots /\ fec_window'[id % N] = new
      /\ \A k \in 0..(N - 1) : k # id % N => fec_window'[k] = fec_window[k]
  BY <1>1, <1>3 DEF Slots
<1>5. /\ symbols_from_deadlines' \in [Deadlines -> 0..MaxId]
      /\ deadlines_from_symbols' \in [Ids -> Deadlines \cup {NoDeadline}]
  <2>1. /\ symbols_from_deadlines \in [Deadlines -> 0..MaxId]
        /\ deadlines_from_symbols \in [Ids -> Deadlines \cup {NoDeadline}]
        /\ RecordDeadline(id, d) /\ id \in 0..MaxId
    BY <1>1, <1>3 DEF WindowInv, TypeOK, Ids
  <2>2. CASE d = NoDeadline
    BY <2>1, <2>2 DEF RecordDeadline
  <2>3. CASE d # NoDeadline
    <3>1. d \in Deadlines /\ Larger(id, symbols_from_deadlines[d]) \in 0..MaxId
      BY <2>1, <2>3 DEF Larger
    <3> QED BY <2>1, <2>3, <3>1 DEF RecordDeadline
  <2> QED BY <2>2, <2>3
<1>6. TypeOK'
  BY <1>1, <1>3, <1>4, <1>5 DEF TypeOK, WindowInv, Slots
<1>7. get_current_window' = get_current_window \cup {id}
  <2>1. CASE is_fec_window_empty
    BY <1>1, <1>3, <2>1 DEF get_current_window, is_fec_window_empty
  <2>2. CASE ~ is_fec_window_empty
    <3>1. highest_in_transit = max_id /\ smallest_in_transit <= max_id
      BY <1>1, <2>2 DEF WindowInv, WindowIsContiguous, is_fec_window_empty
    <3> QED BY <1>1, <1>3, <2>2, <3>1 DEF get_current_window, is_fec_window_empty
  <2> QED BY <2>1, <2>2
<1>8. WindowIsContiguous'
  <2>1. window_length' <= N /\ highest_in_transit' = max_id' /\ smallest_in_transit' >= 1
        /\ window_length' = highest_in_transit' + 1 - smallest_in_transit'
    BY <1>1, <1>3 DEF WindowInv, WindowIsContiguous, is_fec_window_empty
  <2>2. ASSUME NEW i \in get_current_window'
        PROVE  fec_window'[i % N].id = i
    <3>1. CASE i = id
      BY <1>4, <3>1
    <3>2. CASE i \in get_current_window
      <4>1. i % N # id % N /\ i \in Nat /\ fec_window[i % N].id = i
        BY <1>2, <3>2, OneSlotEach DEF WindowInv, WindowIsContiguous, Slot
      <4> QED BY Zenon, <1>1, <1>4, <4>1, ModRange
    <3> QED BY <1>7, <3>1, <3>2
  <2>3. ASSUME NEW k \in 0..(N - 1), fec_window'[k].id # 0
        PROVE  fec_window'[k].id \in get_current_window' /\ fec_window'[k].id % N = k
    <3>1. CASE k = id % N
      BY <1>4, <1>7, <3>1
    <3>2. CASE k # id % N
      <4>1. fec_window[k].id \in get_current_window /\ fec_window[k].id % N = k
        BY <1>4, <2>3, <3>2 DEF WindowInv, WindowIsContiguous
      <4> QED BY <1>4, <1>7, <3>2, <4>1
    <3> QED BY <3>1, <3>2
  <2> QED BY <2>1, <2>2, <2>3 DEF WindowIsContiguous, Slot
<1>9. ~ is_fec_window_empty'
  BY <1>1, <1>3 DEF is_fec_window_empty
<1>10. \A i \in get_current_window : fec_window'[i % N] = fec_window[i % N]
  BY Zenon, <1>1, <1>2, <1>4, OneSlotEach, ModRange
<1> QED BY Zenon, <1>3, <1>4, <1>6, <1>7, <1>8, <1>9, <1>10 DEF WindowInv

(***************************************************************************)
(* Pruning the symbols below `kept' leaves a contiguous window that starts  *)
(* there, whatever flags change with it.                                   *)
(***************************************************************************)
LEMMA PruneKeepsWindow ==
  ASSUME WindowInv, ~ is_fec_window_empty, NEW kept \in Nat,
         kept > smallest_in_transit, kept <= highest_in_transit + 1,
         fec_window' \in Slots,
         \A k \in 0..(N - 1) : fec_window'[k].id = FreeSlots(smallest_in_transit, kept)[k].id,
         window_length' = Remaining(kept), max_id' = max_id,
         Remaining(kept) # 0 =>
           smallest_in_transit' = kept /\ highest_in_transit' = highest_in_transit,
         Remaining(kept) = 0 => highest_in_transit' = 0
  PROVE  /\ WindowIsContiguous'
         /\ is_fec_window_empty' => highest_in_transit' = 0
         /\ get_current_window' = kept..highest_in_transit
         /\ window_length' \in Nat /\ highest_in_transit' \in Nat
<1>1. /\ smallest_in_transit \in Nat /\ highest_in_transit \in Nat /\ max_id \in Nat
      /\ window_length \in Nat /\ window_length <= N /\ N \in Nat \ {0}
      /\ highest_in_transit = max_id
      /\ window_length = highest_in_transit + 1 - smallest_in_transit
  BY SizeAssumption DEF WindowInv, TypeOK, WindowIsContiguous
<1>2. Remaining(kept) = highest_in_transit + 1 - kept
  BY FreedSlots
<1>3. get_current_window' = kept..highest_in_transit
  BY <1>1, <1>2 DEF get_current_window, is_fec_window_empty
<1>4. /\ window_length' <= N
      /\ ~ is_fec_window_empty' =>
           /\ highest_in_transit' = max_id'
           /\ smallest_in_transit' >= 1
           /\ window_length' = highest_in_transit' + 1 - smallest_in_transit'
  BY <1>1, <1>2 DEF is_fec_window_empty
<1>5. ASSUME NEW i \in kept..highest_in_transit
      PROVE  fec_window'[i % N].id = i
  <2>1. i \in Nat /\ i % N \in 0..(N - 1) /\ i \in get_current_window
    BY <1>1, ModRange DEF get_current_window
  <2>2. FreeSlots(smallest_in_transit, kept)[i % N] = Slot(i)
    BY FreedSlots
  <2>3. Slot(i).id = i
    BY <2>1 DEF WindowInv, WindowIsContiguous
  <2> QED BY <2>1, <2>2, <2>3
<1>6. ASSUME NEW k \in 0..(N - 1), fec_window'[k].id # 0
      PROVE  fec_window'[k].id \in kept..highest_in_transit /\ fec_window'[k].id % N = k
  <2>1. FreeSlots(smallest_in_transit, kept)[k].id # 0
    BY <1>6
  <2>2. /\ FreeSlots(smallest_in_transit, kept)[k] = fec_window[k]
        /\ fec_window[k].id \in kept..highest_in_transit
        /\ fec_window[k].id % N = k
    BY <2>1, FreedSlots
  <2> QED BY <2>2
<1>7. WindowIsContiguous'
  BY <1>3, <1>4, <1>5, <1>6 DEF WindowIsContiguous, Slot
<1>8. /\ is_fec_window_empty' => highest_in_transit' = 0
      /\ window_length' \in Nat /\ highest_in_transit' \in Nat
  BY <1>1, <1>2 DEF is_fec_window_empty
<1> QED BY <1>3, <1>7, <1>8

(***************************************************************************)
(* Forgetting deadlines keeps the types of the two trees.                  *)
(***************************************************************************)
LEMMA DropKeepsTypes ==
  ASSUME WindowInv, NEW S, DropDeadlines(S)
  PROVE  /\ symbols_from_deadlines' \in [Deadlines -> 0..MaxId]
         /\ deadlines_from_symbols' \in [Ids -> Deadlines \cup {NoDeadline}]
BY SizeAssumption DEF DropDeadlines, WindowInv, TypeOK

(***************************************************************************)
(* What sfpid_has_landed does to the slots and to the bounds of the window. *)
(***************************************************************************)
LEMMA LandedKeepsWindow ==
  ASSUME WindowInv, NEW id \in Ids, packet_has_been_received(id)
  PROVE  /\ WindowInv'
         /\ PrunesHead(id) => get_current_window' = FirstKept(id)..highest_in_transit
         /\ PrunesHead(id) /\ ~ is_fec_window_empty' => smallest_in_transit' = FirstKept(id)
         /\ ~ PrunesHead(id) => /\ get_current_window' = get_current_window
                                /\ smallest_in_transit' = smallest_in_transit
         /\ is_fec_window_empty => is_fec_window_empty'
         /\ \A i \in get_current_window' :
              i % N # id % N => fec_window'[i % N] = fec_window[i % N]
         /\ PrunesHead(id) => /\ id = smallest_in_transit /\ id \in get_current_window
                              /\ ~ is_fec_window_empty
                              /\ FirstKept(id) \in (id + 1)..(highest_in_transit + 1)
<1> DEFINE kept == FirstKept(id)
           slots == IF PrunesHead(id) THEN FreeSlots(id, kept) ELSE fec_window
<1>1. /\ id \in Nat /\ N \in Nat \ {0} /\ id % N \in 0..(N - 1) /\ fec_window \in Slots
      /\ smallest_in_transit \in Nat /\ highest_in_transit \in Nat
      /\ window_length \in Nat /\ max_id \in Nat /\ landed \subseteq Nat
  <2>1. /\ id \in Nat /\ N \in Nat \ {0} /\ fec_window \in Slots
        /\ smallest_in_transit \in Nat /\ highest_in_transit \in Nat
        /\ window_length \in Nat /\ max_id \in Nat /\ landed \subseteq Nat
    BY SizeAssumption DEF WindowInv, TypeOK, Slots, Ids
  <2> QED BY <2>1, ModRange
<1>2. /\ fec_window' = [slots EXCEPT ![id % N].received = TRUE]
      /\ DropDeadlines(IF Slot(id).id = id THEN {id} ELSE {})
      /\ landed' = landed \cup {id}
      /\ UNCHANGED <<max_id, lowest_considered_id_by_peer, largest_authorized_id_by_peer>>
  BY DEF packet_has_been_received, sfpid_has_landed
<1>3. /\ symbols_from_deadlines' \in [Deadlines -> 0..MaxId]
      /\ deadlines_from_symbols' \in [Ids -> Deadlines \cup {NoDeadline}]
  BY <1>2, DropKeepsTypes
<1>4. ASSUME slots \in Slots
      PROVE  fec_window' \in Slots /\ \A k \in 0..(N - 1) : fec_window'[k].id = slots[k].id
  <2> HIDE DEF slots
  <2> QED BY Zenon, <1>1, <1>2, <1>4 DEF Slots
<1>5. CASE PrunesHead(id)
  <2>1. /\ ~ is_fec_window_empty /\ id = smallest_in_transit
        /\ id <= highest_in_transit /\ id \in get_current_window
    BY <1>1, <1>5 DEF PrunesHead, WindowInv, WindowIsContiguous, is_fec_window_empty,
                      get_current_window
  <2>2. kept \in (id + 1)..(highest_in_transit + 1)
    BY <1>1, <2>1, FirstKeptStops
  <2> HIDE DEF kept
  <2>3. kept \in Nat /\ kept > smallest_in_transit /\ kept <= highest_in_transit + 1
    BY <1>1, <2>1, <2>2
  <2>4. slots \in Slots /\ slots = FreeSlots(smallest_in_transit, kept)
    BY <1>5, <2>1, <2>3, FreedSlots
  <2>5. /\ window_length' = Remaining(kept) /\ max_id' = max_id
        /\ Remaining(kept) # 0 =>
             smallest_in_transit' = kept /\ highest_in_transit' = highest_in_transit
        /\ Remaining(kept) = 0 => smallest_in_transit' = 0 /\ highest_in_transit' = 0
    BY <1>2, <1>5 DEF packet_has_been_received, sfpid_has_landed, kept
  <2>6. fec_window' \in Slots
        /\ \A k \in 0..(N - 1) : fec_window'[k].id = FreeSlots(smallest_in_transit, kept)[k].id
    BY <1>4, <2>4
  <2>7. /\ WindowIsContiguous'
        /\ is_fec_window_empty' => highest_in_transit' = 0
        /\ get_current_window' = kept..highest_in_transit
        /\ window_length' \in Nat /\ highest_in_transit' \in Nat
    BY <2>1, <2>3, <2>5, <2>6, PruneKeepsWindow
  <2>8. smallest_in_transit' \in Nat
    BY <2>3, <2>5
  <2>9. TypeOK'
    BY Zenon, <1>1, <1>2, <1>3, <2>6, <2>7, <2>8 DEF TypeOK, WindowInv, Slots
  <2>10. ~ is_fec_window_empty' => smallest_in_transit' = kept
    BY <2>5 DEF is_fec_window_empty
  <2>11. ASSUME NEW i \in kept..highest_in_transit, i % N # id % N
         PROVE  fec_window'[i % N] = fec_window[i % N]
    <3>1. FreeSlots(smallest_in_transit, kept)[i % N] = Slot(i)
      BY <2>1, <2>3, FreedSlots
    <3>2. i \in Nat /\ i % N \in 0..(N - 1)
      BY <1>1, <2>3, ModRange
    <3> HIDE DEF slots
    <3>3. slots[i % N] = fec_window[i % N]
      BY <2>4, <3>1 DEF Slot
    <3> QED BY <1>2, <2>4, <2>11, <3>2, <3>3 DEF Slots
  <2> QED BY <1>5, <2>1, <2>2, <2>7, <2>9, <2>10, <2>11 DEF WindowInv, kept
<1>6. CASE ~ PrunesHead(id)
  <2>1. UNCHANGED <<window_length, smallest_in_transit, highest_in_transit, max_id>>
    BY <1>6 DEF packet_has_been_received, sfpid_has_landed
  <2>2. /\ fec_window' \in Slots
        /\ \A k \in 0..(N - 1) : fec_window'[k].id = fec_window[k].id
    BY <1>1, <1>4, <1>6
  <2>3. get_current_window' = get_current_window
        /\ (is_fec_window_empty' <=> is_fec_window_empty)
    BY <2>1 DEF get_current_window, is_fec_window_empty
  <2>4. ASSUME NEW i \in get_current_window
        PROVE  fec_window'[i % N].id = i
    <3>1. i \in Nat /\ fec_window[i % N].id = i
      BY OneSlotEach DEF WindowInv, WindowIsContiguous, Slot
    <3> QED BY <1>1, <2>2, <3>1, ModRange
  <2>5. WindowIsContiguous'
    <3>1. /\ window_length' <= N
          /\ ~ is_fec_window_empty' =>
               /\ highest_in_transit' = max_id'
               /\ smallest_in_transit' >= 1
               /\ window_length' = highest_in_transit' + 1 - smallest_in_transit'
      BY <2>1, <2>3 DEF WindowInv, WindowIsContiguous
    <3>2. ASSUME NEW k \in 0..(N - 1), fec_window'[k].id # 0
          PROVE  fec_window'[k].id \in get_current_window /\ fec_window'[k].id % N = k
      BY <2>2, <3>2 DEF WindowInv, WindowIsContiguous
    <3> QED BY <2>3, <2>4, <3>1, <3>2 DEF WindowIsContiguous, Slot
  <2>6. TypeOK'
    BY Zenon, <1>1, <1>2, <1>3, <2>1, <2>2 DEF TypeOK, WindowInv, Slots
  <2>7. ASSUME NEW i \in get_current_window, i % N # id % N
        PROVE  fec_window'[i % N] = fec_window[i % N]
    <3>1. i % N \in 0..(N - 1)
      BY Zenon, <1>1, OneSlotEach, ModRange
    <3> QED BY <1>1, <1>2, <1>6, <2>7, <3>1 DEF Slots
  <2> QED BY <1>6, <2>1, <2>3, <2>5, <2>6, <2>7 DEF WindowInv
<1> QED BY <1>5, <1>6

(***************************************************************************)
(* What update_window_bounds does: either nothing is below the new lowest   *)
(* id, or the symbols below `kept' leave.                                  *)
(***************************************************************************)
LEMMA BoundsKeepWindow ==
  ASSUME WindowInv, NEW s \in Nat, NEW l \in Nat, update_window_bounds(s, l)
  PROVE  LET lowest == Larger(lowest_considered_id_by_peer, s)
             last == Smaller(lowest - 1, highest_in_transit)
             kept == FirstKept(last)
             idle == is_fec_window_empty \/ lowest <= smallest_in_transit
         IN  /\ WindowInv'
             /\ lowest \in Nat /\ lowest_considered_id_by_peer' = lowest
             /\ is_fec_window_empty => is_fec_window_empty'
             /\ \A i \in get_current_window' : fec_window'[i % N] = fec_window[i % N]
             /\ UNCHANGED <<max_id, landed>>
             /\ idle => UNCHANGED <<symbols_from_deadlines, deadlines_from_symbols>>
             /\ idle => get_current_window' = get_current_window
             /\ idle /\ ~ is_fec_window_empty => smallest_in_transit' = smallest_in_transit
             /\ ~ idle => /\ ~ is_fec_window_empty
                          /\ last \in smallest_in_transit..highest_in_transit
                          /\ last < lowest
                          /\ last < highest_in_transit => last = lowest - 1
                          /\ kept \in (last + 1)..(highest_in_transit + 1)
                          /\ get_current_window' = kept..highest_in_transit
                          /\ ~ is_fec_window_empty' => smallest_in_transit' = kept
                          /\ DropDeadlines({i \in smallest_in_transit..last :
                               i = smallest_in_transit \/ ~ Slot(i).received})
<1> DEFINE lowest == Larger(lowest_considered_id_by_peer, s)
           last == Smaller(lowest - 1, highest_in_transit)
           kept == FirstKept(last)
           idle == is_fec_window_empty \/ lowest <= smallest_in_transit
<1>1. /\ N \in Nat \ {0} /\ fec_window \in Slots
      /\ smallest_in_transit \in Nat /\ highest_in_transit \in Nat
      /\ window_length \in Nat /\ max_id \in Nat /\ landed \subseteq Nat
      /\ lowest_considered_id_by_peer \in Nat /\ largest_authorized_id_by_peer \in Nat
  BY SizeAssumption DEF WindowInv, TypeOK, Slots
<1>2. /\ lowest \in Nat /\ lowest_considered_id_by_peer' = lowest
      /\ largest_authorized_id_by_peer' \in Nat
      /\ UNCHANGED <<max_id, landed>>
  BY <1>1 DEF update_window_bounds, Larger
<1>3. CASE idle
  <2>1. /\ smallest_in_transit' = Larger(smallest_in_transit, lowest)
        /\ UNCHANGED <<fec_window, highest_in_transit, window_length,
                       symbols_from_deadlines, deadlines_from_symbols>>
    BY <1>3 DEF update_window_bounds
  <2>2. /\ smallest_in_transit' \in Nat
        /\ ~ is_fec_window_empty => smallest_in_transit' = smallest_in_transit
        /\ is_fec_window_empty' <=> is_fec_window_empty
        /\ get_current_window' = get_current_window
    BY <1>1, <1>2, <1>3, <2>1 DEF Larger, is_fec_window_empty, get_current_window
  <2>3. TypeOK'
    BY Zenon, <1>1, <1>2, <2>1, <2>2 DEF TypeOK, WindowInv, Slots
  <2>4. WindowIsContiguous'
    BY Zenon, <1>2, <2>1, <2>2 DEF WindowInv, WindowIsContiguous, Slot
  <2> HIDE DEF lowest, last, kept
  <2> QED BY <1>2, <1>3, <2>1, <2>2, <2>3, <2>4 DEF WindowInv, lowest, last, kept
<1>4. CASE ~ idle
  <2>1. ~ is_fec_window_empty /\ lowest > smallest_in_transit
        /\ smallest_in_transit <= highest_in_transit
    BY <1>1, <1>2, <1>4 DEF is_fec_window_empty, WindowInv, WindowIsContiguous
  <2>2. /\ last \in smallest_in_transit..highest_in_transit /\ last < lowest
        /\ last < highest_in_transit => last = lowest - 1
        /\ last \in Nat
    BY <1>1, <1>2, <2>1 DEF Smaller
  <2> HIDE DEF last, lowest
  <2>3. kept \in (last + 1)..(highest_in_transit + 1)
    BY <1>1, <2>2, FirstKeptStops
  <2> HIDE DEF kept
  <2>4. kept \in Nat /\ kept > smallest_in_transit /\ kept <= highest_in_transit + 1
    BY <1>1, <2>2, <2>3
  <2>5. /\ fec_window' = FreeSlots(smallest_in_transit, kept)
        /\ window_length' = Remaining(kept)
        /\ smallest_in_transit' = IF Remaining(kept) = 0 THEN lowest ELSE kept
        /\ highest_in_transit' = IF Remaining(kept) = 0 THEN 0 ELSE highest_in_transit
        /\ DropDeadlines({i \in smallest_in_transit..last :
                            i = smallest_in_transit \/ ~ Slot(i).received})
    BY <1>4 DEF update_window_bounds, kept, last, lowest
  <2>6. fec_window' \in Slots
        /\ \A k \in 0..(N - 1) : fec_window'[k].id = FreeSlots(smallest_in_transit, kept)[k].id
    BY <2>1, <2>4, <2>5, FreedSlots
  <2>7. /\ max_id' = max_id
        /\ Remaining(kept) # 0 =>
             smallest_in_transit' = kept /\ highest_in_transit' = highest_in_transit
        /\ Remaining(kept) = 0 => highest_in_transit' = 0
    BY <1>2, <2>5
  <2>8. /\ WindowIsContiguous'
        /\ is_fec_window_empty' => highest_in_transit' = 0
        /\ get_current_window' = kept..highest_in_transit
        /\ window_length' \in Nat /\ highest_in_transit' \in Nat
    BY <2>1, <2>4, <2>5, <2>6, <2>7, PruneKeepsWindow
  <2>9. /\ symbols_from_deadlines' \in [Deadlines -> 0..MaxId]
        /\ deadlines_from_symbols' \in [Ids -> Deadlines \cup {NoDeadline}]
    BY <2>5, DropKeepsTypes
  <2>10. smallest_in_transit' \in Nat
    BY <1>2, <2>4, <2>5
  <2>11. TypeOK'
    BY Zenon, <1>1, <1>2, <2>6, <2>8, <2>9, <2>10 DEF TypeOK, WindowInv, Slots
  <2>12. ~ is_fec_window_empty' => smallest_in_transit' = kept
    BY <2>5 DEF is_fec_window_empty
  <2>13. \A i \in kept..highest_in_transit : fec_window'[i % N] = fec_window[i % N]
    BY <2>1, <2>4, <2>5, FreedSlots DEF Slot
  <2> QED BY Zenon, <1>2, <1>4, <2>1, <2>2, <2>3, <2>5, <2>8, <2>11, <2>12, <2>13
          DEF WindowInv, last, lowest, kept
<1> QED BY <1>3, <1>4

(***************************************************************************)
(* The bounds RWIN frames and the initial credit give are naturals.        *)
(***************************************************************************)
LEMMA BoundsAreNaturals ==
  ASSUME TypeOK
  PROVE  /\ \A s \in 0..Larger(1, max_id), size \in RwinSizes :
              s \in Nat /\ s + size - 1 \in Nat
         /\ \A allowed \in RwinSizes : Smaller(10, allowed - 1) \in Nat
BY RwinAssumption DEF TypeOK, Larger, Smaller

(***************************************************************************)
(* The new framework has an empty window.                                  *)
(***************************************************************************)
LEMMA InitIsContiguous == Init => WindowInv
<1> SUFFICES ASSUME Init PROVE WindowInv
  OBVIOUS
<1>1. TypeOK
  BY SizeAssumption DEF Init, TypeOK, Free
<1>2. WindowIsContiguous
  BY SizeAssumption DEF Init, WindowIsContiguous, Free, is_fec_window_empty, get_current_window
<1> QED BY <1>1, <1>2 DEF WindowInv, Init

(***************************************************************************)
(* Every step of the sender keeps the inductive invariant.                 *)
(***************************************************************************)
LEMMA StepKeepsWindow == WindowInv /\ [Next]_vars => WindowInv'
<1> SUFFICES ASSUME WindowInv, [Next]_vars PROVE WindowInv'
  OBVIOUS
<1>1. ASSUME NEW d \in Deadlines \cup {NoDeadline}, window_protect_packet_payload(d)
      PROVE  WindowInv'
  BY Zenon, <1>1, ProtectKeepsWindow
<1>2. ASSUME NEW id \in Ids, packet_has_been_received(id)
      PROVE  WindowInv'
  BY <1>2, LandedKeepsWindow
<1>3. ASSUME NEW s \in 0..Larger(1, max_id), NEW size \in RwinSizes,
             process_window_rwin_frame(s, size)
      PROVE  WindowInv'
  <2>1. s \in Nat /\ s + size - 1 \in Nat /\ update_window_bounds(s, s + size - 1)
    BY <1>3, BoundsAreNaturals DEF process_window_rwin_frame, WindowInv
  <2> QED BY Zenon, <2>1, BoundsKeepWindow
<1>4. ASSUME NEW allowed \in RwinSizes, connection_state_changed(allowed)
      PROVE  WindowInv'
  <2>1. 0 \in Nat /\ Smaller(10, allowed - 1) \in Nat
        /\ update_window_bounds(0, Smaller(10, allowed - 1))
    BY <1>4, BoundsAreNaturals DEF connection_state_changed, WindowInv
  <2> QED BY Zenon, <2>1, BoundsKeepWindow
<1>5. CASE UNCHANGED vars
  BY <1>5 DEF vars, WindowInv, TypeOK, WindowIsContiguous, is_fec_window_empty,
              get_current_window, Slot
<1> QED BY <1>1, <1>2, <1>3, <1>4, <1>5 DEF Next

(***************************************************************************)
(* The inductive invariant holds in every reachable state.                 *)
(***************************************************************************)
LEMMA WindowAlwaysInv == Spec => []WindowInv
BY InitIsContiguous, StepKeepsWindow, PTL DEF Spec

(***************************************************************************)
(* For every window size and every sequence of packets sent, announced as   *)
(* received and RWIN frames, the window is a run of consecutive ids, each   *)
(* in its slot: adding a symbol does not fail and the symbols a repair      *)
(* symbol protects are the ones of the window.                             *)
(***************************************************************************)
THEOREM WindowStaysContiguous == Spec => [](TypeOK /\ WindowIsContiguous)
<1>1. WindowInv => TypeOK /\ WindowIsContiguous
  BY DEF WindowInv
<1> QED BY <1>1, WindowAlwaysInv, PTL

-----------------------------------------------------------------------------
(***************************************************************************)
(* What keeps a symbol in the window: the flags tell the truth, the head is *)
(* missing, and the peer never asks for more than what was sent.           *)
(***************************************************************************)
KeepInv ==
  /\ WindowInv
  /\ HeadIsMissing
  /\ KeptUntilReceived
  /\ FlagMeansReceived
  /\ lowest_considered_id_by_peer <= max_id + 1

HeadInWindow == WindowInv /\ ~ is_fec_window_empty => smallest_in_transit \in get_current_window

(***************************************************************************)
(* A non-empty window contains its head.                                   *)
(***************************************************************************)
LEMMA HeadIsInWindow == HeadInWindow /\ HeadInWindow'
<1>1. HeadInWindow
  <2> SUFFICES ASSUME WindowInv, ~ is_fec_window_empty
               PROVE  smallest_in_transit \in smallest_in_transit..highest_in_transit
    BY DEF get_current_window, HeadInWindow
  <2>1. /\ smallest_in_transit \in Nat /\ highest_in_transit \in Nat
        /\ window_length \in Nat /\ window_length # 0
        /\ window_length = highest_in_transit + 1 - smallest_in_transit
    BY DEF WindowInv, TypeOK, WindowIsContiguous, is_fec_window_empty
  <2> QED BY <2>1
<1> QED BY <1>1, PTL

(***************************************************************************)
(* A packet announced less than N symbols after it was sent finds its own   *)
(* symbol in the slot, or none.                                            *)
(***************************************************************************)
LEMMA FreshAnnouncement ==
  ASSUME WindowInv, MaxLag <= N, NEW id \in Ids, packet_has_been_received(id)
  PROVE  \A i \in get_current_window : i % N = id % N => i = id
<1> SUFFICES ASSUME NEW i \in get_current_window, i % N = id % N
             PROVE  i = id
  OBVIOUS
<1>1. ~ is_fec_window_empty /\ i \in smallest_in_transit..highest_in_transit
  BY DEF get_current_window
<1>2. /\ smallest_in_transit \in Nat /\ window_length \in Nat /\ max_id \in Nat
      /\ highest_in_transit = max_id /\ window_length <= N
      /\ window_length = highest_in_transit + 1 - smallest_in_transit
  BY <1>1 DEF WindowInv, TypeOK, WindowIsContiguous
<1>3. id \in Nat /\ id <= max_id /\ max_id - id < MaxLag
  BY DEF packet_has_been_received, Ids
<1>4. i \in Nat /\ i - id < N /\ id - i < N
  BY <1>1, <1>2, <1>3, SizeAssumption
<1> QED BY Zenon, <1>3, <1>4, ModInjective, SizeAssumption

(***************************************************************************)
(* Protecting a packet.                                                    *)
(***************************************************************************)
LEMMA ProtectKeeps ==
  ASSUME KeepInv, NEW d \in Deadlines \cup {NoDeadline}, window_protect_packet_payload(d)
  PROVE  KeepInv'
<1> DEFINE id == max_id + 1
<1>1. /\ WindowInv' /\ WindowInv
      /\ get_current_window' = get_current_window \cup {id}
      /\ \A i \in get_current_window : fec_window'[i % N] = fec_window[i % N]
      /\ fec_window'[id % N] = [id |-> id, received |-> FALSE, deadline |-> d]
      /\ smallest_in_transit' = IF is_fec_window_empty THEN id ELSE smallest_in_transit
      /\ max_id' = id
      /\ UNCHANGED <<lowest_considered_id_by_peer, landed>>
  <2>1. WindowInv
    BY DEF KeepInv
  <2> QED BY <2>1, ProtectKeepsWindow
<1>2. /\ max_id \in Nat /\ lowest_considered_id_by_peer \in Nat
      /\ smallest_in_transit \in Nat /\ highest_in_transit \in Nat
      /\ ~ is_fec_window_empty => smallest_in_transit \in get_current_window
  BY HeadIsInWindow DEF KeepInv, WindowInv, TypeOK, HeadInWindow
<1>3. lowest_considered_id_by_peer' <= max_id' + 1
  BY <1>1, <1>2 DEF KeepInv
<1>4. HeadIsMissing'
  <2>1. CASE is_fec_window_empty
    BY <1>1, <1>2, <2>1 DEF HeadIsMissing, KeepInv, Slot
  <2>2. CASE ~ is_fec_window_empty
    BY <1>1, <1>2, <2>2 DEF HeadIsMissing, KeepInv, Slot
  <2> QED BY <2>1, <2>2
<1>5. KeptUntilReceived'
  <2> SUFFICES ASSUME NEW i \in 1..id
               PROVE  \/ i \in get_current_window'
                      \/ i \in landed' \/ i < lowest_considered_id_by_peer'
    BY <1>1 DEF KeptUntilReceived
  <2>1. CASE i = id
    BY <1>1, <2>1
  <2>2. CASE i \in 1..max_id
    BY <1>1, <2>2 DEF KeepInv, KeptUntilReceived
  <2> QED BY <1>2, <2>1, <2>2
<1>6. FlagMeansReceived'
  BY <1>1 DEF KeepInv, FlagMeansReceived, Slot
<1> QED BY <1>1, <1>3, <1>4, <1>5, <1>6 DEF KeepInv

(***************************************************************************)
(* A packet announced as received.                                         *)
(***************************************************************************)
LEMMA LandedKeeps ==
  ASSUME KeepInv, MaxLag <= N, NEW id \in Ids, packet_has_been_received(id)
  PROVE  KeepInv'
<1>1. /\ WindowInv /\ WindowInv'
      /\ landed' = landed \cup {id} /\ UNCHANGED <<max_id, lowest_considered_id_by_peer>>
      /\ max_id \in Nat /\ lowest_considered_id_by_peer \in Nat
      /\ smallest_in_transit \in Nat /\ highest_in_transit \in Nat
      /\ lowest_considered_id_by_peer <= max_id + 1 /\ id \in Nat
  BY LandedKeepsWindow DEF KeepInv, WindowInv, TypeOK, packet_has_been_received, Ids
<1>2. \A i \in get_current_window : i % N = id % N => i = id
  BY <1>1, FreshAnnouncement
<1>3. CASE PrunesHead(id)
  <2> DEFINE kept == FirstKept(id)
  <2>1. /\ get_current_window' = kept..highest_in_transit
        /\ ~ is_fec_window_empty' => smallest_in_transit' = kept
        /\ id = smallest_in_transit /\ ~ is_fec_window_empty
        /\ kept \in (id + 1)..(highest_in_transit + 1)
        /\ \A i \in get_current_window' :
             i % N # id % N => fec_window'[i % N] = fec_window[i % N]
    BY Zenon, <1>1, <1>3, LandedKeepsWindow
  <2>2. /\ \A i \in (id + 1)..highest_in_transit : i < kept => Slot(i).received
        /\ kept <= highest_in_transit => ~ Slot(kept).received
    BY <1>1, <2>1, FirstKeptStops
  <2> HIDE DEF kept
  <2>3. get_current_window = id..highest_in_transit
    BY <2>1 DEF get_current_window
  <2>4. \A i \in kept..highest_in_transit : fec_window'[i % N] = fec_window[i % N]
    BY <1>1, <1>2, <2>1, <2>3
  <2>5. HeadIsMissing'
    <3> SUFFICES ASSUME ~ is_fec_window_empty'
                 PROVE  /\ ~ fec_window'[kept % N].received
                        /\ kept >= lowest_considered_id_by_peer'
      BY <2>1 DEF HeadIsMissing, Slot
    <3>1. kept <= highest_in_transit
      <4>1. smallest_in_transit' \in get_current_window'
        BY <1>1, HeadIsInWindow DEF HeadInWindow
      <4> QED BY <1>1, <2>1, <4>1
    <3> QED BY <1>1, <2>1, <2>2, <2>4, <3>1 DEF KeepInv, HeadIsMissing, Slot
  <2>6. KeptUntilReceived'
    <3> SUFFICES ASSUME NEW i \in 1..max_id
                 PROVE  \/ i \in get_current_window'
                        \/ i \in landed' \/ i < lowest_considered_id_by_peer'
      BY <1>1 DEF KeptUntilReceived
    <3>1. CASE i \in id..highest_in_transit /\ i < kept
      <4>1. i = id \/ Slot(i).received
        BY <1>1, <2>2, <3>1
      <4>2. i \in landed'
        BY <1>1, <2>3, <3>1, <4>1 DEF KeepInv, FlagMeansReceived
      <4> QED BY <4>2
    <3>2. CASE i \in id..highest_in_transit /\ ~ (i < kept)
      BY <1>1, <2>1, <3>2
    <3>3. CASE i \notin id..highest_in_transit
      BY <1>1, <2>3, <3>3 DEF KeepInv, KeptUntilReceived
    <3> QED BY <3>1, <3>2, <3>3
  <2>7. FlagMeansReceived'
    <3> SUFFICES ASSUME NEW i \in kept..highest_in_transit, fec_window'[i % N].received
                 PROVE  i \in landed'
      BY <2>1 DEF FlagMeansReceived, Slot
    <3>1. i \in get_current_window /\ Slot(i).received
      BY <1>1, <2>1, <2>3, <2>4 DEF Slot
    <3> QED BY <1>1, <3>1 DEF KeepInv, FlagMeansReceived
  <2> QED BY <1>1, <2>5, <2>6, <2>7 DEF KeepInv
<1>4. CASE ~ PrunesHead(id)
  <2>1. /\ get_current_window' = get_current_window
        /\ smallest_in_transit' = smallest_in_transit
        /\ is_fec_window_empty => is_fec_window_empty'
        /\ \A i \in get_current_window :
             i % N # id % N => fec_window'[i % N] = fec_window[i % N]
    BY <1>1, <1>4, LandedKeepsWindow
  <2>2. HeadIsMissing'
    <3> SUFFICES ASSUME ~ is_fec_window_empty'
                 PROVE  /\ ~ fec_window'[smallest_in_transit % N].received
                        /\ smallest_in_transit >= lowest_considered_id_by_peer
      BY Zenon, <1>1, <2>1 DEF HeadIsMissing, Slot
    <3>1. /\ ~ is_fec_window_empty /\ smallest_in_transit \in get_current_window
          /\ Slot(smallest_in_transit).id = smallest_in_transit
      BY <1>1, <2>1, HeadIsInWindow DEF HeadInWindow, WindowInv, WindowIsContiguous
    <3>2. smallest_in_transit # id
      BY <1>4, <3>1 DEF PrunesHead
    <3> QED BY <1>2, <2>1, <3>1, <3>2 DEF KeepInv, HeadIsMissing, Slot
  <2>3. KeptUntilReceived'
    BY <1>1, <2>1 DEF KeepInv, KeptUntilReceived
  <2>4. FlagMeansReceived'
    BY <1>1, <1>2, <2>1 DEF KeepInv, FlagMeansReceived, Slot
  <2> QED BY <1>1, <2>2, <2>3, <2>4 DEF KeepInv
<1> QED BY <1>3, <1>4

(***************************************************************************)
(* An RWIN frame, or the initial credit.                                   *)
(***************************************************************************)
LEMMA BoundsKeep ==
  ASSUME KeepInv, NEW s \in Nat, NEW l \in Nat, s <= max_id + 1, update_window_bounds(s, l)
  PROVE  KeepInv'
<1> DEFINE lowest == Larger(lowest_considered_id_by_peer, s)
           last == Smaller(lowest - 1, highest_in_transit)
           kept == FirstKept(last)
           idle == is_fec_window_empty \/ lowest <= smallest_in_transit
<1>1. /\ WindowInv /\ WindowInv'
      /\ lowest_considered_id_by_peer' = lowest
      /\ lowest \in Nat
      /\ max_id \in Nat /\ lowest_considered_id_by_peer \in Nat
      /\ smallest_in_transit \in Nat /\ highest_in_transit \in Nat
      /\ UNCHANGED <<max_id, landed>>
      /\ \A i \in get_current_window' : fec_window'[i % N] = fec_window[i % N]
      /\ is_fec_window_empty => is_fec_window_empty'
  BY Zenon, BoundsKeepWindow DEF KeepInv, WindowInv, TypeOK
<1>2. lowest >= lowest_considered_id_by_peer /\ lowest <= max_id + 1
  BY <1>1 DEF Larger, KeepInv
<1>3. CASE idle
  <2>1. /\ get_current_window' = get_current_window
        /\ ~ is_fec_window_empty => smallest_in_transit' = smallest_in_transit
    BY Zenon, <1>1, <1>3, BoundsKeepWindow
  <2> HIDE DEF lowest
  <2>2. HeadIsMissing'
    <3> SUFFICES ASSUME ~ is_fec_window_empty'
                 PROVE  /\ ~ fec_window'[smallest_in_transit % N].received
                        /\ smallest_in_transit >= lowest
      BY <1>1, <2>1 DEF HeadIsMissing, Slot
    <3>1. ~ is_fec_window_empty /\ smallest_in_transit \in get_current_window
      BY <1>1, HeadIsInWindow DEF HeadInWindow
    <3> QED BY <1>1, <1>3, <2>1, <3>1 DEF KeepInv, HeadIsMissing, Slot
  <2>3. KeptUntilReceived'
    BY <1>1, <1>2, <2>1 DEF KeepInv, KeptUntilReceived
  <2>4. FlagMeansReceived'
    BY <1>1, <2>1 DEF KeepInv, FlagMeansReceived, Slot
  <2> QED BY <1>1, <1>2, <2>2, <2>3, <2>4 DEF KeepInv
<1>4. CASE ~ idle
  <2>1. /\ ~ is_fec_window_empty
        /\ last \in smallest_in_transit..highest_in_transit
        /\ last < lowest
        /\ last < highest_in_transit => last = lowest - 1
        /\ kept \in (last + 1)..(highest_in_transit + 1)
        /\ get_current_window' = kept..highest_in_transit
        /\ ~ is_fec_window_empty' => smallest_in_transit' = kept
    BY Zenon, <1>1, <1>4, BoundsKeepWindow
  <2> HIDE DEF lowest, last
  <2>2. /\ \A i \in (last + 1)..highest_in_transit : i < kept => Slot(i).received
        /\ kept <= highest_in_transit => ~ Slot(kept).received
    <3>1. last \in Nat /\ last <= highest_in_transit
      BY <1>1, <2>1
    <3> QED BY <1>1, <3>1, FirstKeptStops
  <2> HIDE DEF kept
  <2>3. get_current_window = smallest_in_transit..highest_in_transit
    BY <2>1 DEF get_current_window
  <2>4. HeadIsMissing'
    <3> SUFFICES ASSUME ~ is_fec_window_empty'
                 PROVE  ~ fec_window'[kept % N].received /\ kept >= lowest
      BY <1>1, <2>1 DEF HeadIsMissing, Slot
    <3>1. kept \in get_current_window'
      BY <1>1, <2>1, HeadIsInWindow DEF HeadInWindow
    <3>2. kept <= highest_in_transit
      BY <1>1, <2>1, <3>1
    <3> QED BY <1>1, <2>1, <2>2, <3>1, <3>2 DEF Slot
  <2>5. KeptUntilReceived'
    <3> SUFFICES ASSUME NEW i \in 1..max_id
                 PROVE  \/ i \in get_current_window'
                        \/ i \in landed \/ i < lowest
      BY <1>1 DEF KeptUntilReceived
    <3>1. CASE i \in (last + 1)..highest_in_transit /\ i < kept
      <4>1. Slot(i).received /\ i \in get_current_window
        BY <1>1, <2>1, <2>2, <2>3, <3>1
      <4> QED BY <4>1 DEF KeepInv, FlagMeansReceived
    <3>2. CASE i \in (last + 1)..highest_in_transit /\ ~ (i < kept)
      BY <1>1, <2>1, <3>2
    <3>3. CASE i \in smallest_in_transit..last
      BY <1>1, <2>1, <3>3
    <3>4. CASE i \notin smallest_in_transit..highest_in_transit
      BY <1>1, <1>2, <2>3, <3>4 DEF KeepInv, KeptUntilReceived
    <3> QED BY <1>1, <2>1, <3>1, <3>2, <3>3, <3>4
  <2>6. FlagMeansReceived'
    <3> SUFFICES ASSUME NEW i \in kept..highest_in_transit, fec_window'[i % N].received
                 PROVE  i \in landed
      BY <1>1, <2>1 DEF FlagMeansReceived, Slot
    <3>1. i \in get_current_window /\ Slot(i).received
      BY <1>1, <2>1, <2>3 DEF Slot
    <3> QED BY <3>1 DEF KeepInv, FlagMeansReceived
  <2> QED BY <1>1, <1>2, <2>4, <2>5, <2>6 DEF KeepInv
<1> QED BY <1>3, <1>4

(***************************************************************************)
(* The initial state and the steps that change nothing.                    *)
(***************************************************************************)
LEMMA InitKeeps == Init => KeepInv
<1> SUFFICES ASSUME Init PROVE KeepInv
  OBVIOUS
<1>1. WindowInv
  BY Zenon, InitIsContiguous
<1> QED BY <1>1 DEF Init, KeepInv, HeadIsMissing, KeptUntilReceived, FlagMeansReceived,
                    is_fec_window_empty, get_current_window

(***************************************************************************)
(* A step that changes nothing keeps the invariant.                        *)
(***************************************************************************)
LEMMA IdleKeeps == KeepInv /\ UNCHANGED vars => KeepInv'
BY DEF vars, KeepInv, WindowInv, TypeOK, WindowIsContiguous, is_fec_window_empty,
       get_current_window, Slot, HeadIsMissing, KeptUntilReceived, FlagMeansReceived

(***************************************************************************)
(* When packets are announced less than N symbols after they were sent, a   *)
(* symbol leaves the window only once its packet was announced as received  *)
(* or the peer moved past it, and the window always starts at a symbol the  *)
(* peer is not known to have.                                              *)
(***************************************************************************)
THEOREM SymbolsKeptUntilReceived ==
  ASSUME MaxLag <= N
  PROVE  Spec => [](KeptUntilReceived /\ HeadIsMissing)
<1>1. Init => KeepInv
  BY InitKeeps
<1>2. KeepInv /\ [Next]_vars => KeepInv'
  <2> SUFFICES ASSUME KeepInv, [Next]_vars PROVE KeepInv'
    OBVIOUS
  <2>1. ASSUME NEW d \in Deadlines \cup {NoDeadline}, window_protect_packet_payload(d)
        PROVE  KeepInv'
    BY <2>1, ProtectKeeps
  <2>2. ASSUME NEW id \in Ids, packet_has_been_received(id)
        PROVE  KeepInv'
    BY <2>2, LandedKeeps
  <2>3. ASSUME NEW s \in 0..Larger(1, max_id), NEW size \in RwinSizes,
               process_window_rwin_frame(s, size)
        PROVE  KeepInv'
    <3>1. s \in Nat /\ s + size - 1 \in Nat /\ update_window_bounds(s, s + size - 1)
      BY <2>3, BoundsAreNaturals DEF process_window_rwin_frame, KeepInv, WindowInv
    <3>2. s <= max_id + 1
      BY DEF Larger, KeepInv, WindowInv, TypeOK
    <3> QED BY <3>1, <3>2, BoundsKeep
  <2>4. ASSUME NEW allowed \in RwinSizes, connection_state_changed(allowed)
        PROVE  KeepInv'
    <3>1. 0 \in Nat /\ Smaller(10, allowed - 1) \in Nat /\ 0 <= max_id + 1
          /\ update_window_bounds(0, Smaller(10, allowed - 1))
      BY <2>4, BoundsAreNaturals DEF connection_state_changed, KeepInv, WindowInv, TypeOK
    <3> QED BY <3>1, BoundsKeep
  <2>5. CASE UNCHANGED vars
    BY <2>5, IdleKeeps
  <2> QED BY <2>1, <2>2, <2>3, <2>4, <2>5 DEF Next
<1>3. KeepInv => KeptUntilReceived /\ HeadIsMissing
  BY DEF KeepInv
<1> QED BY <1>1, <1>2, <1>3, PTL DEF Spec

-----------------------------------------------------------------------------
(***************************************************************************)
(* The deadline trees, on top of KeepInv.                                  *)
(***************************************************************************)
DeadlineInv == KeepInv /\ DeadlinesAreOfMissingSymbols

TreesAreInverse == \A d \in Deadlines, i \in Ids :
              symbols_from_deadlines[d] = i <=> deadlines_from_symbols[i] = d

(***************************************************************************)
(* Forgetting the deadlines of some symbols keeps the trees inverse of each *)
(* other.                                                                  *)
(***************************************************************************)
LEMMA DropKeepsInverse ==
  ASSUME TypeOK, TreesAreInverse, NEW S, DropDeadlines(S)
  PROVE  /\ TreesAreInverse'
         /\ \A i \in Ids : deadlines_from_symbols'[i] # NoDeadline =>
              i \notin S /\ deadlines_from_symbols'[i] = deadlines_from_symbols[i]
<1> DEFINE dropped(d) == \E i \in S \cap Ids : deadlines_from_symbols[i] = d
<1>1. /\ \A d \in Deadlines : symbols_from_deadlines'[d] =
           IF dropped(d) THEN 0 ELSE symbols_from_deadlines[d]
      /\ \A i \in Ids : deadlines_from_symbols'[i] =
           IF i \in S THEN NoDeadline ELSE deadlines_from_symbols[i]
  BY DEF DropDeadlines
<1>2. ASSUME NEW d \in Deadlines, NEW i \in Ids
      PROVE  symbols_from_deadlines'[d] = i <=> deadlines_from_symbols'[i] = d
  <2>0. i # 0 /\ NoDeadline # d
    BY DeadlineAssumption DEF Ids, NoDeadline
  <2>1. ASSUME symbols_from_deadlines'[d] = i PROVE deadlines_from_symbols'[i] = d
    <3>1. ~ dropped(d) /\ symbols_from_deadlines[d] = i
      BY <1>1, <2>0, <2>1
    <3>2. deadlines_from_symbols[i] = d /\ i \notin S
      BY <3>1 DEF TreesAreInverse
    <3> QED BY <1>1, <3>2
  <2>2. ASSUME deadlines_from_symbols'[i] = d PROVE symbols_from_deadlines'[d] = i
    <3>1. i \notin S /\ deadlines_from_symbols[i] = d
      BY <1>1, <2>0, <2>2
    <3>2. symbols_from_deadlines[d] = i
      BY <3>1 DEF TreesAreInverse
    <3>3. ~ dropped(d)
      BY <3>1, <3>2 DEF TreesAreInverse
    <3> QED BY <1>1, <3>2, <3>3
  <2> QED BY <2>1, <2>2
<1> QED BY <1>1, <1>2 DEF TreesAreInverse

(***************************************************************************)
(* Recording the deadline of a new symbol keeps the trees inverse of each   *)
(* other, and files nothing under another symbol.                          *)
(***************************************************************************)
LEMMA RecordKeepsInverse ==
  ASSUME TypeOK, TreesAreInverse, NEW d \in Deadlines \cup {NoDeadline}, NEW id \in Ids,
         \A i \in Ids : deadlines_from_symbols[i] # NoDeadline => i < id,
         RecordDeadline(id, d)
  PROVE  /\ TreesAreInverse'
         /\ \A i \in Ids : deadlines_from_symbols'[i] # NoDeadline =>
              i = id \/ deadlines_from_symbols[i] # NoDeadline
<1>1. CASE d = NoDeadline
  BY <1>1 DEF RecordDeadline, TreesAreInverse
<1>2. CASE d # NoDeadline
  <2> DEFINE old == symbols_from_deadlines[d]
  <2>1. d \in Deadlines /\ old \in 0..MaxId /\ MaxId \in Nat /\ id \in Nat
    <3>1. d \in Deadlines /\ symbols_from_deadlines \in [Deadlines -> 0..MaxId]
      BY Zenon, <1>2 DEF TypeOK
    <3>2. old \in 0..MaxId
      BY Zenon, <3>1
    <3> HIDE DEF old
    <3> QED BY <3>1, <3>2, SizeAssumption DEF Ids
  <2>2. old # 0 => old \in Ids /\ deadlines_from_symbols[old] = d /\ old < id
    <3> SUFFICES ASSUME old # 0
                 PROVE  old \in Ids /\ deadlines_from_symbols[old] = d /\ old < id
      OBVIOUS
    <3>1. old \in Ids
      BY <2>1 DEF Ids
    <3>2. deadlines_from_symbols[old] = d
      BY <2>1, <3>1 DEF TreesAreInverse
    <3> QED BY <1>2, <3>1, <3>2
  <2>3. Larger(id, old) = id
    BY <2>1, <2>2 DEF Larger
  <2>4. /\ symbols_from_deadlines' = [symbols_from_deadlines EXCEPT ![d] = id]
        /\ \A i \in Ids : deadlines_from_symbols'[i] =
             IF i = id THEN d ELSE IF i = old THEN NoDeadline ELSE deadlines_from_symbols[i]
    BY <1>2, <2>3 DEF RecordDeadline
  <2>5. /\ symbols_from_deadlines'[d] = id
        /\ \A e \in Deadlines : e # d => symbols_from_deadlines'[e] = symbols_from_deadlines[e]
    BY <2>1, <2>4 DEF TypeOK
  <2>6. deadlines_from_symbols[id] = NoDeadline
    BY <2>1
  <2> HIDE DEF old
  <2>7. ASSUME NEW e \in Deadlines, NEW i \in Ids
        PROVE  symbols_from_deadlines'[e] = i <=> deadlines_from_symbols'[i] = e
    <3>0. e # NoDeadline /\ i # 0
      BY DeadlineAssumption DEF NoDeadline, Ids
    <3>1. CASE e = d /\ i = id
      BY <2>4, <2>5, <3>1
    <3>2. CASE e = d /\ i # id
      <4>1. deadlines_from_symbols'[i] # d
        <5>1. CASE i = old
          BY <1>2, <2>4, <3>2, <5>1
        <5>2. CASE i # old
          <6>1. symbols_from_deadlines[d] # i
            BY <5>2 DEF old
          <6>2. deadlines_from_symbols[i] # d
            BY Zenon, <2>1, <6>1 DEF TreesAreInverse
          <6> QED BY <2>4, <3>2, <5>2, <6>2
        <5> QED BY <5>1, <5>2
      <4> QED BY <2>5, <3>2, <4>1
    <3>3. CASE e # d /\ i = id
      <4>1. symbols_from_deadlines[e] # id
        BY <2>6, <3>0 DEF TreesAreInverse
      <4> QED BY <2>4, <2>5, <3>3, <4>1
    <3>4. CASE e # d /\ i # id
      <4>1. CASE i = old
        <5>1. deadlines_from_symbols[i] = d /\ deadlines_from_symbols'[i] = NoDeadline
          BY Zenon, <2>2, <2>4, <3>0, <3>4, <4>1
        <5>2. symbols_from_deadlines[e] # i
          BY Zenon, <3>4, <5>1 DEF TreesAreInverse
        <5> QED BY <2>5, <3>0, <3>4, <5>1, <5>2
      <4>2. CASE i # old
        BY <2>4, <2>5, <3>4, <4>2 DEF TreesAreInverse
      <4> QED BY <4>1, <4>2
    <3> QED BY <3>1, <3>2, <3>3, <3>4
  <2> QED BY <2>4, <2>7 DEF TreesAreInverse
<1> QED BY <1>1, <1>2

(***************************************************************************)
(* Every step keeps the deadline trees on missing symbols of the window.    *)
(***************************************************************************)
LEMMA ProtectKeepsDeadlines ==
  ASSUME DeadlineInv, NEW d \in Deadlines \cup {NoDeadline}, window_protect_packet_payload(d)
  PROVE  DeadlineInv'
<1> DEFINE id == max_id + 1
<1>1. KeepInv /\ WindowInv /\ TypeOK /\ TreesAreInverse /\ KeepInv'
  <2>1. KeepInv
    BY DEF DeadlineInv
  <2> QED BY <2>1, ProtectKeeps
          DEF KeepInv, WindowInv, DeadlineInv, DeadlinesAreOfMissingSymbols, TreesAreInverse
<1>2. /\ get_current_window' = get_current_window \cup {id}
      /\ \A i \in get_current_window : fec_window'[i % N] = fec_window[i % N]
      /\ fec_window'[id % N] = [id |-> id, received |-> FALSE, deadline |-> d]
      /\ RecordDeadline(id, d)
  BY Zenon, <1>1, ProtectKeepsWindow
<1>3. id \in Ids /\ max_id \in Nat
  BY Zenon, <1>1 DEF window_protect_packet_payload, protect_source_symbol, TypeOK,
              window_get_next_source_symbol_id
<1>4. \A i \in Ids : deadlines_from_symbols[i] # NoDeadline =>
        i \in get_current_window /\ ~ Slot(i).received
  BY DEF DeadlineInv, DeadlinesAreOfMissingSymbols
<1>5. \A i \in get_current_window : i < id
  BY <1>1, <1>3 DEF WindowInv, TypeOK, WindowIsContiguous, get_current_window
<1>6. /\ TreesAreInverse'
      /\ \A i \in Ids : deadlines_from_symbols'[i] # NoDeadline =>
           i = id \/ deadlines_from_symbols[i] # NoDeadline
  <2>1. \A i \in Ids : deadlines_from_symbols[i] # NoDeadline => i < id
    BY Zenon, <1>4, <1>5
  <2> HIDE DEF id
  <2> QED BY <1>1, <1>2, <1>3, <2>1, RecordKeepsInverse
<1>7. ASSUME NEW i \in Ids, deadlines_from_symbols'[i] # NoDeadline
      PROVE  i \in get_current_window' /\ ~ fec_window'[i % N].received
  <2>1. CASE i = id
    <3>1. ~ fec_window'[id % N].received
      BY <1>2
    <3> QED BY Zenon, <1>2, <2>1, <3>1
  <2>2. CASE i # id
    BY Zenon, <1>2, <1>4, <1>6, <1>7, <2>2 DEF Slot
  <2> QED BY Zenon, <2>1, <2>2
<1> QED BY Zenon, <1>1, <1>6, <1>7
        DEF DeadlineInv, DeadlinesAreOfMissingSymbols, TreesAreInverse, Slot

(***************************************************************************)
(* A landed symbol loses its deadline, and no other symbol does.           *)
(***************************************************************************)
LEMMA LandedKeepsDeadlines ==
  ASSUME DeadlineInv, MaxLag <= N, NEW id \in Ids, packet_has_been_received(id)
  PROVE  DeadlineInv'
<1> DEFINE S == IF Slot(id).id = id THEN {id} ELSE {}
<1>1. KeepInv /\ WindowInv /\ TypeOK /\ TreesAreInverse /\ KeepInv'
  <2>1. KeepInv
    BY DEF DeadlineInv
  <2> QED BY <2>1, LandedKeeps
          DEF KeepInv, WindowInv, DeadlineInv, DeadlinesAreOfMissingSymbols, TreesAreInverse
<1>2. /\ TreesAreInverse'
      /\ \A i \in Ids : deadlines_from_symbols'[i] # NoDeadline =>
           i \notin S /\ deadlines_from_symbols'[i] = deadlines_from_symbols[i]
  <2>1. DropDeadlines(S)
    BY DEF packet_has_been_received, sfpid_has_landed
  <2> HIDE DEF S
  <2> QED BY <1>1, <2>1, DropKeepsInverse
<1>3. \A i \in get_current_window : i % N = id % N => i = id
  BY Zenon, <1>1, FreshAnnouncement
<1>4. ASSUME NEW i \in Ids, deadlines_from_symbols'[i] # NoDeadline
      PROVE  i \in get_current_window' /\ ~ fec_window'[i % N].received
  <2>1. i \in get_current_window /\ ~ Slot(i).received /\ i \notin S
    BY Zenon, <1>2, <1>4 DEF DeadlineInv, DeadlinesAreOfMissingSymbols
  <2>2. i # id
    BY <1>1, <2>1 DEF WindowInv, WindowIsContiguous
  <2>3. i % N # id % N
    BY <1>3, <2>1, <2>2
  <2>4. i \in get_current_window'
    <3>1. CASE PrunesHead(id)
      <4>1. /\ get_current_window' = FirstKept(id)..highest_in_transit
            /\ id = smallest_in_transit /\ ~ is_fec_window_empty
            /\ FirstKept(id) \in (id + 1)..(highest_in_transit + 1)
        BY Zenon, <1>1, <3>1, LandedKeepsWindow
      <4>2. /\ highest_in_transit \in Nat /\ id \in Nat /\ id <= highest_in_transit
            /\ i \in (id + 1)..highest_in_transit
        BY <1>1, <2>1, <2>2, <4>1 DEF WindowInv, TypeOK, get_current_window, Ids
      <4>3. ~ (i < FirstKept(id))
        BY Zenon, <2>1, <4>2, FirstKeptStops
      <4> QED BY <4>1, <4>2, <4>3
    <3>2. CASE ~ PrunesHead(id)
      BY Zenon, <1>1, <2>1, <3>2, LandedKeepsWindow
    <3> QED BY <3>1, <3>2
  <2>5. fec_window'[i % N] = fec_window[i % N]
    BY <1>1, <2>3, <2>4, LandedKeepsWindow
  <2> QED BY Zenon, <2>1, <2>4, <2>5 DEF Slot
<1> QED BY Zenon, <1>1, <1>2, <1>4
        DEF DeadlineInv, DeadlinesAreOfMissingSymbols, TreesAreInverse, Slot

(***************************************************************************)
(* The symbols an RWIN frame prunes lose their deadlines.                  *)
(***************************************************************************)
LEMMA BoundsKeepDeadlines ==
  ASSUME DeadlineInv, NEW s \in Nat, NEW l \in Nat, s <= max_id + 1, update_window_bounds(s, l)
  PROVE  DeadlineInv'
<1> DEFINE lowest == Larger(lowest_considered_id_by_peer, s)
           last == Smaller(lowest - 1, highest_in_transit)
           kept == FirstKept(last)
           idle == is_fec_window_empty \/ lowest <= smallest_in_transit
           S == {i \in smallest_in_transit..last : i = smallest_in_transit \/ ~ Slot(i).received}
<1>1. /\ KeepInv /\ WindowInv /\ TypeOK /\ TreesAreInverse /\ KeepInv'
      /\ smallest_in_transit \in Nat /\ highest_in_transit \in Nat
  <2>1. KeepInv
    BY DEF DeadlineInv
  <2> QED BY Zenon, <2>1, BoundsKeep DEF KeepInv, WindowInv, TypeOK, DeadlineInv,
                                  DeadlinesAreOfMissingSymbols, TreesAreInverse
<1>2. \A i \in get_current_window' : fec_window'[i % N] = fec_window[i % N]
  BY Zenon, <1>1, BoundsKeepWindow
<1>3. CASE idle
  <2>1. /\ UNCHANGED <<symbols_from_deadlines, deadlines_from_symbols>>
        /\ get_current_window' = get_current_window
    BY Zenon, <1>1, <1>3, BoundsKeepWindow
  <2> QED BY <1>1, <1>2, <2>1 DEF DeadlineInv, DeadlinesAreOfMissingSymbols, Slot
<1>4. CASE ~ idle
  <2>1. /\ ~ is_fec_window_empty
        /\ last \in smallest_in_transit..highest_in_transit
        /\ kept \in (last + 1)..(highest_in_transit + 1)
        /\ get_current_window' = kept..highest_in_transit
        /\ DropDeadlines(S)
    BY <1>1, <1>4, BoundsKeepWindow
  <2> HIDE DEF lowest, last
  <2>2. \A i \in (last + 1)..highest_in_transit : i < kept => Slot(i).received
    <3>1. last \in Nat /\ last <= highest_in_transit
      BY <1>1, <2>1
    <3> QED BY <1>1, <3>1, FirstKeptStops
  <2> HIDE DEF kept
  <2>3. /\ TreesAreInverse'
        /\ \A i \in Ids : deadlines_from_symbols'[i] # NoDeadline =>
             i \notin S /\ deadlines_from_symbols'[i] = deadlines_from_symbols[i]
    <3> HIDE DEF S
    <3> QED BY <1>1, <2>1, DropKeepsInverse
  <2>4. ASSUME NEW i \in Ids, deadlines_from_symbols'[i] # NoDeadline
        PROVE  i \in get_current_window' /\ ~ fec_window'[i % N].received
    <3>1. i \in smallest_in_transit..highest_in_transit /\ ~ Slot(i).received /\ i \notin S
      BY <2>1, <2>3, <2>4 DEF DeadlineInv, DeadlinesAreOfMissingSymbols, get_current_window
    <3>2. i \notin smallest_in_transit..last
      BY <3>1
    <3>3. i \in (last + 1)..highest_in_transit
      BY <1>1, <2>1, <3>1, <3>2
    <3>4. i \in kept..highest_in_transit
      BY <1>1, <2>1, <2>2, <3>1, <3>3
    <3> QED BY Zenon, <1>2, <2>1, <3>1, <3>4 DEF Slot
  <2> QED BY Zenon, <1>1, <2>3, <2>4
          DEF DeadlineInv, DeadlinesAreOfMissingSymbols, TreesAreInverse, Slot
<1> QED BY <1>3, <1>4

(***************************************************************************)
(* When packets are announced less than N symbols after they were sent, the *)
(* deadline trees are inverse of each other and name only symbols of the    *)
(* window that are not known to have been received.                        *)
(***************************************************************************)
THEOREM DeadlinesStayOnMissingSymbols ==
  ASSUME MaxLag <= N
  PROVE  Spec => []DeadlinesAreOfMissingSymbols
<1>1. Init => DeadlineInv
  <2> SUFFICES ASSUME Init PROVE DeadlineInv
    OBVIOUS
  <2>1. KeepInv
    BY InitKeeps
  <2>2. DeadlinesAreOfMissingSymbols
    BY DeadlineAssumption DEF Init, DeadlinesAreOfMissingSymbols, Ids, NoDeadline
  <2> QED BY <2>1, <2>2 DEF DeadlineInv
<1>2. DeadlineInv /\ [Next]_vars => DeadlineInv'
  <2> SUFFICES ASSUME DeadlineInv, [Next]_vars PROVE DeadlineInv'
    OBVIOUS
  <2>1. ASSUME NEW d \in Deadlines \cup {NoDeadline}, window_protect_packet_payload(d)
        PROVE  DeadlineInv'
    BY <2>1, ProtectKeepsDeadlines
  <2>2. ASSUME NEW id \in Ids, packet_has_been_received(id)
        PROVE  DeadlineInv'
    BY <2>2, LandedKeepsDeadlines
  <2>3. ASSUME NEW s \in 0..Larger(1, max_id), NEW size \in RwinSizes,
               process_window_rwin_frame(s, size)
        PROVE  DeadlineInv'
    <3>1. s \in Nat /\ s + size - 1 \in Nat /\ update_window_bounds(s, s + size - 1)
      BY <2>3, BoundsAreNaturals DEF process_window_rwin_frame, DeadlineInv, KeepInv, WindowInv
    <3>2. s <= max_id + 1
      BY DEF Larger, DeadlineInv, KeepInv, WindowInv, TypeOK
    <3> QED BY <3>1, <3>2, BoundsKeepDeadlines
  <2>4. ASSUME NEW allowed \in RwinSizes, connection_state_changed(allowed)
        PROVE  DeadlineInv'
    <3>1. 0 \in Nat /\ Smaller(10, allowed - 1) \in Nat /\ 0 <= max_id + 1
          /\ update_window_bounds(0, Smaller(10, allowed - 1))
      BY <2>4, BoundsAreNaturals
         DEF connection_state_changed, DeadlineInv, KeepInv, WindowInv, TypeOK
    <3> QED BY <3>1, BoundsKeepDeadlines
  <2>5. CASE UNCHANGED vars
    <3>1. KeepInv'
      BY <2>5, IdleKeeps DEF DeadlineInv
    <3>2. DeadlinesAreOfMissingSymbols'
      BY <2>5 DEF vars, DeadlineInv, DeadlinesAreOfMissingSymbols, get_current_window,
                  is_fec_window_empty, Slot
    <3> QED BY <3>1, <3>2 DEF DeadlineInv
  <2> QED BY <2>1, <2>2, <2>3, <2>4, <2>5 DEF Next
<1>3. DeadlineInv => DeadlinesAreOfMissingSymbols
  BY DEF DeadlineInv
<1> QED BY <1>1, <1>2, <1>3, PTL DEF Spec

(***************************************************************************)
(* The three together: as long as packets are announced less than N symbols *)
(* after they were sent, the window the code keeps is sound.                *)
(***************************************************************************)
THEOREM WindowStaysSound ==
  ASSUME MaxLag <= N
  PROVE  Spec => []WindowIsSound
<1>1. Spec => [](KeptUntilReceived /\ HeadIsMissing)
  BY SymbolsKeptUntilReceived
<1>2. Spec => []DeadlinesAreOfMissingSymbols
  BY DeadlinesStayOnMissingSymbols
<1>3. /\ TypeOK /\ WindowIsContiguous
      /\ KeptUntilReceived /\ HeadIsMissing
      /\ DeadlinesAreOfMissingSymbols
      => WindowIsSound
  BY DEF WindowIsSound
<1> QED BY <1>1, <1>2, <1>3, WindowStaysContiguous, PTL

(***************************************************************************)
(* No step brings back a symbol that left the window, nor lowers a bound    *)
(* the peer gave, whatever the order in which RWIN frames arrive.           *)
(***************************************************************************)
THEOREM NothingEverComesBack == Spec => NothingComesBack
<1>1. Spec => []WindowInv
  BY WindowAlwaysInv
<1>2. WindowInv /\ [Next]_vars => [NothingReturns]_vars
  <2> SUFFICES ASSUME WindowInv, Next PROVE NothingReturns
    BY DEF NothingReturns
  <2>0. /\ max_id \in Nat /\ lowest_considered_id_by_peer \in Nat
        /\ largest_authorized_id_by_peer \in Nat /\ smallest_in_transit \in Nat
        /\ highest_in_transit \in Nat
    BY DEF WindowInv, TypeOK
  <2>1. ASSUME NEW d \in Deadlines \cup {NoDeadline}, window_protect_packet_payload(d)
        PROVE  NothingReturns
    <3>1. /\ get_current_window' = get_current_window \cup {max_id + 1} /\ max_id' = max_id + 1
          /\ UNCHANGED <<lowest_considered_id_by_peer, largest_authorized_id_by_peer>>
      BY Zenon, <2>1, ProtectKeepsWindow
    <3> QED BY <2>0, <3>1 DEF NothingReturns
  <2>2. ASSUME NEW id \in Ids, packet_has_been_received(id)
        PROVE  NothingReturns
    <3>1. UNCHANGED <<max_id, lowest_considered_id_by_peer, largest_authorized_id_by_peer>>
      BY <2>2 DEF packet_has_been_received
    <3>2. \A i \in get_current_window' : i \in get_current_window
      <4>1. CASE PrunesHead(id)
        <5>1. /\ get_current_window' = FirstKept(id)..highest_in_transit
              /\ id = smallest_in_transit /\ ~ is_fec_window_empty
              /\ FirstKept(id) \in (id + 1)..(highest_in_transit + 1)
          BY <2>2, <4>1, LandedKeepsWindow
        <5> DEFINE kept == FirstKept(id)
        <5> HIDE DEF kept
        <5>2. kept..highest_in_transit \subseteq smallest_in_transit..highest_in_transit
          BY <2>0, <5>1 DEF kept
        <5>3. get_current_window = smallest_in_transit..highest_in_transit
          BY <5>1 DEF get_current_window
        <5> QED BY <5>1, <5>2, <5>3 DEF kept
      <4>2. CASE ~ PrunesHead(id)
        BY <2>2, <4>2, LandedKeepsWindow
      <4> QED BY <4>1, <4>2
    <3> QED BY <2>0, <3>1, <3>2 DEF NothingReturns
  <2>3. ASSUME NEW s \in Nat, NEW l \in Nat, update_window_bounds(s, l)
        PROVE  NothingReturns
    <3>1. /\ max_id' = max_id
          /\ lowest_considered_id_by_peer' >= lowest_considered_id_by_peer
          /\ largest_authorized_id_by_peer' >= largest_authorized_id_by_peer
      BY <2>0, <2>3 DEF update_window_bounds, Larger
    <3> DEFINE lowest == Larger(lowest_considered_id_by_peer, s)
               last == Smaller(lowest - 1, highest_in_transit)
               kept == FirstKept(last)
               idle == is_fec_window_empty \/ lowest <= smallest_in_transit
    <3>2. CASE idle
      <4>1. get_current_window' = get_current_window
        BY Zenon, <2>3, <3>2, BoundsKeepWindow
      <4> QED BY <2>0, <3>1, <4>1 DEF NothingReturns
    <3>3. CASE ~ idle
      <4>1. /\ ~ is_fec_window_empty
            /\ last \in smallest_in_transit..highest_in_transit
            /\ kept \in (last + 1)..(highest_in_transit + 1)
            /\ get_current_window' = kept..highest_in_transit
        BY Zenon, <2>3, <3>3, BoundsKeepWindow
      <4> HIDE DEF last, kept
      <4>2. get_current_window' \subseteq smallest_in_transit..highest_in_transit
        BY <2>0, <4>1
      <4> QED BY <2>0, <3>1, <4>1, <4>2 DEF NothingReturns, get_current_window
    <3> QED BY Zenon, <3>2, <3>3
  <2>4. ASSUME NEW s \in 0..Larger(1, max_id), NEW size \in RwinSizes,
               process_window_rwin_frame(s, size)
        PROVE  NothingReturns
    BY <2>3, <2>4, BoundsAreNaturals DEF process_window_rwin_frame, WindowInv
  <2>5. ASSUME NEW allowed \in RwinSizes, connection_state_changed(allowed)
        PROVE  NothingReturns
    BY <2>3, <2>5, BoundsAreNaturals DEF connection_state_changed, WindowInv
  <2> QED BY <2>1, <2>2, <2>4, <2>5 DEF Next
<1>3. NothingComesBack <=> [][NothingReturns]_vars
  BY DEF NothingComesBack
<1> QED BY <1>1, <1>2, <1>3, PTL DEF Spec

-----------------------------------------------------------------------------
(***************************************************************************)
(* Sender, network and receiver.  SendWindow lets any id that was sent be   *)
(* announced or advertised.  Here the receiver decides, and what the sender *)
(* hears is old news of it: the invariant says that news never runs ahead   *)
(* of what the receiver has.                                               *)
(***************************************************************************)

\* v is an id a receiver that has `ids' may say it needs nothing below, `last' being sent:
\* the 1 it starts with, or an id it has
SafeFor(v, last, ids) ==
  /\ v \in 0..Larger(1, last)
  /\ \A i \in 0..(v - 1) : i \in ids
  /\ v > 1 => v \in ids

Safe(v) == SafeFor(v, max_id, received)

Frames == [smallest_id : Nat, state : {"reserved", "sent", "processed"}]

(***************************************************************************)
(* The tracker is exact, nothing is received or in flight that was not      *)
(* sent, and every id announced or advertised so far, in the receiver, on   *)
(* the wire or at the sender, is safe.                                     *)
(***************************************************************************)
FlowInv ==
  /\ intervals \in Seq(Nodes) /\ Canonical(intervals) /\ Held(intervals) = received
  /\ received \subseteq 0..max_id
  /\ packets \subseteq 1..max_id
  /\ landed \subseteq received
  /\ Safe(smallest_considered_id_to_advertise)
  /\ rwin_frames \in Seq(Frames)
  /\ \A k \in 1..Len(rwin_frames) : Safe(rwin_frames[k].smallest_id)
  /\ Safe(lowest_considered_id_by_peer)

(***************************************************************************)
(* A symbol of the window was sent.                                        *)
(***************************************************************************)
LEMMA WindowWasSent ==
  ASSUME WindowInv
  PROVE  max_id \in Nat /\ get_current_window \subseteq 1..max_id
BY DEF WindowInv, TypeOK, WindowIsContiguous, get_current_window

(***************************************************************************)
(* The highest contiguous id of an exact tracker is safe.                  *)
(***************************************************************************)
LEMMA HighestIsSafe ==
  ASSUME NEW t \in Seq(Nodes), Canonical(t), NEW m \in Nat, Held(t) \subseteq 0..m
  PROVE  SafeFor(get_highest_contiguous_received_source_symbol(t), m, Held(t))
<1> DEFINE h == get_highest_contiguous_received_source_symbol(t)
<1>1. h \in Nat /\ \A i \in 0..h : i \in Held(t)
  BY HighestOfList
<1> HIDE DEF h
<1>2. h \in 0..m
  BY <1>1
<1>3. h \in 0..Larger(1, m)
  BY <1>2 DEF Larger
<1> QED BY <1>1, <1>3 DEF SafeFor, h

(***************************************************************************)
(* More symbols sent or received leave an id safe.                         *)
(***************************************************************************)
LEMMA SafeStaysSafe ==
  ASSUME NEW m \in Nat, NEW n \in Nat, m <= n, NEW r, NEW q, r \subseteq q,
         NEW v, SafeFor(v, m, r)
  PROVE  SafeFor(v, n, q)
BY DEF SafeFor, Larger

(***************************************************************************)
(* What the sender does when the receiver stands still.                     *)
(***************************************************************************)
LEMMA SenderKeepsFlow ==
  ASSUME FlowInv, max_id \in Nat, max_id' \in Nat, max_id <= max_id',
         UNCHANGED buffers,
         packets' \subseteq 1..max_id',
         landed' \subseteq received,
         rwin_frames' \in Seq(Frames),
         \A k \in 1..Len(rwin_frames') : Safe(rwin_frames'[k].smallest_id),
         Safe(lowest_considered_id_by_peer')
  PROVE  FlowInv'
<1>1. /\ intervals' = intervals /\ received' = received
      /\ smallest_considered_id_to_advertise' = smallest_considered_id_to_advertise
  BY DEF buffers
<1>2. /\ intervals' \in Seq(Nodes) /\ Canonical(intervals') /\ Held(intervals') = received'
      /\ landed' \subseteq received'
  BY Zenon, <1>1 DEF FlowInv
<1>3. received' \subseteq 0..max_id'
  BY <1>1 DEF FlowInv
<1>4. ASSUME NEW v, Safe(v) PROVE SafeFor(v, max_id', received')
  BY Zenon, <1>1, <1>4, SafeStaysSafe DEF Safe
<1>5. SafeFor(smallest_considered_id_to_advertise', max_id', received')
  BY <1>1, <1>4 DEF FlowInv
<1>6. \A k \in 1..Len(rwin_frames') : SafeFor(rwin_frames'[k].smallest_id, max_id', received')
  BY <1>4
<1>7. SafeFor(lowest_considered_id_by_peer', max_id', received')
  BY <1>4
<1> QED BY <1>2, <1>3, <1>5, <1>6, <1>7 DEF FlowInv, Safe

(***************************************************************************)
(* A symbol that was sent and reaches the receiver, from a packet or from   *)
(* the decoder, keeps the invariant.                                       *)
(***************************************************************************)
LEMMA ReceiverKeepsFlow ==
  ASSUME FlowInv, max_id \in Nat, UNCHANGED <<vars, rwin_frames>>,
         packets' \subseteq packets,
         NEW id \in 1..max_id, window_receive_source_symbol(id)
  PROVE  FlowInv'
<1>1. max_id' = max_id /\ landed' = landed /\ rwin_frames' = rwin_frames
      /\ lowest_considered_id_by_peer' = lowest_considered_id_by_peer
  BY DEF vars
<1>2. /\ intervals' = tracker_receive_source_symbol(intervals, id)
      /\ received' = received \cup {id}
      /\ smallest_considered_id_to_advertise' =
           get_highest_contiguous_received_source_symbol(intervals')
  BY DEF window_receive_source_symbol, window_update_flow_control_infos
<1>3. id \in Nat
  OBVIOUS
<1>4. intervals' \in Seq(Nodes) /\ Canonical(intervals') /\ Held(intervals') = received'
  BY Zenon, <1>2, <1>3, TrackerReceives DEF FlowInv
<1>5. received' \subseteq 0..max_id' /\ packets' \subseteq 1..max_id' /\ landed' \subseteq received'
  BY <1>1, <1>2 DEF FlowInv
<1>6. SafeFor(get_highest_contiguous_received_source_symbol(intervals'), max_id', received')
  BY Zenon, <1>1, <1>4, <1>5, HighestIsSafe DEF Safe
<1>7. ASSUME NEW v, Safe(v) PROVE SafeFor(v, max_id', received')
  BY <1>1, <1>2, <1>7, SafeStaysSafe DEF Safe
<1>8. \A k \in 1..Len(rwin_frames') : SafeFor(rwin_frames'[k].smallest_id, max_id', received')
  BY Zenon, <1>1, <1>7 DEF FlowInv
<1>9. SafeFor(lowest_considered_id_by_peer', max_id', received') /\ rwin_frames' \in Seq(Frames)
  BY <1>1, <1>7 DEF FlowInv
<1> QED BY Zenon, <1>2, <1>4, <1>5, <1>6, <1>8, <1>9 DEF FlowInv, Safe

(***************************************************************************)
(* Another frame in the place of one of the frames.                        *)
(***************************************************************************)
LEMMA FrameReplaced ==
  ASSUME NEW s \in Seq(Frames), NEW k \in 1..Len(s), NEW g \in Frames,
         NEW f, f = [s EXCEPT ![k] = g]
  PROVE  /\ f \in Seq(Frames) /\ Len(f) = Len(s)
         /\ \A j \in 1..Len(s) : f[j] = IF j = k THEN g ELSE s[j]
<1>1. s \in [1..Len(s) -> Frames] /\ Len(s) \in Nat
  BY LengthOfSeq
<1>2. /\ f \in [1..Len(s) -> Frames]
      /\ \A j \in 1..Len(s) : f[j] = IF j = k THEN g ELSE s[j]
  BY <1>1
<1> QED BY <1>1, <1>2

(***************************************************************************)
(* An RWIN frame in flight, once processed, moves the sender's bound to a   *)
(* safe id.                                                                *)
(***************************************************************************)
LEMMA RwinKeepsFlow ==
  ASSUME WindowInv, FlowInv, NEW k \in 1..MaxFrames, ProcessRwin(k)
  PROVE  Next /\ FlowInv'
<1> DEFINE v == rwin_frames[k].smallest_id
<1>1. /\ k \in 1..Len(rwin_frames) /\ rwin_frames \in Seq(Frames)
      /\ rwin_frames' = [rwin_frames EXCEPT ![k].state = "processed"]
      /\ process_window_rwin_frame(v, MaxSize)
      /\ UNCHANGED <<packets, buffers>>
  BY DEF ProcessRwin, FlowInv
<1>2. Safe(v) /\ max_id \in Nat
  BY <1>1, WindowWasSent DEF FlowInv
<1>3. Next
  <2>1. v \in 0..Larger(1, max_id) /\ MaxSize \in RwinSizes
    BY <1>2, FlowAssumption DEF Safe, SafeFor
  <2> QED BY <1>1, <2>1 DEF Next
<1>4. /\ max_id' = max_id /\ landed' = landed
      /\ lowest_considered_id_by_peer' = Larger(lowest_considered_id_by_peer, v)
  BY <1>1 DEF process_window_rwin_frame, update_window_bounds
<1>5. Safe(lowest_considered_id_by_peer')
  BY <1>2, <1>4 DEF Larger, FlowInv
<1>6. /\ rwin_frames' \in Seq(Frames)
      /\ Len(rwin_frames') = Len(rwin_frames)
      /\ \A j \in 1..Len(rwin_frames) :
           rwin_frames'[j].smallest_id = rwin_frames[j].smallest_id
  <2> DEFINE g == [rwin_frames[k] EXCEPT !.state = "processed"]
  <2>1. rwin_frames[k] \in Frames
    BY <1>1
  <2>2. g \in Frames /\ g.smallest_id = v
    BY Zenon, <2>1 DEF Frames
  <2>3. rwin_frames' = [rwin_frames EXCEPT ![k] = g]
    BY <1>1
  <2> HIDE DEF g
  <2>4. /\ rwin_frames' \in Seq(Frames) /\ Len(rwin_frames') = Len(rwin_frames)
        /\ \A j \in 1..Len(rwin_frames) : rwin_frames'[j] = IF j = k THEN g ELSE rwin_frames[j]
    BY <1>1, <2>2, <2>3, FrameReplaced
  <2> QED BY <2>2, <2>4
<1>7. \A j \in 1..Len(rwin_frames') : Safe(rwin_frames'[j].smallest_id)
  BY <1>6 DEF FlowInv
<1>8. UNCHANGED buffers /\ packets' \subseteq 1..max_id' /\ landed' \subseteq received
  BY Zenon, <1>1, <1>4 DEF FlowInv
<1>9. FlowInv'
  BY <1>2, <1>4, <1>5, <1>6, <1>7, <1>8, SenderKeepsFlow
<1> QED BY <1>3, <1>9

(***************************************************************************)
(* The other steps of the sender leave its bound where it is.              *)
(***************************************************************************)
LEMMA SendKeepsFlow ==
  ASSUME WindowInv, FlowInv, StartSending \/ SendSourceSymbol \/ \E id \in Ids : AnnounceReceived(id)
  PROVE  Next /\ FlowInv'
<1>1. max_id \in Nat /\ lowest_considered_id_by_peer \in Nat
  BY DEF WindowInv, TypeOK
<1>2. CASE StartSending
  <2>1. Next
    BY Zenon, <1>2, FlowAssumption DEF StartSending, Next
  <2>2. /\ max_id' = max_id /\ landed' = landed
        /\ lowest_considered_id_by_peer' = Larger(lowest_considered_id_by_peer, 0)
        /\ packets' = packets /\ rwin_frames' = rwin_frames /\ UNCHANGED buffers
    BY <1>2 DEF StartSending, connection_state_changed, update_window_bounds
  <2>3. lowest_considered_id_by_peer' = lowest_considered_id_by_peer
    <3>1. lowest_considered_id_by_peer' = Larger(lowest_considered_id_by_peer, 0)
      BY Zenon, <2>2
    <3> QED BY <1>1, <3>1 DEF Larger
  <2>4. FlowInv'
    <3>1. /\ packets' \subseteq 1..max_id' /\ landed' \subseteq received
          /\ rwin_frames' \in Seq(Frames)
          /\ \A k \in 1..Len(rwin_frames') : Safe(rwin_frames'[k].smallest_id)
          /\ Safe(lowest_considered_id_by_peer')
      BY Zenon, <2>2, <2>3 DEF FlowInv
    <3>2. max_id' \in Nat /\ max_id <= max_id'
      BY <1>1, <2>2
    <3> QED BY Zenon, <1>1, <2>2, <3>1, <3>2, SenderKeepsFlow
  <2> QED BY <2>1, <2>4
<1>3. CASE SendSourceSymbol
  <2>1. Next
    BY <1>3 DEF SendSourceSymbol, Next, NoDeadline
  <2>2. /\ max_id' = max_id + 1 /\ landed' = landed
        /\ lowest_considered_id_by_peer' = lowest_considered_id_by_peer
        /\ packets' = packets \cup {max_id'} /\ rwin_frames' = rwin_frames /\ UNCHANGED buffers
    BY <1>3 DEF SendSourceSymbol, window_protect_packet_payload, protect_source_symbol,
                window_get_next_source_symbol_id
  <2>3. max_id' \in Nat /\ max_id <= max_id'
    BY <1>1, <2>2
  <2>4. packets' \subseteq 1..max_id'
    <3>1. packets \subseteq 1..max_id
      BY Zenon DEF FlowInv
    <3> QED BY <1>1, <2>2, <3>1
  <2>5. FlowInv'
    <3>1. /\ landed' \subseteq received
          /\ rwin_frames' \in Seq(Frames)
          /\ \A k \in 1..Len(rwin_frames') : Safe(rwin_frames'[k].smallest_id)
          /\ Safe(lowest_considered_id_by_peer')
      BY Zenon, <2>2 DEF FlowInv
    <3> QED BY Zenon, <1>1, <2>2, <2>3, <2>4, <3>1, SenderKeepsFlow
  <2> QED BY <2>1, <2>5
<1>4. CASE \E id \in Ids : AnnounceReceived(id)
  <2>1. PICK id \in Ids : AnnounceReceived(id)
    BY <1>4
  <2>2. Next
    BY <2>1 DEF AnnounceReceived, Next
  <2>3. /\ max_id' = max_id /\ landed' = landed \cup {id} /\ id \in received
        /\ lowest_considered_id_by_peer' = lowest_considered_id_by_peer
        /\ packets' = packets /\ rwin_frames' = rwin_frames /\ UNCHANGED buffers
    BY Zenon, <2>1 DEF AnnounceReceived, packet_has_been_received
  <2>4. FlowInv'
    <3>1. /\ packets' \subseteq 1..max_id' /\ landed' \subseteq received
          /\ rwin_frames' \in Seq(Frames)
          /\ \A k \in 1..Len(rwin_frames') : Safe(rwin_frames'[k].smallest_id)
          /\ Safe(lowest_considered_id_by_peer')
      BY Zenon, <2>3 DEF FlowInv
    <3>2. max_id' \in Nat /\ max_id <= max_id'
      BY <1>1, <2>3
    <3> QED BY Zenon, <1>1, <2>3, <3>1, <3>2, SenderKeepsFlow
  <2> QED BY <2>2, <2>4
<1> QED BY <1>2, <1>3, <1>4

(***************************************************************************)
(* Reserving an RWIN frame, writing it, and learning what became of it,     *)
(* keep the invariant.                                                      *)
(***************************************************************************)
LEMMA FramesKeepFlow ==
  ASSUME FlowInv, max_id \in Nat,
         \/ \E a, m \in BOOLEAN : reserve_window_rwin_frame_if_needed(a, m)
         \/ \E k \in 1..MaxFrames : window_write_window_rwin_frame(k)
         \/ \E k \in 1..MaxFrames, a \in BOOLEAN : notify_window_rwin_frame(k, a)
  PROVE  FlowInv'
<1>1. /\ UNCHANGED vars /\ UNCHANGED buffers /\ packets' = packets
  BY DEF reserve_window_rwin_frame_if_needed, window_write_window_rwin_frame, notify_window_rwin_frame
<1>2. /\ max_id' = max_id /\ landed' = landed
      /\ lowest_considered_id_by_peer' = lowest_considered_id_by_peer
  BY <1>1 DEF vars
<1>3. rwin_frames \in Seq(Frames) /\ Safe(smallest_considered_id_to_advertise)
      /\ \A j \in 1..Len(rwin_frames) : Safe(rwin_frames[j].smallest_id)
  BY Zenon DEF FlowInv
<1>4. /\ rwin_frames' \in Seq(Frames)
      /\ \A j \in 1..Len(rwin_frames') : Safe(rwin_frames'[j].smallest_id)
  <2>1. CASE rwin_frames' = rwin_frames
    BY <1>3, <2>1
  <2>2. CASE rwin_frames' = Append(rwin_frames,
                                   [smallest_id |-> smallest_considered_id_to_advertise,
                                    state |-> "reserved"])
    <3> DEFINE f == [smallest_id |-> smallest_considered_id_to_advertise, state |-> "reserved"]
    <3>1. smallest_considered_id_to_advertise \in Nat
      BY <1>3 DEF Safe, SafeFor, Larger
    <3>2. f \in Frames /\ f.smallest_id = smallest_considered_id_to_advertise
      BY <3>1 DEF Frames
    <3> HIDE DEF f
    <3>3. rwin_frames' = Append(rwin_frames, f)
      BY <2>2 DEF f
    <3> QED BY <1>3, <3>2, <3>3
  <2>3. ASSUME NEW k \in DOMAIN rwin_frames, rwin_frames' = Removed(rwin_frames, k)
        PROVE  /\ rwin_frames' \in Seq(Frames)
               /\ \A j \in 1..Len(rwin_frames') : Safe(rwin_frames'[j].smallest_id)
    <3>1. k \in 1..Len(rwin_frames) /\ Len(rwin_frames) \in Nat
      BY <1>3
    <3>2. /\ rwin_frames' \in Seq(Frames) /\ Len(rwin_frames') = Len(rwin_frames) - 1
          /\ \A j \in 1..Len(rwin_frames) - 1 :
               rwin_frames'[j] = IF j < k THEN rwin_frames[j] ELSE rwin_frames[j + 1]
      BY Zenon, <1>3, <2>3, <3>1, RemovedPositions
    <3> QED BY <1>3, <3>1, <3>2
  <2>4. ASSUME NEW k \in DOMAIN rwin_frames,
               rwin_frames' = [rwin_frames EXCEPT ![k] =
                                 [smallest_id |-> smallest_considered_id_to_advertise, state |-> "sent"]]
        PROVE  /\ rwin_frames' \in Seq(Frames)
               /\ \A j \in 1..Len(rwin_frames') : Safe(rwin_frames'[j].smallest_id)
    <3> DEFINE g == [smallest_id |-> smallest_considered_id_to_advertise, state |-> "sent"]
    <3>1. smallest_considered_id_to_advertise \in Nat
      BY <1>3 DEF Safe, SafeFor, Larger
    <3>2. g \in Frames /\ g.smallest_id = smallest_considered_id_to_advertise
      BY <3>1 DEF Frames
    <3>3. k \in 1..Len(rwin_frames) /\ rwin_frames' = [rwin_frames EXCEPT ![k] = g]
      BY <1>3, <2>4
    <3> HIDE DEF g
    <3>4. /\ rwin_frames' \in Seq(Frames) /\ Len(rwin_frames') = Len(rwin_frames)
          /\ \A j \in 1..Len(rwin_frames) : rwin_frames'[j] = IF j = k THEN g ELSE rwin_frames[j]
      BY <1>3, <3>2, <3>3, FrameReplaced
    <3> QED BY <1>3, <3>2, <3>4
  <2>5. \/ rwin_frames' = rwin_frames
        \/ rwin_frames' = Append(rwin_frames,
                                 [smallest_id |-> smallest_considered_id_to_advertise,
                                  state |-> "reserved"])
        \/ \E k \in DOMAIN rwin_frames : rwin_frames' = Removed(rwin_frames, k)
        \/ \E k \in DOMAIN rwin_frames :
              rwin_frames' = [rwin_frames EXCEPT ![k] =
                                [smallest_id |-> smallest_considered_id_to_advertise, state |-> "sent"]]
    BY Zenon DEF reserve_window_rwin_frame_if_needed, window_write_window_rwin_frame, notify_window_rwin_frame
  <2> QED BY Zenon, <2>1, <2>2, <2>3, <2>4, <2>5
<1>5. /\ packets' \subseteq 1..max_id' /\ landed' \subseteq received
      /\ Safe(lowest_considered_id_by_peer')
  BY Zenon, <1>1, <1>2 DEF FlowInv
<1>6. max_id' \in Nat /\ max_id <= max_id'
  BY <1>2
<1> QED BY Zenon, <1>1, <1>4, <1>5, <1>6, SenderKeepsFlow

(***************************************************************************)
(* Nothing was sent yet: the receiver has id 0, and advertises 1.           *)
(***************************************************************************)
LEMMA InitFlow == FlowInit => Init /\ FlowInv
<1> SUFFICES ASSUME FlowInit PROVE Init /\ FlowInv
  OBVIOUS
<1>1. Init /\ max_id = 0 /\ landed = {} /\ lowest_considered_id_by_peer = 0
  BY DEF FlowInit, Init
<1>2. /\ intervals = create_received_symbols_tracker /\ received = {0}
      /\ packets = {} /\ rwin_frames = <<>>
      /\ smallest_considered_id_to_advertise = 1
  BY DEF FlowInit
<1>3. intervals \in Seq(Nodes) /\ Canonical(intervals) /\ Held(intervals) = received
  BY <1>2, NewTracker
<1>4. Safe(0) /\ Safe(1)
  BY <1>1, <1>2 DEF Safe, SafeFor, Larger
<1>5. rwin_frames \in Seq(Frames) /\ Len(rwin_frames) = 0
  BY <1>2
<1> QED BY <1>1, <1>2, <1>3, <1>4, <1>5 DEF FlowInv

(***************************************************************************)
(* Every step of the composition is a step of the sender or leaves it as it *)
(* is, and keeps the invariant.                                            *)
(***************************************************************************)
LEMMA StepKeepsFlow == WindowInv /\ FlowInv /\ [FlowNext]_flow_vars => [Next]_vars /\ FlowInv'
<1> SUFFICES ASSUME WindowInv, FlowInv, [FlowNext]_flow_vars
             PROVE  [Next]_vars /\ FlowInv'
  OBVIOUS
<1>1. max_id \in Nat /\ get_current_window \subseteq 1..max_id
  BY WindowWasSent
<1>2. CASE StartSending \/ SendSourceSymbol \/ \E id \in Ids : AnnounceReceived(id)
  BY <1>2, SendKeepsFlow
<1>3. CASE \E k \in 1..MaxFrames : ProcessRwin(k)
  BY <1>3, RwinKeepsFlow
<1>4. ASSUME NEW id \in Ids, DeliverPacket(id) PROVE [Next]_vars /\ FlowInv'
  <2>1. id \in 1..max_id /\ packets' \subseteq packets /\ window_receive_source_symbol(id)
        /\ UNCHANGED <<vars, rwin_frames>>
    BY <1>4 DEF DeliverPacket, FlowInv
  <2> QED BY <1>1, <2>1, ReceiverKeepsFlow
<1>5. ASSUME NEW id \in Ids, Recover(id) PROVE [Next]_vars /\ FlowInv'
  <2>1. id \in 1..max_id /\ packets' \subseteq packets /\ window_receive_source_symbol(id)
        /\ UNCHANGED <<vars, rwin_frames>>
    BY <1>1, <1>5 DEF Recover
  <2> QED BY <1>1, <2>1, ReceiverKeepsFlow
<1>6. CASE \/ \E a, m \in BOOLEAN : reserve_window_rwin_frame_if_needed(a, m)
           \/ \E k \in 1..MaxFrames : window_write_window_rwin_frame(k)
           \/ \E k \in 1..MaxFrames, a \in BOOLEAN : notify_window_rwin_frame(k, a)
  <2>1. UNCHANGED vars
    BY Zenon, <1>6
       DEF reserve_window_rwin_frame_if_needed, window_write_window_rwin_frame, notify_window_rwin_frame
  <2> QED BY Zenon, <1>1, <1>6, <2>1, FramesKeepFlow
<1>7. CASE UNCHANGED flow_vars
  <2>1. UNCHANGED vars /\ UNCHANGED <<packets, rwin_frames>> /\ UNCHANGED buffers
    BY <1>7 DEF flow_vars
  <2>2. max_id' = max_id /\ landed' = landed
        /\ lowest_considered_id_by_peer' = lowest_considered_id_by_peer
    BY <2>1 DEF vars
  <2> QED BY <1>1, <2>1, <2>2, SenderKeepsFlow DEF FlowInv
<1> QED BY <1>2, <1>3, <1>4, <1>5, <1>6, <1>7 DEF FlowNext

(***************************************************************************)
(* The invariants of the two sides hold together.                          *)
(***************************************************************************)
LEMMA FlowAlwaysInv == FlowSpec => [](WindowInv /\ FlowInv)
<1>1. FlowInit => WindowInv /\ FlowInv
  BY InitFlow, InitIsContiguous
<1>2. WindowInv /\ FlowInv /\ [FlowNext]_flow_vars => WindowInv' /\ FlowInv'
  BY StepKeepsFlow, StepKeepsWindow
<1> QED BY <1>1, <1>2, PTL DEF FlowSpec

(***************************************************************************)
(* The composition implements the sender's specification: the receiver only *)
(* announces and advertises what SendWindow lets its environment say, so    *)
(* that what is proved of the sending window alone holds in a connection.   *)
(***************************************************************************)
THEOREM FlowImplementsSendWindow == FlowSpec => Spec
<1>1. FlowInit => Init
  BY InitFlow
<1>2. (WindowInv /\ FlowInv) /\ [FlowNext]_flow_vars => [Next]_vars
  BY StepKeepsFlow
<1> QED BY <1>1, <1>2, FlowAlwaysInv, PTL DEF FlowSpec, Spec

(***************************************************************************)
(* Whatever was sent is at the receiver or still in the sending window,     *)
(* where repair symbols protect it, for all window sizes and whatever is    *)
(* lost, late, recovered or announced twice, provided that a packet is      *)
(* announced less than N symbols after it was sent.                        *)
(***************************************************************************)
THEOREM NoSymbolLostForGood ==
  ASSUME MaxLag <= N
  PROVE  FlowSpec => []NothingLostForGood
<1>1. KeptUntilReceived /\ WindowInv /\ FlowInv => NothingLostForGood
  <2> SUFFICES ASSUME KeptUntilReceived, WindowInv, FlowInv, NEW id \in 1..max_id,
                      id \notin get_current_window
               PROVE  id \in received
    BY DEF NothingLostForGood
  <2>1. max_id \in Nat /\ id \in Nat
    BY WindowWasSent
  <2>2. id \in landed \/ id < lowest_considered_id_by_peer
    BY DEF KeptUntilReceived
  <2>3. CASE id \in landed
    BY <2>3 DEF FlowInv
  <2>4. CASE id < lowest_considered_id_by_peer
    <3>1. lowest_considered_id_by_peer \in Nat
          /\ \A i \in 0..(lowest_considered_id_by_peer - 1) : i \in received
      BY DEF FlowInv, Safe, SafeFor, WindowInv, TypeOK
    <3>2. id \in 0..(lowest_considered_id_by_peer - 1)
      BY <2>1, <2>4, <3>1
    <3> QED BY Zenon, <3>1, <3>2
  <2> QED BY <2>2, <2>3, <2>4
<1>2. Spec => []KeptUntilReceived
  BY SymbolsKeptUntilReceived, PTL
<1> QED BY <1>1, <1>2, FlowImplementsSendWindow, FlowAlwaysInv, PTL
-----------------------------------------------------------------------------
(***************************************************************************)
(* What the credit does: the sender is never more than the size of the ring *)
(* ahead of the bound the receiver gave, below which the window holds       *)
(* nothing, and the ring is exact.                                         *)
(***************************************************************************)
CreditInv ==
  /\ RingExact(ring, received)
  /\ max_id <= MaxId /\ max_id <= largest_authorized_id_by_peer
  /\ largest_authorized_id_by_peer <= Larger(1, lowest_considered_id_by_peer) + MaxSize - 1
  /\ \A i \in get_current_window : i >= lowest_considered_id_by_peer

(***************************************************************************)
(* A symbol that was sent fits above the last one received.                 *)
(***************************************************************************)
LEMMA SentFitsInRing ==
  ASSUME WindowInv, FlowInv, CreditInv, NEW id \in 1..max_id, Follows(ring, received)
  PROVE  id < Newest(ring) + MaxSize
<1> DEFINE top == Newest(ring)
           low == lowest_considered_id_by_peer
<1>1. /\ max_id \in Nat /\ low \in Nat /\ largest_authorized_id_by_peer \in Nat
      /\ MaxSize \in Nat
  BY FlowAssumption, RwinAssumption DEF WindowInv, TypeOK
<1>2. top \in Nat /\ top >= 1 /\ \A i \in received : i <= top
  <2> DEFINE f == ring.first_id
             z == ring.current_size
  <2>1. f \in Nat /\ z \in Nat /\ f >= 1 /\ z >= 1 /\ top = f + z - 1
    BY DEF Follows, Rings, Newest
  <2> HIDE DEF f, z, top
  <2>2. top \in Nat /\ top >= 1
    BY <2>1
  <2> QED BY <2>2 DEF Follows, top
<1>3. low > 1 => low \in received
  BY DEF FlowInv, Safe, SafeFor
<1> HIDE DEF top
<1>4. Larger(1, low) <= top
  BY <1>1, <1>2, <1>3 DEF Larger
<1>5. id <= Larger(1, low) + MaxSize - 1 /\ Larger(1, low) \in Nat
  BY <1>1 DEF CreditInv, Larger
<1> QED BY <1>1, <1>2, <1>4, <1>5 DEF top

(***************************************************************************)
(* A symbol received leaves the ring exact.                                *)
(***************************************************************************)
LEMMA ReceiverKeepsCredit ==
  ASSUME WindowInv, FlowInv, CreditInv, UNCHANGED vars,
         NEW id \in 1..max_id, window_receive_source_symbol(id)
  PROVE  CreditInv'
<1>1. ring' = ring_add(ring, id) /\ received' = received \cup {id}
  BY DEF window_receive_source_symbol
<1>2. received \in SUBSET Nat /\ id \in Nat /\ id >= 1 /\ id < IdSpace
  BY FlowAssumption, RingAssumption, SizeAssumption DEF FlowInv, CreditInv, WindowInv, TypeOK
<1>3. RingExact(ring', received')
  BY <1>1, <1>2, AddKeepsRing, SentFitsInRing DEF CreditInv, RingExact
<1> QED BY <1>3 DEF CreditInv, vars, get_current_window, is_fec_window_empty

(***************************************************************************)
(* An RWIN frame, or the initial credit, that gives no more than MaxSize ids   *)
(* from an id on, the first one included.                                  *)
(***************************************************************************)
LEMMA BoundsKeepCredit ==
  ASSUME WindowInv, CreditInv, UNCHANGED buffers,
         NEW s \in Nat, NEW l \in Nat, l <= Larger(1, s) + MaxSize - 1,
         update_window_bounds(s, l)
  PROVE  CreditInv'
<1> DEFINE lowest == Larger(lowest_considered_id_by_peer, s)
           last == Smaller(lowest - 1, highest_in_transit)
           kept == FirstKept(last)
           idle == is_fec_window_empty \/ lowest <= smallest_in_transit
<1>1. /\ max_id \in Nat /\ lowest_considered_id_by_peer \in Nat /\ MaxSize \in Nat
      /\ largest_authorized_id_by_peer \in Nat /\ smallest_in_transit \in Nat
      /\ highest_in_transit \in Nat
  BY FlowAssumption, RwinAssumption DEF WindowInv, TypeOK
<1>2. /\ lowest_considered_id_by_peer' = lowest /\ lowest \in Nat
      /\ max_id' = max_id
      /\ largest_authorized_id_by_peer' = Larger(largest_authorized_id_by_peer, l)
  BY Zenon, BoundsKeepWindow DEF update_window_bounds
<1>3. max_id' <= MaxId /\ max_id' <= largest_authorized_id_by_peer'
      /\ largest_authorized_id_by_peer' <= Larger(1, lowest) + MaxSize - 1
  BY <1>1, <1>2 DEF CreditInv, Larger
<1>4. \A i \in get_current_window' : i >= lowest
  <2>1. CASE idle
    <3>1. get_current_window' = get_current_window
      BY Zenon, <2>1, BoundsKeepWindow
    <3> HIDE DEF lowest
    <3>2. \A i \in get_current_window : i >= lowest
      BY <1>1, <1>2, <2>1 DEF get_current_window
    <3> QED BY <3>1, <3>2
  <2>2. CASE ~ idle
    <3>1. /\ last \in smallest_in_transit..highest_in_transit
          /\ last < highest_in_transit => last = lowest - 1
          /\ kept \in (last + 1)..(highest_in_transit + 1)
          /\ get_current_window' = kept..highest_in_transit
      BY Zenon, <2>2, BoundsKeepWindow
    <3> HIDE DEF lowest, last, kept
    <3> QED BY <1>1, <1>2, <3>1
  <2> QED BY <2>1, <2>2
<1>5. RingExact(ring', received')
  BY DEF CreditInv, buffers
<1> QED BY <1>2, <1>3, <1>4, <1>5 DEF CreditInv

(***************************************************************************)
(* The other steps of the sender.                                          *)
(***************************************************************************)
LEMMA SendKeepsCredit ==
  ASSUME WindowInv, FlowInv, CreditInv,
         SendSourceSymbol \/ \E id \in Ids : AnnounceReceived(id)
  PROVE  CreditInv'
<1>1. max_id \in Nat /\ lowest_considered_id_by_peer \in Nat
      /\ largest_authorized_id_by_peer \in Nat /\ highest_in_transit \in Nat
      /\ smallest_in_transit \in Nat
  BY DEF WindowInv, TypeOK
<1>2. CASE SendSourceSymbol
  <2>1. window_protect_packet_payload(NoDeadline) /\ UNCHANGED buffers
        /\ max_id < largest_authorized_id_by_peer
    BY <1>1, <1>2 DEF SendSourceSymbol, NoDeadline, can_send_new_source_symbol
  <2>2. /\ get_current_window' = get_current_window \cup {max_id + 1}
        /\ max_id' = max_id + 1
        /\ UNCHANGED <<lowest_considered_id_by_peer, largest_authorized_id_by_peer>>
    BY Zenon, <2>1, ProtectKeepsWindow
  <2>3. max_id' <= MaxId /\ max_id' <= largest_authorized_id_by_peer'
    BY <1>1, <2>1, <2>2, SizeAssumption
       DEF window_protect_packet_payload, protect_source_symbol, Ids,
           window_get_next_source_symbol_id
  <2>4. lowest_considered_id_by_peer <= max_id + 1
    BY <1>1 DEF FlowInv, Safe, SafeFor, Larger
  <2>5. \A i \in get_current_window' : i >= lowest_considered_id_by_peer
    BY <2>2, <2>4 DEF CreditInv
  <2>6. RingExact(ring', received')
    BY <2>1 DEF CreditInv, buffers
  <2> QED BY <2>2, <2>3, <2>5, <2>6 DEF CreditInv
<1>3. ASSUME NEW id \in Ids, AnnounceReceived(id) PROVE CreditInv'
  <2>1. packet_has_been_received(id) /\ UNCHANGED buffers
    BY <1>3 DEF AnnounceReceived
  <2>2. UNCHANGED <<max_id, lowest_considered_id_by_peer, largest_authorized_id_by_peer>>
    BY <2>1 DEF packet_has_been_received
  <2>3. \A i \in get_current_window' : i \in get_current_window
    <3>1. CASE PrunesHead(id)
      <4> DEFINE kept == FirstKept(id)
      <4>1. /\ get_current_window' = kept..highest_in_transit
            /\ id = smallest_in_transit /\ ~ is_fec_window_empty
            /\ kept \in (id + 1)..(highest_in_transit + 1)
        BY <2>1, <3>1, LandedKeepsWindow
      <4> HIDE DEF kept
      <4>2. kept..highest_in_transit \subseteq smallest_in_transit..highest_in_transit
        BY <1>1, <4>1
      <4>3. get_current_window = smallest_in_transit..highest_in_transit
        BY Zenon, <4>1 DEF get_current_window
      <4> QED BY Zenon, <4>1, <4>2, <4>3
    <3>2. CASE ~ PrunesHead(id)
      BY <2>1, <3>2, LandedKeepsWindow
    <3> QED BY <3>1, <3>2
  <2>4. RingExact(ring', received')
    BY <2>1 DEF CreditInv, buffers
  <2> QED BY <2>2, <2>3, <2>4 DEF CreditInv
<1> QED BY <1>2, <1>3

(***************************************************************************)
(* At the start the ring is empty and there is no credit.                   *)
(***************************************************************************)
LEMMA InitCredit == FlowInit => CreditInv
<1> SUFFICES ASSUME FlowInit PROVE CreditInv
  OBVIOUS
<1>1. /\ max_id = 0 /\ largest_authorized_id_by_peer = 0 /\ lowest_considered_id_by_peer = 0
      /\ get_current_window = {}
  BY DEF FlowInit, Init, get_current_window, is_fec_window_empty
<1>2. RingExact(ring, received)
  BY DEF FlowInit, RingExact
<1>3. MaxSize \in Nat /\ MaxSize >= 2 /\ MaxId \in Nat
  BY FlowAssumption, RwinAssumption, SizeAssumption
<1> QED BY <1>1, <1>2, <1>3 DEF CreditInv, Larger

(***************************************************************************)
(* Every step of the composition keeps the invariant.                      *)
(***************************************************************************)
LEMMA StepKeepsCredit ==
  WindowInv /\ FlowInv /\ CreditInv /\ [FlowNext]_flow_vars => CreditInv'
<1> SUFFICES ASSUME WindowInv, FlowInv, CreditInv, [FlowNext]_flow_vars
             PROVE  CreditInv'
  OBVIOUS
<1>1. max_id \in Nat /\ get_current_window \subseteq 1..max_id
  BY WindowWasSent
<1>2. MaxSize \in Nat /\ MaxSize >= 2
  BY FlowAssumption, RwinAssumption
<1>3. CASE StartSending
  <2>1. update_window_bounds(0, Smaller(10, InitialSymbols - 1)) /\ UNCHANGED buffers
    BY <1>3 DEF StartSending, connection_state_changed
  <2>2. Smaller(10, InitialSymbols - 1) \in Nat
        /\ Smaller(10, InitialSymbols - 1) <= Larger(1, 0) + MaxSize - 1
    BY <1>2, FlowAssumption, RwinAssumption DEF Smaller, Larger
  <2> QED BY Zenon, <2>1, <2>2, BoundsKeepCredit
<1>4. CASE SendSourceSymbol \/ \E id \in Ids : AnnounceReceived(id)
  BY <1>4, SendKeepsCredit
<1>5. ASSUME NEW k \in 1..MaxFrames, ProcessRwin(k) PROVE CreditInv'
  <2> DEFINE v == rwin_frames[k].smallest_id
  <2>1. k \in 1..Len(rwin_frames) /\ update_window_bounds(v, v + MaxSize - 1) /\ UNCHANGED buffers
    BY <1>5 DEF ProcessRwin, process_window_rwin_frame, FlowInv
  <2>2. v \in Nat
    BY <1>1, <2>1 DEF FlowInv, Safe, SafeFor, Larger
  <2> HIDE DEF v
  <2>3. v + MaxSize - 1 \in Nat /\ v + MaxSize - 1 <= Larger(1, v) + MaxSize - 1
    BY <1>2, <2>2 DEF Larger
  <2> QED BY <2>1, <2>2, <2>3, BoundsKeepCredit
<1>6. ASSUME NEW id \in Ids, DeliverPacket(id) \/ Recover(id) PROVE CreditInv'
  <2>1. id \in 1..max_id /\ window_receive_source_symbol(id) /\ UNCHANGED vars
    BY Zenon, <1>1, <1>6 DEF DeliverPacket, Recover, FlowInv
  <2> QED BY <2>1, ReceiverKeepsCredit
<1>7. CASE \/ \E a, m \in BOOLEAN : reserve_window_rwin_frame_if_needed(a, m)
           \/ \E k \in 1..MaxFrames : window_write_window_rwin_frame(k)
           \/ \E k \in 1..MaxFrames, a \in BOOLEAN : notify_window_rwin_frame(k, a)
           \/ UNCHANGED flow_vars
  <2>1. UNCHANGED vars /\ UNCHANGED buffers
    BY <1>7 DEF reserve_window_rwin_frame_if_needed, window_write_window_rwin_frame, notify_window_rwin_frame,
                flow_vars
  <2> QED BY Zenon, <2>1 DEF CreditInv, vars, buffers, get_current_window, is_fec_window_empty
<1> QED BY Zenon, <1>3, <1>4, <1>5, <1>6, <1>7 DEF FlowNext

(***************************************************************************)
(* For all window sizes, and whatever is lost, late or recovered, the       *)
(* credit the RWIN frames give protects the ring: a symbol of the sending   *)
(* window is found in the ring when it was received and only then, and no   *)
(* symbol in flight can empty it.  How late packets are announced does not  *)
(* matter here.                                                            *)
(***************************************************************************)
THEOREM CreditAlwaysProtectsRing == FlowSpec => []CreditProtectsRing
<1>1. FlowInit => CreditInv
  BY InitCredit
<1>2. (WindowInv /\ FlowInv) /\ CreditInv /\ [FlowNext]_flow_vars => CreditInv'
  BY StepKeepsCredit
<1>3. (WindowInv /\ FlowInv) /\ CreditInv => CreditProtectsRing
  <2> SUFFICES ASSUME WindowInv, FlowInv, CreditInv PROVE CreditProtectsRing
    BY Zenon
  <2> DEFINE low == lowest_considered_id_by_peer
             top == Newest(ring)
             f == ring.first_id
  <2>1. /\ max_id \in Nat /\ low \in Nat /\ get_current_window \subseteq 1..max_id
        /\ max_id <= MaxId /\ max_id <= Larger(1, low) + MaxSize - 1
        /\ MaxSize \in Nat \ {0} /\ IdSpace \in Nat /\ MaxId \in Nat /\ MaxId < IdSpace
        /\ received \subseteq 0..max_id
    <3>1. /\ max_id <= largest_authorized_id_by_peer /\ max_id <= MaxId
          /\ largest_authorized_id_by_peer <= Larger(1, low) + MaxSize - 1
      BY DEF CreditInv
    <3>2. max_id \in Nat /\ low \in Nat /\ largest_authorized_id_by_peer \in Nat
          /\ MaxSize \in Nat \ {0} /\ MaxId \in Nat
      BY FlowAssumption, RwinAssumption, SizeAssumption DEF WindowInv, TypeOK
    <3>3. max_id <= Larger(1, low) + MaxSize - 1
      BY <3>1, <3>2 DEF Larger
    <3> QED BY <3>1, <3>2, <3>3, WindowWasSent, FlowAssumption, RingAssumption DEF FlowInv
  <2>2. CASE received = {0} /\ ring = new_ring_based_source_symbols_buffer
    <3> SUFFICES ASSUME NEW id \in get_current_window
                 PROVE  ~ ring_contains(ring, id) /\ id \notin received
      BY <2>2 DEF CreditProtectsRing
    <3>1. id \in Nat /\ id >= 1 /\ id <= IdSpace - 1
      BY <2>1
    <3>2. /\ ring.first_id = 0 /\ ring.current_size = 0 /\ ring.first_index = 0
          /\ ring.array = [k \in 0..(MaxSize - 1) |-> 0]
      BY <2>2 DEF new_ring_based_source_symbols_buffer, Indices, NULL
    <3>3. IndexOf(ring, id) \in 0..(MaxSize - 1)
      <4>1. IndexOf(ring, id) = (id - 0 + 0) % MaxSize
        BY <3>2 DEF IndexOf
      <4>2. id - 0 + 0 = id
        BY <3>1
      <4> QED BY Zenon, <2>1, <3>1, <4>1, <4>2, ModRange
    <3>4. ring_get(ring, id) = 0
      BY <3>2, <3>3 DEF ring_get, NULL
    <3> QED BY <2>2, <3>1, <3>4 DEF ring_contains
  <2>3. CASE Follows(ring, received)
    <3>1. /\ top \in Nat /\ f \in Nat /\ (f = 1 \/ f = top - (MaxSize - 1))
          /\ get_last_source_symbol_id(ring) = top
          /\ Max(received) = top
          /\ \A i \in f..top : ring_get(ring, i) = IF i \in received THEN i ELSE NULL
      BY <2>1, <2>3, ExactRingAnswers
    <3>2. top \in received /\ \A i \in received : i <= top
      BY Zenon, <2>3 DEF Follows
    <3>3. \A i : ring_get(ring, i) = IF i < f \/ i > top THEN NULL ELSE ring.array[IndexOf(ring, i)]
      BY <3>1 DEF ring_get
    <3>4. ASSUME NEW id \in get_current_window
          PROVE  ring_contains(ring, id) <=> id \in received
      <4> HIDE DEF top, f
      <4>1. id \in 1..max_id /\ id >= low
        BY Zenon, <2>1, <3>4 DEF CreditInv
      <4>2. id >= f
        <5>1. Larger(1, low) \in Nat /\ id \in Nat /\ id >= Larger(1, low)
          BY <2>1, <4>1 DEF Larger
        <5>2. top <= max_id
          BY <2>1, <3>2
        <5>3. top <= Larger(1, low) + MaxSize - 1
          BY <2>1, <3>1, <5>1, <5>2
        <5>4. id >= 1 /\ MaxSize \in Nat
          BY <2>1, <4>1
        <5> QED BY <3>1, <5>1, <5>3, <5>4
      <4>3. ring_get(ring, id) = IF id \in received THEN id ELSE NULL
        <5>1. CASE id <= top
          <6>1. id \in f..top
            BY <2>1, <3>1, <4>1, <4>2, <5>1
          <6> QED BY Zenon, <3>1, <6>1
        <5>2. CASE ~ (id <= top)
          <6>1. id > top /\ id \notin received
            BY <2>1, <3>1, <3>2, <4>1, <5>2
          <6> QED BY Zenon, <3>3, <6>1
        <5> QED BY Zenon, <5>1, <5>2
      <4> QED BY <4>1, <4>3 DEF ring_contains, NULL
    <3>5. ASSUME NEW id \in packets PROVE id < Max(received) + MaxSize
      <4>1. id \in 1..max_id
        BY DEF FlowInv
      <4> QED BY <2>3, <3>1, <4>1, SentFitsInRing
    <3> QED BY Zenon, <3>4, <3>5 DEF CreditProtectsRing
  <2> QED BY <2>2, <2>3 DEF CreditInv, RingExact
<1> QED BY <1>1, <1>2, <1>3, FlowAlwaysInv, PTL DEF FlowSpec
=============================================================================
