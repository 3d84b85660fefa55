--------------------------- MODULE RecoveredWire ---------------------------
(***************************************************************************)
(* The RECOVERED frame on the wire.  The receiver lists the packets it     *)
(* rebuilt, with the first source symbol of each, as two blocks of the     *)
(* same format: how many numbers, the first one, then alternately the      *)
(* length of a streak of consecutive numbers and the length of a gap       *)
(* (window_framework/types.h).  The frame is filled until its estimated    *)
(* size reaches the reserved bytes (window_framework/framework_receiver.h).*)
(*                                                                         *)
(* A frame is a sequence of numbers, one per field; their sizes in bytes   *)
(* are modelled where the code computes with them.  Packets are numbered   *)
(* 1, 2, ... in the order they are sent, and the protected ones hold one   *)
(* source symbol each, numbered 1, 2, ... in the same order.               *)
(***************************************************************************)
EXTENDS Integers, Sequences, FiniteSets, SequencesExt

CONSTANTS
    MaxPn,      \* how many packets are sent
    MaxBytes,   \* the bytes reserved for a frame: 1000 in the code
    OneByte,    \* the numbers below this one take one byte as a varint: 64
    Longest     \* the bytes of the longest varint: 8

VARIABLES
    isProtected,  \* isProtected[pn]: is packet pn FEC-protected?
    recovered     \* the packet numbers in wff->recovered_packets

vars == <<isProtected, recovered>>

Sent == 1 .. Len(isProtected)

\* The source symbol that a protected packet holds.
IdOf(pn) == Cardinality({q \in 1 .. pn : isProtected[q]})

\* Numbers of the model need two bytes at most.
varint_len(v) == IF v < OneByte THEN 1 ELSE 2

-----------------------------------------------------------------------------
(* Writing: serialize_packet_ranges and serialize_window_recovered_frame.   *)

\* A run of the loop over the numbers, from the second on.
Indices(nums) == [i \in 1 .. Len(nums) - 1 |-> i + 1]

\* Mutant: the gap after a streak counted as the difference of the numbers.
serialize_packet_ranges_WideGap(nums) ==
    LET last == FoldLeft(
            LAMBDA acc, i :
                IF nums[i] = nums[i - 1] + 1
                THEN [acc EXCEPT !.streak = @ + 1]
                ELSE [fields |-> acc.fields \o <<acc.streak, nums[i] - nums[i - 1]>>,
                      streak |-> 0],
            [fields |-> <<Len(nums), nums[1]>>, streak |-> 0],
            Indices(nums))
    IN  IF last.streak > 0 THEN Append(last.fields, last.streak) ELSE last.fields

serialize_packet_ranges(nums) ==
    LET last == FoldLeft(
            LAMBDA acc, i :
                IF nums[i] = nums[i - 1] + 1
                THEN [acc EXCEPT !.streak = @ + 1]
                ELSE [fields |-> acc.fields \o <<acc.streak, nums[i] - nums[i - 1] - 1>>,
                      streak |-> 0],
            [fields |-> <<Len(nums), nums[1]>>, streak |-> 0],
            Indices(nums))
    IN  IF last.streak > 0 THEN Append(last.fields, last.streak) ELSE last.fields

\* The first number of a block always takes the longest form.
BytesOf(block) ==
    FoldLeft(LAMBDA n, f : n + varint_len(f), Longest + varint_len(block[1]),
             SubSeq(block, 3, Len(block)))

serialize_window_recovered_frame(frame) ==
    serialize_packet_ranges(frame.pns) \o serialize_packet_ranges(frame.ids)

-----------------------------------------------------------------------------
(* Filling: range_add keeps an upper bound of the size of a block.          *)

range_handler_init == [size |-> Longest + Longest, range |-> 0, rangeSize |-> 1, last |-> -1]

range_add(h, val) ==
    IF h.last = -1
    THEN [h EXCEPT !.size = @ + Longest, !.last = val]
    ELSE IF val \in {h.last, h.last + 1}
    THEN LET newSize == varint_len(h.range + 1)
         IN  [size |-> h.size + newSize - h.rangeSize, range |-> h.range + 1,
              rangeSize |-> newSize, last |-> val]
    ELSE [size |-> h.size + varint_len(h.range) + varint_len(val - h.last - 1),
          range |-> 0, rangeSize |-> 1, last |-> val]

\* The packets are taken in increasing order until the frame is full; range_add
\* refuses a number below the previous one, which is an error, like a
\* reservation too small for an empty frame.
fill_recovered_frame(packets) ==
    LET add(acc, pn) ==
            LET hp == range_add(acc.hp, pn)
                hi == range_add(acc.hi, IdOf(pn))
            IN  IF acc.err \/ acc.full THEN acc
                ELSE IF MaxBytes <= acc.hp.size + acc.hi.size + 1
                THEN [acc EXCEPT !.full = TRUE]
                ELSE IF pn < acc.hp.last \/ IdOf(pn) < acc.hi.last
                THEN [acc EXCEPT !.err = TRUE]
                ELSE IF MaxBytes < hp.size + hi.size + 1
                THEN [acc EXCEPT !.full = TRUE]
                ELSE [acc EXCEPT !.pns = Append(@, pn), !.ids = Append(@, IdOf(pn)),
                                 !.hp = hp, !.hi = hi]
        done == FoldLeft(add, [pns |-> <<>>, ids |-> <<>>, hp |-> range_handler_init,
                               hi |-> range_handler_init, full |-> FALSE,
                               err |-> MaxBytes < 2 * range_handler_init.size],
                         SelectSeq([k \in Sent |-> k], LAMBDA pn : pn \in packets))
    IN  [pns |-> done.pns, ids |-> done.ids, err |-> done.err]

-----------------------------------------------------------------------------
(* Reading: parse_packets_range, parse_ids_range.                           *)

\* The ranges of one block at the start of `fields', and how many fields it
\* took.  After a streak comes a gap, which also announces the number after it.
parse_packets_range(fields) ==
    LET n == fields[1]
        step(acc, f) ==
            IF acc.parsed >= n \/ acc.err THEN acc
            ELSE IF ~acc.gap
            THEN IF acc.parsed + f > n
                 THEN [acc EXCEPT !.err = TRUE]
                 ELSE [ranges |-> [acc.ranges EXCEPT ![Len(acc.ranges)].n = @ + f],
                       parsed |-> acc.parsed + f, next |-> acc.next + f, gap |-> TRUE,
                       used |-> acc.used + 1, err |-> FALSE]
            ELSE [ranges |-> Append(acc.ranges, [pn |-> acc.next + f, n |-> 1]),
                  parsed |-> acc.parsed + 1, next |-> acc.next + f + 1, gap |-> FALSE,
                  used |-> acc.used + 1, err |-> FALSE]
        Block(done) == [ranges |-> done.ranges, used |-> done.used,
                        err |-> done.err \/ done.parsed # n]
    IN  Block(FoldLeft(step,
                    [ranges |-> <<[pn |-> fields[2], n |-> 1]>>, parsed |-> 1,
                     next |-> fields[2] + 1, gap |-> FALSE, used |-> 2, err |-> FALSE],
                    SubSeq(fields, 3, Len(fields))))

\* The ids of the packet ranges, read from the id ranges in the same order.
\* The start of the next one inside an id range is computed from the start of
\* that id range and the length of the packet range just read.  `split' notes
\* that an id range ended inside a packet range.
IdsOfRanges(ids64, ranges) ==
    LET step(acc, r) ==
            IF acc.idx > Len(ids64) THEN [acc EXCEPT !.ids = Append(@, 0)]
            ELSE LET left == acc.left - r.n
                     idx  == IF left = 0 THEN acc.idx + 1 ELSE acc.idx
                     new  == left = 0 /\ idx <= Len(ids64)
                 IN  [ids   |-> Append(acc.ids, acc.start),
                      idx   |-> idx,
                      start |-> IF new THEN ids64[idx].pn ELSE ids64[acc.idx].pn + r.n,
                      left  |-> IF new THEN ids64[idx].n ELSE left,
                      split |-> acc.split \/ left < 0]
    IN  FoldLeft(step, [ids |-> <<>>, idx |-> 1, start |-> ids64[1].pn,
                        left |-> ids64[1].n, split |-> FALSE], ranges)

parse_ids_range(fields, ranges) ==
    LET Walked(block, done) ==
            [ids |-> done.ids, split |-> done.split, used |-> block.used,
             err |-> block.err \/ Len(block.ranges) > Len(ranges)]
        Ids(block) == Walked(block, IdsOfRanges(block.ranges, ranges))
    IN  Ids(parse_packets_range(fields))

parse_window_recovered_frame(fields) ==
    LET Frame(packets, symbols) ==
            [ranges |-> packets.ranges, ids |-> symbols.ids, split |-> symbols.split,
             used |-> packets.used + symbols.used, err |-> packets.err \/ symbols.err]
        Packets(packets) ==
            Frame(packets, parse_ids_range(SubSeq(fields, packets.used + 1, Len(fields)), packets.ranges))
    IN  Packets(parse_packets_range(fields))

-----------------------------------------------------------------------------
Init == isProtected = <<>> /\ recovered = {}

\* The peer sends a packet, FEC-protected or not (a packet that carries repair
\* frames or acknowledgements only is not).
Send(b) ==
    /\ Len(isProtected) < MaxPn
    /\ isProtected' = Append(isProtected, b)
    /\ UNCHANGED recovered

\* A protected packet that was lost is rebuilt.
Recover(pn) ==
    /\ isProtected[pn] /\ pn \notin recovered
    /\ recovered' = recovered \cup {pn}
    /\ UNCHANGED isProtected

Next ==
    \/ \E b \in BOOLEAN : Send(b)
    \/ \E pn \in Sent : Recover(pn)

Spec == Init /\ [][Next]_vars

-----------------------------------------------------------------------------
(* What the frame written in a state says to the peer.                      *)

Written == fill_recovered_frame(recovered)
Read    == parse_window_recovered_frame(serialize_window_recovered_frame(Written))

PacketsOf(ranges) == UNION {r.pn .. (r.pn + r.n - 1) : r \in {ranges[k] : k \in DOMAIN ranges}}

\* Whatever was recovered, the frame that window_write_recovered_frame.c builds
\* is accepted by parse_window_recovered_frame to its last field, and names the
\* packets it was filled with and no others, although the length of the packet
\* block is nowhere in the frame and a last streak of length 0 is left out.
RecoveredFrameIsUnderstood ==
    recovered # {} =>
        \E written \in {Written} : \E read \in {Read} :
            /\ ~written.err /\ ~read.err
            /\ read.used = Len(serialize_window_recovered_frame(written))
            /\ PacketsOf(read.ranges) = {written.pns[k] : k \in DOMAIN written.pns}

\* The frame never outgrows the bytes it was reserved for: scheduler_write_new_frames
\* (sender.c) erases a frame that wrote more than nb_bytes.  The size that
\* range_add estimates bounds the size of what is written.
RecoveredFrameFits ==
    \E written \in {Written} :
        written.pns # <<>> =>
            1 + BytesOf(serialize_packet_ranges(written.pns))
              + BytesOf(serialize_packet_ranges(written.ids)) <= MaxBytes

\* What parse_ids_range relies on (types.h:661): an id range never ends inside
\* a packet range, since consecutive packets hold consecutive symbols.
IdRangesCoverPacketRanges == recovered # {} => ~Read.split

\* The ids are encoded and decoded like the packet numbers (types.h:512 and 640):
\* every packet range is read with the id of its first packet.
IdsSurviveTheWire ==
    recovered # {} =>
        \E read \in {Read} : \A k \in DOMAIN read.ranges : read.ids[k] = IdOf(read.ranges[k].pn)
=============================================================================
