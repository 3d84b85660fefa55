----------------------------- MODULE SackLists ------------------------------
(***************************************************************************)
(* The acknowledged bytes of one stream, kept in a list of ranges.  Each    *)
(* acknowledged STREAM frame is recorded; before a frame of a lost packet   *)
(* is sent again the list is asked whether its bytes are acknowledged.      *)
(***************************************************************************)
EXTENDS Sacks

CONSTANTS
  StreamLengths,            \* the lengths of the streams looked at
  Wrap                      \* 2^64 in the code

VARIABLES
  length,                   \* number of bytes of the stream, after which comes its FIN
  sack,                     \* first_sack_item of the stream
  acked,                    \* history: acknowledged bytes
  fin_acked                 \* history: a frame with the FIN was acknowledged

vars == <<length, sack, acked, fin_acked>>

Init ==
  /\ length \in StreamLengths
  /\ sack = <<>> /\ acked = {} /\ fin_acked = FALSE

\* frames with data, and the one without that carries a late FIN
Frames == {f \in (0..length) \X (0..length) : f[1] + f[2] <= length /\ (f[2] = 0 => f[1] = length)}

\* update_sack_list of the bytes offset to offset + data_length - 1
process_ack_of_stream_frame(offset, data_length, fin) ==
  /\ fin => offset + data_length = length
  /\ data_length = 0 => fin
  /\ sack' = update_sack_list(sack, offset, (offset + data_length - 1) % Wrap).list
  /\ acked' = acked \cup (offset..(offset + data_length - 1))
  /\ fin_acked' = (fin_acked \/ fin)
  /\ UNCHANGED length

already_acked_Exact(offset, data_length) ==
  ~ check_sack_list(sack, offset, offset + data_length - 1)

\* check_stream_frame_already_acked, for a stream that was not reset
already_acked(offset, data_length) == ~ check_sack_list(sack, offset, offset + data_length)

Next == \E f \in Frames, fin \in BOOLEAN : process_ack_of_stream_frame(f[1], f[2], fin)
Spec == Init /\ [][Next]_vars

-----------------------------------------------------------------------------
\* update_sack_list, whatever the order and the overlap of the frames, records
\* the acknowledged bytes and no other, a FIN without data included.
SackListIsExact == Covered(sack) \cap 0..(length - 1) = acked

\* check_sack_list is the question it stands for: 0 when some number of the
\* range is missing from the list.
CheckAnswersForTheSet ==
  \A lo \in 0..length : \A hi \in lo..length :
     check_sack_list(sack, lo, hi) <=> ~ (lo..hi \subseteq Covered(sack))

\* A list read as packet numbers and written into an ACK frame is read back
\* without change, down to the ranges that still fit.
AckFrameIsReadBack ==
  LET l == SelectSeq(sack, LAMBDA item : item.start <= item.end)
  IN l # <<>> => AckRanges(AckFrame(l)) = SubSeq(l, 1, Min({Len(l), MaxAckBlocks + 1}))

\* A FIN is never dropped from a retransmission before it is acknowledged.
FinIsRepeated ==
  ~ fin_acked => \A f \in Frames : f[1] + f[2] = length => ~ already_acked(f[1], f[2])

\* sender.c: "Check whether the data was already acked, which may happen in
\* case of spurious retransmissions".  A frame of acknowledged bytes is not
\* sent again.
AckedIsNotRepeated ==
  \A f \in Frames : f[2] > 0 /\ f[1]..(f[1] + f[2] - 1) \subseteq acked => already_acked(f[1], f[2])
=============================================================================
