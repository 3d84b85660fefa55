------------------------------ MODULE MCReports ------------------------------
(***************************************************************************)
(* The RECOVERED frames of the FEC receiver, the core's timers and its strea*)
(* what was rebuilt is reported, a silent peer is given up, and an ended str*)
(* is delivered.                                                            *)
(***************************************************************************)
EXTENDS RecoveredFrames

VARIABLES part, timer_now, timer_message, timer_queue, timer_retransmitted, timer_acked, timer_path,
    timer_reno, timer_latest_progress_time, timer_wake, timer_disconnected, timer_acks, stream_snd,
    stream_snd_cnx, stream_rcv, stream_rcv_cnx, stream_packets, stream_queue, stream_rtx_frames,
    stream_arrived, stream_losses, stream_control

Timer == INSTANCE LossRecovery WITH
    InitialRtt <- 2, InitialTimer <- 4, MinTimer <- 1,
    RackDelay <- 1, Second <- 4, Silence <- 60, MaxRetransmits <- 3, CwinInitial <- 3,
    CwinMinimum <- 2, MaxMessages <- 4, MaxTime <- 180, MaxAcks <- 2, LongestRtt <- 3,
    now <- timer_now, message <- timer_message, queue <- timer_queue,
    retransmitted <- timer_retransmitted, acked <- timer_acked, path <- timer_path, reno <- timer_reno,
    latest_progress_time <- timer_latest_progress_time, wake <- timer_wake,
    disconnected <- timer_disconnected, acks <- timer_acks

Stream == INSTANCE Streams WITH
    Ids <- {2}, MaxBytes <- 3, MaxRoom <- 2, MinRoom <- 1,
    MaxLosses <- 1, MaxPackets <- 6, InitialMaxData <- 2, InitialMaxStreamData <- 1,
    ReceiveWindow <- 2, Calls <- {}, snd <- stream_snd, snd_cnx <- stream_snd_cnx, rcv <- stream_rcv,
    rcv_cnx <- stream_rcv_cnx, packets <- stream_packets, queue <- stream_queue,
    rtx_frames <- stream_rtx_frames, arrived <- stream_arrived, losses <- stream_losses,
    control <- stream_control

ReportVars == <<recovered_packets, n_reserved_recovered_frames, n_recovered_frames_in_flight, queued,
    flight, reported, rebuilt, losses>>
TimerVars == <<timer_now, timer_message, timer_queue, timer_retransmitted, timer_acked, timer_path,
    timer_reno, timer_latest_progress_time, timer_wake, timer_disconnected, timer_acks>>
StreamVars == <<stream_snd, stream_snd_cnx, stream_rcv, stream_rcv_cnx, stream_packets, stream_queue,
    stream_rtx_frames, stream_arrived, stream_losses, stream_control>>

ReportIdle == Init
TimerIdle == Timer!Init
StreamIdle == Stream!Init

\* One part is in play in each behaviour.
MCInit ==
  \/ part = "report" /\ Init /\ TimerIdle /\ StreamIdle
  \/ part = "timer" /\ Timer!Init /\ ReportIdle /\ StreamIdle
  \/ part = "stream" /\ Stream!Init /\ ReportIdle /\ TimerIdle

MCNext ==
  \/ part = "report" /\ Next /\ UNCHANGED <<part, TimerVars, StreamVars>>
  \/ part = "timer" /\ Timer!Next /\ UNCHANGED <<part, ReportVars, StreamVars>>
  \/ part = "stream" /\ Stream!Next /\ UNCHANGED <<part, ReportVars, TimerVars>>

MCVars == <<part, ReportVars, TimerVars, StreamVars>>

MCSpec == MCInit /\ [][MCNext]_MCVars

\* The fairness of each specification, for the part in play.
InReport(A) == part = "report" /\ A /\ UNCHANGED <<part, TimerVars, StreamVars>>
InTimer(A) == part = "timer" /\ A /\ UNCHANGED <<part, ReportVars, StreamVars>>
InStream(A) == part = "stream" /\ A /\ UNCHANGED <<part, ReportVars, TimerVars>>
MCFairness ==
  /\ WF_MCVars(InReport(write_recovered_frame))
  /\ WF_MCVars(InReport(\E k \in DOMAIN flight : Arrive(k)))
  /\ WF_MCVars(InReport(\E k \in DOMAIN flight : Acknowledge(k)))
  /\ WF_MCVars(InTimer(Timer!Tick))
  /\ WF_MCVars(InTimer(Timer!prepare_packet))
  /\ WF_MCVars(InStream(Stream!prepare_stream_frame))
  /\ WF_MCVars(InStream(Stream!write_rtx_frame))
  /\ WF_MCVars(InStream(Stream!prepare_server_packet))
  /\ WF_MCVars(InStream(\E n \in stream_queue \ stream_arrived : Stream!Arrive(n)))
  /\ WF_MCVars(InStream(\E f \in stream_control :
        Stream!process_max_data_frame(f) \/ Stream!process_max_stream_data_frame(f)))

MCFairSpec == MCSpec /\ MCFairness

\* A connection wakes in time for what it waits for and gives a peer up only after the retransmissions it owes it.
\* Its window keeps its minimum and grows by no more than acknowledgements pay for.
TimersAreSound == part = "timer" => Timer!WakesInTime /\ Timer!GivenUpIsDeserved /\ Timer!WindowIsSane

\* A peer that answers no more is given up: repetitions do not go on for ever.
SilentPeerIsGivenUp == part = "timer" => Timer!SilentPeerIsGivenUp

\* A stream that was ended is delivered to its end, through windows smaller
\* than the stream, losses and splits, unless it is reset.
EndedStreamIsDelivered == part = "stream" => Stream!EndedStreamIsDelivered

=============================================================================
