------------------------------ MODULE MCStreams ------------------------------
(***************************************************************************)
(* The streams of a client and a server: two streams with losses and splits,*)
(* two that share little credit, and the calls of the applications.         *)
(***************************************************************************)
EXTENDS Streams

VARIABLES part, lossy_snd, lossy_snd_cnx, lossy_rcv, lossy_rcv_cnx, lossy_packets, lossy_queue,
    lossy_rtx_frames, lossy_arrived, lossy_losses, lossy_control, credit_snd, credit_snd_cnx,
    credit_rcv, credit_rcv_cnx, credit_packets, credit_queue, credit_rtx_frames, credit_arrived,
    credit_losses, credit_control, polled_snd, polled_snd_cnx, polled_rcv, polled_rcv_cnx,
    polled_packets, polled_queue, polled_rtx_frames, polled_arrived, polled_losses, polled_control

Lossy == INSTANCE Streams WITH
    Ids <- {2}, MaxBytes <- 4, MaxRoom <- 3, MinRoom <- 1,
    MaxLosses <- 2, MaxPackets <- 5, InitialMaxData <- 9, InitialMaxStreamData <- 9,
    ReceiveWindow <- 9, Calls <- {}, snd <- lossy_snd, snd_cnx <- lossy_snd_cnx, rcv <- lossy_rcv,
    rcv_cnx <- lossy_rcv_cnx, packets <- lossy_packets, queue <- lossy_queue,
    rtx_frames <- lossy_rtx_frames, arrived <- lossy_arrived, losses <- lossy_losses,
    control <- lossy_control

Credit == INSTANCE Streams WITH
    Ids <- {2, 6}, MaxBytes <- 2, MaxRoom <- 2, MinRoom <- 1,
    MaxLosses <- 0, MaxPackets <- 3, InitialMaxData <- 1, InitialMaxStreamData <- 2,
    ReceiveWindow <- 2, Calls <- {"reset"}, snd <- credit_snd, snd_cnx <- credit_snd_cnx,
    rcv <- credit_rcv, rcv_cnx <- credit_rcv_cnx, packets <- credit_packets, queue <- credit_queue,
    rtx_frames <- credit_rtx_frames, arrived <- credit_arrived, losses <- credit_losses,
    control <- credit_control

Polled == INSTANCE Streams WITH
    Ids <- {2}, MaxBytes <- 2, MaxRoom <- 2, MinRoom <- 1,
    MaxLosses <- 1, MaxPackets <- 4, InitialMaxData <- 2, InitialMaxStreamData <- 1,
    ReceiveWindow <- 2, Calls <- {"active", "stop"}, snd <- polled_snd, snd_cnx <- polled_snd_cnx,
    rcv <- polled_rcv, rcv_cnx <- polled_rcv_cnx, packets <- polled_packets, queue <- polled_queue,
    rtx_frames <- polled_rtx_frames, arrived <- polled_arrived, losses <- polled_losses,
    control <- polled_control

BothVars == <<snd, snd_cnx, rcv, rcv_cnx, packets, queue, rtx_frames, arrived, losses, control>>
LossyVars == <<lossy_snd, lossy_snd_cnx, lossy_rcv, lossy_rcv_cnx, lossy_packets, lossy_queue,
    lossy_rtx_frames, lossy_arrived, lossy_losses, lossy_control>>
CreditVars == <<credit_snd, credit_snd_cnx, credit_rcv, credit_rcv_cnx, credit_packets, credit_queue,
    credit_rtx_frames, credit_arrived, credit_losses, credit_control>>
PolledVars == <<polled_snd, polled_snd_cnx, polled_rcv, polled_rcv_cnx, polled_packets, polled_queue,
    polled_rtx_frames, polled_arrived, polled_losses, polled_control>>

\* The parts that are not in play keep this value.
Idle == 0

BothIdle == Init
LossyIdle == lossy_snd = Idle /\ lossy_snd_cnx = Idle /\ lossy_rcv = Idle /\ lossy_rcv_cnx = Idle
    /\ lossy_packets = Idle /\ lossy_queue = Idle /\ lossy_rtx_frames = Idle
    /\ lossy_arrived = Idle /\ lossy_losses = Idle /\ lossy_control = Idle
CreditIdle == credit_snd = Idle /\ credit_snd_cnx = Idle /\ credit_rcv = Idle
    /\ credit_rcv_cnx = Idle /\ credit_packets = Idle /\ credit_queue = Idle
    /\ credit_rtx_frames = Idle /\ credit_arrived = Idle /\ credit_losses = Idle
    /\ credit_control = Idle
PolledIdle == polled_snd = Idle /\ polled_snd_cnx = Idle /\ polled_rcv = Idle
    /\ polled_rcv_cnx = Idle /\ polled_packets = Idle /\ polled_queue = Idle
    /\ polled_rtx_frames = Idle /\ polled_arrived = Idle /\ polled_losses = Idle
    /\ polled_control = Idle

\* One part is in play in each behaviour.
MCInit ==
  \/ part = "both" /\ Init /\ LossyIdle /\ CreditIdle /\ PolledIdle
  \/ part = "lossy" /\ Lossy!Init /\ BothIdle /\ CreditIdle /\ PolledIdle
  \/ part = "credit" /\ Credit!Init /\ BothIdle /\ LossyIdle /\ PolledIdle
  \/ part = "polled" /\ Polled!Init /\ BothIdle /\ LossyIdle /\ CreditIdle

MCNext ==
  \/ part = "both" /\ Next /\ UNCHANGED <<part, LossyVars, CreditVars, PolledVars>>
  \/ part = "lossy" /\ Lossy!Next /\ UNCHANGED <<part, BothVars, CreditVars, PolledVars>>
  \/ part = "credit" /\ Credit!Next /\ UNCHANGED <<part, BothVars, LossyVars, PolledVars>>
  \/ part = "polled" /\ Polled!Next /\ UNCHANGED <<part, BothVars, LossyVars, CreditVars>>

MCVars == <<part, BothVars, LossyVars, CreditVars, PolledVars>>

MCSpec == MCInit /\ [][MCNext]_MCVars

\* The same of a longer stream, and of streams that wait for credit, are reset, stopped or polled: the bytes are in
\* order, none is lost, the end is announced at the end, and a peer that keeps to its credit causes no error.
StreamsAreSound ==
  /\ part = "lossy" =>
       Lossy!BlocksAreInOrder /\ Lossy!NothingIsLost /\ Lossy!EndIsTheEnd /\ Lossy!NoErrorIsRaised
  /\ part = "credit" =>
       Credit!BlocksAreInOrder /\ Credit!NothingIsLost /\ Credit!EndIsTheEnd /\ Credit!NoErrorIsRaised
  /\ part = "polled" =>
       Polled!BlocksAreInOrder /\ Polled!NothingIsLost /\ Polled!EndIsTheEnd /\ Polled!NoErrorIsRaised

=============================================================================
