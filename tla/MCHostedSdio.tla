---------------------------- MODULE MCHostedSdio ----------------------------
(* Small instances of HostedSdio for TLC.  Sizes are in units of about a   *)
(* third of frame_buf: a full network frame is 2 units, frame_buf 3.       *)
EXTENDS HostedSdio

K(size, valid) == [size |-> size, valid |-> valid]

SmallFrame == K(1, TRUE)
FullFrame == K(2, TRUE)
HugeFrame == K(4, TRUE)
BadFrame == K(1, FALSE)

RxMixed == {SmallFrame, FullFrame, HugeFrame, BadFrame}
RxPlain == {SmallFrame, FullFrame}

(* A network frame that fills two of the slave's buffers, and a request    *)
(* that fills one.                                                         *)
TxMixed == {[data |-> TRUE, len |-> 4], [data |-> FALSE, len |-> 3]}

Pin == {TRUE}
PinOrNone == BOOLEAN

AllFaults == Transfer
OtherFaults == Transfer \ {"raw", "len", "data", "drain", "data_late", "drain_late", "write_late"}
=============================================================================
