----------------------------- MODULE HostedFifo -----------------------------
(***************************************************************************)
(* What the receive side of esp_hosted.c promises its clients, without the *)
(* ring buffer, the call stack or the callbacks: a bounded FIFO that exists*)
(* while the stack is up, refuses the newest frame when it is full and     *)
(* counts the refusal, hands frames out oldest first, and is emptied by    *)
(* esp_hosted_init and esp_hosted_deinit.                                  *)
(***************************************************************************)
EXTENDS Naturals, Sequences

CONSTANTS
    Packet,     \* the packets a transport may submit
    Depth       \* ESP_HOSTED_RX_QUEUE_DEPTH

VARIABLES
    up,         \* between esp_hosted_init and esp_hosted_deinit
    queue,      \* accepted packets, oldest first
    dropped,    \* packets refused since the stack came up
    out         \* the packet handed out last

vars == <<up, queue, dropped, out>>

Init ==
    /\ up = FALSE
    /\ queue = <<>>
    /\ dropped = 0
    /\ out \in Packet

Accept(p) ==
    /\ up
    /\ Len(queue) < Depth
    /\ queue' = Append(queue, p)
    /\ UNCHANGED <<up, dropped, out>>

Refuse ==
    /\ up
    /\ Len(queue) = Depth
    /\ dropped' = dropped + 1
    /\ UNCHANGED <<up, queue, out>>

HandOut ==
    /\ up
    /\ queue # <<>>
    /\ out' = Head(queue)
    /\ queue' = Tail(queue)
    /\ UNCHANGED <<up, dropped>>

Restart ==
    /\ up' \in BOOLEAN
    /\ queue' = <<>>
    /\ dropped' = 0
    /\ UNCHANGED out

Next ==
    \/ \E p \in Packet : Accept(p)
    \/ Refuse
    \/ HandOut
    \/ Restart

Spec == Init /\ [][Next]_vars
=============================================================================
