---------------------------- MODULE MCHostedQueue ---------------------------
(* A small instance of HostedQueue for TLC.                                *)
EXTENDS HostedQueue

F(if_type, hci, first, len) ==
    [if_type |-> if_type, hci |-> hci, first |-> first, len |-> len]

(* A network frame, an HCI event in H4 form, an H4 header without a body,  *)
(* which no client gets, and a frame that is too long.                     *)
MCFrame == {F("STA", "NONE", "NONE", 2), F("HCI", "NONE", "EVT", 2), F("HCI", "NONE", "EVT", 1),
            F("STA", "NONE", "NONE", 3)}

MCClient == {"lwip", "ble_evt"}
=============================================================================
