---------------------------- MODULE SectorDevice ----------------------------
(***************************************************************************)
(* What sdFat32.c expects of a card driver, behind SDFAT32_SD_READ_SECTOR  *)
(* and SDFAT32_SD_WRITE_SECTOR: a read that succeeds returns the sector, a *)
(* write that succeeds has stored it.  A write that fails has stored it,   *)
(* or has not, or may still do so until the next success.                  *)
(***************************************************************************)
CONSTANTS Lba, Value

Read == [op : {"read"}, lba : Lba]
Write == [op : {"write"}, lba : Lba, val : Value]
NoCall == [op |-> "none"]

Failed == [ok |-> FALSE]
Done == [ok |-> TRUE]
Data(v) == [ok |-> TRUE, val |-> v]

VARIABLES
    cells,      \* cells[a]: the sector at address a
    doubt,      \* writes that may take effect at any time
    call,       \* the call in progress
    result      \* what the last call returned

vars == <<cells, doubt, call, result>>

Init ==
    /\ cells \in [Lba -> Value]
    /\ doubt = {}
    /\ call = NoCall
    /\ result = Failed

Begin(c) ==
    /\ call = NoCall
    /\ call' = c
    /\ doubt' = IF c \in Write THEN doubt \cup {c} ELSE doubt
    /\ UNCHANGED <<cells, result>>

(* A write in doubt takes effect.                                          *)
Land(d) ==
    /\ cells' = [cells EXCEPT ![d.lba] = d.val]
    /\ doubt' \in {doubt, doubt \ {d}}
    /\ UNCHANGED <<call, result>>

(* A write in doubt turns out not to take effect.                          *)
Forget ==
    /\ doubt' \subseteq doubt
    /\ call \in doubt => call \in doubt'
    /\ UNCHANGED <<cells, call, result>>

Succeed ==
    /\ \/ call \in Read /\ result' = Data(cells[call.lba])
       \/ call \in Write /\ cells[call.lba] = call.val /\ result' = Done
    /\ doubt' = {}
    /\ call' = NoCall
    /\ UNCHANGED cells

Fail ==
    /\ doubt' \subseteq doubt
    /\ call' = NoCall
    /\ result' = Failed
    /\ UNCHANGED cells

Next ==
    \/ \E c \in Read \cup Write : Begin(c)
    \/ \E d \in doubt : Land(d)
    \/ Forget
    \/ Succeed
    \/ Fail

Spec == Init /\ [][Next]_vars
=============================================================================
