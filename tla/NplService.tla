----------------------------- MODULE NplService -----------------------------
(***************************************************************************)
(* What NimBLE expects of its porting layer: event queues that hold each   *)
(* event at most once, in the order they were put, and callouts that put   *)
(* their event when their time has come and not before, earlier ones       *)
(* first.  BleNpl implements it with linked lists and 32-bit times.        *)
(***************************************************************************)
EXTENDS Integers, Sequences, SequencesExt

CONSTANTS Queue, Plain, Callout, Home, Never

Event == Plain \cup Callout

VARIABLES
    fifo,       \* fifo[q]: the events in queue q
    left        \* left[c]: the ticks until callout c is due, or Never

vars == <<fifo, left>>

Init ==
    /\ fifo = [q \in Queue |-> <<>>]
    /\ left = [c \in Callout |-> Never]

(* s without e, which stands on it once if at all.                         *)
Without(s, e) ==
    IF Contains(s, e) THEN RemoveAt(s, CHOOSE i \in DOMAIN s : s[i] = e) ELSE s

Queued(e) == \E q \in Queue : Contains(fifo[q], e)

Put(q, e) ==
    /\ ~Queued(e)
    /\ fifo' = [fifo EXCEPT ![q] = Append(@, e)]
    /\ UNCHANGED left

TakeOut(q, e) ==
    /\ fifo' = [fifo EXCEPT ![q] = Without(@, e)]
    /\ UNCHANGED left

Set(c, t) ==
    /\ left' = [left EXCEPT ![c] = t]
    /\ UNCHANGED fifo

(* A callout and its event disappear together.                             *)
Forget(c) ==
    /\ left' = [left EXCEPT ![c] = Never]
    /\ fifo' = [q \in Queue |-> Without(fifo[q], c)]

Due == {c \in Callout : left[c] # Never /\ left[c] <= 0}

(* The callout that is longest overdue expires; an event that waits in a   *)
(* queue already stays where it is.                                        *)
Expire(c) ==
    /\ c \in Due
    /\ \A d \in Due : left[c] <= left[d]
    /\ left' = [left EXCEPT ![c] = Never]
    /\ fifo' = IF Queued(c) THEN fifo ELSE [fifo EXCEPT ![Home[c]] = Append(@, c)]

(* Events are handed out when no callout is due.                           *)
Get(q) ==
    /\ Due = {}
    /\ fifo[q] # <<>>
    /\ fifo' = [fifo EXCEPT ![q] = Tail(@)]
    /\ UNCHANGED left

Tick ==
    /\ left' = [c \in Callout |-> IF left[c] = Never THEN Never ELSE left[c] - 1]
    /\ UNCHANGED fifo

Next ==
    \/ \E q \in Queue, e \in Event : Put(q, e) \/ TakeOut(q, e)
    \/ \E c \in Callout : Set(c, Never) \/ Forget(c) \/ Expire(c)
    \/ \E c \in Callout, t \in 0 .. Never - 1 : Set(c, t)
    \/ \E q \in Queue : Get(q)
    \/ Tick

Spec == Init /\ [][Next]_vars
=============================================================================
