------------------------------- MODULE BleNpl -------------------------------
(***************************************************************************)
(* drivers/ble_nimble/ble_npl_baremetal.c: event queues and callouts for   *)
(* NimBLE without an operating system.  A queue is a singly linked list    *)
(* through the events, each with a flag that it is queued and a pointer to *)
(* its queue; the active callouts are one linked list sorted by expiry, in *)
(* a clock that wraps.  Whoever waits (for an event, a semaphore, a mutex) *)
(* serves the hosted transport and the callouts in every round.            *)
(*                                                                         *)
(* Everything runs on one stack and every operation on the lists is        *)
(* atomic: it runs inside a critical section or calls nothing that calls   *)
(* back.  The callbacks of the transport are the operations themselves,    *)
(* taken between two steps.                                                *)
(***************************************************************************)
EXTENDS Integers, Sequences, FiniteSets

CONSTANTS
    Queue,          \* struct ble_npl_eventq
    Plain,          \* struct ble_npl_event of its own
    Callout,        \* struct ble_npl_callout, each with its event c_ev
    Home,           \* Home[c]: c_evq
    NULL,
    TickMod,        \* ble_npl_time_t is uint32_t: 2^32
    MaxTicks,       \* bound: the longest time a callout is set to
    MaxLate         \* bound: by how much a callout may be overdue

Event == Plain \cup Callout

(* There are as many events as fit the memory.  Two times in the list are  *)
(* never half the clock's range apart, which is what the signed difference *)
(* needs.                                                                  *)
ASSUME NplAssumption ==
    /\ IsFiniteSet(Event)
    /\ NULL \notin Event \cup Queue
    /\ Plain \cap Callout = {}
    /\ Home \in [Callout -> Queue]
    /\ {TickMod, MaxTicks, MaxLate} \subseteq Nat
    /\ TickMod % 2 = 0
    /\ 2 * (MaxTicks + MaxLate) < TickMod
    /\ MaxLate > 0

VARIABLES
    ev,             \* ev[e]: next, ev_queued, evq
    evq,            \* evq[q]: head, tail
    co,             \* co[c]: next, c_ticks, c_active
    coHead,         \* s_callout_head
    now,            \* ble_npl_time_get()
    serving,        \* what the round that is under way waits for, or "no"
    left            \* history: the ticks until callout c is due

vars == <<ev, evq, co, coHead, now, serving, left>>

NoEvent == [next |-> NULL, queued |-> FALSE, evq |-> NULL]
Idle == [next |-> NULL, ticks |-> 0, active |-> FALSE]
Never == MaxTicks + 1

Init ==
    /\ ev = [e \in Event |-> NoEvent]
    /\ evq = [q \in Queue |-> [head |-> NULL, tail |-> NULL]]
    /\ co = [c \in Callout |-> Idle]
    /\ coHead = NULL
    /\ now = 0
    /\ serving = "no"
    /\ left = [c \in Callout |-> Never]

(* A list, followed from its first element: the elements as a sequence.    *)
(* One that does not end shows as one that is longer than its elements.    *)
Walk(first, rec) ==
    LET N == Cardinality(DOMAIN rec)
        nth[i \in 0 .. N] ==
            IF i = 0 THEN first
            ELSE LET last == nth[i - 1] IN IF last = NULL THEN NULL ELSE rec[last].next
    IN  [i \in 1 .. Cardinality({j \in 0 .. N : nth[j] # NULL}) |-> nth[i - 1]]

(* Where a search from the first element on finds e.                       *)
IndexOf(list, e) == CHOOSE i \in DOMAIN list : list[i] = e

Events(q) == Walk(evq[q].head, ev)
Callouts == Walk(coHead, co)

-----------------------------------------------------------------------------
(* Event queues.  Each operator takes and returns the pair of records, so  *)
(* that operations compose.                                                *)

(* Mutant: an event that is queued is put once more.                       *)
EventqPutAgain(s, q, e) ==
    [ev |-> [[s.ev EXCEPT ![e] = [next |-> NULL, queued |-> TRUE, evq |-> q]]
                EXCEPT ![IF s.evq[q].tail = NULL THEN e ELSE s.evq[q].tail].next =
                            IF s.evq[q].tail = NULL THEN @ ELSE e],
     evq |-> [s.evq EXCEPT ![q] = [head |-> IF @.tail = NULL THEN e ELSE @.head, tail |-> e]]]

EventqPut(s, q, e) ==
    IF s.ev[e].queued THEN s
    ELSE LET last == s.evq[q].tail
             ev1 == [s.ev EXCEPT ![e] = [next |-> NULL, queued |-> TRUE, evq |-> q]]
         IN  IF last # NULL
             THEN [ev |-> [ev1 EXCEPT ![last].next = e],
                   evq |-> [s.evq EXCEPT ![q].tail = e]]
             ELSE [ev |-> ev1, evq |-> [s.evq EXCEPT ![q] = [head |-> e, tail |-> e]]]

(* Mutant: removing the last event leaves the tail on it.                  *)
EventqRemoveKeepsTail(s, q, e) ==
    LET list == Walk(s.evq[q].head, s.ev)
    IN  IF \A i \in DOMAIN list : list[i] # e THEN s
        ELSE LET i == IndexOf(list, e)
                 after == s.ev[e].next
                 ev1 == [s.ev EXCEPT ![e] = NoEvent]
             IN  IF i = 1
                 THEN [ev |-> ev1, evq |-> [s.evq EXCEPT ![q].head = after]]
                 ELSE [ev |-> [ev1 EXCEPT ![list[i - 1]].next = after], evq |-> s.evq]

(* The event is searched for from the head; one that is not in this queue  *)
(* is left alone.                                                          *)
EventqRemove(s, q, e) ==
    LET list == Walk(s.evq[q].head, s.ev)
    IN  IF \A i \in DOMAIN list : list[i] # e THEN s
        ELSE LET i == IndexOf(list, e)
                 after == s.ev[e].next
                 prev == IF i = 1 THEN NULL ELSE list[i - 1]
                 ev1 == [s.ev EXCEPT ![e] = NoEvent]
             IN  [ev |-> IF prev = NULL THEN ev1 ELSE [ev1 EXCEPT ![prev].next = after],
                  evq |-> [s.evq EXCEPT
                             ![q] = [head |-> IF prev = NULL THEN after ELSE @.head,
                                     tail |-> IF @.tail = e THEN prev ELSE @.tail]]]

(* Mutant: the event handed out still says that it is queued.              *)
EventqPopKeepsFlag(s, q) ==
    LET e == s.evq[q].head
        after == s.ev[e].next
    IN  [ev |-> [s.ev EXCEPT ![e].next = NULL],
         evq |-> [s.evq EXCEPT ![q] = [head |-> after, tail |-> IF after = NULL THEN NULL ELSE @.tail]]]

EventqPop(s, q) ==
    LET e == s.evq[q].head
        after == s.ev[e].next
    IN  [ev |-> [s.ev EXCEPT ![e] = NoEvent],
         evq |-> [s.evq EXCEPT ![q] = [head |-> after, tail |-> IF after = NULL THEN NULL ELSE @.tail]]]

Lists == [ev |-> ev, evq |-> evq]
Becomes(s) == ev' = s.ev /\ evq' = s.evq

-----------------------------------------------------------------------------
(* Callouts.                                                               *)

(* Mutant: the time of expiry does not wrap with the clock.                *)
ExpiryNoWrap(t) == now + t

Expiry(t) == (now + t) % TickMod

(* (ble_npl_stime_t)(a - b).                                               *)
Delta(a, b) ==
    LET d == (a + TickMod - b) % TickMod
    IN  IF 2 * d >= TickMod THEN d - TickMod ELSE d

CalloutRemove(s, c) ==
    LET list == Walk(s.head, s.co)
    IN  IF \A i \in DOMAIN list : list[i] # c THEN s
        ELSE LET i == IndexOf(list, c)
                 after == s.co[c].next
                 co1 == [s.co EXCEPT ![c].next = NULL, ![c].active = FALSE]
             IN  IF i = 1 THEN [co |-> co1, head |-> after]
                 ELSE [co |-> [co1 EXCEPT ![list[i - 1]].next = after], head |-> s.head]

(* Mutant: times are compared as numbers.                                  *)
LaterAsNumber(a, b) == a > b

(* A callout goes before the first that expires later.                     *)
Later(a, b) == Delta(a, b) > 0

CalloutInsert(s, c) ==
    LET list == Walk(s.head, s.co)
        n == Cardinality({i \in DOMAIN list :
                 \A j \in 1 .. i : ~Later(s.co[list[j]].ticks, s.co[c].ticks)})
        after == IF n = Len(list) THEN NULL ELSE list[n + 1]
        co1 == [s.co EXCEPT ![c].next = after, ![c].active = TRUE]
    IN  IF n = 0 THEN [co |-> co1, head |-> c]
        ELSE [co |-> [co1 EXCEPT ![list[n]].next = c], head |-> s.head]

Table == [co |-> co, head |-> coHead]
TableBecomes(s) == co' = s.co /\ coHead' = s.head

(* Mutant: a callout expires only in the very tick it is set to.           *)
IsDueExactly(c) == Delta(co[c].ticks, now) = 0

IsDue(c) == ~(Delta(co[c].ticks, now) > 0)

-----------------------------------------------------------------------------
(* ble_npl_eventq_put.                                                     *)
Put(q, e) ==
    /\ serving = "no"
    /\ Becomes(EventqPut(Lists, q, e))
    /\ UNCHANGED <<co, coHead, now, serving, left>>

(* ble_npl_eventq_remove.                                                  *)
Remove(q, e) ==
    /\ serving = "no"
    /\ Becomes(EventqRemove(Lists, q, e))
    /\ UNCHANGED <<co, coHead, now, serving, left>>

(* ble_npl_event_deinit: the event leaves the queue it is in.              *)
EventDeinit(e) ==
    /\ serving = "no"
    /\ ev[e].evq # NULL
    /\ Becomes(EventqRemove(Lists, ev[e].evq, e))
    /\ UNCHANGED <<co, coHead, now, serving, left>>

(* ble_npl_callout_reset.                                                  *)
CalloutReset(c, t) ==
    /\ serving = "no"
    /\ LET off == CalloutRemove(Table, c)
           timed == [off EXCEPT !.co[c].ticks = Expiry(t)]
       IN  TableBecomes(CalloutInsert(timed, c))
    /\ left' = [left EXCEPT ![c] = t]
    /\ UNCHANGED <<ev, evq, now, serving>>

(* ble_npl_callout_stop: an event that is queued already stays there.      *)
CalloutStop(c) ==
    /\ serving = "no"
    /\ TableBecomes(CalloutRemove(Table, c))
    /\ left' = [left EXCEPT ![c] = Never]
    /\ UNCHANGED <<ev, evq, now, serving>>

(* ble_npl_callout_deinit, followed by the ble_npl_callout_init that has   *)
(* to come before its next use.                                            *)
CalloutDeinit(c) ==
    /\ serving = "no"
    /\ TableBecomes([CalloutRemove(Table, c) EXCEPT !.co[c].ticks = 0])
    /\ Becomes(IF ev[c].evq = NULL THEN Lists ELSE EventqRemove(Lists, ev[c].evq, c))
    /\ left' = [left EXCEPT ![c] = Never]
    /\ UNCHANGED <<now, serving>>

(* One round of a wait begins: ble_npl_service_background.  The wait is    *)
(* for an event of a queue, or for a semaphore or a mutex.                 *)
ServiceBegin(w) ==
    /\ serving = "no"
    /\ serving' = w
    /\ UNCHANGED <<ev, evq, co, coHead, now, left>>

(* ble_npl_process_callouts: from the head of the list, as long as the     *)
(* head is due.                                                            *)
Expire ==
    /\ serving # "no"
    /\ coHead # NULL
    /\ IsDue(coHead)
    /\ coHead' = co[coHead].next
    /\ co' = [co EXCEPT ![coHead].next = NULL, ![coHead].active = FALSE]
    /\ Becomes(EventqPut(Lists, Home[coHead], coHead))
    /\ left' = [left EXCEPT ![coHead] = Never]
    /\ UNCHANGED <<now, serving>>

(* ble_npl_eventq_get takes the first event there is, and otherwise goes   *)
(* round again or gives up.                                                *)
ServiceEnd ==
    /\ serving # "no"
    /\ coHead # NULL => ~IsDue(coHead)
    /\ serving' = "no"
    /\ \/ /\ serving \in Queue
          /\ evq[serving].head # NULL
          /\ Becomes(EventqPop(Lists, serving))
       \/ /\ serving \in Queue => evq[serving].head = NULL
          /\ UNCHANGED <<ev, evq>>
    /\ UNCHANGED <<co, coHead, now, left>>

(* A millisecond passes.  The superloop serves the callouts long before    *)
(* half the clock's range has passed.                                      *)
Tick ==
    /\ serving = "no"
    /\ \A c \in Callout : left[c] > -MaxLate
    /\ now' = (now + 1) % TickMod
    /\ left' = [c \in Callout |-> IF left[c] = Never THEN Never ELSE left[c] - 1]
    /\ UNCHANGED <<ev, evq, co, coHead, serving>>

Next ==
    \/ \E q \in Queue, e \in Event : Put(q, e) \/ Remove(q, e)
    \/ \E e \in Event : EventDeinit(e)
    \/ \E c \in Callout : CalloutStop(c) \/ CalloutDeinit(c)
    \/ \E c \in Callout, t \in 0 .. MaxTicks : CalloutReset(c, t)
    \/ \E w \in Queue \cup {"wait"} : ServiceBegin(w)
    \/ Expire \/ ServiceEnd \/ Tick

Spec == Init /\ [][Next]_vars

(* The superloop calls nimble_port_run_once, for the one queue there is,   *)
(* for ever.                                                               *)
FairSpec ==
    /\ Spec
    /\ \A q \in Queue : SF_vars(ServiceBegin(q))
    /\ WF_vars(Expire \/ ServiceEnd)

-----------------------------------------------------------------------------
TypeOK ==
    /\ ev \in [Event -> [next : Event \cup {NULL}, queued : BOOLEAN, evq : Queue \cup {NULL}]]
    /\ evq \in [Queue -> [head : Event \cup {NULL}, tail : Event \cup {NULL}]]
    /\ co \in [Callout -> [next : Callout \cup {NULL}, ticks : 0 .. TickMod - 1, active : BOOLEAN]]
    /\ coHead \in Callout \cup {NULL}
    /\ now \in 0 .. TickMod - 1
    /\ serving \in Queue \cup {"wait", "no"}
    /\ left \in [Callout -> -MaxLate .. Never]

NoRepeat(s) == \A i, j \in DOMAIN s : s[i] = s[j] => i = j

(* The lists of events stay lists through every order of put, remove, get  *)
(* and deinit: each ends at its tail, no event is on two, and the flag and *)
(* the pointer of an event say where it is.                                *)
EventsLinked ==
    /\ \A q \in Queue :
          /\ NoRepeat(Events(q))
          /\ evq[q].tail = IF Events(q) = <<>> THEN NULL ELSE Events(q)[Len(Events(q))]
          /\ \A i \in DOMAIN Events(q) : ev[Events(q)[i]].evq = q
    /\ \A e \in Event :
          /\ ev[e].queued <=> \E q \in Queue : \E i \in DOMAIN Events(q) : Events(q)[i] = e
          /\ ~ev[e].queued => ev[e] = NoEvent

(* The list of callouts holds the active ones, sorted by the time that     *)
(* is really left although the clock wraps.                                *)
CalloutsSorted ==
    /\ NoRepeat(Callouts)
    /\ \A c \in Callout : co[c].active <=> \E i \in DOMAIN Callouts : Callouts[i] = c
    /\ \A i, j \in DOMAIN Callouts : i < j => left[Callouts[i]] <= left[Callouts[j]]
    /\ \A c \in Callout : co[c].active <=> left[c] # Never

(* Both kinds of list stay what the C structures promise through every     *)
(* order of operations.                                                    *)
QueuesLinked == EventsLinked /\ CalloutsSorted

(* What NimBLE sees of the lists is the abstract service: no event twice,  *)
(* none lost, no callout early, late ones in order.                        *)
Abs == INSTANCE NplService WITH fifo <- [q \in Queue |-> Events(q)]

RefinesService == Abs!Spec

(* Every event that is put is handed out or removed.                       *)
EventsLeave == \A e \in Event : ev[e].queued ~> ~ev[e].queued

(* No callout stays due: it expires, or is stopped or set again.           *)
CalloutsExpire == \A c \in Callout : left[c] <= 0 ~> left[c] > 0
=============================================================================
