----------------------------- MODULE HostedCtrl -----------------------------
(***************************************************************************)
(* drivers/esp_hosted/esp_hosted_ctrl.c: remote procedure calls to the     *)
(* co-processor.  A request sets the one wait state of the module, sends   *)
(* itself, and then polls and dispatches until the answer with its number  *)
(* has been dispatched or its time is over.  Dispatching also delivers     *)
(* Wi-Fi events to the application, whose callback may make a request of   *)
(* its own: requests nest, over one wait state.                            *)
(*                                                                         *)
(* What is inside a message is its kind: encoding and parsing are reduced  *)
(* to whether a message is well formed.  The co-processor is external.     *)
(***************************************************************************)
EXTENDS Integers, Sequences, SequencesExt

CONSTANTS
    Kind,           \* the requests the application makes
    Msg,            \* Msg[k]: the message id of the answer to request k
    UidMod,         \* request numbers are uint32_t: 2^32
    Timeout,        \* timeout_ms: rounds of the wait loop
    MaxCalls,       \* bound: requests
    MaxNest,        \* bound: requests under way at once
    MaxEvents,      \* bound: events and resets of the co-processor
    MaxRestart      \* bound: calls of esp_hosted_init, _deinit, attach and ctrl_deinit

(* The three kinds of request whose result is more than a code are told    *)
(* apart by what is compared: "btInit" and "btEnable" share a message id   *)
(* and the answer says which of them it answers.                           *)
Feature == {"btInit", "btEnable"}

ASSUME CtrlAssumption ==
    /\ Kind \cap {"none", "loop"} = {}
    /\ Kind = DOMAIN Msg
    /\ UidMod \in Nat /\ UidMod > 2
    /\ Timeout \in Nat \ {0}
    /\ {MaxCalls, MaxNest, MaxEvents, MaxRestart} \subseteq Nat

VARIABLES
    (* The host.                                                           *)
    hosted,         \* esp_hosted_is_initialized()
    registered,     \* esp_hosted_ctrl_rx is the control callback
    ctrl,           \* s_ctrl
    stack,          \* the superloop, and the requests under way inside it
    queue,          \* control frames in the receive queue
    result,         \* what a request has just returned, and why
    (* The co-processor.                                                   *)
    wire,           \* requests it has not handled yet
    air,            \* frames it has sent that the host has not polled yet
    link,           \* its station is associated
    (* History and bounds.                                                 *)
    calls,          \* request numbers taken
    epoch,          \* calls of esp_hosted_ctrl_deinit
    events, restarts,
    change,         \* the number of the last change of the link
    known,          \* the host has dispatched the last change of the link
    delivered       \* requests whose answer was dispatched while under way

vars == <<hosted, registered, ctrl, stack, queue, result, wire, air, link,
          calls, epoch, events, restarts, change, known, delivered>>

slave == <<wire, air, link>>
history == <<calls, epoch, events, restarts, change, known, delivered>>

(* A request is identified by its place in the history, which its uid is   *)
(* meant to stand for.                                                     *)
Me == [serial : 0 .. MaxCalls, epoch : 0 .. MaxRestart]
NoMe == [serial |-> 0, epoch |-> 0]

Code == {"ok", "fail", "bad"}     \* resp = 0, resp # 0, not decodable

(* A control frame from the co-processor: an answer to request `of`, or an *)
(* event with its number; ok is the event's own resp field being zero.     *)
Frame == [type : {"resp", "init", "conn", "disc"}, kind : Kind \cup {"none"}, uid : 0 .. UidMod - 1,
          of : Me, code : Code, ok : BOOLEAN, last : 0 .. MaxEvents]

Event(type, ok, n) == [type |-> type, kind |-> "none", uid |-> 0, of |-> NoMe,
                       code |-> "bad", ok |-> ok, last |-> n]

Request == [kind : Kind, uid : 0 .. UidMod - 1, of : Me]

(* A response slot: the code, and the answer the other fields came from.   *)
Cleared == [initialized |-> FALSE, ready |-> FALSE, connected |-> FALSE, eventCb |-> FALSE,
            waiting |-> FALSE, waitUid |-> 0, waitKind |-> "none",
            seen |-> FALSE, code |-> "timeout", from |-> NoMe, fields |-> "none", nextUid |-> 0]

Loop == [kind |-> "loop", me |-> NoMe, phase |-> "poll", waited |-> 0, inner |-> {}]

NoResult == [me |-> NoMe, rc |-> "none", from |-> NoMe, inner |-> {}]

Init ==
    /\ hosted = FALSE /\ registered = FALSE /\ ctrl = Cleared
    /\ stack = <<Loop>> /\ queue = <<>> /\ result = NoResult
    /\ wire = <<>> /\ air = <<>> /\ link = FALSE
    /\ calls = 0 /\ epoch = 0 /\ events = 0 /\ restarts = 0 /\ change = 0
    /\ known = TRUE /\ delivered = {}

Top == Last(stack)
SetPhase(p) == stack' = [stack EXCEPT ![Len(stack)].phase = p]

(* The application runs between two rounds of its superloop and inside the *)
(* Wi-Fi event callback.                                                   *)
AppRuns == Top.phase = "callback" \/ (Len(stack) = 1 /\ Top.phase = "poll")

-----------------------------------------------------------------------------
(* esp_hosted_ctrl_init, once the stack below is up.                       *)
Initialized(c) ==
    IF c.initialized THEN c ELSE [Cleared EXCEPT !.initialized = TRUE, !.nextUid = 1]

(* The co-processor is put back to its start: what it was given and what   *)
(* it has not sent are gone, and so is its association, of which no event  *)
(* tells.                                                                  *)
SlaveResets ==
    /\ wire' = <<>>
    /\ air' = <<>>
    /\ link' = FALSE
    /\ IF link
       THEN /\ events < MaxEvents
            /\ events' = events + 1
            /\ change' = events + 1
            /\ known' = FALSE
       ELSE UNCHANGED <<events, change, known>>

(* An attach pulses the reset pin, when the board has one.                 *)
PinPulsed == SlaveResets \/ UNCHANGED <<slave, events, change, known>>

(* esp_hosted_init and _deinit empty the queue and forget the callbacks;   *)
(* the first of them is made by an attach.                                 *)
HostedRestarts ==
    /\ AppRuns
    /\ \/ /\ ~hosted
          /\ hosted' = TRUE
          /\ PinPulsed
          /\ UNCHANGED restarts
       \/ /\ hosted
          /\ restarts < MaxRestart
          /\ hosted' \in BOOLEAN
          /\ restarts' = restarts + 1
          /\ UNCHANGED <<slave, events, change, known>>
    /\ queue' = <<>>
    /\ registered' = FALSE
    /\ UNCHANGED <<ctrl, stack, result, calls, epoch, delivered>>

(* esp_hosted_sdio_attach of a stack that is up: another transport of the  *)
(* same queue and callbacks, and a co-processor that has been reset.       *)
Reattach ==
    /\ AppRuns
    /\ hosted
    /\ restarts < MaxRestart
    /\ restarts' = restarts + 1
    /\ SlaveResets
    /\ UNCHANGED <<hosted, registered, ctrl, stack, queue, result, calls, epoch, delivered>>

CtrlDeinit ==
    /\ AppRuns
    /\ restarts < MaxRestart
    /\ restarts' = restarts + 1
    /\ epoch' = epoch + 1
    /\ registered' = FALSE
    /\ ctrl' = Cleared
    /\ known' = FALSE
    /\ UNCHANGED <<hosted, stack, queue, result, slave, calls, events, change, delivered>>

(* esp_hosted_wifi_set_event_cb.                                           *)
SetEventCb ==
    /\ AppRuns
    /\ hosted
    /\ registered' = TRUE
    /\ \E on \in BOOLEAN : ctrl' = [Initialized(ctrl) EXCEPT !.eventCb = on]
    /\ <<registered, ctrl>>' # <<registered, ctrl>>
    /\ UNCHANGED <<hosted, stack, queue, result, slave, history>>

(* Mutant: the number after the last is zero.                              *)
NextUidWraps(uid) == (uid + 1) % UidMod

(* esp_hosted_ctrl_next_uid: zero is left out when the counter wraps.      *)
NextUid(uid) == IF uid + 1 = UidMod THEN 1 ELSE uid + 1

(* Mutant: an answer seen before stays in the slot.                        *)
ResetResponseKeepsSeen(c) == [c EXCEPT !.code = "timeout", !.from = NoMe, !.fields = "none"]

ResetResponse(c) ==
    [c EXCEPT !.seen = FALSE, !.code = "timeout", !.from = NoMe, !.fields = "none"]

(* esp_hosted_ctrl_reset_wait_state; the response slot keeps what it has.  *)
ResetWait(c) == [c EXCEPT !.waiting = FALSE, !.waitKind = "none"]

(* Mutant: a request that could not be sent goes on waiting.               *)
TxFailedWaits(c) == c

TxFailed(c) == ResetWait(c)

(* The requests under way note the one made inside them.                   *)
Outer(me) ==
    [i \in DOMAIN stack |-> IF i = 1 THEN stack[i] ELSE [stack[i] EXCEPT !.inner = @ \cup {me}]]

(* What the request functions do before they call request_common: each     *)
(* takes a number, and the disconnect request forgets the link.            *)
Numbered(c, k) ==
    [c EXCEPT !.nextUid = NextUid(c.nextUid), !.connected = @ /\ k # "disconnect"]

(* A request function and the first half of request_common: set the wait   *)
(* state, send.  A send may fail, with or without the co-processor having  *)
(* received the request.                                                   *)
RequestBegin(k) ==
    /\ AppRuns
    /\ calls < MaxCalls
    /\ Len(stack) <= MaxNest
    /\ LET me == [serial |-> calls + 1, epoch |-> epoch]
           uid == Initialized(ctrl).nextUid
           c == [Numbered(Initialized(ctrl), k) EXCEPT
                    !.waiting = TRUE, !.waitUid = uid, !.waitKind = k]
           sent == Append(wire, [kind |-> k, uid |-> uid, of |-> me])
       IN  \/ /\ ~hosted
              /\ result' = [NoResult EXCEPT !.me = me, !.rc = "state"]
              /\ UNCHANGED <<registered, ctrl, stack, wire, known, calls>>
           \/ /\ hosted
              /\ calls' = calls + 1
              /\ registered' = TRUE
              /\ known' = (known /\ k # "disconnect")
              /\ \/ /\ ctrl' = ResetResponse(c)
                    /\ wire' = sent
                    /\ stack' = Append(Outer(me), [Loop EXCEPT !.kind = k, !.me = me])
                    /\ UNCHANGED result
                 \/ /\ ctrl' = TxFailed(ResetResponse(c))
                    /\ wire' \in {wire, sent}
                    /\ result' = [NoResult EXCEPT !.me = me, !.rc = "tx"]
                    /\ stack' = Outer(me)
    /\ UNCHANGED <<hosted, queue, air, link, epoch, events, restarts, change, delivered>>

(* A request that cannot be encoded, a name or a key that is too long, has *)
(* taken its number all the same.                                          *)
RequestUnencoded ==
    /\ AppRuns
    /\ hosted
    /\ calls < MaxCalls
    /\ calls' = calls + 1
    /\ registered' = TRUE
    /\ ctrl' = [Initialized(ctrl) EXCEPT !.nextUid = NextUid(@)]
    /\ result' = [NoResult EXCEPT !.me = [serial |-> calls + 1, epoch |-> epoch], !.rc = "proto"]
    /\ UNCHANGED <<hosted, stack, queue, slave, epoch, events, restarts, change, known, delivered>>

-----------------------------------------------------------------------------
(* One round, of the superloop or of a request: poll, dispatch, look.      *)

Poll ==
    /\ Top.phase = "poll"
    /\ SetPhase("dispatch")
    /\ \/ /\ hosted
          /\ \E n \in 0 .. Len(air) :
                /\ queue' = queue \o SubSeq(air, 1, n)
                /\ air' = SubSeq(air, n + 1, Len(air))
       \/ ~hosted /\ UNCHANGED <<queue, air>>
    /\ result' = NoResult
    /\ UNCHANGED <<hosted, registered, ctrl, wire, link, history>>

(* Mutant: the number of the answer is not compared.                       *)
AcceptsAnyUid(f) == ctrl.waiting /\ f.type = "resp" /\ Msg[f.kind] = Msg[ctrl.waitKind]

(* An answer is taken when its message id and its number are waited for.   *)
Accepts(f) ==
    /\ ctrl.waiting
    /\ f.type = "resp"
    /\ Msg[f.kind] = Msg[ctrl.waitKind]
    /\ f.uid = ctrl.waitUid

(* Mutant: the result inside a connected event is not looked at.           *)
LinkUpAlways(f) == f.type = "conn"

LinkUp(f) == f.type = "conn" /\ f.ok
LinkDown(f) == f.type = "disc"

(* esp_hosted_ctrl_rx for one frame, called from esp_hosted_dispatch_rx:   *)
(* without a callback the frame is thrown away.  An event of the link goes *)
(* to the application, which then runs until its callback returns.         *)
DispatchOne ==
    /\ Top.phase = "dispatch"
    /\ queue # <<>>
    /\ queue' = Tail(queue)
    /\ LET f == Head(queue)
           c == [ctrl EXCEPT
                  !.ready = (@ \/ f.type = "init"),
                  !.connected = (@ \/ LinkUp(f)) /\ ~LinkDown(f)]
       IN  IF ~registered
           THEN UNCHANGED <<ctrl, stack, known, delivered>>
           ELSE /\ IF Accepts(f)
                   THEN /\ ctrl' = [c EXCEPT !.seen = TRUE, !.code = f.code, !.from = f.of,
                                             !.fields = IF f.code = "bad" THEN @ ELSE f.kind]
                        /\ delivered' = delivered \cup {f.of}
                   ELSE ctrl' = c /\ UNCHANGED delivered
                /\ IF (LinkUp(f) \/ LinkDown(f)) /\ ctrl.eventCb
                   THEN SetPhase("callback") ELSE UNCHANGED stack
                /\ known' = (known \/ ((LinkUp(f) \/ LinkDown(f)) /\ f.last = change))
    /\ UNCHANGED <<hosted, registered, result, slave, calls, epoch, events, restarts, change>>

CallbackReturn ==
    /\ Top.phase = "callback"
    /\ SetPhase("dispatch")
    /\ result' = NoResult
    /\ UNCHANGED <<hosted, registered, ctrl, queue, slave, history>>

DispatchEnd ==
    /\ Top.phase = "dispatch"
    /\ queue = <<>>
    /\ SetPhase(IF Top.kind = "loop" THEN "poll" ELSE "look")
    /\ UNCHANGED <<hosted, registered, ctrl, queue, result, slave, history>>

(* Mutant: the start of the wait is taken anew in every round.             *)
ElapsedAnew(waited) == 0

Elapsed(waited) == waited + 1

(* Only the answer to a feature request is compared with the question, by  *)
(* the fields the slot then holds.                                         *)
ReturnCode ==
    IF ctrl.code = "ok" /\ Top.kind \in Feature /\ ctrl.fields # Top.kind THEN "mismatch" ELSE ctrl.code

Returns(rc) ==
    /\ ctrl' = ResetWait(ctrl)
    /\ stack' = Front(stack)
    /\ result' = [me |-> Top.me, rc |-> rc, from |-> ctrl.from, inner |-> Top.inner]
    /\ UNCHANGED <<hosted, registered, queue, slave, history>>

(* Mutant: the last round is over before it is looked at.                  *)
LookLate ==
    /\ Top.phase = "look"
    /\ IF Elapsed(Top.waited) >= Timeout THEN Returns("timeout")
       ELSE IF ctrl.seen THEN Returns(ReturnCode)
       ELSE /\ stack' = [stack EXCEPT ![Len(stack)].phase = "poll",
                                      ![Len(stack)].waited = Elapsed(@)]
            /\ UNCHANGED <<hosted, registered, ctrl, queue, result, slave, history>>

Look ==
    /\ Top.phase = "look"
    /\ IF ctrl.seen THEN Returns(ReturnCode)
       ELSE IF Elapsed(Top.waited) >= Timeout THEN Returns("timeout")
       ELSE /\ stack' = [stack EXCEPT ![Len(stack)].phase = "poll",
                                      ![Len(stack)].waited = Elapsed(@)]
            /\ UNCHANGED <<hosted, registered, ctrl, queue, result, slave, history>>

-----------------------------------------------------------------------------
(* The co-processor (external).  Its steps are taken when the host is about *)
(* to poll: between two polls the host sees nothing of it.                 *)
Between == Top.phase = "poll"

(* It answers its requests in order, or not at all, and may take any time. *)
(* A disconnect request ends the association, with an event before or      *)
(* after the answer.                                                       *)
SlaveHandles ==
    /\ Between
    /\ wire # <<>>
    /\ wire' = Tail(wire)
    /\ LET r == Head(wire)
           drops == r.kind = "disconnect" /\ link /\ events < MaxEvents
           gone == <<Event("disc", TRUE, events + 1)>>
       IN  \E code \in Code :
             LET answer == <<[type |-> "resp", kind |-> r.kind, uid |-> r.uid, of |-> r.of,
                              code |-> code, ok |-> TRUE, last |-> 0]>>
             IN  IF drops
                 THEN /\ link' = FALSE
                      /\ events' = events + 1
                      /\ change' = events + 1
                      /\ known' = FALSE
                      /\ air' \in {air \o answer \o gone, air \o gone \o answer}
                 ELSE /\ air' = air \o answer
                      /\ UNCHANGED <<link, events, change, known>>
    /\ UNCHANGED <<hosted, registered, ctrl, stack, queue, result>>
    /\ UNCHANGED <<calls, epoch, restarts, delivered>>

SlaveIgnores ==
    /\ Between
    /\ wire # <<>>
    /\ wire' = Tail(wire)
    /\ UNCHANGED <<hosted, registered, ctrl, stack, queue, result, air, link, history>>

(* It restarts of itself, and says so in an event which the host does not  *)
(* take for a change of the link.                                          *)
SlaveRestarts ==
    /\ Between
    /\ events < MaxEvents
    /\ events' = events + 1
    /\ wire' = <<>>
    /\ air' = <<Event("init", TRUE, events + 1)>>
    /\ link' = FALSE
    /\ change' = IF link THEN events + 1 ELSE change
    /\ known' = (known /\ ~link)
    /\ UNCHANGED <<hosted, registered, ctrl, stack, queue, result>>
    /\ UNCHANGED <<calls, epoch, restarts, delivered>>

(* Its station is associated or fails to be, or is thrown out.             *)
SlaveEvent ==
    /\ Between
    /\ events < MaxEvents
    /\ events' = events + 1
    /\ \/ /\ ~link
          /\ air' = Append(air, Event("conn", FALSE, events + 1))
          /\ UNCHANGED <<link, change, known>>
       \/ /\ ~link
          /\ air' = Append(air, Event("conn", TRUE, events + 1))
          /\ link' = TRUE
          /\ change' = events + 1
          /\ known' = FALSE
       \/ /\ link
          /\ air' = Append(air, Event("disc", TRUE, events + 1))
          /\ link' = FALSE
          /\ change' = events + 1
          /\ known' = FALSE
    /\ UNCHANGED <<hosted, registered, ctrl, stack, queue, result, wire>>
    /\ UNCHANGED <<calls, epoch, restarts, delivered>>

(* A frame is lost on its way to the queue: a full queue, a drained batch. *)
FrameLost ==
    /\ Between
    /\ air # <<>>
    /\ air' = Tail(air)
    /\ UNCHANGED <<hosted, registered, ctrl, stack, queue, result, wire, link, history>>

HostStep == Poll \/ DispatchOne \/ CallbackReturn \/ DispatchEnd \/ Look

Next ==
    \/ HostedRestarts \/ Reattach \/ CtrlDeinit \/ SetEventCb
    \/ RequestUnencoded \/ \E k \in Kind : RequestBegin(k)
    \/ HostStep
    \/ SlaveHandles \/ SlaveIgnores \/ SlaveEvent \/ SlaveRestarts \/ FrameLost

Spec == Init /\ [][Next]_vars

(* The processor goes on with what it is doing.                            *)
FairSpec == Spec /\ WF_vars(HostStep)

-----------------------------------------------------------------------------
CtrlType ==
    [initialized : BOOLEAN, ready : BOOLEAN, connected : BOOLEAN, eventCb : BOOLEAN,
     waiting : BOOLEAN, waitUid : 0 .. UidMod - 1, waitKind : Kind \cup {"none"},
     seen : BOOLEAN, code : Code \cup {"timeout"}, from : Me, fields : Kind \cup {"none"},
     nextUid : 0 .. UidMod - 1]

ContextType ==
    [kind : Kind \cup {"loop"}, me : Me, phase : {"poll", "dispatch", "callback", "look"},
     waited : 0 .. Timeout - 1, inner : SUBSET Me]

TypeOK ==
    /\ hosted \in BOOLEAN /\ registered \in BOOLEAN /\ link \in BOOLEAN /\ known \in BOOLEAN
    /\ ctrl \in CtrlType
    /\ ctrl.initialized => ctrl.nextUid # 0
    /\ stack \in Seq(ContextType) /\ stack # <<>>
    /\ queue \in Seq(Frame) /\ air \in Seq(Frame) /\ wire \in Seq(Request)
    /\ delivered \subseteq Me

(* An answer is taken for the request it was given to, or for a request    *)
(* UidMod - 1 or more requests later, or across a deinit: the two ways in  *)
(* which a number comes back.                                              *)
Owns(me, from) ==
    \/ me = from
    \/ me.epoch # from.epoch
    \/ me.serial - from.serial >= UidMod - 1

(* However late, lost or out of place an answer is, what a request returns *)
(* is an answer given to it, or to a request its own callback made.        *)
AnswerOwned ==
    result.rc \in Code \cup {"mismatch"} =>
        \E me \in {result.me} \cup result.inner : Owns(me, result.from)

(* A request inside which no other was made, and no deinit, does not       *)
(* report a timeout when its answer was dispatched in time, not even in    *)
(* the last round.                                                         *)
TimeoutMeansNoAnswer ==
    result.rc = "timeout" /\ result.inner = {} /\ result.me.epoch = epoch =>
        result.me \notin delivered

(* The wait state is that of the innermost request under way, and none has *)
(* been sent inside it: nothing waits for a request that has returned,     *)
(* whichever way it did.                                                   *)
WaitingIsInnermost ==
    ctrl.waiting =>
        /\ Top.kind = ctrl.waitKind
        /\ Top.inner = {}

(* A host that has dispatched the last change of the link, and has neither *)
(* asked to disconnect nor restarted since, reports the link as it is.     *)
(* A change it is told of by no link event, the association that ends with *)
(* the co-processor's restart, it has not dispatched: until the next link  *)
(* event it goes on reporting what was true before.                        *)
LinkKnown == known => ctrl.connected = link

(* Every request returns, whatever the co-processor and the requests made  *)
(* inside it do.                                                           *)
EveryRequestReturns ==
    \A n \in 2 .. MaxNest + 1 : Len(stack) >= n ~> Len(stack) < n
=============================================================================
