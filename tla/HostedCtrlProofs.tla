-------------------------- MODULE HostedCtrlProofs --------------------------
(***************************************************************************)
(* Proofs about HostedCtrl for every set of requests, every range of       *)
(* request numbers, every time-out, depth of nesting and bound.            *)
(***************************************************************************)
EXTENDS HostedCtrl, SequenceTheorems, TLAPS

Bounds ==
    /\ calls \in 0 .. MaxCalls
    /\ restarts \in 0 .. MaxRestart /\ epoch \in 0 .. restarts
    /\ events \in 0 .. MaxEvents /\ change \in 0 .. events
    /\ result \in [me : Me, rc : Code \cup {"none", "state", "proto", "tx", "timeout", "mismatch"},
                   from : Me, inner : SUBSET Me]

TypeInv == TypeOK /\ Bounds

-----------------------------------------------------------------------------
(* The stack.                                                              *)

LEMMA StackFacts ==
  ASSUME TypeOK
  PROVE  /\ Len(stack) \in Nat \ {0}
         /\ stack \in [1 .. Len(stack) -> ContextType]
         /\ DOMAIN stack = 1 .. Len(stack)
         /\ Top = stack[Len(stack)] /\ Top \in ContextType
<1>1. stack \in Seq(ContextType) /\ stack # <<>>
  BY DEF TypeOK
<1>2. Len(stack) \in Nat \ {0} /\ stack \in [1 .. Len(stack) -> ContextType] /\ DOMAIN stack = 1 .. Len(stack)
  BY <1>1, LenProperties, EmptySeq
<1>3. Top = stack[Len(stack)]
  BY DEF Top, Last
<1> QED
  BY <1>2, <1>3

(* The innermost context is replaced.                                      *)
Retop(c) == stack' = [stack EXCEPT ![Len(stack)] = c]

LEMMA RetopFacts ==
  ASSUME TypeOK, NEW c \in ContextType, Retop(c)
  PROVE  /\ stack' \in Seq(ContextType) /\ stack' # <<>>
         /\ Len(stack') = Len(stack)
         /\ \A i \in 1 .. Len(stack) - 1 : stack'[i] = stack[i]
         /\ stack'[Len(stack)] = c /\ Top' = c
<1>1. stack \in Seq(ContextType) /\ Len(stack) \in Nat \ {0} /\ Len(stack) \in 1 .. Len(stack)
  BY StackFacts DEF TypeOK
<1>2. /\ stack' \in Seq(ContextType) /\ Len(stack') = Len(stack)
      /\ \A j \in 1 .. Len(stack) : stack'[j] = IF j = Len(stack) THEN c ELSE stack[j]
  BY <1>1, ExceptSeq DEF Retop
<1>3. stack' # <<>>
  BY <1>1, <1>2, EmptySeq
<1>4. Top' = stack'[Len(stack')]
  BY DEF Top, Last
<1> QED
  BY <1>1, <1>2, <1>3, <1>4

LEMMA SetPhaseRetops ==
  ASSUME TypeOK, NEW p \in {"poll", "dispatch", "callback", "look"}, SetPhase(p)
  PROVE  Retop([Top EXCEPT !.phase = p]) /\ [Top EXCEPT !.phase = p] \in ContextType
BY StackFacts DEF SetPhase, Retop, ContextType

(* The requests under way note the one made inside them.                   *)
LEMMA OuterFacts ==
  ASSUME TypeOK, NEW me \in Me
  PROVE  /\ Outer(me) \in Seq(ContextType) /\ Outer(me) # <<>>
         /\ Len(Outer(me)) = Len(stack)
         /\ Outer(me)[1] = stack[1]
         /\ \A i \in 2 .. Len(stack) : Outer(me)[i] = [stack[i] EXCEPT !.inner = @ \cup {me}]
<1>1. Len(stack) \in Nat \ {0} /\ stack \in [1 .. Len(stack) -> ContextType] /\ DOMAIN stack = 1 .. Len(stack)
  BY StackFacts
<1> DEFINE e(i) == IF i = 1 THEN stack[i] ELSE [stack[i] EXCEPT !.inner = @ \cup {me}]
<1>2. \A i \in 1 .. Len(stack) : e(i) \in ContextType
  BY <1>1 DEF ContextType
<1>3. Outer(me) = [i \in 1 .. Len(stack) |-> e(i)]
  BY <1>1 DEF Outer
<1> HIDE DEF e
<1>4. Outer(me) \in [1 .. Len(stack) -> ContextType] /\ Len(stack) \in Nat
  BY <1>1, <1>2, <1>3
<1>5. Outer(me) \in Seq(ContextType)
  BY <1>4, SeqDef
<1>6. Len(Outer(me)) = Len(stack)
  BY <1>1, <1>3, <1>5, LenProperties
<1>7. Outer(me) # <<>>
  BY <1>1, <1>5, <1>6, EmptySeq
<1>8. \A i \in 1 .. Len(stack) : Outer(me)[i] = e(i)
  BY <1>3
<1>9. Outer(me)[1] = stack[1]
  <2>1. 1 \in 1 .. Len(stack)
    BY <1>1
  <2>2. e(1) = stack[1]
    BY DEF e
  <2> QED
    BY <1>8, <2>1, <2>2
<1>10. ASSUME NEW i \in 2 .. Len(stack)
       PROVE  Outer(me)[i] = [stack[i] EXCEPT !.inner = @ \cup {me}]
  <2>1. i \in 1 .. Len(stack) /\ i # 1
    BY <1>1
  <2> QED
    BY <1>8, <2>1 DEF e
<1> QED
  BY <1>5, <1>6, <1>7, <1>9, <1>10

LEMMA NoteOne ==
  ASSUME NEW c \in ContextType, NEW me \in Me
  PROVE  LET d == [c EXCEPT !.inner = @ \cup {me}]
         IN  d.inner = c.inner \cup {me} /\ d.me = c.me /\ d.phase = c.phase /\ d.kind = c.kind
BY DEF ContextType

(* A new request goes on top.                                              *)
LEMMA PushFacts ==
  ASSUME TypeOK, NEW me \in Me, NEW c \in ContextType, stack' = Append(Outer(me), c)
  PROVE  /\ stack' \in Seq(ContextType) /\ stack' # <<>>
         /\ Len(stack') = Len(stack) + 1
         /\ stack'[1] = stack[1]
         /\ \A i \in 2 .. Len(stack) : stack'[i] = [stack[i] EXCEPT !.inner = @ \cup {me}]
         /\ stack'[Len(stack) + 1] = c /\ Top' = c
<1>1. Outer(me) \in Seq(ContextType) /\ Len(Outer(me)) = Len(stack)
  BY OuterFacts
<1>2. /\ stack' \in Seq(ContextType) /\ stack' # <<>>
      /\ Len(stack') = Len(stack) + 1
      /\ \A i \in 1 .. Len(stack) : stack'[i] = Outer(me)[i]
      /\ stack'[Len(stack) + 1] = c
  BY <1>1, AppendProperties
<1>3. Len(stack) \in Nat \ {0}
  BY StackFacts
<1>4. Top' = stack'[Len(stack')]
  BY DEF Top, Last
<1> QED
  BY <1>2, <1>3, <1>4, OuterFacts

LEMMA NoteFacts ==
  ASSUME TypeOK, NEW me \in Me, stack' = Outer(me)
  PROVE  /\ stack' \in Seq(ContextType) /\ stack' # <<>>
         /\ Len(stack') = Len(stack)
         /\ stack'[1] = stack[1]
         /\ \A i \in 2 .. Len(stack) : stack'[i] = [stack[i] EXCEPT !.inner = @ \cup {me}]
         /\ Top' = stack'[Len(stack)]
BY OuterFacts DEF Top, Last

(* The innermost request returns.                                          *)
LEMMA PopFacts ==
  ASSUME TypeOK, stack' = Front(stack), Len(stack) > 1
  PROVE  /\ stack' \in Seq(ContextType) /\ stack' # <<>>
         /\ Len(stack') = Len(stack) - 1
         /\ \A i \in 1 .. Len(stack) - 1 : stack'[i] = stack[i]
         /\ Top' = stack[Len(stack) - 1]
<1>1. Len(stack) \in Nat \ {0} /\ stack \in [1 .. Len(stack) -> ContextType]
  BY StackFacts
<1>2. stack' = SubSeq(stack, 1, Len(stack) - 1)
  BY DEF Front
<1>3. \A i \in 1 .. Len(stack) - 1 : stack[i] \in ContextType
  BY <1>1
<1>4. stack' \in Seq(ContextType) /\ Len(stack') = Len(stack) - 1
  BY <1>1, <1>2, <1>3, SubSeqProperties
<1>5. \A i \in 1 .. Len(stack) - 1 : stack'[i] = stack[1 + i - 1]
  BY <1>1, <1>2, <1>3, SubSeqProperties
<1>6. stack' # <<>>
  BY <1>1, <1>4, EmptySeq
<1>7. Top' = stack'[Len(stack')]
  BY DEF Top, Last
<1> QED
  BY <1>1, <1>4, <1>5, <1>6, <1>7

-----------------------------------------------------------------------------
(* Types.                                                                  *)

(* What is said of s_ctrl, apart from its place in TypeOK.                 *)
CtrlOK(c) == c \in CtrlType /\ (c.initialized => c.nextUid # 0)

LEMMA ConstantFacts ==
  /\ UidMod \in Nat /\ UidMod > 2 /\ Timeout \in Nat \ {0}
  /\ MaxCalls \in Nat /\ MaxNest \in Nat /\ MaxEvents \in Nat /\ MaxRestart \in Nat
  /\ "none" \notin Kind /\ "loop" \notin Kind
  /\ NoMe \in Me
BY CtrlAssumption DEF Me, NoMe

LEMMA ClearedOK == CtrlOK(Cleared)
BY ConstantFacts DEF CtrlOK, Cleared, CtrlType

LEMMA InitializedOK ==
  ASSUME NEW c, CtrlOK(c)
  PROVE  CtrlOK(Initialized(c)) /\ Initialized(c).initialized
<1>1. CASE c.initialized
  BY <1>1 DEF Initialized
<1>2. CASE ~c.initialized
  <2> DEFINE d == [Cleared EXCEPT !.initialized = TRUE, !.nextUid = 1]
  <2>1. Initialized(c) = d
    BY <1>2 DEF Initialized
  <2>2. 1 \in 0 .. UidMod - 1
    BY ConstantFacts
  <2>3. d \in CtrlType /\ d.initialized /\ d.nextUid = 1
    BY ClearedOK, <2>2 DEF CtrlOK, CtrlType
  <2> QED
    BY <2>1, <2>3 DEF CtrlOK
<1> QED
  BY <1>1, <1>2

LEMMA NumberedOK ==
  ASSUME NEW c, NEW k \in Kind, CtrlOK(c), c.initialized
  PROVE  /\ CtrlOK(Numbered(c, k)) /\ Numbered(c, k).initialized
         /\ c.nextUid \in 1 .. UidMod - 1
<1>1. c.nextUid \in 1 .. UidMod - 1 /\ c \in CtrlType
  BY ConstantFacts DEF CtrlOK, CtrlType
<1> DEFINE n == NextUid(c.nextUid)
<1>2. n \in 0 .. UidMod - 1 /\ n # 0
  BY <1>1, ConstantFacts DEF NextUid
<1>3. Numbered(c, k) = [c EXCEPT !.nextUid = n, !.connected = @ /\ k # "disconnect"]
  BY DEF Numbered
<1> HIDE DEF n
<1>4. Numbered(c, k) \in CtrlType /\ Numbered(c, k).nextUid = n /\ Numbered(c, k).initialized
  BY <1>1, <1>2, <1>3 DEF CtrlType
<1> QED
  BY <1>1, <1>2, <1>4 DEF CtrlOK

LEMMA ResetsOK ==
  ASSUME NEW c, CtrlOK(c)
  PROVE  CtrlOK(ResetResponse(c)) /\ CtrlOK(ResetWait(c)) /\ CtrlOK(TxFailed(c))
BY ConstantFacts DEF CtrlOK, ResetResponse, ResetWait, TxFailed, CtrlType

LEMMA EventOK ==
  ASSUME NEW type \in {"init", "conn", "disc"}, NEW ok \in BOOLEAN, NEW n \in 0 .. MaxEvents
  PROVE  Event(type, ok, n) \in Frame
BY ConstantFacts DEF Event, Frame, Code

(* The context of a request that begins.                                   *)
NewTop(k, me) == [Loop EXCEPT !.kind = k, !.me = me]

LEMMA TopOK ==
  ASSUME NEW k \in Kind, NEW me \in Me
  PROVE  /\ NewTop(k, me) \in ContextType
         /\ NewTop(k, me).kind = k /\ NewTop(k, me).me = me
         /\ NewTop(k, me).phase = "poll" /\ NewTop(k, me).inner = {}
<1>1. Loop \in ContextType /\ Loop.phase = "poll" /\ Loop.inner = {}
  BY ConstantFacts DEF Loop, ContextType
<1> QED
  BY <1>1 DEF NewTop, ContextType

LEMMA TypeInit == Init => TypeInv
<1> SUFFICES ASSUME Init PROVE TypeInv
  OBVIOUS
<1> USE ConstantFacts DEF Init
<1>1. ctrl \in CtrlType /\ (ctrl.initialized => ctrl.nextUid # 0)
  BY ClearedOK DEF CtrlOK
<1>2. Loop \in ContextType
  BY DEF Loop, ContextType
<1>3. stack \in Seq(ContextType) /\ stack # <<>>
  BY <1>2
<1>4. queue \in Seq(Frame) /\ air \in Seq(Frame) /\ wire \in Seq(Request)
  BY EmptySeq
<1>5. TypeOK
  BY <1>1, <1>3, <1>4 DEF TypeOK
<1>6. Bounds
  BY DEF Bounds, NoResult
<1> QED
  BY <1>5, <1>6 DEF TypeInv

(* The parts of TypeInv, for one action at a time.                         *)
HostType == hosted \in BOOLEAN /\ registered \in BOOLEAN /\ CtrlOK(ctrl)
StackType == stack \in Seq(ContextType) /\ stack # <<>>
FrameType == queue \in Seq(Frame) /\ air \in Seq(Frame) /\ wire \in Seq(Request)
PastType == Bounds /\ link \in BOOLEAN /\ known \in BOOLEAN /\ delivered \subseteq Me

LEMMA TypeParts ==
  /\ TypeInv <=> HostType /\ StackType /\ FrameType /\ PastType
  /\ TypeInv' <=> HostType' /\ StackType' /\ FrameType' /\ PastType'
BY DEF TypeInv, TypeOK, HostType, StackType, FrameType, PastType, CtrlOK

(* What a reset of the co-processor leaves of it.                          *)
LEMMA ResetTypes ==
  ASSUME TypeInv, PinPulsed
  PROVE  /\ air' \in Seq(Frame) /\ wire' \in Seq(Request)
         /\ link' \in BOOLEAN /\ known' \in BOOLEAN
         /\ events' \in 0 .. MaxEvents /\ change' \in 0 .. events'
<1>1. /\ air \in Seq(Frame) /\ wire \in Seq(Request)
      /\ link \in BOOLEAN /\ known \in BOOLEAN
      /\ events \in 0 .. MaxEvents /\ change \in 0 .. events /\ MaxEvents \in Nat
  BY ConstantFacts DEF TypeInv, TypeOK, Bounds
<1>2. CASE UNCHANGED <<slave, events, change, known>>
  BY <1>1, <1>2 DEF slave
<1>3. CASE SlaveResets
  <2>1. air' = <<>> /\ wire' = <<>> /\ link' = FALSE
    BY <1>3 DEF SlaveResets
  <2>2. CASE link
    <3>1. events < MaxEvents /\ events' = events + 1 /\ change' = events + 1 /\ known' = FALSE
      BY <1>3, <2>2 DEF SlaveResets
    <3>2. events' \in 0 .. MaxEvents /\ change' \in 0 .. events'
      BY <1>1, <3>1
    <3>3. air' \in Seq(Frame) /\ wire' \in Seq(Request)
      BY <2>1, EmptySeq
    <3>4. link' \in BOOLEAN /\ known' \in BOOLEAN
      BY <2>1, <3>1, Zenon
    <3> QED
      BY <3>2, <3>3, <3>4
  <2>3. CASE ~link
    <3>1. UNCHANGED <<events, change, known>>
      BY <1>3, <2>3 DEF SlaveResets
    <3> QED
      BY <1>1, <2>1, <3>1, EmptySeq
  <2> QED
    BY <2>2, <2>3
<1> QED
  BY <1>2, <1>3 DEF PinPulsed

LEMMA RestartTypes ==
  ASSUME TypeInv, HostedRestarts \/ Reattach \/ CtrlDeinit \/ SetEventCb
  PROVE  TypeInv'
<1> USE TypeParts, ConstantFacts
<1>1. CASE HostedRestarts \/ Reattach
  <2>1. PinPulsed
    BY <1>1 DEF HostedRestarts, Reattach, PinPulsed
  <2>2. /\ air' \in Seq(Frame) /\ wire' \in Seq(Request)
        /\ link' \in BOOLEAN /\ known' \in BOOLEAN
        /\ events' \in 0 .. MaxEvents /\ change' \in 0 .. events'
    BY <2>1, ResetTypes
  <2>3. /\ hosted' \in BOOLEAN /\ registered' \in BOOLEAN
        /\ UNCHANGED <<ctrl, stack, result, calls, epoch, delivered>>
        /\ queue' = <<>> \/ queue' = queue
        /\ restarts' = restarts \/ (restarts < MaxRestart /\ restarts' = restarts + 1)
    BY <1>1 DEF HostedRestarts, Reattach, HostType
  <2>4. HostType' /\ StackType'
    BY <2>3 DEF HostType, StackType
  <2>5. FrameType'
    BY <2>2, <2>3, EmptySeq DEF FrameType
  <2>6. restarts' \in 0 .. MaxRestart /\ epoch' \in 0 .. restarts'
    BY <2>3 DEF PastType, Bounds
  <2>7. PastType'
    BY <2>2, <2>3, <2>6 DEF PastType, Bounds
  <2> QED
    BY <2>4, <2>5, <2>7
<1>2. CASE CtrlDeinit
  <2> USE <1>2 DEF CtrlDeinit, slave, history
  <2>1. HostType' /\ StackType'
    BY ClearedOK DEF HostType, StackType
  <2>2. FrameType'
    BY DEF FrameType
  <2>3. restarts' \in 0 .. MaxRestart /\ epoch' \in 0 .. restarts'
    BY DEF PastType, Bounds
  <2>4. PastType'
    BY <2>3 DEF PastType, Bounds
  <2> QED
    BY <2>1, <2>2, <2>4
<1>3. CASE SetEventCb
  <2> USE <1>3 DEF SetEventCb, slave, history
  <2>1. CtrlOK(ctrl')
    BY InitializedOK DEF HostType, CtrlOK, CtrlType
  <2>2. HostType' /\ StackType' /\ FrameType'
    BY <2>1 DEF HostType, StackType, FrameType
  <2>3. PastType'
    BY DEF PastType, Bounds
  <2> QED
    BY <2>2, <2>3
<1> QED
  BY <1>1, <1>2, <1>3

LEMMA RequestTypes ==
  ASSUME TypeInv, NEW k \in Kind, RequestBegin(k)
  PROVE  TypeInv'
<1> USE TypeParts, ConstantFacts
<1> DEFINE me == [serial |-> calls + 1, epoch |-> epoch]
           uid == Initialized(ctrl).nextUid
           n == Numbered(Initialized(ctrl), k)
           c == [n EXCEPT !.waiting = TRUE, !.waitUid = uid, !.waitKind = k]
           r == [kind |-> k, uid |-> uid, of |-> me]
           sent == Append(wire, r)
           top == NewTop(k, me)
<1>1. calls \in 0 .. MaxCalls - 1 /\ calls + 1 \in 0 .. MaxCalls /\ epoch \in 0 .. MaxRestart
  BY SMTT(30) DEF PastType, Bounds, RequestBegin
<1>2. me \in Me
  BY <1>1 DEF Me
<1>3. uid \in 1 .. UidMod - 1 /\ CtrlOK(n) /\ n.initialized
  BY InitializedOK, NumberedOK DEF HostType
<1>4. uid \in 0 .. UidMod - 1
  BY <1>3
<1> HIDE DEF uid, n
<1>5. CtrlOK(c) /\ c.initialized
  BY <1>3, <1>4 DEF CtrlOK, CtrlType
<1>6. r \in Request
  BY <1>2, <1>4 DEF Request
<1>7. sent \in Seq(Request)
  BY <1>6, AppendProperties DEF FrameType
<1>8. top \in ContextType
  BY <1>2, TopOK
<1>9. CtrlOK(ResetResponse(c)) /\ CtrlOK(TxFailed(ResetResponse(c)))
  BY <1>5, ResetsOK
<1>10. NoResult \in [me : Me, rc : Code \cup {"none", "state", "proto", "tx", "timeout", "mismatch"},
                     from : Me, inner : SUBSET Me]
  BY DEF NoResult
<1>11. TypeOK
  BY DEF TypeInv
<1>12. \/ /\ ~hosted
          /\ result' = [NoResult EXCEPT !.me = me, !.rc = "state"]
          /\ UNCHANGED <<registered, ctrl, stack, wire, known, calls>>
       \/ /\ calls' = calls + 1
          /\ registered' = TRUE
          /\ known' = (known /\ k # "disconnect")
          /\ \/ /\ ctrl' = ResetResponse(c)
                /\ wire' = sent
                /\ stack' = Append(Outer(me), top)
                /\ UNCHANGED result
             \/ /\ ctrl' = TxFailed(ResetResponse(c))
                /\ wire' \in {wire, sent}
                /\ result' = [NoResult EXCEPT !.me = me, !.rc = "tx"]
                /\ stack' = Outer(me)
  BY DEF RequestBegin, uid, n, NewTop
<1>13. UNCHANGED <<hosted, queue, air, link, epoch, events, restarts, change, delivered>>
  BY DEF RequestBegin
<1> HIDE DEF me, c, sent, top, r
<1>14. HostType'
  BY <1>9, <1>12, <1>13 DEF HostType
<1>15. StackType'
  BY <1>2, <1>8, <1>11, <1>12, PushFacts, NoteFacts DEF StackType
<1>16. FrameType'
  BY <1>7, <1>12, <1>13 DEF FrameType
<1>17. result' \in [me : Me, rc : Code \cup {"none", "state", "proto", "tx", "timeout", "mismatch"},
                    from : Me, inner : SUBSET Me]
  BY <1>2, <1>10, <1>12 DEF PastType, Bounds
<1>18. PastType'
  BY <1>1, <1>12, <1>13, <1>17 DEF PastType, Bounds
<1> QED
  BY <1>14, <1>15, <1>16, <1>18

LEMMA UnencodedTypes ==
  ASSUME TypeInv, RequestUnencoded
  PROVE  TypeInv'
<1> USE TypeParts, ConstantFacts
<1> DEFINE me == [serial |-> calls + 1, epoch |-> epoch]
           old == Initialized(ctrl)
<1>1. calls + 1 \in 0 .. MaxCalls /\ epoch \in 0 .. MaxRestart
  BY SMTT(30) DEF PastType, Bounds, RequestUnencoded
<1>2. me \in Me
  BY <1>1 DEF Me
<1>3. CtrlOK(old) /\ old.initialized
  BY InitializedOK DEF HostType
<1>4. /\ ctrl' = [old EXCEPT !.nextUid = NextUid(@)]
      /\ result' = [NoResult EXCEPT !.me = me, !.rc = "proto"]
      /\ registered' = TRUE /\ calls' = calls + 1
      /\ UNCHANGED <<hosted, stack, queue, slave, epoch, events, restarts, change, known, delivered>>
  BY DEF RequestUnencoded
<1> HIDE DEF me, old
<1>5. CtrlOK(ctrl')
  <2>1. old \in CtrlType /\ old.nextUid \in 1 .. UidMod - 1
    BY <1>3 DEF CtrlOK, CtrlType
  <2>2. NextUid(old.nextUid) \in 0 .. UidMod - 1 /\ NextUid(old.nextUid) # 0
    BY <2>1 DEF NextUid
  <2> QED
    BY <1>4, <2>1, <2>2 DEF CtrlOK, CtrlType
<1>6. result' \in [me : Me, rc : Code \cup {"none", "state", "proto", "tx", "timeout", "mismatch"},
                   from : Me, inner : SUBSET Me]
  BY <1>2, <1>4 DEF NoResult
<1>7. HostType' /\ StackType' /\ FrameType'
  BY <1>4, <1>5 DEF HostType, StackType, FrameType, slave
<1>8. PastType'
  BY <1>1, <1>4, <1>6 DEF PastType, Bounds, slave
<1> QED
  BY <1>7, <1>8

LEMMA RetopTypes ==
  ASSUME TypeInv, NEW c \in ContextType, Retop(c)
  PROVE  StackType'
BY RetopFacts DEF TypeInv, StackType

LEMMA PollTypes ==
  ASSUME TypeInv, Poll
  PROVE  TypeInv'
<1> USE TypeParts, ConstantFacts DEF Poll
<1>1. TypeOK
  BY DEF TypeInv
<1>2. StackType'
  BY <1>1, SetPhaseRetops, RetopTypes
<1>3. queue' \in Seq(Frame) /\ air' \in Seq(Frame)
  <2>1. CASE ~hosted
    BY <2>1 DEF FrameType
  <2>2. CASE hosted
    <3>1. PICK n \in 0 .. Len(air) : /\ queue' = queue \o SubSeq(air, 1, n)
                                     /\ air' = SubSeq(air, n + 1, Len(air))
      BY <2>2
    <3>2. Len(air) \in Nat /\ \A i \in 1 .. Len(air) : air[i] \in Frame
      BY LenProperties DEF FrameType
    <3>3. n \in Int /\ n + 1 \in Int /\ 1 .. n \subseteq 1 .. Len(air) /\ n + 1 .. Len(air) \subseteq 1 .. Len(air)
      BY <3>2
    <3>4. SubSeq(air, 1, n) \in Seq(Frame) /\ SubSeq(air, n + 1, Len(air)) \in Seq(Frame)
      BY <3>2, <3>3, SubSeqProperties
    <3> QED
      BY <3>1, <3>4, ConcatProperties DEF FrameType
  <2> QED
    BY <2>1, <2>2
<1>4. FrameType'
  BY <1>3 DEF FrameType
<1>5. HostType'
  BY DEF HostType
<1>6. PastType'
  BY DEF PastType, Bounds, NoResult, history
<1> QED
  BY <1>2, <1>4, <1>5, <1>6

LEMMA DispatchTypes ==
  ASSUME TypeInv, DispatchOne
  PROVE  TypeInv'
<1> USE TypeParts, ConstantFacts DEF DispatchOne
<1>1. TypeOK /\ queue \in Seq(Frame) /\ queue # <<>>
  BY DEF TypeInv, TypeOK
<1> DEFINE f == Head(queue)
           c == [ctrl EXCEPT !.ready = (@ \/ f.type = "init"),
                             !.connected = (@ \/ LinkUp(f)) /\ ~LinkDown(f)]
           d == [c EXCEPT !.seen = TRUE, !.code = f.code, !.from = f.of,
                          !.fields = IF f.code = "bad" THEN @ ELSE f.kind]
<1>2. f \in Frame /\ queue' \in Seq(Frame)
  BY <1>1, HeadTailProperties
<1>3. ctrl' \in {ctrl, c, d} /\ delivered' \in {delivered, delivered \cup {f.of}}
  OBVIOUS
<1> HIDE DEF f
<1>4. CtrlOK(c)
  <2> DEFINE ready == ctrl.ready \/ f.type = "init"
             connected == (ctrl.connected \/ LinkUp(f)) /\ ~LinkDown(f)
  <2>1. ready \in BOOLEAN /\ connected \in BOOLEAN
    OBVIOUS
  <2>2. c = [ctrl EXCEPT !.ready = ready, !.connected = connected]
    OBVIOUS
  <2> HIDE DEF ready, connected, c
  <2> QED
    BY <2>1, <2>2 DEF HostType, CtrlOK, CtrlType
<1>5. f.code \in Code /\ f.of \in Me /\ f.kind \in Kind \cup {"none"}
  BY <1>2 DEF Frame
<1> HIDE DEF c
<1>6. CtrlOK(d)
  BY <1>4, <1>5 DEF CtrlOK, CtrlType
<1> HIDE DEF d
<1>7. HostType'
  BY <1>3, <1>4, <1>6 DEF HostType
<1>8. StackType'
  <2>1. SetPhase("callback") \/ UNCHANGED stack
    OBVIOUS
  <2> QED
    BY <1>1, <2>1, SetPhaseRetops, RetopTypes DEF StackType
<1>9. FrameType'
  BY <1>2 DEF FrameType, slave
<1>10. delivered' \subseteq Me
  BY <1>3, <1>5 DEF PastType
<1>11. known' \in BOOLEAN
  BY DEF PastType
<1>12. PastType'
  BY <1>10, <1>11 DEF PastType, Bounds, slave
<1> QED
  BY <1>7, <1>8, <1>9, <1>12

LEMMA ReturnTypes ==
  ASSUME TypeInv, CallbackReturn \/ DispatchEnd
  PROVE  TypeInv'
<1> USE TypeParts, ConstantFacts
<1>1. TypeOK
  BY DEF TypeInv
<1>2. SetPhase("dispatch") \/ SetPhase("poll") \/ SetPhase("look")
  BY DEF CallbackReturn, DispatchEnd
<1>3. StackType'
  BY <1>1, <1>2, SetPhaseRetops, RetopTypes
<1>4. /\ UNCHANGED <<hosted, registered, ctrl, queue, slave, history>>
      /\ result' \in {result, NoResult}
  BY DEF CallbackReturn, DispatchEnd
<1>5. HostType' /\ FrameType'
  BY <1>4 DEF HostType, FrameType, slave
<1>6. PastType'
  BY <1>4 DEF PastType, Bounds, NoResult, slave, history
<1> QED
  BY <1>3, <1>5, <1>6

(* The loop itself never looks: what returns is a request.                 *)
Inside == Top.phase = "look" => Len(stack) > 1

LEMMA LookTypes ==
  ASSUME TypeInv, Look, Inside
  PROVE  TypeInv'
<1> USE TypeParts, ConstantFacts
<1>1. TypeOK /\ Top \in ContextType /\ Len(stack) > 1 /\ Top.phase = "look"
  BY StackFacts DEF TypeInv, Inside, Look
<1>2. CASE Returns(ReturnCode) \/ Returns("timeout")
  <2>1. PICK rc \in {ReturnCode, "timeout"} : Returns(rc)
    BY <1>2
  <2> USE DEF Returns, slave, history
  <2>2. CtrlOK(ctrl')
    BY <2>1, ResetsOK DEF HostType
  <2>3. HostType' /\ FrameType'
    BY <2>1, <2>2 DEF HostType, FrameType
  <2>4. StackType'
    BY <2>1, <1>1, PopFacts DEF StackType
  <2>5. ctrl.code \in Code \cup {"timeout"} /\ ctrl.from \in Me
    BY DEF HostType, CtrlOK, CtrlType
  <2>6. rc \in Code \cup {"timeout", "mismatch"}
    BY <2>5 DEF ReturnCode
  <2>7. Top.me \in Me /\ Top.inner \subseteq Me
    BY <1>1 DEF ContextType
  <2>8. result' \in [me : Me, rc : Code \cup {"none", "state", "proto", "tx", "timeout", "mismatch"},
                     from : Me, inner : SUBSET Me]
    BY <2>1, <2>5, <2>6, <2>7
  <2>9. PastType'
    BY <2>1, <2>8 DEF PastType, Bounds
  <2> QED
    BY <2>3, <2>4, <2>9
<1>3. CASE /\ Elapsed(Top.waited) < Timeout
           /\ stack' = [stack EXCEPT ![Len(stack)].phase = "poll",
                                     ![Len(stack)].waited = Elapsed(@)]
           /\ UNCHANGED <<hosted, registered, ctrl, queue, result, slave, history>>
  <2> DEFINE w == Elapsed(Top.waited)
             c == [Top EXCEPT !.phase = "poll", !.waited = w]
  <2>1. Top.waited \in 0 .. Timeout - 1
    BY <1>1 DEF ContextType
  <2>2. w \in 0 .. Timeout - 1
    BY <2>1, <1>3 DEF Elapsed
  <2>3. /\ Len(stack) \in 1 .. Len(stack) /\ stack \in [1 .. Len(stack) -> ContextType]
        /\ Top = stack[Len(stack)]
    BY <1>1, StackFacts
  <2> HIDE DEF w
  <2>4. c \in ContextType
    BY <1>1, <2>2 DEF ContextType
  <2>5. stack' = [stack EXCEPT ![Len(stack)] = c]
    BY <1>3, <2>3 DEF w
  <2>6. StackType'
    BY <2>4, <2>5, RetopTypes DEF Retop
  <2>7. HostType' /\ FrameType' /\ PastType'
    BY <1>3 DEF HostType, FrameType, PastType, Bounds, slave, history
  <2> QED
    BY <2>6, <2>7
<1>4. ~(Elapsed(Top.waited) >= Timeout) => Elapsed(Top.waited) < Timeout
  <2>1. Top.waited \in Nat
    BY <1>1 DEF ContextType
  <2> QED
    BY <2>1 DEF Elapsed
<1> QED
  BY <1>2, <1>3, <1>4 DEF Look

LEMMA SlaveTypes ==
  ASSUME TypeInv, SlaveHandles \/ SlaveIgnores \/ SlaveEvent \/ SlaveRestarts \/ FrameLost
  PROVE  TypeInv'
<1> USE TypeParts, ConstantFacts
<1>1. queue \in Seq(Frame) /\ air \in Seq(Frame) /\ wire \in Seq(Request)
  BY DEF FrameType
<1>2. \A e \in Frame : Append(air, e) \in Seq(Frame) /\ air \o <<e>> \in Seq(Frame)
  BY <1>1, AppendProperties, AppendIsConcat
<1>3. \A d, e \in Frame : air \o <<d>> \o <<e>> \in Seq(Frame)
  <2> SUFFICES ASSUME NEW d \in Frame, NEW e \in Frame PROVE air \o <<d>> \o <<e>> \in Seq(Frame)
    OBVIOUS
  <2>1. air \o <<d>> \in Seq(Frame)
    BY <1>2
  <2> QED
    BY <2>1, ConcatProperties
<1>4. events < MaxEvents => events + 1 \in 0 .. MaxEvents
  BY DEF PastType, Bounds
<1>5. CASE SlaveHandles
  <2> USE <1>5 DEF SlaveHandles
  <2>1. Head(wire) \in Request /\ Tail(wire) \in Seq(Request)
    BY <1>1, HeadTailProperties
  <2> DEFINE r == Head(wire)
             answer(code) == [type |-> "resp", kind |-> r.kind, uid |-> r.uid, of |-> r.of,
                              code |-> code, ok |-> TRUE, last |-> 0]
             gone == Event("disc", TRUE, events + 1)
  <2>2. PICK code \in Code :
          \/ /\ events < MaxEvents
             /\ link' = FALSE /\ events' = events + 1 /\ change' = events + 1 /\ known' = FALSE
             /\ air' \in {air \o <<answer(code)>> \o <<gone>>, air \o <<gone>> \o <<answer(code)>>}
          \/ /\ air' = air \o <<answer(code)>>
             /\ UNCHANGED <<link, events, change, known>>
    OBVIOUS
  <2> HIDE DEF r
  <2>3. answer(code) \in Frame
    BY <2>1 DEF r, Frame, Request
  <2>4. events < MaxEvents => gone \in Frame
    BY <1>4, EventOK
  <2> HIDE DEF answer, gone
  <2>5. air' \in Seq(Frame)
    BY <1>2, <1>3, <2>2, <2>3, <2>4
  <2>6. FrameType' /\ HostType' /\ StackType'
    BY <2>1, <2>5 DEF FrameType, HostType, StackType
  <2>7. events' \in 0 .. MaxEvents /\ change' \in 0 .. events' /\ link' \in BOOLEAN /\ known' \in BOOLEAN
    <3>1. events \in 0 .. MaxEvents /\ change \in 0 .. events /\ link \in BOOLEAN /\ known \in BOOLEAN
      BY DEF PastType, Bounds
    <3>2. events' \in 0 .. MaxEvents /\ change' \in 0 .. events'
      BY <1>4, <2>2, <3>1
    <3>3. link' \in BOOLEAN /\ known' \in BOOLEAN
      BY <2>2, <3>1, Zenon
    <3> QED
      BY <3>2, <3>3
  <2>8. PastType'
    BY <2>7 DEF PastType, Bounds
  <2> QED
    BY <2>6, <2>8
<1>6. CASE SlaveIgnores
  <2> USE <1>6 DEF SlaveIgnores, history
  <2>1. Tail(wire) \in Seq(Request)
    BY <1>1, HeadTailProperties
  <2>2. FrameType' /\ HostType' /\ StackType'
    BY <2>1 DEF FrameType, HostType, StackType
  <2>3. PastType'
    BY DEF PastType, Bounds
  <2> QED
    BY <2>2, <2>3
<1>7. CASE SlaveEvent
  <2> USE <1>7 DEF SlaveEvent
  <2>1. events + 1 \in 0 .. MaxEvents
    BY <1>4
  <2>2. \A type \in {"init", "conn", "disc"}, ok \in BOOLEAN : Event(type, ok, events + 1) \in Frame
    BY <2>1, EventOK
  <2>3. air' \in Seq(Frame)
    BY <1>2, <2>2
  <2>4. FrameType' /\ HostType' /\ StackType'
    BY <2>3 DEF FrameType, HostType, StackType
  <2>5. events' \in 0 .. MaxEvents /\ change' \in 0 .. events' /\ link' \in BOOLEAN /\ known' \in BOOLEAN
    <3>1. events \in 0 .. MaxEvents /\ change \in 0 .. events /\ link \in BOOLEAN /\ known \in BOOLEAN
      BY DEF PastType, Bounds
    <3>2. change' \in {change, events + 1} /\ link' \in {link, TRUE, FALSE} /\ known' \in {known, FALSE}
      OBVIOUS
    <3>3. events' \in 0 .. MaxEvents /\ change' \in 0 .. events'
      BY <2>1, <3>1, <3>2
    <3>4. link' \in BOOLEAN /\ known' \in BOOLEAN
      BY <3>1, <3>2, Zenon
    <3> QED
      BY <3>3, <3>4
  <2>6. PastType'
    BY <2>5 DEF PastType, Bounds
  <2> QED
    BY <2>4, <2>6
<1>8. CASE FrameLost
  <2> USE <1>8 DEF FrameLost, history
  <2>1. Tail(air) \in Seq(Frame)
    BY <1>1, HeadTailProperties
  <2>2. FrameType' /\ HostType' /\ StackType'
    BY <2>1 DEF FrameType, HostType, StackType
  <2>3. PastType'
    BY DEF PastType, Bounds
  <2> QED
    BY <2>2, <2>3
<1>9. CASE SlaveRestarts
  <2> USE <1>9 DEF SlaveRestarts
  <2>1. events + 1 \in 0 .. MaxEvents
    BY <1>4
  <2>2. Event("init", TRUE, events + 1) \in Frame
    BY <2>1, EventOK
  <2>3. air' \in Seq(Frame) /\ wire' \in Seq(Request)
    <3> DEFINE e == Event("init", TRUE, events + 1)
    <3>1. e \in Frame /\ air' = <<e>> /\ wire' = <<>>
      BY <2>2
    <3> HIDE DEF e
    <3>2. \A d \in Frame : <<d>> \in Seq(Frame)
      OBVIOUS
    <3> QED
      BY <3>1, <3>2, EmptySeq
  <2>4. FrameType' /\ HostType' /\ StackType'
    BY <2>3 DEF FrameType, HostType, StackType
  <2>5. events \in 0 .. MaxEvents /\ change \in 0 .. events /\ link \in BOOLEAN /\ known \in BOOLEAN
    BY DEF PastType, Bounds
  <2>6. events' = events + 1 /\ change' \in {change, events + 1}
    BY SMT
  <2>7. events' \in 0 .. MaxEvents /\ change' \in 0 .. events'
    BY <2>1, <2>5, <2>6
  <2>8. link' \in BOOLEAN /\ known' \in BOOLEAN
    <3>1. link' = FALSE /\ known' = (known /\ ~link)
      BY Zenon
    <3> QED
      BY <3>1, Zenon
  <2>9. PastType'
    BY <2>7, <2>8 DEF PastType, Bounds
  <2> QED
    BY <2>4, <2>9
<1> QED
  BY <1>5, <1>6, <1>7, <1>8, <1>9

-----------------------------------------------------------------------------
(* The shape of the stack: below the innermost context every other waits   *)
(* in the application's code, and each knows all that was made inside it.  *)
Shape ==
    /\ stack[1].kind = "loop" /\ stack[1].phase # "look"
    /\ \A i \in 2 .. Len(stack) : stack[i].me.epoch <= epoch /\ stack[i].me.serial <= calls
    /\ \A i \in 1 .. Len(stack) - 1 : stack[i].phase \in {"poll", "callback"}
    /\ \A i \in 2 .. Len(stack) - 1 :
          stack[i + 1].me \in stack[i].inner /\ stack[i + 1].inner \subseteq stack[i].inner

(* Without esp_hosted_ctrl_init nothing is registered, and no request of   *)
(* this epoch is under way.                                                *)
Uninitialized ==
    ~ctrl.initialized =>
        /\ ctrl = Cleared /\ ~registered
        /\ \A i \in 2 .. Len(stack) : stack[i].me.epoch # epoch

(* WaitingIsInnermost, and of this epoch.                                  *)
Waits ==
    ctrl.waiting =>
        /\ Len(stack) > 1
        /\ Top.kind = ctrl.waitKind /\ Top.inner = {} /\ Top.me.epoch = epoch

WaitInv == TypeInv /\ Shape /\ Uninitialized /\ Waits

LEMMA ShapeInside ==
  ASSUME TypeInv, Shape
  PROVE  Inside
<1> DEFINE n == Len(stack)
<1>1. n \in Nat \ {0} /\ Top = stack[n]
  BY StackFacts DEF TypeInv
<1>2. stack[1].phase # "look"
  BY DEF Shape
<1> HIDE DEF n
<1>3. Top.phase = "look" => n > 1
  BY <1>1, <1>2
<1> QED
  BY <1>3 DEF Inside, n

(* One more round of a request's loop.                                     *)
NextRound ==
    /\ Top.phase = "look"
    /\ stack' = [stack EXCEPT ![Len(stack)].phase = "poll",
                              ![Len(stack)].waited = Elapsed(@)]
    /\ UNCHANGED <<hosted, registered, ctrl, queue, result, slave, history>>

LEMMA LookCases ==
  ASSUME Look
  PROVE  \/ ctrl.seen /\ Returns(ReturnCode)
         \/ ~ctrl.seen /\ Returns("timeout")
         \/ NextRound
BY DEF Look, NextRound

(* The actions in which no request begins or returns.                      *)
Within ==
    \/ HostedRestarts \/ Reattach \/ CtrlDeinit \/ SetEventCb
    \/ Poll \/ DispatchOne \/ CallbackReturn \/ DispatchEnd \/ NextRound
    \/ SlaveHandles \/ SlaveIgnores \/ SlaveEvent \/ SlaveRestarts \/ FrameLost

LEMMA NextCases ==
  ASSUME [Next]_vars
  PROVE  \/ Within
         \/ Look /\ ctrl.seen /\ Returns(ReturnCode)
         \/ Look /\ ~ctrl.seen /\ Returns("timeout")
         \/ \E k \in Kind : RequestBegin(k)
         \/ RequestUnencoded
         \/ UNCHANGED vars
BY LookCases DEF Next, HostStep, Within

(* Such a step at most changes where the innermost context is.             *)
Stays ==
    /\ Len(stack') = Len(stack)
    /\ \A i \in 1 .. Len(stack) - 1 : stack'[i] = stack[i]
    /\ \A i \in 1 .. Len(stack) :
          /\ stack'[i].kind = stack[i].kind /\ stack'[i].me = stack[i].me
          /\ stack'[i].inner = stack[i].inner
    /\ stack'[1].phase = "look" => stack[1].kind # "loop" \/ stack[1].phase = "look"
    /\ Top' = stack'[Len(stack)]

LEMMA RetopStays ==
  ASSUME TypeOK, NEW c \in ContextType, Retop(c),
         c.kind = Top.kind, c.me = Top.me, c.inner = Top.inner,
         c.phase = "look" => Top.kind # "loop"
  PROVE  Stays
<1>1. /\ Len(stack) \in Nat \ {0} /\ Top = stack[Len(stack)]
      /\ Len(stack') = Len(stack)
      /\ \A i \in 1 .. Len(stack) - 1 : stack'[i] = stack[i]
      /\ stack'[Len(stack)] = c /\ Top' = c
  BY StackFacts, RetopFacts
<1>2. \A i \in 1 .. Len(stack) : i \in 1 .. Len(stack) - 1 \/ i = Len(stack)
  BY <1>1
<1>3. 1 \in 1 .. Len(stack) - 1 \/ 1 = Len(stack)
  BY <1>1
<1> QED
  BY <1>1, <1>2, <1>3 DEF Stays

LEMMA SameStays ==
  ASSUME TypeOK, UNCHANGED stack
  PROVE  Stays
BY StackFacts DEF Stays, Top, Last

LEMMA WithinStays ==
  ASSUME TypeInv, Within
  PROVE  Stays
<1>1. TypeOK /\ Top \in ContextType
  BY StackFacts DEF TypeInv
<1>2. ASSUME NEW p \in {"poll", "dispatch", "callback", "look"}, SetPhase(p),
             p = "look" => Top.kind # "loop"
      PROVE  Stays
  <2> DEFINE c == [Top EXCEPT !.phase = p]
  <2>1. Retop(c) /\ c \in ContextType
    BY <1>1, <1>2, SetPhaseRetops
  <2>2. c.kind = Top.kind /\ c.me = Top.me /\ c.inner = Top.inner /\ c.phase = p
    BY <1>1 DEF ContextType
  <2> HIDE DEF c
  <2> QED
    BY <1>1, <1>2, <2>1, <2>2, RetopStays
<1>3. CASE NextRound
  <2> DEFINE w == Elapsed(Top.waited)
             c == [Top EXCEPT !.phase = "poll", !.waited = w]
  <2>1. stack \in [1 .. Len(stack) -> ContextType] /\ Len(stack) \in 1 .. Len(stack) /\ Top = stack[Len(stack)]
    BY <1>1, StackFacts
  <2>2. stack' = [stack EXCEPT ![Len(stack)] = c]
    BY <1>3, <2>1 DEF NextRound
  <2>3. c.kind = Top.kind /\ c.me = Top.me /\ c.inner = Top.inner /\ c.phase = "poll"
    BY <1>1 DEF ContextType
  <2> HIDE DEF c
  <2>4. /\ Len(stack') = Len(stack)
        /\ \A j \in 1 .. Len(stack) : stack'[j] = IF j = Len(stack) THEN c ELSE stack[j]
    <3>1. DOMAIN stack' = 1 .. Len(stack)
      BY <2>1, <2>2
    <3>2. stack' \in [1 .. Len(stack) -> UNION {ContextType, {c}}]
      BY <2>1, <2>2
    <3>3. stack' \in Seq(UNION {ContextType, {c}})
      BY <2>1, <3>2, SeqDef, StackFacts, <1>1
    <3> QED
      BY <2>1, <2>2, <3>1, <3>3, LenProperties, StackFacts, <1>1
  <2>5. Top' = stack'[Len(stack)]
    BY <2>4 DEF Top, Last
  <2>6. Len(stack) \in Nat \ {0}
    BY <1>1, StackFacts
  <2>7. \A i \in 1 .. Len(stack) - 1 : i \in 1 .. Len(stack) /\ i # Len(stack)
    BY <2>6
  <2>8. \A i \in 1 .. Len(stack) : i # Len(stack) => stack'[i] = stack[i]
    BY <2>4
  <2>9. stack'[Len(stack)] = c
    BY <2>1, <2>4
  <2>10. \A i \in 1 .. Len(stack) :
          /\ stack'[i].kind = stack[i].kind /\ stack'[i].me = stack[i].me
          /\ stack'[i].inner = stack[i].inner
    BY <2>1, <2>3, <2>8, <2>9
  <2>11. 1 \in 1 .. Len(stack)
    BY <2>6
  <2>12. stack'[1].phase = "look" => stack[1].phase = "look"
    BY <2>3, <2>8, <2>9, <2>11
  <2> QED
    BY <2>4, <2>5, <2>7, <2>8, <2>10, <2>12 DEF Stays
<1>4. CASE HostedRestarts \/ Reattach \/ CtrlDeinit \/ SetEventCb
  BY <1>1, <1>4, SameStays DEF HostedRestarts, Reattach, CtrlDeinit, SetEventCb
<1>5. CASE SlaveHandles \/ SlaveIgnores \/ SlaveEvent \/ SlaveRestarts \/ FrameLost
  BY <1>1, <1>5, SameStays DEF SlaveHandles, SlaveIgnores, SlaveEvent, SlaveRestarts, FrameLost
<1>6. CASE Poll \/ CallbackReturn
  BY <1>2, <1>6 DEF Poll, CallbackReturn
<1>7. CASE DispatchOne
  <2>1. SetPhase("callback") \/ UNCHANGED stack
    BY <1>7 DEF DispatchOne
  <2> QED
    BY <1>1, <1>2, <2>1, SameStays
<1>8. CASE DispatchEnd
  BY <1>2, <1>8 DEF DispatchEnd
<1> QED
  BY <1>3, <1>4, <1>5, <1>6, <1>7, <1>8 DEF Within

(* What such a step does to s_ctrl.                                        *)
LEMMA WithinKeeps ==
  ASSUME TypeInv, Uninitialized, Within
  PROVE  /\ calls' = calls /\ epoch' \in {epoch, epoch + 1}
         /\ ctrl'.waiting => /\ ctrl.waiting /\ epoch' = epoch
                             /\ ctrl'.waitKind = ctrl.waitKind /\ ctrl'.waitUid = ctrl.waitUid
         /\ ~ctrl'.initialized => /\ ctrl' = Cleared /\ ~registered'
                                  /\ epoch' = epoch => ~ctrl.initialized
         /\ ctrl.initialized /\ epoch' = epoch =>
                ctrl'.initialized /\ ctrl'.nextUid = ctrl.nextUid
<1>1. /\ ~Cleared.waiting /\ ~Cleared.initialized /\ Cleared \in CtrlType
  BY ClearedOK DEF CtrlOK, Cleared
<1>2. ctrl \in CtrlType
  BY DEF TypeInv, TypeOK
<1>3. epoch \in Nat /\ epoch + 1 # epoch
  BY DEF TypeInv, Bounds
<1>4. CASE /\ UNCHANGED <<ctrl, calls, epoch>>
           /\ registered' = FALSE \/ registered' = registered
  BY <1>4 DEF Uninitialized
<1>5. CASE CtrlDeinit
  BY <1>1, <1>3, <1>5 DEF CtrlDeinit
<1>6. CASE SetEventCb
  <2>1. PICK on \in BOOLEAN : ctrl' = [Initialized(ctrl) EXCEPT !.eventCb = on]
    BY <1>6 DEF SetEventCb
  <2>2. CASE ctrl.initialized
    <3>1. ctrl' = [ctrl EXCEPT !.eventCb = on]
      BY <2>1, <2>2 DEF Initialized
    <3>2. /\ ctrl'.initialized /\ ctrl'.waiting = ctrl.waiting /\ ctrl'.nextUid = ctrl.nextUid
          /\ ctrl'.waitKind = ctrl.waitKind /\ ctrl'.waitUid = ctrl.waitUid
      BY <1>2, <2>2, <3>1 DEF CtrlType
    <3> QED
      BY <1>6, <2>2, <3>2 DEF SetEventCb, history
  <2>3. CASE ~ctrl.initialized
    <3>1. ctrl' = [[Cleared EXCEPT !.initialized = TRUE, !.nextUid = 1] EXCEPT !.eventCb = on]
      BY <2>1, <2>3 DEF Initialized
    <3>2. ctrl'.initialized /\ ~ctrl'.waiting
      BY <1>1, <3>1 DEF CtrlType
    <3> QED
      BY <1>6, <2>3, <3>2 DEF SetEventCb, history
  <2> QED
    BY <2>2, <2>3
<1>7. CASE DispatchOne
  <2> DEFINE f == Head(queue)
             c == [ctrl EXCEPT !.ready = (@ \/ f.type = "init"),
                               !.connected = (@ \/ LinkUp(f)) /\ ~LinkDown(f)]
             d == [c EXCEPT !.seen = TRUE, !.code = f.code, !.from = f.of,
                            !.fields = IF f.code = "bad" THEN @ ELSE f.kind]
  <2>1. /\ registered' = registered /\ UNCHANGED <<calls, epoch>>
        /\ ~registered => ctrl' = ctrl
        /\ registered => ctrl' \in {c, d}
    BY <1>7 DEF DispatchOne
  <2> DEFINE same(e) == /\ e.initialized = ctrl.initialized /\ e.waiting = ctrl.waiting
                        /\ e.waitKind = ctrl.waitKind /\ e.waitUid = ctrl.waitUid
                        /\ e.nextUid = ctrl.nextUid
  <2>2. same(c) /\ same(d)
    BY <1>2 DEF CtrlType
  <2> HIDE DEF c, d
  <2>3. CASE ~registered
    BY <2>1, <2>3, <1>4
  <2>4. CASE registered
    <3>1. ctrl.initialized
      BY <2>4 DEF Uninitialized
    <3> QED
      BY <2>1, <2>2, <2>4, <3>1
  <2> QED
    BY <2>3, <2>4
<1>8. CASE HostedRestarts \/ Reattach
  BY <1>4, <1>8 DEF HostedRestarts, Reattach
<1>9. CASE Poll \/ CallbackReturn \/ DispatchEnd \/ NextRound
  BY <1>4, <1>9 DEF Poll, CallbackReturn, DispatchEnd, NextRound, history
<1>10. CASE SlaveHandles \/ SlaveIgnores \/ SlaveEvent \/ SlaveRestarts \/ FrameLost
  BY <1>4, <1>10 DEF SlaveHandles, SlaveIgnores, SlaveEvent, SlaveRestarts, FrameLost, history
<1> QED
  BY <1>5, <1>6, <1>7, <1>8, <1>9, <1>10 DEF Within

LEMMA WithinWaits ==
  ASSUME WaitInv, Within
  PROVE  Shape' /\ Uninitialized' /\ Waits'
<1> DEFINE n == Len(stack)
<1>1. TypeInv /\ TypeOK /\ Shape /\ Uninitialized /\ Waits
  BY DEF WaitInv, TypeInv
<1>2. n \in Nat \ {0} /\ stack \in [1 .. n -> ContextType] /\ Top = stack[n]
  BY <1>1, StackFacts
<1>3. /\ Len(stack') = n
      /\ \A i \in 1 .. n - 1 : stack'[i] = stack[i]
      /\ \A i \in 1 .. n : /\ stack'[i].kind = stack[i].kind /\ stack'[i].me = stack[i].me
                           /\ stack'[i].inner = stack[i].inner
      /\ stack'[1].phase = "look" => stack[1].kind # "loop" \/ stack[1].phase = "look"
      /\ Top' = stack'[n]
  BY <1>1, WithinStays DEF Stays
<1>4. /\ calls' = calls /\ epoch' \in {epoch, epoch + 1}
      /\ ctrl'.waiting => /\ ctrl.waiting /\ epoch' = epoch
                          /\ ctrl'.waitKind = ctrl.waitKind /\ ctrl'.waitUid = ctrl.waitUid
      /\ ~ctrl'.initialized => /\ ctrl' = Cleared /\ ~registered'
                               /\ epoch' = epoch => ~ctrl.initialized
  BY <1>1, WithinKeeps
<1>5. epoch \in Nat /\ calls \in Nat /\ epoch' \in Nat
  BY <1>1, <1>4 DEF TypeInv, Bounds
<1> HIDE DEF n
<1>6. 1 \in 1 .. n /\ \A i \in 2 .. n : i \in 1 .. n
  BY <1>2
<1>7. \A i \in 2 .. n - 1 : i \in 1 .. n - 1 /\ i \in 1 .. n /\ i + 1 \in 1 .. n
  BY <1>2
<1>8. /\ stack[1].kind = "loop" /\ stack[1].phase # "look"
      /\ \A i \in 2 .. n : stack[i].me.epoch <= epoch /\ stack[i].me.serial <= calls
      /\ \A i \in 1 .. n - 1 : stack[i].phase \in {"poll", "callback"}
      /\ \A i \in 2 .. n - 1 :
            stack[i + 1].me \in stack[i].inner /\ stack[i + 1].inner \subseteq stack[i].inner
  BY <1>1 DEF Shape, n
<1>9. Shape'
  <2>1. stack'[1].kind = "loop" /\ stack'[1].phase # "look"
    BY <1>3, <1>6, <1>8
  <2>2. \A i \in 2 .. n : stack[i].me.epoch \in Nat
    BY <1>2, <1>6 DEF ContextType, Me
  <2>3. \A i \in 2 .. n : stack'[i].me.epoch <= epoch' /\ stack'[i].me.serial <= calls'
    BY <1>3, <1>4, <1>5, <1>6, <1>8, <2>2
  <2>4. \A i \in 1 .. n - 1 : stack'[i].phase \in {"poll", "callback"}
    BY <1>3, <1>8
  <2>5. \A i \in 2 .. n - 1 :
            stack'[i + 1].me \in stack'[i].inner /\ stack'[i + 1].inner \subseteq stack'[i].inner
    BY <1>3, <1>7, <1>8
  <2> QED
    BY <1>3, <2>1, <2>3, <2>4, <2>5 DEF Shape
<1>10. Uninitialized'
  <2> SUFFICES ASSUME ~ctrl'.initialized
               PROVE  \A i \in 2 .. n : stack'[i].me.epoch # epoch'
    BY <1>3, <1>4 DEF Uninitialized
  <2>1. \A i \in 2 .. n : stack'[i].me = stack[i].me
    BY <1>3, <1>6
  <2>2. \A i \in 2 .. n : stack[i].me.epoch \in Nat
    BY <1>2, <1>6 DEF ContextType, Me
  <2>3. CASE epoch' = epoch
    <3>1. \A i \in 2 .. n : stack[i].me.epoch # epoch
      BY <1>1, <1>4, <2>3 DEF Uninitialized, n
    <3> QED
      BY <2>1, <2>3, <3>1
  <2>4. CASE epoch' = epoch + 1
    BY <1>5, <1>8, <2>1, <2>2, <2>4
  <2> QED
    BY <1>4, <2>3, <2>4
<1>11. Waits'
  <2> SUFFICES ASSUME ctrl'.waiting
               PROVE  /\ n > 1
                      /\ Top'.kind = ctrl'.waitKind /\ Top'.inner = {} /\ Top'.me.epoch = epoch'
    BY <1>3 DEF Waits
  <2>1. n > 1 /\ Top.kind = ctrl.waitKind /\ Top.inner = {} /\ Top.me.epoch = epoch
    BY <1>1, <1>4 DEF Waits, n
  <2>2. n \in 1 .. n
    BY <1>2
  <2>3. Top'.kind = Top.kind /\ Top'.me = Top.me /\ Top'.inner = Top.inner
    BY <1>2, <1>3, <2>2
  <2> QED
    BY <1>4, <2>1, <2>3
<1> QED
  BY <1>9, <1>10, <1>11

(* The two ways in which the wait state is left.                           *)
LEMMA ResetKeeps ==
  ASSUME NEW c \in CtrlType
  PROVE  LET d == ResetResponse(c)
             e == TxFailed(ResetResponse(c))
         IN  /\ d.initialized = c.initialized /\ ~d.seen /\ d.nextUid = c.nextUid
             /\ d.waiting = c.waiting /\ d.waitUid = c.waitUid /\ d.waitKind = c.waitKind
             /\ d.connected = c.connected
             /\ e.initialized = c.initialized /\ ~e.seen /\ e.nextUid = c.nextUid
             /\ ~e.waiting /\ e.connected = c.connected
<1> DEFINE d == ResetResponse(c)
           e == ResetWait(d)
<1>1. /\ d \in CtrlType
      /\ d.initialized = c.initialized /\ ~d.seen /\ d.nextUid = c.nextUid
      /\ d.waiting = c.waiting /\ d.waitUid = c.waitUid /\ d.waitKind = c.waitKind
      /\ d.connected = c.connected
  BY ConstantFacts DEF ResetResponse, CtrlType
<1> HIDE DEF d
<1>2. /\ e.initialized = d.initialized /\ e.seen = d.seen /\ e.nextUid = d.nextUid
      /\ ~e.waiting /\ e.connected = d.connected
  BY <1>1 DEF ResetWait, CtrlType
<1> HIDE DEF e
<1> QED
  BY <1>1, <1>2 DEF TxFailed, d, e

(* What a request function does, when the stack below is up.               *)
LEMMA RequestKeeps ==
  ASSUME TypeInv, NEW k \in Kind, RequestBegin(k), calls' # calls
  PROVE  LET me == [serial |-> calls + 1, epoch |-> epoch]
             old == Initialized(ctrl)
         IN  /\ me \in Me
             /\ calls' = calls + 1 /\ calls \in Nat /\ epoch' = epoch
             /\ old.nextUid \in 1 .. UidMod - 1
             /\ ctrl'.nextUid = NextUid(old.nextUid)
             /\ ctrl'.initialized /\ ~ctrl'.seen
             /\ ctrl'.waiting => ctrl'.waitUid = old.nextUid /\ ctrl'.waitKind = k
             /\ ctrl'.connected = (old.connected /\ k # "disconnect")
             /\ known' = (known /\ k # "disconnect") /\ UNCHANGED link
             /\ registered'
             /\ wire' \in {wire, Append(wire, [kind |-> k, uid |-> old.nextUid, of |-> me])}
             /\ UNCHANGED <<queue, air, delivered, change>>
             /\ \/ stack' = Append(Outer(me), NewTop(k, me)) /\ UNCHANGED result
                \/ stack' = Outer(me) /\ ~ctrl'.waiting /\ result'.rc = "tx"
<1> DEFINE me == [serial |-> calls + 1, epoch |-> epoch]
           old == Initialized(ctrl)
           uid == old.nextUid
           n == Numbered(old, k)
           c == [n EXCEPT !.waiting = TRUE, !.waitUid = uid, !.waitKind = k]
           sent == Append(wire, [kind |-> k, uid |-> uid, of |-> me])
<1>1. calls \in Nat /\ calls + 1 \in 0 .. MaxCalls /\ epoch \in 0 .. MaxRestart
  <2>1. /\ calls \in 0 .. MaxCalls /\ MaxCalls \in Nat /\ calls < MaxCalls
        /\ restarts \in 0 .. MaxRestart /\ MaxRestart \in Nat /\ epoch \in 0 .. restarts
    BY ConstantFacts DEF TypeInv, Bounds, RequestBegin
  <2> QED
    BY <2>1
<1>2. me \in Me
  BY <1>1 DEF Me
<1>3. /\ CtrlOK(old) /\ old.initialized
      /\ uid \in 1 .. UidMod - 1 /\ CtrlOK(n) /\ n.initialized
  BY InitializedOK, NumberedOK DEF TypeInv, TypeOK, CtrlOK
<1>4. n.nextUid = NextUid(uid) /\ n.connected = (old.connected /\ k # "disconnect")
  <2> HIDE DEF old
  <2>1. old \in CtrlType
    BY <1>3 DEF CtrlOK
  <2> QED
    BY <2>1 DEF Numbered, CtrlType
<1> HIDE DEF n
<1>5. /\ c.initialized /\ c.nextUid = n.nextUid /\ c.waiting /\ c.waitUid = uid /\ c.waitKind = k
      /\ c.connected = n.connected
  <2>1. n \in CtrlType
    BY <1>3 DEF CtrlOK
  <2> QED
    BY <1>3, <2>1 DEF CtrlType
<1>6. /\ calls' = calls + 1 /\ registered'
      /\ known' = (known /\ k # "disconnect")
      /\ \/ /\ ctrl' = ResetResponse(c)
            /\ wire' = sent
            /\ stack' = Append(Outer(me), NewTop(k, me))
            /\ UNCHANGED result
         \/ /\ ctrl' = TxFailed(ResetResponse(c))
            /\ wire' \in {wire, sent}
            /\ result' = [NoResult EXCEPT !.me = me, !.rc = "tx"]
            /\ stack' = Outer(me)
  BY DEF RequestBegin, n, NewTop
<1>7. UNCHANGED <<queue, air, delivered, change, link, epoch>>
  BY DEF RequestBegin
<1> HIDE DEF me, c
<1>8. c \in CtrlType
  <2>1. uid \in 0 .. UidMod - 1 /\ n \in CtrlType
    BY <1>3 DEF CtrlOK
  <2> QED
    BY <2>1 DEF c, CtrlType
<1>9. ~TxFailed(ResetResponse(c)).waiting
  BY <1>8, ResetKeeps
<1>10. [NoResult EXCEPT !.me = me, !.rc = "tx"].rc = "tx"
  BY DEF NoResult
<1>11. ctrl' \in {ResetResponse(c), TxFailed(ResetResponse(c))}
  BY <1>6
<1>12. /\ ctrl'.initialized /\ ~ctrl'.seen /\ ctrl'.nextUid = NextUid(uid)
       /\ ctrl'.waiting => ctrl'.waitUid = uid /\ ctrl'.waitKind = k
       /\ ctrl'.connected = (old.connected /\ k # "disconnect")
  BY <1>4, <1>5, <1>8, <1>11, ResetKeeps
<1> HIDE DEF old
<1>13. \/ stack' = Append(Outer(me), NewTop(k, me)) /\ UNCHANGED result
       \/ stack' = Outer(me) /\ ~ctrl'.waiting /\ result'.rc = "tx"
  BY <1>6, <1>9, <1>10
<1> QED
  BY <1>1, <1>2, <1>3, <1>6, <1>7, <1>12, <1>13 DEF me, old

LEMMA RequestWaits ==
  ASSUME WaitInv, NEW k \in Kind, RequestBegin(k)
  PROVE  Shape' /\ Uninitialized' /\ Waits'
<1> DEFINE n == Len(stack)
           me == [serial |-> calls + 1, epoch |-> epoch]
<1>1. TypeInv /\ TypeOK /\ Shape /\ Uninitialized /\ Waits
  BY DEF WaitInv, TypeInv
<1>2. n \in Nat \ {0} /\ stack \in [1 .. n -> ContextType] /\ Top = stack[n]
  BY <1>1, StackFacts
<1>3. CASE UNCHANGED <<registered, ctrl, stack, calls>>
  <2>1. epoch' = epoch
    BY DEF RequestBegin
  <2>2. Top' = Top
    BY <1>3 DEF Top
  <2> QED
    BY <1>1, <1>3, <2>1, <2>2 DEF Shape, Uninitialized, Waits
<1>4. CASE calls' # calls
  <2>1. /\ me \in Me /\ calls' = calls + 1 /\ calls \in Nat /\ epoch' = epoch
        /\ ctrl'.initialized
        /\ ctrl'.waiting => ctrl'.waitKind = k
        /\ \/ stack' = Append(Outer(me), NewTop(k, me))
           \/ stack' = Outer(me) /\ ~ctrl'.waiting
    BY <1>1, <1>4, RequestKeeps
  <2>2. me.serial = calls + 1 /\ me.epoch = epoch /\ epoch \in Nat
    BY <1>1 DEF TypeInv, Bounds
  <2> DEFINE top == NewTop(k, me)
  <2>3. top \in ContextType /\ top.kind = k /\ top.me = me /\ top.phase = "poll" /\ top.inner = {}
    BY <2>1, TopOK
  <2> HIDE DEF me, top
  <2>4. CASE stack' = Append(Outer(me), top)
    <3>1. /\ Len(stack') = n + 1 /\ stack'[1] = stack[1]
          /\ \A i \in 2 .. n : stack'[i] = [stack[i] EXCEPT !.inner = @ \cup {me}]
          /\ stack'[n + 1] = top /\ Top' = top
      BY <1>1, <2>1, <2>3, <2>4, PushFacts
    <3> HIDE DEF n
    <3>2. \A i \in 2 .. n : i \in 1 .. n
      BY <1>2
    <3>3. \A i \in 2 .. n : /\ stack'[i].inner = stack[i].inner \cup {me}
                            /\ stack'[i].me = stack[i].me /\ stack'[i].phase = stack[i].phase
      <4> SUFFICES ASSUME NEW i \in 2 .. n
                   PROVE  /\ stack'[i].inner = stack[i].inner \cup {me}
                          /\ stack'[i].me = stack[i].me /\ stack'[i].phase = stack[i].phase
        OBVIOUS
      <4>1. stack[i] \in ContextType
        BY <1>2, <3>2
      <4>2. stack'[i] = [stack[i] EXCEPT !.inner = @ \cup {me}]
        BY <3>1
      <4> QED
        BY <2>1, <4>1, <4>2, NoteOne
    <3>4. /\ stack[1].kind = "loop" /\ stack[1].phase # "look"
          /\ \A i \in 2 .. n : stack[i].me.epoch <= epoch /\ stack[i].me.serial <= calls
          /\ \A i \in 1 .. n - 1 : stack[i].phase \in {"poll", "callback"}
          /\ \A i \in 2 .. n - 1 :
                stack[i + 1].me \in stack[i].inner /\ stack[i + 1].inner \subseteq stack[i].inner
      BY <1>1 DEF Shape, n
    <3>5. Top.phase \in {"poll", "callback"}
      BY DEF RequestBegin, AppRuns
    <3>6. \A i \in 1 .. n : stack[i].phase \in {"poll", "callback"}
      <4>1. \A i \in 1 .. n : i \in 1 .. n - 1 \/ i = n
        BY <1>2
      <4> QED
        BY <1>2, <3>4, <3>5, <4>1
    <3>7. \A i \in 1 .. n : stack'[i].phase \in {"poll", "callback"}
      <4>1. \A i \in 1 .. n : i = 1 \/ i \in 2 .. n
        BY <1>2
      <4> QED
        BY <3>1, <3>3, <3>6, <4>1
    <3>8. \A i \in 2 .. n + 1 : stack'[i].me.epoch <= epoch' /\ stack'[i].me.serial <= calls'
      <4>1. \A i \in 2 .. n + 1 : i \in 2 .. n \/ i = n + 1
        BY <1>2
      <4>2. \A i \in 2 .. n : stack[i].me.serial \in Nat
        BY SMTT(30), <1>2, <3>2, ConstantFacts DEF ContextType, Me
      <4>3. \A i \in 2 .. n : stack[i].me.serial <= calls + 1
        BY <2>1, <3>4, <4>2
      <4> QED
        BY <2>1, <2>2, <2>3, <3>1, <3>3, <3>4, <4>1, <4>3
    <3>9. \A i \in 2 .. n :
             stack'[i + 1].me \in stack'[i].inner /\ stack'[i + 1].inner \subseteq stack'[i].inner
      <4> SUFFICES ASSUME NEW i \in 2 .. n
                   PROVE  stack'[i + 1].me \in stack'[i].inner /\ stack'[i + 1].inner \subseteq stack'[i].inner
        OBVIOUS
      <4>1. CASE i = n
        BY <2>3, <3>1, <3>3, <4>1
      <4>2. CASE i # n
        <5>1. i \in 2 .. n - 1 /\ i + 1 \in 2 .. n
          BY <1>2, <4>2
        <5> QED
          BY <3>3, <3>4, <5>1
      <4> QED
        BY <4>1, <4>2
    <3>10. n + 1 > 1 /\ 1 .. (n + 1) - 1 = 1 .. n /\ 2 .. (n + 1) - 1 = 2 .. n
      BY <1>2
    <3>11. Shape'
      <4>1. stack'[1].kind = "loop" /\ stack'[1].phase # "look"
        BY <3>1, <3>4
      <4> QED
        BY <3>1, <3>7, <3>8, <3>9, <3>10, <4>1 DEF Shape
    <3>12. Waits'
      BY <2>1, <2>2, <2>3, <3>1, <3>10 DEF Waits
    <3> QED
      BY <2>1, <3>11, <3>12 DEF Uninitialized
  <2>5. CASE stack' = Outer(me) /\ ~ctrl'.waiting
    <3>1. /\ Len(stack') = n /\ stack'[1] = stack[1]
          /\ \A i \in 2 .. n : stack'[i] = [stack[i] EXCEPT !.inner = @ \cup {me}]
      BY <1>1, <2>1, <2>5, NoteFacts
    <3> HIDE DEF n
    <3>2. \A i \in 2 .. n : i \in 1 .. n
      BY <1>2
    <3>3. \A i \in 2 .. n : /\ stack'[i].inner = stack[i].inner \cup {me}
                            /\ stack'[i].me = stack[i].me /\ stack'[i].phase = stack[i].phase
      <4> SUFFICES ASSUME NEW i \in 2 .. n
                   PROVE  /\ stack'[i].inner = stack[i].inner \cup {me}
                          /\ stack'[i].me = stack[i].me /\ stack'[i].phase = stack[i].phase
        OBVIOUS
      <4>1. stack[i] \in ContextType
        BY <1>2, <3>2
      <4>2. stack'[i] = [stack[i] EXCEPT !.inner = @ \cup {me}]
        BY <3>1
      <4> QED
        BY <2>1, <4>1, <4>2, NoteOne
    <3>4. /\ stack[1].kind = "loop" /\ stack[1].phase # "look"
          /\ \A i \in 2 .. n : stack[i].me.epoch <= epoch /\ stack[i].me.serial <= calls
          /\ \A i \in 1 .. n - 1 : stack[i].phase \in {"poll", "callback"}
          /\ \A i \in 2 .. n - 1 :
                stack[i + 1].me \in stack[i].inner /\ stack[i + 1].inner \subseteq stack[i].inner
      BY <1>1 DEF Shape, n
    <3>5. \A i \in 1 .. n - 1 : stack'[i].phase \in {"poll", "callback"}
      <4>1. \A i \in 1 .. n - 1 : i = 1 \/ i \in 2 .. n
        BY <1>2
      <4> QED
        BY <3>1, <3>3, <3>4, <4>1
    <3>6. \A i \in 2 .. n : stack'[i].me.epoch <= epoch' /\ stack'[i].me.serial <= calls'
      <4>1. \A i \in 2 .. n : stack[i].me.serial \in Nat
        BY SMTT(30), <1>2, <3>2, ConstantFacts DEF ContextType, Me
      <4>2. \A i \in 2 .. n : stack[i].me.serial <= calls + 1
        BY <2>1, <3>4, <4>1
      <4> QED
        BY <2>1, <3>3, <3>4, <4>2
    <3>7. \A i \in 2 .. n - 1 :
             stack'[i + 1].me \in stack'[i].inner /\ stack'[i + 1].inner \subseteq stack'[i].inner
      <4>1. \A i \in 2 .. n - 1 : i \in 2 .. n /\ i + 1 \in 2 .. n
        BY <1>2
      <4> QED
        BY <3>3, <3>4, <4>1
    <3>8. Shape'
      BY <3>1, <3>4, <3>5, <3>6, <3>7 DEF Shape
    <3> QED
      BY <2>1, <2>5, <3>8 DEF Uninitialized, Waits
  <2> QED
    BY <2>1, <2>4, <2>5 DEF top
<1>5. UNCHANGED <<registered, ctrl, stack, calls>> \/ calls' = calls + 1
  BY DEF RequestBegin
<1>6. calls \in Nat
  BY <1>1 DEF TypeInv, Bounds
<1> QED
  BY <1>3, <1>4, <1>5, <1>6

(* What a request function does that cannot encode its request.            *)
LEMMA UnencodedKeeps ==
  ASSUME TypeInv, Uninitialized, RequestUnencoded
  PROVE  LET old == Initialized(ctrl)
         IN  /\ calls' = calls + 1 /\ calls \in Nat /\ epoch' = epoch
             /\ old.nextUid \in 1 .. UidMod - 1
             /\ ctrl.initialized => old = ctrl
             /\ ctrl'.nextUid = NextUid(old.nextUid) /\ ctrl'.initialized
             /\ ctrl'.waiting = ctrl.waiting /\ ctrl'.waitUid = ctrl.waitUid
             /\ ctrl'.waitKind = ctrl.waitKind
             /\ ctrl'.seen = ctrl.seen /\ ctrl'.code = ctrl.code /\ ctrl'.from = ctrl.from
             /\ ctrl'.connected = ctrl.connected
             /\ result'.rc = "proto" /\ result'.me.epoch = epoch
             /\ UNCHANGED <<stack, queue, wire, air, link, change, known, delivered>>
<1> DEFINE old == Initialized(ctrl)
           me == [serial |-> calls + 1, epoch |-> epoch]
<1>1. /\ ctrl' = [old EXCEPT !.nextUid = NextUid(@)] /\ calls' = calls + 1
      /\ result' = [NoResult EXCEPT !.me = me, !.rc = "proto"]
      /\ UNCHANGED <<stack, queue, slave, epoch, change, known, delivered>>
  BY DEF RequestUnencoded
<1>2. result'.rc = "proto" /\ result'.me.epoch = epoch
  BY <1>1 DEF NoResult
<1>3. calls \in Nat
  BY DEF TypeInv, Bounds
<1>4. CtrlOK(old) /\ old.initialized /\ (ctrl.initialized => old = ctrl) /\ ctrl \in CtrlType
  BY InitializedOK DEF TypeInv, TypeOK, CtrlOK, Initialized
<1>5. /\ old.waiting = ctrl.waiting /\ old.waitUid = ctrl.waitUid /\ old.waitKind = ctrl.waitKind
      /\ old.seen = ctrl.seen /\ old.code = ctrl.code /\ old.from = ctrl.from
      /\ old.connected = ctrl.connected
  <2>1. CASE ctrl.initialized
    BY <1>4, <2>1
  <2>2. CASE ~ctrl.initialized
    <3>1. ctrl = Cleared /\ old = [Cleared EXCEPT !.initialized = TRUE, !.nextUid = 1]
      BY <2>2 DEF Uninitialized, Initialized
    <3>2. Cleared \in CtrlType
      BY ClearedOK DEF CtrlOK
    <3> QED
      BY <3>1, <3>2 DEF CtrlType
  <2> QED
    BY <2>1, <2>2
<1> HIDE DEF old, me
<1>6. old.nextUid \in 1 .. UidMod - 1 /\ old \in CtrlType
  BY <1>4, ConstantFacts DEF CtrlOK, CtrlType
<1>7. /\ ctrl'.nextUid = NextUid(old.nextUid) /\ ctrl'.initialized
      /\ ctrl'.waiting = old.waiting /\ ctrl'.waitUid = old.waitUid /\ ctrl'.waitKind = old.waitKind
      /\ ctrl'.seen = old.seen /\ ctrl'.code = old.code /\ ctrl'.from = old.from
      /\ ctrl'.connected = old.connected
  BY <1>1, <1>4, <1>6 DEF CtrlType
<1> QED
  BY <1>1, <1>2, <1>3, <1>4, <1>5, <1>6, <1>7 DEF old, slave

LEMMA UnencodedWaits ==
  ASSUME WaitInv, RequestUnencoded
  PROVE  Shape' /\ Uninitialized' /\ Waits'
<1>1. TypeInv /\ TypeOK /\ Shape /\ Uninitialized /\ Waits
  BY DEF WaitInv, TypeInv
<1>2. /\ calls' = calls + 1 /\ calls \in Nat /\ epoch' = epoch /\ ctrl'.initialized
      /\ ctrl'.waiting = ctrl.waiting /\ ctrl'.waitKind = ctrl.waitKind
      /\ UNCHANGED stack
  BY <1>1, UnencodedKeeps
<1>3. \A i \in 2 .. Len(stack) : stack[i].me.serial <= calls + 1
  <2>1. Len(stack) \in Nat \ {0} /\ stack \in [1 .. Len(stack) -> ContextType]
    BY <1>1, StackFacts
  <2> SUFFICES ASSUME NEW i \in 2 .. Len(stack) PROVE stack[i].me.serial <= calls + 1
    OBVIOUS
  <2>2. stack[i] \in ContextType
    BY <2>1
  <2>3. stack[i].me.serial \in Nat
    BY <2>2, ConstantFacts DEF ContextType, Me
  <2>4. stack[i].me.serial <= calls
    BY <1>1 DEF Shape
  <2> QED
    BY <1>2, <2>3, <2>4
<1>4. Shape'
  BY <1>1, <1>2, <1>3 DEF Shape
<1>5. Top' = Top
  BY <1>2 DEF Top
<1> QED
  BY <1>1, <1>2, <1>4, <1>5 DEF Uninitialized, Waits

(* What a request that returns leaves behind.                              *)
LEMMA ReturnKeeps ==
  ASSUME WaitInv, Look, NEW rc, Returns(rc)
  PROVE  LET n == Len(stack)
         IN  /\ n \in Nat /\ n > 1 /\ stack \in [1 .. n -> ContextType] /\ Top = stack[n]
             /\ Len(stack') = n - 1
             /\ \A i \in 1 .. n - 1 : stack'[i] = stack[i]
             /\ Top' = stack[n - 1]
             /\ ctrl' = ResetWait(ctrl) /\ ~ctrl'.waiting
             /\ ctrl'.initialized = ctrl.initialized /\ ctrl'.nextUid = ctrl.nextUid
             /\ ctrl'.seen = ctrl.seen /\ ctrl'.from = ctrl.from /\ ctrl'.code = ctrl.code
             /\ ctrl'.connected = ctrl.connected
             /\ result' = [me |-> Top.me, rc |-> rc, from |-> ctrl.from, inner |-> Top.inner]
             /\ UNCHANGED <<hosted, registered, queue, slave, history>>
<1>1. TypeOK /\ TypeInv /\ Shape
  BY DEF WaitInv, TypeInv
<1>2. Len(stack) > 1
  BY <1>1, ShapeInside DEF Inside, Look
<1>3. /\ Len(stack) \in Nat \ {0} /\ stack \in [1 .. Len(stack) -> ContextType]
      /\ Top = stack[Len(stack)]
  BY <1>1, StackFacts
<1>4. /\ Len(stack') = Len(stack) - 1
      /\ \A i \in 1 .. Len(stack) - 1 : stack'[i] = stack[i]
      /\ Top' = stack[Len(stack) - 1]
  BY <1>1, <1>2, PopFacts DEF Returns
<1>5. ctrl \in CtrlType
  BY <1>1 DEF TypeOK
<1>6. LET d == ResetWait(ctrl)
      IN  /\ ~d.waiting /\ d.initialized = ctrl.initialized /\ d.nextUid = ctrl.nextUid
          /\ d.seen = ctrl.seen /\ d.from = ctrl.from /\ d.code = ctrl.code
          /\ d.connected = ctrl.connected
  BY <1>5 DEF ResetWait, CtrlType
<1> QED
  BY <1>2, <1>3, <1>4, <1>6 DEF Returns

LEMMA ReturnWaits ==
  ASSUME WaitInv, Look, NEW rc, Returns(rc)
  PROVE  Shape' /\ Uninitialized' /\ Waits'
<1> DEFINE n == Len(stack)
<1>1. /\ n \in Nat /\ n > 1 /\ stack \in [1 .. n -> ContextType] /\ Top = stack[n]
      /\ Len(stack') = n - 1
      /\ \A i \in 1 .. n - 1 : stack'[i] = stack[i]
      /\ ctrl' = ResetWait(ctrl) /\ ~ctrl'.waiting /\ ctrl'.initialized = ctrl.initialized
      /\ UNCHANGED <<hosted, registered, queue, slave, history>>
  BY ReturnKeeps
<1>2. TypeInv /\ Shape /\ Uninitialized
  BY DEF WaitInv
<1>3. /\ stack[1].kind = "loop" /\ stack[1].phase # "look"
      /\ \A i \in 2 .. n : stack[i].me.epoch <= epoch /\ stack[i].me.serial <= calls
      /\ \A i \in 1 .. n - 1 : stack[i].phase \in {"poll", "callback"}
      /\ \A i \in 2 .. n - 1 :
            stack[i + 1].me \in stack[i].inner /\ stack[i + 1].inner \subseteq stack[i].inner
  BY <1>2 DEF Shape, n
<1>4. epoch' = epoch /\ calls' = calls
  BY <1>1 DEF history
<1> HIDE DEF n
<1>5. /\ 1 \in 1 .. n - 1 /\ \A i \in 2 .. n - 1 : i \in 1 .. n - 1 /\ i \in 2 .. n
      /\ \A i \in 1 .. (n - 1) - 1 : i \in 1 .. n - 1
      /\ \A i \in 2 .. (n - 1) - 1 : i \in 2 .. n - 1 /\ i \in 1 .. n - 1 /\ i + 1 \in 1 .. n - 1
  BY <1>1
<1>6. Shape'
  <2>1. stack'[1].kind = "loop" /\ stack'[1].phase # "look"
    BY <1>1, <1>3, <1>5
  <2>2. \A i \in 2 .. n - 1 : stack'[i].me.epoch <= epoch' /\ stack'[i].me.serial <= calls'
    BY <1>1, <1>3, <1>4, <1>5
  <2>3. \A i \in 1 .. (n - 1) - 1 : stack'[i].phase \in {"poll", "callback"}
    BY <1>1, <1>3, <1>5
  <2>4. \A i \in 2 .. (n - 1) - 1 :
            stack'[i + 1].me \in stack'[i].inner /\ stack'[i + 1].inner \subseteq stack'[i].inner
    BY <1>1, <1>3, <1>5
  <2> QED
    BY <1>1, <2>1, <2>2, <2>3, <2>4 DEF Shape
<1>7. Uninitialized'
  <2> SUFFICES ASSUME ~ctrl'.initialized
               PROVE  /\ ctrl' = Cleared /\ ~registered'
                      /\ \A i \in 2 .. n - 1 : stack'[i].me.epoch # epoch'
    BY <1>1 DEF Uninitialized
  <2>1. ctrl = Cleared /\ ~registered /\ \A i \in 2 .. n : stack[i].me.epoch # epoch
    BY <1>1, <1>2 DEF Uninitialized, n
  <2>2. ResetWait(Cleared) = Cleared
    <3>1. Cleared \in CtrlType /\ Cleared.waiting = FALSE /\ Cleared.waitKind = "none"
      BY ClearedOK DEF CtrlOK, Cleared
    <3> QED
      BY <3>1 DEF ResetWait, CtrlType
  <2> QED
    BY <1>1, <1>4, <1>5, <2>1, <2>2
<1> QED
  BY <1>1, <1>6, <1>7 DEF Waits

LEMMA UnchangedTypes ==
  ASSUME TypeInv, UNCHANGED vars
  PROVE  TypeInv'
BY DEF TypeInv, TypeOK, Bounds, vars, slave, history

LEMMA WaitStep == WaitInv /\ [Next]_vars => WaitInv'
<1> SUFFICES ASSUME WaitInv, [Next]_vars PROVE WaitInv'
  OBVIOUS
<1>1. TypeInv /\ Inside /\ Shape /\ Uninitialized /\ Waits
  BY ShapeInside DEF WaitInv
<1>2. TypeInv'
  <2>1. CASE UNCHANGED vars
    BY <1>1, <2>1, UnchangedTypes
  <2>2. CASE Next
    BY <1>1, <2>2, RestartTypes, RequestTypes, UnencodedTypes, PollTypes, DispatchTypes, ReturnTypes, LookTypes,
       SlaveTypes DEF Next, HostStep
  <2> QED
    BY <2>1, <2>2
<1>3. CASE Within
  BY <1>2, <1>3, WithinWaits DEF WaitInv
<1>4. CASE Look /\ (Returns(ReturnCode) \/ Returns("timeout"))
  BY <1>2, <1>4, ReturnWaits DEF WaitInv
<1>5. CASE \E k \in Kind : RequestBegin(k)
  BY <1>2, <1>5, RequestWaits DEF WaitInv
<1>6. CASE RequestUnencoded
  BY <1>2, <1>6, UnencodedWaits DEF WaitInv
<1>7. CASE UNCHANGED vars
  BY <1>1, <1>2, <1>7 DEF WaitInv, Shape, Uninitialized, Waits, Top, vars, history
<1> QED
  BY <1>3, <1>4, <1>5, <1>6, <1>7, NextCases

LEMMA WaitInit == Init => WaitInv
<1> SUFFICES ASSUME Init PROVE WaitInv
  OBVIOUS
<1>1. TypeInv
  BY TypeInit
<1>2. Len(stack) = 1 /\ stack[1] = Loop /\ ctrl = Cleared /\ ~registered
  BY DEF Init
<1>3. Loop.kind = "loop" /\ Loop.phase = "poll" /\ ~Cleared.waiting
  BY DEF Loop, Cleared
<1>4. 2 .. 1 = {} /\ 1 .. 1 - 1 = {} /\ 2 .. 1 - 1 = {}
  OBVIOUS
<1>5. Shape
  BY <1>2, <1>3, <1>4 DEF Shape
<1> QED
  BY <1>1, <1>2, <1>3, <1>4, <1>5 DEF WaitInv, Uninitialized, Waits

LEMMA WaitAlways == Spec => []WaitInv
BY WaitInit, WaitStep, PTL DEF Spec

(* Every variable of the control channel keeps its type.                   *)
THEOREM CtrlTypeOK == Spec => []TypeOK
<1>1. WaitInv => TypeOK
  BY DEF WaitInv, TypeInv
<1> QED
  BY <1>1, WaitAlways, PTL

(* Nothing waits for a request that has returned: the wait state is that   *)
(* of the innermost request, inside which none has been sent, at every     *)
(* depth of nesting.                                                       *)
THEOREM CtrlWaitingIsInnermost == Spec => []WaitingIsInnermost
<1>1. WaitInv => WaitingIsInnermost
  BY DEF WaitInv, Waits, WaitingIsInnermost
<1> QED
  BY <1>1, WaitAlways, PTL

-----------------------------------------------------------------------------
(***************************************************************************)
(* Proofs about the answers of HostedCtrl, for every choice of the         *)
(* constants: whose answer a request takes, and what a time-out means.     *)
(* Answers are told apart by 32-bit request numbers that come back, so     *)
(* the argument is about multiples of the period of these numbers.         *)
(***************************************************************************)

-----------------------------------------------------------------------------
(* Request numbers.                                                        *)

LEMMA DivMod ==
  ASSUME NEW m \in Nat \ {0}, NEW a \in Int
  PROVE  a % m \in 0 .. m - 1 /\ a \div m \in Int /\ a = m * (a \div m) + (a % m)
OBVIOUS

LEMMA ModOf ==
  ASSUME NEW m \in Nat \ {0}, NEW q \in Int, NEW r \in 0 .. m - 1
  PROVE  (m * q + r) % m = r
OBVIOUS

(* The numbers in use, all but zero, come back after this many requests.   *)
Period == UidMod - 1

LEMMA PeriodNat == Period \in Nat \ {0}
BY ConstantFacts DEF Period

(* One period less is as good as none.                                     *)
LEMMA PeriodLess ==
  ASSUME NEW d \in Int, d % Period = 0
  PROVE  (d - Period) % Period = 0
<1> DEFINE m == Period
           q == d \div m
<1>1. m \in Nat \ {0}
  BY PeriodNat
<1> HIDE DEF m
<1>2. q \in Int /\ d = m * q + 0
  BY <1>1, DivMod DEF m
<1> HIDE DEF q
<1>3. d - m = m * (q - 1) + 0 /\ q - 1 \in Int /\ 0 \in 0 .. m - 1
  BY <1>1, <1>2
<1>4. (d - m) % m = 0
  BY <1>1, <1>3, ModOf
<1> QED
  BY <1>4 DEF m

(* Two multiples of the period are equal or a period apart.                *)
LEMMA PeriodsApart ==
  ASSUME NEW d \in Int, NEW x \in Nat, d % Period = 0, (d + x) % Period = 0
  PROVE  x = 0 \/ x >= Period
<1> DEFINE m == Period
           q == d \div m
<1>1. m \in Nat \ {0}
  BY PeriodNat
<1> HIDE DEF m
<1>2. q \in Int /\ d = m * q + 0
  BY <1>1, DivMod DEF m
<1> HIDE DEF q
<1>3. CASE x < m
  <2>1. x \in 0 .. m - 1 /\ d + x = m * q + x
    BY <1>1, <1>2, <1>3
  <2>2. (d + x) % m = x
    BY <1>1, <1>2, <2>1, ModOf
  <2> QED
    BY <2>2 DEF m
<1>4. x < m \/ x >= m
  BY <1>1
<1> QED
  BY <1>3, <1>4 DEF m

LEMMA NextUidStep ==
  ASSUME NEW u \in 1 .. UidMod - 1
  PROVE  /\ NextUid(u) \in 1 .. UidMod - 1
         /\ NextUid(u) = u + 1 \/ NextUid(u) = (u + 1) - Period
BY ConstantFacts DEF NextUid, Period

(* How far request number u of the serial-th request is behind, in numbers *)
(* and in requests; the difference is a multiple of the period.            *)
Behind(u, serial) == (ctrl.nextUid - u) - ((calls + 1) - serial)

(* A message names a request of the past; in this epoch by its number.     *)
Names(x) ==
    /\ x.of.serial <= calls /\ x.of.epoch <= epoch
    /\ x.of.epoch = epoch /\ x.of.serial # 0 =>
           ctrl.initialized /\ Behind(x.uid, x.of.serial) % Period = 0

Frames == Range(queue) \cup Range(air)

Messages ==
    /\ \A r \in Range(wire) : Names(r) /\ r.of.serial # 0
    /\ \A f \in Frames : Names(f) /\ (f.type = "resp" => f.of.serial # 0)

(* The number waited for is that of the innermost request, and no message  *)
(* is of a later one.                                                      *)
WaitsByNumber ==
    ctrl.waiting => Behind(ctrl.waitUid, Top.me.serial) % Period = 0

NoneLater ==
    ctrl.waiting => \A x \in Frames \cup Range(wire) : x.of.serial <= Top.me.serial

LEMMA RangeOf ==
  ASSUME NEW S, NEW s \in Seq(S)
  PROVE  /\ Range(s) = {s[i] : i \in 1 .. Len(s)} /\ Range(s) \subseteq S
         /\ s # <<>> => Head(s) \in Range(s) /\ Range(Tail(s)) \subseteq Range(s)
         /\ \A e \in S : Range(Append(s, e)) = Range(s) \cup {e}
<1>1. Len(s) \in Nat /\ s \in [1 .. Len(s) -> S] /\ DOMAIN s = 1 .. Len(s)
  BY LenProperties
<1>2. Range(s) = {s[i] : i \in 1 .. Len(s)} /\ Range(s) \subseteq S
  BY <1>1 DEF Range
<1>3. ASSUME s # <<>>
      PROVE  Head(s) \in Range(s) /\ Range(Tail(s)) \subseteq Range(s)
  <2>1. /\ Tail(s) \in Seq(S) /\ Len(Tail(s)) = Len(s) - 1 /\ Head(s) = s[1]
        /\ \A i \in 1 .. Len(Tail(s)) : Tail(s)[i] = s[i + 1]
    BY <1>3, HeadTailProperties
  <2>2. DOMAIN Tail(s) = 1 .. Len(s) - 1 /\ Len(s) \in Nat \ {0}
    BY <1>3, <2>1, LenProperties, EmptySeq
  <2>3. 1 \in 1 .. Len(s) /\ \A i \in 1 .. Len(s) - 1 : i + 1 \in 1 .. Len(s)
    BY <2>2
  <2> QED
    BY <1>2, <2>1, <2>2, <2>3 DEF Range
<1>4. ASSUME NEW e \in S
      PROVE  Range(Append(s, e)) = Range(s) \cup {e}
  <2> DEFINE t == Append(s, e)
             n == Len(s)
  <2>1. /\ t \in Seq(S) /\ Len(t) = n + 1
        /\ \A i \in 1 .. n : t[i] = s[i]
        /\ t[n + 1] = e
    BY AppendProperties
  <2>2. DOMAIN t = 1 .. n + 1 /\ n \in Nat
    BY <1>1, <2>1, LenProperties
  <2> HIDE DEF t, n
  <2>3. \A i \in 1 .. n + 1 : i \in 1 .. n \/ i = n + 1
    BY <2>2
  <2>4. \A i \in 1 .. n : i \in 1 .. n + 1
    BY <2>2
  <2>5. n + 1 \in 1 .. n + 1
    BY <2>2
  <2>6. Range(s) = {s[i] : i \in 1 .. n}
    BY <1>2 DEF n
  <2>7. Range(t) = {t[i] : i \in 1 .. n + 1}
    BY <2>2 DEF Range
  <2> QED
    BY <2>1, <2>3, <2>4, <2>5, <2>6, <2>7 DEF t
<1> QED
  BY <1>2, <1>3, <1>4

LEMMA RangeConcat ==
  ASSUME NEW S, NEW s \in Seq(S), NEW t \in Seq(S)
  PROVE  Range(s \o t) = Range(s) \cup Range(t)
<1> DEFINE c == s \o t
           m == Len(s)
           n == Len(t)
<1>1. /\ c \in Seq(S) /\ Len(c) = m + n /\ m \in Nat /\ n \in Nat
      /\ \A i \in 1 .. m + n : c[i] = IF i <= m THEN s[i] ELSE t[i - m]
  BY ConcatProperties, LenProperties
<1>2. DOMAIN c = 1 .. m + n
  BY <1>1, LenProperties
<1>3. Range(s) = {s[i] : i \in 1 .. m} /\ Range(t) = {t[i] : i \in 1 .. n}
  BY RangeOf
<1>4. Range(c) = {c[i] : i \in 1 .. m + n}
  BY <1>2 DEF Range
<1> HIDE DEF c, m, n
<1>5. \A i \in 1 .. m + n : c[i] \in Range(s) \cup Range(t)
  <2> SUFFICES ASSUME NEW i \in 1 .. m + n PROVE c[i] \in Range(s) \cup Range(t)
    OBVIOUS
  <2>1. CASE i <= m
    <3>1. i \in 1 .. m /\ c[i] = s[i]
      BY <1>1, <2>1
    <3> QED
      BY <1>3, <3>1
  <2>2. CASE ~(i <= m)
    <3>1. i - m \in 1 .. n /\ c[i] = t[i - m]
      BY <1>1, <2>2
    <3> QED
      BY <1>3, <3>1
  <2> QED
    BY <2>1, <2>2
<1>6. \A i \in 1 .. m : s[i] \in Range(c)
  <2>1. \A i \in 1 .. m : i \in 1 .. m + n /\ i <= m
    BY <1>1
  <2> QED
    BY <1>1, <1>4, <2>1
<1>7. \A i \in 1 .. n : t[i] \in Range(c)
  <2> SUFFICES ASSUME NEW i \in 1 .. n PROVE t[i] \in Range(c)
    OBVIOUS
  <2>1. m + i \in 1 .. m + n /\ ~(m + i <= m) /\ (m + i) - m = i
    BY <1>1
  <2>2. c[m + i] = t[i]
    BY <1>1, <2>1
  <2> QED
    BY <1>4, <2>1, <2>2
<1>8. Range(c) \subseteq Range(s) \cup Range(t)
  BY <1>4, <1>5
<1>9. Range(s) \cup Range(t) \subseteq Range(c)
  BY <1>3, <1>6, <1>7
<1> QED
  BY <1>8, <1>9 DEF c

LEMMA RangePart ==
  ASSUME NEW S, NEW s \in Seq(S), NEW a \in Int, NEW b \in Int, a .. b \subseteq 1 .. Len(s)
  PROVE  SubSeq(s, a, b) \in Seq(S) /\ Range(SubSeq(s, a, b)) \subseteq Range(s)
<1> DEFINE t == SubSeq(s, a, b)
           n == Len(t)
<1>1. \A i \in a .. b : s[i] \in S
  BY LenProperties
<1>2. /\ t \in Seq(S) /\ n = IF a <= b THEN (b - a) + 1 ELSE 0
      /\ \A i \in 1 .. (b - a) + 1 : t[i] = s[(a + i) - 1]
  BY <1>1, SubSeqProperties
<1>3. n \in Nat /\ Range(t) = {t[i] : i \in 1 .. n}
  BY <1>2, LenProperties, RangeOf
<1> HIDE DEF t, n
<1>4. \A i \in 1 .. n : i \in 1 .. (b - a) + 1 /\ (a + i) - 1 \in a .. b
  BY <1>2
<1>5. Range(s) = {s[i] : i \in 1 .. Len(s)}
  BY RangeOf
<1>6. \A i \in 1 .. n : t[i] \in Range(s)
  BY <1>2, <1>4, <1>5
<1> QED
  BY <1>2, <1>3, <1>6 DEF t

(* Where the messages of the next state come from, unless a request begins.*)
LEMMA FramesCome ==
  ASSUME TypeInv, Within
  PROVE  /\ Range(wire') \subseteq Range(wire)
         /\ \A f \in Frames' : \/ f \in Frames
                               \/ \E r \in Range(wire) : f.uid = r.uid /\ f.of = r.of
                               \/ f.type # "resp" /\ f.of = NoMe
<1>1. queue \in Seq(Frame) /\ air \in Seq(Frame) /\ wire \in Seq(Request)
  BY DEF TypeInv, TypeOK
<1>2. CASE UNCHANGED wire /\ Frames' \subseteq Frames
  BY <1>2
<1>3. CASE UNCHANGED <<queue, wire, air>>
  BY <1>2, <1>3 DEF Frames
<1>4. CASE CtrlDeinit \/ SetEventCb \/ CallbackReturn \/ DispatchEnd \/ NextRound
  BY <1>3, <1>4 DEF CtrlDeinit, SetEventCb, CallbackReturn, DispatchEnd, NextRound, slave
<1>5. CASE HostedRestarts \/ Reattach
  <2>1. queue' \in {<<>>, queue} /\ wire' \in {<<>>, wire} /\ air' \in {<<>>, air}
    BY <1>5 DEF HostedRestarts, Reattach, PinPulsed, SlaveResets, slave
  <2>2. Range(<<>>) = {}
    BY DEF Range
  <2> QED
    BY <2>1, <2>2 DEF Frames
<1>6. CASE Poll
  <2>1. UNCHANGED wire
    BY <1>6 DEF Poll
  <2>2. CASE UNCHANGED <<queue, air>>
    BY <1>3, <2>1, <2>2
  <2>3. CASE \E n \in 0 .. Len(air) : /\ queue' = queue \o SubSeq(air, 1, n)
                                      /\ air' = SubSeq(air, n + 1, Len(air))
    <3>1. PICK n \in 0 .. Len(air) : /\ queue' = queue \o SubSeq(air, 1, n)
                                     /\ air' = SubSeq(air, n + 1, Len(air))
      BY <2>3
    <3>2. /\ Len(air) \in Nat /\ n \in Int /\ n + 1 \in Int
          /\ 1 .. n \subseteq 1 .. Len(air) /\ n + 1 .. Len(air) \subseteq 1 .. Len(air)
      BY <1>1, LenProperties
    <3>3. /\ SubSeq(air, 1, n) \in Seq(Frame) /\ Range(SubSeq(air, 1, n)) \subseteq Range(air)
          /\ Range(air') \subseteq Range(air)
      <4>1. SubSeq(air, 1, n) \in Seq(Frame) /\ Range(SubSeq(air, 1, n)) \subseteq Range(air)
        BY <1>1, <3>2, RangePart
      <4>2. Range(SubSeq(air, n + 1, Len(air))) \subseteq Range(air)
        <5>1. Len(air) \in Int
          BY <3>2
        <5> QED
          BY <1>1, <3>2, <5>1, RangePart
      <4> QED
        BY <3>1, <4>1, <4>2
    <3>4. Range(queue') = Range(queue) \cup Range(SubSeq(air, 1, n))
      <4> DEFINE t == SubSeq(air, 1, n)
      <4>1. queue \in Seq(Frame) /\ t \in Seq(Frame) /\ queue' = queue \o t
        BY <1>1, <3>1, <3>3
      <4> HIDE DEF t
      <4>2. Range(queue \o t) = Range(queue) \cup Range(t)
        BY <4>1, RangeConcat
      <4> QED
        BY <4>1, <4>2 DEF t
    <3> QED
      BY <1>2, <2>1, <3>3, <3>4 DEF Frames
  <2> QED
    BY <1>6, <2>2, <2>3 DEF Poll
<1>7. CASE DispatchOne
  <2>1. queue # <<>> /\ queue' = Tail(queue) /\ UNCHANGED <<wire, air>>
    BY <1>7 DEF DispatchOne, slave
  <2>2. Range(queue') \subseteq Range(queue)
    BY <1>1, <2>1, RangeOf
  <2> QED
    BY <1>2, <2>1, <2>2 DEF Frames
<1>8. CASE FrameLost
  <2>1. air # <<>> /\ air' = Tail(air) /\ UNCHANGED <<wire, queue>>
    BY <1>8 DEF FrameLost
  <2>2. Range(air') \subseteq Range(air)
    BY <1>1, <2>1, RangeOf
  <2> QED
    BY <1>2, <2>1, <2>2 DEF Frames
<1>9. CASE SlaveIgnores
  <2>1. wire # <<>> /\ wire' = Tail(wire) /\ UNCHANGED <<air, queue>>
    BY <1>9 DEF SlaveIgnores
  <2>2. Range(wire') \subseteq Range(wire)
    BY <1>1, <2>1, RangeOf
  <2> QED
    BY <2>1, <2>2 DEF Frames
<1>10. CASE SlaveHandles
  <2> DEFINE r == Head(wire)
             answer(code) == [type |-> "resp", kind |-> r.kind, uid |-> r.uid, of |-> r.of,
                              code |-> code, ok |-> TRUE, last |-> 0]
             gone == Event("disc", TRUE, events + 1)
  <2>1. /\ wire # <<>> /\ wire' = Tail(wire) /\ UNCHANGED queue
        /\ \E code \in Code :
             \/ air' = air \o <<answer(code)>>
             \/ /\ events < MaxEvents
                /\ air' \in {(air \o <<answer(code)>>) \o <<gone>>, (air \o <<gone>>) \o <<answer(code)>>}
    BY <1>10 DEF SlaveHandles
  <2>2. PICK code \in Code :
             \/ air' = air \o <<answer(code)>>
             \/ /\ events < MaxEvents
                /\ air' \in {(air \o <<answer(code)>>) \o <<gone>>, (air \o <<gone>>) \o <<answer(code)>>}
    BY <2>1
  <2>3. r \in Range(wire) /\ r \in Request /\ Range(wire') \subseteq Range(wire)
    BY <1>1, <2>1, RangeOf
  <2> HIDE DEF r
  <2>4. answer(code) \in Frame /\ answer(code).uid = r.uid /\ answer(code).of = r.of
    BY <2>3, ConstantFacts DEF Frame, Request
  <2>5. events < MaxEvents => gone \in Frame
    <3>1. events \in 0 .. MaxEvents
      BY DEF TypeInv, Bounds
    <3>2. events < MaxEvents => events + 1 \in 0 .. MaxEvents
      BY <3>1, ConstantFacts
    <3> QED
      BY <3>2, EventOK
  <2>6. gone.type # "resp" /\ gone.of = NoMe
    BY DEF Event
  <2> HIDE DEF answer, gone
  <2>7. \A s \in Seq(Frame), e \in Frame : s \o <<e>> \in Seq(Frame) /\ Range(s \o <<e>>) = Range(s) \cup {e}
    <3> SUFFICES ASSUME NEW s \in Seq(Frame), NEW e \in Frame
                 PROVE  s \o <<e>> \in Seq(Frame) /\ Range(s \o <<e>>) = Range(s) \cup {e}
      OBVIOUS
    <3>1. Append(s, e) \in Seq(Frame) /\ Append(s, e) = s \o <<e>>
      BY AppendProperties, AppendIsConcat
    <3>2. Range(Append(s, e)) = Range(s) \cup {e}
      BY RangeOf
    <3> QED
      BY <3>1, <3>2
  <2>8. Range(air') \subseteq Range(air) \cup {answer(code), gone}
    <3>1. CASE air' = air \o <<answer(code)>>
      BY <1>1, <2>4, <2>7, <3>1
    <3>2. CASE events < MaxEvents /\ air' = (air \o <<answer(code)>>) \o <<gone>>
      <4>1. /\ air \o <<answer(code)>> \in Seq(Frame)
            /\ Range(air \o <<answer(code)>>) = Range(air) \cup {answer(code)}
        BY <1>1, <2>4, <2>7
      <4> QED
        BY <2>5, <2>7, <3>2, <4>1
    <3>3. CASE events < MaxEvents /\ air' = (air \o <<gone>>) \o <<answer(code)>>
      <4>1. air \o <<gone>> \in Seq(Frame) /\ Range(air \o <<gone>>) = Range(air) \cup {gone}
        BY <1>1, <2>5, <2>7, <3>3
      <4> QED
        BY <2>4, <2>7, <3>3, <4>1
    <3> QED
      BY <2>2, <3>1, <3>2, <3>3
  <2> QED
    BY <2>1, <2>3, <2>4, <2>6, <2>8 DEF Frames
<1>11. CASE SlaveEvent
  <2>1. /\ UNCHANGED <<wire, queue>> /\ events < MaxEvents
        /\ \E type \in {"conn", "disc"}, ok \in BOOLEAN : air' = Append(air, Event(type, ok, events + 1))
    BY <1>11 DEF SlaveEvent
  <2>2. PICK type \in {"conn", "disc"}, ok \in BOOLEAN : air' = Append(air, Event(type, ok, events + 1))
    BY <2>1
  <2> DEFINE e == Event(type, ok, events + 1)
  <2>3. e \in Frame /\ e.type # "resp" /\ e.of = NoMe
    <3>1. events \in 0 .. MaxEvents
      BY DEF TypeInv, Bounds
    <3>2. events + 1 \in 0 .. MaxEvents
      BY <2>1, <3>1, ConstantFacts
    <3>3. e \in Frame
      BY <3>2, EventOK
    <3> QED
      BY <3>3 DEF Event
  <2> HIDE DEF e
  <2>4. Range(air') = Range(air) \cup {e}
    BY <1>1, <2>2, <2>3, RangeOf DEF e
  <2> QED
    BY <2>1, <2>3, <2>4 DEF Frames
<1>12. CASE SlaveRestarts
  <2> DEFINE e == Event("init", TRUE, events + 1)
  <2>1. wire' = <<>> /\ queue' = queue /\ air' = <<e>>
    BY <1>12 DEF SlaveRestarts
  <2>2. e.type # "resp" /\ e.of = NoMe
    BY DEF Event
  <2> HIDE DEF e
  <2>3. Range(<<>>) = {} /\ Range(<<e>>) = {e}
    BY DEF Range
  <2> QED
    BY <2>1, <2>2, <2>3 DEF Frames
<1> QED
  BY <1>4, <1>5, <1>6, <1>7, <1>8, <1>9, <1>10, <1>11, <1>12 DEF Within

NumInv == WaitInv /\ Messages /\ WaitsByNumber /\ NoneLater

LEMMA MessageTypes ==
  ASSUME TypeInv
  PROVE  /\ Frames \subseteq Frame /\ Range(wire) \subseteq Request
         /\ \A x \in Frames \cup Range(wire) : x.uid \in 0 .. UidMod - 1 /\ x.of \in Me
         /\ calls \in Nat /\ epoch \in Nat /\ ctrl.nextUid \in 0 .. UidMod - 1
         /\ ctrl.waitUid \in 0 .. UidMod - 1
<1>1. queue \in Seq(Frame) /\ air \in Seq(Frame) /\ wire \in Seq(Request)
  BY DEF TypeInv, TypeOK
<1>2. Frames \subseteq Frame /\ Range(wire) \subseteq Request
  BY <1>1, RangeOf DEF Frames
<1>3. calls \in Nat /\ epoch \in Nat
  BY DEF TypeInv, Bounds
<1>4. ctrl.nextUid \in 0 .. UidMod - 1 /\ ctrl.waitUid \in 0 .. UidMod - 1
  BY DEF TypeInv, TypeOK, CtrlType
<1>5. \A x \in Frame : x.uid \in 0 .. UidMod - 1 /\ x.of \in Me
  BY DEF Frame
<1>6. \A x \in Request : x.uid \in 0 .. UidMod - 1 /\ x.of \in Me
  BY DEF Request
<1> QED
  BY <1>2, <1>3, <1>4, <1>5, <1>6

LEMMA MeParts ==
  /\ \A me \in Me : me.serial \in Nat /\ me.epoch \in Nat
  /\ NoMe.serial = 0 /\ NoMe.epoch = 0
BY ConstantFacts DEF Me, NoMe

LEMMA WithinNames ==
  ASSUME WaitInv, Within, NEW x, x.of \in Me, Names(x)
  PROVE  Names(x)'
<1>1. TypeInv /\ Uninitialized
  BY DEF WaitInv
<1>2. /\ calls' = calls /\ epoch' \in {epoch, epoch + 1}
      /\ ctrl.initialized /\ epoch' = epoch =>
                ctrl'.initialized /\ ctrl'.nextUid = ctrl.nextUid
  BY <1>1, WithinKeeps
<1>3. epoch \in Nat /\ x.of.epoch \in Nat /\ x.of.serial \in Nat
  BY <1>1, MeParts, MessageTypes
<1>4. x.of.serial <= calls' /\ x.of.epoch <= epoch'
  BY <1>2, <1>3 DEF Names
<1>5. ASSUME x.of.epoch = epoch', x.of.serial # 0
      PROVE  ctrl'.initialized /\ Behind(x.uid, x.of.serial)' % Period = 0
  <2>1. epoch' = epoch
    BY <1>2, <1>3, <1>5 DEF Names
  <2>2. ctrl.initialized /\ Behind(x.uid, x.of.serial) % Period = 0
    BY <1>5, <2>1 DEF Names
  <2>3. Behind(x.uid, x.of.serial)' = Behind(x.uid, x.of.serial)
    BY <1>2, <2>1, <2>2 DEF Behind
  <2> QED
    BY <1>2, <2>1, <2>2, <2>3
<1> QED
  BY <1>4, <1>5 DEF Names

LEMMA WithinMessages ==
  ASSUME NumInv, Within
  PROVE  Messages' /\ WaitsByNumber' /\ NoneLater'
<1>1. TypeInv /\ WaitInv /\ Uninitialized /\ Waits /\ Messages /\ WaitsByNumber /\ NoneLater
  BY DEF NumInv, WaitInv
<1>2. /\ Range(wire') \subseteq Range(wire)
      /\ \A f \in Frames' : \/ f \in Frames
                            \/ \E r \in Range(wire) : f.uid = r.uid /\ f.of = r.of
                            \/ f.type # "resp" /\ f.of = NoMe
  BY <1>1, FramesCome
<1>3. \A r \in Range(wire) : Names(r)' /\ r.of.serial # 0
  <2> SUFFICES ASSUME NEW r \in Range(wire) PROVE Names(r)' /\ r.of.serial # 0
    OBVIOUS
  <2>1. Names(r) /\ r.of.serial # 0 /\ r.of \in Me
    BY <1>1, MessageTypes DEF Messages
  <2> QED
    BY <1>1, <2>1, WithinNames
<1>4. ASSUME NEW f \in Frames'
      PROVE  Names(f)' /\ (f.type = "resp" => f.of.serial # 0)
  <2>1. CASE f \in Frames
    <3>1. Names(f) /\ (f.type = "resp" => f.of.serial # 0) /\ f.of \in Me
      BY <1>1, <2>1, MessageTypes DEF Messages
    <3> QED
      BY <1>1, <3>1, WithinNames
  <2>2. CASE \E r \in Range(wire) : f.uid = r.uid /\ f.of = r.of
    <3>1. PICK r \in Range(wire) : f.uid = r.uid /\ f.of = r.of
      BY <2>2
    <3>2. Names(r)' /\ r.of.serial # 0
      BY <1>3
    <3> QED
      BY <3>1, <3>2 DEF Names, Behind
  <2>3. CASE f.type # "resp" /\ f.of = NoMe
    <3>1. f.of.serial = 0 /\ f.of.epoch = 0
      BY <2>3, MeParts
    <3>2. calls' \in Nat /\ epoch' \in Nat
      <4>1. calls \in Nat /\ epoch \in Nat /\ calls' = calls /\ epoch' \in {epoch, epoch + 1}
        BY <1>1, MessageTypes, WithinKeeps
      <4> QED
        BY <4>1
    <3> QED
      BY <2>3, <3>1, <3>2 DEF Names
  <2> QED
    BY <1>2, <2>1, <2>2, <2>3
<1>5. Messages'
  <2>1. \A r \in Range(wire)' : Names(r)' /\ r.of.serial # 0
    BY <1>2, <1>3
  <2> QED
    BY <1>4, <2>1 DEF Messages
<1>6. ASSUME ctrl'.waiting
      PROVE  /\ Behind(ctrl.waitUid, Top.me.serial)' % Period = 0
             /\ \A x \in Frames' \cup Range(wire') : x.of.serial <= Top'.me.serial
  <2> USE <1>6
  <2>1. ctrl.waiting /\ epoch' = epoch /\ ctrl'.waitUid = ctrl.waitUid /\ calls' = calls
    BY <1>1, WithinKeeps
  <2>2. ctrl.initialized
    <3>1. ~Cleared.waiting
      BY DEF Cleared
    <3> QED
      BY <1>1, <2>1, <3>1 DEF Uninitialized
  <2>3. ctrl'.nextUid = ctrl.nextUid
    BY <1>1, <2>1, <2>2, WithinKeeps
  <2>4. Top'.me = Top.me
    <3>1. Len(stack) \in 1 .. Len(stack) /\ Top = stack[Len(stack)]
      BY <1>1, StackFacts DEF TypeInv
    <3> QED
      BY <1>1, <3>1, WithinStays DEF Stays
  <2>5. Behind(ctrl.waitUid, Top.me.serial)' = Behind(ctrl.waitUid, Top.me.serial)
    BY <2>1, <2>3, <2>4 DEF Behind
  <2>6. Behind(ctrl.waitUid, Top.me.serial)' % Period = 0
    BY <1>1, <2>1, <2>5 DEF WaitsByNumber
  <2>7. \A x \in Frames \cup Range(wire) : x.of.serial <= Top.me.serial
    BY <1>1, <2>1 DEF NoneLater
  <2>8. 0 <= Top.me.serial
    <3>1. Top.me \in Me
      BY <1>1, StackFacts DEF ContextType, TypeInv
    <3>2. Top.me.serial \in Nat
      BY <3>1, MeParts
    <3> QED
      BY <3>2
  <2>9. ASSUME NEW x \in Frames' \cup Range(wire') PROVE x.of.serial <= Top'.me.serial
    <3>1. \/ x \in Frames \cup Range(wire)
          \/ \E r \in Range(wire) : x.of = r.of
          \/ x.of = NoMe
      BY <1>2, <2>9
    <3> QED
      BY <2>4, <2>7, <2>8, <3>1, MeParts
  <2> QED
    BY <2>6, <2>9
<1> QED
  BY <1>5, <1>6 DEF WaitsByNumber, NoneLater

LEMMA RequestMessages ==
  ASSUME NumInv, NEW k \in Kind, RequestBegin(k), calls' # calls
  PROVE  Messages' /\ WaitsByNumber' /\ NoneLater'
<1> DEFINE me == [serial |-> calls + 1, epoch |-> epoch]
           old == Initialized(ctrl)
           v == old.nextUid
           r == [kind |-> k, uid |-> v, of |-> me]
<1>1. TypeInv /\ WaitInv /\ Uninitialized /\ Messages
  BY DEF NumInv, WaitInv
<1>2. /\ me \in Me
      /\ calls' = calls + 1 /\ calls \in Nat /\ epoch' = epoch
      /\ v \in 1 .. UidMod - 1
      /\ ctrl'.nextUid = NextUid(v) /\ ctrl'.initialized
      /\ ctrl'.waiting => ctrl'.waitUid = v
      /\ wire' \in {wire, Append(wire, r)}
      /\ UNCHANGED <<queue, air>>
      /\ stack' = Append(Outer(me), NewTop(k, me)) \/ ~ctrl'.waiting
  BY <1>1, RequestKeeps
<1>3. me.serial = calls + 1 /\ me.epoch = epoch /\ r.uid = v /\ r.of = me
  OBVIOUS
<1>4. ctrl.initialized => v = ctrl.nextUid
  BY DEF Initialized
<1>5. r \in Request
  <2>1. v \in 0 .. UidMod - 1
    BY <1>2
  <2> HIDE DEF v, me
  <2> QED
    BY <1>2, <2>1 DEF Request
<1> HIDE DEF me, old, v, r
<1>6. /\ epoch \in Nat /\ Period \in Nat \ {0} /\ UidMod \in Nat
      /\ NextUid(v) \in Nat /\ v \in Nat
      /\ NextUid(v) = v + 1 \/ NextUid(v) = (v + 1) - Period
  <2>1. epoch \in Nat
    BY <1>1, MessageTypes
  <2>2. NextUid(v) \in 1 .. UidMod - 1 /\ (NextUid(v) = v + 1 \/ NextUid(v) = (v + 1) - Period)
    BY <1>2, NextUidStep
  <2> QED
    BY <1>2, <2>1, <2>2, PeriodNat, ConstantFacts
<1>7. ASSUME NEW u \in Nat, NEW s \in Nat, NEW d \in Int, d = (v - u) - ((calls + 1) - s), d % Period = 0
      PROVE  Behind(u, s)' % Period = 0
  <2> DEFINE p == Period
             b == (NextUid(v) - u) - (((calls + 1) + 1) - s)
  <2>1. Behind(u, s)' = b
    BY <1>2 DEF Behind
  <2>2. b = d \/ b = d - p
    BY <1>2, <1>6, <1>7
  <2>3. (d - p) % p = 0
    BY <1>7, PeriodLess
  <2> HIDE DEF b
  <2> QED
    BY <1>7, <2>1, <2>2, <2>3
<1>8. ASSUME NEW u, NEW s, u = v, s = calls + 1
      PROVE  Behind(u, s)' % Period = 0
  <2>1. 0 % Period = 0
    BY PeriodNat
  <2>2. u \in Nat /\ s \in Nat /\ 0 = (v - u) - ((calls + 1) - s) /\ 0 \in Int
    BY <1>2, <1>6, <1>8
  <2> QED
    BY <1>7, <2>1, <2>2
<1>9. ASSUME NEW x, Names(x), x.of \in Me, x.uid \in 0 .. UidMod - 1
      PROVE  Names(x)'
  <2>1. x.of.serial \in Nat /\ x.of.epoch \in Nat /\ x.uid \in Nat
    BY <1>6, <1>9, MeParts
  <2>2. x.of.serial <= calls' /\ x.of.epoch <= epoch'
    BY <1>2, <1>9, <2>1 DEF Names
  <2>3. ASSUME x.of.epoch = epoch', x.of.serial # 0
        PROVE  Behind(x.uid, x.of.serial)' % Period = 0
    <3> DEFINE d == (v - x.uid) - ((calls + 1) - x.of.serial)
    <3>1. ctrl.initialized /\ Behind(x.uid, x.of.serial) % Period = 0
      BY <1>2, <1>9, <2>3 DEF Names
    <3>2. d = Behind(x.uid, x.of.serial)
      BY <1>4, <3>1 DEF Behind
    <3>3. d \in Int
      BY <1>2, <1>6, <2>1
    <3> HIDE DEF d
    <3>4. d = (v - x.uid) - ((calls + 1) - x.of.serial) /\ d % Period = 0
      BY <3>1, <3>2 DEF d
    <3> QED
      BY <1>7, <2>1, <3>3, <3>4
  <2> QED
    BY <1>2, <2>2, <2>3 DEF Names
<1>10. ASSUME NEW x, x = r
       PROVE  Names(x)' /\ x.of.serial # 0
  <2>1. x.of.serial = calls + 1 /\ x.of.epoch = epoch /\ x.uid = v
    BY <1>3, <1>10
  <2>2. x.of.serial <= calls' /\ x.of.epoch <= epoch' /\ x.of.serial # 0
    BY <1>2, <1>6, <2>1
  <2>3. Behind(x.uid, x.of.serial)' % Period = 0
    BY <1>8, <2>1
  <2> QED
    BY <1>2, <2>2, <2>3 DEF Names
<1>11. Range(wire') \subseteq Range(wire) \cup {r}
  <2>1. wire \in Seq(Request)
    BY <1>1 DEF TypeInv, TypeOK
  <2> QED
    BY <1>2, <1>5, <2>1, RangeOf
<1>12. Frames' = Frames
  BY <1>2 DEF Frames
<1>13. \A x \in Frames \cup Range(wire) : Names(x)'
  BY <1>1, <1>9, MessageTypes DEF Messages
<1>14. Messages'
  <2>1. \A x \in Range(wire)' : Names(x)' /\ x.of.serial # 0
    <3>1. \A x \in Range(wire) : x.of.serial # 0
      BY <1>1 DEF Messages
    <3> QED
      BY <1>10, <1>11, <1>13, <3>1
  <2>2. \A f \in Frames' : Names(f)' /\ (f.type = "resp" => f.of.serial # 0)
    BY <1>1, <1>12, <1>13 DEF Messages
  <2> QED
    BY <2>1, <2>2 DEF Messages
<1>15. ctrl'.waiting => Top'.me = me
  <2>1. /\ NewTop(k, me) \in ContextType /\ NewTop(k, me).me = me
    BY <1>2, TopOK
  <2> QED
    BY <1>1, <1>2, <2>1, PushFacts DEF TypeInv
<1>16. WaitsByNumber'
  <2> SUFFICES ASSUME ctrl'.waiting PROVE Behind(ctrl.waitUid, Top.me.serial)' % Period = 0
    BY DEF WaitsByNumber
  <2>1. PICK u, s : u = v /\ s = calls + 1
    OBVIOUS
  <2>2. Behind(u, s)' % Period = 0
    BY <1>8, <2>1
  <2>3. Behind(ctrl.waitUid, Top.me.serial)' = Behind(u, s)'
    BY <1>2, <1>3, <1>15, <2>1 DEF Behind
  <2> QED
    BY <2>2, <2>3
<1>17. NoneLater'
  <2>1. \A x \in Frames \cup Range(wire) : x.of.serial <= calls /\ x.of.serial \in Nat
    BY <1>1, MessageTypes, MeParts DEF Messages, Names
  <2>2. \A x \in Frames' \cup Range(wire') : x.of.serial <= calls + 1
    <3> SUFFICES ASSUME NEW x \in Frames' \cup Range(wire') PROVE x.of.serial <= calls + 1
      OBVIOUS
    <3>1. CASE x \in Frames \cup Range(wire)
      <4>1. x.of.serial <= calls /\ x.of.serial \in Nat
        BY <2>1, <3>1
      <4> QED
        BY <1>2, <4>1
    <3>2. CASE x = r
      BY <1>2, <1>3, <3>2
    <3> QED
      BY <1>11, <1>12, <3>1, <3>2
  <2> QED
    BY <1>3, <1>15, <2>2 DEF NoneLater
<1> QED
  BY <1>14, <1>16, <1>17

(* A number is taken and no message sent: all are one further behind.      *)
LEMMA UnencodedMessages ==
  ASSUME NumInv, RequestUnencoded
  PROVE  Messages' /\ WaitsByNumber' /\ NoneLater'
<1> DEFINE old == Initialized(ctrl)
           v == old.nextUid
<1>1. TypeInv /\ WaitInv /\ Uninitialized /\ Messages /\ WaitsByNumber /\ NoneLater
  BY DEF NumInv, WaitInv
<1>2. /\ calls' = calls + 1 /\ calls \in Nat /\ epoch' = epoch
      /\ v \in 1 .. UidMod - 1
      /\ ctrl'.nextUid = NextUid(v) /\ ctrl'.initialized
      /\ ctrl.initialized => v = ctrl.nextUid
      /\ ctrl'.waiting = ctrl.waiting /\ ctrl'.waitUid = ctrl.waitUid
      /\ UNCHANGED <<stack, queue, wire, air>>
  BY <1>1, UnencodedKeeps
<1> HIDE DEF old, v
<1>3. /\ Period \in Nat \ {0} /\ NextUid(v) \in Nat /\ v \in Nat
      /\ NextUid(v) = v + 1 \/ NextUid(v) = (v + 1) - Period
  <2>1. NextUid(v) \in 1 .. UidMod - 1 /\ (NextUid(v) = v + 1 \/ NextUid(v) = (v + 1) - Period)
    BY <1>2, NextUidStep
  <2> QED
    BY <1>2, <2>1, PeriodNat, ConstantFacts
<1>4. ASSUME NEW u \in Nat, NEW s \in Nat, ctrl.initialized, Behind(u, s) % Period = 0
      PROVE  Behind(u, s)' % Period = 0
  <2> DEFINE p == Period
             d == (v - u) - ((calls + 1) - s)
             b == (NextUid(v) - u) - (((calls + 1) + 1) - s)
  <2>1. Behind(u, s)' = b /\ Behind(u, s) = d
    BY <1>2, <1>4 DEF Behind
  <2>2. (b = d \/ b = d - p) /\ d \in Int
    BY <1>2, <1>3
  <2> HIDE DEF b, d
  <2>3. (d - p) % p = 0
    BY <1>4, <2>1, <2>2, PeriodLess
  <2> QED
    BY <1>4, <2>1, <2>2, <2>3
<1>5. ASSUME NEW x \in Frames \cup Range(wire)
      PROVE  Names(x)'
  <2>1. Names(x) /\ x.of \in Me /\ x.uid \in 0 .. UidMod - 1
    BY <1>1, MessageTypes DEF Messages
  <2>2. x.of.serial \in Nat /\ x.of.epoch \in Nat /\ x.uid \in Nat
    BY <2>1, MeParts, ConstantFacts
  <2>3. x.of.serial <= calls' /\ x.of.epoch <= epoch'
    BY <1>2, <2>1, <2>2 DEF Names
  <2>4. ASSUME x.of.epoch = epoch', x.of.serial # 0
        PROVE  Behind(x.uid, x.of.serial)' % Period = 0
    BY <1>2, <1>4, <2>1, <2>2, <2>4 DEF Names
  <2> QED
    BY <1>2, <2>3, <2>4 DEF Names
<1>6. Frames' = Frames /\ Top' = Top
  BY <1>2 DEF Frames, Top
<1>7. Messages'
  BY <1>1, <1>2, <1>5, <1>6 DEF Messages
<1>8. WaitsByNumber'
  <2> SUFFICES ASSUME ctrl.waiting PROVE Behind(ctrl.waitUid, Top.me.serial)' % Period = 0
    BY <1>2 DEF WaitsByNumber
  <2>1. PICK u, s : u = ctrl.waitUid /\ s = Top.me.serial
    OBVIOUS
  <2>2. u \in Nat /\ s \in Nat
    <3>1. Top.me \in Me
      BY <1>1, StackFacts DEF ContextType, TypeInv
    <3>2. ctrl.waitUid \in 0 .. UidMod - 1
      BY <1>1, MessageTypes
    <3> QED
      BY <2>1, <3>1, <3>2, MeParts, ConstantFacts
  <2>3. ctrl.initialized
    <3>1. ~Cleared.waiting
      BY DEF Cleared
    <3> QED
      BY <1>1, <3>1 DEF Uninitialized
  <2>4. Behind(u, s) % Period = 0
    BY <1>1, <2>1 DEF WaitsByNumber
  <2>5. Behind(u, s)' % Period = 0
    BY <1>4, <2>2, <2>3, <2>4
  <2>6. Behind(ctrl.waitUid, Top.me.serial)' = Behind(u, s)'
    BY <1>2, <1>6, <2>1 DEF Behind
  <2> QED
    BY <2>5, <2>6
<1>9. NoneLater'
  BY <1>1, <1>2, <1>6 DEF NoneLater
<1> QED
  BY <1>7, <1>8, <1>9

(* A step that changes none of the numbers.                                *)
LEMMA SameMessages ==
  ASSUME NumInv, calls' = calls, epoch' = epoch, UNCHANGED <<queue, wire, air>>,
         ctrl'.initialized = ctrl.initialized, ctrl'.nextUid = ctrl.nextUid,
         ctrl'.waiting => ctrl.waiting /\ ctrl'.waitUid = ctrl.waitUid /\ stack' = stack
  PROVE  Messages' /\ WaitsByNumber' /\ NoneLater'
<1>1. Messages /\ WaitsByNumber /\ NoneLater
  BY DEF NumInv
<1>2. Frames' = Frames
  BY DEF Frames
<1>3. Messages'
  BY <1>1, <1>2 DEF Messages, Names, Behind
<1>4. WaitsByNumber' /\ NoneLater'
  <2>1. ctrl'.waiting => ctrl.waiting /\ Top' = Top
    BY DEF Top
  <2>2. WaitsByNumber'
    BY <1>1, <2>1 DEF WaitsByNumber, Behind
  <2>3. NoneLater'
    BY <1>1, <1>2, <2>1 DEF NoneLater
  <2> QED
    BY <2>2, <2>3
<1> QED
  BY <1>3, <1>4

LEMMA NumStep == NumInv /\ [Next]_vars => NumInv'
<1> SUFFICES ASSUME NumInv, [Next]_vars PROVE Messages' /\ WaitsByNumber' /\ NoneLater'
  BY WaitStep DEF NumInv
<1>1. WaitInv /\ TypeInv
  BY DEF NumInv, WaitInv
<1>2. CASE Within
  BY <1>2, WithinMessages
<1>3. CASE Look /\ (Returns(ReturnCode) \/ Returns("timeout"))
  <2>1. /\ ~ctrl'.waiting /\ ctrl'.initialized = ctrl.initialized /\ ctrl'.nextUid = ctrl.nextUid
        /\ UNCHANGED <<hosted, registered, queue, slave, history>>
    BY <1>1, <1>3, ReturnKeeps
  <2> QED
    BY <2>1, SameMessages DEF slave, history
<1>4. CASE \E k \in Kind : RequestBegin(k)
  <2>1. PICK k \in Kind : RequestBegin(k)
    BY <1>4
  <2>2. CASE calls' # calls
    BY <2>1, <2>2, RequestMessages
  <2>3. CASE UNCHANGED <<ctrl, stack, wire, calls>>
    BY <2>1, <2>3, SameMessages DEF RequestBegin
  <2>4. calls' # calls \/ UNCHANGED <<ctrl, stack, wire, calls>>
    <3>1. calls \in Nat
      BY <1>1, MessageTypes
    <3> QED
      BY <2>1, <3>1 DEF RequestBegin
  <2> QED
    BY <2>2, <2>3, <2>4
<1>5. CASE RequestUnencoded
  BY <1>5, UnencodedMessages
<1>6. CASE UNCHANGED vars
  BY <1>6, SameMessages DEF vars, slave, history
<1> QED
  BY <1>2, <1>3, <1>4, <1>5, <1>6, NextCases

LEMMA NumInit == Init => NumInv
<1> SUFFICES ASSUME Init PROVE Messages /\ WaitsByNumber /\ NoneLater
  BY WaitInit DEF NumInv
<1>1. queue = <<>> /\ air = <<>> /\ wire = <<>> /\ ~ctrl.waiting
  BY DEF Init, Cleared
<1>2. Range(<<>>) = {}
  BY DEF Range
<1> QED
  BY <1>1, <1>2 DEF Messages, WaitsByNumber, NoneLater, Frames

-----------------------------------------------------------------------------
(* Whose answer it is.                                                     *)

Owned(me, inner, from) == \E m \in {me} \cup inner : Owns(m, from)

(* The answer in the slot is owned by the innermost request, or by one     *)
(* made inside it.                                                         *)
SeenOwned ==
    ctrl.seen => /\ ctrl.code \in Code
                 /\ Len(stack) > 1 => Owned(Top.me, Top.inner, ctrl.from)

AnswerInv == NumInv /\ SeenOwned /\ AnswerOwned

(* A dispatched answer is taken.                                           *)
Takes ==
    /\ DispatchOne /\ registered /\ Accepts(Head(queue))
    /\ ctrl'.seen /\ ctrl'.code = Head(queue).code /\ ctrl'.from = Head(queue).of
    /\ delivered' = delivered \cup {Head(queue).of}
    /\ UNCHANGED <<result, calls, epoch>>

(* What a step in which nothing begins or returns does to the answer.      *)
LEMMA WithinAnswers ==
  ASSUME TypeInv, Uninitialized, Within
  PROVE  \/ Takes
         \/ /\ delivered' = delivered
            /\ \/ /\ ctrl'.seen = ctrl.seen /\ ctrl'.code = ctrl.code /\ ctrl'.from = ctrl.from
                  /\ epoch' = epoch
               \/ ~ctrl'.seen /\ (epoch' = epoch => ~ctrl.initialized)
            /\ \/ result' = NoResult
               \/ result' = result /\ (Top.phase \in {"poll", "callback"} => Top' = Top)
<1>1. ctrl \in CtrlType /\ Cleared \in CtrlType /\ ~Cleared.seen /\ epoch \in Nat
  BY ClearedOK DEF TypeInv, TypeOK, Bounds, CtrlOK, Cleared
<1>2. CASE \/ HostedRestarts \/ Reattach
           \/ SlaveHandles \/ SlaveIgnores \/ SlaveEvent \/ SlaveRestarts \/ FrameLost
  BY <1>2 DEF HostedRestarts, Reattach, SlaveHandles, SlaveIgnores, SlaveEvent, SlaveRestarts,
     FrameLost, history, Top
<1>3. CASE Poll \/ CallbackReturn
  BY <1>3 DEF Poll, CallbackReturn, history
<1>4. CASE DispatchEnd \/ NextRound
  BY <1>4 DEF DispatchEnd, NextRound, history
<1>5. CASE CtrlDeinit
  <2>1. epoch' # epoch
    BY <1>1, <1>5 DEF CtrlDeinit
  <2> QED
    BY <1>1, <1>5, <2>1 DEF CtrlDeinit, Top
<1>6. CASE SetEventCb
  <2>1. PICK on \in BOOLEAN : ctrl' = [Initialized(ctrl) EXCEPT !.eventCb = on]
    BY <1>6 DEF SetEventCb
  <2>2. UNCHANGED <<stack, result, delivered, epoch>>
    BY <1>6 DEF SetEventCb, history
  <2>3. CASE ctrl.initialized
    <3>1. ctrl' = [ctrl EXCEPT !.eventCb = on]
      BY <2>1, <2>3 DEF Initialized
    <3>2. ctrl'.seen = ctrl.seen /\ ctrl'.code = ctrl.code /\ ctrl'.from = ctrl.from
      BY <1>1, <3>1 DEF CtrlType
    <3> QED
      BY <2>2, <3>2 DEF Top
  <2>4. CASE ~ctrl.initialized
    <3>1. ctrl' = [[Cleared EXCEPT !.initialized = TRUE, !.nextUid = 1] EXCEPT !.eventCb = on]
      BY <2>1, <2>4 DEF Initialized
    <3>2. ~ctrl'.seen
      BY <1>1, <3>1 DEF CtrlType
    <3> QED
      BY <2>2, <2>4, <3>2 DEF Top
  <2> QED
    BY <2>3, <2>4
<1>7. CASE DispatchOne
  <2> DEFINE f == Head(queue)
             c == [ctrl EXCEPT
                    !.ready = (@ \/ f.type = "init"),
                    !.connected = (@ \/ LinkUp(f)) /\ ~LinkDown(f)]
             d == [c EXCEPT !.seen = TRUE, !.code = f.code, !.from = f.of,
                            !.fields = IF f.code = "bad" THEN @ ELSE f.kind]
  <2>1. c.seen = ctrl.seen /\ c.code = ctrl.code /\ c.from = ctrl.from
    BY <1>1 DEF CtrlType
  <2>2. d.seen /\ d.code = f.code /\ d.from = f.of
    <3>1. {"seen", "code", "from", "fields"} \subseteq DOMAIN c
      BY <1>1 DEF CtrlType
    <3> HIDE DEF c
    <3> QED
      BY <3>1
  <2>3. UNCHANGED <<result, calls, epoch>> /\ Top.phase = "dispatch"
    BY <1>7 DEF DispatchOne
  <2>4. CASE registered /\ Accepts(f)
    <3>1. ctrl' = d /\ delivered' = delivered \cup {f.of}
      BY <1>7, <2>4 DEF DispatchOne
    <3> QED
      BY <1>7, <2>2, <2>3, <2>4, <3>1 DEF Takes
  <2>5. CASE ~(registered /\ Accepts(f))
    <3>1. (ctrl' = ctrl \/ ctrl' = c) /\ delivered' = delivered
      BY <1>7, <2>5 DEF DispatchOne
    <3> QED
      BY <2>1, <2>3, <3>1
  <2> QED
    BY <2>4, <2>5
<1> QED
  BY <1>2, <1>3, <1>4, <1>5, <1>6, <1>7 DEF Within

(* The number of the frame being dispatched is the one waited for: it is   *)
(* the innermost request's own, or a period away.                          *)
LEMMA TakenOwned ==
  ASSUME NumInv, Takes
  PROVE  /\ Head(queue).code \in Code /\ Head(queue).of \in Me
         /\ Owns(Top.me, Head(queue).of)
<1> DEFINE f == Head(queue)
<1>1. TypeInv /\ Waits /\ Messages /\ WaitsByNumber /\ NoneLater
  BY DEF NumInv, WaitInv
<1>2. queue # <<>> /\ ctrl.waiting /\ f.type = "resp" /\ f.uid = ctrl.waitUid
  BY DEF Takes, DispatchOne, Accepts
<1>3. f \in Frames
  <2>1. queue \in Seq(Frame)
    BY <1>1 DEF TypeInv, TypeOK
  <2> QED
    BY <1>2, <2>1, RangeOf DEF Frames
<1>4. f \in Frame /\ f.code \in Code /\ f.of \in Me /\ f.uid \in Nat
  <2>1. f \in Frame
    BY <1>1, <1>3, MessageTypes
  <2>2. UidMod \in Nat
    BY ConstantFacts
  <2> HIDE DEF f
  <2>3. f.uid \in 0 .. UidMod - 1
    BY <2>1 DEF Frame
  <2> QED
    BY <2>1, <2>2, <2>3 DEF Frame
<1>5. Names(f) /\ f.of.serial # 0
  BY <1>1, <1>2, <1>3 DEF Messages
<1>6. Top.me \in Me /\ f.of.serial <= Top.me.serial /\ Top.me.epoch = epoch
  <2>1. Top \in ContextType
    BY <1>1, StackFacts DEF TypeInv
  <2> QED
    BY <1>1, <1>2, <1>3, <2>1 DEF Waits, NoneLater, ContextType
<1> HIDE DEF f
<1>7. ASSUME f.of.epoch # epoch
      PROVE  Owns(Top.me, f.of)
  BY <1>6, <1>7 DEF Owns
<1>8. ASSUME f.of.epoch = epoch
      PROVE  Owns(Top.me, f.of)
  <2> DEFINE d == Behind(f.uid, f.of.serial)
             t == Top.me.serial
             x == t - f.of.serial
  <2>1. d % Period = 0 /\ f.of.serial <= t
    BY <1>5, <1>6, <1>8 DEF Names
  <2>2. calls \in Nat /\ f.of.serial \in Nat /\ ctrl.nextUid \in Nat /\ t \in Nat
    <3>1. calls \in Nat /\ ctrl.nextUid \in 0 .. UidMod - 1
      BY <1>1, MessageTypes
    <3>2. ctrl.nextUid \in Nat
      BY <3>1, ConstantFacts
    <3> QED
      BY <1>4, <1>6, <3>1, <3>2, MeParts
  <2> HIDE DEF t
  <2>3. x \in Nat /\ d \in Int
    BY <1>4, <2>1, <2>2 DEF Behind
  <2>4. d + x = Behind(ctrl.waitUid, t)
    <3>1. ASSUME NEW n \in Int, NEW u \in Int, NEW c \in Int, NEW s \in Int, NEW m \in Int
          PROVE  ((n - u) - ((c + 1) - s)) + (m - s) = (n - u) - ((c + 1) - m)
      OBVIOUS
    <3>2. Behind(ctrl.waitUid, t) = (ctrl.nextUid - f.uid) - ((calls + 1) - t)
      BY <1>2 DEF Behind
    <3>3. d = (ctrl.nextUid - f.uid) - ((calls + 1) - f.of.serial)
      BY DEF Behind
    <3> QED
      BY <1>4, <2>2, <3>1, <3>2, <3>3
  <2>5. (d + x) % Period = 0
    BY <1>1, <1>2, <2>4 DEF WaitsByNumber, t
  <2> HIDE DEF d
  <2>6. x = 0 \/ x >= Period
    <3> HIDE DEF x
    <3> QED
      BY <2>1, <2>3, <2>5, PeriodsApart
  <2>7. CASE x = 0
    <3>1. f.of.serial = Top.me.serial
      BY <2>2, <2>7 DEF t
    <3>2. f.of = Top.me
      BY <1>4, <1>6, <1>8, <3>1 DEF Me
    <3> QED
      BY <3>2 DEF Owns
  <2>8. CASE x >= Period
    BY <1>6, <2>8 DEF Owns, Period, t
  <2> QED
    BY <2>6, <2>7, <2>8
<1> QED
  BY <1>4, <1>7, <1>8 DEF f

(* What a request that returns hands on to the one it was made inside.     *)
LEMMA ReturnOwned ==
  ASSUME WaitInv, SeenOwned, Look, NEW rc, Returns(rc),
         rc \in Code \cup {"mismatch"} => ctrl.seen
  PROVE  SeenOwned' /\ AnswerOwned'
<1> DEFINE n == Len(stack)
<1>1. /\ n \in Nat /\ n > 1 /\ stack \in [1 .. n -> ContextType] /\ Top = stack[n]
      /\ Len(stack') = n - 1
      /\ Top' = stack[n - 1]
      /\ ctrl'.seen = ctrl.seen /\ ctrl'.from = ctrl.from /\ ctrl'.code = ctrl.code
      /\ result' = [me |-> Top.me, rc |-> rc, from |-> ctrl.from, inner |-> Top.inner]
  BY ReturnKeeps
<1>2. \A i \in 2 .. n - 1 :
          stack[i + 1].me \in stack[i].inner /\ stack[i + 1].inner \subseteq stack[i].inner
  BY DEF WaitInv, Shape
<1> HIDE DEF n
<1>3. ctrl.seen => ctrl.code \in Code /\ Owned(Top.me, Top.inner, ctrl.from)
  BY <1>1 DEF SeenOwned, n
<1>4. AnswerOwned'
  <2> SUFFICES ASSUME result'.rc \in Code \cup {"mismatch"}
               PROVE  \E m \in {result'.me} \cup result'.inner : Owns(m, result'.from)
    BY DEF AnswerOwned, Owns
  <2>1. result'.rc = rc /\ result'.me = Top.me /\ result'.inner = Top.inner /\ result'.from = ctrl.from
    BY <1>1
  <2> QED
    BY <1>3, <2>1 DEF Owned
<1>5. ASSUME ctrl.seen, n - 1 > 1
      PROVE  Owned(stack[n - 1].me, stack[n - 1].inner, ctrl.from)
  <2>1. n - 1 \in 2 .. n - 1 /\ (n - 1) + 1 = n
    BY <1>1, <1>5
  <2>2. stack[n].me \in stack[n - 1].inner /\ stack[n].inner \subseteq stack[n - 1].inner
    BY <1>2, <2>1
  <2> QED
    BY <1>1, <1>3, <1>5, <2>2 DEF Owned
<1>6. SeenOwned'
  <2> SUFFICES ASSUME ctrl'.seen
               PROVE  /\ ctrl'.code \in Code
                      /\ Len(stack') > 1 => Owned(Top'.me, Top'.inner, ctrl'.from)
    BY DEF SeenOwned, Owned, Owns
  <2> QED
    BY <1>1, <1>3, <1>5
<1> QED
  BY <1>4, <1>6

LEMMA AnswerStep == AnswerInv /\ [Next]_vars => AnswerInv'
<1> SUFFICES ASSUME AnswerInv, [Next]_vars PROVE SeenOwned' /\ AnswerOwned'
  BY NumStep DEF AnswerInv
<1>1. NumInv /\ WaitInv /\ TypeInv /\ TypeOK /\ Uninitialized /\ SeenOwned /\ AnswerOwned
  BY DEF AnswerInv, NumInv, WaitInv, TypeInv
<1>2. ASSUME result' = result PROVE AnswerOwned'
  BY <1>1, <1>2 DEF AnswerOwned, Owns
<1>3. ASSUME result'.rc \notin Code \cup {"mismatch"} PROVE AnswerOwned'
  BY <1>3 DEF AnswerOwned
<1>4. NoResult.rc \notin Code \cup {"mismatch"}
  BY DEF NoResult, Code
<1>5. ASSUME ~ctrl'.seen PROVE SeenOwned'
  BY <1>5 DEF SeenOwned
<1>6. CASE Within
  <2>1. Len(stack') = Len(stack) /\ Top'.me = Top.me /\ Top'.inner = Top.inner
    <3>1. Len(stack) \in 1 .. Len(stack) /\ Top = stack[Len(stack)]
      BY <1>1, StackFacts
    <3> QED
      BY <1>1, <1>6, <3>1, WithinStays DEF Stays
  <2>2. CASE Takes
    <3>1. /\ ctrl'.code \in Code /\ Owns(Top.me, ctrl'.from)
          /\ result' = result
      BY <1>1, <2>2, TakenOwned DEF Takes
    <3>2. SeenOwned'
      BY <2>1, <3>1 DEF SeenOwned, Owned, Owns
    <3> QED
      BY <1>2, <3>1, <3>2
  <2>3. CASE ~Takes
    <3>1. /\ \/ ctrl'.seen = ctrl.seen /\ ctrl'.code = ctrl.code /\ ctrl'.from = ctrl.from
             \/ ~ctrl'.seen
          /\ result' \in {NoResult, result}
      BY <1>1, <1>6, <2>3, WithinAnswers
    <3>2. SeenOwned'
      BY <1>1, <1>5, <2>1, <3>1 DEF SeenOwned, Owned, Owns
    <3> QED
      BY <1>2, <1>3, <1>4, <3>1, <3>2
  <2> QED
    BY <2>2, <2>3
<1>7. CASE Look /\ ctrl.seen /\ Returns(ReturnCode)
  BY <1>1, <1>7, ReturnOwned
<1>8. CASE Look /\ ~ctrl.seen /\ Returns("timeout")
  <2>1. "timeout" \notin Code \cup {"mismatch"}
    BY DEF Code
  <2> QED
    BY <1>1, <1>8, <2>1, ReturnOwned
<1>9. CASE \E k \in Kind : RequestBegin(k)
  <2>1. PICK k \in Kind : RequestBegin(k)
    BY <1>9
  <2>2. CASE calls' # calls
    <3>1. ~ctrl'.seen /\ (result' = result \/ result'.rc = "tx")
      BY <1>1, <2>1, <2>2, RequestKeeps
    <3> QED
      BY <1>2, <1>3, <1>5, <3>1 DEF Code
  <2>3. CASE /\ result'.rc = "state"
             /\ UNCHANGED <<ctrl, stack>>
    <3>1. SeenOwned'
      BY <1>1, <2>3 DEF SeenOwned, Owned, Owns, Top
    <3> QED
      BY <1>3, <2>3, <3>1 DEF Code
  <2>4. calls' # calls \/ (result'.rc = "state" /\ UNCHANGED <<ctrl, stack>>)
    <3>1. calls \in Nat
      BY <1>1, MessageTypes
    <3> DEFINE d == [NoResult EXCEPT !.me = [serial |-> calls + 1, epoch |-> epoch], !.rc = "state"]
    <3>2. calls' = calls + 1 \/ (result' = d /\ UNCHANGED <<ctrl, stack>>)
      BY <2>1 DEF RequestBegin
    <3>3. d.rc = "state"
      BY DEF NoResult
    <3> HIDE DEF d
    <3> QED
      BY <3>1, <3>2, <3>3
  <2> QED
    BY <2>2, <2>3, <2>4
<1>10. CASE RequestUnencoded
  <2>1. /\ ctrl'.seen = ctrl.seen /\ ctrl'.code = ctrl.code /\ ctrl'.from = ctrl.from
        /\ result'.rc = "proto" /\ stack' = stack
    BY <1>1, <1>10, UnencodedKeeps
  <2>2. SeenOwned'
    BY <1>1, <2>1 DEF SeenOwned, Owned, Owns, Top
  <2> QED
    BY <1>3, <2>1, <2>2 DEF Code
<1>11. CASE UNCHANGED vars
  BY <1>1, <1>2, <1>11 DEF vars, SeenOwned, Owned, Owns, Top
<1> QED
  BY <1>6, <1>7, <1>8, <1>9, <1>10, <1>11, NextCases

LEMMA AnswerAlways == Spec => []AnswerInv
<1>1. Init => SeenOwned /\ AnswerOwned
  BY DEF Init, SeenOwned, AnswerOwned, Cleared, NoResult, Code
<1>2. Init => AnswerInv
  BY <1>1, NumInit DEF AnswerInv
<1> QED
  BY <1>2, AnswerStep, PTL DEF Spec

(* What a request returns is an answer that was given to it, to a request  *)
(* its own callback made, or, by a number that has come back, to one at    *)
(* least 2^32 - 1 requests older.                                          *)
THEOREM CtrlAnswerOwned == Spec => []AnswerOwned
<1>1. AnswerInv => AnswerOwned
  BY DEF AnswerInv
<1> QED
  BY <1>1, AnswerAlways, PTL

-----------------------------------------------------------------------------
(* What a time-out means.                                                  *)

(* The answers of the past were given to requests of the past.             *)
DeliveredPast == \A m \in delivered : m.serial <= calls

(* The innermost request, when no other was made inside it and nothing was *)
(* deinitialized, has seen the answer it was given.                        *)
SeesOwn ==
    Len(stack) > 1 /\ Top.inner = {} /\ Top.me.epoch = epoch /\ Top.me \in delivered => ctrl.seen

(* A time-out is reported to code that runs: nothing is dispatched before  *)
(* the next poll.                                                          *)
TimeoutReported ==
    /\ result.me.epoch <= epoch
    /\ result.rc = "timeout" => Top.phase \in {"poll", "callback"}

TimeoutInv == AnswerInv /\ DeliveredPast /\ SeesOwn /\ TimeoutReported /\ TimeoutMeansNoAnswer

LEMMA ResultTypes ==
  ASSUME TypeInv
  PROVE  /\ epoch \in Nat /\ calls \in Nat /\ result.me.epoch \in Nat
         /\ \A m \in delivered : m \in Me /\ m.serial \in Nat
<1>1. epoch \in Nat /\ calls \in Nat /\ result.me \in Me /\ delivered \subseteq Me
  BY DEF TypeInv, Bounds, TypeOK
<1> QED
  BY <1>1, MeParts

LEMMA WithinTimeout ==
  ASSUME TimeoutInv, Within
  PROVE  DeliveredPast' /\ SeesOwn' /\ TimeoutReported' /\ TimeoutMeansNoAnswer'
<1> DEFINE n == Len(stack)
<1>1. /\ NumInv /\ WaitInv /\ TypeInv /\ TypeOK /\ Uninitialized /\ Shape
      /\ DeliveredPast /\ SeesOwn /\ TimeoutReported /\ TimeoutMeansNoAnswer
  BY DEF TimeoutInv, AnswerInv, NumInv, WaitInv, TypeInv
<1>2. /\ n \in Nat \ {0} /\ Top = stack[n] /\ n \in 1 .. n
      /\ Len(stack') = n /\ Top'.me = Top.me /\ Top'.inner = Top.inner
  <2>1. n \in Nat \ {0} /\ Top = stack[n] /\ n \in 1 .. n
    BY <1>1, StackFacts
  <2> QED
    BY <1>1, <2>1, WithinStays DEF Stays
<1>3. calls' = calls /\ epoch' \in {epoch, epoch + 1} /\ epoch \in Nat /\ result.me.epoch \in Nat
  BY <1>1, WithinKeeps, ResultTypes
<1>4. n > 1 => Top.me.epoch <= epoch /\ (~ctrl.initialized => Top.me.epoch # epoch)
  <2> HIDE DEF n
  <2>1. n > 1 => n \in 2 .. n
    BY <1>2
  <2> QED
    BY <1>1, <1>2, <2>1 DEF Shape, Uninitialized, n
<1>5. n > 1 => Top.me.epoch \in Nat
  <2>1. Top.me \in Me
    BY <1>1, StackFacts DEF ContextType
  <2> QED
    BY <2>1, MeParts
<1> HIDE DEF n
<1>6. CASE Takes
  <2>1. /\ ctrl'.seen /\ result' = result /\ epoch' = epoch /\ Top.phase = "dispatch"
        /\ delivered' = delivered \cup {Head(queue).of}
    BY <1>6 DEF Takes, DispatchOne
  <2>2. Head(queue).of.serial <= calls
    <3>1. queue # <<>> /\ queue \in Seq(Frame)
      BY <1>1, <1>6 DEF Takes, DispatchOne, TypeOK
    <3>2. Head(queue) \in Frames
      BY <3>1, RangeOf DEF Frames
    <3> QED
      BY <1>1, <3>2 DEF NumInv, Messages, Names
  <2>3. DeliveredPast'
    BY <1>1, <1>3, <2>1, <2>2 DEF DeliveredPast
  <2>4. SeesOwn'
    BY <2>1 DEF SeesOwn
  <2>5. result'.rc # "timeout"
    BY <1>1, <2>1 DEF TimeoutReported
  <2>6. TimeoutReported' /\ TimeoutMeansNoAnswer'
    BY <1>1, <2>1, <2>5 DEF TimeoutReported, TimeoutMeansNoAnswer
  <2> QED
    BY <2>3, <2>4, <2>6
<1>7. CASE ~Takes
  <2>1. /\ delivered' = delivered
        /\ \/ ctrl'.seen = ctrl.seen /\ epoch' = epoch
           \/ ~ctrl'.seen /\ (epoch' = epoch => ~ctrl.initialized)
        /\ \/ result' = NoResult
           \/ result' = result /\ (Top.phase \in {"poll", "callback"} => Top' = Top)
    BY <1>1, <1>7, WithinAnswers
  <2>2. DeliveredPast'
    BY <1>1, <1>3, <2>1 DEF DeliveredPast
  <2>3. SeesOwn'
    <3>1. CASE ctrl'.seen = ctrl.seen /\ epoch' = epoch
      BY <1>1, <1>2, <2>1, <3>1 DEF SeesOwn, n
    <3>2. CASE epoch' = epoch /\ ~ctrl.initialized
      BY <1>2, <1>4, <3>2 DEF SeesOwn
    <3>3. CASE epoch' = epoch + 1
      <4>1. n > 1 => Top.me.epoch # epoch'
        BY <1>3, <1>4, <1>5, <3>3
      <4> QED
        BY <1>2, <4>1 DEF SeesOwn
    <3> QED
      BY <1>3, <2>1, <3>1, <3>2, <3>3
  <2>4. CASE result' = NoResult
    <3>1. NoResult.rc = "none" /\ NoResult.me.epoch = 0
      BY MeParts DEF NoResult
    <3>2. 0 <= epoch'
      BY <1>3
    <3> QED
      BY <2>2, <2>3, <2>4, <3>1, <3>2 DEF TimeoutReported, TimeoutMeansNoAnswer
  <2>5. CASE result' = result /\ (Top.phase \in {"poll", "callback"} => Top' = Top)
    <3>1. result.me.epoch <= epoch'
      BY <1>1, <1>3 DEF TimeoutReported
    <3>2. TimeoutReported'
      BY <1>1, <2>5, <3>1 DEF TimeoutReported
    <3>3. result.me.epoch = epoch' => epoch' = epoch
      BY <1>1, <1>3 DEF TimeoutReported
    <3>4. TimeoutMeansNoAnswer'
      BY <1>1, <2>1, <2>5, <3>3 DEF TimeoutMeansNoAnswer
    <3> QED
      BY <2>2, <2>3, <3>2, <3>4
  <2> QED
    BY <2>1, <2>4, <2>5
<1> QED
  BY <1>6, <1>7

LEMMA ReturnTimeout ==
  ASSUME TimeoutInv, Look, NEW rc, Returns(rc), rc = "timeout" => ~ctrl.seen
  PROVE  DeliveredPast' /\ SeesOwn' /\ TimeoutReported' /\ TimeoutMeansNoAnswer'
<1> DEFINE n == Len(stack)
<1>1. WaitInv /\ TypeInv /\ TypeOK /\ Shape /\ DeliveredPast /\ SeesOwn
  BY DEF TimeoutInv, AnswerInv, NumInv, WaitInv, TypeInv
<1>2. /\ n \in Nat /\ n > 1 /\ stack \in [1 .. n -> ContextType] /\ Top = stack[n]
      /\ Len(stack') = n - 1
      /\ Top' = stack[n - 1]
      /\ result' = [me |-> Top.me, rc |-> rc, from |-> ctrl.from, inner |-> Top.inner]
      /\ UNCHANGED history
  BY <1>1, ReturnKeeps
<1>3. /\ \A i \in 2 .. n : stack[i].me.epoch <= epoch
      /\ \A i \in 1 .. n - 1 : stack[i].phase \in {"poll", "callback"}
      /\ \A i \in 2 .. n - 1 : stack[i + 1].me \in stack[i].inner
  BY <1>1 DEF Shape
<1>4. UNCHANGED <<calls, epoch, delivered>>
  BY <1>2 DEF history
<1>5. result'.me = Top.me /\ result'.rc = rc /\ result'.inner = Top.inner
  BY <1>2
<1>6. n > 1 /\ SeesOwn
  BY <1>1, <1>2
<1>7. Top.inner = {} /\ Top.me.epoch = epoch /\ Top.me \in delivered => ctrl.seen
  BY <1>6 DEF SeesOwn
<1> HIDE DEF n
<1>8. DeliveredPast'
  BY <1>1, <1>4 DEF DeliveredPast
<1>9. SeesOwn'
  <2>1. n - 1 > 1 => stack[n - 1].inner # {}
    <3> SUFFICES ASSUME n - 1 > 1 PROVE stack[n - 1].inner # {}
      OBVIOUS
    <3>1. n - 1 \in 2 .. n - 1 /\ (n - 1) + 1 = n
      BY <1>2
    <3> QED
      BY <1>3, <3>1
  <2> QED
    BY <1>2, <2>1 DEF SeesOwn
<1>10. TimeoutReported'
  <2>1. n - 1 \in 1 .. n - 1 /\ n \in 2 .. n
    BY <1>2
  <2> QED
    BY <1>2, <1>3, <1>4, <1>5, <2>1 DEF TimeoutReported
<1>11. TimeoutMeansNoAnswer'
  BY <1>4, <1>5, <1>7 DEF TimeoutMeansNoAnswer
<1> QED
  BY <1>8, <1>9, <1>10, <1>11

LEMMA RequestTimeout ==
  ASSUME TimeoutInv, NEW k \in Kind, RequestBegin(k), calls' # calls
  PROVE  DeliveredPast' /\ SeesOwn' /\ TimeoutReported' /\ TimeoutMeansNoAnswer'
<1> DEFINE n == Len(stack)
           me == [serial |-> calls + 1, epoch |-> epoch]
<1>1. /\ WaitInv /\ TypeInv /\ TypeOK /\ DeliveredPast /\ TimeoutReported /\ TimeoutMeansNoAnswer
  BY DEF TimeoutInv, AnswerInv, NumInv, WaitInv, TypeInv
<1>2. /\ me \in Me /\ calls' = calls + 1 /\ epoch' = epoch /\ delivered' = delivered
      /\ \/ stack' = Append(Outer(me), NewTop(k, me)) /\ result' = result
         \/ stack' = Outer(me) /\ result'.rc = "tx"
  BY <1>1, RequestKeeps
<1>3. me.serial = calls + 1 /\ epoch \in Nat /\ calls \in Nat
  BY <1>1, ResultTypes
<1>4. result' = result \/ result' = [NoResult EXCEPT !.me = me, !.rc = "tx"]
  BY DEF RequestBegin
<1>5. [NoResult EXCEPT !.me = me, !.rc = "tx"].me.epoch = epoch
  BY DEF NoResult
<1> HIDE DEF me
<1>6. DeliveredPast' /\ me \notin delivered
  <2>1. \A m \in delivered : m.serial \in Nat /\ m.serial <= calls
    BY <1>1, ResultTypes DEF DeliveredPast
  <2>2. \A m \in delivered : m.serial <= calls + 1 /\ m.serial # calls + 1
    BY <1>3, <2>1
  <2> QED
    BY <1>2, <1>3, <2>2 DEF DeliveredPast
<1>7. result'.me.epoch <= epoch'
  <2>1. result.me.epoch <= epoch /\ epoch <= epoch
    BY <1>1, <1>3 DEF TimeoutReported
  <2> DEFINE d == [NoResult EXCEPT !.me = me, !.rc = "tx"]
  <2>2. d.me.epoch = epoch /\ (result' = result \/ result' = d)
    BY <1>4, <1>5
  <2> HIDE DEF d
  <2> QED
    BY <1>2, <2>1, <2>2
<1>8. TimeoutMeansNoAnswer'
  <2>1. CASE result' = result
    BY <1>1, <1>2, <2>1 DEF TimeoutMeansNoAnswer
  <2>2. CASE result'.rc = "tx"
    BY <2>2 DEF TimeoutMeansNoAnswer
  <2> QED
    BY <1>2, <2>1, <2>2
<1>9. CASE stack' = Append(Outer(me), NewTop(k, me)) /\ result' = result
  <2>1. NewTop(k, me) \in ContextType /\ NewTop(k, me).me = me /\ NewTop(k, me).phase = "poll"
    BY <1>2, TopOK
  <2>2. Top' = NewTop(k, me)
    BY <1>1, <1>2, <1>9, <2>1, PushFacts
  <2>3. SeesOwn'
    BY <1>2, <1>6, <2>1, <2>2 DEF SeesOwn
  <2>4. TimeoutReported'
    BY <1>7, <2>1, <2>2 DEF TimeoutReported
  <2> QED
    BY <1>6, <1>8, <2>3, <2>4
<1>10. CASE stack' = Outer(me) /\ result'.rc = "tx"
  <2>1. /\ Len(stack') = n /\ Top' = stack'[n]
        /\ \A i \in 2 .. n : stack'[i] = [stack[i] EXCEPT !.inner = @ \cup {me}]
    BY <1>1, <1>2, <1>10, NoteFacts
  <2>2. n \in Nat \ {0} /\ stack \in [1 .. n -> ContextType]
    BY <1>1, StackFacts
  <2> HIDE DEF n
  <2>3. n > 1 => Top'.inner # {}
    <3> SUFFICES ASSUME n > 1 PROVE Top'.inner # {}
      OBVIOUS
    <3>1. n \in 2 .. n /\ n \in 1 .. n
      BY <2>2
    <3>2. stack[n] \in ContextType
      BY <2>2, <3>1
    <3>3. Top' = [stack[n] EXCEPT !.inner = @ \cup {me}]
      BY <2>1, <3>1
    <3>4. Top'.inner = stack[n].inner \cup {me}
      BY <1>2, <3>2, <3>3, NoteOne
    <3> QED
      BY <3>4
  <2>4. SeesOwn'
    BY <2>1, <2>3 DEF SeesOwn
  <2>5. TimeoutReported'
    BY <1>7, <1>10 DEF TimeoutReported
  <2> QED
    BY <1>6, <1>8, <2>4, <2>5
<1> QED
  BY <1>2, <1>9, <1>10

LEMMA TimeoutStep == TimeoutInv /\ [Next]_vars => TimeoutInv'
<1> SUFFICES ASSUME TimeoutInv, [Next]_vars
             PROVE  DeliveredPast' /\ SeesOwn' /\ TimeoutReported' /\ TimeoutMeansNoAnswer'
  BY AnswerStep DEF TimeoutInv
<1>1. /\ TypeInv /\ Uninitialized /\ AnswerInv
      /\ DeliveredPast /\ SeesOwn /\ TimeoutReported /\ TimeoutMeansNoAnswer
  BY DEF TimeoutInv, AnswerInv, NumInv, WaitInv
<1>2. CASE Within
  BY <1>2, WithinTimeout
<1>3. CASE Look /\ ctrl.seen /\ Returns(ReturnCode)
  <2>1. ReturnCode # "timeout"
    BY <1>1, <1>3 DEF AnswerInv, SeenOwned, ReturnCode, Code
  <2> QED
    BY <1>3, <2>1, ReturnTimeout
<1>4. CASE Look /\ ~ctrl.seen /\ Returns("timeout")
  BY <1>4, ReturnTimeout
<1>5. CASE \E k \in Kind : RequestBegin(k)
  <2>1. PICK k \in Kind : RequestBegin(k)
    BY <1>5
  <2>2. CASE calls' # calls
    BY <2>1, <2>2, RequestTimeout
  <2> DEFINE d == [NoResult EXCEPT !.me = [serial |-> calls + 1, epoch |-> epoch], !.rc = "state"]
  <2>3. CASE result' = d /\ UNCHANGED <<ctrl, stack, calls>>
    <3>1. d.rc = "state" /\ d.me.epoch = epoch
      BY DEF NoResult
    <3>2. UNCHANGED <<delivered, epoch>> /\ epoch <= epoch
      BY <1>1, <2>1, ResultTypes DEF RequestBegin
    <3> HIDE DEF d
    <3>3. SeesOwn' /\ DeliveredPast'
      BY <1>1, <2>3, <3>2 DEF SeesOwn, DeliveredPast, Top
    <3> QED
      BY <2>3, <3>1, <3>2, <3>3 DEF TimeoutReported, TimeoutMeansNoAnswer
  <2>4. calls' = calls + 1 \/ (result' = d /\ UNCHANGED <<ctrl, stack, calls>>)
    BY <2>1 DEF RequestBegin
  <2>5. calls + 1 # calls
    BY <1>1, ResultTypes
  <2> QED
    BY <2>2, <2>3, <2>4, <2>5
<1>6. CASE RequestUnencoded
  <2>1. /\ calls' = calls + 1 /\ calls \in Nat /\ epoch' = epoch /\ epoch \in Nat
        /\ ctrl'.seen = ctrl.seen /\ result'.rc = "proto" /\ result'.me.epoch = epoch
        /\ UNCHANGED <<stack, delivered>>
    BY <1>1, <1>6, UnencodedKeeps, ResultTypes
  <2>2. DeliveredPast'
    <3>1. \A m \in delivered : m.serial \in Nat /\ m.serial <= calls
      BY <1>1, ResultTypes DEF DeliveredPast
    <3> QED
      BY <2>1, <3>1 DEF DeliveredPast
  <2>3. SeesOwn' /\ TimeoutReported' /\ TimeoutMeansNoAnswer'
    BY <1>1, <2>1 DEF SeesOwn, TimeoutReported, TimeoutMeansNoAnswer, Top
  <2> QED
    BY <2>2, <2>3
<1>7. CASE UNCHANGED vars
  BY <1>1, <1>7 DEF vars, history, DeliveredPast, SeesOwn, TimeoutReported, TimeoutMeansNoAnswer, Top
<1> QED
  BY <1>2, <1>3, <1>4, <1>5, <1>6, <1>7, NextCases

LEMMA TimeoutAlways == Spec => []TimeoutInv
<1>1. Init => DeliveredPast /\ SeesOwn /\ TimeoutReported /\ TimeoutMeansNoAnswer
  <2> SUFFICES ASSUME Init PROVE DeliveredPast /\ SeesOwn /\ TimeoutReported /\ TimeoutMeansNoAnswer
    OBVIOUS
  <2>1. delivered = {} /\ Len(stack) = 1 /\ epoch = 0 /\ result = NoResult
    BY DEF Init
  <2>2. NoResult.rc = "none" /\ NoResult.me.epoch = 0 /\ 0 <= 0 /\ ~(1 > 1)
    BY MeParts DEF NoResult
  <2> QED
    BY <2>1, <2>2 DEF DeliveredPast, SeesOwn, TimeoutReported, TimeoutMeansNoAnswer
<1>2. Init => AnswerInv
  <2>1. Init => SeenOwned /\ AnswerOwned
    BY DEF Init, SeenOwned, AnswerOwned, Cleared, NoResult, Code
  <2> QED
    BY <2>1, NumInit DEF AnswerInv
<1>3. Init => TimeoutInv
  BY <1>1, <1>2 DEF TimeoutInv
<1> QED
  BY <1>3, TimeoutStep, PTL DEF Spec

(* A request inside which nothing was made does not report a time-out when *)
(* its answer was dispatched before it returned, at any depth of nesting.  *)
THEOREM CtrlTimeoutMeansNoAnswer == Spec => []TimeoutMeansNoAnswer
<1>1. TimeoutInv => TimeoutMeansNoAnswer
  BY DEF TimeoutInv
<1> QED
  BY <1>1, TimeoutAlways, PTL

-----------------------------------------------------------------------------
(***************************************************************************)
(* A proof about HostedCtrl, for every choice of the constants: what the   *)
(* host says of the link once it has dispatched the last change of it.     *)
(***************************************************************************)

OfLink(f) == LinkUp(f) \/ LinkDown(f)

(* Frames of the link come in the order of the changes they report.        *)
Newer(f, g) == OfLink(f) /\ OfLink(g) => f.last < g.last
Rising(s) == \A i, k \in 1 .. Len(s) : i < k => Newer(s[i], s[k])
Before(s, t) == \A i \in 1 .. Len(s), k \in 1 .. Len(t) : Newer(s[i], t[k])
Under(s, n) == \A i \in 1 .. Len(s) : OfLink(s[i]) => s[i].last < n

(* t is what stands in s behind the first n.                               *)
IsPart(t, s, n) == Len(t) + n <= Len(s) /\ \A i \in 1 .. Len(t) : t[i] = s[n + i]

LEMMA FrameSeq ==
  ASSUME NEW s \in Seq(Frame)
  PROVE  /\ Len(s) \in Nat
         /\ \A i \in 1 .. Len(s) : s[i] \in Frame
OBVIOUS

LEMMA LastNat ==
  ASSUME NEW f \in Frame
  PROVE  f.last \in Nat
BY ConstantFacts DEF Frame

LEMMA PartOrder ==
  ASSUME NEW s \in Seq(Frame), NEW t \in Seq(Frame), NEW u \in Seq(Frame),
         NEW n \in Nat, IsPart(t, s, n)
  PROVE  /\ Rising(s) => Rising(t)
         /\ Before(s, u) => Before(t, u)
         /\ Before(u, s) => Before(u, t)
<1>1. /\ Len(t) \in Nat /\ Len(s) \in Nat /\ Len(t) + n <= Len(s)
      /\ \A i \in 1 .. Len(t) : t[i] = s[n + i] /\ n + i \in 1 .. Len(s)
  BY FrameSeq DEF IsPart
<1>2. Rising(s) => Rising(t)
  <2> SUFFICES ASSUME Rising(s), NEW i \in 1 .. Len(t), NEW k \in 1 .. Len(t), i < k
               PROVE  Newer(t[i], t[k])
    BY DEF Rising
  <2>1. n + i < n + k /\ n + i \in 1 .. Len(s) /\ n + k \in 1 .. Len(s)
    BY <1>1
  <2>2. Newer(s[n + i], s[n + k])
    BY <2>1 DEF Rising
  <2>3. t[i] = s[n + i] /\ t[k] = s[n + k]
    BY <1>1
  <2> QED
    BY <2>2, <2>3
<1>3. Before(s, u) => Before(t, u)
  BY <1>1 DEF Before
<1>4. Before(u, s) => Before(u, t)
  BY <1>1 DEF Before
<1> QED
  BY <1>2, <1>3, <1>4

LEMMA TailIsPart ==
  ASSUME NEW s \in Seq(Frame), s # <<>>
  PROVE  /\ Tail(s) \in Seq(Frame) /\ IsPart(Tail(s), s, 1) /\ Range(Tail(s)) \subseteq Range(s)
         /\ Head(s) = s[1] /\ Head(s) \in Frame /\ Head(s) \in Range(s)
<1>1. /\ Tail(s) \in Seq(Frame) /\ Len(Tail(s)) = Len(s) - 1 /\ Len(s) \in Nat \ {0}
      /\ Head(s) = s[1] /\ Head(s) \in Frame
      /\ \A i \in 1 .. Len(Tail(s)) : Tail(s)[i] = s[i + 1]
  BY HeadTailProperties, EmptySeq
<1>2. \A i \in 1 .. Len(Tail(s)) : 1 + i = i + 1
  BY <1>1
<1>3. IsPart(Tail(s), s, 1)
  BY <1>1, <1>2 DEF IsPart
<1> QED
  BY <1>1, <1>3, RangeOf

(* The frame at the head is older than all the others.                     *)
LEMMA HeadOlder ==
  ASSUME NEW s \in Seq(Frame), NEW u \in Seq(Frame), s # <<>>, Rising(s), Before(s, u)
  PROVE  \A f \in Range(Tail(s)) \cup Range(u) : Newer(Head(s), f)
<1>1. /\ Tail(s) \in Seq(Frame) /\ Len(Tail(s)) = Len(s) - 1 /\ Len(s) \in Nat \ {0}
      /\ Head(s) = s[1]
      /\ \A i \in 1 .. Len(Tail(s)) : Tail(s)[i] = s[i + 1]
  BY HeadTailProperties, EmptySeq
<1>2. 1 \in 1 .. Len(s) /\ \A i \in 1 .. Len(s) - 1 : i + 1 \in 1 .. Len(s) /\ 1 < i + 1
  BY <1>1
<1>3. \A i \in 1 .. Len(Tail(s)) : Newer(Head(s), Tail(s)[i])
  BY <1>1, <1>2 DEF Rising
<1>4. \A k \in 1 .. Len(u) : Newer(Head(s), u[k])
  BY <1>1, <1>2 DEF Before
<1>5. \A t \in Seq(Frame) : Range(t) = {t[i] : i \in 1 .. Len(t)}
  BY RangeOf
<1>6. \A f \in Range(Tail(s)) : Newer(Head(s), f)
  <2> DEFINE t == Tail(s)
             h == Head(s)
  <2>1. t \in Seq(Frame) /\ \A i \in 1 .. Len(t) : Newer(h, t[i])
    BY <1>1, <1>3
  <2> HIDE DEF t, h
  <2>2. \A f \in Range(t) : Newer(h, f)
    BY <1>5, <2>1
  <2> QED
    BY <2>2 DEF t, h
<1>7. \A f \in Range(u) : Newer(Head(s), f)
  BY <1>4, <1>5
<1> QED
  BY <1>6, <1>7

(* A frame behind all the others.                                          *)
LEMMA AppendOrder ==
  ASSUME NEW s \in Seq(Frame), NEW f \in Frame, NEW u \in Seq(Frame), NEW n \in Nat,
         Under(s, n), Under(u, n), Rising(s), Before(u, s), OfLink(f) => f.last = n
  PROVE  LET t == Append(s, f)
         IN  /\ t \in Seq(Frame) /\ Range(t) = Range(s) \cup {f}
             /\ Rising(t) /\ Before(u, t)
             /\ ~OfLink(f) => Under(t, n)
             /\ Under(t, n + 1)
<1> DEFINE t == Append(s, f)
           L == Len(s)
<1>1. /\ t \in Seq(Frame) /\ Len(t) = L + 1 /\ L \in Nat
      /\ \A i \in 1 .. L : t[i] = s[i]
      /\ t[L + 1] = f
  BY AppendProperties, FrameSeq
<1>2. Range(t) = Range(s) \cup {f}
  BY RangeOf
<1>3. \A i \in 1 .. L + 1 : i \in 1 .. L \/ i = L + 1
  BY <1>1
<1> HIDE DEF t
<1>4. /\ \A i \in 1 .. L : Newer(s[i], f)
      /\ \A k \in 1 .. Len(u) : Newer(u[k], f)
  BY DEF Newer, Under
<1>5. Rising(t)
  <2> SUFFICES ASSUME NEW i \in 1 .. L + 1, NEW k \in 1 .. L + 1, i < k
               PROVE  Newer(t[i], t[k])
    BY <1>1 DEF Rising
  <2>1. i \in 1 .. L /\ t[i] = s[i]
    BY <1>1
  <2>2. CASE k = L + 1
    BY <1>1, <1>4, <2>1, <2>2
  <2>3. CASE k \in 1 .. L
    BY <1>1, <2>1, <2>3 DEF Rising
  <2> QED
    BY <1>3, <2>2, <2>3
<1>6. Before(u, t)
  <2> SUFFICES ASSUME NEW i \in 1 .. Len(u), NEW k \in 1 .. L + 1
               PROVE  Newer(u[i], t[k])
    BY <1>1 DEF Before
  <2>1. CASE k = L + 1
    BY <1>1, <1>4, <2>1
  <2>2. CASE k \in 1 .. L
    BY <1>1, <2>2 DEF Before
  <2> QED
    BY <1>3, <2>1, <2>2
<1>7. ~OfLink(f) => Under(t, n)
  BY <1>1, <1>3 DEF Under
<1>8. Under(t, n + 1)
  <2>1. \A i \in 1 .. L : s[i].last \in Nat
    BY FrameSeq, LastNat
  <2>2. \A i \in 1 .. L : OfLink(s[i]) => s[i].last < n + 1
    BY <2>1 DEF Under
  <2>3. OfLink(f) => f.last < n + 1
    OBVIOUS
  <2> QED
    BY <1>1, <1>3, <2>2, <2>3 DEF Under
<1> QED
  BY <1>1, <1>2, <1>5, <1>6, <1>7, <1>8 DEF t

(* One sequence behind another.                                            *)
LEMMA ConcatOrder ==
  ASSUME NEW s \in Seq(Frame), NEW t \in Seq(Frame), NEW u \in Seq(Frame),
         Rising(s), Rising(t), Before(s, t), Before(s, u), Before(t, u)
  PROVE  s \o t \in Seq(Frame) /\ Rising(s \o t) /\ Before(s \o t, u)
<1> DEFINE c == s \o t
           m == Len(s)
           n == Len(t)
<1>1. /\ c \in Seq(Frame) /\ Len(c) = m + n /\ m \in Nat /\ n \in Nat
      /\ \A i \in 1 .. m + n : c[i] = IF i <= m THEN s[i] ELSE t[i - m]
  BY ConcatProperties, FrameSeq
<1>2. /\ \A i, k \in 1 .. m : i < k => Newer(s[i], s[k])
      /\ \A i, k \in 1 .. n : i < k => Newer(t[i], t[k])
      /\ \A i \in 1 .. m, k \in 1 .. n : Newer(s[i], t[k])
      /\ \A i \in 1 .. m, k \in 1 .. Len(u) : Newer(s[i], u[k])
      /\ \A i \in 1 .. n, k \in 1 .. Len(u) : Newer(t[i], u[k])
  BY DEF Rising, Before
<1> HIDE DEF c, m, n
<1>3. ASSUME NEW i \in 1 .. m + n
      PROVE  \/ i <= m /\ i \in 1 .. m /\ c[i] = s[i]
             \/ i > m /\ i - m \in 1 .. n /\ c[i] = t[i - m]
  <2>1. CASE i <= m
    BY <2>1, <1>1
  <2>2. CASE i > m
    <3>1. i - m \in 1 .. n /\ ~(i <= m)
      BY <2>2, <1>1
    <3> QED
      BY <3>1, <2>2, <1>1
  <2> QED
    BY <2>1, <2>2, <1>1
<1>4. Rising(c)
  <2> SUFFICES ASSUME NEW i \in 1 .. m + n, NEW k \in 1 .. m + n, i < k
               PROVE  Newer(c[i], c[k])
    BY <1>1 DEF Rising
  <2>1. CASE i \in 1 .. m /\ c[i] = s[i] /\ k \in 1 .. m /\ c[k] = s[k]
    BY <1>2, <2>1
  <2>2. CASE i \in 1 .. m /\ c[i] = s[i] /\ k - m \in 1 .. n /\ c[k] = t[k - m]
    BY <1>2, <2>2
  <2>3. CASE i > m /\ i - m \in 1 .. n /\ c[i] = t[i - m] /\ k - m \in 1 .. n /\ c[k] = t[k - m]
    <3>1. i - m < k - m
      BY <1>1
    <3> QED
      BY <1>2, <2>3, <3>1
  <2>4. i > m => ~(k <= m)
    BY <1>1
  <2> QED
    BY <1>3, <2>1, <2>2, <2>3, <2>4
<1>5. Before(c, u)
  <2> SUFFICES ASSUME NEW i \in 1 .. m + n, NEW k \in 1 .. Len(u) PROVE Newer(c[i], u[k])
    BY <1>1 DEF Before
  <2> QED
    BY <1>2, <1>3
<1> QED
  BY <1>1, <1>4, <1>5 DEF c

(* The first frames of a sequence, and the rest of it.                     *)
LEMMA SplitOrder ==
  ASSUME NEW s \in Seq(Frame), NEW n \in 0 .. Len(s), Rising(s)
  PROVE  LET a == SubSeq(s, 1, n)
             b == SubSeq(s, n + 1, Len(s))
         IN  /\ a \in Seq(Frame) /\ IsPart(a, s, 0) /\ Range(a) \subseteq Range(s)
             /\ b \in Seq(Frame) /\ IsPart(b, s, n) /\ Range(b) \subseteq Range(s)
             /\ Before(a, b)
<1> DEFINE L == Len(s)
           a == SubSeq(s, 1, n)
           b == SubSeq(s, n + 1, L)
<1>1. /\ L \in Nat /\ n \in Nat /\ n <= L
      /\ \A i \in 1 .. L : s[i] \in Frame
  BY FrameSeq
<1>2. 1 .. n \subseteq 1 .. L /\ n + 1 .. L \subseteq 1 .. L /\ n \in Int /\ n + 1 \in Int /\ L \in Int
  BY <1>1
<1>3. a \in Seq(Frame) /\ Range(a) \subseteq Range(s) /\ b \in Seq(Frame) /\ Range(b) \subseteq Range(s)
  BY <1>2, RangePart
<1>4. Len(a) = n /\ \A i \in 1 .. n : a[i] = s[0 + i]
  <2>1. \A i \in 1 .. n : s[i] \in Frame
    BY <1>1
  <2>2. /\ Len(a) = IF 1 <= n THEN (n - 1) + 1 ELSE 0
        /\ \A i \in 1 .. (n - 1) + 1 : a[i] = s[(1 + i) - 1]
    BY <1>2, <2>1, SubSeqProperties
  <2>3. \A i \in 1 .. n : i \in 1 .. (n - 1) + 1 /\ (1 + i) - 1 = 0 + i
    BY <1>1
  <2>4. (IF 1 <= n THEN (n - 1) + 1 ELSE 0) = n
    BY <1>1
  <2> QED
    BY <2>2, <2>3, <2>4
<1>5. Len(b) = L - n /\ \A i \in 1 .. L - n : b[i] = s[n + i]
  <2>1. \A i \in n + 1 .. L : s[i] \in Frame
    BY <1>1
  <2>2. /\ Len(b) = IF n + 1 <= L THEN (L - (n + 1)) + 1 ELSE 0
        /\ \A i \in 1 .. (L - (n + 1)) + 1 : b[i] = s[((n + 1) + i) - 1]
    BY <1>2, <2>1, SubSeqProperties
  <2>3. \A i \in 1 .. L - n : i \in 1 .. (L - (n + 1)) + 1 /\ ((n + 1) + i) - 1 = n + i
    BY <1>1
  <2>4. (IF n + 1 <= L THEN (L - (n + 1)) + 1 ELSE 0) = L - n
    BY <1>1
  <2> QED
    BY <2>2, <2>3, <2>4
<1> HIDE DEF a, b
<1>6. IsPart(a, s, 0) /\ IsPart(b, s, n)
  <2>1. n + 0 <= L /\ (L - n) + n <= L
    BY <1>1
  <2> QED
    BY <1>4, <1>5, <2>1 DEF IsPart, L
<1>7. Before(a, b)
  <2> SUFFICES ASSUME NEW i \in 1 .. n, NEW k \in 1 .. L - n PROVE Newer(a[i], b[k])
    BY <1>4, <1>5 DEF Before
  <2>1. 0 + i \in 1 .. L /\ n + k \in 1 .. L /\ 0 + i < n + k
    BY <1>1
  <2>2. Newer(s[0 + i], s[n + k])
    BY <2>1 DEF Rising, L
  <2> QED
    BY <1>4, <1>5, <2>2
<1> QED
  BY <1>3, <1>6, <1>7 DEF a, b, L

-----------------------------------------------------------------------------
(* The invariant.                                                          *)

LinkOrder == Rising(queue) /\ Rising(air) /\ Before(queue, air)

(* A frame of the link tells of a change of the past; that of the last     *)
(* change tells how the link is, and has not been dispatched.              *)
Tells(f) ==
    OfLink(f) => f.last <= change /\ (f.last = change => (LinkUp(f) <=> link)) /\ ~known

LinkTrue == \A f \in Frames : Tells(f)

LinkInv == WaitInv /\ LinkOrder /\ LinkTrue /\ LinkKnown

LEMMA LinkTypes ==
  ASSUME TypeInv
  PROVE  /\ queue \in Seq(Frame) /\ air \in Seq(Frame) /\ wire \in Seq(Request)
         /\ change \in Nat /\ events \in Nat /\ change <= events
         /\ link \in BOOLEAN /\ known \in BOOLEAN /\ ctrl \in CtrlType
<1>1. /\ events \in 0 .. MaxEvents /\ change \in 0 .. events
      /\ queue \in Seq(Frame) /\ air \in Seq(Frame) /\ wire \in Seq(Request)
      /\ link \in BOOLEAN /\ known \in BOOLEAN /\ ctrl \in CtrlType
  BY DEF TypeInv, TypeOK, Bounds
<1>2. events \in Nat
  BY <1>1, ConstantFacts
<1> QED
  BY <1>1, <1>2

(* A step that loses, moves or drops frames, and at most forgets.          *)
LEMMA FewerFrames ==
  ASSUME LinkInv, Frames' \subseteq Frames, UNCHANGED <<link, change>>,
         known' => known /\ ctrl'.connected = ctrl.connected
  PROVE  LinkTrue' /\ LinkKnown'
<1>1. LinkTrue /\ LinkKnown
  BY DEF LinkInv
<1>2. LinkTrue'
  BY <1>1 DEF LinkTrue, Tells
<1>3. LinkKnown'
  BY <1>1 DEF LinkKnown
<1> QED
  BY <1>2, <1>3

LEMMA SameFrames ==
  ASSUME LinkInv, UNCHANGED <<queue, air, link, change>>,
         known' => known /\ ctrl'.connected = ctrl.connected
  PROVE  LinkOrder' /\ LinkTrue' /\ LinkKnown'
<1>1. Frames' = Frames
  BY DEF Frames
<1>2. LinkOrder'
  BY DEF LinkInv, LinkOrder
<1> QED
  BY <1>1, <1>2, FewerFrames

LEMMA PollLinks ==
  ASSUME LinkInv, Poll
  PROVE  LinkOrder' /\ LinkTrue' /\ LinkKnown'
<1>1. /\ queue \in Seq(Frame) /\ air \in Seq(Frame)
      /\ Rising(queue) /\ Rising(air) /\ Before(queue, air)
  BY LinkTypes DEF LinkInv, WaitInv, LinkOrder
<1>2. UNCHANGED <<link, change, known, ctrl>>
  BY DEF Poll, history
<1>3. CASE UNCHANGED <<queue, air>>
  BY <1>2, <1>3, SameFrames
<1>4. CASE \E n \in 0 .. Len(air) : /\ queue' = queue \o SubSeq(air, 1, n)
                                    /\ air' = SubSeq(air, n + 1, Len(air))
  <2>1. PICK n \in 0 .. Len(air) : /\ queue' = queue \o SubSeq(air, 1, n)
                                   /\ air' = SubSeq(air, n + 1, Len(air))
    BY <1>4
  <2> DEFINE a == SubSeq(air, 1, n)
             b == SubSeq(air, n + 1, Len(air))
  <2>2. /\ a \in Seq(Frame) /\ IsPart(a, air, 0) /\ Range(a) \subseteq Range(air)
        /\ b \in Seq(Frame) /\ IsPart(b, air, n) /\ Range(b) \subseteq Range(air)
        /\ Before(a, b)
    BY <1>1, SplitOrder
  <2>3. queue' = queue \o a /\ air' = b
    BY <2>1
  <2> HIDE DEF a, b
  <2>4. n \in Nat /\ 0 \in Nat
    BY <1>1, FrameSeq
  <2>5. Rising(a) /\ Before(queue, a)
    BY <1>1, <2>2, <2>4, PartOrder
  <2>6. Rising(b) /\ Before(queue, b)
    BY <1>1, <2>2, <2>4, PartOrder
  <2>7. Rising(queue \o a) /\ Before(queue \o a, b)
    BY <1>1, <2>2, <2>5, <2>6, ConcatOrder
  <2>8. Range(queue \o a) = Range(queue) \cup Range(a)
    BY <1>1, <2>2, RangeConcat
  <2>9. LinkOrder'
    BY <2>3, <2>6, <2>7 DEF LinkOrder
  <2>10. Frames' \subseteq Frames
    BY <2>2, <2>3, <2>8 DEF Frames
  <2> QED
    BY <1>2, <2>9, <2>10, FewerFrames
<1> QED
  BY <1>3, <1>4 DEF Poll

(* The frame that tells of the last change makes the host right; no frame  *)
(* of the link is left behind it.                                          *)
LEMMA DispatchLinks ==
  ASSUME LinkInv, DispatchOne
  PROVE  LinkOrder' /\ LinkTrue' /\ LinkKnown'
<1> DEFINE f == Head(queue)
           c == [ctrl EXCEPT
                  !.ready = (@ \/ f.type = "init"),
                  !.connected = (@ \/ LinkUp(f)) /\ ~LinkDown(f)]
           d == [c EXCEPT !.seen = TRUE, !.code = f.code, !.from = f.of,
                          !.fields = IF f.code = "bad" THEN @ ELSE f.kind]
<1>1. /\ queue \in Seq(Frame) /\ air \in Seq(Frame) /\ ctrl \in CtrlType
      /\ change \in Nat /\ link \in BOOLEAN /\ known \in BOOLEAN
      /\ Rising(queue) /\ Rising(air) /\ Before(queue, air) /\ LinkTrue /\ LinkKnown
  BY LinkTypes DEF LinkInv, WaitInv, LinkOrder
<1>2. /\ queue # <<>> /\ queue' = Tail(queue)
      /\ UNCHANGED <<air, link, change>>
      /\ \/ ctrl' = ctrl /\ known' = known
         \/ /\ ctrl' \in {c, d}
            /\ known' = (known \/ (OfLink(f) /\ f.last = change))
  BY DEF DispatchOne, slave, OfLink
<1>3. c.connected = ((ctrl.connected \/ LinkUp(f)) /\ ~LinkDown(f)) /\ d.connected = c.connected
  <2>1. c.connected = ((ctrl.connected \/ LinkUp(f)) /\ ~LinkDown(f)) /\ DOMAIN c = DOMAIN ctrl
    BY <1>1 DEF CtrlType
  <2> HIDE DEF c
  <2> QED
    BY <2>1
<1>4. /\ Tail(queue) \in Seq(Frame) /\ IsPart(Tail(queue), queue, 1)
      /\ Range(Tail(queue)) \subseteq Range(queue) /\ f \in Frame /\ f \in Range(queue)
  BY <1>1, <1>2, TailIsPart
<1>5. \A g \in Range(Tail(queue)) \cup Range(air) : Newer(f, g)
  BY <1>1, <1>2, HeadOlder
<1> HIDE DEF f, c, d
<1>6. 1 \in Nat
  OBVIOUS
<1>7. LinkOrder'
  <2>1. Rising(Tail(queue)) /\ Before(Tail(queue), air)
    BY <1>1, <1>4, <1>6, PartOrder
  <2> QED
    BY <1>1, <1>2, <2>1 DEF LinkOrder
<1>8. Frames' \subseteq Frames /\ f \in Frames
  BY <1>2, <1>4 DEF Frames
<1>9. Tells(f)
  BY <1>1, <1>8 DEF LinkTrue
<1>10. CASE OfLink(f) /\ f.last = change /\ ctrl' \in {c, d}
  <2>1. \A g \in Frames' : ~OfLink(g)
    <3> SUFFICES ASSUME NEW g \in Frames', OfLink(g) PROVE FALSE
      OBVIOUS
    <3>1. g \in Range(Tail(queue)) \cup Range(air)
      BY <1>2 DEF Frames
    <3>2. f.last < g.last
      BY <1>5, <1>10, <3>1 DEF Newer
    <3>3. g \in Frames /\ g.last <= change
      BY <1>1, <1>8 DEF LinkTrue, Tells
    <3>4. g.last \in Nat
      <4>1. g \in Frame
        BY <1>1, <1>4, <3>1, RangeOf
      <4> QED
        BY <4>1, LastNat
    <3> QED
      BY <1>1, <1>10, <3>2, <3>3, <3>4
  <2>2. LinkTrue'
    BY <2>1 DEF LinkTrue, Tells
  <2>3. ctrl'.connected = ((ctrl.connected \/ LinkUp(f)) /\ ~LinkDown(f))
    BY <1>3, <1>10
  <2>4. LinkUp(f) => ~LinkDown(f)
    BY DEF LinkUp, LinkDown
  <2>5. LinkUp(f) <=> link
    BY <1>9, <1>10 DEF Tells
  <2>6. CASE LinkUp(f)
    <3>1. ctrl'.connected = TRUE /\ link = TRUE
      BY <1>1, <2>3, <2>4, <2>5, <2>6
    <3> QED
      BY <1>2, <1>7, <2>2, <3>1 DEF LinkKnown
  <2>7. CASE ~LinkUp(f)
    <3>1. LinkDown(f)
      BY <1>10, <2>7 DEF OfLink
    <3>2. ctrl'.connected = FALSE /\ link = FALSE
      BY <1>1, <2>3, <2>5, <2>7, <3>1
    <3> QED
      BY <1>2, <1>7, <2>2, <3>2 DEF LinkKnown
  <2> QED
    BY <2>6, <2>7
<1>11. CASE ~(OfLink(f) /\ f.last = change /\ ctrl' \in {c, d})
  <2>1. known' => known
    BY <1>2, <1>11
  <2>2. known => ~OfLink(f)
    BY <1>9 DEF Tells
  <2>3. known => ctrl'.connected = ctrl.connected
    <3> SUFFICES ASSUME known PROVE ctrl'.connected = ctrl.connected
      OBVIOUS
    <3>1. ~LinkUp(f) /\ ~LinkDown(f)
      BY <2>2 DEF OfLink
    <3>2. ctrl.connected \in BOOLEAN
      BY <1>1 DEF CtrlType
    <3>3. c.connected = ctrl.connected
      BY <1>3, <3>1, <3>2
    <3> QED
      BY <1>2, <1>3, <3>3
  <2> QED
    BY <1>2, <1>7, <1>8, <2>1, <2>3, FewerFrames
<1> QED
  BY <1>10, <1>11

(* Every frame in sight is older than the next event.                      *)
LEMMA AllUnder ==
  ASSUME LinkInv
  PROVE  /\ events + 1 \in Nat /\ events + 1 > change /\ events + 1 # change
         /\ Under(queue, events + 1) /\ Under(air, events + 1)
         /\ \A f \in Frames : OfLink(f) => f.last # events + 1 /\ f.last <= events + 1
<1>1. /\ queue \in Seq(Frame) /\ air \in Seq(Frame)
      /\ change \in Nat /\ events \in Nat /\ change <= events
  BY LinkTypes DEF LinkInv, WaitInv
<1>2. \A f \in Frames : OfLink(f) => f.last < events + 1 /\ f.last # events + 1 /\ f.last <= events + 1
  <2> SUFFICES ASSUME NEW f \in Frames, OfLink(f)
               PROVE  f.last < events + 1 /\ f.last # events + 1 /\ f.last <= events + 1
    OBVIOUS
  <2>1. f.last <= change
    BY DEF LinkInv, LinkTrue, Tells
  <2>2. f.last \in Nat
    <3>1. f \in Frame
      BY <1>1, RangeOf DEF Frames
    <3> QED
      BY <3>1, LastNat
  <2> QED
    BY <1>1, <2>1, <2>2
<1>3. /\ \A i \in 1 .. Len(queue) : queue[i] \in Frames
      /\ \A i \in 1 .. Len(air) : air[i] \in Frames
  BY <1>1, RangeOf DEF Frames
<1>4. Under(queue, events + 1) /\ Under(air, events + 1)
  BY <1>2, <1>3 DEF Under
<1>5. events + 1 \in Nat /\ events + 1 > change /\ events + 1 # change
  BY <1>1
<1> QED
  BY <1>2, <1>4, <1>5

(* The frames that are there when the link changes are of the past.        *)
LEMMA ChangeLinks ==
  ASSUME LinkInv, change' = events + 1, known' = FALSE,
         NEW f, f.last = events + 1, LinkUp(f) <=> link', NEW g, ~OfLink(g),
         Frames' \subseteq Frames \cup {f, g}
  PROVE  LinkTrue' /\ LinkKnown'
<1>1. \A e \in Frames : OfLink(e) => e.last # events + 1 /\ e.last <= events + 1
  BY AllUnder
<1>2. events + 1 <= events + 1
  BY AllUnder
<1>3. LinkTrue'
  BY <1>1, <1>2 DEF LinkTrue, Tells
<1> QED
  BY <1>3 DEF LinkKnown

LEMMA NewEvents ==
  ASSUME TypeInv, events < MaxEvents
  PROVE  /\ Event("disc", TRUE, events + 1) \in Frame /\ LinkDown(Event("disc", TRUE, events + 1))
         /\ ~LinkUp(Event("disc", TRUE, events + 1))
         /\ Event("conn", TRUE, events + 1) \in Frame /\ LinkUp(Event("conn", TRUE, events + 1))
         /\ Event("conn", FALSE, events + 1) \in Frame /\ ~OfLink(Event("conn", FALSE, events + 1))
         /\ Event("init", TRUE, events + 1) \in Frame /\ ~OfLink(Event("init", TRUE, events + 1))
         /\ Event("init", TRUE, events + 1).last = events + 1
         /\ Event("disc", TRUE, events + 1).last = events + 1
         /\ Event("conn", TRUE, events + 1).last = events + 1
<1>1. events \in 0 .. MaxEvents
  BY DEF TypeInv, Bounds
<1>2. events + 1 \in 0 .. MaxEvents
  BY <1>1, ConstantFacts
<1>3. /\ Event("disc", TRUE, events + 1) \in Frame /\ Event("conn", TRUE, events + 1) \in Frame
      /\ Event("conn", FALSE, events + 1) \in Frame /\ Event("init", TRUE, events + 1) \in Frame
  BY <1>2, EventOK
<1> QED
  BY <1>3 DEF OfLink, LinkUp, LinkDown, Event

LEMMA EventLinks ==
  ASSUME LinkInv, SlaveEvent
  PROVE  LinkOrder' /\ LinkTrue' /\ LinkKnown'
<1>1. /\ TypeInv /\ queue \in Seq(Frame) /\ air \in Seq(Frame)
      /\ Rising(air) /\ Rising(queue) /\ Before(queue, air)
  BY LinkTypes DEF LinkInv, WaitInv, LinkOrder
<1>2. /\ events + 1 \in Nat /\ Under(queue, events + 1) /\ Under(air, events + 1)
  BY AllUnder
<1>3. events < MaxEvents /\ UNCHANGED <<queue, ctrl>>
  BY DEF SlaveEvent
<1>4. ASSUME NEW f \in Frame, air' = Append(air, f), OfLink(f) => f.last = events + 1
      PROVE  LinkOrder' /\ Frames' = Frames \cup {f}
  <2>1. Rising(air') /\ Before(queue, air') /\ Range(air') = Range(air) \cup {f}
    BY <1>1, <1>2, <1>4, AppendOrder
  <2> QED
    BY <1>1, <1>3, <2>1 DEF LinkOrder, Frames
<1>5. ASSUME NEW f \in Frame, air' = Append(air, f), ~OfLink(f), UNCHANGED <<link, change, known>>
      PROVE  LinkOrder' /\ LinkTrue' /\ LinkKnown'
  <2>1. LinkOrder' /\ Frames' = Frames \cup {f}
    BY <1>4, <1>5
  <2>2. LinkTrue'
    BY <1>5, <2>1 DEF LinkInv, LinkTrue, Tells
  <2>3. LinkKnown'
    BY <1>3, <1>5 DEF LinkInv, LinkKnown
  <2> QED
    BY <2>1, <2>2, <2>3
<1>6. ASSUME NEW f \in Frame, air' = Append(air, f), f.last = events + 1, LinkUp(f) <=> link',
             change' = events + 1, known' = FALSE
      PROVE  LinkOrder' /\ LinkTrue' /\ LinkKnown'
  <2>1. LinkOrder' /\ Frames' = Frames \cup {f}
    BY <1>4, <1>6
  <2>2. ~OfLink(Event("init", TRUE, events + 1))
    BY <1>1, <1>3, NewEvents
  <2> QED
    BY <1>6, <2>1, <2>2, ChangeLinks
<1>7. \/ air' = Append(air, Event("conn", FALSE, events + 1)) /\ UNCHANGED <<link, change, known>>
      \/ /\ air' = Append(air, Event("conn", TRUE, events + 1))
         /\ link' = TRUE /\ change' = events + 1 /\ known' = FALSE
      \/ /\ air' = Append(air, Event("disc", TRUE, events + 1))
         /\ link' = FALSE /\ change' = events + 1 /\ known' = FALSE
  BY DEF SlaveEvent
<1> QED
  BY <1>1, <1>3, <1>5, <1>6, <1>7, NewEvents

LEMMA HandleLinks ==
  ASSUME LinkInv, SlaveHandles
  PROVE  LinkOrder' /\ LinkTrue' /\ LinkKnown'
<1> DEFINE r == Head(wire)
           answer(code) == [type |-> "resp", kind |-> r.kind, uid |-> r.uid, of |-> r.of,
                            code |-> code, ok |-> TRUE, last |-> 0]
           gone == Event("disc", TRUE, events + 1)
<1>1. /\ TypeInv /\ queue \in Seq(Frame) /\ air \in Seq(Frame) /\ wire \in Seq(Request)
      /\ Rising(air) /\ Rising(queue) /\ Before(queue, air)
  BY LinkTypes DEF LinkInv, WaitInv, LinkOrder
<1>2. /\ events + 1 \in Nat /\ Under(queue, events + 1) /\ Under(air, events + 1)
  BY AllUnder
<1>3. wire # <<>> /\ UNCHANGED <<queue, ctrl>>
  BY DEF SlaveHandles
<1>4. PICK code \in Code :
        \/ air' = air \o <<answer(code)>> /\ UNCHANGED <<link, change, known>>
        \/ /\ events < MaxEvents
           /\ link' = FALSE /\ change' = events + 1 /\ known' = FALSE
           /\ air' \in {(air \o <<answer(code)>>) \o <<gone>>, (air \o <<gone>>) \o <<answer(code)>>}
  BY DEF SlaveHandles
<1> DEFINE a == answer(code)
<1>5. a \in Frame /\ ~OfLink(a)
  <2>1. r \in Request
    BY <1>1, <1>3, HeadTailProperties
  <2> HIDE DEF r
  <2> QED
    BY <2>1, ConstantFacts DEF Frame, Request, OfLink, LinkUp, LinkDown
<1> HIDE DEF a
<1>6. events < MaxEvents => gone \in Frame /\ gone.last = events + 1 /\ ~LinkUp(gone)
  BY <1>1, NewEvents
<1> HIDE DEF gone
<1>7. \A s \in Seq(Frame), f \in Frame : s \o <<f>> = Append(s, f)
  BY AppendIsConcat
<1>8. CASE air' = air \o <<a>> /\ UNCHANGED <<link, change, known>>
  <2>1. air' = Append(air, a)
    BY <1>1, <1>5, <1>7, <1>8
  <2>2. Rising(air') /\ Before(queue, air') /\ Range(air') = Range(air) \cup {a}
    BY <1>1, <1>2, <1>5, <2>1, AppendOrder
  <2>3. LinkOrder' /\ Frames' = Frames \cup {a}
    BY <1>1, <1>3, <2>2 DEF LinkOrder, Frames
  <2>4. LinkTrue'
    BY <1>5, <1>8, <2>3 DEF LinkInv, LinkTrue, Tells
  <2>5. LinkKnown'
    BY <1>3, <1>8 DEF LinkInv, LinkKnown
  <2> QED
    BY <2>3, <2>4, <2>5
<1>9. CASE /\ events < MaxEvents
           /\ link' = FALSE /\ change' = events + 1 /\ known' = FALSE
           /\ air' = (air \o <<a>>) \o <<gone>>
  <2> DEFINE t == Append(air, a)
  <2>1. /\ t \in Seq(Frame) /\ Rising(t) /\ Before(queue, t) /\ Under(t, events + 1)
        /\ Range(t) = Range(air) \cup {a}
    BY <1>1, <1>2, <1>5, AppendOrder
  <2>2. air \o <<a>> = t
    BY <1>1, <1>5, <1>7
  <2> HIDE DEF t
  <2>3. air' = Append(t, gone)
    BY <1>6, <1>7, <1>9, <2>1, <2>2
  <2>4. Rising(air') /\ Before(queue, air') /\ Range(air') = Range(t) \cup {gone}
    <3> DEFINE n == events + 1
    <3>1. gone \in Frame /\ gone.last = n /\ n \in Nat /\ Under(t, n) /\ Under(queue, n)
      BY <1>2, <1>6, <1>9, <2>1
    <3> HIDE DEF n
    <3>2. Rising(Append(t, gone)) /\ Before(queue, Append(t, gone))
          /\ Range(Append(t, gone)) = Range(t) \cup {gone}
      BY <1>1, <2>1, <3>1, AppendOrder
    <3> QED
      BY <2>3, <3>2
  <2>5. LinkOrder'
    BY <1>1, <1>3, <2>4 DEF LinkOrder
  <2>6. Frames' \subseteq Frames \cup {gone, a}
    BY <1>3, <2>1, <2>4 DEF Frames
  <2> QED
    BY <1>5, <1>6, <1>9, <2>5, <2>6, ChangeLinks
<1>10. CASE /\ events < MaxEvents
            /\ link' = FALSE /\ change' = events + 1 /\ known' = FALSE
            /\ air' = (air \o <<gone>>) \o <<a>>
  <2> DEFINE t == Append(air, gone)
             n == (events + 1) + 1
  <2>1. /\ t \in Seq(Frame) /\ Rising(t) /\ Before(queue, t) /\ Under(t, n)
        /\ Range(t) = Range(air) \cup {gone}
    BY <1>1, <1>2, <1>6, <1>10, AppendOrder
  <2>2. air \o <<gone>> = t
    BY <1>1, <1>6, <1>7, <1>10
  <2>3. Under(queue, n) /\ n \in Nat
    <3>1. \A i \in 1 .. Len(queue) : queue[i].last \in Nat
      BY <1>1, FrameSeq, LastNat
    <3>2. \A i \in 1 .. Len(queue) : queue[i].last < events + 1 => queue[i].last < n
      BY <1>2, <3>1
    <3> QED
      BY <1>2, <3>2 DEF Under
  <2> HIDE DEF t, n
  <2>4. air' = Append(t, a)
    BY <1>5, <1>7, <1>10, <2>1, <2>2
  <2>5. Rising(air') /\ Before(queue, air') /\ Range(air') = Range(t) \cup {a}
    BY <1>1, <1>5, <2>1, <2>3, <2>4, AppendOrder
  <2>6. LinkOrder'
    BY <1>1, <1>3, <2>5 DEF LinkOrder
  <2>7. Frames' \subseteq Frames \cup {gone, a}
    BY <1>3, <2>1, <2>5 DEF Frames
  <2> QED
    BY <1>5, <1>6, <1>10, <2>6, <2>7, ChangeLinks
<1> QED
  BY <1>4, <1>8, <1>9, <1>10 DEF a

(* The co-processor is reset or restarts: its association ends, and no     *)
(* frame tells of that.                                                    *)
LEMMA ResetLinks ==
  ASSUME LinkInv, NEW g, ~OfLink(g), Frames' \subseteq Frames \cup {g},
         link' = FALSE, ctrl'.connected = ctrl.connected,
         link => change' = events + 1 /\ known' = FALSE,
         ~link => change' = change /\ known' = known
  PROVE  LinkTrue' /\ LinkKnown'
<1>1. link \in BOOLEAN /\ LinkTrue /\ LinkKnown
  BY LinkTypes DEF LinkInv, WaitInv
<1>2. CASE link
  <2>1. /\ \A e \in Frames : OfLink(e) => e.last # events + 1 /\ e.last <= events + 1
    BY AllUnder
  <2>2. LinkTrue'
    BY <1>2, <2>1 DEF LinkTrue, Tells
  <2>3. known' = FALSE
    BY <1>2, Zenon
  <2> QED
    BY <2>2, <2>3 DEF LinkKnown
<1>3. CASE ~link
  <2>1. LinkTrue'
    BY <1>1, <1>3 DEF LinkTrue, Tells
  <2>2. known' = known /\ ctrl'.connected = ctrl.connected /\ link' = link
    BY <1>1, <1>3, Zenon
  <2> QED
    BY <1>1, <2>1, <2>2, Zenon DEF LinkKnown
<1> QED
  BY <1>2, <1>3

LEMMA RestartLinks ==
  ASSUME LinkInv, HostedRestarts \/ Reattach \/ SlaveRestarts
  PROVE  LinkOrder' /\ LinkTrue' /\ LinkKnown'
<1>1. /\ TypeInv /\ queue \in Seq(Frame) /\ air \in Seq(Frame)
      /\ Rising(air) /\ Rising(queue) /\ Before(queue, air)
      /\ link \in BOOLEAN
  BY LinkTypes DEF LinkInv, WaitInv, LinkOrder
<1>2. Rising(<<>>) /\ (\A s : Before(<<>>, s) /\ Before(s, <<>>)) /\ Range(<<>>) = {}
  BY DEF Rising, Before, Range
<1> DEFINE e == Event("init", TRUE, events + 1)
<1>3. CASE SlaveRestarts
  <2>1. /\ queue' = queue /\ air' = <<e>> /\ ctrl' = ctrl /\ link' = FALSE
        /\ change' = (IF link THEN events + 1 ELSE change) /\ known' = (known /\ ~link)
        /\ events < MaxEvents
    BY <1>3 DEF SlaveRestarts
  <2>2. e \in Frame /\ ~OfLink(e) /\ e.last = events + 1
    BY <1>1, <2>1, NewEvents
  <2> HIDE DEF e
  <2>3. Rising(<<e>>) /\ Before(queue, <<e>>) /\ Range(<<e>>) = {e}
    <3>1. DOMAIN <<e>> = 1 .. 1 /\ <<e>>[1] = e /\ Len(<<e>>) = 1
      OBVIOUS
    <3>2. Range(<<e>>) = {e}
      BY <3>1 DEF Range
    <3>3. Before(queue, <<e>>)
      BY <2>2, <3>1 DEF Before, Newer
    <3> QED
      BY <3>1, <3>2, <3>3 DEF Rising
  <2>4. LinkOrder'
    BY <1>1, <2>1, <2>3 DEF LinkOrder
  <2>5. Frames' \subseteq Frames \cup {e}
    BY <2>1, <2>3 DEF Frames
  <2>6. known \in BOOLEAN
    BY <1>1, LinkTypes
  <2> QED
    BY <1>1, <2>1, <2>2, <2>4, <2>5, <2>6, ResetLinks
<1>4. CASE HostedRestarts \/ Reattach
  <2>1. /\ queue' \in {<<>>, queue} /\ air' \in {<<>>, air} /\ ctrl' = ctrl
        /\ PinPulsed
    BY <1>4 DEF HostedRestarts, Reattach, PinPulsed, SlaveResets, slave
  <2>2. LinkOrder' /\ Frames' \subseteq Frames
    BY <1>1, <1>2, <2>1 DEF LinkOrder, Frames
  <2>3. CASE UNCHANGED <<slave, events, change, known>>
    BY <2>1, <2>2, <2>3, FewerFrames DEF slave
  <2>4. CASE SlaveResets
    <3>1. /\ link' = FALSE
          /\ link => change' = events + 1 /\ known' = FALSE
          /\ ~link => change' = change /\ known' = known
      BY <2>4 DEF SlaveResets
    <3>2. ~OfLink(e)
      BY DEF OfLink, LinkUp, LinkDown, Event
    <3> HIDE DEF e
    <3> QED
      BY <1>1, <2>1, <2>2, <3>1, <3>2, ResetLinks
  <2> QED
    BY <2>1, <2>3, <2>4 DEF PinPulsed
<1> QED
  BY <1>3, <1>4

LEMMA LinkStep == LinkInv /\ [Next]_vars => LinkInv'
<1> SUFFICES ASSUME LinkInv, [Next]_vars PROVE LinkOrder' /\ LinkTrue' /\ LinkKnown'
  BY WaitStep DEF LinkInv
<1>1. /\ WaitInv /\ TypeInv /\ Uninitialized
      /\ queue \in Seq(Frame) /\ air \in Seq(Frame)
      /\ Rising(air) /\ Rising(queue) /\ Before(queue, air)
  BY LinkTypes DEF LinkInv, WaitInv, LinkOrder
<1>2. ctrl \in CtrlType /\ Cleared \in CtrlType /\ Cleared.connected = FALSE
  <2>1. Cleared.connected = FALSE
    BY DEF Cleared
  <2> QED
    BY <1>1, <2>1, LinkTypes, ClearedOK DEF CtrlOK
<1>3. /\ Initialized(ctrl).connected = ctrl.connected /\ Initialized(ctrl) \in CtrlType
  <2>1. CASE ctrl.initialized
    BY <1>2, <2>1 DEF Initialized
  <2>2. CASE ~ctrl.initialized
    <3>1. ctrl = Cleared /\ Initialized(ctrl) = [Cleared EXCEPT !.initialized = TRUE, !.nextUid = 1]
      BY <1>1, <2>2 DEF Uninitialized, Initialized
    <3>2. Initialized(ctrl) \in CtrlType
      BY <1>1, InitializedOK DEF TypeInv, TypeOK, CtrlOK
    <3> QED
      BY <1>2, <3>1, <3>2 DEF CtrlType
  <2> QED
    BY <2>1, <2>2
<1>4. CASE RequestUnencoded
  <2>1. UNCHANGED <<queue, air, link, change, known>> /\ ctrl'.connected = ctrl.connected
    BY <1>1, <1>4, UnencodedKeeps
  <2> QED
    BY <2>1, SameFrames
<1>5. CASE CtrlDeinit
  BY <1>5, SameFrames DEF CtrlDeinit, slave
<1>6. CASE SetEventCb
  <2>1. PICK on \in BOOLEAN : ctrl' = [Initialized(ctrl) EXCEPT !.eventCb = on]
    BY <1>6 DEF SetEventCb
  <2>2. ctrl'.connected = ctrl.connected
    BY <1>3, <2>1 DEF CtrlType
  <2> QED
    BY <1>6, <2>2, SameFrames DEF SetEventCb, slave, history
<1>7. CASE \E k \in Kind : RequestBegin(k)
  <2>1. PICK k \in Kind : RequestBegin(k)
    BY <1>7
  <2>2. UNCHANGED <<queue, air, link, change>>
    BY <2>1 DEF RequestBegin
  <2>3. CASE calls' # calls
    <3>1. /\ ctrl'.connected = (Initialized(ctrl).connected /\ k # "disconnect")
          /\ known' = (known /\ k # "disconnect")
      BY <1>1, <2>1, <2>3, RequestKeeps
    <3>2. ctrl.connected \in BOOLEAN
      BY <1>2 DEF CtrlType
    <3>3. known' => known /\ ctrl'.connected = ctrl.connected
      BY <1>3, <3>1, <3>2
    <3> QED
      BY <2>2, <3>3, SameFrames
  <2>4. CASE UNCHANGED <<ctrl, known, calls>>
    BY <2>2, <2>4, SameFrames
  <2>5. calls' = calls + 1 \/ UNCHANGED <<ctrl, known, calls>>
    BY <2>1 DEF RequestBegin
  <2>6. calls + 1 # calls
    BY <1>1 DEF TypeInv, Bounds
  <2> QED
    BY <2>3, <2>4, <2>5, <2>6
<1>8. CASE CallbackReturn \/ DispatchEnd
  BY <1>8, SameFrames DEF CallbackReturn, DispatchEnd, slave, history
<1>9. CASE Look
  <2>1. CASE NextRound
    BY <2>1, SameFrames DEF NextRound, slave, history
  <2>2. CASE \E rc \in {"timeout", ReturnCode} : Returns(rc)
    <3>1. /\ ctrl'.connected = ctrl.connected
          /\ UNCHANGED <<hosted, registered, queue, slave, history>>
      BY <1>1, <1>9, <2>2, ReturnKeeps
    <3> QED
      BY <3>1, SameFrames DEF slave, history
  <2> QED
    BY <1>9, <2>1, <2>2, LookCases
<1>10. CASE SlaveIgnores
  BY <1>10, SameFrames DEF SlaveIgnores, history
<1>11. CASE FrameLost
  <2>1. air # <<>> /\ air' = Tail(air) /\ UNCHANGED <<queue, ctrl, link, change, known>>
    BY <1>11 DEF FrameLost, history
  <2>2. Tail(air) \in Seq(Frame) /\ IsPart(Tail(air), air, 1) /\ Range(Tail(air)) \subseteq Range(air)
    BY <1>1, <2>1, TailIsPart
  <2>3. 1 \in Nat
    OBVIOUS
  <2>4. Rising(Tail(air)) /\ Before(queue, Tail(air))
    BY <1>1, <2>2, <2>3, PartOrder
  <2>5. LinkOrder' /\ Frames' \subseteq Frames
    BY <1>1, <2>1, <2>2, <2>4 DEF LinkOrder, Frames
  <2> QED
    BY <2>1, <2>5, FewerFrames
<1>12. CASE UNCHANGED vars
  BY <1>12, SameFrames DEF vars, slave, history
<1> QED
  BY <1>4, <1>5, <1>6, <1>7, <1>8, <1>9, <1>10, <1>11, <1>12, PollLinks, DispatchLinks,
     RestartLinks, EventLinks, HandleLinks DEF Next, HostStep

(* A host that has dispatched the last change of the link reports the link *)
(* as it is, whatever was lost before and whatever requests were under way.*)
(* Of a change that comes with no event of the link, a co-processor that   *)
(* is reset or restarts while associated, nothing is said until the next   *)
(* link event has been dispatched.                                         *)
THEOREM CtrlLinkKnown == Spec => []LinkKnown
<1>1. Init => LinkInv
  <2> SUFFICES ASSUME Init PROVE LinkOrder /\ LinkTrue /\ LinkKnown
    BY WaitInit DEF LinkInv
  <2>1. queue = <<>> /\ air = <<>> /\ link = FALSE /\ ctrl.connected = FALSE
    BY DEF Init, Cleared
  <2>2. Rising(<<>>) /\ Before(<<>>, <<>>) /\ Range(<<>>) = {}
    BY DEF Rising, Before, Range
  <2> QED
    BY <2>1, <2>2 DEF LinkOrder, LinkTrue, LinkKnown, Frames
<1>2. LinkInv => LinkKnown
  BY DEF LinkInv
<1> QED
  BY <1>1, <1>2, LinkStep, PTL DEF Spec
=============================================================================
