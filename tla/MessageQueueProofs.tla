------------------------- MODULE MessageQueueProofs -------------------------
(***************************************************************************)
(* MessageQueue keeps its bound and loses no wake-up, for every number of  *)
(* consumers and every queue length.  The two facts together are inductive *)
(* as they stand.                                                          *)
(***************************************************************************)
EXTENDS MessageQueue, TLAPS

QueueInv == QueueTypeOK /\ NoLostWakeup

LEMMA QueueInvInit == Init => QueueInv
BY QueueAssumption DEF Init, QueueInv, QueueTypeOK, NoLostWakeup

(* pushSignal: a push into the empty queue signals; a push into a queue    *)
(* that holds something finds a consumer awake already.                    *)
LEMMA PushKeepsInv ==
  ASSUME QueueInv, NEW e \in Item, PushSignal(e)
  PROVE  QueueInv'
<1> USE QueueAssumption DEF QueueInv, QueueTypeOK, NoLostWakeup
<1>1. CASE ~HasRoom(Len(msgQueue))
  BY <1>1 DEF PushSignal, queueVars
<1>2. CASE HasRoom(Len(msgQueue))
  <2>1. msgQueue' = Append(msgQueue, e)
    BY <1>2 DEF PushSignal
  <2>2. msgQueue' \in Seq(Item) /\ Len(msgQueue') <= MaxSize
    BY <1>2, <2>1 DEF HasRoom
  <2>3. CASE Len(msgQueue) = 0
    <3>1. Signal
      BY <1>2, <2>3 DEF PushSignal, Signals
    <3>2. sleeping' \subseteq Consumer /\ sleeping' # Consumer
      BY <3>1 DEF Signal
    <3> QED BY <2>2, <3>2
  <2>4. CASE Len(msgQueue) # 0
    <3>1. sleeping' = sleeping
      BY <1>2, <2>4 DEF PushSignal, Signals
    <3>2. msgQueue # <<>>
      BY <2>4
    <3> QED BY <2>2, <3>1, <3>2
  <2> QED BY <2>3, <2>4
<1> QED BY <1>1, <1>2

(* pullWait: a consumer that takes an item is awake, and one goes to sleep *)
(* only on an empty queue.                                                 *)
LEMMA PullKeepsInv ==
  ASSUME QueueInv, NEW c \in Consumer, PullItem(c) \/ PullSleep(c) \/ SpuriousWakeup(c)
  PROVE  QueueInv'
<1> USE DEF QueueInv, QueueTypeOK, NoLostWakeup
<1>1. CASE PullItem(c)
  <2>1. Tail(msgQueue) \in Seq(Item) /\ Len(Tail(msgQueue)) <= MaxSize
    BY <1>1, QueueAssumption DEF PullItem
  <2> QED BY <1>1, <2>1 DEF PullItem
<1>2. CASE PullSleep(c)
  BY <1>2 DEF PullSleep
<1>3. CASE SpuriousWakeup(c)
  BY <1>3 DEF SpuriousWakeup
<1> QED BY <1>1, <1>2, <1>3

LEMMA QueueStepKeepsInv == QueueInv /\ [Next]_queueVars => QueueInv'
<1> SUFFICES ASSUME QueueInv, [Next]_queueVars PROVE QueueInv'
  OBVIOUS
<1>1. CASE Next
  BY <1>1, PushKeepsInv, PullKeepsInv DEF Next
<1>2. CASE UNCHANGED queueVars
  BY <1>2 DEF queueVars, QueueInv, QueueTypeOK, NoLostWakeup
<1> QED BY <1>1, <1>2

THEOREM QueueInvariant == Spec => []QueueInv
BY QueueInvInit, QueueStepKeepsInv, PTL DEF Spec

(* The queue never holds more than MAX_QUEUE_LENGTH messages.              *)
THEOREM QueueTypeCorrect == Spec => []QueueTypeOK
BY QueueInvariant, PTL DEF QueueInv

(* Whatever the consumers do, they are never all asleep while the queue    *)
(* holds a message: signalling on the first message only is enough.        *)
THEOREM NoWakeupIsLost == Spec => []NoLostWakeup
BY QueueInvariant, PTL DEF QueueInv
=============================================================================
