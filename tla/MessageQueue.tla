---------------------------- MODULE MessageQueue ----------------------------
(***************************************************************************)
(* The bounded queue through which the main thread of the server hands     *)
(* messages to its workers (include/utils/message_queue.h).  Every method  *)
(* runs under the queue's mutex from end to end, so each is one action;    *)
(* the only point where the mutex is given up is pthread_cond_wait.        *)
(*                                                                         *)
(* A consumer outside "sleeping" is either about to call pullWait, or was  *)
(* woken and is competing for the mutex, or is busy with an earlier item.  *)
(***************************************************************************)
EXTENDS Naturals, Sequences

CONSTANTS
  Item,       \* the values pushed (the template parameter T)
  Consumer,   \* the threads that call pullWait
  MaxSize     \* the template parameter MAX_SIZE (MAX_QUEUE_LENGTH)

ASSUME QueueAssumption == Consumer # {} /\ MaxSize \in Nat \ {0}

VARIABLES
  msgQueue,   \* the std::queue
  sleeping    \* the consumers blocked on the condition variable

queueVars == <<msgQueue, sleeping>>

QueueTypeOK ==
  /\ msgQueue \in Seq(Item)
  /\ Len(msgQueue) <= MaxSize
  /\ sleeping \subseteq Consumer

Init ==
  /\ msgQueue = <<>>
  /\ sleeping = {}

-----------------------------------------------------------------------------
(* pthread_cond_signal: wakes one waiter if there is one.                  *)
Signal ==
  IF sleeping = {} THEN UNCHANGED sleeping
                   ELSE \E c \in sleeping : sleeping' = sleeping \ {c}

(* The two conditions of pushSignal, given the length before the push: the *)
(* item is accepted below MAX_SIZE, and the condition is signalled only by *)
(* the push that makes the queue non-empty.  Each has beside it the bug    *)
(* used to show that the properties below can fail.                        *)
HasRoomOffByOne(len) == len <= MaxSize
HasRoom(len) == len < MaxSize

SignalsOnSecond(len) == len + 1 = 2
Signals(len) == len + 1 = 1

PushSignal(e) ==
  IF HasRoom(Len(msgQueue))
    THEN /\ msgQueue' = Append(msgQueue, e)
         /\ IF Signals(Len(msgQueue)) THEN Signal ELSE UNCHANGED sleeping
    ELSE UNCHANGED queueVars

(* One pass of pullWait's loop, entered by a call or after a wake-up: the  *)
(* front item leaves the queue, or the consumer goes to sleep.             *)
PullItem(c) ==
  /\ c \notin sleeping
  /\ msgQueue # <<>>
  /\ msgQueue' = Tail(msgQueue)
  /\ UNCHANGED sleeping

PullSleep(c) ==
  /\ c \notin sleeping
  /\ msgQueue = <<>>
  /\ sleeping' = sleeping \cup {c}
  /\ UNCHANGED msgQueue

PullWait(c) == PullItem(c) \/ PullSleep(c)

(* POSIX lets pthread_cond_wait return without a signal.                   *)
SpuriousWakeup(c) ==
  /\ c \in sleeping
  /\ sleeping' = sleeping \ {c}
  /\ UNCHANGED msgQueue

Next ==
  \/ \E e \in Item : PushSignal(e)
  \/ \E c \in Consumer : PullItem(c)
  \/ \E c \in Consumer : PullSleep(c)
  \/ \E c \in Consumer : SpuriousWakeup(c)

Spec == Init /\ [][Next]_queueVars

-----------------------------------------------------------------------------
(* NoLostWakeup: signalling only on the empty-to-one edge is enough never  *)
(* to leave every consumer asleep on a queue that holds something          *)
(* (message_queue.h:119-120 against 130-133).                              *)
NoLostWakeup == msgQueue # <<>> => sleeping # Consumer

(* WorkIsServed: as long as the queue keeps holding something, some        *)
(* consumer keeps taking items from it.                                    *)
WorkIsServed ==
  []<>(msgQueue = <<>>) \/ []<><<\E c \in Consumer : PullItem(c)>>_queueVars
=============================================================================
