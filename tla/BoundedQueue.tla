---------------------------- MODULE BoundedQueue ----------------------------
(***************************************************************************)
(* The bounded queue of src/include/bounded_queue.hpp: a deque under a     *)
(* mutex with a condition variable.  Any number of threads push, the       *)
(* consumers wait for an event, a stop flag of the caller or a timeout.    *)
(*                                                                         *)
(* A section of the mutex that does not wait is one step.  A consumer that *)
(* found nothing keeps the mutex until it is asleep: notify_stop does not  *)
(* take the mutex and may run in between.                                  *)
(***************************************************************************)
EXTENDS Naturals, Sequences, FiniteSets

CONSTANTS
    Consumer,   \* threads that call pop_wait_for_ms
    Event,      \* the events pushed
    MaxDepth,   \* max_
    MaxPushes   \* bound: calls of try_push

ASSUME QueueAssumption ==
    /\ MaxDepth \in Nat /\ MaxPushes \in Nat
    /\ IsFiniteSet(Consumer) /\ "free" \notin Consumer

VARIABLES
    q,          \* q_
    rejected,   \* rejected_
    mu,         \* the consumer holding mu_ between its test and its sleep
    stopping,   \* the caller's flag
    notified,   \* notify_stop has been called
    waiter,     \* where each consumer is
    pushed,     \* history: the events accepted, in order
    popped,     \* history: the events handed out, in order
    attempts    \* history: calls of try_push

qvars == <<q, rejected, mu, stopping, notified, waiter, pushed, popped, attempts>>

At(place) == {c \in Consumer : waiter[c] = place}

NotifyNobody == waiter' = waiter                                   \* mutant

\* cv_.notify_one().
NotifyOne ==
    IF At("asleep") = {} THEN waiter' = waiter
    ELSE \E c \in At("asleep") : waiter' = [waiter EXCEPT ![c] = "awake"]

PushFull(e) ==
    /\ mu = "free"
    /\ attempts < MaxPushes
    /\ Len(q) >= MaxDepth
    /\ rejected' = rejected + 1
    /\ attempts' = attempts + 1
    /\ UNCHANGED <<q, mu, stopping, notified, waiter, pushed, popped>>

Push(e) ==
    /\ mu = "free"
    /\ attempts < MaxPushes
    /\ Len(q) < MaxDepth
    /\ q' = Append(q, e)
    /\ pushed' = Append(pushed, e)
    /\ attempts' = attempts + 1
    /\ NotifyOne
    /\ UNCHANGED <<rejected, mu, stopping, notified, popped>>

\* The caller's flag is not protected: until notify_stop a reader may miss it.
SeesStop == IF stopping /\ ~notified THEN BOOLEAN ELSE {stopping}

TakeLast(c) ==                                                     \* mutant
    /\ waiter' = [waiter EXCEPT ![c] = "out"]
    /\ mu' = "free"
    /\ IF q = <<>> THEN UNCHANGED <<q, popped>>
       ELSE /\ popped' = Append(popped, q[Len(q)])
            /\ q' = SubSeq(q, 1, Len(q) - 1)

\* The wait is over: hand out the front, or nothing when the queue is empty.
Take(c) ==
    /\ waiter' = [waiter EXCEPT ![c] = "out"]
    /\ mu' = "free"
    /\ IF q = <<>> THEN UNCHANGED <<q, popped>>
       ELSE /\ popped' = Append(popped, Head(q))
            /\ q' = Tail(q)

\* On entry and after every wake-up, spurious ones included, the predicate decides.
TestPredicate(c) ==
    /\ waiter[c] \in {"out", "awake", "asleep"}
    /\ mu = "free"
    /\ \E stop \in SeesStop :
         IF stop \/ q # <<>> THEN Take(c)
         ELSE /\ mu' = c
              /\ waiter' = [waiter EXCEPT ![c] = "checked"]
              /\ UNCHANGED <<q, popped>>
    /\ UNCHANGED <<rejected, stopping, notified, pushed, attempts>>

\* The mutex is released as the consumer falls asleep.
Sleep(c) ==
    /\ waiter[c] = "checked"
    /\ mu' = "free"
    /\ waiter' = [waiter EXCEPT ![c] = "asleep"]
    /\ UNCHANGED <<q, rejected, stopping, notified, pushed, popped, attempts>>

TimeOutRepeats(c) ==                                               \* mutant
    /\ waiter[c] \in {"asleep", "awake"}
    /\ mu = "free"
    /\ IF q = <<>>
       THEN mu' = c /\ waiter' = [waiter EXCEPT ![c] = "checked"] /\ UNCHANGED <<q, popped>>
       ELSE Take(c)
    /\ UNCHANGED <<rejected, stopping, notified, pushed, attempts>>

\* wait_for gives up; it looks at the predicate a last time, so an event that
\* has come is still taken.
TimeOut(c) ==
    /\ waiter[c] \in {"asleep", "awake"}
    /\ mu = "free"
    /\ Take(c)
    /\ UNCHANGED <<rejected, stopping, notified, pushed, attempts>>

\* What a caller does to end the waiting: set the flag, then notify_stop.
SetStopping ==
    /\ ~stopping
    /\ stopping' = TRUE
    /\ UNCHANGED <<q, rejected, mu, notified, waiter, pushed, popped, attempts>>

NotifyStop ==
    /\ stopping
    /\ ~notified
    /\ notified' = TRUE
    /\ waiter' = [c \in Consumer |-> IF waiter[c] = "asleep" THEN "awake" ELSE waiter[c]]
    /\ UNCHANGED <<q, rejected, mu, stopping, pushed, popped, attempts>>

QueueInit ==
    /\ q = <<>> /\ pushed = <<>> /\ popped = <<>>
    /\ rejected = 0 /\ attempts = 0
    /\ mu = "free"
    /\ stopping = FALSE /\ notified = FALSE
    /\ waiter = [c \in Consumer |-> "out"]

Pop(c) == TestPredicate(c) \/ Sleep(c) \/ TimeOut(c)

QueueNext ==
    \/ \E e \in Event : PushFull(e) \/ Push(e)
    \/ \E c \in Consumer : Pop(c)
    \/ SetStopping
    \/ NotifyStop

QueueSpec == QueueInit /\ [][QueueNext]_qvars

\* A consumer goes on, its timeout comes, and it gets the mutex others share.
FairQueueSpec ==
    QueueSpec /\ \A c \in Consumer : WF_qvars(Sleep(c)) /\ SF_qvars(TimeOut(c))

-----------------------------------------------------------------------------
(* Correctness *)

\* The variables keep their types, and the mutex is held exactly by the
\* consumer between its test and its sleep.
QueueTypeOK ==
    /\ q \in Seq(Event) /\ pushed \in Seq(Event) /\ popped \in Seq(Event)
    /\ rejected \in Nat /\ attempts \in Nat
    /\ stopping \in BOOLEAN /\ notified \in BOOLEAN
    /\ waiter \in [Consumer -> {"out", "checked", "asleep", "awake"}]
    /\ At("checked") = {mu} \cap Consumer
    /\ mu \in Consumer \cup {"free"}

\* Every event accepted is handed out once, in order, or still queued, whatever
\* consumers raced for it; at most max_ are queued; every push is accounted for.
ConservesEvents ==
    /\ pushed = popped \o q
    /\ Len(q) <= MaxDepth
    /\ attempts = Len(pushed) + rejected

\* No push is slept through: while a consumer sleeps, at least as many others
\* are on their way as there are events, so notify_one per push is enough.
NoLostWakeup == At("asleep") # {} => Cardinality(At("awake")) >= Len(q)

\* A call of pop_wait_for_ms returns, even when the notification is lost.
PopReturns == \A c \in Consumer : waiter[c] \in {"checked", "asleep"} ~> waiter[c] = "out"

\* As tests/test_outbox.cpp has it: notify_stop ends the blocking of pop.
StopUnblocks == notified => At("asleep") = {}
=============================================================================
