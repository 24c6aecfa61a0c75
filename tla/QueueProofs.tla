---------------------------- MODULE QueueProofs -----------------------------
(***************************************************************************)
(* TLAPS proofs about module BoundedQueue, for any number of consumers,    *)
(* events and pushes and any depth.                                        *)
(***************************************************************************)
EXTENDS BoundedQueue, SequenceTheorems, FiniteSetTheorems, TLAPS

(***************************************************************************)
(* The inductive invariant.  NoLostWakeup is not inductive by itself: a    *)
(* consumer that falls asleep tested an empty queue some steps before, and *)
(* what makes the test still true is the mutex it has kept.                *)
(***************************************************************************)
EmptyWhileHeld == mu # "free" => q = <<>>

QueueInv ==
    /\ QueueTypeOK
    /\ ConservesEvents
    /\ EmptyWhileHeld
    /\ NoLostWakeup

-----------------------------------------------------------------------------
\* Places are finite sets of consumers.
LEMMA PlacesFinite ==
    ASSUME NEW place
    PROVE  IsFiniteSet(At(place)) /\ Cardinality(At(place)) \in Nat
<1>1. At(place) \in SUBSET Consumer
  BY DEF At
<1>2. IsFiniteSet(At(place))
  BY <1>1, QueueAssumption, FS_Subset
<1> QED
  BY <1>2, FS_CardinalityType

\* A consumer that moves from one place to another is counted once less here,
\* once more there.
LEMMA Moves ==
    ASSUME QueueTypeOK, NEW c \in Consumer, NEW to \in {"out", "checked", "asleep", "awake"},
           waiter' = [waiter EXCEPT ![c] = to]
    PROVE  /\ waiter' \in [Consumer -> {"out", "checked", "asleep", "awake"}]
           /\ At(to)' = At(to) \cup {c}
           /\ \A place : place # to => At(place)' = At(place) \ {c}
BY DEF QueueTypeOK, At

\* An event accepted goes behind those that wait; one handed out comes from the
\* front: the whole history stays the same sequence.
LEMMA HistoryGrows ==
    ASSUME QueueTypeOK, ConservesEvents, NEW e \in Event
    PROVE  Append(pushed, e) = popped \o Append(q, e)
<1>1. q \in Seq(Event) /\ popped \in Seq(Event) /\ <<e>> \in Seq(Event)
  BY DEF QueueTypeOK
<1>2. (popped \o q) \o <<e>> = popped \o (q \o <<e>>)
  BY <1>1, ConcatAssociative
<1>3. \A s \in Seq(Event) : Append(s, e) = s \o <<e>>
  OBVIOUS
<1> QED
  BY <1>1, <1>2, <1>3 DEF ConservesEvents, QueueTypeOK

\* Taking the front event moves it from the queue to the end of what was popped.
LEMMA HistoryKept ==
    ASSUME QueueTypeOK, ConservesEvents, q # <<>>
    PROVE  pushed = Append(popped, Head(q)) \o Tail(q)
<1>1. /\ q \in Seq(Event) /\ popped \in Seq(Event)
      /\ Head(q) \in Event /\ Tail(q) \in Seq(Event)
  BY HeadTailProperties DEF QueueTypeOK
<1>2. <<Head(q)>> \o Tail(q) = q
  BY <1>1
<1>3. (popped \o <<Head(q)>>) \o Tail(q) = popped \o (<<Head(q)>> \o Tail(q))
  BY <1>1, ConcatAssociative
<1>4. Append(popped, Head(q)) = popped \o <<Head(q)>>
  BY <1>1
<1> QED
  BY <1>2, <1>3, <1>4 DEF ConservesEvents

-----------------------------------------------------------------------------
\* The empty queue with idle threads has the invariant.
LEMMA QueueInitInv == QueueInit => QueueInv
<1> SUFFICES ASSUME QueueInit PROVE QueueInv
  OBVIOUS
<1> USE QueueAssumption DEF QueueInit
<1>1. QueueTypeOK
  <2>1. q \in Seq(Event) /\ pushed \in Seq(Event) /\ popped \in Seq(Event)
    OBVIOUS
  <2>2. waiter \in [Consumer -> {"out", "checked", "asleep", "awake"}]
    OBVIOUS
  <2>3. At("checked") = {mu} \cap Consumer
    BY DEF At
  <2>4. rejected \in Nat /\ attempts \in Nat /\ stopping \in BOOLEAN /\ notified \in BOOLEAN
    OBVIOUS
  <2>5. mu \in Consumer \cup {"free"}
    OBVIOUS
  <2>6. QED
    BY <2>1, <2>2, <2>3, <2>4, <2>5 DEF QueueTypeOK
<1>2. ConservesEvents
  <2>1. <<>> \o <<>> = <<>> /\ Len(<<>>) = 0
    OBVIOUS
  <2>2. QED
    BY <2>1 DEF ConservesEvents
<1>3. At("asleep") = {}
  BY DEF At
<1> QED
  BY <1>1, <1>2, <1>3 DEF QueueInv, EmptyWhileHeld, NoLostWakeup

\* A push wakes a sleeper, if there is one, for the event it adds.
LEMMA PushInv ==
    ASSUME QueueInv, NEW e \in Event, Push(e)
    PROVE  QueueInv'
<1> USE DEF QueueInv
<1>1. QueueTypeOK /\ Len(q) \in Nat /\ Len(q') = Len(q) + 1 /\ Len(pushed') = Len(pushed) + 1
  BY DEF Push, QueueTypeOK
<1>2. ConservesEvents'
  <2>1. pushed' = popped' \o q'
    BY HistoryGrows DEF Push
  <2>2. Len(q') <= MaxDepth
    BY <1>1, QueueAssumption DEF Push
  <2>3. attempts' = Len(pushed') + rejected'
    BY <1>1 DEF Push, ConservesEvents, QueueTypeOK
  <2>4. QED
    BY <2>1, <2>2, <2>3 DEF ConservesEvents
<1>3. CASE At("asleep") = {}
  <2>1. waiter' = waiter
    BY <1>3 DEF Push, NotifyOne
  <2>2. QueueTypeOK'
    BY <2>1 DEF QueueTypeOK, Push, At
  <2>3. At("asleep")' = {}
    BY <1>3, <2>1 DEF At
  <2>4. QED
    BY <1>2, <2>2, <2>3 DEF EmptyWhileHeld, NoLostWakeup, Push
<1>4. CASE At("asleep") # {}
  <2>1. PICK c \in At("asleep") : waiter' = [waiter EXCEPT ![c] = "awake"]
    BY <1>4 DEF Push, NotifyOne
  <2>2. c \in Consumer /\ waiter[c] = "asleep"
    BY DEF At
  <2>3. /\ waiter' \in [Consumer -> {"out", "checked", "asleep", "awake"}]
        /\ At("awake")' = At("awake") \cup {c}
        /\ At("checked")' = At("checked") \ {c}
    BY <1>1, <2>1, <2>2, Moves
  <2>4. c \notin At("awake") /\ c \notin At("checked")
    BY <2>2 DEF At
  <2>5. Cardinality(At("awake")') = Cardinality(At("awake")) + 1
    BY <2>3, <2>4, PlacesFinite, FS_AddElement
  <2>6. QueueTypeOK'
    BY <2>3, <2>4 DEF QueueTypeOK, Push
  <2>7. NoLostWakeup'
    BY <1>1, <1>4, <2>5, PlacesFinite DEF NoLostWakeup
  <2>8. QED
    BY <1>2, <2>6, <2>7 DEF EmptyWhileHeld, Push
<1> QED
  BY <1>3, <1>4

\* Whoever takes an event, a sleeper woken for nothing or by its timeout
\* included, takes at most one of the consumers on their way with it.
LEMMA TakeInv ==
    ASSUME QueueInv, NEW c \in Consumer, Take(c), mu = "free",
           UNCHANGED <<rejected, stopping, notified, pushed, attempts>>
    PROVE  QueueInv'
<1> USE DEF QueueInv
<1>1. /\ waiter' \in [Consumer -> {"out", "checked", "asleep", "awake"}]
      /\ At("asleep")' = At("asleep") \ {c}
      /\ At("awake")' = At("awake") \ {c}
      /\ At("checked")' = At("checked") \ {c}
  BY Moves DEF Take
<1>2. q' \in Seq(Event) /\ popped' \in Seq(Event) /\ Len(q) \in Nat /\ Len(q') \in Nat
  <2>1. CASE q = <<>>
    BY <2>1 DEF Take, QueueTypeOK
  <2>2. CASE q # <<>>
    <3>1. q \in Seq(Event) /\ popped \in Seq(Event) /\ q' = Tail(q)
          /\ popped' = Append(popped, Head(q))
      BY <2>2 DEF Take, QueueTypeOK
    <3>2. Head(q) \in Event /\ Tail(q) \in Seq(Event)
      BY <2>2, <3>1, HeadTailProperties
    <3>3. QED
      BY <3>1, <3>2, LenProperties
  <2>3. QED
    BY <2>1, <2>2
<1>3. IF q = <<>> THEN q' = q ELSE Len(q') = Len(q) - 1
  BY HeadTailProperties DEF Take, QueueTypeOK
<1>4. QueueTypeOK'
  <2>1. At("checked") = {}
    BY QueueAssumption DEF QueueTypeOK
  <2>2. QED
    BY <1>1, <1>2, <2>1, QueueAssumption DEF QueueTypeOK, Take
<1>5. ConservesEvents'
  <2>1. pushed' = popped' \o q'
    BY HistoryKept DEF Take, ConservesEvents
  <2>2. Len(q') <= MaxDepth
    BY <1>2, <1>3, QueueAssumption DEF ConservesEvents
  <2>3. QED
    BY <2>1, <2>2 DEF ConservesEvents
<1>6. NoLostWakeup'
  <2>1. /\ Cardinality(At("awake")) \in Nat
        /\ Cardinality(At("awake")') \in {Cardinality(At("awake")), Cardinality(At("awake")) - 1}
    BY <1>1, PlacesFinite, FS_RemoveElement
  <2>2. At("asleep")' # {} => At("asleep") # {}
    BY <1>1
  <2>3. q = <<>> => Len(q') = 0
    BY <1>3
  <2>4. Cardinality(At("awake")') \in Nat
    <3>1. IsFiniteSet(At("awake") \ {c})
      BY PlacesFinite, FS_RemoveElement
    <3>2. QED
      BY <1>1, <3>1, FS_CardinalityType
  <2>5. CASE q = <<>>
    BY <2>3, <2>4, <2>5 DEF NoLostWakeup
  <2>6. CASE q # <<>>
    <3>1. Len(q') = Len(q) - 1
      BY <1>3, <2>6
    <3>2. QED
      BY <1>2, <2>1, <2>2, <3>1 DEF NoLostWakeup
  <2>7. QED
    BY <2>5, <2>6
<1> QED
  BY <1>4, <1>5, <1>6 DEF EmptyWhileHeld, Take

\* The test either takes an event or keeps the mutex over an empty queue.
LEMMA TestPredicateInv ==
    ASSUME QueueInv, NEW c \in Consumer, TestPredicate(c)
    PROVE  QueueInv'
<1>1. CASE Take(c)
  BY <1>1, TakeInv DEF TestPredicate
<1>2. CASE ~Take(c)
  <2>1. /\ q = <<>> /\ q' = q /\ popped' = popped /\ mu = "free" /\ mu' = c
        /\ waiter' = [waiter EXCEPT ![c] = "checked"]
        /\ UNCHANGED <<rejected, stopping, notified, pushed, attempts>>
    BY <1>2 DEF TestPredicate
  <2>2. /\ waiter' \in [Consumer -> {"out", "checked", "asleep", "awake"}]
        /\ At("checked")' = At("checked") \cup {c}
        /\ At("awake")' = At("awake") \ {c}
    BY <2>1, Moves DEF QueueInv
  <2>3. At("checked") = {}
    BY <2>1, QueueAssumption DEF QueueInv, QueueTypeOK
  <2>4. QueueTypeOK'
    BY <2>1, <2>2, <2>3 DEF QueueInv, QueueTypeOK
  <2>5. Len(q') = 0 /\ Cardinality(At("awake")') \in Nat
    <3>1. IsFiniteSet(At("awake") \ {c})
      BY PlacesFinite, FS_RemoveElement
    <3>2. QED
      BY <2>1, <2>2, <3>1, FS_CardinalityType
  <2>6. ConservesEvents' /\ EmptyWhileHeld'
    BY <2>1 DEF QueueInv, ConservesEvents, EmptyWhileHeld
  <2>7. NoLostWakeup'
    BY <2>5 DEF NoLostWakeup
  <2>8. QED
    BY <2>4, <2>6, <2>7 DEF QueueInv
<1> QED
  BY <1>1, <1>2

\* The queue is still empty when the consumer falls asleep: it held the mutex.
LEMMA SleepInv ==
    ASSUME QueueInv, NEW c \in Consumer, Sleep(c)
    PROVE  QueueInv'
<1>1. /\ waiter' \in [Consumer -> {"out", "checked", "asleep", "awake"}]
      /\ At("checked")' = At("checked") \ {c}
      /\ At("awake")' = At("awake") \ {c}
  BY Moves DEF QueueInv, Sleep
<1>2. mu = c /\ At("checked") = {c}
  BY DEF QueueInv, QueueTypeOK, Sleep, At
<1>3. QueueTypeOK'
  BY <1>1, <1>2, QueueAssumption DEF QueueInv, QueueTypeOK, Sleep
<1>4. Len(q') = 0
  BY <1>2, QueueAssumption DEF QueueInv, EmptyWhileHeld, Sleep
<1>5. Cardinality(At("awake")') \in Nat
  <2>1. IsFiniteSet(At("awake") \ {c})
    BY PlacesFinite, FS_RemoveElement
  <2>2. QED
    BY <1>1, <2>1, FS_CardinalityType
<1> QED
  BY <1>3, <1>4, <1>5 DEF QueueInv, ConservesEvents, EmptyWhileHeld, NoLostWakeup, Sleep

\* notify_stop leaves no sleeper, whoever has the mutex.
LEMMA NotifyStopInv ==
    ASSUME QueueInv, NotifyStop
    PROVE  QueueInv'
<1>1. /\ waiter' \in [Consumer -> {"out", "checked", "asleep", "awake"}]
      /\ At("asleep")' = {}
      /\ At("checked")' = At("checked")
  BY DEF QueueInv, QueueTypeOK, NotifyStop, At
<1>2. QueueTypeOK'
  BY <1>1 DEF QueueInv, QueueTypeOK, NotifyStop
<1> QED
  BY <1>1, <1>2 DEF QueueInv, ConservesEvents, EmptyWhileHeld, NoLostWakeup, NotifyStop

\* Every step of producers, consumers and stop keeps the invariant.
LEMMA QueueNextInv == QueueInv /\ [QueueNext]_qvars => QueueInv'
<1> SUFFICES ASSUME QueueInv, [QueueNext]_qvars PROVE QueueInv'
  OBVIOUS
<1> USE DEF QueueInv
<1>1. ASSUME NEW e \in Event, PushFull(e) PROVE QueueInv'
  <2>1. QueueTypeOK'
    BY <1>1 DEF QueueTypeOK, PushFull, At
  <2>2. ConservesEvents'
    BY <1>1 DEF ConservesEvents, QueueTypeOK, PushFull
  <2>3. QED
    BY <1>1, <2>1, <2>2 DEF EmptyWhileHeld, NoLostWakeup, PushFull, At
<1>2. ASSUME NEW e \in Event, Push(e) PROVE QueueInv'
  BY <1>2, PushInv
<1>3. ASSUME NEW c \in Consumer, Pop(c) PROVE QueueInv'
  BY <1>3, TestPredicateInv, SleepInv, TakeInv DEF Pop, TimeOut
<1>4. CASE SetStopping
  BY <1>4 DEF SetStopping, QueueTypeOK, ConservesEvents, EmptyWhileHeld, NoLostWakeup, At
<1>5. CASE NotifyStop
  BY <1>5, NotifyStopInv
<1>6. CASE UNCHANGED qvars
  BY <1>6 DEF qvars, QueueTypeOK, ConservesEvents, EmptyWhileHeld, NoLostWakeup, At
<1> QED
  BY <1>1, <1>2, <1>3, <1>4, <1>5, <1>6 DEF QueueNext

\* The inductive invariant holds of every interleaving of producers, consumers,
\* timeouts, spurious wake-ups and notify_stop.
THEOREM QueueInvariant == QueueSpec => []QueueInv
BY QueueInitInv, QueueNextInv, PTL DEF QueueSpec

-----------------------------------------------------------------------------
\* The queue's variables keep their types, and its mutex has one holder.
THEOREM QueueTypeCorrect == QueueSpec => []QueueTypeOK
<1>1. QueueInv => QueueTypeOK
  BY DEF QueueInv
<1> QED
  BY <1>1, QueueInvariant, PTL

\* Events come out once, in the order they were accepted, however many consumers
\* race for them; the depth holds and every push is counted.
THEOREM EventsAreConserved == QueueSpec => []ConservesEvents
<1>1. QueueInv => ConservesEvents
  BY DEF QueueInv
<1> QED
  BY <1>1, QueueInvariant, PTL

\* One notification per push is enough for any number of consumers, timeouts and
\* spurious wake-ups: none sleeps while an event has nobody on the way to it.
THEOREM WakeupsAreNotLost == QueueSpec => []NoLostWakeup
<1>1. QueueInv => NoLostWakeup
  BY DEF QueueInv
<1> QED
  BY <1>1, QueueInvariant, PTL
=============================================================================
