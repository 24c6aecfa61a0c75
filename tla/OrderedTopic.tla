---------------------------- MODULE OrderedTopic ----------------------------
(***************************************************************************)
(* What mod_event_kafka promises about the events of a call                *)
(* (docs/STRICT-CALL-ORDER.md): an event is accepted under an ordinal no   *)
(* other event of its call ever had, and it becomes visible in the topic   *)
(* only once everything numbered below it is.  Duplicates of what is       *)
(* visible already are stuttering steps.                                   *)
(***************************************************************************)
EXTENDS Naturals

CONSTANTS Event, Call, Ordinal

VARIABLES
    accepted,   \* accepted[c]: the events of call c with their ordinals
    published   \* published[c]: those of which the topic holds a record

TopicInit ==
    /\ accepted = [c \in Call |-> {}]
    /\ published = [c \in Call |-> {}]

Accept(c, e, n) ==
    /\ \A x \in accepted[c] : x[1] # e /\ x[2] # n
    /\ accepted' = [accepted EXCEPT ![c] = @ \cup {<<e, n>>}]
    /\ UNCHANGED published

Publish(c, e, n) ==
    /\ <<e, n>> \in accepted[c] \ published[c]
    /\ \A k \in 0 .. n - 1 : \E x \in published[c] : x[2] = k
    /\ published' = [published EXCEPT ![c] = @ \cup {<<e, n>>}]
    /\ UNCHANGED accepted

TopicNext ==
    \E c \in Call, e \in Event, n \in Ordinal : Accept(c, e, n) \/ Publish(c, e, n)

TopicSpec == TopicInit /\ [][TopicNext]_<<accepted, published>>
=============================================================================
