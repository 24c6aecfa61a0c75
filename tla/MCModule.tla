------------------------------ MODULE MCModule ------------------------------
(* Finite values of KafkaModule's constants for TLC. *)
EXTENDS KafkaModule

CONSTANTS t1, t2

MCThread == {t1, t2}
MCOneThread == {t1}

MCEventType == {"CUSTOM", "CHANNEL_CREATE", "HEARTBEAT"}

MCNoFile == [k \in {} |-> ""]

\* Nothing written; two known names, a user and a topic; an unknown name and
\* settings out of range.
MCConfigFile ==
    {MCNoFile,
     [event_filter |-> <<"CHANNEL_CREATE", "HEARTBEAT">>, username |-> "user", topic |-> "events"],
     [event_filter |-> <<"NO_SUCH_EVENT">>, outbox_max_rows |-> -1, outbox_ttl_ms |-> -1,
      buffer_size |-> 0, message_timeout_ms |-> 0]}
=============================================================================
