------------------------------ MODULE OutboxOps ------------------------------
(***************************************************************************)
(* scripts/outbox_ops.py beside the module: migrate and retire write a new *)
(* copy of a stopped database, publish it under a new path and never touch *)
(* the source; open() upgrades what older modules or the tool left.        *)
(*                                                                         *)
(* The variables of Outbox are the database at the module's path.  A run   *)
(* of the tool is a process that may be killed between any two system      *)
(* calls; a power loss kills every process and takes what was not synced.  *)
(* SQLite's own commits are durable (synchronous=FULL) on the module's     *)
(* database; of the staged copy the model credits only the tool's fsync.   *)
(***************************************************************************)
EXTENDS Outbox

CONSTANTS
    Run,       \* runs of the tool
    None,      \* no run
    IdRank,    \* IdRank[e]: place of e in the order of the identifiers
    Stored,    \* the databases the system may start from
    MaxLosses, \* bound: power losses
    MaxWork    \* bound: transactions of the module after its start

ASSUME RunAssumption == None \notin Run /\ MaxLosses \in Nat /\ MaxWork \in Nat
\* The counts SQLite keeps have 64 bits.
ASSUME CountAssumption == MaxRows <= MaxInt64 /\ MaxWork <= MaxInt64
ASSUME RankAssumption ==
    IdRank \in [EventId -> Nat] /\ \A d, e \in EventId : IdRank[d] = IdRank[e] => d = e
ASSUME StoredAssumption ==
    \A db \in Stored :
        /\ DOMAIN db.outbox \subseteq EventId
        /\ IsFiniteSet(DOMAIN db.outbox) /\ IsFiniteSet(DOMAIN db.call_streams)
        /\ \A e \in DOMAIN db.outbox :
             /\ {"call_seq", "created_at_ms"} \subseteq DOMAIN db.outbox[e]
             /\ db.outbox[e].created_at_ms \in Int

VARIABLES
    schema,    \* of the module's database: user_version, columns, scheduler
    job,       \* the command and the progress of each run
    locker,    \* the run that holds the source's .lock file
    stage,     \* the file each run has made with mkstemp, while somebody may read it
    synced,    \* runs whose file has been fsynced
    output,    \* the run whose file the output path links to
    durable,   \* the directory entry of the output path has been fsynced
    reported,  \* history: runs that returned success for this output path
    losses,    \* history: power losses
    work       \* history: transactions of the module

toolvars == <<job, locker, stage, synced, output, durable, reported, losses>>
ovars == <<obvars, schema, work, toolvars>>

\* The module's database as a value.
Source == [outbox |-> outbox, call_streams |-> call_streams,
           retired_calls |-> retired_calls, turn |-> turn, schema |-> schema]

\* The schema open() leaves, and the one the tool writes.
Current == [version |-> 5, call_seq |-> TRUE, order_scheduler |-> TRUE]
ToolSchema(s) == [version |-> IF s.version < 4 THEN 4 ELSE s.version,
                  call_seq |-> TRUE, order_scheduler |-> TRUE]

MaxServed(streams) == Max({streams[c].last_served_ms : c \in DOMAIN streams} \cup {0})

\* INSERT OR IGNORE INTO order_scheduler: above every turn served so far.
SeededTurn(db) ==
    IF db.schema.order_scheduler THEN db.turn ELSE MaxServed(db.call_streams)

-----------------------------------------------------------------------------
(* The module: open with its upgrade, and work on an open database *)

\* A backlog without ordinals is refused: no order is invented for it.
Upgradable == schema.version <= 5 /\ (schema.call_seq \/ DOMAIN outbox = {})

OpenIgnoresLock ==                                                 \* mutant
    /\ ~opened
    /\ Upgradable
    /\ ~Corrupt
    /\ opened' = TRUE
    /\ outbox' = [e \in DOMAIN outbox |-> Stamped(e)]
    /\ turn' = SeededTurn(Source)
    /\ schema' = Current
    /\ UNCHANGED <<call_streams, retired_calls, work, toolvars>>

OpenUpgrade ==
    /\ ~opened /\ locker = None
    /\ Upgradable
    /\ ~Corrupt
    /\ opened' = TRUE
    /\ outbox' = [e \in DOMAIN outbox |-> Stamped(e)]
    /\ turn' = SeededTurn(Source)
    /\ schema' = Current
    /\ UNCHANGED <<call_streams, retired_calls, work, toolvars>>

\* What the pipeline and the tools built on Outbox do with it, and its end.
ModuleWorks ==
    /\ work < MaxWork
    /\ work' = work + 1
    /\ \/ \E now \in Time : RequeueInFlight(now)
       \/ \E e \in EventId, rec \in Request, now \in Time : InsertPending(e, rec, now)
       \/ \E e \in EventId : MarkInFlight(e)
       \/ \E e \in EventId, now \in Time : MarkAcked(e, now)
       \/ \E e \in EventId, now \in Time : MarkRetry(e, now) \/ MarkDead(e) \/ RetryDead(e, now)
       \/ \E now \in Time : ExpireTtl(now)
    /\ UNCHANGED <<schema, toolvars>>

ModuleCloses == Close /\ UNCHANGED <<schema, work, toolvars>>

-----------------------------------------------------------------------------
(* The transformations, on a copy *)

CallRows(db, c) == {e \in DOMAIN db.outbox : db.outbox[e].call_uuid = c}

CallsOf(db) == {c \in Call : CallRows(db, c) # {}}

\* The declared order of a backlog: created_at_ms, then event_id.
EarlierRow(db, d, e) ==
    \/ db.outbox[d].created_at_ms < db.outbox[e].created_at_ms
    \/ db.outbox[d].created_at_ms = db.outbox[e].created_at_ms /\ IdRank[d] < IdRank[e]

Place(db, e) ==
    Cardinality({d \in CallRows(db, db.outbox[e].call_uuid) : EarlierRow(db, d, e)})

Fits(db) ==
    /\ Cardinality(DOMAIN db.outbox) <= MaxRows
    /\ Cardinality(DOMAIN db.call_streams) <= MaxRows

\* One nonempty key per call.
CanMigrate(db) ==
    /\ db.schema.version <= 5
    /\ ~db.schema.call_seq
    /\ \A c \in CallsOf(db) :
         \E k \in Key : \A e \in CallRows(db, c) : db.outbox[e].msg_key = k

MigratedCountsPending(db) ==                                       \* mutant
    [outbox |-> [e \in DOMAIN db.outbox |->
                   IF db.outbox[e].call_uuid = Ungrouped THEN db.outbox[e]
                   ELSE [db.outbox[e] EXCEPT !.call_seq = Place(db, e)]],
     call_streams |-> [c \in CallsOf(db) |->
                         [msg_key |-> (CHOOSE r \in {db.outbox[e] : e \in CallRows(db, c)} :
                                         TRUE).msg_key,
                          mode |-> "admission", next_seq |-> 0,
                          admit_seq |-> Cardinality({e \in CallRows(db, c) :
                                                    db.outbox[e].state = "pending"}),
                          last_served_ms |-> 0]],
     retired_calls |-> db.retired_calls,
     turn |-> SeededTurn(db),
     schema |-> ToolSchema(db.schema)]

Migrated(db) ==
    [outbox |-> [e \in DOMAIN db.outbox |->
                   IF db.outbox[e].call_uuid = Ungrouped THEN db.outbox[e]
                   ELSE [db.outbox[e] EXCEPT !.call_seq = Place(db, e)]],
     call_streams |-> [c \in CallsOf(db) |->
                         [msg_key |-> (CHOOSE r \in {db.outbox[e] : e \in CallRows(db, c)} :
                                         TRUE).msg_key,
                          mode |-> "admission", next_seq |-> 0,
                          admit_seq |-> Cardinality(CallRows(db, c)),
                          last_served_ms |-> 0]],
     retired_calls |-> db.retired_calls,
     turn |-> SeededTurn(db),
     schema |-> ToolSchema(db.schema)]

CanRetireCopy(db, c) ==
    /\ db.schema.version \in 3 .. 5
    /\ db.schema.call_seq
    /\ c \in DOMAIN db.call_streams
    /\ db.call_streams[c].next_seq = db.call_streams[c].admit_seq
    /\ CallRows(db, c) = {}
    /\ Cardinality(DOMAIN db.retired_calls) < MaxRows

RetiredUnfenced(db, c) ==                                          \* mutant
    [db EXCEPT
       !.schema = ToolSchema(@),
       !.turn = SeededTurn(db),
       !.call_streams = [b \in DOMAIN @ \ {c} |-> @[b]]]

Retired(db, c) ==
    [outbox |-> db.outbox,
     call_streams |-> [b \in DOMAIN db.call_streams \ {c} |-> db.call_streams[b]],
     retired_calls |-> [b \in DOMAIN db.retired_calls \cup {c} |->
                          IF b = c THEN db.call_streams[c].next_seq ELSE db.retired_calls[b]],
     turn |-> SeededTurn(db),
     schema |-> ToolSchema(db.schema)]

\* What the command may do to a copy: one database, or none where it refuses.
Result(db, j) ==
    {out \in IF j.command = "migrate"
             THEN IF CanMigrate(db) THEN {Migrated(db)} ELSE {}
             ELSE IF CanRetireCopy(db, j.call) THEN {Retired(db, j.call)} ELSE {} :
       Fits(out)}

-----------------------------------------------------------------------------
(* run(args), one action per system call another process could notice *)

Goes(r, at) == job' = [job EXCEPT ![r].at = at]

NoFile == [kind |-> "none"]

\* The file lives on only under the output path; a name that is left over after
\* an interruption is never opened again.
Abandon(r) == stage' = IF output = r THEN stage ELSE [stage EXCEPT ![r] = NoFile]

\* The output path must not exist yet.
Begin(r, command, c) ==
    /\ job[r].at = "new"
    /\ output = None
    /\ job' = [job EXCEPT ![r] = [at |-> "begun", command |-> command, call |-> c]]
    /\ UNCHANGED <<obvars, schema, work, locker, stage, synced, output, durable, reported, losses>>

TakeLockUnlocked(r) ==                                             \* mutant
    /\ job[r].at = "begun"
    /\ ~opened /\ locker = None
    /\ Goes(r, "locked")
    /\ UNCHANGED <<obvars, schema, work, locker, stage, synced, output, durable, reported, losses>>

\* flock without waiting: a module or another run that holds it is an error.
TakeLock(r) ==
    /\ job[r].at = "begun"
    /\ IF ~opened /\ locker = None
       THEN locker' = r /\ Goes(r, "locked")
       ELSE locker' = locker /\ Goes(r, "failed")
    /\ UNCHANGED <<obvars, schema, work, stage, synced, output, durable, reported, losses>>

\* mkstemp, and the backup of the source into the new file.
Backup(r) ==
    /\ job[r].at = "locked"
    /\ stage' = [stage EXCEPT ![r] = [kind |-> "copy", from |-> Source, db |-> Source]]
    /\ Goes(r, "copied")
    /\ UNCHANGED <<obvars, schema, work, locker, synced, output, durable, reported, losses>>

\* The transaction on the copy, checked and committed as one, or refused.
Transform(r) ==
    /\ job[r].at = "copied"
    /\ IF Result(stage[r].db, job[r]) = {} THEN Goes(r, "refused") /\ stage' = stage
       ELSE \E out \in Result(stage[r].db, job[r]) :
              /\ stage' = [stage EXCEPT ![r] = [kind |-> "done", from |-> @.from, db |-> out]]
              /\ Goes(r, "committed")
    /\ UNCHANGED <<obvars, schema, work, locker, synced, output, durable, reported, losses>>

FsyncForgotten(r) ==                                               \* mutant
    /\ job[r].at = "committed"
    /\ Goes(r, "synced")
    /\ UNCHANGED <<obvars, schema, work, locker, stage, synced, output, durable, reported, losses>>

Fsync(r) ==
    /\ job[r].at = "committed"
    /\ synced' = synced \cup {r}
    /\ Goes(r, "synced")
    /\ UNCHANGED <<obvars, schema, work, locker, stage, output, durable, reported, losses>>

LinkReplaces(r) ==                                                 \* mutant
    /\ job[r].at = "synced"
    /\ output' = r /\ durable' = FALSE /\ Goes(r, "linked")
    /\ UNCHANGED <<obvars, schema, work, locker, stage, synced, reported, losses>>

\* link(2) fails where the path exists by now.
Link(r) ==
    /\ job[r].at = "synced"
    /\ IF output = None
       THEN output' = r /\ durable' = FALSE /\ Goes(r, "linked")
       ELSE UNCHANGED <<output, durable>> /\ Goes(r, "refused")
    /\ UNCHANGED <<obvars, schema, work, locker, stage, synced, reported, losses>>

FsyncDir(r) ==
    /\ job[r].at = "linked"
    /\ durable' = TRUE
    /\ Goes(r, "published")
    /\ UNCHANGED <<obvars, schema, work, locker, stage, synced, output, reported, losses>>

FinishKeepsLock(r) ==                                              \* mutant
    /\ job[r].at \in {"published", "refused"}
    /\ reported' = IF job[r].at = "published" THEN reported \cup {r} ELSE reported
    /\ Goes(r, "ended")
    /\ UNCHANGED <<obvars, schema, work, locker, stage, synced, output, durable, losses>>

\* The finally block: the name of the staged file goes, the lock is closed.
Finish(r) ==
    /\ job[r].at \in {"published", "refused"}
    /\ reported' = IF job[r].at = "published" THEN reported \cup {r} ELSE reported
    /\ Abandon(r)
    /\ locker' = None
    /\ Goes(r, "ended")
    /\ UNCHANGED <<obvars, schema, work, synced, output, durable, losses>>

-----------------------------------------------------------------------------
(* Interruptions, and the administrator *)

Running(r) == job[r].at \notin {"new", "failed", "ended", "killed"}

\* The process dies where it is; the kernel closes its lock.
Killed(r) ==
    /\ Running(r)
    /\ locker' = IF locker = r THEN None ELSE locker
    /\ Goes(r, "killed")
    /\ Abandon(r)
    /\ UNCHANGED <<obvars, schema, work, synced, output, durable, reported, losses>>

\* Unsynced files lose any part of their contents, an unsynced entry may go.
PowerLoss ==
    /\ losses < MaxLosses
    /\ losses' = losses + 1
    /\ job' = [r \in Run |-> IF Running(r) THEN [job[r] EXCEPT !.at = "killed"] ELSE job[r]]
    /\ locker' = None
    /\ opened' = FALSE
    /\ output' \in IF durable THEN {output} ELSE {output, None}
    /\ \E torn \in SUBSET (Run \ synced) :
         stage' = [r \in Run |-> IF r # output' THEN NoFile
                                 ELSE IF r \in torn THEN [stage[r] EXCEPT !.kind = "torn"]
                                 ELSE stage[r]]
    /\ durable' = (output' # None)
    /\ UNCHANGED <<outbox, call_streams, retired_calls, turn, schema, work, synced, reported>>

\* The module is configured to use the output, with every writer stopped since
\* the copy was made.  The next operation has an output path of its own.
Adopt(r) ==
    /\ output = r
    /\ durable
    /\ ~opened /\ locker = None
    /\ Source = stage[r].from
    /\ outbox' = stage[r].db.outbox
    /\ call_streams' = stage[r].db.call_streams
    /\ retired_calls' = stage[r].db.retired_calls
    /\ turn' = stage[r].db.turn
    /\ schema' = stage[r].db.schema
    /\ output' = None /\ durable' = FALSE /\ reported' = {}
    /\ stage' = [stage EXCEPT ![r] = NoFile]
    /\ UNCHANGED <<opened, job, locker, synced, losses, work>>

-----------------------------------------------------------------------------
\* What every version of the module keeps true of a database it writes.  Without
\* ordinals there are no cursors, fences or stamps either; and no row has been
\* tried nearly as often as its counter can hold.
WrittenByModule ==
    /\ OutboxTypeOK
    /\ schema \in [version : Nat, call_seq : BOOLEAN, order_scheduler : BOOLEAN]
    /\ \A e \in DOMAIN outbox : outbox[e].attempts + MaxWork <= MaxInt64
    /\ IF schema.call_seq
       THEN /\ RowsWithinWindow /\ OrdinalsUnique /\ AdmissionContiguous /\ FenceHolds
            /\ \A c \in DOMAIN call_streams : call_streams[c].next_seq <= call_streams[c].admit_seq
            /\ \A e \in DOMAIN outbox : outbox[e].eligible_at_ms # Null => Deliverable(e)
       ELSE /\ DOMAIN call_streams = {} /\ DOMAIN retired_calls = {}
            /\ \A e \in DOMAIN outbox : outbox[e].call_seq = -1 /\ outbox[e].eligible_at_ms = Null
    /\ schema.order_scheduler =>
         \A c \in DOMAIN call_streams : call_streams[c].last_served_ms <= turn

OpsInit ==
    /\ \E db \in Stored :
         /\ outbox = db.outbox
         /\ call_streams = db.call_streams
         /\ retired_calls = db.retired_calls
         /\ turn = db.turn
         /\ schema = db.schema
    /\ WrittenByModule
    /\ opened = FALSE
    /\ job = [r \in Run |-> [at |-> "new", command |-> "none", call |-> Ungrouped]]
    /\ locker = None
    /\ stage = [r \in Run |-> NoFile]
    /\ synced = {}
    /\ output = None /\ durable = FALSE
    /\ reported = {} /\ losses = 0 /\ work = 0

RunStep(r) ==
    \/ TakeLock(r) \/ Backup(r) \/ Transform(r) \/ Fsync(r)
    \/ Link(r) \/ FsyncDir(r) \/ Finish(r)

OpsNext ==
    \/ OpenUpgrade
    \/ ModuleWorks
    \/ ModuleCloses
    \/ \E r \in Run, c \in Call : Begin(r, "retire", c)
    \/ \E r \in Run : Begin(r, "migrate", Ungrouped)
    \/ \E r \in Run : RunStep(r) \/ Killed(r) \/ Adopt(r)
    \/ PowerLoss

OpsSpec == OpsInit /\ [][OpsNext]_ovars

\* A run that is neither killed nor stuck goes on to its end.
FairOpsSpec == OpsSpec /\ \A r \in Run : WF_ovars(RunStep(r))

-----------------------------------------------------------------------------
(* Correctness *)

\* The variables keep their types; a run and the module exclude each other.
OpsTypeOK ==
    /\ OutboxTypeOK
    /\ schema \in [version : Nat, call_seq : BOOLEAN, order_scheduler : BOOLEAN]
    /\ \A r \in Run : job[r].command \in {"none", "migrate", "retire"}
    /\ locker \in Run \cup {None}
    /\ locker # None => ~opened
    /\ synced \subseteq Run /\ reported \subseteq Run
    /\ output \in Run \cup {None}
    /\ durable => output # None

\* Under the output path there is never a half-made database, whenever the run
\* was killed or the power failed: the transaction is complete and on disk, every
\* event of the source is there with every field but its ordinal, and a migrated
\* backlog has its ordinals in the declared order.
OutputIsWhole ==
    output # None =>
        LET from == stage[output].from
            db == stage[output].db
        IN  /\ stage[output].kind = "done"
            /\ DOMAIN db.outbox = DOMAIN from.outbox
            /\ \A e \in DOMAIN db.outbox :
                 [db.outbox[e] EXCEPT !.call_seq = -1] = [from.outbox[e] EXCEPT !.call_seq = -1]
            /\ ~from.schema.call_seq =>
                 \A c \in Call : \A d, e \in CallRows(from, c) :
                     EarlierRow(from, d, e) => db.outbox[d].call_seq < db.outbox[e].call_seq

\* While a run works, its copy is a copy of what the database holds: nobody
\* writes the source between the backup and the publication.
SnapshotIsCurrent ==
    \A r \in Run :
        job[r].at \in {"copied", "committed", "synced", "linked", "published"} =>
            stage[r].from = Source

\* A run that returned success has made the output for good: no later run takes
\* its place, no two runs both succeed, and no power loss takes it away.
ReportedIsKept == reported \subseteq {output}

\* Once rows have ordinals, by an upgrade, a migration or an admission, they obey
\* the rules the module's own database obeys, and open() accepts them: a backlog
\* in any state is numbered without holes under the cursors made for it.  Once
\* the module has opened a database of any version, the age stamps are where they
\* belong and no call has been served at a turn still to come.
SoundOnceUpgraded ==
    /\ schema.call_seq =>
         /\ RowsWithinWindow
         /\ OrdinalsUnique
         /\ AdmissionContiguous
         /\ FenceHolds
         /\ NeverCorrupt
    /\ opened =>
         /\ AgeIffDeliverable
         /\ \A c \in DOMAIN call_streams : call_streams[c].last_served_ms <= turn

\* Copy, publication and adoption together are the one step Outbox has for a
\* retirement.
AdoptionIsRetirement ==
    [][\A r \in Run : Adopt(r) /\ job[r].command = "retire" /\ schema.order_scheduler
                        => Retire(job[r].call)]_ovars

\* No run keeps the module out for ever.
LockIsReleased == \A r \in Run : locker = r ~> locker # r
=============================================================================
