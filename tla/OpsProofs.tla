------------------------------ MODULE OpsProofs ------------------------------
(***************************************************************************)
(* TLAPS proofs about module OutboxOps, for any number of runs of the      *)
(* tool, interruptions, power losses and stored databases.                 *)
(***************************************************************************)
EXTENDS OutboxOps, OutboxProofs

(***************************************************************************)
(* The inductive invariant.  What a run may rely on follows from where it  *)
(* is: between TakeLock and the end it holds the lock, so the module has   *)
(* the database closed and the copy stays a copy (LockInv, SnapshotInv);   *)
(* what it has made is complete from the commit on and on disk from the    *)
(* fsync on (StageInv); and the path is its own from the link on           *)
(* (PublishInv).                                                           *)
(***************************************************************************)
Places == {"new", "begun", "locked", "copied", "committed", "synced", "linked", "published",
           "refused", "failed", "ended", "killed"}

ShapeOK ==
    /\ job \in [Run -> [at : Places, command : {"none", "migrate", "retire"},
                        call : Call \cup {Ungrouped}]]
    /\ DOMAIN stage = Run
    /\ locker \in Run \cup {None} /\ output \in Run \cup {None}
    /\ opened \in BOOLEAN /\ durable \in BOOLEAN
    /\ synced \subseteq Run /\ reported \subseteq Run

\* Rows are finitely many, and each has the columns the tool's ORDER BY uses.
RowsOK(rows) ==
    /\ DOMAIN rows \subseteq EventId /\ IsFiniteSet(DOMAIN rows)
    /\ \A e \in DOMAIN rows :
         /\ {"call_seq", "created_at_ms"} \subseteq DOMAIN rows[e]
         /\ rows[e].created_at_ms \in Int

\* A database as a value of its five tables.
IsDatabase(db) ==
    /\ db = [outbox |-> db.outbox, call_streams |-> db.call_streams,
             retired_calls |-> db.retired_calls, turn |-> db.turn, schema |-> db.schema]
    /\ RowsOK(db.outbox)
    /\ IsFiniteSet(DOMAIN db.call_streams)

AtWork == {"locked", "copied", "committed", "synced", "linked", "published", "refused"}

LockInv ==
    /\ locker # None => ~opened
    /\ \A r \in Run : job[r].at \in AtWork => locker = r

SnapshotInv ==
    \A r \in Run : job[r].at \in {"copied", "committed", "synced", "linked", "published"} =>
        stage[r].from = Source

\* The file of r holds the whole result of its command.
Complete(r) ==
    /\ stage[r] = [kind |-> "done", from |-> stage[r].from, db |-> stage[r].db]
    /\ IsDatabase(stage[r].from)
    /\ stage[r].db \in Result(stage[r].from, job[r])

StageInv ==
    \A r \in Run :
        /\ job[r].at = "copied" =>
             stage[r] = [kind |-> "copy", from |-> stage[r].from, db |-> stage[r].from]
        /\ job[r].at \in {"committed", "synced", "linked", "published"} => Complete(r)
        /\ job[r].at \in {"synced", "linked", "published"} => r \in synced

PublishInv ==
    /\ output # None => /\ Complete(output)
                        /\ output \in synced
                        /\ job[output].at \in {"linked", "published", "ended", "killed"}
    /\ \A r \in Run : job[r].at \in {"linked", "published"} => output = r
    /\ \A r \in Run : job[r].at = "published" => durable
    /\ durable => output # None
    /\ reported # {} => durable
    /\ reported \subseteq {output}

OpsInv ==
    /\ ShapeOK
    /\ IsDatabase(Source)
    /\ LockInv
    /\ SnapshotInv
    /\ StageInv
    /\ PublishInv

-----------------------------------------------------------------------------
(* The transformations *)

\* A migration leaves every column but the ordinal alone.
LEMMA MigratedRows ==
    ASSUME NEW db, IsDatabase(db)
    PROVE  /\ DOMAIN Migrated(db).outbox = DOMAIN db.outbox
           /\ \A e \in DOMAIN db.outbox :
                Migrated(db).outbox[e] =
                    IF db.outbox[e].call_uuid = Ungrouped THEN db.outbox[e]
                    ELSE [db.outbox[e] EXCEPT !.call_seq = Place(db, e)]
           /\ DOMAIN Migrated(db).call_streams = CallsOf(db)
BY DEF Migrated

\* The declared order is a strict order, so an earlier row has fewer before it.
LEMMA PlaceFollowsOrder ==
    ASSUME NEW db, IsDatabase(db), NEW c \in Call,
           NEW d \in CallRows(db, c), NEW e \in CallRows(db, c), EarlierRow(db, d, e)
    PROVE  /\ Place(db, d) \in Nat /\ Place(db, e) \in Nat
           /\ Place(db, d) < Place(db, e)
<1> DEFINE D == {x \in CallRows(db, c) : EarlierRow(db, x, d)}
           E == {x \in CallRows(db, c) : EarlierRow(db, x, e)}
<1>1. /\ CallRows(db, c) \subseteq EventId
      /\ \A x \in CallRows(db, c) : db.outbox[x].created_at_ms \in Int /\ IdRank[x] \in Nat
      /\ db.outbox[d].call_uuid = c /\ db.outbox[e].call_uuid = c
  BY RankAssumption DEF IsDatabase, RowsOK, CallRows
<1>2. Place(db, d) = Cardinality(D) /\ Place(db, e) = Cardinality(E)
  BY <1>1 DEF Place
<1>3. D \subseteq E /\ d \in E /\ d \notin D
  BY <1>1 DEF EarlierRow
<1>4. IsFiniteSet(E)
  <2>1. E \in SUBSET DOMAIN db.outbox /\ IsFiniteSet(DOMAIN db.outbox)
    BY DEF CallRows, IsDatabase, RowsOK
  <2>2. QED
    BY <2>1, FS_Subset
<1> HIDE DEF D, E
<1>5. /\ IsFiniteSet(D) /\ Cardinality(D) <= Cardinality(E)
      /\ Cardinality(E) = Cardinality(D) => E = D
  BY <1>3, <1>4, FS_Subset
<1>6. Cardinality(D) \in Nat /\ Cardinality(E) \in Nat
  BY <1>4, <1>5, FS_CardinalityType
<1> QED
  BY <1>2, <1>3, <1>5, <1>6

\* There are no more calls than rows.
LEMMA CallsFinite ==
    ASSUME NEW db, IsDatabase(db)
    PROVE  IsFiniteSet(CallsOf(db))
<1> DEFINE R == DOMAIN db.outbox
           T == {db.outbox[e].call_uuid : e \in R}
           f == [e \in R |-> db.outbox[e].call_uuid]
<1>1. IsFiniteSet(R)
  BY DEF IsDatabase, RowsOK
<1>2. f \in Surjection(R, T)
  BY DEF Surjection
<1>3. IsFiniteSet(T)
  BY <1>1, <1>2, FS_Surjection
<1>4. CallsOf(db) \in SUBSET T
  BY DEF CallsOf, CallRows
<1> QED
  BY <1>3, <1>4, FS_Subset

\* What a complete copy is to its source.
WholeCopy(from, db) ==
    /\ DOMAIN db.outbox = DOMAIN from.outbox
    /\ \A e \in DOMAIN db.outbox :
         [db.outbox[e] EXCEPT !.call_seq = -1] = [from.outbox[e] EXCEPT !.call_seq = -1]
    /\ ~from.schema.call_seq =>
         \A c \in Call : \A d, e \in CallRows(from, c) :
             EarlierRow(from, d, e) => db.outbox[d].call_seq < db.outbox[e].call_seq

\* Either command copies every row whole; a migration orders them as declared.
LEMMA ResultIsWhole ==
    ASSUME NEW db, IsDatabase(db), NEW j, NEW out \in Result(db, j)
    PROVE  WholeCopy(db, out) /\ IsDatabase(out)
<1>1. CASE j.command = "migrate"
  <2>1. out = Migrated(db)
    BY <1>1 DEF Result
  <2>2. \A e \in DOMAIN db.outbox :
          /\ [out.outbox[e] EXCEPT !.call_seq = -1] = [db.outbox[e] EXCEPT !.call_seq = -1]
          /\ DOMAIN out.outbox[e] = DOMAIN db.outbox[e]
          /\ out.outbox[e].created_at_ms = db.outbox[e].created_at_ms
    <3> SUFFICES ASSUME NEW e \in DOMAIN db.outbox
                 PROVE /\ [out.outbox[e] EXCEPT !.call_seq = -1]
                            = [db.outbox[e] EXCEPT !.call_seq = -1]
                       /\ DOMAIN out.outbox[e] = DOMAIN db.outbox[e]
                       /\ out.outbox[e].created_at_ms = db.outbox[e].created_at_ms
      OBVIOUS
    <3>1. "created_at_ms" \in DOMAIN db.outbox[e]
      BY DEF IsDatabase, RowsOK
    <3>2. \/ out.outbox[e] = db.outbox[e]
          \/ out.outbox[e] = [db.outbox[e] EXCEPT !.call_seq = Place(db, e)]
      BY <2>1, MigratedRows
    <3>3. QED
      BY <3>1, <3>2
  <2>3. DOMAIN out.outbox = DOMAIN db.outbox
    BY <2>1, MigratedRows
  <2>4. ASSUME NEW c \in Call, NEW d \in CallRows(db, c), NEW e \in CallRows(db, c),
               EarlierRow(db, d, e)
        PROVE  out.outbox[d].call_seq < out.outbox[e].call_seq
    <3>1. \A x \in CallRows(db, c) : out.outbox[x].call_seq = Place(db, x)
      <4> SUFFICES ASSUME NEW x \in CallRows(db, c)
                   PROVE  out.outbox[x].call_seq = Place(db, x)
        OBVIOUS
      <4>1. x \in DOMAIN db.outbox /\ db.outbox[x].call_uuid # Ungrouped
        BY CallAssumption DEF CallRows
      <4>2. "call_seq" \in DOMAIN db.outbox[x]
        BY <4>1 DEF IsDatabase, RowsOK
      <4>3. out.outbox[x] = [db.outbox[x] EXCEPT !.call_seq = Place(db, x)]
        BY <2>1, <4>1, MigratedRows
      <4>4. QED
        BY <4>2, <4>3
    <3>2. QED
      BY <2>4, <3>1, PlaceFollowsOrder
  <2>5. RowsOK(out.outbox)
    BY <2>2, <2>3 DEF IsDatabase, RowsOK
  <2>6. IsFiniteSet(DOMAIN out.call_streams)
    BY <2>1, MigratedRows, CallsFinite
  <2>7. IsDatabase(out)
    BY <2>1, <2>5, <2>6 DEF IsDatabase, Migrated
  <2>8. QED
    BY <2>2, <2>3, <2>4, <2>7 DEF WholeCopy
<1>2. CASE j.command # "migrate"
  <2>1. out = Retired(db, j.call) /\ CanRetireCopy(db, j.call)
    BY <1>2 DEF Result
  <2>2. out.outbox = db.outbox
    BY <2>1 DEF Retired
  <2>3. DOMAIN out.call_streams = DOMAIN db.call_streams \ {j.call}
    BY <2>1 DEF Retired
  <2>4. IsFiniteSet(DOMAIN out.call_streams)
    BY <2>3, FS_RemoveElement DEF IsDatabase
  <2>5. IsDatabase(out)
    BY <2>1, <2>2, <2>4 DEF IsDatabase, Retired
  <2>6. db.schema.call_seq
    BY <2>1 DEF CanRetireCopy
  <2>7. QED
    BY <2>2, <2>5, <2>6 DEF WholeCopy
<1> QED
  BY <1>1, <1>2

-----------------------------------------------------------------------------
(* The module's steps *)

\* A step that leaves the tool alone while no run is at work keeps the invariant
\* if it leaves a database.
LEMMA ModuleStep ==
    ASSUME OpsInv, UNCHANGED toolvars, locker = None, opened' \in BOOLEAN, IsDatabase(Source')
    PROVE  OpsInv'
<1> USE DEF OpsInv, toolvars
<1>1. \A r \in Run : job[r].at \notin AtWork
  BY RunAssumption DEF LockInv
<1>2. ShapeOK' /\ LockInv' /\ SnapshotInv'
  BY <1>1 DEF ShapeOK, LockInv, SnapshotInv, AtWork
<1>3. StageInv' /\ PublishInv'
  BY DEF StageInv, PublishInv, Complete
<1> QED
  BY <1>2, <1>3

\* The transactions of the module keep the table finite and its columns.
LEMMA InsertKeepsDatabase ==
    ASSUME IsDatabase(Source), NEW e \in EventId, NEW rec \in Request, NEW now \in Time,
           InsertPending(e, rec, now), schema' = schema
    PROVE  IsDatabase(Source')
<1>1. RowsOK(outbox) /\ IsFiniteSet(DOMAIN call_streams)
  BY DEF IsDatabase, Source
<1>2. Retained(e) \subseteq DOMAIN outbox
  BY DEF Retained
<1>3. IsFiniteSet(Retained(e) \cup {e})
  <2>1. IsFiniteSet(DOMAIN outbox)
    BY <1>1 DEF RowsOK
  <2>2. IsFiniteSet(Retained(e))
    BY <1>2, <2>1, FS_Subset
  <2>3. QED
    BY <2>2, FS_AddElement
<1>4. RowsOK(outbox')
  <2>1. DOMAIN outbox' = Retained(e) \cup {e}
    BY DEF InsertPending
  <2>2. \A d \in Retained(e) : d # e => outbox'[d] = outbox[d]
    BY DEF InsertPending
  <2>3. outbox'[e] = NewRow(rec, now)
    BY DEF InsertPending
  <2>4. /\ {"call_seq", "created_at_ms"} \subseteq DOMAIN NewRow(rec, now)
        /\ NewRow(rec, now).created_at_ms \in Int
    BY TimeAssumption DEF NewRow
  <2>5. QED
    BY <1>1, <1>2, <1>3, <2>1, <2>2, <2>3, <2>4 DEF RowsOK
<1>5. IsFiniteSet(DOMAIN call_streams')
  <2>1. DOMAIN call_streams' \in {DOMAIN call_streams, DOMAIN call_streams \cup {rec.call_uuid}}
    BY DEF InsertPending
  <2>2. QED
    BY <1>1, <2>1, FS_AddElement
<1> QED
  BY <1>4, <1>5 DEF IsDatabase, Source

\* So does any update that leaves the sort columns of the rows alone.
LEMMA UpdateKeepsDatabase ==
    ASSUME IsDatabase(Source),
           DOMAIN outbox' \subseteq DOMAIN outbox, DOMAIN call_streams' = DOMAIN call_streams,
           \A e \in DOMAIN outbox' : /\ DOMAIN outbox'[e] = DOMAIN outbox[e]
                                     /\ outbox'[e].created_at_ms = outbox[e].created_at_ms
    PROVE  IsDatabase(Source')
<1>1. RowsOK(outbox) /\ IsFiniteSet(DOMAIN call_streams)
  BY DEF IsDatabase, Source
<1>2. IsFiniteSet(DOMAIN outbox')
  BY <1>1, FS_Subset DEF RowsOK
<1>3. RowsOK(outbox')
  BY <1>1, <1>2 DEF RowsOK
<1> QED
  BY <1>1, <1>3 DEF IsDatabase, Source

\* open() only adds stamps.
LEMMA OpenKeepsDatabase ==
    ASSUME IsDatabase(Source), OpenUpgrade
    PROVE  IsDatabase(Source')
<1>1. \A e \in DOMAIN outbox : {"call_seq", "created_at_ms"} \subseteq DOMAIN outbox[e]
  BY DEF IsDatabase, Source, RowsOK
<1>2. \A e \in DOMAIN outbox : /\ DOMAIN Stamped(e) = DOMAIN outbox[e]
                               /\ Stamped(e).created_at_ms = outbox[e].created_at_ms
  BY <1>1 DEF Stamped
<1> QED
  BY <1>2, UpdateKeepsDatabase DEF OpenUpgrade

\* The transactions that move one row between pending, in flight and dead.
Settles(e, now) == MarkRetry(e, now) \/ MarkDead(e) \/ RetryDead(e, now)

\* The pipeline's transactions insert, update or delete single rows.
LEMMA WorkKeepsDatabase ==
    ASSUME IsDatabase(Source), ModuleWorks
    PROVE  IsDatabase(Source')
<1>1. \A e \in DOMAIN outbox : {"call_seq", "created_at_ms"} \subseteq DOMAIN outbox[e]
  BY DEF IsDatabase, Source, RowsOK
<1>2. ASSUME NEW now \in Time, RequeueInFlight(now) PROVE IsDatabase(Source')
  <2>1. \A e \in DOMAIN outbox : /\ DOMAIN Requeued(e, now) = DOMAIN outbox[e]
                                 /\ Requeued(e, now).created_at_ms = outbox[e].created_at_ms
    BY <1>1 DEF Requeued
  <2>2. QED
    BY <1>2, <2>1, UpdateKeepsDatabase DEF RequeueInFlight
<1>3. ASSUME NEW e \in EventId, NEW rec \in Request, NEW now \in Time,
             InsertPending(e, rec, now)
      PROVE  IsDatabase(Source')
  BY <1>3, InsertKeepsDatabase DEF ModuleWorks
<1>4. ASSUME NEW e \in EventId, MarkInFlight(e) PROVE IsDatabase(Source')
  <2>1. \A d \in DOMAIN outbox : /\ DOMAIN outbox'[d] = DOMAIN outbox[d]
                                 /\ outbox'[d].created_at_ms = outbox[d].created_at_ms
    BY <1>1, <1>4 DEF MarkInFlight
  <2>2. DOMAIN outbox' = DOMAIN outbox /\ DOMAIN call_streams' = DOMAIN call_streams
    BY <1>4 DEF MarkInFlight
  <2>3. QED
    BY <2>1, <2>2, UpdateKeepsDatabase
<1>5. ASSUME NEW e \in EventId, NEW now \in Time, MarkAcked(e, now) PROVE IsDatabase(Source')
  <2>1. \A d \in DOMAIN outbox : /\ DOMAIN Promoted(d, e, now) = DOMAIN outbox[d]
                                 /\ Promoted(d, e, now).created_at_ms = outbox[d].created_at_ms
    BY <1>1 DEF Promoted
  <2>2. DOMAIN outbox' \subseteq DOMAIN outbox /\ DOMAIN call_streams' = DOMAIN call_streams
    BY <1>5 DEF MarkAcked
  <2>3. \A d \in DOMAIN outbox' : outbox'[d] = Promoted(d, e, now)
    BY <1>5 DEF MarkAcked
  <2>4. QED
    BY <2>1, <2>2, <2>3, UpdateKeepsDatabase
<1>6. ASSUME NEW e \in EventId, NEW now \in Time, Settles(e, now) PROVE IsDatabase(Source')
  <2>1. \A d \in DOMAIN outbox : /\ DOMAIN outbox'[d] = DOMAIN outbox[d]
                                 /\ outbox'[d].created_at_ms = outbox[d].created_at_ms
    <3>1. CASE MarkRetry(e, now)
      BY <1>1, <3>1 DEF MarkRetry, InFlight
    <3>2. CASE MarkDead(e)
      BY <1>1, <3>2 DEF MarkDead
    <3>3. CASE RetryDead(e, now)
      BY <1>1, <3>3 DEF RetryDead
    <3> QED
      BY <1>6, <3>1, <3>2, <3>3 DEF Settles
  <2>2. DOMAIN outbox' = DOMAIN outbox /\ DOMAIN call_streams' = DOMAIN call_streams
    BY <1>6 DEF Settles, MarkRetry, MarkDead, RetryDead
  <2>3. QED
    BY <2>1, <2>2, UpdateKeepsDatabase
<1>7. ASSUME NEW now \in Time, ExpireTtl(now) PROVE IsDatabase(Source')
  <2>1. \A d \in DOMAIN outbox : /\ DOMAIN outbox'[d] = DOMAIN outbox[d]
                                 /\ outbox'[d].created_at_ms = outbox[d].created_at_ms
    BY <1>1, <1>7 DEF ExpireTtl
  <2>2. DOMAIN outbox' = DOMAIN outbox /\ DOMAIN call_streams' = DOMAIN call_streams
    BY <1>7 DEF ExpireTtl
  <2>3. QED
    BY <2>1, <2>2, UpdateKeepsDatabase
<1> QED
  BY <1>2, <1>3, <1>4, <1>5, <1>6, <1>7 DEF ModuleWorks, Settles

\* The module works only while no run holds the lock, so no copy goes stale.
LEMMA ModuleStepsInv ==
    ASSUME OpsInv, OpenUpgrade \/ ModuleWorks \/ ModuleCloses
    PROVE  OpsInv'
<1>1. CASE OpenUpgrade
  BY <1>1, OpenKeepsDatabase, ModuleStep DEF OpenUpgrade, OpsInv
<1>2. CASE ModuleWorks
  <2>1. opened /\ opened' = opened
    BY <1>2 DEF ModuleWorks, RequeueInFlight, InsertPending, CanInsert, MarkInFlight,
                CanMarkInFlight, MarkAcked, CanAck, MarkRetry, InFlight, MarkDead, RetryDead,
                ExpireTtl
  <2>2. locker = None
    BY <2>1 DEF OpsInv, LockInv
  <2>3. UNCHANGED toolvars
    BY <1>2 DEF ModuleWorks
  <2>4. QED
    BY <1>2, <2>1, <2>2, <2>3, WorkKeepsDatabase, ModuleStep DEF OpsInv, ShapeOK
<1>3. CASE ModuleCloses
  <2>1. locker = None
    BY <1>3 DEF ModuleCloses, Close, OpsInv, LockInv
  <2>2. Source' = Source
    BY <1>3 DEF ModuleCloses, Close, Source
  <2>3. opened' \in BOOLEAN /\ UNCHANGED toolvars
    BY <1>3 DEF ModuleCloses, Close
  <2>4. QED
    BY <2>1, <2>2, <2>3, ModuleStep DEF OpsInv
<1> QED
  BY <1>1, <1>2, <1>3

-----------------------------------------------------------------------------
(* The steps of a run *)

\* A run that moves on keeps its command, and leaves other runs where they are.
LEMMA RunMoves ==
    ASSUME ShapeOK, NEW r \in Run, NEW at \in Places, Goes(r, at)
    PROVE  /\ job' \in [Run -> [at : Places, command : {"none", "migrate", "retire"},
                                call : Call \cup {Ungrouped}]]
           /\ job'[r].at = at
           /\ \A x \in Run : /\ x # r => job'[x] = job[x]
                             /\ job'[x].command = job[x].command /\ job'[x].call = job[x].call
BY DEF ShapeOK, Goes

\* A complete file stays complete while nobody touches it.
LEMMA CompleteKept ==
    ASSUME NEW x, stage'[x] = stage[x], Complete(x),
           job'[x].command = job[x].command, job'[x].call = job[x].call
    PROVE  Complete(x)'
BY DEF Complete, Result

\* A run that begins has made nothing yet.
LEMMA BeginInv ==
    ASSUME OpsInv, NEW r \in Run, NEW command \in {"migrate", "retire"},
           NEW c \in Call \cup {Ungrouped}, Begin(r, command, c)
    PROVE  OpsInv'
<1> USE RunAssumption DEF OpsInv, Begin, obvars
<1>1. IsDatabase(Source)'
  BY DEF Source, IsDatabase
<1>2. ShapeOK'
  BY DEF ShapeOK, Places
<1>3. LockInv'
  BY DEF LockInv, ShapeOK, AtWork
<1>4. SnapshotInv'
  BY DEF SnapshotInv, ShapeOK, Source
<1>5. \A x \in Run : x # r /\ Complete(x) => Complete(x)'
  BY CompleteKept DEF ShapeOK
<1>6. job'[r].at = "begun" /\ \A x \in Run : x # r => job'[x] = job[x]
  BY DEF ShapeOK
<1>7. StageInv'
  BY <1>5, <1>6 DEF StageInv
<1>8. PublishInv'
  BY <1>6 DEF PublishInv, ShapeOK
<1> QED
  BY <1>1, <1>2, <1>3, <1>4, <1>7, <1>8

\* The lock is free only while nobody works and the module has no database open.
LEMMA TakeLockInv ==
    ASSUME OpsInv, NEW r \in Run, TakeLock(r)
    PROVE  OpsInv'
<1> USE RunAssumption DEF OpsInv, TakeLock, obvars
<1>1. IsDatabase(Source)'
  BY DEF Source, IsDatabase
<1>2. PICK at \in {"locked", "failed"} :
        /\ Goes(r, at)
        /\ IF at = "locked" THEN ~opened /\ locker = None /\ locker' = r ELSE locker' = locker
  OBVIOUS
<1>3. /\ job' \in [Run -> [at : Places, command : {"none", "migrate", "retire"},
                           call : Call \cup {Ungrouped}]]
      /\ job'[r].at = at
      /\ \A x \in Run : /\ x # r => job'[x] = job[x]
                        /\ job'[x].command = job[x].command /\ job'[x].call = job[x].call
  BY <1>2, RunMoves DEF Places
<1>4. ShapeOK'
  BY <1>3 DEF ShapeOK
<1>5. LockInv'
  BY <1>2, <1>3 DEF LockInv, AtWork, ShapeOK
<1>6. SnapshotInv'
  BY <1>3 DEF SnapshotInv, ShapeOK, Source
<1>7. \A x \in Run : stage'[x] = stage[x] /\ Complete(x) => Complete(x)'
  BY <1>3, CompleteKept
<1>8. StageInv'
  BY <1>3, <1>7 DEF StageInv, PublishInv, ShapeOK
<1>9. PublishInv'
  BY <1>3, <1>7 DEF StageInv, PublishInv, ShapeOK
<1> QED
  BY <1>1, <1>4, <1>5, <1>6, <1>8, <1>9

\* The copy is what the database holds, and it stays so under the lock.
LEMMA BackupInv ==
    ASSUME OpsInv, NEW r \in Run, Backup(r)
    PROVE  OpsInv'
<1> USE RunAssumption DEF OpsInv, Backup, obvars
<1>1. IsDatabase(Source)'
  BY DEF Source, IsDatabase
<1>3. /\ job' \in [Run -> [at : Places, command : {"none", "migrate", "retire"},
                           call : Call \cup {Ungrouped}]]
      /\ job'[r].at = "copied"
      /\ \A x \in Run : /\ x # r => job'[x] = job[x]
                        /\ job'[x].command = job[x].command /\ job'[x].call = job[x].call
  BY RunMoves DEF Places
<1>4. ShapeOK'
  BY <1>3 DEF ShapeOK
<1>5. LockInv'
  BY <1>3 DEF LockInv, AtWork, ShapeOK
<1>6. SnapshotInv'
  BY <1>3 DEF SnapshotInv, ShapeOK, Source
<1>7. \A x \in Run : stage'[x] = stage[x] /\ Complete(x) => Complete(x)'
  BY <1>3, CompleteKept
<1>8. StageInv'
  BY <1>3, <1>7 DEF StageInv, PublishInv, ShapeOK
<1>9. PublishInv'
  BY <1>3, <1>7 DEF StageInv, PublishInv, ShapeOK
<1> QED
  BY <1>1, <1>4, <1>5, <1>6, <1>8, <1>9

\* The one transaction on the copy: all of the result or none.
LEMMA TransformInv ==
    ASSUME OpsInv, NEW r \in Run, Transform(r)
    PROVE  OpsInv'
<1> USE RunAssumption DEF OpsInv, Transform, obvars
<1>1. IsDatabase(Source)'
  BY DEF Source, IsDatabase
<1>2. PICK at \in {"committed", "refused"} :
        /\ Goes(r, at)
        /\ at = "refused" => stage' = stage
        /\ at = "committed" => \E out \in Result(stage[r].db, job[r]) :
                                 stage' = [stage EXCEPT ![r] = [kind |-> "done", from |-> @.from,
                                                                db |-> out]]
  <2>1. CASE Result(stage[r].db, job[r]) = {}
    BY <2>1
  <2>2. CASE Result(stage[r].db, job[r]) # {}
    BY <2>2
  <2>3. QED
    BY <2>1, <2>2
<1>3. /\ job' \in [Run -> [at : Places, command : {"none", "migrate", "retire"},
                           call : Call \cup {Ungrouped}]]
      /\ job'[r].at = at
      /\ \A x \in Run : /\ x # r => job'[x] = job[x]
                        /\ job'[x].command = job[x].command /\ job'[x].call = job[x].call
  BY <1>2, RunMoves DEF Places
<1>4. ShapeOK'
  BY <1>3 DEF ShapeOK
<1>5. LockInv'
  BY <1>3 DEF LockInv, AtWork, ShapeOK
<1>6. \A x \in Run : x # r => stage'[x] = stage[x]
  BY <1>2 DEF ShapeOK
<1>7. \A x \in Run : stage'[x] = stage[x] /\ Complete(x) => Complete(x)'
  BY <1>3, CompleteKept
<1>8. stage[r] = [kind |-> "copy", from |-> Source, db |-> Source]
  BY DEF StageInv, SnapshotInv
<1>9. stage'[r].from = Source' /\ (at = "committed" => Complete(r)')
  <2>1. CASE at = "refused"
    BY <1>2, <1>8, <2>1 DEF Source
  <2>2. CASE at = "committed"
    <3>1. PICK out \in Result(stage[r].db, job[r]) :
            stage' = [stage EXCEPT ![r] = [kind |-> "done", from |-> @.from, db |-> out]]
      BY <1>2, <2>2
    <3>2. stage'[r] = [kind |-> "done", from |-> Source, db |-> out]
      BY <1>8, <3>1 DEF ShapeOK
    <3>3. out \in Result(Source, job'[r])
      BY <1>3, <1>8, <3>1 DEF Result
    <3>4. Source' = Source
      BY DEF Source
    <3>5. QED
      BY <3>2, <3>3, <3>4 DEF Complete
  <2>3. QED
    BY <1>2, <2>1, <2>2
<1>10. SnapshotInv'
  BY <1>3, <1>6, <1>9 DEF SnapshotInv, ShapeOK, Source
<1>11. StageInv'
  BY <1>3, <1>6, <1>7, <1>9 DEF StageInv, ShapeOK
<1>12. PublishInv'
  BY <1>3, <1>6, <1>7 DEF PublishInv, ShapeOK
<1> QED
  BY <1>1, <1>4, <1>5, <1>10, <1>11, <1>12

\* What is synced is complete.
LEMMA FsyncInv ==
    ASSUME OpsInv, NEW r \in Run, Fsync(r)
    PROVE  OpsInv'
<1> USE RunAssumption DEF OpsInv, Fsync, obvars
<1>1. IsDatabase(Source)'
  BY DEF Source, IsDatabase
<1>3. /\ job' \in [Run -> [at : Places, command : {"none", "migrate", "retire"},
                           call : Call \cup {Ungrouped}]]
      /\ job'[r].at = "synced"
      /\ \A x \in Run : /\ x # r => job'[x] = job[x]
                        /\ job'[x].command = job[x].command /\ job'[x].call = job[x].call
  BY RunMoves DEF Places
<1>4. ShapeOK'
  BY <1>3 DEF ShapeOK
<1>5. LockInv'
  BY <1>3 DEF LockInv, AtWork, ShapeOK
<1>6. SnapshotInv'
  BY <1>3 DEF SnapshotInv, ShapeOK, Source
<1>7. \A x \in Run : stage'[x] = stage[x] /\ Complete(x) => Complete(x)'
  BY <1>3, CompleteKept
<1>8. StageInv'
  BY <1>3, <1>7 DEF StageInv, PublishInv, ShapeOK
<1>9. PublishInv'
  BY <1>3, <1>7 DEF StageInv, PublishInv, ShapeOK
<1> QED
  BY <1>1, <1>4, <1>5, <1>6, <1>8, <1>9

\* The path is taken only when it is free, and only for a synced file.
LEMMA LinkInv ==
    ASSUME OpsInv, NEW r \in Run, Link(r)
    PROVE  OpsInv'
<1> USE RunAssumption DEF OpsInv, Link, obvars
<1>1. IsDatabase(Source)'
  BY DEF Source, IsDatabase
<1>2. PICK at \in {"linked", "refused"} :
        /\ Goes(r, at)
        /\ IF at = "linked" THEN output = None /\ output' = r /\ durable' = FALSE
                            ELSE output' = output /\ durable' = durable
  OBVIOUS
<1>3. /\ job' \in [Run -> [at : Places, command : {"none", "migrate", "retire"},
                           call : Call \cup {Ungrouped}]]
      /\ job'[r].at = at
      /\ \A x \in Run : /\ x # r => job'[x] = job[x]
                        /\ job'[x].command = job[x].command /\ job'[x].call = job[x].call
  BY <1>2, RunMoves DEF Places
<1>4. ShapeOK'
  BY <1>3 DEF ShapeOK
<1>5. LockInv'
  BY <1>3 DEF LockInv, AtWork, ShapeOK
<1>6. SnapshotInv'
  BY <1>3 DEF SnapshotInv, ShapeOK, Source
<1>7. \A x \in Run : stage'[x] = stage[x] /\ Complete(x) => Complete(x)'
  BY <1>3, CompleteKept
<1>8. StageInv'
  BY <1>3, <1>7 DEF StageInv, PublishInv, ShapeOK
<1>9. PublishInv'
  BY <1>2, <1>3, <1>7 DEF StageInv, PublishInv, ShapeOK
<1> QED
  BY <1>1, <1>4, <1>5, <1>6, <1>8, <1>9

\* The entry of a linked file becomes durable.
LEMMA FsyncDirInv ==
    ASSUME OpsInv, NEW r \in Run, FsyncDir(r)
    PROVE  OpsInv'
<1> USE RunAssumption DEF OpsInv, FsyncDir, obvars
<1>1. IsDatabase(Source)'
  BY DEF Source, IsDatabase
<1>3. /\ job' \in [Run -> [at : Places, command : {"none", "migrate", "retire"},
                           call : Call \cup {Ungrouped}]]
      /\ job'[r].at = "published"
      /\ \A x \in Run : /\ x # r => job'[x] = job[x]
                        /\ job'[x].command = job[x].command /\ job'[x].call = job[x].call
  BY RunMoves DEF Places
<1>4. ShapeOK'
  BY <1>3 DEF ShapeOK
<1>5. LockInv'
  BY <1>3 DEF LockInv, AtWork, ShapeOK
<1>6. SnapshotInv'
  BY <1>3 DEF SnapshotInv, ShapeOK, Source
<1>7. \A x \in Run : stage'[x] = stage[x] /\ Complete(x) => Complete(x)'
  BY <1>3, CompleteKept
<1>8. StageInv'
  BY <1>3, <1>7 DEF StageInv, PublishInv, ShapeOK
<1>9. PublishInv'
  BY <1>3, <1>7 DEF StageInv, PublishInv, ShapeOK
<1> QED
  BY <1>1, <1>4, <1>5, <1>6, <1>8, <1>9

\* Success is reported for a durable entry; the file lives on under its path.
LEMMA FinishInv ==
    ASSUME OpsInv, NEW r \in Run, Finish(r)
    PROVE  OpsInv'
<1> USE RunAssumption DEF OpsInv, Finish, obvars, Abandon
<1>1. IsDatabase(Source)'
  BY DEF Source, IsDatabase
<1>3. /\ job' \in [Run -> [at : Places, command : {"none", "migrate", "retire"},
                           call : Call \cup {Ungrouped}]]
      /\ job'[r].at = "ended"
      /\ \A x \in Run : /\ x # r => job'[x] = job[x]
                        /\ job'[x].command = job[x].command /\ job'[x].call = job[x].call
  BY RunMoves DEF Places
<1>4. ShapeOK'
  BY <1>3 DEF ShapeOK
<1>5. LockInv'
  BY <1>3 DEF LockInv, AtWork, ShapeOK
<1>6. SnapshotInv'
  BY <1>3 DEF SnapshotInv, ShapeOK, Source
<1>7. \A x \in Run : stage'[x] = stage[x] /\ Complete(x) => Complete(x)'
  BY <1>3, CompleteKept
<1>8. StageInv'
  BY <1>3, <1>7 DEF StageInv, PublishInv, ShapeOK
<1>9. PublishInv'
  BY <1>3, <1>7 DEF StageInv, PublishInv, ShapeOK
<1> QED
  BY <1>1, <1>4, <1>5, <1>6, <1>8, <1>9

\* A process that dies leaves the path as it is.
LEMMA KilledInv ==
    ASSUME OpsInv, NEW r \in Run, Killed(r)
    PROVE  OpsInv'
<1> USE RunAssumption DEF OpsInv, Killed, obvars, Abandon, Running
<1>1. IsDatabase(Source)'
  BY DEF Source, IsDatabase
<1>3. /\ job' \in [Run -> [at : Places, command : {"none", "migrate", "retire"},
                           call : Call \cup {Ungrouped}]]
      /\ job'[r].at = "killed"
      /\ \A x \in Run : /\ x # r => job'[x] = job[x]
                        /\ job'[x].command = job[x].command /\ job'[x].call = job[x].call
  BY RunMoves DEF Places
<1>4. ShapeOK'
  BY <1>3 DEF ShapeOK
<1>5. LockInv'
  BY <1>3 DEF LockInv, AtWork, ShapeOK
<1>6. SnapshotInv'
  BY <1>3 DEF SnapshotInv, ShapeOK, Source
<1>7. \A x \in Run : stage'[x] = stage[x] /\ Complete(x) => Complete(x)'
  BY <1>3, CompleteKept
<1>8. StageInv'
  BY <1>3, <1>7 DEF StageInv, PublishInv, ShapeOK
<1>9. PublishInv'
  BY <1>3, <1>7 DEF StageInv, PublishInv, ShapeOK
<1> QED
  BY <1>1, <1>4, <1>5, <1>6, <1>8, <1>9

-----------------------------------------------------------------------------
(* Power losses, adoption, and the results *)

\* Files that were linked had been synced, so the loss tears none of them, and a
\* durable entry stays.
LEMMA PowerLossInv ==
    ASSUME OpsInv, PowerLoss
    PROVE  OpsInv'
<1> USE RunAssumption DEF OpsInv
<1>1. IsDatabase(Source)'
  BY DEF PowerLoss, Source, IsDatabase
<1>2. \A r \in Run : /\ job'[r].at \notin AtWork
                     /\ job'[r].command = job[r].command /\ job'[r].call = job[r].call
                     /\ job[r].at \notin AtWork /\ job[r].at # "begun" => job'[r] = job[r]
                     /\ job'[r] # job[r] => job'[r].at = "killed"
  BY DEF PowerLoss, ShapeOK, Running, AtWork, Places
<1>3. job' \in [Run -> [at : Places, command : {"none", "migrate", "retire"},
                       call : Call \cup {Ungrouped}]]
  BY DEF PowerLoss, ShapeOK, Places
<1>4. ShapeOK'
  BY <1>3 DEF PowerLoss, ShapeOK
<1>5. LockInv' /\ SnapshotInv' /\ StageInv'
  BY <1>2 DEF LockInv, SnapshotInv, StageInv, AtWork, PowerLoss
<1>6. output' # None => stage'[output'] = stage[output] /\ output' = output
  <2> SUFFICES ASSUME output' # None
               PROVE  stage'[output'] = stage[output] /\ output' = output
    OBVIOUS
  <2>1. output' = output /\ output \in Run
    BY DEF PowerLoss, ShapeOK
  <2>2. output \in synced
    BY <2>1 DEF PublishInv
  <2>3. PICK torn \in SUBSET (Run \ synced) :
          stage' = [r \in Run |-> IF r # output' THEN NoFile
                                  ELSE IF r \in torn THEN [stage[r] EXCEPT !.kind = "torn"]
                                  ELSE stage[r]]
    BY DEF PowerLoss
  <2>4. QED
    BY <2>1, <2>2, <2>3
<1>7. output' # None => Complete(output)'
  <2>1. \A x \in Run : stage'[x] = stage[x] /\ Complete(x) => Complete(x)'
    BY <1>2, CompleteKept
  <2>2. output' # None => output \in Run /\ Complete(output)
    BY <1>4, <1>6 DEF PublishInv, ShapeOK
  <2>3. QED
    BY <1>6, <2>1, <2>2 DEF Complete
<1>8. PublishInv'
  <2>1. output' # None => /\ output \in synced
                          /\ job'[output'].at \in {"linked", "published", "ended", "killed"}
    BY <1>2, <1>6 DEF PublishInv, ShapeOK, AtWork
  <2>2. reported # {} => durable' /\ output' = output
    BY DEF PublishInv, PowerLoss
  <2>3. QED
    BY <1>2, <1>6, <1>7, <2>1, <2>2 DEF PublishInv, PowerLoss, AtWork
<1> QED
  BY <1>1, <1>4, <1>5, <1>8

\* The database the module goes on with is a complete copy; the path is free again.
LEMMA AdoptInv ==
    ASSUME OpsInv, NEW r \in Run, Adopt(r)
    PROVE  OpsInv'
<1> USE RunAssumption DEF OpsInv
<1>1. Complete(r)
  BY DEF Adopt, PublishInv
<1>2. IsDatabase(stage[r].db)
  BY <1>1, ResultIsWhole DEF Complete
<1>3. Source' = stage[r].db
  BY <1>2 DEF Adopt, Source, IsDatabase
<1>4. IsDatabase(Source)'
  BY <1>2, <1>3 DEF IsDatabase, RowsOK
<1>5. \A x \in Run : job[x].at \notin AtWork
  BY DEF Adopt, LockInv
<1>6. ShapeOK'
  BY DEF Adopt, ShapeOK
<1>7. LockInv' /\ SnapshotInv' /\ StageInv'
  BY <1>5 DEF Adopt, LockInv, SnapshotInv, StageInv, AtWork
<1>8. PublishInv'
  BY <1>5 DEF Adopt, PublishInv, AtWork
<1> QED
  BY <1>4, <1>6, <1>7, <1>8

\* Before the first run there is no copy, no lock and no output.
LEMMA OpsInitInv == OpsInit => OpsInv
<1> SUFFICES ASSUME OpsInit PROVE OpsInv
  OBVIOUS
<1> USE RunAssumption DEF OpsInit
<1>1. IsDatabase(Source)
  <2>1. PICK db \in Stored : outbox = db.outbox /\ call_streams = db.call_streams
    OBVIOUS
  <2>2. RowsOK(outbox) /\ IsFiniteSet(DOMAIN call_streams)
    BY <2>1, StoredAssumption DEF RowsOK
  <2>3. QED
    BY <2>2 DEF IsDatabase, Source
<1>2. ShapeOK
  <2>1. job \in [Run -> [at : Places, command : {"none", "migrate", "retire"},
                        call : Call \cup {Ungrouped}]]
    BY DEF Places
  <2>2. QED
    BY <2>1 DEF ShapeOK
<1>3. LockInv /\ SnapshotInv /\ StageInv /\ PublishInv
  BY DEF LockInv, SnapshotInv, StageInv, PublishInv, AtWork
<1> QED
  BY <1>1, <1>2, <1>3 DEF OpsInv

\* Every step of module, runs, kills, power losses and administrator keeps it.
LEMMA OpsNextInv == OpsInv /\ [OpsNext]_ovars => OpsInv'
<1> SUFFICES ASSUME OpsInv, [OpsNext]_ovars PROVE OpsInv'
  OBVIOUS
<1>1. CASE UNCHANGED ovars
  BY <1>1 DEF ovars, obvars, toolvars, OpsInv, ShapeOK, IsDatabase, Source, LockInv, SnapshotInv,
              StageInv, PublishInv, Complete
<1>2. CASE OpenUpgrade \/ ModuleWorks \/ ModuleCloses
  BY <1>2, ModuleStepsInv
<1>3. ASSUME NEW r \in Run, NEW c \in Call, Begin(r, "retire", c) PROVE OpsInv'
  BY <1>3, BeginInv
<1>4. ASSUME NEW r \in Run, Begin(r, "migrate", Ungrouped) PROVE OpsInv'
  BY <1>4, BeginInv
<1>5. ASSUME NEW r \in Run, RunStep(r) PROVE OpsInv'
  BY <1>5, TakeLockInv, BackupInv, TransformInv, FsyncInv, LinkInv, FsyncDirInv, FinishInv
     DEF RunStep
<1>6. ASSUME NEW r \in Run, Killed(r) \/ Adopt(r) PROVE OpsInv'
  BY <1>6, KilledInv, AdoptInv
<1>7. CASE PowerLoss
  BY <1>7, PowerLossInv
<1> QED
  BY <1>1, <1>2, <1>3, <1>4, <1>5, <1>6, <1>7 DEF OpsNext

\* The inductive invariant holds of every interleaving of the module and any number
\* of tool runs, with kills and power losses between any two of their steps.
THEOREM OpsInvariant == OpsSpec => []OpsInv
BY OpsInitInv, OpsNextInv, PTL DEF OpsSpec

\* Nobody writes the database between a run's backup and its publication: the
\* module and any number of runs exclude each other by the lock file.
THEOREM CopyStaysCurrent == OpsSpec => []SnapshotIsCurrent
<1>1. OpsInv => SnapshotIsCurrent
  BY DEF OpsInv, SnapshotInv, SnapshotIsCurrent
<1> QED
  BY <1>1, OpsInvariant, PTL

\* Whatever is killed and whenever the power fails, what the output path leads to
\* is the complete result of a transaction, with every event of its source, and
\* a migrated backlog in the declared order.
THEOREM PublicationIsAtomic == OpsSpec => []OutputIsWhole
<1>1. ASSUME OpsInv, output # None PROVE OutputIsWhole
  <2>1. Complete(output)
    BY <1>1 DEF OpsInv, PublishInv
  <2>2. stage[output].kind = "done" /\ WholeCopy(stage[output].from, stage[output].db)
    BY <2>1, ResultIsWhole DEF Complete
  <2>3. QED
    BY <2>2 DEF OutputIsWhole, WholeCopy
<1>2. OpsInv => OutputIsWhole
  BY <1>1 DEF OutputIsWhole
<1> QED
  BY <1>2, OpsInvariant, PTL

\* A reported output is the one and only output of its path, and no power loss
\* takes it away.
THEOREM SuccessIsDurable == OpsSpec => []ReportedIsKept
<1>1. OpsInv => ReportedIsKept
  BY DEF OpsInv, PublishInv, ReportedIsKept
<1> QED
  BY <1>1, OpsInvariant, PTL

\* Copying, retiring in the copy, publishing and adopting it has the effect of the
\* one step by which module Outbox retires a call.
THEOREM RetirementIsOneStep == OpsSpec => AdoptionIsRetirement
<1>1. ASSUME OpsInv, NEW r \in Run, Adopt(r), job[r].command = "retire",
             schema.order_scheduler
      PROVE  Retire(job[r].call)
  <2> DEFINE c == job[r].call
  <2>1. Complete(r) /\ stage[r].from = Source /\ ~opened /\ opened' = opened
    BY <1>1 DEF OpsInv, Adopt, PublishInv
  <2>2. /\ stage[r].db = Retired(Source, c) /\ CanRetireCopy(Source, c)
        /\ Fits(Retired(Source, c)) /\ IsDatabase(Source)
    BY <1>1, <2>1 DEF Complete, Result
  <2> HIDE DEF c
  <2>3. /\ outbox' = outbox /\ turn' = turn
        /\ call_streams' = [b \in DOMAIN call_streams \ {c} |-> call_streams[b]]
        /\ retired_calls' = [b \in DOMAIN retired_calls \cup {c} |->
                               IF b = c THEN call_streams[c].next_seq ELSE retired_calls[b]]
    BY <1>1, <2>2 DEF Adopt, Retired, SeededTurn, Source
  <2>4. /\ c \in DOMAIN call_streams
        /\ call_streams[c].next_seq = call_streams[c].admit_seq
        /\ \A e \in DOMAIN outbox : outbox[e].call_uuid # c
        /\ Cardinality(DOMAIN retired_calls) < MaxRows
    BY <2>2 DEF CanRetireCopy, CallRows, Source
  <2>5. /\ Cardinality(DOMAIN outbox) <= MaxRows
        /\ Cardinality(DOMAIN call_streams \ {c}) <= MaxRows
    BY <2>2 DEF Fits, Retired, Source
  <2>6. IsFiniteSet(DOMAIN call_streams)
    BY <2>2 DEF IsDatabase, Source
  <2>7. /\ Cardinality(DOMAIN call_streams) \in Nat
        /\ Cardinality(DOMAIN call_streams \ {c}) = Cardinality(DOMAIN call_streams) - 1
    BY <2>4, <2>6, FS_CardinalityType, FS_RemoveElement
  <2>8. Cardinality(DOMAIN call_streams) <= MaxRows + 1
    BY <2>5, <2>7, LimitAssumption
  <2>9. QED
    BY <2>1, <2>3, <2>4, <2>5, <2>8 DEF Retire, CanRetire, c
<1>2. OpsInv /\ [OpsNext]_ovars
        => [\A r \in Run : Adopt(r) /\ job[r].command = "retire" /\ schema.order_scheduler
                             => Retire(job[r].call)]_ovars
  BY <1>1
<1> QED
  BY <1>2, OpsInvariant, PTL DEF OpsSpec, AdoptionIsRetirement
-----------------------------------------------------------------------------
(***************************************************************************)
(* What the database holds.  From the first ordinal on it obeys the rules  *)
(* of a database of this version (OutboxCore, shared with module Outbox's  *)
(* own proofs); before that it has no cursors, so a migration starts from  *)
(* nothing.  An open database has this version, and its scheduler is not   *)
(* behind any call.                                                        *)
(***************************************************************************)
AttemptsLeft == \A e \in DOMAIN outbox : outbox[e].attempts + (MaxWork - work) <= MaxInt64

NoOrdinals ==
    /\ DOMAIN call_streams = {} /\ DOMAIN retired_calls = {}
    /\ \A e \in DOMAIN outbox : outbox[e].call_seq = -1 /\ outbox[e].eligible_at_ms = Null

TurnNotBehind == \A c \in DOMAIN call_streams : call_streams[c].last_served_ms <= turn

DataInv ==
    /\ OutboxTypeOK
    /\ schema \in [version : Nat, call_seq : BOOLEAN, order_scheduler : BOOLEAN]
    /\ work \in 0 .. MaxWork
    /\ AttemptsLeft
    /\ opened => schema = Current
    /\ schema.call_seq => OutboxCore
    /\ ~schema.call_seq => NoOrdinals
    /\ schema.order_scheduler => TurnNotBehind

\* A database a module has written has the data part of the invariant.
LEMMA DataInit == OpsInit => DataInv
<1> SUFFICES ASSUME OpsInit PROVE DataInv
  OBVIOUS
<1>1. WrittenByModule /\ opened = FALSE /\ work = 0
  BY DEF OpsInit
<1>2. AttemptsLeft /\ work \in 0 .. MaxWork
  BY <1>1, RunAssumption DEF WrittenByModule, AttemptsLeft
<1>3. schema.call_seq => OutboxCore
  BY <1>1 DEF WrittenByModule, OutboxCore, CursorOrder, AgeIffDeliverable
<1>4. ~schema.call_seq => NoOrdinals
  BY <1>1 DEF WrittenByModule, NoOrdinals
<1> QED
  BY <1>1, <1>2, <1>3, <1>4 DEF WrittenByModule, DataInv, TurnNotBehind

\* The steps that leave tables, schema and module alone, or only close it.
LEMMA DataKept ==
    ASSUME DataInv, UNCHANGED <<outbox, call_streams, retired_calls, turn, schema, work>>,
           opened' \in BOOLEAN, opened' => opened
    PROVE  DataInv'
<1>1. OutboxTypeOK' /\ (opened' => schema' = Current)
  BY DEF DataInv, OutboxTypeOK
<1>2. AttemptsLeft' /\ TurnNotBehind' = TurnNotBehind /\ NoOrdinals' = NoOrdinals
  BY DEF DataInv, AttemptsLeft, TurnNotBehind, NoOrdinals
<1>3. OutboxCore => OutboxCore'
  <2> SUFFICES ASSUME OutboxCore PROVE OutboxCore'
    OBVIOUS
  <2> QED
    BY <1>1, RowsTouchedCore DEF OutboxCore, OutboxTypeOK, AgeIffDeliverable
<1> QED
  BY <1>1, <1>2, <1>3 DEF DataInv

\* The largest element of a nonempty set of numbers with an upper bound.
LEMMA MaxIs ==
    ASSUME NEW n \in Nat, NEW S, S \subseteq 0 .. n, S # {}
    PROVE  Max(S) \in S /\ \A y \in S : Max(S) >= y
<1> DEFINE Up(x) == {y \in S : y >= x}
           B == {u \in SUBSET S : \E x \in S : u = Up(x)}
<1>1. IsFiniteSet(S)
  <2>1. IsFiniteSet(0 .. n)
    BY FS_Interval
  <2> QED
    BY <2>1, FS_Subset
<1>2. PICK t \in B : \A u \in B : ~(u \subseteq t /\ u # t)
  <2>1. B \subseteq SUBSET S
    OBVIOUS
  <2>2. B # {}
    <3>1. PICK x : x \in S
      OBVIOUS
    <3>2. Up(x) \in B
      BY <3>1
    <3> QED
      BY <3>2
  <2> HIDE DEF B
  <2> QED
    BY ONLY <1>1, <2>1, <2>2, SmallestOf
<1>3. PICK x \in S : t = Up(x)
  OBVIOUS
<1>4. ASSUME NEW y \in S, ~(x >= y) PROVE FALSE
  <2>1. x \in Int /\ y \in Int
    OBVIOUS
  <2>2. ASSUME NEW z \in Up(y) PROVE z \in Up(x)
    <3>1. z \in S /\ z \in Int /\ z >= y
      OBVIOUS
    <3> QED
      BY <1>4, <2>1, <3>1
  <2>3. x \in t /\ x \notin Up(y)
    BY <1>3, <1>4, <2>1
  <2>4. Up(y) \in B /\ Up(y) \subseteq t
    BY <1>3, <2>2
  <2> QED
    BY <1>2, <2>3, <2>4
<1>5. \E z \in S : \A y \in S : z >= y
  BY <1>4
<1> QED
  BY <1>5 DEF Max

\* The seed of the scheduler is a turn, and not behind any call.
LEMMA SeedIsTurn ==
    ASSUME DataInv
    PROVE  /\ SeededTurn(Source) \in 0 .. MaxInt64
           /\ \A c \in DOMAIN call_streams : call_streams[c].last_served_ms <= SeededTurn(Source)
<1>1. CASE schema.order_scheduler
  BY <1>1 DEF SeededTurn, Source, DataInv, TurnNotBehind, OutboxTypeOK
<1>2. CASE ~schema.order_scheduler
  <2> DEFINE S == {call_streams[c].last_served_ms : c \in DOMAIN call_streams} \cup {0}
  <2>1. S \subseteq 0 .. MaxInt64 /\ S # {} /\ MaxInt64 \in Nat
    BY LimitAssumption DEF DataInv, OutboxTypeOK, Stream
  <2>2. SeededTurn(Source) = Max(S)
    BY <1>2 DEF SeededTurn, Source, MaxServed
  <2>3. \A c \in DOMAIN call_streams : call_streams[c].last_served_ms \in S
    OBVIOUS
  <2> HIDE DEF S
  <2>4. Max(S) \in S /\ \A y \in S : Max(S) >= y
    BY <2>1, MaxIs
  <2> QED
    BY <2>1, <2>2, <2>3, <2>4
<1> QED
  BY <1>1, <1>2

\* open() upgrades a database with ordinals, or an empty one, which trivially has
\* sound ordinals.
LEMMA OpenData == ASSUME DataInv, OpenUpgrade PROVE DataInv'
<1>1. /\ outbox' = [e \in DOMAIN outbox |-> Stamped(e)]
      /\ UNCHANGED <<call_streams, retired_calls, work>>
      /\ opened' = TRUE /\ schema' = Current /\ turn' = SeededTurn(Source)
      /\ schema.call_seq \/ DOMAIN outbox = {}
  BY DEF OpenUpgrade, Upgradable
<1>2. OutboxCore
  <2>1. CASE schema.call_seq
    BY <2>1 DEF DataInv
  <2>2. CASE ~schema.call_seq
    BY <1>1, <2>2 DEF DataInv, NoOrdinals, OutboxCore, CursorOrder, RowsWithinWindow,
                      OrdinalsUnique, AgeIffDeliverable, FenceHolds, AdmissionContiguous
  <2> QED
    BY <2>1, <2>2
<1>3. turn' \in 0 .. MaxInt64 /\ TurnNotBehind'
  BY <1>1, SeedIsTurn DEF TurnNotBehind
<1>4. OutboxCore'
  BY <1>1, <1>2, <1>3, StampCore
<1>5. \A e \in DOMAIN outbox : outbox[e] \in Row
  BY DEF DataInv, OutboxTypeOK
<1>6. \A e \in DOMAIN outbox : outbox'[e].attempts = outbox[e].attempts
  BY <1>1, <1>5 DEF Stamped, Row
<1>7. AttemptsLeft'
  BY <1>1, <1>6 DEF DataInv, AttemptsLeft
<1>8. Current.call_seq /\ Current \in [version : Nat, call_seq : BOOLEAN, order_scheduler : BOOLEAN]
  BY DEF Current
<1>9. work' \in 0 .. MaxWork
  BY <1>1 DEF DataInv
<1> QED
  BY <1>1, <1>3, <1>4, <1>7, <1>8, <1>9 DEF DataInv, OutboxCore

\* Rows change their state and when they are due, and nothing else happens.
RowsMoved ==
    /\ opened /\ UNCHANGED <<call_streams, retired_calls, turn, opened>>
    /\ outbox' \in [DOMAIN outbox -> Row]
    /\ \A d \in DOMAIN outbox : /\ outbox'[d].call_uuid = outbox[d].call_uuid
                               /\ outbox'[d].msg_key = outbox[d].msg_key
                               /\ outbox'[d].call_seq = outbox[d].call_seq
                               /\ outbox'[d].attempts = outbox[d].attempts
                               /\ outbox'[d].eligible_at_ms = outbox[d].eligible_at_ms

\* A failed send, a death and a revival move one row.
LEMMA SettleMovesRows ==
    ASSUME outbox \in [DOMAIN outbox -> Row],
           NEW e \in EventId, NEW now \in Time, Settles(e, now)
    PROVE  RowsMoved
<1>1. CASE MarkRetry(e, now)
  BY <1>1 DEF MarkRetry, InFlight, RowsMoved, Row
<1>2. CASE MarkDead(e)
  BY <1>2 DEF MarkDead, RowsMoved, Row
<1>3. CASE RetryDead(e, now)
  BY <1>3 DEF RetryDead, RowsMoved, Row
<1> QED
  BY <1>1, <1>2, <1>3 DEF Settles

\* Expiry moves the heads that have waited too long.
LEMMA ExpireMovesRows ==
    ASSUME outbox \in [DOMAIN outbox -> Row], NEW now \in Time, ExpireTtl(now)
    PROVE  RowsMoved
<1> DEFINE After(d) == IF Expired(d, now)
                       THEN [outbox[d] EXCEPT !.state = "dead", !.last_error = "expired_ttl"]
                       ELSE outbox[d]
<1>1. \A d \in DOMAIN outbox :
        /\ After(d) \in Row
        /\ After(d).call_uuid = outbox[d].call_uuid
        /\ After(d).msg_key = outbox[d].msg_key
        /\ After(d).call_seq = outbox[d].call_seq
        /\ After(d).attempts = outbox[d].attempts
        /\ After(d).eligible_at_ms = outbox[d].eligible_at_ms
  BY DEF Row
<1>2. outbox' = [d \in DOMAIN outbox |-> After(d)]
  BY DEF ExpireTtl
<1>3. opened /\ UNCHANGED <<call_streams, retired_calls, turn, opened>>
  BY DEF ExpireTtl
<1> HIDE DEF After
<1> QED
  BY <1>1, <1>2, <1>3 DEF RowsMoved

\* Moved rows keep their places, and their stamps where these belong.
LEMMA MovedCore == ASSUME OutboxCore, RowsMoved PROVE OutboxCore'
<1>1. outbox' \in [DOMAIN outbox' -> Row] /\ opened' /\ turn' \in 0 .. MaxInt64
  BY DEF RowsMoved, OutboxCore, OutboxTypeOK
<1> QED
  BY <1>1, RowsTouchedCore DEF RowsMoved, OutboxCore, AgeIffDeliverable

\* The transactions of the module start from an open database, so from sound
\* ordinals.
LEMMA WorkData == ASSUME DataInv, ModuleWorks PROVE DataInv'
<1>1. /\ work < MaxWork /\ work' = work + 1 /\ schema' = schema
      /\ work \in Nat /\ MaxWork \in Nat /\ MaxInt64 \in Nat
  BY RunAssumption, LimitAssumption DEF ModuleWorks, DataInv
<1>2. work' \in 0 .. MaxWork
  BY <1>1
<1>3. /\ \A e \in DOMAIN outbox : outbox[e] \in Row
      /\ \A c \in DOMAIN call_streams : call_streams[c] \in Stream
      /\ \A e \in DOMAIN outbox : outbox[e].attempts \in Nat
      /\ turn \in Nat
  BY DEF DataInv, OutboxTypeOK, Row
<1>4. opened
  BY DEF ModuleWorks, RequeueInFlight, InsertPending, CanInsert, MarkInFlight, CanMarkInFlight,
         MarkAcked, CanAck, MarkRetry, InFlight, MarkDead, RetryDead, ExpireTtl
<1>5. OutboxCore /\ schema = Current /\ TurnNotBehind /\ AttemptsLeft
  BY <1>4 DEF DataInv, Current
<1>6. ASSUME OutboxCore', AttemptsLeft', TurnNotBehind' PROVE DataInv'
  <2>1. schema'.call_seq /\ schema' = Current
        /\ schema' \in [version : Nat, call_seq : BOOLEAN, order_scheduler : BOOLEAN]
    BY <1>1, <1>5 DEF Current
  <2> QED
    BY <1>2, <1>6, <2>1 DEF DataInv, OutboxCore
<1>7. ASSUME NEW now \in Time, RequeueInFlight(now) PROVE DataInv'
  <2>1. OutboxCore'
    BY <1>5, <1>7, RequeueCore
  <2>2. /\ DOMAIN outbox' = DOMAIN outbox /\ UNCHANGED <<call_streams, turn>>
        /\ \A e \in DOMAIN outbox : outbox'[e].attempts = outbox[e].attempts
    BY <1>3, <1>7 DEF RequeueInFlight, Requeued, Row
  <2>3. AttemptsLeft' /\ TurnNotBehind'
    BY <1>1, <1>3, <1>5, <2>2 DEF AttemptsLeft, TurnNotBehind
  <2> QED
    BY <1>6, <2>1, <2>3
<1>8. ASSUME NEW e \in EventId, NEW rec \in Request, NEW now \in Time, InsertPending(e, rec, now)
      PROVE  DataInv'
  <2>1. OutboxCore'
    BY <1>5, <1>8, InsertPendingCore
  <2>2. /\ DOMAIN outbox' = Retained(e) \cup {e} /\ turn' = turn
        /\ Retained(e) \subseteq DOMAIN outbox
        /\ outbox'[e].attempts = 0
        /\ \A d \in Retained(e) : d # e => outbox'[d] = outbox[d]
    BY <1>8, RetainedStored DEF InsertPending, NewRow
  <2>3. MaxWork - work' <= MaxInt64
    BY <1>1, <1>2, CountAssumption
  <2>4. AttemptsLeft'
    <3> SUFFICES ASSUME NEW d \in DOMAIN outbox'
                 PROVE  outbox'[d].attempts + (MaxWork - work') <= MaxInt64
      BY DEF AttemptsLeft
    <3>1. CASE d = e
      BY <1>1, <2>2, <2>3, <3>1
    <3>2. CASE d # e
      <4>1. d \in DOMAIN outbox /\ outbox'[d].attempts = outbox[d].attempts
        BY <2>2, <3>2
      <4>2. outbox[d].attempts + (MaxWork - work) <= MaxInt64 /\ outbox[d].attempts \in Nat
        BY <1>3, <1>5, <4>1 DEF AttemptsLeft
      <4> QED
        BY <1>1, <4>1, <4>2
    <3> QED
      BY <3>1, <3>2
  <2>5. TurnNotBehind'
    <3>1. CASE rec.call_uuid = Ungrouped
      BY <1>5, <1>8, <2>2, <3>1 DEF InsertPending, TurnNotBehind
    <3>2. CASE rec.call_uuid # Ungrouped
      <4>1. /\ DOMAIN call_streams' = DOMAIN call_streams \cup {rec.call_uuid}
            /\ call_streams'[rec.call_uuid] = Admitted(rec)
            /\ \A b \in DOMAIN call_streams \ {rec.call_uuid} : call_streams'[b] = call_streams[b]
            /\ OrderAdmits(e, rec)
        BY <1>8, <3>2 DEF InsertPending, CanInsert
      <4>2. StreamFor(rec) \in Stream
        BY <1>5, <3>2, <4>1, StreamForType
      <4>3. Admitted(rec).last_served_ms = StreamFor(rec).last_served_ms
        BY <4>2 DEF Admitted, Stream
      <4>4. StreamFor(rec).last_served_ms <= turn
        BY <1>3, <1>5 DEF StreamFor, TurnNotBehind
      <4> QED
        BY <1>5, <2>2, <4>1, <4>3, <4>4 DEF TurnNotBehind
    <3> QED
      BY <3>1, <3>2
  <2> QED
    BY <1>6, <2>1, <2>4, <2>5
<1>9. ASSUME NEW e \in EventId, MarkInFlight(e) PROVE DataInv'
  <2>1. e \in DOMAIN outbox
    BY <1>9 DEF MarkInFlight, CanMarkInFlight
  <2>2. outbox[e].attempts < MaxInt64
    BY <1>1, <1>3, <1>5, <2>1 DEF AttemptsLeft
  <2>3. OutboxCore'
    BY <1>5, <1>9, <2>2, MarkInFlightCore
  <2>4. /\ DOMAIN outbox' = DOMAIN outbox
        /\ \A d \in DOMAIN outbox : /\ outbox'[d] \in Row
                                    /\ outbox'[d].attempts <= outbox[d].attempts + 1
        /\ DOMAIN call_streams' = DOMAIN call_streams
        /\ \A b \in DOMAIN call_streams :
             call_streams'[b].last_served_ms = IF Ordered(e) /\ b = outbox[e].call_uuid
                                               THEN turn + 1 ELSE call_streams[b].last_served_ms
        /\ turn' = turn + 1
    BY <1>5, <1>9, <2>2, ServeEffect
  <2>5. AttemptsLeft'
    <3> SUFFICES ASSUME NEW d \in DOMAIN outbox
                 PROVE  outbox'[d].attempts + (MaxWork - work') <= MaxInt64
      BY <2>4 DEF AttemptsLeft
    <3>1. outbox'[d].attempts \in Nat /\ outbox'[d].attempts <= outbox[d].attempts + 1
      BY <2>4 DEF Row
    <3>2. outbox[d].attempts + (MaxWork - work) <= MaxInt64 /\ outbox[d].attempts \in Nat
      BY <1>3, <1>5 DEF AttemptsLeft
    <3> QED
      BY <1>1, <3>1, <3>2
  <2>6. TurnNotBehind'
    <3> SUFFICES ASSUME NEW b \in DOMAIN call_streams
                 PROVE  call_streams'[b].last_served_ms <= turn'
      BY <2>4 DEF TurnNotBehind
    <3>1. call_streams[b].last_served_ms <= turn /\ call_streams[b].last_served_ms \in Nat
      BY <1>3, <1>5 DEF TurnNotBehind, Stream
    <3>2. call_streams'[b].last_served_ms \in {turn + 1, call_streams[b].last_served_ms}
      BY <2>4
    <3> QED
      BY <1>3, <2>4, <3>1, <3>2
  <2> QED
    BY <1>6, <2>3, <2>5, <2>6
<1>10. ASSUME NEW e \in EventId, NEW now \in Time, MarkAcked(e, now) PROVE DataInv'
  <2>1. OutboxCore'
    BY <1>5, <1>10, MarkAckedCore
  <2>2. /\ DOMAIN outbox' \subseteq DOMAIN outbox
        /\ \A d \in DOMAIN outbox' : outbox'[d].attempts = outbox[d].attempts
    BY <1>3, <1>10 DEF MarkAcked, Promoted, Row
  <2>3. /\ DOMAIN call_streams' = DOMAIN call_streams /\ turn' = turn
        /\ \A b \in DOMAIN call_streams :
             call_streams'[b].last_served_ms = call_streams[b].last_served_ms
    BY <1>3, <1>10 DEF MarkAcked, Stream
  <2>4. AttemptsLeft'
    BY <1>1, <1>3, <1>5, <2>2 DEF AttemptsLeft
  <2>5. TurnNotBehind'
    BY <1>5, <2>3 DEF TurnNotBehind
  <2> QED
    BY <1>6, <2>1, <2>4, <2>5
<1>11. ASSUME \/ \E e \in EventId, now \in Time : Settles(e, now)
              \/ \E now \in Time : ExpireTtl(now)
       PROVE  DataInv'
  <2>1. RowsMoved
    BY <1>5, <1>11, SettleMovesRows, ExpireMovesRows DEF OutboxCore, OutboxTypeOK
  <2>2. OutboxCore'
    BY <1>5, <2>1, MovedCore
  <2>3. AttemptsLeft' /\ TurnNotBehind'
    BY <1>1, <1>3, <1>5, <2>1 DEF AttemptsLeft, TurnNotBehind, RowsMoved
  <2> QED
    BY <1>6, <2>2, <2>3
<1> QED
  BY <1>7, <1>8, <1>9, <1>10, <1>11 DEF ModuleWorks, Settles

\* The rows of a call have the places 0 .. n - 1, each exactly one of them: places
\* differ because the declared order is total, and n of them fill n.
LEMMA PlacesFill ==
    ASSUME NEW db, IsDatabase(db), NEW c \in Call
    PROVE  LET n == Cardinality(CallRows(db, c))
           IN  /\ n \in Nat
               /\ \A e \in CallRows(db, c) : Place(db, e) \in 0 .. n - 1
               /\ \A d, e \in CallRows(db, c) : d # e => Place(db, d) # Place(db, e)
               /\ \A i \in 0 .. n - 1 : \E e \in CallRows(db, c) : Place(db, e) = i
<1> DEFINE R == CallRows(db, c)
           n == Cardinality(R)
           f == [e \in R |-> Place(db, e)]
<1>1. IsFiniteSet(R) /\ R \subseteq DOMAIN db.outbox
  <2>1. R \in SUBSET DOMAIN db.outbox /\ IsFiniteSet(DOMAIN db.outbox)
    BY DEF CallRows, IsDatabase, RowsOK
  <2> QED
    BY <2>1, FS_Subset
<1>2. n \in Nat
  BY <1>1, FS_CardinalityType
<1>3. ASSUME NEW e \in R PROVE Place(db, e) \in 0 .. n - 1
  <2> DEFINE E == {x \in R : EarlierRow(db, x, e)}
  <2>1. Place(db, e) = Cardinality(E)
    BY DEF Place, CallRows
  <2>2. e \in DOMAIN db.outbox /\ e \in EventId /\ db.outbox[e].created_at_ms \in Int
    BY <1>1 DEF IsDatabase, RowsOK
  <2>3. E \in SUBSET R /\ e \notin E
    BY <2>2, RankAssumption DEF EarlierRow
  <2> HIDE DEF E, R
  <2>4. /\ IsFiniteSet(E) /\ Cardinality(E) <= Cardinality(R)
        /\ Cardinality(R) = Cardinality(E) => R = E
    BY <1>1, <2>3, FS_Subset
  <2>5. Cardinality(E) \in Nat
    BY <2>4, FS_CardinalityType
  <2> QED
    BY <1>2, <2>1, <2>3, <2>4, <2>5
<1>4. ASSUME NEW d \in R, NEW e \in R, d # e PROVE Place(db, d) # Place(db, e)
  <2>1. /\ d \in EventId /\ db.outbox[d].created_at_ms \in Int
        /\ e \in EventId /\ db.outbox[e].created_at_ms \in Int
    BY <1>1 DEF IsDatabase, RowsOK
  <2>2. EarlierRow(db, d, e) \/ EarlierRow(db, e, d)
    <3>1. IdRank[d] \in Nat /\ IdRank[e] \in Nat /\ IdRank[d] # IdRank[e]
      BY <1>4, <2>1, RankAssumption
    <3> QED
      BY <2>1, <3>1 DEF EarlierRow
  <2>3. CASE EarlierRow(db, d, e)
    BY <2>3, PlaceFollowsOrder
  <2>4. CASE EarlierRow(db, e, d)
    BY <2>4, PlaceFollowsOrder
  <2> QED
    BY <2>2, <2>3, <2>4
<1>5. f \in Injection(R, 0 .. n - 1)
  BY <1>3, <1>4 DEF Injection, IsInjective
<1>6. IsFiniteSet(0 .. n - 1) /\ Cardinality(0 .. n - 1) = n
  <2> HIDE DEF n
  <2> QED
    BY <1>2, FS_Interval
<1>7. f \in Surjection(R, 0 .. n - 1)
  <2> DEFINE T == 0 .. n - 1
  <2>1. f \in Injection(R, T) /\ IsFiniteSet(T) /\ Cardinality(R) = Cardinality(T)
    BY <1>5, <1>6
  <2> HIDE DEF f, T, R
  <2> QED
    BY <2>1, FS_Injection DEF T
<1>8. \A i \in 0 .. n - 1 : \E e \in R : Place(db, e) = i
  BY <1>7 DEF Surjection
<1> QED
  BY <1>2, <1>3, <1>4, <1>8

\* What a migration makes of the database, once its copy is adopted.
Migrates ==
    /\ CanMigrate(Source)
    /\ Cardinality(DOMAIN outbox) <= MaxRows
    /\ outbox' = Migrated(Source).outbox
    /\ call_streams' = Migrated(Source).call_streams
    /\ retired_calls' = retired_calls
    /\ turn' = SeededTurn(Source)
    /\ schema' = ToolSchema(schema)
    /\ ~opened /\ opened' = opened /\ work' = work

\* The key of a call is the one that all its rows have.
LEMMA OneKey ==
    ASSUME CanMigrate(Source), NEW c \in CallsOf(Source)
    PROVE  LET k == (CHOOSE x \in {outbox[e] : e \in CallRows(Source, c)} : TRUE).msg_key
           IN  k \in Key /\ \A e \in CallRows(Source, c) : outbox[e].msg_key = k
<1> DEFINE R == {outbox[e] : e \in CallRows(Source, c)}
           x == CHOOSE y \in R : TRUE
<1>1. PICK k \in Key : \A e \in CallRows(Source, c) : outbox[e].msg_key = k
  BY DEF CanMigrate, Source
<1>2. x \in R
  <2>1. CallRows(Source, c) # {}
    BY DEF CallsOf
  <2> QED
    BY <2>1
<1>3. x.msg_key = k
  BY <1>1, <1>2
<1> QED
  BY <1>1, <1>3

\* The rows and the cursors a migration writes.
LEMMA MigrationEffect ==
    ASSUME DataInv, IsDatabase(Source), Migrates
    PROVE  /\ DOMAIN outbox' = DOMAIN outbox
           /\ \A e \in DOMAIN outbox :
                /\ outbox'[e] \in Row
                /\ outbox'[e].call_uuid = outbox[e].call_uuid
                /\ outbox'[e].msg_key = outbox[e].msg_key
                /\ outbox'[e].attempts = outbox[e].attempts
                /\ outbox'[e].eligible_at_ms = Null
                /\ outbox'[e].call_seq = IF Ordered(e) THEN Place(Source, e) ELSE -1
           /\ DOMAIN call_streams' = CallsOf(Source)
           /\ \A c \in CallsOf(Source) :
                /\ call_streams'[c] \in Stream
                /\ call_streams'[c].next_seq = 0
                /\ call_streams'[c].admit_seq = Cardinality(CallRows(Source, c))
                /\ call_streams'[c].last_served_ms = 0
                /\ \A e \in CallRows(Source, c) : outbox[e].msg_key = call_streams'[c].msg_key
<1>1. /\ NoOrdinals
      /\ \A e \in DOMAIN outbox : outbox[e] \in Row
      /\ MaxInt64 \in Nat \ {0} /\ MaxRows \in Nat /\ MaxRows <= MaxInt64
  BY LimitAssumption, CountAssumption DEF DataInv, OutboxTypeOK, Migrates, CanMigrate, Source
<1>2. ASSUME NEW c \in Call
      PROVE  /\ Cardinality(CallRows(Source, c)) \in 0 .. MaxInt64
             /\ \A e \in CallRows(Source, c) : Place(Source, e) \in 0 .. MaxInt64 - 1
  <2> DEFINE R == CallRows(Source, c)
             n == Cardinality(R)
  <2>1. R \in SUBSET DOMAIN outbox /\ IsFiniteSet(DOMAIN outbox)
    BY DEF CallRows, Source, IsDatabase, RowsOK
  <2>2. n <= Cardinality(DOMAIN outbox) /\ Cardinality(DOMAIN outbox) \in Nat
    BY <2>1, FS_Subset, FS_CardinalityType
  <2>3. n \in Nat /\ \A e \in R : Place(Source, e) \in 0 .. n - 1
    BY PlacesFill
  <2> HIDE DEF R, n
  <2>4. n <= MaxInt64
    BY <1>1, <2>2, <2>3 DEF Migrates
  <2>5. \A e \in R : Place(Source, e) \in 0 .. MaxInt64 - 1
    BY <1>1, <2>3, <2>4
  <2> QED
    BY <1>1, <2>3, <2>4, <2>5 DEF R, n
<1>3. DOMAIN outbox' = DOMAIN outbox /\ DOMAIN call_streams' = CallsOf(Source)
  BY DEF Migrates, Migrated, Source
<1>4. ASSUME NEW e \in DOMAIN outbox
      PROVE  /\ outbox'[e] \in Row
             /\ outbox'[e].call_uuid = outbox[e].call_uuid
             /\ outbox'[e].msg_key = outbox[e].msg_key
             /\ outbox'[e].attempts = outbox[e].attempts
             /\ outbox'[e].eligible_at_ms = Null
             /\ outbox'[e].call_seq = IF Ordered(e) THEN Place(Source, e) ELSE -1
  <2>1. /\ outbox'[e] = IF Ordered(e) THEN [outbox[e] EXCEPT !.call_seq = Place(Source, e)]
                                      ELSE outbox[e]
        /\ outbox[e] \in Row /\ outbox[e].call_seq = -1 /\ outbox[e].eligible_at_ms = Null
    BY <1>1 DEF Migrates, Migrated, Source, Ordered, NoOrdinals
  <2>2. Ordered(e) => Place(Source, e) \in -1 .. MaxInt64 - 1
    <3> SUFFICES ASSUME Ordered(e) PROVE Place(Source, e) \in -1 .. MaxInt64 - 1
      OBVIOUS
    <3>1. outbox[e].call_uuid \in Call /\ e \in CallRows(Source, outbox[e].call_uuid)
      BY <2>1 DEF Ordered, Row, CallRows, Source
    <3>2. Place(Source, e) \in 0 .. MaxInt64 - 1
      BY <1>2, <3>1
    <3> QED
      BY <1>1, <3>2
  <2> QED
    BY <2>1, <2>2 DEF Row
<1>5. ASSUME NEW c \in CallsOf(Source)
      PROVE  /\ call_streams'[c] \in Stream
             /\ call_streams'[c].next_seq = 0
             /\ call_streams'[c].admit_seq = Cardinality(CallRows(Source, c))
             /\ call_streams'[c].last_served_ms = 0
             /\ \A e \in CallRows(Source, c) : outbox[e].msg_key = call_streams'[c].msg_key
  <2> DEFINE k == (CHOOSE x \in {outbox[e] : e \in CallRows(Source, c)} : TRUE).msg_key
  <2>1. k \in Key /\ \A e \in CallRows(Source, c) : outbox[e].msg_key = k
    BY OneKey DEF Migrates
  <2>2. call_streams'[c] = [msg_key |-> k, mode |-> "admission", next_seq |-> 0,
                            admit_seq |-> Cardinality(CallRows(Source, c)), last_served_ms |-> 0]
    BY DEF Migrates, Migrated, Source
  <2> HIDE DEF k
  <2>3. Cardinality(CallRows(Source, c)) \in 0 .. MaxInt64 /\ 0 \in 0 .. MaxInt64
    BY <1>1, <1>2 DEF CallsOf
  <2> QED
    BY <2>1, <2>2, <2>3 DEF Stream
<1> QED
  BY <1>3, <1>4, <1>5

\* A migrated backlog of any age and in any states has sound ordinals: every row
\* within its cursor's window, none twice, none missing.
LEMMA MigrationData ==
    ASSUME DataInv, IsDatabase(Source), Migrates
    PROVE  DataInv'
<1>1. /\ DOMAIN outbox' = DOMAIN outbox
      /\ \A e \in DOMAIN outbox :
           /\ outbox'[e] \in Row
           /\ outbox'[e].call_uuid = outbox[e].call_uuid
           /\ outbox'[e].msg_key = outbox[e].msg_key
           /\ outbox'[e].attempts = outbox[e].attempts
           /\ outbox'[e].eligible_at_ms = Null
           /\ outbox'[e].call_seq = IF Ordered(e) THEN Place(Source, e) ELSE -1
      /\ DOMAIN call_streams' = CallsOf(Source)
      /\ \A c \in CallsOf(Source) :
           /\ call_streams'[c] \in Stream
           /\ call_streams'[c].next_seq = 0
           /\ call_streams'[c].admit_seq = Cardinality(CallRows(Source, c))
           /\ call_streams'[c].last_served_ms = 0
           /\ \A e \in CallRows(Source, c) : outbox[e].msg_key = call_streams'[c].msg_key
  BY MigrationEffect
<1>2. /\ NoOrdinals /\ \A e \in DOMAIN outbox : outbox[e] \in Row
      /\ DOMAIN outbox \subseteq EventId
      /\ retired_calls' = retired_calls /\ opened' = FALSE
      /\ opened \in BOOLEAN
  BY DEF DataInv, OutboxTypeOK, Migrates, CanMigrate, Source
<1>3. turn' \in 0 .. MaxInt64
  BY SeedIsTurn DEF Migrates
<1>4. OutboxTypeOK'
  <2>1. outbox' \in [DOMAIN outbox' -> Row] /\ call_streams' \in [DOMAIN call_streams' -> Stream]
    BY <1>1 DEF Migrates, Migrated
  <2>2. CallsOf(Source) \subseteq Call
    BY DEF CallsOf
  <2>3. /\ DOMAIN retired_calls' \subseteq Call
        /\ retired_calls' \in [DOMAIN retired_calls' -> 0 .. MaxInt64]
    BY <1>2 DEF DataInv, OutboxTypeOK
  <2> QED
    BY <1>1, <1>2, <1>3, <2>1, <2>2, <2>3 DEF OutboxTypeOK
<1>5. ASSUME NEW e \in DOMAIN outbox, Ordered(e)
      PROVE  /\ outbox[e].call_uuid \in CallsOf(Source)
             /\ e \in CallRows(Source, outbox[e].call_uuid)
  BY <1>2, <1>5 DEF Ordered, Row, CallRows, CallsOf, Source
<1>6. ASSUME NEW c \in CallsOf(Source)
      PROVE  LET n == Cardinality(CallRows(Source, c))
             IN  /\ n \in Nat
                 /\ \A e \in CallRows(Source, c) : Place(Source, e) \in 0 .. n - 1
                 /\ \A d, e \in CallRows(Source, c) : d # e => Place(Source, d) # Place(Source, e)
                 /\ \A i \in 0 .. n - 1 : \E e \in CallRows(Source, c) : Place(Source, e) = i
  BY <1>6, PlacesFill DEF CallsOf
<1>7. CursorOrder'
  BY <1>1, <1>6 DEF CursorOrder
<1>8. RowsWithinWindow'
  <2> SUFFICES ASSUME NEW e \in DOMAIN outbox
               PROVE  IF Ordered(e)'
                      THEN /\ outbox'[e].call_uuid \in DOMAIN call_streams'
                           /\ outbox'[e].msg_key = call_streams'[outbox'[e].call_uuid].msg_key
                           /\ outbox'[e].call_seq >= call_streams'[outbox'[e].call_uuid].next_seq
                           /\ outbox'[e].call_seq < call_streams'[outbox'[e].call_uuid].admit_seq
                      ELSE outbox'[e].call_seq = -1
    BY <1>1 DEF RowsWithinWindow
  <2>1. Ordered(e)' <=> Ordered(e)
    BY <1>1 DEF Ordered
  <2>2. CASE ~Ordered(e)
    BY <1>1, <2>1, <2>2
  <2>3. CASE Ordered(e)
    <3> DEFINE c == outbox[e].call_uuid
    <3>1. c \in CallsOf(Source) /\ e \in CallRows(Source, c)
      BY <1>5, <2>3
    <3>2. /\ Cardinality(CallRows(Source, c)) \in Nat
          /\ Place(Source, e) \in 0 .. Cardinality(CallRows(Source, c)) - 1
      BY <1>6, <3>1
    <3>3. /\ outbox'[e].call_uuid = c /\ outbox'[e].call_seq = Place(Source, e)
          /\ outbox'[e].msg_key = call_streams'[c].msg_key
          /\ call_streams'[c].next_seq = 0
          /\ call_streams'[c].admit_seq = Cardinality(CallRows(Source, c))
          /\ c \in DOMAIN call_streams'
      BY <1>1, <2>3, <3>1
    <3> HIDE DEF c
    <3> QED
      BY <2>1, <2>3, <3>2, <3>3
  <2> QED
    BY <2>2, <2>3
<1>9. OrdinalsUnique'
  <2> SUFFICES ASSUME NEW d \in DOMAIN outbox, NEW e \in DOMAIN outbox, d # e, Ordered(d)',
                      outbox'[d].call_uuid = outbox'[e].call_uuid
               PROVE  outbox'[d].call_seq # outbox'[e].call_seq
    BY <1>1 DEF OrdinalsUnique
  <2>1. Ordered(d) /\ Ordered(e) /\ outbox[d].call_uuid = outbox[e].call_uuid
    BY <1>1 DEF Ordered
  <2>2. Place(Source, d) # Place(Source, e)
    BY <1>5, <1>6, <2>1
  <2> QED
    BY <1>1, <2>1, <2>2
<1>10. AgeIffDeliverable' /\ FenceHolds'
  BY <1>1, <1>2 DEF AgeIffDeliverable, FenceHolds, NoOrdinals
<1>11. AdmissionContiguous'
  <2> SUFFICES ASSUME NEW c \in CallsOf(Source),
                      NEW i \in call_streams'[c].next_seq .. call_streams'[c].admit_seq - 1
               PROVE  \E e \in DOMAIN outbox' : outbox'[e].call_uuid = c /\ outbox'[e].call_seq = i
    BY <1>1 DEF AdmissionContiguous
  <2>1. i \in 0 .. Cardinality(CallRows(Source, c)) - 1
    BY <1>1
  <2>2. PICK e \in CallRows(Source, c) : Place(Source, e) = i
    BY <1>6, <2>1
  <2>3. e \in DOMAIN outbox /\ Ordered(e) /\ outbox[e].call_uuid = c
    BY CallAssumption DEF CallRows, CallsOf, Source, Ordered
  <2> QED
    BY <1>1, <2>2, <2>3
<1>12. OutboxCore'
  BY <1>4, <1>7, <1>8, <1>9, <1>10, <1>11 DEF OutboxCore
<1>13. AttemptsLeft' /\ work' \in 0 .. MaxWork
  BY <1>1 DEF DataInv, AttemptsLeft, Migrates
<1>14. TurnNotBehind'
  BY <1>1, <1>3 DEF TurnNotBehind
<1>15. /\ schema' \in [version : Nat, call_seq : BOOLEAN, order_scheduler : BOOLEAN]
       /\ schema'.call_seq
  BY DEF Migrates, ToolSchema, DataInv
<1> QED
  BY <1>2, <1>4, <1>12, <1>13, <1>14, <1>15 DEF DataInv

\* The module goes on with a complete copy: a migrated database, or one with a
\* call less and a fence more.
LEMMA AdoptData ==
    ASSUME OpsInv, DataInv, NEW r \in Run, Adopt(r)
    PROVE  DataInv'
<1>1. /\ IsDatabase(Source) /\ Complete(r) /\ stage[r].from = Source
      /\ ~opened /\ opened' = opened /\ work' = work
  BY RunAssumption DEF OpsInv, PublishInv, Adopt
<1>2. stage[r].db \in Result(Source, job[r])
  BY <1>1 DEF Complete
<1> DEFINE out == stage[r].db
<1>3. /\ outbox' = out.outbox /\ call_streams' = out.call_streams
      /\ retired_calls' = out.retired_calls /\ turn' = out.turn /\ schema' = out.schema
  BY DEF Adopt
<1> HIDE DEF out
<1>4. CASE job[r].command = "migrate"
  <2>1. out = Migrated(Source) /\ CanMigrate(Source) /\ Fits(out)
    BY <1>2, <1>4 DEF Result, out
  <2>2. Cardinality(DOMAIN outbox) <= MaxRows
    BY <2>1 DEF Fits, Migrated, Source
  <2>3. Migrated(Source).retired_calls = retired_calls
        /\ Migrated(Source).turn = SeededTurn(Source)
        /\ Migrated(Source).schema = ToolSchema(schema)
    BY DEF Migrated, Source
  <2>4. Migrates
    BY <1>1, <1>3, <2>1, <2>2, <2>3 DEF Migrates
  <2> QED
    BY <1>1, <2>4, MigrationData
<1>5. CASE job[r].command # "migrate"
  <2> DEFINE c == job[r].call
  <2>1. out = Retired(Source, c) /\ CanRetireCopy(Source, c)
    BY <1>2, <1>5 DEF Result, out
  <2> HIDE DEF c
  <2>2. /\ c \in DOMAIN call_streams
        /\ \A e \in DOMAIN outbox : outbox[e].call_uuid # c
        /\ schema.call_seq
    BY <2>1 DEF CanRetireCopy, CallRows, Source
  <2>3. /\ outbox' = outbox
        /\ call_streams' = [b \in DOMAIN call_streams \ {c} |-> call_streams[b]]
        /\ retired_calls' = [b \in DOMAIN retired_calls \cup {c} |->
                               IF b = c THEN call_streams[c].next_seq ELSE retired_calls[b]]
        /\ turn' = SeededTurn(Source) /\ schema' = ToolSchema(schema)
    BY <1>3, <2>1 DEF Retired, Source
  <2>4. turn' \in 0 .. MaxInt64 /\ TurnNotBehind'
    BY <2>3, SeedIsTurn DEF TurnNotBehind
  <2>5. OutboxCore
    BY <2>2 DEF DataInv
  <2>6. OutboxCore'
    BY <1>1, <2>2, <2>3, <2>4, <2>5, RetireCore
  <2>7. AttemptsLeft' /\ work' \in 0 .. MaxWork
    BY <1>1, <2>3 DEF DataInv, AttemptsLeft
  <2>8. /\ schema' \in [version : Nat, call_seq : BOOLEAN, order_scheduler : BOOLEAN]
        /\ schema'.call_seq
    BY <2>3 DEF ToolSchema, DataInv
  <2>9. ~opened'
    BY <1>1
  <2> QED
    BY <2>4, <2>6, <2>7, <2>8, <2>9 DEF DataInv, OutboxCore
<1> QED
  BY <1>4, <1>5

\* Every step keeps what the database holds sound.
LEMMA DataStep == OpsInv /\ DataInv /\ [OpsNext]_ovars => DataInv'
<1> SUFFICES ASSUME OpsInv, DataInv, [OpsNext]_ovars PROVE DataInv'
  OBVIOUS
<1>0. opened \in BOOLEAN
  BY DEF OpsInv, ShapeOK
<1>1. CASE UNCHANGED ovars
  BY <1>0, <1>1, DataKept DEF ovars, obvars
<1>2. CASE OpenUpgrade
  BY <1>2, OpenData
<1>3. CASE ModuleWorks
  BY <1>3, WorkData
<1>4. CASE ModuleCloses
  BY <1>4, DataKept DEF ModuleCloses, Close
<1>5. ASSUME NEW r \in Run, NEW c, NEW command, Begin(r, command, c) PROVE DataInv'
  BY <1>0, <1>5, DataKept DEF Begin, obvars
<1>6. ASSUME NEW r \in Run, RunStep(r) \/ Killed(r) PROVE DataInv'
  <2>1. UNCHANGED <<outbox, call_streams, retired_calls, turn, opened, schema, work>>
    BY <1>6 DEF RunStep, TakeLock, Backup, Transform, Fsync, Link, FsyncDir, Finish, Killed, obvars
  <2> QED
    BY <1>0, <2>1, DataKept
<1>7. ASSUME NEW r \in Run, Adopt(r) PROVE DataInv'
  BY <1>7, AdoptData
<1>8. CASE PowerLoss
  BY <1>8, DataKept DEF PowerLoss
<1> QED
  BY <1>1, <1>2, <1>3, <1>4, <1>5, <1>6, <1>7, <1>8 DEF OpsNext

\* What the database holds, in every interleaving of module, tool and interruption.
THEOREM DataInvariant == OpsSpec => []DataInv
<1>1. OpsInit => OpsInv /\ DataInv
  BY OpsInitInv, DataInit
<1>2. OpsInv /\ DataInv /\ [OpsNext]_ovars => (OpsInv /\ DataInv)'
  BY OpsNextInv, DataStep
<1> QED
  BY <1>1, <1>2, PTL DEF OpsSpec

\* The tables keep their types through upgrades, migrations and retirements, and
\* the module and the runs of the tool exclude each other.
THEOREM OpsTypesHold == OpsSpec => []OpsTypeOK
<1>1. OpsInv /\ DataInv => OpsTypeOK
  BY DEF OpsInv, DataInv, OpsTypeOK, ShapeOK, LockInv, PublishInv
<1> QED
  BY <1>1, OpsInvariant, DataInvariant, PTL

\* Whichever version wrote the database and whatever was interrupted, from its
\* first ordinal on it obeys the rules of the module's own database and open()
\* accepts it; once open, its stamps and its scheduler are in place.
THEOREM UpgradeIsSound == OpsSpec => []SoundOnceUpgraded
<1>1. ASSUME DataInv PROVE SoundOnceUpgraded
  <2>1. opened => schema.call_seq /\ TurnNotBehind
    BY <1>1 DEF DataInv, Current
  <2>2. schema.call_seq => OutboxCore
    BY <1>1 DEF DataInv
  <2> QED
    BY CoreAccepted, <2>1, <2>2 DEF SoundOnceUpgraded, OutboxCore, TurnNotBehind
<1>2. DataInv => SoundOnceUpgraded
  BY <1>1
<1> QED
  BY <1>2, DataInvariant, PTL
=============================================================================
