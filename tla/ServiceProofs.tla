---------------------------- MODULE ServiceProofs ---------------------------
(***************************************************************************)
(* TLAPS proofs about module ServiceOrder, for every number of calls, rows *)
(* and batch positions: nobody who waits is overtaken twice by the same    *)
(* call, and nothing that waits behind another row is killed.              *)
(***************************************************************************)
EXTENDS ServiceOrder, OutboxProofs

(***************************************************************************)
(* The inductive invariant.  overtaken[c][b] <= 1 says nothing of why b    *)
(* will not be served again.  It is not because b carries a later turn     *)
(* than c, which the next fetch_due respects, or is retired, and because   *)
(* in the batch at hand a row of c comes before every row of b.            *)
(***************************************************************************)
BatchIsSound ==
    /\ batch \in Seq(EventId)
    /\ \A i \in 1 .. Len(batch) : /\ batch[i] \in DOMAIN outbox
                                  /\ outbox[batch[i]].state = "pending"
                                  /\ Deliverable(batch[i])
    /\ \A i, j \in 1 .. Len(batch) : i # j => batch[i] # batch[j]

\* Call b has had its turn after call c, or will have none any more.
HadLaterTurn(b, c) ==
    \/ b \in DOMAIN retired_calls
    \/ /\ b \in DOMAIN call_streams
       /\ call_streams[c].last_served_ms < call_streams[b].last_served_ms

\* In the batch no row of b comes before the first row of c.
QueuedBehind(b, c) ==
    \A j \in 1 .. Len(batch) :
        outbox[batch[j]].call_uuid = b =>
            \E i \in 1 .. j - 1 : outbox[batch[i]].call_uuid = c

OvertakenOnlyBy ==
    \A b, c \in Call :
        \/ overtaken[c][b] = 0
        \/ /\ overtaken[c][b] = 1
           /\ c \in DOMAIN call_streams
           /\ HadLaterTurn(b, c)
           /\ QueuedBehind(b, c)

ServiceInv ==
    /\ OutboxInv
    /\ IsFiniteSet(DOMAIN outbox)
    /\ BatchIsSound
    /\ overtaken \in [Call -> [Call -> Nat]]
    /\ OvertakenOnlyBy
    /\ DeadIsHead

-----------------------------------------------------------------------------
(* Facts about states *)

\* Who waits has a cursor.
LEMMA WaitingHasCursor ==
    ASSUME NEW c \in Call, Waits(c)
    PROVE  c \in DOMAIN call_streams
BY CallAssumption DEF Waits, Deliverable, Ordered

\* A step in which nobody is served keeps the account, if the rows of the
\* batch keep their calls and no later turn is taken back.
LEMMA NobodyServed ==
    ASSUME overtaken \in [Call -> [Call -> Nat]], OvertakenOnlyBy, Observe,
           batch' = batch \/ batch' = <<>>,
           \A i \in 1 .. Len(batch') : outbox'[batch'[i]].call_uuid = outbox[batch'[i]].call_uuid,
           \A b, c \in Call : /\ Waits(c)'
                              /\ c \in DOMAIN call_streams
                              /\ HadLaterTurn(b, c)
                              => HadLaterTurn(b, c)'
    PROVE  /\ overtaken' \in [Call -> [Call -> Nat]]
           /\ OvertakenOnlyBy'
<1>1. overtaken' \in [Call -> [Call -> Nat]]
  BY DEF Observe
<1>2. ASSUME NEW b \in Call, NEW c \in Call, overtaken'[c][b] # 0
      PROVE  Waits(c)' /\ overtaken'[c][b] = overtaken[c][b]
  BY <1>2 DEF Observe
<1>3. ASSUME NEW b \in Call, NEW c \in Call, QueuedBehind(b, c)
      PROVE  QueuedBehind(b, c)'
  <2>1. CASE batch' = <<>>
    BY <2>1 DEF QueuedBehind
  <2>2. CASE batch' = batch
    <3> SUFFICES ASSUME NEW j \in 1 .. Len(batch), outbox'[batch[j]].call_uuid = b
                 PROVE  \E i \in 1 .. j - 1 : outbox'[batch[i]].call_uuid = c
      BY <2>2 DEF QueuedBehind
    <3>1. outbox[batch[j]].call_uuid = b
      BY <2>2
    <3>2. PICK i \in 1 .. j - 1 : outbox[batch[i]].call_uuid = c
      BY <1>3, <3>1 DEF QueuedBehind
    <3>3. i \in 1 .. Len(batch)
      OBVIOUS
    <3> QED
      BY <2>2, <3>2, <3>3
  <2> QED
    BY <2>1, <2>2
<1>4. ASSUME NEW b \in Call, NEW c \in Call, overtaken'[c][b] # 0
      PROVE  /\ overtaken'[c][b] = 1
             /\ (c \in DOMAIN call_streams)'
             /\ HadLaterTurn(b, c)'
             /\ QueuedBehind(b, c)'
  <2>1. Waits(c)' /\ overtaken'[c][b] = overtaken[c][b]
    BY <1>2, <1>4
  <2>2. overtaken[c][b] = 1 /\ c \in DOMAIN call_streams /\ HadLaterTurn(b, c) /\ QueuedBehind(b, c)
    BY <1>4, <2>1 DEF OvertakenOnlyBy
  <2>3. (c \in DOMAIN call_streams)'
    BY <2>1, CallAssumption DEF Waits, Deliverable, Ordered
  <2> QED
    BY <1>3, <2>1, <2>2, <2>3
<1> QED
  BY <1>1, <1>4 DEF OvertakenOnlyBy

-----------------------------------------------------------------------------
(* One lemma per action: the database *)

\* Every step is one transaction of the outbox or leaves the database alone.
LEMMA ServiceStep == BatchIsSound /\ [ServiceNext]_svars => [OutboxNext]_obvars
<1> SUFFICES ASSUME BatchIsSound, [ServiceNext]_svars PROVE [OutboxNext]_obvars
  OBVIOUS
<1>1. CASE StartOrStop
  BY <1>1 DEF StartOrStop, OutboxNext
<1>2. CASE \E e \in EventId, rec \in Request, now \in Time : Admit(e, rec, now)
  BY <1>2 DEF Admit, OutboxNext
<1>3. CASE \E now \in Time : Fetch(now) \/ ExpireOld(now)
  BY <1>3 DEF Fetch, ExpireOld, OutboxNext
<1>4. CASE Serve
  <2>1. Head(batch) \in EventId /\ MarkInFlight(Head(batch))
    BY <1>4 DEF Serve, BatchIsSound
  <2> QED
    BY <2>1 DEF OutboxNext
<1>5. CASE CutShort
  BY <1>5 DEF CutShort
<1>6. CASE \E e \in EventId, now \in Time : SettleFailure(e, now) \/ AfterBatch(e, now)
  BY <1>6 DEF SettleFailure, AfterBatch, OutboxNext
<1>7. CASE \E e \in EventId, c \in Call, now \in Time : Operate(e, c, now)
  BY <1>7 DEF Operate, OutboxNext
<1>8. CASE UNCHANGED svars
  BY <1>8 DEF svars
<1> QED
  BY <1>1, <1>2, <1>3, <1>4, <1>5, <1>6, <1>7, <1>8 DEF ServiceNext

-----------------------------------------------------------------------------
(* What dies is a head *)

\* An operation that kills only heads, and moves no cursor, keeps it that way.
LEMMA DeadAreHeads ==
    ASSUME DeadIsHead,
           \A c \in DOMAIN call_streams :
              c \in DOMAIN call_streams' /\ call_streams'[c].next_seq = call_streams[c].next_seq,
           \A e \in DOMAIN outbox' :
              outbox'[e].state = "dead" =>
                /\ e \in DOMAIN outbox
                /\ outbox'[e].call_uuid = outbox[e].call_uuid
                /\ outbox'[e].call_seq = outbox[e].call_seq
                /\ outbox[e].state = "dead" \/ Deliverable(e)
    PROVE  DeadIsHead'
<1> SUFFICES ASSUME NEW e \in DOMAIN outbox', outbox'[e].state = "dead"
             PROVE  Deliverable(e)'
  BY DEF DeadIsHead
<1>1. Deliverable(e)
  BY DEF DeadIsHead
<1> QED
  BY <1>1, HeadsKept

\* No step kills a row that waits behind another one of its call.
LEMMA DeadStep ==
    ASSUME OutboxInv, BatchIsSound, DeadIsHead, [ServiceNext]_svars
    PROVE  DeadIsHead'
<1>0. /\ outbox \in [DOMAIN outbox -> Row]
      /\ \A e \in DOMAIN outbox : outbox[e] \in Row
  BY DEF OutboxInv, OutboxTypeOK
<1>1. CASE Open
  <2>1. \A e \in DOMAIN outbox : /\ Stamped(e).call_uuid = outbox[e].call_uuid
                                 /\ Stamped(e).call_seq = outbox[e].call_seq
                                 /\ Stamped(e).state = outbox[e].state
    BY <1>0 DEF Stamped, Row
  <2> QED
    BY <1>1, <2>1, DeadAreHeads DEF Open
<1>2. CASE UNCHANGED obvars \/ Close
  BY <1>2 DEF Close, obvars, DeadIsHead, Deliverable, Ordered
<1>3. ASSUME NEW e \in EventId, NEW rec \in Request, NEW now \in Time, InsertPending(e, rec, now)
      PROVE  DeadIsHead'
  <2>1. \A d \in DOMAIN outbox' : outbox'[d].state = "dead" =>
                                    d \in DOMAIN outbox /\ outbox'[d] = outbox[d]
    BY <1>3, RetainedStored DEF InsertPending, NewRow
  <2>2. \A c \in DOMAIN call_streams :
           c \in DOMAIN call_streams' /\ call_streams'[c].next_seq = call_streams[c].next_seq
    BY <1>3, AdmitKeepsCursors
  <2> QED
    BY <2>1, <2>2, DeadAreHeads DEF DeadIsHead
<1>4. ASSUME NEW now \in Time, ExpireTtl(now)
      PROVE  DeadIsHead'
  <2>1. \A e \in DOMAIN outbox : /\ outbox'[e].call_uuid = outbox[e].call_uuid
                                 /\ outbox'[e].call_seq = outbox[e].call_seq
                                 /\ outbox'[e].state # outbox[e].state => Expired(e, now)
    BY <1>0, <1>4 DEF ExpireTtl, Row
  <2> QED
    BY <1>4, <2>1, DeadAreHeads DEF ExpireTtl, Expired
<1>5. ASSUME NEW now \in Time, RequeueInFlight(now)
      PROVE  DeadIsHead'
  <2>1. \A e \in DOMAIN outbox : /\ outbox'[e].call_uuid = outbox[e].call_uuid
                                 /\ outbox'[e].call_seq = outbox[e].call_seq
                                 /\ outbox'[e].state = "dead" => outbox[e].state = "dead"
    BY <1>0, <1>5 DEF RequeueInFlight, Requeued, Row
  <2> QED
    BY <1>5, <2>1, DeadAreHeads DEF RequeueInFlight
<1>6. ASSUME NEW e \in EventId, MarkInFlight(e)
      PROVE  DeadIsHead'
  <2>1. \A d \in DOMAIN outbox : /\ outbox'[d].call_uuid = outbox[d].call_uuid
                                 /\ outbox'[d].call_seq = outbox[d].call_seq
                                 /\ outbox'[d].state = "dead" => outbox[d].state = "dead"
    BY <1>0, <1>6 DEF MarkInFlight, Row
  <2> QED
    BY <1>6, <2>1, ServeMovesTurn, DeadAreHeads DEF MarkInFlight
<1>7. ASSUME NEW e \in EventId, NEW now \in Time, MarkRetry(e, now) \/ RetryDead(e, now)
      PROVE  DeadIsHead'
  <2>1. \A d \in DOMAIN outbox : /\ outbox'[d].call_uuid = outbox[d].call_uuid
                                 /\ outbox'[d].call_seq = outbox[d].call_seq
                                 /\ outbox'[d].state = "dead" => outbox[d].state = "dead"
    BY <1>0, <1>7 DEF MarkRetry, RetryDead, Row
  <2> QED
    BY <1>7, <2>1, DeadAreHeads DEF MarkRetry, RetryDead
<1>8. ASSUME NEW e \in EventId, InFlight(e), MarkDead(e)
      PROVE  DeadIsHead'
  <2>1. \A d \in DOMAIN outbox : /\ outbox'[d].call_uuid = outbox[d].call_uuid
                                 /\ outbox'[d].call_seq = outbox[d].call_seq
                                 /\ outbox'[d].state # outbox[d].state => d = e
    BY <1>0, <1>8 DEF MarkDead, Row
  <2>2. Deliverable(e)
    BY <1>8 DEF InFlight, OutboxInv, InFlightIsHead
  <2> QED
    BY <1>8, <2>1, <2>2, DeadAreHeads DEF MarkDead
<1>9. ASSUME NEW e \in EventId, NEW now \in Time, MarkAcked(e, now)
      PROVE  DeadIsHead'
  <2> SUFFICES ASSUME NEW d \in DOMAIN outbox', outbox'[d].state = "dead"
               PROVE  Deliverable(d)'
    BY DEF DeadIsHead
  <2>1. d \in DOMAIN outbox /\ d # e /\ outbox'[d] = Promoted(d, e, now)
    BY <1>9 DEF MarkAcked
  <2>2. /\ outbox'[d].call_uuid = outbox[d].call_uuid
        /\ outbox'[d].call_seq = outbox[d].call_seq
        /\ outbox[d].state = "dead"
    BY <1>0, <2>1 DEF Promoted, Row
  <2>3. Deliverable(d)
    BY <2>1, <2>2 DEF DeadIsHead
  <2>4. CASE Ordered(e)
    <3>1. outbox[d].call_uuid # outbox[e].call_uuid
      BY <1>9, <2>1, <2>3, <2>4, OneHead DEF MarkAcked, CanAck
    <3>2. call_streams' = [call_streams EXCEPT ![outbox[e].call_uuid].next_seq = @ + 1]
      BY <1>9, <2>4 DEF MarkAcked
    <3> QED
      BY <2>2, <2>3, <3>1, <3>2 DEF Deliverable, Ordered
  <2>5. CASE ~Ordered(e)
    BY <1>9, <2>2, <2>3, <2>5 DEF MarkAcked, Deliverable, Ordered
  <2> QED
    BY <2>4, <2>5
<1>10. ASSUME NEW c \in Call, Retire(c)
       PROVE  DeadIsHead'
  <2>1. \A e \in DOMAIN outbox : outbox[e].call_uuid # c
    BY <1>10 DEF Retire, CanRetire
  <2> QED
    BY <1>10, <2>1 DEF Retire, DeadIsHead, Deliverable, Ordered
<1>11. CASE Serve
  BY <1>6, <1>11 DEF Serve, BatchIsSound
<1> QED
  BY <1>1, <1>2, <1>3, <1>4, <1>5, <1>7, <1>8, <1>9, <1>10, <1>11
  DEF ServiceNext, svars, StartOrStop, Admit, Fetch, ExpireOld, CutShort, SettleFailure,
      AfterBatch, Operate

-----------------------------------------------------------------------------
(* What is fetched can still be sent when its place in the batch comes *)

\* fetch_due: a list of different due rows in the order of their turns, and what
\* is left out for want of room comes after all of it.
LEMMA FetchIsSound ==
    ASSUME DOMAIN outbox \subseteq EventId, IsFiniteSet(DOMAIN outbox),
           NEW now \in Time, Fetch(now)
    PROVE  /\ BatchIsSound'
           /\ \A i \in 1 .. Len(batch') : batch'[i] \in Due(now)
           /\ \A i, j \in 1 .. Len(batch') : i < j => ~Before(batch'[j], batch'[i])
           /\ \A e \in Due(now) : (\A i \in 1 .. Len(batch') : batch'[i] # e) =>
                                    \A i \in 1 .. Len(batch') : ~Before(e, batch'[i])
<1>1. /\ batch' \in Seq(EventId)
      /\ \A i \in 1 .. Len(batch') : batch'[i] \in Due(now)
      /\ \A i, j \in 1 .. Len(batch') : i # j => batch'[i] # batch'[j]
      /\ \A i, j \in 1 .. Len(batch') : i < j => ~Before(batch'[j], batch'[i])
      /\ \A e \in Due(now) : (\A i \in 1 .. Len(batch') : batch'[i] # e) =>
                               \A i \in 1 .. Len(batch') : ~Before(e, batch'[i])
  <2>1. batch' \in FetchDue(now, Limit) /\ Limit \in Nat
    BY LimitIsPositive DEF Fetch
  <2> QED
    BY <2>1, FetchedInOrder
<1>2. \A i \in 1 .. Len(batch') : /\ batch'[i] \in DOMAIN outbox'
                                   /\ outbox'[batch'[i]].state = "pending"
                                   /\ Deliverable(batch[i])'
  BY <1>1 DEF Fetch, obvars, Due, Deliverable, Ordered
<1>3. BatchIsSound'
  BY <1>1, <1>2 DEF BatchIsSound
<1> QED
  BY <1>1, <1>3

-----------------------------------------------------------------------------
(* One lemma per action: the batch and who was overtaken *)

\* The part of the invariant that the fairness of the schedule rests on.
OrderKept ==
    /\ BatchIsSound
    /\ overtaken \in [Call -> [Call -> Nat]]
    /\ OvertakenOnlyBy

\* With an empty batch, any operation that gives no turn away.
LEMMA OrderBetweenBatches ==
    ASSUME ServiceInv, Observe, batch' = <<>>,
           \/ Open \/ Close
           \/ \E now \in Time : ExpireTtl(now) \/ RequeueInFlight(now)
           \/ \E e \in EventId, now \in Time : MarkAcked(e, now) \/ RetryDead(e, now)
           \/ \E c \in Call : Retire(c)
    PROVE  OrderKept'
<1>1. BatchIsSound'
  BY DEF BatchIsSound
<1>2. ASSUME NEW b \in Call, NEW c \in Call, Waits(c)', c \in DOMAIN call_streams,
             HadLaterTurn(b, c)
      PROVE  HadLaterTurn(b, c)'
  <2>0. c \in DOMAIN call_streams'
    BY <1>2, CallAssumption DEF Waits, Deliverable, Ordered
  <2>1. CASE \/ Open \/ Close
             \/ \E now \in Time : ExpireTtl(now) \/ RequeueInFlight(now)
             \/ \E e \in EventId, now \in Time : RetryDead(e, now)
    <3>1. UNCHANGED <<call_streams, retired_calls>>
      BY <2>1 DEF Open, Close, ExpireTtl, RequeueInFlight, RetryDead
    <3> QED
      BY <1>2, <3>1 DEF HadLaterTurn
  <2>2. CASE \E e \in EventId, now \in Time : MarkAcked(e, now)
    <3>1. PICK e \in EventId, now \in Time : MarkAcked(e, now)
      BY <2>2
    <3>2. /\ DOMAIN call_streams' = DOMAIN call_streams
          /\ \A a \in DOMAIN call_streams :
               call_streams'[a].last_served_ms = call_streams[a].last_served_ms
      <4>1. \A a \in DOMAIN call_streams : call_streams[a] \in Stream
        BY DEF ServiceInv, OutboxInv, OutboxTypeOK
      <4> QED
        BY <3>1, <4>1 DEF MarkAcked, Stream
    <3>3. retired_calls' = retired_calls
      BY <3>1 DEF MarkAcked
    <3> QED
      BY <1>2, <3>2, <3>3 DEF HadLaterTurn
  <2>3. CASE \E a \in Call : Retire(a)
    BY <1>2, <2>0, <2>3 DEF Retire, HadLaterTurn
  <2> QED
    BY <2>1, <2>2, <2>3
<1>3. /\ overtaken' \in [Call -> [Call -> Nat]]
      /\ OvertakenOnlyBy'
  <2>1. \A i \in 1 .. Len(batch') : outbox'[batch'[i]].call_uuid = outbox[batch'[i]].call_uuid
    OBVIOUS
  <2> QED
    BY <1>2, <2>1, NobodyServed DEF ServiceInv
<1> QED
  BY <1>1, <1>3 DEF OrderKept

\* While the batch is worked off: admissions and failures.
LEMMA OrderDuringBatch ==
    ASSUME ServiceInv, Observe, batch' = batch,
           \/ \E e \in EventId, rec \in Request, now \in Time : InsertPending(e, rec, now)
           \/ \E e \in EventId, now \in Time : MarkRetry(e, now)
           \/ \E e \in EventId : InFlight(e) /\ MarkDead(e)
    PROVE  OrderKept'
<1>0. OutboxInv /\ BatchIsSound
  BY DEF ServiceInv
<1>1. ASSUME NEW i \in 1 .. Len(batch), NEW d, d = batch[i]
      PROVE  d \in DOMAIN outbox' /\ outbox'[d] = outbox[d] /\ Deliverable(d)'
  <2>1. d \in DOMAIN outbox /\ outbox[d].state = "pending" /\ Deliverable(d)
    BY <1>0, <1>1 DEF BatchIsSound
  <2> QED
    BY <1>0, <2>1, PendingHeadStays
<1>2. \A i \in 1 .. Len(batch) : Deliverable(batch[i])'
  BY <1>1
<1>3. BatchIsSound'
  BY <1>0, <1>1, <1>2 DEF BatchIsSound
<1>4. retired_calls' = retired_calls
  BY DEF InsertPending, MarkRetry, MarkDead
<1>5. \A a \in DOMAIN call_streams :
        /\ a \in DOMAIN call_streams'
        /\ call_streams'[a].last_served_ms = call_streams[a].last_served_ms
  <2>1. CASE \E e \in EventId, rec \in Request, now \in Time : InsertPending(e, rec, now)
    BY <1>0, <2>1, AdmitKeepsCursors
  <2>2. CASE \/ \E e \in EventId, now \in Time : MarkRetry(e, now)
             \/ \E e \in EventId : InFlight(e) /\ MarkDead(e)
    BY <2>2 DEF MarkRetry, MarkDead
  <2> QED
    BY <2>1, <2>2
<1>6. \A b, c \in Call : c \in DOMAIN call_streams /\ HadLaterTurn(b, c) => HadLaterTurn(b, c)'
  BY <1>4, <1>5 DEF HadLaterTurn
<1>7. \A i \in 1 .. Len(batch') : outbox'[batch'[i]].call_uuid = outbox[batch'[i]].call_uuid
  BY <1>1
<1>8. overtaken' \in [Call -> [Call -> Nat]] /\ OvertakenOnlyBy'
  BY <1>6, <1>7, NobodyServed DEF ServiceInv
<1> QED
  BY <1>3, <1>8 DEF OrderKept

\* fetch_due puts the due row of who waits before those of who had a later turn.
LEMMA OrderOnFetch ==
    ASSUME ServiceInv, NEW now \in Time, Fetch(now)
    PROVE  OrderKept'
<1>0. /\ OutboxInv
      /\ DOMAIN outbox \subseteq EventId
      /\ IsFiniteSet(DOMAIN outbox)
      /\ UNCHANGED obvars
      /\ outbox' = outbox
  BY DEF ServiceInv, OutboxInv, OutboxTypeOK, Fetch, obvars
<1>1. /\ BatchIsSound'
      /\ \A i \in 1 .. Len(batch') : batch'[i] \in Due(now)
      /\ \A i, j \in 1 .. Len(batch') : i < j => ~Before(batch'[j], batch'[i])
      /\ \A e \in Due(now) : (\A i \in 1 .. Len(batch') : batch'[i] # e) =>
                               \A i \in 1 .. Len(batch') : ~Before(e, batch'[i])
  BY <1>0, FetchIsSound
<1>2. overtaken' \in [Call -> [Call -> Nat]]
  BY DEF Fetch, ServiceInv
<1>3. ASSUME NEW b \in Call, NEW c \in Call, overtaken'[c][b] # 0
      PROVE  /\ overtaken'[c][b] = 1
             /\ (c \in DOMAIN call_streams)'
             /\ HadLaterTurn(b, c)'
             /\ QueuedBehind(b, c)'
  <2>1. /\ overtaken'[c][b] = overtaken[c][b]
        /\ \E e \in Due(now) : outbox[e].call_uuid = c
    BY <1>3 DEF Fetch
  <2>2. overtaken[c][b] = 1 /\ c \in DOMAIN call_streams /\ HadLaterTurn(b, c)
    BY <1>3, <2>1 DEF ServiceInv, OvertakenOnlyBy
  <2>3. (c \in DOMAIN call_streams)' /\ HadLaterTurn(b, c)'
    BY <1>0, <2>2 DEF obvars, HadLaterTurn
  <2>4. PICK e \in Due(now) : outbox[e].call_uuid = c
    BY <2>1
  <2>5. ASSUME NEW j \in 1 .. Len(batch'), outbox[batch'[j]].call_uuid = b
        PROVE  \E i \in 1 .. j - 1 : outbox[batch'[i]].call_uuid = c
    <3>1. batch'[j] \in DOMAIN outbox
      BY <1>1 DEF Due
    <3>2. b \in DOMAIN call_streams /\ call_streams[c].last_served_ms < call_streams[b].last_served_ms
      BY <1>0, <2>2, <2>5, <3>1 DEF HadLaterTurn, OutboxInv, FenceHolds
    <3>3. Before(e, batch'[j])
      BY <2>4, <2>5, <3>2, CallAssumption DEF Before, LastServed, Ordered
    <3>4. PICK i \in 1 .. Len(batch') : batch'[i] = e
      BY <1>1, <3>3
    <3>5. i # j
      <4>1. b # c
        <5>1. call_streams[b].last_served_ms \in Int
          BY <1>0, <3>2 DEF OutboxInv, OutboxTypeOK, Stream
        <5> QED
          BY <3>2, <5>1
      <4> QED
        BY <2>4, <2>5, <3>4, <4>1
    <3>6. ~(j < i)
      BY <1>1, <3>3, <3>4
    <3>7. i \in 1 .. j - 1
      BY <3>5, <3>6
    <3> QED
      BY <2>4, <3>4, <3>7
  <2>6. QueuedBehind(b, c)'
    BY <1>0, <2>5 DEF QueuedBehind
  <2> QED
    BY <2>1, <2>2, <2>3, <2>6
<1>4. OvertakenOnlyBy'
  BY <1>3 DEF OvertakenOnlyBy
<1> QED
  BY <1>1, <1>2, <1>4 DEF OrderKept

\* The call that is served goes behind everyone who still waits: it has the
\* newest turn and no second row in the batch.
LEMMA OrderOnServe ==
    ASSUME ServiceInv, Serve
    PROVE  OrderKept'
<1> DEFINE d == batch[1]
<1>0. /\ OutboxInv /\ BatchIsSound /\ OvertakenOnlyBy
      /\ overtaken \in [Call -> [Call -> Nat]]
  BY DEF ServiceInv
<1>1. /\ batch # <<>> /\ batch \in Seq(EventId)
      /\ Head(batch) = d /\ d \in EventId
      /\ MarkInFlight(d)
      /\ batch' = Tail(batch)
      /\ Len(batch) \in Nat \ {0}
  BY <1>0 DEF Serve, BatchIsSound
<1>2. /\ batch' \in Seq(EventId)
      /\ Len(batch') = Len(batch) - 1
      /\ \A i \in 1 .. Len(batch') : i + 1 \in 1 .. Len(batch) /\ batch'[i] = batch[i + 1]
  BY <1>1
<1>3. /\ d \in DOMAIN outbox /\ outbox[d].state = "pending" /\ Deliverable(d)
      /\ turn \in Int
  <2>1. 1 \in 1 .. Len(batch)
    BY <1>1
  <2>2. turn \in 0 .. MaxInt64
    BY <1>0 DEF OutboxInv, OutboxTypeOK
  <2> QED
    BY <1>0, <2>1, <2>2, LimitAssumption DEF BatchIsSound
<1>4. /\ DOMAIN call_streams' = DOMAIN call_streams
      /\ \A c \in DOMAIN call_streams :
           /\ call_streams'[c].next_seq = call_streams[c].next_seq
           /\ call_streams'[c].last_served_ms =
                IF c = outbox[d].call_uuid THEN turn + 1 ELSE call_streams[c].last_served_ms
  BY <1>0, <1>1, ServeMovesTurn
<1>5. /\ DOMAIN outbox' = DOMAIN outbox
      /\ outbox'[d].state = "in_flight"
      /\ \A e \in DOMAIN outbox : /\ outbox'[e].call_uuid = outbox[e].call_uuid
                                  /\ outbox'[e].call_seq = outbox[e].call_seq
                                  /\ e # d => outbox'[e] = outbox[e]
      /\ retired_calls' = retired_calls
  <2>1. outbox \in [DOMAIN outbox -> Row]
    BY <1>0 DEF OutboxInv, OutboxTypeOK
  <2> QED
    BY <1>1, <1>3, <2>1 DEF MarkInFlight, Row
<1> HIDE DEF d
<1>6. \A e \in DOMAIN outbox : Deliverable(e)' <=> Deliverable(e)
  BY <1>4, <1>5 DEF Deliverable, Ordered
<1>7. ASSUME NEW i \in 1 .. Len(batch')
      PROVE  /\ batch'[i] \in DOMAIN outbox
             /\ batch'[i] # d
             /\ outbox[batch'[i]].state = "pending"
             /\ Deliverable(batch'[i])
  <2>1. i + 1 \in 1 .. Len(batch) /\ 1 \in 1 .. Len(batch) /\ i + 1 # 1
    BY <1>1, <1>2
  <2> QED
    BY <1>0, <1>2, <2>1 DEF BatchIsSound, d
<1>8. BatchIsSound'
  <2>1. \A i \in 1 .. Len(batch') : /\ batch'[i] \in DOMAIN outbox'
                                     /\ outbox'[batch'[i]].state = "pending"
    BY <1>5, <1>7
  <2>2. \A i \in 1 .. Len(batch') : Deliverable(batch[i])'
    BY <1>6, <1>7
  <2>3. \A i, j \in 1 .. Len(batch') : i # j => batch'[i] # batch'[j]
    <3> SUFFICES ASSUME NEW i \in 1 .. Len(batch'), NEW j \in 1 .. Len(batch'), i # j
                 PROVE  batch'[i] # batch'[j]
      OBVIOUS
    <3>1. /\ i + 1 \in 1 .. Len(batch) /\ batch'[i] = batch[i + 1]
          /\ j + 1 \in 1 .. Len(batch) /\ batch'[j] = batch[j + 1]
          /\ i + 1 # j + 1
      BY <1>2
    <3> QED
      BY <1>0, <3>1 DEF BatchIsSound
  <2> QED
    BY <1>2, <2>1, <2>2, <2>3 DEF BatchIsSound
<1>9. overtaken' \in [Call -> [Call -> Nat]]
  BY <1>0 DEF Serve, Overtakes
<1>10. ASSUME NEW b \in Call, NEW c \in Call, overtaken'[c][b] # 0
       PROVE  /\ overtaken'[c][b] = 1
              /\ (c \in DOMAIN call_streams)'
              /\ HadLaterTurn(b, c)'
              /\ QueuedBehind(b, c)'
  <2>1. /\ Waits(c)'
        /\ overtaken'[c][b] = overtaken[c][b] + IF b = outbox[d].call_uuid THEN 1 ELSE 0
    BY <1>0, <1>1, <1>10 DEF Serve, Overtakes
  <2>2. (c \in DOMAIN call_streams)' /\ c \in DOMAIN call_streams
    BY <1>4, <2>1, CallAssumption DEF Waits, Deliverable, Ordered
  <2>3. c # outbox[d].call_uuid
    <3> SUFFICES ASSUME c = outbox[d].call_uuid PROVE FALSE
      OBVIOUS
    <3>1. PICK e \in DOMAIN outbox' : /\ outbox'[e].call_uuid = c
                                      /\ outbox'[e].state = "pending"
                                      /\ Deliverable(e)'
      BY <2>1 DEF Waits
    <3>2. e \in DOMAIN outbox /\ e # d /\ outbox[e].call_uuid = c /\ Deliverable(e)
      BY <1>5, <1>6, <3>1
    <3>3. Ordered(d)
      BY CallAssumption DEF Ordered
    <3> QED
      BY <1>0, <1>3, <3>2, <3>3, OneHead
  <2>4. CASE b = outbox[d].call_uuid
    <3>1. overtaken[c][b] = 0
      <4>1. ~QueuedBehind(b, c)
        <5>1. 1 \in 1 .. Len(batch) /\ 1 .. 1 - 1 = {}
          BY <1>1
        <5> QED
          BY <2>4, <5>1 DEF QueuedBehind, d
      <4> QED
        BY <1>0, <4>1 DEF OvertakenOnlyBy
    <3>2. HadLaterTurn(b, c)'
      <4>1. b \in DOMAIN call_streams
        BY <1>3, <2>4, CallAssumption DEF Deliverable, Ordered
      <4>2. call_streams[c].last_served_ms \in Int /\ call_streams[c].last_served_ms <= turn
        BY <1>0, <2>2 DEF OutboxInv, TurnsDistinct, OutboxTypeOK, Stream
      <4>3. call_streams'[c].last_served_ms < call_streams'[b].last_served_ms
        BY <1>3, <1>4, <2>2, <2>3, <2>4, <4>1, <4>2
      <4> QED
        BY <1>4, <4>1, <4>3 DEF HadLaterTurn
    <3>3. \A j \in 1 .. Len(batch') : outbox'[batch'[j]].call_uuid # b
      <4> SUFFICES ASSUME NEW j \in 1 .. Len(batch'), outbox'[batch'[j]].call_uuid = b
                   PROVE  FALSE
        OBVIOUS
      <4>1. /\ batch'[j] \in DOMAIN outbox /\ batch'[j] # d /\ Deliverable(batch'[j])
            /\ outbox[batch'[j]].call_uuid = b
        BY <1>5, <1>7
      <4>2. Ordered(d)
        BY <2>4, CallAssumption DEF Ordered
      <4> QED
        BY <1>0, <1>3, <2>4, <4>1, <4>2, OneHead
    <3>4. QueuedBehind(b, c)'
      BY <3>3 DEF QueuedBehind
    <3> QED
      BY <2>1, <2>2, <2>4, <3>1, <3>2, <3>4
  <2>5. CASE b # outbox[d].call_uuid
    <3>1. overtaken'[c][b] = overtaken[c][b]
      BY <1>0, <2>1, <2>5
    <3>2. overtaken[c][b] = 1 /\ HadLaterTurn(b, c) /\ QueuedBehind(b, c)
      BY <1>0, <1>10, <3>1 DEF OvertakenOnlyBy
    <3>3. HadLaterTurn(b, c)'
      BY <1>4, <1>5, <2>2, <2>3, <2>5, <3>2 DEF HadLaterTurn
    <3>4. ASSUME NEW j \in 1 .. Len(batch'), outbox'[batch'[j]].call_uuid = b
          PROVE  \E i \in 1 .. j - 1 : outbox'[batch'[i]].call_uuid = c
      <4>1. outbox[batch[j + 1]].call_uuid = b /\ j + 1 \in 1 .. Len(batch)
        BY <1>2, <1>5, <1>7, <3>4
      <4>2. PICK i \in 1 .. (j + 1) - 1 : outbox[batch[i]].call_uuid = c
        BY <3>2, <4>1 DEF QueuedBehind
      <4>3. i # 1
        BY <2>3, <4>2 DEF d
      <4>4. i - 1 \in 1 .. j - 1 /\ i - 1 \in 1 .. Len(batch') /\ (i - 1) + 1 = i
        BY <1>2, <4>2, <4>3
      <4>5. outbox'[batch'[i - 1]].call_uuid = c
        BY <1>2, <1>5, <1>7, <4>2, <4>4
      <4> QED
        BY <4>4, <4>5
    <3>5. QueuedBehind(b, c)'
      BY <3>4 DEF QueuedBehind
    <3> QED
      BY <2>2, <3>1, <3>2, <3>3, <3>5
  <2> QED
    BY <2>4, <2>5
<1>11. OvertakenOnlyBy'
  BY <1>10 DEF OvertakenOnlyBy
<1> QED
  BY <1>8, <1>9, <1>11 DEF OrderKept

\* Every step of the worker keeps who may have overtaken whom.
LEMMA OrderStep == ServiceInv /\ [ServiceNext]_svars => OrderKept'
<1> SUFFICES ASSUME ServiceInv, [ServiceNext]_svars PROVE OrderKept'
  OBVIOUS
<1>1. CASE StartOrStop
  BY <1>1, OrderBetweenBatches DEF StartOrStop
<1>2. CASE \E e \in EventId, rec \in Request, now \in Time : Admit(e, rec, now)
  BY <1>2, OrderDuringBatch DEF Admit
<1>3. CASE \E now \in Time : Fetch(now)
  BY <1>3, OrderOnFetch
<1>4. CASE \E now \in Time : ExpireOld(now)
  BY <1>4, OrderBetweenBatches DEF ExpireOld
<1>5. CASE Serve
  BY <1>5, OrderOnServe
<1>6. CASE CutShort
  <2>1. UNCHANGED <<outbox, call_streams, retired_calls, overtaken>> /\ batch' = <<>>
    BY <1>6 DEF CutShort, obvars
  <2>2. BatchIsSound'
    BY <2>1 DEF BatchIsSound
  <2>3. OvertakenOnlyBy'
    BY <2>1 DEF ServiceInv, OvertakenOnlyBy, HadLaterTurn, QueuedBehind
  <2> QED
    BY <2>1, <2>2, <2>3 DEF ServiceInv, OrderKept
<1>7. CASE \E e \in EventId, now \in Time : SettleFailure(e, now)
  BY <1>7, OrderDuringBatch DEF SettleFailure
<1>8. CASE \E e \in EventId, now \in Time : AfterBatch(e, now)
  BY <1>8, OrderBetweenBatches DEF AfterBatch
<1>9. CASE \E e \in EventId, c \in Call, now \in Time : Operate(e, c, now)
  BY <1>9, OrderBetweenBatches DEF Operate
<1>10. CASE UNCHANGED svars
  BY <1>10
  DEF ServiceInv, OrderKept, svars, obvars, BatchIsSound, OvertakenOnlyBy, HadLaterTurn,
      QueuedBehind, Deliverable, Ordered
<1> QED
  BY <1>1, <1>2, <1>3, <1>4, <1>5, <1>6, <1>7, <1>8, <1>9, <1>10 DEF ServiceNext

-----------------------------------------------------------------------------
(* The theorems *)

\* The inductive invariant holds of the worker's schedule under every
\* interleaving of admissions, reports, rebuilds, restarts and tools.
THEOREM ServiceInvariant == ServiceSpec => []ServiceInv
<1>1. ServiceInit => ServiceInv
  <2> SUFFICES ASSUME ServiceInit PROVE ServiceInv
    OBVIOUS
  <2>1. OutboxInv
    BY OutboxInvInit DEF ServiceInit
  <2>2. DOMAIN outbox = {}
    BY DEF ServiceInit, OutboxInit
  <2>3. IsFiniteSet(DOMAIN outbox)
    BY <2>2, FS_EmptySet
  <2>4. BatchIsSound /\ DeadIsHead
    BY <2>2 DEF ServiceInit, BatchIsSound, DeadIsHead
  <2>5. overtaken \in [Call -> [Call -> Nat]] /\ OvertakenOnlyBy
    BY DEF ServiceInit, OvertakenOnlyBy
  <2> QED
    BY <2>1, <2>3, <2>4, <2>5 DEF ServiceInv
<1>2. ServiceInv /\ [ServiceNext]_svars => ServiceInv'
  <2> SUFFICES ASSUME ServiceInv, [ServiceNext]_svars PROVE ServiceInv'
    OBVIOUS
  <2>1. OutboxInv /\ BatchIsSound /\ DeadIsHead /\ IsFiniteSet(DOMAIN outbox)
    BY DEF ServiceInv
  <2>2. [OutboxNext]_obvars
    BY <2>1, ServiceStep
  <2>3. OutboxInv'
    BY <2>1, <2>2, OutboxInvStep
  <2>4. IsFiniteSet(DOMAIN outbox)'
    BY <2>1, <2>2, RowsStayFinite
  <2>5. DeadIsHead'
    BY <2>1, DeadStep
  <2>6. OrderKept'
    BY OrderStep
  <2> QED
    BY <2>3, <2>4, <2>5, <2>6 DEF ServiceInv, OrderKept
<1> QED
  BY <1>1, <1>2, PTL DEF ServiceSpec

\* While a call waits with a due head, fetch_due and mark_in_flight serve every
\* other call at most once, for any number of calls and any batch limit.
THEOREM ScheduleIsFair == ServiceSpec => []OvertakenOnce
<1>1. ServiceInv => OvertakenOnce
  BY DEF ServiceInv, OvertakenOnlyBy, OvertakenOnce
<1> QED
  BY <1>1, ServiceInvariant, PTL

\* A row of a call dies only as the head of its call, by its TTL or by a fatal
\* report: nothing that waits behind another row is killed.
THEOREM OnlyHeadsDie == ServiceSpec => []DeadIsHead
<1>1. ServiceInv => DeadIsHead
  BY DEF ServiceInv
<1> QED
  BY <1>1, ServiceInvariant, PTL

\* The worker's batches do to the database only what the outbox alone may do.
THEOREM ServiceImplementsOutbox == ServiceSpec => OutboxSpec
<1>1. ServiceInit => OutboxInit
  BY DEF ServiceInit
<1>2. ServiceInv /\ [ServiceNext]_svars => [OutboxNext]_obvars
  BY ServiceStep DEF ServiceInv
<1> QED
  BY <1>1, <1>2, ServiceInvariant, PTL DEF ServiceSpec, OutboxSpec

\* So the limits on rows, bytes, cursors and fences hold under the schedule too.
THEOREM ServiceStaysWithinLimits == ServiceSpec => []WithinCapacity
BY ServiceImplementsOutbox, LimitsHold, PTL
=============================================================================
