------------------------- MODULE AssetStorageProofs -------------------------
(***************************************************************************)
(* No clean-up of AssetStorage deletes the object of a live Asset, for any *)
(* uploads, outputs, jobs and any number of overlapping clean-up passes:   *)
(* whoever deletes has checked something that stays true from then on.     *)
(* And no step that adds bytes leaves the organization over its limit:     *)
(* whatever commits without asking was held for before.                    *)
(* Last, the counters are the sums of what is held, so none goes below     *)
(* zero.                                                                   *)
(***************************************************************************)
EXTENDS AssetStorage, Sums

ObjShape ==
  /\ intent \in [Uploads -> IntentRow]
  /\ registering \subseteq Uploads
  /\ sweep \in [Sweeps -> SweepState]
  /\ job \in [Jobs -> {"planned", "running", "ended"}]
  /\ object \subseteq Items
  /\ writer \in [Outputs -> {"idle", "began", "written", "refused"}]
  /\ orphans \subseteq Outputs
  /\ asset \in [Items -> AssetRow]
  /\ purger \in [Items -> {"idle", "deleted"}]

\* What is deleted can no longer be committed: an upload that is being cleaned up
\* has expired, and an output found without an Asset belongs to a job that ended.
Deletable ==
  /\ \A s \in Sweeps : sweep[s].at # "idle" =>
       sweep[s].upload \in Uploads /\ intent[sweep[s].upload].status = "expired"
  /\ \A o \in orphans : job[JobOf[o]] = "ended" /\ asset[o].state = "none"
  /\ \A o \in Outputs : writer[o] # "idle" => asset[o].state = "none"
  /\ \A i \in Items :
       asset[i].purge # "no" \/ purger[i] = "deleted" => asset[i].state # "none"

\* What can still be committed has its object.
Committable ==
  /\ \A u \in Uploads : asset[u].state # "none" => intent[u].status = "registered"
  /\ \A u \in registering :
       /\ intent[u].status # "none"
       /\ intent[u].status = "pending" => u \in object
  /\ \A o \in Outputs :
       writer[o] = "written" /\ job[JobOf[o]] # "ended" => o \in object

ObjInv == ObjShape /\ Deletable /\ Committable /\ CommittedHasObject

\* Updates of one field of a row keep its type.
LEMMA RowTypes ==
  /\ \A row \in IntentRow :
       /\ \A s \in {"pending", "registered"} : [row EXCEPT !.status = s] \in IntentRow
       /\ \A b \in BOOLEAN : [row EXCEPT !.due = b] \in IntentRow
       /\ [row EXCEPT !.status = "canceled", !.deleted = TRUE] \in IntentRow
       /\ [row EXCEPT !.status = "expired", !.due = FALSE] \in IntentRow
       /\ [row EXCEPT !.deleted = TRUE, !.due = FALSE] \in IntentRow
  /\ \A row \in AssetRow :
       /\ \A s \in {"processing", "failed"} : [row EXCEPT !.state = s] \in AssetRow
       /\ \A s \in {"requested", "purged"} : [row EXCEPT !.purge = s] \in AssetRow
BY DEF IntentRow, AssetRow

\* A claim leaves the other passes where they are.
LEMMA OlderPass ==
  ASSUME NEW p \in SweepState
  PROVE  /\ [p EXCEPT !.newest = FALSE] \in SweepState
         /\ [p EXCEPT !.newest = FALSE].upload = p.upload
         /\ [p EXCEPT !.newest = FALSE].at = p.at
BY DEF SweepState

\* Ingestion records the size of the object.
LEMMA ReadyType ==
  ASSUME NEW row \in AssetRow, NEW i \in Items, row.state # "none"
  PROVE  /\ Ready(row, i) \in AssetRow
         /\ Ready(row, i).state # "none" /\ Ready(row, i).purge = row.purge
BY StorageAssumption DEF Ready, AssetRow

\* An intent and the clean-up passes move together: a status is never taken back,
\* and a pass turns only to an upload that has expired.
LEMMA IntentMoves ==
  ASSUME ObjInv, NEW u \in Uploads, NEW row \in IntentRow,
         intent' = [intent EXCEPT ![u] = row],
         UNCHANGED <<asset, purger, object, registering, writer, job, orphans>>,
         \/ row.status = intent[u].status
         \/ intent[u].status = "none" /\ row.status = "pending"
         \/ intent[u].status = "pending" /\ row.status \in {"canceled", "expired"},
         sweep' \in [Sweeps -> SweepState],
         \A s \in Sweeps : sweep'[s].at # "idle" =>
           \/ sweep[s].at # "idle" /\ sweep'[s].upload = sweep[s].upload
           \/ sweep'[s].upload = u /\ row.status = "expired"
  PROVE  ObjInv'
<1>1. \A v \in Uploads : intent'[v] = IF v = u THEN row ELSE intent[v]
  BY DEF ObjInv, ObjShape
<1>2. ObjShape'
  BY DEF ObjInv, ObjShape
<1>3. Deletable'
  BY <1>1 DEF ObjInv, ObjShape, Deletable
<1>4. \A v \in Uploads : asset[v].state # "none" => intent'[v].status = "registered"
  BY <1>1 DEF ObjInv, Committable
<1>5. \A v \in registering :
       /\ intent'[v].status # "none"
       /\ intent'[v].status = "pending" => v \in object
  BY <1>1 DEF ObjInv, ObjShape, Committable
<1>6. Committable'
  BY <1>4, <1>5 DEF ObjInv, Committable
<1>7. CommittedHasObject'
  BY DEF ObjInv, CommittedHasObject, Live
<1>8. QED BY <1>2, <1>3, <1>6, <1>7 DEF ObjInv

\* An Asset that exists moves on: it neither goes away nor loses its purge.
LEMMA AssetMoves ==
  ASSUME ObjInv, NEW i \in Items, NEW row \in AssetRow,
         asset[i].state # "none", row.state # "none",
         row.purge = "no" => asset[i].purge = "no",
         asset' = [asset EXCEPT ![i] = row],
         \A k \in Items : purger'[k] = "deleted" => purger[k] = "deleted" \/ k = i,
         purger' \in [Items -> {"idle", "deleted"}],
         UNCHANGED <<intent, registering, sweep, object, writer, job, orphans>>
  PROVE  ObjInv'
<1>1. \A k \in Items : asset'[k] = IF k = i THEN row ELSE asset[k]
  BY DEF ObjInv, ObjShape
<1>2. ObjShape'
  BY DEF ObjInv, ObjShape
<1>3. Deletable'
  BY <1>1 DEF ObjInv, ObjShape, Deletable, Items
<1>4. Committable'
  BY <1>1 DEF ObjInv, Committable, Items
<1>5. CommittedHasObject'
  BY <1>1 DEF ObjInv, CommittedHasObject, Live
<1>6. QED BY <1>2, <1>3, <1>4, <1>5 DEF ObjInv

\* Steps that only count bytes, and passes that end.
LEMMA Untouched ==
  ASSUME ObjInv,
         UNCHANGED <<intent, registering, sweep, object, writer, job, orphans, asset, purger>>
  PROVE  ObjInv'
BY DEF ObjInv, ObjShape, Deletable, Committable, CommittedHasObject, Live

LEMMA PassEnds ==
  ASSUME ObjInv, NEW s \in Sweeps, sweep' = [sweep EXCEPT ![s] = Idle]
  PROVE  /\ sweep' \in [Sweeps -> SweepState]
         /\ \A t \in Sweeps : sweep'[t].at # "idle" =>
              sweep[t].at # "idle" /\ sweep'[t].upload = sweep[t].upload
<1>1. Idle \in SweepState /\ Idle.at = "idle"
  BY DEF Idle, SweepState
<1>2. QED BY <1>1 DEF ObjInv, ObjShape

\* The grant, the client and the registration.
LEMMA UploadStep ==
  ASSUME ObjInv, NEW u \in Uploads, UploadNext(u)
  PROVE  ObjInv'
<1> USE DEF ObjInv, ObjShape, Deletable, Committable, CommittedHasObject, Live, Items,
            uploadVars, jobVars, assetVars
<1>1. CASE ReserveUpload(u)
  <2> DEFINE row == [intent[u] EXCEPT !.status = "pending"]
  <2>1. row \in IntentRow /\ row.status = "pending"
    <3>1. intent[u] \in IntentRow
      BY DEF ObjInv, ObjShape
    <3>2. row.status = "pending"
      BY <3>1 DEF IntentRow
    <3>3. QED BY <3>1, <3>2, RowTypes
  <2>2. /\ intent' = [intent EXCEPT ![u] = row]
        /\ UNCHANGED <<asset, purger, object, registering, writer, job, orphans, sweep>>
    BY <1>1 DEF ReserveUpload
  <2>3. QED
    BY <1>1, <2>1, <2>2, IntentMoves DEF ReserveUpload, ObjInv, ObjShape, Unfinished
<1>2. CASE SignUrl(u)
  BY <1>2 DEF SignUrl
<1>3. CASE CancelUnexposed(u)
  <2> DEFINE row == [intent[u] EXCEPT !.status = "canceled", !.deleted = TRUE]
  <2>1. row \in IntentRow /\ row.status = "canceled"
    <3>1. intent[u] \in IntentRow
      BY DEF ObjInv, ObjShape
    <3>2. row.status = "canceled"
      BY <3>1 DEF IntentRow
    <3>3. QED BY <3>1, <3>2, RowTypes
  <2>2. CASE intent[u].status = "pending" /\ intent' = [intent EXCEPT ![u] = row]
    <3>1. UNCHANGED <<asset, purger, object, registering, writer, job, orphans, sweep>>
      BY <1>3 DEF CancelUnexposed
    <3>2. QED BY <2>1, <2>2, <3>1, IntentMoves DEF ObjInv, ObjShape
  <2>3. CASE UNCHANGED intent
    <3>1. UNCHANGED <<intent, registering, sweep, object, writer, job, orphans, asset, purger>>
      BY <1>3, <2>3 DEF CancelUnexposed
    <3>2. QED BY <3>1, Untouched
  <2>4. QED BY <1>3, <2>2, <2>3 DEF CancelUnexposed
<1>4. CASE StartPut(u)
  BY <1>4 DEF StartPut
<1>5. CASE FinishPut(u)
  BY <1>5 DEF FinishPut
<1>6. CASE AbandonPut(u)
  BY <1>6 DEF AbandonPut
<1>7. CASE VerifyUpload(u)
  BY <1>7 DEF VerifyUpload, Registrable
<1>8. CASE RegisterUpload(u)
  <2> DEFINE row == [intent[u] EXCEPT !.status = "registered"]
             new == [asset[u] EXCEPT !.state = "processing"]
  <2>0. u \in Items /\ intent[u] \in IntentRow /\ asset[u] \in AssetRow
    BY DEF ObjInv, ObjShape, Items
  <2>1. CASE /\ Registrable(u)
             /\ asset' = [asset EXCEPT ![u] = new]
             /\ intent' = [intent EXCEPT ![u] = row]
    <3>1. row \in IntentRow /\ new \in AssetRow
      BY <2>0, RowTypes
    <3>2. row.status = "registered" /\ new.purge = asset[u].purge
      BY <2>0 DEF IntentRow, AssetRow
    <3>3. /\ \A v \in Uploads : intent'[v] = IF v = u THEN row ELSE intent[v]
          /\ \A k \in Items : asset'[k] = IF k = u THEN new ELSE asset[k]
      BY <2>0, <2>1 DEF ObjInv, ObjShape
    <3>4. u \in object /\ intent[u].status = "pending"
      BY <1>8, <2>1 DEF RegisterUpload, Registrable, ObjInv, Committable
    <3>5. /\ UNCHANGED <<sweep, purger, object, writer, job, orphans>>
          /\ registering' = registering \ {u}
      BY <1>8 DEF RegisterUpload
    <3>6. \A o \in Outputs : o # u /\ o \in Items
      BY StorageAssumption DEF Items
    <3>7. ObjShape'
      BY <2>0, <2>1, <3>1, <3>5 DEF ObjInv, ObjShape
    <3>8. Deletable'
      <4>1. \A o \in Outputs : asset'[o] = asset[o]
        BY <3>3, <3>6
      <4>2. \A k \in Items : 
            asset'[k].purge # "no" \/ purger[k] = "deleted" => asset'[k].state # "none"
        BY <2>0, <3>2, <3>3 DEF ObjInv, Deletable, AssetRow
      <4>3. \A s \in Sweeps : sweep[s].at # "idle" =>
              sweep[s].upload \in Uploads /\ intent'[sweep[s].upload].status = "expired"
        BY <3>3, <3>4 DEF ObjInv, Deletable
      <4>4. QED BY <3>5, <4>1, <4>2, <4>3 DEF ObjInv, ObjShape, Deletable
    <3>9. Committable'
      <4>1. \A v \in Uploads : asset'[v].state # "none" => intent'[v].status = "registered"
        BY <3>2, <3>3 DEF ObjInv, Committable, Items
      <4>2. QED BY <3>3, <3>5, <4>1 DEF ObjInv, ObjShape, Committable
    <3>10. CommittedHasObject'
      BY <3>3, <3>4, <3>5 DEF ObjInv, CommittedHasObject, Live
    <3>11. QED BY <3>7, <3>8, <3>9, <3>10 DEF ObjInv
  <2>2. CASE UNCHANGED <<asset, intent>>
    <3>1. /\ UNCHANGED <<asset, purger, intent, sweep, object, writer, job, orphans>>
          /\ registering' = registering \ {u}
      BY <1>8, <2>2 DEF RegisterUpload
    <3>2. QED BY <3>1
                DEF ObjInv, ObjShape, Deletable, Committable, CommittedHasObject, Live
  <2>3. QED BY <1>8, <2>1, <2>2 DEF RegisterUpload
<1>9. CASE LoseRegistration(u)
  BY <1>9 DEF LoseRegistration
<1>10. CASE Lapse(u)
  <2> DEFINE row == [intent[u] EXCEPT !.due = TRUE]
  <2>1. row \in IntentRow /\ row.status = intent[u].status
    <3>1. intent[u] \in IntentRow
      BY DEF ObjInv, ObjShape
    <3>2. row.status = intent[u].status
      BY <3>1 DEF IntentRow
    <3>3. QED BY <3>1, <3>2, RowTypes
  <2>2. /\ intent' = [intent EXCEPT ![u] = row]
        /\ UNCHANGED <<asset, purger, object, registering, writer, job, orphans, sweep>>
    BY <1>10 DEF Lapse
  <2>3. QED
    BY <1>10, <2>1, <2>2, IntentMoves DEF Lapse, ObjInv, ObjShape, Unfinished
<1>11. CASE IngestUpload(u)
  <2>0. u \in Items
    BY DEF Items
  <2>1. CASE UNCHANGED asset
    <3>1. UNCHANGED <<intent, registering, sweep, object, writer, job, orphans, asset, purger>>
      BY <1>11, <2>1 DEF IngestUpload
    <3>2. QED BY <3>1, Untouched
  <2>2. CASE Live(u) /\ asset' = [asset EXCEPT ![u] = Ready(asset[u], u)]
    <3>1. asset[u] \in AssetRow /\ asset[u].state # "none"
      BY <2>0, <2>2 DEF ObjInv, ObjShape, Live
    <3>2. UNCHANGED <<intent, registering, sweep, object, writer, job, orphans, purger>>
      BY <1>11 DEF IngestUpload
    <3>3. QED BY <2>0, <2>2, <3>1, <3>2, ReadyType, AssetMoves
           DEF ObjInv, ObjShape
  <2>3. QED BY <1>11, <2>1, <2>2 DEF IngestUpload
<1>12. QED BY <1>1, <1>2, <1>3, <1>4, <1>5, <1>6, <1>7, <1>8, <1>9, <1>10, <1>11 DEF UploadNext

\* The clean-up of expired uploads.
LEMMA SweepStep ==
  ASSUME ObjInv, NEW s \in Sweeps, SweepNext(s)
  PROVE  ObjInv'
<1> USE DEF ObjInv, ObjShape, Deletable, Committable, CommittedHasObject, Live, Items,
            uploadVars, jobVars, assetVars
<1>1. ASSUME NEW u \in Uploads, ClaimExpired(s, u) PROVE ObjInv'
  <2> DEFINE row == [intent[u] EXCEPT !.status = "expired", !.due = FALSE]
  <2>1. row \in IntentRow /\ row.status = "expired"
    <3>1. intent[u] \in IntentRow
      BY <1>1 DEF ObjInv, ObjShape
    <3>2. row.status = "expired"
      BY <3>1 DEF IntentRow
    <3>3. QED BY <3>1, <3>2, RowTypes
  <2>2. /\ intent' = [intent EXCEPT ![u] = row]
        /\ UNCHANGED <<asset, purger, object, registering, writer, job, orphans>>
    BY <1>1 DEF ClaimExpired
  <2>3. intent[u].status \in {"pending", "expired"}
    BY <1>1 DEF ClaimExpired, Unfinished
  <2>4. \A t \in Sweeps :
          /\ sweep'[t] \in SweepState
          /\ IF t = s THEN sweep'[t].upload = u
             ELSE sweep'[t].upload = sweep[t].upload /\ sweep'[t].at = sweep[t].at
    <3>1. \A t \in Sweeps : sweep[t] \in SweepState
      BY DEF ObjInv, ObjShape
    <3>2. [upload |-> u, newest |-> TRUE, at |-> "claimed"] \in SweepState
      BY <1>1 DEF SweepState
    <3>3. \A t \in Sweeps :
            /\ [sweep[t] EXCEPT !.newest = FALSE] \in SweepState
            /\ [sweep[t] EXCEPT !.newest = FALSE].upload = sweep[t].upload
            /\ [sweep[t] EXCEPT !.newest = FALSE].at = sweep[t].at
      BY <3>1, OlderPass
    <3>4. QED BY <1>1, <3>1, <3>2, <3>3 DEF ClaimExpired
  <2>5. sweep' \in [Sweeps -> SweepState]
    BY <1>1, <2>4 DEF ClaimExpired
  <2>6. QED BY <1>1, <2>1, <2>2, <2>3, <2>4, <2>5, IntentMoves
<1>2. CASE DeleteExpired(s)
  BY <1>2, StorageAssumption DEF DeleteExpired, SweepState
<1>3. CASE FailDeletion(s)
  BY <1>3 DEF FailDeletion, SweepState
<1>4. CASE MarkDeleted(s)
  <2> DEFINE u == sweep[s].upload
             row == [intent[u] EXCEPT !.deleted = TRUE, !.due = FALSE]
  <2>0. u \in Uploads /\ sweep[s].at # "idle"
    BY <1>4 DEF MarkDeleted, ObjInv, Deletable
  <2>1. row \in IntentRow /\ row.status = intent[u].status
    <3>1. intent[u] \in IntentRow
      BY <2>0 DEF ObjInv, ObjShape
    <3>2. row.status = intent[u].status
      BY <3>1 DEF IntentRow
    <3>3. QED BY <3>1, <3>2, RowTypes
  <2>2. /\ sweep' = [sweep EXCEPT ![s] = Idle]
        /\ UNCHANGED <<asset, purger, object, registering, writer, job, orphans>>
        /\ intent' = [intent EXCEPT ![u] = row] \/ UNCHANGED intent
    BY <1>4 DEF MarkDeleted
  <2>3. /\ sweep' \in [Sweeps -> SweepState]
        /\ \A t \in Sweeps : sweep'[t].at # "idle" =>
             sweep[t].at # "idle" /\ sweep'[t].upload = sweep[t].upload
    BY <2>2, PassEnds
  <2>4. CASE intent' = [intent EXCEPT ![u] = row]
    BY <2>0, <2>1, <2>2, <2>3, <2>4, IntentMoves
  <2>5. CASE UNCHANGED intent
    BY <2>2, <2>3, <2>5
       DEF ObjInv, ObjShape, Deletable, Committable, CommittedHasObject, Live
  <2>6. QED BY <2>2, <2>4, <2>5
<1>5. CASE DeferCleanup(s)
  <2> DEFINE u == sweep[s].upload
             row == [intent[u] EXCEPT !.due = FALSE]
  <2>0. u \in Uploads /\ sweep[s].at # "idle"
    BY <1>5 DEF DeferCleanup, ObjInv, Deletable
  <2>1. row \in IntentRow /\ row.status = intent[u].status
    <3>1. intent[u] \in IntentRow
      BY <2>0 DEF ObjInv, ObjShape
    <3>2. row.status = intent[u].status
      BY <3>1 DEF IntentRow
    <3>3. QED BY <3>1, <3>2, RowTypes
  <2>2. /\ sweep' = [sweep EXCEPT ![s] = Idle]
        /\ UNCHANGED <<asset, purger, object, registering, writer, job, orphans>>
        /\ intent' = [intent EXCEPT ![u] = row] \/ UNCHANGED intent
    BY <1>5 DEF DeferCleanup
  <2>3. /\ sweep' \in [Sweeps -> SweepState]
        /\ \A t \in Sweeps : sweep'[t].at # "idle" =>
             sweep[t].at # "idle" /\ sweep'[t].upload = sweep[t].upload
    BY <2>2, PassEnds
  <2>4. CASE intent' = [intent EXCEPT ![u] = row]
    BY <2>0, <2>1, <2>2, <2>3, <2>4, IntentMoves
  <2>5. CASE UNCHANGED intent
    BY <2>2, <2>3, <2>5
       DEF ObjInv, ObjShape, Deletable, Committable, CommittedHasObject, Live
  <2>6. QED BY <2>2, <2>4, <2>5
<1>6. CASE StopSweep(s)
  BY <1>6 DEF StopSweep, Idle, SweepState
<1>7. QED BY <1>1, <1>2, <1>3, <1>4, <1>5, <1>6 DEF SweepNext, SweepRuns

\* The finalizer and the clean-up of closed jobs.
LEMMA OutputStep ==
  ASSUME ObjInv, NEW o \in Outputs, OutputNext(o)
  PROVE  ObjInv'
<1> USE DEF ObjInv, ObjShape, Deletable, Committable, CommittedHasObject, Live, Items,
            uploadVars, jobVars, assetVars
<1>1. CASE BeginOutput(o)
  BY <1>1 DEF BeginOutput
<1>2. CASE PutOutput(o)
  BY <1>2 DEF PutOutput
<1>3. CASE CommitAsset(o)
  BY <1>3, StorageAssumption DEF CommitAsset, AssetRow
<1>4. CASE RefuseAsset(o)
  BY <1>4 DEF RefuseAsset
<1>5. CASE DeleteUncommitted(o)
  BY <1>5, StorageAssumption DEF DeleteUncommitted
<1>6. CASE StopWriter(o)
  BY <1>6 DEF StopWriter
<1>7. CASE FindOrphan(o)
  BY <1>7 DEF FindOrphan, Orphaned
<1>8. CASE DeleteOrphan(o)
  BY <1>8, StorageAssumption DEF DeleteOrphan
<1>9. CASE IngestOutput(o)
  <2>0. o \in Items
    BY DEF Items
  <2>1. CASE UNCHANGED asset
    <3>1. UNCHANGED <<intent, registering, sweep, object, writer, job, orphans, asset, purger>>
      BY <1>9, <2>1 DEF IngestOutput
    <3>2. QED BY <3>1, Untouched
  <2>2. CASE Live(o) /\ asset' = [asset EXCEPT ![o] = Ready(asset[o], o)]
    <3>1. asset[o] \in AssetRow /\ asset[o].state # "none"
      BY <2>0, <2>2 DEF ObjInv, ObjShape, Live
    <3>2. UNCHANGED <<intent, registering, sweep, object, writer, job, orphans, purger>>
      BY <1>9 DEF IngestOutput
    <3>3. QED BY <2>0, <2>2, <3>1, <3>2, ReadyType, AssetMoves
           DEF ObjInv, ObjShape
  <2>3. QED BY <1>9, <2>1, <2>2 DEF IngestOutput
<1>10. QED BY <1>1, <1>2, <1>3, <1>4, <1>5, <1>6, <1>7, <1>8, <1>9 DEF OutputNext

\* Ingestion and purge.
LEMMA AssetStep ==
  ASSUME ObjInv, NEW i \in Items, AssetNext(i)
  PROVE  ObjInv'
<1> USE DEF ObjInv, ObjShape, Deletable, Committable, CommittedHasObject, Live, Items,
            uploadVars, jobVars, assetVars
<1>1. CASE ReadAsset(i)
  BY <1>1 DEF ReadAsset
<1>2. CASE FailIngest(i)
  <2> DEFINE row == [asset[i] EXCEPT !.state = "failed"]
  <2>1. CASE UNCHANGED asset
    <3>1. UNCHANGED <<intent, registering, sweep, object, writer, job, orphans, asset, purger>>
      BY <1>2, <2>1 DEF FailIngest
    <3>2. QED BY <3>1, Untouched
  <2>2. CASE Live(i) /\ asset' = [asset EXCEPT ![i] = row]
    <3>1. asset[i] \in AssetRow /\ asset[i].state # "none"
      BY <2>2 DEF ObjInv, ObjShape, Live
    <3>2. row \in AssetRow /\ row.state = "failed" /\ row.purge = asset[i].purge
      BY <3>1 DEF AssetRow
    <3>3. UNCHANGED <<intent, registering, sweep, object, writer, job, orphans, purger>>
      BY <1>2 DEF FailIngest
    <3>4. QED BY <2>2, <3>1, <3>2, <3>3, AssetMoves DEF ObjInv, ObjShape
  <2>3. QED BY <1>2, <2>1, <2>2 DEF FailIngest
<1>3. CASE StopIngest(i)
  BY <1>3 DEF StopIngest
<1>4. CASE RequestPurge(i)
  BY <1>4 DEF RequestPurge, AssetRow
<1>5. CASE DeleteAsset(i)
  BY <1>5 DEF DeleteAsset
<1>6. CASE ReleasePurged(i)
  <2> DEFINE row == [asset[i] EXCEPT !.purge = "purged"]
  <2>0. asset[i] \in AssetRow /\ asset[i].state # "none"
    BY <1>6 DEF ReleasePurged, ObjInv, ObjShape, Deletable
  <2>1. row \in AssetRow /\ row.purge = "purged" /\ row.state # "none"
    BY <2>0 DEF AssetRow
  <2>2. /\ asset' = [asset EXCEPT ![i] = row]
        /\ purger' = [purger EXCEPT ![i] = "idle"]
        /\ UNCHANGED <<intent, registering, sweep, object, writer, job, orphans>>
    BY <1>6 DEF ReleasePurged
  <2>3. /\ purger' \in [Items -> {"idle", "deleted"}]
        /\ \A k \in Items : purger'[k] = "deleted" => purger[k] = "deleted"
    BY <2>2 DEF ObjInv, ObjShape
  <2>4. QED BY <2>0, <2>1, <2>2, <2>3, AssetMoves
<1>7. CASE StopPurge(i)
  BY <1>7 DEF StopPurge
<1>8. QED BY <1>1, <1>2, <1>3, <1>4, <1>5, <1>6, <1>7 DEF AssetNext

\* The run, its jobs and the plan.
LEMMA RunStep ==
  ASSUME ObjInv, (\E j \in Jobs : EndJob(j) \/ ReleaseHold(j)) \/ ReserveRun \/ ChangePlan
  PROVE  ObjInv'
<1> USE DEF ObjInv, ObjShape, Deletable, Committable, CommittedHasObject, Live, Items,
            uploadVars, jobVars, assetVars
<1>1. ASSUME NEW j \in Jobs, EndJob(j) PROVE ObjInv'
  BY <1>1 DEF EndJob
<1>2. ASSUME NEW j \in Jobs, ReleaseHold(j) PROVE ObjInv'
  BY <1>2 DEF ReleaseHold
<1>3. CASE ReserveRun
  BY <1>3, StorageAssumption DEF ReserveRun
<1>4. CASE ChangePlan
  BY <1>4 DEF ChangePlan
<1>5. QED BY <1>1, <1>2, <1>3, <1>4

LEMMA InitObjects == Init => ObjInv
BY StorageAssumption DEF Init, Idle, NoSize, Items, ObjInv, ObjShape, Deletable,
   Committable, CommittedHasObject, Live, IntentRow, SweepState, AssetRow

LEMMA NextObjects == ObjInv /\ [Next]_vars => ObjInv'
<1>1. ASSUME ObjInv, Next PROVE ObjInv'
  BY <1>1, UploadStep, SweepStep, OutputStep, AssetStep, RunStep DEF Next
<1>2. ASSUME ObjInv, UNCHANGED vars PROVE ObjInv'
  BY <1>2, Untouched DEF vars, uploadVars, jobVars, assetVars
<1>3. QED BY <1>1, <1>2

\* A live Asset has its object, whatever is cleaned up around it.
THEOREM ObjectsKept == Spec => []CommittedHasObject
<1>1. ObjInv => CommittedHasObject
  BY DEF ObjInv
<1>2. QED BY <1>1, InitObjects, NextObjects, PTL DEF Spec

-----------------------------------------------------------------------------
(* The limit of the plan.                                                  *)

\* The counters are numbers; that they never go below zero is a matter of their
\* sums (TypeCorrect).
Counted ==
  /\ limit \in Int /\ usage \in [used : Int, reserved : Int] /\ held \in [Jobs -> Int]

\* What a run reserves is the sum of the holds of its jobs.
LEMMA RunTotalType == RunTotal \in Nat
BY SumNat, StorageAssumption DEF RunTotal

\* The share of an output is a number as long as its own row is not committed.
LEMMA ShareType ==
  ASSUME Counted, NEW o \in Outputs, asset[o].size = NoSize
  PROVE  Share(o) \in Int
<1>1. JobOf[o] \in Jobs
  BY StorageAssumption
<1> DEFINE open == Planned(JobOf[o]) \ Committed(JobOf[o])
<1>2. o \in open
  BY DEF Planned, Committed
<1>3. IsFiniteSet(open)
  BY StorageAssumption, FS_Subset DEF Planned
<1>4. Cardinality(open) \in Nat \ {0}
  BY <1>2, <1>3, FS_CardinalityType, FS_EmptySet
<1>5. held[JobOf[o]] \in Int
  BY <1>1 DEF Counted
<1> HIDE DEF open
<1>6. held[JobOf[o]] \div Cardinality(open) \in Int
  BY <1>4, <1>5
<1>7. QED BY <1>6 DEF Share, open

\* What a step does to the counters.
Within == Counted' /\ (Total' > Total => Total' <= limit')

LEMMA Uncounted ==
  ASSUME Counted, UNCHANGED <<limit, usage, held>>
  PROVE  Within
BY DEF Counted, Within, Total

LEMMA UploadCount ==
  ASSUME ObjInv, Counted, NEW u \in Uploads, UploadNext(u)
  PROVE  Within
<1>1. Size[u] \in Nat \ {0} /\ u \in Items
  BY StorageAssumption DEF Items
<1>2. CASE ReserveUpload(u)
  BY <1>1, <1>2 DEF ReserveUpload, Counted, Within, Total, jobVars
<1>3. CASE CancelUnexposed(u)
  BY <1>1, <1>3 DEF CancelUnexposed, Counted, Within, Total, jobVars
<1>4. CASE RegisterUpload(u)
  BY <1>1, <1>4 DEF RegisterUpload, Counted, Within, Total, jobVars
<1>5. CASE \/ SignUrl(u) \/ StartPut(u) \/ FinishPut(u) \/ AbandonPut(u)
           \/ VerifyUpload(u) \/ LoseRegistration(u) \/ Lapse(u) \/ IngestUpload(u)
  BY <1>5, Uncounted DEF SignUrl, StartPut, FinishPut, AbandonPut, VerifyUpload,
     LoseRegistration, Lapse, IngestUpload, jobVars
<1>6. QED BY <1>2, <1>3, <1>4, <1>5 DEF UploadNext

LEMMA SweepCount ==
  ASSUME ObjInv, Counted, NEW s \in Sweeps, SweepNext(s)
  PROVE  Within
<1>1. CASE MarkDeleted(s)
  <2> DEFINE u == sweep[s].upload
  <2>1. Size[u] \in Nat \ {0}
    BY <1>1, StorageAssumption DEF MarkDeleted, ObjInv, Deletable, Items
  <2>2. QED BY <1>1, <2>1 DEF MarkDeleted, Counted, Within, Total, jobVars
<1>2. CASE \/ \E u \in Uploads : ClaimExpired(s, u)
           \/ DeleteExpired(s) \/ FailDeletion(s) \/ DeferCleanup(s) \/ StopSweep(s)
  BY <1>2, Uncounted
     DEF ClaimExpired, DeleteExpired, FailDeletion, DeferCleanup, StopSweep, jobVars
<1>3. QED BY <1>1, <1>2 DEF SweepNext, SweepRuns

LEMMA OutputCount ==
  ASSUME ObjInv, Counted, NEW o \in Outputs, OutputNext(o)
  PROVE  Within
<1>1. CASE IngestOutput(o)
  <2>1. CASE UNCHANGED <<usage, held>>
    BY <1>1, <2>1, Uncounted DEF IngestOutput
  <2>2. CASE /\ asset[o].size = NoSize /\ Fits(o)
             /\ usage' = [used |-> usage.used + Size[o], reserved |-> usage.reserved - Share(o)]
             /\ held' = [held EXCEPT ![JobOf[o]] = @ - Share(o)]
    <3>1. Share(o) \in Int /\ Size[o] \in Nat /\ JobOf[o] \in Jobs
      BY <2>2, ShareType, StorageAssumption DEF Items
    <3>2. limit' = limit
      BY <1>1 DEF IngestOutput
    <3>3. Counted'
      BY <2>2, <3>1, <3>2 DEF Counted
    <3>4. Total' = Total + (Size[o] - Share(o))
      BY <2>2, <3>1 DEF Counted, Total
    <3>5. Total \in Int /\ limit \in Int
      BY DEF Counted, Total
    <3>6. Size[o] <= Share(o) \/ Total + (Size[o] - Share(o)) <= limit
      BY <2>2 DEF Fits
    <3>7. QED BY <3>1, <3>2, <3>3, <3>4, <3>5, <3>6 DEF Within
  <2>3. QED BY <1>1, <2>1, <2>2 DEF IngestOutput
<1>2. CASE \/ BeginOutput(o) \/ PutOutput(o) \/ CommitAsset(o) \/ RefuseAsset(o)
           \/ DeleteUncommitted(o) \/ StopWriter(o) \/ FindOrphan(o) \/ DeleteOrphan(o)
  BY <1>2, Uncounted DEF BeginOutput, PutOutput, CommitAsset, RefuseAsset,
     DeleteUncommitted, StopWriter, FindOrphan, DeleteOrphan
<1>3. QED BY <1>1, <1>2 DEF OutputNext

LEMMA AssetCount ==
  ASSUME ObjInv, Counted, NEW i \in Items, AssetNext(i)
  PROVE  Within
<1>1. CASE ReleasePurged(i)
  <2>1. asset[i].size \in Nat
    BY DEF ObjInv, ObjShape, AssetRow
  <2>2. QED BY <1>1, <2>1 DEF ReleasePurged, Counted, Within, Total, jobVars
<1>2. CASE \/ ReadAsset(i) \/ FailIngest(i) \/ StopIngest(i)
           \/ RequestPurge(i) \/ DeleteAsset(i) \/ StopPurge(i)
  BY <1>2, Uncounted
     DEF ReadAsset, FailIngest, StopIngest, RequestPurge, DeleteAsset, StopPurge, jobVars
<1>3. QED BY <1>1, <1>2 DEF AssetNext

LEMMA RunCount ==
  ASSUME Counted, (\E j \in Jobs : EndJob(j) \/ ReleaseHold(j)) \/ ReserveRun \/ ChangePlan
  PROVE  Within
<1>1. ASSUME NEW j \in Jobs, EndJob(j) PROVE Within
  BY <1>1, Uncounted DEF EndJob
<1>2. ASSUME NEW j \in Jobs, ReleaseHold(j) PROVE Within
  <2>1. held[j] \in Int /\ held[j] > 0
    BY <1>2 DEF ReleaseHold, Counted
  <2>2. QED BY <1>2, <2>1 DEF ReleaseHold, Counted, Within, Total
<1>3. CASE ReserveRun
  BY <1>3, RunTotalType, StorageAssumption DEF ReserveRun, Counted, Within, Total
<1>4. CASE ChangePlan
  BY <1>4, StorageAssumption DEF ChangePlan, Counted, Within, Total, jobVars
<1>5. QED BY <1>1, <1>2, <1>3, <1>4

\* Whatever adds bytes leaves the organization within its limit, for any sizes, holds
\* and limits, also while outputs share a hold that is too small for them.
THEOREM LimitKept == Spec => QuotaKept
<1>1. Init => ObjInv /\ Counted
  <2>1. Init => Counted
    BY StorageAssumption DEF Init, Counted
  <2>2. QED BY <2>1, InitObjects
<1>2. ObjInv /\ Counted /\ [Next]_vars => Counted' /\ [Total' > Total => Total' <= limit']_vars
  <2>1. ASSUME ObjInv, Counted, Next PROVE Within
    BY <2>1, UploadCount, SweepCount, OutputCount, AssetCount, RunCount DEF Next
  <2>2. ASSUME ObjInv, Counted, UNCHANGED vars PROVE Within
    BY <2>2, Uncounted DEF vars, jobVars
  <2>3. QED BY <2>1, <2>2 DEF Within
<1>3. QED BY <1>1, <1>2, NextObjects, PTL DEF Spec, QuotaKept
-----------------------------------------------------------------------------
(* The sums behind the counters.                                           *)

\* What the sums rest on: a size is recorded once and is that of the object, a
\* purge task works on a row that is not marked yet, an intent that can still be
\* registered has its hold, and jobs hold nothing before their run is admitted.
Recorded ==
  /\ \A i \in Items : asset[i].size # NoSize =>
       asset[i].size = Size[i] /\ asset[i].state # "none"
  /\ \A i \in Items : purger[i] = "deleted" => asset[i].purge = "requested"
  /\ \A u \in Uploads : intent[u].status \in {"none", "pending"} => ~intent[u].deleted
  /\ held \in [Jobs -> Nat]
  /\ \A j \in Jobs : job[j] = "planned" => held[j] = 0

\* The bytes an item is charged with: those of a stranded upload never go.
Charged(i) ==
  CASE asset[i].size # NoSize -> IF asset[i].purge = "purged" THEN 0 ELSE asset[i].size
    [] i \in Uploads /\ asset[i].state # "none" /\ asset[i].size = NoSize -> Size[i]
    [] OTHER -> 0

\* The counters, with or without stranded uploads.
Balanced ==
  /\ usage.used = SumFunction([i \in Items |-> Charged(i)])
  /\ usage.reserved = SumFunction([u \in Uploads |-> HeldFor(u)]) + SumFunction(held)
  /\ runHold = SumFunction(held)

UsageInv == ObjInv /\ Counted /\ Recorded /\ Balanced

\* What a row charges.
ChargeOf(row, i) ==
  IF row.size # NoSize THEN IF row.purge = "purged" THEN 0 ELSE row.size
  ELSE IF i \in Uploads /\ row.state # "none" THEN Size[i] ELSE 0

LEMMA ChargeIs == \A i : Charged(i) = ChargeOf(asset[i], i)
BY DEF Charged, ChargeOf

\* Both are numbers.
LEMMA ChargeTypes ==
  ObjShape => /\ \A k \in Items : Charged(k) \in Nat
              /\ \A v \in Uploads : HeldFor(v) \in Nat
<1> SUFFICES ASSUME ObjShape
             PROVE  /\ \A k \in Items : Charged(k) \in Nat
                    /\ \A v \in Uploads : HeldFor(v) \in Nat
  OBVIOUS
<1>1. \A i \in Items : asset[i].size \in Nat /\ Size[i] \in Nat
  BY StorageAssumption DEF ObjShape, AssetRow
<1>2. \A u \in Uploads : Size[u] \in Nat
  BY <1>1 DEF Items
<1> QED BY <1>1, <1>2, ChargeIs DEF ChargeOf, HeldFor

Charges == SumFunctionOnSet([i \in Items |-> Charged(i)], Items)
IntentHolds == SumFunctionOnSet([u \in Uploads |-> HeldFor(u)], Uploads)
JobHolds == SumFunctionOnSet(held, Jobs)

LEMMA UsageIs ==
  ASSUME DOMAIN held = Jobs
  PROVE  Balanced <=> /\ usage.used = Charges
                         /\ usage.reserved = IntentHolds + JobHolds
                         /\ runHold = JobHolds
BY DEF Balanced, SumFunction, Charges, IntentHolds, JobHolds

LEMMA SumTypes ==
  ASSUME ObjShape, held \in [Jobs -> Nat]
  PROVE  Charges \in Nat /\ IntentHolds \in Nat /\ JobHolds \in Nat
<1>1. IsFiniteSet(Items) /\ IsFiniteSet(Uploads) /\ IsFiniteSet(Jobs)
  BY StorageAssumption, FS_Union DEF Items
<1> DEFINE c == [i \in Items |-> Charged(i)]
           h == [u \in Uploads |-> HeldFor(u)]
<1>2. \A i \in Items : c[i] \in Nat
  BY ChargeTypes
<1>3. \A u \in Uploads : h[u] \in Nat
  BY ChargeTypes
<1>4. \A j \in Jobs : held[j] \in Nat
  OBVIOUS
<1> HIDE DEF c, h
<1>5. SumFunctionOnSet(c, Items) \in Nat
  BY <1>1, <1>2, SumNat
<1>6. SumFunctionOnSet(h, Uploads) \in Nat
  BY <1>1, <1>3, SumNat
<1>7. SumFunctionOnSet(held, Jobs) \in Nat
  BY <1>1, <1>4, SumNat
<1> QED BY <1>5, <1>6, <1>7 DEF Charges, IntentHolds, JobHolds, c, h

\* The same after a step.
LEMMA ChargeTypesNext ==
  (ObjShape => /\ \A k \in Items : Charged(k) \in Nat
               /\ \A v \in Uploads : HeldFor(v) \in Nat)'
BY ChargeTypes, PTL

\* A step that changes the charge of one item changes the sum by the difference.
LEMMA ChargesMove ==
  ASSUME ObjShape, ObjShape', NEW i \in Items,
         \A k \in Items \ {i} : Charged(k)' = Charged(k)
  PROVE  Charges' = Charges - Charged(i) + Charged(i)'
<1>1. IsFiniteSet(Items)
  BY StorageAssumption, FS_Union DEF Items
<1> DEFINE c == [k \in Items |-> Charged(k)]
           d == [k \in Items |-> Charged(k)']
<1>2. \A k \in Items : c[k] = Charged(k) /\ d[k] = Charged(k)'
  OBVIOUS
<1>3. \A k \in Items : Charged(k) \in Nat /\ Charged(k)' \in Nat
  <2>1. \A k \in Items : Charged(k) \in Nat
    BY ChargeTypes
  <2>2. /\ \A k \in Items : Charged(k)' \in Nat
        /\ \A v \in Uploads : HeldFor(v)' \in Nat
    BY ChargeTypesNext
  <2> QED BY <2>1, <2>2
<1>4. Charges = SumFunctionOnSet(c, Items) /\ Charges' = SumFunctionOnSet(d, Items)
  BY DEF Charges
<1> HIDE DEF c, d
<1>5. Ints(c, Items) /\ Ints(d, Items) /\ \A k \in Items \ {i} : d[k] = c[k]
  BY <1>2, <1>3 DEF Ints
<1>6. SumFunctionOnSet(d, Items) = SumFunctionOnSet(c, Items) - c[i] + d[i]
  BY <1>1, <1>5, SumUpdate
<1> QED BY <1>2, <1>4, <1>6

LEMMA ChargesStay ==
  ASSUME \A k \in Items : Charged(k)' = Charged(k)
  PROVE  Charges' = Charges
<1> DEFINE c == [k \in Items |-> Charged(k)]
           d == [k \in Items |-> Charged(k)']
<1>1. c = d
  OBVIOUS
<1> QED BY <1>1 DEF Charges

LEMMA IntentHoldsMove ==
  ASSUME ObjShape, ObjShape', NEW u \in Uploads,
         \A v \in Uploads \ {u} : intent'[v] = intent[v]
  PROVE  IntentHolds' = IntentHolds - HeldFor(u) + HeldFor(u)'
<1>1. IsFiniteSet(Uploads)
  BY StorageAssumption
<1> DEFINE c == [k \in Uploads |-> HeldFor(k)]
           d == [k \in Uploads |-> HeldFor(k)']
<1>2. \A k \in Uploads : c[k] = HeldFor(k) /\ d[k] = HeldFor(k)'
  OBVIOUS
<1>3. \A k \in Uploads : HeldFor(k) \in Nat /\ HeldFor(k)' \in Nat
  <2>1. \A k \in Uploads : HeldFor(k) \in Nat
    BY ChargeTypes
  <2>2. /\ \A k \in Items : Charged(k)' \in Nat
        /\ \A v \in Uploads : HeldFor(v)' \in Nat
    BY ChargeTypesNext
  <2> QED BY <2>1, <2>2
<1>4. IntentHolds = SumFunctionOnSet(c, Uploads) /\ IntentHolds' = SumFunctionOnSet(d, Uploads)
  BY DEF IntentHolds
<1>5. \A v \in Uploads \ {u} : HeldFor(v)' = HeldFor(v)
  BY DEF HeldFor, Unfinished
<1> HIDE DEF c, d
<1>6. Ints(c, Uploads) /\ Ints(d, Uploads) /\ \A k \in Uploads \ {u} : d[k] = c[k]
  BY <1>2, <1>3, <1>5 DEF Ints
<1>7. SumFunctionOnSet(d, Uploads) = SumFunctionOnSet(c, Uploads) - c[u] + d[u]
  BY <1>1, <1>6, SumUpdate
<1> QED BY <1>2, <1>4, <1>7

LEMMA IntentHoldsStay ==
  ASSUME \A u \in Uploads : HeldFor(u)' = HeldFor(u)
  PROVE  IntentHolds' = IntentHolds
<1> DEFINE c == [k \in Uploads |-> HeldFor(k)]
           d == [k \in Uploads |-> HeldFor(k)']
<1>1. c = d
  OBVIOUS
<1> QED BY <1>1 DEF IntentHolds

Moved(f, g, S, j, n) ==
  /\ \A k \in S : f[k] \in Nat
  /\ g[j] = n /\ \A k \in S \ {j} : g[k] = f[k]

LEMMA EntryMoves ==
  ASSUME NEW S, IsFiniteSet(S), NEW f, NEW g, NEW j \in S, NEW n \in Nat, Moved(f, g, S, j, n)
  PROVE  SumFunctionOnSet(g, S) = SumFunctionOnSet(f, S) - f[j] + n
<1>1. Ints(f, S) /\ Ints(g, S)
  BY DEF Ints, Moved
<1>2. g[j] = n /\ \A k \in S \ {j} : g[k] = f[k]
  BY DEF Moved
<1>3. SumFunctionOnSet(g, S) = SumFunctionOnSet(f, S) - f[j] + g[j]
  BY <1>1, <1>2, SumUpdate
<1> QED BY <1>2, <1>3

LEMMA JobHoldsMove ==
  ASSUME NEW j \in Jobs, NEW n \in Nat, Moved(held, held', Jobs, j, n)
  PROVE  JobHolds' = JobHolds - held[j] + n
<1>1. IsFiniteSet(Jobs)
  BY StorageAssumption
<1>2. SumFunctionOnSet(held', Jobs) = SumFunctionOnSet(held, Jobs) - held[j] + n
  BY <1>1, EntryMoves
<1> QED BY <1>2 DEF JobHolds

\* The share of an output is part of the hold of its job.
LEMMA ShareWithin ==
  ASSUME held \in [Jobs -> Nat], NEW o \in Outputs, asset[o].size = NoSize
  PROVE  Share(o) \in Nat /\ held[JobOf[o]] - Share(o) \in Nat
<1>1. JobOf[o] \in Jobs
  BY StorageAssumption
<1> DEFINE open == Planned(JobOf[o]) \ Committed(JobOf[o])
           n == Cardinality(open)
           h == held[JobOf[o]]
<1>2. o \in open
  BY DEF Planned, Committed
<1>3. IsFiniteSet(open)
  BY StorageAssumption, FS_Subset DEF Planned
<1>4. n \in Nat \ {0}
  BY <1>2, <1>3, FS_CardinalityType, FS_EmptySet
<1>5. h \in Nat
  BY <1>1
<1>6. Share(o) = h \div n
  BY DEF Share
<1> HIDE DEF open, n, h
<1>7. h \div n \in Nat /\ h \div n <= h
  BY <1>4, <1>5
<1>8. Share(o) \in Nat /\ h - Share(o) \in Nat
  BY <1>5, <1>6, <1>7
<1> QED BY <1>8 DEF h

\* The facts the step lemmas start from.
LEMMA UsageFacts ==
  ASSUME UsageInv
  PROVE  /\ ObjShape /\ Recorded /\ held \in [Jobs -> Nat]
         /\ usage.used = Charges /\ usage.reserved = IntentHolds + JobHolds
         /\ runHold = JobHolds
         /\ Charges \in Nat /\ IntentHolds \in Nat /\ JobHolds \in Nat
         /\ \A i \in Items : Charged(i) \in Nat /\ Size[i] \in Nat \ {0}
         /\ \A u \in Uploads : HeldFor(u) \in Nat /\ Size[u] \in Nat \ {0} /\ u \in Items
<1>1. ObjShape /\ Recorded /\ held \in [Jobs -> Nat]
  BY DEF UsageInv, ObjInv, Recorded
<1>2. usage.used = Charges /\ usage.reserved = IntentHolds + JobHolds /\ runHold = JobHolds
  BY <1>1, UsageIs DEF UsageInv
<1>3. \A u \in Uploads : Size[u] \in Nat \ {0} /\ u \in Items
  BY StorageAssumption DEF Items
<1> QED BY <1>1, <1>2, <1>3, SumTypes, ChargeTypes, StorageAssumption

\* What a step has to show.
Rebooked ==
  Recorded' /\ usage'.used = Charges' /\ usage'.reserved = IntentHolds' + JobHolds'
            /\ runHold' = JobHolds'

LEMMA RebookedAddsUp == Rebooked => Recorded' /\ Balanced'
BY DEF Rebooked, Recorded, Balanced, SumFunction, Charges, IntentHolds, JobHolds

\* A step that moves no bytes: rows change only in what their charges ignore.
LEMMA NoBytes ==
  ASSUME UsageInv, UNCHANGED <<usage, held, runHold>>, Recorded',
         \A k \in Items : Charged(k)' = Charged(k),
         \A u \in Uploads : HeldFor(u)' = HeldFor(u)
  PROVE  Rebooked
<1>1. Charges' = Charges /\ IntentHolds' = IntentHolds /\ JobHolds' = JobHolds
  BY ChargesStay, IntentHoldsStay DEF JobHolds
<1> QED BY <1>1, UsageFacts DEF Rebooked

\* One that touches neither rows nor holds.
LEMMA NoRows ==
  ASSUME UsageInv, UNCHANGED <<usage, held, runHold, asset, intent>>,
         \A j \in Jobs : job'[j] = "planned" => job[j] = "planned",
         \A i \in Items : purger'[i] = "deleted" => purger[i] = "deleted" \/ asset[i].purge = "requested"
  PROVE  Rebooked
<1>1. Recorded'
  BY UsageFacts DEF Recorded
<1>2. \A k \in Items : Charged(k)' = Charged(k)
  BY DEF Charged
<1>3. \A u \in Uploads : HeldFor(u)' = HeldFor(u)
  BY DEF HeldFor, Unfinished
<1> QED BY <1>1, <1>2, <1>3, NoBytes

\* An intent that changes while the jobs and the Assets stand still.
LEMMA IntentBooks ==
  ASSUME UsageInv, ObjShape', NEW u \in Uploads, NEW row \in IntentRow,
         intent' = [intent EXCEPT ![u] = row],
         row.status \in {"none", "pending"} => ~row.deleted,
         usage'.used = usage.used,
         usage'.reserved = usage.reserved - HeldFor(u) + HeldFor(u)',
         UNCHANGED <<held, runHold, job, asset, purger>>
  PROVE  Rebooked
<1>1. \A v \in Uploads : intent'[v] = IF v = u THEN row ELSE intent[v]
  BY UsageFacts DEF ObjShape
<1>2. Recorded'
  BY <1>1, UsageFacts DEF Recorded
<1>3. Charges' = Charges
  <2>1. \A k \in Items : Charged(k)' = Charged(k)
    BY DEF Charged
  <2> QED BY <2>1, ChargesStay
<1>4. ObjShape /\ \A v \in Uploads \ {u} : intent'[v] = intent[v]
  BY <1>1, UsageFacts
<1>5. IntentHolds' = IntentHolds - HeldFor(u) + HeldFor(u)'
  BY <1>4, IntentHoldsMove
<1>6. JobHolds' = JobHolds
  BY DEF JobHolds
<1>7. HeldFor(u)' \in Nat
  BY <1>1, UsageFacts DEF HeldFor
<1>8. usage'.reserved = IntentHolds' + JobHolds'
  BY <1>5, <1>6, <1>7, UsageFacts
<1> QED BY <1>2, <1>3, <1>6, <1>8, UsageFacts DEF Rebooked

\* A row of an Asset that changes while the intents and the jobs stand still.
LEMMA AssetBooks ==
  ASSUME UsageInv, ObjShape', NEW i \in Items, NEW row \in AssetRow,
         asset' = [asset EXCEPT ![i] = row],
         row.size # NoSize => row.size = Size[i] /\ row.state # "none",
         \A k \in Items : purger'[k] = "deleted" => purger[k] = "deleted",
         purger'[i] = "deleted" => row.purge = "requested",
         usage'.used = usage.used - ChargeOf(asset[i], i) + ChargeOf(row, i),
         usage'.reserved = usage.reserved,
         UNCHANGED <<held, runHold, job, intent>>
  PROVE  Rebooked
<1>1. \A k \in Items : asset'[k] = IF k = i THEN row ELSE asset[k]
  BY UsageFacts DEF ObjShape
<1>2. Recorded'
  BY <1>1, UsageFacts DEF Recorded
<1>3. ObjShape /\ \A k \in Items : Charged(k)' = ChargeOf(asset'[k], k) /\ Charged(k) = ChargeOf(asset[k], k)
  BY ChargeIs, UsageFacts DEF Charged, ChargeOf
<1>4. \A k \in Items \ {i} : Charged(k)' = Charged(k)
  BY <1>1, <1>3
<1>5. Charges' = Charges - Charged(i) + Charged(i)'
  BY <1>3, <1>4, ChargesMove
<1>6. usage'.used = Charges'
  BY <1>1, <1>3, <1>5, UsageFacts
<1>7. IntentHolds' = IntentHolds
  <2>1. \A u \in Uploads : HeldFor(u)' = HeldFor(u)
    BY DEF HeldFor, Unfinished
  <2> QED BY <2>1, IntentHoldsStay
<1>8. JobHolds' = JobHolds
  BY DEF JobHolds
<1> QED BY <1>2, <1>6, <1>7, <1>8, UsageFacts DEF Rebooked

\* The grant, the client and the registration.
LEMMA UploadBooks ==
  ASSUME UsageInv, ObjShape', NEW u \in Uploads, UploadNext(u)
  PROVE  Rebooked
<1>1. /\ u \in Items /\ intent[u] \in IntentRow /\ asset[u] \in AssetRow
      /\ intent \in [Uploads -> IntentRow] /\ asset \in [Items -> AssetRow]
  BY UsageFacts DEF ObjShape
<1>2. usage \in [used : Int, reserved : Int]
  BY DEF UsageInv, Counted
<1>3. CASE ReserveUpload(u)
  <2> DEFINE row == [intent[u] EXCEPT !.status = "pending"]
  <2>1. row \in IntentRow /\ row.status = "pending" /\ row.deleted = intent[u].deleted
    BY <1>1 DEF IntentRow
  <2>2. intent' = [intent EXCEPT ![u] = row] /\ UNCHANGED <<held, runHold, job, asset, purger>>
    BY <1>3 DEF ReserveUpload, jobVars, assetVars
  <2>3. intent[u].status = "none" /\ ~intent[u].deleted
    BY <1>3, UsageFacts DEF ReserveUpload, Recorded
  <2>4. HeldFor(u) = 0 /\ HeldFor(u)' = Size[u]
    BY <1>1, <2>1, <2>2, <2>3 DEF HeldFor, Unfinished
  <2>5. usage'.used = usage.used /\ usage'.reserved = usage.reserved + Size[u]
    BY <1>2, <1>3 DEF ReserveUpload
  <2>6. usage'.reserved = usage.reserved - HeldFor(u) + HeldFor(u)'
    BY <1>2, <2>4, <2>5, UsageFacts
  <2> QED BY <2>1, <2>2, <2>3, <2>5, <2>6, IntentBooks
<1>4. CASE CancelUnexposed(u)
  <2> DEFINE row == [intent[u] EXCEPT !.status = "canceled", !.deleted = TRUE]
  <2>0. UNCHANGED <<held, runHold, job, asset, purger>>
    BY <1>4 DEF CancelUnexposed, jobVars, assetVars
  <2>1. CASE /\ intent[u].status = "pending" /\ intent' = [intent EXCEPT ![u] = row]
             /\ usage' = [usage EXCEPT !.reserved = @ - Size[u]]
    <3>1. row \in IntentRow /\ row.status = "canceled" /\ row.deleted
      BY <1>1 DEF IntentRow
    <3>2. ~intent[u].deleted
      BY <2>1, UsageFacts DEF Recorded
    <3>3. HeldFor(u) = Size[u] /\ HeldFor(u)' = 0
      BY <1>1, <2>1, <3>1, <3>2 DEF HeldFor, Unfinished
    <3>4. usage'.used = usage.used /\ usage'.reserved = usage.reserved - Size[u]
      BY <1>2, <2>1
    <3>5. usage'.reserved = usage.reserved - HeldFor(u) + HeldFor(u)'
      BY <1>2, <3>3, <3>4, UsageFacts
    <3> QED BY <2>0, <2>1, <3>1, <3>4, <3>5, IntentBooks
  <2>2. CASE UNCHANGED <<intent, usage>>
    BY <2>0, <2>2, NoRows
  <2> QED BY <1>4, <2>1, <2>2 DEF CancelUnexposed
<1>5. CASE RegisterUpload(u)
  <2> DEFINE row == [intent[u] EXCEPT !.status = "registered"]
             new == [asset[u] EXCEPT !.state = "processing"]
  <2>0. UNCHANGED <<held, runHold, job, purger>>
    BY <1>5 DEF RegisterUpload, jobVars
  <2>1. CASE /\ Registrable(u)
             /\ asset' = [asset EXCEPT ![u] = new]
             /\ intent' = [intent EXCEPT ![u] = row]
             /\ usage' = [used |-> usage.used + Size[u], reserved |-> usage.reserved - Size[u]]
    <3>1. /\ row.status = "registered"
          /\ new.state = "processing" /\ new.purge = asset[u].purge /\ new.size = asset[u].size
      BY <1>1 DEF IntentRow, AssetRow
    <3>2. /\ \A v \in Uploads : intent'[v] = IF v = u THEN row ELSE intent[v]
          /\ \A k \in Items : asset'[k] = IF k = u THEN new ELSE asset[k]
      BY <1>1, <2>1
    <3>3. intent[u].status = "pending" /\ ~intent[u].deleted /\ asset[u].state = "none"
      BY <2>1, UsageFacts DEF Registrable, Recorded, UsageInv, ObjInv, Committable
    <3>4. asset[u].size = NoSize
      BY <1>1, <3>3, UsageFacts DEF Recorded
    <3>5. Recorded'
      BY <2>0, <3>1, <3>2, <3>4, UsageFacts DEF Recorded
    <3>6. HeldFor(u) = Size[u] /\ HeldFor(u)' = 0
      BY <3>1, <3>2, <3>3 DEF HeldFor, Unfinished
    <3>7. Charged(u) = 0 /\ Charged(u)' = Size[u]
      BY <1>1, <3>1, <3>2, <3>3, <3>4, ChargeIs DEF ChargeOf, Charged
    <3>8. ObjShape /\ (\A k \in Items \ {u} : Charged(k)' = Charged(k))
          /\ \A v \in Uploads \ {u} : intent'[v] = intent[v]
      BY <3>2, UsageFacts DEF Charged
    <3>9. Charges' = Charges - Charged(u) + Charged(u)'
      BY <1>1, <3>8, ChargesMove
    <3>10. IntentHolds' = IntentHolds - HeldFor(u) + HeldFor(u)'
      BY <3>8, IntentHoldsMove
    <3>11. JobHolds' = JobHolds
      BY <2>0 DEF JobHolds
    <3>12. usage'.used = usage.used + Size[u] /\ usage'.reserved = usage.reserved - Size[u]
      BY <2>1
    <3>13. usage'.used = Charges' /\ usage'.reserved = IntentHolds' + JobHolds'
      BY <3>6, <3>7, <3>9, <3>10, <3>11, <3>12, UsageFacts
    <3> QED BY <2>0, <3>5, <3>11, <3>13, UsageFacts DEF Rebooked
  <2>2. CASE UNCHANGED <<asset, intent, usage>>
    BY <2>0, <2>2, NoRows
  <2> QED BY <1>5, <2>1, <2>2 DEF RegisterUpload
<1>6. CASE Lapse(u)
  <2> DEFINE row == [intent[u] EXCEPT !.due = TRUE]
  <2>1. row \in IntentRow /\ row.status = intent[u].status /\ row.deleted = intent[u].deleted
    BY <1>1 DEF IntentRow
  <2>2. /\ intent' = [intent EXCEPT ![u] = row]
        /\ UNCHANGED <<usage, held, runHold, job, asset, purger>>
    BY <1>6 DEF Lapse, jobVars, assetVars
  <2>3. HeldFor(u)' = HeldFor(u)
    BY <1>1, <2>1, <2>2 DEF HeldFor, Unfinished
  <2>4. usage'.reserved = usage.reserved - HeldFor(u) + HeldFor(u)'
    BY <1>2, <2>2, <2>3, UsageFacts
  <2>5. row.status \in {"none", "pending"} => ~row.deleted
    BY <2>1, UsageFacts DEF Recorded
  <2> QED BY <2>1, <2>2, <2>4, <2>5, IntentBooks
<1>7. CASE IngestUpload(u)
  <2>0. UNCHANGED <<usage, held, runHold, job, intent, purger>>
    BY <1>7 DEF IngestUpload, uploadVars, jobVars
  <2>1. CASE UNCHANGED asset
    BY <2>0, <2>1, NoRows
  <2>2. CASE Live(u) /\ asset' = [asset EXCEPT ![u] = Ready(asset[u], u)]
    <3> DEFINE row == Ready(asset[u], u)
    <3>1. /\ row \in AssetRow /\ row.state # "none" /\ row.purge = asset[u].purge
          /\ row.size = Size[u]
      BY <1>1, <2>2, ReadyType, UsageFacts DEF Live, Ready, AssetRow
    <3>2. /\ asset[u].purge = "no" /\ asset[u].state # "none"
          /\ asset[u].size # NoSize => asset[u].size = Size[u]
      BY <1>1, <2>2, UsageFacts DEF Live, Recorded
    <3> HIDE DEF row
    <3>3. ChargeOf(asset[u], u) = Size[u] /\ ChargeOf(row, u) = Size[u]
      BY <3>1, <3>2, UsageFacts DEF ChargeOf, NoSize
    <3>4. purger[u] # "deleted"
      BY <1>1, <3>2, UsageFacts DEF Recorded
    <3>5. usage'.used = usage.used - ChargeOf(asset[u], u) + ChargeOf(row, u)
      BY <1>2, <2>0, <3>3, UsageFacts
    <3>6. asset' = [asset EXCEPT ![u] = row]
      BY <2>2 DEF row
    <3> QED BY <1>1, <2>0, <3>1, <3>4, <3>5, <3>6, AssetBooks
  <2> QED BY <1>7, <2>1, <2>2 DEF IngestUpload
<1>8. CASE \/ SignUrl(u) \/ StartPut(u) \/ FinishPut(u) \/ AbandonPut(u)
           \/ VerifyUpload(u) \/ LoseRegistration(u)
  <2>1. UNCHANGED <<usage, held, runHold, job, intent, asset, purger>>
    BY <1>8 DEF SignUrl, StartPut, FinishPut, AbandonPut, VerifyUpload, LoseRegistration,
       jobVars, assetVars
  <2> QED BY <2>1, NoRows
<1> QED BY <1>3, <1>4, <1>5, <1>6, <1>7, <1>8 DEF UploadNext

\* The clean-up of expired uploads gives a hold back once.
LEMMA SweepBooks ==
  ASSUME UsageInv, ObjShape', NEW s \in Sweeps, SweepNext(s)
  PROVE  Rebooked
<1>1. /\ intent \in [Uploads -> IntentRow] /\ usage \in [used : Int, reserved : Int]
  BY UsageFacts DEF ObjShape, UsageInv, Counted
<1>2. ASSUME NEW u \in Uploads, ClaimExpired(s, u) PROVE Rebooked
  <2> DEFINE row == [intent[u] EXCEPT !.status = "expired", !.due = FALSE]
  <2>1. row \in IntentRow /\ row.status = "expired" /\ row.deleted = intent[u].deleted
    BY <1>1 DEF IntentRow
  <2>2. /\ intent' = [intent EXCEPT ![u] = row]
        /\ UNCHANGED <<usage, held, runHold, job, asset, purger>>
    BY <1>2 DEF ClaimExpired, jobVars, assetVars
  <2>3. Unfinished(u)
    BY <1>2 DEF ClaimExpired
  <2>4. HeldFor(u) = Size[u] /\ HeldFor(u)' = Size[u]
    BY <1>1, <2>1, <2>2, <2>3 DEF HeldFor, Unfinished
  <2>5. usage'.reserved = usage.reserved - HeldFor(u) + HeldFor(u)'
    BY <1>1, <2>2, <2>4, UsageFacts
  <2> QED BY <2>1, <2>2, <2>5, IntentBooks
<1>3. CASE MarkDeleted(s)
  <2>a. PICK u \in Uploads : u = sweep[s].upload
    BY <1>3 DEF MarkDeleted, UsageInv, ObjInv, Deletable
  <2> DEFINE row == [intent[u] EXCEPT !.deleted = TRUE, !.due = FALSE]
  <2>0. u \in Uploads /\ UNCHANGED <<held, runHold, job, asset, purger>>
    BY <1>3 DEF MarkDeleted, jobVars, assetVars
  <2>1. CASE /\ intent[u].status = "expired" /\ ~intent[u].deleted
             /\ intent' = [intent EXCEPT ![u] = row]
             /\ usage' = [usage EXCEPT !.reserved = @ - Size[u]]
    <3>1. row \in IntentRow /\ row.status = intent[u].status /\ row.deleted
      BY <1>1, <2>0 DEF IntentRow
    <3>2. HeldFor(u) = Size[u] /\ HeldFor(u)' = 0
      BY <1>1, <2>0, <2>1, <3>1 DEF HeldFor, Unfinished
    <3>3. usage'.used = usage.used /\ usage'.reserved = usage.reserved - Size[u]
      BY <1>1, <2>1
    <3>4. usage'.reserved = usage.reserved - HeldFor(u) + HeldFor(u)'
      BY <1>1, <2>0, <3>2, <3>3, UsageFacts
    <3> HIDE DEF row
    <3> QED BY <2>0, <2>1, <3>1, <3>3, <3>4, IntentBooks
  <2>2. CASE UNCHANGED <<intent, usage>>
    BY <2>0, <2>2, NoRows
  <2> QED BY <1>3, <2>a, <2>1, <2>2 DEF MarkDeleted
<1>4. CASE DeferCleanup(s)
  <2>a. PICK u \in Uploads : u = sweep[s].upload
    BY <1>4 DEF DeferCleanup, UsageInv, ObjInv, Deletable
  <2> DEFINE row == [intent[u] EXCEPT !.due = FALSE]
  <2>0. u \in Uploads /\ UNCHANGED <<usage, held, runHold, job, asset, purger>>
    BY <1>4 DEF DeferCleanup, jobVars, assetVars
  <2>1. CASE intent[u].status = "expired" /\ intent' = [intent EXCEPT ![u] = row]
    <3>1. row \in IntentRow /\ row.status = intent[u].status /\ row.deleted = intent[u].deleted
      BY <1>1, <2>0 DEF IntentRow
    <3>2. HeldFor(u)' = HeldFor(u)
      BY <1>1, <2>0, <2>1, <3>1 DEF HeldFor, Unfinished
    <3>3. usage'.reserved = usage.reserved - HeldFor(u) + HeldFor(u)'
      BY <1>1, <2>0, <3>2, UsageFacts
    <3> HIDE DEF row
    <3> QED BY <2>0, <2>1, <3>1, <3>3, IntentBooks
  <2>2. CASE UNCHANGED intent
    BY <2>0, <2>2, NoRows
  <2> QED BY <1>4, <2>a, <2>1, <2>2 DEF DeferCleanup
<1>5. CASE DeleteExpired(s) \/ FailDeletion(s) \/ StopSweep(s)
  <2>1. UNCHANGED <<usage, held, runHold, job, intent, asset, purger>>
    BY <1>5 DEF DeleteExpired, FailDeletion, StopSweep, jobVars, assetVars
  <2> QED BY <2>1, NoRows
<1> QED BY <1>2, <1>3, <1>4, <1>5 DEF SweepNext, SweepRuns

\* An ingested output takes its share over and pays for its bytes.
LEMMA OutputBooks ==
  ASSUME UsageInv, ObjShape', NEW o \in Outputs, OutputNext(o)
  PROVE  Rebooked
<1>1. /\ o \in Items /\ o \notin Uploads /\ asset[o] \in AssetRow
      /\ asset \in [Items -> AssetRow] /\ usage \in [used : Int, reserved : Int]
  BY UsageFacts, StorageAssumption DEF ObjShape, UsageInv, Counted, Items
<1>2. CASE CommitAsset(o)
  <2> DEFINE row == [asset[o] EXCEPT !.state = "processing"]
  <2>1. asset[o].state = "none" /\ asset[o].size = NoSize
    BY <1>1, <1>2, UsageFacts DEF CommitAsset, UsageInv, ObjInv, Deletable, Recorded
  <2>2. row \in AssetRow /\ row.size = NoSize /\ row.purge = asset[o].purge
    BY <1>1, <2>1 DEF AssetRow
  <2>3. /\ asset' = [asset EXCEPT ![o] = row]
        /\ UNCHANGED <<usage, held, runHold, job, intent, purger>>
    BY <1>2 DEF CommitAsset, uploadVars
  <2> HIDE DEF row
  <2>4. ChargeOf(asset[o], o) = 0 /\ ChargeOf(row, o) = 0
    BY <1>1, <2>1, <2>2 DEF ChargeOf
  <2>5. usage'.used = usage.used - ChargeOf(asset[o], o) + ChargeOf(row, o)
    BY <1>1, <2>3, <2>4
  <2>6. purger'[o] = "deleted" => row.purge = "requested"
    BY <1>1, <2>2, <2>3, UsageFacts DEF Recorded
  <2> QED BY <1>1, <2>2, <2>3, <2>5, <2>6, AssetBooks
<1>3. CASE IngestOutput(o)
  <2> DEFINE row == Ready(asset[o], o)
             j == JobOf[o]
             n == held[JobOf[o]] - Share(o)
  <2>0. UNCHANGED <<job, intent, purger>>
    BY <1>3 DEF IngestOutput, uploadVars
  <2>1. CASE UNCHANGED <<usage, held, runHold, asset>>
    BY <2>0, <2>1, NoRows
  <2>2. CASE /\ Live(o) /\ asset[o].size = NoSize
             /\ usage' = [used |-> usage.used + Size[o], reserved |-> usage.reserved - Share(o)]
             /\ held' = [held EXCEPT ![j] = n]
             /\ runHold' = runHold - Share(o)
             /\ asset' = [asset EXCEPT ![o] = row]
    <3>1. /\ row \in AssetRow /\ row.state # "none" /\ row.purge = asset[o].purge
          /\ row.size = Size[o]
      BY <1>1, <2>2, ReadyType DEF Live, Ready, AssetRow
    <3>2. asset[o].purge = "no"
      BY <2>2 DEF Live
    <3>3. \A k \in Items : asset'[k] = IF k = o THEN row ELSE asset[k]
      BY <1>1, <2>2
    <3>4. j \in Jobs /\ held \in [Jobs -> Nat]
      BY UsageFacts, StorageAssumption
    <3>5. Share(o) \in Nat /\ n \in Nat
      BY <2>2, <3>4, ShareWithin
    <3> HIDE DEF row, n
    <3>6. /\ held' \in [Jobs -> Nat] /\ held'[j] = n
          /\ \A k \in Jobs : held[k] \in Nat
          /\ \A k \in Jobs \ {j} : held'[k] = held[k]
      BY <2>2, <3>4, <3>5
    <3>7. held[j] = 0 => n = 0
      BY <3>4, <3>5 DEF n
    <3>8. Recorded'
      <4>1. \A i \in Items : asset'[i].size # NoSize =>
              asset'[i].size = Size[i] /\ asset'[i].state # "none"
        BY <3>1, <3>3, UsageFacts DEF Recorded
      <4>2. \A i \in Items : purger'[i] = "deleted" => asset'[i].purge = "requested"
        BY <2>0, <3>1, <3>3, UsageFacts DEF Recorded
      <4>3. \A k \in Jobs : job'[k] = "planned" => held'[k] = 0
        BY <2>0, <3>4, <3>6, <3>7, UsageFacts DEF Recorded
      <4> QED BY <2>0, <3>6, <4>1, <4>2, <4>3, UsageFacts DEF Recorded
    <3>9. JobHolds' = JobHolds - held[j] + n
      <4>1. Moved(held, held', Jobs, j, n)
        BY <3>6 DEF Moved
      <4> HIDE DEF j
      <4>2. j \in Jobs
        BY <3>4
      <4> QED BY <3>5, <4>1, <4>2, JobHoldsMove
    <3>10. JobHolds' = JobHolds - Share(o)
      BY <3>4, <3>5, <3>9, UsageFacts DEF n
    <3>11. ObjShape /\ \A k \in Items \ {o} : Charged(k)' = Charged(k)
      BY <3>3, UsageFacts DEF Charged
    <3>12. Charged(o) = 0 /\ Charged(o)' = Size[o]
      BY <1>1, <2>2, <3>1, <3>2, <3>3, UsageFacts DEF Charged, NoSize
    <3>13. Charges' = Charges - Charged(o) + Charged(o)'
      BY <1>1, <3>11, ChargesMove
    <3>14. IntentHolds' = IntentHolds
      <4>1. \A u \in Uploads : HeldFor(u)' = HeldFor(u)
        BY <2>0 DEF HeldFor, Unfinished
      <4> QED BY <4>1, IntentHoldsStay
    <3>15. usage'.used = usage.used + Size[o] /\ usage'.reserved = usage.reserved - Share(o)
      BY <2>2
    <3>16. usage'.used = Charges'
      BY <1>1, <3>12, <3>13, <3>15, UsageFacts
    <3>17. usage'.reserved = IntentHolds' + JobHolds'
      BY <3>5, <3>10, <3>14, <3>15, UsageFacts
    <3>18. runHold' = JobHolds'
      BY <2>2, <3>10, UsageFacts
    <3> QED BY <3>8, <3>16, <3>17, <3>18 DEF Rebooked
  <2> QED BY <1>3, <2>1, <2>2 DEF IngestOutput
<1>4. CASE \/ BeginOutput(o) \/ PutOutput(o) \/ RefuseAsset(o) \/ DeleteUncommitted(o)
           \/ StopWriter(o) \/ FindOrphan(o) \/ DeleteOrphan(o)
  <2>1. UNCHANGED <<usage, held, runHold, job, intent, asset, purger>>
    BY <1>4 DEF BeginOutput, PutOutput, RefuseAsset, DeleteUncommitted, StopWriter,
       FindOrphan, DeleteOrphan, uploadVars, assetVars
  <2> QED BY <2>1, NoRows
<1> QED BY <1>2, <1>3, <1>4 DEF OutputNext

\* A purge gives back what the row records, once.
LEMMA AssetRowBooks ==
  ASSUME UsageInv, ObjShape', NEW i \in Items, AssetNext(i)
  PROVE  Rebooked
<1>1. /\ asset[i] \in AssetRow /\ asset \in [Items -> AssetRow]
      /\ purger \in [Items -> {"idle", "deleted"}] /\ usage \in [used : Int, reserved : Int]
  BY UsageFacts DEF ObjShape, UsageInv, Counted
<1>2. CASE FailIngest(i)
  <2> DEFINE row == [asset[i] EXCEPT !.state = "failed"]
  <2>0. UNCHANGED <<usage, held, runHold, job, intent, purger>>
    BY <1>2 DEF FailIngest, uploadVars, jobVars
  <2>1. CASE UNCHANGED asset
    BY <2>0, <2>1, NoRows
  <2>2. CASE Live(i) /\ asset' = [asset EXCEPT ![i] = row]
    <3>1. /\ row \in AssetRow /\ row.state = "failed"
          /\ row.purge = asset[i].purge /\ row.size = asset[i].size
      BY <1>1 DEF AssetRow
    <3> HIDE DEF row
    <3>2. row.size # NoSize => row.size = Size[i] /\ row.state # "none"
      BY <3>1, UsageFacts DEF Recorded
    <3>3. ChargeOf(row, i) = ChargeOf(asset[i], i)
      BY <2>2, <3>1 DEF ChargeOf, Live
    <3>4. ChargeOf(asset[i], i) \in Nat
      BY ChargeIs, UsageFacts
    <3>5. usage'.used = usage.used - ChargeOf(asset[i], i) + ChargeOf(row, i)
      BY <1>1, <2>0, <3>3, <3>4
    <3>6. purger'[i] = "deleted" => row.purge = "requested"
      BY <2>0, <3>1, UsageFacts DEF Recorded
    <3> QED BY <2>0, <2>2, <3>1, <3>2, <3>5, <3>6, AssetBooks
  <2> QED BY <1>2, <2>1, <2>2 DEF FailIngest
<1>3. CASE RequestPurge(i)
  <2> DEFINE row == [asset[i] EXCEPT !.purge = "requested"]
  <2>0. /\ UNCHANGED <<usage, held, runHold, job, intent, purger>>
        /\ asset' = [asset EXCEPT ![i] = row] /\ Live(i)
    BY <1>3 DEF RequestPurge, uploadVars, jobVars
  <2>1. /\ row \in AssetRow /\ row.state = asset[i].state
        /\ row.purge = "requested" /\ row.size = asset[i].size
    BY <1>1 DEF AssetRow
  <2> HIDE DEF row
  <2>2. row.size # NoSize => row.size = Size[i] /\ row.state # "none"
    BY <2>1, UsageFacts DEF Recorded
  <2>3. ChargeOf(row, i) = ChargeOf(asset[i], i)
    BY <2>0, <2>1 DEF ChargeOf, Live
  <2>4. ChargeOf(asset[i], i) \in Nat
    BY ChargeIs, UsageFacts
  <2>5. usage'.used = usage.used - ChargeOf(asset[i], i) + ChargeOf(row, i)
    BY <1>1, <2>0, <2>3, <2>4
  <2> QED BY <2>0, <2>1, <2>2, <2>5, AssetBooks
<1>4. CASE ReleasePurged(i)
  <2> DEFINE row == [asset[i] EXCEPT !.purge = "purged"]
  <2>0. /\ UNCHANGED <<held, runHold, job, intent>> /\ purger[i] = "deleted"
        /\ asset' = [asset EXCEPT ![i] = row] /\ purger' = [purger EXCEPT ![i] = "idle"]
        /\ usage' = [usage EXCEPT !.used = @ - asset[i].size]
    BY <1>4 DEF ReleasePurged, uploadVars, jobVars
  <2>1. /\ row \in AssetRow /\ row.state = asset[i].state
        /\ row.purge = "purged" /\ row.size = asset[i].size /\ asset[i].size \in Nat
    BY <1>1 DEF AssetRow
  <2> HIDE DEF row
  <2>2. row.size # NoSize => row.size = Size[i] /\ row.state # "none"
    BY <2>1, UsageFacts DEF Recorded
  <2>3. asset[i].purge = "requested"
    BY <2>0, UsageFacts DEF Recorded
  <2>4. ChargeOf(row, i) = ChargeOf(asset[i], i) - asset[i].size
    BY <2>1, <2>3, UsageFacts DEF ChargeOf, NoSize
  <2>5. ChargeOf(asset[i], i) \in Nat
    BY ChargeIs, UsageFacts
  <2>6. usage'.used = usage.used - asset[i].size /\ usage'.reserved = usage.reserved
    BY <1>1, <2>0
  <2>7. usage'.used = usage.used - ChargeOf(asset[i], i) + ChargeOf(row, i)
    BY <1>1, <2>1, <2>4, <2>5, <2>6
  <2>8. purger'[i] = "idle" /\ \A k \in Items : purger'[k] = "deleted" => purger[k] = "deleted"
    BY <1>1, <2>0
  <2> QED BY <2>0, <2>1, <2>2, <2>6, <2>7, <2>8, AssetBooks
<1>5. CASE DeleteAsset(i) \/ StopPurge(i)
  <2>1. UNCHANGED <<usage, held, runHold, job, intent, asset>>
    BY <1>5 DEF DeleteAsset, StopPurge, uploadVars, jobVars
  <2>2. \A k \in Items : purger'[k] = "deleted" =>
          purger[k] = "deleted" \/ asset[k].purge = "requested"
    BY <1>1, <1>5 DEF DeleteAsset, StopPurge
  <2> QED BY <2>1, <2>2, NoRows
<1>6. CASE ReadAsset(i) \/ StopIngest(i)
  <2>1. UNCHANGED <<usage, held, runHold, job, intent, asset, purger>>
    BY <1>6 DEF ReadAsset, StopIngest, uploadVars, jobVars
  <2> QED BY <2>1, NoRows
<1> QED BY <1>2, <1>3, <1>4, <1>5, <1>6 DEF AssetNext

\* The run holds the bytes of all its jobs; a job that ended gives back the rest.
LEMMA RunBooks ==
  ASSUME UsageInv, (\E j \in Jobs : EndJob(j) \/ ReleaseHold(j)) \/ ReserveRun \/ ChangePlan
  PROVE  Rebooked
<1>1. /\ usage \in [used : Int, reserved : Int] /\ held \in [Jobs -> Nat]
      /\ job \in [Jobs -> {"planned", "running", "ended"}]
  BY UsageFacts DEF ObjShape, UsageInv, Counted
<1>2. ASSUME UNCHANGED <<intent, asset>>
      PROVE  Charges' = Charges /\ IntentHolds' = IntentHolds
  <2>1. \A k \in Items : Charged(k)' = Charged(k)
    BY <1>2 DEF Charged
  <2>2. \A u \in Uploads : HeldFor(u)' = HeldFor(u)
    BY <1>2 DEF HeldFor, Unfinished
  <2> QED BY <2>1, <2>2, ChargesStay, IntentHoldsStay
<1>3. ASSUME NEW j \in Jobs, EndJob(j) PROVE Rebooked
  <2>1. UNCHANGED <<usage, held, runHold, intent, asset, purger>>
    BY <1>3 DEF EndJob, uploadVars, assetVars
  <2>2. \A k \in Jobs : job'[k] = "planned" => job[k] = "planned"
    BY <1>1, <1>3 DEF EndJob
  <2> QED BY <2>1, <2>2, NoRows
<1>4. ASSUME NEW j \in Jobs, ReleaseHold(j) PROVE Rebooked
  <2>0. /\ UNCHANGED <<job, intent, asset, purger>>
        /\ usage' = [usage EXCEPT !.reserved = @ - held[j]] /\ runHold' = runHold - held[j]
        /\ held' = [held EXCEPT ![j] = 0]
    BY <1>4 DEF ReleaseHold, uploadVars, assetVars
  <2>1. /\ held' \in [Jobs -> Nat] /\ held'[j] = 0
        /\ \A k \in Jobs : held[k] \in Nat
        /\ \A k \in Jobs \ {j} : held'[k] = held[k]
    BY <1>1, <2>0
  <2>2. JobHolds' = JobHolds - held[j] + 0
    <3>1. Moved(held, held', Jobs, j, 0)
      BY <2>1 DEF Moved
    <3> QED BY <3>1, JobHoldsMove
  <2>3. Recorded'
    BY <2>0, <2>1, UsageFacts DEF Recorded
  <2>4. Charges' = Charges /\ IntentHolds' = IntentHolds
    BY <1>2, <2>0
  <2>5. usage'.used = usage.used /\ usage'.reserved = usage.reserved - held[j]
    BY <1>1, <2>0
  <2>6. held[j] \in Nat
    BY <2>1
  <2>7. usage'.reserved = IntentHolds' + JobHolds' /\ runHold' = JobHolds'
    BY <2>0, <2>2, <2>4, <2>5, <2>6, UsageFacts
  <2> QED BY <2>3, <2>4, <2>5, <2>7, UsageFacts DEF Rebooked
<1>5. CASE ReserveRun
  <2>0. /\ \A j \in Jobs : job[j] = "planned"
        /\ UNCHANGED <<intent, asset, purger>>
        /\ usage' = [usage EXCEPT !.reserved = @ + RunTotal]
        /\ held' = Hold /\ runHold' = RunTotal /\ job' = [j \in Jobs |-> "running"]
    BY <1>5 DEF ReserveRun, uploadVars, assetVars
  <2>1. \A j \in Jobs : held[j] = 0
    BY <2>0, UsageFacts DEF Recorded
  <2>2. JobHolds = 0
    BY <2>1, SumZero, StorageAssumption DEF JobHolds
  <2>3. JobHolds' = RunTotal
    BY <2>0 DEF JobHolds, RunTotal
  <2>4. Recorded'
    BY <2>0, UsageFacts, StorageAssumption DEF Recorded
  <2>5. Charges' = Charges /\ IntentHolds' = IntentHolds
    BY <1>2, <2>0
  <2>6. usage'.used = usage.used /\ usage'.reserved = usage.reserved + RunTotal
    BY <1>1, <2>0
  <2>7. usage'.reserved = IntentHolds' + JobHolds'
    BY <2>2, <2>3, <2>5, <2>6, RunTotalType, UsageFacts
  <2> QED BY <2>0, <2>3, <2>4, <2>5, <2>6, <2>7, UsageFacts DEF Rebooked
<1>6. CASE ChangePlan
  <2>1. UNCHANGED <<usage, held, runHold, job, intent, asset, purger>>
    BY <1>6 DEF ChangePlan, uploadVars, jobVars, assetVars
  <2> QED BY <2>1, NoRows
<1> QED BY <1>3, <1>4, <1>5, <1>6

LEMMA InitUsage == Init => UsageInv
<1> SUFFICES ASSUME Init PROVE UsageInv
  OBVIOUS
<1>1. Counted
  BY StorageAssumption DEF Init, Counted
<1>2. Recorded
  BY StorageAssumption DEF Init, Recorded, NoSize
<1>3. \A i \in Items : Charged(i) = 0
  BY DEF Init, Charged, NoSize
<1>4. \A u \in Uploads : HeldFor(u) = 0
  BY DEF Init, HeldFor, Unfinished
<1>5. IsFiniteSet(Items) /\ IsFiniteSet(Uploads) /\ IsFiniteSet(Jobs)
  BY StorageAssumption, FS_Union DEF Items
<1>6. Charges = 0
  <2> DEFINE c == [i \in Items |-> Charged(i)]
  <2>1. \A i \in Items : c[i] = 0
    BY <1>3
  <2> HIDE DEF c
  <2>2. SumFunctionOnSet(c, Items) = 0
    BY <1>5, <2>1, SumZero
  <2> QED BY <2>2 DEF Charges, c
<1>7. IntentHolds = 0
  <2> DEFINE c == [u \in Uploads |-> HeldFor(u)]
  <2>1. \A u \in Uploads : c[u] = 0
    BY <1>4
  <2> HIDE DEF c
  <2>2. SumFunctionOnSet(c, Uploads) = 0
    BY <1>5, <2>1, SumZero
  <2> QED BY <2>2 DEF IntentHolds, c
<1>8. JobHolds = 0
  <2>1. \A j \in Jobs : held[j] = 0
    BY DEF Init
  <2> QED BY <1>5, <2>1, SumZero DEF JobHolds
<1>9. usage.used = 0 /\ usage.reserved = 0 /\ runHold = 0 /\ DOMAIN held = Jobs
  BY DEF Init
<1>10. Balanced
  BY <1>6, <1>7, <1>8, <1>9, UsageIs
<1> QED BY <1>1, <1>2, <1>10, InitObjects DEF UsageInv

LEMMA NextUsage == UsageInv /\ [Next]_vars => UsageInv'
<1> SUFFICES ASSUME UsageInv, [Next]_vars PROVE UsageInv'
  OBVIOUS
<1>1. ObjInv' /\ ObjShape'
  BY NextObjects DEF UsageInv, ObjInv
<1>2. Counted'
  <2>1. ASSUME Next PROVE Within
    BY <2>1, UploadCount, SweepCount, OutputCount, AssetCount, RunCount DEF Next, UsageInv
  <2>2. ASSUME UNCHANGED vars PROVE Within
    BY <2>2, Uncounted DEF vars, jobVars, UsageInv
  <2> QED BY <2>1, <2>2 DEF Within
<1>3. Rebooked
  <2>1. ASSUME Next PROVE Rebooked
    BY <1>1, <2>1, UploadBooks, SweepBooks, OutputBooks, AssetRowBooks, RunBooks DEF Next
  <2>2. ASSUME UNCHANGED vars PROVE Rebooked
    BY <2>2, NoRows DEF vars, uploadVars, jobVars, assetVars
  <2> QED BY <2>1, <2>2
<1> QED BY <1>1, <1>2, <1>3, RebookedAddsUp DEF UsageInv

\* usedBytes and reservedBytes are at all times the sums of what uploads, Assets and
\* jobs hold, although each operation only adds or takes a difference; for usedBytes
\* as long as no upload is stranded.
THEOREM UsageCorrect == Spec => []UsageAddsUp
<1>1. UsageInv => UsageAddsUp
  <2> SUFFICES ASSUME UsageInv PROVE UsageAddsUp
    OBVIOUS
  <2>1. Balanced
    BY DEF UsageInv
  <2>2. ASSUME Stranded = {}
        PROVE  usage.used = SumFunction([i \in Items |-> AssetBytes(i)])
    <3>1. \A i \in Items : Charged(i) = AssetBytes(i)
      BY <2>2, UsageFacts DEF Charged, AssetBytes, Stranded, NoSize, Recorded
    <3>2. [i \in Items |-> Charged(i)] = [i \in Items |-> AssetBytes(i)]
      BY <3>1
    <3> QED BY <2>1, <3>2 DEF Balanced
  <2> QED BY <2>1, <2>2 DEF Balanced, UsageAddsUp
<1> QED BY <1>1, InitUsage, NextUsage, PTL DEF Spec

-----------------------------------------------------------------------------
(* Type correctness.                                                       *)

\* The rest of the types; the counters are natural numbers because the sums are.
RestShape ==
  /\ grant \in [Uploads -> {"none", "signing", "granted", "sending", "sent", "gone"}]
  /\ ingest \in [Items -> {"idle", "processed"}]
  /\ limit \in Limits

LEMMA NextRest == RestShape /\ [Next]_vars => RestShape'
<1> SUFFICES ASSUME RestShape, [Next]_vars PROVE RestShape'
  OBVIOUS
<1> USE DEF RestShape, uploadVars, jobVars, assetVars
<1>1. ASSUME NEW u \in Uploads, UploadNext(u) PROVE RestShape'
  BY <1>1 DEF UploadNext, ReserveUpload, SignUrl, CancelUnexposed, StartPut, FinishPut,
     AbandonPut, VerifyUpload, RegisterUpload, LoseRegistration, Lapse, IngestUpload
<1>2. ASSUME NEW s \in Sweeps, SweepNext(s) PROVE RestShape'
  BY <1>2 DEF SweepNext, SweepRuns, ClaimExpired, DeleteExpired, FailDeletion, MarkDeleted,
     DeferCleanup, StopSweep
<1>3. ASSUME NEW o \in Outputs, OutputNext(o) PROVE RestShape'
  BY <1>3 DEF OutputNext, BeginOutput, PutOutput, CommitAsset, RefuseAsset, DeleteUncommitted,
     StopWriter, FindOrphan, DeleteOrphan, IngestOutput
<1>4. ASSUME NEW i \in Items, AssetNext(i) PROVE RestShape'
  BY <1>4 DEF AssetNext, ReadAsset, FailIngest, StopIngest, RequestPurge, DeleteAsset,
     ReleasePurged, StopPurge
<1>5. ASSUME NEW j \in Jobs, EndJob(j) \/ ReleaseHold(j) PROVE RestShape'
  BY <1>5 DEF EndJob, ReleaseHold
<1>6. CASE ReserveRun \/ ChangePlan
  BY <1>6 DEF ReserveRun, ChangePlan
<1>7. CASE UNCHANGED vars
  BY <1>7 DEF vars
<1> QED BY <1>1, <1>2, <1>3, <1>4, <1>5, <1>6, <1>7 DEF Next

\* Every variable keeps its type; in particular no counter of bytes goes below zero.
THEOREM TypeCorrect == Spec => []TypeOK
<1>1. Init => RestShape
  BY DEF Init, RestShape
<1>2. UsageInv /\ RestShape => TypeOK
  <2> SUFFICES ASSUME UsageInv, RestShape PROVE TypeOK
    OBVIOUS
  <2>1. ObjShape /\ usage \in [used : Int, reserved : Int] /\ held \in [Jobs -> Nat]
    BY UsageFacts DEF UsageInv, Counted
  <2>2. usage.used \in Nat /\ usage.reserved \in Nat /\ runHold \in Nat
    BY UsageFacts
  <2>3. usage \in [used : Nat, reserved : Nat]
    BY <2>1, <2>2
  <2> QED BY <2>1, <2>2, <2>3 DEF TypeOK, ObjShape, RestShape
<1> QED BY <1>1, <1>2, InitUsage, NextUsage, NextRest, PTL DEF Spec
=============================================================================
