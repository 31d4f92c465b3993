---------------------------- MODULE AssetStorage ----------------------------
(***************************************************************************)
(* The bytes of an organization and the objects behind them.  An upload    *)
(* holds its bytes before its URL is signed, an Asset takes them over when *)
(* it is registered, and a sweep gives them back when nobody registered.   *)
(* The outputs of a generation job share one hold that ingestion converts  *)
(* output by output.  A permanent purge ends an Asset.                     *)
(*                                                                         *)
(* A step is one transaction or one call to the object storage.  Every     *)
(* task may stop between two of its steps, and is tried again.             *)
(***************************************************************************)
EXTENDS Naturals, FiniteSets, Functions

CONSTANTS
  Uploads,      \* direct uploads, each with its intent
  Outputs,      \* output slots of the generation jobs
  Jobs,
  JobOf,        \* JobOf[o], the job of an output
  Size,         \* Size[i], the bytes of the object of an upload or output
  Hold,         \* Hold[j], the conservative bytes held for the outputs of j
  Limits,       \* the storage limits of the plans
  Sweeps        \* upload clean-up passes that may overlap

Items == Uploads \cup Outputs

\* The conservative bytes of all jobs of the run.
RunTotal == SumFunctionOnSet(Hold, Jobs)

ASSUME StorageAssumption ==
  /\ Uploads \cap Outputs = {}
  /\ IsFiniteSet(Uploads) /\ IsFiniteSet(Outputs) /\ IsFiniteSet(Jobs)
  /\ JobOf \in [Outputs -> Jobs]
  /\ Size \in [Items -> Nat \ {0}] /\ Hold \in [Jobs -> Nat]
  /\ Limits \subseteq Nat /\ Limits # {}

VARIABLES
  limit,        \* storageBytes of the current plan
  usage,        \* organizationStorageUsage
  intent,       \* assetUploadIntents
  grant,        \* where the client's signed URL and its PUT are
  registering,  \* registrations whose object has been verified
  sweep,        \* the upload each clean-up pass is working on
  held,         \* generationJobs.storageReservedBytes
  runHold,      \* flowRuns.storageReservedBytes
  job,          \* the jobs: not admitted, running, ended
  object,       \* the items whose object exists
  writer,       \* the finalizer of each output
  orphans,      \* outputs a terminal clean-up has found without an Asset
  asset,        \* the assets rows
  ingest,       \* the ingestion task of each Asset
  purger        \* the purge task of each Asset

uploadVars == <<intent, grant, registering, sweep>>
jobVars    == <<held, runHold, job, writer, orphans>>
assetVars  == <<asset, ingest, purger>>
vars == <<limit, usage, object, uploadVars, jobVars, assetVars>>

NoSize  == 0            \* sizeBytes is null: no object is empty
Nothing == "nothing"

IntentRow == [status : {"none", "pending", "registered", "expired", "canceled"},
              due : BOOLEAN,        \* coalesce(cleanupNextAt, expiresAt) has passed
              deleted : BOOLEAN]    \* objectDeletedAt
AssetRow  == [state : {"none", "processing", "ready", "failed"},
              purge : {"no", "requested", "purged"},
              size : Nat]
SweepState == [upload : Uploads \cup {Nothing},
               newest : BOOLEAN,    \* cleanupAttemptCount is still that of its claim
               at : {"idle", "claimed", "deleted", "failed"}]

Idle == [upload |-> Nothing, newest |-> FALSE, at |-> "idle"]

Total == usage.used + usage.reserved

Init ==
  /\ limit \in Limits
  /\ usage = [used |-> 0, reserved |-> 0]
  /\ intent = [u \in Uploads |-> [status |-> "none", due |-> FALSE,
                                  deleted |-> FALSE]]
  /\ grant = [u \in Uploads |-> "none"]
  /\ registering = {}
  /\ sweep = [s \in Sweeps |-> Idle]
  /\ held = [j \in Jobs |-> 0] /\ runHold = 0
  /\ job = [j \in Jobs |-> "planned"]
  /\ object = {}
  /\ writer = [o \in Outputs |-> "idle"]
  /\ orphans = {}
  /\ asset = [i \in Items |-> [state |-> "none", purge |-> "no", size |-> NoSize]]
  /\ ingest = [i \in Items |-> "idle"]
  /\ purger = [i \in Items |-> "idle"]

-----------------------------------------------------------------------------
(* Direct uploads: the grant, the client and the registration.             *)

\* createUpload reserves the declared bytes before it signs.
ReserveUpload(u) ==
  /\ intent[u].status = "none"
  /\ Total + Size[u] <= limit
  /\ intent' = [intent EXCEPT ![u].status = "pending"]
  /\ usage' = [usage EXCEPT !.reserved = @ + Size[u]]
  /\ grant' = [grant EXCEPT ![u] = "signing"]
  /\ UNCHANGED <<limit, object, registering, sweep, jobVars, assetVars>>

SignUrl(u) ==
  /\ grant[u] = "signing"
  /\ grant' = [grant EXCEPT ![u] = "granted"]
  /\ UNCHANGED <<limit, usage, object, intent, registering, sweep, jobVars, assetVars>>

\* Signing failed: the hold of an intent that is still pending is given back.
\* The process may also stop here, or the transaction fail; expiry remains.
CancelUnexposed(u) ==
  /\ grant[u] = "signing"
  /\ grant' = [grant EXCEPT ![u] = "gone"]
  /\ \/ /\ intent[u].status = "pending"
        /\ intent' = [intent EXCEPT ![u] = [@ EXCEPT !.status = "canceled", !.deleted = TRUE]]
        /\ usage' = [usage EXCEPT !.reserved = @ - Size[u]]
     \/ UNCHANGED <<intent, usage>>
  /\ UNCHANGED <<limit, object, registering, sweep, jobVars, assetVars>>

\* The signature is valid for five minutes, the intent for at least fifteen;
\* a PUT that has begun may take as long as it likes.
StartPut(u) ==
  /\ grant[u] = "granted" /\ intent[u].status = "pending" /\ ~intent[u].due
  /\ grant' = [grant EXCEPT ![u] = "sending"]
  /\ UNCHANGED <<limit, usage, object, intent, registering, sweep, jobVars, assetVars>>

FinishPut(u) ==
  /\ grant[u] = "sending"
  /\ grant' = [grant EXCEPT ![u] = "sent"]
  /\ object' = object \cup {u}
  /\ UNCHANGED <<limit, usage, intent, registering, sweep, jobVars, assetVars>>

AbandonPut(u) ==
  /\ grant[u] \in {"granted", "sending"}
  /\ grant' = [grant EXCEPT ![u] = "gone"]
  /\ UNCHANGED <<limit, usage, object, intent, registering, sweep, jobVars, assetVars>>

\* Mutation: an intent the clean-up has claimed can still be registered.
RegistrableExpired(u) == intent[u].status \in {"pending", "expired"}

Registrable(u) == intent[u].status = "pending" /\ ~intent[u].due

\* registerUploadedAsset before its transaction: the token, which expires with
\* the intent, is still good, no Asset exists, and the object matches.
VerifyUpload(u) ==
  /\ grant[u] = "sent" /\ u \notin registering
  /\ Registrable(u) /\ u \in object
  /\ registering' = registering \cup {u}
  /\ UNCHANGED <<limit, usage, object, intent, grant, sweep, jobVars, assetVars>>

\* insertUploadedAsset locks the intent; one that expired meanwhile is refused.
RegisterUpload(u) ==
  /\ u \in registering
  /\ registering' = registering \ {u}
  /\ \/ /\ Registrable(u)
        /\ asset' = [asset EXCEPT ![u].state = "processing"]
        /\ intent' = [intent EXCEPT ![u].status = "registered"]
        /\ usage' = [used |-> usage.used + Size[u],
                     reserved |-> usage.reserved - Size[u]]
     \/ ~Registrable(u) /\ UNCHANGED <<asset, intent, usage>>
  /\ UNCHANGED <<limit, object, grant, sweep, jobVars, ingest, purger>>

LoseRegistration(u) ==
  /\ u \in registering
  /\ registering' = registering \ {u}
  /\ UNCHANGED <<limit, usage, object, intent, grant, sweep, jobVars, assetVars>>

-----------------------------------------------------------------------------
(* Clean-up of expired uploads.                                            *)

Unfinished(u) == intent[u].status \in {"pending", "expired"} /\ ~intent[u].deleted

\* Time passes the expiry, the lease of a claim or a backoff.
Lapse(u) ==
  /\ Unfinished(u) /\ ~intent[u].due
  /\ intent' = [intent EXCEPT ![u].due = TRUE]
  /\ UNCHANGED <<limit, usage, object, grant, registering, sweep, jobVars, assetVars>>

ClaimExpired(s, u) ==
  /\ sweep[s] = Idle
  /\ Unfinished(u) /\ intent[u].due
  /\ intent' = [intent EXCEPT ![u] = [@ EXCEPT !.status = "expired", !.due = FALSE]]
  /\ sweep' = [t \in Sweeps |->
       IF t = s THEN [upload |-> u, newest |-> TRUE, at |-> "claimed"]
       ELSE IF sweep[t].upload = u THEN [sweep[t] EXCEPT !.newest = FALSE]
       ELSE sweep[t]]
  /\ UNCHANGED <<limit, usage, object, grant, registering, jobVars, assetVars>>

DeleteExpired(s) ==
  /\ sweep[s].at = "claimed"
  /\ object' = object \ {sweep[s].upload}
  /\ sweep' = [sweep EXCEPT ![s].at = "deleted"]
  /\ UNCHANGED <<limit, usage, intent, grant, registering, jobVars, assetVars>>

FailDeletion(s) ==
  /\ sweep[s].at = "claimed"
  /\ sweep' = [sweep EXCEPT ![s].at = "failed"]
  /\ UNCHANGED <<limit, usage, object, intent, grant, registering, jobVars, assetVars>>

\* Mutation: the flag that the hold is gone is not read again under the lock.
MarkDeletedAgain(s) ==
  /\ sweep[s].at = "deleted"
  /\ sweep' = [sweep EXCEPT ![s] = Idle]
  /\ intent' = [intent EXCEPT ![sweep[s].upload].deleted = TRUE]
  /\ usage' = [usage EXCEPT !.reserved = @ - Size[sweep[s].upload]]
  /\ UNCHANGED <<limit, object, grant, registering, jobVars, assetVars>>

\* The hold goes when the deletion is recorded, and only the first time.
MarkDeleted(s) ==
  LET u == sweep[s].upload IN
  /\ sweep[s].at = "deleted"
  /\ sweep' = [sweep EXCEPT ![s] = Idle]
  /\ \/ /\ intent[u].status = "expired" /\ ~intent[u].deleted
        /\ intent' = [intent EXCEPT ![u] = [@ EXCEPT !.deleted = TRUE, !.due = FALSE]]
        /\ usage' = [usage EXCEPT !.reserved = @ - Size[u]]
     \/ /\ intent[u].status # "expired" \/ intent[u].deleted
        /\ UNCHANGED <<intent, usage>>
  /\ UNCHANGED <<limit, object, grant, registering, jobVars, assetVars>>

\* A failure is put off, unless a later claim has taken the upload over.
DeferCleanup(s) ==
  LET u == sweep[s].upload IN
  /\ sweep[s].at \in {"deleted", "failed"}
  /\ sweep' = [sweep EXCEPT ![s] = Idle]
  /\ \/ /\ intent[u].status = "expired" /\ ~intent[u].deleted /\ sweep[s].newest
        /\ intent' = [intent EXCEPT ![u].due = FALSE]
     \/ /\ intent[u].status # "expired" \/ intent[u].deleted \/ ~sweep[s].newest
        /\ UNCHANGED intent
  /\ UNCHANGED <<limit, usage, object, grant, registering, jobVars, assetVars>>

StopSweep(s) ==
  /\ sweep[s].at # "idle"
  /\ sweep' = [sweep EXCEPT ![s] = Idle]
  /\ UNCHANGED <<limit, usage, object, intent, grant, registering, jobVars, assetVars>>

-----------------------------------------------------------------------------
(* Generated outputs: the hold, the finalizer and the end of the job.      *)

\* reserveRunOutputStorage holds the bytes of all jobs of the run, or none.
ReserveRun ==
  /\ \A j \in Jobs : job[j] = "planned"
  /\ Total + RunTotal <= limit
  /\ held' = Hold /\ runHold' = RunTotal
  /\ usage' = [usage EXCEPT !.reserved = @ + RunTotal]
  /\ job' = [j \in Jobs |-> "running"]
  /\ UNCHANGED <<limit, object, uploadVars, writer, orphans, assetVars>>

\* A job ends, in any way; its worker may not have noticed.
EndJob(j) ==
  /\ job[j] = "running"
  /\ job' = [job EXCEPT ![j] = "ended"]
  /\ UNCHANGED <<limit, usage, object, uploadVars, held, runHold, writer, orphans, assetVars>>

\* releaseNonbillableJobStorage gives back what the outputs did not take.
ReleaseHold(j) ==
  /\ job[j] = "ended" /\ held[j] > 0
  /\ usage' = [usage EXCEPT !.reserved = @ - held[j]]
  /\ runHold' = runHold - held[j]
  /\ held' = [held EXCEPT ![j] = 0]
  /\ UNCHANGED <<limit, object, uploadVars, job, writer, orphans, assetVars>>

\* finalizeMediaOutput looks for an Asset, and puts the object if there is none.
BeginOutput(o) ==
  /\ writer[o] = "idle" /\ job[JobOf[o]] = "running" /\ asset[o].state = "none"
  /\ writer' = [writer EXCEPT ![o] = "began"]
  /\ UNCHANGED <<limit, usage, object, uploadVars, held, runHold, job, orphans, assetVars>>

PutOutput(o) ==
  /\ writer[o] = "began"
  /\ object' = object \cup {o}
  /\ writer' = [writer EXCEPT ![o] = "written"]
  /\ UNCHANGED <<limit, usage, uploadVars, held, runHold, job, orphans, assetVars>>

\* persistAssetOutputIfJobRunning.
CommitAsset(o) ==
  /\ writer[o] = "written" /\ job[JobOf[o]] = "running"
  /\ asset' = [asset EXCEPT ![o].state = "processing"]
  /\ writer' = [writer EXCEPT ![o] = "idle"]
  /\ UNCHANGED <<limit, usage, object, uploadVars, held, runHold, job, orphans, ingest, purger>>

\* The job has ended, or the transaction failed.
RefuseAsset(o) ==
  /\ writer[o] = "written"
  /\ writer' = [writer EXCEPT ![o] = "refused"]
  /\ UNCHANGED <<limit, usage, object, uploadVars, held, runHold, job, orphans, assetVars>>

\* deleteGeneratedObjectIfUncommitted.
DeleteUncommitted(o) ==
  /\ writer[o] = "refused"
  /\ object' = IF asset[o].state = "none" THEN object \ {o} ELSE object
  /\ writer' = [writer EXCEPT ![o] = "idle"]
  /\ UNCHANGED <<limit, usage, uploadVars, held, runHold, job, orphans, assetVars>>

StopWriter(o) ==
  /\ writer[o] # "idle"
  /\ writer' = [writer EXCEPT ![o] = "idle"]
  /\ UNCHANGED <<limit, usage, object, uploadVars, held, runHold, job, orphans, assetVars>>

\* cleanupUncommittedGeneratedOutputObjects: of a closed job, what no Asset owns.
Orphaned(o) == job[JobOf[o]] = "ended" /\ asset[o].state = "none"

FindOrphan(o) ==
  /\ Orphaned(o) /\ o \notin orphans
  /\ orphans' = orphans \cup {o}
  /\ UNCHANGED <<limit, usage, object, uploadVars, held, runHold, job, writer, assetVars>>

DeleteOrphan(o) ==
  /\ o \in orphans
  /\ orphans' = orphans \ {o}
  /\ \/ object' = object \ {o}
     \/ UNCHANGED object
  /\ UNCHANGED <<limit, usage, uploadVars, held, runHold, job, writer, assetVars>>

-----------------------------------------------------------------------------
(* Ingestion.                                                              *)

Live(i) == asset[i].state # "none" /\ asset[i].purge = "no"

\* An attempt reads the row, then downloads and probes the object; without the
\* object, which a purge may have deleted in between, the attempt fails.
ReadAsset(i) ==
  /\ ingest[i] = "idle" /\ Live(i) /\ asset[i].state = "processing"
  /\ i \in object
  /\ ingest' = [ingest EXCEPT ![i] = "processed"]
  /\ UNCHANGED <<limit, usage, object, uploadVars, jobVars, asset, purger>>

Ready(row, i) ==
  [row EXCEPT !.state = IF @ = "processing" THEN "ready" ELSE @, !.size = Size[i]]

\* An upload has paid for its bytes at registration.
IngestUpload(u) ==
  /\ ingest[u] = "processed"
  /\ ingest' = [ingest EXCEPT ![u] = "idle"]
  /\ asset' = IF Live(u) /\ asset[u].state = "processing"
              THEN [asset EXCEPT ![u] = Ready(@, u)] ELSE asset
  /\ UNCHANGED <<limit, usage, object, uploadVars, jobVars, purger>>

Committed(j) == {o \in Outputs : JobOf[o] = j /\ asset[o].size # NoSize}
Planned(j)   == {o \in Outputs : JobOf[o] = j}

\* The part of the hold an output takes over: an even share, the last one all.
Share(o) ==
  held[JobOf[o]] \div Cardinality(Planned(JobOf[o]) \ Committed(JobOf[o]))

\* Mutation: the share is admitted whatever the object needs.
FitsAlways(o) == Share(o) > 0 \/ Total + Size[o] <= limit

\* Bytes beyond the share need room under the current limit.
Fits(o) == Size[o] <= Share(o) \/ Total + (Size[o] - Share(o)) <= limit

\* commitGeneratedAssetStorage with the update of the row, in one transaction.
IngestOutput(o) ==
  /\ ingest[o] = "processed"
  /\ ingest' = [ingest EXCEPT ![o] = "idle"]
  /\ \/ /\ Live(o) /\ asset[o].size = NoSize /\ Fits(o)
        /\ usage' = [used |-> usage.used + Size[o], reserved |-> usage.reserved - Share(o)]
        /\ held' = [held EXCEPT ![JobOf[o]] = @ - Share(o)]
        /\ runHold' = runHold - Share(o)
        /\ asset' = [asset EXCEPT ![o] = Ready(@, o)]
     \/ /\ ~Live(o) \/ asset[o].size # NoSize \/ ~Fits(o)
        /\ UNCHANGED <<usage, held, runHold, asset>>
  /\ UNCHANGED <<limit, object, uploadVars, job, writer, orphans, purger>>

\* Invalid media, or the last attempt: markAssetProcessingFailed.
FailIngest(i) ==
  /\ ingest[i] # "idle"
  /\ ingest' = [ingest EXCEPT ![i] = "idle"]
  /\ asset' = IF Live(i) /\ asset[i].state = "processing"
              THEN [asset EXCEPT ![i].state = "failed"] ELSE asset
  /\ UNCHANGED <<limit, usage, object, uploadVars, jobVars, purger>>

StopIngest(i) ==
  /\ ingest[i] # "idle"
  /\ ingest' = [ingest EXCEPT ![i] = "idle"]
  /\ UNCHANGED <<limit, usage, object, uploadVars, jobVars, asset, purger>>

-----------------------------------------------------------------------------
(* Permanent purge, and the plan.                                          *)

RequestPurge(i) ==
  /\ Live(i)
  /\ asset' = [asset EXCEPT ![i].purge = "requested"]
  /\ UNCHANGED <<limit, usage, object, uploadVars, jobVars, ingest, purger>>

\* purgeAsset, up to the deletion; the storage may refuse.
DeleteAsset(i) ==
  /\ purger[i] = "idle" /\ asset[i].purge = "requested"
  /\ object' = object \ {i}
  /\ purger' = [purger EXCEPT ![i] = "deleted"]
  /\ UNCHANGED <<limit, usage, uploadVars, jobVars, asset, ingest>>

\* Mutation: the row is not marked, and the next purge task releases again.
ReleasePurgedUnmarked(i) ==
  /\ purger[i] = "deleted"
  /\ purger' = [purger EXCEPT ![i] = "idle"]
  /\ usage' = [usage EXCEPT !.used = @ - asset[i].size]
  /\ UNCHANGED <<limit, object, uploadVars, jobVars, asset, ingest>>

\* releasePurgedAssetStorage.
ReleasePurged(i) ==
  /\ purger[i] = "deleted"
  /\ purger' = [purger EXCEPT ![i] = "idle"]
  /\ usage' = [usage EXCEPT !.used = @ - asset[i].size]
  /\ asset' = [asset EXCEPT ![i].purge = "purged"]
  /\ UNCHANGED <<limit, object, uploadVars, jobVars, ingest>>

StopPurge(i) ==
  /\ purger[i] # "idle"
  /\ purger' = [purger EXCEPT ![i] = "idle"]
  /\ UNCHANGED <<limit, usage, object, uploadVars, jobVars, asset, ingest>>

\* An upgrade or a downgrade, decided elsewhere.
ChangePlan ==
  /\ limit' \in Limits \ {limit}
  /\ UNCHANGED <<usage, object, uploadVars, jobVars, assetVars>>

-----------------------------------------------------------------------------
UploadNext(u) ==
  \/ ReserveUpload(u) \/ SignUrl(u) \/ CancelUnexposed(u)
  \/ StartPut(u) \/ FinishPut(u) \/ AbandonPut(u)
  \/ VerifyUpload(u) \/ RegisterUpload(u) \/ LoseRegistration(u)
  \/ Lapse(u) \/ IngestUpload(u)

SweepRuns(s) ==
  DeleteExpired(s) \/ FailDeletion(s) \/ MarkDeleted(s) \/ DeferCleanup(s) \/ StopSweep(s)

SweepNext(s) == (\E u \in Uploads : ClaimExpired(s, u)) \/ SweepRuns(s)

OutputNext(o) ==
  \/ BeginOutput(o) \/ PutOutput(o) \/ CommitAsset(o) \/ RefuseAsset(o)
  \/ DeleteUncommitted(o) \/ StopWriter(o) \/ FindOrphan(o) \/ DeleteOrphan(o)
  \/ IngestOutput(o)

AssetNext(i) ==
  \/ ReadAsset(i) \/ FailIngest(i) \/ StopIngest(i)
  \/ RequestPurge(i) \/ DeleteAsset(i) \/ ReleasePurged(i) \/ StopPurge(i)

Next ==
  \/ \E u \in Uploads : UploadNext(u)
  \/ \E s \in Sweeps : SweepNext(s)
  \/ \E o \in Outputs : OutputNext(o)
  \/ \E i \in Items : AssetNext(i)
  \/ \E j \in Jobs : EndJob(j) \/ ReleaseHold(j)
  \/ ReserveRun \/ ChangePlan

Spec == Init /\ [][Next]_vars

-----------------------------------------------------------------------------
TypeOK ==
  /\ limit \in Limits
  /\ usage \in [used : Nat, reserved : Nat]
  /\ intent \in [Uploads -> IntentRow]
  /\ grant \in [Uploads -> {"none", "signing", "granted", "sending", "sent", "gone"}]
  /\ registering \subseteq Uploads
  /\ sweep \in [Sweeps -> SweepState]
  /\ held \in [Jobs -> Nat] /\ runHold \in Nat
  /\ job \in [Jobs -> {"planned", "running", "ended"}]
  /\ object \subseteq Items
  /\ writer \in [Outputs -> {"idle", "began", "written", "refused"}]
  /\ orphans \subseteq Outputs
  /\ asset \in [Items -> AssetRow]
  /\ ingest \in [Items -> {"idle", "processed"}]
  /\ purger \in [Items -> {"idle", "deleted"}]

\* The bytes an Asset counts with until it is purged: what its row records; a
\* registered upload counts from registration on, before ingestion records its size
\* (reconcileOrganizationStorageUsage, which adds the recorded sizes only, misses it).
AssetBytes(i) ==
  CASE asset[i].purge = "purged" -> 0
    [] i \in Uploads /\ asset[i].state # "none" /\ asset[i].size = NoSize -> Size[i]
    [] OTHER -> asset[i].size

\* Uploads purged before ingestion had recorded their size: releasePurgedAssetStorage
\* finds nothing to give back.
Stranded == {u \in Uploads : asset[u].purge = "purged" /\ asset[u].size = NoSize}

\* The bytes an intent holds.
HeldFor(u) == IF Unfinished(u) THEN Size[u] ELSE 0

\* usedBytes and reservedBytes, which six operations change by differences, are
\* at all times the sums of what uploads, Assets and jobs hold: the Assets are the
\* only authority for stored bytes.  The one exception is named: once an upload is
\* Stranded its bytes stay in usedBytes, and the sum of the Assets is missed.
UsageAddsUp ==
  /\ Stranded = {} => usage.used = SumFunction([i \in Items |-> AssetBytes(i)])
  /\ usage.reserved = SumFunction([u \in Uploads |-> HeldFor(u)]) + SumFunction(held)
  /\ runHold = SumFunction(held)

\* A live Asset has its object: neither the clean-up of expired uploads nor that
\* of uncommitted outputs, which delete after a check, ever hits a committed one.
CommittedHasObject == \A i \in Items : Live(i) => i \in object

\* Whatever adds bytes leaves the organization within its current limit; after
\* a downgrade only steps that add nothing are possible.
QuotaKept == [][Total' > Total => Total' <= limit']_vars
=============================================================================
