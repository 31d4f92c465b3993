------------------------------ MODULE RunEngine ------------------------------
(***************************************************************************)
(* One managed flow run: the PostgreSQL rows of the run and of its         *)
(* generation jobs, the durable parent task that walks the topological     *)
(* levels, one durable child task per job that talks to the paid provider, *)
(* the user who may cancel, and the scheduled reconcilers that repair what *)
(* crashed tasks leave behind.                                             *)
(*                                                                         *)
(* A step is one database transaction (or one call to an external          *)
(* service); tasks may crash between any two of their steps.  Waiting for  *)
(* row locks inside a transaction is left out; what a settlement does to   *)
(* the credits of an organization is the subject of CreditAccounting.      *)
(***************************************************************************)
EXTENDS Naturals

CONSTANTS
  Jobs,            \* the planned jobs, one per executable node
  Depth,           \* number of topological levels of the plan
  Level,           \* Level[j], the level of j's node
  Preds,           \* Preds[j], the jobs whose outputs j reads
  Downstream,      \* Downstream[j], every job that depends on j, directly or not
  JobAttempts,     \* GENERATION_JOB_MAX_ATTEMPTS
  ParentAttempts   \* maxAttempts of the orchestrator task

ASSUME PlanAssumption ==
  /\ Depth \in Nat \ {0}
  /\ Level \in [Jobs -> 1..Depth]
  /\ Preds \in [Jobs -> SUBSET Jobs]
  /\ Downstream \in [Jobs -> SUBSET Jobs]
  /\ \A j \in Jobs : \A p \in Preds[j] : Level[p] < Level[j]
  /\ \A j \in Jobs : \A d \in Downstream[j] : Level[j] < Level[d]

ASSUME AttemptsAssumption ==
  /\ JobAttempts \in Nat \ {0}
  /\ ParentAttempts \in Nat \ {0}

VARIABLES
  run,        \* the flowRuns row
  job,        \* the generationJobs rows
  item,       \* the flowRunNodeItems rows, one per node here; a node row only
              \* ever repeats its one item for the run summary, so it is left out
  asset,      \* the canonical output of each job
  parent,     \* the Trigger run of the orchestrator task
  child,      \* the Trigger runs of the generation-job task
  sweep,      \* the stale-job sweep's local variables
  accepted    \* provider executions started per job: what TaleLabs will be billed

vars == <<run, job, item, asset, parent, child, sweep, accepted>>

Active   == {"pending", "running"}
Final    == {"succeeded", "failed", "canceled"}
RunFinal == Final \cup {"partial"}

NoSweep == [pc |-> "idle"]
Unseen  == [canceled |-> FALSE, pending |-> FALSE, submitted |-> FALSE, ext |-> FALSE]

RunRow  == [status : Active \cup RunFinal, trigger : BOOLEAN, acked : BOOLEAN]
JobRow  == [status : Active \cup Final,
            submitted : BOOLEAN,            \* providerSubmittedAt is not null
            ext : BOOLEAN,                  \* providerJobId is not null
            settlement : {"not_required", "pending", "settled", "unknown"},
            staged : BOOLEAN,               \* completed result checkpointed
            credit : {"reserved", "captured", "released"}]
ItemStatus == Active \cup Final \cup {"skipped"}

ParentPC  == {"none", "queued", "level", "waiting", "failing", "releasing",
              "skipping", "rejecting", "aborting", "closing", "draining", "ended"}
ParentRun == [pc : ParentPC,
              attempt : 1..ParentAttempts,
              level : 1..(Depth + 1),
              batch : SUBSET Jobs,          \* jobs awaited by batchTriggerAndWait
              lost : SUBSET Jobs,           \* children whose result was not a success
              todo : SUBSET Jobs]           \* jobs whose credits are still to be released

ErrorKind == {"none",
              "retry",      \* retryable, submission outcome uncertain
              "fatal",      \* not retryable, not proven unsubmitted
              "refused",    \* definitive refusal, retryable
              "rejected"}   \* definitive refusal, not retryable
ChildPC   == {"none", "queued", "loaded", "ready", "marked", "accepted",
              "polling", "completed", "answered", "output", "ingest", "committing",
              "done", "erred", "resetting", "deciding", "failing", "ended"}
ChildRun  == [pc : ChildPC,
              attempt : 1..JobAttempts,
              err : ErrorKind,
              seen : [canceled : BOOLEAN, pending : BOOLEAN,
                      submitted : BOOLEAN, ext : BOOLEAN],
              ok : BOOLEAN]                 \* the task's output state is 'succeeded'
Sweep     == [pc : {"idle", "orphan", "summary"}] \cup
             [pc : {"marking", "closing"}, job : Jobs, canceled : BOOLEAN, pending : BOOLEAN]

TypeOK ==
  /\ run \in RunRow
  /\ job \in [Jobs -> JobRow]
  /\ item \in [Jobs -> ItemStatus]
  /\ asset \in [Jobs -> {"none", "processing", "ready"}]
  /\ parent \in ParentRun
  /\ child \in [Jobs -> ChildRun]
  /\ sweep \in Sweep
  /\ accepted \in [Jobs -> Nat]

\* The admission transaction commits the run, its jobs and the credit
\* reservation together; nothing has been dispatched yet.
Init ==
  /\ run = [status |-> "pending", trigger |-> FALSE, acked |-> FALSE]
  /\ job = [j \in Jobs |-> [status |-> "pending", submitted |-> FALSE, ext |-> FALSE,
                            settlement |-> "not_required", staged |-> FALSE,
                            credit |-> "reserved"]]
  /\ item = [j \in Jobs |-> "pending"]
  /\ asset = [j \in Jobs |-> "none"]
  /\ parent = [pc |-> "none", attempt |-> 1, level |-> 1,
               batch |-> {}, lost |-> {}, todo |-> {}]
  /\ child = [j \in Jobs |-> [pc |-> "none", attempt |-> 1, err |-> "none",
                              seen |-> Unseen, ok |-> FALSE]]
  /\ sweep = NoSweep
  /\ accepted = [j \in Jobs |-> 0]

-----------------------------------------------------------------------------
(* Helpers shared by the transactions.                                     *)

RunCanceled == run.status = "canceled"
RunActive   == run.status \in Active
JobActive(j) == job[j].status \in Active

\* settleGenerationJobCredits: the first outcome wins, later calls replay it.
Settled(row, outcome) ==
  [row EXCEPT !.credit = IF @ = "reserved" THEN outcome ELSE @]

\* Mutation: a skipped item does not count against success.
StatusOfUnskipped(items) ==
  LET has(S) == \E j \in Jobs : items[j] \in S IN
  IF has(Active) THEN "running"
  ELSE IF has({"succeeded"}) /\ has({"failed", "canceled"}) THEN "partial"
  ELSE IF has({"succeeded"}) THEN "succeeded"
  ELSE IF has({"canceled"}) THEN "canceled"
  ELSE "failed"

\* What the run row becomes once the items are `items`.
StatusOf(items) ==
  LET has(S) == \E j \in Jobs : items[j] \in S IN
  IF has(Active) THEN "running"
  ELSE IF has({"succeeded"}) /\ has({"failed", "canceled", "skipped"}) THEN "partial"
  ELSE IF has({"succeeded"}) THEN "succeeded"
  ELSE IF has({"canceled"}) THEN "canceled"
  ELSE "failed"

\* aggregateGenerationJobState for the jobs S, given the new job rows: an item
\* that was canceled or skipped keeps that status, and so does a canceled run.
Aggregate(S, rows) ==
  /\ item' = [j \in Jobs |->
                IF j \in S /\ item[j] \notin {"canceled", "skipped"}
                THEN rows[j].status ELSE item[j]]
  /\ run' = [run EXCEPT !.status = IF RunCanceled THEN @ ELSE StatusOf(item')]

\* aggregateFlowRunState: recomputes every item, unless the run was canceled.
AggregateRun(rows) ==
  IF RunCanceled THEN UNCHANGED <<run, item>> ELSE Aggregate(Jobs, rows)

Goto(j, pc) == child' = [child EXCEPT ![j].pc = pc]
Throw(j, kind) == child' = [child EXCEPT ![j] = [@ EXCEPT !.pc = "erred", !.err = kind]]
Return(j, ok) ==
  child' = [child EXCEPT ![j] = [@ EXCEPT !.pc = "ended", !.ok = ok,
                                          !.err = "none", !.seen = Unseen]]
RequeueChild(j) ==
  child' = [child EXCEPT ![j] = [@ EXCEPT !.pc = "queued", !.attempt = child[j].attempt + 1,
                                          !.err = "none", !.seen = Unseen]]

\* The job rows with the active ones among S closed as `status`; a settlement
\* still pending on them is recorded as unknown when `resolve` holds.
Closed(S, status, resolve) ==
  [j \in Jobs |->
     IF j \in S /\ JobActive(j)
     THEN [job[j] EXCEPT !.status = status,
                         !.settlement = IF resolve /\ @ = "pending" THEN "unknown" ELSE @]
     ELSE job[j]]

-----------------------------------------------------------------------------
(* Dispatch and cancellation.                                              *)

\* After the admission commit the API triggers the parent; the run id is the
\* idempotency key, so a second trigger finds the first one's run.
ApiDispatch ==
  /\ parent.pc = "none"
  /\ parent' = [parent EXCEPT !.pc = "queued"]
  /\ UNCHANGED <<run, job, item, asset, child, sweep, accepted>>

\* The dispatch reconciler re-triggers a pending run that has no parent yet.
ReconcileDispatch ==
  /\ run.status = "pending" /\ ~run.trigger
  /\ ApiDispatch

\* Either dispatcher stores the handle it got back, if the run is still active.
RecordDispatch ==
  /\ parent.pc # "none" /\ RunActive /\ ~run.trigger
  /\ run' = [run EXCEPT !.trigger = TRUE]
  /\ UNCHANGED <<job, item, asset, parent, child, sweep, accepted>>

\* Mutation: the reconciler is always asked to confirm, even with no parent known.
CancelRunUnconfirmed ==
  /\ RunActive
  /\ run' = [run EXCEPT !.status = "canceled"]
  /\ job' = [j \in Jobs |->
               IF JobActive(j) /\ ~job[j].submitted
               THEN [job[j] EXCEPT !.status = "canceled", !.settlement = "not_required"]
               ELSE job[j]]
  /\ item' = [j \in Jobs |-> IF item[j] \in Active THEN "canceled" ELSE item[j]]
  /\ UNCHANGED <<asset, parent, child, sweep, accepted>>

\* Mutation: submitted jobs are canceled like all others.
CancelRunAndForget ==
  /\ RunActive
  /\ run' = [run EXCEPT !.status = "canceled", !.acked = ~run.trigger]
  /\ job' = [j \in Jobs |->
               IF JobActive(j)
               THEN [job[j] EXCEPT !.status = "canceled", !.settlement = "not_required"]
               ELSE job[j]]
  /\ item' = [j \in Jobs |-> IF item[j] \in Active THEN "canceled" ELSE item[j]]
  /\ UNCHANGED <<asset, parent, child, sweep, accepted>>

\* POST /runs/:id/cancel: the run and all unsubmitted work end at once; a
\* submitted job keeps running until its provider settlement is known.
CancelRun ==
  /\ RunActive
  /\ LET submitted == {j \in Jobs : JobActive(j) /\ job[j].submitted} IN
     run' = [run EXCEPT !.status = "canceled", !.acked = ~run.trigger /\ submitted = {}]
  /\ job' = [j \in Jobs |->
               IF JobActive(j) /\ ~job[j].submitted
               THEN [job[j] EXCEPT !.status = "canceled", !.settlement = "not_required"]
               ELSE job[j]]
  /\ item' = [j \in Jobs |-> IF item[j] \in Active THEN "canceled" ELSE item[j]]
  /\ UNCHANGED <<asset, parent, child, sweep, accepted>>

\* The API right after the commit, or the reconciler later, cancels the parent
\* in Trigger when no submitted job needs it; Trigger cancels its children too.
CancelTrigger ==
  /\ RunCanceled /\ ~run.acked /\ run.trigger
  /\ parent.pc \notin {"none", "ended"}
  /\ ~\E j \in Jobs : JobActive(j) /\ job[j].submitted
  /\ parent' = [parent EXCEPT !.pc = "ended", !.batch = {}, !.lost = {}, !.todo = {}]
  /\ child' = [j \in Jobs |->
                 IF child[j].pc = "none" THEN child[j]
                 ELSE [child[j] EXCEPT !.pc = "ended", !.err = "none", !.seen = Unseen]]
  /\ UNCHANGED <<run, job, item, asset, sweep, accepted>>

-----------------------------------------------------------------------------
(* The child task: one attempt of one generation job.                      *)

\* The attempt takes the job row, or finds that it is no longer active.
ClaimJob(j) ==
  /\ child[j].pc = "queued"
  /\ \/ /\ JobActive(j)
        /\ job' = [job EXCEPT ![j].status = "running"]
        /\ Goto(j, "loaded")
        /\ UNCHANGED <<run, item>>
     \/ /\ job[j].status = "succeeded"          \* finishSucceededJob
        /\ job' = [job EXCEPT ![j] = Settled(@, "captured")]
        /\ Aggregate({j}, job')
        /\ Return(j, TRUE)
     \/ /\ job[j].status \in {"failed", "canceled"}
        /\ Return(j, FALSE)
        /\ UNCHANGED <<run, job, item>>
  /\ UNCHANGED <<asset, parent, sweep, accepted>>

\* A stored request that cannot be read fails the job before any spend.
RejectRequest(j) ==
  /\ child[j].pc = "loaded" /\ child[j].attempt = 1
  /\ IF JobActive(j)
     THEN /\ job' = [job EXCEPT ![j] = Settled([@ EXCEPT !.status = "failed"], "released")]
          /\ Aggregate({j}, job')
     ELSE UNCHANGED <<run, job, item>>
  /\ Return(j, FALSE)
  /\ UNCHANGED <<asset, parent, sweep, accepted>>

\* Mutation: the statuses of the input jobs are not checked.
ResumeJobUnchecked(j) ==
  /\ child[j].pc = "loaded"
  /\ item' = [item EXCEPT ![j] = IF @ = "canceled" THEN @ ELSE "running"]
  /\ IF job[j].staged         THEN Goto(j, "answered")
     ELSE IF job[j].ext       THEN Goto(j, "polling")
     ELSE IF job[j].submitted THEN Throw(j, "fatal")
     ELSE Goto(j, "ready")
  /\ UNCHANGED <<run, job, asset, parent, sweep, accepted>>

\* Inputs that come from other jobs of the run are read from succeeded rows.
\* Then the lifecycle resumes from the furthest durable checkpoint; a marked
\* submission without an external id is never repeated.
ResumeJob(j) ==
  /\ child[j].pc = "loaded"
  /\ IF \E p \in Preds[j] : job[p].status # "succeeded"
     THEN Throw(j, "retry") /\ UNCHANGED item
     ELSE /\ item' = [item EXCEPT ![j] = IF @ = "canceled" THEN @ ELSE "running"]
          /\ IF job[j].staged         THEN Goto(j, "answered")
             ELSE IF job[j].ext       THEN Goto(j, "polling")
             ELSE IF job[j].submitted THEN Throw(j, "fatal")
             ELSE Goto(j, "ready")
  /\ UNCHANGED <<run, job, asset, parent, sweep, accepted>>

\* markProviderSubmissionStarted: the write-ahead marker of the paid call.
MarkSubmission(j) ==
  /\ child[j].pc = "ready"
  /\ IF /\ job[j].status = "running" /\ ~job[j].submitted
        /\ job[j].settlement = "not_required"
     THEN /\ job' = [job EXCEPT ![j] = [@ EXCEPT !.submitted = TRUE, !.settlement = "pending"]]
          /\ Goto(j, "marked")
     ELSE /\ Throw(j, "retry")
          /\ UNCHANGED job
  /\ UNCHANGED <<run, item, asset, parent, sweep, accepted>>

\* The paid call.  The provider starts an execution, whose id may be lost on
\* the way back, or it refuses in a way that proves nothing was started.
Submit(j) ==
  /\ child[j].pc = "marked"
  /\ \/ /\ accepted' = [accepted EXCEPT ![j] = @ + 1]
        /\ Goto(j, "accepted") \/ Throw(j, "retry") \/ Throw(j, "fatal")
     \/ /\ Throw(j, "refused") \/ Throw(j, "rejected")
        /\ UNCHANGED accepted
  /\ UNCHANGED <<run, job, item, asset, parent, sweep>>

\* persistProviderSubmission: the external id makes the execution resumable.
RecordSubmission(j) ==
  /\ child[j].pc = "accepted"
  /\ IF job[j].status = "running" /\ job[j].submitted
     THEN /\ job' = [job EXCEPT ![j].ext = TRUE]
          /\ Goto(j, "polling")
     ELSE /\ Throw(j, "retry")
          /\ UNCHANGED job
  /\ UNCHANGED <<run, item, asset, parent, sweep, accepted>>

\* The bounded poll loop ends with the provider's result, with its failure, with
\* a transport error of the poll itself, or with provider_timeout.
Poll(j) ==
  /\ child[j].pc = "polling"
  /\ Goto(j, "completed") \/ \E kind \in ErrorKind \ {"none"} : Throw(j, kind)
  /\ UNCHANGED <<run, job, item, asset, parent, sweep, accepted>>

\* stageGenerationProviderResult: checkpoint the result before it becomes an
\* Asset; the settlement resolves only when the cost is already known.
StageResult(j) ==
  /\ child[j].pc = "completed"
  /\ IF job[j].status = "running" /\ job[j].settlement # "not_required"
     THEN /\ \E s \in {"settled", "pending", "unknown"} :
               job' = [job EXCEPT ![j] = [@ EXCEPT !.staged = TRUE, !.settlement = s]]
          /\ Goto(j, "answered")
     ELSE /\ Throw(j, "retry")
          /\ UNCHANGED job
  /\ UNCHANGED <<run, item, asset, parent, sweep, accepted>>

\* persistProviderFacts with a late cost, then discardCanceledGenerationResult:
\* a canceled run drops the result, whatever it cost.
AcceptResult(j) ==
  /\ child[j].pc = "answered"
  /\ \E costKnown \in BOOLEAN :
       LET facts == IF costKnown /\ job[j].status = "running"
                    THEN [job EXCEPT ![j].settlement = "settled"] ELSE job
       IN job' = IF RunCanceled /\ JobActive(j)
                 THEN [facts EXCEPT ![j].status = "canceled"] ELSE facts
  /\ IF RunCanceled THEN Return(j, FALSE) ELSE Goto(j, "output")
  /\ UNCHANGED <<run, item, asset, parent, sweep, accepted>>

\* Mutation: the ingestion task is triggered without waiting for it.
PersistOutputNoWait(j) ==
  /\ child[j].pc = "output"
  /\ job[j].status = "running" /\ ~RunCanceled
  /\ asset' = [asset EXCEPT ![j] = IF @ = "none" THEN "processing" ELSE @]
  /\ Goto(j, "committing")
  /\ UNCHANGED <<run, job, item, parent, sweep, accepted>>

\* persistAssetOutputIfJobRunning: one canonical output while run and job are
\* still writable; otherwise the attempt reports 'canceled'.
PersistOutput(j) ==
  /\ child[j].pc = "output"
  /\ IF job[j].status = "running" /\ ~RunCanceled
     THEN /\ asset' = [asset EXCEPT ![j] = IF @ = "none" THEN "processing" ELSE @]
          /\ Goto(j, "ingest")
          /\ UNCHANGED <<run, job, item>>
     ELSE /\ job' = IF RunCanceled THEN Closed({j}, "canceled", FALSE) ELSE job
          /\ Aggregate({j}, job)
          /\ Return(j, FALSE)
          /\ UNCHANGED asset
  /\ UNCHANGED <<parent, sweep, accepted>>

\* The ingestion task makes the Asset usable, or fails the attempt.
IngestOutput(j) ==
  /\ child[j].pc = "ingest"
  /\ \/ /\ asset' = [asset EXCEPT ![j] = "ready"]
        /\ Goto(j, "committing")
     \/ /\ Throw(j, "retry")
        /\ UNCHANGED asset
  /\ UNCHANGED <<run, job, item, parent, sweep, accepted>>

\* Mutation: the run status is not part of the success update.
CompleteJobOverCancel(j) ==
  /\ child[j].pc = "committing"
  /\ IF job[j].status = "running"
     THEN /\ job' = [job EXCEPT ![j] = Settled([@ EXCEPT !.status = "succeeded"], "captured")]
          /\ Goto(j, "done")
     ELSE UNCHANGED job /\ Return(j, FALSE)
  /\ Aggregate({j}, job')
  /\ UNCHANGED <<asset, parent, sweep, accepted>>

\* completeGenerationJob: success and capture in one transaction, unless the
\* run was canceled or somebody else closed the job.
CompleteJob(j) ==
  /\ child[j].pc = "committing"
  /\ \/ /\ job[j].status = "running" /\ ~RunCanceled
        /\ job' = [job EXCEPT ![j] = Settled([@ EXCEPT !.status = "succeeded"], "captured")]
        /\ Goto(j, "done")
     \/ /\ job[j].status = "running" /\ RunCanceled
        /\ job' = [job EXCEPT ![j] = Settled([@ EXCEPT !.status = "canceled"], "released")]
        /\ Return(j, FALSE)
     \/ /\ job[j].status = "succeeded"
        /\ job' = [job EXCEPT ![j] = Settled(@, "captured")]
        /\ Goto(j, "done")
     \/ /\ job[j].status \notin {"running", "succeeded"}
        /\ UNCHANGED job
        /\ Return(j, FALSE)
  /\ Aggregate({j}, job')
  /\ UNCHANGED <<asset, parent, sweep, accepted>>

\* The committed success reaches the parent as the task's output.
ReportSuccess(j) ==
  /\ child[j].pc = "done"
  /\ Return(j, TRUE)
  /\ UNCHANGED <<run, job, item, asset, parent, sweep, accepted>>

-----------------------------------------------------------------------------
(* The child's error handler (catchError): it reads the rows once and acts  *)
(* on what it read in later transactions.                                   *)

\* Mutation: a missing external id alone makes a submission safe to repeat.
SafeToResubmitAny(j) == ~child[j].seen.ext

\* The provider proved that nothing was started, as far as the read row tells.
SafeToResubmit(j) == child[j].err \in {"refused", "rejected"} /\ ~child[j].seen.ext

\* No further attempt will be made for this error.
LastError(j) ==
  child[j].attempt = JobAttempts \/ child[j].err \in {"fatal", "rejected"}

ReadError(j) ==
  /\ child[j].pc = "erred"
  /\ child' = [child EXCEPT ![j] = [@ EXCEPT
                  !.pc = "resetting",
                  !.seen = [canceled  |-> RunCanceled,
                            pending   |-> job[j].settlement = "pending",
                            submitted |-> job[j].submitted,
                            ext       |-> job[j].ext]]]
  /\ UNCHANGED <<run, job, item, asset, parent, sweep, accepted>>

\* A definitive refusal takes the write-ahead marker back.
ResetMarker(j) ==
  /\ child[j].pc = "resetting"
  /\ job' = IF SafeToResubmit(j) /\ job[j].status = "running" /\ ~job[j].ext
            THEN [job EXCEPT ![j] = [@ EXCEPT !.submitted = FALSE, !.settlement = "not_required"]]
            ELSE job
  /\ Goto(j, "deciding")
  /\ UNCHANGED <<run, item, asset, parent, sweep, accepted>>

CancelsUnspent(j) ==
  child[j].seen.canceled /\ (~child[j].seen.submitted \/ SafeToResubmit(j))

\* The run was canceled and nothing was spent: close the job.
CancelErred(j) ==
  /\ child[j].pc = "deciding" /\ CancelsUnspent(j)
  /\ job' = Closed({j}, "canceled", FALSE)
  /\ Return(j, FALSE)
  /\ UNCHANGED <<run, item, asset, parent, sweep, accepted>>

\* A last error closes the settlement the handler saw pending.
SettleErred(j) ==
  /\ child[j].pc = "deciding" /\ ~CancelsUnspent(j) /\ LastError(j)
  /\ \E s \in IF child[j].err = "rejected" THEN {"unknown", "settled"} ELSE {"unknown"} :
       job' = IF child[j].seen.pending /\ job[j].settlement = "pending"
              THEN [job EXCEPT ![j].settlement = s] ELSE job
  /\ Goto(j, "failing")
  /\ UNCHANGED <<run, item, asset, parent, sweep, accepted>>

\* Then discardCanceledGenerationResult or markJobFailed closes the job.
FailErred(j) ==
  /\ child[j].pc = "failing"
  /\ \/ /\ child[j].seen.canceled
        /\ job' = Closed({j}, "canceled", FALSE)
        /\ UNCHANGED <<run, item>>
     \/ /\ ~child[j].seen.canceled /\ JobActive(j)
        /\ job' = [job EXCEPT ![j] = Settled([@ EXCEPT !.status = "failed"], "released")]
        /\ Aggregate({j}, job')
     \/ /\ ~child[j].seen.canceled /\ ~JobActive(j)
        /\ UNCHANGED <<run, job, item>>
  /\ Return(j, FALSE)
  /\ UNCHANGED <<asset, parent, sweep, accepted>>

\* Mutation: the job row is put back whatever happened to it meanwhile.
RetryErredAnyway(j) ==
  /\ child[j].pc = "deciding" /\ ~CancelsUnspent(j) /\ ~LastError(j)
  /\ job' = [job EXCEPT ![j].status = "pending"]
  /\ RequeueChild(j)
  /\ UNCHANGED <<run, item, asset, parent, sweep, accepted>>

\* Any other error goes back to pending and the task is attempted again.
RetryErred(j) ==
  /\ child[j].pc = "deciding" /\ ~CancelsUnspent(j) /\ ~LastError(j)
  /\ job' = IF job[j].status = "running" THEN [job EXCEPT ![j].status = "pending"] ELSE job
  /\ RequeueChild(j)
  /\ UNCHANGED <<run, item, asset, parent, sweep, accepted>>

\* The worker process dies between two steps: Trigger starts the next attempt,
\* or ends the run (attempts used up, maxDuration, machine lost) with no handler.
CrashChild(j) ==
  /\ child[j].pc \notin {"none", "queued", "ended"}
  /\ \/ child[j].attempt < JobAttempts /\ RequeueChild(j)
     \/ Return(j, FALSE)
  /\ UNCHANGED <<run, job, item, asset, parent, sweep, accepted>>

-----------------------------------------------------------------------------
(* The parent task: the orchestrator.                                      *)

ParentAt(pc) == parent.pc = pc
NextLevel == [parent EXCEPT !.pc = "level", !.level = @ + 1,
                            !.batch = {}, !.lost = {}, !.todo = {}]
EndedParent == [parent EXCEPT !.pc = "ended", !.batch = {}, !.lost = {}, !.todo = {}]

\* The parent claims the run as its only Trigger owner, or leaves it alone.
StartParent ==
  /\ ParentAt("queued")
  /\ IF RunActive
     THEN /\ run' = [run EXCEPT !.status = "running", !.trigger = TRUE]
          /\ parent' = [parent EXCEPT !.pc = "level", !.level = 1]
     ELSE /\ parent' = EndedParent
          /\ UNCHANGED run
  /\ UNCHANGED <<job, item, asset, child, sweep, accepted>>

\* A snapshot that fails its integrity check fails all the jobs, then the run.
RejectSnapshot ==
  /\ ParentAt("level") /\ parent.level = 1 /\ \A j \in Jobs : child[j].pc = "none"
  /\ job' = Closed(Jobs, "failed", FALSE)
  /\ parent' = [parent EXCEPT !.pc = "rejecting"]
  /\ UNCHANGED <<run, item, asset, child, sweep, accepted>>

\* One level: every job of the level that is still pending is triggered (its id
\* is the idempotency key) and awaited.
RunLevel ==
  /\ ParentAt("level") /\ parent.level <= Depth
  /\ LET batch == {j \in Jobs : Level[j] = parent.level /\ job[j].status = "pending"} IN
     IF RunCanceled THEN parent' = EndedParent /\ UNCHANGED child
     ELSE IF batch = {} THEN parent' = NextLevel /\ UNCHANGED child
     ELSE /\ parent' = [parent EXCEPT !.pc = "waiting", !.batch = batch]
          /\ child' = [j \in Jobs |-> IF j \in batch /\ child[j].pc = "none"
                                      THEN [child[j] EXCEPT !.pc = "queued"] ELSE child[j]]
  /\ UNCHANGED <<run, job, item, asset, sweep, accepted>>

\* All children of the batch returned: is the run still wanted, who failed?
CollectLevel ==
  /\ ParentAt("waiting")
  /\ \A j \in parent.batch : child[j].pc = "ended"
  /\ LET lost == {j \in parent.batch : ~child[j].ok} IN
     parent' = IF RunCanceled THEN EndedParent
               ELSE IF lost = {} THEN NextLevel
               ELSE [parent EXCEPT !.pc = "failing", !.batch = {}, !.lost = lost]
  /\ UNCHANGED <<run, job, item, asset, child, sweep, accepted>>

\* The jobs without success are failed where they are still active.
FailLost ==
  /\ ParentAt("failing")
  /\ job' = Closed(parent.lost, "failed", FALSE)
  /\ parent' = [parent EXCEPT !.pc = "releasing", !.todo = parent.lost]
  /\ UNCHANGED <<run, item, asset, child, sweep, accepted>>

\* Credits are released job by job, each in its own transaction.
ReleaseCredits(j) ==
  /\ parent.pc \in {"releasing", "skipping", "draining"} /\ j \in parent.todo
  /\ job' = [job EXCEPT ![j] = Settled(@, "released")]
  /\ parent' = [parent EXCEPT !.todo = @ \ {j}]
  /\ UNCHANGED <<run, item, asset, child, sweep, accepted>>

\* skipDescendants, first statement: pending jobs below a lost one are canceled.
SkipJobs ==
  /\ ParentAt("releasing") /\ parent.todo = {}
  /\ LET skipped == {d \in Jobs : /\ job[d].status = "pending"
                                  /\ \E l \in parent.lost : d \in Downstream[l]} IN
     /\ job' = Closed(skipped, "canceled", FALSE)
     /\ parent' = [parent EXCEPT !.pc = "skipping", !.todo = skipped]
  /\ UNCHANGED <<run, item, asset, child, sweep, accepted>>

\* Its last statements, and the aggregation that closes the level.
SkipItems ==
  /\ ParentAt("skipping") /\ parent.todo = {}
  /\ LET skipped == {d \in Jobs : /\ item[d] = "pending"
                                  /\ \E l \in parent.lost : d \in Downstream[l]}
         after == [d \in Jobs |-> IF d \in skipped THEN "skipped"
                                  ELSE IF item[d] \in {"canceled", "skipped"} THEN item[d]
                                  ELSE job[d].status] IN
     IF RunCanceled
     THEN /\ item' = [d \in Jobs |-> IF d \in skipped THEN "skipped" ELSE item[d]]
          /\ UNCHANGED run
     ELSE /\ item' = after
          /\ run' = [run EXCEPT !.status = StatusOf(after)]
  /\ parent' = NextLevel
  /\ UNCHANGED <<job, asset, child, sweep, accepted>>

FinishParent ==
  /\ ParentAt("level") /\ parent.level = Depth + 1
  /\ AggregateRun(job)
  /\ parent' = EndedParent
  /\ UNCHANGED <<job, asset, child, sweep, accepted>>

\* The parent dies or throws: it is attempted again while attempts are left,
\* otherwise it ends, through onFailure when an error was thrown.
CrashParent ==
  /\ parent.pc \in {"level", "waiting", "failing", "releasing", "skipping",
                    "rejecting", "aborting", "closing", "draining"}
  /\ \/ /\ parent.attempt < ParentAttempts
        /\ parent' = [EndedParent EXCEPT !.pc = "queued", !.attempt = @ + 1]
     \/ /\ parent.attempt = ParentAttempts /\ RunActive
        /\ parent.pc \notin {"aborting", "closing", "draining"}
        /\ parent' = [EndedParent EXCEPT !.pc = "aborting"]
     \/ parent' = EndedParent
  /\ UNCHANGED <<run, job, item, asset, child, sweep, accepted>>

\* handleFlowRunOrchestratorFailure fails what is active, summarises, releases.
AbortRun ==
  /\ ParentAt("aborting")
  /\ job' = Closed(Jobs, "failed", FALSE)
  /\ parent' = [parent EXCEPT !.pc = "closing"]
  /\ UNCHANGED <<run, item, asset, child, sweep, accepted>>

\* The summary after all jobs were closed; releaseRunCredits then lists the
\* jobs that still hold credits and settles them one transaction each.
CloseRun ==
  /\ parent.pc \in {"rejecting", "closing"}
  /\ AggregateRun(job)
  /\ parent' = [parent EXCEPT !.pc = "draining",
                              !.todo = {j \in Jobs : job[j].credit = "reserved"}]
  /\ UNCHANGED <<job, asset, child, sweep, accepted>>

FinishDraining ==
  /\ ParentAt("draining") /\ parent.todo = {}
  /\ parent' = EndedParent
  /\ UNCHANGED <<run, job, item, asset, child, sweep, accepted>>

-----------------------------------------------------------------------------
(* The scheduled reconcilers.  One state-repair pass works at a time; it    *)
(* reads rows, asks Trigger for a status, and writes in later transactions, *)
(* so what it read may be stale by then.                                    *)

ParentGone == ParentAt("ended")

\* retireCanceledRunJobs: the parent of a canceled run is gone.
RetireCanceled ==
  /\ RunCanceled /\ ~run.acked /\ run.trigger /\ ParentGone
  /\ job' = Closed(Jobs, "canceled", TRUE)
  /\ UNCHANGED <<run, item, asset, parent, child, sweep, accepted>>

\* Mutation: only the job statuses are checked, not their settlement.
AcknowledgeUnsettled ==
  /\ RunCanceled /\ ~run.acked /\ run.trigger /\ ParentGone
  /\ \A j \in Jobs : ~JobActive(j)
  /\ run' = [run EXCEPT !.acked = TRUE]
  /\ UNCHANGED <<job, item, asset, parent, child, sweep, accepted>>

\* acknowledgeCanceledRun: nothing is left to wait for.
Acknowledge ==
  /\ RunCanceled /\ ~run.acked /\ run.trigger /\ ParentGone
  /\ \A j \in Jobs : ~JobActive(j) /\ job[j].settlement # "pending"
  /\ run' = [run EXCEPT !.acked = TRUE]
  /\ UNCHANGED <<job, item, asset, parent, child, sweep, accepted>>

\* claimDispatchedFlowRuns lists an active run with a parent ...
ClaimDispatched ==
  /\ sweep.pc = "idle" /\ RunActive /\ run.trigger
  /\ sweep' = [pc |-> "orphan"]
  /\ UNCHANGED <<run, job, item, asset, parent, child, accepted>>

\* Mutation: pending jobs of the orphaned run are left alone.
FailOrphanedRunning ==
  /\ sweep.pc = "orphan"
  /\ IF ParentGone THEN /\ job' = Closed({j \in Jobs : job[j].status = "running"}, "failed", TRUE)
                        /\ sweep' = [pc |-> "summary"]
                   ELSE /\ UNCHANGED job
                        /\ sweep' = NoSweep
  /\ UNCHANGED <<run, item, asset, parent, child, accepted>>

\* ... and failActiveFlowRunJobs closes it if that parent turns out terminal.
FailOrphaned ==
  /\ sweep.pc = "orphan"
  /\ IF ParentGone THEN /\ job' = Closed(Jobs, "failed", TRUE)
                        /\ sweep' = [pc |-> "summary"]
                   ELSE /\ UNCHANGED job
                        /\ sweep' = NoSweep
  /\ UNCHANGED <<run, item, asset, parent, child, accepted>>

\* claimStaleGenerationJobs: a job that has been running for 15 minutes, in an
\* active run or with a settlement pending in a canceled one.
StaleClaim(j) ==
  /\ sweep.pc = "idle" /\ job[j].status = "running"
  /\ \/ RunActive
     \/ RunCanceled /\ job[j].submitted /\ job[j].settlement = "pending"
  /\ sweep' = [pc |-> "marking", job |-> j, canceled |-> RunCanceled,
               pending |-> job[j].settlement = "pending"]
  /\ UNCHANGED <<run, job, item, asset, parent, child, accepted>>

\* Trigger still works on the job, or the pending settlement becomes unknown.
StaleMark ==
  /\ sweep.pc = "marking"
  /\ LET j == sweep.job IN
     IF child[j].pc # "ended"
     THEN sweep' = NoSweep /\ UNCHANGED job
     ELSE /\ job' = IF sweep.pending /\ job[j].settlement = "pending"
                    THEN [job EXCEPT ![j].settlement = "unknown"] ELSE job
          /\ sweep' = [sweep EXCEPT !.pc = "closing"]
  /\ UNCHANGED <<run, item, asset, parent, child, accepted>>

\* The job ends as the run looked when it was claimed.
StaleClose ==
  /\ sweep.pc = "closing"
  /\ LET j == sweep.job IN
     IF sweep.canceled /\ sweep.pending
     THEN /\ job' = Closed({j}, "canceled", FALSE)
          /\ sweep' = NoSweep
     ELSE /\ job' = IF job[j].status = "running"
                    THEN [job EXCEPT ![j].status = "failed"] ELSE job
          /\ sweep' = [pc |-> "summary"]
  /\ UNCHANGED <<run, item, asset, parent, child, accepted>>

SweepSummary ==
  /\ sweep.pc = "summary"
  /\ AggregateRun(job)
  /\ sweep' = NoSweep
  /\ UNCHANGED <<job, asset, parent, child, accepted>>

\* The reconciler process dies; the next scheduled pass starts over.
CrashSweep ==
  /\ sweep.pc # "idle"
  /\ sweep' = NoSweep
  /\ UNCHANGED <<run, job, item, asset, parent, child, accepted>>

\* settleCanceledRunCredits, one job: everything unsettled of a canceled run is
\* released, submitted work included.
SettleCanceled(j) ==
  /\ RunCanceled /\ job[j].credit = "reserved"
  /\ job' = [job EXCEPT ![j] = Settled(@, "released")]
  /\ UNCHANGED <<run, item, asset, parent, child, sweep, accepted>>

\* Mutation: only successful jobs are swept.
SettleSweepSucceeded(j) ==
  /\ job[j].status = "succeeded" /\ job[j].credit = "reserved"
  /\ job' = [job EXCEPT ![j] = Settled(@, "captured")]
  /\ UNCHANGED <<run, item, asset, parent, child, sweep, accepted>>

\* reconcileBillingSettlementsTask, one terminal job that still holds credits.
SettleSweep(j) ==
  /\ ~JobActive(j) /\ job[j].credit = "reserved"
  /\ job' = [job EXCEPT ![j] = Settled(@, IF @.status = "succeeded"
                                          THEN "captured" ELSE "released")]
  /\ UNCHANGED <<run, item, asset, parent, child, sweep, accepted>>

\* Provider accounting finds the cost of completed work, or exhausts its
\* attempts.  Without the generation id it needs, a job is never looked up.
AccountCost(j) ==
  /\ ~JobActive(j) /\ job[j].staged /\ job[j].settlement = "pending"
  /\ \E s \in {"settled", "unknown"} : job' = [job EXCEPT ![j].settlement = s]
  /\ UNCHANGED <<run, item, asset, parent, child, sweep, accepted>>

-----------------------------------------------------------------------------
Child(j) ==
  \/ ClaimJob(j) \/ RejectRequest(j) \/ ResumeJob(j)
  \/ MarkSubmission(j) \/ Submit(j) \/ RecordSubmission(j) \/ Poll(j)
  \/ StageResult(j) \/ AcceptResult(j)
  \/ PersistOutput(j) \/ IngestOutput(j) \/ CompleteJob(j) \/ ReportSuccess(j)
  \/ ReadError(j) \/ ResetMarker(j) \/ CancelErred(j)
  \/ SettleErred(j) \/ FailErred(j) \/ RetryErred(j)

Parent ==
  \/ StartParent \/ RejectSnapshot \/ RunLevel \/ CollectLevel \/ FailLost
  \/ (\E j \in Jobs : ReleaseCredits(j))
  \/ SkipJobs \/ SkipItems \/ FinishParent
  \/ AbortRun \/ CloseRun \/ FinishDraining

Dispatch == ApiDispatch \/ ReconcileDispatch \/ RecordDispatch

Repair == ClaimDispatched \/ FailOrphaned \/ StaleMark \/ StaleClose \/ SweepSummary

Cancellation == CancelTrigger \/ RetireCanceled \/ Acknowledge

Next ==
  \/ Dispatch \/ CancelRun \/ Cancellation
  \/ Parent \/ CrashParent
  \/ Repair \/ CrashSweep
  \/ \E j \in Jobs : \/ Child(j) \/ CrashChild(j) \/ StaleClaim(j)
                     \/ SettleCanceled(j) \/ SettleSweep(j) \/ AccountCost(j)

Spec == Init /\ [][Next]_vars

\* Trigger runs the tasks it holds and the schedules keep firing, so each task
\* takes its next step; users, crashes and the first dispatch owe nothing.  A
\* repair pass may crash, but not every pass at the same place forever.
Progress ==
  /\ WF_vars(Parent)
  /\ \A j \in Jobs : WF_vars(Child(j))
  /\ WF_vars(ReconcileDispatch)
  /\ SF_vars(ClaimDispatched) /\ SF_vars(FailOrphaned) /\ SF_vars(SweepSummary)
  /\ WF_vars(StaleMark \/ StaleClose)

\* So do the schedules that settle and acknowledge.
Settling ==
  /\ \A j \in Jobs : WF_vars(SettleSweep(j)) /\ WF_vars(AccountCost(j))
  /\ WF_vars(CancelTrigger) /\ WF_vars(RetireCanceled) /\ WF_vars(Acknowledge)

Fairness == Progress /\ Settling

ProgressSpec == Spec /\ Progress

FairSpec == Spec /\ Fairness

-----------------------------------------------------------------------------
(* Properties that hold.                                                   *)

\* Customers pay exactly for the jobs that succeeded, in every reachable state:
\* no race of completion with cancellation, the error handler, the parent or a
\* settlement sweep captures for anything else or releases a success.
CaptureIffSucceeded ==
  \A j \in Jobs : job[j].credit = "captured" <=> job[j].status = "succeeded"

\* No job is executed twice at the provider, although tasks crash and retry
\* between every two steps around the paid call.
AtMostOneSubmission == \A j \in Jobs : accepted[j] <= 1

\* Money spent at the provider is visible in the job row: the write-ahead marker
\* and a settlement status survive everything that can follow the call.
SpendIsTracked ==
  \A j \in Jobs : accepted[j] > 0 => job[j].submitted /\ job[j].settlement # "not_required"

\* A finished job keeps its outcome, against error handlers and reconcilers
\* that act on what they read several steps ago.
JobOutcomeFinal ==
  [][\A j \in Jobs : job[j].status \in Final => job'[j].status = job[j].status]_vars

\* An acknowledged cancellation has nothing left to do: later steps of zombie
\* tasks reopen neither a job nor its provider settlement.
AckedIsQuiet ==
  run.acked => \A j \in Jobs : ~JobActive(j) /\ job[j].settlement # "pending"

\* The provider is paid only for a job whose inputs all exist.
PaidAfterInputs ==
  \A j \in Jobs : accepted[j] > 0 => \A p \in Preds[j] : job[p].status = "succeeded"

\* A job succeeds only with its canonical output usable.
SuccessIsUsable == \A j \in Jobs : job[j].status = "succeeded" => asset[j] = "ready"

\* A run reports success only for its whole plan, and partial success only with
\* a success in it, whichever of the tasks, error handlers and reconcilers wrote
\* the rows and the summary, and however late.
SummaryIsHonest ==
  /\ run.status = "succeeded" => \A j \in Jobs : job[j].status = "succeeded"
  /\ run.status = "partial" => \E j \in Jobs : job[j].status = "succeeded"

\* Every run ends, though both task kinds and the reconcilers may crash.
RunEnds == <>(run.status \in RunFinal)

\* The credits of a finished job do not stay reserved.
CreditsSettle == \A j \in Jobs : job[j].status \in Final ~> job[j].credit # "reserved"

\* A cancellation is eventually acknowledged, except when a job was closed with
\* its settlement pending and no checkpoint to account from (see SettlementEnds).
CancellationAcknowledged ==
  RunCanceled ~> \/ run.acked
                 \/ \E j \in Jobs : /\ ~JobActive(j) /\ ~job[j].staged
                                    /\ job[j].settlement = "pending"

\* The rows implement the promise made about every job.
Promise == INSTANCE JobPromise WITH
  outcome   <- [j \in Jobs |-> IF JobActive(j) THEN "open" ELSE job[j].status],
  credit    <- [j \in Jobs |-> job[j].credit],
  announced <- [j \in Jobs |-> job[j].submitted],
  spent     <- accepted
KeepsPromise == Promise!Spec

-----------------------------------------------------------------------------
(* Statements of the documentation that the code does not keep.            *)

\* "providerSettlementStatus ... ends as settled or explicitly unknown": but a
\* task that dies after the marker, or a failed parent, leaves it pending.
SettlementEnds ==
  \A j \in Jobs : job[j].settlement = "pending" ~> job[j].settlement # "pending"
=============================================================================
