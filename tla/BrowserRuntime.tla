--------------------------- MODULE BrowserRuntime ---------------------------
(***************************************************************************)
(* A flow run that browsers execute.  A tab leases the run, claims its     *)
(* jobs, calls the paid provider with the user's own key, moves the output *)
(* into storage and reports; PostgreSQL holds every fact.  The lease lasts *)
(* 45 seconds: a tab that is closed, reloaded or asleep loses it, another  *)
(* one takes over with the next fence, and what the first one still sends  *)
(* must change nothing.                                                    *)
(*                                                                         *)
(* A step is one API request, whose transaction holds the advisory lock of *)
(* the run; a worker may be overtaken between any two of its requests.     *)
(* Every job has one output and runs in live mode.                         *)
(***************************************************************************)
EXTENDS Naturals

CONSTANTS
  Jobs,             \* the planned jobs, one per executable node
  Preds,            \* Preds[j], the jobs whose outputs j reads
  Downstream,       \* Downstream[j], every job that depends on j, directly or not
  Sessions,         \* executor sessions, numbered as they start: one mount of the
                    \* browser-run root each
  Tabs,             \* executor ids; a tab that is reloaded keeps its id
  TabChoices,       \* the ways in which sessions may belong to tabs
  JobMaxAttempts,   \* BROWSER_JOB_MAX_ATTEMPTS
  MaxFence          \* bound: how many times the lease may start anew

ASSUME BrowserPlanAssumption ==
  /\ Preds \in [Jobs -> SUBSET Jobs]
  /\ Downstream \in [Jobs -> SUBSET Jobs]
  /\ \A j \in Jobs : j \notin Preds[j] /\ j \notin Downstream[j]
  /\ \A j \in Jobs : \A p \in Preds[j] : j \in Downstream[p]

ASSUME BrowserBoundAssumption ==
  /\ Sessions \subseteq Nat
  /\ TabChoices \subseteq [Sessions -> Tabs]
  /\ JobMaxAttempts \in Nat \ {0} /\ MaxFence \in Nat \ {0}

VARIABLES
  run,        \* the flowRuns row
  lease,      \* the flowRunBrowserLeases row; a terminal run's row is deleted
  job,        \* the generationJobs rows
  asset,      \* the canonical output of each job
  tab,        \* tab[s], the executor id of session s: chosen once
  session,    \* the coordinators and the fence each believes to hold
  worker,     \* worker[s][j], s's execution of a claim of j
  accepted    \* provider executions started per job

rows == <<run, lease, job, asset, accepted>>
vars == <<run, lease, job, asset, tab, session, worker, accepted>>

Active   == {"pending", "running"}
Final    == {"succeeded", "failed", "canceled"}

NoTab    == "nobody"

RunRow   == [status : Active \cup Final \cup {"partial"}, reconciled : BOOLEAN]
LeaseRow == [active : BOOLEAN, executor : Tabs \cup {NoTab}, fence : 0..MaxFence]
JobRow   == [status : Active \cup Final,
             submission : {"not_started", "submitting", "submitted"},
             marked : BOOLEAN,               \* providerSubmittedAt is not null
             ext : BOOLEAN,                  \* providerJobId is not null
             fence : 0..MaxFence,            \* browserFenceToken
             attempts : 0..JobMaxAttempts,   \* browserAttemptCount
             cancel : {"none", "requested", "final"},
             settlement : {"not_required", "pending", "unknown"},
             credit : {"reserved", "captured", "released"}]
ErrorKind == {"none",
              "retry",      \* a retryable code, nothing proven about the submission
              "fatal",      \* any other failure
              "limited",    \* rate limited, and proven not to be submitted
              "rejected"}   \* refused for good, and proven not to be submitted
WorkerPC == {"none", "claimed", "begun", "accepted", "polling", "result",
             "outputs", "completing", "erred"}
Worker   == [pc : WorkerPC, fence : 0..MaxFence, err : ErrorKind]
NoWorker == [pc |-> "none", fence |-> 0, err |-> "none"]

TypeOK ==
  /\ run \in RunRow
  /\ lease \in LeaseRow
  /\ job \in [Jobs -> JobRow]
  /\ asset \in [Jobs -> {"none", "processing", "ready", "failed"}]
  /\ tab \in TabChoices
  /\ session \in [Sessions -> [state : {"fresh", "on", "gone"}, fence : 0..MaxFence]]
  /\ worker \in [Sessions -> [Jobs -> Worker]]
  /\ accepted \in [Jobs -> Nat]

Init ==
  /\ run = [status |-> "pending", reconciled |-> FALSE]
  /\ lease = [active |-> FALSE, executor |-> NoTab, fence |-> 0]
  /\ job = [j \in Jobs |-> [status |-> "pending", submission |-> "not_started",
                            marked |-> FALSE, ext |-> FALSE, fence |-> 0,
                            attempts |-> 0, cancel |-> "none",
                            settlement |-> "not_required", credit |-> "reserved"]]
  /\ asset = [j \in Jobs |-> "none"]
  /\ tab \in TabChoices
  /\ session = [s \in Sessions |-> [state |-> "fresh", fence |-> 0]]
  /\ worker = [s \in Sessions |-> [j \in Jobs |-> NoWorker]]
  /\ accepted = [j \in Jobs |-> 0]

-----------------------------------------------------------------------------
(* What the requests share.                                                *)

RunActive    == run.status \in Active
RunCanceled  == run.status = "canceled"
JobActive(j) == job[j].status \in Active
InFlight(s)  == {j \in Jobs : worker[s][j].pc # "none"}

\* A browser may still work on the run: it is active, or canceled with provider
\* cancellations to acknowledge.
RunOpen == RunActive \/ (RunCanceled /\ ~run.reconciled)

\* withBrowserRunLease for a request that carries the tab's id and a fence.
HoldsLease(s, fence) ==
  /\ RunOpen /\ lease.active
  /\ lease.executor = tab[s] /\ lease.fence = fence

\* withBrowserJob: besides, the job was claimed under that very fence.
HoldsJob(s, j) ==
  HoldsLease(s, worker[s][j].fence) /\ job[j].fence = worker[s][j].fence

\* aggregateFlowRunState of a run that was not canceled; there, a canceled job is
\* one that skipDescendants skipped.
StatusOf(jobs) ==
  LET has(S) == \E j \in Jobs : jobs[j].status \in S IN
  IF has(Active) THEN "running"
  ELSE IF ~has({"succeeded"}) THEN "failed"
  ELSE IF has({"failed", "canceled"}) THEN "partial"
  ELSE "succeeded"

\* The aggregation of a request and retireBrowserRunLeaseIfTerminal after it.
AggregateAndRetire(jobs) ==
  /\ run' = [run EXCEPT !.status = IF RunCanceled THEN @ ELSE StatusOf(jobs)]
  /\ lease' = [lease EXCEPT !.active = @ /\ (run'.status \in Active \/ RunCanceled)]

\* settleReadyBrowserJob: the settlement is written whatever the status, the
\* success and the capture only over a running job.
Succeeded(row) ==
  LET settled == [row EXCEPT !.settlement = IF row.marked THEN "unknown" ELSE "not_required"] IN
  IF row.status = "running"
  THEN [settled EXCEPT !.status = "succeeded", !.credit = "captured"] ELSE settled

\* markJobFailed: an active job fails and its credits are released.
Failed(row) ==
  [row EXCEPT !.status = "failed", !.credit = IF @ = "reserved" THEN "released" ELSE @]

\* finalizeCanceledBrowserJob: the late result of a canceled run is discarded.
Discarded(row) ==
  [row EXCEPT !.settlement = IF row.marked THEN "unknown" ELSE "not_required",
              !.status = IF @ \in Active THEN "canceled" ELSE @]

\* skipDescendants: pending jobs below a failed one are canceled and released.
Skip(jobs, failed) ==
  [d \in Jobs |->
     IF jobs[d].status = "pending" /\ \E f \in failed : d \in Downstream[f]
     THEN [jobs[d] EXCEPT !.status = "canceled",
                          !.credit = IF @ = "reserved" THEN "released" ELSE @]
     ELSE jobs[d]]

Goto(s, j, pc)  == worker' = [worker EXCEPT ![s][j].pc = pc]
Throw(s, j, k)  == worker' = [worker EXCEPT ![s][j] = [@ EXCEPT !.pc = "erred", !.err = k]]
Leave(s, j)     == worker' = [worker EXCEPT ![s][j] = NoWorker]

-----------------------------------------------------------------------------
(* Sessions and their lease.                                               *)

\* The executor root mounts.  Coordinators of one tab exclude each other through
\* the Web Lock; those of different devices do not.
Start(s) ==
  /\ session[s].state = "fresh" /\ \A o \in Sessions : o < s => session[o].state # "fresh"
  /\ \A o \in Sessions : session[o].state = "on" => tab[o] # tab[s]
  /\ session' = [session EXCEPT ![s].state = "on"]
  /\ UNCHANGED <<rows, tab, worker>>

\* It unmounts, or its tab is reloaded or closed.  A request already sent may
\* still arrive.  Bound: some session is still to come or stays, and the tab with the
\* last lease does.
Stop(s) ==
  /\ session[s].state = "on" /\ ~(lease.fence = MaxFence /\ lease.executor = tab[s])
  /\ \E o \in Sessions \ {s} : session[o].state # "gone"
  /\ session' = [session EXCEPT ![s] = [state |-> "gone", fence |-> 0]]
  /\ \E lost \in SUBSET InFlight(s) :
       worker' = [worker EXCEPT ![s] = [j \in Jobs |-> IF j \in lost THEN NoWorker ELSE @[j]]]
  /\ UNCHANGED <<rows, tab>>

\* What an unmounted session has sent is given up.
Vanish(s, j) ==
  /\ session[s].state = "gone" /\ worker[s][j].pc # "none"
  /\ Leave(s, j)
  /\ UNCHANGED <<rows, tab, session>>

\* acquireBrowserRunLease: nobody takes over an active lease; an expired one is
\* given out with the next fence.
AcquireLease(s) ==
  /\ session[s].state = "on" /\ RunOpen
  /\ lease.active => lease.executor = tab[s] /\ session[s].fence # lease.fence
  /\ LET fence == IF lease.active THEN lease.fence ELSE lease.fence + 1 IN
     /\ lease' = [active |-> TRUE, executor |-> tab[s], fence |-> fence]
     /\ session' = [session EXCEPT ![s].fence = fence]
  /\ UNCHANGED <<run, job, asset, accepted, tab, worker>>

\* releaseBrowserRunLease, after an error of the pass or on the way out: it ends
\* the lease of that fence only.  Bound: not the last fence.
ReleaseLease(s) ==
  /\ session[s].fence \in 1..(MaxFence - 1)
  /\ lease.active /\ lease.executor = tab[s] /\ lease.fence = session[s].fence
  /\ lease' = [lease EXCEPT !.active = FALSE]
  /\ session' = [session EXCEPT ![s].fence = 0]
  /\ UNCHANGED <<run, job, asset, accepted, tab, worker>>

\* 45 seconds pass without a renewal.  Bound: not under the last fence.
ExpireLease ==
  /\ lease.active /\ lease.fence < MaxFence
  /\ lease' = [lease EXCEPT !.active = FALSE]
  /\ UNCHANGED <<run, job, asset, accepted, tab, session, worker>>

-----------------------------------------------------------------------------
(* Claiming work: one transaction under the fence.                          *)

Readiness(j) == IF asset[j] = "none" THEN "incomplete" ELSE asset[j]

\* A submission whose outcome nobody can learn any more.
Uncertain(row) ==
  /\ row.status = "running"
  /\ row.submission = "submitting" \/ (row.submission = "submitted" /\ ~row.ext)

\* reconcileBrowserOutputProcessing: outputs that became usable, or did not, since
\* their worker left.
Reconciled(s) ==
  LET left == {j \in Jobs \ InFlight(s) : job[j].status = "running"}
      failed == {j \in left : Readiness(j) = "failed"} IN
  Skip([j \in Jobs |-> IF j \in left /\ Readiness(j) = "ready" THEN Succeeded(job[j])
                       ELSE IF j \in failed THEN Failed(job[j]) ELSE job[j]], failed)

Protected(s) ==
  InFlight(s) \cup {j \in Jobs : job[j].status = "running" /\ Readiness(j) = "processing"}

\* Mutation: an input counts as complete as soon as an output of its job is stored.
CandidatesAfterAny(s, jobs) ==
  {j \in Jobs \ Protected(s) :
     /\ jobs[j].status \in Active
     /\ jobs[j].submission # "submitting"
     /\ ~(jobs[j].submission = "submitted" /\ ~jobs[j].ext)
     /\ jobs[j].status = "running" \/ \A p \in Preds[j] : asset[p] # "none"}

\* Mutation: a submission of another session counts as a failure like any other,
\* and its job as work to be done again.
ResolveUncertainAgain(s, jobs) ==
  [j \in Jobs |->
     IF Uncertain(jobs[j]) /\ ~(j \in Protected(s) /\ jobs[j].fence = session[s].fence)
     THEN [jobs[j] EXCEPT !.status = "pending", !.submission = "not_started",
                          !.marked = FALSE, !.settlement = "not_required"]
     ELSE jobs[j]]

\* Mutation: an uncertain submission is left for later.
ResolveUncertainNever(s, jobs) == jobs

\* failUncertainSubmissions: fails them unless this very fence is at work on them.
ResolveUncertain(s, jobs) ==
  LET failed == {j \in Jobs : /\ Uncertain(jobs[j])
                              /\ ~(j \in Protected(s) /\ jobs[j].fence = session[s].fence)} IN
  Skip([j \in Jobs |-> IF j \in failed
                       THEN [Failed(jobs[j]) EXCEPT !.settlement = "unknown"] ELSE jobs[j]], failed)

\* selectClaimCandidates: resumable jobs, and new ones whose inputs are complete.
Candidates(s, jobs) ==
  {j \in Jobs \ Protected(s) :
     /\ jobs[j].status \in Active
     /\ jobs[j].submission # "submitting"
     /\ ~(jobs[j].submission = "submitted" /\ ~jobs[j].ext)
     /\ jobs[j].status = "running" \/ \A p \in Preds[j] : jobs[p].status = "succeeded"}

\* resolveSameRunAsset: the outputs a claim hands over as inputs can be read.
InputsThere(j) == \A p \in Preds[j] : asset[p] = "ready"

\* claimBrowserRunJobs with the coordinator's limit of one job.
ClaimJobs(s) ==
  /\ session[s].state = "on" /\ RunActive /\ HoldsLease(s, session[s].fence)
  /\ LET jobs == ResolveUncertain(s, Reconciled(s)) IN
     \/ \* nothing to claim now; a job put back for a retry may not be eligible yet
        /\ \A j \in Candidates(s, jobs) : jobs[j].status = "pending" /\ jobs[j].attempts > 0
        /\ job' = jobs
        /\ UNCHANGED worker
     \/ \E j \in Candidates(s, jobs) :
          /\ InputsThere(j)
          /\ job' = [jobs EXCEPT ![j] =
                       [@ EXCEPT !.status = "running", !.fence = session[s].fence,
                                 !.attempts = IF jobs[j].status = "pending"
                                              THEN jobs[j].attempts + 1 ELSE jobs[j].attempts]]
          /\ worker' = [worker EXCEPT ![s][j] =
                          [pc |-> IF jobs[j].ext THEN "polling" ELSE "claimed",
                           fence |-> session[s].fence, err |-> "none"]]
     \/ \E j \in Candidates(s, jobs) :      \* a binding that no browser can execute
          /\ jobs[j].attempts = 0
          /\ job' = Skip([jobs EXCEPT ![j] = Failed(@)], {j})
          /\ UNCHANGED worker
  /\ IF job' = job THEN UNCHANGED <<run, lease>> ELSE AggregateAndRetire(job')
  /\ UNCHANGED <<asset, accepted, tab, session>>

\* An input of the job to claim was deleted: the whole transaction rolls back, what
\* it had reconciled included; the coordinator gives its lease up, a request that may
\* get lost, and tries again on its next pass.  Bound: the last lease is kept.
ClaimFails(s) ==
  /\ session[s].state = "on" /\ RunActive /\ HoldsLease(s, session[s].fence)
  /\ \E j \in Candidates(s, ResolveUncertain(s, Reconciled(s))) : ~InputsThere(j)
  /\ \E kept \in BOOLEAN :
       /\ kept \/ lease.fence < MaxFence
       /\ lease' = [lease EXCEPT !.active = kept]
  /\ session' = [session EXCEPT ![s].fence = 0]
  /\ UNCHANGED <<run, job, asset, accepted, tab, worker>>

-----------------------------------------------------------------------------
(* A worker executes one claim: executeBrowserJob.                          *)

\* Before the paid call: a missing credential, a request that cannot be prepared.
Abandon(s, j) ==
  /\ worker[s][j].pc = "claimed"
  /\ Throw(s, j, "fatal")
  /\ UNCHANGED <<rows, tab, session>>

\* beginBrowserJobSubmission opens the one-shot submission boundary; its answer
\* may get lost.
Begin(s, j) ==
  /\ worker[s][j].pc = "claimed"
  /\ IF /\ HoldsJob(s, j) /\ job[j].status = "running"
        /\ job[j].submission = "not_started" /\ ~job[j].marked
     THEN /\ job' = [job EXCEPT ![j] = [@ EXCEPT !.submission = "submitting", !.marked = TRUE,
                                                 !.settlement = "pending"]]
          /\ Goto(s, j, "begun") \/ Throw(s, j, "fatal")
     ELSE Throw(s, j, "fatal") /\ UNCHANGED job
  /\ UNCHANGED <<run, lease, asset, accepted, tab, session>>

\* The paid call, or none when the client's clock says that the lease is over.  The
\* execution that starts is asynchronous or its result is the answer, which may get
\* lost; a refusal proves that nothing started.  An unmounted session aborts it.
Submit(s, j) ==
  /\ worker[s][j].pc = "begun" /\ session[s].state = "on"
  /\ \/ /\ accepted' = [accepted EXCEPT ![j] = @ + 1]
        /\ \/ \E pc \in {"accepted", "result"} : Goto(s, j, pc)
           \/ \E k \in {"retry", "fatal"} : Throw(s, j, k)
     \/ /\ \E k \in {"limited", "rejected"} : Throw(s, j, k)
        /\ UNCHANGED accepted
     \/ /\ ~(lease.active /\ lease.fence = worker[s][j].fence)
        /\ Throw(s, j, "fatal")
        /\ UNCHANGED accepted
  /\ UNCHANGED <<run, lease, job, asset, tab, session>>

\* checkpointBrowserJob, with the id of an asynchronous execution or with a result.
\* A canceled job still learns the id, so that its execution can be canceled; the
\* worker reads the manifest afterwards and stops.
Checkpoint(s, j) ==
  /\ worker[s][j].pc \in {"accepted", "result"}
  /\ IF HoldsJob(s, j) /\ job[j].status = IF RunCanceled THEN "canceled" ELSE "running"
     THEN /\ job' = [job EXCEPT ![j] =
                       [@ EXCEPT !.ext = job[j].ext \/ worker[s][j].pc = "accepted",
                                 !.submission = IF job[j].marked THEN "submitted"
                                                ELSE job[j].submission,
                                 !.settlement = IF RunCanceled THEN job[j].settlement
                                                ELSE IF job[j].marked THEN "pending"
                                                ELSE "not_required"]]
          /\ IF worker[s][j].pc = "accepted" THEN Goto(s, j, "polling")
             ELSE IF RunCanceled THEN Throw(s, j, "fatal")
             ELSE Goto(s, j, "outputs")
     ELSE Throw(s, j, "fatal") /\ UNCHANGED job
  /\ UNCHANGED <<run, lease, asset, accepted, tab, session>>

\* The poll loop reads the manifest under the lease before each poll, and ends with
\* the result, the failure of the execution, or an error of the poll.
Poll(s, j) ==
  /\ worker[s][j].pc = "polling" /\ session[s].state = "on"
  /\ \/ HoldsLease(s, worker[s][j].fence) /\ ~RunCanceled /\ Goto(s, j, "result")
     \/ \E k \in {"retry", "fatal"} : Throw(s, j, k)
  /\ UNCHANGED <<rows, tab, session>>

\* The output is uploaded and finalized.  The commit holds the fence: media waits
\* for its ingestion, text is usable at once, an output stored before is kept.
CommitOutput(s, j) ==
  /\ worker[s][j].pc = "outputs"
  /\ \/ /\ HoldsJob(s, j) /\ RunCanceled
        /\ job' = [job EXCEPT ![j] = Discarded(@)]
        /\ Goto(s, j, "completing") \/ Throw(s, j, "fatal")
        /\ UNCHANGED asset
     \/ /\ HoldsJob(s, j) /\ RunActive /\ job[j].status = "running"
        /\ \E kept \in {"processing", "ready"} :
             asset' = [asset EXCEPT ![j] = IF @ = "none" THEN kept ELSE @]
        /\ Goto(s, j, "completing")
        /\ UNCHANGED job
     \/ /\ Throw(s, j, "fatal")             \* upload refused, commit guard not passed
        /\ UNCHANGED <<job, asset>>
  /\ UNCHANGED <<run, lease, accepted, tab, session>>

\* The asset pipeline ingests the stored object, or gives up.
Ingest(j) ==
  /\ asset[j] = "processing"
  /\ \E end \in {"ready", "failed"} : asset' = [asset EXCEPT ![j] = end]
  /\ UNCHANGED <<run, lease, job, accepted, tab, session, worker>>

\* The user archives or purges the output, an Asset, before its job was settled or
\* later.  (A text is no Asset, and an archived one can be restored: neither is told
\* apart here.)  Bound: some open job that no session has in its hands depends on it;
\* a worker does not look at its inputs again.
DeleteOutput(j) ==
  /\ asset[j] \in {"processing", "ready"}
  /\ \/ JobActive(j)
     \/ \E d \in Jobs :
          /\ j \in Preds[d] /\ JobActive(d)
          /\ \A s \in Sessions : session[s].state = "on" => worker[s][d].pc = "none"
  /\ asset' = [asset EXCEPT ![j] = "failed"]
  /\ UNCHANGED <<run, lease, job, accepted, tab, session, worker>>

\* completeBrowserJob: an output still processing is left to a later claim.
Complete(s, j) ==
  /\ worker[s][j].pc = "completing"
  /\ \/ /\ \/ ~HoldsJob(s, j)
           \/ Readiness(j) = "incomplete"
           \/ RunActive /\ Readiness(j) = "failed"
        /\ Throw(s, j, "fatal")
        /\ UNCHANGED <<run, lease, job>>
     \/ /\ HoldsJob(s, j) /\ Readiness(j) # "incomplete" /\ RunCanceled
        /\ job' = [job EXCEPT ![j] = Discarded(@)]
        /\ Leave(s, j)
        /\ UNCHANGED <<run, lease>>
     \/ /\ HoldsJob(s, j) /\ Readiness(j) = "processing" /\ RunActive
        /\ Leave(s, j)
        /\ UNCHANGED <<run, lease, job>>
     \/ /\ HoldsJob(s, j) /\ Readiness(j) = "ready" /\ RunActive
        /\ job' = [job EXCEPT ![j] = Succeeded(@)]
        /\ AggregateAndRetire(job')
        /\ Leave(s, j)
  /\ UNCHANGED <<asset, accepted, tab, session>>

-----------------------------------------------------------------------------
(* Failures: failBrowserJob.                                                *)

Safe(s, j) == worker[s][j].err \in {"limited", "rejected"} /\ ~job[j].ext

\* The job goes back to pending: to poll the same execution again, or to submit
\* again after a proven refusal.
Retries(s, j) ==
  /\ job[j].status = "running" /\ job[j].attempts < JobMaxAttempts
  /\ \/ (worker[s][j].err = "retry" /\ job[j].ext)
     \/ (worker[s][j].err = "limited" /\ Safe(s, j))

\* A proven refusal closes the submission boundary again.
Unsubmitted(row) ==
  [row EXCEPT !.submission = "not_started", !.marked = FALSE, !.settlement = "not_required"]

\* Mutation: whatever failed, the submission is taken back.
ReportUnsubmitted(s, j) ==
  /\ worker[s][j].pc = "erred" /\ session[s].state = "on"
  /\ IF HoldsJob(s, j) /\ ~RunCanceled /\ JobActive(j)
     THEN /\ job' = Skip([job EXCEPT ![j] = Unsubmitted(Failed(@))], {j})
          /\ AggregateAndRetire(job')
     ELSE UNCHANGED <<run, lease, job>>
  /\ Leave(s, j)
  /\ UNCHANGED <<asset, accepted, tab, session>>

Report(s, j) ==
  /\ worker[s][j].pc = "erred" /\ session[s].state = "on"
  /\ \/ /\ ~HoldsJob(s, j) \/ ~(RunCanceled \/ JobActive(j))      \* refused, superseded
        /\ UNCHANGED <<run, lease, job>>
     \/ /\ HoldsJob(s, j) /\ RunCanceled
        /\ job' = [job EXCEPT ![j] = Discarded(@)]
        /\ UNCHANGED <<run, lease>>
     \/ /\ HoldsJob(s, j) /\ ~RunCanceled /\ Retries(s, j)
        /\ job' = [job EXCEPT ![j] =
                     [(IF Safe(s, j) THEN Unsubmitted(@) ELSE @) EXCEPT !.status = "pending"]]
        /\ UNCHANGED <<run, lease>>
     \/ /\ HoldsJob(s, j) /\ ~RunCanceled /\ ~Retries(s, j) /\ JobActive(j)
        /\ job' = Skip([job EXCEPT ![j] =
                          IF Safe(s, j) THEN Unsubmitted(Failed(@))
                          ELSE [Failed(@) EXCEPT
                                  !.settlement = IF job[j].marked THEN "unknown"
                                                 ELSE "not_required"]], {j})
        /\ AggregateAndRetire(job')
  /\ Leave(s, j)
  /\ UNCHANGED <<asset, accepted, tab, session>>

\* The report does not reach the API; the worker leaves the job as it is.
LoseReport(s, j) ==
  /\ worker[s][j].pc = "erred" /\ session[s].state = "on"
  /\ Leave(s, j)
  /\ UNCHANGED <<rows, tab, session>>

-----------------------------------------------------------------------------
(* Cancellation.                                                            *)

\* cancelRun takes the fence too: unsubmitted jobs end, submitted ones end and ask
\* the browser to cancel their execution.
CancelRun ==
  /\ RunActive
  /\ job' = [j \in Jobs |->
               IF ~JobActive(j) THEN job[j]
               ELSE IF job[j].marked
               THEN [job[j] EXCEPT !.status = "canceled", !.cancel = "requested",
                                   !.settlement = "pending"]
               ELSE [job[j] EXCEPT !.status = "canceled", !.settlement = "not_required"]]
  /\ run' = [status |-> "canceled",
             reconciled |-> \A j \in Jobs : JobActive(j) => ~job[j].marked]
  /\ UNCHANGED <<lease, asset, accepted, tab, session, worker>>

\* acknowledgeBrowserJobCancellation: the provider's answer, or none when it cannot
\* cancel or the manifest had no external id.  The last final answer closes the run.
Acknowledge(s, j, final) ==
  /\ session[s].state = "on" /\ RunCanceled /\ HoldsLease(s, session[s].fence)
  /\ job[j].cancel = "requested"
  /\ final \/ job[j].ext
  /\ job' = [job EXCEPT ![j] =
               [@ EXCEPT !.cancel = IF final THEN "final" ELSE job[j].cancel,
                         !.settlement = IF final THEN "unknown" ELSE "pending"]]
  /\ run' = [run EXCEPT !.reconciled = \A i \in Jobs : job'[i].cancel # "requested"]
  /\ lease' = [lease EXCEPT !.active = ~run'.reconciled]
  /\ UNCHANGED <<asset, accepted, tab, session, worker>>

\* The settlement of the canceled run's credits, dispatched by cancelRun.
SettleCredits(j) ==
  /\ RunCanceled /\ job[j].status = "canceled" /\ job[j].credit = "reserved"
  /\ job' = [job EXCEPT ![j].credit = "released"]
  /\ UNCHANGED <<run, lease, asset, accepted, tab, session, worker>>

-----------------------------------------------------------------------------

WorkerNext(s, j) ==
  \/ Abandon(s, j) \/ Begin(s, j) \/ Submit(s, j) \/ Checkpoint(s, j) \/ Poll(s, j)
  \/ CommitOutput(s, j) \/ Complete(s, j) \/ Report(s, j) \/ LoseReport(s, j) \/ Vanish(s, j)

SessionNext(s) ==
  \/ Start(s) \/ Stop(s) \/ AcquireLease(s) \/ ReleaseLease(s) \/ ClaimJobs(s) \/ ClaimFails(s)
  \/ \E j \in Jobs : WorkerNext(s, j) \/ \E final \in BOOLEAN : Acknowledge(s, j, final)

Next ==
  \/ \E s \in Sessions : SessionNext(s)
  \/ \E j \in Jobs : Ingest(j) \/ DeleteOutput(j) \/ SettleCredits(j)
  \/ ExpireLease \/ CancelRun

Spec == Init /\ [][Next]_vars

\* Somebody opens the application now and then, its coordinator makes its passes and
\* its workers go on; reports get lost, but not for ever.
Fairness ==
  /\ WF_vars(\E s \in Sessions : Start(s))
  /\ WF_vars(ExpireLease /\ \A s \in Sessions : session[s].state = "on" => tab[s] # lease.executor)
  /\ \A s \in Sessions :
       /\ WF_vars(\/ AcquireLease(s) \/ ClaimJobs(s) \/ ClaimFails(s)
                  \/ \E j \in Jobs : Acknowledge(s, j, TRUE))
       /\ \A j \in Jobs :
            /\ WF_vars(\/ Begin(s, j) \/ Submit(s, j) \/ Checkpoint(s, j) \/ Poll(s, j)
                       \/ CommitOutput(s, j) \/ Complete(s, j))
            /\ SF_vars(Report(s, j))
  /\ \A j \in Jobs : WF_vars(Ingest(j))

FairSpec == Spec /\ Fairness

-----------------------------------------------------------------------------
(* Properties.                                                             *)

\* A paid execution never disappears from the books: whoever loses the lease, and
\* whatever request arrives late, its settlement stays pending or ends as unknown.
SpendIsTracked ==
  \A j \in Jobs : accepted[j] > 0 => job[j].settlement # "not_required"

\* Nobody pays for a job whose inputs are not there, whichever session claimed it.
PaidAfterInputs ==
  \A j \in Jobs : accepted[j] > 0 => \A p \in Preds[j] : job[p].status = "succeeded"

\* An open job reads the output of one that succeeded, and the output is gone.
InputDeleted ==
  \E j \in Jobs : JobActive(j) /\ \E p \in Preds[j] :
    job[p].status = "succeeded" /\ asset[p] # "ready"

\* A run in the hands of browsers that come and go still ends, and a canceled one is
\* reconciled.  The one exception: an input that was deleted after its job succeeded
\* leaves the job that reads it open for ever, since each claim of it rolls back.
RunEnds ==
  \/ <>(run.status \in {"succeeded", "partial", "failed"} \/ (RunCanceled /\ run.reconciled))
  \/ <>[]InputDeleted

\* The rows keep the promise that the managed engine keeps.
Promise == INSTANCE JobPromise WITH
  outcome   <- [j \in Jobs |-> IF JobActive(j) THEN "open" ELSE job[j].status],
  credit    <- [j \in Jobs |-> job[j].credit],
  announced <- [j \in Jobs |-> job[j].marked],
  spent     <- accepted
KeepsPromise == Promise!Spec
=============================================================================
