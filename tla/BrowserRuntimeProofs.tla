------------------------- MODULE BrowserRuntimeProofs -------------------------
(***************************************************************************)
(* Safety of browser-executed runs for any plan, any number of sessions    *)
(* and tabs, any number of attempts and of takeovers: what is spent stays  *)
(* on the books, inputs exist before they are paid for, and the rows keep  *)
(* the promise of JobPromise.                                              *)
(*                                                                         *)
(* The argument goes through the effect of a step on one job.  Whatever a  *)
(* request does, it leaves the call of the job alone, opens the submission *)
(* boundary, pays, or takes a refused submission back; each of these       *)
(* preserves the invariant and is a step of JobPromise.                    *)
(***************************************************************************)
EXTENDS BrowserRuntime, TLAPS

-----------------------------------------------------------------------------
(* Rows of generationJobs.                                                  *)

\* What a claim pass may do to a row: nothing, or close an active job.  An asset
\* that is ready is the condition of a success.
PassRow(old, new, ready) ==
  /\ new.marked = old.marked /\ new.ext = old.ext /\ new.attempts = old.attempts
  /\ old.marked /\ old.settlement # "not_required" => new.settlement # "not_required"
  /\ \/ new.status = old.status /\ new.credit = old.credit
     \/ /\ old.status \in Active
        /\ new.status \in {"failed", "canceled"} /\ new.credit \in {old.credit, "released"}
     \/ /\ old.status \in Active /\ ready
        /\ new.status = "succeeded" /\ new.credit = "captured"

Passed(old, new) ==
  /\ new \in [Jobs -> JobRow]
  /\ \A j \in Jobs : PassRow(old[j], new[j], asset[j] = "ready")

\* The helpers that write one row yield a row of the type, and do what PassRow allows.
LEMMA SucceededRow ==
  ASSUME NEW row \in JobRow
  PROVE  Succeeded(row) \in JobRow /\ PassRow(row, Succeeded(row), TRUE)
BY DEF Succeeded, JobRow, PassRow, Active, Final

LEMMA FailedRow ==
  ASSUME NEW row \in JobRow
  PROVE  /\ Failed(row) \in JobRow
         /\ Failed(row).status = "failed"
         /\ Failed(row).marked = row.marked /\ Failed(row).ext = row.ext
         /\ Failed(row).attempts = row.attempts /\ Failed(row).settlement = row.settlement
         /\ Failed(row).credit = IF row.credit = "reserved" THEN "released" ELSE row.credit
BY DEF Failed, JobRow, Final

LEMMA FailedPasses ==
  ASSUME NEW row \in JobRow, row.status \in Active, NEW ready
  PROVE  PassRow(row, Failed(row), ready)
BY FailedRow DEF PassRow

LEMMA DiscardedRow ==
  ASSUME NEW row \in JobRow
  PROVE  Discarded(row) \in JobRow /\ PassRow(row, Discarded(row), FALSE)
BY DEF Discarded, JobRow, PassRow, Active, Final

LEMMA UnsubmittedRow ==
  ASSUME NEW row \in JobRow
  PROVE  /\ Unsubmitted(row) \in JobRow
         /\ Unsubmitted(row).marked = FALSE
         /\ Unsubmitted(row).status = row.status /\ Unsubmitted(row).ext = row.ext
         /\ Unsubmitted(row).attempts = row.attempts /\ Unsubmitted(row).credit = row.credit
BY DEF Unsubmitted, JobRow

\* Passes compose: what closed a job leaves nothing for the next one to close.
LEMMA PassTrans ==
  ASSUME NEW a \in JobRow, NEW b \in JobRow, NEW c \in JobRow, NEW ready,
         PassRow(a, b, ready), PassRow(b, c, ready)
  PROVE  PassRow(a, c, ready)
BY DEF PassRow, Active, JobRow

LEMMA PassedTrans ==
  ASSUME NEW a \in [Jobs -> JobRow], NEW b, NEW c, Passed(a, b), Passed(b, c)
  PROVE  Passed(a, c)
BY PassTrans DEF Passed

\* Skipping closes pending jobs.
LEMMA SkipPasses ==
  ASSUME NEW jobs \in [Jobs -> JobRow], NEW failed
  PROVE  Passed(jobs, Skip(jobs, failed))
<1> SUFFICES ASSUME NEW d \in Jobs
             PROVE  /\ Skip(jobs, failed)[d] \in JobRow
                    /\ PassRow(jobs[d], Skip(jobs, failed)[d], asset[d] = "ready")
  BY DEF Skip, Passed
<1> DEFINE row == jobs[d]
           skipped == [row EXCEPT !.status = "canceled",
                                  !.credit = IF @ = "reserved" THEN "released" ELSE @]
<1>1. row \in JobRow
  OBVIOUS
<1>2. skipped \in JobRow
  BY <1>1 DEF JobRow, Final
<1>3. PassRow(row, row, asset[d] = "ready")
  BY <1>1 DEF PassRow
<1>4. row.status = "pending" => PassRow(row, skipped, asset[d] = "ready")
  BY <1>1 DEF PassRow, JobRow, Active
<1>5. \/ Skip(jobs, failed)[d] = row
      \/ row.status = "pending" /\ Skip(jobs, failed)[d] = skipped
  BY DEF Skip
<1> QED BY <1>1, <1>2, <1>3, <1>4, <1>5

\* The pass over outputs that became usable, or did not.
LEMMA ReconciledPasses ==
  ASSUME TypeOK, NEW s \in Sessions
  PROVE  Passed(job, Reconciled(s))
<1> DEFINE left == {j \in Jobs \ InFlight(s) : job[j].status = "running"}
           failed == {j \in left : Readiness(j) = "failed"}
           jobs == [j \in Jobs |-> IF j \in left /\ Readiness(j) = "ready" THEN Succeeded(job[j])
                                   ELSE IF j \in failed THEN Failed(job[j]) ELSE job[j]]
<1>1. job \in [Jobs -> JobRow]
  BY DEF TypeOK
<1>2. Passed(job, jobs)
  <2> SUFFICES ASSUME NEW j \in Jobs
               PROVE  jobs[j] \in JobRow /\ PassRow(job[j], jobs[j], asset[j] = "ready")
    BY DEF Passed
  <2>1. job[j] \in JobRow
    BY <1>1
  <2>2. CASE j \in left /\ Readiness(j) = "ready"
    <3>1. jobs[j] = Succeeded(job[j])
      BY <2>2
    <3>2. asset[j] = "ready"
      BY <2>2 DEF Readiness
    <3> QED BY <2>1, <3>1, <3>2, SucceededRow
  <2>3. CASE ~(j \in left /\ Readiness(j) = "ready") /\ j \in failed
    <3>1. jobs[j] = Failed(job[j]) /\ job[j].status \in Active
      BY <2>3 DEF Active
    <3> QED BY <2>1, <3>1, FailedRow, FailedPasses
  <2>4. CASE ~(j \in left /\ Readiness(j) = "ready") /\ j \notin failed
    <3>1. jobs[j] = job[j]
      BY <2>4
    <3> QED BY <2>1, <3>1 DEF PassRow
  <2> QED BY <2>2, <2>3, <2>4
<1>3. jobs \in [Jobs -> JobRow]
  BY <1>2 DEF Passed
<1>4. Reconciled(s) = Skip(jobs, failed)
  BY DEF Reconciled
<1> HIDE DEF jobs, failed
<1>5. Passed(jobs, Reconciled(s))
  BY <1>3, <1>4, SkipPasses
<1> QED BY <1>1, <1>2, <1>5, PassedTrans

\* The pass over submissions whose outcome nobody can learn any more.
LEMMA ResolvePasses ==
  ASSUME NEW s \in Sessions, NEW before \in [Jobs -> JobRow]
  PROVE  Passed(before, ResolveUncertain(s, before))
<1> DEFINE failed == {j \in Jobs : /\ Uncertain(before[j])
                                   /\ ~(j \in Protected(s) /\ before[j].fence = session[s].fence)}
           closed(j) == [Failed(before[j]) EXCEPT !.settlement = "unknown"]
           jobs == [j \in Jobs |-> IF j \in failed THEN closed(j) ELSE before[j]]
<1>1. Passed(before, jobs)
  <2> SUFFICES ASSUME NEW j \in Jobs
               PROVE  jobs[j] \in JobRow /\ PassRow(before[j], jobs[j], asset[j] = "ready")
    BY DEF Passed
  <2>1. before[j] \in JobRow
    OBVIOUS
  <2>2. CASE j \in failed
    <3>1. jobs[j] = closed(j) /\ before[j].status \in Active
      BY <2>2 DEF Uncertain, Active
    <3>2. Failed(before[j]) \in JobRow /\ PassRow(before[j], Failed(before[j]), asset[j] = "ready")
      BY <2>1, <3>1, FailedRow, FailedPasses
    <3>3. closed(j) \in JobRow /\ PassRow(Failed(before[j]), closed(j), asset[j] = "ready")
      BY <3>2 DEF JobRow, PassRow
    <3> QED BY <2>1, <3>1, <3>2, <3>3, PassTrans
  <2>3. CASE j \notin failed
    <3>1. jobs[j] = before[j]
      BY <2>3
    <3> QED BY <2>1, <3>1 DEF PassRow
  <2> QED BY <2>2, <2>3
<1>2. jobs \in [Jobs -> JobRow]
  BY <1>1 DEF Passed
<1>3. ResolveUncertain(s, before) = Skip(jobs, failed)
  BY DEF ResolveUncertain
<1> HIDE DEF jobs, failed
<1>4. Passed(jobs, ResolveUncertain(s, before))
  BY <1>2, <1>3, SkipPasses
<1> QED BY <1>1, <1>4, PassedTrans

\* What a claim pass finds to claim: the rows after both passes.
LEMMA ClaimPasses ==
  ASSUME TypeOK, NEW s \in Sessions
  PROVE  Passed(job, ResolveUncertain(s, Reconciled(s)))
<1>1. job \in [Jobs -> JobRow]
  BY DEF TypeOK
<1>2. Passed(job, Reconciled(s))
  BY ReconciledPasses
<1>3. Reconciled(s) \in [Jobs -> JobRow]
  BY <1>2 DEF Passed
<1>4. Passed(Reconciled(s), ResolveUncertain(s, Reconciled(s)))
  BY <1>3, ResolvePasses
<1> QED BY <1>1, <1>2, <1>4, PassedTrans

-----------------------------------------------------------------------------
(* Type correctness.                                                        *)

\* A lease that is not active may still be given out anew while the run is open.
LeaseLeft == RunOpen /\ ~lease.active => lease.fence < MaxFence

\* A job that waits has an attempt left.
AttemptsLeft == \A j \in Jobs : job[j].status = "pending" => job[j].attempts < JobMaxAttempts

TypeInv == TypeOK /\ LeaseLeft /\ AttemptsLeft

\* Writing one worker.
LEMMA WriteWorker ==
  ASSUME TypeOK, NEW s \in Sessions, NEW j \in Jobs, NEW w \in Worker,
         worker' = [worker EXCEPT ![s][j] = w]
  PROVE  /\ worker' \in [Sessions -> [Jobs -> Worker]]
         /\ worker'[s][j] = w
         /\ \A o \in Sessions, i \in Jobs : o # s \/ i # j => worker'[o][i] = worker[o][i]
BY DEF TypeOK

\* What a worker may become.
LEMMA WorkerMoves ==
  ASSUME TypeOK, NEW s \in Sessions, NEW j \in Jobs
  PROVE  /\ worker[s][j] \in Worker
         /\ NoWorker \in Worker
         /\ \A pc \in WorkerPC : [worker[s][j] EXCEPT !.pc = pc] \in Worker
         /\ \A k \in ErrorKind : [worker[s][j] EXCEPT !.pc = "erred", !.err = k] \in Worker
<1>1. worker[s][j] \in Worker
  BY DEF TypeOK
<1>2. NoWorker \in Worker
  BY BrowserBoundAssumption DEF NoWorker, Worker, WorkerPC, ErrorKind
<1>3. \A pc \in WorkerPC : [worker[s][j] EXCEPT !.pc = pc] \in Worker
  BY <1>1 DEF Worker
<1>4. \A k \in ErrorKind : [worker[s][j] EXCEPT !.pc = "erred", !.err = k] \in Worker
  <2>1. "erred" \in WorkerPC
    BY DEF WorkerPC
  <2> QED BY <1>1, <2>1 DEF Worker
<1> QED BY <1>1, <1>2, <1>3, <1>4

LEMMA WorkerType ==
  ASSUME TypeOK, NEW s \in Sessions, NEW j \in Jobs
  PROVE  /\ \A pc \in WorkerPC : Goto(s, j, pc) => worker' \in [Sessions -> [Jobs -> Worker]]
         /\ \A k \in ErrorKind : Throw(s, j, k) => worker' \in [Sessions -> [Jobs -> Worker]]
         /\ Leave(s, j) => worker' \in [Sessions -> [Jobs -> Worker]]
<1>1. \A w \in Worker : worker' = [worker EXCEPT ![s][j] = w] =>
         worker' \in [Sessions -> [Jobs -> Worker]]
  BY WriteWorker
<1>2. ASSUME NEW pc \in WorkerPC, Goto(s, j, pc)
      PROVE  worker' \in [Sessions -> [Jobs -> Worker]]
  <2>1. [worker[s][j] EXCEPT !.pc = pc] \in Worker
    BY WorkerMoves
  <2>2. worker' = [worker EXCEPT ![s][j] = [worker[s][j] EXCEPT !.pc = pc]]
    BY <1>2 DEF Goto, TypeOK
  <2> QED BY <1>1, <2>1, <2>2
<1>3. ASSUME NEW k \in ErrorKind, Throw(s, j, k)
      PROVE  worker' \in [Sessions -> [Jobs -> Worker]]
  <2>1. [worker[s][j] EXCEPT !.pc = "erred", !.err = k] \in Worker
    BY WorkerMoves
  <2>2. worker' = [worker EXCEPT ![s][j] = [worker[s][j] EXCEPT !.pc = "erred", !.err = k]]
    BY <1>3 DEF Throw, TypeOK
  <2> QED BY <1>1, <2>1, <2>2
<1>4. Leave(s, j) => worker' \in [Sessions -> [Jobs -> Worker]]
  BY <1>1, WorkerMoves DEF Leave
<1> QED BY <1>2, <1>3, <1>4

\* Writing one row.
LEMMA WriteRow ==
  ASSUME TypeOK, NEW j \in Jobs, NEW row \in JobRow, job' = [job EXCEPT ![j] = row]
  PROVE  /\ job' \in [Jobs -> JobRow] /\ job'[j] = row
         /\ \A i \in Jobs : i # j => job'[i] = job[i]
BY DEF TypeOK

\* The summary of a run keeps its types.
LEMMA AggregateType ==
  ASSUME TypeOK, LeaseLeft, RunOpen, NEW jobs, AggregateAndRetire(jobs)
  PROVE  run' \in RunRow /\ lease' \in LeaseRow /\ LeaseLeft'
<1>1. StatusOf(jobs) \in {"running", "failed", "partial", "succeeded"}
  BY DEF StatusOf
<1>2. run' = [run EXCEPT !.status = IF RunCanceled THEN run.status ELSE StatusOf(jobs)]
  BY DEF AggregateAndRetire
<1>3. lease' = [lease EXCEPT !.active = lease.active /\ (run'.status \in Active \/ RunCanceled)]
  BY DEF AggregateAndRetire
<1>4. run \in RunRow /\ lease \in LeaseRow
  BY DEF TypeOK
<1>5. run' \in RunRow
  BY <1>1, <1>2, <1>4 DEF RunRow, Active, Final
<1>6. lease' \in LeaseRow
  BY <1>3, <1>4 DEF LeaseRow
<1>7. LeaseLeft'
  <2>1. lease'.fence = lease.fence
    BY <1>3, <1>4 DEF LeaseRow
  <2>2. lease'.active = (lease.active /\ (run'.status \in Active \/ RunCanceled))
    BY <1>3, <1>4 DEF LeaseRow
  <2>3. RunOpen' => run'.status \in Active \/ RunCanceled
    BY <1>1, <1>2, <1>4 DEF RunOpen, RunActive, RunCanceled, RunRow
  <2> QED BY <2>1, <2>2, <2>3 DEF LeaseLeft
<1> QED BY <1>5, <1>6, <1>7

\* A pass over the rows starts no attempt and puts no job back.
LEMMA PassAttempts ==
  ASSUME TypeOK, AttemptsLeft, NEW jobs, Passed(job, jobs)
  PROVE  /\ jobs \in [Jobs -> JobRow]
         /\ \A j \in Jobs : jobs[j].status = "pending" => jobs[j].attempts < JobMaxAttempts
BY DEF Passed, PassRow, AttemptsLeft

\* What does not touch the rows needs only the type of what it does touch.
LEMMA SameRows ==
  ASSUME TypeInv, UNCHANGED <<rows, tab>>,
         session' \in [Sessions -> [state : {"fresh", "on", "gone"}, fence : 0..MaxFence]],
         worker' \in [Sessions -> [Jobs -> Worker]]
  PROVE  TypeInv'
BY DEF TypeInv, TypeOK, LeaseLeft, AttemptsLeft, rows, RunOpen, RunActive, RunCanceled

\* The same for one that rewrites rows of jobs but neither run nor lease.
LEMMA SameRun ==
  ASSUME TypeInv, UNCHANGED <<run, lease, tab, session>>,
         job' \in [Jobs -> JobRow], AttemptsLeft',
         asset' \in [Jobs -> {"none", "processing", "ready", "failed"}],
         accepted' \in [Jobs -> Nat],
         worker' \in [Sessions -> [Jobs -> Worker]]
  PROVE  TypeInv'
BY DEF TypeInv, TypeOK, LeaseLeft, AttemptsLeft, RunOpen, RunActive, RunCanceled

\* One row is rewritten, with no more attempts than it had.
LEMMA OneRow ==
  ASSUME TypeInv, NEW j \in Jobs, NEW row \in JobRow, job' = [job EXCEPT ![j] = row],
         row.status = "pending" => row.attempts < JobMaxAttempts
  PROVE  job' \in [Jobs -> JobRow] /\ AttemptsLeft'
BY WriteRow DEF TypeInv, AttemptsLeft

\* Requests of a worker, in the order of its life.
LEMMA WorkerStepType ==
  ASSUME TypeInv, NEW s \in Sessions, NEW j \in Jobs, WorkerNext(s, j)
  PROVE  TypeInv'
<1> DEFINE row == job[j]
           W == worker' \in [Sessions -> [Jobs -> Worker]]
<1> USE DEF TypeInv
<1>1. /\ row \in JobRow /\ job \in [Jobs -> JobRow] /\ AttemptsLeft
      /\ accepted \in [Jobs -> Nat]
      /\ asset \in [Jobs -> {"none", "processing", "ready", "failed"}]
      /\ session \in [Sessions -> [state : {"fresh", "on", "gone"}, fence : 0..MaxFence]]
  BY DEF TypeOK
<1>2. row.status = "pending" => row.attempts < JobMaxAttempts
  BY DEF AttemptsLeft
<1>3. \A k \in ErrorKind : Throw(s, j, k) => W
  BY WorkerType
<1>4. \A pc \in WorkerPC : Goto(s, j, pc) => W
  BY WorkerType
<1>5. Leave(s, j) => W
  BY WorkerType
<1>6. Throw(s, j, "fatal") => W
  BY <1>3 DEF ErrorKind
<1>7. /\ Goto(s, j, "begun") => W
      /\ Goto(s, j, "polling") => W
      /\ Goto(s, j, "result") => W
      /\ Goto(s, j, "outputs") => W
      /\ Goto(s, j, "completing") => W
  BY <1>4 DEF WorkerPC
<1>8. \A k \in {"retry", "fatal", "limited", "rejected"} : Throw(s, j, k) => W
  BY <1>3 DEF ErrorKind
<1>9. \A pc \in {"accepted", "result"} : Goto(s, j, pc) => W
  BY <1>4 DEF WorkerPC
<1> HIDE DEF W
<1>10. CASE Abandon(s, j)
  <2>1. W /\ UNCHANGED <<rows, tab, session>>
    BY <1>6, <1>10 DEF Abandon
  <2> QED BY <1>1, <2>1, SameRows DEF W
<1>11. CASE Begin(s, j)
  <2> DEFINE new == [row EXCEPT !.submission = "submitting", !.marked = TRUE,
                                !.settlement = "pending"]
  <2>1. W /\ UNCHANGED <<run, lease, asset, accepted, tab, session>>
    BY <1>6, <1>7, <1>11 DEF Begin
  <2>2. UNCHANGED job \/ job' = [job EXCEPT ![j] = new]
    BY <1>11 DEF Begin
  <2>3. /\ new \in JobRow
        /\ new.status = row.status /\ new.attempts = row.attempts
    BY <1>1 DEF JobRow
  <2>4. job' \in [Jobs -> JobRow] /\ AttemptsLeft'
    <3>1. CASE UNCHANGED job
      BY <1>1, <3>1 DEF AttemptsLeft
    <3>2. CASE job' = [job EXCEPT ![j] = new]
      <4> HIDE DEF new
      <4> QED BY <1>2, <2>3, <3>2, OneRow
    <3> QED BY <2>2, <3>1, <3>2
  <2> QED BY <1>1, <2>1, <2>4, SameRun DEF W
<1>12. CASE Submit(s, j)
  <2>1. W
    BY <1>6, <1>8, <1>9, <1>12 DEF Submit
  <2>2. accepted' \in [Jobs -> Nat] /\ UNCHANGED <<run, lease, job, asset, tab, session>>
    BY <1>1, <1>12 DEF Submit
  <2>3. AttemptsLeft'
    BY <1>1, <2>2 DEF AttemptsLeft
  <2> QED BY <1>1, <2>1, <2>2, <2>3, SameRun DEF W
<1>13. CASE Checkpoint(s, j)
  <2> DEFINE ext == row.ext \/ worker[s][j].pc = "accepted"
             submission == IF row.marked THEN "submitted" ELSE row.submission
             settlement == IF RunCanceled THEN row.settlement
                           ELSE IF row.marked THEN "pending" ELSE "not_required"
             new == [row EXCEPT !.ext = ext, !.submission = submission, !.settlement = settlement]
  <2>1. W /\ UNCHANGED <<run, lease, asset, accepted, tab, session>>
    BY <1>6, <1>7, <1>13 DEF Checkpoint
  <2>2. UNCHANGED job \/ job' = [job EXCEPT ![j] = new]
    BY <1>13 DEF Checkpoint
  <2>3. /\ new \in JobRow
        /\ new.status = row.status /\ new.attempts = row.attempts
    <3>1. /\ ext \in BOOLEAN
          /\ submission \in {"not_started", "submitting", "submitted"}
          /\ settlement \in {"not_required", "pending", "unknown"}
      BY <1>1 DEF JobRow
    <3> HIDE DEF ext, submission, settlement
    <3> QED BY <1>1, <3>1 DEF JobRow
  <2>4. job' \in [Jobs -> JobRow] /\ AttemptsLeft'
    <3>1. CASE UNCHANGED job
      BY <1>1, <3>1 DEF AttemptsLeft
    <3>2. CASE job' = [job EXCEPT ![j] = new]
      <4> HIDE DEF new
      <4> QED BY <1>2, <2>3, <3>2, OneRow
    <3> QED BY <2>2, <3>1, <3>2
  <2> QED BY <1>1, <2>1, <2>4, SameRun DEF W
<1>14. CASE Poll(s, j)
  <2>1. W /\ UNCHANGED <<rows, tab, session>>
    BY <1>7, <1>8, <1>14 DEF Poll
  <2> QED BY <1>1, <2>1, SameRows DEF W
<1>15. CASE CommitOutput(s, j)
  <2>1. W
    BY <1>6, <1>7, <1>15 DEF CommitOutput
  <2>2. asset' \in [Jobs -> {"none", "processing", "ready", "failed"}]
    BY <1>1, <1>15 DEF CommitOutput
  <2>3. UNCHANGED job \/ job' = [job EXCEPT ![j] = Discarded(row)]
    BY <1>15 DEF CommitOutput
  <2>4. UNCHANGED <<run, lease, accepted, tab, session>>
    BY <1>15 DEF CommitOutput
  <2>5. /\ Discarded(row) \in JobRow
        /\ Discarded(row).status = "pending" => Discarded(row).attempts < JobMaxAttempts
    BY <1>1, <1>2, DiscardedRow DEF PassRow
  <2>6. job' \in [Jobs -> JobRow] /\ AttemptsLeft'
    <3>1. CASE UNCHANGED job
      BY <1>1, <3>1 DEF AttemptsLeft
    <3>2. CASE job' = [job EXCEPT ![j] = Discarded(row)]
      BY <2>5, <3>2, OneRow
    <3> QED BY <2>3, <3>1, <3>2
  <2> QED BY <1>1, <2>1, <2>2, <2>4, <2>6, SameRun DEF W
<1>16. CASE Complete(s, j)
  <2>1. W /\ UNCHANGED <<asset, accepted, tab, session>>
    BY <1>5, <1>6, <1>16 DEF Complete
  <2>2. \/ UNCHANGED <<run, lease, job>>
        \/ job' = [job EXCEPT ![j] = Discarded(row)] /\ UNCHANGED <<run, lease>>
        \/ job' = [job EXCEPT ![j] = Succeeded(row)] /\ AggregateAndRetire(job') /\ HoldsJob(s, j)
    BY <1>16 DEF Complete
  <2>3. /\ Discarded(row) \in JobRow
        /\ Discarded(row).status = "pending" => Discarded(row).attempts < JobMaxAttempts
    BY <1>1, <1>2, DiscardedRow DEF PassRow
  <2>4. /\ Succeeded(row) \in JobRow
        /\ Succeeded(row).status = "pending" => Succeeded(row).attempts < JobMaxAttempts
    BY <1>1, <1>2, SucceededRow DEF PassRow
  <2>5. CASE UNCHANGED <<run, lease, job>>
    <3>1. UNCHANGED <<rows, tab>> /\ UNCHANGED session
      BY <2>1, <2>5 DEF rows
    <3> QED BY <1>1, <2>1, <3>1, SameRows DEF W
  <2>6. CASE job' = [job EXCEPT ![j] = Discarded(row)] /\ UNCHANGED <<run, lease>>
    <3>1. job' \in [Jobs -> JobRow] /\ AttemptsLeft'
      BY <2>3, <2>6, OneRow
    <3> QED BY <1>1, <2>1, <2>6, <3>1, SameRun DEF W
  <2>7. CASE job' = [job EXCEPT ![j] = Succeeded(row)] /\ AggregateAndRetire(job') /\ HoldsJob(s, j)
    <3>1. job' \in [Jobs -> JobRow] /\ AttemptsLeft'
      BY <2>4, <2>7, OneRow
    <3>2. run' \in RunRow /\ lease' \in LeaseRow /\ LeaseLeft'
      BY <2>7, AggregateType DEF HoldsJob, HoldsLease
    <3> QED BY <2>1, <3>1, <3>2 DEF W, TypeOK
  <2> QED BY <2>2, <2>5, <2>6, <2>7
<1>17. CASE Report(s, j)
  <2> DEFINE again == [(IF Safe(s, j) THEN Unsubmitted(row) ELSE row) EXCEPT !.status = "pending"]
             closed == IF Safe(s, j) THEN Unsubmitted(Failed(row))
                       ELSE [Failed(row) EXCEPT !.settlement = IF row.marked THEN "unknown"
                                                               ELSE "not_required"]
             jobs == [job EXCEPT ![j] = closed]
  <2>1. W /\ UNCHANGED <<asset, accepted, tab, session>>
    BY <1>5, <1>17 DEF Report
  <2>2. \/ UNCHANGED <<run, lease, job>>
        \/ job' = [job EXCEPT ![j] = Discarded(row)] /\ UNCHANGED <<run, lease>>
        \/ Retries(s, j) /\ job' = [job EXCEPT ![j] = again] /\ UNCHANGED <<run, lease>>
        \/ job' = Skip(jobs, {j}) /\ AggregateAndRetire(job') /\ HoldsJob(s, j)
    BY <1>17 DEF Report
  <2>3. CASE UNCHANGED <<run, lease, job>>
    <3>1. UNCHANGED <<rows, tab>> /\ UNCHANGED session
      BY <2>1, <2>3 DEF rows
    <3> QED BY <1>1, <2>1, <3>1, SameRows DEF W
  <2>4. CASE job' = [job EXCEPT ![j] = Discarded(row)] /\ UNCHANGED <<run, lease>>
    <3>1. /\ Discarded(row) \in JobRow
          /\ Discarded(row).status = "pending" => Discarded(row).attempts < JobMaxAttempts
      BY <1>1, <1>2, DiscardedRow DEF PassRow
    <3>2. job' \in [Jobs -> JobRow] /\ AttemptsLeft'
      BY <2>4, <3>1, OneRow
    <3> QED BY <1>1, <2>1, <2>4, <3>2, SameRun DEF W
  <2>5. CASE Retries(s, j) /\ job' = [job EXCEPT ![j] = again] /\ UNCHANGED <<run, lease>>
    <3>1. Unsubmitted(row) \in JobRow /\ Unsubmitted(row).attempts = row.attempts
      BY <1>1, UnsubmittedRow
    <3>2. again \in JobRow /\ again.attempts = row.attempts
      BY <1>1, <3>1 DEF JobRow, Active
    <3>3. row.attempts < JobMaxAttempts
      BY <2>5 DEF Retries
    <3> HIDE DEF again
    <3>4. job' \in [Jobs -> JobRow] /\ AttemptsLeft'
      BY <2>5, <3>2, <3>3, OneRow
    <3> QED BY <1>1, <2>1, <2>5, <3>4, SameRun DEF W
  <2>6. CASE job' = Skip(jobs, {j}) /\ AggregateAndRetire(job') /\ HoldsJob(s, j)
    <3>1. Failed(row) \in JobRow /\ Failed(row).status = "failed"
      BY <1>1, FailedRow
    <3>2. Unsubmitted(Failed(row)) \in JobRow /\ Unsubmitted(Failed(row)).status = "failed"
      BY <3>1, UnsubmittedRow
    <3>3. closed \in JobRow /\ closed.status = "failed"
      BY <3>1, <3>2 DEF JobRow
    <3> HIDE DEF closed
    <3>4. jobs \in [Jobs -> JobRow]
      BY <1>1, <3>3
    <3>5. \A i \in Jobs : jobs[i].status = "pending" => jobs[i].attempts < JobMaxAttempts
      BY <1>1, <3>3 DEF AttemptsLeft
    <3> HIDE DEF jobs
    <3>6. Passed(jobs, job')
      BY <2>6, <3>4, SkipPasses
    <3>7. job' \in [Jobs -> JobRow] /\ AttemptsLeft'
      BY <3>5, <3>6 DEF Passed, PassRow, AttemptsLeft
    <3>8. run' \in RunRow /\ lease' \in LeaseRow /\ LeaseLeft'
      BY <2>6, AggregateType DEF HoldsJob, HoldsLease
    <3> QED BY <2>1, <3>7, <3>8 DEF W, TypeOK
  <2> QED BY <2>2, <2>3, <2>4, <2>5, <2>6
<1>18. CASE LoseReport(s, j)
  <2>1. W /\ UNCHANGED <<rows, tab, session>>
    BY <1>5, <1>18 DEF LoseReport
  <2> QED BY <1>1, <2>1, SameRows DEF W
<1>19. CASE Vanish(s, j)
  <2>1. W /\ UNCHANGED <<rows, tab, session>>
    BY <1>5, <1>19 DEF Vanish
  <2> QED BY <1>1, <2>1, SameRows DEF W
<1> QED BY <1>10, <1>11, <1>12, <1>13, <1>14, <1>15, <1>16, <1>17, <1>18, <1>19 DEF WorkerNext

\* Sessions, their lease and the claims under it.
LEMMA SessionStepType ==
  ASSUME TypeInv, NEW s \in Sessions,
         \/ Start(s) \/ Stop(s) \/ AcquireLease(s) \/ ReleaseLease(s) \/ ClaimJobs(s) \/ ClaimFails(s)
         \/ \E j \in Jobs, final \in BOOLEAN : Acknowledge(s, j, final)
  PROVE  TypeInv'
<1> DEFINE Belief == [state : {"fresh", "on", "gone"}, fence : 0..MaxFence]
<1> USE DEF TypeInv
<1>1. /\ job \in [Jobs -> JobRow] /\ lease \in LeaseRow /\ run \in RunRow
      /\ session \in [Sessions -> Belief] /\ worker \in [Sessions -> [Jobs -> Worker]]
      /\ tab \in [Sessions -> Tabs]
  BY BrowserBoundAssumption DEF TypeOK
<1>2. session[s] \in Belief /\ lease.fence \in 0..MaxFence /\ MaxFence \in Nat \ {0}
  BY <1>1, BrowserBoundAssumption DEF LeaseRow
<1>3. CASE Start(s)
  <2>1. UNCHANGED <<rows, tab, worker>> /\ session' = [session EXCEPT ![s].state = "on"]
    BY <1>3 DEF Start
  <2>2. session' \in [Sessions -> Belief]
    BY <1>1, <2>1
  <2> QED BY <1>1, <2>1, <2>2, SameRows
<1>4. CASE Stop(s)
  <2>1. UNCHANGED <<rows, tab>> /\ session' = [session EXCEPT ![s] = [state |-> "gone", fence |-> 0]]
    BY <1>4 DEF Stop
  <2>2. session' \in [Sessions -> Belief]
    BY <1>1, <1>2, <2>1
  <2>3. PICK lost \in SUBSET InFlight(s) :
          worker' = [worker EXCEPT ![s] = [j \in Jobs |-> IF j \in lost THEN NoWorker
                                                          ELSE worker[s][j]]]
    BY <1>4 DEF Stop
  <2>4. NoWorker \in Worker
    BY BrowserBoundAssumption DEF NoWorker, Worker, WorkerPC, ErrorKind
  <2>5. [j \in Jobs |-> IF j \in lost THEN NoWorker ELSE worker[s][j]] \in [Jobs -> Worker]
    BY <1>1, <2>4
  <2>6. worker' \in [Sessions -> [Jobs -> Worker]]
    BY <1>1, <2>3, <2>5
  <2> QED BY <2>1, <2>2, <2>6, SameRows
<1>5. CASE AcquireLease(s)
  <2> DEFINE fence == IF lease.active THEN lease.fence ELSE lease.fence + 1
  <2>1. /\ lease' = [active |-> TRUE, executor |-> tab[s], fence |-> fence]
        /\ session' = [session EXCEPT ![s].fence = fence]
        /\ UNCHANGED <<run, job, asset, accepted, tab, worker>>
    BY <1>5 DEF AcquireLease
  <2>2. fence \in 0..MaxFence
    <3>1. RunOpen
      BY <1>5 DEF AcquireLease
    <3> QED BY <1>2, <3>1 DEF LeaseLeft
  <2> HIDE DEF fence
  <2>3. session' \in [Sessions -> Belief]
    BY <1>1, <2>1, <2>2
  <2>4. lease' \in LeaseRow /\ lease'.active
    BY <1>1, <2>1, <2>2 DEF LeaseRow
  <2> QED BY <2>1, <2>3, <2>4 DEF TypeOK, LeaseLeft, AttemptsLeft
<1>6. CASE ReleaseLease(s)
  <2>1. /\ lease' = [lease EXCEPT !.active = FALSE]
        /\ session' = [session EXCEPT ![s].fence = 0]
        /\ UNCHANGED <<run, job, asset, accepted, tab, worker>>
    BY <1>6 DEF ReleaseLease
  <2>2. lease.fence < MaxFence
    <3>1. lease.fence \in 1..(MaxFence - 1)
      BY <1>6 DEF ReleaseLease
    <3> QED BY <1>2, <3>1
  <2>3. session' \in [Sessions -> Belief]
    BY <1>1, <1>2, <2>1
  <2>4. lease' \in LeaseRow /\ lease'.fence = lease.fence
    BY <1>1, <2>1 DEF LeaseRow
  <2> QED BY <2>1, <2>2, <2>3, <2>4 DEF TypeOK, LeaseLeft, AttemptsLeft
<1>7. CASE ClaimJobs(s)
  <2> DEFINE jobs == ResolveUncertain(s, Reconciled(s))
             taken(j) == [jobs[j] EXCEPT !.status = "running", !.fence = session[s].fence,
                            !.attempts = IF jobs[j].status = "pending"
                                         THEN jobs[j].attempts + 1 ELSE jobs[j].attempts]
             claim(j) == [pc |-> IF jobs[j].ext THEN "polling" ELSE "claimed",
                          fence |-> session[s].fence, err |-> "none"]
  <2>1. /\ jobs \in [Jobs -> JobRow]
        /\ \A j \in Jobs : jobs[j].status = "pending" => jobs[j].attempts < JobMaxAttempts
    BY ClaimPasses, PassAttempts
  <2>2. \/ job' = jobs /\ UNCHANGED worker
        \/ \E j \in Jobs : /\ job' = [jobs EXCEPT ![j] = taken(j)]
                           /\ worker' = [worker EXCEPT ![s][j] = claim(j)]
        \/ \E j \in Jobs : /\ job' = Skip([jobs EXCEPT ![j] = Failed(jobs[j])], {j})
                           /\ UNCHANGED worker
    BY <1>7 DEF ClaimJobs, Candidates
  <2> HIDE DEF jobs
  <2>3. /\ job' \in [Jobs -> JobRow] /\ AttemptsLeft'
        /\ worker' \in [Sessions -> [Jobs -> Worker]]
    <3>1. CASE job' = jobs /\ UNCHANGED worker
      BY <1>1, <2>1, <3>1 DEF AttemptsLeft
    <3>2. CASE \E j \in Jobs : /\ job' = [jobs EXCEPT ![j] = taken(j)]
                               /\ worker' = [worker EXCEPT ![s][j] = claim(j)]
      <4>1. PICK j \in Jobs : /\ job' = [jobs EXCEPT ![j] = taken(j)]
                              /\ worker' = [worker EXCEPT ![s][j] = claim(j)]
        BY <3>2
      <4>2. jobs[j] \in JobRow
        BY <2>1
      <4>3. taken(j) \in JobRow /\ taken(j).status = "running"
        <5> DEFINE attempts == IF jobs[j].status = "pending"
                               THEN jobs[j].attempts + 1 ELSE jobs[j].attempts
        <5>1. attempts \in 0..JobMaxAttempts
          <6>1. jobs[j].attempts \in 0..JobMaxAttempts
            BY <4>2 DEF JobRow
          <6> QED BY <2>1, <6>1, BrowserBoundAssumption
        <5>2. session[s].fence \in 0..MaxFence
          BY <1>2
        <5> HIDE DEF attempts
        <5>3. taken(j) = [jobs[j] EXCEPT !.status = "running", !.fence = session[s].fence,
                                         !.attempts = attempts]
          BY DEF attempts
        <5> QED BY <4>2, <5>1, <5>2, <5>3 DEF JobRow, Active
      <4>4. claim(j) \in Worker
        BY <1>2 DEF Worker, WorkerPC, ErrorKind
      <4> HIDE DEF taken, claim
      <4>5. job' \in [Jobs -> JobRow] /\ AttemptsLeft'
        BY <2>1, <4>1, <4>3 DEF AttemptsLeft
      <4>6. worker' \in [Sessions -> [Jobs -> Worker]]
        BY <4>1, <4>4, WriteWorker
      <4> QED BY <4>5, <4>6
    <3>3. CASE \E j \in Jobs : /\ job' = Skip([jobs EXCEPT ![j] = Failed(jobs[j])], {j})
                               /\ UNCHANGED worker
      <4>1. PICK j \in Jobs : /\ job' = Skip([jobs EXCEPT ![j] = Failed(jobs[j])], {j})
                              /\ UNCHANGED worker
        BY <3>3
      <4> DEFINE closed == [jobs EXCEPT ![j] = Failed(jobs[j])]
      <4>2. Failed(jobs[j]) \in JobRow /\ Failed(jobs[j]).status = "failed"
        BY <2>1, FailedRow
      <4>3. /\ closed \in [Jobs -> JobRow]
            /\ \A i \in Jobs : closed[i].status = "pending" => closed[i].attempts < JobMaxAttempts
        BY <2>1, <4>2
      <4> HIDE DEF closed
      <4>4. Passed(closed, job')
        BY <4>1, <4>3, SkipPasses DEF closed
      <4> QED BY <1>1, <4>1, <4>3, <4>4 DEF Passed, PassRow, AttemptsLeft
    <3> QED BY <2>2, <3>1, <3>2, <3>3
  <2>4. RunOpen /\ UNCHANGED <<asset, accepted, tab, session>>
    BY <1>7 DEF ClaimJobs, HoldsLease
  <2>5. UNCHANGED <<run, lease>> \/ AggregateAndRetire(job')
    BY <1>7 DEF ClaimJobs
  <2>6. run' \in RunRow /\ lease' \in LeaseRow /\ LeaseLeft'
    <3>1. CASE UNCHANGED <<run, lease>>
      BY <1>1, <3>1 DEF LeaseLeft, RunOpen, RunActive, RunCanceled
    <3>2. CASE AggregateAndRetire(job')
      BY <2>4, <3>2, AggregateType
    <3> QED BY <2>5, <3>1, <3>2
  <2> QED BY <2>3, <2>4, <2>6 DEF TypeOK
<1>8. CASE \E j \in Jobs, final \in BOOLEAN : Acknowledge(s, j, final)
  <2>1. PICK j \in Jobs, final \in BOOLEAN : Acknowledge(s, j, final)
    BY <1>8
  <2> DEFINE row == job[j]
             cancel == IF final THEN "final" ELSE row.cancel
             settlement == IF final THEN "unknown" ELSE "pending"
             new == [row EXCEPT !.cancel = cancel, !.settlement = settlement]
             closed == \A i \in Jobs : job'[i].cancel # "requested"
  <2>2. /\ RunCanceled
        /\ job' = [job EXCEPT ![j] = new]
        /\ run' = [run EXCEPT !.reconciled = closed]
        /\ lease' = [lease EXCEPT !.active = ~run'.reconciled]
        /\ UNCHANGED <<asset, accepted, tab, session, worker>>
    BY <2>1 DEF Acknowledge
  <2>3. row \in JobRow
    BY <1>1
  <2>4. new \in JobRow /\ new.status = row.status /\ new.attempts = row.attempts
    <3>1. /\ cancel \in {"none", "requested", "final"}
          /\ settlement \in {"not_required", "pending", "unknown"}
      BY <2>3 DEF JobRow
    <3> HIDE DEF cancel, settlement
    <3> QED BY <2>3, <3>1 DEF JobRow
  <2> HIDE DEF new
  <2>5. job' \in [Jobs -> JobRow] /\ AttemptsLeft'
    BY <2>2, <2>4, OneRow DEF AttemptsLeft
  <2>6. closed \in BOOLEAN
    OBVIOUS
  <2> HIDE DEF closed
  <2>7. run' \in RunRow /\ run'.reconciled = closed /\ run'.status = "canceled"
    BY <1>1, <2>2, <2>6 DEF RunRow, RunCanceled
  <2>8. lease' \in LeaseRow /\ lease'.active = ~closed
    BY <1>1, <2>2, <2>7 DEF LeaseRow
  <2>9. LeaseLeft'
    BY <2>7, <2>8 DEF LeaseLeft, RunOpen, RunActive, RunCanceled, Active
  <2> QED BY <2>2, <2>5, <2>7, <2>8, <2>9 DEF TypeOK
<1>9. CASE ClaimFails(s)
  <2>1. PICK kept \in BOOLEAN :
          /\ kept \/ lease.fence < MaxFence
          /\ lease' = [lease EXCEPT !.active = kept]
    BY <1>9 DEF ClaimFails
  <2>2. /\ session' = [session EXCEPT ![s].fence = 0]
        /\ UNCHANGED <<run, job, asset, accepted, tab, worker>>
    BY <1>9 DEF ClaimFails
  <2>3. session' \in [Sessions -> Belief]
    BY <1>1, <1>2, <2>2
  <2>4. lease' \in LeaseRow /\ lease'.fence = lease.fence /\ lease'.active = kept
    BY <1>1, <2>1 DEF LeaseRow
  <2>5. LeaseLeft'
    BY <2>1, <2>4 DEF LeaseLeft
  <2> QED BY <2>2, <2>3, <2>4, <2>5 DEF TypeOK, AttemptsLeft
<1> QED BY <1>3, <1>4, <1>5, <1>6, <1>7, <1>8, <1>9

\* The asset pipeline, the user, the clock and the settlement of a canceled run.
LEMMA OtherStepType ==
  ASSUME TypeInv,
         \/ \E j \in Jobs : Ingest(j) \/ DeleteOutput(j) \/ SettleCredits(j)
         \/ ExpireLease \/ CancelRun
  PROVE  TypeInv'
<1> USE DEF TypeInv
<1>1. job \in [Jobs -> JobRow] /\ lease \in LeaseRow /\ run \in RunRow
  BY DEF TypeOK
<1>2. CASE \E j \in Jobs : Ingest(j) \/ DeleteOutput(j)
  <2>1. PICK j \in Jobs : Ingest(j) \/ DeleteOutput(j)
    BY <1>2
  <2>2. UNCHANGED <<run, lease, job, accepted, tab, session, worker>>
    BY <2>1 DEF Ingest, DeleteOutput
  <2>3. asset' \in [Jobs -> {"none", "processing", "ready", "failed"}]
    BY <2>1 DEF Ingest, DeleteOutput, TypeOK
  <2>4. AttemptsLeft'
    BY <2>2 DEF AttemptsLeft
  <2> QED BY <2>2, <2>3, <2>4, SameRun DEF TypeOK
<1>3. CASE \E j \in Jobs : SettleCredits(j)
  <2>1. PICK j \in Jobs : SettleCredits(j)
    BY <1>3
  <2> DEFINE new == [job[j] EXCEPT !.credit = "released"]
  <2>2. job' = [job EXCEPT ![j] = new]
    BY <1>1, <2>1 DEF SettleCredits
  <2>3. new \in JobRow /\ new.status = job[j].status /\ new.attempts = job[j].attempts
    BY <1>1 DEF JobRow
  <2> HIDE DEF new
  <2>4. job' \in [Jobs -> JobRow] /\ AttemptsLeft'
    BY <2>2, <2>3, OneRow DEF AttemptsLeft
  <2>5. UNCHANGED <<run, lease, asset, accepted, tab, session, worker>>
    BY <2>1 DEF SettleCredits
  <2> QED BY <2>4, <2>5, SameRun DEF TypeOK
<1>4. CASE ExpireLease
  <2>1. /\ lease.fence < MaxFence /\ lease' = [lease EXCEPT !.active = FALSE]
        /\ UNCHANGED <<run, job, asset, accepted, tab, session, worker>>
    BY <1>4 DEF ExpireLease
  <2>2. lease' \in LeaseRow /\ lease'.fence = lease.fence
    BY <1>1, <2>1 DEF LeaseRow
  <2> QED BY <2>1, <2>2 DEF TypeOK, LeaseLeft, AttemptsLeft
<1>5. CASE CancelRun
  <2> DEFINE asked(j) == [job[j] EXCEPT !.status = "canceled", !.cancel = "requested",
                                        !.settlement = "pending"]
             dropped(j) == [job[j] EXCEPT !.status = "canceled", !.settlement = "not_required"]
             done == \A j \in Jobs : JobActive(j) => ~job[j].marked
  <2>1. /\ RunActive
        /\ job' = [j \in Jobs |-> IF ~JobActive(j) THEN job[j]
                                  ELSE IF job[j].marked THEN asked(j) ELSE dropped(j)]
        /\ run' = [status |-> "canceled", reconciled |-> done]
        /\ UNCHANGED <<lease, asset, accepted, tab, session, worker>>
    BY <1>5 DEF CancelRun
  <2>2. \A j \in Jobs : /\ asked(j) \in JobRow /\ asked(j).status = "canceled"
                        /\ dropped(j) \in JobRow /\ dropped(j).status = "canceled"
    BY <1>1 DEF JobRow, Final
  <2> HIDE DEF asked, dropped
  <2>3. job' \in [Jobs -> JobRow]
    BY <1>1, <2>1, <2>2
  <2>4. AttemptsLeft'
    BY <1>1, <2>1, <2>2 DEF AttemptsLeft
  <2>5. run' \in RunRow
    BY <2>1 DEF RunRow, Final
  <2>6. LeaseLeft'
    BY <2>1 DEF LeaseLeft, RunOpen
  <2> QED BY <2>1, <2>3, <2>4, <2>5, <2>6 DEF TypeOK
<1> QED BY <1>2, <1>3, <1>4, <1>5

LEMMA TypeInit == Init => TypeInv
<1> SUFFICES ASSUME Init PROVE TypeInv
  OBVIOUS
<1>1. MaxFence \in Nat \ {0} /\ JobMaxAttempts \in Nat \ {0}
  BY BrowserBoundAssumption
<1>2. run \in RunRow /\ lease \in LeaseRow
  BY <1>1 DEF Init, RunRow, LeaseRow, Active
<1>3. job \in [Jobs -> JobRow]
  BY <1>1 DEF Init, JobRow, Active
<1>4. NoWorker \in Worker
  BY <1>1 DEF NoWorker, Worker, WorkerPC, ErrorKind
<1>5. worker \in [Sessions -> [Jobs -> Worker]]
  BY <1>4 DEF Init
<1>6. session \in [Sessions -> [state : {"fresh", "on", "gone"}, fence : 0..MaxFence]]
  BY <1>1 DEF Init
<1>7. TypeOK
  BY <1>2, <1>3, <1>5, <1>6 DEF Init, TypeOK
<1>8. LeaseLeft /\ AttemptsLeft
  BY <1>1 DEF Init, LeaseLeft, AttemptsLeft
<1> QED BY <1>7, <1>8 DEF TypeInv

LEMMA TypeStep == TypeInv /\ [Next]_vars => TypeInv'
<1> SUFFICES ASSUME TypeInv, [Next]_vars PROVE TypeInv'
  OBVIOUS
<1>1. CASE Next
  <2>1. CASE \E s \in Sessions : SessionNext(s)
    <3>1. PICK s \in Sessions : SessionNext(s)
      BY <2>1
    <3>2. \/ \/ Start(s) \/ Stop(s) \/ AcquireLease(s) \/ ReleaseLease(s) \/ ClaimJobs(s) \/ ClaimFails(s)
             \/ \E j \in Jobs, final \in BOOLEAN : Acknowledge(s, j, final)
          \/ \E j \in Jobs : WorkerNext(s, j)
      BY <3>1 DEF SessionNext
    <3> QED BY <3>2, SessionStepType, WorkerStepType
  <2>2. CASE \/ \E j \in Jobs : Ingest(j) \/ DeleteOutput(j) \/ SettleCredits(j)
             \/ ExpireLease \/ CancelRun
    BY <2>2, OtherStepType
  <2> QED BY <1>1, <2>1, <2>2 DEF Next
<1>2. CASE UNCHANGED vars
  BY <1>2 DEF vars, TypeInv, TypeOK, LeaseLeft, AttemptsLeft, RunOpen, RunActive, RunCanceled
<1> QED BY <1>1, <1>2

\* The rows, the sessions and their workers stay within their types, for any plan and
\* any number of sessions: no sequence of takeovers and retries gives a job more
\* attempts than BROWSER_JOB_MAX_ATTEMPTS.
THEOREM TypeCorrect == Spec => []TypeOK
<1>1. Spec => []TypeInv
  BY TypeInit, TypeStep, PTL DEF Spec
<1>2. TypeInv => TypeOK
  BY DEF TypeInv
<1> QED BY <1>1, <1>2, PTL

-----------------------------------------------------------------------------
(* The invariant of a job.                                                  *)

\* An execution of the job was started: its worker has an answer of the provider.
Paid(w) == w.pc \in {"accepted", "polling", "result", "outputs", "completing"}

\* The worker that opened the submission boundary and has not paid: it may still pay,
\* or prove that it was refused.
Holding(w) == w.pc = "begun" \/ (w.pc = "erred" /\ w.err \in {"limited", "rejected"})

Ready(p) == job[p].status = "succeeded"

\* The books of one job: what was spent, under which marker, on which inputs.
JobBooks(j) ==
  /\ job[j].marked => job[j].settlement # "not_required"
  /\ accepted[j] > 0 => job[j].marked
  /\ accepted[j] \in {0, 1}
  /\ job[j].ext \/ asset[j] # "none" => accepted[j] = 1
  /\ job[j].status \in Active => job[j].credit = "reserved"
  /\ job[j].marked \/ job[j].status = "running" => \A p \in Preds[j] : Ready(p)

\* Its workers: those that have an answer were paid for, and at most one, of one session,
\* holds the boundary, under a marker nobody has paid for yet.
JobWorkers(j) ==
  \A s \in Sessions :
    /\ Paid(worker[s][j]) => accepted[j] = 1
    /\ Holding(worker[s][j]) => /\ job[j].marked /\ accepted[j] = 0
                                /\ \A o \in Sessions : Holding(worker[o][j]) => o = s

Inv == TypeInv /\ \A j \in Jobs : JobBooks(j) /\ JobWorkers(j)

-----------------------------------------------------------------------------
(* The effects of a step on one job.                                        *)

\* The job goes on or ends, and its credits with it.
EndEffect(j) ==
  \/ /\ job[j].status \in Active /\ job'[j].status \in Active
     /\ job'[j].credit = job[j].credit
  \/ job'[j].status = job[j].status /\ job'[j].credit = job[j].credit
  \/ /\ job[j].status \in Active
     /\ job'[j].status \in {"failed", "canceled"} /\ job'[j].credit \in {job[j].credit, "released"}
  \/ /\ job[j].status \in Active /\ asset[j] = "ready"
     /\ job'[j].status = "succeeded" /\ job'[j].credit = "captured"
  \/ /\ job[j].status = "canceled" /\ job'[j].status = "canceled"
     /\ job[j].credit = "reserved" /\ job'[j].credit = "released"

\* A worker moves without opening the boundary or paying, as far as the job tells.
WorkerEffect(j) ==
  \A s \in Sessions : /\ Holding(worker'[s][j]) => Holding(worker[s][j])
                      /\ Paid(worker'[s][j]) => Paid(worker[s][j]) \/ job[j].ext

\* Nobody pays, and the marker stays as it is.
Quiet(j) ==
  /\ accepted'[j] = accepted[j] /\ job'[j].marked = job[j].marked
  /\ job'[j].ext => job[j].ext \/ \E s \in Sessions : Paid(worker[s][j])
  /\ asset'[j] # "none" => asset[j] # "none" \/ \E s \in Sessions : Paid(worker[s][j])
  /\ job[j].marked /\ job[j].settlement # "not_required" => job'[j].settlement # "not_required"
  /\ job'[j].status = "running" => job[j].status = "running" \/ \A p \in Preds[j] : Ready(p)'
  /\ EndEffect(j) /\ WorkerEffect(j)

OthersStay(s, j) == \A o \in Sessions : o # s => worker'[o][j] = worker[o][j]

\* beginBrowserJobSubmission.
Opens(s, j) ==
  /\ job[j].status = "running" /\ ~job[j].marked
  /\ job'[j].marked /\ job'[j].settlement = "pending"
  /\ job'[j].status = job[j].status /\ job'[j].credit = job[j].credit
  /\ job'[j].ext = job[j].ext /\ accepted'[j] = accepted[j] /\ asset'[j] = asset[j]
  /\ ~Paid(worker'[s][j]) /\ OthersStay(s, j)

\* The paid call.
Pays(s, j) ==
  /\ Holding(worker[s][j]) /\ accepted'[j] = accepted[j] + 1
  /\ job'[j] = job[j] /\ asset'[j] = asset[j]
  /\ ~Holding(worker'[s][j]) /\ OthersStay(s, j)

\* failBrowserJob after a proven refusal.
TakesBack(s, j) ==
  /\ Holding(worker[s][j]) /\ job[j].status \in Active
  /\ ~job'[j].marked /\ job'[j].ext = job[j].ext
  /\ accepted'[j] = accepted[j] /\ asset'[j] = asset[j]
  /\ \/ job'[j].status = "pending" /\ job'[j].credit = job[j].credit
     \/ job'[j].status = "failed" /\ job'[j].credit = "released"
  /\ ~Holding(worker'[s][j]) /\ ~Paid(worker'[s][j]) /\ OthersStay(s, j)

Effect(j) ==
  Quiet(j) \/ \E s \in Sessions : Opens(s, j) \/ Pays(s, j) \/ TakesBack(s, j)

-----------------------------------------------------------------------------
(* Effects preserve the invariant.                                          *)

\* A job that succeeded stays succeeded.
LEMMA ReadyStays ==
  ASSUME NEW p \in Jobs, Effect(p), Ready(p)
  PROVE  Ready(p)'
<1>1. CASE Quiet(p)
  BY <1>1 DEF Quiet, EndEffect, Ready, Active
<1>2. CASE \E s \in Sessions : Opens(s, p) \/ Pays(s, p) \/ TakesBack(s, p)
  BY <1>2 DEF Opens, Pays, TakesBack, Ready, Active
<1> QED BY <1>1, <1>2 DEF Effect

LEMMA QuietKeeps ==
  ASSUME Inv, NEW j \in Jobs, Quiet(j), \A p \in Preds[j] : Ready(p) => Ready(p)'
  PROVE  JobBooks(j)' /\ JobWorkers(j)'
<1>1. JobBooks(j) /\ JobWorkers(j) /\ job[j] \in JobRow
  BY DEF Inv, TypeInv, TypeOK
<1>2. (\E s \in Sessions : Paid(worker[s][j])) => accepted[j] = 1
  BY <1>1 DEF JobWorkers
<1>3. /\ job'[j].marked => job'[j].settlement # "not_required"
      /\ accepted'[j] > 0 => job'[j].marked
      /\ accepted'[j] \in {0, 1}
      /\ job'[j].ext \/ asset'[j] # "none" => accepted'[j] = 1
  BY <1>1, <1>2 DEF Quiet, JobBooks
<1>4. job'[j].status \in Active => job'[j].credit = "reserved"
  BY <1>1 DEF Quiet, EndEffect, JobBooks, Active
<1>5. job'[j].marked \/ job'[j].status = "running" => \A p \in Preds[j] : Ready(p)'
  BY <1>1 DEF Quiet, JobBooks
<1>6. JobWorkers(j)'
  BY <1>1 DEF Quiet, WorkerEffect, JobWorkers, JobBooks
<1> QED BY <1>3, <1>4, <1>5, <1>6 DEF JobBooks

LEMMA OpensKeeps ==
  ASSUME Inv, NEW j \in Jobs, NEW s \in Sessions, Opens(s, j),
         \A p \in Preds[j] : Ready(p) => Ready(p)'
  PROVE  JobBooks(j)' /\ JobWorkers(j)'
<1>1. JobBooks(j) /\ JobWorkers(j) /\ accepted[j] \in Nat
  BY DEF Inv, TypeInv, TypeOK
<1>2. accepted[j] = 0
  BY <1>1 DEF Opens, JobBooks
<1>3. JobBooks(j)'
  BY <1>1, <1>2 DEF Opens, JobBooks
<1>4. \A o \in Sessions : ~Holding(worker[o][j]) /\ ~Paid(worker[o][j])
  BY <1>1, <1>2 DEF Opens, JobWorkers
<1>5. \A o \in Sessions : ~Paid(worker'[o][j]) /\ (Holding(worker'[o][j]) => o = s)
  BY <1>4 DEF Opens, OthersStay
<1>6. JobWorkers(j)'
  BY <1>2, <1>5 DEF Opens, JobWorkers
<1> QED BY <1>3, <1>6

LEMMA PaysKeeps ==
  ASSUME Inv, NEW j \in Jobs, NEW s \in Sessions, Pays(s, j),
         \A p \in Preds[j] : Ready(p) => Ready(p)'
  PROVE  JobBooks(j)' /\ JobWorkers(j)'
<1>1. JobBooks(j) /\ JobWorkers(j)
  BY DEF Inv
<1>2. job[j].marked /\ accepted[j] = 0 /\ accepted'[j] = 1
  BY <1>1 DEF Pays, JobWorkers
<1>3. JobBooks(j)'
  BY <1>1, <1>2 DEF Pays, JobBooks
<1>4. \A o \in Sessions : ~Holding(worker'[o][j])
  BY <1>1 DEF Pays, JobWorkers, OthersStay
<1>5. JobWorkers(j)'
  BY <1>2, <1>4 DEF JobWorkers
<1> QED BY <1>3, <1>5

LEMMA TakesBackKeeps ==
  ASSUME Inv, NEW j \in Jobs, NEW s \in Sessions, TakesBack(s, j),
         \A p \in Preds[j] : Ready(p) => Ready(p)'
  PROVE  JobBooks(j)' /\ JobWorkers(j)'
<1>1. JobBooks(j) /\ JobWorkers(j)
  BY DEF Inv
<1>2. accepted[j] = 0 /\ accepted'[j] = 0
  BY <1>1 DEF TakesBack, JobWorkers
<1>3. JobBooks(j)'
  BY <1>1, <1>2 DEF TakesBack, JobBooks, Active
<1>4. \A o \in Sessions : ~Holding(worker'[o][j]) /\ ~Paid(worker'[o][j])
  BY <1>1, <1>2 DEF TakesBack, JobWorkers, OthersStay
<1>5. JobWorkers(j)'
  BY <1>4 DEF JobWorkers
<1> QED BY <1>3, <1>5

LEMMA EffectsKeep ==
  ASSUME Inv, TypeInv', \A j \in Jobs : Effect(j)
  PROVE  Inv'
<1> SUFFICES ASSUME NEW j \in Jobs PROVE JobBooks(j)' /\ JobWorkers(j)'
  BY DEF Inv
<1>1. \A p \in Preds[j] : Ready(p) => Ready(p)'
  <2>1. Preds[j] \subseteq Jobs
    BY BrowserPlanAssumption
  <2> QED BY <2>1, ReadyStays
<1>2. Effect(j)
  OBVIOUS
<1> QED BY <1>1, <1>2, QuietKeeps, OpensKeeps, PaysKeeps, TakesBackKeeps DEF Effect

-----------------------------------------------------------------------------
(* Every step has one of these effects on every job.                        *)

\* A job that a step does not touch.
LEMMA Untouched ==
  ASSUME NEW i \in Jobs, job'[i] = job[i], asset'[i] = asset[i], accepted'[i] = accepted[i],
         \A o \in Sessions : worker'[o][i] \in {worker[o][i], NoWorker}
  PROVE  Quiet(i)
<1>1. ~Holding(NoWorker) /\ ~Paid(NoWorker)
  BY DEF Holding, Paid, NoWorker
<1>2. WorkerEffect(i)
  BY <1>1 DEF WorkerEffect
<1> QED BY <1>2 DEF Quiet, EndEffect

\* A job whose row a pass or a helper rewrites.
LEMMA PassQuiet ==
  ASSUME NEW i \in Jobs, NEW ready \in BOOLEAN, PassRow(job[i], job'[i], ready),
         ready => asset[i] = "ready",
         asset'[i] = asset[i], accepted'[i] = accepted[i], WorkerEffect(i)
  PROVE  Quiet(i)
BY DEF PassRow, Quiet, EndEffect

\* A worker throws, leaves or goes on.
LEMMA ThrowEffect ==
  ASSUME TypeOK, NEW s \in Sessions, NEW j \in Jobs, NEW k \in ErrorKind, Throw(s, j, k)
  PROVE  /\ ~Paid(worker'[s][j])
         /\ Holding(worker'[s][j]) <=> k \in {"limited", "rejected"}
         /\ OthersStay(s, j)
         /\ \A i \in Jobs : i # j => \A o \in Sessions : worker'[o][i] = worker[o][i]
<1> DEFINE w == [worker[s][j] EXCEPT !.pc = "erred", !.err = k]
<1>1. w \in Worker /\ worker[s][j] \in Worker
  BY WorkerMoves
<1>2. worker' = [worker EXCEPT ![s][j] = w]
  BY DEF Throw, TypeOK
<1>3. w.pc = "erred" /\ w.err = k
  BY <1>1 DEF Worker
<1> HIDE DEF w
<1>4. /\ worker'[s][j] = w
      /\ \A o \in Sessions, i \in Jobs : o # s \/ i # j => worker'[o][i] = worker[o][i]
  BY <1>1, <1>2, WriteWorker
<1> QED BY <1>3, <1>4 DEF Paid, Holding, OthersStay

LEMMA LeaveEffect ==
  ASSUME TypeOK, NEW s \in Sessions, NEW j \in Jobs, Leave(s, j)
  PROVE  /\ worker'[s][j] = NoWorker
         /\ ~Paid(worker'[s][j]) /\ ~Holding(worker'[s][j])
         /\ OthersStay(s, j)
         /\ \A i \in Jobs : i # j => \A o \in Sessions : worker'[o][i] = worker[o][i]
<1>1. NoWorker \in Worker
  BY WorkerMoves
<1>2. /\ worker'[s][j] = NoWorker
      /\ \A o \in Sessions, i \in Jobs : o # s \/ i # j => worker'[o][i] = worker[o][i]
  BY <1>1, WriteWorker DEF Leave
<1>3. ~Holding(NoWorker) /\ ~Paid(NoWorker)
  BY DEF Holding, Paid, NoWorker
<1> QED BY <1>2, <1>3 DEF OthersStay

LEMMA GotoEffect ==
  ASSUME TypeOK, NEW s \in Sessions, NEW j \in Jobs, NEW pc \in WorkerPC \ {"erred"},
         Goto(s, j, pc)
  PROVE  /\ Paid(worker'[s][j]) <=> pc \in {"accepted", "polling", "result", "outputs", "completing"}
         /\ Holding(worker'[s][j]) <=> pc = "begun"
         /\ OthersStay(s, j)
         /\ \A i \in Jobs : i # j => \A o \in Sessions : worker'[o][i] = worker[o][i]
<1> DEFINE w == [worker[s][j] EXCEPT !.pc = pc]
<1>1. w \in Worker /\ worker[s][j] \in Worker
  BY WorkerMoves
<1>2. worker' = [worker EXCEPT ![s][j] = w]
  BY DEF Goto, TypeOK
<1>3. w.pc = pc
  BY <1>1 DEF Worker
<1> HIDE DEF w
<1>4. /\ worker'[s][j] = w
      /\ \A o \in Sessions, i \in Jobs : o # s \/ i # j => worker'[o][i] = worker[o][i]
  BY <1>1, <1>2, WriteWorker
<1> QED BY <1>3, <1>4 DEF Paid, Holding, OthersStay

\* Jobs whose worker, but for one session that neither opens nor pays, stays.
LEMMA OneWorker ==
  ASSUME NEW s \in Sessions, NEW j \in Jobs, OthersStay(s, j),
         Holding(worker'[s][j]) => Holding(worker[s][j]),
         Paid(worker'[s][j]) => Paid(worker[s][j]) \/ job[j].ext
  PROVE  WorkerEffect(j)
BY DEF OthersStay, WorkerEffect

\* A worker moves, and the rows stay or only the row of its job changes.
LEMMA OthersQuiet ==
  ASSUME NEW j \in Jobs,
         \A i \in Jobs : i # j => /\ job'[i] = job[i] /\ asset'[i] = asset[i]
                                  /\ accepted'[i] = accepted[i]
                                  /\ \A o \in Sessions : worker'[o][i] = worker[o][i]
  PROVE  \A i \in Jobs : i # j => Effect(i)
BY Untouched DEF Effect

LEMMA WorkerStepEffect ==
  ASSUME Inv, NEW s \in Sessions, NEW j \in Jobs, WorkerNext(s, j)
  PROVE  \A i \in Jobs : Effect(i)
<1> DEFINE row == job[j]
           w == worker[s][j]
           Alone == \A i \in Jobs : i # j => \A o \in Sessions : worker'[o][i] = worker[o][i]
           Same == /\ \A i \in Jobs : i # j => asset'[i] = asset[i] /\ accepted'[i] = accepted[i]
                   /\ \A i \in Jobs : i # j => job'[i] = job[i]
<1>1. /\ TypeOK /\ row \in JobRow /\ job \in [Jobs -> JobRow]
      /\ accepted \in [Jobs -> Nat]
      /\ asset \in [Jobs -> {"none", "processing", "ready", "failed"}]
      /\ JobBooks(j) /\ JobWorkers(j)
  BY DEF Inv, TypeInv, TypeOK
<1>2. ASSUME Alone, Same, Effect(j)
      PROVE  \A i \in Jobs : Effect(i)
  BY <1>2, OthersQuiet
<1>3. ASSUME Throw(s, j, "fatal") \/ Throw(s, j, "retry") \/ Leave(s, j)
      PROVE  /\ ~Paid(worker'[s][j]) /\ ~Holding(worker'[s][j])
             /\ OthersStay(s, j) /\ Alone /\ WorkerEffect(j)
  <2>1. "fatal" \in ErrorKind /\ "retry" \in ErrorKind
    BY DEF ErrorKind
  <2>2. ~Paid(worker'[s][j]) /\ ~Holding(worker'[s][j]) /\ OthersStay(s, j) /\ Alone
    BY <1>1, <1>3, <2>1, ThrowEffect, LeaveEffect
  <2> QED BY <2>2, OneWorker
<1>4. ASSUME NEW pc \in {"accepted", "polling", "result", "outputs", "completing"}, Goto(s, j, pc)
      PROVE  ~Holding(worker'[s][j]) /\ OthersStay(s, j) /\ Alone /\ (Paid(w) => WorkerEffect(j))
  <2>1. pc \in WorkerPC \ {"erred"} /\ pc # "begun"
    BY DEF WorkerPC
  <2>2. ~Holding(worker'[s][j]) /\ OthersStay(s, j) /\ Alone
    BY <1>1, <1>4, <2>1, GotoEffect
  <2> QED BY <2>2, OneWorker
<1>5. ASSUME job'[j] = row, asset'[j] = asset[j], accepted'[j] = accepted[j], WorkerEffect(j)
      PROVE  Effect(j)
  BY <1>5 DEF Quiet, EndEffect, Effect
<1>6. ASSUME NEW ready \in BOOLEAN, PassRow(row, job'[j], ready), ready => asset[j] = "ready",
             asset'[j] = asset[j], accepted'[j] = accepted[j], WorkerEffect(j)
      PROVE  Effect(j)
  BY <1>6, PassQuiet DEF Effect
<1>7. ASSUME UNCHANGED rows \/ UNCHANGED <<job, asset, accepted>>
      PROVE  /\ Same
             /\ job'[j] = row /\ asset'[j] = asset[j] /\ accepted'[j] = accepted[j]
  BY <1>7 DEF rows
<1> HIDE DEF Alone
<1>10. CASE Abandon(s, j) \/ LoseReport(s, j) \/ Vanish(s, j)
  <2>1. UNCHANGED rows /\ (Throw(s, j, "fatal") \/ Leave(s, j))
    BY <1>10 DEF Abandon, LoseReport, Vanish
  <2> QED BY <1>2, <1>3, <1>5, <1>7, <2>1
<1>11. CASE Begin(s, j)
  <2> DEFINE new == [row EXCEPT !.submission = "submitting", !.marked = TRUE,
                                !.settlement = "pending"]
  <2>1. UNCHANGED <<asset, accepted>>
    BY <1>11 DEF Begin
  <2>2. \/ UNCHANGED job /\ Throw(s, j, "fatal")
        \/ /\ row.status = "running" /\ ~row.marked /\ job' = [job EXCEPT ![j] = new]
           /\ Goto(s, j, "begun") \/ Throw(s, j, "fatal")
    BY <1>11 DEF Begin
  <2>3. CASE UNCHANGED job /\ Throw(s, j, "fatal")
    BY <1>2, <1>3, <1>5, <1>7, <2>1, <2>3
  <2>4. CASE /\ row.status = "running" /\ ~row.marked /\ job' = [job EXCEPT ![j] = new]
             /\ Goto(s, j, "begun") \/ Throw(s, j, "fatal")
    <3>1. /\ new \in JobRow
          /\ new.marked /\ new.settlement = "pending" /\ new.status = row.status
          /\ new.credit = row.credit /\ new.ext = row.ext
      BY <1>1 DEF JobRow
    <3> HIDE DEF new
    <3>2. job'[j] = new /\ Same
      BY <1>1, <2>1, <2>4
    <3>3. ~Paid(worker'[s][j]) /\ OthersStay(s, j) /\ Alone
      <4>1. CASE Goto(s, j, "begun")
        <5>1. "begun" \in WorkerPC \ {"erred"}
          BY DEF WorkerPC
        <5> QED BY <1>1, <4>1, <5>1, GotoEffect DEF Alone
      <4> QED BY <1>3, <2>4, <4>1
    <3>4. Opens(s, j)
      BY <2>1, <2>4, <3>1, <3>2, <3>3 DEF Opens
    <3>5. Effect(j)
      BY <3>4 DEF Effect
    <3> QED BY <1>2, <3>2, <3>3, <3>5
  <2> QED BY <2>2, <2>3, <2>4
<1>12. CASE Submit(s, j)
  <2>1. Holding(w) /\ UNCHANGED <<job, asset>>
    BY <1>12 DEF Submit, Holding
  <2>2. \/ /\ accepted' = [accepted EXCEPT ![j] = accepted[j] + 1]
           /\ \/ \E pc \in {"accepted", "result"} : Goto(s, j, pc)
              \/ \E k \in {"retry", "fatal"} : Throw(s, j, k)
        \/ UNCHANGED accepted /\ \E k \in {"limited", "rejected"} : Throw(s, j, k)
        \/ UNCHANGED accepted /\ Throw(s, j, "fatal")
    BY <1>12 DEF Submit
  <2>3. CASE /\ accepted' = [accepted EXCEPT ![j] = accepted[j] + 1]
             /\ \/ \E pc \in {"accepted", "result"} : Goto(s, j, pc)
                \/ \E k \in {"retry", "fatal"} : Throw(s, j, k)
    <3>1. accepted'[j] = accepted[j] + 1 /\ Same
      BY <1>1, <2>1, <2>3
    <3>2. ~Holding(worker'[s][j]) /\ OthersStay(s, j) /\ Alone
      <4>1. CASE \E pc \in {"accepted", "result"} : Goto(s, j, pc)
        BY <1>4, <4>1
      <4>2. CASE \E k \in {"retry", "fatal"} : Throw(s, j, k)
        BY <1>3, <4>2
      <4> QED BY <2>3, <4>1, <4>2
    <3>3. Pays(s, j)
      BY <2>1, <3>1, <3>2 DEF Pays
    <3>4. Effect(j)
      BY <3>3 DEF Effect
    <3> QED BY <1>2, <3>1, <3>2, <3>4
  <2>4. CASE UNCHANGED accepted /\ \E k \in {"limited", "rejected"} : Throw(s, j, k)
    <3>1. PICK k \in {"limited", "rejected"} : Throw(s, j, k)
      BY <2>4
    <3>2. k \in ErrorKind
      BY DEF ErrorKind
    <3>3. ~Paid(worker'[s][j]) /\ OthersStay(s, j) /\ Alone
      BY <1>1, <3>1, <3>2, ThrowEffect DEF Alone
    <3>4. WorkerEffect(j)
      BY <2>1, <3>3, OneWorker
    <3> QED BY <1>2, <1>5, <1>7, <2>1, <2>4, <3>3, <3>4
  <2>5. CASE UNCHANGED accepted /\ Throw(s, j, "fatal")
    BY <1>2, <1>3, <1>5, <1>7, <2>1, <2>5
  <2> QED BY <2>2, <2>3, <2>4, <2>5
<1>13. CASE Checkpoint(s, j)
  <2> DEFINE ext == row.ext \/ worker[s][j].pc = "accepted"
             submission == IF row.marked THEN "submitted" ELSE row.submission
             settlement == IF RunCanceled THEN row.settlement
                           ELSE IF row.marked THEN "pending" ELSE "not_required"
             new == [row EXCEPT !.ext = ext, !.submission = submission, !.settlement = settlement]
  <2>1. Paid(w) /\ UNCHANGED <<asset, accepted>>
    BY <1>13 DEF Checkpoint, Paid
  <2>2. /\ UNCHANGED job \/ job' = [job EXCEPT ![j] = new]
        /\ Goto(s, j, "polling") \/ Goto(s, j, "outputs") \/ Throw(s, j, "fatal")
    BY <1>13 DEF Checkpoint
  <2>3. WorkerEffect(j) /\ Alone
    BY <1>3, <1>4, <2>1, <2>2
  <2>4. CASE UNCHANGED job
    BY <1>2, <1>5, <1>7, <2>1, <2>3, <2>4
  <2>5. CASE job' = [job EXCEPT ![j] = new]
    <3>1. /\ new.marked = row.marked /\ new.status = row.status /\ new.credit = row.credit
          /\ new.settlement = settlement
      BY <1>1 DEF JobRow
    <3> HIDE DEF new
    <3>2. job'[j] = new /\ Same
      BY <1>1, <2>1, <2>5
    <3>3. row.marked /\ row.settlement # "not_required" => settlement # "not_required"
      OBVIOUS
    <3> HIDE DEF settlement
    <3>4. Quiet(j)
      BY <2>1, <2>3, <3>1, <3>2, <3>3 DEF Quiet, EndEffect
    <3> QED BY <1>2, <2>3, <3>2, <3>4 DEF Effect
  <2> QED BY <2>2, <2>4, <2>5
<1>14. CASE Poll(s, j)
  <2>1. Paid(w) /\ UNCHANGED rows
    BY <1>14 DEF Poll, Paid
  <2>2. Goto(s, j, "result") \/ Throw(s, j, "retry") \/ Throw(s, j, "fatal")
    BY <1>14 DEF Poll
  <2>3. WorkerEffect(j) /\ Alone
    BY <1>3, <1>4, <2>1, <2>2
  <2> QED BY <1>2, <1>5, <1>7, <2>1, <2>3
<1>15. CASE CommitOutput(s, j)
  <2>1. Paid(w) /\ UNCHANGED accepted
    BY <1>15 DEF CommitOutput, Paid
  <2>2. Goto(s, j, "completing") \/ Throw(s, j, "fatal")
    BY <1>15 DEF CommitOutput
  <2>3. WorkerEffect(j) /\ Alone
    BY <1>3, <1>4, <2>1, <2>2
  <2>4. \/ job' = [job EXCEPT ![j] = Discarded(row)] /\ UNCHANGED asset
        \/ UNCHANGED job
    BY <1>15 DEF CommitOutput
  <2>5. \A i \in Jobs : i # j => asset'[i] = asset[i]
    BY <1>1, <1>15 DEF CommitOutput
  <2>6. CASE job' = [job EXCEPT ![j] = Discarded(row)] /\ UNCHANGED asset
    <3>1. job'[j] = Discarded(row) /\ Same
      BY <1>1, <2>1, <2>6
    <3>2. PassRow(row, job'[j], FALSE)
      BY <1>1, <3>1, DiscardedRow
    <3> QED BY <1>2, <1>6, <2>1, <2>3, <2>6, <3>1, <3>2
  <2>7. CASE UNCHANGED job
    <3>1. Same
      BY <2>1, <2>5, <2>7
    <3>2. Quiet(j)
      BY <2>1, <2>3, <2>7 DEF Quiet, EndEffect
    <3> QED BY <1>2, <2>3, <3>1, <3>2 DEF Effect
  <2> QED BY <2>4, <2>6, <2>7
<1>16. CASE Complete(s, j)
  <2>1. UNCHANGED <<asset, accepted>> /\ (Throw(s, j, "fatal") \/ Leave(s, j))
    BY <1>16 DEF Complete
  <2>2. WorkerEffect(j) /\ Alone
    BY <1>3, <2>1
  <2>3. \/ UNCHANGED job
        \/ job' = [job EXCEPT ![j] = Discarded(row)]
        \/ job' = [job EXCEPT ![j] = Succeeded(row)] /\ asset[j] = "ready"
    BY <1>16 DEF Complete, Readiness
  <2>4. CASE UNCHANGED job
    BY <1>2, <1>5, <1>7, <2>1, <2>2, <2>4
  <2>5. CASE job' = [job EXCEPT ![j] = Discarded(row)]
    <3>1. job'[j] = Discarded(row) /\ Same
      BY <1>1, <2>1, <2>5
    <3>2. PassRow(row, job'[j], FALSE)
      BY <1>1, <3>1, DiscardedRow
    <3> QED BY <1>2, <1>6, <2>1, <2>2, <3>1, <3>2
  <2>6. CASE job' = [job EXCEPT ![j] = Succeeded(row)] /\ asset[j] = "ready"
    <3>1. job'[j] = Succeeded(row) /\ Same
      BY <1>1, <2>1, <2>6
    <3>2. PassRow(row, job'[j], TRUE)
      BY <1>1, <3>1, SucceededRow
    <3> QED BY <1>2, <1>6, <2>1, <2>2, <2>6, <3>1, <3>2
  <2> QED BY <2>3, <2>4, <2>5, <2>6
<1>17. CASE Report(s, j)
  <2> DEFINE again == [(IF Safe(s, j) THEN Unsubmitted(row) ELSE row) EXCEPT !.status = "pending"]
             closed == IF Safe(s, j) THEN Unsubmitted(Failed(row))
                       ELSE [Failed(row) EXCEPT !.settlement = IF row.marked THEN "unknown"
                                                               ELSE "not_required"]
             jobs == [job EXCEPT ![j] = closed]
  <2>1. w.pc = "erred" /\ UNCHANGED <<asset, accepted>> /\ Leave(s, j)
    BY <1>17 DEF Report
  <2>2. WorkerEffect(j) /\ Alone /\ ~Paid(worker'[s][j]) /\ ~Holding(worker'[s][j]) /\ OthersStay(s, j)
    BY <1>3, <2>1
  <2>3. \/ UNCHANGED job
        \/ job' = [job EXCEPT ![j] = Discarded(row)]
        \/ Retries(s, j) /\ job' = [job EXCEPT ![j] = again]
        \/ JobActive(j) /\ job' = Skip(jobs, {j})
    BY <1>17 DEF Report
  <2>4. Safe(s, j) => Holding(w)
    BY <2>1 DEF Safe, Holding
  <2>5. CASE UNCHANGED job
    BY <1>2, <1>5, <1>7, <2>1, <2>2, <2>5
  <2>6. CASE job' = [job EXCEPT ![j] = Discarded(row)]
    <3>1. job'[j] = Discarded(row) /\ Same
      BY <1>1, <2>1, <2>6
    <3>2. PassRow(row, job'[j], FALSE)
      BY <1>1, <3>1, DiscardedRow
    <3> QED BY <1>2, <1>6, <2>1, <2>2, <3>1, <3>2
  <2>7. CASE Retries(s, j) /\ job' = [job EXCEPT ![j] = again]
    <3>1. row.status = "running"
      BY <2>7 DEF Retries
    <3>2. CASE Safe(s, j)
      <4>1. /\ Unsubmitted(row) \in JobRow /\ ~Unsubmitted(row).marked
            /\ Unsubmitted(row).credit = row.credit /\ Unsubmitted(row).ext = row.ext
        BY <1>1, UnsubmittedRow
      <4>2. /\ ~again.marked /\ again.status = "pending"
            /\ again.credit = row.credit /\ again.ext = row.ext
        BY <3>2, <4>1 DEF JobRow
      <4> HIDE DEF again
      <4>3. job'[j] = again /\ Same
        BY <1>1, <2>1, <2>7
      <4>4. TakesBack(s, j)
        BY <2>1, <2>2, <2>4, <3>1, <3>2, <4>2, <4>3 DEF TakesBack, Active
      <4> QED BY <1>2, <2>2, <4>3, <4>4 DEF Effect
    <3>3. CASE ~Safe(s, j)
      <4>1. /\ again.marked = row.marked /\ again.status = "pending"
            /\ again.credit = row.credit /\ again.ext = row.ext
            /\ again.settlement = row.settlement
        BY <1>1, <3>3 DEF JobRow
      <4> HIDE DEF again
      <4>2. job'[j] = again /\ Same
        BY <1>1, <2>1, <2>7
      <4>3. Quiet(j)
        BY <2>1, <2>2, <3>1, <4>1, <4>2 DEF Quiet, EndEffect, Active
      <4> QED BY <1>2, <2>2, <4>2, <4>3 DEF Effect
    <3> QED BY <3>2, <3>3
  <2>8. CASE JobActive(j) /\ job' = Skip(jobs, {j})
    <3>1. row.status \in Active /\ row.credit = "reserved"
      BY <1>1, <2>8 DEF JobActive, JobBooks
    <3>2. /\ Failed(row) \in JobRow /\ Failed(row).status = "failed"
          /\ Failed(row).credit = "released" /\ Failed(row).ext = row.ext
          /\ Failed(row).marked = row.marked
      BY <1>1, <3>1, FailedRow
    <3>3. /\ closed \in JobRow /\ closed.status = "failed" /\ closed.credit = "released"
          /\ closed.ext = row.ext
          /\ Safe(s, j) => ~closed.marked
          /\ ~Safe(s, j) => closed.marked = row.marked
                            /\ (row.marked => closed.settlement # "not_required")
      <4>1. CASE Safe(s, j)
        BY <3>2, <4>1, UnsubmittedRow
      <4>2. CASE ~Safe(s, j)
        BY <3>2, <4>2 DEF JobRow
      <4> QED BY <4>1, <4>2
    <3> HIDE DEF closed
    <3>4. jobs \in [Jobs -> JobRow] /\ jobs[j] = closed
      BY <1>1, <3>3
    <3>5. job'[j] = closed
      BY <2>8, <3>3, <3>4 DEF Skip
    <3>6. \A i \in Jobs : i # j => jobs[i] = job[i]
      BY <1>1
    <3> HIDE DEF jobs
    <3>7. Passed(jobs, job')
      BY <2>8, <3>4, SkipPasses
    <3>8. ASSUME NEW i \in Jobs, i # j PROVE Effect(i)
      <4>1. PassRow(job[i], job'[i], asset[i] = "ready")
        BY <3>6, <3>7, <3>8 DEF Passed
      <4>2. WorkerEffect(i)
        BY <2>2, <3>8 DEF WorkerEffect, Alone
      <4> QED BY <2>1, <4>1, <4>2, PassQuiet DEF Effect
    <3>9. Effect(j)
      <4>1. CASE Safe(s, j)
        BY <2>1, <2>2, <2>4, <3>1, <3>3, <3>5, <4>1 DEF TakesBack, Effect
      <4>2. CASE ~Safe(s, j)
        BY <2>1, <2>2, <3>1, <3>3, <3>5, <4>2 DEF Quiet, EndEffect, Effect
      <4> QED BY <4>1, <4>2
    <3> QED BY <3>8, <3>9
  <2> QED BY <2>3, <2>5, <2>6, <2>7, <2>8
<1> QED BY <1>10, <1>11, <1>12, <1>13, <1>14, <1>15, <1>16, <1>17 DEF WorkerNext

\* A claim pass: it closes jobs, and takes at most one whose inputs are complete.
LEMMA ClaimEffect ==
  ASSUME Inv, NEW s \in Sessions, ClaimJobs(s)
  PROVE  \A i \in Jobs : Effect(i)
<1> DEFINE jobs == ResolveUncertain(s, Reconciled(s))
           taken(j) == [jobs[j] EXCEPT !.status = "running", !.fence = session[s].fence,
                          !.attempts = IF jobs[j].status = "pending"
                                       THEN jobs[j].attempts + 1 ELSE jobs[j].attempts]
           claim(j) == [pc |-> IF jobs[j].ext THEN "polling" ELSE "claimed",
                        fence |-> session[s].fence, err |-> "none"]
           able(j) == jobs[j].status \in Active
           ready(j) == jobs[j].status = "running" \/ \A p \in Preds[j] : jobs[p].status = "succeeded"
<1>1. TypeOK /\ job \in [Jobs -> JobRow]
  BY DEF Inv, TypeInv, TypeOK
<1>2. Passed(job, jobs) /\ jobs \in [Jobs -> JobRow]
  BY <1>1, ClaimPasses DEF Passed
<1>3. \/ job' = jobs /\ UNCHANGED worker
      \/ \E j \in Jobs : /\ able(j) /\ ready(j)
                         /\ job' = [jobs EXCEPT ![j] = taken(j)]
                         /\ worker' = [worker EXCEPT ![s][j] = claim(j)]
      \/ \E j \in Jobs : /\ able(j)
                         /\ job' = Skip([jobs EXCEPT ![j] = Failed(jobs[j])], {j})
                         /\ UNCHANGED worker
  BY DEF ClaimJobs, Candidates
<1>4. UNCHANGED <<asset, accepted>>
  BY DEF ClaimJobs
<1> HIDE DEF jobs
<1>5. ASSUME Passed(job, job'), UNCHANGED worker
      PROVE  \A i \in Jobs : Effect(i)
  <2> SUFFICES ASSUME NEW i \in Jobs PROVE Effect(i)
    OBVIOUS
  <2>1. PassRow(job[i], job'[i], asset[i] = "ready")
    BY <1>5 DEF Passed
  <2>2. WorkerEffect(i)
    BY <1>5 DEF WorkerEffect
  <2> QED BY <1>4, <2>1, <2>2, PassQuiet DEF Effect
<1>6. CASE job' = jobs /\ UNCHANGED worker
  BY <1>2, <1>5, <1>6
<1>7. CASE \E j \in Jobs : /\ able(j) /\ ready(j)
                           /\ job' = [jobs EXCEPT ![j] = taken(j)]
                           /\ worker' = [worker EXCEPT ![s][j] = claim(j)]
  <2>1. PICK j \in Jobs : /\ able(j) /\ ready(j)
                          /\ job' = [jobs EXCEPT ![j] = taken(j)]
                          /\ worker' = [worker EXCEPT ![s][j] = claim(j)]
    BY <1>7
  <2>2. /\ jobs[j] \in JobRow
        /\ PassRow(job[j], jobs[j], asset[j] = "ready")
    BY <1>2 DEF Passed
  <2>3. /\ taken(j).status = "running" /\ taken(j).marked = jobs[j].marked
        /\ taken(j).ext = jobs[j].ext /\ taken(j).settlement = jobs[j].settlement
        /\ taken(j).credit = jobs[j].credit
    BY <2>2 DEF JobRow
  <2>4. claim(j) \in Worker
    <3>1. session[s].fence \in 0..MaxFence
      BY <1>1 DEF TypeOK
    <3> QED BY <3>1 DEF Worker, WorkerPC, ErrorKind
  <2>5. ~Holding(claim(j)) /\ (Paid(claim(j)) => jobs[j].ext)
    BY DEF Holding, Paid
  <2> HIDE DEF taken, claim
  <2>6. /\ worker'[s][j] = claim(j)
        /\ \A o \in Sessions, i \in Jobs : o # s \/ i # j => worker'[o][i] = worker[o][i]
    BY <1>1, <2>1, <2>4, WriteWorker
  <2>7. job'[j] = taken(j) /\ \A i \in Jobs : i # j => job'[i] = jobs[i]
    BY <1>2, <2>1
  <2>8. ASSUME NEW i \in Jobs, i # j PROVE Effect(i)
    <3>1. PassRow(job[i], job'[i], asset[i] = "ready")
      BY <1>2, <2>7, <2>8 DEF Passed
    <3>2. WorkerEffect(i)
      BY <2>6, <2>8 DEF WorkerEffect
    <3> QED BY <1>4, <3>1, <3>2, PassQuiet DEF Effect
  <2>9. Effect(j)
    <3>1. WorkerEffect(j)
      <4>1. jobs[j].ext => job[j].ext
        BY <2>2 DEF PassRow
      <4> QED BY <2>5, <2>6, <4>1, OneWorker DEF OthersStay
    <3>2. job'[j].status = "running" => job[j].status = "running" \/ \A p \in Preds[j] : Ready(p)'
      <4>1. jobs[j].status = "running" => job[j].status = "running"
        BY <2>2 DEF PassRow
      <4>2. \A p \in Preds[j] : p \in Jobs /\ p # j
        BY BrowserPlanAssumption
      <4> QED BY <2>1, <2>7, <4>1, <4>2 DEF Ready
    <3>3. job[j].status \in Active /\ job'[j].status \in Active /\ job'[j].credit = job[j].credit
      <4>1. jobs[j].status \in Active
        BY <2>1
      <4> QED BY <2>2, <2>3, <2>7, <4>1 DEF PassRow, Active
    <3>4. /\ job'[j].marked = job[j].marked /\ job'[j].ext = job[j].ext
          /\ job[j].marked /\ job[j].settlement # "not_required"
               => job'[j].settlement # "not_required"
      BY <2>2, <2>3, <2>7 DEF PassRow
    <3> QED BY <1>4, <3>1, <3>2, <3>3, <3>4 DEF Quiet, EndEffect, Effect
  <2> QED BY <2>8, <2>9
<1>8. CASE \E j \in Jobs : /\ able(j)
                           /\ job' = Skip([jobs EXCEPT ![j] = Failed(jobs[j])], {j})
                           /\ UNCHANGED worker
  <2>1. PICK j \in Jobs : /\ able(j)
                          /\ job' = Skip([jobs EXCEPT ![j] = Failed(jobs[j])], {j})
                          /\ UNCHANGED worker
    BY <1>8
  <2> DEFINE closed == [jobs EXCEPT ![j] = Failed(jobs[j])]
  <2>2. closed \in [Jobs -> JobRow] /\ Passed(jobs, closed)
    <3>1. Failed(jobs[j]) \in JobRow /\ PassRow(jobs[j], Failed(jobs[j]), asset[j] = "ready")
      BY <1>2, <2>1, FailedRow, FailedPasses
    <3>2. \A i \in Jobs : PassRow(jobs[i], jobs[i], asset[i] = "ready")
      BY DEF PassRow
    <3> QED BY <1>2, <3>1, <3>2 DEF Passed
  <2> HIDE DEF closed
  <2>3. Passed(closed, job')
    BY <2>1, <2>2, SkipPasses DEF closed
  <2>4. Passed(job, job')
    BY <1>1, <1>2, <2>2, <2>3, PassedTrans
  <2> QED BY <1>5, <2>1, <2>4
<1> QED BY <1>3, <1>6, <1>7, <1>8

LEMMA SessionStepEffect ==
  ASSUME Inv, NEW s \in Sessions,
         \/ Start(s) \/ Stop(s) \/ AcquireLease(s) \/ ReleaseLease(s) \/ ClaimJobs(s) \/ ClaimFails(s)
         \/ \E j \in Jobs, final \in BOOLEAN : Acknowledge(s, j, final)
  PROVE  \A i \in Jobs : Effect(i)
<1>1. TypeOK /\ job \in [Jobs -> JobRow] /\ worker \in [Sessions -> [Jobs -> Worker]]
  BY DEF Inv, TypeInv, TypeOK
<1>2. ASSUME UNCHANGED <<job, asset, accepted>>,
             \A i \in Jobs, o \in Sessions : worker'[o][i] \in {worker[o][i], NoWorker}
      PROVE  \A i \in Jobs : Effect(i)
  BY <1>2, Untouched DEF Effect
<1>3. CASE Start(s) \/ AcquireLease(s) \/ ReleaseLease(s) \/ ClaimFails(s)
  <2>1. UNCHANGED <<job, asset, accepted, worker>>
    BY <1>3 DEF Start, AcquireLease, ReleaseLease, ClaimFails, rows
  <2> QED BY <1>2, <2>1
<1>4. CASE Stop(s)
  <2>1. UNCHANGED <<job, asset, accepted>>
    BY <1>4 DEF Stop, rows
  <2>2. PICK lost \in SUBSET InFlight(s) :
          worker' = [worker EXCEPT ![s] = [j \in Jobs |-> IF j \in lost THEN NoWorker
                                                          ELSE worker[s][j]]]
    BY <1>4 DEF Stop
  <2>3. \A i \in Jobs, o \in Sessions : worker'[o][i] \in {worker[o][i], NoWorker}
    BY <1>1, <2>2
  <2> QED BY <1>2, <2>1, <2>3
<1>5. CASE ClaimJobs(s)
  BY <1>5, ClaimEffect
<1>6. CASE \E j \in Jobs, final \in BOOLEAN : Acknowledge(s, j, final)
  <2>1. PICK j \in Jobs, final \in BOOLEAN : Acknowledge(s, j, final)
    BY <1>6
  <2> DEFINE row == job[j]
             cancel == IF final THEN "final" ELSE row.cancel
             settlement == IF final THEN "unknown" ELSE "pending"
             new == [row EXCEPT !.cancel = cancel, !.settlement = settlement]
  <2>2. job' = [job EXCEPT ![j] = new] /\ UNCHANGED <<asset, accepted, worker>>
    BY <2>1 DEF Acknowledge
  <2>3. row \in JobRow
    BY <1>1
  <2>4. PassRow(row, new, FALSE)
    BY <2>3 DEF JobRow, PassRow
  <2> HIDE DEF new
  <2>5. job'[j] = new /\ \A i \in Jobs : i # j => job'[i] = job[i]
    BY <1>1, <2>2
  <2>6. \A i \in Jobs : WorkerEffect(i)
    BY <2>2 DEF WorkerEffect
  <2>7. Effect(j)
    BY <2>2, <2>4, <2>5, <2>6, PassQuiet DEF Effect
  <2>8. \A i \in Jobs : i # j => Effect(i)
    BY <2>2, <2>5, OthersQuiet
  <2> QED BY <2>7, <2>8
<1> QED BY <1>3, <1>4, <1>5, <1>6

LEMMA OtherStepEffect ==
  ASSUME Inv,
         \/ \E j \in Jobs : Ingest(j) \/ DeleteOutput(j) \/ SettleCredits(j)
         \/ ExpireLease \/ CancelRun
  PROVE  \A i \in Jobs : Effect(i)
<1>1. /\ job \in [Jobs -> JobRow]
      /\ asset \in [Jobs -> {"none", "processing", "ready", "failed"}]
  BY DEF Inv, TypeInv, TypeOK
<1>2. UNCHANGED <<accepted, worker>>
  BY DEF Ingest, DeleteOutput, SettleCredits, ExpireLease, CancelRun
<1>3. \A i \in Jobs : WorkerEffect(i)
  BY <1>2 DEF WorkerEffect
<1>4. CASE \E j \in Jobs : Ingest(j) \/ DeleteOutput(j)
  <2>1. PICK j \in Jobs : Ingest(j) \/ DeleteOutput(j)
    BY <1>4
  <2>2. UNCHANGED job /\ asset[j] # "none" /\ \A i \in Jobs : i # j => asset'[i] = asset[i]
    BY <1>1, <2>1 DEF Ingest, DeleteOutput
  <2> QED BY <1>2, <1>3, <2>2 DEF Quiet, EndEffect, Effect
<1>5. CASE \E j \in Jobs : SettleCredits(j)
  <2>1. PICK j \in Jobs : SettleCredits(j)
    BY <1>5
  <2> DEFINE new == [job[j] EXCEPT !.credit = "released"]
  <2>2. /\ job' = [job EXCEPT ![j] = new] /\ UNCHANGED asset
        /\ job[j].status = "canceled" /\ job[j].credit = "reserved"
    BY <1>1, <2>1 DEF SettleCredits
  <2>3. /\ new.status = job[j].status /\ new.credit = "released" /\ new.marked = job[j].marked
        /\ new.ext = job[j].ext /\ new.settlement = job[j].settlement
    BY <1>1 DEF JobRow
  <2> HIDE DEF new
  <2>4. job'[j] = new /\ \A i \in Jobs : i # j => job'[i] = job[i]
    BY <1>1, <2>2
  <2>5. Effect(j)
    BY <1>2, <1>3, <2>2, <2>3, <2>4 DEF Quiet, EndEffect, Effect
  <2>6. \A i \in Jobs : i # j => Effect(i)
    BY <1>2, <2>2, <2>4, OthersQuiet
  <2> QED BY <2>5, <2>6
<1>6. CASE ExpireLease
  <2>1. UNCHANGED <<job, asset>>
    BY <1>6 DEF ExpireLease
  <2> QED BY <1>2, <2>1, Untouched DEF Effect
<1>7. CASE CancelRun
  <2> DEFINE asked(j) == [job[j] EXCEPT !.status = "canceled", !.cancel = "requested",
                                        !.settlement = "pending"]
             dropped(j) == [job[j] EXCEPT !.status = "canceled", !.settlement = "not_required"]
  <2>1. /\ job' = [j \in Jobs |-> IF ~JobActive(j) THEN job[j]
                                  ELSE IF job[j].marked THEN asked(j) ELSE dropped(j)]
        /\ UNCHANGED asset
    BY <1>7 DEF CancelRun
  <2> SUFFICES ASSUME NEW i \in Jobs PROVE Effect(i)
    OBVIOUS
  <2>2. job[i] \in JobRow
    BY <1>1
  <2>3. PassRow(job[i], job'[i], FALSE)
    <3>1. CASE ~JobActive(i)
      BY <2>1, <3>1 DEF PassRow
    <3>2. CASE JobActive(i) /\ job[i].marked
      <4>1. PassRow(job[i], asked(i), FALSE)
        BY <2>2, <3>2 DEF PassRow, JobRow, JobActive
      <4> QED BY <2>1, <3>2, <4>1
    <3>3. CASE JobActive(i) /\ ~job[i].marked
      <4>1. PassRow(job[i], dropped(i), FALSE)
        BY <2>2, <3>3 DEF PassRow, JobRow, JobActive
      <4> QED BY <2>1, <3>3, <4>1
    <3> QED BY <3>1, <3>2, <3>3
  <2> QED BY <1>2, <1>3, <2>1, <2>3, PassQuiet DEF Effect
<1> QED BY <1>4, <1>5, <1>6, <1>7

LEMMA NextEffect ==
  ASSUME Inv, [Next]_vars
  PROVE  \A i \in Jobs : Effect(i)
<1>1. CASE Next
  <2>1. CASE \E s \in Sessions : SessionNext(s)
    <3>1. PICK s \in Sessions : SessionNext(s)
      BY <2>1
    <3>2. \/ \/ Start(s) \/ Stop(s) \/ AcquireLease(s) \/ ReleaseLease(s) \/ ClaimJobs(s) \/ ClaimFails(s)
             \/ \E j \in Jobs, final \in BOOLEAN : Acknowledge(s, j, final)
          \/ \E j \in Jobs : WorkerNext(s, j)
      BY <3>1 DEF SessionNext
    <3> QED BY <3>2, SessionStepEffect, WorkerStepEffect
  <2>2. CASE \/ \E j \in Jobs : Ingest(j) \/ DeleteOutput(j) \/ SettleCredits(j)
             \/ ExpireLease \/ CancelRun
    BY <2>2, OtherStepEffect
  <2> QED BY <1>1, <2>1, <2>2 DEF Next
<1>2. CASE UNCHANGED vars
  BY <1>2, Untouched DEF vars, Effect
<1> QED BY <1>1, <1>2

-----------------------------------------------------------------------------
(* The theorems.                                                            *)

LEMMA InvInit == Init => Inv
<1> SUFFICES ASSUME Init PROVE Inv
  OBVIOUS
<1>1. TypeInv
  BY TypeInit
<1>2. ~Holding(NoWorker) /\ ~Paid(NoWorker)
  BY DEF Holding, Paid, NoWorker
<1>3. \A j \in Jobs : JobBooks(j)
  <2> SUFFICES ASSUME NEW j \in Jobs PROVE JobBooks(j)
    OBVIOUS
  <2>1. /\ ~job[j].marked /\ ~job[j].ext
        /\ job[j].status = "pending" /\ job[j].credit = "reserved"
        /\ accepted[j] = 0 /\ asset[j] = "none"
    BY DEF Init
  <2> QED BY <2>1 DEF JobBooks
<1>4. \A j \in Jobs : JobWorkers(j)
  BY <1>2 DEF Init, JobWorkers
<1> QED BY <1>1, <1>3, <1>4 DEF Inv

LEMMA InvStep == Inv /\ [Next]_vars => Inv'
<1> SUFFICES ASSUME Inv, [Next]_vars PROVE Inv'
  OBVIOUS
<1>1. TypeInv'
  BY TypeStep DEF Inv
<1>2. \A j \in Jobs : Effect(j)
  BY NextEffect
<1> QED BY <1>1, <1>2, EffectsKeep

LEMMA InvHolds == Spec => []Inv
BY InvInit, InvStep, PTL DEF Spec

\* Whoever loses the lease, and whatever request arrives late, a started execution
\* keeps a settlement that is pending or unknown.
THEOREM SpendCorrect == Spec => []SpendIsTracked
<1>1. Inv => SpendIsTracked
  BY DEF Inv, JobBooks, SpendIsTracked
<1> QED BY <1>1, InvHolds, PTL

\* No session starts an execution of a job before each of its inputs has succeeded.
THEOREM InputsCorrect == Spec => []PaidAfterInputs
<1>1. Inv => PaidAfterInputs
  BY DEF Inv, JobBooks, PaidAfterInputs, Ready
<1> QED BY <1>1, InvHolds, PTL

-----------------------------------------------------------------------------
(* The rows implement JobPromise.                                           *)

LEMMA PromiseInit == ASSUME Init PROVE Promise!Init
BY DEF Init, Promise!Init, JobActive, Active

\* After every step the mapped variables have the types the promise asks for.
LEMMA PromiseTypes ==
  ASSUME TypeOK'
  PROVE  /\ [j \in Jobs |-> IF JobActive(j) THEN "open" ELSE job[j].status]'
               \in [Jobs -> {"open", "succeeded", "failed", "canceled"}]
         /\ [j \in Jobs |-> job[j].credit]' \in [Jobs -> {"reserved", "captured", "released"}]
         /\ [j \in Jobs |-> job[j].marked]' \in [Jobs -> BOOLEAN]
         /\ accepted' \in [Jobs -> Nat]
<1>1. \A j \in Jobs : job'[j] \in JobRow
  BY DEF TypeOK
<1>2. accepted' \in [Jobs -> Nat]
  BY DEF TypeOK
<1>3. \A j \in Jobs : (IF JobActive(j)' THEN "open" ELSE job'[j].status)
                         \in {"open", "succeeded", "failed", "canceled"}
  BY <1>1 DEF JobRow, JobActive, Active, Final
<1>4. \A j \in Jobs : /\ job'[j].credit \in {"reserved", "captured", "released"}
                      /\ job'[j].marked \in BOOLEAN
  BY <1>1 DEF JobRow
<1> QED BY <1>2, <1>3, <1>4

\* Every effect on a job is a step of the promise, or none.
LEMMA PromiseStep == ASSUME Inv, Inv', NEW j \in Jobs, Effect(j) PROVE Promise!Step(j)
<1> DEFINE out == IF JobActive(j) THEN "open" ELSE job[j].status
           out2 == IF JobActive(j)' THEN "open" ELSE job'[j].status
<1>1. /\ JobBooks(j) /\ JobWorkers(j)
      /\ job[j] \in JobRow /\ job'[j] \in JobRow
  BY DEF Inv, TypeInv, TypeOK
<1>2. CASE Quiet(j)
  <2>1. Promise!SameCall(j)
    BY <1>2 DEF Quiet, Promise!SameCall
  <2>2. CASE \/ /\ job[j].status \in Active /\ job'[j].status \in Active
                /\ job'[j].credit = job[j].credit
             \/ job'[j].status = job[j].status /\ job'[j].credit = job[j].credit
    <3>1. out2 = out /\ job'[j].credit = job[j].credit
      BY <2>2 DEF JobActive
    <3>2. Promise!SameEnd(j)
      BY <3>1 DEF Promise!SameEnd
    <3> QED BY <2>1, <3>2 DEF Promise!Step
  <2>3. CASE /\ job[j].status \in Active
             /\ job'[j].status \in {"failed", "canceled"}
             /\ job'[j].credit \in {job[j].credit, "released"}
    <3>1. out = "open" /\ out2 \in {"failed", "canceled"}
      BY <2>3 DEF JobActive, Active
    <3>2. Promise!Close(j)
      BY <2>1, <2>3, <3>1 DEF Promise!Close
    <3> QED BY <3>2 DEF Promise!Step
  <2>4. CASE /\ job[j].status \in Active /\ asset[j] = "ready"
             /\ job'[j].status = "succeeded" /\ job'[j].credit = "captured"
    <3>1. out = "open" /\ out2 = "succeeded"
      BY <2>4 DEF JobActive, Active
    <3>2. job[j].credit = "reserved" /\ accepted[j] = 1
      BY <1>1, <2>4 DEF JobBooks
    <3>3. Promise!Succeed(j)
      BY <2>1, <2>4, <3>1, <3>2 DEF Promise!Succeed
    <3> QED BY <3>3 DEF Promise!Step
  <2>5. CASE /\ job[j].status = "canceled" /\ job'[j].status = "canceled"
             /\ job[j].credit = "reserved" /\ job'[j].credit = "released"
    <3>1. out2 = out /\ out # "succeeded"
      BY <2>5 DEF JobActive, Active
    <3>2. Promise!Release(j)
      BY <2>1, <2>5, <3>1 DEF Promise!Release
    <3> QED BY <3>2 DEF Promise!Step
  <2> QED BY <1>2, <2>2, <2>3, <2>4, <2>5 DEF Quiet, EndEffect
<1>3. CASE \E s \in Sessions : Opens(s, j)
  <2>1. /\ out = "open" /\ out2 = out /\ ~job[j].marked /\ job'[j].marked
        /\ job'[j].credit = job[j].credit /\ accepted'[j] = accepted[j]
    BY <1>3 DEF Opens, JobActive, Active
  <2>2. job'[j].marked = TRUE
    BY <1>1, <2>1 DEF JobRow
  <2>3. Promise!Announce(j)
    BY <2>1, <2>2 DEF Promise!Announce, Promise!SameEnd
  <2> QED BY <2>3 DEF Promise!Step
<1>4. CASE \E s \in Sessions : Pays(s, j)
  <2>1. job[j].marked /\ accepted[j] = 0 /\ accepted'[j] = 1 /\ job'[j] = job[j]
    BY <1>1, <1>4 DEF Pays, JobWorkers
  <2>2. out2 = out
    BY <2>1 DEF JobActive
  <2>3. Promise!Spend(j)
    BY <2>1, <2>2 DEF Promise!Spend, Promise!SameEnd
  <2> QED BY <2>3 DEF Promise!Step
<1>5. CASE \E s \in Sessions : TakesBack(s, j)
  <2>1. PICK s \in Sessions : TakesBack(s, j)
    BY <1>5
  <2>2. /\ job[j].marked /\ accepted[j] = 0 /\ accepted'[j] = 0
        /\ ~job'[j].marked /\ job[j].status \in Active
    BY <1>1, <2>1 DEF TakesBack, JobWorkers
  <2>3. job'[j].marked = FALSE
    BY <1>1, <2>2 DEF JobRow
  <2>4. CASE job'[j].status = "pending" /\ job'[j].credit = job[j].credit
    <3>1. out2 = out
      BY <2>2, <2>4 DEF JobActive, Active
    <3>2. Promise!Withdraw(j)
      BY <2>2, <2>3, <2>4, <3>1 DEF Promise!Withdraw, Promise!SameEnd
    <3> QED BY <3>2 DEF Promise!Step
  <2>5. CASE job'[j].status = "failed" /\ job'[j].credit = "released"
    <3>1. out = "open" /\ out2 = "failed"
      BY <2>2, <2>5 DEF JobActive, Active
    <3>2. Promise!Refuse(j)
      BY <2>2, <2>3, <2>5, <3>1 DEF Promise!Refuse
    <3> QED BY <3>2 DEF Promise!Step
  <2> QED BY <2>1, <2>4, <2>5 DEF TakesBack
<1> QED BY <1>2, <1>3, <1>4, <1>5 DEF Effect

\* Browsers that come and go keep the promise of the managed engine: one announced
\* paid call at most, one outcome, and credits captured in the very step in which the
\* job succeeds.
THEOREM PromiseKept == Spec => KeepsPromise
<1>1. Init => Promise!Init
  BY PromiseInit
<1>2. Inv /\ Inv' /\ [Next]_vars => [Promise!Next]_(Promise!vars)
  <2> SUFFICES ASSUME Inv, Inv', [Next]_vars PROVE Promise!Next
    OBVIOUS
  <2>1. TypeOK'
    BY DEF Inv, TypeInv
  <2>2. \A j \in Jobs : Promise!Step(j)
    BY NextEffect, PromiseStep
  <2> QED BY <2>1, <2>2, PromiseTypes DEF Promise!Next
<1> QED BY <1>1, <1>2, InvHolds, PTL DEF Spec, KeepsPromise, Promise!Spec
=============================================================================
