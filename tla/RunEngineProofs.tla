--------------------------- MODULE RunEngineProofs ---------------------------
(***************************************************************************)
(* RunEngine, for any plan and any number of attempts.  First types; then   *)
(* the safety of money: credits are captured exactly for successful jobs   *)
(* (CreditSafe), the provider is paid at most once per job (SpendSafe); and *)
(* on top of both what is paid for, what a summary and an acknowledged     *)
(* cancellation mean, and that every step is a step of JobPromise.         *)
(***************************************************************************)
EXTENDS RunEngine, TLAPS

-----------------------------------------------------------------------------
(* Lemmas about the helpers.                                               *)

\* Settling a job row yields a job row and touches nothing but its credits.
LEMMA SettledType ==
  ASSUME NEW row \in JobRow, NEW outcome \in {"captured", "released"}
  PROVE  Settled(row, outcome) \in JobRow
BY DEF Settled, JobRow

\* Every change of a single row that a transaction makes yields a row.
LEMMA RowType ==
  ASSUME NEW row \in JobRow
  PROVE  /\ \A s \in Active \cup Final : [row EXCEPT !.status = s] \in JobRow
         /\ \A s \in {"not_required", "pending", "settled", "unknown"} :
              [row EXCEPT !.settlement = s] \in JobRow
         /\ \A s \in {"not_required", "pending", "settled", "unknown"} :
              [row EXCEPT !.staged = TRUE, !.settlement = s] \in JobRow
         /\ [row EXCEPT !.submitted = TRUE, !.settlement = "pending"] \in JobRow
         /\ [row EXCEPT !.submitted = FALSE, !.settlement = "not_required"] \in JobRow
         /\ [row EXCEPT !.status = "canceled", !.settlement = "not_required"] \in JobRow
         /\ [row EXCEPT !.ext = TRUE] \in JobRow
<1>1. \A s \in Active \cup Final : [row EXCEPT !.status = s] \in JobRow
  BY DEF JobRow
<1>2. \A s \in {"not_required", "pending", "settled", "unknown"} :
         [row EXCEPT !.settlement = s] \in JobRow
  BY DEF JobRow
<1>3. \A s \in {"not_required", "pending", "settled", "unknown"} :
         [row EXCEPT !.staged = TRUE, !.settlement = s] \in JobRow
  BY DEF JobRow
<1>4. [row EXCEPT !.submitted = TRUE, !.settlement = "pending"] \in JobRow
  BY DEF JobRow
<1>5. [row EXCEPT !.submitted = FALSE, !.settlement = "not_required"] \in JobRow
  BY DEF JobRow
<1>6. "canceled" \in Active \cup Final
  BY DEF Final
<1>7. [row EXCEPT !.status = "canceled", !.settlement = "not_required"] \in JobRow
  BY <1>6 DEF JobRow
<1>8. [row EXCEPT !.ext = TRUE] \in JobRow
  BY DEF JobRow
<1> QED BY <1>1, <1>2, <1>3, <1>4, <1>5, <1>7, <1>8

\* Writing one row.
LEMMA WriteType ==
  ASSUME TypeOK, NEW j \in Jobs
  PROVE  /\ job[j] \in JobRow
         /\ \A row \in JobRow : [job EXCEPT ![j] = row] \in [Jobs -> JobRow]
BY DEF TypeOK

\* Closing jobs keeps the type of the rows.
LEMMA ClosedType ==
  ASSUME TypeOK, NEW S, NEW status \in {"failed", "canceled"}, NEW resolve \in BOOLEAN
  PROVE  Closed(S, status, resolve) \in [Jobs -> JobRow]
<1> SUFFICES ASSUME NEW j \in Jobs
             PROVE  /\ job[j] \in JobRow
                    /\ [job[j] EXCEPT !.status = status,
                          !.settlement = IF resolve /\ @ = "pending" THEN "unknown" ELSE @]
                       \in JobRow
  BY DEF Closed, TypeOK
<1>1. job[j] \in JobRow
  BY DEF TypeOK
<1> QED BY <1>1 DEF JobRow, Final

\* The summary of a run keeps its types, and never revives a canceled run.
LEMMA AggregateType ==
  ASSUME TypeOK, NEW S, NEW rows \in [Jobs -> JobRow], Aggregate(S, rows)
  PROVE  run' \in RunRow /\ item' \in [Jobs -> ItemStatus] /\ (RunCanceled => RunCanceled')
<1>1. item' \in [Jobs -> ItemStatus]
  BY DEF Aggregate, TypeOK, ItemStatus, JobRow, Active, Final
<1>2. StatusOf(item') \in Active \cup RunFinal
  BY DEF StatusOf, Active, Final, RunFinal
<1>3. run' \in RunRow
  BY <1>2 DEF Aggregate, TypeOK, RunRow
<1>4. RunCanceled => RunCanceled'
  BY DEF Aggregate, RunCanceled, TypeOK, RunRow
<1> QED BY <1>1, <1>3, <1>4

LEMMA AggregateRunType ==
  ASSUME TypeOK, NEW rows \in [Jobs -> JobRow], AggregateRun(rows)
  PROVE  run' \in RunRow /\ item' \in [Jobs -> ItemStatus] /\ (RunCanceled => RunCanceled')
BY AggregateType DEF AggregateRun, TypeOK, RunCanceled

\* The ways a child task moves.
LEMMA ChildType ==
  ASSUME TypeOK, NEW j \in Jobs
  PROVE  /\ \A pc \in ChildPC : Goto(j, pc) => child' \in [Jobs -> ChildRun]
         /\ \A kind \in ErrorKind : Throw(j, kind) => child' \in [Jobs -> ChildRun]
         /\ \A ok \in BOOLEAN : Return(j, ok) => child' \in [Jobs -> ChildRun]
         /\ child[j].attempt < JobAttempts /\ RequeueChild(j) => child' \in [Jobs -> ChildRun]
<1> DEFINE c == child[j]
<1>1. c \in ChildRun
  BY DEF TypeOK
<1>2. \A row \in ChildRun : [child EXCEPT ![j] = row] \in [Jobs -> ChildRun]
  BY DEF TypeOK
<1> HIDE DEF c
<1>3. ASSUME NEW pc \in ChildPC PROVE [c EXCEPT !.pc = pc] \in ChildRun
  BY <1>1 DEF ChildRun
<1>4. ASSUME NEW kind \in ErrorKind PROVE [c EXCEPT !.pc = "erred", !.err = kind] \in ChildRun
  <2>1. "erred" \in ChildPC
    BY DEF ChildPC
  <2> QED BY <1>1, <2>1 DEF ChildRun
<1>5. ASSUME NEW ok \in BOOLEAN
      PROVE [c EXCEPT !.pc = "ended", !.ok = ok, !.err = "none", !.seen = Unseen] \in ChildRun
  <2>1. "ended" \in ChildPC /\ "none" \in ErrorKind
    BY DEF ChildPC, ErrorKind
  <2>2. Unseen \in [canceled : BOOLEAN, pending : BOOLEAN, submitted : BOOLEAN, ext : BOOLEAN]
    BY DEF Unseen
  <2> QED BY <1>1, <2>1, <2>2 DEF ChildRun
<1>6. ASSUME c.attempt < JobAttempts
      PROVE [c EXCEPT !.pc = "queued", !.attempt = c.attempt + 1,
                      !.err = "none", !.seen = Unseen] \in ChildRun
  <2>1. c.attempt + 1 \in 1..JobAttempts
    BY <1>1, <1>6, AttemptsAssumption DEF ChildRun
  <2>2. "queued" \in ChildPC /\ "none" \in ErrorKind
    BY DEF ChildPC, ErrorKind
  <2>3. Unseen \in [canceled : BOOLEAN, pending : BOOLEAN, submitted : BOOLEAN, ext : BOOLEAN]
    BY DEF Unseen
  <2> QED BY <1>1, <2>1, <2>2, <2>3 DEF ChildRun
<1>7. \A pc \in ChildPC : Goto(j, pc) => child' \in [Jobs -> ChildRun]
  BY <1>2, <1>3 DEF Goto, c
<1>8. \A kind \in ErrorKind : Throw(j, kind) => child' \in [Jobs -> ChildRun]
  BY <1>2, <1>4 DEF Throw, c
<1>9. \A ok \in BOOLEAN : Return(j, ok) => child' \in [Jobs -> ChildRun]
  BY <1>2, <1>5 DEF Return, c
<1>10. child[j].attempt < JobAttempts /\ RequeueChild(j) => child' \in [Jobs -> ChildRun]
  <2> SUFFICES ASSUME c.attempt < JobAttempts, RequeueChild(j)
               PROVE  child' \in [Jobs -> ChildRun]
    BY DEF c
  <2>1. child' = [child EXCEPT ![j] = [c EXCEPT !.pc = "queued", !.attempt = c.attempt + 1,
                                                !.err = "none", !.seen = Unseen]]
    BY DEF RequeueChild, c
  <2>2. [c EXCEPT !.pc = "queued", !.attempt = c.attempt + 1,
                  !.err = "none", !.seen = Unseen] \in ChildRun
    BY <1>6
  <2> QED BY <1>2, <2>1, <2>2
<1> QED BY <1>7, <1>8, <1>9, <1>10

LEMMA TypeClaimJob == ASSUME TypeOK, NEW j \in Jobs, ClaimJob(j) PROVE TypeOK'
<1>1. child' \in [Jobs -> ChildRun]
  BY ChildType DEF ClaimJob, ChildPC
<1>2. job' \in [Jobs -> JobRow] /\ run' \in RunRow /\ item' \in [Jobs -> ItemStatus]
  <2>1. CASE JobActive(j)
    <3>1. [job[j] EXCEPT !.status = "running"] \in JobRow
      BY RowType, WriteType DEF Active
    <3>2. job' = [job EXCEPT ![j].status = "running"] /\ run' = run /\ item' = item
      BY <2>1 DEF ClaimJob, JobActive, Active
    <3> QED BY <3>1, <3>2, WriteType DEF TypeOK
  <2>2. CASE ~JobActive(j)
    <3>1. job' = job \/ (job[j].status = "succeeded"
                         /\ job' = [job EXCEPT ![j] = Settled(job[j], "captured")]
                         /\ Aggregate({j}, job'))
      BY <2>2 DEF ClaimJob
    <3>2. job' \in [Jobs -> JobRow]
      BY <3>1, SettledType DEF TypeOK
    <3> QED BY <2>2, <3>1, <3>2, AggregateType DEF ClaimJob, TypeOK
  <2> QED BY <2>1, <2>2
<1> QED BY <1>1, <1>2 DEF TypeOK, ClaimJob

LEMMA TypeRejectRequest == ASSUME TypeOK, NEW j \in Jobs, RejectRequest(j) PROVE TypeOK'
<1>1. child' \in [Jobs -> ChildRun]
  BY ChildType DEF RejectRequest
<1>2. CASE JobActive(j)
  <2>1. [job[j] EXCEPT !.status = "failed"] \in JobRow
    BY RowType, WriteType DEF Final
  <2>2. Settled([job[j] EXCEPT !.status = "failed"], "released") \in JobRow
    BY <2>1, SettledType
  <2> QED BY <1>1, <1>2, <2>2, WriteType, AggregateType DEF RejectRequest, TypeOK
<1>3. CASE ~JobActive(j)
  BY <1>1, <1>3 DEF RejectRequest, TypeOK
<1> QED BY <1>2, <1>3

LEMMA TypeResumeJob == ASSUME TypeOK, NEW j \in Jobs, ResumeJob(j) PROVE TypeOK'
<1>1. child' \in [Jobs -> ChildRun]
  BY ChildType DEF ResumeJob, ChildPC, ErrorKind
<1>2. item' \in [Jobs -> ItemStatus]
  BY DEF ResumeJob, TypeOK, ItemStatus, Active
<1> QED BY <1>1, <1>2 DEF ResumeJob, TypeOK

LEMMA TypeSubmission ==
  ASSUME TypeOK, NEW j \in Jobs,
         MarkSubmission(j) \/ Submit(j) \/ RecordSubmission(j) \/ Poll(j) \/ StageResult(j)
  PROVE  TypeOK'
<1>1. CASE MarkSubmission(j)
  <2>1. child' \in [Jobs -> ChildRun]
    BY <1>1, ChildType DEF MarkSubmission, ChildPC, ErrorKind
  <2>2. [job[j] EXCEPT !.submitted = TRUE, !.settlement = "pending"] \in JobRow
    BY RowType, WriteType
  <2>3. job' \in [Jobs -> JobRow]
    BY <1>1, <2>2, WriteType DEF MarkSubmission, TypeOK
  <2> QED BY <1>1, <2>1, <2>3 DEF MarkSubmission, TypeOK
<1>2. CASE Submit(j)
  <2>1. child' \in [Jobs -> ChildRun]
    BY <1>2, ChildType DEF Submit, ChildPC, ErrorKind
  <2>2. accepted' \in [Jobs -> Nat]
    BY <1>2 DEF Submit, TypeOK
  <2> QED BY <1>2, <2>1, <2>2 DEF Submit, TypeOK
<1>3. CASE RecordSubmission(j)
  <2>1. child' \in [Jobs -> ChildRun]
    BY <1>3, ChildType DEF RecordSubmission, ChildPC, ErrorKind
  <2>2. [job[j] EXCEPT !.ext = TRUE] \in JobRow
    BY RowType, WriteType
  <2>3. job' \in [Jobs -> JobRow]
    BY <1>3, <2>2, WriteType DEF RecordSubmission, TypeOK
  <2> QED BY <1>3, <2>1, <2>3 DEF RecordSubmission, TypeOK
<1>4. CASE Poll(j)
  BY <1>4, ChildType DEF Poll, TypeOK, ChildPC
<1>5. CASE StageResult(j)
  <2>1. child' \in [Jobs -> ChildRun]
    BY <1>5, ChildType DEF StageResult, ChildPC, ErrorKind
  <2>2. \A s \in {"settled", "pending", "unknown"} :
           [job[j] EXCEPT !.staged = TRUE, !.settlement = s] \in JobRow
    BY RowType, WriteType
  <2>3. job' \in [Jobs -> JobRow]
    BY <1>5, <2>2, WriteType DEF StageResult, TypeOK
  <2> QED BY <1>5, <2>1, <2>3 DEF StageResult, TypeOK
<1> QED BY <1>1, <1>2, <1>3, <1>4, <1>5

LEMMA TypeOutput ==
  ASSUME TypeOK, NEW j \in Jobs,
         \/ AcceptResult(j) \/ PersistOutput(j) \/ IngestOutput(j)
         \/ CompleteJob(j) \/ ReportSuccess(j)
  PROVE  TypeOK'
<1>1. CASE AcceptResult(j)
  <2>1. child' \in [Jobs -> ChildRun]
    BY <1>1, ChildType DEF AcceptResult, ChildPC
  <2>2. /\ [job[j] EXCEPT !.settlement = "settled"] \in JobRow
        /\ [job EXCEPT ![j].settlement = "settled"] \in [Jobs -> JobRow]
    BY RowType, WriteType
  <2>3. \A facts \in [Jobs -> JobRow] : [facts EXCEPT ![j].status = "canceled"] \in [Jobs -> JobRow]
    <3> TAKE facts \in [Jobs -> JobRow]
    <3>1. [facts[j] EXCEPT !.status = "canceled"] \in JobRow
      BY RowType DEF Final
    <3> QED BY <3>1
  <2>4. job' \in [Jobs -> JobRow]
    BY <1>1, <2>2, <2>3 DEF AcceptResult, TypeOK
  <2> QED BY <1>1, <2>1, <2>4 DEF AcceptResult, TypeOK
<1>2. CASE PersistOutput(j)
  <2>1. child' \in [Jobs -> ChildRun]
    BY <1>2, ChildType DEF PersistOutput, ChildPC
  <2>2. CASE job[j].status = "running" /\ ~RunCanceled
    <3>1. asset' \in [Jobs -> {"none", "processing", "ready"}]
      BY <1>2, <2>2 DEF PersistOutput, TypeOK
    <3> QED BY <1>2, <2>1, <2>2, <3>1 DEF PersistOutput, TypeOK
  <2>3. CASE ~(job[j].status = "running" /\ ~RunCanceled)
    <3>1. job' \in [Jobs -> JobRow]
      BY <1>2, <2>3, ClosedType DEF PersistOutput, TypeOK
    <3>2. run' \in RunRow /\ item' \in [Jobs -> ItemStatus]
      BY <1>2, <2>3, AggregateType DEF PersistOutput, TypeOK
    <3> QED BY <1>2, <2>1, <2>3, <3>1, <3>2 DEF PersistOutput, TypeOK
  <2> QED BY <2>2, <2>3
<1>3. CASE IngestOutput(j)
  <2>1. child' \in [Jobs -> ChildRun]
    BY <1>3, ChildType DEF IngestOutput, ChildPC, ErrorKind
  <2>2. asset' \in [Jobs -> {"none", "processing", "ready"}]
    BY <1>3 DEF IngestOutput, TypeOK
  <2> QED BY <1>3, <2>1, <2>2 DEF IngestOutput, TypeOK
<1>4. CASE CompleteJob(j)
  <2>1. child' \in [Jobs -> ChildRun]
    BY <1>4, ChildType DEF CompleteJob, ChildPC
  <2>2. \A s \in {"succeeded", "canceled"} : [job[j] EXCEPT !.status = s] \in JobRow
    BY RowType, WriteType DEF Final
  <2>3. /\ Settled([job[j] EXCEPT !.status = "succeeded"], "captured") \in JobRow
        /\ Settled([job[j] EXCEPT !.status = "canceled"], "released") \in JobRow
        /\ Settled(job[j], "captured") \in JobRow
    BY <2>2, SettledType, WriteType
  <2>4. job' \in [Jobs -> JobRow]
    BY <1>4, <2>3, WriteType DEF CompleteJob, TypeOK
  <2>5. run' \in RunRow /\ item' \in [Jobs -> ItemStatus]
    BY <1>4, <2>4, AggregateType DEF CompleteJob
  <2> QED BY <1>4, <2>1, <2>4, <2>5 DEF CompleteJob, TypeOK
<1>5. CASE ReportSuccess(j)
  BY <1>5, ChildType DEF ReportSuccess, TypeOK
<1> QED BY <1>1, <1>2, <1>3, <1>4, <1>5

LEMMA TypeError ==
  ASSUME TypeOK, NEW j \in Jobs,
         \/ ReadError(j) \/ ResetMarker(j) \/ CancelErred(j) \/ SettleErred(j)
         \/ FailErred(j) \/ RetryErred(j) \/ CrashChild(j)
  PROVE  TypeOK'
<1>1. CASE ReadError(j)
  <2>1. child[j] \in ChildRun
    BY DEF TypeOK
  <2>2. [canceled |-> RunCanceled, pending |-> job[j].settlement = "pending",
         submitted |-> job[j].submitted, ext |-> job[j].ext]
        \in [canceled : BOOLEAN, pending : BOOLEAN, submitted : BOOLEAN, ext : BOOLEAN]
    BY WriteType DEF RunCanceled, JobRow
  <2>3. "resetting" \in ChildPC
    BY DEF ChildPC
  <2>4. \A seen \in [canceled : BOOLEAN, pending : BOOLEAN, submitted : BOOLEAN, ext : BOOLEAN] :
           [child[j] EXCEPT !.pc = "resetting", !.seen = seen] \in ChildRun
    BY <2>1, <2>3 DEF ChildRun
  <2>5. child' \in [Jobs -> ChildRun]
    BY <1>1, <2>2, <2>4 DEF ReadError, TypeOK
  <2> QED BY <1>1, <2>5 DEF ReadError, TypeOK
<1>2. CASE ResetMarker(j)
  <2>1. child' \in [Jobs -> ChildRun]
    BY <1>2, ChildType DEF ResetMarker, ChildPC
  <2>2. [job[j] EXCEPT !.submitted = FALSE, !.settlement = "not_required"] \in JobRow
    BY RowType, WriteType
  <2>3. job' \in [Jobs -> JobRow]
    BY <1>2, <2>2, WriteType DEF ResetMarker, TypeOK
  <2> QED BY <1>2, <2>1, <2>3 DEF ResetMarker, TypeOK
<1>3. CASE CancelErred(j)
  BY <1>3, ChildType, ClosedType DEF CancelErred, TypeOK
<1>4. CASE SettleErred(j)
  <2>1. child' \in [Jobs -> ChildRun]
    BY <1>4, ChildType DEF SettleErred, ChildPC
  <2>2. \A s \in {"unknown", "settled"} : [job[j] EXCEPT !.settlement = s] \in JobRow
    BY RowType, WriteType
  <2>3. job' \in [Jobs -> JobRow]
    BY <1>4, <2>2, WriteType DEF SettleErred, TypeOK
  <2> QED BY <1>4, <2>1, <2>3 DEF SettleErred, TypeOK
<1>5. CASE FailErred(j)
  <2>1. child' \in [Jobs -> ChildRun]
    BY <1>5, ChildType DEF FailErred
  <2>2. [job[j] EXCEPT !.status = "failed"] \in JobRow
    BY RowType, WriteType DEF Final
  <2>3. Settled([job[j] EXCEPT !.status = "failed"], "released") \in JobRow
    BY <2>2, SettledType
  <2>4. job' \in [Jobs -> JobRow]
    <3>1. CASE child[j].seen.canceled
      BY <1>5, <3>1, ClosedType DEF FailErred
    <3>2. CASE ~child[j].seen.canceled
      BY <1>5, <2>3, <3>2, WriteType DEF FailErred, TypeOK
    <3> QED BY <3>1, <3>2
  <2>5. run' \in RunRow /\ item' \in [Jobs -> ItemStatus]
    BY <1>5, <2>4, AggregateType DEF FailErred, TypeOK
  <2> QED BY <1>5, <2>1, <2>4, <2>5 DEF FailErred, TypeOK
<1>6. CASE RetryErred(j)
  <2>1. child[j].attempt < JobAttempts
    <3>1. child[j].attempt \in 1..JobAttempts
      BY DEF TypeOK, ChildRun
    <3>2. child[j].attempt # JobAttempts
      BY <1>6 DEF RetryErred, LastError
    <3> QED BY <3>1, <3>2, AttemptsAssumption
  <2>2. child' \in [Jobs -> ChildRun]
    BY <1>6, <2>1, ChildType DEF RetryErred
  <2>3. [job[j] EXCEPT !.status = "pending"] \in JobRow
    BY RowType, WriteType DEF Active
  <2>4. job' \in [Jobs -> JobRow]
    BY <1>6, <2>3, WriteType DEF RetryErred, TypeOK
  <2> QED BY <1>6, <2>2, <2>4 DEF RetryErred, TypeOK
<1>7. CASE CrashChild(j)
  BY <1>7, ChildType DEF CrashChild, TypeOK
<1> QED BY <1>1, <1>2, <1>3, <1>4, <1>5, <1>6, <1>7

-----------------------------------------------------------------------------
(* The parent never works past the last level.                             *)

LevelOK == parent.pc \in {"waiting", "failing", "releasing", "skipping"} => parent.level <= Depth
TypeInv == TypeOK /\ LevelOK

\* The ways the parent task moves.
LEMMA ParentType ==
  ASSUME TypeOK
  PROVE  /\ EndedParent \in ParentRun /\ EndedParent.pc = "ended"
         /\ parent.level <= Depth => NextLevel \in ParentRun /\ NextLevel.pc = "level"
         /\ \A pc \in ParentPC : [parent EXCEPT !.pc = pc] \in ParentRun
         /\ \A pc \in ParentPC : \A S \in SUBSET Jobs :
              /\ [parent EXCEPT !.pc = pc, !.batch = S] \in ParentRun
              /\ [parent EXCEPT !.pc = pc, !.todo = S] \in ParentRun
              /\ [parent EXCEPT !.todo = S] \in ParentRun
              /\ [parent EXCEPT !.pc = pc, !.batch = {}, !.lost = S] \in ParentRun
         /\ [parent EXCEPT !.pc = "level", !.level = 1] \in ParentRun
         /\ parent.attempt < ParentAttempts =>
              [EndedParent EXCEPT !.pc = "queued", !.attempt = EndedParent.attempt + 1] \in ParentRun
         /\ [EndedParent EXCEPT !.pc = "aborting"] \in ParentRun
<1>1. parent \in ParentRun
  BY DEF TypeOK
<1>2. {"ended", "level", "queued", "aborting"} \subseteq ParentPC
  BY DEF ParentPC
<1>3. EndedParent \in ParentRun /\ EndedParent.pc = "ended" /\ EndedParent.attempt = parent.attempt
  BY <1>1, <1>2 DEF EndedParent, ParentRun
<1>4. ASSUME parent.level <= Depth PROVE NextLevel \in ParentRun /\ NextLevel.pc = "level"
  <2>1. parent.level + 1 \in 1..(Depth + 1)
    BY <1>1, <1>4, PlanAssumption DEF ParentRun
  <2> QED BY <1>1, <1>2, <2>1 DEF NextLevel, ParentRun
<1>5. ASSUME NEW pc \in ParentPC, NEW S \in SUBSET Jobs
      PROVE  /\ [parent EXCEPT !.pc = pc] \in ParentRun
             /\ [parent EXCEPT !.pc = pc, !.batch = S] \in ParentRun
             /\ [parent EXCEPT !.pc = pc, !.todo = S] \in ParentRun
             /\ [parent EXCEPT !.todo = S] \in ParentRun
             /\ [parent EXCEPT !.pc = pc, !.batch = {}, !.lost = S] \in ParentRun
  BY <1>1 DEF ParentRun
<1>6. [parent EXCEPT !.pc = "level", !.level = 1] \in ParentRun
  <2>1. 1 \in 1..(Depth + 1)
    BY PlanAssumption
  <2> QED BY <1>1, <1>2, <2>1 DEF ParentRun
<1>7. ASSUME parent.attempt < ParentAttempts
      PROVE [EndedParent EXCEPT !.pc = "queued", !.attempt = EndedParent.attempt + 1] \in ParentRun
  <2>1. EndedParent.attempt + 1 \in 1..ParentAttempts
    BY <1>1, <1>3, <1>7, AttemptsAssumption DEF ParentRun
  <2> QED BY <1>2, <1>3, <2>1 DEF ParentRun
<1>8. [EndedParent EXCEPT !.pc = "aborting"] \in ParentRun
  BY <1>2, <1>3 DEF ParentRun
<1>9. \A pc \in ParentPC : [parent EXCEPT !.pc = pc] \in ParentRun
  BY <1>5
<1> QED BY <1>3, <1>4, <1>5, <1>6, <1>7, <1>8, <1>9

LEMMA TypeDispatch ==
  ASSUME TypeInv, Dispatch \/ CancelRun \/ Cancellation
  PROVE  TypeInv'
<1> USE DEF TypeInv
<1>1. CASE ApiDispatch \/ ReconcileDispatch
  <2>1. parent' = [parent EXCEPT !.pc = "queued"]
    BY <1>1 DEF ApiDispatch, ReconcileDispatch
  <2>2. parent' \in ParentRun
    BY <2>1, ParentType DEF ParentPC
  <2>3. parent'.pc = "queued"
    BY <2>1 DEF TypeOK, ParentRun
  <2> QED BY <1>1, <2>2, <2>3 DEF ApiDispatch, ReconcileDispatch, TypeOK, LevelOK
<1>2. CASE RecordDispatch
  BY <1>2 DEF RecordDispatch, TypeOK, LevelOK, RunRow
<1>3. CASE CancelRun
  <2>1. run' \in RunRow
    <3>1. run \in RunRow /\ "canceled" \in Active \cup RunFinal
      BY DEF TypeOK, RunFinal, Final
    <3>2. \E b \in BOOLEAN : run' = [run EXCEPT !.status = "canceled", !.acked = b]
      BY <1>3 DEF CancelRun
    <3> QED BY <3>1, <3>2 DEF RunRow
  <2>2. \A j \in Jobs : [job[j] EXCEPT !.status = "canceled", !.settlement = "not_required"] \in JobRow
    BY RowType, WriteType
  <2>3. job' \in [Jobs -> JobRow]
    BY <1>3, <2>2 DEF CancelRun, TypeOK
  <2>4. item' \in [Jobs -> ItemStatus]
    BY <1>3 DEF CancelRun, TypeOK, ItemStatus, Final
  <2> QED BY <1>3, <2>1, <2>3, <2>4 DEF CancelRun, TypeOK, LevelOK
<1>4. CASE CancelTrigger
  <2>1. \A j \in Jobs : [child[j] EXCEPT !.pc = "ended", !.err = "none", !.seen = Unseen] \in ChildRun
    <3>1. "ended" \in ChildPC /\ "none" \in ErrorKind
      BY DEF ChildPC, ErrorKind
    <3>2. Unseen \in [canceled : BOOLEAN, pending : BOOLEAN, submitted : BOOLEAN, ext : BOOLEAN]
      BY DEF Unseen
    <3> QED BY <3>1, <3>2 DEF TypeOK, ChildRun
  <2>2. child' \in [Jobs -> ChildRun]
    BY <1>4, <2>1 DEF CancelTrigger, TypeOK
  <2>3. parent' = EndedParent
    BY <1>4 DEF CancelTrigger, EndedParent
  <2> QED BY <1>4, <2>2, <2>3, ParentType DEF CancelTrigger, TypeOK, LevelOK
<1>5. CASE RetireCanceled
  BY <1>5, ClosedType DEF RetireCanceled, TypeOK, LevelOK
<1>6. CASE Acknowledge
  BY <1>6 DEF Acknowledge, TypeOK, LevelOK, RunRow
<1> QED BY <1>1, <1>2, <1>3, <1>4, <1>5, <1>6 DEF Dispatch, Cancellation

\* Moving the parent keeps its type and its level.
LEMMA TypeParent == ASSUME TypeInv, Parent \/ CrashParent PROVE TypeInv'
<1> USE DEF TypeInv
<1>0. /\ parent \in ParentRun /\ job \in [Jobs -> JobRow]
      /\ Closed(Jobs, "failed", FALSE) \in [Jobs -> JobRow]
  BY ClosedType DEF TypeOK
<1>1. CASE StartParent
  <2>1. run' \in RunRow
    <3>1. "running" \in Active \cup RunFinal
      BY DEF Active
    <3> QED BY <1>1, <3>1 DEF StartParent, TypeOK, RunRow
  <2>2. parent' \in ParentRun
    BY <1>1, ParentType DEF StartParent
  <2>3. parent'.pc \in {"level", "ended"}
    BY <1>0, <1>1 DEF StartParent, EndedParent, ParentRun
  <2> QED BY <1>1, <2>1, <2>2, <2>3 DEF StartParent, TypeOK, LevelOK
<1>2. CASE RejectSnapshot
  <2>1. parent' \in ParentRun
    BY <1>2, ParentType DEF RejectSnapshot, ParentPC
  <2>2. parent'.pc = "rejecting"
    BY <1>0, <1>2 DEF RejectSnapshot, ParentRun
  <2> QED BY <1>0, <1>2, <2>1, <2>2 DEF RejectSnapshot, TypeOK, LevelOK
<1>3. CASE RunLevel
  <2> DEFINE batch == {j \in Jobs : Level[j] = parent.level /\ job[j].status = "pending"}
  <2>1. \A j \in Jobs : [child[j] EXCEPT !.pc = "queued"] \in ChildRun
    <3>1. "queued" \in ChildPC
      BY DEF ChildPC
    <3> QED BY <3>1 DEF TypeOK, ChildRun
  <2>2. child' \in [Jobs -> ChildRun]
    BY <1>3, <2>1 DEF RunLevel, TypeOK
  <2>3. parent' \in ParentRun
    <3>1. [parent EXCEPT !.pc = "waiting", !.batch = batch] \in ParentRun
      BY ParentType DEF ParentPC
    <3> QED BY <1>3, <3>1, ParentType DEF RunLevel
  <2>4. parent' \in {EndedParent, NextLevel, [parent EXCEPT !.pc = "waiting", !.batch = batch]}
    BY <1>3 DEF RunLevel
  <2>5. parent'.pc \in {"ended", "level"} \/ parent'.level = parent.level
    BY <1>0, <2>4 DEF ParentRun, EndedParent, NextLevel
  <2>6. parent'.level = parent.level => parent'.level <= Depth
    BY <1>3 DEF RunLevel
  <2> QED BY <1>3, <2>2, <2>3, <2>5, <2>6 DEF RunLevel, TypeOK, LevelOK
<1>4. CASE CollectLevel
  <2> DEFINE lost == {j \in parent.batch : ~child[j].ok}
  <2>1. parent.level <= Depth
    BY <1>4 DEF CollectLevel, ParentAt, LevelOK
  <2>2. lost \in SUBSET Jobs
    BY <1>0 DEF ParentRun
  <2>3. [parent EXCEPT !.pc = "failing", !.batch = {}, !.lost = lost] \in ParentRun
    BY <2>2, ParentType DEF ParentPC
  <2>4. parent' \in ParentRun
    BY <1>4, <2>1, <2>3, ParentType DEF CollectLevel
  <2> HIDE DEF lost
  <2>9. parent' \in {EndedParent, NextLevel, [parent EXCEPT !.pc = "failing", !.batch = {}, !.lost = lost]}
    BY <1>4 DEF CollectLevel, lost
  <2>5. parent'.pc \in {"ended", "level"} \/ parent'.level = parent.level
    BY <1>0, <2>9 DEF ParentRun, EndedParent, NextLevel
  <2>7. LevelOK'
    BY <2>1, <2>5 DEF LevelOK
  <2>8. UNCHANGED <<run, job, item, asset, child, sweep, accepted>>
    BY <1>4 DEF CollectLevel
  <2> QED BY <2>4, <2>7, <2>8 DEF TypeOK
<1>5. CASE FailLost
  <2>1. parent' \in ParentRun
    <3>1. "releasing" \in ParentPC /\ parent.lost \in SUBSET Jobs
      BY <1>0 DEF ParentPC, ParentRun
    <3> QED BY <1>5, <3>1, ParentType DEF FailLost
  <2>2. parent'.level = parent.level
    BY <1>0, <1>5 DEF FailLost, ParentRun
  <2>3. job' \in [Jobs -> JobRow]
    BY <1>5, ClosedType DEF FailLost
  <2> QED BY <1>5, <2>1, <2>2, <2>3 DEF FailLost, ParentAt, TypeOK, LevelOK
<1>6. ASSUME NEW j \in Jobs, ReleaseCredits(j) PROVE TypeInv'
  <2>1. parent' \in ParentRun
    BY <1>0, <1>6, ParentType DEF ReleaseCredits, ParentRun
  <2>2. parent'.level = parent.level /\ parent'.pc = parent.pc
    BY <1>0, <1>6 DEF ReleaseCredits, ParentRun
  <2>3. job' \in [Jobs -> JobRow]
    BY <1>6, SettledType, WriteType DEF ReleaseCredits
  <2> QED BY <1>6, <2>1, <2>2, <2>3 DEF ReleaseCredits, TypeOK, LevelOK
<1>7. CASE SkipJobs
  <2> DEFINE skipped == {d \in Jobs : /\ job[d].status = "pending"
                                      /\ \E l \in parent.lost : d \in Downstream[l]}
  <2>1. [parent EXCEPT !.pc = "skipping", !.todo = skipped] \in ParentRun
    BY ParentType DEF ParentPC
  <2>2. parent' = [parent EXCEPT !.pc = "skipping", !.todo = skipped]
    BY <1>7 DEF SkipJobs
  <2>3. parent'.level = parent.level
    BY <1>0, <2>2 DEF ParentRun
  <2>4. job' \in [Jobs -> JobRow]
    BY <1>7, ClosedType DEF SkipJobs
  <2> QED BY <1>7, <2>1, <2>2, <2>3, <2>4 DEF SkipJobs, ParentAt, TypeOK, LevelOK
<1>8. CASE SkipItems
  <2>1. parent' \in ParentRun /\ parent'.pc = "level"
    BY <1>8, ParentType DEF SkipItems, ParentAt, LevelOK
  <2>2. item' \in [Jobs -> ItemStatus]
    <3>1. \A d \in Jobs : job[d].status \in ItemStatus
      BY <1>0 DEF JobRow, ItemStatus
    <3> QED BY <1>8, <3>1 DEF SkipItems, TypeOK, ItemStatus
  <2>3. run' \in RunRow
    <3>1. \A items : StatusOf(items) \in Active \cup RunFinal
      BY DEF StatusOf, Active, Final, RunFinal
    <3>2. run' = run \/ \E s \in Active \cup RunFinal : run' = [run EXCEPT !.status = s]
      BY <1>8, <3>1 DEF SkipItems
    <3> QED BY <3>2 DEF TypeOK, RunRow
  <2> QED BY <1>8, <2>1, <2>2, <2>3 DEF SkipItems, TypeOK, LevelOK
<1>9. CASE FinishParent
  BY <1>0, <1>9, ParentType, AggregateRunType DEF FinishParent, TypeOK, LevelOK
<1>10. CASE AbortRun
  <2>1. parent' \in ParentRun
    BY <1>10, ParentType DEF AbortRun, ParentPC
  <2>2. parent'.pc = "closing"
    BY <1>0, <1>10 DEF AbortRun, ParentRun
  <2> QED BY <1>0, <1>10, <2>1, <2>2 DEF AbortRun, TypeOK, LevelOK
<1>11. CASE CloseRun
  <2> DEFINE held == {j \in Jobs : job[j].credit = "reserved"}
  <2>1. [parent EXCEPT !.pc = "draining", !.todo = held] \in ParentRun
    BY ParentType DEF ParentPC
  <2>2. parent' = [parent EXCEPT !.pc = "draining", !.todo = held]
    BY <1>11 DEF CloseRun
  <2>3. parent'.pc = "draining"
    BY <1>0, <2>2 DEF ParentRun
  <2> QED BY <1>0, <1>11, <2>1, <2>2, <2>3, AggregateRunType DEF CloseRun, TypeOK, LevelOK
<1>12. CASE FinishDraining
  BY <1>12, ParentType DEF FinishDraining, TypeOK, LevelOK
<1>13. CASE CrashParent
  <2>1. parent' \in ParentRun
    BY <1>13, ParentType DEF CrashParent, EndedParent
  <2>2. parent'.pc \in {"queued", "aborting", "ended"}
    BY <1>0, <1>13, ParentType DEF CrashParent, ParentRun
  <2> QED BY <1>13, <2>1, <2>2 DEF CrashParent, TypeOK, LevelOK
<1> QED BY <1>1, <1>2, <1>3, <1>4, <1>5, <1>6, <1>7, <1>8, <1>9, <1>10, <1>11, <1>12, <1>13
        DEF Parent

\* The reconcilers keep the type of the rows and of their own local state.
LEMMA TypeRepair ==
  ASSUME TypeOK,
         \/ Repair \/ CrashSweep
         \/ \E j \in Jobs : StaleClaim(j) \/ SettleCanceled(j) \/ SettleSweep(j) \/ AccountCost(j)
  PROVE  TypeOK'
<1>0. NoSweep \in Sweep /\ [pc |-> "orphan"] \in Sweep /\ [pc |-> "summary"] \in Sweep
  BY DEF Sweep, NoSweep
<1>1. CASE ClaimDispatched \/ CrashSweep
  BY <1>0, <1>1 DEF ClaimDispatched, CrashSweep, TypeOK
<1>2. CASE FailOrphaned
  <2>1. Closed(Jobs, "failed", TRUE) \in [Jobs -> JobRow] /\ job \in [Jobs -> JobRow]
    BY ClosedType DEF TypeOK
  <2>2. job' \in [Jobs -> JobRow] /\ sweep' \in Sweep
    BY <1>0, <1>2, <2>1 DEF FailOrphaned
  <2> QED BY <1>2, <2>2 DEF FailOrphaned, TypeOK
<1>3. ASSUME NEW j \in Jobs, StaleClaim(j) PROVE TypeOK'
  <2>1. RunCanceled \in BOOLEAN /\ (job[j].settlement = "pending") \in BOOLEAN
    BY DEF RunCanceled
  <2>2. \A c, p \in BOOLEAN : [pc |-> "marking", job |-> j, canceled |-> c, pending |-> p] \in Sweep
    BY DEF Sweep
  <2>3. sweep' \in Sweep
    BY <1>3, <2>1, <2>2 DEF StaleClaim
  <2> QED BY <1>3, <2>3 DEF StaleClaim, TypeOK
<1>4. ASSUME sweep.pc \in {"marking", "closing"}
      PROVE  sweep.job \in Jobs /\ [sweep EXCEPT !.pc = "closing"] \in Sweep
  BY <1>4 DEF TypeOK, Sweep
<1>5. CASE StaleMark
  <2>1. sweep.job \in Jobs /\ sweep' \in Sweep
    BY <1>0, <1>4, <1>5 DEF StaleMark
  <2>2. [job[sweep.job] EXCEPT !.settlement = "unknown"] \in JobRow
    BY <2>1, RowType, WriteType
  <2>3. job' = job \/ job' = [job EXCEPT ![sweep.job] = [job[sweep.job] EXCEPT !.settlement = "unknown"]]
    BY <1>5 DEF StaleMark
  <2>4. job' \in [Jobs -> JobRow]
    BY <2>1, <2>2, <2>3, WriteType DEF TypeOK
  <2> QED BY <1>5, <2>1, <2>4 DEF StaleMark, TypeOK
<1>6. CASE StaleClose
  <2>1. sweep.job \in Jobs /\ sweep' \in Sweep
    BY <1>0, <1>4, <1>6 DEF StaleClose
  <2>2. [job[sweep.job] EXCEPT !.status = "failed"] \in JobRow
    <3>1. "failed" \in Active \cup Final
      BY DEF Final
    <3> QED BY <2>1, <3>1, RowType, WriteType
  <2>3. \/ job' = job \/ job' = Closed({sweep.job}, "canceled", FALSE)
        \/ job' = [job EXCEPT ![sweep.job] = [job[sweep.job] EXCEPT !.status = "failed"]]
    BY <1>6 DEF StaleClose
  <2>4. /\ job \in [Jobs -> JobRow] /\ Closed({sweep.job}, "canceled", FALSE) \in [Jobs -> JobRow]
        /\ [job EXCEPT ![sweep.job] = [job[sweep.job] EXCEPT !.status = "failed"]] \in [Jobs -> JobRow]
    <3>1. \A row \in JobRow : [job EXCEPT ![sweep.job] = row] \in [Jobs -> JobRow]
      BY <2>1, WriteType
    <3> QED BY <2>2, <3>1, ClosedType DEF TypeOK
  <2>5. job' \in [Jobs -> JobRow]
    BY <2>3, <2>4
  <2> QED BY <1>6, <2>1, <2>5 DEF StaleClose, TypeOK
<1>7. CASE SweepSummary
  <2>1. job \in [Jobs -> JobRow]
    BY DEF TypeOK
  <2>2. AggregateRun(job) /\ sweep' = NoSweep /\ UNCHANGED <<job, asset, parent, child, accepted>>
    BY <1>7 DEF SweepSummary
  <2> QED BY <1>0, <2>1, <2>2, AggregateRunType DEF TypeOK
<1>8. ASSUME NEW j \in Jobs, SettleCanceled(j) \/ SettleSweep(j) \/ AccountCost(j) PROVE TypeOK'
  <2>0. \/ \E outcome \in {"captured", "released"} : job' = [job EXCEPT ![j] = Settled(job[j], outcome)]
        \/ \E s \in {"settled", "unknown"} : job' = [job EXCEPT ![j] = [job[j] EXCEPT !.settlement = s]]
    <3>1. CASE SettleCanceled(j)
      BY <3>1 DEF SettleCanceled
    <3>2. CASE SettleSweep(j)
      BY <3>2 DEF SettleSweep
    <3>3. CASE AccountCost(j)
      BY <3>3 DEF AccountCost
    <3> QED BY <1>8, <3>1, <3>2, <3>3
  <2>1. job' \in [Jobs -> JobRow]
    <3>1. \A outcome \in {"captured", "released"} : Settled(job[j], outcome) \in JobRow
      BY SettledType, WriteType
    <3>2. \A s \in {"settled", "unknown"} : [job[j] EXCEPT !.settlement = s] \in JobRow
      BY RowType, WriteType
    <3>3. \A row \in JobRow : [job EXCEPT ![j] = row] \in [Jobs -> JobRow]
      BY WriteType
    <3> QED BY <2>0, <3>1, <3>2, <3>3
  <2> QED BY <1>8, <2>1 DEF SettleCanceled, SettleSweep, AccountCost, TypeOK
<1> QED BY <1>1, <1>2, <1>3, <1>5, <1>6, <1>7, <1>8 DEF Repair

\* No child step moves the parent, so the level bound follows from the type.
LEMMA ChildKeepsParent ==
  ASSUME NEW j \in Jobs, Child(j) \/ CrashChild(j) PROVE UNCHANGED <<parent, sweep>>
BY DEF Child, CrashChild, ClaimJob, RejectRequest, ResumeJob, MarkSubmission, Submit,
       RecordSubmission, Poll, StageResult, AcceptResult, PersistOutput, IngestOutput,
       CompleteJob, ReportSuccess, ReadError, ResetMarker, CancelErred, SettleErred,
       FailErred, RetryErred

LEMMA RepairKeepsParent ==
  ASSUME \/ Repair \/ CrashSweep
         \/ \E j \in Jobs : StaleClaim(j) \/ SettleCanceled(j) \/ SettleSweep(j) \/ AccountCost(j)
  PROVE  UNCHANGED <<parent, child, accepted>>
BY DEF Repair, CrashSweep, ClaimDispatched, FailOrphaned, StaleClaim, StaleMark, StaleClose,
       SweepSummary, SettleCanceled, SettleSweep, AccountCost

LEMMA TypeInit == ASSUME Init PROVE TypeInv
<1>1. job \in [Jobs -> JobRow]
  BY DEF Init, JobRow, Active
<1>2. child \in [Jobs -> ChildRun]
  <2>1. "none" \in ChildPC /\ "none" \in ErrorKind
    BY DEF ChildPC, ErrorKind
  <2>2. Unseen \in [canceled : BOOLEAN, pending : BOOLEAN, submitted : BOOLEAN, ext : BOOLEAN]
    BY DEF Unseen
  <2>3. 1 \in 1..JobAttempts
    BY AttemptsAssumption
  <2> QED BY <2>1, <2>2, <2>3 DEF Init, ChildRun
<1>3. parent \in ParentRun
  BY PlanAssumption, AttemptsAssumption DEF Init, ParentRun, ParentPC
<1>4. run \in RunRow /\ item \in [Jobs -> ItemStatus] /\ sweep \in Sweep
  BY DEF Init, RunRow, ItemStatus, Active, Sweep, NoSweep
<1>5. asset \in [Jobs -> {"none", "processing", "ready"}] /\ accepted \in [Jobs -> Nat]
  BY DEF Init
<1> QED BY <1>1, <1>2, <1>3, <1>4, <1>5 DEF Init, TypeInv, TypeOK, LevelOK

LEMMA TypeNext == ASSUME TypeInv, [Next]_vars PROVE TypeInv'
<1>1. CASE Dispatch \/ CancelRun \/ Cancellation
  BY <1>1, TypeDispatch
<1>2. CASE Parent \/ CrashParent
  BY <1>2, TypeParent
<1>3. CASE \/ Repair \/ CrashSweep
           \/ \E j \in Jobs : StaleClaim(j) \/ SettleCanceled(j) \/ SettleSweep(j) \/ AccountCost(j)
  BY <1>3, TypeRepair, RepairKeepsParent DEF TypeInv, LevelOK
<1>4. ASSUME NEW j \in Jobs, Child(j) \/ CrashChild(j) PROVE TypeInv'
  <2>1. TypeOK'
    BY <1>4, TypeClaimJob, TypeRejectRequest, TypeResumeJob, TypeSubmission, TypeOutput, TypeError
    DEF TypeInv, Child
  <2> QED BY <1>4, <2>1, ChildKeepsParent DEF TypeInv, LevelOK
<1>5. CASE UNCHANGED vars
  BY <1>5 DEF vars, TypeInv, TypeOK, LevelOK
<1> QED BY <1>1, <1>2, <1>3, <1>4, <1>5 DEF Next

\* Every variable keeps its type, for every plan and any number of attempts:
\* in particular no task makes more attempts than the configuration allows and
\* no orchestrator leaves the levels of the plan.
THEOREM TypeCorrect == Spec => []TypeOK
<1>1. Init => TypeInv
  BY TypeInit
<1>2. TypeInv /\ [Next]_vars => TypeInv'
  BY TypeNext
<1>3. TypeInv => TypeOK
  BY DEF TypeInv
<1> QED BY <1>1, <1>2, <1>3, PTL DEF Spec

-----------------------------------------------------------------------------
(* How a step moves the status and the credits of one job.                 *)

Kept(j) ==
  /\ job'[j].credit = job[j].credit
  /\ \/ job'[j].status = job[j].status
     \/ JobActive(j) /\ job'[j].status \in Active
Ended(j) ==
  /\ JobActive(j) /\ job'[j].status \in {"failed", "canceled"}
  /\ job'[j].credit \in {job[j].credit, Settled(job[j], "released").credit}
Won(j) ==
  /\ JobActive(j) /\ ~RunCanceled /\ child[j].pc = "committing"
  /\ job'[j].status = "succeeded"
  /\ job'[j].credit = Settled(job[j], "captured").credit
Freed(j) ==
  /\ job'[j].status = job[j].status /\ job[j].status # "succeeded"
  /\ ~JobActive(j) \/ RunCanceled
  /\ job[j].credit = "reserved" /\ job'[j].credit = "released"
Unwon(j)   == Kept(j) \/ Ended(j) \/ Freed(j)
EndStep(j) == Unwon(j) \/ Won(j)

\* Captured is succeeded; a job that can still succeed holds its credits; the
\* parent releases credits only of jobs it has closed.
OpenIsReserved == \A j \in Jobs : JobActive(j) /\ ~RunCanceled => job[j].credit = "reserved"
TodoIsClosed   == \A j \in parent.todo : ~JobActive(j)
LeavingIsQuiet == parent.pc \in {"rejecting", "closing"} => \A j \in Jobs : ~JobActive(j)
CreditSafe == CaptureIffSucceeded /\ OpenIsReserved /\ TodoIsClosed /\ LeavingIsQuiet

\* A closing write touches the active jobs of its set and nothing else.
LEMMA ClosedStep ==
  ASSUME TypeOK, NEW S, NEW status \in {"failed", "canceled"}, NEW resolve \in BOOLEAN,
         job' = Closed(S, status, resolve), NEW j \in Jobs
  PROVE  /\ Kept(j) \/ Ended(j)
         /\ j \in S => ~JobActive(j)'
         /\ job'[j].submitted = job[j].submitted /\ job'[j].ext = job[j].ext
         /\ job'[j].staged = job[j].staged
         /\ job[j].settlement # "not_required" => job'[j].settlement # "not_required"
<1>1. job[j] \in JobRow
  BY DEF TypeOK
<1>2. CASE j \in S /\ JobActive(j)
  <2>1. job'[j] = [job[j] EXCEPT !.status = status,
                     !.settlement = IF resolve /\ job[j].settlement = "pending"
                                    THEN "unknown" ELSE job[j].settlement]
    BY <1>2 DEF Closed
  <2> QED BY <1>1, <1>2, <2>1 DEF Ended, JobRow, JobActive, Active
<1>3. CASE ~(j \in S /\ JobActive(j))
  BY <1>3 DEF Closed, Kept, JobActive
<1> QED BY <1>2, <1>3

LEMMA SameRow == ASSUME NEW j \in Jobs, job'[j] = job[j] PROVE Kept(j)
BY DEF Kept

\* Writing fields other than status and credit of one row is no end of a job.
LEMMA EndStepWrite ==
  ASSUME TypeOK, NEW i \in Jobs, NEW row \in JobRow, job' = [job EXCEPT ![i] = row],
         row.credit = job[i].credit,
         row.status = job[i].status \/ (JobActive(i) /\ row.status \in Active),
         NEW j \in Jobs
  PROVE  Kept(j)
BY DEF TypeOK, Kept

\* Settling the credits of a job that just ended.
LEMMA EndStepSettle ==
  ASSUME TypeOK, NEW i \in Jobs, NEW status \in Final, NEW outcome \in {"captured", "released"},
         job' = [job EXCEPT ![i] = Settled([job[i] EXCEPT !.status = status], outcome)]
  PROVE  /\ job'[i].status = status
         /\ job'[i].credit = Settled(job[i], outcome).credit
         /\ \A j \in Jobs \ {i} : job'[j] = job[j]
         /\ job'[i].submitted = job[i].submitted /\ job'[i].ext = job[i].ext
         /\ job'[i].staged = job[i].staged /\ job'[i].settlement = job[i].settlement
<1> DEFINE row == [job[i] EXCEPT !.status = status]
<1>1. /\ row \in JobRow /\ row.status = status /\ row.credit = job[i].credit
      /\ row.submitted = job[i].submitted /\ row.ext = job[i].ext
      /\ row.staged = job[i].staged /\ row.settlement = job[i].settlement
  BY DEF TypeOK, JobRow
<1>2. job'[i] = Settled(row, outcome)
  BY DEF TypeOK
<1>3. \A j \in Jobs \ {i} : job'[j] = job[j]
  BY DEF TypeOK
<1>4. job[i] \in JobRow
  BY DEF TypeOK
<1> HIDE DEF row
<1> QED BY <1>1, <1>2, <1>3, <1>4 DEF Settled, JobRow

\* Every step of the child task that takes, submits or polls moves the job
\* inside its active statuses at most; only the claim replays a success.
LEMMA ChildStartEndStep ==
  ASSUME TypeOK, CreditSafe, NEW i \in Jobs, NEW j \in Jobs,
         \/ ClaimJob(i) \/ RejectRequest(i) \/ ResumeJob(i) \/ MarkSubmission(i)
         \/ Submit(i) \/ RecordSubmission(i) \/ Poll(i) \/ StageResult(i)
  PROVE  EndStep(j)
<1> USE DEF EndStep, Unwon
<1>0. job \in [Jobs -> JobRow] /\ job[i] \in JobRow
  BY DEF TypeOK
<1>1. CASE ClaimJob(i)
  <2>1. CASE JobActive(i) /\ job' = [job EXCEPT ![i].status = "running"]
    BY <1>0, <2>1 DEF Kept, JobRow, Active
  <2>2. CASE job[i].status = "succeeded" /\ job' = [job EXCEPT ![i] = Settled(job[i], "captured")]
    <3>1. job[i].credit = "captured"
      BY <2>2 DEF CreditSafe, CaptureIffSucceeded
    <3>2. job'[i] = Settled(job[i], "captured") /\ \A k \in Jobs \ {i} : job'[k] = job[k]
      BY <1>0, <2>2
    <3> QED BY <1>0, <3>1, <3>2 DEF Kept, Settled, JobRow
  <2>3. CASE UNCHANGED job
    BY <2>3 DEF Kept
  <2> QED BY <1>1, <2>1, <2>2, <2>3 DEF ClaimJob
<1>2. CASE RejectRequest(i)
  <2>1. CASE JobActive(i)
    <3>1. job' = [job EXCEPT ![i] = Settled([job[i] EXCEPT !.status = "failed"], "released")]
      BY <1>2, <2>1 DEF RejectRequest
    <3>2. "failed" \in Final
      BY DEF Final
    <3>3. /\ job'[i].status = "failed" /\ job'[i].credit = Settled(job[i], "released").credit
          /\ \A k \in Jobs \ {i} : job'[k] = job[k]
      BY <3>1, <3>2, EndStepSettle
    <3> QED BY <2>1, <3>3 DEF Kept, Ended
  <2>2. CASE ~JobActive(i)
    BY <1>2, <2>2 DEF RejectRequest, Kept
  <2> QED BY <2>1, <2>2
<1>3. CASE ResumeJob(i) \/ Submit(i) \/ Poll(i)
  BY <1>3 DEF ResumeJob, Submit, Poll, Kept
<1>4. CASE MarkSubmission(i)
  <2> DEFINE row == [job[i] EXCEPT !.submitted = TRUE, !.settlement = "pending"]
  <2>1. row \in JobRow /\ row.credit = job[i].credit /\ row.status = job[i].status
    BY <1>0 DEF JobRow
  <2>2. job' = job \/ job' = [job EXCEPT ![i] = row]
    BY <1>4 DEF MarkSubmission
  <2> QED BY <2>1, <2>2, EndStepWrite, SameRow
<1>5. CASE RecordSubmission(i)
  <2>1. job' = job \/ job' = [job EXCEPT ![i].ext = TRUE]
    BY <1>5 DEF RecordSubmission
  <2> QED BY <1>0, <2>1 DEF Kept, JobRow
<1>6. CASE StageResult(i)
  <2> DEFINE row(s) == [job[i] EXCEPT !.staged = TRUE, !.settlement = s]
  <2>1. \A s \in {"settled", "pending", "unknown"} :
          row(s) \in JobRow /\ row(s).credit = job[i].credit /\ row(s).status = job[i].status
    BY <1>0 DEF JobRow
  <2>2. \/ job' = job
        \/ \E s \in {"settled", "pending", "unknown"} : job' = [job EXCEPT ![i] = row(s)]
    BY <1>6 DEF StageResult
  <2> QED BY <2>1, <2>2, EndStepWrite, SameRow
<1> QED BY <1>1, <1>2, <1>3, <1>4, <1>5, <1>6

\* Finishing an output: success only in CompleteJob, and not after cancellation.
LEMMA ChildOutputEndStep ==
  ASSUME TypeOK, CreditSafe, NEW i \in Jobs, NEW j \in Jobs,
         \/ AcceptResult(i) \/ PersistOutput(i) \/ IngestOutput(i)
         \/ CompleteJob(i) \/ ReportSuccess(i)
  PROVE  EndStep(j)
<1> USE DEF EndStep, Unwon
<1>0. job \in [Jobs -> JobRow] /\ job[i] \in JobRow
  BY DEF TypeOK
<1>1. CASE AcceptResult(i)
  <2>1. PICK costKnown \in BOOLEAN :
          LET facts == IF costKnown /\ job[i].status = "running"
                       THEN [job EXCEPT ![i].settlement = "settled"] ELSE job
          IN job' = IF RunCanceled /\ JobActive(i)
                    THEN [facts EXCEPT ![i].status = "canceled"] ELSE facts
    BY <1>1 DEF AcceptResult
  <2> DEFINE facts == IF costKnown /\ job[i].status = "running"
                      THEN [job EXCEPT ![i].settlement = "settled"] ELSE job
  <2>2. /\ facts \in [Jobs -> JobRow]
        /\ \A k \in Jobs : facts[k].credit = job[k].credit /\ facts[k].status = job[k].status
    BY <1>0 DEF JobRow
  <2>3. job' = IF RunCanceled /\ JobActive(i)
               THEN [facts EXCEPT ![i].status = "canceled"] ELSE facts
    BY <2>1
  <2> HIDE DEF facts
  <2>4. CASE RunCanceled /\ JobActive(i)
    BY <2>2, <2>3, <2>4 DEF Kept, Ended, JobRow
  <2>5. CASE ~(RunCanceled /\ JobActive(i))
    BY <2>2, <2>3, <2>5 DEF Kept
  <2> QED BY <2>4, <2>5
<1>2. CASE PersistOutput(i)
  <2>1. job' = job \/ job' = Closed({i}, "canceled", FALSE)
    BY <1>2 DEF PersistOutput
  <2> QED BY <2>1, ClosedStep DEF Kept
<1>3. CASE IngestOutput(i) \/ ReportSuccess(i)
  BY <1>3 DEF IngestOutput, ReportSuccess, Kept
<1>4. CASE CompleteJob(i)
  <2>1. CASE /\ job[i].status = "running" /\ ~RunCanceled
             /\ job' = [job EXCEPT ![i] = Settled([job[i] EXCEPT !.status = "succeeded"], "captured")]
    <3>1. "succeeded" \in Final
      BY DEF Final
    <3>2. /\ job'[i].status = "succeeded" /\ job'[i].credit = Settled(job[i], "captured").credit
          /\ \A k \in Jobs \ {i} : job'[k] = job[k]
      BY <2>1, <3>1, EndStepSettle
    <3>3. child[i].pc = "committing"
      BY <1>4 DEF CompleteJob
    <3> QED BY <2>1, <3>2, <3>3 DEF Kept, Won, JobActive, Active
  <2>2. CASE /\ job[i].status = "running"
             /\ job' = [job EXCEPT ![i] = Settled([job[i] EXCEPT !.status = "canceled"], "released")]
    <3>1. "canceled" \in Final
      BY DEF Final
    <3>2. /\ job'[i].status = "canceled" /\ job'[i].credit = Settled(job[i], "released").credit
          /\ \A k \in Jobs \ {i} : job'[k] = job[k]
      BY <2>2, <3>1, EndStepSettle
    <3> QED BY <2>2, <3>2 DEF Kept, Ended, JobActive, Active
  <2>3. CASE job[i].status = "succeeded" /\ job' = [job EXCEPT ![i] = Settled(job[i], "captured")]
    <3>1. job[i].credit = "captured"
      BY <2>3 DEF CreditSafe, CaptureIffSucceeded
    <3>2. job'[i] = Settled(job[i], "captured") /\ \A k \in Jobs \ {i} : job'[k] = job[k]
      BY <1>0, <2>3
    <3> QED BY <1>0, <3>1, <3>2 DEF Kept, Settled, JobRow
  <2>4. CASE UNCHANGED job
    BY <2>4 DEF Kept
  <2> QED BY <1>4, <2>1, <2>2, <2>3, <2>4 DEF CompleteJob
<1> QED BY <1>1, <1>2, <1>3, <1>4

\* The error handler closes a job or puts it back, whatever it read before.
LEMMA ChildErrorEndStep ==
  ASSUME TypeOK, NEW i \in Jobs, NEW j \in Jobs,
         \/ ReadError(i) \/ ResetMarker(i) \/ CancelErred(i) \/ SettleErred(i)
         \/ FailErred(i) \/ RetryErred(i) \/ CrashChild(i)
  PROVE  EndStep(j)
<1> USE DEF EndStep, Unwon
<1>0. job \in [Jobs -> JobRow] /\ job[i] \in JobRow
  BY DEF TypeOK
<1>1. CASE ReadError(i) \/ CrashChild(i)
  BY <1>1 DEF ReadError, CrashChild, Kept
<1>2. CASE ResetMarker(i)
  <2> DEFINE row == [job[i] EXCEPT !.submitted = FALSE, !.settlement = "not_required"]
  <2>1. row \in JobRow /\ row.credit = job[i].credit /\ row.status = job[i].status
    BY <1>0 DEF JobRow
  <2>2. job' = job \/ job' = [job EXCEPT ![i] = row]
    BY <1>2 DEF ResetMarker
  <2> QED BY <2>1, <2>2, EndStepWrite, SameRow
<1>3. CASE CancelErred(i)
  BY <1>3, ClosedStep DEF CancelErred
<1>4. CASE SettleErred(i)
  <2>1. job' = job \/ \E s \in {"unknown", "settled"} : job' = [job EXCEPT ![i].settlement = s]
    BY <1>4 DEF SettleErred
  <2> QED BY <1>0, <2>1 DEF Kept, JobRow
<1>5. CASE FailErred(i)
  <2>1. CASE job' = Closed({i}, "canceled", FALSE)
    BY <2>1, ClosedStep
  <2>2. CASE JobActive(i) /\ job' = [job EXCEPT ![i] = Settled([job[i] EXCEPT !.status = "failed"], "released")]
    <3>1. "failed" \in Final
      BY DEF Final
    <3>2. /\ job'[i].status = "failed" /\ job'[i].credit = Settled(job[i], "released").credit
          /\ \A k \in Jobs \ {i} : job'[k] = job[k]
      BY <2>2, <3>1, EndStepSettle
    <3> QED BY <2>2, <3>2 DEF Kept, Ended
  <2>3. CASE UNCHANGED job
    BY <2>3 DEF Kept
  <2> QED BY <1>5, <2>1, <2>2, <2>3 DEF FailErred
<1>6. CASE RetryErred(i)
  BY <1>0, <1>6 DEF RetryErred, Kept, JobActive, Active, JobRow
<1> QED BY <1>1, <1>2, <1>3, <1>4, <1>5, <1>6

\* Releasing the credits of a job that is closed, or whose run was canceled.
LEMMA ReleaseStep ==
  ASSUME TypeOK, CreditSafe, NEW i \in Jobs, ~JobActive(i) \/ RunCanceled,
         job' = [job EXCEPT ![i] = Settled(job[i], "released")], NEW j \in Jobs
  PROVE  /\ Unwon(j)
         /\ job'[j].submitted = job[j].submitted /\ job'[j].ext = job[j].ext
         /\ job'[j].staged = job[j].staged /\ job'[j].settlement = job[j].settlement
<1>1. job[i] \in JobRow /\ job'[i] = Settled(job[i], "released")
      /\ \A k \in Jobs \ {i} : job'[k] = job[k]
  BY DEF TypeOK
<1>2. job[i].credit = "reserved" => job[i].status # "succeeded"
  BY DEF CreditSafe, CaptureIffSucceeded
<1>3. CASE j = i
  BY <1>1, <1>2, <1>3 DEF Unwon, Kept, Freed, Settled, JobRow
<1>4. CASE j # i
  BY <1>1, <1>4 DEF Unwon, Kept
<1> QED BY <1>3, <1>4

\* The user's cancellation ends the jobs on which nothing was spent.
LEMMA CancelRunStep ==
  ASSUME TypeOK, CancelRun, NEW j \in Jobs
  PROVE  /\ Kept(j) \/ Ended(j)
         /\ job'[j].submitted = job[j].submitted /\ job'[j].ext = job[j].ext
         /\ job'[j].staged = job[j].staged
         /\ job[j].submitted => job'[j].settlement = job[j].settlement
<1>1. job[j] \in JobRow
  BY DEF TypeOK
<1>2. CASE JobActive(j) /\ ~job[j].submitted
  <2>1. job'[j] = [job[j] EXCEPT !.status = "canceled", !.settlement = "not_required"]
    BY <1>2 DEF CancelRun
  <2> QED BY <1>1, <1>2, <2>1 DEF Ended, JobRow
<1>3. CASE ~(JobActive(j) /\ ~job[j].submitted)
  <2>1. job'[j] = job[j]
    BY <1>3 DEF CancelRun
  <2> QED BY <2>1 DEF Kept
<1> QED BY <1>2, <1>3

\* Cancellation, the parent and the reconcilers never make a job succeed, and
\* free credits only of closed jobs or of canceled runs.
LEMMA OuterEndStep ==
  ASSUME TypeOK, CreditSafe, NEW j \in Jobs,
         \/ Dispatch \/ CancelRun \/ Cancellation \/ Parent \/ CrashParent \/ Repair \/ CrashSweep
         \/ \E i \in Jobs : StaleClaim(i) \/ SettleCanceled(i) \/ SettleSweep(i) \/ AccountCost(i)
  PROVE  Unwon(j)
<1>0. job \in [Jobs -> JobRow]
  BY DEF TypeOK
<1>1. CASE CancelRun
  BY <1>1, CancelRunStep DEF Unwon
<1>2. CASE \E S \in SUBSET Jobs : \E status \in {"failed", "canceled"} : \E resolve \in BOOLEAN :
             job' = Closed(S, status, resolve)
  BY <1>2, ClosedStep DEF Unwon
<1>3. CASE UNCHANGED job
  BY <1>3 DEF Unwon, Kept
<1>4. CASE Dispatch \/ Cancellation
  BY <1>2, <1>3, <1>4 DEF Dispatch, ApiDispatch, ReconcileDispatch, RecordDispatch,
     Cancellation, CancelTrigger, RetireCanceled, Acknowledge
<1>5. ASSUME NEW i \in Jobs, ReleaseCredits(i) PROVE Unwon(j)
  BY <1>5, ReleaseStep DEF ReleaseCredits, CreditSafe, TodoIsClosed
<1>6. CASE RejectSnapshot \/ AbortRun
  BY <1>2, <1>6 DEF RejectSnapshot, AbortRun
<1>7. CASE FailLost
  <2>1. parent.lost \in SUBSET Jobs
    BY DEF TypeOK, ParentRun
  <2> QED BY <1>2, <1>7, <2>1 DEF FailLost
<1>8. CASE SkipJobs
  BY <1>2, <1>8 DEF SkipJobs
<1>9. CASE \/ StartParent \/ RunLevel \/ CollectLevel \/ SkipItems \/ FinishParent \/ CloseRun
           \/ FinishDraining \/ CrashParent
  BY <1>3, <1>9 DEF StartParent, RunLevel, CollectLevel, SkipItems, FinishParent, CloseRun,
     FinishDraining, CrashParent
<1>10. CASE ClaimDispatched \/ SweepSummary \/ CrashSweep \/ \E i \in Jobs : StaleClaim(i)
  BY <1>3, <1>10 DEF ClaimDispatched, SweepSummary, CrashSweep, StaleClaim
<1>11. CASE FailOrphaned
  BY <1>2, <1>3, <1>11 DEF FailOrphaned
<1>12. ASSUME NEW i \in Jobs, NEW s \in {"settled", "unknown"}, job' = [job EXCEPT ![i].settlement = s]
       PROVE  Unwon(j)
  BY <1>0, <1>12 DEF Unwon, Kept, JobRow
<1>13. CASE StaleMark
  <2>1. sweep.job \in Jobs
    BY <1>13 DEF StaleMark, TypeOK, Sweep
  <2>2. job' = job \/ job' = [job EXCEPT ![sweep.job].settlement = "unknown"]
    BY <1>13 DEF StaleMark
  <2> QED BY <1>3, <1>12, <2>1, <2>2
<1>14. CASE StaleClose
  <2>1. sweep.job \in Jobs
    BY <1>14 DEF StaleClose, TypeOK, Sweep
  <2>2. \/ job' = job \/ job' = Closed({sweep.job}, "canceled", FALSE)
        \/ job[sweep.job].status = "running" /\ job' = [job EXCEPT ![sweep.job].status = "failed"]
    BY <1>14 DEF StaleClose
  <2>3. CASE job[sweep.job].status = "running" /\ job' = [job EXCEPT ![sweep.job].status = "failed"]
    BY <1>0, <2>1, <2>3 DEF Unwon, Kept, Ended, JobRow, JobActive, Active
  <2>4. {sweep.job} \in SUBSET Jobs
    BY <2>1
  <2> QED BY <1>2, <1>3, <2>2, <2>3, <2>4
<1>15. ASSUME NEW i \in Jobs, SettleCanceled(i) PROVE Unwon(j)
  BY <1>15, ReleaseStep DEF SettleCanceled
<1>16. ASSUME NEW i \in Jobs, SettleSweep(i) PROVE Unwon(j)
  <2>1. job[i].status # "succeeded" /\ ~JobActive(i)
    BY <1>16 DEF SettleSweep, CreditSafe, CaptureIffSucceeded
  <2>2. job' = [job EXCEPT ![i] = Settled(job[i], IF job[i].status = "succeeded"
                                                  THEN "captured" ELSE "released")]
    BY <1>16 DEF SettleSweep
  <2> QED BY <2>1, <2>2, ReleaseStep
<1>17. ASSUME NEW i \in Jobs, AccountCost(i) PROVE Unwon(j)
  BY <1>12, <1>17 DEF AccountCost
<1> QED BY <1>1, <1>4, <1>5, <1>6, <1>7, <1>8, <1>9, <1>10, <1>11, <1>13, <1>14, <1>15, <1>16, <1>17
        DEF Parent, Repair

LEMMA EveryEndStep == ASSUME TypeOK, CreditSafe, [Next]_vars, NEW j \in Jobs PROVE EndStep(j)
<1>1. CASE UNCHANGED vars
  BY <1>1 DEF vars, EndStep, Unwon, Kept
<1>2. ASSUME NEW i \in Jobs, Child(i) \/ CrashChild(i) PROVE EndStep(j)
  BY <1>2, ChildStartEndStep, ChildOutputEndStep, ChildErrorEndStep DEF Child
<1> QED BY <1>1, <1>2, OuterEndStep DEF Next, EndStep

\* A canceled run stays canceled.
LEMMA CanceledStays == ASSUME TypeInv, RunCanceled, [Next]_vars PROVE RunCanceled'
<1> USE DEF RunCanceled
<1>1. \A S, rows : Aggregate(S, rows) => run'.status = "canceled"
  BY DEF Aggregate, TypeInv, TypeOK, RunRow
<1>2. \A rows : AggregateRun(rows) => run'.status = "canceled"
  BY DEF AggregateRun
<1>3. CASE UNCHANGED run
  BY <1>3
<1>4. ASSUME NEW i \in Jobs, Child(i) \/ CrashChild(i) PROVE run'.status = "canceled"
  BY <1>1, <1>4
  DEF Child, CrashChild, ClaimJob, RejectRequest, ResumeJob, MarkSubmission, Submit,
      RecordSubmission, Poll, StageResult, AcceptResult, PersistOutput, IngestOutput,
      CompleteJob, ReportSuccess, ReadError, ResetMarker, CancelErred, SettleErred,
      FailErred, RetryErred
<1>5. CASE Parent \/ CrashParent
  BY <1>2, <1>5
  DEF Parent, CrashParent, StartParent, RejectSnapshot, RunLevel, CollectLevel, FailLost,
      ReleaseCredits, SkipJobs, SkipItems, FinishParent, AbortRun, CloseRun, FinishDraining,
      RunActive, Active
<1>6. CASE Dispatch \/ CancelRun \/ Cancellation
  BY <1>6 DEF Dispatch, ApiDispatch, ReconcileDispatch, RecordDispatch, CancelRun, Cancellation,
     CancelTrigger, RetireCanceled, Acknowledge, RunActive, Active, TypeInv, TypeOK, RunRow
<1>7. CASE \/ Repair \/ CrashSweep
           \/ \E i \in Jobs : StaleClaim(i) \/ SettleCanceled(i) \/ SettleSweep(i) \/ AccountCost(i)
  BY <1>2, <1>7 DEF Repair, CrashSweep, ClaimDispatched, FailOrphaned, StaleClaim, StaleMark,
     StaleClose, SweepSummary, SettleCanceled, SettleSweep, AccountCost
<1>8. CASE UNCHANGED vars
  BY <1>8 DEF vars
<1> QED BY <1>4, <1>5, <1>6, <1>7, <1>8 DEF Next

\* A closed job is never reopened.
LEMMA ClosedStays ==
  ASSUME TypeOK, NEW j \in Jobs, EndStep(j), ~JobActive(j) PROVE ~JobActive(j)'
BY DEF EndStep, Unwon, Kept, Ended, Won, Freed, JobActive

\* Steps that neither start nor end a list of credits to release.
LEMMA TodoStep ==
  ASSUME TypeOK, [Next]_vars
  PROVE  \/ parent'.todo \subseteq parent.todo /\ (parent'.pc \in {"rejecting", "closing"} => parent'.pc = parent.pc)
         \/ FailLost \/ SkipJobs \/ CloseRun \/ RejectSnapshot \/ AbortRun
<1> DEFINE Goal == /\ parent'.todo \subseteq parent.todo
                   /\ parent'.pc \in {"rejecting", "closing"} => parent'.pc = parent.pc
<1>0. parent \in ParentRun
  BY DEF TypeOK
<1>1. CASE UNCHANGED parent
  BY <1>1
<1>2. ASSUME NEW j \in Jobs, Child(j) \/ CrashChild(j) PROVE Goal
  BY <1>1, <1>2, ChildKeepsParent
<1>3. CASE \/ Repair \/ CrashSweep
           \/ \E j \in Jobs : StaleClaim(j) \/ SettleCanceled(j) \/ SettleSweep(j) \/ AccountCost(j)
  BY <1>1, <1>3, RepairKeepsParent
<1>4. CASE Dispatch \/ CancelRun \/ Cancellation
  <2>1. parent' = parent \/ parent' = [parent EXCEPT !.pc = "queued"] \/ parent' = EndedParent
    BY <1>4 DEF Dispatch, ApiDispatch, ReconcileDispatch, RecordDispatch, CancelRun,
       Cancellation, CancelTrigger, RetireCanceled, Acknowledge, EndedParent
  <2> QED BY <1>0, <2>1 DEF ParentRun, EndedParent
<1>5. ASSUME NEW j \in Jobs, ReleaseCredits(j) PROVE Goal
  BY <1>0, <1>5 DEF ReleaseCredits, ParentRun
<1>6. CASE StartParent \/ RunLevel \/ CollectLevel \/ SkipItems \/ FinishParent \/ FinishDraining
  <2>1. \/ parent' = EndedParent \/ parent' = NextLevel
        \/ parent' = [parent EXCEPT !.pc = "level", !.level = 1]
        \/ \E batch : parent' = [parent EXCEPT !.pc = "waiting", !.batch = batch]
        \/ \E lost : parent' = [parent EXCEPT !.pc = "failing", !.batch = {}, !.lost = lost]
    BY <1>6 DEF StartParent, RunLevel, CollectLevel, SkipItems, FinishParent, FinishDraining
  <2> QED BY <1>0, <2>1 DEF ParentRun, EndedParent, NextLevel
<1>7. CASE CrashParent
  <2>1. \/ parent' = EndedParent
        \/ parent' = [EndedParent EXCEPT !.pc = "aborting"]
        \/ parent' = [EndedParent EXCEPT !.pc = "queued", !.attempt = EndedParent.attempt + 1]
    BY <1>7 DEF CrashParent
  <2>2. EndedParent \in ParentRun /\ EndedParent.todo = {}
    BY <1>0, ParentType DEF EndedParent, ParentRun
  <2>3. parent'.todo = {} /\ parent'.pc \in {"ended", "aborting", "queued"}
    BY <2>1, <2>2, ParentType DEF ParentRun
  <2> QED BY <2>3
<1> QED BY <1>1, <1>2, <1>3, <1>4, <1>5, <1>6, <1>7 DEF Next, Parent, vars

LEMMA CreditInit == ASSUME Init PROVE CreditSafe
BY DEF Init, CreditSafe, CaptureIffSucceeded, OpenIsReserved, TodoIsClosed, LeavingIsQuiet

LEMMA CreditNext == ASSUME TypeInv, CreditSafe, [Next]_vars PROVE CreditSafe'
<1>0. TypeOK /\ TypeOK'
  BY TypeNext DEF TypeInv
<1>1. \A j \in Jobs : EndStep(j)
  BY <1>0, EveryEndStep
<1>2. \A j \in Jobs : job[j] \in JobRow /\ job'[j] \in JobRow
  BY <1>0 DEF TypeOK
<1>3. \A j \in Jobs : ~JobActive(j) => ~JobActive(j)'
  BY <1>0, <1>1, ClosedStays
<1>4. CaptureIffSucceeded'
  <2> SUFFICES ASSUME NEW j \in Jobs
               PROVE  job'[j].credit = "captured" <=> job'[j].status = "succeeded"
    BY DEF CaptureIffSucceeded
  <2>1. job[j].credit = "captured" <=> job[j].status = "succeeded"
    BY DEF CreditSafe, CaptureIffSucceeded
  <2>2. CASE Kept(j)
    BY <2>1, <2>2 DEF Kept, JobActive, Active
  <2>3. CASE Ended(j)
    BY <1>2, <2>1, <2>3 DEF Ended, Settled, JobActive, Active, JobRow
  <2>4. CASE Won(j)
    <3>1. job[j].credit = "reserved"
      BY <2>4 DEF Won, CreditSafe, OpenIsReserved
    <3> QED BY <1>2, <2>4, <3>1 DEF Won, Settled, JobRow
  <2>5. CASE Freed(j)
    BY <2>5 DEF Freed
  <2> QED BY <1>1, <2>2, <2>3, <2>4, <2>5 DEF EndStep, Unwon
<1>5. OpenIsReserved'
  <2> SUFFICES ASSUME NEW j \in Jobs, JobActive(j)', ~RunCanceled' PROVE job'[j].credit = "reserved"
    BY DEF OpenIsReserved
  <2>1. ~RunCanceled /\ JobActive(j)
    BY <1>3, CanceledStays
  <2>2. job[j].credit = "reserved"
    BY <2>1 DEF CreditSafe, OpenIsReserved
  <2>3. Kept(j)
    BY <1>1, <2>1 DEF EndStep, Unwon, Ended, Won, Freed, JobActive, Active
  <2> QED BY <2>2, <2>3 DEF Kept
<1>6. TodoIsClosed' /\ LeavingIsQuiet'
  <2>0. TodoIsClosed /\ LeavingIsQuiet /\ parent \in ParentRun
    BY <1>0 DEF CreditSafe, TypeOK
  <2>1. CASE /\ parent'.todo \subseteq parent.todo
             /\ parent'.pc \in {"rejecting", "closing"} => parent'.pc = parent.pc
    <3>1. parent.todo \in SUBSET Jobs
      BY <2>0 DEF ParentRun
    <3>2. TodoIsClosed'
      BY <1>3, <2>0, <2>1, <3>1 DEF TodoIsClosed
    <3>3. LeavingIsQuiet'
      BY <1>3, <2>0, <2>1 DEF LeavingIsQuiet
    <3> QED BY <3>2, <3>3
  <2>2. CASE FailLost
    <3>1. job' = Closed(parent.lost, "failed", FALSE) /\ parent.lost \in SUBSET Jobs
      BY <2>0, <2>2 DEF FailLost, ParentRun
    <3>2. parent'.todo = parent.lost /\ parent'.pc = "releasing"
      BY <2>0, <2>2 DEF FailLost, ParentRun
    <3>3. \A j \in parent.lost : ~JobActive(j)'
      BY <1>0, <3>1, ClosedStep
    <3> QED BY <3>2, <3>3 DEF TodoIsClosed, LeavingIsQuiet
  <2>3. CASE SkipJobs
    <3>1. PICK skipped \in SUBSET Jobs : /\ job' = Closed(skipped, "canceled", FALSE)
                                         /\ parent' = [parent EXCEPT !.pc = "skipping", !.todo = skipped]
      BY <2>3 DEF SkipJobs
    <3>2. parent'.todo = skipped /\ parent'.pc = "skipping"
      BY <2>0, <3>1 DEF ParentRun
    <3>3. \A j \in skipped : ~JobActive(j)'
      BY <1>0, <3>1, ClosedStep
    <3> QED BY <3>2, <3>3 DEF TodoIsClosed, LeavingIsQuiet
  <2>4. CASE CloseRun
    <3>1. parent.pc \in {"rejecting", "closing"} /\ UNCHANGED job
      BY <2>4 DEF CloseRun
    <3>2. PICK held \in SUBSET Jobs : parent' = [parent EXCEPT !.pc = "draining", !.todo = held]
      BY <2>4 DEF CloseRun
    <3>3. parent'.todo = held /\ parent'.pc = "draining"
      BY <2>0, <3>2 DEF ParentRun
    <3>4. \A j \in Jobs : ~JobActive(j)'
      BY <1>3, <2>0, <3>1 DEF LeavingIsQuiet
    <3> QED BY <3>3, <3>4 DEF TodoIsClosed, LeavingIsQuiet
  <2>5. CASE RejectSnapshot \/ AbortRun
    <3>1. job' = Closed(Jobs, "failed", FALSE)
      BY <2>5 DEF RejectSnapshot, AbortRun
    <3>2. \A j \in Jobs : ~JobActive(j)'
      BY <1>0, <3>1, ClosedStep
    <3>3. parent' \in ParentRun
      BY <1>0 DEF TypeOK
    <3> QED BY <3>2, <3>3 DEF TodoIsClosed, LeavingIsQuiet, ParentRun
  <2> QED BY <1>0, <2>1, <2>2, <2>3, <2>4, <2>5, TodoStep
<1> QED BY <1>4, <1>5, <1>6 DEF CreditSafe

\* Customers pay exactly for the jobs that succeeded: of all the transactions
\* that end a job or settle its credits, no interleaving captures a job that
\* did not succeed or releases one that did.
THEOREM CaptureCorrect == Spec => []CaptureIffSucceeded
<1>1. Init => TypeInv /\ CreditSafe
  BY TypeInit, CreditInit
<1>2. TypeInv /\ CreditSafe /\ [Next]_vars => (TypeInv /\ CreditSafe)'
  BY TypeNext, CreditNext
<1>3. CreditSafe => CaptureIffSucceeded
  BY DEF CreditSafe
<1> QED BY <1>1, <1>2, <1>3, PTL DEF Spec

\* A finished job keeps its outcome, whatever stale error handlers and
\* reconcilers still write.
THEOREM OutcomeCorrect == Spec => JobOutcomeFinal
<1>1. Init => TypeInv /\ CreditSafe
  BY TypeInit, CreditInit
<1>2. TypeInv /\ CreditSafe /\ [Next]_vars => (TypeInv /\ CreditSafe)'
  BY TypeNext, CreditNext
<1>3. TypeInv /\ CreditSafe /\ [Next]_vars =>
        [\A j \in Jobs : job[j].status \in Final => job'[j].status = job[j].status]_vars
  BY EveryEndStep DEF TypeInv, EndStep, Unwon, Kept, Ended, Won, Freed, JobActive, Active, Final
<1> QED BY <1>1, <1>2, <1>3, PTL DEF Spec, JobOutcomeFinal

-----------------------------------------------------------------------------
(* Paid at most once.  The marker in the job row and the position of the   *)
(* child task together bound the executions the provider has started.      *)

Paid == {"accepted", "polling", "completed", "answered", "output", "ingest", "committing"}
Handling == {"erred", "resetting", "deciding"}

JobSpend(j) ==
  /\ job[j].submitted => job[j].settlement # "not_required"
  /\ accepted[j] <= 1
  /\ accepted[j] > 0 => job[j].submitted
  /\ job[j].ext => accepted[j] = 1
  /\ job[j].staged => accepted[j] = 1
  /\ child[j].pc = "marked" => job[j].submitted /\ accepted[j] = 0
  /\ child[j].pc \in Paid => accepted[j] = 1
  /\ child[j].pc = "polling" => job[j].ext
  /\ child[j].pc \in Handling /\ child[j].err \in {"refused", "rejected"} =>
       accepted[j] = 0 \/ job[j].ext
SpendSafe == \A j \in Jobs : JobSpend(j)

\* What most steps leave alone of one job.
SameFacts(j) ==
  /\ accepted'[j] = accepted[j]
  /\ job'[j].submitted = job[j].submitted
  /\ job'[j].ext = job[j].ext /\ job'[j].staged = job[j].staged
  /\ job[j].submitted /\ job[j].settlement # "not_required" =>
       job'[j].settlement # "not_required"

\* Leaving the facts alone is safe while the task stays where it is, moves on
\* among the places after the paid call, or goes where nothing is known.
LEMMA SpendQuiet ==
  ASSUME TypeOK, NEW j \in Jobs, JobSpend(j), SameFacts(j),
         \/ child'[j].pc = child[j].pc /\ child'[j].err = child[j].err
         \/ child'[j].pc \in {"none", "queued", "loaded", "ready", "done", "failing", "ended"}
         \/ child[j].pc \in Paid /\ child'[j].pc \in Paid \ {"polling"}
         \/ child'[j].pc = "erred" /\ child'[j].err \notin {"refused", "rejected"}
         \/ /\ child[j].pc \in Handling /\ child'[j].pc \in Handling
            /\ child'[j].err = child[j].err
  PROVE  JobSpend(j)'
<1>1. accepted[j] \in Nat
  BY DEF TypeOK
<1>2. job'[j].submitted => job'[j].settlement # "not_required"
  BY DEF JobSpend, SameFacts
<1> QED BY <1>1, <1>2 DEF JobSpend, SameFacts, Paid, Handling

\* A step of one child leaves the other jobs alone.
LEMMA ChildKeepsOthers ==
  ASSUME TypeOK, NEW i \in Jobs, Child(i) \/ CrashChild(i), NEW j \in Jobs, j # i
  PROVE  job'[j] = job[j] /\ child'[j] = child[j] /\ accepted'[j] = accepted[j]
<1> USE DEF TypeOK, Goto, Throw, Return, RequeueChild
<1>0. \A status, resolve : Closed({i}, status, resolve)[j] = job[j]
  BY DEF Closed
<1>1. CASE \/ ClaimJob(i) \/ RejectRequest(i) \/ ResumeJob(i) \/ MarkSubmission(i) \/ Submit(i)
  BY <1>1 DEF ClaimJob, RejectRequest, ResumeJob, MarkSubmission, Submit
<1>2. CASE RecordSubmission(i) \/ Poll(i) \/ StageResult(i) \/ IngestOutput(i) \/ ReportSuccess(i)
  BY <1>2 DEF RecordSubmission, Poll, StageResult, IngestOutput, ReportSuccess
<1>3. CASE AcceptResult(i)
  BY <1>3 DEF AcceptResult
<1>4. CASE PersistOutput(i)
  <2>1. job' = job \/ job' = Closed({i}, "canceled", FALSE)
    BY <1>4 DEF PersistOutput
  <2>2. child'[j] = child[j] /\ accepted' = accepted
    BY <1>4 DEF PersistOutput
  <2> QED BY <1>0, <2>1, <2>2
<1>5. CASE CompleteJob(i)
  BY <1>5 DEF CompleteJob
<1>6. CASE ReadError(i) \/ ResetMarker(i) \/ SettleErred(i) \/ RetryErred(i) \/ CrashChild(i)
  BY <1>6 DEF ReadError, ResetMarker, SettleErred, RetryErred, CrashChild
<1>7. CASE CancelErred(i) \/ FailErred(i)
  <2> DEFINE row == Settled([job[i] EXCEPT !.status = "failed"], "released")
  <2>1. job' = job \/ job' = Closed({i}, "canceled", FALSE) \/ job' = [job EXCEPT ![i] = row]
    BY <1>7 DEF CancelErred, FailErred
  <2>2. child'[j] = child[j] /\ accepted' = accepted
    BY <1>7 DEF CancelErred, FailErred
  <2>3. [job EXCEPT ![i] = row][j] = job[j]
    BY DEF TypeOK
  <2> HIDE DEF row
  <2>4. job'[j] = job[j]
    BY <1>0, <2>1, <2>3
  <2> QED BY <2>2, <2>4
<1> QED BY <1>1, <1>2, <1>3, <1>4, <1>5, <1>6, <1>7 DEF Child

\* Where a step of the child leaves the task.
LEMMA ChildMoves ==
  ASSUME TypeOK, NEW j \in Jobs
  PROVE  /\ \A pc : Goto(j, pc) => child'[j].pc = pc /\ child'[j].err = child[j].err
         /\ \A kind : Throw(j, kind) => child'[j].pc = "erred" /\ child'[j].err = kind
         /\ \A ok : Return(j, ok) => child'[j].pc = "ended"
         /\ RequeueChild(j) => child'[j].pc = "queued"
<1>0. child[j] \in ChildRun /\ child \in [Jobs -> ChildRun]
  BY DEF TypeOK
<1>1. ASSUME NEW pc, Goto(j, pc) PROVE child'[j].pc = pc /\ child'[j].err = child[j].err
  BY <1>0, <1>1 DEF Goto, ChildRun
<1>2. ASSUME NEW kind, Throw(j, kind) PROVE child'[j].pc = "erred" /\ child'[j].err = kind
  <2>1. child'[j] = [child[j] EXCEPT !.pc = "erred", !.err = kind]
    BY <1>0, <1>2 DEF Throw
  <2> QED BY <1>0, <2>1 DEF ChildRun
<1>3. ASSUME NEW ok, Return(j, ok) PROVE child'[j].pc = "ended"
  <2>1. child'[j] = [child[j] EXCEPT !.pc = "ended", !.ok = ok, !.err = "none", !.seen = Unseen]
    BY <1>0, <1>3 DEF Return
  <2> QED BY <1>0, <2>1 DEF ChildRun
<1>4. ASSUME RequeueChild(j) PROVE child'[j].pc = "queued"
  <2>1. child'[j] = [child[j] EXCEPT !.pc = "queued", !.attempt = child[j].attempt + 1,
                                     !.err = "none", !.seen = Unseen]
    BY <1>0, <1>4 DEF RequeueChild
  <2> QED BY <1>0, <2>1 DEF ChildRun
<1> QED BY <1>1, <1>2, <1>3, <1>4

\* The facts of a job after a write of its status, credits or settlement.
LEMMA SettledFacts ==
  ASSUME TypeOK, NEW j \in Jobs, accepted' = accepted,
         \/ UNCHANGED job
         \/ \E outcome \in {"captured", "released"} : job' = [job EXCEPT ![j] = Settled(job[j], outcome)]
         \/ \E status \in Final : \E outcome \in {"captured", "released"} :
              job' = [job EXCEPT ![j] = Settled([job[j] EXCEPT !.status = status], outcome)]
         \/ \E status \in Active \cup Final : job' = [job EXCEPT ![j].status = status]
         \/ \E s \in {"settled", "unknown"} : job' = [job EXCEPT ![j].settlement = s]
         \/ \E S \in SUBSET Jobs : \E status \in {"failed", "canceled"} : \E resolve \in BOOLEAN :
              job' = Closed(S, status, resolve)
  PROVE  SameFacts(j)
<1>0. job \in [Jobs -> JobRow] /\ job[j] \in JobRow
  BY DEF TypeOK
<1>1. CASE UNCHANGED job
  BY <1>1 DEF SameFacts
<1>2. CASE \E outcome \in {"captured", "released"} : job' = [job EXCEPT ![j] = Settled(job[j], outcome)]
  <2>1. PICK outcome \in {"captured", "released"} : job'[j] = Settled(job[j], outcome)
    BY <1>0, <1>2
  <2> QED BY <1>0, <2>1 DEF SameFacts, Settled, JobRow
<1>3. CASE \E status \in Final : \E outcome \in {"captured", "released"} :
              job' = [job EXCEPT ![j] = Settled([job[j] EXCEPT !.status = status], outcome)]
  BY <1>3, EndStepSettle DEF SameFacts
<1>4. CASE \E status \in Active \cup Final : job' = [job EXCEPT ![j].status = status]
  BY <1>0, <1>4 DEF SameFacts, JobRow
<1>5. CASE \E s \in {"settled", "unknown"} : job' = [job EXCEPT ![j].settlement = s]
  BY <1>0, <1>5 DEF SameFacts, JobRow
<1>6. CASE \E S \in SUBSET Jobs : \E status \in {"failed", "canceled"} : \E resolve \in BOOLEAN :
              job' = Closed(S, status, resolve)
  BY <1>6, ClosedStep DEF SameFacts
<1> QED BY <1>1, <1>2, <1>3, <1>4, <1>5, <1>6

\* Up to the recorded submission: the marker precedes the paid call, and the
\* external id is written only by the task that made the call.
LEMMA SpendSubmission ==
  ASSUME TypeOK, NEW i \in Jobs, JobSpend(i),
         \/ ClaimJob(i) \/ RejectRequest(i) \/ ResumeJob(i) \/ MarkSubmission(i)
         \/ Submit(i) \/ RecordSubmission(i) \/ Poll(i) \/ StageResult(i)
  PROVE  JobSpend(i)'
<1>0. job \in [Jobs -> JobRow] /\ job[i] \in JobRow /\ accepted[i] \in Nat
  BY DEF TypeOK
<1>1. CASE ClaimJob(i)
  <2>1. SameFacts(i)
    <3>1. \/ UNCHANGED job \/ job' = [job EXCEPT ![i] = Settled(job[i], "captured")]
          \/ job' = [job EXCEPT ![i].status = "running"]
      BY <1>1 DEF ClaimJob
    <3> QED BY <1>1, <3>1, SettledFacts DEF ClaimJob, Active
  <2>2. child'[i].pc \in {"loaded", "ended"}
    BY <1>1, ChildMoves DEF ClaimJob
  <2> QED BY <2>1, <2>2, SpendQuiet
<1>2. CASE RejectRequest(i)
  <2>1. SameFacts(i)
    <3>1. \/ UNCHANGED job
          \/ job' = [job EXCEPT ![i] = Settled([job[i] EXCEPT !.status = "failed"], "released")]
      BY <1>2 DEF RejectRequest
    <3> QED BY <1>2, <3>1, SettledFacts DEF RejectRequest, Final
  <2>2. child'[i].pc = "ended"
    BY <1>2, ChildMoves DEF RejectRequest
  <2> QED BY <2>1, <2>2, SpendQuiet
<1>3. CASE ResumeJob(i)
  <2>1. UNCHANGED job /\ UNCHANGED accepted
    BY <1>3 DEF ResumeJob
  <2>2. \/ child'[i].pc = "erred" /\ child'[i].err \notin {"refused", "rejected"}
        \/ child'[i].pc = "answered" /\ job[i].staged
        \/ child'[i].pc = "polling" /\ job[i].ext
        \/ child'[i].pc = "ready"
    BY <1>3, ChildMoves DEF ResumeJob
  <2> QED BY <2>1, <2>2 DEF JobSpend, Paid, Handling
<1>4. CASE MarkSubmission(i)
  <2>1. CASE UNCHANGED job /\ Throw(i, "retry")
    <3>1. SameFacts(i)
      BY <1>4, <2>1 DEF MarkSubmission, SameFacts
    <3>2. child'[i].pc = "erred" /\ child'[i].err \notin {"refused", "rejected"}
      BY <2>1, ChildMoves
    <3> QED BY <3>1, <3>2, SpendQuiet
  <2>2. CASE /\ ~job[i].submitted /\ Goto(i, "marked")
             /\ job' = [job EXCEPT ![i] = [job[i] EXCEPT !.submitted = TRUE, !.settlement = "pending"]]
    <3>1. job'[i] = [job[i] EXCEPT !.submitted = TRUE, !.settlement = "pending"]
      BY <1>0, <2>2
    <3>2. /\ job'[i].submitted /\ job'[i].settlement = "pending"
          /\ job'[i].ext = job[i].ext /\ job'[i].staged = job[i].staged
      BY <1>0, <3>1 DEF JobRow
    <3>3. child'[i].pc = "marked" /\ accepted' = accepted
      BY <1>4, <2>2, ChildMoves DEF MarkSubmission
    <3>4. accepted[i] = 0
      BY <1>0, <2>2 DEF JobSpend
    <3> QED BY <3>2, <3>3, <3>4 DEF JobSpend, Paid, Handling
  <2> QED BY <1>4, <2>1, <2>2 DEF MarkSubmission
<1>5. CASE Submit(i)
  <2>1. UNCHANGED job /\ job[i].submitted /\ accepted[i] = 0 /\ job[i].settlement # "not_required"
    BY <1>5 DEF Submit, JobSpend
  <2>2. CASE /\ accepted' = [accepted EXCEPT ![i] = accepted[i] + 1]
             /\ Goto(i, "accepted") \/ Throw(i, "retry") \/ Throw(i, "fatal")
    <3>1. accepted'[i] = 1
      BY <2>1, <2>2 DEF TypeOK
    <3>2. \/ child'[i].pc = "accepted"
          \/ child'[i].pc = "erred" /\ child'[i].err \notin {"refused", "rejected"}
      BY <2>2, ChildMoves
    <3> QED BY <2>1, <3>1, <3>2 DEF JobSpend, Paid, Handling
  <2>3. CASE (Throw(i, "refused") \/ Throw(i, "rejected")) /\ UNCHANGED accepted
    <3>1. child'[i].pc = "erred"
      BY <2>3, ChildMoves
    <3> QED BY <2>1, <2>3, <3>1 DEF JobSpend, Paid, Handling
  <2> QED BY <1>5, <2>2, <2>3 DEF Submit
<1>6. CASE RecordSubmission(i)
  <2>0. accepted[i] = 1
    BY <1>6 DEF RecordSubmission, JobSpend, Paid
  <2>1. CASE UNCHANGED job /\ Throw(i, "retry")
    <3>1. SameFacts(i)
      BY <1>6, <2>1 DEF RecordSubmission, SameFacts
    <3>2. child'[i].pc = "erred" /\ child'[i].err \notin {"refused", "rejected"}
      BY <2>1, ChildMoves
    <3> QED BY <3>1, <3>2, SpendQuiet
  <2>2. CASE job' = [job EXCEPT ![i].ext = TRUE] /\ Goto(i, "polling")
    <3>1. /\ job'[i].ext /\ job'[i].submitted = job[i].submitted
          /\ job'[i].settlement = job[i].settlement /\ job'[i].staged = job[i].staged
      BY <1>0, <2>2 DEF JobRow
    <3>2. child'[i].pc = "polling" /\ accepted' = accepted
      BY <1>6, <2>2, ChildMoves DEF RecordSubmission
    <3> QED BY <2>0, <3>1, <3>2 DEF JobSpend, Paid, Handling
  <2> QED BY <1>6, <2>1, <2>2 DEF RecordSubmission
<1>7. CASE Poll(i)
  <2>1. UNCHANGED job /\ UNCHANGED accepted /\ job[i].ext /\ accepted[i] = 1
    BY <1>7 DEF Poll, JobSpend, Paid
  <2>2. child'[i].pc \in {"completed", "erred"}
    BY <1>7, ChildMoves DEF Poll
  <2> QED BY <2>1, <2>2 DEF JobSpend, Paid, Handling
<1>8. CASE StageResult(i)
  <2>0. accepted[i] = 1 /\ accepted' = accepted
    BY <1>8 DEF StageResult, JobSpend, Paid
  <2>1. CASE UNCHANGED job /\ Throw(i, "retry")
    <3>1. SameFacts(i)
      BY <2>0, <2>1 DEF SameFacts
    <3>2. child'[i].pc = "erred" /\ child'[i].err \notin {"refused", "rejected"}
      BY <2>1, ChildMoves
    <3> QED BY <3>1, <3>2, SpendQuiet
  <2>2. ASSUME NEW s \in {"settled", "pending", "unknown"}, Goto(i, "answered"),
               job' = [job EXCEPT ![i] = [job[i] EXCEPT !.staged = TRUE, !.settlement = s]]
        PROVE  JobSpend(i)'
    <3>1. job'[i] = [job[i] EXCEPT !.staged = TRUE, !.settlement = s]
      BY <1>0, <2>2
    <3>2. /\ job'[i].submitted = job[i].submitted /\ job'[i].ext = job[i].ext
          /\ job'[i].settlement = s
      BY <1>0, <3>1 DEF JobRow
    <3>3. child'[i].pc = "answered"
      BY <2>2, ChildMoves
    <3> QED BY <2>0, <3>2, <3>3 DEF JobSpend, Paid, Handling
  <2> QED BY <1>8, <2>1, <2>2 DEF StageResult
<1> QED BY <1>1, <1>2, <1>3, <1>4, <1>5, <1>6, <1>7, <1>8

\* From the result to the committed outcome nothing about the call changes.
LEMMA SpendOutput ==
  ASSUME TypeOK, NEW i \in Jobs, JobSpend(i),
         \/ AcceptResult(i) \/ PersistOutput(i) \/ IngestOutput(i)
         \/ CompleteJob(i) \/ ReportSuccess(i)
  PROVE  JobSpend(i)'
<1>0. job \in [Jobs -> JobRow] /\ job[i] \in JobRow
  BY DEF TypeOK
<1>1. CASE AcceptResult(i)
  <2>1. PICK costKnown \in BOOLEAN :
          LET facts == IF costKnown /\ job[i].status = "running"
                       THEN [job EXCEPT ![i].settlement = "settled"] ELSE job
          IN job' = IF RunCanceled /\ JobActive(i)
                    THEN [facts EXCEPT ![i].status = "canceled"] ELSE facts
    BY <1>1 DEF AcceptResult
  <2> DEFINE facts == IF costKnown /\ job[i].status = "running"
                      THEN [job EXCEPT ![i].settlement = "settled"] ELSE job
  <2>2. /\ facts \in [Jobs -> JobRow]
        /\ facts[i].submitted = job[i].submitted /\ facts[i].ext = job[i].ext
        /\ facts[i].staged = job[i].staged
        /\ facts[i].settlement \in {job[i].settlement, "settled"}
    BY <1>0 DEF JobRow
  <2>3. job' = facts \/ job' = [facts EXCEPT ![i].status = "canceled"]
    BY <2>1
  <2> HIDE DEF facts
  <2>4. /\ job'[i].submitted = facts[i].submitted /\ job'[i].ext = facts[i].ext
        /\ job'[i].staged = facts[i].staged /\ job'[i].settlement = facts[i].settlement
    BY <2>2, <2>3 DEF JobRow
  <2>5. SameFacts(i)
    BY <1>1, <2>2, <2>4 DEF SameFacts, AcceptResult
  <2>6. child[i].pc = "answered" /\ child'[i].pc \in {"ended", "output"}
    BY <1>1, ChildMoves DEF AcceptResult
  <2> QED BY <2>5, <2>6, SpendQuiet DEF Paid
<1>2. CASE PersistOutput(i)
  <2>1. job' = job \/ job' = Closed({i}, "canceled", FALSE)
    BY <1>2 DEF PersistOutput
  <2>2. SameFacts(i)
    BY <1>2, <2>1, SettledFacts DEF PersistOutput
  <2>3. child[i].pc = "output" /\ child'[i].pc \in {"ended", "ingest"}
    BY <1>2, ChildMoves DEF PersistOutput
  <2> QED BY <2>2, <2>3, SpendQuiet DEF Paid
<1>3. CASE IngestOutput(i)
  <2>1. SameFacts(i)
    BY <1>3 DEF IngestOutput, SameFacts
  <2>2. child[i].pc = "ingest" /\ (Goto(i, "committing") \/ Throw(i, "retry"))
    BY <1>3 DEF IngestOutput
  <2>3. \/ child'[i].pc = "committing"
        \/ child'[i].pc = "erred" /\ child'[i].err \notin {"refused", "rejected"}
    BY <2>2, ChildMoves
  <2> QED BY <2>1, <2>2, <2>3, SpendQuiet DEF Paid
<1>4. CASE CompleteJob(i)
  <2>1. \/ UNCHANGED job \/ job' = [job EXCEPT ![i] = Settled(job[i], "captured")]
        \/ job' = [job EXCEPT ![i] = Settled([job[i] EXCEPT !.status = "succeeded"], "captured")]
        \/ job' = [job EXCEPT ![i] = Settled([job[i] EXCEPT !.status = "canceled"], "released")]
    BY <1>4 DEF CompleteJob
  <2>2. SameFacts(i)
    BY <1>4, <2>1, SettledFacts DEF CompleteJob, Final
  <2>3. child'[i].pc \in {"done", "ended"}
    BY <1>4, ChildMoves DEF CompleteJob
  <2> QED BY <2>2, <2>3, SpendQuiet
<1>5. CASE ReportSuccess(i)
  <2>1. SameFacts(i)
    BY <1>5 DEF ReportSuccess, SameFacts
  <2>2. child'[i].pc = "ended"
    BY <1>5, ChildMoves DEF ReportSuccess
  <2> QED BY <2>1, <2>2, SpendQuiet
<1> QED BY <1>1, <1>2, <1>3, <1>4, <1>5

\* The reset of the marker is the only step that forgets a submission; it needs
\* a refusal in hand, so nothing was accepted.
LEMMA ResetUnspent ==
  ASSUME TypeOK, NEW i \in Jobs, JobSpend(i), ResetMarker(i)
  PROVE  /\ accepted' = accepted /\ child'[i].pc = "deciding" /\ child'[i].err = child[i].err
         /\ \/ UNCHANGED job
            \/ /\ accepted[i] = 0 /\ ~job[i].ext
               /\ ~job'[i].submitted /\ ~job'[i].ext /\ job'[i].staged = job[i].staged
<1>0. job \in [Jobs -> JobRow] /\ job[i] \in JobRow
  BY DEF TypeOK
<1>1. accepted' = accepted /\ child'[i].pc = "deciding" /\ child'[i].err = child[i].err
  BY ChildMoves DEF ResetMarker
<1>2. CASE /\ SafeToResubmit(i) /\ ~job[i].ext
           /\ job' = [job EXCEPT ![i] = [job[i] EXCEPT !.submitted = FALSE,
                                                      !.settlement = "not_required"]]
  <2>1. job'[i] = [job[i] EXCEPT !.submitted = FALSE, !.settlement = "not_required"]
    BY <1>0, <1>2
  <2>2. ~job'[i].submitted /\ job'[i].ext = job[i].ext /\ job'[i].staged = job[i].staged
    BY <1>0, <2>1 DEF JobRow
  <2>3. accepted[i] = 0
    BY <1>2 DEF SafeToResubmit, JobSpend, Handling, ResetMarker
  <2> QED BY <1>1, <1>2, <2>2, <2>3
<1> QED BY <1>1, <1>2 DEF ResetMarker

LEMMA SpendError ==
  ASSUME TypeOK, NEW i \in Jobs, JobSpend(i),
         \/ ReadError(i) \/ ResetMarker(i) \/ CancelErred(i) \/ SettleErred(i)
         \/ FailErred(i) \/ RetryErred(i) \/ CrashChild(i)
  PROVE  JobSpend(i)'
<1>1. CASE ReadError(i)
  <2>1. SameFacts(i)
    BY <1>1 DEF ReadError, SameFacts
  <2>2. PICK seen : child' = [child EXCEPT ![i] = [child[i] EXCEPT !.pc = "resetting", !.seen = seen]]
    BY <1>1 DEF ReadError
  <2>3. child'[i].pc = "resetting" /\ child'[i].err = child[i].err
    BY <2>2 DEF TypeOK, ChildRun
  <2>4. child[i].pc = "erred"
    BY <1>1 DEF ReadError
  <2> QED BY <2>1, <2>3, <2>4, SpendQuiet DEF Handling
<1>2. CASE ResetMarker(i)
  <2>1. CASE UNCHANGED job
    <3>1. SameFacts(i) /\ child'[i].pc = "deciding" /\ child'[i].err = child[i].err
      BY <1>2, <2>1, ResetUnspent DEF SameFacts
    <3>2. child[i].pc = "resetting"
      BY <1>2 DEF ResetMarker
    <3> QED BY <3>1, <3>2, SpendQuiet DEF Handling
  <2>2. CASE ~UNCHANGED job
    BY <1>2, <2>2, ResetUnspent DEF JobSpend, Paid, Handling
  <2> QED BY <2>1, <2>2
<1>3. CASE CancelErred(i)
  <2>1. job' = Closed({i}, "canceled", FALSE) /\ accepted' = accepted
    BY <1>3 DEF CancelErred
  <2>2. child'[i].pc = "ended"
    BY <1>3, ChildMoves DEF CancelErred
  <2> QED BY <2>1, <2>2, SettledFacts, SpendQuiet
<1>4. CASE SettleErred(i)
  <2>1. job' = job \/ \E s \in {"settled", "unknown"} : job' = [job EXCEPT ![i].settlement = s]
    BY <1>4 DEF SettleErred
  <2>2. accepted' = accepted /\ child'[i].pc = "failing"
    BY <1>4, ChildMoves DEF SettleErred
  <2> QED BY <2>1, <2>2, SettledFacts, SpendQuiet
<1>5. CASE FailErred(i)
  <2>1. \/ UNCHANGED job \/ job' = Closed({i}, "canceled", FALSE)
        \/ job' = [job EXCEPT ![i] = Settled([job[i] EXCEPT !.status = "failed"], "released")]
    BY <1>5 DEF FailErred
  <2>2. accepted' = accepted /\ child'[i].pc = "ended"
    BY <1>5, ChildMoves DEF FailErred
  <2>3. "failed" \in Final
    BY DEF Final
  <2>4. SameFacts(i)
    BY <2>1, <2>2, <2>3, SettledFacts
  <2> QED BY <2>2, <2>4, SpendQuiet
<1>6. CASE RetryErred(i)
  <2>1. job' = job \/ job' = [job EXCEPT ![i].status = "pending"]
    BY <1>6 DEF RetryErred
  <2>2. accepted' = accepted /\ child'[i].pc = "queued"
    BY <1>6, ChildMoves DEF RetryErred
  <2>3. "pending" \in Active
    BY DEF Active
  <2>4. SameFacts(i)
    BY <2>1, <2>2, <2>3, SettledFacts
  <2> QED BY <2>2, <2>4, SpendQuiet
<1>7. CASE CrashChild(i)
  <2>1. SameFacts(i)
    BY <1>7 DEF CrashChild, SameFacts
  <2>2. child'[i].pc \in {"queued", "ended"}
    BY <1>7, ChildMoves DEF CrashChild
  <2> QED BY <2>1, <2>2, SpendQuiet
<1> QED BY <1>1, <1>2, <1>3, <1>4, <1>5, <1>6, <1>7

\* Cancellation, the parent and the reconcilers call no provider and take no
\* marker back, whichever job they write.
LEMMA OuterFacts ==
  ASSUME TypeOK, CreditSafe, NEW j \in Jobs,
         \/ Dispatch \/ CancelRun \/ Cancellation \/ Parent \/ CrashParent \/ Repair \/ CrashSweep
         \/ \E i \in Jobs : StaleClaim(i) \/ SettleCanceled(i) \/ SettleSweep(i) \/ AccountCost(i)
  PROVE  SameFacts(j)
<1>0. job \in [Jobs -> JobRow] /\ job[j] \in JobRow
  BY DEF TypeOK
<1>1. accepted' = accepted
  BY RepairKeepsParent
  DEF Dispatch, ApiDispatch, ReconcileDispatch, RecordDispatch, CancelRun, Cancellation,
      CancelTrigger, RetireCanceled, Acknowledge, Parent, CrashParent, StartParent,
      RejectSnapshot, RunLevel, CollectLevel, FailLost, ReleaseCredits, SkipJobs, SkipItems,
      FinishParent, AbortRun, CloseRun, FinishDraining
<1>2. CASE UNCHANGED job
  BY <1>1, <1>2 DEF SameFacts
<1>3. CASE \E S \in SUBSET Jobs : \E status \in {"failed", "canceled"} : \E resolve \in BOOLEAN :
             job' = Closed(S, status, resolve)
  BY <1>1, <1>3, SettledFacts
<1>4. ASSUME NEW i \in Jobs,
             \/ \E outcome \in {"captured", "released"} : job' = [job EXCEPT ![i] = Settled(job[i], outcome)]
             \/ \E s \in {"settled", "unknown"} : job' = [job EXCEPT ![i].settlement = s]
             \/ job' = [job EXCEPT ![i].status = "failed"]
      PROVE  SameFacts(j)
  <2>1. CASE i = j
    BY <1>1, <1>4, <2>1, SettledFacts DEF Final
  <2>2. CASE i # j
    <3>1. job'[j] = job[j]
      BY <1>0, <1>4, <2>2
    <3> QED BY <1>1, <3>1 DEF SameFacts
  <2> QED BY <2>1, <2>2
<1>5. CASE CancelRun
  BY <1>1, <1>5, CancelRunStep DEF SameFacts
<1>6. CASE Dispatch \/ Cancellation
  BY <1>2, <1>3, <1>6 DEF Dispatch, ApiDispatch, ReconcileDispatch, RecordDispatch,
     Cancellation, CancelTrigger, RetireCanceled, Acknowledge
<1>7. CASE RejectSnapshot \/ AbortRun
  BY <1>3, <1>7 DEF RejectSnapshot, AbortRun
<1>8. CASE FailLost
  <2>1. parent.lost \in SUBSET Jobs
    BY DEF TypeOK, ParentRun
  <2> QED BY <1>3, <1>8, <2>1 DEF FailLost
<1>9. CASE SkipJobs
  BY <1>3, <1>9 DEF SkipJobs
<1>10. CASE \/ StartParent \/ RunLevel \/ CollectLevel \/ SkipItems \/ FinishParent \/ CloseRun
            \/ FinishDraining \/ CrashParent
  BY <1>2, <1>10 DEF StartParent, RunLevel, CollectLevel, SkipItems, FinishParent, CloseRun,
     FinishDraining, CrashParent
<1>11. CASE \E i \in Jobs : ReleaseCredits(i)
  BY <1>4, <1>11 DEF ReleaseCredits
<1>12. CASE ClaimDispatched \/ SweepSummary \/ CrashSweep \/ \E i \in Jobs : StaleClaim(i)
  BY <1>2, <1>12 DEF ClaimDispatched, SweepSummary, CrashSweep, StaleClaim
<1>13. CASE FailOrphaned
  BY <1>2, <1>3, <1>13 DEF FailOrphaned
<1>14. CASE StaleMark \/ StaleClose
  <2>1. sweep.job \in Jobs /\ {sweep.job} \in SUBSET Jobs
    BY <1>14 DEF StaleMark, StaleClose, TypeOK, Sweep
  <2>2. \/ job' = job \/ job' = [job EXCEPT ![sweep.job].settlement = "unknown"]
        \/ job' = Closed({sweep.job}, "canceled", FALSE)
        \/ job' = [job EXCEPT ![sweep.job].status = "failed"]
    BY <1>14 DEF StaleMark, StaleClose
  <2> QED BY <1>2, <1>3, <1>4, <2>1, <2>2
<1>15. ASSUME NEW i \in Jobs, SettleCanceled(i) \/ SettleSweep(i) \/ AccountCost(i) PROVE SameFacts(j)
  <2>1. CASE SettleCanceled(i)
    BY <1>4, <2>1 DEF SettleCanceled
  <2>2. CASE SettleSweep(i)
    <3>1. job' = [job EXCEPT ![i] = Settled(job[i], IF job[i].status = "succeeded"
                                                    THEN "captured" ELSE "released")]
      BY <2>2 DEF SettleSweep
    <3> QED BY <1>4, <3>1
  <2>3. CASE AccountCost(i)
    BY <1>4, <2>3 DEF AccountCost
  <2> QED BY <1>15, <2>1, <2>2, <2>3
<1> QED BY <1>5, <1>6, <1>7, <1>8, <1>9, <1>10, <1>11, <1>12, <1>13, <1>14, <1>15
        DEF Parent, Repair

\* They queue a child, end it, or leave it where it is.
LEMMA OuterChild ==
  ASSUME TypeOK, NEW j \in Jobs,
         \/ Dispatch \/ CancelRun \/ Cancellation \/ Parent \/ CrashParent \/ Repair \/ CrashSweep
         \/ \E i \in Jobs : StaleClaim(i) \/ SettleCanceled(i) \/ SettleSweep(i) \/ AccountCost(i)
  PROVE  child'[j] = child[j] \/ child'[j].pc \in {"queued", "ended"}
<1>0. child[j] \in ChildRun
  BY DEF TypeOK
<1>1. CASE RunLevel
  <2>1. child'[j] = child[j] \/ child'[j] = [child[j] EXCEPT !.pc = "queued"]
    BY <1>1 DEF RunLevel
  <2> QED BY <1>0, <2>1 DEF ChildRun
<1>2. CASE CancelTrigger
  <2>1. \/ child'[j] = child[j]
        \/ child'[j] = [child[j] EXCEPT !.pc = "ended", !.err = "none", !.seen = Unseen]
    BY <1>2 DEF CancelTrigger
  <2> QED BY <1>0, <2>1 DEF ChildRun
<1>3. CASE UNCHANGED child
  BY <1>3
<1> QED BY <1>1, <1>2, <1>3, RepairKeepsParent
  DEF Dispatch, ApiDispatch, ReconcileDispatch, RecordDispatch, CancelRun, Cancellation,
      RetireCanceled, Acknowledge, Parent, CrashParent, StartParent,
      RejectSnapshot, CollectLevel, FailLost, ReleaseCredits, SkipJobs, SkipItems,
      FinishParent, AbortRun, CloseRun, FinishDraining

LEMMA SpendInit == ASSUME Init PROVE SpendSafe
<1> SUFFICES ASSUME NEW j \in Jobs PROVE JobSpend(j)
  BY DEF SpendSafe
<1>1. child[j].pc = "none" /\ accepted[j] = 0
  BY DEF Init
<1>2. ~job[j].submitted /\ ~job[j].ext /\ ~job[j].staged
  BY DEF Init
<1> QED BY <1>1, <1>2 DEF JobSpend, Paid, Handling

LEMMA SpendNext == ASSUME TypeInv, CreditSafe, SpendSafe, [Next]_vars PROVE SpendSafe'
<1> SUFFICES ASSUME NEW j \in Jobs PROVE JobSpend(j)'
  BY DEF SpendSafe
<1>0. TypeOK /\ JobSpend(j)
  BY DEF TypeInv, SpendSafe
<1>1. CASE UNCHANGED vars
  BY <1>0, <1>1 DEF vars, JobSpend
<1>2. ASSUME NEW i \in Jobs, Child(i) \/ CrashChild(i) PROVE JobSpend(j)'
  <2>1. CASE i = j
    BY <1>0, <1>2, <2>1, SpendSubmission, SpendOutput, SpendError DEF Child
  <2>2. CASE i # j
    BY <1>0, <1>2, <2>2, ChildKeepsOthers DEF JobSpend
  <2> QED BY <2>1, <2>2
<1>3. CASE \/ Dispatch \/ CancelRun \/ Cancellation \/ Parent \/ CrashParent
           \/ Repair \/ CrashSweep
           \/ \E i \in Jobs : StaleClaim(i) \/ SettleCanceled(i) \/ SettleSweep(i) \/ AccountCost(i)
  BY <1>0, <1>3, OuterFacts, OuterChild, SpendQuiet
<1> QED BY <1>1, <1>2, <1>3 DEF Next

\* All three together are inductive.
Safe == TypeInv /\ CreditSafe /\ SpendSafe

LEMMA SafeAlways == Spec => []Safe
<1>1. Init => Safe
  BY TypeInit, CreditInit, SpendInit DEF Safe
<1>2. Safe /\ [Next]_vars => Safe'
  BY TypeNext, CreditNext, SpendNext DEF Safe
<1> QED BY <1>1, <1>2, PTL DEF Spec

\* The provider executes no job twice, although tasks crash and retry between
\* every two steps around the paid call.
THEOREM SubmissionCorrect == Spec => []AtMostOneSubmission
<1>1. Safe => AtMostOneSubmission
  BY DEF Safe, SpendSafe, JobSpend, AtMostOneSubmission
<1> QED BY <1>1, SafeAlways, PTL

\* Whatever was spent stays visible in the job row.
THEOREM SpendCorrect == Spec => []SpendIsTracked
<1>1. Safe => SpendIsTracked
  BY DEF Safe, SpendSafe, JobSpend, SpendIsTracked
<1> QED BY <1>1, SafeAlways, PTL

-----------------------------------------------------------------------------
(* What was paid for could be used: inputs before the call, an output      *)
(* before the success.                                                     *)

\* A success is final.
LEMMA SuccessStays ==
  ASSUME TypeOK, NEW j \in Jobs, EndStep(j), job[j].status = "succeeded"
  PROVE  job'[j].status = "succeeded"
BY DEF EndStep, Unwon, Kept, Ended, Won, Freed, JobActive, Active

\* A task on its way to the paid call has seen all inputs of its job.
InputsReady(j) == \A p \in Preds[j] : job[p].status = "succeeded"
InputSafe ==
  \A j \in Jobs : child[j].pc \in {"ready", "marked"} \/ accepted[j] > 0 => InputsReady(j)

\* Where the other steps of a child leave its task.
LEMMA ChildElsewhere ==
  ASSUME TypeOK, NEW i \in Jobs, Child(i) \/ CrashChild(i),
         ~ResumeJob(i), ~MarkSubmission(i), ~Submit(i), ~IngestOutput(i)
  PROVE  child'[i].pc \notin {"ready", "marked", "committing"} /\ accepted' = accepted
<1>1. CASE ClaimJob(i)
  <2>1. child'[i].pc \in {"loaded", "ended"}
    BY <1>1, ChildMoves DEF ClaimJob
  <2> QED BY <1>1, <2>1 DEF ClaimJob
<1>2. CASE RejectRequest(i)
  BY <1>2, ChildMoves DEF RejectRequest
<1>3. CASE RecordSubmission(i)
  BY <1>3, ChildMoves DEF RecordSubmission
<1>4. CASE Poll(i)
  BY <1>4, ChildMoves DEF Poll
<1>5. CASE StageResult(i)
  BY <1>5, ChildMoves DEF StageResult
<1>6. CASE AcceptResult(i)
  <2>1. child'[i].pc \in {"output", "ended"}
    BY <1>6, ChildMoves DEF AcceptResult
  <2> QED BY <1>6, <2>1 DEF AcceptResult
<1>7. CASE PersistOutput(i)
  <2>1. child'[i].pc \in {"ingest", "ended"}
    BY <1>7, ChildMoves DEF PersistOutput
  <2> QED BY <1>7, <2>1 DEF PersistOutput
<1>8. CASE CompleteJob(i)
  <2>1. child'[i].pc \in {"done", "ended"}
    BY <1>8, ChildMoves DEF CompleteJob
  <2> QED BY <1>8, <2>1 DEF CompleteJob
<1>9. CASE ReportSuccess(i)
  BY <1>9, ChildMoves DEF ReportSuccess
<1>10. CASE ResetMarker(i)
  BY <1>10, ChildMoves DEF ResetMarker
<1>11. CASE CancelErred(i)
  BY <1>11, ChildMoves DEF CancelErred
<1>12. CASE SettleErred(i)
  BY <1>12, ChildMoves DEF SettleErred
<1>13. CASE FailErred(i)
  BY <1>13, ChildMoves DEF FailErred
<1>14. CASE RetryErred(i)
  BY <1>14, ChildMoves DEF RetryErred
<1>15. CASE CrashChild(i)
  BY <1>15, ChildMoves DEF CrashChild
<1>16. CASE ReadError(i)
  <2>1. PICK seen : child' = [child EXCEPT ![i] = [child[i] EXCEPT !.pc = "resetting", !.seen = seen]]
    BY <1>16 DEF ReadError
  <2>2. child'[i].pc = "resetting"
    BY <2>1 DEF TypeOK, ChildRun
  <2> QED BY <1>16, <2>2 DEF ReadError
<1> QED BY <1>1, <1>2, <1>3, <1>4, <1>5, <1>6, <1>7, <1>8, <1>9, <1>10, <1>11, <1>12, <1>13, <1>14, <1>15, <1>16
        DEF Child

\* Only the resumption puts a task before the paid call.
LEMMA ChildBeforeCall ==
  ASSUME TypeOK, NEW i \in Jobs, Child(i) \/ CrashChild(i)
  PROVE  \/ child'[i].pc \notin {"ready", "marked"} /\ accepted'[i] = accepted[i]
         \/ InputsReady(i) /\ accepted'[i] = accepted[i]
         \/ child[i].pc \in {"ready", "marked"}
<1>1. CASE ResumeJob(i)
  <2>1. accepted'[i] = accepted[i]
    BY <1>1 DEF ResumeJob
  <2>2. CASE \E p \in Preds[i] : job[p].status # "succeeded"
    <3>1. child'[i].pc = "erred"
      BY <1>1, <2>2, ChildMoves DEF ResumeJob
    <3> QED BY <2>1, <3>1
  <2>3. CASE ~\E p \in Preds[i] : job[p].status # "succeeded"
    BY <2>1, <2>3 DEF InputsReady
  <2> QED BY <2>2, <2>3
<1>2. CASE MarkSubmission(i) \/ Submit(i)
  BY <1>2 DEF MarkSubmission, Submit
<1>3. CASE IngestOutput(i)
  <2>1. Goto(i, "committing") \/ Throw(i, "retry")
    BY <1>3 DEF IngestOutput
  <2>2. child'[i].pc \in {"committing", "erred"}
    BY <2>1, ChildMoves
  <2> QED BY <1>3, <2>2 DEF IngestOutput
<1> QED BY <1>1, <1>2, <1>3, ChildElsewhere

LEMMA InputInit == ASSUME Init PROVE InputSafe
BY DEF Init, InputSafe

LEMMA InputNext == ASSUME Safe, InputSafe, [Next]_vars PROVE InputSafe'
<1>0. TypeOK /\ CreditSafe /\ \A j \in Jobs : EndStep(j)
  BY EveryEndStep DEF Safe, TypeInv
<1>1. \A j \in Jobs : InputsReady(j) => InputsReady(j)'
  BY <1>0, SuccessStays, PlanAssumption DEF InputsReady
<1> SUFFICES ASSUME NEW j \in Jobs, child'[j].pc \in {"ready", "marked"} \/ accepted'[j] > 0
             PROVE  InputsReady(j)
  BY <1>1 DEF InputSafe
<1>2. CASE UNCHANGED vars
  BY <1>2 DEF vars, InputSafe
<1>3. ASSUME NEW i \in Jobs, Child(i) \/ CrashChild(i) PROVE InputsReady(j)
  <2>1. CASE i = j
    BY <1>0, <1>3, <2>1, ChildBeforeCall DEF InputSafe
  <2>2. CASE i # j
    BY <1>0, <1>3, <2>2, ChildKeepsOthers DEF InputSafe
  <2> QED BY <2>1, <2>2
<1>4. CASE \/ Dispatch \/ CancelRun \/ Cancellation \/ Parent \/ CrashParent
           \/ Repair \/ CrashSweep
           \/ \E i \in Jobs : StaleClaim(i) \/ SettleCanceled(i) \/ SettleSweep(i) \/ AccountCost(i)
  <2>1. accepted'[j] = accepted[j]
    BY <1>0, <1>4, OuterFacts DEF SameFacts
  <2>2. child'[j] = child[j] \/ child'[j].pc \in {"queued", "ended"}
    BY <1>0, <1>4, OuterChild
  <2> QED BY <2>1, <2>2 DEF InputSafe
<1> QED BY <1>2, <1>3, <1>4 DEF Next

\* The provider is paid only for a job whose inputs all exist, however often the
\* parent and the task were attempted before.
THEOREM InputsCorrect == Spec => []PaidAfterInputs
<1>1. Init => InputSafe
  BY InputInit
<1>2. Safe /\ InputSafe /\ [Next]_vars => InputSafe'
  BY InputNext
<1>3. InputSafe => PaidAfterInputs
  BY DEF InputSafe, InputsReady, PaidAfterInputs
<1> QED BY <1>1, <1>2, <1>3, SafeAlways, PTL DEF Spec

\* A task about to commit a success holds a usable output.
OutputSafe ==
  \A j \in Jobs : child[j].pc = "committing" \/ job[j].status = "succeeded" => asset[j] = "ready"

\* An output that became usable stays so, and the ingestion leads to the commit.
LEMMA OutputStep ==
  ASSUME TypeOK, [Next]_vars, NEW j \in Jobs
  PROVE  /\ asset[j] = "ready" => asset'[j] = "ready"
         /\ child'[j].pc = "committing" => child[j].pc = "committing" \/ asset'[j] = "ready"
<1> DEFINE Goal == /\ asset[j] = "ready" => asset'[j] = "ready"
                   /\ child'[j].pc = "committing" => child[j].pc = "committing" \/ asset'[j] = "ready"
<1>0. asset \in [Jobs -> {"none", "processing", "ready"}]
  BY DEF TypeOK
<1>1. CASE UNCHANGED vars
  BY <1>1 DEF vars
<1>2. ASSUME NEW i \in Jobs, Child(i) \/ CrashChild(i) PROVE Goal
  <2>1. asset[j] = "ready" => asset'[j] = "ready"
    BY <1>0, <1>2
    DEF Child, CrashChild, ClaimJob, RejectRequest, ResumeJob, MarkSubmission, Submit,
        RecordSubmission, Poll, StageResult, AcceptResult, PersistOutput, IngestOutput,
        CompleteJob, ReportSuccess, ReadError, ResetMarker, CancelErred, SettleErred,
        FailErred, RetryErred
  <2>2. CASE i # j
    BY <1>2, <2>1, <2>2, ChildKeepsOthers
  <2>3. CASE i = j
    <3>1. CASE IngestOutput(j)
      BY <1>0, <2>1, <3>1, ChildMoves DEF IngestOutput
    <3>2. CASE ResumeJob(j) \/ MarkSubmission(j) \/ Submit(j)
      <4>1. CASE ResumeJob(j)
        BY <2>1, <4>1, ChildMoves DEF ResumeJob
      <4>2. CASE MarkSubmission(j)
        BY <2>1, <4>2, ChildMoves DEF MarkSubmission
      <4>3. CASE Submit(j)
        BY <2>1, <4>3, ChildMoves DEF Submit
      <4> QED BY <3>2, <4>1, <4>2, <4>3
    <3> QED BY <1>2, <2>1, <2>3, <3>1, <3>2, ChildElsewhere
  <2> QED BY <2>2, <2>3
<1>3. CASE \/ Dispatch \/ CancelRun \/ Cancellation \/ Parent \/ CrashParent
           \/ Repair \/ CrashSweep
           \/ \E i \in Jobs : StaleClaim(i) \/ SettleCanceled(i) \/ SettleSweep(i) \/ AccountCost(i)
  <2>1. child'[j] = child[j] \/ child'[j].pc \in {"queued", "ended"}
    BY <1>3, OuterChild
  <2>2. asset' = asset
    BY <1>3
    DEF Dispatch, ApiDispatch, ReconcileDispatch, RecordDispatch, CancelRun, Cancellation,
        CancelTrigger, RetireCanceled, Acknowledge, Parent, CrashParent, StartParent,
        RejectSnapshot, RunLevel, CollectLevel, FailLost, ReleaseCredits, SkipJobs, SkipItems,
        FinishParent, AbortRun, CloseRun, FinishDraining, Repair, CrashSweep, ClaimDispatched,
        FailOrphaned, StaleClaim, StaleMark, StaleClose, SweepSummary, SettleCanceled,
        SettleSweep, AccountCost
  <2> QED BY <2>1, <2>2
<1> QED BY <1>1, <1>2, <1>3 DEF Next

\* A job succeeds only with its canonical output usable: no crash or retry between
\* the ingestion and the commit lets a success through without it.
THEOREM OutputCorrect == Spec => []SuccessIsUsable
<1>1. Init => OutputSafe
  BY DEF Init, OutputSafe
<1>2. Safe /\ OutputSafe /\ [Next]_vars => OutputSafe'
  <2> SUFFICES ASSUME Safe, OutputSafe, [Next]_vars, NEW j \in Jobs,
                      child'[j].pc = "committing" \/ job'[j].status = "succeeded"
               PROVE  asset'[j] = "ready"
    BY DEF OutputSafe
  <2>1. TypeOK /\ EndStep(j)
    BY EveryEndStep DEF Safe, TypeInv
  <2>2. job'[j].status = "succeeded" => job[j].status = "succeeded" \/ child[j].pc = "committing"
    BY <2>1 DEF EndStep, Unwon, Kept, Ended, Won, Freed, Active
  <2> QED BY <2>1, <2>2, OutputStep DEF OutputSafe
<1>3. OutputSafe => SuccessIsUsable
  BY DEF OutputSafe, SuccessIsUsable
<1> QED BY <1>1, <1>2, <1>3, SafeAlways, PTL DEF Spec

-----------------------------------------------------------------------------
(* What a run reports about its jobs.                                      *)

\* The task of a successful job has left its output behind for good; items and
\* run report only what the job rows hold.
SuccessLeft ==
  \A j \in Jobs : job[j].status = "succeeded" => child[j].pc \in {"queued", "done", "ended"}
ItemHonest == \A j \in Jobs : item[j] = "succeeded" => job[j].status = "succeeded"
RunHonest ==
  /\ run.status = "succeeded" => \A j \in Jobs : item[j] = "succeeded"
  /\ run.status = "partial" => \E j \in Jobs : item[j] = "succeeded"
HonestSafe == SuccessLeft /\ ItemHonest /\ RunHonest

\* A child that succeeds, or did before, is not on its way to its output.
LEMMA ChildSuccess ==
  ASSUME TypeOK, NEW i \in Jobs, Child(i) \/ CrashChild(i), EndStep(i), SuccessLeft,
         job'[i].status = "succeeded"
  PROVE  child'[i].pc \in {"queued", "done", "ended"}
<1>1. child[i].pc \in {"queued", "done", "ended", "committing"}
  BY DEF SuccessLeft, EndStep, Unwon, Kept, Ended, Won, Freed, Active
<1>2. child[i].pc = "queued" => job[i].status = "succeeded"
  BY DEF EndStep, Unwon, Kept, Ended, Won, Freed, Active
<1>3. CASE ClaimJob(i)
  <2>1. ~JobActive(i)
    BY <1>2, <1>3 DEF ClaimJob, JobActive, Active
  <2>2. Return(i, TRUE) \/ Return(i, FALSE)
    BY <1>3, <2>1 DEF ClaimJob
  <2> QED BY <2>2, ChildMoves
<1>4. CASE CompleteJob(i)
  <2>1. child'[i].pc \in {"done", "ended"}
    BY <1>4, ChildMoves DEF CompleteJob
  <2> QED BY <2>1
<1>5. CASE ReportSuccess(i)
  BY <1>5, ChildMoves DEF ReportSuccess
<1>6. CASE CrashChild(i)
  BY <1>6, ChildMoves DEF CrashChild
<1> QED BY <1>1, <1>3, <1>4, <1>5, <1>6
        DEF Child, RejectRequest, ResumeJob, MarkSubmission, Submit, RecordSubmission, Poll,
            StageResult, AcceptResult, PersistOutput, IngestOutput, ReadError, ResetMarker,
            CancelErred, SettleErred, FailErred, RetryErred

\* How a step moves what the run and its items report.
SummaryMove ==
  \/ UNCHANGED <<run.status, item>>
  \/ run'.status \in {"running", "canceled"} /\ \A j \in Jobs : item'[j] \in {item[j], "canceled"}
  \/ \E S \in SUBSET Jobs : Aggregate(S, job) \/ Aggregate(S, job')
  \/ \E i \in Jobs : ResumeJob(i)
  \/ SkipItems

LEMMA SummaryStep == ASSUME TypeOK, [Next]_vars PROVE SummaryMove
<1>0. run \in RunRow /\ item \in [Jobs -> ItemStatus]
  BY DEF TypeOK
<1>1. CASE UNCHANGED <<run, item>>
  BY <1>1 DEF SummaryMove
<1>2. ASSUME NEW S \in SUBSET Jobs, Aggregate(S, job) \/ Aggregate(S, job') PROVE SummaryMove
  BY <1>2 DEF SummaryMove
<1>3. CASE AggregateRun(job)
  BY <1>1, <1>2, <1>3 DEF AggregateRun
<1>4. ASSUME NEW i \in Jobs, Child(i) \/ CrashChild(i) PROVE SummaryMove
  <2>0. {i} \in SUBSET Jobs
    OBVIOUS
  <2>1. CASE ClaimJob(i) \/ RejectRequest(i) \/ FailErred(i)
    BY <1>1, <1>2, <2>0, <2>1 DEF ClaimJob, RejectRequest, FailErred
  <2>2. CASE ResumeJob(i)
    BY <2>2 DEF SummaryMove
  <2>3. CASE PersistOutput(i) \/ CompleteJob(i)
    BY <1>1, <1>2, <2>0, <2>3 DEF PersistOutput, CompleteJob
  <2> QED BY <1>1, <1>4, <2>1, <2>2, <2>3
          DEF Child, CrashChild, MarkSubmission, Submit, RecordSubmission, Poll, StageResult,
              AcceptResult, IngestOutput, ReportSuccess, ReadError, ResetMarker, CancelErred,
              SettleErred, RetryErred
<1>5. CASE SkipItems
  BY <1>5 DEF SummaryMove
<1>6. CASE StartParent
  <2>1. run' = run \/ run' = [run EXCEPT !.status = "running", !.trigger = TRUE]
    BY <1>6 DEF StartParent
  <2>2. item' = item
    BY <1>6 DEF StartParent
  <2>3. run' = run \/ run'.status = "running"
    BY <1>0, <2>1 DEF RunRow
  <2> QED BY <2>2, <2>3 DEF SummaryMove
<1>7. CASE (Parent \/ CrashParent) /\ ~SkipItems /\ ~StartParent
  BY <1>1, <1>3, <1>7
  DEF Parent, CrashParent, RejectSnapshot, RunLevel, CollectLevel, FailLost, ReleaseCredits,
      SkipJobs, FinishParent, AbortRun, CloseRun, FinishDraining
<1>8. CASE CancelRun
  <2>1. PICK acked : run' = [run EXCEPT !.status = "canceled", !.acked = acked]
    BY <1>8 DEF CancelRun
  <2>2. run'.status = "canceled"
    BY <1>0, <2>1 DEF RunRow
  <2>3. \A j \in Jobs : item'[j] \in {item[j], "canceled"}
    BY <1>8 DEF CancelRun
  <2> QED BY <2>2, <2>3 DEF SummaryMove
<1>9. CASE Dispatch \/ Cancellation
  <2>1. item' = item
    BY <1>9 DEF Dispatch, ApiDispatch, ReconcileDispatch, RecordDispatch, Cancellation,
       CancelTrigger, RetireCanceled, Acknowledge
  <2>2. \/ run' = run \/ run' = [run EXCEPT !.trigger = TRUE] \/ run' = [run EXCEPT !.acked = TRUE]
    BY <1>9 DEF Dispatch, ApiDispatch, ReconcileDispatch, RecordDispatch, Cancellation,
       CancelTrigger, RetireCanceled, Acknowledge
  <2>3. run'.status = run.status
    BY <1>0, <2>2 DEF RunRow
  <2> QED BY <2>1, <2>3 DEF SummaryMove
<1>10. CASE \/ Repair \/ CrashSweep
            \/ \E i \in Jobs : StaleClaim(i) \/ SettleCanceled(i) \/ SettleSweep(i) \/ AccountCost(i)
  BY <1>1, <1>3, <1>10 DEF Repair, CrashSweep, ClaimDispatched, FailOrphaned, StaleClaim, StaleMark,
     StaleClose, SweepSummary, SettleCanceled, SettleSweep, AccountCost
<1>11. CASE UNCHANGED vars
  BY <1>1, <1>11 DEF vars
<1> QED BY <1>4, <1>5, <1>6, <1>7, <1>8, <1>9, <1>10, <1>11 DEF Next

\* The summary of items.
LEMMA StatusHonest ==
  ASSUME NEW items \in [Jobs -> ItemStatus]
  PROVE  /\ StatusOf(items) = "succeeded" => \A j \in Jobs : items[j] = "succeeded"
         /\ StatusOf(items) = "partial" => \E j \in Jobs : items[j] = "succeeded"
<1>1. \A j \in Jobs : items[j] \in Active \cup {"succeeded", "failed", "canceled", "skipped"}
  BY DEF ItemStatus, Final
<1> QED BY <1>1 DEF StatusOf

LEMMA HonestInit == ASSUME Init PROVE HonestSafe
BY DEF Init, HonestSafe, SuccessLeft, ItemHonest, RunHonest

LEMMA HonestNext == ASSUME Safe, HonestSafe, [Next]_vars PROVE HonestSafe'
<1>0. /\ TypeOK /\ TypeOK' /\ CreditSafe /\ \A j \in Jobs : EndStep(j)
      /\ SuccessLeft /\ ItemHonest /\ RunHonest
  BY TypeNext, EveryEndStep DEF Safe, TypeInv, HonestSafe
<1>1. \A j \in Jobs : job[j].status = "succeeded" => job'[j].status = "succeeded"
  BY <1>0, SuccessStays
<1>2. SuccessLeft'
  <2> SUFFICES ASSUME NEW j \in Jobs, job'[j].status = "succeeded"
               PROVE  child'[j].pc \in {"queued", "done", "ended"}
    BY DEF SuccessLeft
  <2>1. CASE UNCHANGED vars
    BY <1>0, <2>1 DEF vars, SuccessLeft
  <2>2. ASSUME NEW i \in Jobs, Child(i) \/ CrashChild(i)
        PROVE  child'[j].pc \in {"queued", "done", "ended"}
    <3>1. CASE i = j
      BY <1>0, <2>2, <3>1, ChildSuccess
    <3>2. CASE i # j
      BY <1>0, <2>2, <3>2, ChildKeepsOthers DEF SuccessLeft
    <3> QED BY <3>1, <3>2
  <2>3. CASE \/ Dispatch \/ CancelRun \/ Cancellation \/ Parent \/ CrashParent
             \/ Repair \/ CrashSweep
             \/ \E i \in Jobs : StaleClaim(i) \/ SettleCanceled(i) \/ SettleSweep(i) \/ AccountCost(i)
    <3>1. Unwon(j)
      BY <1>0, <2>3, OuterEndStep
    <3>2. job[j].status = "succeeded"
      BY <3>1 DEF Unwon, Kept, Ended, Freed, Active
    <3>3. child'[j] = child[j] \/ child'[j].pc \in {"queued", "ended"}
      BY <1>0, <2>3, OuterChild
    <3> QED BY <1>0, <3>2, <3>3 DEF SuccessLeft
  <2> QED BY <2>1, <2>2, <2>3 DEF Next
<1>3. ItemHonest' /\ RunHonest'
  <2>0. /\ item \in [Jobs -> ItemStatus] /\ item' \in [Jobs -> ItemStatus]
        /\ run \in RunRow /\ run' \in RunRow
    BY <1>0 DEF TypeOK
  <2>1. CASE UNCHANGED <<run.status, item>>
    BY <1>0, <1>1, <2>1 DEF ItemHonest, RunHonest
  <2>2. CASE run'.status \in {"running", "canceled"} /\ \A j \in Jobs : item'[j] \in {item[j], "canceled"}
    BY <1>0, <1>1, <2>2 DEF ItemHonest, RunHonest
  <2>3. ASSUME NEW S \in SUBSET Jobs, NEW rows \in {job, job'}, Aggregate(S, rows)
        PROVE  ItemHonest' /\ RunHonest'
    <3>1. ItemHonest'
      BY <1>0, <1>1, <2>3 DEF Aggregate, ItemHonest
    <3>2. run'.status = IF RunCanceled THEN run.status ELSE StatusOf(item')
      BY <2>0, <2>3 DEF Aggregate, RunRow
    <3>3. RunHonest'
      BY <2>0, <3>2, StatusHonest DEF RunHonest, RunCanceled
    <3> QED BY <3>1, <3>3
  <2>4. ASSUME NEW i \in Jobs, ResumeJob(i) PROVE ItemHonest' /\ RunHonest'
    <3>1. item[i] # "succeeded"
      BY <1>0, <2>4 DEF ResumeJob, SuccessLeft, ItemHonest
    <3>2. run' = run /\ \A j \in Jobs : item'[j] = item[j] \/ (j = i /\ item'[j] # "succeeded")
      BY <2>0, <2>4, <3>1 DEF ResumeJob
    <3>3. ItemHonest'
      BY <1>0, <1>1, <3>2 DEF ItemHonest
    <3>4. RunHonest'
      BY <1>0, <3>1, <3>2 DEF RunHonest
    <3> QED BY <3>3, <3>4
  <2>5. CASE SkipItems
    <3>1. \A j \in Jobs : item'[j] \in {item[j], job[j].status, "skipped"}
      BY <2>5 DEF SkipItems
    <3>2. ItemHonest'
      BY <1>0, <1>1, <3>1 DEF ItemHonest
    <3>3. CASE RunCanceled
      BY <2>5, <3>2, <3>3 DEF SkipItems, RunHonest, RunCanceled
    <3>4. CASE ~RunCanceled
      <4>1. run' = [run EXCEPT !.status = StatusOf(item')]
        BY <2>5, <3>4 DEF SkipItems
      <4>2. run'.status = StatusOf(item')
        BY <2>0, <4>1 DEF RunRow
      <4> QED BY <2>0, <3>2, <4>2, StatusHonest DEF RunHonest
    <3> QED BY <3>2, <3>3, <3>4
  <2> QED BY <1>0, <2>1, <2>2, <2>3, <2>4, <2>5, SummaryStep DEF SummaryMove
<1> QED BY <1>2, <1>3 DEF HonestSafe

\* A run reports success only for its whole plan, and partial success only with
\* a success in it: summaries written late, by whoever repairs the run, included.
THEOREM SummaryCorrect == Spec => []SummaryIsHonest
<1>1. Init => HonestSafe
  BY HonestInit
<1>2. Safe /\ HonestSafe /\ [Next]_vars => HonestSafe'
  BY HonestNext
<1>3. HonestSafe => SummaryIsHonest
  BY DEF HonestSafe, ItemHonest, RunHonest, SummaryIsHonest
<1> QED BY <1>1, <1>2, <1>3, SafeAlways, PTL DEF Spec

-----------------------------------------------------------------------------
(* An acknowledged cancellation is over.                                   *)

\* Before the handle of the parent is stored nothing was started for the run, so
\* a cancellation that finds no handle has nothing to wait for.
Unsent ==
  ~run.trigger => /\ parent.pc \in {"none", "queued", "ended"}
                  /\ \A j \in Jobs : child[j].pc = "none" /\ job[j].settlement = "not_required"
AckSafe == AckedIsQuiet /\ Unsent

\* A settlement is opened by the task of an active job only.
Opened(j)   == JobActive(j) \/ job[j].settlement = "pending" \/ job'[j].settlement # "pending"
\* The other steps close it, or take it back with the job.
Resolved(j) ==
  \/ job'[j].settlement \in {job[j].settlement, "not_required"}
  \/ job[j].settlement = "pending" /\ job'[j].settlement # "pending"

LEMMA ClosedResolves ==
  ASSUME TypeOK, NEW S, NEW status \in {"failed", "canceled"}, NEW resolve \in BOOLEAN,
         job' = Closed(S, status, resolve), NEW j \in Jobs
  PROVE  Resolved(j)
<1>1. job[j] \in JobRow
  BY DEF TypeOK
<1>2. CASE j \in S /\ JobActive(j)
  <2>1. job'[j] = [job[j] EXCEPT !.status = status,
                     !.settlement = IF resolve /\ job[j].settlement = "pending"
                                    THEN "unknown" ELSE job[j].settlement]
    BY <1>2 DEF Closed
  <2> QED BY <1>1, <2>1 DEF Resolved, JobRow
<1>3. CASE ~(j \in S /\ JobActive(j))
  BY <1>3 DEF Closed, Resolved
<1> QED BY <1>2, <1>3

\* Writes of one row that settle its credits or its provider.
LEMMA WriteResolves ==
  ASSUME TypeOK, NEW i \in Jobs, NEW j \in Jobs,
         \/ \E outcome \in {"captured", "released"} : job' = [job EXCEPT ![i] = Settled(job[i], outcome)]
         \/ job' = [job EXCEPT ![i].status = "failed"]
         \/ /\ job[i].settlement = "pending"
            /\ \E s \in {"settled", "unknown"} : job' = [job EXCEPT ![i].settlement = s]
  PROVE  Resolved(j)
<1>0. job \in [Jobs -> JobRow] /\ job[i] \in JobRow
  BY DEF TypeOK
<1>1. CASE \E outcome \in {"captured", "released"} : job' = [job EXCEPT ![i] = Settled(job[i], outcome)]
  BY <1>0, <1>1 DEF Resolved, Settled, JobRow
<1>2. CASE job' = [job EXCEPT ![i].status = "failed"]
  BY <1>0, <1>2 DEF Resolved, JobRow
<1>3. CASE /\ job[i].settlement = "pending"
           /\ \E s \in {"settled", "unknown"} : job' = [job EXCEPT ![i].settlement = s]
  BY <1>0, <1>3 DEF Resolved, JobRow
<1> QED BY <1>1, <1>2, <1>3

LEMMA OuterResolves ==
  ASSUME TypeOK, NEW j \in Jobs,
         \/ Dispatch \/ CancelRun \/ Cancellation \/ Parent \/ CrashParent \/ Repair \/ CrashSweep
         \/ \E i \in Jobs : StaleClaim(i) \/ SettleCanceled(i) \/ SettleSweep(i) \/ AccountCost(i)
  PROVE  Resolved(j)
<1>1. CASE UNCHANGED job
  BY <1>1 DEF Resolved
<1>2. CASE \E S \in SUBSET Jobs : \E status \in {"failed", "canceled"} : \E resolve \in BOOLEAN :
             job' = Closed(S, status, resolve)
  BY <1>2, ClosedResolves
<1>3. CASE CancelRun
  <2>1. \/ job'[j] = job[j]
        \/ job'[j] = [job[j] EXCEPT !.status = "canceled", !.settlement = "not_required"]
    BY <1>3 DEF CancelRun
  <2>2. job[j] \in JobRow
    BY DEF TypeOK
  <2> QED BY <2>1, <2>2 DEF Resolved, JobRow
<1>4. CASE Dispatch \/ Cancellation
  BY <1>1, <1>2, <1>4 DEF Dispatch, ApiDispatch, ReconcileDispatch, RecordDispatch,
     Cancellation, CancelTrigger, RetireCanceled, Acknowledge
<1>5. CASE Parent \/ CrashParent
  <2>1. CASE RejectSnapshot \/ AbortRun \/ SkipJobs
    BY <1>2, <2>1 DEF RejectSnapshot, AbortRun, SkipJobs
  <2>2. CASE FailLost
    <3>1. parent.lost \in SUBSET Jobs
      BY DEF TypeOK, ParentRun
    <3> QED BY <1>2, <2>2, <3>1 DEF FailLost
  <2>3. ASSUME NEW i \in Jobs, ReleaseCredits(i) PROVE Resolved(j)
    BY <2>3, WriteResolves DEF ReleaseCredits
  <2> QED BY <1>1, <1>5, <2>1, <2>2, <2>3
          DEF Parent, CrashParent, StartParent, RunLevel, CollectLevel, SkipItems, FinishParent,
              CloseRun, FinishDraining
<1>6. CASE Repair \/ CrashSweep
  <2>1. CASE FailOrphaned
    BY <1>1, <1>2, <2>1 DEF FailOrphaned
  <2>2. CASE StaleMark
    <3>1. sweep.job \in Jobs
      BY <2>2 DEF StaleMark, TypeOK, Sweep
    <3>2. \/ job' = job
          \/ job[sweep.job].settlement = "pending" /\ job' = [job EXCEPT ![sweep.job].settlement = "unknown"]
      BY <2>2 DEF StaleMark
    <3> QED BY <1>1, <3>1, <3>2, WriteResolves
  <2>3. CASE StaleClose
    <3>1. sweep.job \in Jobs
      BY <2>3 DEF StaleClose, TypeOK, Sweep
    <3>2. \/ job' = job \/ job' = [job EXCEPT ![sweep.job].status = "failed"]
          \/ job' = Closed({sweep.job}, "canceled", FALSE)
      BY <2>3 DEF StaleClose
    <3>3. {sweep.job} \in SUBSET Jobs
      BY <3>1
    <3> QED BY <1>1, <1>2, <3>1, <3>2, <3>3, WriteResolves
  <2> QED BY <1>1, <1>6, <2>1, <2>2, <2>3
          DEF Repair, CrashSweep, ClaimDispatched, SweepSummary
<1>7. ASSUME NEW i \in Jobs, StaleClaim(i) \/ SettleCanceled(i) \/ SettleSweep(i) \/ AccountCost(i)
      PROVE  Resolved(j)
  <2>1. CASE StaleClaim(i)
    BY <1>1, <2>1 DEF StaleClaim
  <2>2. CASE SettleCanceled(i)
    BY <2>2, WriteResolves DEF SettleCanceled
  <2>3. CASE SettleSweep(i)
    <3>1. job' = [job EXCEPT ![i] = Settled(job[i], IF job[i].status = "succeeded"
                                                    THEN "captured" ELSE "released")]
      BY <2>3 DEF SettleSweep
    <3> QED BY <3>1, WriteResolves
  <2>4. CASE AccountCost(i)
    BY <2>4, WriteResolves DEF AccountCost
  <2> QED BY <1>7, <2>1, <2>2, <2>3, <2>4
<1> QED BY <1>3, <1>4, <1>5, <1>6, <1>7

\* Of the child's steps, the marker and the staged result open a settlement.
LEMMA ChildOpens ==
  ASSUME TypeOK, NEW i \in Jobs, Child(i) \/ CrashChild(i)
  PROVE  Opened(i)
<1>0. job \in [Jobs -> JobRow] /\ job[i] \in JobRow
  BY DEF TypeOK
<1>1. CASE job'[i] = job[i]
  BY <1>1 DEF Opened
<1>2. ASSUME NEW row \in JobRow, row.settlement = job[i].settlement, NEW outcome \in {"captured", "released"},
             job' = [job EXCEPT ![i] = Settled(row, outcome)] \/ job' = [job EXCEPT ![i] = row]
      PROVE  Opened(i)
  BY <1>0, <1>2 DEF Opened, Settled, JobRow
<1>3. \A status \in Active \cup Final :
         /\ [job[i] EXCEPT !.status = status] \in JobRow
         /\ [job[i] EXCEPT !.status = status].settlement = job[i].settlement
  BY <1>0 DEF JobRow
<1>4. CASE job' = Closed({i}, "canceled", FALSE)
  <2>1. Resolved(i)
    BY <1>4, ClosedResolves
  <2> QED BY <2>1 DEF Opened, Resolved
<1>5. CASE ClaimJob(i)
  <2>1. \/ job' = job \/ job' = [job EXCEPT ![i] = [job[i] EXCEPT !.status = "running"]]
        \/ job' = [job EXCEPT ![i] = Settled(job[i], "captured")]
    BY <1>5 DEF ClaimJob
  <2> QED BY <1>0, <1>1, <1>2, <1>3, <2>1 DEF Active
<1>6. CASE RejectRequest(i) \/ FailErred(i)
  <2>1. \/ job' = job \/ job' = Closed({i}, "canceled", FALSE)
        \/ job' = [job EXCEPT ![i] = Settled([job[i] EXCEPT !.status = "failed"], "released")]
    BY <1>6 DEF RejectRequest, FailErred
  <2> QED BY <1>1, <1>2, <1>3, <1>4, <2>1 DEF Final
<1>7. CASE MarkSubmission(i) \/ StageResult(i)
  <2>1. job' = job \/ job[i].status = "running"
    BY <1>7 DEF MarkSubmission, StageResult
  <2> QED BY <1>1, <2>1 DEF Opened, JobActive, Active
<1>8. CASE RecordSubmission(i)
  <2>1. job' = job \/ job' = [job EXCEPT ![i].ext = TRUE]
    BY <1>8 DEF RecordSubmission
  <2> QED BY <1>0, <2>1 DEF Opened, JobRow
<1>9. CASE AcceptResult(i)
  <2>1. PICK facts : /\ facts = job \/ facts = [job EXCEPT ![i].settlement = "settled"]
                     /\ job' = facts \/ job' = [facts EXCEPT ![i].status = "canceled"]
    BY <1>9 DEF AcceptResult
  <2>2. facts \in [Jobs -> JobRow] /\ facts[i].settlement \in {job[i].settlement, "settled"}
    BY <1>0, <2>1 DEF JobRow
  <2>3. job'[i].settlement = facts[i].settlement
    BY <2>1, <2>2 DEF JobRow
  <2> QED BY <2>2, <2>3 DEF Opened
<1>10. CASE PersistOutput(i) \/ CancelErred(i)
  <2>1. job' = job \/ job' = Closed({i}, "canceled", FALSE)
    BY <1>10 DEF PersistOutput, CancelErred
  <2> QED BY <1>1, <1>4, <2>1
<1>11. CASE CompleteJob(i)
  <2>1. \/ job' = job \/ job' = [job EXCEPT ![i] = Settled(job[i], "captured")]
        \/ job' = [job EXCEPT ![i] = Settled([job[i] EXCEPT !.status = "succeeded"], "captured")]
        \/ job' = [job EXCEPT ![i] = Settled([job[i] EXCEPT !.status = "canceled"], "released")]
    BY <1>11 DEF CompleteJob
  <2> QED BY <1>0, <1>1, <1>2, <1>3, <2>1 DEF Final
<1>12. CASE ResetMarker(i) \/ SettleErred(i)
  <2>1. \/ job' = job
        \/ job' = [job EXCEPT ![i] = [job[i] EXCEPT !.submitted = FALSE, !.settlement = "not_required"]]
        \/ \E s \in {"unknown", "settled"} : job' = [job EXCEPT ![i].settlement = s]
    BY <1>12 DEF ResetMarker, SettleErred
  <2> QED BY <1>0, <2>1 DEF Opened, JobRow
<1>13. CASE RetryErred(i)
  <2>1. job' = job \/ job' = [job EXCEPT ![i] = [job[i] EXCEPT !.status = "pending"]]
    BY <1>13 DEF RetryErred
  <2> QED BY <1>1, <1>2, <1>3, <2>1 DEF Active
<1> QED BY <1>1, <1>5, <1>6, <1>7, <1>8, <1>9, <1>10, <1>11, <1>12, <1>13
        DEF Child, CrashChild, ResumeJob, Submit, Poll, IngestOutput, ReportSuccess, ReadError

\* The flags of the run row.
LEMMA RunFlags ==
  ASSUME TypeOK, [Next]_vars
  PROVE  /\ run.trigger => run'.trigger
         /\ run'.acked => run.acked \/ CancelRun \/ Acknowledge
<1> DEFINE Same == run'.trigger = run.trigger /\ run'.acked = run.acked
<1>0. run \in RunRow
  BY DEF TypeOK
<1>1. CASE UNCHANGED run
  BY <1>1
<1>2. ASSUME NEW S, NEW rows, Aggregate(S, rows) PROVE Same
  <2>1. PICK status : run' = [run EXCEPT !.status = status]
    BY <1>2 DEF Aggregate
  <2> QED BY <1>0, <2>1 DEF RunRow
<1>3. \A rows : AggregateRun(rows) => Same
  BY <1>2 DEF AggregateRun
<1>4. ASSUME NEW i \in Jobs, Child(i) \/ CrashChild(i) PROVE Same
  BY <1>2, <1>4
  DEF Child, CrashChild, ClaimJob, RejectRequest, ResumeJob, MarkSubmission, Submit,
      RecordSubmission, Poll, StageResult, AcceptResult, PersistOutput, IngestOutput,
      CompleteJob, ReportSuccess, ReadError, ResetMarker, CancelErred, SettleErred,
      FailErred, RetryErred
<1>5. CASE StartParent \/ SkipItems \/ RecordDispatch
  <2>1. \/ run' = run \/ run' = [run EXCEPT !.status = "running", !.trigger = TRUE]
        \/ run' = [run EXCEPT !.trigger = TRUE]
        \/ \E status : run' = [run EXCEPT !.status = status]
    BY <1>5 DEF StartParent, SkipItems, RecordDispatch
  <2> QED BY <1>0, <2>1 DEF RunRow
<1>6. CASE (Parent \/ CrashParent) /\ ~StartParent /\ ~SkipItems
  BY <1>1, <1>3, <1>6
  DEF Parent, CrashParent, RejectSnapshot, RunLevel, CollectLevel, FailLost, ReleaseCredits,
      SkipJobs, FinishParent, AbortRun, CloseRun, FinishDraining
<1>7. CASE CancelRun
  <2>1. PICK acked : run' = [run EXCEPT !.status = "canceled", !.acked = acked]
    BY <1>7 DEF CancelRun
  <2> QED BY <1>0, <1>7, <2>1 DEF RunRow
<1>8. CASE Acknowledge
  BY <1>0, <1>8 DEF Acknowledge, RunRow
<1>9. CASE (Dispatch \/ Cancellation) /\ ~RecordDispatch /\ ~Acknowledge
  BY <1>1, <1>9 DEF Dispatch, ApiDispatch, ReconcileDispatch, Cancellation, CancelTrigger,
     RetireCanceled
<1>10. CASE \/ Repair \/ CrashSweep
            \/ \E i \in Jobs : StaleClaim(i) \/ SettleCanceled(i) \/ SettleSweep(i) \/ AccountCost(i)
  BY <1>1, <1>3, <1>10 DEF Repair, CrashSweep, ClaimDispatched, FailOrphaned, StaleClaim, StaleMark,
     StaleClose, SweepSummary, SettleCanceled, SettleSweep, AccountCost
<1>11. CASE UNCHANGED vars
  BY <1>1, <1>11 DEF vars
<1> QED BY <1>4, <1>5, <1>6, <1>7, <1>8, <1>9, <1>10, <1>11 DEF Next, Dispatch, Cancellation

\* Without a stored handle no task of the run moves.
LEMMA UnsentStep ==
  ASSUME TypeOK, Unsent, [Next]_vars, ~run'.trigger
  PROVE  /\ ~run.trigger /\ UNCHANGED child
         /\ parent'.pc \in {"none", "queued", "ended"}
         /\ \A i \in Jobs : ~Child(i) /\ ~CrashChild(i)
<1>0. /\ ~run.trigger /\ parent.pc \in {"none", "queued", "ended"}
      /\ run \in RunRow /\ parent \in ParentRun /\ \A j \in Jobs : child[j].pc = "none"
  BY RunFlags DEF Unsent, TypeOK
<1>1. ASSUME NEW i \in Jobs PROVE ~Child(i) /\ ~CrashChild(i)
  BY <1>0
  DEF Child, CrashChild, ClaimJob, RejectRequest, ResumeJob, MarkSubmission, Submit,
      RecordSubmission, Poll, StageResult, AcceptResult, PersistOutput, IngestOutput,
      CompleteJob, ReportSuccess, ReadError, ResetMarker, CancelErred, SettleErred,
      FailErred, RetryErred
<1>2. CASE UNCHANGED <<parent, child>>
  BY <1>0, <1>1, <1>2
<1>3. CASE Dispatch \/ CancelRun \/ Cancellation
  <2>1. UNCHANGED child /\ (parent' = parent \/ parent' = [parent EXCEPT !.pc = "queued"])
    BY <1>0, <1>3 DEF Dispatch, ApiDispatch, ReconcileDispatch, RecordDispatch, CancelRun,
       Cancellation, CancelTrigger, RetireCanceled, Acknowledge
  <2> QED BY <1>0, <1>1, <2>1 DEF ParentRun
<1>4. CASE Parent \/ CrashParent
  <2>1. StartParent
    BY <1>0, <1>4
    DEF Parent, CrashParent, RejectSnapshot, RunLevel, CollectLevel, FailLost, ReleaseCredits,
        SkipJobs, SkipItems, FinishParent, AbortRun, CloseRun, FinishDraining, ParentAt
  <2>2. run' # [run EXCEPT !.status = "running", !.trigger = TRUE]
    BY <1>0 DEF RunRow
  <2>3. parent' = EndedParent /\ UNCHANGED child
    BY <2>1, <2>2 DEF StartParent
  <2>4. parent'.pc = "ended"
    BY <1>0, <2>3 DEF EndedParent, ParentRun
  <2> QED BY <1>0, <1>1, <2>3, <2>4
<1>5. CASE \/ Repair \/ CrashSweep
           \/ \E i \in Jobs : StaleClaim(i) \/ SettleCanceled(i) \/ SettleSweep(i) \/ AccountCost(i)
  BY <1>2, <1>5, RepairKeepsParent
<1>6. CASE UNCHANGED vars
  BY <1>2, <1>6 DEF vars
<1> QED BY <1>1, <1>3, <1>4, <1>5, <1>6 DEF Next

LEMMA AckInit == ASSUME Init PROVE AckSafe
BY DEF Init, AckSafe, AckedIsQuiet, Unsent

LEMMA AckNext == ASSUME Safe, AckSafe, [Next]_vars PROVE AckSafe'
<1>0. /\ TypeOK /\ AckedIsQuiet /\ Unsent /\ \A j \in Jobs : EndStep(j)
  BY EveryEndStep DEF Safe, TypeInv, AckSafe
<1>1. \A j \in Jobs : Opened(j)
  <2> SUFFICES ASSUME NEW j \in Jobs PROVE Opened(j)
    OBVIOUS
  <2>1. CASE UNCHANGED vars
    BY <2>1 DEF vars, Opened
  <2>2. ASSUME NEW i \in Jobs, Child(i) \/ CrashChild(i) PROVE Opened(j)
    <3>1. CASE i = j
      BY <1>0, <2>2, <3>1, ChildOpens
    <3>2. CASE i # j
      BY <1>0, <2>2, <3>2, ChildKeepsOthers DEF Opened
    <3> QED BY <3>1, <3>2
  <2>3. CASE \/ Dispatch \/ CancelRun \/ Cancellation \/ Parent \/ CrashParent
             \/ Repair \/ CrashSweep
             \/ \E i \in Jobs : StaleClaim(i) \/ SettleCanceled(i) \/ SettleSweep(i) \/ AccountCost(i)
    <3>1. Resolved(j)
      BY <1>0, <2>3, OuterResolves
    <3> QED BY <3>1 DEF Opened, Resolved
  <2> QED BY <2>1, <2>2, <2>3 DEF Next
<1>2. AckedIsQuiet'
  <2> SUFFICES ASSUME run'.acked, NEW j \in Jobs
               PROVE  ~JobActive(j)' /\ job'[j].settlement # "pending"
    BY DEF AckedIsQuiet
  <2>1. CASE run.acked
    BY <1>0, <1>1, <2>1, ClosedStays DEF AckedIsQuiet, Opened
  <2>2. CASE Acknowledge
    BY <2>2 DEF Acknowledge, JobActive
  <2>3. CASE CancelRun /\ ~run.acked
    <3>0. run \in RunRow /\ job[j] \in JobRow
      BY <1>0 DEF TypeOK
    <3>1. ~run.trigger /\ ~(JobActive(j) /\ job[j].submitted)
      BY <2>3, <3>0 DEF CancelRun, RunRow
    <3>2. job[j].settlement = "not_required"
      BY <1>0, <3>1 DEF Unsent
    <3>3. CASE JobActive(j)
      <4>1. job'[j] = [job[j] EXCEPT !.status = "canceled", !.settlement = "not_required"]
        BY <2>3, <3>1, <3>3 DEF CancelRun
      <4> QED BY <3>0, <4>1 DEF JobRow, JobActive, Active
    <3>4. CASE ~JobActive(j)
      <4>1. job'[j] = job[j]
        BY <2>3, <3>4 DEF CancelRun
      <4> QED BY <3>2, <3>4, <4>1 DEF JobActive
    <3> QED BY <3>3, <3>4
  <2> QED BY <1>0, <2>1, <2>2, <2>3, RunFlags
<1>3. Unsent'
  <2> SUFFICES ASSUME ~run'.trigger
               PROVE  /\ parent'.pc \in {"none", "queued", "ended"}
                      /\ \A j \in Jobs : child'[j].pc = "none" /\ job'[j].settlement = "not_required"
    BY DEF Unsent
  <2>1. /\ ~run.trigger /\ UNCHANGED child /\ parent'.pc \in {"none", "queued", "ended"}
        /\ \A i \in Jobs : ~Child(i) /\ ~CrashChild(i)
    BY <1>0, UnsentStep
  <2>2. ASSUME NEW j \in Jobs PROVE child'[j].pc = "none" /\ job'[j].settlement = "not_required"
    <3>1. child[j].pc = "none" /\ job[j].settlement = "not_required"
      BY <1>0, <2>1 DEF Unsent
    <3>2. CASE UNCHANGED vars
      BY <3>1, <3>2 DEF vars
    <3>3. CASE Next
      <4>1. Resolved(j)
        BY <1>0, <2>1, <3>3, OuterResolves DEF Next
      <4> QED BY <2>1, <3>1, <4>1 DEF Resolved
    <3> QED BY <3>2, <3>3
  <2> QED BY <2>1, <2>2
<1> QED BY <1>2, <1>3 DEF AckSafe

\* An acknowledged cancellation has nothing left to do, and no later step of a
\* zombie task or of a reconciler reopens a job or its provider settlement.
THEOREM AckCorrect == Spec => []AckedIsQuiet
<1>1. Init => AckSafe
  BY AckInit
<1>2. Safe /\ AckSafe /\ [Next]_vars => AckSafe'
  BY AckNext
<1>3. AckSafe => AckedIsQuiet
  BY DEF AckSafe
<1> QED BY <1>1, <1>2, <1>3, SafeAlways, PTL DEF Spec

-----------------------------------------------------------------------------
(* The engine implements JobPromise.                                       *)

\* How a step moves the paid call of one job.
Called(j) ==
  \/ /\ job'[j].submitted = job[j].submitted /\ accepted'[j] = accepted[j]
  \/ /\ JobActive(j) /\ ~job[j].submitted /\ job'[j].submitted
     /\ accepted'[j] = accepted[j] /\ job'[j].status = job[j].status
     /\ job'[j].credit = job[j].credit
  \/ /\ accepted[j] = 0 /\ accepted'[j] = 0 /\ job[j].submitted /\ ~job'[j].submitted
     /\ job'[j].status = job[j].status /\ job'[j].credit = job[j].credit
  \/ /\ job[j].submitted /\ job' = job
     /\ accepted[j] = 0 /\ accepted'[j] = 1

\* The three steps around the paid call.
LEMMA CallMarked == ASSUME TypeOK, NEW i \in Jobs, MarkSubmission(i) PROVE Called(i)
<1>0. job \in [Jobs -> JobRow] /\ job[i] \in JobRow
  BY DEF TypeOK
<1>1. accepted' = accepted
  BY DEF MarkSubmission
<1>2. CASE UNCHANGED job
  BY <1>1, <1>2 DEF Called
<1>3. CASE /\ job[i].status = "running" /\ ~job[i].submitted
           /\ job' = [job EXCEPT ![i] = [job[i] EXCEPT !.submitted = TRUE, !.settlement = "pending"]]
  <2>1. job'[i] = [job[i] EXCEPT !.submitted = TRUE, !.settlement = "pending"]
    BY <1>0, <1>3
  <2>2. job'[i].submitted /\ job'[i].status = job[i].status /\ job'[i].credit = job[i].credit
    BY <1>0, <2>1 DEF JobRow
  <2> QED BY <1>1, <1>3, <2>2 DEF Called, JobActive, Active
<1> QED BY <1>2, <1>3 DEF MarkSubmission

LEMMA CallReset == ASSUME TypeOK, NEW i \in Jobs, JobSpend(i), ResetMarker(i) PROVE Called(i)
<1>0. job \in [Jobs -> JobRow] /\ job[i] \in JobRow
  BY DEF TypeOK
<1>1. CASE UNCHANGED job
  BY <1>1, ResetUnspent DEF Called
<1>2. CASE job' = [job EXCEPT ![i] = [job[i] EXCEPT !.submitted = FALSE, !.settlement = "not_required"]]
           /\ ~UNCHANGED job
  <2>1. job'[i] = [job[i] EXCEPT !.submitted = FALSE, !.settlement = "not_required"]
    BY <1>0, <1>2
  <2>2. ~job'[i].submitted /\ job'[i].status = job[i].status /\ job'[i].credit = job[i].credit
    BY <1>0, <2>1 DEF JobRow
  <2>3. accepted[i] = 0 /\ accepted' = accepted
    BY <1>2, ResetUnspent
  <2>4. job[i].submitted \in BOOLEAN /\ job'[i].submitted = FALSE
    BY <1>0, <2>1 DEF JobRow
  <2> QED BY <2>2, <2>3, <2>4 DEF Called
<1> QED BY <1>1, <1>2 DEF ResetMarker

LEMMA CallSubmitted == ASSUME TypeOK, NEW i \in Jobs, JobSpend(i), Submit(i) PROVE Called(i)
<1>1. UNCHANGED job /\ job[i].submitted /\ accepted[i] = 0
  BY DEF Submit, JobSpend
<1>2. accepted' = accepted \/ accepted' = [accepted EXCEPT ![i] = accepted[i] + 1]
  BY DEF Submit
<1>3. accepted'[i] = accepted[i] \/ accepted'[i] = 1
  BY <1>1, <1>2 DEF TypeOK
<1> QED BY <1>1, <1>3 DEF Called

\* All other steps of the child leave marker and executions alone.
LEMMA CallOther ==
  ASSUME TypeOK, NEW i \in Jobs, Child(i) \/ CrashChild(i),
         ~MarkSubmission(i), ~ResetMarker(i), ~Submit(i)
  PROVE  job'[i].submitted = job[i].submitted /\ accepted'[i] = accepted[i]
<1>0. job \in [Jobs -> JobRow] /\ job[i] \in JobRow
  BY DEF TypeOK
<1>1. CASE RecordSubmission(i)
  BY <1>0, <1>1 DEF RecordSubmission, JobRow
<1>2. CASE StageResult(i)
  <2>1. \/ UNCHANGED job
        \/ \E s : job'[i] = [job[i] EXCEPT !.staged = TRUE, !.settlement = s]
    BY <1>0, <1>2 DEF StageResult
  <2> QED BY <1>0, <1>2, <2>1 DEF StageResult, JobRow
<1>3. CASE AcceptResult(i)
  <2>1. PICK facts : /\ facts = job \/ facts = [job EXCEPT ![i].settlement = "settled"]
                     /\ job' = facts \/ job' = [facts EXCEPT ![i].status = "canceled"]
    BY <1>3 DEF AcceptResult
  <2>2. facts \in [Jobs -> JobRow] /\ facts[i].submitted = job[i].submitted
    BY <1>0, <2>1 DEF JobRow
  <2>3. job'[i].submitted = facts[i].submitted
    BY <2>1, <2>2 DEF JobRow
  <2> QED BY <1>3, <2>2, <2>3 DEF AcceptResult
<1>4. CASE ResumeJob(i) \/ Poll(i) \/ IngestOutput(i) \/ ReportSuccess(i) \/ ReadError(i) \/ CrashChild(i)
  BY <1>4 DEF ResumeJob, Poll, IngestOutput, ReportSuccess, ReadError, CrashChild
<1>5. CASE ClaimJob(i)
  <2>1. \/ UNCHANGED job \/ job' = [job EXCEPT ![i] = Settled(job[i], "captured")]
        \/ job' = [job EXCEPT ![i].status = "running"]
    BY <1>5 DEF ClaimJob
  <2> QED BY <1>5, <2>1, SettledFacts DEF ClaimJob, Active, SameFacts
<1>6. CASE RejectRequest(i) \/ FailErred(i)
  <2>1. \/ UNCHANGED job \/ job' = Closed({i}, "canceled", FALSE)
        \/ job' = [job EXCEPT ![i] = Settled([job[i] EXCEPT !.status = "failed"], "released")]
    BY <1>6 DEF RejectRequest, FailErred
  <2>2. "failed" \in Final /\ accepted' = accepted
    BY <1>6 DEF Final, RejectRequest, FailErred
  <2> QED BY <2>1, <2>2, SettledFacts DEF SameFacts
<1>7. CASE PersistOutput(i) \/ CancelErred(i)
  <2>1. (job' = job \/ job' = Closed({i}, "canceled", FALSE)) /\ accepted' = accepted
    BY <1>7 DEF PersistOutput, CancelErred
  <2> QED BY <2>1, SettledFacts DEF SameFacts
<1>8. CASE CompleteJob(i)
  <2>1. \/ UNCHANGED job \/ job' = [job EXCEPT ![i] = Settled(job[i], "captured")]
        \/ job' = [job EXCEPT ![i] = Settled([job[i] EXCEPT !.status = "succeeded"], "captured")]
        \/ job' = [job EXCEPT ![i] = Settled([job[i] EXCEPT !.status = "canceled"], "released")]
    BY <1>8 DEF CompleteJob
  <2> QED BY <1>8, <2>1, SettledFacts DEF CompleteJob, Final, SameFacts
<1>9. CASE SettleErred(i)
  <2>1. job' = job \/ \E s \in {"settled", "unknown"} : job' = [job EXCEPT ![i].settlement = s]
    BY <1>9 DEF SettleErred
  <2> QED BY <1>9, <2>1, SettledFacts DEF SettleErred, SameFacts
<1>10. CASE RetryErred(i)
  <2>1. job' = job \/ job' = [job EXCEPT ![i].status = "pending"]
    BY <1>10 DEF RetryErred
  <2> QED BY <1>10, <2>1, SettledFacts DEF RetryErred, Active, SameFacts
<1> QED BY <1>1, <1>2, <1>3, <1>4, <1>5, <1>6, <1>7, <1>8, <1>9, <1>10 DEF Child

LEMMA EveryCall == ASSUME Safe, [Next]_vars, NEW j \in Jobs PROVE Called(j)
<1>0. TypeOK /\ CreditSafe /\ JobSpend(j)
  BY DEF Safe, TypeInv, SpendSafe
<1>1. CASE UNCHANGED vars
  BY <1>1 DEF vars, Called
<1>2. ASSUME NEW i \in Jobs, Child(i) \/ CrashChild(i) PROVE Called(j)
  <2>1. CASE i = j
    BY <1>0, <1>2, <2>1, CallMarked, CallReset, CallSubmitted, CallOther DEF Called
  <2>2. CASE i # j
    BY <1>0, <1>2, <2>2, ChildKeepsOthers DEF Called
  <2> QED BY <2>1, <2>2
<1>3. CASE \/ Dispatch \/ CancelRun \/ Cancellation \/ Parent \/ CrashParent
           \/ Repair \/ CrashSweep
           \/ \E i \in Jobs : StaleClaim(i) \/ SettleCanceled(i) \/ SettleSweep(i) \/ AccountCost(i)
  BY <1>0, <1>3, OuterFacts DEF SameFacts, Called
<1> QED BY <1>1, <1>2, <1>3 DEF Next

\* An end of a job and a call of it are never the same step, and each of them
\* is a step of the promise.
LEMMA PromiseStep == ASSUME Safe, [Next]_vars, NEW j \in Jobs PROVE Promise!Step(j)
<1> DEFINE out == IF JobActive(j) THEN "open" ELSE job[j].status
           out2 == IF JobActive(j)' THEN "open" ELSE job'[j].status
<1>0. /\ TypeOK /\ TypeOK' /\ CreditSafe /\ CreditSafe' /\ JobSpend(j)
      /\ EndStep(j) /\ Called(j)
  BY TypeNext, CreditNext, EveryEndStep, EveryCall DEF Safe, TypeInv, SpendSafe
<1>1. job[j] \in JobRow /\ job'[j] \in JobRow
  BY <1>0 DEF TypeOK
<1>2. /\ job[j].credit = "captured" <=> job[j].status = "succeeded"
      /\ job'[j].credit = "captured" <=> job'[j].status = "succeeded"
  BY <1>0 DEF CreditSafe, CaptureIffSucceeded
<1>3. CASE ~UNCHANGED <<job[j].submitted, accepted[j]>>
  <2>1. job'[j].status = job[j].status /\ job'[j].credit = job[j].credit
    BY <1>0, <1>3 DEF Called
  <2>2. out2 = out
    BY <2>1 DEF JobActive
  <2>3. CASE JobActive(j) /\ ~job[j].submitted /\ job'[j].submitted /\ accepted'[j] = accepted[j]
    <3>1. job'[j].submitted = TRUE
      BY <1>1, <2>3 DEF JobRow
    <3>2. Promise!Announce(j)
      BY <2>1, <2>2, <2>3, <3>1 DEF Promise!Announce, Promise!SameEnd
    <3> QED BY <3>2 DEF Promise!Step
  <2>4. CASE accepted[j] = 0 /\ accepted'[j] = 0 /\ job[j].submitted /\ ~job'[j].submitted
    <3>1. job'[j].submitted = FALSE
      BY <1>1, <2>4 DEF JobRow
    <3>2. Promise!Withdraw(j)
      BY <2>1, <2>2, <2>4, <3>1 DEF Promise!Withdraw, Promise!SameEnd
    <3> QED BY <3>2 DEF Promise!Step
  <2>5. CASE job[j].submitted /\ job' = job /\ accepted[j] = 0 /\ accepted'[j] = 1
    <3>1. Promise!Spend(j)
      BY <2>1, <2>2, <2>5 DEF Promise!Spend, Promise!SameEnd
    <3> QED BY <3>1 DEF Promise!Step
  <2> QED BY <1>0, <1>3, <2>3, <2>4, <2>5 DEF Called
<1>4. CASE job'[j].submitted = job[j].submitted /\ accepted'[j] = accepted[j]
  <2>1. Promise!SameCall(j)
    BY <1>4 DEF Promise!SameCall
  <2>2. CASE Kept(j)
    <3>1. out2 = out /\ job'[j].credit = job[j].credit
      BY <2>2 DEF Kept, JobActive
    <3>2. Promise!SameEnd(j)
      BY <3>1 DEF Promise!SameEnd
    <3> QED BY <2>1, <3>2 DEF Promise!Step
  <2>3. CASE Ended(j)
    <3>1. out = "open" /\ out2 \in {"failed", "canceled"}
      BY <2>3 DEF Ended, JobActive, Active
    <3>2. job'[j].credit \in {job[j].credit, "released"}
      BY <1>1, <2>3 DEF Ended, Settled, JobRow
    <3>3. Promise!Close(j)
      BY <2>1, <3>1, <3>2 DEF Promise!Close
    <3> QED BY <3>3 DEF Promise!Step
  <2>4. CASE Won(j)
    <3>1. out = "open" /\ out2 = "succeeded"
      BY <2>4 DEF Won, JobActive, Active
    <3>2. job[j].credit = "reserved"
      BY <1>0, <2>4 DEF Won, CreditSafe, OpenIsReserved
    <3>3. job'[j].credit = "captured" /\ accepted[j] = 1
      BY <1>0, <1>2, <2>4 DEF Won, JobSpend, Paid
    <3>4. Promise!Succeed(j)
      BY <2>1, <3>1, <3>2, <3>3 DEF Promise!Succeed
    <3> QED BY <3>4 DEF Promise!Step
  <2>5. CASE Freed(j)
    <3>1. out2 = out /\ out # "succeeded" /\ job[j].credit = "reserved" /\ job'[j].credit = "released"
      BY <2>5 DEF Freed, JobActive
    <3>2. Promise!Release(j)
      BY <2>1, <3>1 DEF Promise!Release
    <3> QED BY <3>2 DEF Promise!Step
  <2> QED BY <1>0, <2>2, <2>3, <2>4, <2>5 DEF EndStep, Unwon
<1> QED BY <1>3, <1>4

\* After every step the mapped variables have the types the promise asks for.
LEMMA PromiseTypes ==
  ASSUME TypeOK'
  PROVE  /\ [j \in Jobs |-> IF JobActive(j) THEN "open" ELSE job[j].status]'
               \in [Jobs -> {"open", "succeeded", "failed", "canceled"}]
         /\ [j \in Jobs |-> job[j].credit]' \in [Jobs -> {"reserved", "captured", "released"}]
         /\ [j \in Jobs |-> job[j].submitted]' \in [Jobs -> BOOLEAN]
         /\ accepted' \in [Jobs -> Nat]
<1>1. \A j \in Jobs : job'[j] \in JobRow
  BY DEF TypeOK
<1>2. accepted' \in [Jobs -> Nat]
  BY DEF TypeOK
<1>3. \A j \in Jobs : (IF JobActive(j)' THEN "open" ELSE job'[j].status)
                         \in {"open", "succeeded", "failed", "canceled"}
  BY <1>1 DEF JobRow, JobActive, Active, Final
<1>4. \A j \in Jobs : /\ job'[j].credit \in {"reserved", "captured", "released"}
                      /\ job'[j].submitted \in BOOLEAN
  BY <1>1 DEF JobRow
<1> QED BY <1>2, <1>3, <1>4

LEMMA PromiseInit == ASSUME Init PROVE Promise!Init
BY DEF Init, Promise!Init, JobActive, Active

\* The run engine implements the promise made about every job: one announced
\* paid call at most, one outcome, and credits captured in the very step in
\* which the job succeeds.
THEOREM PromiseKept == Spec => KeepsPromise
<1>1. Init => Promise!Init
  BY PromiseInit
<1>2. Safe /\ Safe' /\ [Next]_vars => [Promise!Next]_(Promise!vars)
  <2> SUFFICES ASSUME Safe, Safe', [Next]_vars PROVE Promise!Next
    OBVIOUS
  <2>1. TypeOK'
    BY DEF Safe, TypeInv
  <2>2. \A j \in Jobs : Promise!Step(j)
    BY PromiseStep
  <2> QED BY <2>1, <2>2, PromiseTypes DEF Promise!Next
<1> QED BY <1>1, <1>2, SafeAlways, PTL DEF Spec, KeepsPromise, Promise!Spec
=============================================================================
