------------------------- MODULE TransferSystemProofs -------------------------
(***************************************************************************)
(* Proofs about TransferSystem that hold for every number of accounts,     *)
(* keys, workers, calls and locks.  Only the theorems on deliveries, the   *)
(* last ones, assume that BullMQ does not hand a live worker's job out     *)
(* (LiveStalls = FALSE); the others hold whether or not it does.           *)
(*                                                                         *)
(* The inductive invariant has two layers.  Bookkeeping says how the       *)
(* program counters of calls and workers, the jobs and the rows fit        *)
(* together; it makes the type invariant inductive.  Isolation says what   *)
(* the row locks of a transaction protect; NoOverdraft and                 *)
(* LockedBalanceStands follow from it.                                     *)
(***************************************************************************)
EXTENDS TransferSystem, WellFoundedInduction, TLAPS

-----------------------------------------------------------------------------
(* Bookkeeping.                                                            *)

\* A job has a row, runs within its limits, and ends with its transfer or
\* with BullMQ giving up.
JobsInv ==
  \A k \in Keys :
    /\ holder[k] # NoOne => job[k] = "active"
    /\ job[k] \in {"waiting", "active"} => attempts[k] < MaxAttempts /\ stalls[k] <= MaxStalls
    /\ job[k] # "none" => status[k] # "absent"
    /\ job[k] = "completed" => status[k] \in Terminal
    /\ job[k] = "failed" => status[k] \in Terminal \/ k \in exhausted

\* What a call knows at each of its steps.
CallsInv ==
  \A r \in Requests :
    /\ reqPc[r] # "idle" => reqKey[r] \in Keys /\ reqPayload[r] \in Payload
    /\ reqPc[r] \in {"insert", "insertTo"} =>
         /\ reqPayload[r].from # reqPayload[r].to
         /\ {reqPayload[r].from, reqPayload[r].to} \subseteq opened
    /\ reqPc[r] = "insertTo" => status[reqKey[r]] = "absent"
    /\ reqPc[r] \in {"replay", "enqueue", "enqueueAgain"} => status[reqKey[r]] # "absent"
    /\ reqPc[r] \in {"enqueue", "enqueueAgain"} => payload[reqKey[r]] = reqPayload[r]
    /\ reqPc[r] # "done" => reply[r] = "none"

\* A second insert of a key waits for the first.
InsertersInv ==
  \A r, s \in Requests :
    reqPc[r] = "insertTo" /\ reqPc[s] = "insertTo" /\ reqKey[r] = reqKey[s] => r = s

\* What a worker knows at each of its steps.
RunsInv ==
  \A w \in Workers :
    /\ wpc[w] = "idle" <=> wjob[w] = NoKey
    /\ wpc[w] # "idle" => status[wjob[w]] # "absent"
    /\ wpc[w] = "finish" => status[wjob[w]] \in Terminal
    /\ wpc[w] = "reject" => verdict[w] # "none"

\* The inductive invariant behind TypeOK.
Bookkeeping ==
  /\ TypeOK
  /\ JobsInv
  /\ CallsInv
  /\ InsertersInv
  /\ RunsInv
  /\ RowsReferenceAccounts

\* The accounts of a transfer in the executor's lock order.
LEMMA LockOrderAccounts ==
  ASSUME NEW p \in Payload
  PROVE  /\ LockOrder(p)[1] \in {p.from, p.to}
         /\ LockOrder(p)[2] \in {p.from, p.to}
         /\ p.from \in {LockOrder(p)[1], LockOrder(p)[2]}
         /\ p.to \in {LockOrder(p)[1], LockOrder(p)[2]}
         /\ p.from # p.to => LockOrder(p)[1] < LockOrder(p)[2]
  <1>1. p.from \in Nat /\ p.to \in Nat
    BY AccountsAssumption DEF Payload
  <1>2. CASE p.from < p.to
    <2>1. LockOrder(p) = <<p.from, p.to>>
      BY <1>2 DEF LockOrder
    <2> QED
      BY <2>1, <1>2
  <1>3. CASE ~ p.from < p.to
    <2>1. LockOrder(p) = <<p.to, p.from>>
      BY <1>3 DEF LockOrder
    <2> QED
      BY <2>1, <1>1, <1>3
  <1> QED
    BY <1>2, <1>3

\* A worker that has a job has the row of a transfer between two accounts.
LEMMA WorkerPayload ==
  ASSUME Bookkeeping, NEW w \in Workers, wpc[w] # "idle"
  PROVE  /\ wjob[w] \in Keys
         /\ status[wjob[w]] # "absent"
         /\ payload[wjob[w]] \in Payload
         /\ payload[wjob[w]].from \in opened
         /\ payload[wjob[w]].to \in opened
         /\ payload[wjob[w]].from # payload[wjob[w]].to
         /\ opened \subseteq Accounts
  BY DEF Bookkeeping, TypeOK, WorkerTypeOK, DbTypeOK, RunsInv, RowsReferenceAccounts

\* The initial values have their types.
LEMMA TypeInit == Init => TypeOK
  BY QueueAssumption
  DEF Init, DbInit, QueueInit, ServiceInit, WorkerInit,
      TypeOK, DbTypeOK, QueueTypeOK, ServiceTypeOK, WorkerTypeOK

\* The bookkeeping holds while there is no call, job or row.
LEMMA BookkeepingInit == Init => Bookkeeping
  BY TypeInit
  DEF Init, DbInit, QueueInit, ServiceInit, WorkerInit,
      Bookkeeping, JobsInv, CallsInv, InsertersInv, RunsInv, RowsReferenceAccounts

-----------------------------------------------------------------------------
(* Types.                                                                  *)

\* Every action keeps the types; a worker's accounts are accounts, and a job
\* that is still queued or active is within its limits.
LEMMA TypeStep ==
  ASSUME Bookkeeping, [Next]_vars
  PROVE  TypeOK'
  <1> USE DEF Bookkeeping, TypeOK, DbTypeOK, QueueTypeOK, ServiceTypeOK, WorkerTypeOK,
              vars, dbVars, queueVars, serviceVars, workerVars
  <1>1. ASSUME NEW r \in Requests, NEW k \in Keys, NEW p \in Payload,
               Receive(r, k, p), UNCHANGED workerVars
        PROVE  TypeOK'
    BY <1>1 DEF Receive, GoTo, Answer
  <1>2. ASSUME NEW r \in Requests, UNCHANGED workerVars,
               \/ InsertRow(r) \/ UniqueViolation(r) \/ Replay(r) \/ RequestFails(r)
        PROVE  TypeOK'
    BY <1>2 DEF InsertRow, UniqueViolation, Replay, RequestFails, GoTo, Answer
  <1>3. ASSUME NEW r \in Requests, CommitRow(r), UNCHANGED workerVars
        PROVE  TypeOK'
    BY <1>3 DEF CommitRow, GoTo
  <1>4. ASSUME NEW r \in Requests, Enqueue(r), UNCHANGED workerVars
        PROVE  TypeOK'
    <2>1. PICK k \in Keys : Add(k)
      BY <1>4 DEF Enqueue, CallsInv
    <2>2. QueueTypeOK'
      <3>1. 0 \in 0 .. MaxAttempts /\ 0 \in 0 .. MaxStalls + 1
        BY QueueAssumption
      <3> QED
        BY <2>1, <3>1 DEF Add
    <2>3. reply' \in [Requests -> {"none", "200", "202", "404", "409", "422", "500"}]
      BY <1>4 DEF Enqueue, Answer
    <2> QED
      BY <1>4, <2>2, <2>3 DEF Enqueue, Answer
  <1>5. ASSUME NEW w \in Workers, NEW k \in Keys, TakeJob(w, k)
        PROVE  TypeOK'
    BY <1>5 DEF TakeJob, Step, Activate
  <1>6. ASSUME NEW w \in Workers, ReadRow(w) \/ CheckPasses(w)
        PROVE  TypeOK'
    BY <1>6 DEF ReadRow, CheckPasses, Step, InTransaction
  <1>7. ASSUME NEW w \in Workers, Lock1(w) \/ Lock2(w)
        PROVE  TypeOK'
    <2>1. wpc[w] # "idle"
      BY <1>7 DEF Lock1, Lock2, Step
    <2>2. PICK a \in Accounts : LockAccount(w, a)
      BY <1>7, <2>1, WorkerPayload, LockOrderAccounts DEF Lock1, Lock2
    <2>3. wpc' \in [Workers -> InTransaction \cup {"idle", "read", "reject", "finish", "errored"}]
      BY <1>7 DEF Lock1, Lock2, Step, InTransaction
    <2> QED
      BY <2>2, <2>3 DEF LockAccount, Hold
  <1>8. ASSUME NEW w \in Workers, CheckRejects(w)
        PROVE  TypeOK'
    BY <1>8 DEF CheckRejects, Step, Rejection, LocksReleasedBy, Reasons
  <1>9. ASSUME NEW w \in Workers, Commit(w)
        PROVE  TypeOK'
    <2> DEFINE p == payload[wjob[w]]
    <2>1. wjob[w] \in Keys /\ p \in Payload
      BY <1>9, WorkerPayload DEF Commit, Step
    <2>2. p.amount \in Nat
      BY <2>1, AmountsAssumption DEF Payload
    <2>3. balance' \in [Accounts -> Int]
      BY <1>9, <2>2 DEF Commit
    <2>4. DbTypeOK'
      BY <1>9, <2>1, <2>3 DEF Commit, LocksReleasedBy, Terminal
    <2>5. WorkerTypeOK'
      BY <1>9 DEF Commit, Step, Forget
    <2> QED
      BY <1>9, <2>4, <2>5 DEF Commit
  <1>10. ASSUME NEW w \in Workers, PersistFailure(w)
         PROVE  TypeOK'
    BY <1>10, WorkerPayload DEF PersistFailure, Step, Forget, Terminal
  <1>11. ASSUME NEW w \in Workers, FinishJob(w)
         PROVE  TypeOK'
    BY <1>11 DEF FinishJob, Step, MoveToCompleted
  <1>12. ASSUME NEW w \in Workers, FailJob(w)
         PROVE  TypeOK'
    BY <1>12, WorkerPayload, ActorsAssumption, QueueAssumption
    DEF FailJob, Step, MoveToFailed, Requeue, JobsInv
  <1>13. ASSUME NEW w \in Workers, InfraError(w) \/ Crash(w)
         PROVE  TypeOK'
    BY <1>13 DEF InfraError, Crash, Orphan, Forget, LocksReleasedBy
  <1>14. ASSUME NEW k \in Keys, StalledCheck(k), UNCHANGED <<dbVars, serviceVars, workerVars>>
         PROVE  TypeOK'
    BY <1>14, QueueAssumption DEF StalledCheck, Requeue, JobsInv
  <1>15. ASSUME NEW k \in Keys, Evict(k), UNCHANGED <<dbVars, serviceVars, workerVars>>
         PROVE  TypeOK'
    BY <1>15 DEF Evict
  <1>16. ASSUME NEW a \in Accounts, NEW d \in Deposits, OpenAccount(a, d)
         PROVE  TypeOK'
    BY <1>16, DepositsAssumption DEF OpenAccount
  <1>17. ASSUME NEW l \in LockIds, NEW a \in Accounts, BeginLock(l, a)
         PROVE  TypeOK'
    BY <1>17 DEF BeginLock, Hold
  <1>18. ASSUME NEW l \in LockIds, CommitLock(l) \/ AbortLock(l) \/ ReleaseLock(l)
         PROVE  TypeOK'
    BY <1>18 DEF CommitLock, AbortLock, EndLock, ReleaseLock, LocksReleasedBy
  <1>19. CASE UNCHANGED vars
    BY <1>19
  <1> QED
    BY <1>1, <1>2, <1>3, <1>4, <1>5, <1>6, <1>7, <1>8, <1>9, <1>10, <1>11, <1>12, <1>13,
       <1>14, <1>15, <1>16, <1>17, <1>18, <1>19
    DEF Next, ExecutorStep

-----------------------------------------------------------------------------
(* The rest of the bookkeeping.                                            *)

\* Rows are inserted by calls that checked their accounts, and stay.
LEMMA RowsStep ==
  ASSUME Bookkeeping, [Next]_vars
  PROVE  RowsReferenceAccounts'
  <1> USE DEF Bookkeeping, TypeOK, DbTypeOK, RowsReferenceAccounts
  <1>1. CASE UNCHANGED <<payload, status, opened>>
    BY <1>1
  <1>2. ASSUME NEW r \in Requests, CommitRow(r)
        PROVE  RowsReferenceAccounts'
    <2>1. /\ reqKey[r] \in Keys
          /\ reqPayload[r] \in Payload
          /\ reqPayload[r].from # reqPayload[r].to
          /\ {reqPayload[r].from, reqPayload[r].to} \subseteq opened
      BY <1>2 DEF CommitRow, CallsInv
    <2> QED
      BY <1>2, <2>1, PayloadAssumption DEF CommitRow
  <1>3. ASSUME NEW w \in Workers, Commit(w) \/ PersistFailure(w)
        PROVE  RowsReferenceAccounts'
    BY <1>3, WorkerPayload DEF Commit, PersistFailure, Step
  <1>4. ASSUME NEW a \in Accounts, NEW d \in Deposits, OpenAccount(a, d)
        PROVE  RowsReferenceAccounts'
    BY <1>4 DEF OpenAccount
  <1> QED
    BY <1>1, <1>2, <1>3, <1>4
    DEF Next, ExecutorStep, vars, dbVars, Receive, InsertRow, UniqueViolation, Replay, Enqueue,
        RequestFails, TakeJob, ReadRow, Lock1, Lock2, LockAccount, CheckPasses, CheckRejects,
        FinishJob, FailJob, InfraError, Crash, BeginLock, CommitLock, AbortLock, EndLock,
        ReleaseLock

\* Jobs follow their rows: a worker completes a job only when its transfer is
\* settled, and BullMQ fails one only when it gives up.
LEMMA JobsStep ==
  ASSUME Bookkeeping, [Next]_vars
  PROVE  JobsInv'
  <1> USE DEF Bookkeeping, TypeOK, DbTypeOK, QueueTypeOK, JobsInv
  <1>1. CASE UNCHANGED <<queueVars, status>>
    BY <1>1 DEF queueVars
  <1>2. ASSUME NEW r \in Requests, CommitRow(r)
        PROVE  JobsInv'
    BY <1>2 DEF CommitRow, CallsInv, queueVars
  <1>3. ASSUME NEW r \in Requests, Enqueue(r)
        PROVE  JobsInv'
    <2> DEFINE k == reqKey[r]
    <2>1. k \in Keys /\ status[k] # "absent"
      BY <1>3 DEF Enqueue, CallsInv
    <2>2. CASE job[k] = "none"
      BY <1>3, <2>1, <2>2, QueueAssumption DEF Enqueue, Add, dbVars
    <2>3. CASE job[k] # "none"
      BY <1>3, <2>1, <2>3 DEF Enqueue, Add, dbVars
    <2> QED
      BY <2>2, <2>3
  <1>4. ASSUME NEW w \in Workers, NEW k \in Keys, TakeJob(w, k)
        PROVE  JobsInv'
    BY <1>4, ActorsAssumption DEF TakeJob, Activate, dbVars
  <1>5. ASSUME NEW w \in Workers, Commit(w) \/ PersistFailure(w)
        PROVE  JobsInv'
    BY <1>5, WorkerPayload DEF Commit, PersistFailure, Step, Terminal, queueVars
  <1>6. ASSUME NEW w \in Workers, FinishJob(w)
        PROVE  JobsInv'
    BY <1>6, WorkerPayload DEF FinishJob, Step, MoveToCompleted, RunsInv, queueVars, dbVars
  <1>7. ASSUME NEW w \in Workers, FailJob(w)
        PROVE  JobsInv'
    BY <1>7, WorkerPayload, QueueAssumption, ActorsAssumption
    DEF FailJob, Step, MoveToFailed, Requeue, RunsInv, queueVars, dbVars
  <1>8. ASSUME NEW w \in Workers, Crash(w)
        PROVE  JobsInv'
    BY <1>8 DEF Crash, Orphan
  <1>9. ASSUME NEW k \in Keys, StalledCheck(k), UNCHANGED dbVars
        PROVE  JobsInv'
    BY <1>9, QueueAssumption DEF StalledCheck, Requeue, dbVars
  <1>10. ASSUME NEW k \in Keys, Evict(k), UNCHANGED dbVars
         PROVE  JobsInv'
    BY <1>10 DEF Evict, dbVars
  <1> QED
    BY <1>1, <1>2, <1>3, <1>4, <1>5, <1>6, <1>7, <1>8, <1>9, <1>10
    DEF Next, ExecutorStep, vars, dbVars, Receive, InsertRow, UniqueViolation, Replay,
        RequestFails, ReadRow, Lock1, Lock2, LockAccount, CheckPasses, CheckRejects,
        InfraError, OpenAccount, BeginLock, CommitLock, AbortLock, EndLock, ReleaseLock

\* No other call, worker or account can invalidate what a call knows.
LEMMA CallsStep ==
  ASSUME Bookkeeping, [Next]_vars
  PROVE  CallsInv'
  <1> USE DEF Bookkeeping, TypeOK, DbTypeOK, ServiceTypeOK, CallsInv
  <1>1. CASE UNCHANGED <<serviceVars, payload, status, opened>>
    BY <1>1 DEF serviceVars
  <1>2. ASSUME NEW r \in Requests, NEW k \in Keys, NEW p \in Payload, Receive(r, k, p)
        PROVE  CallsInv'
    BY <1>2 DEF Receive, AccountsExist, GoTo, Answer, dbVars
  <1>3. ASSUME NEW r \in Requests,
               InsertRow(r) \/ UniqueViolation(r) \/ Replay(r) \/ RequestFails(r)
        PROVE  CallsInv'
    BY <1>3 DEF InsertRow, UniqueViolation, Replay, RequestFails, GoTo, Answer, dbVars
  <1>4. ASSUME NEW r \in Requests, CommitRow(r)
        PROVE  CallsInv'
    BY <1>4 DEF CommitRow, GoTo, InsertersInv
  <1>5. ASSUME NEW r \in Requests, Enqueue(r)
        PROVE  CallsInv'
    BY <1>5 DEF Enqueue, Answer, dbVars
  <1>6. ASSUME NEW w \in Workers, Commit(w) \/ PersistFailure(w)
        PROVE  CallsInv'
    BY <1>6, WorkerPayload DEF Commit, PersistFailure, Step, serviceVars
  <1>7. ASSUME NEW a \in Accounts, NEW d \in Deposits, OpenAccount(a, d)
        PROVE  CallsInv'
    BY <1>7 DEF OpenAccount, serviceVars
  <1> QED
    BY <1>1, <1>2, <1>3, <1>4, <1>5, <1>6, <1>7
    DEF Next, ExecutorStep, vars, dbVars, TakeJob, ReadRow, Lock1, Lock2, LockAccount, CheckPasses,
        CheckRejects, FinishJob, FailJob, InfraError, Crash, BeginLock, CommitLock, AbortLock,
        EndLock, ReleaseLock

\* The unique index lets one insert of a key through.
LEMMA InsertersStep ==
  ASSUME Bookkeeping, [Next]_vars
  PROVE  InsertersInv'
  <1> USE DEF Bookkeeping, TypeOK, ServiceTypeOK, InsertersInv
  <1>1. CASE UNCHANGED serviceVars
    BY <1>1 DEF serviceVars
  <1>2. ASSUME NEW r \in Requests, NEW k \in Keys, NEW p \in Payload, Receive(r, k, p)
        PROVE  InsertersInv'
    BY <1>2 DEF Receive, GoTo, Answer
  <1>3. ASSUME NEW r \in Requests, InsertRow(r)
        PROVE  InsertersInv'
    BY <1>3 DEF InsertRow, Inserting, GoTo
  <1>4. ASSUME NEW r \in Requests,
               CommitRow(r) \/ UniqueViolation(r) \/ Replay(r) \/ Enqueue(r) \/ RequestFails(r)
        PROVE  InsertersInv'
    BY <1>4 DEF CommitRow, UniqueViolation, Replay, Enqueue, RequestFails, GoTo, Answer
  <1> QED
    BY <1>1, <1>2, <1>3, <1>4
    DEF Next, ExecutorStep, vars, TakeJob, ReadRow, Lock1, Lock2, LockAccount, CheckPasses,
        CheckRejects, Commit, PersistFailure, FinishJob, FailJob, InfraError, Crash, OpenAccount,
        BeginLock, CommitLock, AbortLock, EndLock, ReleaseLock

\* No call or other worker can invalidate what a worker knows.
LEMMA RunsStep ==
  ASSUME Bookkeeping, [Next]_vars
  PROVE  RunsInv'
  <1> USE DEF Bookkeeping, TypeOK, DbTypeOK, WorkerTypeOK, RunsInv
  <1>1. CASE UNCHANGED <<wpc, wjob, verdict, status>>
    BY <1>1
  <1>2. ASSUME NEW r \in Requests, CommitRow(r), UNCHANGED workerVars
        PROVE  RunsInv'
    BY <1>2, WorkerPayload DEF CommitRow, CallsInv, workerVars, Terminal
  <1>3. ASSUME NEW w \in Workers, NEW k \in Keys, TakeJob(w, k)
        PROVE  RunsInv'
    BY <1>3, AbsentAssumption DEF TakeJob, Step, Activate, JobsInv, dbVars
  <1>4. ASSUME NEW w \in Workers, ReadRow(w)
        PROVE  RunsInv'
    BY <1>4, WorkerPayload DEF ReadRow, Step, Terminal, dbVars
  <1>5. ASSUME NEW w \in Workers, Lock1(w) \/ Lock2(w) \/ CheckPasses(w)
        PROVE  RunsInv'
    BY <1>5, WorkerPayload DEF Lock1, Lock2, CheckPasses, LockAccount, Step, dbVars
  <1>6. ASSUME NEW w \in Workers, CheckRejects(w)
        PROVE  RunsInv'
    BY <1>6, WorkerPayload DEF CheckRejects, Step
  <1>7. ASSUME NEW w \in Workers, Commit(w) \/ PersistFailure(w)
        PROVE  RunsInv'
    BY <1>7, WorkerPayload DEF Commit, PersistFailure, Step, Forget, Terminal
  <1>8. ASSUME NEW w \in Workers, FinishJob(w) \/ FailJob(w) \/ InfraError(w) \/ Crash(w)
        PROVE  RunsInv'
    BY <1>8, WorkerPayload, AbsentAssumption
    DEF FinishJob, FailJob, InfraError, Crash, Step, Forget, InTransaction, dbVars
  <1> QED
    BY <1>1, <1>2, <1>3, <1>4, <1>5, <1>6, <1>7, <1>8
    DEF Next, ExecutorStep, vars, dbVars, workerVars, Receive, InsertRow, UniqueViolation, Replay,
        Enqueue, RequestFails, StalledCheck, Evict, OpenAccount, BeginLock, CommitLock, AbortLock,
        EndLock, ReleaseLock

\* Every action keeps the bookkeeping.
LEMMA BookkeepingStep ==
  ASSUME Bookkeeping, [Next]_vars
  PROVE  Bookkeeping'
  BY TypeStep, JobsStep, CallsStep, InsertersStep, RunsStep, RowsStep DEF Bookkeeping

\* The bookkeeping holds in every reachable state.
LEMMA BookkeepingHolds == Spec => []Bookkeeping
  BY BookkeepingInit, BookkeepingStep, PTL DEF Spec

\* Every variable keeps its type, whatever the numbers of accounts, keys,
\* workers, calls and locks.
THEOREM TypeCorrect == Spec => []TypeOK
  BY BookkeepingHolds, PTL DEF Bookkeeping

\* The executor never meets an account that does not exist: its
\* ACCOUNT_NOT_FOUND branch is dead (executor.ts:60-62).
THEOREM RowsCorrect == Spec => []RowsReferenceAccounts
  BY BookkeepingHolds, PTL DEF Bookkeeping

-----------------------------------------------------------------------------
(* Isolation: what a transaction's row locks protect.                      *)

\* A worker in the middle of its transaction holds the rows it has locked.
RowLocksInv ==
  \A w \in Workers :
    /\ wpc[w] = "lock2" => rowLock[LockOrder(payload[wjob[w]])[1]] = w
    /\ wpc[w] \in {"check", "commit"} =>
         rowLock[payload[wjob[w]].from] = w /\ rowLock[payload[wjob[w]].to] = w

\* A lock that is being created holds the row of its account.
LockRowsInv ==
  \A l \in LockIds :
    /\ lockState[l] \in {"creating", "active"} => lockAccount[l] \in opened
    /\ lockState[l] = "creating" => rowLock[lockAccount[l]] = l

\* The balance that a transaction has read is the balance of the source.
ReadsInv ==
  \A w \in Workers :
    /\ wpc[w] = "lock2" /\ LockOrder(payload[wjob[w]])[1] = payload[wjob[w]].from =>
         seen[w] = balance[payload[wjob[w]].from]
    /\ wpc[w] \in {"check", "commit"} => seen[w] = balance[payload[wjob[w]].from]

\* What its checks found still holds when it commits.
ChecksInv ==
  \A w \in Workers : wpc[w] = "commit" =>
    /\ seen[w] >= payload[wjob[w]].amount
    /\ ~ ActiveLock(payload[wjob[w]].from)
    /\ ~ ActiveLock(payload[wjob[w]].to)

\* The inductive invariant behind NoOverdraft and LockedBalanceStands.
Isolation ==
  /\ Bookkeeping
  /\ RowLocksInv
  /\ LockRowsInv
  /\ ReadsInv
  /\ ChecksInv
  /\ NoOverdraft

\* No transaction is open at first.
LEMMA IsolationInit == Init => Isolation
  BY BookkeepingInit
  DEF Init, DbInit, WorkerInit, Isolation, RowLocksInv, LockRowsInv, ReadsInv, ChecksInv,
      NoOverdraft

\* The transfers of other workers are untouched when a pending row is added.
LEMMA PayloadOfRuns ==
  ASSUME Bookkeeping, NEW r \in Requests, CommitRow(r), UNCHANGED workerVars,
         NEW w \in Workers, wpc[w] # "idle"
  PROVE  payload'[wjob'[w]] = payload[wjob[w]]
  BY WorkerPayload
  DEF Bookkeeping, TypeOK, DbTypeOK, CommitRow, CallsInv, workerVars

\* The rows a worker locks are rows of accounts.
LEMMA RunAccounts ==
  ASSUME Bookkeeping, NEW w \in Workers, wpc[w] # "idle"
  PROVE  /\ LockOrder(payload[wjob[w]])[1] \in Accounts
         /\ LockOrder(payload[wjob[w]])[2] \in Accounts
         /\ payload[wjob[w]].from \in Accounts
         /\ payload[wjob[w]].to \in Accounts
  BY WorkerPayload, LockOrderAccounts

\* FOR UPDATE waits: nobody takes or releases another transaction's rows.
LEMMA RowLocksStep ==
  ASSUME Isolation, [Next]_vars
  PROVE  RowLocksInv'
  <1> USE ActorsAssumption
      DEF Isolation, Bookkeeping, TypeOK, DbTypeOK, WorkerTypeOK, RowLocksInv
  <1>1. CASE UNCHANGED <<wpc, wjob, payload, rowLock>>
    BY <1>1
  <1>2. ASSUME NEW r \in Requests, CommitRow(r), UNCHANGED workerVars
        PROVE  RowLocksInv'
    <2>1. UNCHANGED <<wpc, wjob, rowLock>>
      BY <1>2 DEF CommitRow, workerVars
    <2>2. \A w \in Workers : wpc[w] # "idle" => payload'[wjob[w]] = payload[wjob[w]]
      BY <1>2, <2>1, PayloadOfRuns
    <2> QED
      BY <2>1, <2>2
  <1>3. ASSUME NEW w \in Workers,
               \/ \E k \in Keys : TakeJob(w, k)
               \/ ReadRow(w) \/ CheckPasses(w) \/ PersistFailure(w) \/ FinishJob(w) \/ FailJob(w)
        PROVE  RowLocksInv'
    BY <1>3
    DEF TakeJob, ReadRow, CheckPasses, PersistFailure, FinishJob, FailJob, Step, dbVars
  <1>4. ASSUME NEW w \in Workers, Lock1(w)
        PROVE  RowLocksInv'
    <2>1. /\ LockOrder(payload[wjob[w]])[1] \in Accounts
          /\ rowLock[LockOrder(payload[wjob[w]])[1]] = NoOne
          /\ rowLock' = [rowLock EXCEPT ![LockOrder(payload[wjob[w]])[1]] = w]
      BY <1>4, WorkerPayload, LockOrderAccounts DEF Lock1, LockAccount, Step, Free, Hold
    <2>2. /\ wpc' = [wpc EXCEPT ![w] = "lock2"]
          /\ UNCHANGED <<wjob, payload>>
      BY <1>4 DEF Lock1, LockAccount, Step
    <2> QED
      BY <2>1, <2>2
  <1>5. ASSUME NEW w \in Workers, Lock2(w)
        PROVE  RowLocksInv'
    <2> DEFINE p == payload[wjob[w]]
    <2>1. /\ LockOrder(p)[2] \in Accounts
          /\ p.from \in {LockOrder(p)[1], LockOrder(p)[2]}
          /\ p.to \in {LockOrder(p)[1], LockOrder(p)[2]}
          /\ p.from \in Accounts /\ p.to \in Accounts
          /\ rowLock[LockOrder(p)[1]] = w
      BY <1>5, WorkerPayload, LockOrderAccounts DEF Lock2, Step
    <2>2. /\ rowLock[LockOrder(p)[2]] = NoOne
          /\ rowLock' = [rowLock EXCEPT ![LockOrder(p)[2]] = w]
          /\ wpc' = [wpc EXCEPT ![w] = "check"]
          /\ UNCHANGED <<wjob, payload>>
      BY <1>5 DEF Lock2, LockAccount, Step, Free, Hold
    <2>3. rowLock'[p.from] = w /\ rowLock'[p.to] = w
      BY <2>1, <2>2
    <2>4. ASSUME NEW v \in Workers \ {w}, NEW a \in Accounts, rowLock[a] = v
          PROVE  rowLock'[a] = v
      BY <2>2, <2>4
    <2>5. wpc'[w] = "check" /\ \A v \in Workers \ {w} : wpc'[v] = wpc[v]
      BY <2>2
    <2> QED
      BY <2>2, <2>3, <2>4, <2>5, RunAccounts
  <1>6. ASSUME NEW w \in Workers, CheckRejects(w) \/ Commit(w) \/ InfraError(w) \/ Crash(w)
        PROVE  RowLocksInv'
    <2>1. /\ rowLock' = LocksReleasedBy(w)
          /\ wpc'[w] \notin {"lock2", "check", "commit"}
          /\ \A v \in Workers \ {w} : wpc'[v] = wpc[v] /\ wjob'[v] = wjob[v]
          /\ UNCHANGED payload
      BY <1>6 DEF CheckRejects, Commit, InfraError, Crash, Step
    <2>2. ASSUME NEW v \in Workers \ {w}, NEW a \in Accounts, rowLock[a] = v
          PROVE  rowLock'[a] = v
      BY <2>1, <2>2 DEF LocksReleasedBy
    <2> QED
      BY <2>1, <2>2, RunAccounts
  <1>7. ASSUME NEW l \in LockIds, NEW a \in Accounts, BeginLock(l, a)
        PROVE  RowLocksInv'
    BY <1>7 DEF BeginLock, Free, Hold, workerVars
  <1>8. ASSUME NEW l \in LockIds, CommitLock(l) \/ AbortLock(l)
        PROVE  RowLocksInv'
    <2>1. rowLock' = LocksReleasedBy(l) /\ UNCHANGED <<wpc, wjob, payload>>
      BY <1>8 DEF CommitLock, AbortLock, EndLock, workerVars
    <2>2. ASSUME NEW v \in Workers, NEW a \in Accounts, rowLock[a] = v
          PROVE  rowLock'[a] = v
      BY <2>1, <2>2 DEF LocksReleasedBy
    <2> QED
      BY <2>1, <2>2, RunAccounts
  <1> QED
    BY <1>1, <1>2, <1>3, <1>4, <1>5, <1>6, <1>7, <1>8
    DEF Next, ExecutorStep, vars, dbVars, workerVars, Receive, InsertRow, UniqueViolation, Replay,
        Enqueue, RequestFails, StalledCheck, Evict, OpenAccount, ReleaseLock

\* The creation of a lock keeps its account row until it ends.
LEMMA LockRowsStep ==
  ASSUME Isolation, [Next]_vars
  PROVE  LockRowsInv'
  <1> USE ActorsAssumption DEF Isolation, Bookkeeping, TypeOK, DbTypeOK, LockRowsInv
  <1>1. CASE UNCHANGED <<opened, rowLock, lockState, lockAccount>>
    BY <1>1
  <1>2. ASSUME NEW w \in Workers, Lock1(w) \/ Lock2(w)
        PROVE  LockRowsInv'
    <2>1. PICK a \in Accounts : LockAccount(w, a)
      BY <1>2, RunAccounts DEF Lock1, Lock2, Step
    <2> QED
      BY <2>1 DEF LockAccount, Free, Hold
  <1>3. ASSUME NEW w \in Workers, CheckRejects(w) \/ Commit(w) \/ InfraError(w) \/ Crash(w)
        PROVE  LockRowsInv'
    BY <1>3 DEF CheckRejects, Commit, InfraError, Crash, LocksReleasedBy
  <1>4. ASSUME NEW a \in Accounts, NEW d \in Deposits, OpenAccount(a, d)
        PROVE  LockRowsInv'
    BY <1>4 DEF OpenAccount
  <1>5. ASSUME NEW l \in LockIds, NEW a \in Accounts, BeginLock(l, a)
        PROVE  LockRowsInv'
    BY <1>5 DEF BeginLock, Free, Hold
  <1>6. ASSUME NEW l \in LockIds, CommitLock(l) \/ AbortLock(l) \/ ReleaseLock(l)
        PROVE  LockRowsInv'
    BY <1>6 DEF CommitLock, AbortLock, EndLock, ReleaseLock, LocksReleasedBy
  <1> QED
    BY <1>1, <1>2, <1>3, <1>4, <1>5, <1>6
    DEF Next, ExecutorStep, vars, dbVars, workerVars, Receive, InsertRow, CommitRow,
        UniqueViolation, Replay, Enqueue, RequestFails, TakeJob, ReadRow, CheckPasses,
        PersistFailure, FinishJob, FailJob, StalledCheck, Evict

\* A balance changes only under its row lock, so what was read stays true.
LEMMA ReadsStep ==
  ASSUME Isolation, [Next]_vars
  PROVE  ReadsInv'
  <1> USE DEF Isolation, Bookkeeping, TypeOK, DbTypeOK, WorkerTypeOK, ReadsInv
  <1>1. CASE UNCHANGED <<wpc, wjob, seen, payload, balance>>
    BY <1>1
  <1>2. ASSUME NEW r \in Requests, CommitRow(r), UNCHANGED workerVars
        PROVE  ReadsInv'
    <2>1. UNCHANGED <<wpc, wjob, seen, balance>>
      BY <1>2 DEF CommitRow, workerVars
    <2>2. \A w \in Workers : wpc[w] # "idle" => payload'[wjob[w]] = payload[wjob[w]]
      BY <1>2, <2>1, PayloadOfRuns
    <2> QED
      BY <2>1, <2>2
  <1>3. ASSUME NEW w \in Workers,
               \/ \E k \in Keys : TakeJob(w, k)
               \/ ReadRow(w) \/ CheckPasses(w) \/ CheckRejects(w) \/ PersistFailure(w)
               \/ FinishJob(w) \/ FailJob(w) \/ InfraError(w) \/ Crash(w)
        PROVE  ReadsInv'
    BY <1>3
    DEF TakeJob, ReadRow, CheckPasses, CheckRejects, PersistFailure, FinishJob, FailJob,
        InfraError, Crash, Step, Forget, dbVars
  <1>4. ASSUME NEW w \in Workers, Lock1(w)
        PROVE  ReadsInv'
    <2> DEFINE p == payload[wjob[w]]
    <2>1. /\ wpc' = [wpc EXCEPT ![w] = "lock2"]
          /\ seen' = [seen EXCEPT ![w] = IF LockOrder(p)[1] = p.from
                                           THEN balance[LockOrder(p)[1]] ELSE seen[w]]
          /\ UNCHANGED <<wjob, payload, balance>>
      BY <1>4 DEF Lock1, LockAccount, Step
    <2> QED
      BY <2>1
  <1>5. ASSUME NEW w \in Workers, Lock2(w)
        PROVE  ReadsInv'
    <2> DEFINE p == payload[wjob[w]]
    <2>1. /\ wpc[w] = "lock2"
          /\ wpc' = [wpc EXCEPT ![w] = "check"]
          /\ seen' = [seen EXCEPT ![w] = IF LockOrder(p)[2] = p.from
                                           THEN balance[LockOrder(p)[2]] ELSE seen[w]]
          /\ UNCHANGED <<wjob, payload, balance>>
      BY <1>5 DEF Lock2, LockAccount, Step
    <2>2. p.from \in {LockOrder(p)[1], LockOrder(p)[2]}
      BY <2>1, WorkerPayload, LockOrderAccounts
    <2> QED
      BY <2>1, <2>2
  <1>6. ASSUME NEW w \in Workers, Commit(w)
        PROVE  ReadsInv'
    <2> DEFINE p == payload[wjob[w]]
    <2>1. /\ wpc[w] = "commit"
          /\ wpc'[w] \notin {"lock2", "check", "commit"}
          /\ \A v \in Workers \ {w} : wpc'[v] = wpc[v] /\ seen'[v] = seen[v]
          /\ UNCHANGED <<wjob, payload>>
      BY <1>6 DEF Commit, Step, Forget
    <2>2. ASSUME NEW a \in Accounts, a # p.from, a # p.to
          PROVE  balance'[a] = balance[a]
      BY <1>6, <2>2 DEF Commit
    <2>3. rowLock[p.from] = w /\ rowLock[p.to] = w
      BY <2>1 DEF RowLocksInv
    <2>4. ASSUME NEW v \in Workers \ {w}, wpc[v] # "idle", rowLock[payload[wjob[v]].from] = v
          PROVE  balance'[payload[wjob[v]].from] = balance[payload[wjob[v]].from]
      BY <2>2, <2>3, <2>4, RunAccounts
    <2>5. ASSUME NEW v \in Workers \ {w},
                 \/ wpc[v] = "lock2" /\ LockOrder(payload[wjob[v]])[1] = payload[wjob[v]].from
                 \/ wpc[v] \in {"check", "commit"}
          PROVE  rowLock[payload[wjob[v]].from] = v
      BY <2>5 DEF RowLocksInv
    <2> QED
      BY <2>1, <2>4, <2>5
  <1>7. ASSUME NEW a \in Accounts, NEW d \in Deposits, OpenAccount(a, d)
        PROVE  ReadsInv'
    <2>1. /\ UNCHANGED <<wpc, wjob, seen, payload>>
          /\ a \notin opened
          /\ balance' = [balance EXCEPT ![a] = d]
      BY <1>7 DEF OpenAccount, workerVars
    <2>2. \A w \in Workers : wpc[w] # "idle" => payload[wjob[w]].from # a
      BY <2>1, WorkerPayload
    <2> QED
      BY <2>1, <2>2, RunAccounts
  <1> QED
    BY <1>1, <1>2, <1>3, <1>4, <1>5, <1>6, <1>7
    DEF Next, ExecutorStep, vars, dbVars, workerVars, Receive, InsertRow, UniqueViolation, Replay,
        Enqueue, RequestFails, StalledCheck, Evict, BeginLock, CommitLock, AbortLock, EndLock,
        ReleaseLock

\* A lock can only be committed by whoever holds the account row.
LEMMA ChecksStep ==
  ASSUME Isolation, [Next]_vars
  PROVE  ChecksInv'
  <1> USE DEF Isolation, Bookkeeping, TypeOK, DbTypeOK, WorkerTypeOK, ChecksInv
  <1>1. CASE UNCHANGED <<wpc, wjob, seen, payload, lockState, lockAccount>>
    BY <1>1 DEF ActiveLock
  <1>2. ASSUME NEW r \in Requests, CommitRow(r), UNCHANGED workerVars
        PROVE  ChecksInv'
    <2>1. UNCHANGED <<wpc, wjob, seen, lockState, lockAccount>>
      BY <1>2 DEF CommitRow, workerVars
    <2>2. \A w \in Workers : wpc[w] # "idle" => payload'[wjob[w]] = payload[wjob[w]]
      BY <1>2, <2>1, PayloadOfRuns
    <2> QED
      BY <2>1, <2>2 DEF ActiveLock
  <1>3. ASSUME NEW w \in Workers,
               \/ \E k \in Keys : TakeJob(w, k)
               \/ ReadRow(w) \/ Lock1(w) \/ Lock2(w) \/ CheckRejects(w) \/ Commit(w)
               \/ PersistFailure(w) \/ FinishJob(w) \/ FailJob(w) \/ InfraError(w) \/ Crash(w)
        PROVE  ChecksInv'
    <2>1. /\ UNCHANGED <<payload, lockState, lockAccount>>
          /\ wpc'[w] # "commit"
          /\ \A v \in Workers \ {w} : wpc'[v] = wpc[v] /\ wjob'[v] = wjob[v] /\ seen'[v] = seen[v]
      BY <1>3
      DEF TakeJob, ReadRow, Lock1, Lock2, LockAccount, CheckRejects, Commit, PersistFailure,
          FinishJob, FailJob, InfraError, Crash, Step, Forget, dbVars
    <2> QED
      BY <2>1 DEF ActiveLock
  <1>4. ASSUME NEW w \in Workers, CheckPasses(w)
        PROVE  ChecksInv'
    <2> DEFINE p == payload[wjob[w]]
    <2>1. ~ ActiveLock(p.from) /\ ~ ActiveLock(p.to) /\ ~ seen[w] < p.amount
      BY <1>4 DEF CheckPasses, Rejection
    <2>2. p.amount \in Nat
      <3>1. wpc[w] # "idle"
        BY <1>4 DEF CheckPasses, Step
      <3> QED
        BY <3>1, WorkerPayload, AmountsAssumption DEF Payload
    <2>3. /\ UNCHANGED <<wjob, seen, payload, lockState, lockAccount>>
          /\ \A v \in Workers \ {w} : wpc'[v] = wpc[v]
      BY <1>4 DEF CheckPasses, Step, dbVars
    <2> QED
      BY <2>1, <2>2, <2>3 DEF ActiveLock
  <1>5. ASSUME NEW l \in LockIds, NEW a \in Accounts, BeginLock(l, a)
        PROVE  ChecksInv'
    BY <1>5 DEF BeginLock, ActiveLock, workerVars
  <1>6. ASSUME NEW l \in LockIds, CommitLock(l)
        PROVE  ChecksInv'
    <2>1. /\ rowLock[lockAccount[l]] = l
          /\ lockState' = [lockState EXCEPT ![l] = "active"]
          /\ UNCHANGED <<wpc, wjob, seen, payload>>
          /\ \A x \in LockIds : lockAccount'[x] = lockAccount[x]
      BY <1>6 DEF CommitLock, EndLock, LockRowsInv, workerVars
    <2>2. ASSUME NEW w \in Workers, wpc[w] = "commit"
          PROVE  /\ lockAccount[l] # payload[wjob[w]].from
                 /\ lockAccount[l] # payload[wjob[w]].to
      BY <2>1, <2>2, ActorsAssumption DEF RowLocksInv
    <2> QED
      BY <2>1, <2>2 DEF ActiveLock
  <1>7. ASSUME NEW l \in LockIds, AbortLock(l) \/ ReleaseLock(l)
        PROVE  ChecksInv'
    BY <1>7 DEF AbortLock, EndLock, ReleaseLock, ActiveLock, workerVars
  <1> QED
    BY <1>1, <1>2, <1>3, <1>4, <1>5, <1>6, <1>7
    DEF Next, ExecutorStep, vars, dbVars, workerVars, Receive, InsertRow, UniqueViolation, Replay,
        Enqueue, RequestFails, StalledCheck, Evict, OpenAccount

\* A debit is covered by the balance that was read.
LEMMA OverdraftStep ==
  ASSUME Isolation, [Next]_vars
  PROVE  NoOverdraft'
  <1> USE DEF Isolation, Bookkeeping, TypeOK, DbTypeOK, NoOverdraft
  <1>1. CASE UNCHANGED balance
    BY <1>1
  <1>2. ASSUME NEW w \in Workers, Commit(w)
        PROVE  NoOverdraft'
    <2> DEFINE p == payload[wjob[w]]
    <2>1. wpc[w] = "commit"
      BY <1>2 DEF Commit, Step
    <2>2. p.from \in Accounts /\ p.to \in Accounts /\ p.from # p.to
      BY <2>1, WorkerPayload, RunAccounts
    <2>3. p.amount \in Nat /\ balance[p.from] >= p.amount
      BY <2>1, WorkerPayload, AmountsAssumption DEF Payload, ReadsInv, ChecksInv
    <2>4. \A a \in Accounts :
            balance'[a] = balance[a] + (IF a = p.to THEN p.amount ELSE 0)
                                     - (IF a = p.from THEN p.amount ELSE 0)
      BY <1>2 DEF Commit
    <2> QED
      BY <2>2, <2>3, <2>4
  <1>3. ASSUME NEW a \in Accounts, NEW d \in Deposits, OpenAccount(a, d)
        PROVE  NoOverdraft'
    BY <1>3, DepositsAssumption DEF OpenAccount
  <1> QED
    BY <1>1, <1>2, <1>3
    DEF Next, ExecutorStep, vars, dbVars, workerVars, Receive, InsertRow, CommitRow,
        UniqueViolation, Replay, Enqueue, RequestFails, TakeJob, ReadRow, Lock1, Lock2, LockAccount,
        CheckPasses, CheckRejects, PersistFailure, FinishJob, FailJob, InfraError, Crash,
        StalledCheck, Evict, BeginLock, CommitLock, AbortLock, EndLock, ReleaseLock

\* Every action keeps the isolation.
LEMMA IsolationStep ==
  ASSUME Isolation, [Next]_vars
  PROVE  Isolation'
  <1>1. Bookkeeping'
    BY BookkeepingStep DEF Isolation
  <1> QED
    BY <1>1, RowLocksStep, LockRowsStep, ReadsStep, ChecksStep, OverdraftStep DEF Isolation

\* The isolation holds in every reachable state.
LEMMA IsolationHolds == Spec => []Isolation
  BY IsolationInit, IsolationStep, PTL DEF Spec

\* No account is ever overdrawn, even when BullMQ hands a job to two workers:
\* the CHECK of accounts never refuses an update.
THEOREM NeverOverdrawn == Spec => []NoOverdraft
  BY IsolationHolds, PTL DEF Isolation

\* A transfer that commits has seen that neither of its accounts is locked.
LEMMA LockedStep ==
  ASSUME Isolation, [Next]_vars, NEW a \in Accounts, ActiveLock(a)
  PROVE  balance'[a] = balance[a]
  <1> USE DEF Isolation, Bookkeeping, TypeOK, DbTypeOK
  <1>1. CASE UNCHANGED balance
    BY <1>1
  <1>2. ASSUME NEW w \in Workers, Commit(w)
        PROVE  balance'[a] = balance[a]
    <2>1. a # payload[wjob[w]].from /\ a # payload[wjob[w]].to
      BY <1>2 DEF Commit, Step, ChecksInv
    <2> QED
      BY <1>2, <2>1 DEF Commit
  <1>3. ASSUME NEW b \in Accounts, NEW d \in Deposits, OpenAccount(b, d)
        PROVE  balance'[a] = balance[a]
    BY <1>3 DEF OpenAccount, ActiveLock, LockRowsInv
  <1> QED
    BY <1>1, <1>2, <1>3
    DEF Next, ExecutorStep, vars, dbVars, workerVars, Receive, InsertRow, CommitRow,
        UniqueViolation, Replay, Enqueue, RequestFails, TakeJob, ReadRow, Lock1, Lock2,
        LockAccount, CheckPasses, CheckRejects, PersistFailure, FinishJob, FailJob, InfraError,
        Crash, StalledCheck, Evict, BeginLock, CommitLock, AbortLock, EndLock, ReleaseLock

\* Once a lock of an account is committed, its balance stands.
THEOREM LockedBalancesStand == Spec => LockedBalanceStands
  <1> DEFINE Stands == \A a \in Accounts : ActiveLock(a) => balance'[a] = balance[a]
  <1>1. Isolation /\ [Next]_vars => [Stands]_vars
    BY LockedStep
  <1> QED
    BY <1>1, IsolationHolds, PTL DEF Spec, LockedBalanceStands

\* Money only moves: a step that changes a balance opens an account with its
\* deposit, or takes the amount of one transfer, which is then completed, from
\* its source and adds it to its destination (executor.ts:80-96), even when two
\* workers run the same transfer.
THEOREM MoneyOnlyMoves ==
  Spec => [][\/ UNCHANGED balance
             \/ \E a \in Accounts \ opened, d \in Deposits :
                  balance' = [balance EXCEPT ![a] = d]
             \/ \E k \in Keys :
                  LET p == payload[k] IN
                  /\ status'[k] = "completed" /\ p.from # p.to
                  /\ balance' = [a \in Accounts |->
                       IF a = p.from THEN balance[a] - p.amount
                       ELSE IF a = p.to THEN balance[a] + p.amount ELSE balance[a]]]_vars
  <1> DEFINE Moves(k) == LET p == payload[k] IN
               /\ status'[k] = "completed" /\ p.from # p.to
               /\ balance' = [a \in Accounts |->
                    IF a = p.from THEN balance[a] - p.amount
                    ELSE IF a = p.to THEN balance[a] + p.amount ELSE balance[a]]
             Opens == \E a \in Accounts \ opened, d \in Deposits :
                        balance' = [balance EXCEPT ![a] = d]
  <1>1. ASSUME Bookkeeping, [Next]_vars
        PROVE  [UNCHANGED balance \/ Opens \/ \E k \in Keys : Moves(k)]_vars
    <2> USE <1>1 DEF Bookkeeping, TypeOK
    <2>1. ASSUME NEW w \in Workers, Commit(w)
          PROVE  \E k \in Keys : Moves(k)
      <3> DEFINE k == wjob[w]
                 p == payload[k]
      <3>1. /\ k \in Keys /\ p \in Payload
            /\ {p.from, p.to} \subseteq Accounts /\ p.from # p.to
        BY <2>1, WorkerPayload DEF Commit, Step, InTransaction
      <3>2. /\ balance \in [Accounts -> Int] /\ p.amount \in Nat
            /\ status \in [Keys -> {"absent", "pending"} \cup Terminal]
        <4>1. /\ balance \in [Accounts -> Int]
              /\ status \in [Keys -> {"absent", "pending"} \cup Terminal]
          BY DEF DbTypeOK
        <4>2. p.amount \in Nat
          BY <3>1, AmountsAssumption DEF Payload
        <4> QED
          BY <4>1, <4>2
      <3>3. balance' = [a \in Accounts |->
                IF a = p.from THEN balance[a] - p.amount
                ELSE IF a = p.to THEN balance[a] + p.amount ELSE balance[a]]
        <4>1. balance' = [a \in Accounts |->
                 balance[a] + (IF a = p.to THEN p.amount ELSE 0)
                            - (IF a = p.from THEN p.amount ELSE 0)]
          BY <2>1 DEF Commit
        <4>2. \A a \in Accounts :
                balance[a] + (IF a = p.to THEN p.amount ELSE 0)
                           - (IF a = p.from THEN p.amount ELSE 0)
                = IF a = p.from THEN balance[a] - p.amount
                  ELSE IF a = p.to THEN balance[a] + p.amount ELSE balance[a]
          <5> HIDE DEF p
          <5> QED BY <3>1, <3>2
        <4> HIDE DEF p
        <4> QED BY <4>1, <4>2
      <3>4. status'[k] = "completed"
        BY <2>1, <3>1, <3>2 DEF Commit
      <3> QED
        BY <3>1, <3>3, <3>4
    <2>2. ASSUME NEW a \in Accounts, NEW d \in Deposits, OpenAccount(a, d)
          PROVE  Opens
      BY <2>2 DEF OpenAccount
    <2>3. CASE UNCHANGED balance
      BY <2>3
    <2> QED
      BY <2>1, <2>2, <2>3
      DEF Next, ExecutorStep, vars, dbVars, workerVars, Receive, InsertRow, CommitRow,
          UniqueViolation, Replay, Enqueue, RequestFails, TakeJob, ReadRow, Lock1, Lock2,
          LockAccount, CheckPasses, CheckRejects, PersistFailure, FinishJob, FailJob, InfraError,
          Crash, StalledCheck, Evict, BeginLock, CommitLock, AbortLock, EndLock, ReleaseLock
  <1> QED
    BY <1>1, BookkeepingStep, BookkeepingInit, PTL DEF Spec

-----------------------------------------------------------------------------
(* Accepted transfers are never forgotten.                                 *)

\* The invariant that carries AcceptedIsNeverForgotten.
AcceptedInv == Bookkeeping /\ AcceptedIsNeverForgotten

\* No call was answered at first.
LEMMA AcceptedInit == Init => AcceptedInv
  BY BookkeepingInit DEF Init, ServiceInit, AcceptedInv, AcceptedIsNeverForgotten

\* No crash, retry, eviction or replay loses an accepted transfer.
LEMMA AcceptedStep ==
  ASSUME AcceptedInv, [Next]_vars
  PROVE  AcceptedIsNeverForgotten'
  <1> USE DEF AcceptedInv, Bookkeeping, TypeOK, DbTypeOK, QueueTypeOK, ServiceTypeOK,
              AcceptedIsNeverForgotten
  <1>0. \A r \in Requests : reply[r] \in {"200", "202"} =>
          reqPc[r] = "done" /\ reqKey[r] \in Keys /\ status[reqKey[r]] # "absent"
    BY DEF CallsInv, Terminal
  <1>1. CASE UNCHANGED <<reply, reqKey, reqPayload, payload, status, job, exhausted>>
    BY <1>1
  <1>2. ASSUME NEW r \in Requests, NEW k \in Keys, NEW p \in Payload, Receive(r, k, p)
        PROVE  AcceptedIsNeverForgotten'
    BY <1>0, <1>2 DEF Receive, GoTo, Answer, CallsInv, dbVars, queueVars
  <1>3. ASSUME NEW r \in Requests, CommitRow(r)
        PROVE  AcceptedIsNeverForgotten'
    BY <1>0, <1>3 DEF CommitRow, GoTo, CallsInv, queueVars
  <1>4. ASSUME NEW r \in Requests, Replay(r)
        PROVE  AcceptedIsNeverForgotten'
    BY <1>0, <1>4 DEF Replay, GoTo, Answer, CallsInv, Terminal, dbVars, queueVars
  <1>5. ASSUME NEW r \in Requests, Enqueue(r)
        PROVE  AcceptedIsNeverForgotten'
    <2> DEFINE k == reqKey[r]
    <2>1. /\ k \in Keys
          /\ payload[k] = reqPayload[r]
          /\ status[k] \in {"pending"} \cup Terminal
      BY <1>5 DEF Enqueue, CallsInv
    <2>2. /\ UNCHANGED <<payload, status, reqKey, reqPayload, exhausted>>
          /\ \A s \in Requests \ {r} : reply'[s] = reply[s]
          /\ \A j \in Keys \ {k} : job'[j] = job[j]
      BY <1>5 DEF Enqueue, Add, Answer, dbVars
    <2>3. IF job[k] = "none" THEN job'[k] = "waiting" ELSE job'[k] = job[k]
      BY <1>5, <2>1 DEF Enqueue, Add
    <2>4. \/ status[k] \in Terminal
          \/ status[k] = "pending" /\ (job'[k] \in {"waiting", "active"} \/ k \in exhausted)
      BY <2>1, <2>3 DEF JobsInv
    <2>5. ASSUME NEW s \in Requests, reply'[s] \in {"200", "202"}
          PROVE  /\ payload'[reqKey'[s]] = reqPayload'[s]
                 /\ \/ status'[reqKey'[s]] \in Terminal
                    \/ /\ status'[reqKey'[s]] = "pending"
                       /\ job'[reqKey'[s]] \in {"waiting", "active"} \/ reqKey'[s] \in exhausted'
      <3>1. CASE reqKey[s] = k
        <4>1. payload[k] = reqPayload[s]
          BY <1>0, <2>1, <2>2, <2>5, <3>1
        <4> QED
          BY <2>2, <2>4, <3>1, <4>1
      <3>2. CASE reqKey[s] # k
        <4>1. s # r /\ reply[s] \in {"200", "202"} /\ reqKey[s] \in Keys \ {k}
          BY <1>0, <2>2, <2>5, <3>2
        <4> QED
          BY <2>2, <4>1
      <3> QED
        BY <3>1, <3>2
    <2> QED
      BY <2>5
  <1>6. ASSUME NEW r \in Requests, RequestFails(r)
        PROVE  AcceptedIsNeverForgotten'
    BY <1>6 DEF RequestFails, Answer, dbVars, queueVars
  <1>7. ASSUME NEW w \in Workers, NEW k \in Keys, TakeJob(w, k)
        PROVE  AcceptedIsNeverForgotten'
    BY <1>0, <1>7 DEF TakeJob, Activate, dbVars, serviceVars
  <1>8. ASSUME NEW w \in Workers, Commit(w) \/ PersistFailure(w)
        PROVE  AcceptedIsNeverForgotten'
    BY <1>0, <1>8, WorkerPayload
    DEF Commit, PersistFailure, Step, Terminal, queueVars, serviceVars
  <1>9. ASSUME NEW w \in Workers, FinishJob(w) \/ FailJob(w)
        PROVE  AcceptedIsNeverForgotten'
    BY <1>0, <1>9, WorkerPayload
    DEF FinishJob, FailJob, MoveToCompleted, MoveToFailed, Requeue, Step, RunsInv, dbVars, queueVars,
        serviceVars
  <1>10. ASSUME NEW k \in Keys, StalledCheck(k) \/ Evict(k),
                UNCHANGED <<dbVars, serviceVars, workerVars>>
         PROVE  AcceptedIsNeverForgotten'
    BY <1>0, <1>10 DEF StalledCheck, Requeue, Evict, JobsInv, dbVars, serviceVars
  <1> QED
    BY <1>1, <1>2, <1>3, <1>4, <1>5, <1>6, <1>7, <1>8, <1>9, <1>10
    DEF Next, ExecutorStep, vars, dbVars, queueVars, serviceVars, workerVars, InsertRow,
        UniqueViolation, GoTo, ReadRow, Lock1, Lock2, LockAccount, CheckPasses, CheckRejects,
        InfraError, Crash, Orphan, OpenAccount, BeginLock, CommitLock, AbortLock, EndLock,
        ReleaseLock

\* A call that was answered 200 or 202 has a row, and the row is settled, on
\* its way, or given up by BullMQ, through every crash, retry and eviction.
THEOREM AcceptedNeverForgotten == Spec => []AcceptedIsNeverForgotten
  <1>1. AcceptedInv /\ [Next]_vars => AcceptedInv'
    BY AcceptedStep, BookkeepingStep DEF AcceptedInv
  <1> QED
    BY AcceptedInit, <1>1, PTL DEF Spec, AcceptedInv

-----------------------------------------------------------------------------
(* One call creates a transfer.                                            *)

\* The call that created its transfer, before and after its answer.
Creates(r) == reqPc[r] = "enqueue" \/ reply[r] = "202"

\* A creator's row exists, and a key has one creator.
CreatorsInv ==
  /\ \A r \in Requests : Creates(r) => reqKey[r] \in Keys /\ status[reqKey[r]] # "absent"
  /\ \A r, s \in Requests : Creates(r) /\ Creates(s) /\ reqKey[r] = reqKey[s] => r = s

\* Only the call whose insert commits becomes a creator.
LEMMA CreatorsStep ==
  ASSUME Bookkeeping, CreatorsInv, [Next]_vars
  PROVE  CreatorsInv'
  <1> USE DEF Bookkeeping, TypeOK, DbTypeOK, ServiceTypeOK, CreatorsInv, Creates
  <1>1. CASE UNCHANGED <<serviceVars, status>>
    BY <1>1 DEF serviceVars
  <1>2. ASSUME NEW r \in Requests, NEW k \in Keys, NEW p \in Payload, Receive(r, k, p)
        PROVE  CreatorsInv'
    BY <1>2 DEF Receive, GoTo, Answer, CallsInv, dbVars
  <1>3. ASSUME NEW r \in Requests,
               InsertRow(r) \/ UniqueViolation(r) \/ Replay(r) \/ Enqueue(r) \/ RequestFails(r)
        PROVE  CreatorsInv'
    <2>1. /\ UNCHANGED <<reqKey, status>>
          /\ \A s \in Requests \ {r} : reqPc'[s] = reqPc[s] /\ reply'[s] = reply[s]
          /\ Creates(r)' => Creates(r)
      BY <1>3
      DEF InsertRow, UniqueViolation, Replay, Enqueue, RequestFails, GoTo, Answer, dbVars
    <2> QED
      BY <2>1
  <1>4. ASSUME NEW r \in Requests, CommitRow(r)
        PROVE  CreatorsInv'
    BY <1>4 DEF CommitRow, GoTo, CallsInv
  <1>5. ASSUME NEW w \in Workers, Commit(w) \/ PersistFailure(w)
        PROVE  CreatorsInv'
    BY <1>5, WorkerPayload DEF Commit, PersistFailure, Step, serviceVars
  <1> QED
    BY <1>1, <1>2, <1>3, <1>4, <1>5
    DEF Next, ExecutorStep, vars, dbVars, TakeJob, ReadRow, Lock1, Lock2, LockAccount, CheckPasses,
        CheckRejects, FinishJob, FailJob, InfraError, Crash, OpenAccount, BeginLock, CommitLock,
        AbortLock, EndLock, ReleaseLock

\* Of all the calls with one key, at most one is told that it created the
\* transfer.
THEOREM OneCreatorPerKey == Spec => []OneCallCreates
  <1>1. Init => CreatorsInv
    BY DEF Init, ServiceInit, CreatorsInv, Creates
  <1>2. Bookkeeping /\ CreatorsInv /\ [Next]_vars => CreatorsInv'
    BY CreatorsStep
  <1>3. CreatorsInv => OneCallCreates
    BY DEF CreatorsInv, Creates, OneCallCreates
  <1> QED
    BY <1>1, <1>2, <1>3, BookkeepingHolds, PTL DEF Spec

-----------------------------------------------------------------------------
(* Executors do not deadlock.                                              *)

\* A worker holds no rows but those its transaction has locked.
HeldRowsInv ==
  \A w \in Workers, a \in Accounts : rowLock[a] = w =>
    \/ wpc[w] = "lock2" /\ a = LockOrder(payload[wjob[w]])[1]
    \/ wpc[w] \in {"check", "commit"}

\* The invariant that carries ExecutorsNeverDeadlock.
DeadlockInv == Bookkeeping /\ HeldRowsInv

\* No rows are held at first.
LEMMA HeldRowsInit == Init => HeldRowsInv
  BY ActorsAssumption DEF Init, DbInit, HeldRowsInv

\* Every action keeps the rows a worker holds to those it has locked.
LEMMA HeldRowsStep ==
  ASSUME DeadlockInv, [Next]_vars
  PROVE  HeldRowsInv'
  <1> USE ActorsAssumption
      DEF DeadlockInv, Bookkeeping, TypeOK, DbTypeOK, WorkerTypeOK, HeldRowsInv
  <1>1. CASE UNCHANGED <<wpc, wjob, payload, rowLock>>
    BY <1>1
  <1>2. ASSUME NEW r \in Requests, CommitRow(r), UNCHANGED workerVars
        PROVE  HeldRowsInv'
    <2>1. UNCHANGED <<wpc, wjob, rowLock>>
      BY <1>2 DEF CommitRow, workerVars
    <2>2. \A w \in Workers : wpc[w] # "idle" => payload'[wjob[w]] = payload[wjob[w]]
      BY <1>2, <2>1, PayloadOfRuns
    <2> QED
      BY <2>1, <2>2
  <1>3. ASSUME NEW w \in Workers,
               \/ \E k \in Keys : TakeJob(w, k)
               \/ ReadRow(w) \/ CheckPasses(w) \/ PersistFailure(w) \/ FinishJob(w) \/ FailJob(w)
        PROVE  HeldRowsInv'
    BY <1>3
    DEF TakeJob, ReadRow, CheckPasses, PersistFailure, FinishJob, FailJob, Step, dbVars
  <1>4. ASSUME NEW w \in Workers, Lock1(w) \/ Lock2(w)
        PROVE  HeldRowsInv'
    BY <1>4 DEF Lock1, Lock2, LockAccount, Step, Hold
  <1>5. ASSUME NEW w \in Workers, CheckRejects(w) \/ Commit(w) \/ InfraError(w) \/ Crash(w)
        PROVE  HeldRowsInv'
    <2>1. /\ rowLock' = LocksReleasedBy(w)
          /\ \A v \in Workers \ {w} : wpc'[v] = wpc[v] /\ wjob'[v] = wjob[v]
          /\ UNCHANGED payload
      BY <1>5 DEF CheckRejects, Commit, InfraError, Crash, Step
    <2>2. ASSUME NEW v \in Workers, NEW a \in Accounts, rowLock'[a] = v
          PROVE  v # w /\ rowLock[a] = v
      BY <2>1, <2>2 DEF LocksReleasedBy
    <2> QED
      BY <2>1, <2>2
  <1>6. ASSUME NEW l \in LockIds, NEW a \in Accounts, BeginLock(l, a)
        PROVE  HeldRowsInv'
    BY <1>6 DEF BeginLock, Hold, workerVars
  <1>7. ASSUME NEW l \in LockIds, CommitLock(l) \/ AbortLock(l)
        PROVE  HeldRowsInv'
    BY <1>7 DEF CommitLock, AbortLock, EndLock, LocksReleasedBy, workerVars
  <1> QED
    BY <1>1, <1>2, <1>3, <1>4, <1>5, <1>6, <1>7
    DEF Next, ExecutorStep, vars, dbVars, workerVars, Receive, InsertRow, UniqueViolation, Replay,
        Enqueue, RequestFails, StalledCheck, Evict, OpenAccount, ReleaseLock

\* A nonempty set of naturals with an upper bound has a largest element.
LEMMA LargestNatural ==
  ASSUME NEW N \in Nat, NEW T, T \subseteq 0 .. N, T # {}
  PROVE  \E x \in T : \A y \in T : y <= x
  <1> DEFINE U == {u \in Nat : N - u \in T}
             Less == OpToRel(<, Nat)
  <1>1. U \subseteq Nat
    OBVIOUS
  <1>2. U # {}
    <2>1. PICK x \in T : TRUE
      OBVIOUS
    <2>2. N - x \in Nat /\ N - (N - x) = x
      BY <2>1
    <2> QED
      BY <2>2
  <1>3. \E u \in U : \A v \in U : ~ (<<v, u>> \in Less)
    <2>1. IsWellFoundedOn(Less, Nat)
      BY NatLessThanWellFounded
    <2> HIDE DEF U, Less
    <2> QED
      BY <1>1, <1>2, <2>1, WFMin
  <1>4. PICK u \in U : \A v \in U : ~ (<<v, u>> \in Less)
    BY <1>3
  <1>5. \A v \in U : ~ (v < u)
    BY <1>1, <1>4 DEF OpToRel
  <1>6. ASSUME NEW y \in T
        PROVE  y <= N - u
    <2>1. y \in 0 .. N
      BY <1>6
    <2>2. N - y \in U
      BY <1>6, <2>1
    <2>3. ~ (N - y < u) /\ u \in Nat
      BY <1>5, <2>2
    <2> QED
      BY <2>1, <2>3
  <1> QED
    BY <1>6

\* Account ids are uuids, hence bounded.  Along a chain of waiting executors
\* the accounts waited for increase, so the chain has an end.
LEMMA ChainEnds ==
  ASSUME NEW N \in Nat, Accounts \subseteq 0 .. N, DeadlockInv
  PROVE  ExecutorsNeverDeadlock
  <1> SUFFICES ASSUME NEW S \in SUBSET Workers, Deadlocked(S)
               PROVE  FALSE
    BY DEF ExecutorsNeverDeadlock
  <1> DEFINE First(w) == LockOrder(payload[wjob[w]])[1]
             Second(w) == LockOrder(payload[wjob[w]])[2]
             T == {a \in Accounts : \E w \in S : wpc[w] = "lock2" /\ a = Second(w)}
  <1>1. ASSUME NEW t \in S, NEW u \in S, Waits(t, u)
        PROVE  \/ wpc[t] = "lock1" /\ rowLock[First(t)] = u
               \/ wpc[t] = "lock2" /\ rowLock[Second(t)] = u
    <2>1. t \notin Requests /\ u \notin Requests
      BY ActorsAssumption
    <2> QED
      BY <1>1, <2>1 DEF Waits
  <1>2. \A t \in S : wpc[t] \in {"lock1", "lock2"} /\ \E u \in S : Waits(t, u)
    BY <1>1 DEF Deadlocked
  <1>3. ASSUME NEW w \in S
        PROVE  /\ First(w) \in Accounts /\ Second(w) \in Accounts
               /\ First(w) < Second(w)
    BY <1>2, WorkerPayload, RunAccounts, LockOrderAccounts DEF DeadlockInv
  \* Whoever is waited for holds its first account and waits for its second.
  <1>4. ASSUME NEW t \in S, NEW u \in S, NEW a \in Accounts, rowLock[a] = u
        PROVE  wpc[u] = "lock2" /\ a = First(u)
    BY <1>2, <1>4 DEF DeadlockInv, HeldRowsInv
  <1>5. T # {}
    <2>1. PICK t \in S, u \in S : Waits(t, u)
      BY <1>2 DEF Deadlocked
    <2>2. wpc[u] = "lock2"
      <3>1. PICK a \in Accounts : rowLock[a] = u
        BY <1>1, <1>3, <2>1
      <3> QED
        BY <1>4, <3>1
    <2> QED
      BY <1>3, <2>2
  <1>6. PICK a \in T : \A b \in T : b <= a
    <2>1. T \subseteq 0 .. N
      OBVIOUS
    <2> QED
      BY <1>5, <2>1, LargestNatural
  <1>7. PICK t \in S : wpc[t] = "lock2" /\ a = Second(t)
    OBVIOUS
  <1>8. PICK u \in S : rowLock[Second(t)] = u
    BY <1>1, <1>2, <1>7
  <1>9. wpc[u] = "lock2" /\ a = First(u)
    BY <1>3, <1>4, <1>7, <1>8
  <1>10. Second(u) \in T /\ a < Second(u)
    BY <1>3, <1>9
  <1>11. a \in Nat /\ Second(u) \in Nat /\ Second(u) <= a
    BY <1>6, <1>10, AccountsAssumption
  <1> QED
    BY <1>10, <1>11

\* Executors never wait for each other in a circle, however many there are.
THEOREM ExecutorsDeadlockFree ==
  ASSUME NEW N \in Nat, Accounts \subseteq 0 .. N
  PROVE  Spec => []ExecutorsNeverDeadlock
  <1>1. Init => DeadlockInv
    BY BookkeepingInit, HeldRowsInit DEF DeadlockInv
  <1>2. DeadlockInv /\ [Next]_vars => DeadlockInv'
    BY BookkeepingStep, HeldRowsStep DEF DeadlockInv
  <1>3. DeadlockInv => ExecutorsNeverDeadlock
    BY ChainEnds
  <1> QED
    BY <1>1, <1>2, <1>3, PTL DEF Spec

-----------------------------------------------------------------------------
(* Exactly once, for a queue that hands a job out again only when its      *)
(* worker is gone: a live worker keeps the lock of its job.  The run       *)
(* "twice" shows that the hypothesis is needed.                            *)

\* A worker holds the lock of the job it runs.
HoldersInv == \A w \in Workers : wpc[w] # "idle" => holder[wjob[w]] = w

\* What the processor read before the transaction is still true in it.
PendingInv ==
  \A w \in Workers :
    wpc[w] \in InTransaction \cup {"reject"} => status[wjob[w]] = "pending"

\* The inductive invariant behind ExactlyOnce.
DeliveryInv ==
  /\ Bookkeeping
  /\ HoldersInv
  /\ PendingInv
  /\ ExactlyOnce

\* No job is held and nothing has moved at first.
LEMMA DeliveryInit == Init => DeliveryInv
  BY BookkeepingInit
  DEF Init, DbInit, WorkerInit, DeliveryInv, HoldersInv, PendingInv, ExactlyOnce, InTransaction

\* Two workers never run one transfer.
LEMMA RunsAreApart ==
  ASSUME DeliveryInv, NEW v \in Workers, NEW w \in Workers,
         wpc[v] # "idle", wpc[w] # "idle", v # w
  PROVE  wjob[v] # wjob[w]
  BY DEF DeliveryInv, HoldersInv

\* Only the worker that runs a job can lose or give up its lock.
LEMMA HoldersStep ==
  ASSUME DeliveryInv, LiveStalls = FALSE, [Next]_vars
  PROVE  HoldersInv'
  <1> USE ActorsAssumption
      DEF DeliveryInv, Bookkeeping, TypeOK, QueueTypeOK, WorkerTypeOK, HoldersInv
  <1>1. CASE UNCHANGED <<wpc, wjob, holder>>
    BY <1>1
  <1>2. ASSUME NEW w \in Workers, NEW k \in Keys, TakeJob(w, k)
        PROVE  HoldersInv'
    BY <1>2, WorkerPayload DEF TakeJob, Step, Activate, JobsInv
  <1>3. ASSUME NEW w \in Workers,
               \/ ReadRow(w) \/ Lock1(w) \/ Lock2(w) \/ CheckPasses(w) \/ CheckRejects(w)
               \/ Commit(w) \/ PersistFailure(w) \/ InfraError(w)
        PROVE  HoldersInv'
    <2>1. /\ UNCHANGED <<wjob, holder>>
          /\ wpc[w] # "idle"
          /\ \A v \in Workers \ {w} : wpc'[v] = wpc[v]
      BY <1>3
      DEF ReadRow, Lock1, Lock2, LockAccount, CheckPasses, CheckRejects, Commit, PersistFailure,
          InfraError, InTransaction, Step, queueVars
    <2> QED
      BY <2>1
  <1>4. ASSUME NEW w \in Workers, FinishJob(w) \/ FailJob(w)
        PROVE  HoldersInv'
    <2>1. /\ \A v \in Workers \ {w} : wpc'[v] = wpc[v] /\ wjob'[v] = wjob[v]
          /\ wpc[w] # "idle" /\ wpc'[w] = "idle"
          /\ \A k \in Keys \ {wjob[w]} : holder'[k] = holder[k]
      BY <1>4
      DEF FinishJob, FailJob, Step, MoveToCompleted, MoveToFailed, Requeue, queueVars
    <2> QED
      BY <2>1, WorkerPayload
  <1>5. ASSUME NEW w \in Workers, Crash(w)
        PROVE  HoldersInv'
    BY <1>5, WorkerPayload DEF Crash, Orphan
  <1>6. ASSUME NEW k \in Keys, StalledCheck(k), UNCHANGED workerVars
        PROVE  HoldersInv'
    BY <1>6, WorkerPayload DEF StalledCheck, Requeue, workerVars
  <1> QED
    BY <1>1, <1>2, <1>3, <1>4, <1>5, <1>6
    DEF Next, ExecutorStep, vars, workerVars, queueVars, Receive, InsertRow, CommitRow,
        UniqueViolation, Replay, Enqueue, Add, RequestFails, Evict, OpenAccount, BeginLock,
        CommitLock, AbortLock, EndLock, ReleaseLock

\* Only the worker that runs a transfer settles it.
LEMMA PendingStep ==
  ASSUME DeliveryInv, [Next]_vars
  PROVE  PendingInv'
  <1> USE DEF DeliveryInv, Bookkeeping, TypeOK, DbTypeOK, WorkerTypeOK, PendingInv, InTransaction
  <1>1. CASE UNCHANGED <<wpc, wjob, status>>
    BY <1>1
  <1>2. ASSUME NEW r \in Requests, CommitRow(r), UNCHANGED workerVars
        PROVE  PendingInv'
    BY <1>2, WorkerPayload DEF CommitRow, CallsInv, workerVars
  <1>3. ASSUME NEW w \in Workers,
               \/ \E k \in Keys : TakeJob(w, k)
               \/ FinishJob(w) \/ FailJob(w) \/ InfraError(w) \/ Crash(w)
        PROVE  PendingInv'
    BY <1>3 DEF TakeJob, FinishJob, FailJob, InfraError, Crash, Step, dbVars
  <1>4. ASSUME NEW w \in Workers,
               ReadRow(w) \/ Lock1(w) \/ Lock2(w) \/ CheckPasses(w) \/ CheckRejects(w)
        PROVE  PendingInv'
    BY <1>4 DEF ReadRow, Lock1, Lock2, LockAccount, CheckPasses, CheckRejects, Step, dbVars
  <1>5. ASSUME NEW w \in Workers, Commit(w) \/ PersistFailure(w)
        PROVE  PendingInv'
    <2>1. /\ UNCHANGED wjob
          /\ wpc[w] # "idle"
          /\ wpc'[w] \in {"finish", "errored"}
          /\ \A v \in Workers \ {w} : wpc'[v] = wpc[v]
          /\ \A k \in Keys \ {wjob[w]} : status'[k] = status[k]
      BY <1>5 DEF Commit, PersistFailure, Step
    <2> QED
      BY <2>1, RunsAreApart, WorkerPayload
  <1> QED
    BY <1>1, <1>2, <1>3, <1>4, <1>5
    DEF Next, ExecutorStep, vars, dbVars, workerVars, Receive, InsertRow, UniqueViolation, Replay,
        Enqueue, RequestFails, StalledCheck, Evict, OpenAccount, BeginLock, CommitLock, AbortLock,
        EndLock, ReleaseLock

\* A transfer that is executed has not moved before.
LEMMA OnceStep ==
  ASSUME DeliveryInv, [Next]_vars
  PROVE  ExactlyOnce'
  <1> USE DEF DeliveryInv, Bookkeeping, TypeOK, DbTypeOK, ExactlyOnce
  <1>1. CASE UNCHANGED <<moved, status>>
    BY <1>1
  <1>2. ASSUME NEW r \in Requests, CommitRow(r)
        PROVE  ExactlyOnce'
    BY <1>2 DEF CommitRow, CallsInv
  <1>3. ASSUME NEW w \in Workers, Commit(w)
        PROVE  ExactlyOnce'
    <2>1. wjob[w] \in Keys /\ moved[wjob[w]] = 0
      BY <1>3, WorkerPayload DEF Commit, Step, PendingInv, InTransaction
    <2> QED
      BY <1>3, <2>1 DEF Commit
  <1>4. ASSUME NEW w \in Workers, PersistFailure(w)
        PROVE  ExactlyOnce'
    <2>1. wjob[w] \in Keys /\ moved[wjob[w]] = 0
      BY <1>4, WorkerPayload DEF PersistFailure, Step, PendingInv, InTransaction
    <2> QED
      BY <1>4, <2>1 DEF PersistFailure
  <1> QED
    BY <1>1, <1>2, <1>3, <1>4
    DEF Next, ExecutorStep, vars, dbVars, Receive, InsertRow, UniqueViolation, Replay, Enqueue,
        RequestFails, TakeJob, ReadRow, Lock1, Lock2, LockAccount, CheckPasses, CheckRejects,
        FinishJob, FailJob, InfraError, Crash, StalledCheck, Evict, OpenAccount, BeginLock,
        CommitLock, AbortLock, EndLock, ReleaseLock

\* The invariant holds in every reachable state.
LEMMA DeliveryHolds ==
  ASSUME LiveStalls = FALSE
  PROVE  Spec => []DeliveryInv
  <1>1. DeliveryInv /\ [Next]_vars => DeliveryInv'
    <2> SUFFICES ASSUME DeliveryInv, [Next]_vars PROVE DeliveryInv'
      OBVIOUS
    <2>1. Bookkeeping'
      BY BookkeepingStep DEF DeliveryInv
    <2> QED
      BY <2>1, HoldersStep, PendingStep, OnceStep DEF DeliveryInv
  <1> QED
    BY DeliveryInit, <1>1, PTL DEF Spec

\* No two workers run the same transfer.
THEOREM OneRun ==
  ASSUME LiveStalls = FALSE
  PROVE  Spec => []OneRunPerTransfer
  <1>1. DeliveryInv => OneRunPerTransfer
    BY DEF DeliveryInv, Bookkeeping, RunsInv, HoldersInv, OneRunPerTransfer
  <1> QED
    BY <1>1, DeliveryHolds, PTL

\* Money moves once for a completed transfer and never for another one.
THEOREM MovedExactlyOnce ==
  ASSUME LiveStalls = FALSE
  PROVE  Spec => []ExactlyOnce
  BY DeliveryHolds, PTL DEF DeliveryInv

\* A settled transfer keeps its outcome, and the terms of a transfer never
\* change.
THEOREM OutcomesStand ==
  ASSUME LiveStalls = FALSE
  PROVE  Spec => SettledForGood
  <1> DEFINE Stands ==
        \A k \in Keys :
          /\ status[k] \in Terminal => status'[k] = status[k] /\ reason'[k] = reason[k]
          /\ status[k] # "absent" => payload'[k] = payload[k]
  <1>1. ASSUME DeliveryInv, [Next]_vars
        PROVE  [Stands]_vars
    <2> USE <1>1 DEF DeliveryInv, Bookkeeping, TypeOK, DbTypeOK
    <2>1. CASE UNCHANGED <<payload, status, reason>>
      BY <2>1
    <2>2. ASSUME NEW r \in Requests, CommitRow(r)
          PROVE  Stands
      BY <2>2 DEF CommitRow, CallsInv, Terminal
    <2>3. ASSUME NEW w \in Workers, Commit(w) \/ PersistFailure(w)
          PROVE  Stands
      BY <2>3 DEF Commit, PersistFailure, Step, PendingInv, InTransaction, Terminal
    <2> QED
      BY <2>1, <2>2, <2>3
      DEF Next, ExecutorStep, vars, dbVars, Receive, InsertRow, UniqueViolation, Replay, Enqueue,
          RequestFails, TakeJob, ReadRow, Lock1, Lock2, LockAccount, CheckPasses, CheckRejects,
          FinishJob, FailJob, InfraError, Crash, StalledCheck, Evict, OpenAccount, BeginLock,
          CommitLock, AbortLock, EndLock, ReleaseLock
  <1> QED
    BY <1>1, DeliveryHolds, PTL DEF Spec, SettledForGood

-----------------------------------------------------------------------------
(* TransferSystem implements Ledger: every step of an API call, a worker,  *)
(* the queue or a lock is one step of the ledger or none.                  *)

\* What a step needs to know of the state it starts in.
LedgerInv == Isolation /\ DeliveryInv

\* An empty bank is an empty ledger.
LEMMA LedgerInit == Init => Bank!Init
  BY DEF Init, DbInit, Bank!Init, FrozenAccounts

\* The ledger's frozen accounts are the locked ones.
LEMMA FrozenIsLocked ==
  ASSUME NEW a
  PROVE  Bank!Frozen(a) <=> ActiveLock(a)
  BY DEF Bank!Frozen, FrozenAccounts, ActiveLock

\* Locks that are not committed freeze nothing.
LEMMA FrozenUnchanged ==
  ASSUME Bookkeeping,
         \A x \in LockIds : lockState'[x] = "active" <=> lockState[x] = "active",
         \A x \in LockIds : lockState[x] = "active" => lockAccount'[x] = lockAccount[x]
  PROVE  UNCHANGED FrozenAccounts
  BY DEF FrozenAccounts

\* Every step maps to one step of the ledger or to none.
LEMMA LedgerStep ==
  ASSUME LedgerInv, [Next]_vars
  PROVE  [Bank!Next]_(Bank!vars)
  <1> USE DEF LedgerInv, Isolation, Bookkeeping, TypeOK, DbTypeOK
  <1>1. CASE UNCHANGED <<opened, balance, payload, status, lockState, lockAccount>>
    BY <1>1 DEF Bank!vars, FrozenAccounts
  <1>2. ASSUME NEW r \in Requests, CommitRow(r)
        PROVE  Bank!Next
    <2>1. /\ reqKey[r] \in Keys
          /\ reqPayload[r] \in Payload
          /\ status[reqKey[r]] = "absent"
          /\ reqPayload[r].from # reqPayload[r].to
          /\ {reqPayload[r].from, reqPayload[r].to} \subseteq opened
      BY <1>2 DEF CommitRow, CallsInv
    <2>2. Bank!Accept(reqKey[r], reqPayload[r])
      BY <1>2, <2>1 DEF CommitRow, Bank!Accept, FrozenAccounts
    <2> QED
      BY <2>1, <2>2 DEF Bank!Next, Bank!Payload, Payload
  <1>3. ASSUME NEW w \in Workers, Commit(w)
        PROVE  Bank!Next
    <2> DEFINE k == wjob[w]
               p == payload[k]
    <2>1. wpc[w] = "commit"
      BY <1>3 DEF Commit, Step
    <2>2. k \in Keys /\ status[k] = "pending"
      BY <2>1, WorkerPayload DEF DeliveryInv, PendingInv, InTransaction
    <2>3. /\ p \in Payload
          /\ p.from \in Accounts /\ p.to \in Accounts
          /\ p.from # p.to
      BY <2>1, WorkerPayload, RunAccounts
    <2>4. ~ Bank!Frozen(p.from) /\ ~ Bank!Frozen(p.to)
      BY <2>1, FrozenIsLocked DEF ChecksInv
    <2>5. balance[p.from] >= p.amount
      BY <2>1 DEF ChecksInv, ReadsInv
    <2>6. p.amount \in Nat
      BY <2>3, AmountsAssumption DEF Payload
    <2>7. balance' = [balance EXCEPT ![p.from] = @ - p.amount, ![p.to] = @ + p.amount]
      <3>1. balance' = [a \in Accounts |->
              balance[a] + (IF a = p.to THEN p.amount ELSE 0)
                         - (IF a = p.from THEN p.amount ELSE 0)]
        BY <1>3 DEF Commit
      <3> DEFINE moves == [balance EXCEPT ![p.from] = @ - p.amount, ![p.to] = @ + p.amount]
      <3>2. \A a \in Accounts : balance'[a] = moves[a]
        BY <2>3, <2>6, <3>1
      <3>3. balance' \in [Accounts -> Int] /\ moves \in [Accounts -> Int]
        BY <2>3, <2>6, <3>1
      <3> HIDE DEF moves
      <3>4. balance' = moves
        BY <3>2, <3>3
      <3> QED
        BY <3>4 DEF moves
    <2>8. /\ status' = [status EXCEPT ![k] = "completed"]
          /\ UNCHANGED <<opened, payload, FrozenAccounts>>
      BY <1>3 DEF Commit, FrozenAccounts
    <2>9. Bank!Execute(k)
      BY <2>2, <2>4, <2>5, <2>7, <2>8 DEF Bank!Execute
    <2> QED
      BY <2>2, <2>9 DEF Bank!Next
  <1>4. ASSUME NEW w \in Workers, PersistFailure(w)
        PROVE  Bank!Next
    <2>1. wjob[w] \in Keys /\ status[wjob[w]] = "pending"
      BY <1>4, WorkerPayload DEF PersistFailure, Step, DeliveryInv, PendingInv, InTransaction
    <2>2. Bank!Reject(wjob[w])
      BY <1>4, <2>1 DEF PersistFailure, Bank!Reject, FrozenAccounts
    <2> QED
      BY <2>1, <2>2 DEF Bank!Next
  <1>5. ASSUME NEW a \in Accounts, NEW d \in Deposits, OpenAccount(a, d)
        PROVE  Bank!Next
    BY <1>5 DEF OpenAccount, Bank!Next, Bank!Open, FrozenAccounts
  <1>6. ASSUME NEW l \in LockIds, (\E a \in Accounts : BeginLock(l, a)) \/ AbortLock(l)
        PROVE  UNCHANGED Bank!vars
    <2>1. /\ \A x \in LockIds : lockState'[x] = "active" <=> lockState[x] = "active"
          /\ \A x \in LockIds : lockState[x] = "active" => lockAccount'[x] = lockAccount[x]
      BY <1>6 DEF BeginLock, AbortLock, EndLock
    <2>2. UNCHANGED FrozenAccounts
      BY <2>1, FrozenUnchanged
    <2> QED
      BY <1>6, <2>2 DEF BeginLock, AbortLock, EndLock, Bank!vars
  <1>7. ASSUME NEW l \in LockIds, CommitLock(l)
        PROVE  Bank!Next
    <2> DEFINE a == lockAccount[l]
    <2>1. a \in Accounts /\ a \in opened /\ lockState[l] = "creating"
      BY <1>7 DEF CommitLock, EndLock, LockRowsInv
    <2>2. /\ lockState' = [lockState EXCEPT ![l] = "active"]
          /\ \A x \in LockIds : lockAccount'[x] = lockAccount[x]
          /\ UNCHANGED <<opened, balance, payload, status>>
      BY <1>7 DEF CommitLock, EndLock
    <2>3. FrozenAccounts' = FrozenAccounts \cup {<<l, a>>}
      BY <2>1, <2>2 DEF FrozenAccounts
    <2>4. \A b \in Accounts : <<l, b>> \notin FrozenAccounts
      BY <2>1 DEF FrozenAccounts
    <2> QED
      BY <2>1, <2>2, <2>3, <2>4 DEF Bank!Next, Bank!Freeze
  <1>8. ASSUME NEW l \in LockIds, ReleaseLock(l)
        PROVE  Bank!Next
    <2> DEFINE a == lockAccount[l]
    <2>1. a \in Accounts /\ lockState[l] = "active"
      BY <1>8 DEF ReleaseLock, LockRowsInv
    <2>2. /\ lockState' = [lockState EXCEPT ![l] = "released"]
          /\ UNCHANGED <<opened, balance, payload, status, lockAccount>>
      BY <1>8 DEF ReleaseLock
    <2>3. FrozenAccounts' = FrozenAccounts \ {<<l, a>>}
      BY <2>1, <2>2 DEF FrozenAccounts
    <2>4. <<l, a>> \in FrozenAccounts
      BY <2>1 DEF FrozenAccounts
    <2> QED
      BY <2>1, <2>2, <2>3, <2>4 DEF Bank!Next, Bank!Unfreeze
  <1> QED
    BY <1>1, <1>2, <1>3, <1>4, <1>5, <1>6, <1>7, <1>8
    DEF Next, ExecutorStep, vars, dbVars, workerVars, Receive, InsertRow, UniqueViolation, Replay,
        Enqueue, RequestFails, TakeJob, ReadRow, Lock1, Lock2, LockAccount, CheckPasses,
        CheckRejects, FinishJob, FailJob, InfraError, Crash, StalledCheck, Evict

\* The queue, the retries, the crashes and the row locks together implement
\* the ledger: a transfer is executed in one indivisible step or rejected.
THEOREM Refinement ==
  ASSUME LiveStalls = FALSE
  PROVE  Spec => ImplementsLedger
  BY LedgerInit, LedgerStep, IsolationHolds, DeliveryHolds, PTL
  DEF Spec, LedgerInv, ImplementsLedger, Bank!Spec
=============================================================================
