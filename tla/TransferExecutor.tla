-------------------------- MODULE TransferExecutor --------------------------
(***************************************************************************)
(* The executor: the job processor and TransferExecutor.execute of         *)
(* packages/shared/src/transfers, run by worker processes of concurrency   *)
(* one.                                                                    *)
(*                                                                         *)
(* A worker fetches a job, reads the transfer row, and for a pending row   *)
(* runs one transaction: both accounts FOR UPDATE in ascending order, the  *)
(* active locks, the source balance, then the two balances and the status  *)
(* at once.  A business rejection rolls the transaction back and is        *)
(* written by a statement of its own; any other error goes back to BullMQ. *)
(***************************************************************************)
EXTENDS TransferService

VARIABLES
  wpc,     \* where a worker is
  wjob,    \* the transfer its job names
  seen,    \* the source balance its transaction read under FOR UPDATE
  verdict  \* the code of the rejection it is about to write

workerVars == <<wpc, wjob, seen, verdict>>

InTransaction == {"lock1", "lock2", "check", "commit"}

WorkerTypeOK ==
  /\ wpc \in [Workers -> InTransaction \cup {"idle", "read", "reject", "finish", "errored"}]
  /\ wjob \in [Workers -> Keys \cup {NoKey}]
  /\ seen \in [Workers -> Int]
  /\ verdict \in [Workers -> Reasons \cup {"none"}]

WorkerInit ==
  /\ wpc = [w \in Workers |-> "idle"]
  /\ wjob = [w \in Workers |-> NoKey]
  /\ seen = [w \in Workers |-> 0]
  /\ verdict = [w \in Workers |-> "none"]

Step(w, from, to) == wpc[w] = from /\ wpc' = [wpc EXCEPT ![w] = to]

Forget(w) ==
  /\ seen' = [seen EXCEPT ![w] = 0]
  /\ verdict' = [verdict EXCEPT ![w] = "none"]

\* Mutant: the accounts in the order in which the request names them.
LockOrderUnsorted(p) == <<p.from, p.to>>

\* [fromAccountId, toAccountId].sort()
LockOrder(p) == IF p.from < p.to THEN <<p.from, p.to>> ELSE <<p.to, p.from>>

-----------------------------------------------------------------------------
(* The processor.                                                          *)

TakeJob(w, k) ==
  /\ Step(w, "idle", "read")
  /\ Activate(w, k)
  /\ wjob' = [wjob EXCEPT ![w] = k]
  /\ UNCHANGED <<dbVars, serviceVars, seen, verdict>>

\* Mutant: a redelivered job is executed whatever became of its transfer.
ReadRowAnyStatus(w) ==
  /\ Step(w, "read", "lock1")
  /\ UNCHANGED <<dbVars, queueVars, serviceVars, wjob, seen, verdict>>

\* SELECT of the transfer row: only a pending one is executed; a missing or
\* a settled one ends the job.
ReadRow(w) ==
  /\ Step(w, "read", IF status[wjob[w]] = "pending" THEN "lock1" ELSE "finish")
  /\ UNCHANGED <<dbVars, queueVars, serviceVars, wjob, seen, verdict>>

\* The processor returned: the job is completed.
FinishJob(w) ==
  /\ Step(w, "finish", "idle")
  /\ MoveToCompleted(w, wjob[w])
  /\ wjob' = [wjob EXCEPT ![w] = NoKey]
  /\ UNCHANGED <<dbVars, serviceVars, seen, verdict>>

\* The processor threw: the job is retried or failed.
FailJob(w) ==
  /\ Step(w, "errored", "idle")
  /\ MoveToFailed(w, wjob[w])
  /\ wjob' = [wjob EXCEPT ![w] = NoKey]
  /\ UNCHANGED <<dbVars, serviceVars, seen, verdict>>

-----------------------------------------------------------------------------
(* execute.                                                                *)

\* Mutant: a plain SELECT, which neither waits nor locks.
LockAccountWithoutForUpdate(w, a) ==
  /\ seen' = [seen EXCEPT ![w] = IF a = payload[wjob[w]].from THEN balance[a] ELSE @]
  /\ UNCHANGED <<dbVars, queueVars, serviceVars, wjob, verdict>>

\* SELECT ... FOR UPDATE of one account, which waits for every conflicting
\* lock; the balance of the source account is kept for the check.
LockAccount(w, a) ==
  /\ Free(a) /\ ~ KeyShared(a)
  /\ Hold(a, w)
  /\ seen' = [seen EXCEPT ![w] = IF a = payload[wjob[w]].from THEN balance[a] ELSE @]
  /\ UNCHANGED <<opened, balance, deposit, payload, status, reason, moved, lockState, lockAccount>>
  /\ UNCHANGED <<queueVars, serviceVars, wjob, verdict>>

Lock1(w) == Step(w, "lock1", "lock2") /\ LockAccount(w, LockOrder(payload[wjob[w]])[1])
Lock2(w) == Step(w, "lock2", "check") /\ LockAccount(w, LockOrder(payload[wjob[w]])[2])

\* Mutant: only the source account's locks are looked at.
RejectionBySourceLock(w) ==
  LET p == payload[wjob[w]] IN
  IF ActiveLock(p.from) THEN "ACCOUNT_LOCKED"
  ELSE IF seen[w] < p.amount THEN "INSUFFICIENT_FUNDS"
  ELSE "none"

\* Why the transaction rejects its transfer, or "none".
Rejection(w) ==
  LET p == payload[wjob[w]] IN
  IF ActiveLock(p.from) \/ ActiveLock(p.to) THEN "ACCOUNT_LOCKED"
  ELSE IF seen[w] < p.amount THEN "INSUFFICIENT_FUNDS"
  ELSE "none"

\* The lock query and the balance check pass.
CheckPasses(w) ==
  /\ Step(w, "check", "commit")
  /\ Rejection(w) = "none"
  /\ UNCHANGED <<dbVars, queueVars, serviceVars, wjob, seen, verdict>>

\* One of them throws a 422: the transaction is rolled back.
CheckRejects(w) ==
  /\ Step(w, "check", "reject")
  /\ Rejection(w) # "none"
  /\ verdict' = [verdict EXCEPT ![w] = Rejection(w)]
  /\ seen' = [seen EXCEPT ![w] = 0]
  /\ rowLock' = LocksReleasedBy(w)
  /\ UNCHANGED <<opened, balance, deposit, payload, status, reason, moved, lockState, lockAccount>>
  /\ UNCHANGED <<queueVars, serviceVars, wjob>>

\* Mutant: the credit is left to a statement that is never reached.
CommitWithoutCredit(w) ==
  LET k == wjob[w]
      p == payload[k] IN
  /\ \E next \in {"finish", "errored"} : Step(w, "commit", next)
  /\ balance' = [balance EXCEPT ![p.from] = @ - p.amount]
  /\ status' = [status EXCEPT ![k] = "completed"]
  /\ moved' = [moved EXCEPT ![k] = @ + 1]
  /\ rowLock' = LocksReleasedBy(w)
  /\ Forget(w)
  /\ UNCHANGED <<opened, deposit, payload, reason, lockState, lockAccount>>
  /\ UNCHANGED <<queueVars, serviceVars, wjob>>

\* The two relative updates, the status and COMMIT.  The connection may be
\* lost after the server committed, which looks like an error.
Commit(w) ==
  LET k == wjob[w]
      p == payload[k] IN
  /\ \E next \in {"finish", "errored"} : Step(w, "commit", next)
  /\ balance' = [a \in Accounts |->
       balance[a] + (IF a = p.to THEN p.amount ELSE 0) - (IF a = p.from THEN p.amount ELSE 0)]
  /\ status' = [status EXCEPT ![k] = "completed"]
  /\ moved' = [moved EXCEPT ![k] = @ + 1]
  /\ rowLock' = LocksReleasedBy(w)
  /\ Forget(w)
  /\ UNCHANGED <<opened, deposit, payload, reason, lockState, lockAccount>>
  /\ UNCHANGED <<queueVars, serviceVars, wjob>>

\* The catch block: the rejection is written by id alone, after the row locks
\* are gone.
PersistFailure(w) ==
  LET k == wjob[w] IN
  /\ \E next \in {"finish", "errored"} : Step(w, "reject", next)
  /\ status' = [status EXCEPT ![k] = "failed"]
  /\ reason' = [reason EXCEPT ![k] = verdict[w]]
  /\ Forget(w)
  /\ UNCHANGED <<opened, balance, deposit, payload, moved, rowLock, lockState, lockAccount>>
  /\ UNCHANGED <<queueVars, serviceVars, wjob>>

\* Postgres fails a statement (or picks this transaction as a deadlock
\* victim): nothing is applied and the error is rethrown.
InfraError(w) ==
  /\ wpc[w] \in InTransaction \cup {"read", "reject"}
  /\ wpc' = [wpc EXCEPT ![w] = "errored"]
  /\ rowLock' = LocksReleasedBy(w)
  /\ Forget(w)
  /\ UNCHANGED <<opened, balance, deposit, payload, status, reason, moved, lockState, lockAccount>>
  /\ UNCHANGED <<queueVars, serviceVars, wjob>>

\* The process dies, or the 30 s of a graceful shutdown run out, at any
\* point; a new one starts idle.
Crash(w) ==
  /\ wpc[w] # "idle"
  /\ wpc' = [wpc EXCEPT ![w] = "idle"]
  /\ wjob' = [wjob EXCEPT ![w] = NoKey]
  /\ rowLock' = LocksReleasedBy(w)
  /\ Orphan(w)
  /\ Forget(w)
  /\ UNCHANGED <<opened, balance, deposit, payload, status, reason, moved, lockState, lockAccount>>
  /\ UNCHANGED serviceVars

ExecutorStep(w) ==
  \/ ReadRow(w) \/ Lock1(w) \/ Lock2(w) \/ CheckPasses(w) \/ CheckRejects(w)
  \/ Commit(w) \/ PersistFailure(w) \/ FinishJob(w) \/ FailJob(w)

=============================================================================
