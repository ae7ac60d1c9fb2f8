--------------------------- MODULE TransferSystem ---------------------------
(***************************************************************************)
(* Money movement as a whole: API calls, the queue, the executor's workers *)
(* and account locks, over one database.                                   *)
(***************************************************************************)
EXTENDS LockService

vars == <<dbVars, queueVars, serviceVars, workerVars>>

TypeOK == DbTypeOK /\ QueueTypeOK /\ ServiceTypeOK /\ WorkerTypeOK

Init == DbInit /\ QueueInit /\ ServiceInit /\ WorkerInit

\* The steps of an API call and of the queue's upkeep leave the workers alone.
Next ==
  \/ \E r \in Requests :
       \/ \E k \in Keys, p \in Payload : Receive(r, k, p) /\ UNCHANGED workerVars
       \/ InsertRow(r) /\ UNCHANGED workerVars
       \/ CommitRow(r) /\ UNCHANGED workerVars
       \/ UniqueViolation(r) /\ UNCHANGED workerVars
       \/ Replay(r) /\ UNCHANGED workerVars
       \/ Enqueue(r) /\ UNCHANGED workerVars
       \/ RequestFails(r) /\ UNCHANGED workerVars
  \/ \E w \in Workers :
       \/ \E k \in Keys : TakeJob(w, k)
       \/ ExecutorStep(w)
       \/ InfraError(w)
       \/ Crash(w)
  \/ \E k \in Keys :
       \/ StalledCheck(k) /\ UNCHANGED <<dbVars, serviceVars, workerVars>>
       \/ Evict(k) /\ UNCHANGED <<dbVars, serviceVars, workerVars>>
  \/ \E a \in Accounts, d \in Deposits : OpenAccount(a, d)
  \/ \E l \in LockIds :
       \/ \E a \in Accounts : BeginLock(l, a)
       \/ CommitLock(l) \/ AbortLock(l) \/ ReleaseLock(l)

Spec == Init /\ [][Next]_vars

-----------------------------------------------------------------------------
(* Deadlock among transactions.                                            *)

\* Transaction t waits for an account row that transaction u holds.
Waits(t, u) ==
  \/ /\ t \in Workers
     /\ \E i \in {1, 2} :
          LET a == LockOrder(payload[wjob[t]])[i] IN
          /\ wpc[t] = IF i = 1 THEN "lock1" ELSE "lock2"
          /\ rowLock[a] = u \/ (u \in Requests /\ KeyShares(u, a))
  \/ /\ t \in Requests
     /\ \/ /\ reqPc[t] = "insert" /\ status[reqKey[t]] = "absent"
           /\ rowLock[reqPayload[t].from] = u
        \/ reqPc[t] = "insertTo" /\ rowLock[reqPayload[t].to] = u

Deadlocked(S) == S # {} /\ \A t \in S : \E u \in S : Waits(t, u)

\* Executors never wait for each other's account rows in a circle: ascending
\* order excludes it (executor.ts:53).
ExecutorsNeverDeadlock == \A S \in SUBSET Workers : ~ Deadlocked(S)

-----------------------------------------------------------------------------
(* Safety.                                                                 *)

\* The balance of a locked account does not change: once a lock is committed,
\* no transfer that has not committed moves money of that account, even one
\* whose transaction had begun (LockService.create).
LockedBalanceStands ==
  [][\A a \in Accounts : ActiveLock(a) => balance'[a] = balance[a]]_vars

\* A settled transfer keeps its outcome, and the terms of an accepted one
\* never change.
SettledForGood ==
  [][\A k \in Keys :
       /\ status[k] \in Terminal => status'[k] = status[k] /\ reason'[k] = reason[k]
       /\ status[k] # "absent" => payload'[k] = payload[k]]_vars

\* No two workers run the same transfer: a job is handed out again only when
\* the worker that had it is gone.
OneRunPerTransfer ==
  \A v, w \in Workers : wjob[v] = wjob[w] /\ wjob[v] # NoKey => v = w

\* The abstract ledger; a frozen account is one with a committed lock.
FrozenAccounts == {<<l, lockAccount[l]>> : l \in {x \in LockIds : lockState[x] = "active"}}

Bank == INSTANCE Ledger WITH frozen <- FrozenAccounts

\* The asynchronous system implements the ledger: a queued, retried and
\* redelivered transfer is one indivisible step or one rejection.
ImplementsLedger == Bank!Spec

-----------------------------------------------------------------------------
(* Fairness.  Postgres, Redis and the processes make progress: a worker    *)
(* takes its next step and its next job, BullMQ checks for stalled jobs, an *)
(* API call and the transaction of a lock run to their end, and Postgres   *)
(* ends one transaction of a deadlock.  No failure is ever required.       *)

Stalled(k) ==
  holder[k] = NoOne /\ StalledCheck(k) /\ UNCHANGED <<dbVars, serviceVars, workerVars>>

DeadlockVictim(r) ==
  /\ \E S \in SUBSET (Workers \cup Requests) : r \in S /\ Deadlocked(S)
  /\ RequestFails(r)
  /\ UNCHANGED workerVars

Fairness ==
  /\ \A w \in Workers : WF_vars(ExecutorStep(w)) /\ WF_vars(\E k \in Keys : TakeJob(w, k))
  /\ \A k \in Keys : WF_vars(Stalled(k))
  /\ \A r \in Requests : /\ WF_vars(ServiceStep(r) /\ UNCHANGED workerVars)
                         /\ WF_vars(DeadlockVictim(r))
  /\ \A l \in LockIds : WF_vars(CommitLock(l))

FairSpec == Spec /\ Fairness

\* A transfer with a job is settled in the end, unless BullMQ gives up on the
\* job: no wait for a row lock, no retry and no crash keeps it pending.
QueuedTransfersSettle ==
  \A k \in Keys : status[k] = "pending" /\ job[k] # "none"
                    ~> status[k] \in Terminal \/ k \in exhausted

\* Every call is answered, whatever its insert has to wait for.
CallsEnd == \A r \in Requests : reqPc[r] # "idle" ~> reqPc[r] = "done"

\* A transfer answered 202 is settled in the end: what a client that polls
\* GET /transfers/:id is told to wait for.
AcceptedTransfersSettle ==
  \A r \in Requests, k \in Keys :
    reply[r] = "202" /\ reqKey[r] = k ~> status[k] \in Terminal

=============================================================================
