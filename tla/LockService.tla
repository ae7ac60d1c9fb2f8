----------------------------- MODULE LockService -----------------------------
(***************************************************************************)
(* AccountService.create and LockService of app-apis: opening an account,  *)
(* locking one and releasing a lock.                                       *)
(***************************************************************************)
EXTENDS TransferExecutor

\* POST accounts: the account and its opening deposit in one transaction.  An
\* unknown customer is answered 404 and changes nothing.
OpenAccount(a, d) ==
  /\ a \notin opened
  /\ opened' = opened \cup {a}
  /\ balance' = [balance EXCEPT ![a] = d]
  /\ deposit' = [deposit EXCEPT ![a] = d]
  /\ UNCHANGED <<payload, status, reason, moved, rowLock, lockState, lockAccount>>
  /\ UNCHANGED <<queueVars, serviceVars, workerVars>>

\* Mutant: the lock row is inserted without the account row FOR UPDATE.
BeginLockWithoutRow(l, a) ==
  /\ lockState[l] = "absent"
  /\ a \in opened
  /\ lockState' = [lockState EXCEPT ![l] = "creating"]
  /\ lockAccount' = [lockAccount EXCEPT ![l] = a]
  /\ UNCHANGED <<opened, balance, deposit, payload, status, reason, moved, rowLock>>
  /\ UNCHANGED <<queueVars, serviceVars, workerVars>>

\* POST locks: the account row FOR UPDATE first, which waits for the
\* transaction of a transfer in flight.
BeginLock(l, a) ==
  /\ lockState[l] = "absent"
  /\ a \in opened
  /\ Free(a) /\ ~ KeyShared(a)
  /\ Hold(a, l)
  /\ lockState' = [lockState EXCEPT ![l] = "creating"]
  /\ lockAccount' = [lockAccount EXCEPT ![l] = a]
  /\ UNCHANGED <<opened, balance, deposit, payload, status, reason, moved>>
  /\ UNCHANGED <<queueVars, serviceVars, workerVars>>

\* The end of that transaction: the lock row is visible, or never was.
EndLock(l, outcome) ==
  /\ lockState[l] = "creating"
  /\ lockState' = [lockState EXCEPT ![l] = outcome]
  /\ lockAccount' = [lockAccount EXCEPT ![l] = IF outcome = "active" THEN @ ELSE NoAccount]
  /\ rowLock' = LocksReleasedBy(l)
  /\ UNCHANGED <<opened, balance, deposit, payload, status, reason, moved>>
  /\ UNCHANGED <<queueVars, serviceVars, workerVars>>

CommitLock(l) == EndLock(l, "active")
AbortLock(l)  == EndLock(l, "aborted")

\* POST release: one guarded UPDATE of the lock row alone.  A second release
\* is answered 409, an unknown lock 404, and neither changes anything.
ReleaseLock(l) ==
  /\ lockState[l] = "active"
  /\ lockState' = [lockState EXCEPT ![l] = "released"]
  /\ UNCHANGED <<opened, balance, deposit, payload, status, reason, moved, rowLock, lockAccount>>
  /\ UNCHANGED <<queueVars, serviceVars, workerVars>>

=============================================================================
