---------------------------- MODULE TransferQueue ----------------------------
(***************************************************************************)
(* The transfers queue of packages/queue: BullMQ on Redis, with the job    *)
(* options and the worker options that createTransfersQueue and            *)
(* createTransfersWorker set.  A job is named by its jobId, the            *)
(* idempotency key.                                                        *)
(*                                                                         *)
(* BullMQ itself is a library; what is modelled of it is what the program  *)
(* relies on: add ignores a jobId it already knows, a worker holds a lock  *)
(* on its active job that expires when it is not renewed, a job whose lock *)
(* expired returns to the queue, a job that fails too often stays in the   *)
(* failed set, and finished jobs are removed by count.  A delayed job      *)
(* (backoff) is a waiting job: the delay can end at any time.              *)
(***************************************************************************)
EXTENDS BankDb

CONSTANTS
  MaxAttempts,  \* attempts, 5 in createTransfersQueue
  MaxStalls,    \* BullMQ's maxStalledCount, 1 by default
  LiveStalls    \* TRUE: the lock of a job can expire while its worker runs

ASSUME QueueAssumption == /\ MaxAttempts \in Nat \ {0}
                          /\ MaxStalls \in Nat
                          /\ LiveStalls \in BOOLEAN

VARIABLES
  job,       \* the set of BullMQ the job is in
  attempts,  \* attempts that ended in an error
  stalls,    \* times the job was found stalled
  holder,    \* the worker whose token locks the active job
  exhausted  \* history: jobs BullMQ gave up on

queueVars == <<job, attempts, stalls, holder, exhausted>>

QueueTypeOK ==
  /\ job \in [Keys -> {"none", "waiting", "active", "completed", "failed"}]
  /\ attempts \in [Keys -> 0 .. MaxAttempts]
  /\ stalls \in [Keys -> 0 .. MaxStalls + 1]
  /\ holder \in [Keys -> Workers \cup {NoOne}]
  /\ exhausted \in SUBSET Keys

QueueInit ==
  /\ job = [k \in Keys |-> "none"]
  /\ attempts = [k \in Keys |-> 0]
  /\ stalls = [k \in Keys |-> 0]
  /\ holder = [k \in Keys |-> NoOne]
  /\ exhausted = {}

\* queue.add with jobId = key: a no-op while BullMQ knows the id.
Add(k) ==
  /\ job' = [job EXCEPT ![k] = IF @ = "none" THEN "waiting" ELSE @]
  /\ attempts' = [attempts EXCEPT ![k] = IF job[k] = "none" THEN 0 ELSE @]
  /\ stalls' = [stalls EXCEPT ![k] = IF job[k] = "none" THEN 0 ELSE @]
  /\ UNCHANGED <<holder, exhausted>>

\* A worker fetches a waiting job and locks it with its own token.
Activate(w, k) ==
  /\ job[k] = "waiting"
  /\ job' = [job EXCEPT ![k] = "active"]
  /\ holder' = [holder EXCEPT ![k] = w]
  /\ UNCHANGED <<attempts, stalls, exhausted>>

\* The job leaves the active set: it goes back to the queue, or BullMQ gives
\* up on it for good.
Requeue(k, again) ==
  /\ job' = [job EXCEPT ![k] = IF again THEN "waiting" ELSE "failed"]
  /\ holder' = [holder EXCEPT ![k] = NoOne]
  /\ exhausted' = IF again THEN exhausted ELSE exhausted \cup {k}

\* The processor returned.  A worker whose lock is gone cannot move the job.
MoveToCompleted(w, k) ==
  IF holder[k] = w
    THEN /\ job' = [job EXCEPT ![k] = "completed"]
         /\ holder' = [holder EXCEPT ![k] = NoOne]
         /\ UNCHANGED <<attempts, stalls, exhausted>>
    ELSE UNCHANGED queueVars

\* The processor threw: retry while attempts remain.
MoveToFailed(w, k) ==
  IF holder[k] = w
    THEN /\ attempts' = [attempts EXCEPT ![k] = @ + 1]
         /\ Requeue(k, attempts[k] + 1 < MaxAttempts)
         /\ UNCHANGED stalls
    ELSE UNCHANGED queueVars

\* Mutant: job locks without an expiry.
OrphanKeepsLock(w) == UNCHANGED queueVars

\* The worker process died: nobody renews the lock of its job any more.
Orphan(w) ==
  /\ holder' = [k \in Keys |-> IF holder[k] = w THEN NoOne ELSE holder[k]]
  /\ UNCHANGED <<job, attempts, stalls, exhausted>>

\* Mutant: a job lock that is not renewed while the processor runs.
StalledCheckAnyHolder(k) ==
  /\ job[k] = "active"
  /\ stalls' = [stalls EXCEPT ![k] = @ + 1]
  /\ Requeue(k, stalls[k] + 1 <= MaxStalls)
  /\ UNCHANGED attempts

\* Mutant: no limit to the times a job may stall.
StalledCheckForever(k) ==
  /\ job[k] = "active"
  /\ holder[k] = NoOne
  /\ stalls' = [stalls EXCEPT ![k] = @ + 1]
  /\ Requeue(k, TRUE)
  /\ UNCHANGED attempts

\* The stalled-jobs check: an active job whose lock expired is queued again,
\* until it has stalled too often.  A live worker renews its lock, unless its
\* event loop is blocked or Redis is out of reach for the lock's duration.
StalledCheck(k) ==
  /\ job[k] = "active"
  /\ holder[k] = NoOne \/ LiveStalls
  /\ stalls' = [stalls EXCEPT ![k] = @ + 1]
  /\ Requeue(k, stalls[k] + 1 <= MaxStalls)
  /\ UNCHANGED attempts

\* removeOnComplete, removeOnFail: an old finished job is forgotten, and with
\* it the jobId.
Evict(k) ==
  /\ job[k] \in {"completed", "failed"}
  /\ job' = [job EXCEPT ![k] = "none"]
  /\ UNCHANGED <<attempts, stalls, holder, exhausted>>

=============================================================================
