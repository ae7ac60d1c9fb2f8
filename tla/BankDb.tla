------------------------------- MODULE BankDb -------------------------------
(***************************************************************************)
(* The bank's Postgres database, as far as money movement depends on it:   *)
(* the rows of accounts, transfers and account_locks (packages/db/schema), *)
(* and the row-level locks that concurrent transactions take on accounts.  *)
(*                                                                         *)
(* Transactions run at READ COMMITTED.  A statement sees what is committed *)
(* when it starts; SELECT ... FOR UPDATE waits for the row and then reads  *)
(* its newest committed version.  Rows are never deleted by the program.   *)
(*                                                                         *)
(* Transfers are named by their idempotency key: the unique index makes    *)
(* the key, the row's id and the BullMQ job id name the same transfer.     *)
(***************************************************************************)
EXTENDS Integers

CONSTANTS
  Accounts,   \* account ids, as naturals: the executor sorts uuids
  Keys,       \* idempotency keys
  Amounts,    \* transfer amounts, in cents
  Deposits,   \* opening deposits, in cents
  Workers,    \* executor worker processes
  Requests,   \* POST /transfers calls, each served once
  LockIds,    \* account_locks rows that can be created
  NoOne,      \* holder of a free row lock or an unheld job
  NoKey,      \* the job of an idle worker
  NoPayload,  \* the payload of an absent transfer
  NoAccount   \* the account of an absent lock row

ASSUME AccountsAssumption == Accounts \subseteq Nat
ASSUME AmountsAssumption  == Amounts \subseteq Nat \ {0}
ASSUME DepositsAssumption == Deposits \subseteq Nat
ASSUME ActorsAssumption   == /\ NoOne \notin Workers \cup LockIds
                             /\ Workers \cap LockIds = {}
                             /\ Workers \cap Requests = {}
ASSUME AbsentAssumption   == NoKey \notin Keys /\ NoAccount \notin Accounts

\* What the request hash covers: two accounts and an amount.
Payload == [from: Accounts, to: Accounts, amount: Amounts]

ASSUME PayloadAssumption == NoPayload \notin Payload

VARIABLES
  opened,      \* accounts that exist
  balance,     \* accounts.balance_cents
  deposit,     \* the opening deposit: a completed transfer with no source
  payload,     \* transfers.from_account_id, to_account_id, amount_cents
  status,      \* transfers.status, "absent" when there is no row
  reason,      \* transfers.failure_reason
  moved,       \* history: how often the money of a transfer has moved
  rowLock,     \* the transaction holding an account row FOR UPDATE
  lockState,   \* an account_locks row: creating (uncommitted), active, released
  lockAccount  \* account_locks.account_id

dbVars == <<opened, balance, deposit, payload, status, reason, moved,
            rowLock, lockState, lockAccount>>

Terminal == {"completed", "failed"}
Reasons  == {"INSUFFICIENT_FUNDS", "ACCOUNT_LOCKED"}

DbTypeOK ==
  /\ opened \in SUBSET Accounts
  /\ balance \in [Accounts -> Int]
  /\ deposit \in [Accounts -> Nat]
  /\ payload \in [Keys -> Payload \cup {NoPayload}]
  /\ status \in [Keys -> {"absent", "pending"} \cup Terminal]
  /\ reason \in [Keys -> Reasons \cup {"none"}]
  /\ moved \in [Keys -> Nat]
  /\ rowLock \in [Accounts -> Workers \cup LockIds \cup {NoOne}]
  /\ lockState \in [LockIds -> {"absent", "creating", "active", "released", "aborted"}]
  /\ lockAccount \in [LockIds -> Accounts \cup {NoAccount}]

DbInit ==
  /\ opened = {}
  /\ balance = [a \in Accounts |-> 0]
  /\ deposit = [a \in Accounts |-> 0]
  /\ payload = [k \in Keys |-> NoPayload]
  /\ status = [k \in Keys |-> "absent"]
  /\ reason = [k \in Keys |-> "none"]
  /\ moved = [k \in Keys |-> 0]
  /\ rowLock = [a \in Accounts |-> NoOne]
  /\ lockState = [l \in LockIds |-> "absent"]
  /\ lockAccount = [l \in LockIds |-> NoAccount]

-----------------------------------------------------------------------------
(* Account locks and row locks.                                            *)

\* An account is locked while some committed lock row of it is unreleased.
ActiveLock(a) == \E l \in LockIds : lockState[l] = "active" /\ lockAccount[l] = a

Free(a) == rowLock[a] = NoOne

Hold(a, t) == rowLock' = [rowLock EXCEPT ![a] = t]

\* Mutant: a connection returned to the pool with its transaction open.
LocksKeptBy(t) == rowLock

\* What COMMIT, ROLLBACK and a lost connection do to the rows t holds.
LocksReleasedBy(t) == [a \in Accounts |-> IF rowLock[a] = t THEN NoOne ELSE rowLock[a]]

-----------------------------------------------------------------------------
(* Invariants of the tables.                                               *)

\* The CHECK (balance_cents >= 0) of accounts never has to refuse an update:
\* the balance read under FOR UPDATE still holds when the debit is applied.
NoOverdraft == \A a \in Accounts : balance[a] >= 0

\* Every transfer row references two different accounts that exist, so the
\* executor's ACCOUNT_NOT_FOUND branch, which BullMQ would retry, is dead.
RowsReferenceAccounts ==
  \A k \in Keys : status[k] # "absent" =>
    /\ payload[k] # NoPayload
    /\ payload[k].from \in opened
    /\ payload[k].to \in opened
    /\ payload[k].from # payload[k].to

\* Money moves exactly once for a completed transfer and never for another
\* one, whatever is retried, redelivered or lost (service.ts:48-50).
ExactlyOnce ==
  \A k \in Keys : moved[k] = IF status[k] = "completed" THEN 1 ELSE 0

\* A failed transfer, and only a failed one, carries a failure reason.
ReasonMatchesStatus ==
  \A k \in Keys : status[k] = "failed" <=> reason[k] # "none"

=============================================================================
