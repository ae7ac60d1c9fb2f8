------------------------------- MODULE Ledger -------------------------------
(***************************************************************************)
(* What the bank promises, with no queue, worker, transaction or retry in  *)
(* it: a transfer is accepted once and is then settled at most once, either *)
(* executed in one indivisible step, when the source covers it and neither *)
(* account is frozen, or rejected for good.                                *)
(***************************************************************************)
EXTENDS Integers

CONSTANTS Accounts, Keys, Amounts, Deposits, LockIds, NoPayload

VARIABLES
  opened, balance,  \* the accounts and what they hold
  payload, status,  \* the transfers
  frozen            \* pairs of a lock and the account it freezes

vars == <<opened, balance, payload, status, frozen>>

Payload == [from: Accounts, to: Accounts, amount: Amounts]

Init ==
  /\ opened = {}
  /\ balance = [a \in Accounts |-> 0]
  /\ payload = [k \in Keys |-> NoPayload]
  /\ status = [k \in Keys |-> "absent"]
  /\ frozen = {}

Frozen(a) == \E l \in LockIds : <<l, a>> \in frozen

Open(a, d) ==
  /\ a \notin opened
  /\ opened' = opened \cup {a}
  /\ balance' = [balance EXCEPT ![a] = d]
  /\ UNCHANGED <<payload, status, frozen>>

Accept(k, p) ==
  /\ status[k] = "absent"
  /\ {p.from, p.to} \subseteq opened
  /\ p.from # p.to
  /\ status' = [status EXCEPT ![k] = "pending"]
  /\ payload' = [payload EXCEPT ![k] = p]
  /\ UNCHANGED <<opened, balance, frozen>>

Execute(k) ==
  LET p == payload[k] IN
  /\ status[k] = "pending"
  /\ ~ Frozen(p.from) /\ ~ Frozen(p.to)
  /\ balance[p.from] >= p.amount
  /\ balance' = [balance EXCEPT ![p.from] = @ - p.amount, ![p.to] = @ + p.amount]
  /\ status' = [status EXCEPT ![k] = "completed"]
  /\ UNCHANGED <<opened, payload, frozen>>

Reject(k) ==
  /\ status[k] = "pending"
  /\ status' = [status EXCEPT ![k] = "failed"]
  /\ UNCHANGED <<opened, balance, payload, frozen>>

Freeze(l, a) ==
  /\ a \in opened
  /\ \A b \in Accounts : <<l, b>> \notin frozen
  /\ frozen' = frozen \cup {<<l, a>>}
  /\ UNCHANGED <<opened, balance, payload, status>>

Unfreeze(l, a) ==
  /\ <<l, a>> \in frozen
  /\ frozen' = frozen \ {<<l, a>>}
  /\ UNCHANGED <<opened, balance, payload, status>>

Next ==
  \/ \E a \in Accounts, d \in Deposits : Open(a, d)
  \/ \E k \in Keys, p \in Payload : Accept(k, p)
  \/ \E k \in Keys : Execute(k) \/ Reject(k)
  \/ \E l \in LockIds, a \in Accounts : Freeze(l, a) \/ Unfreeze(l, a)

Spec == Init /\ [][Next]_vars

=============================================================================
