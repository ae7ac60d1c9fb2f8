----------------------------- MODULE MCTransfers -----------------------------
(* Finite instances of TransferSystem, and the properties that sum over data. *)
EXTENDS TransferSystem, TLC, FiniteSets, FiniteSetsExt

Symmetry == Permutations(Keys) \cup Permutations(Workers)
            \cup Permutations(Requests)

Total(g, S)  == MapThenSumSet(LAMBDA x : g[x], S)
Volume(p, S) == MapThenSumSet(LAMBDA k : p[k].amount, S)

\* The books balance: every account holds its opening deposit, plus what the
\* completed transfers of its history brought in, minus what they took out.
BooksBalance ==
  LET done == {k \in Keys : status[k] = "completed"} IN
  \A a \in Accounts :
    balance[a] = deposit[a] + Volume(payload, {k \in done : payload[k].to = a})
                            - Volume(payload, {k \in done : payload[k].from = a})

\* Transfers neither create nor destroy money.
MoneyConserved == Total(balance, Accounts) = Total(deposit, Accounts)

=============================================================================
