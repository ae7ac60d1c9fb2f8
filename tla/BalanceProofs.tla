----------------------------- MODULE BalanceProofs -----------------------------
(***************************************************************************)
(* Proofs of the sums over accounts and transfers, for every finite set of *)
(* accounts and keys: no money is created or destroyed, and the books      *)
(* balance.                                                                *)
(*                                                                         *)
(* A sum is a fold, hence a recursive function over the subsets of a set.  *)
(* The first part shows that this function exists and that any element may *)
(* be taken out of a sum, by looking at a smallest subset for which that   *)
(* fails; nothing in it is about the bank.                                 *)
(***************************************************************************)
EXTENDS MCTransfers, TransferSystemProofs, FiniteSetTheorems

-----------------------------------------------------------------------------
(* Sums over finite sets.                                                  *)

\* The element of s that a fold takes first.
Pick(s) == CHOOSE x \in s : TRUE

\* F gives the sum of g over every subset of D, taken apart as a fold does.
IsSum(F, g, D) ==
  F = [s \in SUBSET D |-> IF s = {} THEN 0 ELSE g[Pick(s)] + F[s \ {Pick(s)}]]

\* A nonempty set of subsets of a finite set has a smallest member.
LEMMA SmallestSet ==
  ASSUME NEW D, IsFiniteSet(D), NEW T, T \subseteq SUBSET D, T # {}
  PROVE  \E s \in T : \A t \in T : t \subseteq s => t = s
  <1> DEFINE Smaller == StrictSubsetOrdering(D)
  <1>1. IsWellFoundedOn(Smaller, SUBSET D)
    BY FS_StrictSubsetOrderingWellFounded, FS_FiniteSubsetsOfFinite
  <1>2. \E s \in T : \A t \in T : ~ (<<t, s>> \in Smaller)
    <2> HIDE DEF Smaller
    <2> QED
      BY <1>1, WFMin
  <1> QED
    BY <1>2 DEF StrictSubsetOrdering

\* What a fold takes out of a set is in it.
LEMMA PickIn == ASSUME NEW s, s # {} PROVE Pick(s) \in s
  BY DEF Pick

\* Two sums agree on a set on which what they sum agrees.
LEMMA SumAgrees ==
  ASSUME NEW F, NEW G, NEW g, NEW h, NEW D, NEW E, IsFiniteSet(D),
         IsSum(F, g, D), IsSum(G, h, E),
         NEW S, S \subseteq D, S \subseteq E, \A x \in S : g[x] = h[x]
  PROVE  F[S] = G[S]
  <1> DEFINE T == {s \in SUBSET S : F[s] # G[s]}
  <1>1. SUFFICES ASSUME T # {} PROVE FALSE
    OBVIOUS
  <1>2. PICK s \in T : \A t \in T : t \subseteq s => t = s
    <2>1. IsFiniteSet(S) /\ T \subseteq SUBSET S
      BY FS_Subset
    <2> HIDE DEF T
    <2> QED
      BY <2>1, <1>1, SmallestSet
  <1>3. s \in SUBSET D /\ s \in SUBSET E
    OBVIOUS
  <1>4. CASE s = {}
    BY <1>3, <1>4 DEF IsSum
  <1>5. CASE s # {}
    <2> DEFINE t == s \ {Pick(s)}
    <2>1. Pick(s) \in s
      BY <1>5, PickIn
    <2>2. t \subseteq s /\ t # s /\ t \in SUBSET S
      BY <2>1
    <2>3. F[t] = G[t]
      BY <1>2, <2>2
    <2>4. F[s] = g[Pick(s)] + F[t]
      BY <1>3, <1>5 DEF IsSum
    <2>5. G[s] = h[Pick(s)] + G[t]
      BY <1>3, <1>5 DEF IsSum
    <2> QED
      BY <2>1, <2>3, <2>4, <2>5
  <1> QED
    BY <1>4, <1>5

\* Whatever is summed over a finite set has a sum: on a smallest set without
\* one, it could be put together from the sums of the smaller sets.
LEMMA SumExists ==
  ASSUME NEW g, NEW D, IsFiniteSet(D)
  PROVE  \E F : IsSum(F, g, D)
  <1> DEFINE T == {s \in SUBSET D : ~ \E F : IsSum(F, g, s)}
  <1>1. SUFFICES ASSUME T # {} PROVE FALSE
    OBVIOUS
  <1>2. PICK s \in T : \A t \in T : t \subseteq s => t = s
    <2>1. T \subseteq SUBSET D
      OBVIOUS
    <2> HIDE DEF T
    <2> QED
      BY <2>1, <1>1, SmallestSet
  <1>3. IsFiniteSet(s)
    BY FS_Subset
  <1> DEFINE A(t) == CHOOSE F : IsSum(F, g, t)
             V == [t \in SUBSET s |-> A(t)[t]]
             H == [t \in SUBSET s |-> IF t = {} THEN 0 ELSE g[Pick(t)] + V[t \ {Pick(t)}]]
  <1>4. ASSUME NEW t \in SUBSET s, t # s
        PROVE  IsSum(A(t), g, t) /\ H[t] = V[t]
    <2>1. IsSum(A(t), g, t)
      BY <1>2, <1>4
    <2> DEFINE B == A(t)
               u == t \ {Pick(t)}
    <2>2. B[t] = IF t = {} THEN 0 ELSE g[Pick(t)] + B[u]
      <3> HIDE DEF B
      <3> QED
        BY <2>1 DEF B, IsSum
    <2>3. IsFiniteSet(t)
      BY <1>3, FS_Subset
    <2>4. ASSUME t # {}
          PROVE  B[u] = A(u)[u]
      <3>1. Pick(t) \in t
        BY <2>4, PickIn
      <3>2. u \in SUBSET s /\ u # s /\ u \subseteq t
        BY <3>1
      <3>3. IsSum(A(u), g, u)
        BY <1>2, <3>2
      <3>4. \A x \in u : g[x] = g[x]
        OBVIOUS
      <3> HIDE DEF A, B, u
      <3> QED
        BY <2>1, <2>3, <3>2, <3>3, SumAgrees DEF B
    <2>5. V[t] = B[t]
      OBVIOUS
    <2>6. t # {} => V[u] = A(u)[u]
      OBVIOUS
    <2>7. H[t] = IF t = {} THEN 0 ELSE g[Pick(t)] + V[u]
      OBVIOUS
    <2> HIDE DEF A, B, V, H, u
    <2> QED
      BY <2>1, <2>2, <2>4, <2>5, <2>6, <2>7 DEF B
  <1>5. IsSum(H, g, s)
    <2>1. ASSUME NEW t \in SUBSET s, t # {}
          PROVE  V[t \ {Pick(t)}] = H[t \ {Pick(t)}]
      <3>1. t \ {Pick(t)} \in SUBSET s /\ t \ {Pick(t)} # s
        BY <2>1, PickIn
      <3> HIDE DEF V, H
      <3> QED
        BY <3>1, <1>4
    <2>2. H = [t \in SUBSET s |-> IF t = {} THEN 0 ELSE g[Pick(t)] + H[t \ {Pick(t)}]]
      <3> HIDE DEF V
      <3> QED
        BY <2>1 DEF H
    <2> HIDE DEF H
    <2> QED
      BY <2>2 DEF IsSum
  <1> HIDE DEF H
  <1> QED
    BY <1>2, <1>5

\* The sum over S is an integer, and any element of S may be taken out of it.
Splits(F, g, S) == F[S] \in Int /\ \A x \in S : F[S] = g[x] + F[S \ {x}]

\* A fold may take the elements out in any order.
LEMMA SumSplits ==
  ASSUME NEW F, NEW g, NEW D, IsFiniteSet(D), IsSum(F, g, D), \A x \in D : g[x] \in Int
  PROVE  \A S \in SUBSET D : Splits(F, g, S)
  <1> DEFINE Good(s) == F[s] \in Int /\ \A x \in s : F[s] = g[x] + F[s \ {x}]
             T == {s \in SUBSET D : ~ Good(s)}
  <1> USE DEF Splits
  <1>1. SUFFICES ASSUME T # {} PROVE FALSE
    OBVIOUS
  <1>2. PICK s \in T : \A t \in T : t \subseteq s => t = s
    <2>1. T \subseteq SUBSET D
      OBVIOUS
    <2> HIDE DEF T
    <2> QED
      BY <2>1, <1>1, SmallestSet
  <1>3. CASE s = {}
    <2>1. F[{}] = 0
      BY DEF IsSum
    <2> QED
      BY <1>3, <2>1
  <1>4. CASE s # {}
    <2> DEFINE y == Pick(s)
    <2>1. y \in s /\ F[s] = g[y] + F[s \ {y}]
      BY <1>4, PickIn DEF IsSum
    <2>2. \A t \in SUBSET s : t # s => Good(t)
      BY <1>2
    <2>3. F[s \ {y}] \in Int
      BY <2>1, <2>2
    <2>4. ASSUME NEW x \in s
          PROVE  F[s] = g[x] + F[s \ {x}]
      <3>1. CASE x = y
        BY <2>1, <3>1
      <3>2. CASE x # y
        <4> DEFINE r == s \ {x, y}
        <4>1. F[s \ {y}] = g[x] + F[r]
          <5>1. Good(s \ {y}) /\ x \in s \ {y} /\ (s \ {y}) \ {x} = r
            BY <2>1, <2>2, <3>2
          <5> QED
            BY <5>1
        <4>2. F[s \ {x}] = g[y] + F[r]
          <5>1. Good(s \ {x}) /\ y \in s \ {x} /\ (s \ {x}) \ {y} = r
            BY <2>1, <2>2, <3>2
          <5> QED
            BY <5>1
        <4>3. F[r] \in Int /\ g[x] \in Int /\ g[y] \in Int
          <5>1. Good(r)
            BY <2>1, <2>2
          <5> QED
            BY <5>1, <2>1
        <4> HIDE DEF r, y
        <4> QED
          BY <2>1, <4>1, <4>2, <4>3
      <3> QED
        BY <3>1, <3>2
    <2> HIDE DEF y
    <2>5. F[s] \in Int
      BY <2>1, <2>3
    <2> QED
      BY <2>4, <2>5
  <1> QED
    BY <1>3, <1>4

\* The fold that adds up a function is the sum of its values.
LEMMA TotalIsSum ==
  ASSUME NEW g, NEW D, IsFiniteSet(D), NEW F, IsSum(F, g, D)
  PROVE  Total(g, D) = F[D]
  <1> DEFINE Body(iter) == [s \in SUBSET D |->
                              IF s = {} THEN 0 ELSE g[Pick(s)] + iter[s \ {Pick(s)}]]
             H == CHOOSE iter : iter = Body(iter)
  <1>1. Total(g, D) = H[D]
    BY DEF Total, MapThenSumSet, MapThenFoldSet, Pick
  <1>2. F = Body(F)
    BY DEF IsSum
  <1>3. H = Body(H)
    <2> HIDE DEF Body
    <2> QED
      BY <1>2
  <1>4. IsSum(H, g, D)
    <2> HIDE DEF H
    <2> QED
      BY <1>3 DEF IsSum
  <1> HIDE DEF H
  <1> QED
    BY <1>1, <1>4, SumAgrees

\* The fold that adds up the amounts of transfers is the sum of the amounts.
LEMMA VolumeIsSum ==
  ASSUME NEW p, NEW g, NEW D, IsFiniteSet(D), \A k \in D : g[k] = p[k].amount,
         NEW F, IsSum(F, g, D)
  PROVE  Volume(p, D) = F[D]
  <1> DEFINE Body(iter) == [s \in SUBSET D |->
                              IF s = {} THEN 0 ELSE p[Pick(s)].amount + iter[s \ {Pick(s)}]]
             H == CHOOSE iter : iter = Body(iter)
  <1>1. Volume(p, D) = H[D]
    BY DEF Volume, MapThenSumSet, MapThenFoldSet, Pick
  <1>2. ASSUME NEW iter
        PROVE  Body(iter) = [s \in SUBSET D |->
                               IF s = {} THEN 0 ELSE g[Pick(s)] + iter[s \ {Pick(s)}]]
    <2>1. \A s \in SUBSET D : s # {} => g[Pick(s)] = p[Pick(s)].amount
      BY PickIn
    <2> QED
      BY <2>1
  <1>3. H = Body(H)
    <2>1. F = Body(F)
      BY <1>2 DEF IsSum
    <2> HIDE DEF Body
    <2> QED
      BY <2>1
  <1>4. IsSum(H, g, D)
    <2> HIDE DEF H, Body
    <2> QED
      BY <1>2, <1>3 DEF IsSum
  <1> HIDE DEF H
  <1> QED
    BY <1>1, <1>4, SumAgrees

\* A total is an integer, and any element may be taken out of it.
LEMMA TotalSplits ==
  ASSUME NEW g, NEW D, IsFiniteSet(D), \A x \in D : g[x] \in Int
  PROVE  /\ Total(g, D) \in Int
         /\ \A x \in D : /\ Total(g, D \ {x}) \in Int
                         /\ Total(g, D) = g[x] + Total(g, D \ {x})
  <1>1. PICK F : IsSum(F, g, D)
    BY SumExists
  <1>2. \A S \in SUBSET D : Splits(F, g, S)
    BY <1>1, SumSplits
  <1>3. ASSUME NEW S \in SUBSET D
        PROVE  Total(g, S) = F[S]
    <2>1. IsFiniteSet(S)
      BY FS_Subset
    <2>2. PICK G : IsSum(G, g, S)
      BY <2>1, SumExists
    <2>3. F[S] = G[S]
      BY <1>1, <2>2, SumAgrees
    <2> QED
      BY <2>1, <2>2, <2>3, TotalIsSum
  <1> QED
    BY <1>2, <1>3 DEF Splits

\* Two functions that agree on a set have one total there.
LEMMA TotalAgrees ==
  ASSUME NEW g, NEW h, NEW D, IsFiniteSet(D), \A x \in D : g[x] = h[x]
  PROVE  Total(g, D) = Total(h, D)
  <1>1. PICK F : IsSum(F, g, D)
    BY SumExists
  <1>2. PICK G : IsSum(G, h, D)
    BY SumExists
  <1> QED
    BY <1>1, <1>2, SumAgrees, TotalIsSum

\* The volume of no transfer is 0, that of more is an integer, and one of them
\* adds its amount.
LEMMA VolumeSplits ==
  ASSUME NEW p, NEW D, IsFiniteSet(D), \A k \in D : p[k].amount \in Int
  PROVE  /\ D = {} => Volume(p, D) = 0
         /\ Volume(p, D) \in Int
         /\ \A k \in D : /\ Volume(p, D \ {k}) \in Int
                         /\ Volume(p, D) = p[k].amount + Volume(p, D \ {k})
  <1> DEFINE g == [k \in D |-> p[k].amount]
  <1>1. /\ \A k \in D : g[k] = p[k].amount
        /\ \A k \in D : g[k] \in Int
    OBVIOUS
  <1> HIDE DEF g
  <1>2. PICK F : IsSum(F, g, D)
    BY SumExists
  <1>3. \A S \in SUBSET D : Splits(F, g, S)
    BY <1>1, <1>2, SumSplits
  <1>4. ASSUME NEW S \in SUBSET D
        PROVE  Volume(p, S) = F[S]
    <2>1. IsFiniteSet(S) /\ \A k \in S : g[k] = p[k].amount
      BY <1>1, FS_Subset
    <2>2. PICK G : IsSum(G, g, S)
      BY <2>1, SumExists
    <2>3. F[S] = G[S]
      BY <1>2, <2>2, SumAgrees
    <2> QED
      BY <2>1, <2>2, <2>3, VolumeIsSum
  <1>5. D = {} => F[D] = 0
    BY <1>2 DEF IsSum
  <1>6. ASSUME NEW k \in D
        PROVE  Volume(p, D \ {k}) \in Int /\ Volume(p, D) = p[k].amount + Volume(p, D \ {k})
    <2>1. D \ {k} \in SUBSET D /\ D \in SUBSET D
      OBVIOUS
    <2>2. Volume(p, D) = F[D] /\ Volume(p, D \ {k}) = F[D \ {k}]
      BY <1>4, <2>1
    <2>3. F[D \ {k}] \in Int /\ F[D] = g[k] + F[D \ {k}]
      BY <1>3, <2>1 DEF Splits
    <2> QED
      BY <1>1, <2>2, <2>3
  <1>7. Volume(p, D) = F[D] /\ F[D] \in Int
    BY <1>3, <1>4 DEF Splits
  <1> QED
    BY <1>5, <1>6, <1>7

\* One transfer more adds its amount.
LEMMA VolumeAfter ==
  ASSUME NEW p, NEW D, IsFiniteSet(D), NEW k, k \notin D, \A x \in D \cup {k} : p[x].amount \in Nat
  PROVE  Volume(p, D \cup {k}) = Volume(p, D) + p[k].amount
  <1> DEFINE E == D \cup {k}
  <1>1. IsFiniteSet(E) /\ k \in E /\ E \ {k} = D /\ \A x \in E : p[x].amount \in Nat
    BY FS_AddElement
  <1> HIDE DEF E
  <1>2. \A x \in E : p[x].amount \in Int
    BY <1>1
  <1>3. /\ Volume(p, E \ {k}) \in Int
        /\ Volume(p, E) = p[k].amount + Volume(p, E \ {k})
    BY <1>1, <1>2, VolumeSplits
  <1>4. Volume(p, E) = Volume(p, D) + p[k].amount
    <2>1. Volume(p, D) \in Int /\ Volume(p, E) = p[k].amount + Volume(p, D)
      BY <1>1, <1>3
    <2>2. p[k].amount \in Int
      BY <1>1, <1>2
    <2> QED
      BY <2>1, <2>2
  <1> QED
    BY <1>4 DEF E

\* The volume of some transfers depends on their own terms only.
LEMMA VolumeAgrees ==
  ASSUME NEW p, NEW q, NEW D, IsFiniteSet(D), \A k \in D : p[k].amount = q[k].amount
  PROVE  Volume(p, D) = Volume(q, D)
  <1> DEFINE g == [k \in D |-> p[k].amount]
  <1>1. /\ \A k \in D : g[k] = p[k].amount
        /\ \A k \in D : g[k] = q[k].amount
    OBVIOUS
  <1> HIDE DEF g
  <1>2. PICK F : IsSum(F, g, D)
    BY SumExists
  <1> QED
    BY <1>1, <1>2, VolumeIsSum

-----------------------------------------------------------------------------
(* No money is created or destroyed.                                       *)

\* An account that does not exist holds nothing.
UnopenedInv == \A a \in Accounts \ opened : balance[a] = 0 /\ deposit[a] = 0

\* Whoever opens an account brings in what the account then holds.
Opens(a, d) ==
  /\ a \in Accounts \ opened /\ d \in Nat
  /\ opened' = opened \cup {a}
  /\ balance' = [balance EXCEPT ![a] = d]
  /\ deposit' = [deposit EXCEPT ![a] = d]
  /\ UNCHANGED <<status, payload>>

\* Whoever executes a transfer moves its amount between two accounts.
Moves(k) ==
  LET p == payload[k] IN
  /\ k \in Keys /\ p \in Payload /\ p.from # p.to /\ {p.from, p.to} \subseteq opened
  /\ balance' = [a \in Accounts |->
       balance[a] + (IF a = p.to THEN p.amount ELSE 0) - (IF a = p.from THEN p.amount ELSE 0)]
  /\ status' = [status EXCEPT ![k] = "completed"]
  /\ UNCHANGED <<opened, deposit, payload>>

\* Every step opens an account, executes a transfer, or moves no money.
LEMMA MoneySteps ==
  ASSUME Bookkeeping, [Next]_vars
  PROVE  \/ \E a \in Accounts, d \in Nat : Opens(a, d)
         \/ \E w \in Workers : Commit(w) /\ Moves(wjob[w])
         \/ UNCHANGED <<opened, balance, deposit>>
  <1> USE DEF Bookkeeping, TypeOK
  <1>1. ASSUME NEW w \in Workers, Commit(w)
        PROVE  Moves(wjob[w])
    <2>1. wpc[w] # "idle" /\ status[wjob[w]] # "absent"
      BY <1>1 DEF Commit, Step, RunsInv
    <2> QED
      BY <1>1, <2>1, WorkerPayload DEF Commit, Moves, RowsReferenceAccounts
  <1>2. ASSUME NEW a \in Accounts, NEW d \in Deposits, OpenAccount(a, d)
        PROVE  Opens(a, d)
    BY <1>2, DepositsAssumption DEF OpenAccount, Opens
  <1>3. CASE UNCHANGED <<opened, balance, deposit>>
    BY <1>3
  <1> QED
    BY <1>1, <1>2, <1>3, DepositsAssumption
    DEF Next, ExecutorStep, vars, dbVars, Receive, InsertRow, CommitRow, UniqueViolation, Replay,
        Enqueue, RequestFails, TakeJob, ReadRow, Lock1, Lock2, LockAccount, CheckPasses,
        CheckRejects, PersistFailure, FinishJob, FailJob, InfraError, Crash, StalledCheck, Evict,
        BeginLock, CommitLock, AbortLock, EndLock, ReleaseLock

\* An account that held nothing and now holds d adds d to the total.
LEMMA TotalAfterOpening ==
  ASSUME IsFiniteSet(Accounts), NEW g \in [Accounts -> Int], NEW h \in [Accounts -> Int],
         NEW a \in Accounts, NEW d \in Int, g[a] = 0, h[a] = d,
         \A x \in Accounts \ {a} : h[x] = g[x]
  PROVE  Total(h, Accounts) = Total(g, Accounts) + d
  <1>1. IsFiniteSet(Accounts \ {a})
    BY FS_Subset
  <1>2. Total(h, Accounts \ {a}) = Total(g, Accounts \ {a})
    BY <1>1, TotalAgrees
  <1>3. /\ Total(h, Accounts) = h[a] + Total(h, Accounts \ {a})
        /\ Total(h, Accounts \ {a}) \in Int
    BY TotalSplits
  <1>4. Total(g, Accounts) = g[a] + Total(g, Accounts \ {a})
    BY TotalSplits
  <1> QED
    BY <1>2, <1>3, <1>4

\* Moving an amount from one account to another leaves the total alone.
LEMMA TotalAfterMove ==
  ASSUME IsFiniteSet(Accounts), NEW g \in [Accounts -> Int], NEW h \in [Accounts -> Int],
         NEW a \in Accounts, NEW b \in Accounts, a # b, h[a] + h[b] = g[a] + g[b],
         \A x \in Accounts \ {a, b} : h[x] = g[x]
  PROVE  Total(h, Accounts) = Total(g, Accounts)
  <1> DEFINE A == Accounts \ {a}
             B == A \ {b}
  <1>1. IsFiniteSet(A) /\ IsFiniteSet(B) /\ b \in A /\ A \subseteq Accounts
    BY FS_Subset
  <1>2. Total(h, B) = Total(g, B)
    BY <1>1, TotalAgrees
  <1>3. \A f \in [Accounts -> Int] :
          /\ Total(f, B) \in Int
          /\ Total(f, Accounts) = f[a] + (f[b] + Total(f, B))
    <2> TAKE f \in [Accounts -> Int]
    <2>1. Total(f, Accounts) = f[a] + Total(f, A)
      BY TotalSplits
    <2>2. Total(f, B) \in Int /\ Total(f, A) = f[b] + Total(f, B)
      <3> HIDE DEF A
      <3> QED
        BY <1>1, TotalSplits
    <2> QED
      BY <2>1, <2>2
  <1> HIDE DEF A, B
  <1> QED
    BY <1>2, <1>3

\* What moving money does to the accounts.
LEMMA MoveEffect ==
  ASSUME Bookkeeping, NEW k, Moves(k)
  PROVE  LET p == payload[k] IN
         /\ k \in Keys /\ p.from \in Accounts /\ p.to \in Accounts /\ p.from # p.to
         /\ {p.from, p.to} \subseteq opened /\ p.amount \in Nat
         /\ balance' \in [Accounts -> Int]
         /\ balance'[p.from] = balance[p.from] - p.amount
         /\ balance'[p.to] = balance[p.to] + p.amount
         /\ \A x \in Accounts \ {p.from, p.to} : balance'[x] = balance[x]
         /\ UNCHANGED <<opened, deposit, payload>>
  <1> DEFINE p == payload[k]
  <1>1. /\ k \in Keys /\ p \in Payload /\ p.from # p.to /\ {p.from, p.to} \subseteq opened
        /\ UNCHANGED <<opened, deposit, payload>>
        /\ balance' = [a \in Accounts |->
             balance[a] + (IF a = p.to THEN p.amount ELSE 0)
                        - (IF a = p.from THEN p.amount ELSE 0)]
    BY DEF Moves
  <1>2. balance \in [Accounts -> Int]
    BY DEF Bookkeeping, TypeOK, DbTypeOK
  <1> HIDE DEF p
  <1>3. p.from \in Accounts /\ p.to \in Accounts /\ p.amount \in Amounts
    BY <1>1 DEF Payload
  <1>4. p.amount \in Nat
    BY <1>3, AmountsAssumption
  <1>5. /\ balance' \in [Accounts -> Int]
        /\ balance'[p.from] = balance[p.from] - p.amount
        /\ balance'[p.to] = balance[p.to] + p.amount
        /\ \A x \in Accounts \ {p.from, p.to} : balance'[x] = balance[x]
    BY <1>1, <1>2, <1>3, <1>4
  <1> QED
    BY <1>1, <1>3, <1>4, <1>5 DEF p

\* Only opening an account puts money into one that does not exist.
LEMMA UnopenedStep ==
  ASSUME Bookkeeping, UnopenedInv, [Next]_vars
  PROVE  UnopenedInv'
  <1> USE DEF UnopenedInv
  <1>1. balance \in [Accounts -> Int] /\ deposit \in [Accounts -> Int]
    BY DEF Bookkeeping, TypeOK, DbTypeOK
  <1>2. CASE UNCHANGED <<opened, balance, deposit>>
    BY <1>2
  <1>3. ASSUME NEW a \in Accounts, NEW d \in Nat, Opens(a, d)
        PROVE  UnopenedInv'
    BY <1>1, <1>3 DEF Opens
  <1>4. ASSUME NEW k, Moves(k)
        PROVE  UnopenedInv'
    BY <1>4, MoveEffect
  <1> QED
    BY <1>2, <1>3, <1>4, MoneySteps

\* The inductive invariant behind MoneyConserved.
MoneyInv == Bookkeeping /\ UnopenedInv /\ MoneyConserved

\* At first no account holds anything.
LEMMA MoneyInit == Init => MoneyInv
  <1> SUFFICES ASSUME Init PROVE MoneyInv
    OBVIOUS
  <1>1. balance = deposit
    BY DEF Init, DbInit
  <1> QED
    BY <1>1, BookkeepingInit DEF MoneyInv, MoneyConserved, UnopenedInv, Init, DbInit

\* Every step keeps the two totals equal.
LEMMA MoneyStep ==
  ASSUME IsFiniteSet(Accounts), MoneyInv, [Next]_vars
  PROVE  MoneyConserved'
  <1> USE DEF MoneyInv, MoneyConserved
  <1>1. balance \in [Accounts -> Int] /\ deposit \in [Accounts -> Int]
    BY DEF Bookkeeping, TypeOK, DbTypeOK
  <1>2. CASE UNCHANGED <<opened, balance, deposit>>
    BY <1>2
  <1>3. ASSUME NEW a \in Accounts, NEW d \in Nat, Opens(a, d)
        PROVE  MoneyConserved'
    <2>1. balance[a] = 0 /\ deposit[a] = 0
      BY <1>3 DEF Opens, UnopenedInv
    <2>2. /\ balance' \in [Accounts -> Int] /\ deposit' \in [Accounts -> Int]
          /\ balance'[a] = d /\ deposit'[a] = d
          /\ \A x \in Accounts \ {a} : balance'[x] = balance[x] /\ deposit'[x] = deposit[x]
      BY <1>1, <1>3 DEF Opens
    <2>3. Total(balance', Accounts) = Total(balance, Accounts) + d
      BY <1>1, <2>1, <2>2, TotalAfterOpening
    <2>4. Total(deposit', Accounts) = Total(deposit, Accounts) + d
      BY <1>1, <2>1, <2>2, TotalAfterOpening
    <2> QED
      BY <2>3, <2>4
  <1>4. ASSUME NEW k, Moves(k)
        PROVE  MoneyConserved'
    <2> DEFINE p == payload[k]
    <2>1. /\ p.from \in Accounts /\ p.to \in Accounts /\ p.from # p.to /\ p.amount \in Nat
          /\ balance' \in [Accounts -> Int] /\ UNCHANGED deposit
          /\ balance'[p.from] = balance[p.from] - p.amount
          /\ balance'[p.to] = balance[p.to] + p.amount
          /\ \A x \in Accounts \ {p.from, p.to} : balance'[x] = balance[x]
      BY <1>4, MoveEffect
    <2> HIDE DEF p
    <2>2. balance'[p.from] + balance'[p.to] = balance[p.from] + balance[p.to]
      BY <1>1, <2>1
    <2>3. Total(balance', Accounts) = Total(balance, Accounts)
      BY <1>1, <2>1, <2>2, TotalAfterMove
    <2> QED
      BY <2>1, <2>3
  <1> QED
    BY <1>2, <1>3, <1>4, MoneySteps

\* Transfers neither create nor destroy money: however many accounts there
\* are, they hold together what was paid into them when they were opened
\* (executor.ts:80-96), even when two workers run one transfer.
THEOREM NoMoneyIsMade ==
  ASSUME IsFiniteSet(Accounts)
  PROVE  Spec => []MoneyConserved
  <1>1. MoneyInv /\ [Next]_vars => MoneyInv'
    BY BookkeepingStep, UnopenedStep, MoneyStep DEF MoneyInv
  <1>2. MoneyInv => MoneyConserved
    BY DEF MoneyInv
  <1> QED
    BY <1>1, <1>2, MoneyInit, PTL DEF Spec

-----------------------------------------------------------------------------
(* The books balance.                                                      *)

\* The transfers whose money has moved.
Done == {k \in Keys : status[k] = "completed"}

\* What transfers of D brought into account a, and what they took out of it.
Incoming(p, D, a) == {k \in D : p[k].to = a}
Outgoing(p, D, a) == {k \in D : p[k].from = a}

\* The terms of a transfer that has a row.
LEMMA Terms ==
  ASSUME Bookkeeping, NEW k \in Keys, status[k] # "absent"
  PROVE  payload[k] \in Payload /\ payload[k].amount \in Nat
  <1>1. payload[k] \in Payload
    BY DEF Bookkeeping, TypeOK, DbTypeOK, RowsReferenceAccounts
  <1>2. payload[k].amount \in Amounts
    BY <1>1 DEF Payload
  <1> QED
    BY <1>1, <1>2, AmountsAssumption

\* Every step opens an account, executes a pending transfer, or leaves the
\* money, and the terms of what is completed, alone.
LEMMA BookedSteps ==
  ASSUME DeliveryInv, [Next]_vars
  PROVE  \/ \E a \in Accounts, d \in Nat : Opens(a, d)
         \/ \E k \in Keys : Moves(k) /\ status[k] = "pending"
         \/ /\ UNCHANGED <<balance, deposit>>
            /\ Done' = Done
            /\ \A k \in Done : payload'[k] = payload[k]
  <1> USE DEF DeliveryInv, Bookkeeping, TypeOK, DbTypeOK, Done
  <1>1. ASSUME NEW w \in Workers, Commit(w)
        PROVE  Moves(wjob[w]) /\ wjob[w] \in Keys /\ status[wjob[w]] = "pending"
    <2>1. Moves(wjob[w]) /\ status[wjob[w]] = "pending"
      BY <1>1, WorkerPayload
      DEF Commit, Step, RunsInv, Moves, RowsReferenceAccounts, PendingInv, InTransaction
    <2> QED
      BY <2>1 DEF Moves
  <1>2. ASSUME NEW a \in Accounts, NEW d \in Deposits, OpenAccount(a, d)
        PROVE  Opens(a, d)
    BY <1>2, DepositsAssumption DEF OpenAccount, Opens
  <1>3. ASSUME NEW w \in Workers, PersistFailure(w)
        PROVE  UNCHANGED <<balance, deposit, payload>> /\ Done' = Done
    <2>1. wjob[w] \in Keys /\ status[wjob[w]] = "pending"
      BY <1>3, WorkerPayload DEF PersistFailure, Step, PendingInv, InTransaction
    <2> QED
      BY <1>3, <2>1 DEF PersistFailure
  <1>4. ASSUME NEW r \in Requests, CommitRow(r)
        PROVE  /\ UNCHANGED <<balance, deposit>> /\ Done' = Done
               /\ \A k \in Done : payload'[k] = payload[k]
    BY <1>4 DEF CommitRow, CallsInv
  <1>5. CASE UNCHANGED <<balance, deposit, payload, status>>
    BY <1>5
  <1> QED
    BY <1>1, <1>2, <1>3, <1>4, <1>5, DepositsAssumption
    DEF Next, ExecutorStep, vars, dbVars, Receive, InsertRow, UniqueViolation, Replay,
        Enqueue, RequestFails, TakeJob, ReadRow, Lock1, Lock2, LockAccount, CheckPasses,
        CheckRejects, FinishJob, FailJob, InfraError, Crash, StalledCheck, Evict,
        BeginLock, CommitLock, AbortLock, EndLock, ReleaseLock

\* BooksBalance, account by account.
Booked(a) ==
  balance[a] = deposit[a] + Volume(payload, Incoming(payload, Done, a))
                          - Volume(payload, Outgoing(payload, Done, a))

\* The books balance when every account is booked.
LEMMA BooksAreBooked ==
  BooksBalance <=> \A a \in Accounts : Booked(a)
  BY DEF BooksBalance, Booked, Incoming, Outgoing, Done

\* Volumes of completed transfers are numbers.
LEMMA DoneVolumes ==
  ASSUME Bookkeeping, IsFiniteSet(Keys), NEW S \in SUBSET Done
  PROVE  /\ IsFiniteSet(S)
         /\ \A k \in S : payload[k].amount \in Nat
         /\ Volume(payload, S) \in Int
  <1>1. IsFiniteSet(S)
    BY FS_Subset DEF Done
  <1>2. \A k \in S : payload[k].amount \in Nat
    BY Terms DEF Done
  <1> QED
    BY <1>1, <1>2, VolumeSplits

\* The inductive invariant behind BooksBalance.
BooksInv == DeliveryInv /\ UnopenedInv /\ BooksBalance

\* At first nothing is deposited or moved.
LEMMA BooksInit == ASSUME IsFiniteSet(Keys), Init PROVE BooksInv
  <1>1. DeliveryInv /\ UnopenedInv
    BY DeliveryInit, MoneyInit DEF MoneyInv
  <1>2. Done = {}
    BY DEF Init, DbInit, Done
  <1>3. ASSUME NEW a \in Accounts
        PROVE  Booked(a)
    <2>1. Incoming(payload, Done, a) = {} /\ Outgoing(payload, Done, a) = {}
      BY <1>2 DEF Incoming, Outgoing
    <2>2. Volume(payload, {}) = 0
      BY FS_EmptySet, VolumeSplits
    <2>3. balance[a] = 0 /\ deposit[a] = 0
      BY DEF Init, DbInit
    <2> QED
      BY <2>1, <2>2, <2>3 DEF Booked
  <1> QED
    BY <1>1, <1>3, BooksAreBooked DEF BooksInv

\* Opening an account books its deposit.
LEMMA BooksOpen ==
  ASSUME IsFiniteSet(Keys), BooksInv, NEW a \in Accounts, NEW d \in Nat, Opens(a, d),
         NEW b \in Accounts
  PROVE  Booked(b)'
  <1> DEFINE V == Volume(payload, Incoming(payload, Done, b))
             U == Volume(payload, Outgoing(payload, Done, b))
  <1>1. V \in Int /\ U \in Int
    BY DoneVolumes DEF BooksInv, DeliveryInv, Incoming, Outgoing
  <1>2. balance[b] = deposit[b] + V - U
    BY BooksAreBooked DEF BooksInv, Booked
  <1>3. Booked(b)' <=> balance'[b] = deposit'[b] + V - U
    BY DEF Opens, Booked, Incoming, Outgoing, Done
  <1>4. \/ balance'[b] = balance[b] /\ deposit'[b] = deposit[b]
        \/ balance[b] = 0 /\ deposit[b] = 0 /\ balance'[b] = d /\ deposit'[b] = d
    BY DEF BooksInv, DeliveryInv, Bookkeeping, TypeOK, DbTypeOK, UnopenedInv, Opens
  <1> HIDE DEF V, U
  <1> QED
    BY <1>1, <1>2, <1>3, <1>4

\* Executing a transfer books it with both its accounts.
LEMMA BooksMove ==
  ASSUME IsFiniteSet(Keys), BooksInv, NEW k \in Keys, Moves(k), status[k] = "pending",
         NEW b \in Accounts
  PROVE  Booked(b)'
  <1> DEFINE p == payload[k]
             In == Incoming(payload, Done, b)
             Out == Outgoing(payload, Done, b)
             NewIn == Incoming(payload, Done \cup {k}, b)
             NewOut == Outgoing(payload, Done \cup {k}, b)
  <1>1. Bookkeeping
    BY DEF BooksInv, DeliveryInv
  <1>2. k \notin Done /\ p.amount \in Nat
    BY <1>1, Terms DEF Done
  <1>3. /\ Volume(payload, In) \in Int /\ Volume(payload, Out) \in Int
        /\ IsFiniteSet(In) /\ IsFiniteSet(Out)
        /\ \A x \in In \cup Out : payload[x].amount \in Nat
    BY <1>1, DoneVolumes DEF Incoming, Outgoing
  <1>4. balance[b] = deposit[b] + Volume(payload, In) - Volume(payload, Out)
    BY BooksAreBooked DEF BooksInv, Booked
  <1>5. Done' = Done \cup {k} /\ UNCHANGED <<deposit, payload>>
    BY <1>1 DEF Moves, Done, Bookkeeping, TypeOK, DbTypeOK
  <1>6. Booked(b)' <=> balance'[b] = deposit[b] + Volume(payload, NewIn) - Volume(payload, NewOut)
    BY <1>5 DEF Booked, Incoming, Outgoing
  <1>7. Volume(payload, NewIn) = Volume(payload, In) + (IF b = p.to THEN p.amount ELSE 0)
    <2>1. CASE b = p.to
      <3>1. NewIn = In \cup {k} /\ k \notin In
        BY <1>2, <2>1 DEF Incoming
      <3>2. \A x \in In \cup {k} : payload[x].amount \in Nat
        BY <1>2, <1>3
      <3> HIDE DEF In, NewIn
      <3>3. Volume(payload, NewIn) = Volume(payload, In) + payload[k].amount
        BY <1>3, <3>1, <3>2, VolumeAfter
      <3> QED
        BY <2>1, <3>3
    <2>2. CASE b # p.to
      <3>1. NewIn = In
        BY <2>2 DEF Incoming
      <3> HIDE DEF In, NewIn, p
      <3> QED
        BY <1>3, <2>2, <3>1
    <2> QED
      BY <2>1, <2>2
  <1>8. Volume(payload, NewOut) = Volume(payload, Out) + (IF b = p.from THEN p.amount ELSE 0)
    <2>1. CASE b = p.from
      <3>1. NewOut = Out \cup {k} /\ k \notin Out
        BY <1>2, <2>1 DEF Outgoing
      <3>2. \A x \in Out \cup {k} : payload[x].amount \in Nat
        BY <1>2, <1>3
      <3> HIDE DEF Out, NewOut
      <3>3. Volume(payload, NewOut) = Volume(payload, Out) + payload[k].amount
        BY <1>3, <3>1, <3>2, VolumeAfter
      <3> QED
        BY <2>1, <3>3
    <2>2. CASE b # p.from
      <3>1. NewOut = Out
        BY <2>2 DEF Outgoing
      <3> HIDE DEF Out, NewOut, p
      <3> QED
        BY <1>3, <2>2, <3>1
    <2> QED
      BY <2>1, <2>2
  <1>9. /\ balance[b] \in Int /\ deposit[b] \in Int
        /\ balance'[b] = balance[b] + (IF b = p.to THEN p.amount ELSE 0)
                                    - (IF b = p.from THEN p.amount ELSE 0)
    BY <1>1 DEF Moves, Bookkeeping, TypeOK, DbTypeOK
  <1> HIDE DEF p, In, Out, NewIn, NewOut
  <1> QED
    BY <1>2, <1>3, <1>4, <1>6, <1>7, <1>8, <1>9

\* Every step keeps the books.
LEMMA BooksStep ==
  ASSUME IsFiniteSet(Keys), BooksInv, [Next]_vars
  PROVE  BooksBalance'
  <1>1. ASSUME NEW a \in Accounts, NEW d \in Nat, Opens(a, d)
        PROVE  \A b \in Accounts : Booked(b)'
    BY <1>1, BooksOpen
  <1>2. ASSUME NEW k \in Keys, Moves(k), status[k] = "pending"
        PROVE  \A b \in Accounts : Booked(b)'
    BY <1>2, BooksMove
  <1>3. ASSUME UNCHANGED <<balance, deposit>>, Done' = Done, \A k \in Done : payload'[k] = payload[k],
               NEW b \in Accounts
        PROVE  Booked(b)'
    <2> DEFINE In == Incoming(payload, Done, b)
               Out == Outgoing(payload, Done, b)
    <2>1. Incoming(payload', Done', b) = In /\ Outgoing(payload', Done', b) = Out
      BY <1>3 DEF Incoming, Outgoing
    <2>2. IsFiniteSet(In) /\ IsFiniteSet(Out)
      BY DoneVolumes DEF BooksInv, DeliveryInv, Incoming, Outgoing
    <2>3. \A k \in In \cup Out : payload'[k].amount = payload[k].amount
      BY <1>3 DEF Incoming, Outgoing
    <2>4. balance[b] = deposit[b] + Volume(payload, In) - Volume(payload, Out)
      BY BooksAreBooked DEF BooksInv, Booked
    <2>5. Booked(b)' <=> balance'[b] = deposit'[b] + Volume(payload', In) - Volume(payload', Out)
      BY <2>1 DEF Booked
    <2> HIDE DEF In, Out
    <2>6. Volume(payload', In) = Volume(payload, In) /\ Volume(payload', Out) = Volume(payload, Out)
      BY <2>2, <2>3, VolumeAgrees
    <2> QED
      BY <1>3, <2>4, <2>5, <2>6
  <1>4. \A b \in Accounts : Booked(b)'
    BY <1>1, <1>2, <1>3, BookedSteps DEF BooksInv
  <1> QED
    BY <1>4 DEF BooksBalance, Booked, Incoming, Outgoing, Done

\* The books balance: what an account holds is its deposit and the transfers of
\* its history that completed, each counted once, whatever was retried or
\* handed out again (service.ts:48-50).
THEOREM BooksAlwaysBalance ==
  ASSUME IsFiniteSet(Keys), LiveStalls = FALSE
  PROVE  Spec => []BooksBalance
  <1>1. Init => BooksInv
    BY BooksInit
  <1>2. ASSUME BooksInv, [Next]_vars
        PROVE  BooksInv' \/ ~ DeliveryInv'
    BY <1>2, UnopenedStep, BooksStep DEF BooksInv, DeliveryInv
  <1>3. BooksInv /\ DeliveryInv' /\ [Next]_vars => BooksInv'
    BY <1>2
  <1>4. BooksInv => BooksBalance
    BY DEF BooksInv
  <1> QED
    BY <1>1, <1>3, <1>4, DeliveryHolds, PTL DEF Spec

=============================================================================
