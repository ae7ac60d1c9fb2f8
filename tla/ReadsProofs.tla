----------------------------- MODULE ReadsProofs -----------------------------
(***************************************************************************)
(* Proofs about AccountReads for every number of accounts, keys, workers,  *)
(* calls and locks and every page size: a walk over an account's history   *)
(* is complete and tells nothing twice, and a detail of an account that is *)
(* locked throughout is right.                                             *)
(*                                                                         *)
(* The invariant has three parts.  Isolation is that of TransferSystem.    *)
(* RowsInv says that the rows of an account are finitely many, and that    *)
(* each has a number.  ViewInv says what the reader knows: all it was told *)
(* is at or above its cursor, and what it was not told is below.           *)
(***************************************************************************)
EXTENDS AccountReads, TransferSystemProofs, FiniteSetTheorems

\* The transfers that have a row.
Present == {k \in Keys : status[k] # "absent"}

\* The rows have numbers, which are above 0.
RowsInv ==
  /\ sequence \in Nat \ {0}
  /\ drawn \in [Requests -> 0 .. sequence]
  /\ seq \in [Keys -> 0 .. sequence]
  /\ IsFiniteSet(Present)
  /\ \A r \in Requests : reqPc[r] \in {"insert", "insertTo"} => drawn[r] > 0
  /\ \A k \in Present : seq[k] > 0

Views == [pc : {"idle", "walk", "walked", "detail", "told"},
          account : Accounts \cup {NoAccount}, cursor : Nat,
          known : SUBSET (Keys \cup {Opening} \cup LockIds),
          seen : SUBSET (Keys \cup {Opening}), items : Nat,
          balance : Int, locked : BOOLEAN]

\* A walk: what it has told lies at or above the cursor, what it has not told
\* of what it has to lies below.
WalkOf ==
  /\ view.account \in opened
  /\ view.seen \subseteq HistoryRows(view.account)
  /\ view.known \subseteq HistoryRows(view.account)
  /\ view.cursor = 0 => view.seen = {}
  /\ \A x \in view.seen : view.cursor <= SeqOf(x)
  /\ \A x \in view.known \ view.seen : view.cursor = 0 \/ SeqOf(x) < view.cursor

\* A detail: the balance read is that of the account as long as one of the
\* locks that were there is.
DetailOf ==
  /\ view.account \in Accounts
  /\ \A l \in view.known :
       /\ l \in LockIds /\ lockState[l] \in {"active", "released"} /\ lockAccount[l] = view.account
       /\ lockState[l] = "active" => view.balance = balance[view.account]

ViewInv ==
  /\ view \in Views
  /\ IsFiniteSet(view.seen) /\ view.items = Cardinality(view.seen)
  /\ view.pc = "idle" => view = NoView
  /\ view.pc = "walk" => WalkOf
  /\ view.pc = "walked" => view.known \subseteq view.seen
  /\ view.pc = "detail" => DetailOf

ReaderInv == Isolation /\ RowsInv /\ ViewInv

-----------------------------------------------------------------------------
(* Pages.                                                                  *)

\* A set of numbered rows has an oldest one.
LEMMA OldestIn ==
  ASSUME NEW S, S # {}, \A x \in S : SeqOf(x) \in Nat
  PROVE  Oldest(S) \in S /\ \A y \in S : SeqOf(Oldest(S)) <= SeqOf(y)
  <1> DEFINE T == {n \in Nat : \E x \in S : SeqOf(x) = n}
             Less == OpToRel(<, Nat)
  <1>1. T \subseteq Nat /\ T # {}
    OBVIOUS
  <1>2. PICK n \in T : \A k \in T : ~ (<<k, n>> \in Less)
    <2> HIDE DEF T
    <2> QED
      BY <1>1, NatLessThanWellFounded, WFMin
  <1>3. \A k \in T : ~ (k < n)
    BY <1>1, <1>2 DEF OpToRel
  <1>4. PICK x \in S : SeqOf(x) = n
    OBVIOUS
  <1>5. \A y \in S : SeqOf(x) <= SeqOf(y)
    BY <1>1, <1>3, <1>4
  <1> QED
    BY <1>4, <1>5 DEF Oldest

\* Above a row: what a page shows before it.
Above(S, x) == {y \in S : SeqOf(y) > SeqOf(x)}

\* What is not among the newest rows is older than each of them.
LEMMA NewestAbove ==
  ASSUME NEW S, IsFiniteSet(S), \A x \in S : SeqOf(x) \in Nat, NEW n \in Nat,
         NEW x \in S \ Newest(S, n), NEW y \in Newest(S, n)
  PROVE  SeqOf(x) < SeqOf(y)
  <1>1. y \in S /\ SeqOf(x) \in Nat /\ SeqOf(y) \in Nat
    BY DEF Newest
  <1>2. Cardinality(Above(S, y)) < n /\ ~ (Cardinality(Above(S, x)) < n)
    BY DEF Newest, Above
  <1>3. ASSUME SeqOf(y) <= SeqOf(x)
        PROVE  FALSE
    <2>1. Above(S, x) \subseteq Above(S, y) /\ Above(S, y) \subseteq S
      BY <1>1, <1>3 DEF Above
    <2>2. IsFiniteSet(Above(S, y))
      BY <2>1, FS_Subset
    <2>3. IsFiniteSet(Above(S, x)) /\ Cardinality(Above(S, x)) <= Cardinality(Above(S, y))
      BY <2>1, <2>2, FS_Subset
    <2>4. Cardinality(Above(S, x)) \in Nat /\ Cardinality(Above(S, y)) \in Nat
      BY <2>2, <2>3, FS_CardinalityType
    <2> QED
      BY <1>2, <2>3, <2>4
  <1> QED
    BY <1>1, <1>3

\* The newest n rows are n at least, unless they are all.
LEMMA NewestFull ==
  ASSUME NEW N \in Nat, NEW S, IsFiniteSet(S), \A x \in S : SeqOf(x) \in 0 .. N, NEW n \in Nat,
         Newest(S, n) # S
  PROVE  Cardinality(Newest(S, n)) >= n
  <1> DEFINE U == S \ Newest(S, n)
             T == {k \in 0 .. N : \E x \in U : SeqOf(x) = k}
  <1>1. Newest(S, n) \subseteq S /\ U # {}
    BY DEF Newest
  <1>2. T \subseteq 0 .. N /\ T # {}
    BY <1>1
  <1>3. PICK k \in T : \A j \in T : j <= k
    <2> HIDE DEF T
    <2> QED
      BY <1>2, LargestNatural
  <1>4. PICK x \in U : SeqOf(x) = k
    OBVIOUS
  <1>5. Above(S, x) \subseteq Newest(S, n)
    <2>1. ASSUME NEW y \in Above(S, x), y \in U
          PROVE  FALSE
      <3>1. SeqOf(y) \in T /\ SeqOf(y) > k
        BY <1>4, <2>1 DEF Above
      <3>2. k \in Nat /\ SeqOf(y) \in Nat
        BY <3>1
      <3> HIDE DEF T
      <3> QED
        BY <1>3, <3>1, <3>2
    <2> QED
      BY <2>1 DEF Above
  <1>6. ~ (Cardinality(Above(S, x)) < n)
    BY <1>4 DEF Newest, Above
  <1>7. IsFiniteSet(Newest(S, n))
    BY <1>1, FS_Subset
  <1>8. IsFiniteSet(Above(S, x)) /\ Cardinality(Above(S, x)) <= Cardinality(Newest(S, n))
    BY <1>5, <1>7, FS_Subset
  <1>9. Cardinality(Above(S, x)) \in Nat /\ Cardinality(Newest(S, n)) \in Nat
    BY <1>7, <1>8, FS_CardinalityType
  <1> QED
    BY <1>6, <1>8, <1>9

\* A page of the rows B: either there is more, and all of it is older than the
\* page, or the page is all of B.
LEMMA PageOf ==
  ASSUME NEW N \in Nat, NEW B, IsFiniteSet(B), \A x \in B : SeqOf(x) \in 0 .. N,
         NEW rows, rows = Newest(B, PageSize + 1), NEW page, page = Newest(rows, PageSize)
  PROVE  /\ page \subseteq B /\ IsFiniteSet(page) /\ IsFiniteSet(rows)
         /\ Cardinality(rows) > PageSize =>
              /\ Oldest(page) \in page
              /\ \A x \in page : SeqOf(Oldest(page)) <= SeqOf(x)
              /\ \A x \in B \ page : SeqOf(x) < SeqOf(Oldest(page))
         /\ ~ (Cardinality(rows) > PageSize) => page = B
  <1>1. PageSize \in Nat /\ PageSize + 1 \in Nat /\ PageSize >= 1
    BY ReadsAssumption
  <1>2. rows \subseteq B /\ page \subseteq rows
    BY DEF Newest
  <1>3. IsFiniteSet(rows) /\ IsFiniteSet(page)
    <2>1. IsFiniteSet(rows)
      BY <1>2, FS_Subset
    <2> QED
      BY <1>2, <2>1, FS_Subset
  <1>4. /\ Cardinality(rows) \in Nat /\ Cardinality(page) \in Nat
        /\ \A x \in B : SeqOf(x) \in Nat
    BY <1>3, FS_CardinalityType
  <1>5. rows # B => Cardinality(rows) >= PageSize + 1
    BY <1>1, NewestFull
  <1>6. page # rows => Cardinality(page) >= PageSize /\ Cardinality(page) < Cardinality(rows)
    <2>1. page # rows => Cardinality(page) >= PageSize
      BY <1>1, <1>2, <1>3, NewestFull
    <2>2. page # rows => Cardinality(page) <= Cardinality(rows) /\ Cardinality(page) # Cardinality(rows)
      BY <1>2, <1>3, FS_Subset
    <2> QED
      BY <1>4, <2>1, <2>2
  <1>7. ~ (Cardinality(rows) > PageSize) => page = B
    BY <1>1, <1>4, <1>5, <1>6
  <1>8. ASSUME Cardinality(rows) > PageSize
        PROVE  /\ Oldest(page) \in page
               /\ \A x \in page : SeqOf(Oldest(page)) <= SeqOf(x)
               /\ \A x \in B \ page : SeqOf(x) < SeqOf(Oldest(page))
    <2>1. page # {}
      <3>1. page = rows \/ Cardinality(page) >= 1
        BY <1>1, <1>4, <1>6
      <3>2. Cardinality(page) >= 1
        BY <1>1, <1>4, <1>8, <3>1
      <3> QED
        BY <1>3, <1>4, <3>2, FS_EmptySet
    <2>2. Oldest(page) \in page /\ \A x \in page : SeqOf(Oldest(page)) <= SeqOf(x)
      BY <1>2, <1>4, <2>1, OldestIn
    <2>3. ASSUME NEW x \in B \ page
          PROVE  SeqOf(x) < SeqOf(Oldest(page))
      <3>1. CASE x \in rows
        BY <1>1, <1>2, <1>3, <1>4, <2>2, <2>3, <3>1, NewestAbove
      <3>2. CASE x \notin rows
        BY <1>1, <1>2, <1>4, <2>2, <2>3, <3>2, NewestAbove
      <3> QED
        BY <3>1, <3>2
    <2> QED
      BY <2>2, <2>3
  <1> QED
    BY <1>2, <1>3, <1>7, <1>8

-----------------------------------------------------------------------------
(* What a step of the bank does to the rows.                               *)

\* A call goes one step at a time.
LEMMA CallMoves ==
  ASSUME Bookkeeping, [Next]_vars
  PROVE  \/ UNCHANGED reqPc
         \/ \E r \in Requests :
              /\ \A q \in Requests \ {r} : reqPc'[q] = reqPc[q]
              /\ reqPc'[r] = "insertTo" => reqPc[r] = "insert"
  <1>1. CASE UNCHANGED reqPc
    BY <1>1
  <1>2. ASSUME NEW r \in Requests,
               \/ \E k \in Keys, p \in Payload : Receive(r, k, p)
               \/ InsertRow(r) \/ CommitRow(r) \/ UniqueViolation(r) \/ Replay(r) \/ Enqueue(r)
               \/ RequestFails(r)
        PROVE  \/ UNCHANGED reqPc
               \/ /\ \A q \in Requests \ {r} : reqPc'[q] = reqPc[q]
                  /\ reqPc'[r] = "insertTo" => reqPc[r] = "insert"
    BY <1>2 DEF Bookkeeping, TypeOK, ServiceTypeOK, Receive, InsertRow, CommitRow, UniqueViolation,
                Replay, Enqueue, RequestFails, GoTo, Answer
  <1>3. ASSUME NEW w \in Workers,
               (\E k \in Keys : TakeJob(w, k)) \/ ExecutorStep(w) \/ InfraError(w) \/ Crash(w)
        PROVE  UNCHANGED reqPc
    BY <1>3 DEF ExecutorStep, serviceVars, TakeJob, ReadRow, Lock1, Lock2, LockAccount, CheckPasses,
                CheckRejects, Commit, PersistFailure, FinishJob, FailJob, InfraError, Crash
  <1> QED
    BY <1>1, <1>2, <1>3
    DEF Next, vars, serviceVars, StalledCheck, Evict, OpenAccount, BeginLock, CommitLock, AbortLock,
        EndLock, ReleaseLock

\* Rows stay, with their terms, and at most one appears at a time, inserted by a
\* call.
LEMMA RowsStay ==
  ASSUME Bookkeeping, [Next]_vars
  PROVE  /\ \A k \in Present : k \in Present' /\ payload'[k] = payload[k]
         /\ \/ Present' = Present
            \/ \E r \in Requests : /\ reqPc[r] = "insertTo" /\ reqKey[r] \in Keys
                                   /\ Present' = Present \cup {reqKey[r]}
  <1> USE DEF Bookkeeping, TypeOK, DbTypeOK, Present
  <1>1. CASE UNCHANGED <<payload, status>>
    BY <1>1
  <1>2. ASSUME NEW r \in Requests, CommitRow(r)
        PROVE  /\ \A k \in Present : k \in Present' /\ payload'[k] = payload[k]
               /\ reqPc[r] = "insertTo" /\ reqKey[r] \in Keys
               /\ Present' = Present \cup {reqKey[r]}
    BY <1>2 DEF CommitRow, CallsInv
  <1>3. ASSUME NEW w \in Workers, Commit(w) \/ PersistFailure(w)
        PROVE  /\ \A k \in Present : k \in Present' /\ payload'[k] = payload[k]
               /\ Present' = Present
    <2>1. wjob[w] \in Present
      BY <1>3, WorkerPayload DEF Commit, PersistFailure, Step
    <2>2. payload' = payload /\ \E s \in Terminal : status' = [status EXCEPT ![wjob[w]] = s]
      BY <1>3 DEF Commit, PersistFailure, Terminal
    <2> QED
      BY <2>1, <2>2 DEF Terminal
  <1> QED
    BY <1>1, <1>2, <1>3
    DEF Next, ExecutorStep, vars, dbVars, Receive, InsertRow, UniqueViolation, Replay, Enqueue,
        RequestFails, TakeJob, ReadRow, Lock1, Lock2, LockAccount, CheckPasses, CheckRejects,
        FinishJob, FailJob, InfraError, Crash, StalledCheck, Evict, OpenAccount, BeginLock,
        CommitLock, AbortLock, EndLock, ReleaseLock

\* An account stays open, with its opening deposit.
LEMMA AccountsStay ==
  ASSUME Bookkeeping, [Next]_vars
  PROVE  opened \subseteq opened' /\ \A a \in opened : deposit'[a] = deposit[a]
  <1> USE DEF Bookkeeping, TypeOK, DbTypeOK
  <1>1. CASE UNCHANGED <<opened, deposit>>
    BY <1>1
  <1>2. ASSUME NEW a \in Accounts, NEW d \in Deposits, OpenAccount(a, d)
        PROVE  opened \subseteq opened' /\ \A b \in opened : deposit'[b] = deposit[b]
    BY <1>2 DEF OpenAccount
  <1> QED
    BY <1>1, <1>2
    DEF Next, ExecutorStep, vars, dbVars, Receive, InsertRow, CommitRow, UniqueViolation, Replay, Enqueue,
        RequestFails, TakeJob, ReadRow, Lock1, Lock2, LockAccount, CheckPasses, CheckRejects, Commit,
        PersistFailure, FinishJob, FailJob, InfraError, Crash, StalledCheck, Evict, BeginLock,
        CommitLock, AbortLock, EndLock, ReleaseLock

\* A lock is released once, and does not come back.
LEMMA LocksStay ==
  ASSUME Bookkeeping, [Next]_vars, NEW l \in LockIds, lockState[l] \in {"active", "released"}
  PROVE  /\ lockState'[l] \in {"active", "released"} /\ lockAccount'[l] = lockAccount[l]
         /\ lockState'[l] = "active" => lockState[l] = "active"
  <1> USE DEF Bookkeeping, TypeOK, DbTypeOK
  <1>1. CASE UNCHANGED <<lockState, lockAccount>>
    BY <1>1
  <1>2. ASSUME NEW x \in LockIds, NEW a \in Accounts, BeginLock(x, a)
        PROVE  UNCHANGED <<lockState[l], lockAccount[l]>>
    BY <1>2 DEF BeginLock
  <1>3. ASSUME NEW x \in LockIds, CommitLock(x) \/ AbortLock(x)
        PROVE  UNCHANGED <<lockState[l], lockAccount[l]>>
    BY <1>3 DEF CommitLock, AbortLock, EndLock
  <1>4. ASSUME NEW x \in LockIds, ReleaseLock(x)
        PROVE  /\ lockState'[l] \in {lockState[l], "released"} /\ lockAccount'[l] = lockAccount[l]
    BY <1>4 DEF ReleaseLock
  <1> QED
    BY <1>1, <1>2, <1>3, <1>4
    DEF Next, ExecutorStep, vars, dbVars, Receive, InsertRow, CommitRow, UniqueViolation, Replay, Enqueue,
        RequestFails, TakeJob, ReadRow, Lock1, Lock2, LockAccount, CheckPasses, CheckRejects, Commit,
        PersistFailure, FinishJob, FailJob, InfraError, Crash, StalledCheck, Evict, OpenAccount

-----------------------------------------------------------------------------
(* The numbers of the rows.                                                *)

\* Every insert draws a number above 0, and its row shows it.
LEMMA RowsInvKept ==
  ASSUME Bookkeeping, RowsInv, [Next]_vars, DrawSeq
  PROVE  /\ RowsInv'
         /\ \A k \in Present : seq'[k] = seq[k]
  <1> DEFINE begun == {r \in Requests : reqPc[r] # "insert" /\ reqPc'[r] = "insert"}
             inserts(k) == {r \in Requests : reqPc[r] = "insertTo" /\ reqKey[r] = k}
  <1>1. /\ sequence' = sequence + Cardinality(begun)
        /\ drawn' = [r \in Requests |-> IF r \in begun THEN sequence + 1 ELSE drawn[r]]
        /\ seq' = [k \in Keys |-> IF status[k] = "absent" /\ status'[k] # "absent"
                                    THEN drawn[CHOOSE r \in inserts(k) : TRUE] ELSE seq[k]]
    BY DEF DrawSeq, Advanced
  <1>2. /\ \A r \in Requests : reqPc'[r] = "insertTo" => reqPc[r] \in {"insert", "insertTo"}
        /\ begun = {} \/ \E r \in Requests : begun \subseteq {r}
    <2>1. CASE UNCHANGED reqPc
      BY <2>1 DEF Bookkeeping, TypeOK, ServiceTypeOK
    <2>2. ASSUME NEW r \in Requests, \A q \in Requests \ {r} : reqPc'[q] = reqPc[q],
                 reqPc'[r] = "insertTo" => reqPc[r] = "insert"
          PROVE  /\ \A q \in Requests : reqPc'[q] = "insertTo" => reqPc[q] \in {"insert", "insertTo"}
                 /\ begun \subseteq {r}
      BY <2>2 DEF Bookkeeping, TypeOK, ServiceTypeOK
    <2> HIDE DEF begun
    <2> QED
      BY <2>1, <2>2, CallMoves
  <1> HIDE DEF begun
  <1>3. IsFiniteSet(begun) /\ Cardinality(begun) \in Nat /\ (begun # {} => Cardinality(begun) >= 1)
    <2>1. IsFiniteSet(begun)
      BY <1>2, FS_EmptySet, FS_Singleton, FS_Subset
    <2> QED
      BY <2>1, FS_EmptySet, FS_CardinalityType
  <1>4. /\ sequence' \in Nat \ {0} /\ sequence' >= sequence
        /\ begun # {} => sequence + 1 <= sequence'
    BY <1>1, <1>3 DEF RowsInv
  <1>5. 0 .. sequence \subseteq 0 .. sequence'
    BY <1>4 DEF RowsInv
  <1>6. drawn' \in [Requests -> 0 .. sequence']
    <2>1. begun # {} => sequence + 1 \in 0 .. sequence'
      BY <1>4 DEF RowsInv
    <2> QED
      BY <1>1, <1>5, <2>1 DEF RowsInv
  <1>7. ASSUME NEW r \in Requests, reqPc'[r] \in {"insert", "insertTo"}
        PROVE  drawn'[r] > 0
    <2>1. CASE r \in begun
      BY <1>1, <2>1 DEF RowsInv
    <2>2. CASE r \notin begun
      BY <1>1, <1>2, <1>7, <2>2 DEF RowsInv, begun
    <2> QED
      BY <2>1, <2>2
  <1>8. ASSUME NEW k \in Present' \ Present
        PROVE  seq'[k] \in 0 .. sequence /\ seq'[k] > 0
    <2>1. k \in Keys /\ status[k] = "absent" /\ status'[k] # "absent"
      BY <1>8 DEF Present
    <2>2. inserts(k) # {}
      BY <1>8, RowsStay
    <2>3. (CHOOSE r \in inserts(k) : TRUE) \in inserts(k)
      BY <2>2
    <2> QED
      BY <1>1, <2>1, <2>3 DEF RowsInv
  <1>9. \A k \in Keys : k \notin Present' \ Present => seq'[k] = seq[k]
    BY <1>1 DEF Present
  <1>10. seq' \in [Keys -> 0 .. sequence']
    <2>1. DOMAIN seq' = Keys /\ seq' = [k \in Keys |-> seq'[k]]
      BY <1>1
    <2>2. \A k \in Keys : seq'[k] \in 0 .. sequence'
      BY <1>5, <1>8, <1>9 DEF RowsInv
    <2> QED
      BY <2>1, <2>2
  <1>11. \A k \in Present' : seq'[k] > 0
    BY <1>8, <1>9 DEF RowsInv, Present
  <1>12. IsFiniteSet(Present')
    BY RowsStay, FS_AddElement DEF RowsInv
  <1>13. \A k \in Present : seq'[k] = seq[k]
    BY <1>9 DEF Present
  <1> QED
    BY <1>4, <1>6, <1>7, <1>10, <1>11, <1>12, <1>13 DEF RowsInv

\* The rows of an account are finitely many, and numbered.
LEMMA RowsOf ==
  ASSUME RowsInv, NEW a
  PROVE  /\ HistoryRows(a) \subseteq Keys \cup {Opening}
         /\ IsFiniteSet(HistoryRows(a))
         /\ \A x \in HistoryRows(a) : SeqOf(x) \in 1 .. sequence
  <1>1. HistoryRows(a) \subseteq Present \cup {Opening} /\ HistoryRows(a) \subseteq Keys \cup {Opening}
    BY DEF HistoryRows, Present
  <1>2. IsFiniteSet(HistoryRows(a))
    BY <1>1, FS_AddElement, FS_Subset DEF RowsInv
  <1>3. \A x \in Present \cup {Opening} : SeqOf(x) \in 1 .. sequence
    BY DEF SeqOf, RowsInv, Present
  <1> QED
    BY <1>1, <1>2, <1>3

\* The history of an open account only grows, and keeps its order.
LEMMA HistoryGrows ==
  ASSUME Bookkeeping, RowsInv, [Next]_vars, DrawSeq, NEW a \in opened
  PROVE  /\ HistoryRows(a) \subseteq HistoryRows(a)'
         /\ \A x \in HistoryRows(a) : SeqOf(x)' = SeqOf(x)
  <1>1. /\ \A k \in Present : k \in Present' /\ payload'[k] = payload[k] /\ seq'[k] = seq[k]
        /\ deposit'[a] = deposit[a]
    BY RowsStay, AccountsStay, RowsInvKept
  <1>2. HistoryRows(a) \subseteq HistoryRows(a)'
    BY <1>1 DEF HistoryRows, Present
  <1>3. \A x \in HistoryRows(a) : x = Opening \/ x \in Present
    BY DEF HistoryRows, Present
  <1> QED
    BY <1>1, <1>2, <1>3 DEF SeqOf

-----------------------------------------------------------------------------
(* The reader.                                                             *)

\* The bank's steps leave what the reader knows true.
LEMMA ViewStands ==
  ASSUME Isolation, RowsInv, ViewInv, [Next]_vars, DrawSeq, UNCHANGED view
  PROVE  ViewInv'
  <1>1. Bookkeeping /\ TypeOK /\ DbTypeOK
    BY DEF Isolation, Bookkeeping, TypeOK
  <1>2. ASSUME view.pc = "walk"
        PROVE  WalkOf'
    <2>1. /\ view.account \in opened' /\ HistoryRows(view.account) \subseteq HistoryRows(view.account)'
          /\ \A x \in HistoryRows(view.account) : SeqOf(x)' = SeqOf(x)
      <3>1. PICK a \in opened : a = view.account
        BY <1>2 DEF ViewInv, WalkOf
      <3>2. HistoryRows(a)' = HistoryRows(view.account)'
        BY <3>1 DEF HistoryRows
      <3> QED
        BY <1>1, <3>1, <3>2, HistoryGrows, AccountsStay
    <2> QED
      BY <1>2, <2>1 DEF ViewInv, WalkOf
  <1>3. ASSUME view.pc = "detail"
        PROVE  DetailOf'
    <2>1. PICK a \in Accounts : a = view.account
      BY <1>3 DEF ViewInv, DetailOf
    <2>2. ASSUME NEW l \in view.known
          PROVE  /\ l \in LockIds /\ lockState'[l] \in {"active", "released"} /\ lockAccount'[l] = a
                 /\ lockState'[l] = "active" => view.balance = balance'[a]
      <3>1. /\ l \in LockIds /\ lockState[l] \in {"active", "released"} /\ lockAccount[l] = a
            /\ lockState[l] = "active" => view.balance = balance[a]
        BY <1>3, <2>1 DEF ViewInv, DetailOf
      <3>2. /\ lockState'[l] \in {"active", "released"} /\ lockAccount'[l] = lockAccount[l]
            /\ lockState'[l] = "active" => lockState[l] = "active"
        BY <1>1, <3>1, LocksStay
      <3>3. lockState[l] = "active" => balance'[a] = balance[a]
        BY <3>1, LockedStep DEF ActiveLock
      <3> QED
        BY <3>1, <3>2, <3>3
    <2> QED
      BY <2>1, <2>2 DEF DetailOf
  <1> QED
    BY <1>2, <1>3 DEF ViewInv

\* A walk begins with nothing told.
LEMMA WalkBegins ==
  ASSUME RowsInv, ViewInv, TypeOK, NEW a \in Accounts, BeginWalk(a), UNCHANGED <<vars, seqVars>>
  PROVE  ViewInv'
  <1>1. /\ view = NoView /\ a \in opened
        /\ view' = [view EXCEPT !.pc = "walk", !.account = a, !.known = HistoryRows(a)]
    BY DEF BeginWalk, ViewInv
  <1>2. /\ view'.pc = "walk" /\ view'.account = a /\ view'.known = HistoryRows(a)
        /\ view'.seen = {} /\ view'.items = 0 /\ view'.cursor = 0
        /\ HistoryRows(a)' = HistoryRows(a) /\ UNCHANGED opened
    BY <1>1 DEF NoView, HistoryRows, vars, dbVars
  <1>3. view' \in Views
    <2>1. HistoryRows(a) \subseteq Keys \cup {Opening} \cup LockIds
      BY RowsOf
    <2>2. view' = [pc |-> "walk", account |-> a, cursor |-> 0, known |-> HistoryRows(a),
                   seen |-> {}, items |-> 0, balance |-> 0, locked |-> FALSE]
      BY <1>1 DEF NoView
    <2> QED
      BY <2>1, <2>2 DEF Views
  <1>4. WalkOf'
    <2>1. HistoryRows(view.account)' = HistoryRows(a)
      BY <1>2 DEF HistoryRows
    <2> QED
      BY <1>1, <1>2, <2>1 DEF WalkOf
  <1> QED
    BY <1>2, <1>3, <1>4, FS_EmptySet DEF ViewInv

\* A page tells of the newest rows below the cursor, and the cursor moves on to
\* the oldest of them.
LEMMA WalkGoesOn ==
  ASSUME RowsInv, ViewInv, GetHistory, UNCHANGED <<vars, seqVars>>
  PROVE  ViewInv'
  <1>1. PICK a : a = view.account
    OBVIOUS
  <1>2. PICK B : B = Below(a, view.cursor)
    OBVIOUS
  <1>3. PICK rows : rows = Newest(B, PageSize + 1)
    OBVIOUS
  <1>4. PICK page : page = Newest(rows, PageSize)
    OBVIOUS
  <1>5. PICK read : read = [view EXCEPT !.seen = view.seen \cup page,
                                        !.items = view.items + Cardinality(page)]
    OBVIOUS
  <1>6. /\ view.pc = "walk" /\ WalkOf
        /\ view' = IF Cardinality(rows) > PageSize
                     THEN [read EXCEPT !.cursor = SeqOf(Oldest(page))]
                     ELSE [read EXCEPT !.pc = "walked"]
    BY <1>1, <1>2, <1>3, <1>4, <1>5 DEF GetHistory, ViewInv, NextCursor
  <1>7. /\ B \subseteq HistoryRows(a) /\ IsFiniteSet(B) /\ sequence \in Nat
        /\ \A x \in B : SeqOf(x) \in 0 .. sequence
        /\ \A x \in HistoryRows(a) : SeqOf(x) \in Nat \ {0}
        /\ HistoryRows(a) \subseteq Keys \cup {Opening}
    <2>1. B \subseteq HistoryRows(a)
      BY <1>2 DEF Below
    <2>2. IsFiniteSet(B)
      BY <2>1, RowsOf, FS_Subset
    <2> QED
      BY <2>1, <2>2, RowsOf DEF RowsInv
  <1>8. /\ page \subseteq B /\ IsFiniteSet(page)
        /\ Cardinality(rows) > PageSize =>
              /\ Oldest(page) \in page
              /\ \A x \in page : SeqOf(Oldest(page)) <= SeqOf(x)
              /\ \A x \in B \ page : SeqOf(x) < SeqOf(Oldest(page))
        /\ ~ (Cardinality(rows) > PageSize) => page = B
    BY <1>3, <1>4, <1>7, PageOf
  <1>9. /\ view \in Views /\ view.cursor \in Nat /\ view.items \in Nat
        /\ IsFiniteSet(view.seen) /\ view.items = Cardinality(view.seen)
        /\ a \in opened /\ view.seen \subseteq HistoryRows(a) /\ view.known \subseteq HistoryRows(a)
        /\ view.cursor = 0 => view.seen = {}
        /\ \A x \in view.seen : view.cursor <= SeqOf(x)
        /\ \A x \in view.known \ view.seen : view.cursor = 0 \/ SeqOf(x) < view.cursor
    BY <1>1, <1>6 DEF ViewInv, WalkOf, Views
  <1>10. view.seen \cap page = {}
    <2>1. ASSUME NEW x \in view.seen, x \in page
          PROVE  FALSE
      <3>1. view.cursor # 0 /\ view.cursor <= SeqOf(x) /\ SeqOf(x) < view.cursor
        BY <1>2, <1>8, <1>9, <2>1 DEF Below
      <3> QED
        BY <1>7, <1>9, <2>1, <3>1
    <2> QED
      BY <2>1
  <1>11. /\ IsFiniteSet(view.seen \cup page) /\ Cardinality(page) \in Nat
         /\ Cardinality(view.seen \cup page) = view.items + Cardinality(page)
    <2>1. /\ IsFiniteSet(view.seen \cup page)
          /\ Cardinality(view.seen \cup page) =
               Cardinality(view.seen) + Cardinality(page) - Cardinality(view.seen \cap page)
      BY <1>8, <1>9, FS_Union
    <2>2. Cardinality(view.seen \cap page) = 0 /\ Cardinality(page) \in Nat
      BY <1>8, <1>10, FS_EmptySet, FS_CardinalityType
    <2> QED
      BY <1>9, <2>1, <2>2
  <1>12. \A x \in view.known \ view.seen : x \in B
    BY <1>2, <1>9 DEF Below
  <1>13. read \in Views
    <2>1. view.seen \cup page \in SUBSET (Keys \cup {Opening})
      BY <1>7, <1>8, <1>9
    <2>2. view.items + Cardinality(page) \in Nat
      BY <1>9, <1>11
    <2> QED
      BY <1>5, <1>9, <2>1, <2>2 DEF Views
  <1>14. /\ read.pc = "walk" /\ read.account = a /\ read.known = view.known
         /\ read.seen = view.seen \cup page /\ read.items = view.items + Cardinality(page)
    BY <1>1, <1>5, <1>6, <1>9 DEF Views
  <1>15. CASE Cardinality(rows) > PageSize
    <2>1. PICK c : c = SeqOf(Oldest(page))
      OBVIOUS
    <2>2. /\ c \in Nat \ {0}
          /\ \A x \in page : c <= SeqOf(x)
          /\ \A x \in B \ page : SeqOf(x) < c
          /\ view.cursor # 0 => c < view.cursor
      BY <1>2, <1>7, <1>8, <1>15, <2>1 DEF Below
    <2>3. /\ view' \in Views /\ view'.pc = "walk" /\ view'.account = a /\ view'.known = view.known
          /\ view'.seen = view.seen \cup page /\ view'.items = view.items + Cardinality(page)
          /\ view'.cursor = c
      BY <1>6, <1>13, <1>14, <1>15, <2>1, <2>2 DEF Views
    <2>4. \A x \in view.seen \cup page : c <= SeqOf(x)
      <3>1. ASSUME NEW x \in view.seen
            PROVE  c <= SeqOf(x)
        <4>1. view.cursor # 0 /\ view.cursor <= SeqOf(x) /\ SeqOf(x) \in Nat
          BY <1>7, <1>9, <3>1
        <4> QED
          BY <1>9, <2>2, <4>1
      <3> QED
        BY <2>2, <3>1
    <2>5. \A x \in view.known \ (view.seen \cup page) : SeqOf(x) < c
      BY <1>12, <2>2
    <2>6. view.seen \cup page \subseteq HistoryRows(a)
      BY <1>7, <1>8, <1>9
    <2>7. HistoryRows(a)' = HistoryRows(a) /\ opened' = opened /\ \A x : SeqOf(x)' = SeqOf(x)
      BY DEF HistoryRows, SeqOf, vars, dbVars, seqVars
    <2>8. HistoryRows(view.account)' = HistoryRows(a)'
      BY <2>3 DEF HistoryRows
    <2>9. WalkOf'
      BY <1>9, <2>2, <2>3, <2>4, <2>5, <2>6, <2>7, <2>8 DEF WalkOf
    <2> QED
      BY <1>11, <2>3, <2>9 DEF ViewInv
  <1>16. CASE ~ (Cardinality(rows) > PageSize)
    <2>1. /\ view' \in Views /\ view'.pc = "walked" /\ view'.known = view.known
          /\ view'.seen = view.seen \cup page /\ view'.items = view.items + Cardinality(page)
      BY <1>6, <1>13, <1>14, <1>16 DEF Views
    <2>2. view.known \subseteq view.seen \cup page
      BY <1>8, <1>12, <1>16
    <2> QED
      BY <1>11, <2>1, <2>2 DEF ViewInv
  <1> QED
    BY <1>15, <1>16

\* A detail reads the balance and, later, the locks.
LEMMA DetailKeeps ==
  ASSUME ViewInv, TypeOK, UNCHANGED <<vars, seqVars>>,
         ReadLock \/ \E a \in Accounts : ReadAccount(a)
  PROVE  ViewInv'
  <1>1. ASSUME NEW a \in Accounts, ReadAccount(a)
        PROVE  ViewInv'
    <2>1. /\ view = NoView
          /\ view' = [view EXCEPT !.pc = "detail", !.account = a, !.balance = balance[a],
                                  !.known = LocksOf(a)]
      BY <1>1 DEF ReadAccount, ViewInv
    <2>2. balance[a] \in Int /\ LocksOf(a) \subseteq Keys \cup {Opening} \cup LockIds
      BY DEF LocksOf, TypeOK, DbTypeOK
    <2>3. /\ view' \in Views /\ view'.pc = "detail" /\ view'.account = a /\ view'.balance = balance[a]
          /\ view'.known = LocksOf(a) /\ view'.seen = {} /\ view'.items = 0
      BY <2>1, <2>2 DEF Views, NoView
    <2>4. DetailOf'
      BY <2>3 DEF DetailOf, LocksOf, vars, dbVars
    <2> QED
      BY <2>3, <2>4, FS_EmptySet DEF ViewInv
  <1>2. ASSUME ReadLock
        PROVE  ViewInv'
    <2>1. view' = [view EXCEPT !.pc = "told", !.locked = LocksOf(view.account) # {}]
      BY <1>2 DEF ReadLock
    <2>2. /\ view' \in Views /\ view'.pc = "told" /\ view'.seen = view.seen /\ view'.items = view.items
      BY <2>1 DEF ViewInv, Views
    <2> QED
      BY <2>2 DEF ViewInv
  <1> QED
    BY <1>1, <1>2

\* A fresh view.
LEMMA FreshView ==
  /\ NoView \in Views /\ NoView.pc = "idle"
  /\ IsFiniteSet(NoView.seen) /\ NoView.items = Cardinality(NoView.seen)
  <1>1. NoView.seen = {} /\ NoView.items = 0 /\ NoView.pc = "idle"
    BY DEF NoView
  <1>2. NoView \in Views
    BY DEF NoView, Views
  <1> QED
    BY <1>1, <1>2, FS_EmptySet

-----------------------------------------------------------------------------
(* The theorems.                                                           *)

\* At first there are no rows and nobody reads.
LEMMA ReaderInit == ReadsInit => ReaderInv
  <1> SUFFICES ASSUME ReadsInit PROVE ReaderInv
    OBVIOUS
  <1>1. Isolation
    BY IsolationInit DEF ReadsInit
  <1>2. Present = {}
    BY DEF ReadsInit, Init, DbInit, Present
  <1>3. RowsInv
    BY <1>2, FS_EmptySet DEF ReadsInit, RowsInv, Init, ServiceInit
  <1>4. ViewInv
    BY FreshView DEF ReadsInit, ViewInv
  <1> QED
    BY <1>1, <1>3, <1>4 DEF ReaderInv

\* Every step of the bank and of its reader.
LEMMA ReaderStep == ReaderInv /\ [ReadsNext]_readsVars => ReaderInv'
  <1> SUFFICES ASSUME ReaderInv, [ReadsNext]_readsVars PROVE ReaderInv'
    OBVIOUS
  <1> USE DEF ReaderInv
  <1>1. [Next]_vars
    BY DEF ReadsNext, readsVars
  <1>2. Isolation' /\ Bookkeeping /\ TypeOK
    BY <1>1, IsolationStep DEF Isolation, Bookkeeping
  <1>3. CASE Next /\ DrawSeq /\ UNCHANGED view
    BY <1>1, <1>2, <1>3, RowsInvKept, ViewStands
  <1>4. CASE (Read \/ AskAgain \/ UNCHANGED view) /\ UNCHANGED <<vars, seqVars>>
    <2>1. RowsInv'
      BY <1>4 DEF RowsInv, Present, vars, dbVars, serviceVars, seqVars
    <2>2. (\E a \in Accounts : BeginWalk(a)) => ViewInv'
      BY <1>2, <1>4, WalkBegins
    <2>3. GetHistory => ViewInv'
      BY <1>4, WalkGoesOn
    <2>4. (ReadLock \/ \E a \in Accounts : ReadAccount(a)) => ViewInv'
      BY <1>2, <1>4, DetailKeeps
    <2>5. AskAgain => ViewInv'
      <3>1. AskAgain => view' = NoView
        BY DEF AskAgain
      <3> QED
        BY <3>1, FreshView DEF ViewInv
    <2>6. UNCHANGED view => ViewInv'
      <3>1. UNCHANGED <<opened, balance, deposit, payload, status, lockState, lockAccount, seq>>
        BY <1>4 DEF vars, dbVars, seqVars
      <3> QED
        BY <3>1 DEF ViewInv, WalkOf, DetailOf, HistoryRows, SeqOf
    <2>7. ViewInv'
      BY <1>4, <2>2, <2>3, <2>4, <2>5, <2>6 DEF Read
    <2> QED
      BY <1>2, <2>1, <2>7
  <1> QED
    BY <1>3, <1>4 DEF ReadsNext, readsVars

\* What the reader knows is true in every reachable state.
LEMMA ReaderHolds == ReadsSpec => []ReaderInv
  BY ReaderInit, ReaderStep, PTL DEF ReadsSpec

\* Rows have the numbers of a sequence, and the reader's view its type.
THEOREM ReadsTypesHold == ReadsSpec => []ReadsTypeOK
  <1>1. ReaderInv => ReadsTypeOK
    BY DEF ReaderInv, RowsInv, ViewInv, Views, ReadsTypeOK
  <1> QED
    BY <1>1, ReaderHolds, PTL

\* However inserts and commits interleave with the pages of a walk, it tells of
\* every transfer committed before it began, and of none twice
\* (AccountService.getHistory, service.ts:69-83).
THEOREM WalksTellAll == ReadsSpec => []WalksAreComplete
  <1>1. ReaderInv => WalksAreComplete
    BY DEF ReaderInv, ViewInv, WalksAreComplete
  <1> QED
    BY <1>1, ReaderHolds, PTL

\* A detail of an account that one lock holds from before the first statement
\* until after the second is told locked, with the balance the account has.
THEOREM LockedDetailsStand == ReadsSpec => LockedDetailStands
  <1> DEFINE Stands == view.pc = "detail" /\ view'.pc = "told" /\ view.known \cap LocksOf(view.account) # {}
                         => view'.locked /\ view.balance = balance[view.account]
  <1>1. ASSUME ReaderInv, [ReadsNext]_readsVars
        PROVE  [Stands]_readsVars
    <2> SUFFICES ASSUME view.pc = "detail", view'.pc = "told", view.known \cap LocksOf(view.account) # {}
                 PROVE  view'.locked /\ view.balance = balance[view.account]
      OBVIOUS
    <2>1. ReadLock
      BY <1>1 DEF ReadsNext, readsVars, Read, BeginWalk, ReadAccount, GetHistory, AskAgain, Answered
    <2>2. view'.locked = (LocksOf(view.account) # {})
      BY <1>1, <2>1 DEF ReadLock, ReaderInv, ViewInv, Views
    <2>3. view.balance = balance[view.account]
      BY <1>1 DEF ReaderInv, ViewInv, DetailOf, LocksOf
    <2> QED
      BY <2>2, <2>3
  <1> QED
    BY <1>1, ReaderHolds, PTL DEF ReadsSpec, LockedDetailStands

=============================================================================
