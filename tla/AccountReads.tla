---------------------------- MODULE AccountReads ----------------------------
(***************************************************************************)
(* AccountService of app-apis: what a client reads of an account while     *)
(* money moves.  Its history is a walk over pages, one call a page, each   *)
(* with the cursor of the one before.  Its detail is two statements.       *)
(* Readers do not meet, so there is one.                                   *)
(***************************************************************************)
EXTENDS TransferSystem, FiniteSets

CONSTANTS
  Opening,   \* the row of an account's opening deposit, which has no key
  PageSize   \* limit

ASSUME ReadsAssumption == Opening \notin Keys /\ PageSize \in Nat \ {0}

VARIABLES
  sequence,  \* last value of the sequence behind transfers.seq
  drawn,     \* per call, the value its insert has drawn
  seq,       \* transfers.seq
  view       \* the reader: where it is and what it has read

seqVars == <<sequence, drawn, seq>>
readsVars == <<vars, seqVars, view>>

NoView == [pc |-> "idle", account |-> NoAccount, cursor |-> 0, known |-> {}, seen |-> {},
           items |-> 0, balance |-> 0, locked |-> FALSE]

ReadsTypeOK ==
  /\ sequence \in Nat
  /\ drawn \in [Requests -> 0 .. sequence]
  /\ seq \in [Keys -> 0 .. sequence]
  /\ view \in [pc : {"idle", "walk", "walked", "detail", "told"},
               account : Accounts \cup {NoAccount}, cursor : Nat,
               known : SUBSET (Keys \cup {Opening} \cup LockIds),
               seen : SUBSET (Keys \cup {Opening}), items : Nat,
               balance : Int, locked : BOOLEAN]

ReadsInit ==
  /\ Init
  /\ sequence = 1
  /\ drawn = [r \in Requests |-> 0]
  /\ seq = [k \in Keys |-> 0]
  /\ view = NoView

-----------------------------------------------------------------------------
(* The order of rows.                                                      *)

\* Mutant: the sequence does not keep what was drawn.
DrawnOver(begun) == sequence

\* The sequence after the inserts that have begun.
Advanced(begun) == sequence + Cardinality(begun)

\* An insert draws the next value before it waits for anything, and its row
\* shows it when the insert commits: two rows can appear in either order.
DrawSeq ==
  LET begun == {r \in Requests : reqPc[r] # "insert" /\ reqPc'[r] = "insert"}
      inserts(k) == {r \in Requests : reqPc[r] = "insertTo" /\ reqKey[r] = k}
  IN
  /\ sequence' = Advanced(begun)
  /\ drawn' = [r \in Requests |-> IF r \in begun THEN sequence + 1 ELSE drawn[r]]
  /\ seq' = [k \in Keys |->
       IF status[k] = "absent" /\ status'[k] # "absent"
         THEN drawn[CHOOSE r \in inserts(k) : TRUE] ELSE seq[k]]

\* The opening deposit is an account's first row: transfers name accounts that exist.
SeqOf(row) == IF row = Opening THEN 1 ELSE seq[row]

-----------------------------------------------------------------------------
(* getHistory.                                                             *)

\* Both directions, whatever their status, and the opening deposit.
HistoryRows(a) ==
  {k \in Keys : status[k] # "absent" /\ a \in {payload[k].from, payload[k].to}}
    \cup {x \in {Opening} : deposit[a] > 0}

\* The n rows of S with the highest seq.
Newest(S, n) == {x \in S : Cardinality({y \in S : SeqOf(y) > SeqOf(x)}) < n}

Oldest(S) == CHOOSE x \in S : \A y \in S : SeqOf(x) <= SeqOf(y)

\* The rows of an account below the cursor; 0 is no cursor.
Below(a, cursor) == {x \in HistoryRows(a) : cursor = 0 \/ SeqOf(x) < cursor}

BeginWalk(a) ==
  /\ view.pc = "idle"
  /\ a \in opened
  /\ view' = [view EXCEPT !.pc = "walk", !.account = a, !.known = HistoryRows(a)]

\* Mutant: the cursor is of the row beyond the page.
CursorBeyond(rows, page) == SeqOf(Oldest(rows))

\* The row beyond the page, if any, tells that there is another page.
NextCursor(rows, page) == SeqOf(Oldest(page))

\* One page, newest first.
GetHistory ==
  /\ view.pc = "walk"
  /\ LET rows == Newest(Below(view.account, view.cursor), PageSize + 1)
         page == Newest(rows, PageSize)
         read == [view EXCEPT !.seen = @ \cup page, !.items = @ + Cardinality(page)]
     IN view' = IF Cardinality(rows) > PageSize
                  THEN [read EXCEPT !.cursor = NextCursor(rows, page)]
                  ELSE [read EXCEPT !.pc = "walked"]

-----------------------------------------------------------------------------
(* getDetail.                                                              *)

LocksOf(a) == {l \in LockIds : lockState[l] = "active" /\ lockAccount[l] = a}

\* The account row first.
ReadAccount(a) ==
  /\ view.pc = "idle"
  /\ a \in opened
  /\ view' = [view EXCEPT !.pc = "detail", !.account = a, !.balance = balance[a],
                          !.known = LocksOf(a)]

\* Then any lock of it that is not released.
ReadLock ==
  /\ view.pc = "detail"
  /\ view' = [view EXCEPT !.pc = "told", !.locked = LocksOf(view.account) # {}]

Read ==
  \/ \E a \in Accounts : BeginWalk(a) \/ ReadAccount(a)
  \/ GetHistory \/ ReadLock

\* The client has its answer, and asks again.
Answered == view.pc \in {"walked", "told"}
AskAgain == Answered /\ view' = NoView

ReadsNext ==
  \/ ~ Answered /\ Next /\ DrawSeq /\ UNCHANGED view
  \/ (Read \/ AskAgain) /\ UNCHANGED <<vars, seqVars>>

ReadsSpec == ReadsInit /\ [][ReadsNext]_readsVars

-----------------------------------------------------------------------------

\* A client that follows the cursors to the end has been told of every transfer
\* that was committed when it began, and of none twice, whatever is inserted
\* meanwhile and in whichever order it commits (service.ts:69-83).
WalksAreComplete ==
  /\ view.items = Cardinality(view.seen)
  /\ view.pc = "walked" => view.known \subseteq view.seen

\* An account that was locked before its detail was asked for, and is by the
\* same lock when it is told, is told locked and with the balance it has.
LockedDetailStands ==
  [][view.pc = "detail" /\ view'.pc = "told" /\ view.known \cap LocksOf(view.account) # {}
       => view'.locked /\ view.balance = balance[view.account]]_readsVars

=============================================================================
