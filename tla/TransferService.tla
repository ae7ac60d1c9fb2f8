--------------------------- MODULE TransferService ---------------------------
(***************************************************************************)
(* TransferService of app-apis: POST /transfers.  A call checks its        *)
(* accounts, inserts a pending row under its idempotency key and enqueues  *)
(* a job; a call whose key is taken replays the stored row instead.        *)
(*                                                                         *)
(* Several API processes serve calls concurrently; a call dies with its    *)
(* process, or ends with a 500 when Postgres or Redis fails, at any step.  *)
(* A client that wants to retry makes another call.                        *)
(***************************************************************************)
EXTENDS TransferQueue

VARIABLES
  reqPc,       \* where a call is
  reqKey,      \* its Idempotency-Key
  reqPayload,  \* its body
  reply        \* the status it was answered with

serviceVars == <<reqPc, reqKey, reqPayload, reply>>

ServiceTypeOK ==
  /\ reqPc \in [Requests -> {"idle", "insert", "insertTo", "replay",
                             "enqueue", "enqueueAgain", "done"}]
  /\ reqKey \in [Requests -> Keys \cup {NoKey}]
  /\ reqPayload \in [Requests -> Payload \cup {NoPayload}]
  /\ reply \in [Requests -> {"none", "200", "202", "404", "409", "422", "500"}]

ServiceInit ==
  /\ reqPc = [r \in Requests |-> "idle"]
  /\ reqKey = [r \in Requests |-> NoKey]
  /\ reqPayload = [r \in Requests |-> NoPayload]
  /\ reply = [r \in Requests |-> "none"]

GoTo(r, pc) == reqPc' = [reqPc EXCEPT ![r] = pc] /\ UNCHANGED reply

Answer(r, code) ==
  /\ reqPc' = [reqPc EXCEPT ![r] = "done"]
  /\ reply' = [reply EXCEPT ![r] = code]

-----------------------------------------------------------------------------
(* The row locks of the pending insert.  The statement writes the row and  *)
(* its index entries, then the foreign keys take FOR KEY SHARE on the      *)
(* source account and on the destination account, in the order in which    *)
(* the migration declares them, and keep both until the statement commits. *)
(* FOR KEY SHARE conflicts with FOR UPDATE and not with itself.            *)

\* The insert of r has its source account and waits for its destination.
KeyShares(r, a) == reqPc[r] = "insertTo" /\ reqPayload[r].from = a

KeyShared(a) == \E r \in Requests : KeyShares(r, a)

\* The row r is about to commit: a second insert of the key waits for it.
Inserting(k) == \E r \in Requests : reqPc[r] = "insertTo" /\ reqKey[r] = k

-----------------------------------------------------------------------------

\* assertAccountsExist: one statement reads both rows.
AccountsExist(p) == {p.from, p.to} \subseteq opened

\* The checks in front of the insert.
Receive(r, k, p) ==
  /\ reqPc[r] = "idle"
  /\ reqKey' = [reqKey EXCEPT ![r] = k]
  /\ reqPayload' = [reqPayload EXCEPT ![r] = p]
  /\ \/ p.from = p.to /\ Answer(r, "422")
     \/ p.from # p.to /\ ~ AccountsExist(p) /\ Answer(r, "404")
     \/ p.from # p.to /\ AccountsExist(p) /\ GoTo(r, "insert")
  /\ UNCHANGED <<dbVars, queueVars>>

\* Mutant: no unique index on the key.
InsertRowNotUnique(r) ==
  /\ reqPc[r] = "insert"
  /\ status[reqKey[r]] = "absent"
  /\ Free(reqPayload[r].from)
  /\ GoTo(r, "insertTo")
  /\ UNCHANGED <<dbVars, queueVars, reqKey, reqPayload>>

\* The insert meets no row of its key and locks the source account.
InsertRow(r) ==
  /\ reqPc[r] = "insert"
  /\ status[reqKey[r]] = "absent"
  /\ ~ Inserting(reqKey[r])
  /\ Free(reqPayload[r].from)
  /\ GoTo(r, "insertTo")
  /\ UNCHANGED <<dbVars, queueVars, reqKey, reqPayload>>

\* It locks the destination account too and commits the pending row.
CommitRow(r) ==
  LET k == reqKey[r] IN
  /\ reqPc[r] = "insertTo"
  /\ Free(reqPayload[r].to)
  /\ status' = [status EXCEPT ![k] = "pending"]
  /\ payload' = [payload EXCEPT ![k] = reqPayload[r]]
  /\ GoTo(r, "enqueue")
  /\ UNCHANGED <<opened, balance, deposit, reason, moved, rowLock, lockState, lockAccount>>
  /\ UNCHANGED <<queueVars, reqKey, reqPayload>>

\* The unique index refuses the insert: the key is taken.
UniqueViolation(r) ==
  /\ reqPc[r] = "insert"
  /\ status[reqKey[r]] # "absent"
  /\ GoTo(r, "replay")
  /\ UNCHANGED <<dbVars, queueVars, reqKey, reqPayload>>

\* Mutant: a replay that answers with a pending row without enqueueing it.
ReplayWithoutEnqueue(r) ==
  /\ reqPc[r] = "replay"
  /\ Answer(r, IF payload[reqKey[r]] = reqPayload[r] THEN "200" ELSE "409")
  /\ UNCHANGED <<dbVars, queueVars, reqKey, reqPayload>>

\* replay: compare the request hash, then answer with the stored row, after
\* enqueueing it again when it is still pending.
Replay(r) ==
  LET k == reqKey[r] IN
  /\ reqPc[r] = "replay"
  /\ \/ payload[k] # reqPayload[r] /\ Answer(r, "409")
     \/ payload[k] = reqPayload[r] /\ status[k] = "pending" /\ GoTo(r, "enqueueAgain")
     \/ payload[k] = reqPayload[r] /\ status[k] # "pending" /\ Answer(r, "200")
  /\ UNCHANGED <<dbVars, queueVars, reqKey, reqPayload>>

\* enqueueTransfer, then the answer; Redis may apply the add and not say so.
Enqueue(r) ==
  /\ reqPc[r] \in {"enqueue", "enqueueAgain"}
  /\ Add(reqKey[r])
  /\ \E code \in {IF reqPc[r] = "enqueue" THEN "202" ELSE "200", "500"} : Answer(r, code)
  /\ UNCHANGED <<dbVars, reqKey, reqPayload>>

\* An error of Postgres (the victim of a deadlock included) or of Redis, or
\* the end of the API process: an uncommitted insert is rolled back, a
\* committed one stays without a job.
RequestFails(r) ==
  /\ reqPc[r] \notin {"idle", "done"}
  /\ Answer(r, "500")
  /\ UNCHANGED <<dbVars, queueVars, reqKey, reqPayload>>

ServiceStep(r) ==
  \/ InsertRow(r) \/ CommitRow(r) \/ UniqueViolation(r) \/ Replay(r) \/ Enqueue(r)

-----------------------------------------------------------------------------

\* A call that was answered 202 or 200 is never forgotten: the row exists
\* with the payload of that very call, and the transfer is settled, or its
\* job is on its way, or BullMQ gave up on the job after all its attempts.
AcceptedIsNeverForgotten ==
  \A r \in Requests : reply[r] \in {"200", "202"} =>
    LET k == reqKey[r] IN
    /\ payload[k] = reqPayload[r]
    /\ \/ status[k] \in Terminal
       \/ status[k] = "pending" /\ (job[k] \in {"waiting", "active"} \/ k \in exhausted)

\* At most one call of a key is answered 202: the others replay.
OneCallCreates ==
  \A r, s \in Requests :
    reply[r] = "202" /\ reply[s] = "202" /\ reqKey[r] = reqKey[s] => r = s

=============================================================================
