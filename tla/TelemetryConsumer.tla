-------------------------- MODULE TelemetryConsumer --------------------------
(***************************************************************************)
(* packages/events: one consumer group of the telemetry topics, as         *)
(* createTelemetryConsumer runs it on kafkajs.  Each replica of            *)
(* apps/telemetry-consumers has one member in the group.  The four groups  *)
(* share nothing but the vehicle table, so a behaviour follows one group,  *)
(* chosen at the start, and one device, whose messages are one partition   *)
(* of each topic.                                                          *)
(*                                                                         *)
(* What a handler does with a batch is in the modules that extend this     *)
(* one: it starts at "handler" and ends at "resolve" or in HandlerFails.   *)
(***************************************************************************)
EXTENDS TelemetryEvents, SequencesExt, FiniteSetsExt

CONSTANTS
  Members,     \* the replicas of the consumers' process
  NoMember,
  Logs,        \* per group, the logs it is checked with
  MaxFaults    \* bound: per log, failures, stops and evictions

Groups == {"locations", "fuel", "engine", "alerting"}

ASSUME ConsumerAssumption ==
  /\ NoMember \notin Members
  /\ Logs \in [Groups -> SUBSET [Topics -> Seq(Readings)]]
  /\ MaxFaults \in [UNION {Logs[g] : g \in Groups} -> Nat]

VARIABLES
  group,      \* the group followed
  log,        \* per topic, its messages
  committed,  \* per topic, how many of them the group has committed
  owner,      \* per topic, the member it is assigned to
  settled,    \* no rebalance is due
  pc,         \* per member, where it is in its batch
  batch,      \* per member, the batch it has in hand
  fenced,     \* members the broker has evicted
  stopping,   \* members told to stop
  dead,       \* the dead-letter topic: places in the log
  cutShort,   \* history: places in batches that a stop cut short
  faults

consumerVars ==
  <<group, log, committed, owner, settled, pc, batch, fenced, stopping, dead, cutShort, faults>>

Subscribed == IF group = "alerting" THEN {"live"} ELSE Topics

NoBatch == [topic |-> "live", first |-> 1, last |-> 0, pos |-> 0]

HandlerSteps == {"handler", "register", "lookup", "seed", "store", "write", "raise"}
Steps == {"down", "idle", "deadletter", "resolve"} \cup HandlerSteps

Places == UNION {{t} \X (1 .. Len(log[t])) : t \in Topics}

ConsumerTypeOK ==
  /\ group \in Groups
  /\ committed \in [Topics -> Nat] /\ \A t \in Topics : committed[t] <= Len(log[t])
  /\ owner \in [Topics -> Members \cup {NoMember}]
  /\ settled \in BOOLEAN
  /\ pc \in [Members -> Steps]
  /\ batch \in [Members -> [topic : Topics, first : Nat, last : Nat, pos : Nat]]
  /\ fenced \subseteq Members /\ stopping \subseteq Members
  /\ dead \subseteq Places /\ cutShort \subseteq Places
  /\ faults \in Nat

ConsumerInit ==
  /\ group \in Groups
  /\ log \in Logs[group]
  /\ committed = [t \in Topics |-> 0]
  /\ owner = [t \in Topics |-> NoMember]
  /\ settled = FALSE
  /\ pc = [m \in Members |-> "down"]
  /\ batch = [m \in Members |-> NoBatch]
  /\ fenced = {} /\ stopping = {}
  /\ dead = {} /\ cutShort = {}
  /\ faults = 0

Fault == faults < MaxFaults[log] /\ faults' = faults + 1

Joined == {m \in Members : pc[m] # "down"}

-----------------------------------------------------------------------------
(* The group.                                                              *)

\* start: connect, subscribe, run.
Join(m) ==
  /\ pc[m] = "down"
  /\ pc' = [pc EXCEPT ![m] = "idle"]
  /\ settled' = FALSE
  /\ UNCHANGED <<group, log, committed, owner, batch, fenced, stopping, dead, cutShort, faults>>

\* A rebalance waits for the members that are in a batch, except for those it
\* has evicted.
Rebalance ==
  /\ ~ settled
  /\ Joined \ fenced # {}
  /\ \A m \in Joined \ fenced : pc[m] = "idle"
  /\ owner' \in [Topics -> (Joined \ fenced) \cup {NoMember}]
  /\ \A t \in Topics : owner'[t] = NoMember <=> t \notin Subscribed
  /\ settled' = TRUE
  /\ UNCHANGED <<group, log, committed, pc, batch, fenced, stopping, dead, cutShort, faults>>

\* The session of a member in a batch expires: no handler calls heartbeat.
Evict(m) ==
  /\ pc[m] \notin {"down", "idle"} /\ m \notin fenced
  /\ Fault
  /\ fenced' = fenced \cup {m}
  /\ settled' = FALSE
  /\ UNCHANGED <<group, log, committed, owner, pc, batch, stopping, dead, cutShort>>

\* The process is told to stop; the batch in hand is finished first.
Stop(m) ==
  /\ pc[m] # "down" /\ m \notin stopping
  /\ Fault
  /\ stopping' = stopping \cup {m}
  /\ UNCHANGED <<group, log, committed, owner, settled, pc, batch, fenced, dead, cutShort>>

Gone(m) ==
  /\ pc' = [pc EXCEPT ![m] = "down"]
  /\ batch' = [batch EXCEPT ![m] = NoBatch]
  /\ fenced' = fenced \ {m} /\ stopping' = stopping \ {m}
  /\ settled' = FALSE
  /\ UNCHANGED <<group, log, committed, owner, dead, cutShort>>

Leave(m) == m \in stopping /\ pc[m] = "idle" /\ Gone(m) /\ UNCHANGED faults

\* The process dies, or its shutdown takes too long.
Kill(m) == pc[m] # "down" /\ Fault /\ Gone(m)

-----------------------------------------------------------------------------
(* A batch.                                                                *)

Message(m, i) == log[batch[m].topic][i]

\* The places of a batch that hold events, as opposed to dead letters.
Events(b) == {i \in b.first .. b.last : log[b.topic][i].ok}

\* Decode the batch b behind b.pos, up to the next message that has to be
\* dead-lettered.
Decode(m, b) ==
  LET bad == {i \in b.pos + 1 .. b.last : ~ log[b.topic][i].ok} IN
  IF bad # {}
    THEN batch' = [batch EXCEPT ![m] = [b EXCEPT !.pos = Min(bad)]]
      /\ pc' = [pc EXCEPT ![m] = "deadletter"]
    ELSE batch' = [batch EXCEPT ![m] = [b EXCEPT !.pos = b.last]]
      /\ pc' = [pc EXCEPT ![m] = IF Events(b) = {} THEN "resolve" ELSE "handler"]

\* kafkajs hands any prefix of what is not yet committed to eachBatch.
Fetch(m, t, n) ==
  /\ pc[m] = "idle" /\ settled /\ owner[t] = m /\ t \in Subscribed
  /\ m \notin stopping
  /\ committed[t] + n <= Len(log[t])
  /\ Decode(m, [topic |-> t, first |-> committed[t] + 1, last |-> committed[t] + n,
                pos |-> committed[t]])
  /\ UNCHANGED <<group, log, committed, owner, settled, fenced, stopping, dead, cutShort, faults>>

\* Mutant: messages that cannot be decoded are dropped.
DeadLetterDrops(m) ==
  /\ pc[m] = "deadletter"
  /\ m \notin stopping \/ batch[m].pos = batch[m].last
  /\ Decode(m, batch[m])
  /\ UNCHANGED <<group, log, committed, owner, settled, fenced, stopping, dead, cutShort, faults>>

\* Mutant: a message that cannot be decoded is an error.
DeadLetterThrows(m) ==
  /\ pc[m] = "deadletter"
  /\ pc' = [pc EXCEPT ![m] = "idle"]
  /\ batch' = [batch EXCEPT ![m] = NoBatch]
  /\ UNCHANGED <<group, log, committed, owner, settled, fenced, stopping, dead, cutShort, faults>>

\* The dead letter is stored, and decoding goes on behind it.
DeadLetter(m) ==
  /\ pc[m] = "deadletter"
  /\ m \notin stopping \/ batch[m].pos = batch[m].last
  /\ dead' = dead \cup {<<batch[m].topic, batch[m].pos>>}
  /\ Decode(m, batch[m])
  /\ UNCHANGED <<group, log, committed, owner, settled, fenced, stopping, cutShort, faults>>

\* It is stored, but the consumer stops: eachBatch returns, and kafkajs resolves
\* the whole batch.
ReturnEarly(m) ==
  /\ pc[m] = "deadletter" /\ m \in stopping /\ batch[m].pos < batch[m].last
  /\ dead' = dead \cup {<<batch[m].topic, batch[m].pos>>}
  /\ cutShort' = cutShort \cup ({batch[m].topic} \X (batch[m].first .. batch[m].last))
  /\ pc' = [pc EXCEPT ![m] = "resolve"]
  /\ UNCHANGED <<group, log, committed, owner, settled, batch, fenced, stopping, faults>>

\* Back to the group, with nothing resolved; an evicted member joins again.
GiveBack(m) ==
  /\ pc' = [pc EXCEPT ![m] = "idle"]
  /\ batch' = [batch EXCEPT ![m] = NoBatch]
  /\ fenced' = fenced \ {m}
  /\ settled' = (settled /\ m \notin fenced)
  /\ UNCHANGED <<group, log, committed, owner, stopping, dead, cutShort>>

\* The send of the dead letter fails, or the handler throws: kafkajs will hand
\* out the batch again.
HandlerFails(m) ==
  pc[m] \in HandlerSteps \cup {"deadletter"} /\ Fault /\ GiveBack(m)

\* Mutant: the offset after the batch is taken for its last one.
CommitOneMore(m) ==
  /\ pc[m] = "resolve" /\ m \notin fenced
  /\ committed' = [committed EXCEPT ![batch[m].topic] = batch[m].last + 1]
  /\ pc' = [pc EXCEPT ![m] = "idle"]
  /\ batch' = [batch EXCEPT ![m] = NoBatch]
  /\ UNCHANGED <<group, log, owner, settled, fenced, stopping, dead, cutShort, faults>>

\* Mutant: nothing is resolved by itself.
CommitNothing(m) ==
  /\ pc[m] = "resolve" /\ m \notin fenced
  /\ pc' = [pc EXCEPT ![m] = "idle"]
  /\ batch' = [batch EXCEPT ![m] = NoBatch]
  /\ UNCHANGED <<group, log, committed, owner, settled, fenced, stopping, dead, cutShort, faults>>

\* eachBatchAutoResolve: the batch is resolved and its offsets are committed.
Commit(m) ==
  /\ pc[m] = "resolve" /\ m \notin fenced
  /\ committed' = [committed EXCEPT ![batch[m].topic] = batch[m].last]
  /\ pc' = [pc EXCEPT ![m] = "idle"]
  /\ batch' = [batch EXCEPT ![m] = NoBatch]
  /\ UNCHANGED <<group, log, owner, settled, fenced, stopping, dead, cutShort, faults>>

\* The broker refuses the offsets of an evicted member, or cannot be reached.
CommitFails(m) ==
  /\ pc[m] = "resolve"
  /\ IF m \in fenced THEN UNCHANGED faults ELSE Fault
  /\ GiveBack(m)

GroupStep(m) ==
  \/ Join(m) \/ Evict(m) \/ Stop(m)
  \/ \E t \in Topics : \E n \in 1 .. Len(log[t]) : Fetch(m, t, n)
  \/ DeadLetter(m) \/ ReturnEarly(m) \/ Commit(m) \/ CommitFails(m)

=============================================================================
