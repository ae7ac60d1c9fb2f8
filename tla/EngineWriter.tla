---------------------------- MODULE EngineWriter ----------------------------
(***************************************************************************)
(* apps/telemetry-consumers/src/consumers/engine.ts: ignition and movement *)
(* transitions.  A process remembers the last state it has seen on the     *)
(* live topic, seeded from the newest stored transition.                   *)
(***************************************************************************)
EXTENDS ReadingWriters

VARIABLES
  memory,  \* per member, the state its process remembers
  found    \* per member, the rows of the batch in hand

engineVars == <<memory, found>>

Unknown == [i \in Inputs |-> "none"]
NoMemory == [loaded |-> FALSE, state |-> Unknown]

EngineTypeOK ==
  /\ memory \in [Members -> [loaded : BOOLEAN, state : [Inputs -> Values]]]
  /\ found \in [Members -> SUBSET [vehicle : Members, at : Nat, key : Keys]]

EngineInit ==
  /\ memory = [m \in Members |-> NoMemory]
  /\ found = [m \in Members |-> {}]

Relevant(b) == {i \in Events(b) : \E k \in Inputs : log[b.topic][i].input[k] # "none"}

BeginEngine(m) ==
  group = "engine" /\ Begin(m, Relevant(batch[m])) /\ UNCHANGED <<rows, engineVars>>

\* lastTransition: the newest stored one, or none.
LastTransition(v, i) ==
  LET stored == {r \in rows : r.vehicle = v /\ r.key[1] = i}
      newest == {r \in stored : \A s \in stored : s.at <= r.at}
  IN  IF stored = {} THEN {"none"} ELSE {r.key[2] : r \in newest}

\* loadState: once per process.
Seed(m) ==
  /\ pc[m] = "seed" /\ ~ memory[m].loaded
  /\ \E state \in [Inputs -> Values] :
       /\ \A i \in Inputs : state[i] \in LastTransition(known[m], i)
       /\ memory' = [memory EXCEPT ![m] = [loaded |-> TRUE, state |-> state]]
  /\ UNCHANGED <<pc, vehicleVars, rows, found>> /\ HandlerFrame

\* Mutant: backlog is compared with the remembered state, too.
NoticesAlways(e, state, live, i) == state[i] # "none" /\ state[i] # e.input[i]

Notices(e, state, live, i) ==
  live /\ state[i] # "none" /\ state[i] # e.input[i]

TransitionsFor(e, state, live) ==
  {i \in Inputs : e.input[i] # "none" /\ (e.cause = i \/ Notices(e, state, live, i))}

\* The state the loop over a batch has in mind at place i: live batches move it,
\* message by message.
StateAt(m, i) ==
  [k \in Inputs |->
     LET told == {j \in Relevant(batch[m]) : j < i /\ Message(m, j).input[k] # "none"} IN
     IF batch[m].topic = "live" /\ told # {} THEN Message(m, Max(told)).input[k]
                                             ELSE memory[m].state[k]]

\* The rows the loop collects.
Changes(m) ==
  UNION {{Row(known[m], Message(m, i), <<k, Message(m, i).input[k]>>) :
            k \in TransitionsFor(Message(m, i), StateAt(m, i), batch[m].topic = "live")} :
           i \in Relevant(batch[m])}

\* The synchronous loop over the batch: it moves the memory and collects the
\* rows, which are not stored yet.
Scan(m) ==
  /\ pc[m] = "seed" /\ memory[m].loaded
  /\ memory' = [memory EXCEPT ![m].state = StateAt(m, batch[m].last + 1)]
  /\ found' = [found EXCEPT ![m] = Changes(m)]
  /\ GoTo(m, IF Changes(m) = {} THEN "resolve" ELSE "store")
  /\ UNCHANGED <<vehicleVars, rows>> /\ HandlerFrame

InsertTransitions(m) ==
  /\ group = "engine" /\ pc[m] = "store"
  /\ rows' = rows \cup found[m]
  /\ found' = [found EXCEPT ![m] = {}]
  /\ GoTo(m, "resolve")
  /\ UNCHANGED <<vehicleVars, memory>> /\ HandlerFrame

EngineStep(m) == BeginEngine(m) \/ Seed(m) \/ Scan(m) \/ InsertTransitions(m)

=============================================================================
