---------------------------- MODULE ConsumerProofs ----------------------------
(***************************************************************************)
(* Proofs about TelemetrySystem for every number of replicas and every set *)
(* of logs: the offsets a group commits are those of messages whose effect *)
(* is stored, replicas agree on the vehicle of a device, the engine        *)
(* consumer invents no transition, and, whatever the clocks of its         *)
(* replicas show, the alerting consumer repeats an alert only on account   *)
(* of a failure, raises those of the episodes when nothing fails, and      *)
(* leaves a condition that holds unreported for a cooldown at most once    *)
(* for each failure.                                                       *)
(***************************************************************************)
EXTENDS TelemetrySystem, FiniteSetTheorems, WellFoundedInduction, TLAPS

InBatch(m) == pc[m] \notin {"down", "idle"}

\* What a member has in hand: a part of a log, of which it has decoded what is
\* up to pos.  Unless the broker has evicted it, the topic is its own and its
\* batch is what follows the committed offset.
BatchOf(m) ==
  IF InBatch(m)
    THEN /\ batch[m].topic \in Subscribed
         /\ 1 <= batch[m].first /\ batch[m].first <= batch[m].pos
         /\ batch[m].pos <= batch[m].last
         /\ batch[m].last <= Len(log[batch[m].topic])
         /\ pc[m] \in HandlerSteps => batch[m].pos = batch[m].last
         /\ m \notin fenced => /\ owner[batch[m].topic] = m
                               /\ committed[batch[m].topic] = batch[m].first - 1
    ELSE m \notin fenced

BatchesInv == \A m \in Members : BatchOf(m)

\* What is decoded of a batch and is no event is a dead letter.
DecodedAt(m, i) ==
  \/ log[batch[m].topic][i].ok
  \/ <<batch[m].topic, i>> \in dead
  \/ pc[m] = "deadletter" /\ i = batch[m].pos

DecodedInv ==
  \A m \in Members : InBatch(m) => \A i \in batch[m].first .. batch[m].pos : DecodedAt(m, i)

\* At which step of its handler a member of a group can be, and that it knows
\* the vehicle from "seed" on.
StepOf(m) ==
  /\ pc[m] = "seed" => group = "engine"
  /\ pc[m] \in {"write", "raise"} => group = "alerting"
  /\ pc[m] \in {"seed", "store", "write", "raise"} => known[m] # NoMember
  /\ pc[m] = "lookup" => vehicle # NoMember

\* What a member knows of vehicles is in the vehicle table.
KnownOf(m) ==
  known[m] \in {NoMember, vehicle} /\ \A r \in found[m] : r.vehicle = vehicle

\* What the engine consumer has to store it has found.
FoundAt(m, i, k) ==
  LET e == log[batch[m].topic][i] IN
  e.cause = k /\ e.input[k] # "none" => Row(vehicle, e, <<k, e.input[k]>>) \in found[m]

FoundOf(m) ==
  group = "engine" /\ pc[m] = "store" =>
    \A i \in Events(batch[m]), k \in Inputs : FoundAt(m, i, k)

\* The check at hand is of a reading of the batch, and so are those left, which
\* come later.
CheckOf(w, b) == w.place \in Events(b) /\ w.rest \subseteq {i \in Events(b) : w.place < i}

WorkOf(m) ==
  group = "alerting" /\ pc[m] \in {"register", "lookup", "store", "write", "raise"} =>
    CheckOf(work[m], batch[m])

MemberInv(m) == StepOf(m) /\ KnownOf(m) /\ FoundOf(m) /\ WorkOf(m)

HandlerTypeOK == VehicleTypeOK /\ RowsTypeOK /\ EngineTypeOK /\ AlertTypeOK

HandlerInv ==
  HandlerTypeOK /\ (\A r \in rows : r.vehicle = vehicle) /\ \A m \in Members : MemberInv(m)

\* A batch that is resolved is stored, or a stop cut it short.
Settled(t, i) == HasEffect(t, i) \/ <<t, i>> \in cutShort

BatchSettled(m) ==
  \A i \in batch[m].first .. batch[m].last : Settled(batch[m].topic, i)

ResolvedInv == \A m \in Members : pc[m] = "resolve" => BatchSettled(m)

\* Condition c of live message i needs nothing more: its reading was left out or
\* cut short, or an alert that lasts to it was announced with it or before.
Done(c, i) ==
  \/ <<"live", i>> \in cutShort \/ ~ Live[i].ok \/ i \in stale
  \/ c \in Candidates(Live[i]) => Covered(c, i)

\* A check w has condition k of reading i still before it.
Ahead(w, k, i) == i \in w.rest \/ (i = w.place /\ w.type <= k)

WorkDone(m) ==
  \A i \in Events(batch[m]) : \A k \in 1 .. 3 : Ahead(work[m], k, i) \/ Done(AlertTypes[k], i)

\* A time that last_fired_at of a condition has is that of an announced alert.
Fired(c, a) == \E j \in DOMAIN Live : <<c, j>> \in announced /\ Live[j].at = a

SeenOf(m) ==
  /\ Fired(Condition(m), seen[m].fired)
  /\ states[Condition(m)].fired # NeverFired

CheckedOf(m) ==
  /\ InBatch(m) => \A c \in Conditions : \A i \in 1 .. batch[m].first - 1 : Done(c, i)
  /\ pc[m] \in {"register", "lookup", "store", "write", "raise"} => WorkDone(m)
  /\ pc[m] = "write" /\ seen[m].active => SeenOf(m)
  /\ pc[m] = "raise" => <<Condition(m), work[m].place>> \in announced

\* Whoever announced an alert had everything before its reading done.
AnnouncedInv ==
  \A c \in Conditions : \A j \in Nat : <<c, j>> \in announced =>
    /\ j \in DOMAIN Live /\ Live[j].ok
    /\ \A i \in 1 .. j : Done(c, i)

StatesInv ==
  \A c \in Conditions :
    /\ states[c].active => states[c].fired # NeverFired
    /\ states[c].fired # NeverFired => Fired(c, states[c].fired)

CheckedInv ==
  group = "alerting" => AnnouncedInv /\ StatesInv /\ \A m \in Members : CheckedOf(m)

LogInv == log \in Logs[group]

\* Where a value v of input k that a process remembers comes from.
Witnessed(k, v) ==
  \/ \E j \in DOMAIN log["live"] : log["live"][j].ok /\ log["live"][j].input[k] = v
  \/ \E s \in rows : s.key[1] = k /\ s.key[2] = v

\* What speaks against a value v of input k: another live reading, or a row.
Against(k, v) ==
  \/ \E j \in DOMAIN log["live"] : Contradicts(k, v, log["live"][j])
  \/ \E s \in rows : s.key[1] = k /\ s.key[2] # v

\* A row that the device reported, or that was noticed on the live topic.
ReportedAt(r, t, i) ==
  /\ log[t][i].ok /\ log[t][i].at = r.at /\ log[t][i].input[r.key[1]] = r.key[2]
  /\ log[t][i].cause = r.key[1] \/ (t = "live" /\ Against(r.key[1], r.key[2]))

Reported(r) == \E t \in Topics : \E i \in 1 .. Len(log[t]) : ReportedAt(r, t, i)

InventedInv ==
  group = "engine" =>
    /\ \A r \in rows : Reported(r)
    /\ \A m \in Members : \A r \in found[m] : Reported(r)
    /\ \A m \in Members, k \in Inputs :
         memory[m].state[k] # "none" => Witnessed(k, memory[m].state[k])
-----------------------------------------------------------------------------
(* Lemmas.                                                                 *)

\* A set of naturals has its least element, and a bounded one its greatest.
LEMMA MinIn ==
  ASSUME NEW S, S \subseteq Nat, S # {}
  PROVE  Min(S) \in S /\ \A y \in S : Min(S) <= y
  <1> DEFINE Less == OpToRel(<, Nat)
  <1>1. \E x \in S : \A y \in S : ~ (<<y, x>> \in Less)
    <2>1. IsWellFoundedOn(Less, Nat)
      BY NatLessThanWellFounded
    <2> HIDE DEF Less
    <2> QED
      BY <2>1, WFMin
  <1>2. PICK x \in S : \A y \in S : ~ (<<y, x>> \in Less)
    BY <1>1
  <1>3. \A y \in S : ~ (y < x)
    BY <1>2 DEF OpToRel
  <1>4. ASSUME NEW y \in S
        PROVE  x <= y
    <2>1. x \in Nat /\ y \in Nat /\ ~ (y < x)
      BY <1>3, <1>4
    <2> QED
      BY <2>1
  <1>5. \E z \in S : \A y \in S : z <= y
    BY <1>4
  <1> QED
    BY <1>5 DEF Min

\* The greatest element of a bounded set of naturals.
LEMMA MaxIn ==
  ASSUME NEW N \in Nat, NEW S, S \subseteq 0 .. N, S # {}
  PROVE  Max(S) \in S /\ \A y \in S : y <= Max(S)
  <1> DEFINE U == {u \in Nat : N - u \in S}
  <1>1. U \subseteq Nat /\ U # {}
    <2>1. PICK x \in S : TRUE
      OBVIOUS
    <2>2. N - x \in Nat /\ N - (N - x) = x
      BY <2>1
    <2> QED
      BY <2>1, <2>2
  <1>2. PICK u \in U : \A v \in U : u <= v
    <2> HIDE DEF U
    <2> QED
      BY <1>1, MinIn
  <1>3. ASSUME NEW y \in S
        PROVE  y <= N - u
    <2>1. y \in 0 .. N /\ N - y \in Nat /\ N - (N - y) = y
      BY <1>3
    <2>2. u <= N - y
      BY <1>2, <2>1
    <2> QED
      BY <2>1, <2>2
  <1>4. \E x \in S : \A y \in S : x >= y
    BY <1>3
  <1> QED
    BY <1>4 DEF Max

\* The messages of a log are readings.
LEMMA MessageType ==
  ASSUME ConsumerTypeOK, LogInv, NEW t \in Topics, NEW i \in 1 .. Len(log[t])
  PROVE  log[t][i] \in Readings
  BY ConsumerAssumption DEF LogInv, ConsumerTypeOK

\* Decoding a batch b behind b.pos ends at p, in step s.
Decoded(b, p, s) ==
  /\ b.pos <= p /\ p <= b.last
  /\ b.pos < b.last => b.pos < p
  /\ s = "deadletter" => b.pos < p
  /\ s # "deadletter" => p = b.last
  /\ \A i \in b.pos + 1 .. p : log[b.topic][i].ok \/ (s = "deadletter" /\ i = p)
  /\ s = "resolve" => Events(b) = {}

\* Decoding always ends: at a dead letter, or behind the last message.
LEMMA DecodeStep ==
  ASSUME NEW m \in Members,
         NEW b \in [topic : Topics, first : Nat, last : Nat, pos : Nat],
         b.pos <= b.last, Decode(m, b)
  PROVE  \E p \in Nat, s \in {"deadletter", "handler", "resolve"} :
           /\ batch' = [batch EXCEPT ![m] = [b EXCEPT !.pos = p]]
           /\ pc' = [pc EXCEPT ![m] = s]
           /\ Decoded(b, p, s)
  <1> DEFINE bad == {i \in b.pos + 1 .. b.last : ~ log[b.topic][i].ok}
  <1>1. CASE bad # {}
    <2>1. Min(bad) \in bad /\ \A y \in bad : Min(bad) <= y
      <3>1. bad \subseteq Nat
        OBVIOUS
      <3> HIDE DEF bad
      <3> QED
        BY <1>1, <3>1, MinIn
    <2>2. /\ batch' = [batch EXCEPT ![m] = [b EXCEPT !.pos = Min(bad)]]
          /\ pc' = [pc EXCEPT ![m] = "deadletter"]
      BY <1>1 DEF Decode
    <2> DEFINE p == Min(bad)
    <2>3. p \in b.pos + 1 .. b.last
      BY <2>1
    <2>4. \A i \in b.pos + 1 .. p : log[b.topic][i].ok \/ i = p
      <3> SUFFICES ASSUME NEW i \in b.pos + 1 .. p, ~ log[b.topic][i].ok PROVE i = p
        OBVIOUS
      <3>1. i \in bad
        BY <2>3
      <3>2. p <= i
        BY <2>1, <3>1
      <3> HIDE DEF p
      <3> QED
        BY <2>3, <3>2
    <2> HIDE DEF p, bad
    <2>5. p \in Nat /\ Decoded(b, p, "deadletter")
      BY <2>3, <2>4 DEF Decoded
    <2> QED
      BY <2>2, <2>5 DEF p
  <1>2. CASE bad = {}
    <2> DEFINE s == IF Events(b) = {} THEN "resolve" ELSE "handler"
    <2>1. /\ batch' = [batch EXCEPT ![m] = [b EXCEPT !.pos = b.last]]
          /\ pc' = [pc EXCEPT ![m] = s]
      BY <1>2 DEF Decode
    <2>2. \A i \in b.pos + 1 .. b.last : log[b.topic][i].ok
      BY <1>2
    <2>3. s \in {"handler", "resolve"} /\ (s = "resolve" => Events(b) = {})
      OBVIOUS
    <2> HIDE DEF s, bad
    <2>4. b.last \in Nat /\ Decoded(b, b.last, s)
      BY <2>2, <2>3 DEF Decoded
    <2> QED
      BY <2>1, <2>3, <2>4
  <1> QED
    BY <1>1, <1>2

-----------------------------------------------------------------------------
(* The group.  A step of the system is, for the variables of the group, a  *)
(* step of the group or a move of a handler.                               *)

Moves(m) ==
  /\ pc[m] \in HandlerSteps
  /\ \E s \in HandlerSteps \cup {"resolve"} : pc' = [pc EXCEPT ![m] = s]
  /\ HandlerFrame

GivesBack(m) == InBatch(m) /\ GiveBack(m) /\ faults' \in Nat

Ends(m) == pc[m] # "down" /\ Gone(m) /\ faults' \in Nat

MemberMoves(m) ==
  \/ Join(m) \/ Evict(m) \/ Stop(m)
  \/ \E t \in Topics : \E n \in 1 .. Len(log[t]) : Fetch(m, t, n)
  \/ DeadLetter(m) \/ ReturnEarly(m) \/ Commit(m)
  \/ GivesBack(m) \/ Ends(m) \/ Moves(m)

\* Failures are counted.
LEMMA FaultsCounted ==
  ASSUME ConsumerTypeOK
  PROVE  faults \in Nat /\ (Fault => faults' \in Nat)
  BY ConsumerAssumption DEF ConsumerTypeOK, Fault

\* The steps of the writers of locations and fuel.
LEMMA WriterMoves ==
  ASSUME ConsumerTypeOK, NEW m \in Members, WriterStep(m)
  PROVE  Moves(m) \/ GivesBack(m)
  BY ConsumerAssumption
     DEF ConsumerTypeOK, WriterStep, BeginLocations, InsertLocations, BeginFuel, InsertFuel,
         InsertRefused, Begin, Resolve, GoTo, Moves, GivesBack, HandlerSteps, InBatch

\* The steps of the engine consumer.
LEMMA EngineMoves ==
  ASSUME ConsumerTypeOK, NEW m \in Members, EngineStep(m)
  PROVE  Moves(m)
  BY DEF ConsumerTypeOK, EngineStep, BeginEngine, Seed, Scan, InsertTransitions, Begin, Resolve,
         GoTo, Moves, HandlerSteps, HandlerFrame

\* The steps of the alerting consumer.
LEMMA AlertMoves ==
  ASSUME ConsumerTypeOK, NEW m \in Members, AlertStep(m)
  PROVE  Moves(m)
  BY DEF ConsumerTypeOK, AlertStep, BeginAlerting, ReadState, ClearState, HoldState, Raise,
         NextCheck, AlertFrame, Begin, Resolve, GoTo, Moves, HandlerSteps

\* Whatever a member does.
LEMMA StepsAreMoves ==
  ASSUME ConsumerTypeOK, NEW m \in Members,
         \/ GroupStep(m) \/ HandlerFails(m) \/ Leave(m) \/ Kill(m)
         \/ Register(m) \/ Lookup(m) \/ HandlerStep(m)
  PROVE  MemberMoves(m)
  <1>1. CASE CommitFails(m) \/ HandlerFails(m)
    BY <1>1, FaultsCounted DEF CommitFails, HandlerFails, MemberMoves, GivesBack, InBatch, HandlerSteps
  <1>2. CASE GroupStep(m)
    BY <1>1, <1>2 DEF GroupStep, MemberMoves
  <1>3. CASE Leave(m) \/ Kill(m)
    BY <1>3, FaultsCounted DEF Leave, Kill, MemberMoves, Ends
  <1>4. CASE Register(m) \/ Lookup(m)
    BY <1>4 DEF Register, Lookup, MemberMoves, Moves, GoTo, HandlerSteps
  <1>5. CASE HandlerStep(m)
    BY <1>5, WriterMoves, EngineMoves, AlertMoves DEF HandlerStep, MemberMoves
  <1> QED
    BY <1>1, <1>2, <1>3, <1>4, <1>5

\* Whatever the system does.
LEMMA GroupSteps ==
  ASSUME ConsumerTypeOK, [TelemetryNext]_telemetryVars
  PROVE  Rebalance \/ (\E m \in Members : MemberMoves(m)) \/ UNCHANGED consumerVars
  BY StepsAreMoves DEF TelemetryNext, telemetryVars

GroupInv == ConsumerTypeOK /\ LogInv /\ BatchesInv /\ DecodedInv

\* The batch behind a fetch or a dead letter.
LEMMA DecodeKeeps ==
  ASSUME GroupInv, NEW m \in Members,
         NEW b \in [topic : Topics, first : Nat, last : Nat, pos : Nat],
         Decode(m, b),
         b.topic \in Subscribed, 1 <= b.first, b.first <= b.pos + 1, b.pos <= b.last,
         b.first <= b.last, b.last <= Len(log[b.topic]),
         m \notin fenced => owner[b.topic] = m /\ committed[b.topic] = b.first - 1,
         \A i \in b.first .. b.pos : log[b.topic][i].ok \/ <<b.topic, i>> \in dead',
         dead' \subseteq Places, dead \subseteq dead',
         UNCHANGED <<group, log, committed, owner, fenced>>
  PROVE  /\ pc' \in [Members -> Steps]
         /\ batch' \in [Members -> [topic : Topics, first : Nat, last : Nat, pos : Nat]]
         /\ BatchesInv' /\ DecodedInv'
  <1>1. PICK p \in Nat, s \in {"deadletter", "handler", "resolve"} :
           /\ batch' = [batch EXCEPT ![m] = [b EXCEPT !.pos = p]]
           /\ pc' = [pc EXCEPT ![m] = s]
           /\ Decoded(b, p, s)
    BY DecodeStep
  <1>2. /\ pc' \in [Members -> Steps]
        /\ batch' \in [Members -> [topic : Topics, first : Nat, last : Nat, pos : Nat]]
    <2>1. [b EXCEPT !.pos = p] \in [topic : Topics, first : Nat, last : Nat, pos : Nat]
      OBVIOUS
    <2>2. s \in Steps
      BY DEF Steps, HandlerSteps
    <2> QED
      BY <1>1, <2>1, <2>2 DEF GroupInv, ConsumerTypeOK
  <1>3. /\ batch'[m] = [b EXCEPT !.pos = p] /\ pc'[m] = s
        /\ \A n \in Members \ {m} : batch'[n] = batch[n] /\ pc'[n] = pc[n]
    BY <1>1 DEF GroupInv, ConsumerTypeOK
  <1>4. /\ batch'[m].topic = b.topic /\ batch'[m].first = b.first
        /\ batch'[m].last = b.last /\ batch'[m].pos = p
    BY <1>3
  <1>5. ASSUME NEW n \in Members
        PROVE  BatchOf(n)'
    <2>1. CASE n = m
      <3>1. b.first <= p /\ p <= b.last /\ (s # "deadletter" => p = b.last)
        BY <1>1 DEF Decoded
      <3> QED
        BY <1>3, <1>4, <2>1, <3>1 DEF BatchOf, InBatch, HandlerSteps, Subscribed
    <2>2. CASE n # m
      BY <1>3, <2>2 DEF BatchOf, InBatch, GroupInv, BatchesInv, Subscribed
    <2> QED
      BY <2>1, <2>2
  <1>6. ASSUME NEW n \in Members, InBatch(n)', NEW i \in batch'[n].first .. batch'[n].pos
        PROVE  DecodedAt(n, i)'
    <2>1. CASE n = m
      <3>1. i \in b.first .. p
        BY <1>4, <1>6, <2>1
      <3>2. CASE i <= b.pos
        <4>1. i \in b.first .. b.pos
          BY <3>1, <3>2
        <4> QED
          BY <1>4, <2>1, <4>1 DEF DecodedAt
      <3>3. CASE i > b.pos
        <4>1. i \in b.pos + 1 .. p
          BY <3>1, <3>3
        <4> QED
          BY <1>1, <1>3, <1>4, <2>1, <4>1 DEF DecodedAt, Decoded
      <3> QED
        BY <3>1, <3>2, <3>3
    <2>2. CASE n # m
      <3>1. batch'[n] = batch[n] /\ pc'[n] = pc[n]
        BY <1>3, <2>2
      <3>2. DecodedAt(n, i)
        BY <1>6, <3>1 DEF InBatch, GroupInv, DecodedInv
      <3> QED
        BY <3>1, <3>2 DEF DecodedAt
    <2> QED
      BY <2>1, <2>2
  <1> QED
    BY <1>2, <1>5, <1>6 DEF BatchesInv, DecodedInv

\* A fetched batch is what follows the committed offset.
LEMMA FetchKeeps ==
  ASSUME GroupInv, NEW m \in Members, NEW t \in Topics, NEW n \in 1 .. Len(log[t]), Fetch(m, t, n)
  PROVE  GroupInv'
  <1> DEFINE b == [topic |-> t, first |-> committed[t] + 1, last |-> committed[t] + n,
                   pos |-> committed[t]]
  <1>1. committed[t] \in Nat /\ n \in Nat /\ n >= 1 /\ committed[t] + n <= Len(log[t])
    BY DEF Fetch, GroupInv, ConsumerTypeOK
  <1>2. b \in [topic : Topics, first : Nat, last : Nat, pos : Nat]
    BY <1>1
  <1>3. /\ b.topic \in Subscribed /\ 1 <= b.first /\ b.first <= b.pos + 1 /\ b.pos <= b.last
        /\ b.first <= b.last /\ b.last <= Len(log[b.topic])
        /\ owner[b.topic] = m /\ committed[b.topic] = b.first - 1
    BY <1>1 DEF Fetch
  <1>4. \A i \in b.first .. b.pos : log[b.topic][i].ok \/ <<b.topic, i>> \in dead'
    BY <1>1
  <1>5. Decode(m, b)
    BY DEF Fetch
  <1>6. /\ UNCHANGED <<group, log, committed, owner, settled, fenced, stopping, dead, cutShort,
                       faults>>
        /\ dead \subseteq Places
    BY DEF Fetch, GroupInv, ConsumerTypeOK
  <1> HIDE DEF b
  <1>7. /\ pc' \in [Members -> Steps]
        /\ batch' \in [Members -> [topic : Topics, first : Nat, last : Nat, pos : Nat]]
        /\ BatchesInv' /\ DecodedInv'
    BY <1>2, <1>3, <1>4, <1>5, <1>6, DecodeKeeps
  <1> QED
    BY <1>6, <1>7 DEF GroupInv, ConsumerTypeOK, LogInv, Places

\* A dead letter is stored before decoding goes on behind it.
LEMMA DeadLetterKeeps ==
  ASSUME GroupInv, NEW m \in Members, DeadLetter(m)
  PROVE  GroupInv'
  <1>1. /\ BatchOf(m) /\ InBatch(m)
        /\ batch[m] \in [topic : Topics, first : Nat, last : Nat, pos : Nat]
    BY DEF DeadLetter, GroupInv, BatchesInv, InBatch, ConsumerTypeOK
  <1>2. /\ dead' = dead \cup {<<batch[m].topic, batch[m].pos>>} /\ Decode(m, batch[m])
        /\ UNCHANGED <<group, log, committed, owner, settled, fenced, stopping, cutShort,
                       faults>>
    BY DEF DeadLetter
  <1>3. dead' \subseteq Places
    <2>1. batch[m].pos \in 1 .. Len(log[batch[m].topic])
      BY <1>1 DEF BatchOf, GroupInv, ConsumerTypeOK
    <2> QED
      BY <1>1, <1>2, <2>1 DEF Places, GroupInv, ConsumerTypeOK
  <1>4. ASSUME NEW i \in batch[m].first .. batch[m].pos
        PROVE  log[batch[m].topic][i].ok \/ <<batch[m].topic, i>> \in dead'
    BY <1>1, <1>2 DEF GroupInv, DecodedInv, DecodedAt
  <1>5. /\ pc' \in [Members -> Steps]
        /\ batch' \in [Members -> [topic : Topics, first : Nat, last : Nat, pos : Nat]]
        /\ BatchesInv' /\ DecodedInv'
    BY <1>1, <1>2, <1>3, <1>4, DecodeKeeps DEF BatchOf
  <1>6. LogInv'
    BY <1>2 DEF GroupInv, LogInv
  <1>7. cutShort' \subseteq Places'
    BY <1>2 DEF GroupInv, ConsumerTypeOK, Places
  <1>8. dead' \subseteq Places'
    BY <1>2, <1>3 DEF Places
  <1>9. ConsumerTypeOK'
    BY <1>2, <1>5, <1>7, <1>8 DEF GroupInv, ConsumerTypeOK
  <1> QED
    BY <1>5, <1>6, <1>9 DEF GroupInv

\* A stop cuts a batch short.
LEMMA ReturnEarlyKeeps ==
  ASSUME GroupInv, NEW m \in Members, ReturnEarly(m)
  PROVE  GroupInv'
  <1>1. /\ BatchOf(m) /\ InBatch(m) /\ batch[m].topic \in Topics
        /\ batch[m].first \in Nat /\ batch[m].pos \in Nat /\ batch[m].last \in Nat
    BY DEF ReturnEarly, GroupInv, BatchesInv, InBatch, ConsumerTypeOK
  <1>2. /\ dead' = dead \cup {<<batch[m].topic, batch[m].pos>>}
        /\ cutShort' = cutShort \cup ({batch[m].topic} \X (batch[m].first .. batch[m].last))
        /\ pc' = [pc EXCEPT ![m] = "resolve"]
        /\ UNCHANGED <<group, log, committed, owner, settled, batch, fenced, stopping, faults>>
    BY DEF ReturnEarly
  <1>3. batch[m].first .. batch[m].last \subseteq 1 .. Len(log[batch[m].topic])
        /\ batch[m].pos \in 1 .. Len(log[batch[m].topic])
    BY <1>1 DEF BatchOf, GroupInv, ConsumerTypeOK
  <1>4. ConsumerTypeOK'
    <2>1. dead' \subseteq Places /\ cutShort' \subseteq Places
      BY <1>1, <1>2, <1>3 DEF Places, GroupInv, ConsumerTypeOK
    <2> QED
      BY <1>2, <2>1 DEF GroupInv, ConsumerTypeOK, Places, Steps
  <1>5. ASSUME NEW n \in Members
        PROVE  BatchOf(n)'
    <2>1. BatchOf(n)
      BY DEF GroupInv, BatchesInv
    <2> QED
      BY <1>1, <1>2, <2>1 DEF BatchOf, InBatch, HandlerSteps, Subscribed, GroupInv, ConsumerTypeOK
  <1>6. ASSUME NEW n \in Members, InBatch(n)', NEW i \in batch'[n].first .. batch'[n].pos
        PROVE  DecodedAt(n, i)'
    <2>1. DecodedAt(n, i)
      BY <1>1, <1>2, <1>6 DEF GroupInv, DecodedInv, InBatch, ConsumerTypeOK
    <2> QED
      BY <1>2, <2>1 DEF DecodedAt, GroupInv, ConsumerTypeOK
  <1> QED
    BY <1>2, <1>4, <1>5, <1>6 DEF GroupInv, BatchesInv, DecodedInv, LogInv

\* A handler has its batch decoded, and leaves it as it is.
LEMMA MovesKeep ==
  ASSUME GroupInv, NEW m \in Members, Moves(m)
  PROVE  GroupInv'
  <1>1. PICK s \in HandlerSteps \cup {"resolve"} : pc' = [pc EXCEPT ![m] = s]
    BY DEF Moves
  <1>2. /\ pc[m] \in HandlerSteps
        /\ UNCHANGED <<group, log, committed, owner, settled, batch, fenced, stopping, dead, cutShort,
                       faults>>
    BY DEF Moves, HandlerFrame
  <1>3. ConsumerTypeOK'
    BY <1>1, <1>2 DEF GroupInv, ConsumerTypeOK, Places, Steps
  <1>4. ASSUME NEW n \in Members
        PROVE  BatchOf(n)'
    <2>1. BatchOf(n)
      BY DEF GroupInv, BatchesInv
    <2> QED
      BY <1>1, <1>2, <2>1 DEF BatchOf, InBatch, HandlerSteps, Subscribed, GroupInv, ConsumerTypeOK
  <1>5. ASSUME NEW n \in Members, InBatch(n)', NEW i \in batch'[n].first .. batch'[n].pos
        PROVE  DecodedAt(n, i)'
    <2>1. DecodedAt(n, i) /\ (n = m => pc[n] # "deadletter")
      BY <1>1, <1>2, <1>5 DEF GroupInv, DecodedInv, InBatch, ConsumerTypeOK, HandlerSteps
    <2> QED
      BY <1>1, <1>2, <2>1 DEF DecodedAt, GroupInv, ConsumerTypeOK
  <1> QED
    BY <1>2, <1>3, <1>4, <1>5 DEF GroupInv, BatchesInv, DecodedInv, LogInv

\* A member that ends its batch, in whichever way, leaves those of the others
\* alone: what it commits is of a topic that is none of theirs.
LEMMA LeavesBatch ==
  ASSUME GroupInv, NEW m \in Members,
         m \notin fenced', fenced \subseteq fenced' \cup {m},
         batch' = [batch EXCEPT ![m] = NoBatch],
         \E s \in {"down", "idle"} : pc' = [pc EXCEPT ![m] = s],
         UNCHANGED <<group, log, owner, dead>>, fenced' \subseteq fenced,
         \A t \in Topics : committed'[t] # committed[t] => InBatch(m) /\ m \notin fenced /\ t = batch[m].topic
  PROVE  BatchesInv' /\ DecodedInv'
  <1>1. PICK s \in {"down", "idle"} : pc' = [pc EXCEPT ![m] = s]
    OBVIOUS
  <1>2. pc'[m] = s /\ \A n \in Members \ {m} : pc'[n] = pc[n] /\ batch'[n] = batch[n]
    BY <1>1 DEF GroupInv, ConsumerTypeOK
  <1>3. ASSUME NEW n \in Members
        PROVE  BatchOf(n)'
    <2>1. BatchOf(n) /\ BatchOf(m) /\ batch[n].topic \in Topics
      BY DEF GroupInv, BatchesInv, ConsumerTypeOK
    <2>2. CASE n = m
      BY <1>2, <2>2 DEF BatchOf, InBatch
    <2>3. CASE n # m
      <3>1. InBatch(n) /\ n \notin fenced => committed'[batch[n].topic] = committed[batch[n].topic]
        BY <2>1, <2>3 DEF BatchOf
      <3> QED
        BY <1>2, <2>1, <2>3, <3>1 DEF BatchOf, InBatch, Subscribed
    <2> QED
      BY <2>2, <2>3
  <1>4. ASSUME NEW n \in Members, InBatch(n)', NEW i \in batch'[n].first .. batch'[n].pos
        PROVE  DecodedAt(n, i)'
    <2>1. n # m
      BY <1>2, <1>4 DEF InBatch
    <2>2. DecodedAt(n, i) /\ batch'[n] = batch[n] /\ pc'[n] = pc[n]
      BY <1>2, <1>4, <2>1 DEF GroupInv, DecodedInv, InBatch
    <2> QED
      BY <2>2 DEF DecodedAt
  <1> QED
    BY <1>3, <1>4 DEF BatchesInv, DecodedInv

\* The empty batch is a batch.
LEMMA NoBatchType ==
  NoBatch \in [topic : Topics, first : Nat, last : Nat, pos : Nat]
  BY DEF NoBatch, Topics

\* A member that is not evicted commits its own topic.
LEMMA CommitKeeps ==
  ASSUME GroupInv, NEW m \in Members, Commit(m)
  PROVE  GroupInv'
  <1>1. /\ pc[m] = "resolve" /\ m \notin fenced /\ InBatch(m) /\ BatchOf(m)
        /\ committed' = [committed EXCEPT ![batch[m].topic] = batch[m].last]
        /\ pc' = [pc EXCEPT ![m] = "idle"]
        /\ batch' = [batch EXCEPT ![m] = NoBatch]
        /\ UNCHANGED <<group, log, owner, settled, fenced, stopping, dead, cutShort,
                       faults>>
        /\ batch[m].topic \in Topics /\ batch[m].last \in Nat
    BY DEF Commit, InBatch, GroupInv, BatchesInv, ConsumerTypeOK
  <1>2. ConsumerTypeOK'
    <2>1. /\ committed' \in [Topics -> Nat]
          /\ \A t \in Topics : committed'[t] <= Len(log'[t])
      BY <1>1 DEF BatchOf, GroupInv, ConsumerTypeOK
    <2>2. /\ pc' \in [Members -> Steps]
          /\ batch' \in [Members -> [topic : Topics, first : Nat, last : Nat, pos : Nat]]
      BY <1>1, NoBatchType DEF GroupInv, ConsumerTypeOK, Steps
    <2>3. dead' \subseteq Places' /\ cutShort' \subseteq Places'
      BY <1>1 DEF GroupInv, ConsumerTypeOK, Places
    <2> QED
      BY <1>1, <2>1, <2>2, <2>3 DEF GroupInv, ConsumerTypeOK
  <1>3. \A t \in Topics : committed'[t] # committed[t] => t = batch[m].topic
    BY <1>1 DEF GroupInv, ConsumerTypeOK
  <1>4. BatchesInv' /\ DecodedInv'
    BY <1>1, <1>3, LeavesBatch
  <1> QED
    BY <1>1, <1>2, <1>4 DEF GroupInv, LogInv

\* A batch is given back, or lost with its process.
LEMMA LeaversKeep ==
  ASSUME GroupInv, NEW m \in Members, GivesBack(m) \/ Ends(m)
  PROVE  GroupInv'
  <1>1. /\ batch' = [batch EXCEPT ![m] = NoBatch] /\ fenced' = fenced \ {m}
        /\ UNCHANGED <<group, log, committed, owner, dead, cutShort>>
        /\ settled' \in BOOLEAN /\ stopping' \subseteq stopping /\ faults' \in Nat
    BY DEF GivesBack, Ends, GiveBack, Gone, GroupInv, ConsumerTypeOK
  <1>2. PICK s \in {"down", "idle"} : pc' = [pc EXCEPT ![m] = s]
    BY DEF GivesBack, Ends, GiveBack, Gone
  <1>3. ConsumerTypeOK'
    BY <1>1, <1>2, NoBatchType, SMTT(30) DEF GroupInv, ConsumerTypeOK, Places, Steps
  <1>4. BatchesInv' /\ DecodedInv'
    BY <1>1, <1>2, LeavesBatch
  <1> QED
    BY <1>1, <1>3, <1>4 DEF GroupInv, LogInv

\* No member in a batch loses its topic, unless it is evicted.
LEMMA RebalanceKeeps ==
  ASSUME GroupInv, Rebalance
  PROVE  GroupInv'
  <1>1. /\ owner' \in [Topics -> (Joined \ fenced) \cup {NoMember}] /\ settled' = TRUE
        /\ UNCHANGED <<group, log, committed, pc, batch, fenced, stopping, dead, cutShort,
                       faults>>
        /\ \A n \in Members : InBatch(n) => n \in fenced
    BY DEF Rebalance, Joined, InBatch
  <1>2. ConsumerTypeOK'
    BY <1>1 DEF GroupInv, ConsumerTypeOK, Places, Joined
  <1>3. BatchesInv'
    BY <1>1 DEF GroupInv, BatchesInv, BatchOf, InBatch, Subscribed
  <1>4. DecodedInv'
    BY <1>1 DEF GroupInv, DecodedInv, DecodedAt, InBatch
  <1> QED
    BY <1>1, <1>2, <1>3, <1>4 DEF GroupInv, LogInv

\* Joining, an eviction and the word to stop leave batches alone.
LEMMA OthersKeep ==
  ASSUME GroupInv, NEW m \in Members, Join(m) \/ Evict(m) \/ Stop(m)
  PROVE  GroupInv'
  <1>1. /\ UNCHANGED <<group, log, committed, owner, batch, dead, cutShort>>
        /\ settled' \in BOOLEAN /\ stopping' \subseteq Members /\ faults' \in Nat
        /\ fenced' \subseteq Members /\ fenced \subseteq fenced'
        /\ pc' \in [Members -> Steps]
    BY FaultsCounted DEF Join, Evict, Stop, GroupInv, ConsumerTypeOK, Steps
  <1>2. \A n \in Members : /\ InBatch(n)' <=> InBatch(n)
                           /\ InBatch(n) => pc'[n] = pc[n]
                           /\ n \in fenced' \ fenced => InBatch(n)
    BY DEF Join, Evict, Stop, InBatch, GroupInv, ConsumerTypeOK
  <1>3. ConsumerTypeOK'
    BY <1>1 DEF GroupInv, ConsumerTypeOK, Places
  <1>4. BatchesInv'
    BY <1>1, <1>2 DEF GroupInv, BatchesInv, BatchOf, Subscribed
  <1>5. ASSUME NEW n \in Members, InBatch(n)', NEW i \in batch'[n].first .. batch'[n].pos
        PROVE  DecodedAt(n, i)'
    BY <1>1, <1>2, <1>5 DEF GroupInv, DecodedInv, DecodedAt
  <1> QED
    BY <1>1, <1>3, <1>4, <1>5 DEF GroupInv, LogInv, DecodedInv

\* The invariant of the group holds at each step.
LEMMA GroupInvKept ==
  ASSUME GroupInv, [TelemetryNext]_telemetryVars
  PROVE  GroupInv'
  <1>1. CASE UNCHANGED consumerVars
    BY <1>1 DEF consumerVars, GroupInv, ConsumerTypeOK, Places, LogInv, BatchesInv, BatchOf, InBatch,
                Subscribed, DecodedInv, DecodedAt
  <1>2. CASE Rebalance
    BY <1>2, RebalanceKeeps
  <1>3. ASSUME NEW m \in Members, MemberMoves(m)
        PROVE  GroupInv'
    BY <1>3, OthersKeep, FetchKeeps, DeadLetterKeeps, ReturnEarlyKeeps, CommitKeeps, LeaversKeep,
       MovesKeep DEF MemberMoves
  <1> QED
    BY <1>1, <1>2, <1>3, GroupSteps DEF GroupInv

-----------------------------------------------------------------------------
(* The handlers.  A step that is quiet leaves the tables alone, and so what *)
(* a member has in hand, unless it loses it with its batch.                *)

Busy == {"register", "lookup", "seed", "store", "write", "raise"}

Quiet ==
  /\ UNCHANGED <<vehicle, rows, states, alerts, group, log>>
  /\ known' \in [Members -> Members \cup {NoMember}]
  /\ memory' \in [Members -> [loaded : BOOLEAN, state : [Inputs -> Values]]]
  /\ found' \in [Members -> SUBSET [vehicle : Members, at : Nat, key : Keys]]
  /\ seen' \in [Members -> States]
  /\ work' \in [Members -> Checks]
  /\ UNCHANGED <<stale, announced>>
  /\ \A n \in Members :
       /\ known'[n] \in {known[n], NoMember} /\ found'[n] \subseteq found[n]
       /\ pc'[n] \in Busy =>
            /\ pc'[n] = pc[n] /\ batch'[n] = batch[n] /\ seen'[n] = seen[n]
            /\ known'[n] = known[n] /\ found'[n] = found[n] /\ work'[n] = work[n]

\* A quiet step keeps the invariant of the handlers.
LEMMA QuietKeeps ==
  ASSUME HandlerInv, Quiet
  PROVE  HandlerInv'
  <1>1. HandlerTypeOK'
    BY DEF HandlerInv, Quiet, HandlerTypeOK, VehicleTypeOK, RowsTypeOK, EngineTypeOK, AlertTypeOK
  <1>2. \A r \in rows' : r.vehicle = vehicle'
    BY DEF HandlerInv, Quiet
  <1>3. ASSUME NEW n \in Members
        PROVE  MemberInv(n)'
    <2>1. /\ MemberInv(n) /\ UNCHANGED <<vehicle, group, log>>
          /\ known'[n] \in {known[n], NoMember} /\ found'[n] \subseteq found[n]
          /\ pc'[n] \in Busy =>
               /\ pc'[n] = pc[n] /\ batch'[n] = batch[n]
               /\ known'[n] = known[n] /\ found'[n] = found[n] /\ work'[n] = work[n]
      BY DEF Quiet, HandlerInv
    <2>2. StepOf(n)'
      BY <2>1 DEF MemberInv, StepOf, Busy
    <2>3. KnownOf(n)'
      BY <2>1 DEF MemberInv, KnownOf
    <2>4. FoundOf(n)'
      BY <2>1 DEF MemberInv, FoundOf, FoundAt, Events, Busy
    <2>5. WorkOf(n)'
      BY <2>1 DEF MemberInv, WorkOf, CheckOf, Events, Busy
    <2> QED
      BY <2>2, <2>3, <2>4, <2>5 DEF MemberInv
  <1> QED
    BY <1>1, <1>2, <1>3 DEF HandlerInv

\* A handler step concerns one member, and a vehicle's row is there for good.
Stays(m, s) ==
  /\ pc' = [pc EXCEPT ![m] = s]
  /\ UNCHANGED <<group, log, batch>>
  /\ vehicle' = vehicle \/ vehicle = NoMember
  /\ \A n \in Members \ {m} : known'[n] = known[n] /\ found'[n] = found[n] /\ work'[n] = work[n]

\* For a step of one handler it is enough to look at its member.
LEMMA StepKeeps ==
  ASSUME GroupInv, HandlerInv, NEW m \in Members, NEW s, Stays(m, s),
         HandlerTypeOK', \A r \in rows' : r \in rows \/ r.vehicle = vehicle', MemberInv(m)'
  PROVE  HandlerInv'
  <1>1. ASSUME NEW S, S \subseteq [vehicle : Members, at : Nat, key : Keys],
               \A r \in S : r.vehicle = vehicle
        PROVE  \A r \in S : r.vehicle = vehicle'
    <2>1. \A r \in S : r.vehicle # NoMember
      BY <1>1, ConsumerAssumption
    <2> QED
      BY <1>1, <2>1 DEF Stays
  <1>2. \A r \in rows' : r.vehicle = vehicle'
    BY <1>1 DEF HandlerInv, HandlerTypeOK, RowsTypeOK
  <1>3. ASSUME NEW n \in Members, n # m
        PROVE  MemberInv(n)'
    <2>1. /\ MemberInv(n) /\ UNCHANGED <<group, log, batch>>
          /\ known'[n] = known[n] /\ found'[n] = found[n] /\ work'[n] = work[n] /\ pc'[n] = pc[n]
          /\ vehicle' = vehicle \/ vehicle = NoMember
      BY <1>3 DEF Stays, HandlerInv, GroupInv, ConsumerTypeOK
    <2>2. StepOf(n)'
      BY <2>1 DEF MemberInv, StepOf
    <2>3. KnownOf(n)'
      <3>1. \A r \in found[n] : r.vehicle = vehicle'
        BY <1>1, <2>1 DEF MemberInv, KnownOf, HandlerInv, HandlerTypeOK, EngineTypeOK
      <3> QED
        BY <2>1, <3>1 DEF MemberInv, KnownOf
    <2>4. FoundOf(n)'
      <3>1. pc[n] = "store" => vehicle # NoMember
        BY <2>1 DEF MemberInv, StepOf, KnownOf
      <3> QED
        BY <2>1, <3>1 DEF MemberInv, FoundOf, FoundAt, Events
    <2>5. WorkOf(n)'
      BY <2>1 DEF MemberInv, WorkOf, CheckOf, Events
    <2> QED
      BY <2>2, <2>3, <2>4, <2>5 DEF MemberInv
  <1> QED
    BY <1>2, <1>3 DEF HandlerInv

\* The row of the vehicle is made once.
LEMMA RegisterKeeps ==
  ASSUME GroupInv, HandlerInv, NEW m \in Members, Register(m),
         UNCHANGED <<rows, engineVars, alertVars>>
  PROVE  HandlerInv'
  <1>1. /\ pc[m] = "register" /\ pc' = [pc EXCEPT ![m] = "lookup"] /\ pc'[m] = "lookup"
        /\ vehicle' = IF vehicle = NoMember THEN m ELSE vehicle
        /\ UNCHANGED <<group, log, batch, known, found, work>>
    BY DEF Register, GoTo, HandlerFrame, engineVars, alertVars, GroupInv, ConsumerTypeOK
  <1>2. HandlerTypeOK'
    BY <1>1 DEF HandlerInv, HandlerTypeOK, VehicleTypeOK, RowsTypeOK, EngineTypeOK, AlertTypeOK,
                engineVars, alertVars
  <1>3. MemberInv(m)'
    <2>1. MemberInv(m)
      BY DEF HandlerInv
    <2>2. KnownOf(m)'
      <3>1. found[m] \subseteq [vehicle : Members, at : Nat, key : Keys]
        BY DEF HandlerInv, HandlerTypeOK, EngineTypeOK
      <3> QED
        BY <1>1, <2>1, <3>1, ConsumerAssumption DEF MemberInv, KnownOf
    <2>3. StepOf(m)'
      BY <1>1, ConsumerAssumption DEF StepOf
    <2>4. FoundOf(m)' /\ WorkOf(m)'
      BY <1>1, <2>1 DEF MemberInv, FoundOf, WorkOf, CheckOf, Events
    <2> QED
      BY <2>2, <2>3, <2>4 DEF MemberInv
  <1> QED
    BY <1>1, <1>2, <1>3, StepKeeps DEF Stays

\* What is cached is what the row says.
LEMMA LookupKeeps ==
  ASSUME GroupInv, HandlerInv, NEW m \in Members, Lookup(m),
         UNCHANGED <<rows, engineVars, alertVars>>
  PROVE  HandlerInv'
  <1> DEFINE s == IF group = "engine" THEN "seed" ELSE "store"
  <1>1. /\ pc[m] = "lookup" /\ pc' = [pc EXCEPT ![m] = s] /\ pc'[m] = s
        /\ known' = [known EXCEPT ![m] = vehicle]
        /\ UNCHANGED <<vehicle, group, log, batch, found, work>>
    BY DEF Lookup, GoTo, HandlerFrame, engineVars, alertVars, GroupInv, ConsumerTypeOK
  <1>2. HandlerTypeOK'
    BY <1>1 DEF HandlerInv, HandlerTypeOK, VehicleTypeOK, RowsTypeOK, EngineTypeOK, AlertTypeOK,
                engineVars, alertVars
  <1>3. MemberInv(m)'
    <2>1. MemberInv(m) /\ known'[m] = vehicle
      BY <1>1 DEF HandlerInv, HandlerTypeOK, VehicleTypeOK
    <2>2. KnownOf(m)' /\ StepOf(m)' /\ FoundOf(m)'
      BY <1>1, <2>1 DEF MemberInv, KnownOf, StepOf, FoundOf
    <2>3. WorkOf(m)'
      BY <1>1, <2>1 DEF MemberInv, WorkOf, CheckOf, Events
    <2> QED
      BY <2>2, <2>3 DEF MemberInv
  <1> QED
    BY <1>1, <1>2, <1>3, StepKeeps DEF Stays, HandlerInv, HandlerTypeOK, VehicleTypeOK

\* A handler begins with the vehicle, when something is relevant to it.
LEMMA BeginKeeps ==
  ASSUME GroupInv, HandlerInv, NEW m \in Members, NEW relevant, Begin(m, relevant),
         UNCHANGED <<rows, engineVars, states, alerts, seen, announced>>,
         work' \in [Members -> Checks], stale' \subseteq Nat,
         \A n \in Members \ {m} : work'[n] = work[n],
         group = "alerting" /\ relevant # {} => CheckOf(work'[m], batch[m])
  PROVE  HandlerInv'
  <1> DEFINE s == IF relevant = {} THEN "resolve"
                  ELSE IF known[m] = NoMember THEN "register"
                  ELSE IF group = "engine" THEN "seed" ELSE "store"
  <1>1. /\ pc[m] = "handler" /\ pc' = [pc EXCEPT ![m] = s] /\ pc'[m] = s
        /\ UNCHANGED <<vehicle, known, group, log, batch, found>>
    BY DEF Begin, Resolve, GoTo, HandlerFrame, vehicleVars, engineVars, GroupInv, ConsumerTypeOK
  <1>2. HandlerTypeOK'
    BY <1>1 DEF HandlerInv, HandlerTypeOK, VehicleTypeOK, RowsTypeOK, EngineTypeOK, AlertTypeOK,
                engineVars
  <1>3. MemberInv(m)'
    <2>1. MemberInv(m)
      BY DEF HandlerInv
    <2>2. KnownOf(m)' /\ StepOf(m)' /\ FoundOf(m)'
      BY <1>1, <2>1 DEF MemberInv, KnownOf, StepOf, FoundOf
    <2>3. WorkOf(m)'
      BY <1>1 DEF WorkOf, CheckOf, Events
    <2> QED
      BY <2>2, <2>3 DEF MemberInv
  <1> QED
    BY <1>1, <1>2, <1>3, StepKeeps DEF Stays

\* So do the handlers that have no check to prepare.
LEMMA BeginWriterKeeps ==
  ASSUME GroupInv, HandlerInv, NEW m \in Members, NEW relevant, Begin(m, relevant),
         group # "alerting", UNCHANGED <<rows, engineVars, alertVars>>
  PROVE  HandlerInv'
  <1>1. work \in [Members -> Checks] /\ work' = work /\ stale' \subseteq Nat
    BY DEF HandlerInv, HandlerTypeOK, AlertTypeOK, alertVars
  <1> QED
    BY <1>1, BeginKeeps DEF alertVars

\* What a batch holds of messages.
LEMMA EventType ==
  ASSUME GroupInv, NEW m \in Members, InBatch(m), NEW i \in Events(batch[m])
  PROVE  /\ i \in Nat /\ i \in 1 .. Len(log[batch[m].topic])
         /\ i \in batch[m].first .. batch[m].last
         /\ Message(m, i) \in Readings /\ Message(m, i).ok
  <1>1. batch[m].topic \in Topics /\ batch[m].first \in Nat /\ batch[m].last \in Nat
    BY DEF GroupInv, ConsumerTypeOK
  <1>2. 1 <= batch[m].first /\ batch[m].last <= Len(log[batch[m].topic])
    BY DEF GroupInv, BatchesInv, BatchOf
  <1>3. i \in batch[m].first .. batch[m].last /\ Message(m, i).ok
    BY DEF Events, Message
  <1>4. i \in 1 .. Len(log[batch[m].topic])
    <2>1. Len(log[batch[m].topic]) \in Nat
      BY <1>1, ConsumerAssumption DEF GroupInv, ConsumerTypeOK, LogInv
    <2> QED
      BY <1>1, <1>2, <1>3, <2>1
  <1>5. Message(m, i) \in Readings
    BY <1>1, <1>4, MessageType DEF GroupInv, Message
  <1> QED
    BY <1>3, <1>4, <1>5

\* A row for a reading.
LEMMA RowType ==
  ASSUME NEW v \in Members, NEW e \in Readings, NEW key \in Keys
  PROVE  Row(v, e, key) \in [vehicle : Members, at : Nat, key : Keys] /\ Row(v, e, key).vehicle = v
  BY DEF Row, Readings

\* An insert into the reading table of the group.
LEMMA InsertKeeps ==
  ASSUME GroupInv, HandlerInv, NEW m \in Members, pc[m] = "store",
         NEW new, new \subseteq [vehicle : Members, at : Nat, key : Keys],
         \A r \in new : r.vehicle = vehicle,
         rows' = rows \cup new, GoTo(m, "resolve"), HandlerFrame,
         UNCHANGED <<vehicleVars, memory, alertVars>>,
         found' = found \/ found' = [found EXCEPT ![m] = {}]
  PROVE  HandlerInv'
  <1>1. /\ pc' = [pc EXCEPT ![m] = "resolve"] /\ pc'[m] = "resolve"
        /\ UNCHANGED <<vehicle, known, group, log, batch, work>>
        /\ \A n \in Members \ {m} : found'[n] = found[n]
        /\ found'[m] \subseteq found[m]
        /\ found' \in [Members -> SUBSET [vehicle : Members, at : Nat, key : Keys]]
    BY DEF GoTo, HandlerFrame, vehicleVars, alertVars, GroupInv, ConsumerTypeOK, HandlerInv,
           HandlerTypeOK, EngineTypeOK
  <1>2. HandlerTypeOK'
    BY <1>1 DEF HandlerInv, HandlerTypeOK, VehicleTypeOK, RowsTypeOK, EngineTypeOK, AlertTypeOK,
                alertVars
  <1>3. MemberInv(m)'
    <2>1. MemberInv(m)
      BY DEF HandlerInv
    <2>2. KnownOf(m)' /\ StepOf(m)' /\ FoundOf(m)' /\ WorkOf(m)'
      BY <1>1, <2>1 DEF MemberInv, KnownOf, StepOf, FoundOf, WorkOf
    <2> QED
      BY <2>2 DEF MemberInv
  <1> QED
    BY <1>1, <1>2, <1>3, StepKeeps DEF Stays

\* Whoever stores knows the vehicle.
LEMMA StoreKnows ==
  ASSUME HandlerInv, NEW m \in Members, pc[m] \in {"seed", "store", "write", "raise"}
  PROVE  known[m] \in Members /\ known[m] = vehicle
  BY DEF HandlerInv, HandlerTypeOK, VehicleTypeOK, MemberInv, StepOf, KnownOf

\* The positions of a batch are inserted.
LEMMA InsertLocationsKeeps ==
  ASSUME GroupInv, HandlerInv, NEW m \in Members, InsertLocations(m),
         UNCHANGED <<engineVars, alertVars>>
  PROVE  HandlerInv'
  <1> DEFINE new == {Row(known[m], Message(m, i), <<"position">>) : i \in Positioned(batch[m])}
  <1>1. pc[m] = "store" /\ InBatch(m) /\ <<"position">> \in Keys
    BY DEF InsertLocations, InBatch, Keys
  <1>2. /\ new \subseteq [vehicle : Members, at : Nat, key : Keys]
        /\ \A r \in new : r.vehicle = vehicle
    BY <1>1, StoreKnows, EventType, RowType DEF Positioned
  <1>3. rows' = rows \cup new /\ GoTo(m, "resolve") /\ HandlerFrame /\ UNCHANGED vehicleVars
    BY DEF InsertLocations
  <1> HIDE DEF new
  <1> QED
    BY <1>1, <1>2, <1>3, InsertKeeps DEF engineVars

\* The fuel levels of a batch are inserted.
LEMMA InsertFuelKeeps ==
  ASSUME GroupInv, HandlerInv, NEW m \in Members, InsertFuel(m),
         UNCHANGED <<engineVars, alertVars>>
  PROVE  HandlerInv'
  <1>1. pc[m] = "store" /\ InBatch(m)
    BY DEF InsertFuel, InBatch
  <1>2. ASSUME NEW r \in FuelRows(m)
        PROVE  r \in [vehicle : Members, at : Nat, key : Keys] /\ r.vehicle = vehicle
    <2>1. PICK i \in WithFuel(batch[m]) : \E f \in Message(m, i).fuel :
             r = Row(known[m], Message(m, i), <<f.source, "level">>)
      BY <1>2 DEF FuelRows
    <2>2. PICK f \in Message(m, i).fuel : r = Row(known[m], Message(m, i), <<f.source, "level">>)
      BY <2>1
    <2>3. Message(m, i) \in Readings
      BY <1>1, EventType DEF WithFuel
    <2>4. f.source \in Sources
      BY <2>3 DEF Readings, FuelReadings
    <2>5. <<f.source, "level">> \in Keys
      BY <2>4 DEF Keys
    <2> QED
      BY <1>1, <2>2, <2>3, <2>5, StoreKnows, RowType
  <1>3. rows' = rows \cup FuelRows(m) /\ GoTo(m, "resolve") /\ HandlerFrame /\ UNCHANGED vehicleVars
    BY DEF InsertFuel
  <1> QED
    BY <1>1, <1>2, <1>3, InsertKeeps DEF engineVars

\* The transitions found are inserted.
LEMMA InsertTransitionsKeeps ==
  ASSUME GroupInv, HandlerInv, NEW m \in Members, InsertTransitions(m), UNCHANGED alertVars
  PROVE  HandlerInv'
  <1>1. pc[m] = "store" /\ rows' = rows \cup found[m] /\ GoTo(m, "resolve") /\ HandlerFrame
        /\ UNCHANGED <<vehicleVars, memory>> /\ found' = [found EXCEPT ![m] = {}]
    BY DEF InsertTransitions
  <1>2. /\ found[m] \subseteq [vehicle : Members, at : Nat, key : Keys]
        /\ \A r \in found[m] : r.vehicle = vehicle
    BY DEF HandlerInv, HandlerTypeOK, EngineTypeOK, MemberInv, KnownOf
  <1> QED
    BY <1>1, <1>2, InsertKeeps

\* What the loop of the engine consumer has in mind is what the process
\* remembers, or what a live message of the batch says.
LEMMA StateFrom ==
  ASSUME GroupInv, HandlerInv, NEW m \in Members, InBatch(m), NEW i, NEW k \in Inputs
  PROVE  \/ StateAt(m, i)[k] = memory[m].state[k]
         \/ /\ batch[m].topic = "live"
            /\ \E j \in Events(batch[m]) : StateAt(m, i)[k] = Message(m, j).input[k]
  <1> DEFINE told == {j \in Relevant(batch[m]) : j < i /\ Message(m, j).input[k] # "none"}
  <1>1. StateAt(m, i)[k] = IF batch[m].topic = "live" /\ told # {}
                             THEN Message(m, Max(told)).input[k] ELSE memory[m].state[k]
    BY DEF StateAt
  <1>2. told # {} => Max(told) \in told
    <2>1. batch[m].topic \in Topics /\ Len(log[batch[m].topic]) \in Nat
      BY ConsumerAssumption DEF GroupInv, ConsumerTypeOK, LogInv
    <2>2. ASSUME NEW j \in told
          PROVE  j \in 0 .. Len(log[batch[m].topic])
      BY <2>1, EventType DEF Relevant
    <2>3. told \subseteq 0 .. Len(log[batch[m].topic])
      BY <2>2
    <2> HIDE DEF told
    <2> QED
      BY <2>1, <2>3, MaxIn
  <1>3. told \subseteq Events(batch[m])
    BY DEF Relevant
  <1> HIDE DEF told
  <1> QED
    BY <1>1, <1>2, <1>3

\* It is a state.
LEMMA StateType ==
  ASSUME GroupInv, HandlerInv, NEW m \in Members, InBatch(m), NEW i
  PROVE  StateAt(m, i) \in [Inputs -> Values]
  <1>1. ASSUME NEW k \in Inputs
        PROVE  StateAt(m, i)[k] \in Values
    <2>1. memory[m].state[k] \in Values
      BY DEF HandlerInv, HandlerTypeOK, EngineTypeOK
    <2>2. ASSUME NEW j \in Events(batch[m])
          PROVE  Message(m, j).input[k] \in Values
      BY EventType DEF Readings
    <2> QED
      BY <2>1, <2>2, StateFrom
  <1>2. StateAt(m, i) = [k \in Inputs |-> StateAt(m, i)[k]]
    BY DEF StateAt
  <1> QED
    BY <1>1, <1>2

\* A row the loop collects is one for the vehicle, and of a transition.
LEMMA ChangeType ==
  ASSUME GroupInv, HandlerInv, NEW m \in Members, pc[m] = "seed", NEW r \in Changes(m)
  PROVE  /\ r \in [vehicle : Members, at : Nat, key : Keys] /\ r.vehicle = vehicle
         /\ \E i \in Relevant(batch[m]) : \E k \in Inputs :
              /\ k \in TransitionsFor(Message(m, i), StateAt(m, i), batch[m].topic = "live")
              /\ r = Row(known[m], Message(m, i), <<k, Message(m, i).input[k]>>)
  <1>1. InBatch(m)
    BY DEF InBatch
  <1>2. PICK i \in Relevant(batch[m]) :
          \E k \in TransitionsFor(Message(m, i), StateAt(m, i), batch[m].topic = "live") :
            r = Row(known[m], Message(m, i), <<k, Message(m, i).input[k]>>)
    BY DEF Changes
  <1>3. PICK k \in TransitionsFor(Message(m, i), StateAt(m, i), batch[m].topic = "live") :
          r = Row(known[m], Message(m, i), <<k, Message(m, i).input[k]>>)
    BY <1>2
  <1>4. Message(m, i) \in Readings /\ k \in Inputs
    BY <1>1, EventType DEF Relevant, TransitionsFor
  <1>5. <<k, Message(m, i).input[k]>> \in Keys
    BY <1>4 DEF Keys, Readings
  <1> QED
    BY <1>3, <1>4, <1>5, StoreKnows, RowType

\* Seeding concerns the memory alone.
LEMMA SeedKeeps ==
  ASSUME GroupInv, HandlerInv, NEW m \in Members, Seed(m), UNCHANGED alertVars
  PROVE  HandlerInv'
  <1>1. /\ pc[m] = "seed" /\ pc' = [pc EXCEPT ![m] = "seed"]
        /\ UNCHANGED <<vehicle, known, group, log, batch, rows, found, work>>
    BY DEF Seed, HandlerFrame, vehicleVars, alertVars, GroupInv, ConsumerTypeOK
  <1>2. memory' \in [Members -> [loaded : BOOLEAN, state : [Inputs -> Values]]]
    BY DEF Seed, HandlerInv, HandlerTypeOK, EngineTypeOK
  <1>3. HandlerTypeOK'
    BY <1>1, <1>2 DEF HandlerInv, HandlerTypeOK, VehicleTypeOK, RowsTypeOK, EngineTypeOK, AlertTypeOK,
                      alertVars
  <1>4. MemberInv(m)'
    <2>1. MemberInv(m) /\ UNCHANGED pc
      BY DEF HandlerInv, Seed
    <2>2. KnownOf(m)' /\ StepOf(m)' /\ FoundOf(m)' /\ WorkOf(m)'
      BY <1>1, <2>1 DEF MemberInv, KnownOf, StepOf, FoundOf, WorkOf
    <2> QED
      BY <2>2 DEF MemberInv
  <1> QED
    BY <1>1, <1>3, <1>4, StepKeeps DEF Stays

\* The loop finds the transitions the device reported, and maybe others.
LEMMA ScanKeeps ==
  ASSUME GroupInv, HandlerInv, NEW m \in Members, Scan(m), UNCHANGED alertVars
  PROVE  HandlerInv'
  <1> DEFINE s == IF Changes(m) = {} THEN "resolve" ELSE "store"
  <1>1. /\ pc[m] = "seed" /\ InBatch(m) /\ pc' = [pc EXCEPT ![m] = s] /\ pc'[m] = s
        /\ UNCHANGED <<vehicle, known, group, log, batch, rows, work>>
        /\ memory' = [memory EXCEPT ![m].state = StateAt(m, batch[m].last + 1)]
        /\ found' = [found EXCEPT ![m] = Changes(m)] /\ found'[m] = Changes(m)
        /\ \A n \in Members \ {m} : found'[n] = found[n]
    BY DEF Scan, GoTo, InBatch, HandlerFrame, vehicleVars, alertVars, GroupInv, ConsumerTypeOK,
           HandlerInv, HandlerTypeOK, EngineTypeOK
  <1>2. memory' \in [Members -> [loaded : BOOLEAN, state : [Inputs -> Values]]]
    BY <1>1, StateType DEF HandlerInv, HandlerTypeOK, EngineTypeOK
  <1>3. /\ Changes(m) \subseteq [vehicle : Members, at : Nat, key : Keys]
        /\ \A r \in Changes(m) : r.vehicle = vehicle
    BY <1>1, ChangeType
  <1>4. HandlerTypeOK'
    <2>1. EngineTypeOK'
      BY <1>1, <1>2, <1>3 DEF HandlerInv, HandlerTypeOK, EngineTypeOK
    <2> QED
      BY <1>1, <2>1 DEF HandlerInv, HandlerTypeOK, VehicleTypeOK, RowsTypeOK, AlertTypeOK, alertVars
  <1>5. MemberInv(m)'
    <2>1. MemberInv(m) /\ group = "engine" /\ known[m] = vehicle
      BY <1>1, StoreKnows DEF HandlerInv, MemberInv, StepOf
    <2>2. KnownOf(m)' /\ StepOf(m)' /\ WorkOf(m)'
      BY <1>1, <1>3, <2>1 DEF MemberInv, KnownOf, StepOf, WorkOf
    <2>3. ASSUME NEW i \in Events(batch[m]), NEW k \in Inputs,
                 Message(m, i).cause = k, Message(m, i).input[k] # "none"
          PROVE  Row(known[m], Message(m, i), <<k, Message(m, i).input[k]>>) \in Changes(m)
      <3>1. i \in Relevant(batch[m])
        BY <2>3 DEF Relevant, Message
      <3>2. k \in TransitionsFor(Message(m, i), StateAt(m, i), batch[m].topic = "live")
        BY <2>3 DEF TransitionsFor
      <3> QED
        BY <3>1, <3>2 DEF Changes
    <2>4. \A i \in Events(batch[m]), k \in Inputs : FoundAt(m, i, k)'
      BY <1>1, <2>1, <2>3 DEF FoundAt, Message
    <2>5. FoundOf(m)'
      BY <1>1, <2>4 DEF FoundOf, Events
    <2> QED
      BY <2>2, <2>5 DEF MemberInv
  <1> QED
    BY <1>1, <1>4, <1>5, StepKeeps DEF Stays

\* The first check of some places is of the least of them, if there are any.
LEMMA FirstCheckIn ==
  ASSUME NEW S, S \subseteq Nat
  PROVE  /\ FirstCheck(S) \in Checks
         /\ S = {} => FirstCheck(S) = NoCheck
         /\ S # {} => /\ FirstCheck(S).place \in S /\ FirstCheck(S).type = 1
                      /\ FirstCheck(S).rest = S \ {FirstCheck(S).place}
                      /\ \A i \in FirstCheck(S).rest : FirstCheck(S).place < i
  <1>1. S # {} => Min(S) \in S /\ \A i \in S : Min(S) <= i
    BY MinIn
  <1>2. 1 \in DOMAIN AlertTypes
    BY DEF AlertTypes
  <1>3. CASE S = {}
    BY <1>2, <1>3 DEF FirstCheck, NoCheck, Checks
  <1>4. CASE S # {}
    <2>1. PICK k : k = Min(S)
      OBVIOUS
    <2>2. FirstCheck(S) = [place |-> k, type |-> 1, rest |-> S \ {k}]
      BY <1>4, <2>1 DEF FirstCheck
    <2>3. k \in S /\ \A i \in S : i \in Nat /\ k <= i
      BY <1>1, <1>4, <2>1
    <2>4. \A i \in S \ {k} : k < i
      BY <2>3
    <2>5. /\ FirstCheck(S).place = k /\ FirstCheck(S).type = 1 /\ FirstCheck(S).rest = S \ {k}
          /\ FirstCheck(S) \in Checks
      BY <1>2, <2>2, <2>3 DEF Checks
    <2> QED
      BY <1>4, <2>3, <2>4, <2>5
  <1> QED
    BY <1>3, <1>4

\* The events of a batch are readings with times within the bound.
LEMMA EventTimes ==
  ASSUME GroupInv, NEW m \in Members, InBatch(m)
  PROVE  /\ Events(batch[m]) \subseteq Nat
         /\ \A i \in Events(batch[m]) : Message(m, i).at \in 1 .. MaxTime
  <1>1. \A i \in Events(batch[m]) : i \in Nat /\ i \in 1 .. Len(log[batch[m].topic])
    BY EventType
  <1>2. /\ batch[m].topic \in Topics /\ group \in Groups /\ log \in Logs[group]
        /\ log[batch[m].topic] \in Seq(Readings)
    BY ConsumerAssumption DEF GroupInv, ConsumerTypeOK, LogInv
  <1>3. \A i \in Events(batch[m]) : Message(m, i).at \in 1 .. MaxTime
    BY <1>1, <1>2, AlertAssumption DEF Message
  <1> QED
    BY <1>1, <1>3

\* The first check of readings of a batch.
LEMMA FirstCheckOf ==
  ASSUME GroupInv, NEW m \in Members, InBatch(m), NEW S, S \subseteq Events(batch[m]), S # {}
  PROVE  CheckOf(FirstCheck(S), batch[m])
  BY EventTimes, FirstCheckIn DEF CheckOf

\* The readings a call begins with, and those it leaves out.
Begins(m, fresh) ==
  /\ fresh \subseteq Events(batch[m])
  /\ Begin(m, fresh)
  /\ work' = [work EXCEPT ![m] = FirstCheck(fresh)]
  /\ stale' = stale \cup (Events(batch[m]) \ fresh)
  /\ UNCHANGED <<rows, engineVars, states, alerts, seen, announced>>

\* A call of the alerting handler leaves out whatever its cutoff says.
LEMMA AlertingBegins ==
  ASSUME NEW m \in Members, BeginAlerting(m)
  PROVE  group = "alerting" /\ \E fresh : Begins(m, fresh)
  BY DEF BeginAlerting, Begins, Fresh

\* The alerting consumer begins with its first check.
LEMMA BeginAlertingKeeps ==
  ASSUME GroupInv, HandlerInv, NEW m \in Members, BeginAlerting(m)
  PROVE  HandlerInv'
  <1>1. PICK fresh : Begins(m, fresh)
    BY AlertingBegins
  <1>2. pc[m] = "handler" /\ InBatch(m)
    BY <1>1 DEF Begins, Begin, InBatch
  <1>3. /\ work' \in [Members -> Checks]
        /\ \A n \in Members \ {m} : work'[n] = work[n]
        /\ fresh # {} => CheckOf(work'[m], batch[m])
    BY <1>1, <1>2, EventTimes, FirstCheckIn, FirstCheckOf DEF Begins, HandlerInv, HandlerTypeOK,
       AlertTypeOK
  <1>4. stale' \subseteq Nat
    BY <1>1, <1>2, EventTimes DEF Begins, HandlerInv, HandlerTypeOK, AlertTypeOK
  <1> QED
    BY <1>1, <1>3, <1>4, BeginKeeps DEF Begins

\* A check of the alerting consumer.
Checking(m) == group = "alerting" /\ pc[m] \in {"store", "write", "raise"}

\* The check at hand is of a reading of the batch, and so is the next one.
LEMMA CheckType ==
  ASSUME GroupInv, HandlerInv, NEW m \in Members, Checking(m)
  PROVE  /\ InBatch(m) /\ CheckOf(work[m], batch[m]) /\ work[m] \in Checks
         /\ Reading(m).at \in 1 .. MaxTime /\ Condition(m) \in Conditions
         /\ work[m].place \in Nat /\ work[m].type \in 1 .. 3
         /\ CheckAfter(m) \in Checks
         /\ CheckAfter(m) = NoCheck \/ CheckOf(CheckAfter(m), batch[m])
  <1>1. InBatch(m) /\ CheckOf(work[m], batch[m])
    BY DEF Checking, InBatch, HandlerInv, MemberInv, WorkOf
  <1>2. /\ work[m] \in Checks /\ DOMAIN AlertTypes = 1 .. 3 /\ Len(AlertTypes) = 3
        /\ work[m].place \in Nat /\ work[m].type \in 1 .. 3
    BY DEF HandlerInv, HandlerTypeOK, AlertTypeOK, AlertTypes, Checks
  <1>3. Condition(m) \in Conditions
    BY <1>2 DEF Condition, Conditions, ToSet
  <1>4. Reading(m).at \in 1 .. MaxTime
    BY <1>1, EventTimes DEF Reading, CheckOf
  <1>5. CASE work[m].type < Len(AlertTypes)
    <2>1. CheckAfter(m) = [work[m] EXCEPT !.type = @ + 1]
      BY <1>5 DEF CheckAfter
    <2>2. CheckAfter(m) \in Checks
      BY <1>2, <1>5, <2>1 DEF Checks
    <2>3. CheckAfter(m).place = work[m].place /\ CheckAfter(m).rest = work[m].rest
      BY <1>2, <2>1 DEF Checks
    <2> QED
      BY <1>1, <1>2, <1>3, <1>4, <2>2, <2>3 DEF CheckOf
  <1>6. CASE ~ (work[m].type < Len(AlertTypes))
    <2>1. CheckAfter(m) = FirstCheck(work[m].rest)
      BY <1>6 DEF CheckAfter
    <2>2. work[m].rest \subseteq Nat /\ work[m].rest \subseteq Events(batch[m])
      BY <1>1, EventTimes DEF CheckOf
    <2> QED
      BY <1>1, <1>2, <1>3, <1>4, <2>1, <2>2, FirstCheckIn, FirstCheckOf
  <1> QED
    BY <1>5, <1>6

\* A step of a check moves on to another, or to a next step of its own.
LEMMA CheckKeeps ==
  ASSUME GroupInv, HandlerInv, NEW m \in Members, Checking(m), AlertFrame,
         AlertTypeOK',
         NEW s \in {"store", "write", "raise", "resolve"}, pc' = [pc EXCEPT ![m] = s],
         \A n \in Members \ {m} : work'[n] = work[n],
         s # "resolve" => CheckOf(work'[m], batch[m])
  PROVE  HandlerInv'
  <1>1. /\ pc'[m] = s
        /\ UNCHANGED <<vehicle, known, group, log, batch, rows, found, memory>>
    BY DEF AlertFrame, HandlerFrame, vehicleVars, engineVars, GroupInv, ConsumerTypeOK
  <1>2. HandlerTypeOK'
    BY <1>1 DEF HandlerInv, HandlerTypeOK, VehicleTypeOK, RowsTypeOK, EngineTypeOK
  <1>3. MemberInv(m)'
    <2>1. MemberInv(m)
      BY DEF HandlerInv
    <2>2. KnownOf(m)' /\ StepOf(m)' /\ FoundOf(m)'
      BY <1>1, <2>1 DEF Checking, MemberInv, KnownOf, StepOf, FoundOf
    <2>3. WorkOf(m)'
      BY <1>1 DEF WorkOf, CheckOf, Events
    <2> QED
      BY <2>2, <2>3 DEF MemberInv
  <1> QED
    BY <1>1, <1>2, <1>3, StepKeeps DEF Stays

\* Going on to the next check.
LEMMA NextCheckMoves ==
  ASSUME GroupInv, HandlerInv, NEW m \in Members, Checking(m), NextCheck(m)
  PROVE  /\ seen' \in [Members -> States]
         /\ work' \in [Members -> Checks]
         /\ \A n \in Members \ {m} : work'[n] = work[n]
         /\ \E s \in {"store", "resolve"} :
              /\ pc' = [pc EXCEPT ![m] = s]
              /\ s # "resolve" => CheckOf(work'[m], batch[m])
  <1>1. /\ work' = [work EXCEPT ![m] = CheckAfter(m)]
        /\ seen' = [seen EXCEPT ![m] = NoState]
        /\ pc' = [pc EXCEPT ![m] = IF CheckAfter(m) = NoCheck THEN "resolve" ELSE "store"]
    BY DEF NextCheck, GoTo
  <1>2. NoState \in States
    BY AlertAssumption DEF NoState, States, NeverFired
  <1>3. /\ seen' \in [Members -> States]
        /\ work' \in [Members -> Checks]
        /\ \A n \in Members \ {m} : work'[n] = work[n]
        /\ work'[m] = CheckAfter(m)
    BY <1>1, <1>2, CheckType DEF HandlerInv, HandlerTypeOK, AlertTypeOK
  <1>4. CheckAfter(m) # NoCheck => CheckOf(work'[m], batch[m])
    BY <1>3, CheckType
  <1> QED
    BY <1>1, <1>3, <1>4

\* The state of a condition is read.
LEMMA ReadStateKeeps ==
  ASSUME GroupInv, HandlerInv, NEW m \in Members, ReadState(m)
  PROVE  HandlerInv'
  <1>1. Checking(m) /\ AlertFrame /\ UNCHANGED <<states, alerts, announced>>
    BY DEF ReadState, Checking
  <1>2. /\ states[Condition(m)] \in States
        /\ states \in [Conditions -> States] /\ alerts \in [Conditions \X (1 .. MaxTime) -> Nat]
        /\ seen \in [Members -> States]
        /\ work \in [Members -> Checks]
        /\ stale' \subseteq Nat /\ announced' \subseteq Conditions \X Nat
    BY <1>1, CheckType DEF HandlerInv, HandlerTypeOK, AlertTypeOK, AlertFrame
  <1>3. CASE Holding(m) \/ states[Condition(m)].active
    <2>1. /\ seen' = [seen EXCEPT ![m] = states[Condition(m)]]
          /\ pc' = [pc EXCEPT ![m] = "write"] /\ work' = work
      BY <1>3 DEF ReadState, GoTo
    <2>2. AlertTypeOK'
      BY <1>1, <1>2, <2>1 DEF AlertTypeOK
    <2> QED
      BY <1>1, <2>1, <2>2, CheckType, CheckKeeps
  <1>4. CASE ~ (Holding(m) \/ states[Condition(m)].active)
    <2>1. NextCheck(m)
      BY <1>4 DEF ReadState
    <2>2. PICK s \in {"store", "resolve"} :
            /\ pc' = [pc EXCEPT ![m] = s]
            /\ s # "resolve" => CheckOf(work'[m], batch[m])
      BY <1>1, <2>1, NextCheckMoves
    <2>3. AlertTypeOK' /\ \A n \in Members \ {m} : work'[n] = work[n]
      BY <1>1, <1>2, <2>1, NextCheckMoves DEF AlertTypeOK
    <2> QED
      BY <1>1, <2>2, <2>3, CheckKeeps
  <1> QED
    BY <1>3, <1>4

\* A state takes the place of another.
LEMMA StateChanges ==
  ASSUME HandlerInv, NEW c \in Conditions, NEW st \in States, states' = [states EXCEPT ![c] = st]
  PROVE  states' \in [Conditions -> States]
  BY DEF HandlerInv, HandlerTypeOK, AlertTypeOK

\* A condition that held no longer does.
LEMMA ClearStateKeeps ==
  ASSUME GroupInv, HandlerInv, NEW m \in Members, ClearState(m)
  PROVE  HandlerInv'
  <1>1. Checking(m) /\ AlertFrame /\ UNCHANGED <<alerts, announced>> /\ NextCheck(m)
    BY DEF ClearState, Checking, HandlerInv, MemberInv, StepOf
  <1>2. states' \in [Conditions -> States]
    BY DEF ClearState, HandlerInv, HandlerTypeOK, AlertTypeOK, States
  <1>3. PICK s \in {"store", "resolve"} :
          /\ pc' = [pc EXCEPT ![m] = s]
          /\ s # "resolve" => CheckOf(work'[m], batch[m])
    BY <1>1, NextCheckMoves
  <1>4. AlertTypeOK' /\ \A n \in Members \ {m} : work'[n] = work[n]
    BY <1>1, <1>2, NextCheckMoves DEF AlertTypeOK, AlertFrame, HandlerInv, HandlerTypeOK
  <1> QED
    BY <1>1, <1>3, <1>4, CheckKeeps

\* A condition holds.
LEMMA HoldStateKeeps ==
  ASSUME GroupInv, HandlerInv, NEW m \in Members, HoldState(m)
  PROVE  HandlerInv'
  <1>1. Checking(m) /\ AlertFrame /\ UNCHANGED alerts
    BY DEF HoldState, Checking, HandlerInv, MemberInv, StepOf
  <1>2. states' \in [Conditions -> States]
    <2> DEFINE st == [active |-> TRUE,
                      fired |-> IF Fires(m) THEN Reading(m).at ELSE states[Condition(m)].fired]
    <2>1. Condition(m) \in Conditions /\ Reading(m).at \in 0 .. MaxTime
      BY <1>1, CheckType, AlertAssumption
    <2>2. st \in States
      BY <2>1 DEF States, HandlerInv, HandlerTypeOK, AlertTypeOK
    <2>3. states' = [states EXCEPT ![Condition(m)] = st]
      BY DEF HoldState
    <2> HIDE DEF st
    <2> QED
      BY <2>1, <2>2, <2>3, StateChanges
  <1>3. CASE Fires(m)
    <2>1. /\ pc' = [pc EXCEPT ![m] = "raise"] /\ UNCHANGED <<seen, work>>
          /\ announced' = announced \cup {<<Condition(m), work[m].place>>}
      BY <1>3 DEF HoldState, GoTo
    <2>2. announced' \subseteq Conditions \X Nat
      BY <1>1, <2>1, CheckType DEF AlertTypeOK, HandlerInv, HandlerTypeOK
    <2>3. AlertTypeOK'
      BY <1>1, <1>2, <2>1, <2>2 DEF AlertTypeOK, AlertFrame, HandlerInv, HandlerTypeOK
    <2> QED
      BY <1>1, <2>1, <2>3, CheckType, CheckKeeps
  <1>4. CASE ~ Fires(m)
    <2>1. NextCheck(m) /\ UNCHANGED announced
      BY <1>4 DEF HoldState
    <2>2. PICK s \in {"store", "resolve"} :
            /\ pc' = [pc EXCEPT ![m] = s]
            /\ s # "resolve" => CheckOf(work'[m], batch[m])
      BY <1>1, <2>1, NextCheckMoves
    <2>3. AlertTypeOK' /\ \A n \in Members \ {m} : work'[n] = work[n]
      BY <1>1, <1>2, <2>1, NextCheckMoves DEF AlertTypeOK, AlertFrame, HandlerInv, HandlerTypeOK
    <2> QED
      BY <1>1, <2>2, <2>3, CheckKeeps
  <1> QED
    BY <1>3, <1>4

\* An alert is raised.
LEMMA RaiseKeeps ==
  ASSUME GroupInv, HandlerInv, NEW m \in Members, Raise(m)
  PROVE  HandlerInv'
  <1>1. Checking(m) /\ AlertFrame /\ UNCHANGED <<states, announced>> /\ NextCheck(m)
    BY DEF Raise, Checking, HandlerInv, MemberInv, StepOf
  <1>2. alerts' \in [Conditions \X (1 .. MaxTime) -> Nat]
    <2> DEFINE x == <<Condition(m), Reading(m).at>>
    <2>1. x \in Conditions \X (1 .. MaxTime)
      BY <1>1, CheckType
    <2>2. alerts \in [Conditions \X (1 .. MaxTime) -> Nat]
      BY DEF HandlerInv, HandlerTypeOK, AlertTypeOK
    <2>3. alerts' = [alerts EXCEPT ![x] = alerts[x] + 1]
      BY DEF Raise
    <2> HIDE DEF x
    <2>4. alerts[x] + 1 \in Nat
      BY <2>1, <2>2
    <2> QED
      BY <2>1, <2>2, <2>3, <2>4
  <1>3. PICK s \in {"store", "resolve"} :
          /\ pc' = [pc EXCEPT ![m] = s]
          /\ s # "resolve" => CheckOf(work'[m], batch[m])
    BY <1>1, NextCheckMoves
  <1>4. AlertTypeOK' /\ \A n \in Members \ {m} : work'[n] = work[n]
    BY <1>1, <1>2, NextCheckMoves DEF AlertTypeOK, AlertFrame, HandlerInv, HandlerTypeOK
  <1> QED
    BY <1>1, <1>3, <1>4, CheckKeeps

\* Which of the system's steps are quiet.
LEMMA GroupIsQuiet ==
  ASSUME GroupInv, HandlerInv, UNCHANGED handlerVars,
         Rebalance \/ (\E m \in Members : GroupStep(m)) \/ UNCHANGED consumerVars
  PROVE  Quiet
  <1>1. /\ UNCHANGED <<vehicle, rows, states, alerts, known, memory, found, seen, work, stale,
                      announced>>
        /\ HandlerTypeOK
    BY DEF handlerVars, vehicleVars, engineVars, alertVars, HandlerInv
  <1>2. /\ UNCHANGED <<group, log>>
        /\ \A n \in Members : pc'[n] \in Busy => pc'[n] = pc[n] /\ batch'[n] = batch[n]
    <2>1. CASE Rebalance \/ UNCHANGED consumerVars
      BY <2>1 DEF Rebalance, consumerVars
    <2>2. ASSUME NEW m \in Members,
                 Join(m) \/ Evict(m) \/ Stop(m) \/ ReturnEarly(m) \/ Commit(m) \/ CommitFails(m)
          PROVE  /\ UNCHANGED <<group, log>>
                 /\ \A n \in Members : pc'[n] \in Busy => pc'[n] = pc[n] /\ batch'[n] = batch[n]
      BY <2>2 DEF Join, Evict, Stop, ReturnEarly, Commit, CommitFails, GiveBack, Busy, GroupInv,
                  ConsumerTypeOK
    <2>3. ASSUME NEW m \in Members, NEW b, Decode(m, b), UNCHANGED <<group, log>>
          PROVE  /\ UNCHANGED <<group, log>>
                 /\ \A n \in Members : pc'[n] \in Busy => pc'[n] = pc[n] /\ batch'[n] = batch[n]
      BY <2>3 DEF Decode, Busy, GroupInv, ConsumerTypeOK
    <2> QED
      BY <2>1, <2>2, <2>3 DEF GroupStep, Fetch, DeadLetter
  <1> QED
    BY <1>1, <1>2 DEF Quiet, HandlerTypeOK, VehicleTypeOK, EngineTypeOK, AlertTypeOK

\* What a failure loses is only in hand.
LEMMA LossIsQuiet ==
  ASSUME GroupInv, HandlerInv, NEW m \in Members,
         \/ HandlerFails(m) /\ DropWork(m)
         \/ (Leave(m) \/ Kill(m)) /\ Forget(m)
         \/ InsertRefused(m) /\ UNCHANGED <<engineVars, alertVars>>
  PROVE  Quiet
  <1>1. UNCHANGED <<vehicle, rows, states, alerts, stale, announced, group, log>>
    BY DEF HandlerFails, DropWork, Leave, Kill, Gone, GiveBack, Forget, InsertRefused, vehicleVars,
           alertVars
  <1>2. NoMemory \in [loaded : BOOLEAN, state : [Inputs -> Values]] /\ NoState \in States
        /\ NoCheck \in Checks
    BY AlertAssumption DEF NoMemory, Unknown, Values, NoState, States, NeverFired, NoCheck, Checks, AlertTypes
  <1>3. /\ known' \in [Members -> Members \cup {NoMember}]
        /\ memory' \in [Members -> [loaded : BOOLEAN, state : [Inputs -> Values]]]
        /\ found' \in [Members -> SUBSET [vehicle : Members, at : Nat, key : Keys]]
        /\ seen' \in [Members -> States]
        /\ work' \in [Members -> Checks]
    <2>1. /\ known \in [Members -> Members \cup {NoMember}]
          /\ memory \in [Members -> [loaded : BOOLEAN, state : [Inputs -> Values]]]
          /\ found \in [Members -> SUBSET [vehicle : Members, at : Nat, key : Keys]]
          /\ seen \in [Members -> States]
          /\ work \in [Members -> Checks]
      BY DEF HandlerInv, HandlerTypeOK, VehicleTypeOK, EngineTypeOK, AlertTypeOK
    <2>2. /\ known' \in {known, [known EXCEPT ![m] = NoMember]}
          /\ memory' \in {memory, [memory EXCEPT ![m] = NoMemory]}
          /\ found' \in {found, [found EXCEPT ![m] = {}]}
          /\ seen' \in {seen, [seen EXCEPT ![m] = NoState]}
          /\ work' \in {work, [work EXCEPT ![m] = NoCheck]}
      BY DEF DropWork, Forget, ForgetVehicle, InsertRefused, vehicleVars, engineVars, alertVars
    <2>3. memory' \in [Members -> [loaded : BOOLEAN, state : [Inputs -> Values]]]
      BY <1>2, <2>1, <2>2
    <2>4. found' \in [Members -> SUBSET [vehicle : Members, at : Nat, key : Keys]]
      BY <2>1, <2>2
    <2>5. work' \in [Members -> Checks]
      BY <1>2, <2>1, <2>2
    <2>6. known' \in [Members -> Members \cup {NoMember}]
      BY <2>1, <2>2
    <2>7. seen' \in [Members -> States]
      BY <1>2, <2>1, <2>2
    <2> QED
      BY <2>3, <2>4, <2>5, <2>6, <2>7
  <1>4. ASSUME NEW n \in Members
        PROVE  /\ known'[n] \in {known[n], NoMember} /\ found'[n] \subseteq found[n]
               /\ n # m => /\ pc'[n] = pc[n] /\ batch'[n] = batch[n] /\ seen'[n] = seen[n]
                           /\ known'[n] = known[n] /\ found'[n] = found[n] /\ work'[n] = work[n]
               /\ n = m => pc'[n] \notin Busy
    BY SMTT(30) DEF HandlerFails, DropWork, Leave, Kill, Gone, GiveBack, Forget, ForgetVehicle, InsertRefused,
           vehicleVars, engineVars, alertVars, Busy, GroupInv, ConsumerTypeOK, HandlerInv, HandlerTypeOK,
           VehicleTypeOK, EngineTypeOK, AlertTypeOK
  <1> QED
    BY <1>1, <1>3, <1>4 DEF Quiet

\* The invariant of the handlers holds at each step.
LEMMA HandlerInvKept ==
  ASSUME GroupInv, HandlerInv, [TelemetryNext]_telemetryVars
  PROVE  HandlerInv'
  <1>1. CASE UNCHANGED telemetryVars
    BY <1>1, GroupIsQuiet, QuietKeeps DEF telemetryVars
  <1>2. CASE Rebalance /\ UNCHANGED handlerVars
    BY <1>2, GroupIsQuiet, QuietKeeps
  <1>3. ASSUME NEW m \in Members, GroupStep(m) /\ UNCHANGED handlerVars
        PROVE  HandlerInv'
    BY <1>3, GroupIsQuiet, QuietKeeps
  <1>4. ASSUME NEW m \in Members,
               (HandlerFails(m) /\ DropWork(m)) \/ ((Leave(m) \/ Kill(m)) /\ Forget(m))
        PROVE  HandlerInv'
    BY <1>4, LossIsQuiet, QuietKeeps
  <1>5. ASSUME NEW m \in Members, Register(m) \/ Lookup(m), UNCHANGED <<rows, engineVars, alertVars>>
        PROVE  HandlerInv'
    BY <1>5, RegisterKeeps, LookupKeeps
  <1>6. ASSUME NEW m \in Members, WriterStep(m), UNCHANGED <<engineVars, alertVars>>
        PROVE  HandlerInv'
    <2>1. CASE InsertLocations(m) \/ InsertFuel(m)
      BY <1>6, <2>1, InsertLocationsKeeps, InsertFuelKeeps
    <2>2. CASE InsertRefused(m)
      BY <1>6, <2>2, LossIsQuiet, QuietKeeps
    <2>3. CASE BeginLocations(m) \/ BeginFuel(m)
      BY <1>6, <2>3, BeginWriterKeeps DEF BeginLocations, BeginFuel
    <2> QED
      BY <1>6, <2>1, <2>2, <2>3 DEF WriterStep
  <1>7. ASSUME NEW m \in Members, EngineStep(m), UNCHANGED alertVars
        PROVE  HandlerInv'
    <2>1. CASE BeginEngine(m)
      BY <1>7, <2>1, BeginWriterKeeps DEF BeginEngine
    <2> QED
      BY <1>7, <2>1, SeedKeeps, ScanKeeps, InsertTransitionsKeeps DEF EngineStep
  <1>8. ASSUME NEW m \in Members, AlertStep(m)
        PROVE  HandlerInv'
    BY <1>8, BeginAlertingKeeps, ReadStateKeeps, ClearStateKeeps, HoldStateKeeps, RaiseKeeps
       DEF AlertStep
  <1> QED
    BY <1>1, <1>2, <1>3, <1>4, <1>5, <1>6, <1>7, <1>8 DEF TelemetryNext, HandlerStep

-----------------------------------------------------------------------------
(* What is stored stays stored, and what is resolved is stored.            *)

TablesGrow ==
  /\ UNCHANGED <<group, log>>
  /\ rows \subseteq rows' /\ dead \subseteq dead' /\ cutShort \subseteq cutShort'
  /\ stale \subseteq stale' /\ announced \subseteq announced'
  /\ vehicle' = vehicle \/ vehicle = NoMember

\* No row, dead letter or vehicle is ever taken back, and no history.
LEMMA TablesOnlyGrow ==
  ASSUME GroupInv, HandlerInv, [TelemetryNext]_telemetryVars
  PROVE  TablesGrow
  <1>1. ASSUME Quiet
        PROVE  UNCHANGED <<group, log, rows, vehicle>>
    BY <1>1 DEF Quiet
  <1>2. UNCHANGED <<group, log>> /\ dead \subseteq dead' /\ cutShort \subseteq cutShort'
    <2>1. ASSUME NEW m \in Members, MemberMoves(m)
          PROVE  UNCHANGED <<group, log>> /\ dead \subseteq dead' /\ cutShort \subseteq cutShort'
      BY <2>1 DEF MemberMoves, Join, Evict, Stop, Fetch, DeadLetter, ReturnEarly, Commit, GivesBack,
                  GiveBack, Ends, Gone, Moves, HandlerFrame
    <2> QED
      BY <2>1, GroupSteps DEF GroupInv, Rebalance, consumerVars
  <1>3. CASE UNCHANGED handlerVars
    BY <1>2, <1>3 DEF TablesGrow, handlerVars, vehicleVars, alertVars
  <1>4. ASSUME NEW m \in Members,
               (HandlerFails(m) /\ DropWork(m)) \/ ((Leave(m) \/ Kill(m)) /\ Forget(m))
        PROVE  TablesGrow
    BY <1>2, <1>4 DEF TablesGrow, DropWork, Forget, vehicleVars
  <1>5. ASSUME NEW m \in Members, Register(m) \/ Lookup(m), UNCHANGED <<rows, engineVars, alertVars>>
        PROVE  TablesGrow
    BY <1>2, <1>5 DEF TablesGrow, Register, Lookup, alertVars
  <1>6. ASSUME NEW m \in Members, HandlerStep(m)
        PROVE  TablesGrow
    <2>1. rows \subseteq rows' /\ (vehicle' = vehicle \/ vehicle = NoMember)
      BY <1>6 DEF HandlerStep, WriterStep, BeginLocations, InsertLocations, BeginFuel,
         InsertFuel, InsertRefused, EngineStep, BeginEngine, Seed, Scan, InsertTransitions, AlertStep,
         BeginAlerting, ReadState, ClearState, HoldState, Raise, Begin, AlertFrame, vehicleVars
    <2>2. stale \subseteq stale' /\ announced \subseteq announced'
      BY <1>6 DEF HandlerStep, AlertStep, BeginAlerting, ReadState, ClearState, HoldState, Raise,
         AlertFrame, alertVars
    <2> QED
      BY <1>2, <2>1, <2>2 DEF TablesGrow
  <1> QED
    BY <1>3, <1>4, <1>5, <1>6 DEF TelemetryNext, telemetryVars

\* What a message has left behind stays.
LEMMA EffectLasts ==
  ASSUME GroupInv, HandlerInv, TablesGrow, NEW t, NEW i, Settled(t, i)
  PROVE  Settled(t, i)'
  <1>1. CASE <<t, i>> \in cutShort
    BY <1>1 DEF TablesGrow, Settled
  <1>2. CASE HasEffect(t, i)
    <2> DEFINE e == log[t][i]
    <2>1. ASSUME NEW r \in rows, r.vehicle = vehicle
          PROVE  r \in rows' /\ vehicle' = vehicle
      <3>1. vehicle # NoMember
        BY <2>1, ConsumerAssumption DEF HandlerInv, HandlerTypeOK, RowsTypeOK
      <3> QED
        BY <2>1, <3>1 DEF TablesGrow
    <2>2. ASSUME NEW key, Row(vehicle, e, key) \in rows
          PROVE  Row(vehicle', e, key) \in rows'
      <3>1. Row(vehicle, e, key).vehicle = vehicle
        BY DEF Row
      <3> QED
        BY <2>1, <2>2, <3>1
    <2>3. UNCHANGED <<group, log>> /\ dead \subseteq dead' /\ group \in Groups
      BY DEF TablesGrow, GroupInv, ConsumerTypeOK
    <2>4. CASE ~ e.ok
      BY <1>2, <2>3, <2>4 DEF HasEffect, Settled
    <2>5. CASE e.ok /\ group = "locations"
      BY <1>2, <2>2, <2>3, <2>5 DEF HasEffect, Settled
    <2>6. CASE e.ok /\ group = "fuel"
      BY <1>2, <2>2, <2>3, <2>6 DEF HasEffect, Settled
    <2>7. CASE e.ok /\ group = "engine"
      BY <1>2, <2>2, <2>3, <2>7 DEF HasEffect, Settled
    <2>8. CASE e.ok /\ group = "alerting"
      <3>1. i \in stale \/ \A c \in Candidates(e) : Covered(c, i)
        BY <1>2, <2>8 DEF HasEffect
      <3>2. i \in stale' \/ \A c \in Candidates(e) : Covered(c, i)'
        BY <3>1 DEF TablesGrow, Covered, Live
      <3> QED
        BY <2>3, <2>8, <3>2 DEF HasEffect, Settled
    <2> QED
      BY <2>3, <2>4, <2>5, <2>6, <2>7, <2>8 DEF Groups
  <1> QED
    BY <1>1, <1>2 DEF Settled

\* A message that is decoded and no event is dead-lettered.
LEMMA NoEventIsDead ==
  ASSUME GroupInv, NEW m \in Members, InBatch(m), pc[m] # "deadletter",
         batch[m].pos = batch[m].last,
         NEW i \in batch[m].first .. batch[m].last, i \notin Events(batch[m])
  PROVE  HasEffect(batch[m].topic, i)
  <1>1. DecodedAt(m, i) /\ ~ log[batch[m].topic][i].ok
    BY DEF GroupInv, DecodedInv, Events
  <1> QED
    BY <1>1 DEF DecodedAt, HasEffect

\* A handler settles its batch when it settles the events of it.
LEMMA HandlerResolves ==
  ASSUME GroupInv, HandlerInv, TablesGrow, NEW m \in Members, pc[m] \in HandlerSteps,
         UNCHANGED batch,
         \A i \in Events(batch[m]) : Settled(batch[m].topic, i) \/ Settled(batch[m].topic, i)'
  PROVE  BatchSettled(m)'
  <1> SUFFICES ASSUME NEW i \in batch[m].first .. batch[m].last
               PROVE  Settled(batch[m].topic, i)'
    BY DEF BatchSettled
  <1>1. InBatch(m) /\ pc[m] # "deadletter"
    BY DEF InBatch, HandlerSteps
  <1>2. batch[m].pos = batch[m].last
    BY <1>1 DEF GroupInv, BatchesInv, BatchOf
  <1>3. PICK t : t = batch[m].topic /\ t = batch'[m].topic
    OBVIOUS
  <1>4. Settled(t, i) \/ Settled(t, i)'
    <2>1. CASE i \in Events(batch[m])
      BY <1>3, <2>1 DEF Settled, HasEffect
    <2>2. CASE i \notin Events(batch[m])
      BY <1>1, <1>2, <1>3, <2>2, NoEventIsDead DEF Settled
    <2> QED
      BY <2>1, <2>2
  <1>5. Settled(t, i)'
    BY <1>4, EffectLasts
  <1> QED
    BY <1>3, <1>5 DEF Settled, HasEffect

\* A batch that has nothing relevant to its group has nothing to store.
LEMMA NothingRelevant ==
  ASSUME GroupInv, NEW m \in Members,
         \/ group = "locations" /\ Positioned(batch[m]) = {}
         \/ group = "fuel" /\ WithFuel(batch[m]) = {}
         \/ group = "engine" /\ Relevant(batch[m]) = {},
         NEW i \in Events(batch[m])
  PROVE  Settled(batch[m].topic, i)
  <1> DEFINE e == log[batch[m].topic][i]
  <1>1. e.ok
    BY DEF Events
  <1>2. CASE group = "locations" /\ Positioned(batch[m]) = {}
    <2>1. ~ e.gps.fix
      BY <1>2 DEF Positioned
    <2> QED
      BY <1>1, <1>2, <2>1 DEF Settled, HasEffect
  <1>3. CASE group = "fuel" /\ WithFuel(batch[m]) = {}
    <2>1. e.fuel = {}
      BY <1>3 DEF WithFuel
    <2> QED
      BY <1>1, <1>3, <2>1 DEF Settled, HasEffect
  <1>4. CASE group = "engine" /\ Relevant(batch[m]) = {}
    <2>1. \A k \in Inputs : e.input[k] = "none"
      BY <1>4 DEF Relevant
    <2> QED
      BY <1>1, <1>4, <2>1 DEF Settled, HasEffect
  <1> QED
    BY <1>2, <1>3, <1>4

\* An insert has the events of the batch stored.
LEMMA InsertsSettle ==
  ASSUME GroupInv, HandlerInv, NEW m \in Members,
         \/ InsertLocations(m) \/ InsertFuel(m) \/ InsertTransitions(m),
         NEW i \in Events(batch[m])
  PROVE  Settled(batch[m].topic, i)'
  <1> DEFINE e == log[batch[m].topic][i]
  <1>1. /\ e.ok /\ e = Message(m, i) /\ known[m] = vehicle
        /\ UNCHANGED <<vehicle, log, group, batch>>
    BY StoreKnows DEF Events, Message, InsertLocations, InsertFuel, InsertTransitions, HandlerFrame,
                      vehicleVars
  <1>2. CASE InsertLocations(m)
    <2>1. e.gps.fix => Row(vehicle, e, <<"position">>) \in rows'
      BY <1>1, <1>2 DEF InsertLocations, Positioned
    <2>2. group = "locations"
      BY <1>2 DEF InsertLocations
    <2> QED
      BY <1>1, <2>1, <2>2 DEF Settled, HasEffect
  <1>3. CASE InsertFuel(m)
    <2>1. ASSUME NEW f \in e.fuel
          PROVE  Row(vehicle, e, <<f.source, "level">>) \in rows'
      <3>1. i \in WithFuel(batch[m]) /\ f \in Message(m, i).fuel
        BY <1>1, <2>1 DEF WithFuel
      <3>2. Row(known[m], Message(m, i), <<f.source, "level">>) \in FuelRows(m)
        <4> DEFINE S == {Row(known[m], Message(m, i), <<g.source, "level">>) : g \in Message(m, i).fuel}
        <4>1. Row(known[m], Message(m, i), <<f.source, "level">>) \in S
          BY <3>1
        <4>2. S \subseteq FuelRows(m)
          BY <3>1 DEF FuelRows
        <4> QED
          BY <4>1, <4>2
      <3> QED
        BY <1>1, <1>3, <3>2 DEF InsertFuel
    <2>2. group = "fuel"
      BY <1>3 DEF InsertFuel
    <2> QED
      BY <1>1, <2>1, <2>2 DEF Settled, HasEffect
  <1>4. CASE InsertTransitions(m)
    <2>1. /\ group = "engine" /\ pc[m] = "store" /\ rows' = rows \cup found[m]
          /\ FoundOf(m)
      BY <1>4 DEF InsertTransitions, HandlerInv, MemberInv
    <2>2. \A k \in Inputs :
            e.cause = k /\ e.input[k] # "none" => Row(vehicle, e, <<k, e.input[k]>>) \in rows'
      BY <2>1 DEF FoundOf, FoundAt
    <2> QED
      BY <1>1, <2>1, <2>2 DEF Settled, HasEffect
  <1> QED
    BY <1>2, <1>3, <1>4

\* With nothing found, nothing was to be stored.
LEMMA ScanSettles ==
  ASSUME GroupInv, HandlerInv, NEW m \in Members, pc[m] = "seed", Changes(m) = {},
         NEW i \in Events(batch[m])
  PROVE  Settled(batch[m].topic, i)
  <1> DEFINE e == log[batch[m].topic][i]
  <1>1. e.ok /\ e = Message(m, i) /\ group = "engine"
    BY DEF Events, Message, HandlerInv, MemberInv, StepOf
  <1>2. ASSUME NEW k \in Inputs, e.cause = k, e.input[k] # "none"
        PROVE  FALSE
    <2>1. i \in Relevant(batch[m])
      BY <1>2 DEF Relevant
    <2>2. k \in TransitionsFor(Message(m, i), StateAt(m, i), batch[m].topic = "live")
      BY <1>1, <1>2 DEF TransitionsFor
    <2>3. Row(known[m], Message(m, i), <<k, Message(m, i).input[k]>>) \in Changes(m)
      BY <2>1, <2>2 DEF Changes
    <2> QED
      BY <2>3
  <1> QED
    BY <1>1, <1>2 DEF Settled, HasEffect

\* Whenever a batch is resolved, it is settled.
LEMMA DecodeSettles ==
  ASSUME GroupInv, GroupInv', NEW m \in Members,
         NEW b \in [topic : Topics, first : Nat, last : Nat, pos : Nat], Decode(m, b),
         UNCHANGED log, pc'[m] = "resolve"
  PROVE  BatchSettled(m)'
  <1> DEFINE bad == {j \in b.pos + 1 .. b.last : ~ log[b.topic][j].ok}
  <1>1. bad = {}
    BY DEF Decode, GroupInv, ConsumerTypeOK
  <1>2. batch'[m] = [b EXCEPT !.pos = b.last] /\ Events(b) = {}
    BY <1>1 DEF Decode, GroupInv, ConsumerTypeOK
  <1>3. PICK t : /\ t = b.topic /\ batch'[m].topic = t /\ batch'[m].first = b.first
                 /\ batch'[m].last = b.last /\ batch'[m].pos = b.last
    BY <1>2
  <1>4. ASSUME NEW i \in batch'[m].first .. batch'[m].last
        PROVE  HasEffect(t, i)'
    <2>1. ~ log'[t][i].ok
      BY <1>2, <1>3, <1>4 DEF Events
    <2>2. DecodedAt(m, i)'
      BY <1>3, <1>4 DEF GroupInv, DecodedInv, InBatch
    <2>3. <<t, i>> \in dead'
      BY <1>3, <2>1, <2>2 DEF DecodedAt
    <2> QED
      BY <2>1, <2>3 DEF HasEffect
  <1> QED
    BY <1>3, <1>4, ZenonT(60) DEF BatchSettled, Settled, HasEffect

\* A batch cut short is on record as that.
LEMMA EarlySettles ==
  ASSUME GroupInv, NEW m \in Members, ReturnEarly(m)
  PROVE  BatchSettled(m)'
  <1>1. /\ cutShort' = cutShort \cup ({batch[m].topic} \X (batch[m].first .. batch[m].last))
        /\ UNCHANGED batch
    BY DEF ReturnEarly
  <1> QED
    BY <1>1 DEF BatchSettled, Settled

\* What is done stays done.
LEMMA DoneLasts ==
  ASSUME TablesGrow, NEW c, NEW i, Done(c, i)
  PROVE  Done(c, i)'
  <1>1. Covered(c, i) => Covered(c, i)'
    BY DEF TablesGrow, Covered, Live
  <1> QED
    BY <1>1 DEF TablesGrow, Done, Live

\* A settled live message is done with, and an event that is done with is settled.
LEMMA DoneIsSettled ==
  ASSUME group = "alerting", NEW i
  PROVE  /\ Settled("live", i) => \A c : Done(c, i)
         /\ Live[i].ok /\ (\A c \in Conditions : Done(c, i)) => Settled("live", i)
  <1>1. Settled("live", i) => \A c : Done(c, i)
    BY DEF Settled, HasEffect, Done, Live
  <1>2. ASSUME Live[i].ok, \A c \in Conditions : Done(c, i)
        PROVE  Settled("live", i)
    <2>1. Candidates(Live[i]) \subseteq Conditions
      BY DEF Candidates
    <2> QED
      BY <1>2, <2>1 DEF Settled, HasEffect, Done, Live
  <1> QED
    BY <1>1, <1>2

\* The alerting consumer reads the live topic alone.
LEMMA OnLive ==
  ASSUME GroupInv, group = "alerting", NEW m \in Members, InBatch(m)
  PROVE  /\ batch[m].topic = "live"
         /\ \A i : Message(m, i) = Live[i]
         /\ \A i \in Events(batch[m]) : i \in DOMAIN Live /\ Live[i].ok
  <1>1. batch[m].topic = "live"
    BY DEF GroupInv, BatchesInv, BatchOf, Subscribed
  <1>2. Live \in Seq(Readings)
    BY ConsumerAssumption DEF GroupInv, ConsumerTypeOK, LogInv, Topics, Live
  <1>3. \A i \in Events(batch[m]) : i \in DOMAIN Live /\ Live[i].ok
    BY <1>1, <1>2, EventType DEF Message, Live
  <1> QED
    BY <1>1, <1>3 DEF Message, Live

\* Where a batch begins: where it began, or behind what is committed.
LEMMA FirstStays ==
  ASSUME GroupInv, group = "alerting", [TelemetryNext]_telemetryVars, NEW n \in Members, InBatch(n)'
  PROVE  \/ InBatch(n) /\ batch'[n].first = batch[n].first
         \/ batch'[n].first = committed["live"] + 1
  <1>1. CASE Rebalance \/ UNCHANGED consumerVars
    BY <1>1 DEF Rebalance, consumerVars, InBatch
  <1>2. ASSUME NEW m \in Members, MemberMoves(m), n # m
        PROVE  InBatch(n) /\ batch'[n].first = batch[n].first
    BY <1>2, ZenonT(60) DEF MemberMoves, Join, Evict, Stop, Fetch, DeadLetter, Decode, ReturnEarly,
       Commit, GivesBack, GiveBack, Ends, Gone, Moves, HandlerFrame, InBatch, GroupInv, ConsumerTypeOK
  <1>3. CASE MemberMoves(n)
    <2>1. CASE Join(n) \/ Commit(n) \/ GivesBack(n) \/ Ends(n)
      BY <2>1 DEF Join, Commit, GivesBack, GiveBack, Ends, Gone, InBatch, GroupInv, ConsumerTypeOK
    <2>2. CASE Evict(n) \/ Stop(n) \/ ReturnEarly(n) \/ Moves(n)
      <3>1. UNCHANGED batch
        BY <2>2 DEF Evict, Stop, ReturnEarly, Moves, HandlerFrame
      <3>2. InBatch(n)
        BY <2>2 DEF Evict, Stop, ReturnEarly, Moves, InBatch, HandlerSteps
      <3> QED
        BY <3>1, <3>2
    <2>3. ASSUME NEW b \in [topic : Topics, first : Nat, last : Nat, pos : Nat], Decode(n, b)
          PROVE  batch'[n].first = b.first
      <3>1. \E p : batch'[n] = [b EXCEPT !.pos = p]
        BY <2>3 DEF Decode, GroupInv, ConsumerTypeOK
      <3> QED
        BY <3>1
    <2>4. CASE DeadLetter(n)
      <3>1. /\ batch[n] \in [topic : Topics, first : Nat, last : Nat, pos : Nat]
            /\ Decode(n, batch[n]) /\ InBatch(n)
        BY <2>4 DEF DeadLetter, InBatch, GroupInv, ConsumerTypeOK
      <3> QED
        BY <2>3, <3>1
    <2>5. ASSUME NEW t \in Topics, NEW k \in 1 .. Len(log[t]), Fetch(n, t, k)
          PROVE  batch'[n].first = committed["live"] + 1
      <3> DEFINE b == [topic |-> t, first |-> committed[t] + 1, last |-> committed[t] + k,
                       pos |-> committed[t]]
      <3>1. t = "live" /\ Decode(n, b) /\ b.first = committed[t] + 1
        BY <2>5 DEF Fetch, Subscribed
      <3>2. b \in [topic : Topics, first : Nat, last : Nat, pos : Nat]
        <4>1. committed[t] \in Nat /\ k \in Nat
          BY DEF GroupInv, ConsumerTypeOK
        <4> QED
          BY <4>1
      <3> HIDE DEF b
      <3> QED
        BY <2>3, <3>1, <3>2
    <2> QED
      BY <1>3, <2>1, <2>2, <2>4, <2>5 DEF MemberMoves
  <1> QED
    BY <1>1, <1>2, <1>3, GroupSteps DEF GroupInv

\* And so everything before a batch is done.
LEMMA BeforeBatch ==
  ASSUME GroupInv, GroupInv', TablesGrow, CommittedIsStored, CheckedInv, group = "alerting",
         [TelemetryNext]_telemetryVars, NEW n \in Members, InBatch(n)',
         NEW c \in Conditions, NEW i \in 1 .. batch'[n].first - 1
  PROVE  Done(c, i)'
  <1>1. CASE InBatch(n) /\ batch'[n].first = batch[n].first
    BY <1>1, DoneLasts DEF CheckedInv, CheckedOf
  <1>2. CASE batch'[n].first = committed["live"] + 1
    <2>1. committed["live"] \in Nat
      BY DEF GroupInv, ConsumerTypeOK, Topics
    <2>2. i \in 1 .. committed["live"]
      BY <1>2, <2>1
    <2>3. Settled("live", i)
      BY <2>2 DEF CommittedIsStored, Settled, Topics
    <2> QED
      BY <2>3, DoneIsSettled, DoneLasts
  <1> QED
    BY <1>1, <1>2, FirstStays

\* A fired state stays one of an announced alert.
LEMMA FiredLasts ==
  ASSUME TablesGrow, NEW c, NEW a, Fired(c, a)
  PROVE  Fired(c, a)'
  BY DEF TablesGrow, Fired, Live

\* What a member has done with is not undone by the steps of others.
LEMMA CheckedLasts ==
  ASSUME TablesGrow, NEW n \in Members, CheckedOf(n), WorkDone(n) => WorkDone(n)',
         InBatch(n)' => \A c \in Conditions : \A i \in 1 .. batch'[n].first - 1 : Done(c, i)',
         pc'[n] \in {"register", "lookup", "store", "write", "raise"} =>
           /\ pc'[n] = pc[n]
           /\ batch'[n] = batch[n] /\ work'[n] = work[n] /\ seen'[n] = seen[n],
         states[Condition(n)].fired # NeverFired => states'[Condition(n)].fired # NeverFired
  PROVE  CheckedOf(n)'
  <1>1. pc'[n] \in {"register", "lookup", "store", "write", "raise"} => WorkDone(n)'
    BY DEF CheckedOf
  <1>2. ASSUME pc'[n] = "write", seen'[n].active
        PROVE  SeenOf(n)'
    <2>1. /\ SeenOf(n) /\ Condition(n)' = Condition(n) /\ seen'[n] = seen[n]
      BY <1>2 DEF CheckedOf, Condition
    <2>2. Fired(Condition(n), seen[n].fired)'
      <3>1. PICK j \in DOMAIN Live : <<Condition(n), j>> \in announced /\ Live[j].at = seen[n].fired
        BY <2>1 DEF SeenOf, Fired
      <3> QED
        BY <2>1, <3>1 DEF Fired, TablesGrow, Live
    <2> QED
      BY <2>1, <2>2 DEF SeenOf
  <1>3. ASSUME pc'[n] = "raise"
        PROVE  <<Condition(n), work[n].place>>' \in announced'
    BY <1>3 DEF CheckedOf, TablesGrow, Condition
  <1> QED
    BY <1>1, <1>2, <1>3 DEF CheckedOf

\* Work done stays done.
LEMMA WorkLasts ==
  ASSUME TablesGrow, NEW n \in Members, WorkDone(n), batch'[n] = batch[n], work'[n] = work[n]
  PROVE  WorkDone(n)'
  <1>1. Events(batch[n])' = Events(batch[n])
    BY DEF TablesGrow, Events
  <1>2. ASSUME NEW i \in Events(batch[n]), NEW k \in 1 .. 3
        PROVE  Ahead(work[n], k, i)' \/ Done(AlertTypes[k], i)'
    BY DoneLasts DEF WorkDone, Ahead
  <1> QED
    BY <1>1, <1>2 DEF WorkDone

\* Announced alerts stay good ones.
LEMMA AnnouncedLasts ==
  ASSUME TablesGrow, AnnouncedInv, announced' = announced
  PROVE  AnnouncedInv'
  <1>1. \A c \in Conditions : \A j \in Nat : \A i \in 1 .. j : Done(c, i) => Done(c, i)'
    BY DoneLasts
  <1> QED
    BY <1>1 DEF TablesGrow, AnnouncedInv, Live

\* The steps that leave the alerts' tables alone.
LEMMA QuietChecked ==
  ASSUME TablesGrow, CheckedInv, group = "alerting", UNCHANGED <<states, announced>>,
         \A n \in Members : InBatch(n)' =>
           \A c \in Conditions : \A i \in 1 .. batch'[n].first - 1 : Done(c, i)',
         \A n \in Members : pc'[n] \in {"register", "lookup", "store", "write", "raise"} =>
           /\ pc'[n] = pc[n]
           /\ batch'[n] = batch[n] /\ work'[n] = work[n] /\ seen'[n] = seen[n]
  PROVE  CheckedInv'
  <1>1. AnnouncedInv' /\ StatesInv'
    BY AnnouncedLasts DEF CheckedInv, StatesInv, Fired, TablesGrow, Live
  <1>2. ASSUME NEW n \in Members
        PROVE  CheckedOf(n)'
    <2>1. CASE pc'[n] \in {"register", "lookup", "store", "write", "raise"}
      <3>1. WorkDone(n) => WorkDone(n)'
        BY <2>1, WorkLasts
      <3> QED
        BY <2>1, <3>1, CheckedLasts DEF CheckedInv
    <2>2. CASE pc'[n] \notin {"register", "lookup", "store", "write", "raise"}
      BY <2>2 DEF CheckedOf
    <2> QED
      BY <2>1, <2>2
  <1> QED
    BY <1>1, <1>2 DEF CheckedInv

\* A step of one handler, of which the others take no notice.
LEMMA OneChecks ==
  ASSUME TablesGrow, CheckedInv, group = "alerting", NEW m \in Members,
         AnnouncedInv', StatesInv', CheckedOf(m)',
         \A n \in Members \ {m} : /\ pc'[n] = pc[n] /\ batch'[n] = batch[n]
                                  /\ work'[n] = work[n] /\ seen'[n] = seen[n],
         \A c \in Conditions : states[c].fired # NeverFired => states'[c].fired # NeverFired,
         \A n \in Members : Condition(n) \in Conditions
  PROVE  CheckedInv'
  <1>1. ASSUME NEW n \in Members, n # m
        PROVE  CheckedOf(n)'
    <2>1. /\ pc'[n] = pc[n] /\ batch'[n] = batch[n] /\ work'[n] = work[n] /\ seen'[n] = seen[n]
          /\ CheckedOf(n)
      BY <1>1 DEF CheckedInv
    <2>2. WorkDone(n) => WorkDone(n)'
      BY <2>1, WorkLasts
    <2>3. InBatch(n)' => \A c \in Conditions : \A i \in 1 .. batch'[n].first - 1 : Done(c, i)'
      BY <2>1, DoneLasts DEF CheckedOf, InBatch
    <2> QED
      BY <2>1, <2>2, <2>3, CheckedLasts
  <1> QED
    BY <1>1 DEF CheckedInv

\* Every check is of a condition.
LEMMA ConditionType ==
  ASSUME HandlerInv, NEW n \in Members
  PROVE  Condition(n) \in Conditions
  BY DEF HandlerInv, HandlerTypeOK, AlertTypeOK, Checks, Condition, Conditions, ToSet, AlertTypes

\* Before a reading everything is done, once its check is the first that is left:
\* the places before the batch, those of the batch that are no events, and the
\* events that are no longer left.
LEMMA BeforeCheck ==
  ASSUME GroupInv, HandlerInv, CheckedInv, NEW m \in Members, Checking(m),
         NEW i \in 1 .. work[m].place - 1
  PROVE  Done(Condition(m), i)
  <1>1. /\ CheckedOf(m) /\ InBatch(m) /\ CheckOf(work[m], batch[m]) /\ Condition(m) \in Conditions
        /\ work[m].place \in Nat /\ work[m].type \in 1 .. 3 /\ work[m] \in Checks
    BY CheckType DEF CheckedInv, Checking
  <1>2. /\ batch[m].first \in Nat /\ batch[m].last \in Nat /\ work[m].place <= batch[m].last
    BY <1>1 DEF CheckOf, Events, GroupInv, ConsumerTypeOK
  <1>3. CASE i \in 1 .. batch[m].first - 1
    BY <1>1, <1>3 DEF CheckedOf
  <1>4. CASE i \in batch[m].first .. batch[m].last
    <2>1. CASE i \in Events(batch[m])
      <3>1. i \notin work[m].rest /\ i # work[m].place
        BY <1>1, <1>2 DEF CheckOf
      <3>2. WorkDone(m) /\ Condition(m) = AlertTypes[work[m].type]
        BY <1>1 DEF CheckedOf, Checking, Condition
      <3> QED
        BY <1>1, <2>1, <3>1, <3>2 DEF WorkDone, Ahead
    <2>2. CASE i \notin Events(batch[m])
      BY <1>1, <1>4, <2>2, OnLive DEF Events, Message, Done, Checking, Live
    <2> QED
      BY <2>1, <2>2
  <1>5. i \in 1 .. batch[m].first - 1 \/ i \in batch[m].first .. batch[m].last
    BY <1>1, <1>2
  <1> QED
    BY <1>3, <1>4, <1>5

\* A check that ends with its condition done with: the next one has the rest ahead,
\* and after the last the whole batch is done with.
LEMMA NextChecks ==
  ASSUME GroupInv, HandlerInv, CheckedInv, TablesGrow, NEW m \in Members, Checking(m), NextCheck(m),
         UNCHANGED batch, NEW c, c = Condition(m), NEW at, at = work[m].place, Done(c, at)'
  PROVE  /\ pc'[m] \in {"store", "resolve"}
         /\ pc'[m] = "store" => WorkDone(m)'
         /\ pc'[m] = "resolve" =>
              \A i \in Events(batch[m]) : \A k \in 1 .. 3 : Done(AlertTypes[k], i)'
  <1>1. /\ InBatch(m) /\ CheckOf(work[m], batch[m]) /\ work[m] \in Checks
        /\ work[m].place \in Nat /\ work[m].type \in 1 .. 3
        /\ WorkDone(m) /\ Condition(m) = AlertTypes[work[m].type]
    BY CheckType DEF CheckedInv, CheckedOf, Checking, Condition
  <1>2. /\ work'[m] = CheckAfter(m)
        /\ pc'[m] = IF CheckAfter(m) = NoCheck THEN "resolve" ELSE "store"
    BY DEF NextCheck, GoTo, GroupInv, ConsumerTypeOK, HandlerInv, HandlerTypeOK, AlertTypeOK
  <1>3. Events(batch[m])' = Events(batch[m])
    BY DEF TablesGrow, Events
  <1>4. ASSUME NEW i \in Events(batch[m]), NEW k \in 1 .. 3, ~ Done(AlertTypes[k], i)'
        PROVE  i \in work[m].rest \/ (i = work[m].place /\ work[m].type < k)
    <2>1. Ahead(work[m], k, i)
      BY <1>1, <1>4, DoneLasts DEF WorkDone
    <2>2. k # work[m].type \/ i # work[m].place
      BY <1>1, <1>4
    <2> QED
      BY <1>1, <2>1, <2>2 DEF Ahead
  <1>5. ASSUME NEW i \in Events(batch[m]), NEW k \in 1 .. 3, ~ Done(AlertTypes[k], i)'
        PROVE  CheckAfter(m) # NoCheck /\ Ahead(CheckAfter(m), k, i)
    <2>1. CASE work[m].type < 3
      <3>1. CheckAfter(m) = [work[m] EXCEPT !.type = @ + 1]
        BY <2>1 DEF CheckAfter, AlertTypes
      <3>2. /\ CheckAfter(m).place = work[m].place /\ CheckAfter(m).rest = work[m].rest
            /\ CheckAfter(m).type = work[m].type + 1
        BY <1>1, <3>1 DEF Checks
      <3>3. CheckAfter(m) # NoCheck
        BY <1>1, <3>2 DEF NoCheck
      <3> QED
        BY <1>1, <1>4, <1>5, <3>2, <3>3 DEF Ahead
    <2>2. CASE ~ (work[m].type < 3)
      <3>1. CheckAfter(m) = FirstCheck(work[m].rest)
        BY <2>2 DEF CheckAfter, AlertTypes
      <3>2. i \in work[m].rest
        BY <1>1, <1>4, <1>5, <2>2
      <3>3. work[m].rest \subseteq Nat
        BY <1>1, EventTimes DEF CheckOf
      <3>4. /\ CheckAfter(m).place \in work[m].rest /\ CheckAfter(m).type = 1
            /\ CheckAfter(m).rest = work[m].rest \ {CheckAfter(m).place}
        BY <3>1, <3>2, <3>3, FirstCheckIn
      <3>5. CheckAfter(m).place # 0
        <4>1. CheckAfter(m).place \in Events(batch[m])
          BY <1>1, <3>4 DEF CheckOf
        <4>2. 0 \notin Events(batch[m])
          BY <1>1 DEF Events, GroupInv, BatchesInv, BatchOf, ConsumerTypeOK
        <4> QED
          BY <4>1, <4>2
      <3> QED
        BY <3>2, <3>4, <3>5 DEF Ahead, NoCheck
    <2> QED
      BY <2>1, <2>2
  <1>6. CASE CheckAfter(m) = NoCheck
    BY <1>2, <1>5, <1>6
  <1>7. CASE CheckAfter(m) # NoCheck
    <2>1. pc'[m] = "store"
      BY <1>2, <1>7
    <2>2. WorkDone(m)'
      BY <1>2, <1>3, <1>5 DEF WorkDone, Ahead
    <2> QED
      BY <2>1, <2>2
  <1> QED
    BY <1>6, <1>7

\* The places of the live log, and the times of its readings.
LEMMA LiveTimes ==
  ASSUME GroupInv, NEW j \in DOMAIN Live
  PROVE  j \in Nat /\ 1 <= j /\ Live[j].at \in 1 .. MaxTime
  <1>1. /\ group \in Groups /\ log \in Logs[group] /\ "live" \in Topics
        /\ Live = log["live"] /\ Live \in Seq(Readings)
    BY ConsumerAssumption DEF GroupInv, ConsumerTypeOK, LogInv, Topics, Live
  <1>2. log["live"][j].at \in 1 .. MaxTime
    BY <1>1, AlertAssumption
  <1> QED
    BY <1>1, <1>2

\* With the step that ends the check of a condition, or announces an alert, the
\* condition is done with: it does not hold, or an alert lasts to the reading.
LEMMA ConditionDone ==
  ASSUME GroupInv, HandlerInv, CheckedInv, TablesGrow, NEW m \in Members, Checking(m),
         NEW c, c = Condition(m), NEW at, at = work[m].place,
         \/ ~ Holding(m)
         \/ HoldState(m)
         \/ Raise(m)
  PROVE  Done(c, at)'
  <1>1. /\ InBatch(m) /\ at \in Events(batch[m]) /\ c \in Conditions /\ group = "alerting"
        /\ Reading(m).at \in 1 .. MaxTime /\ at \in Nat /\ CheckedOf(m) /\ AnnouncedInv
    BY CheckType DEF CheckOf, Checking, CheckedInv
  <1>2. Reading(m) = Live[at] /\ at \in DOMAIN Live /\ Live[at].ok
    BY <1>1, OnLive DEF Reading
  <1>3. Live \in Seq(Readings) /\ at \in 1 .. at
    <2>1. Live \in Seq(Readings)
      BY ConsumerAssumption DEF GroupInv, ConsumerTypeOK, LogInv, Topics, Live
    <2> QED
      BY <1>2, <2>1
  <1>4. ASSUME <<c, at>> \in announced'
        PROVE  Done(c, at)'
    <2>1. Live[at].at < Live[at].at + Cooldown
      BY <1>1, <1>2, AlertAssumption
    <2> QED
      BY <1>3, <1>4, <2>1 DEF Done, Covered, TablesGrow, Live
  <1>5. CASE ~ Holding(m)
    BY <1>2, <1>5, DoneLasts DEF Done, Holding
  <1>6. CASE Raise(m)
    BY <1>1, <1>4, <1>6 DEF Raise, CheckedOf, TablesGrow
  <1>7. CASE HoldState(m) /\ Fires(m)
    BY <1>4, <1>7 DEF HoldState
  <1>8. CASE HoldState(m) /\ ~ Fires(m)
    <2>1. seen[m].active /\ ~ CooledDown(m) /\ SeenOf(m)
      BY <1>1, <1>8 DEF HoldState, Fires, CheckedOf
    <2>2. PICK j \in DOMAIN Live : <<c, j>> \in announced /\ Live[j].at = seen[m].fired
      BY <2>1 DEF SeenOf, Fired
    <2>3. j \in Nat /\ j >= 1 /\ Live[j].at \in 1 .. MaxTime
      BY LiveTimes
    <2>4. Live[at].at < Live[j].at + Cooldown
      BY <1>1, <1>2, <2>1, <2>2, <2>3, AlertAssumption DEF CooledDown, NeverFired
    <2>5. CASE j <= at
      <3>1. Covered(c, at)
        BY <1>1, <2>2, <2>3, <2>4, <2>5 DEF Covered
      <3>2. Done(c, at)
        BY <3>1 DEF Done
      <3> QED
        BY <3>2, DoneLasts
    <2>6. CASE at < j
      <3>1. at \in 1 .. j
        BY <1>2, <1>3, <2>3, <2>6
      <3>2. Done(c, at)
        BY <1>1, <2>2, <2>3, <3>1 DEF AnnouncedInv
      <3> QED
        BY <3>2, DoneLasts
    <2> QED
      BY <1>1, <2>3, <2>5, <2>6
  <1> QED
    BY <1>5, <1>6, <1>7, <1>8

\* What a step of an alerting handler does for the checks.
ChecksOn(m) ==
  /\ AnnouncedInv' /\ StatesInv'
  /\ pc'[m] \in {"register", "lookup", "store", "write", "raise"} => WorkDone(m)'
  /\ pc'[m] = "write" /\ seen'[m].active => SeenOf(m)'
  /\ pc'[m] = "raise" => <<Condition(m), work[m].place>>' \in announced'
  /\ pc'[m] = "resolve" => \A i \in Events(batch[m]) : \A k \in 1 .. 3 : Done(AlertTypes[k], i)'

Aside(m) ==
  /\ UNCHANGED batch
  /\ \A n \in Members \ {m} : pc'[n] = pc[n] /\ work'[n] = work[n] /\ seen'[n] = seen[n]
  /\ \A c \in Conditions : states[c].fired # NeverFired => states'[c].fired # NeverFired

\* A handler begins with all fresh readings ahead.
LEMMA BeginChecks ==
  ASSUME GroupInv, HandlerInv, CheckedInv, TablesGrow, NEW m \in Members, BeginAlerting(m)
  PROVE  ChecksOn(m) /\ Aside(m)
  <1>1. PICK fresh : Begins(m, fresh)
    BY AlertingBegins
  <1>2. /\ group = "alerting" /\ pc[m] = "handler" /\ InBatch(m)
        /\ UNCHANGED <<states, seen, announced, batch, log>>
        /\ fresh \subseteq Events(batch[m])
        /\ stale' = stale \cup (Events(batch[m]) \ fresh)
    BY <1>1 DEF BeginAlerting, Begins, Begin, HandlerFrame, InBatch
  <1>3. /\ pc' = [pc EXCEPT ![m] = IF fresh = {} THEN "resolve"
                                   ELSE IF known[m] = NoMember THEN "register" ELSE "store"]
        /\ work' = [work EXCEPT ![m] = FirstCheck(fresh)]
    BY <1>1, <1>2 DEF Begins, Begin, Resolve, GoTo
  <1>4. /\ pc'[m] = IF fresh = {} THEN "resolve"
                    ELSE IF known[m] = NoMember THEN "register" ELSE "store"
        /\ work'[m] = FirstCheck(fresh)
        /\ \A n \in Members \ {m} : pc'[n] = pc[n] /\ work'[n] = work[n]
    BY <1>3 DEF GroupInv, ConsumerTypeOK, HandlerInv, HandlerTypeOK, AlertTypeOK
  <1>5. AnnouncedInv' /\ StatesInv'
    BY <1>2, AnnouncedLasts DEF CheckedInv, StatesInv, Fired, Live
  <1>6. ASSUME NEW i \in Events(batch[m]), i \notin fresh, NEW c
        PROVE  Done(c, i)'
    BY <1>2, <1>6 DEF Done
  <1>7. CASE fresh = {}
    BY <1>2, <1>4, <1>5, <1>6, <1>7 DEF ChecksOn, Aside
  <1>8. CASE fresh # {}
    <2>1. fresh \subseteq Nat
      BY <1>2, EventTimes
    <2>2. PICK w : w = FirstCheck(fresh) /\ w = work'[m]
      BY <1>4
    <2>3. w.place \in fresh /\ w.type = 1 /\ w.rest = fresh \ {w.place}
      <3>1. /\ FirstCheck(fresh).place \in fresh /\ FirstCheck(fresh).type = 1
            /\ FirstCheck(fresh).rest = fresh \ {FirstCheck(fresh).place}
        BY <1>8, <2>1, FirstCheckIn
      <3>2. FirstCheck(fresh) = w
        BY <2>2
      <3> QED
        BY <3>1, <3>2, Zenon
    <2>4. \A i \in fresh : \A k \in 1 .. 3 : Ahead(work[m], k, i)'
      BY <2>2, <2>3 DEF Ahead
    <2>5. Events(batch[m])' = Events(batch[m])
      BY <1>2 DEF Events
    <2>6. WorkDone(m)'
      BY <1>6, <2>4, <2>5 DEF WorkDone
    <2> QED
      BY <1>2, <1>4, <1>5, <1>8, <2>6 DEF ChecksOn, Aside
  <1> QED
    BY <1>7, <1>8

\* The frame of a check.
LEMMA CheckAside ==
  ASSUME GroupInv, HandlerInv, NEW m \in Members, AlertFrame,
         NextCheck(m) \/ (\E s : GoTo(m, s) /\ UNCHANGED work
                                 /\ (UNCHANGED seen \/ \E x : seen' = [seen EXCEPT ![m] = x])),
         \A c \in Conditions : states[c].fired # NeverFired => states'[c].fired # NeverFired
  PROVE  Aside(m)
  <1>1. UNCHANGED batch
    BY DEF AlertFrame, HandlerFrame
  <1>2. /\ \E s : pc' = [pc EXCEPT ![m] = s]
        /\ work' = work \/ \E w : work' = [work EXCEPT ![m] = w]
        /\ seen' = seen \/ \E x : seen' = [seen EXCEPT ![m] = x]
    BY DEF NextCheck, GoTo
  <1>3. \A n \in Members \ {m} : pc'[n] = pc[n] /\ work'[n] = work[n] /\ seen'[n] = seen[n]
    BY <1>2 DEF GroupInv, ConsumerTypeOK, HandlerInv, HandlerTypeOK, AlertTypeOK
  <1> QED
    BY <1>1, <1>3 DEF Aside

\* Going on to the next check, with the one at hand done.
LEMMA NextChecksOn ==
  ASSUME GroupInv, HandlerInv, CheckedInv, TablesGrow, NEW m \in Members, Checking(m), NextCheck(m),
         AlertFrame, ~ Holding(m) \/ HoldState(m) \/ Raise(m), AnnouncedInv', StatesInv'
  PROVE  ChecksOn(m)
  <1>1. PICK c, at : c = Condition(m) /\ at = work[m].place
    OBVIOUS
  <1>2. Done(c, at)'
    BY <1>1, ConditionDone
  <1>3. /\ pc'[m] \in {"store", "resolve"}
        /\ pc'[m] = "store" => WorkDone(m)'
        /\ pc'[m] = "resolve" =>
             \A i \in Events(batch[m]) : \A k \in 1 .. 3 : Done(AlertTypes[k], i)'
    BY <1>1, <1>2, NextChecks DEF AlertFrame, HandlerFrame
  <1> QED
    BY <1>3 DEF ChecksOn

\* A state is read.
LEMMA ReadChecks ==
  ASSUME GroupInv, HandlerInv, CheckedInv, TablesGrow, NEW m \in Members, ReadState(m)
  PROVE  ChecksOn(m) /\ Aside(m)
  <1>1. /\ Checking(m) /\ AlertFrame /\ UNCHANGED <<states, announced>> /\ pc[m] = "store"
        /\ CheckedOf(m) /\ StatesInv /\ AnnouncedInv
    BY DEF ReadState, Checking, CheckedInv
  <1>2. AnnouncedInv' /\ StatesInv'
    BY <1>1, AnnouncedLasts DEF StatesInv, Fired, AlertFrame, HandlerFrame, Live
  <1>3. CASE ~ (Holding(m) \/ states[Condition(m)].active)
    <2>1. NextCheck(m)
      BY <1>3 DEF ReadState
    <2> QED
      BY <1>1, <1>2, <1>3, <2>1, NextChecksOn, CheckAside
  <1>4. CASE Holding(m) \/ states[Condition(m)].active
    <2>1. /\ seen' = [seen EXCEPT ![m] = states[Condition(m)]] /\ GoTo(m, "write") /\ UNCHANGED work
      BY <1>4 DEF ReadState
    <2>2. /\ seen'[m] = states[Condition(m)] /\ pc'[m] = "write" /\ UNCHANGED batch
          /\ Condition(m)' = Condition(m) /\ Condition(m) \in Conditions
      BY <1>1, <2>1, ConditionType DEF GoTo, GroupInv, ConsumerTypeOK, HandlerInv, HandlerTypeOK, AlertTypeOK,
         AlertFrame, HandlerFrame, Condition
    <2>3. WorkDone(m)'
      BY <1>1, <2>1, <2>2, WorkLasts DEF CheckedOf
    <2>4. seen'[m].active => SeenOf(m)'
      BY <1>1, <2>2 DEF SeenOf, StatesInv, Fired, AlertFrame, HandlerFrame, Live
    <2>5. Aside(m)
      BY <1>1, <2>1, CheckAside
    <2> QED
      BY <1>2, <2>2, <2>3, <2>4, <2>5 DEF ChecksOn
  <1> QED
    BY <1>3, <1>4

\* A state is cleared.
LEMMA ClearChecks ==
  ASSUME GroupInv, HandlerInv, CheckedInv, TablesGrow, NEW m \in Members, ClearState(m)
  PROVE  ChecksOn(m) /\ Aside(m)
  <1>1. /\ Checking(m) /\ AlertFrame /\ UNCHANGED announced /\ NextCheck(m) /\ ~ Holding(m)
        /\ StatesInv /\ AnnouncedInv
    BY DEF ClearState, Checking, HandlerInv, MemberInv, StepOf, CheckedInv
  <1>2. \A c \in Conditions : /\ states'[c].fired = states[c].fired
                              /\ states'[c].active => states[c].active
    <2>1. states' = [states EXCEPT ![Condition(m)].active = FALSE]
      BY DEF ClearState
    <2>2. states \in [Conditions -> States] /\ Condition(m) \in Conditions
      BY ConditionType DEF HandlerInv, HandlerTypeOK, AlertTypeOK
    <2>3. \A c \in Conditions : c # Condition(m) => states'[c] = states[c]
      BY <2>1, <2>2
    <2>4. states'[Condition(m)] = [states[Condition(m)] EXCEPT !.active = FALSE]
      BY <2>1, <2>2
    <2>5. states[Condition(m)] \in States
      BY <2>2
    <2>6. states'[Condition(m)].fired = states[Condition(m)].fired /\ ~ states'[Condition(m)].active
      BY <2>4, <2>5 DEF States
    <2> QED
      BY <2>3, <2>6
  <1>3. StatesInv'
    BY <1>1, <1>2 DEF StatesInv, Fired, AlertFrame, HandlerFrame, Live
  <1>4. AnnouncedInv'
    BY <1>1, AnnouncedLasts
  <1> QED
    BY <1>1, <1>2, <1>3, <1>4, NextChecksOn, CheckAside

\* An alert is written for the reading at hand.
LEMMA RaiseChecks ==
  ASSUME GroupInv, HandlerInv, CheckedInv, TablesGrow, NEW m \in Members, Raise(m)
  PROVE  ChecksOn(m) /\ Aside(m)
  <1>1. /\ Checking(m) /\ AlertFrame /\ UNCHANGED <<states, announced>> /\ NextCheck(m)
        /\ StatesInv /\ AnnouncedInv
    BY DEF Raise, Checking, HandlerInv, MemberInv, StepOf, CheckedInv
  <1>2. AnnouncedInv' /\ StatesInv'
    BY <1>1, AnnouncedLasts DEF StatesInv, Fired, AlertFrame, HandlerFrame, Live
  <1> QED
    BY <1>1, <1>2, NextChecksOn, CheckAside

\* A condition holds: its alert is announced with everything before the reading
\* done, or an alert announced before lasts to it.
LEMMA HoldChecks ==
  ASSUME GroupInv, HandlerInv, CheckedInv, TablesGrow, NEW m \in Members, HoldState(m)
  PROVE  ChecksOn(m) /\ Aside(m)
  <1>0. PICK c, at, fired : /\ c = Condition(m) /\ at = work[m].place
                            /\ fired = IF Fires(m) THEN Reading(m).at ELSE states[c].fired
    OBVIOUS
  <1>1. /\ Checking(m) /\ AlertFrame /\ pc[m] = "write" /\ UNCHANGED <<batch, log>>
        /\ StatesInv /\ AnnouncedInv /\ CheckedOf(m)
    BY DEF HoldState, Checking, HandlerInv, MemberInv, StepOf, CheckedInv, AlertFrame, HandlerFrame
  <1>2. /\ c \in Conditions /\ at \in Nat /\ InBatch(m) /\ at \in Events(batch[m])
        /\ Reading(m).at \in 1 .. MaxTime /\ Reading(m) = Live[at] /\ at \in DOMAIN Live /\ Live[at].ok
    BY <1>0, <1>1, CheckType, OnLive DEF CheckOf, Checking, Reading
  <1>3. /\ states \in [Conditions -> States]
        /\ states' = [states EXCEPT ![c] = [active |-> TRUE, fired |-> fired]]
    BY <1>0 DEF HoldState, HandlerInv, HandlerTypeOK, AlertTypeOK
  <1>4. /\ states'[c] = [active |-> TRUE, fired |-> fired]
        /\ \A d \in Conditions \ {c} : states'[d] = states[d]
    BY <1>2, <1>3
  <1>5. states'[c].fired = fired
    BY <1>4
  <1>6. CASE Fires(m)
    <2>1. /\ announced' = announced \cup {<<c, at>>} /\ GoTo(m, "raise") /\ UNCHANGED <<seen, work>>
          /\ fired = Live[at].at /\ fired # NeverFired
      BY <1>0, <1>2, <1>6 DEF HoldState, NeverFired
    <2>2. pc'[m] = "raise" /\ <<Condition(m), work[m].place>>' \in announced'
      BY <1>0, <1>1, <2>1 DEF GoTo, GroupInv, ConsumerTypeOK, Condition
    <2>3. Done(c, at)'
      BY <1>0, <1>1, ConditionDone
    <2>4. AnnouncedInv'
      <3> SUFFICES ASSUME NEW d \in Conditions, NEW j \in Nat, <<d, j>> \in announced'
                   PROVE  /\ (j \in DOMAIN Live)' /\ (Live[j].ok)'
                          /\ \A i \in 1 .. j : Done(d, i)'
        BY DEF AnnouncedInv
      <3>1. CASE <<d, j>> \in announced
        BY <1>1, <3>1, DoneLasts DEF AnnouncedInv, Live
      <3>2. CASE d = c /\ j = at
        <4>1. \A i \in 1 .. at - 1 : Done(c, i)
          BY <1>0, <1>1, BeforeCheck
        <4>2. ASSUME NEW i \in 1 .. at
              PROVE  Done(c, i)'
          <5>1. i = at \/ i \in 1 .. at - 1
            BY <1>2
          <5> QED
            BY <2>3, <4>1, <5>1, DoneLasts
        <4> QED
          BY <1>1, <1>2, <3>2, <4>2 DEF Live
      <3> QED
        BY <2>1, <3>1, <3>2
    <2>5. StatesInv'
      <3>1. Fired(c, fired)'
        BY <1>1, <1>2, <2>1 DEF Fired, Live
      <3>2. ASSUME NEW d \in Conditions
            PROVE  /\ states'[d].active => states'[d].fired # NeverFired
                   /\ states'[d].fired # NeverFired => (\E j \in DOMAIN Live' : <<d, j>> \in announced' /\ Live'[j].at = states'[d].fired)
        <4>1. CASE d = c
          BY <1>4, <1>5, <2>1, <3>1, <4>1 DEF Fired
        <4>2. CASE d # c
          <5>1. states'[d] = states[d] /\ (states[d].active => states[d].fired # NeverFired)
                /\ (states[d].fired # NeverFired => Fired(d, states[d].fired))
            BY <1>1, <1>4, <4>2 DEF StatesInv
          <5> QED
            BY <1>1, <2>1, <5>1 DEF Fired, Live
        <4> QED
          BY <4>1, <4>2
      <3> QED
        BY <3>2 DEF StatesInv, Fired
    <2>6. WorkDone(m)'
      BY <1>1, <2>1, WorkLasts DEF CheckedOf
    <2>7. Aside(m)
      <3>1. \A d \in Conditions : states[d].fired # NeverFired => states'[d].fired # NeverFired
        BY <1>4, <1>5, <2>1
      <3> QED
        BY <1>1, <2>1, <3>1, CheckAside
    <2> QED
      BY <2>2, <2>4, <2>5, <2>6, <2>7 DEF ChecksOn
  <1>7. CASE ~ Fires(m)
    <2>1. NextCheck(m) /\ UNCHANGED announced /\ fired = states[c].fired /\ SeenOf(m)
      BY <1>0, <1>1, <1>7 DEF HoldState, Fires, CheckedOf
    <2>2. fired # NeverFired
      BY <1>0, <2>1 DEF SeenOf
    <2>3. \A d \in Conditions : states'[d].fired = states[d].fired
      BY <1>4, <1>5, <2>1
    <2>4. StatesInv'
      BY <1>1, <1>4, <2>1, <2>2, <2>3 DEF StatesInv, Fired, Live
    <2>5. AnnouncedInv'
      BY <1>1, <2>1, AnnouncedLasts
    <2> QED
      BY <1>1, <2>1, <2>3, <2>4, <2>5, NextChecksOn, CheckAside
  <1> QED
    BY <1>6, <1>7

\* Every step of an alerting handler.
LEMMA AlertChecks ==
  ASSUME GroupInv, HandlerInv, CheckedInv, TablesGrow, NEW m \in Members, AlertStep(m)
  PROVE  ChecksOn(m) /\ Aside(m) /\ group = "alerting"
  <1>1. ChecksOn(m) /\ Aside(m)
    BY BeginChecks, ReadChecks, ClearChecks, HoldChecks, RaiseChecks DEF AlertStep
  <1>2. group = "alerting"
    BY DEF AlertStep, BeginAlerting, ReadState, ClearState, HoldState, Raise, HandlerInv, MemberInv, StepOf
  <1> QED
    BY <1>1, <1>2

\* And so an alerting handler that resolves its batch has settled the events of it.
LEMMA AlertsSettle ==
  ASSUME GroupInv, HandlerInv, CheckedInv, TablesGrow, NEW m \in Members, AlertStep(m),
         pc'[m] = "resolve", NEW i \in Events(batch[m])
  PROVE  Settled(batch[m].topic, i)'
  <1>1. /\ ChecksOn(m) /\ group = "alerting" /\ group' = "alerting" /\ UNCHANGED <<log, batch>>
    BY AlertChecks DEF TablesGrow, Aside
  <1>2. \A k \in 1 .. 3 : Done(AlertTypes[k], i)'
    BY <1>1 DEF ChecksOn
  <1>3. \A c \in Conditions : Done(c, i)'
    <2>1. \A c \in Conditions : \E k \in 1 .. 3 : c = AlertTypes[k]
      BY DEF Conditions, ToSet, AlertTypes
    <2> QED
      BY <1>2, <2>1
  <1>4. InBatch(m)
    BY DEF AlertStep, BeginAlerting, Begin, ReadState, ClearState, HoldState, Raise, InBatch
  <1>5. batch[m].topic = "live" /\ Live[i].ok
    BY <1>1, <1>4, OnLive
  <1>6. Live'[i].ok /\ Candidates(Live[i])' \subseteq Conditions
    BY <1>1, <1>5 DEF Live, Candidates
  <1> QED
    BY <1>1, <1>3, <1>5, <1>6 DEF Settled, HasEffect, Done, Live

\* The checks go on at every step.
LEMMA CheckedKept ==
  ASSUME GroupInv, GroupInv', HandlerInv, CommittedIsStored, CheckedInv, TablesGrow,
         [TelemetryNext]_telemetryVars
  PROVE  CheckedInv'
  <1> SUFFICES ASSUME group = "alerting" PROVE CheckedInv'
    BY DEF CheckedInv, TablesGrow
  <1>1. \A n \in Members : InBatch(n)' =>
          \A c \in Conditions : \A i \in 1 .. batch'[n].first - 1 : Done(c, i)'
    BY BeforeBatch
  <1>2. ASSUME Quiet
        PROVE  CheckedInv'
    BY <1>1, <1>2, QuietChecked DEF Quiet, Busy
  <1>3. ASSUME UNCHANGED handlerVars,
               UNCHANGED consumerVars \/ Rebalance \/ \E m \in Members : GroupStep(m)
        PROVE  CheckedInv'
    BY <1>2, <1>3, GroupIsQuiet
  <1>4. ASSUME NEW m \in Members,
               (HandlerFails(m) /\ DropWork(m)) \/ ((Leave(m) \/ Kill(m)) /\ Forget(m))
        PROVE  CheckedInv'
    BY <1>2, <1>4, LossIsQuiet
  <1>5. ASSUME NEW m \in Members, Register(m) \/ Lookup(m), UNCHANGED <<rows, engineVars, alertVars>>
        PROVE  CheckedInv'
    <2>1. /\ pc[m] \in {"register", "lookup"} /\ pc'[m] \in {"lookup", "store"}
          /\ \A n \in Members \ {m} : pc'[n] = pc[n]
          /\ UNCHANGED <<states, announced, work, seen, batch>>
      BY <1>5 DEF Register, Lookup, GoTo, HandlerFrame, alertVars, GroupInv, ConsumerTypeOK
    <2>2. AnnouncedInv' /\ StatesInv'
      BY <2>1, AnnouncedLasts DEF CheckedInv, StatesInv, Fired, TablesGrow, Live
    <2>3. CheckedOf(m) /\ CheckedOf(m)'
      <3>1. CheckedOf(m) /\ WorkDone(m)'
        BY <2>1, WorkLasts DEF CheckedInv, CheckedOf
      <3> QED
        BY <1>1, <2>1, <3>1 DEF CheckedOf
    <2> QED
      BY <2>1, <2>2, <2>3, OneChecks, ConditionType
  <1>6. ASSUME NEW m \in Members, AlertStep(m)
        PROVE  CheckedInv'
    <2>1. ChecksOn(m) /\ Aside(m)
      BY <1>6, AlertChecks
    <2>2. CheckedOf(m)' /\ AnnouncedInv' /\ StatesInv'
      BY <1>1, <2>1 DEF ChecksOn, CheckedOf
    <2> QED
      BY <2>1, <2>2, OneChecks, ConditionType DEF Aside
  <1>7. ASSUME NEW m \in Members, WriterStep(m) \/ EngineStep(m)
        PROVE  FALSE
    BY <1>7 DEF WriterStep, BeginLocations, InsertLocations, BeginFuel, InsertFuel, InsertRefused,
       EngineStep, BeginEngine, Seed, Scan, InsertTransitions, HandlerInv, MemberInv, StepOf
  <1> QED
    BY <1>3, <1>4, <1>5, <1>6, <1>7 DEF TelemetryNext, HandlerStep, telemetryVars

\* However a handler comes to resolve its batch, it has settled it.
LEMMA HandlerSettles ==
  ASSUME GroupInv, HandlerInv, CheckedInv, TablesGrow, NEW m \in Members,
         \/ HandlerStep(m) \/ Register(m) \/ Lookup(m),
         pc'[m] = "resolve"
  PROVE  BatchSettled(m)'
  <1>1. CASE BeginLocations(m) \/ BeginFuel(m) \/ BeginEngine(m)
    <2>1. /\ pc[m] \in HandlerSteps /\ UNCHANGED batch
          /\ \/ group = "locations" /\ Positioned(batch[m]) = {}
             \/ group = "fuel" /\ WithFuel(batch[m]) = {}
             \/ group = "engine" /\ Relevant(batch[m]) = {}
      BY <1>1 DEF BeginLocations, BeginFuel, BeginEngine, Begin, Resolve, GoTo, HandlerFrame, HandlerSteps,
                  GroupInv, ConsumerTypeOK
    <2> QED
      BY <2>1, NothingRelevant, HandlerResolves
  <1>2. CASE AlertStep(m)
    <2>1. Moves(m)
      BY <1>2, AlertMoves DEF GroupInv
    <2>2. \A i \in Events(batch[m]) : Settled(batch[m].topic, i)'
      BY <1>2, AlertsSettle
    <2> QED
      BY <2>1, <2>2, HandlerResolves DEF Moves, HandlerFrame
  <1>3. CASE InsertLocations(m) \/ InsertFuel(m) \/ InsertTransitions(m)
    <2>1. pc[m] \in HandlerSteps /\ UNCHANGED batch
      BY <1>3 DEF InsertLocations, InsertFuel, InsertTransitions, HandlerFrame, HandlerSteps
    <2> QED
      BY <1>3, <2>1, InsertsSettle, HandlerResolves
  <1>4. CASE Scan(m)
    <2>1. pc[m] = "seed" /\ Changes(m) = {} /\ UNCHANGED batch
      BY <1>4 DEF Scan, GoTo, HandlerFrame, GroupInv, ConsumerTypeOK
    <2> QED
      BY <2>1, ScanSettles, HandlerResolves DEF HandlerSteps
  <1>5. CASE Seed(m) \/ Register(m) \/ Lookup(m) \/ InsertRefused(m)
    BY <1>5 DEF Seed, Register, Lookup, InsertRefused, GiveBack, GoTo, GroupInv, ConsumerTypeOK
  <1> QED
    BY <1>1, <1>2, <1>3, <1>4, <1>5 DEF HandlerStep, WriterStep, EngineStep

\* What becomes of a member by a step of another, or by a quiet one of its own.
LEMMA SettledLasts ==
  ASSUME GroupInv, HandlerInv, TablesGrow, NEW m \in Members, BatchSettled(m), batch'[m] = batch[m]
  PROVE  BatchSettled(m)'
  <1>1. PICK t : t = batch[m].topic /\ t = batch'[m].topic
    OBVIOUS
  <1>2. \A i \in batch[m].first .. batch[m].last : Settled(t, i)'
    BY <1>1, EffectLasts DEF BatchSettled
  <1> QED
    BY <1>1, <1>2 DEF BatchSettled, Settled, HasEffect

\* Resolved batches are settled, at each step.
LEMMA ResolvedKept ==
  ASSUME GroupInv, GroupInv', HandlerInv, CheckedInv, TablesGrow, ResolvedInv, [TelemetryNext]_telemetryVars
  PROVE  ResolvedInv'
  <1> SUFFICES ASSUME NEW m \in Members, pc'[m] = "resolve"
               PROVE  BatchSettled(m)'
    BY DEF ResolvedInv
  <1>1. CASE pc[m] = "resolve" /\ batch'[m] = batch[m]
    BY <1>1, SettledLasts DEF ResolvedInv
  <1>2. CASE Rebalance \/ UNCHANGED consumerVars
    BY <1>1, <1>2 DEF Rebalance, consumerVars
  <1>3. ASSUME NEW n \in Members, MemberMoves(n), n # m
        PROVE  pc[m] = "resolve" /\ batch'[m] = batch[m]
    BY <1>3, ZenonT(60) DEF MemberMoves, Join, Evict, Stop, Fetch, DeadLetter, Decode, ReturnEarly, Commit,
                GivesBack, GiveBack, Ends, Gone, Moves, HandlerFrame, GroupInv, ConsumerTypeOK
  <1>4. CASE GroupStep(m)
    <2>1. CASE Join(m) \/ Evict(m) \/ Stop(m) \/ Commit(m) \/ CommitFails(m)
      BY <1>1, <2>1 DEF Join, Evict, Stop, Commit, CommitFails, GiveBack, GroupInv, ConsumerTypeOK
    <2>2. CASE ReturnEarly(m)
      BY <2>2, EarlySettles
    <2>3. CASE DeadLetter(m)
      <3>1. Decode(m, batch[m]) /\ UNCHANGED log
            /\ batch[m] \in [topic : Topics, first : Nat, last : Nat, pos : Nat]
        BY <2>3 DEF DeadLetter, GroupInv, ConsumerTypeOK
      <3> QED
        BY <3>1, DecodeSettles
    <2>4. ASSUME NEW t \in Topics, NEW n \in 1 .. Len(log[t]), Fetch(m, t, n)
          PROVE  BatchSettled(m)'
      <3> DEFINE b == [topic |-> t, first |-> committed[t] + 1, last |-> committed[t] + n,
                       pos |-> committed[t]]
      <3>1. Decode(m, b) /\ UNCHANGED log
        BY <2>4 DEF Fetch
      <3>2. committed[t] \in Nat /\ n \in Nat
        BY DEF GroupInv, ConsumerTypeOK
      <3>3. b \in [topic : Topics, first : Nat, last : Nat, pos : Nat]
        BY <3>2
      <3> HIDE DEF b
      <3> QED
        BY <3>1, <3>3, DecodeSettles
    <2> QED
      BY <1>4, <2>1, <2>2, <2>3, <2>4 DEF GroupStep
  <1>5. CASE HandlerStep(m) \/ Register(m) \/ Lookup(m)
    BY <1>5, HandlerSettles
  <1>6. CASE HandlerFails(m) \/ Leave(m) \/ Kill(m)
    BY <1>6 DEF HandlerFails, Leave, Kill, GiveBack, Gone, GroupInv, ConsumerTypeOK
  <1>7. CASE Rebalance \/ UNCHANGED consumerVars \/ \E n \in Members \ {m} : MemberMoves(n)
    BY <1>1, <1>2, <1>3, <1>7
  <1>8. CASE TelemetryNext /\ ~ Rebalance /\ ~ UNCHANGED consumerVars
             /\ ~ \E n \in Members \ {m} : MemberMoves(n)
    <2>1. \E n \in Members : \/ GroupStep(n) \/ HandlerFails(n) \/ Leave(n) \/ Kill(n)
                             \/ Register(n) \/ Lookup(n) \/ HandlerStep(n)
      BY <1>8 DEF TelemetryNext
    <2>2. ASSUME NEW n \in Members,
                 \/ GroupStep(n) \/ HandlerFails(n) \/ Leave(n) \/ Kill(n)
                 \/ Register(n) \/ Lookup(n) \/ HandlerStep(n)
          PROVE  MemberMoves(n)
      BY <2>2, StepsAreMoves DEF GroupInv
    <2> QED
      BY <1>4, <1>5, <1>6, <1>8, <2>1, <2>2
  <1> QED
    BY <1>7, <1>8 DEF telemetryVars

\* What is committed is settled, at each step.
LEMMA CommittedKept ==
  ASSUME GroupInv, HandlerInv, TablesGrow, ResolvedInv, CommittedIsStored,
         [TelemetryNext]_telemetryVars
  PROVE  CommittedIsStored'
  <1> SUFFICES ASSUME NEW t \in Topics, NEW i \in 1 .. committed'[t]
               PROVE  Settled(t, i)'
    BY DEF CommittedIsStored, Settled
  <1>1. i \in 1 .. committed[t] => Settled(t, i)
    BY DEF CommittedIsStored, Settled
  <1>2. CASE committed' = committed
    BY <1>1, <1>2, EffectLasts
  <1>3. ASSUME NEW m \in Members, Commit(m)
        PROVE  Settled(t, i)
    <2>1. /\ InBatch(m) /\ m \notin fenced /\ BatchOf(m) /\ BatchSettled(m)
          /\ committed' = [committed EXCEPT ![batch[m].topic] = batch[m].last]
      BY <1>3 DEF Commit, InBatch, GroupInv, BatchesInv, ResolvedInv
    <2>2. CASE t = batch[m].topic
      <3>1. /\ batch[m].first \in Nat /\ batch[m].last \in Nat /\ committed[t] = batch[m].first - 1
            /\ committed'[t] = batch[m].last
        BY <2>1, <2>2 DEF BatchOf, GroupInv, ConsumerTypeOK
      <3>2. i \in 1 .. committed[t] \/ i \in batch[m].first .. batch[m].last
        BY <3>1
      <3> QED
        BY <1>1, <2>1, <2>2, <3>2 DEF BatchSettled
    <2>3. CASE t # batch[m].topic
      <3>1. committed'[t] = committed[t]
        BY <2>1, <2>3 DEF GroupInv, ConsumerTypeOK
      <3> QED
        BY <1>1, <3>1
    <2> QED
      BY <2>2, <2>3
  <1>4. committed' = committed \/ \E m \in Members : Commit(m)
    BY GroupSteps DEF GroupInv, MemberMoves, Rebalance, consumerVars, Join, Evict, Stop, Fetch, DeadLetter,
       ReturnEarly, GivesBack, GiveBack, Ends, Gone, Moves, HandlerFrame
  <1> QED
    BY <1>2, <1>3, <1>4, EffectLasts

-----------------------------------------------------------------------------
(* The theorems.                                                           *)

DeliveredInv == GroupInv /\ HandlerInv /\ CheckedInv /\ ResolvedInv /\ CommittedIsStored

\* The inductive invariant holds at the start.
LEMMA DeliveredInit ==
  ASSUME TelemetryInit
  PROVE  DeliveredInv
  <1>1. GroupInv
    <2>1. /\ group \in Groups /\ log \in Logs[group]
          /\ \A t \in Topics : Len(log[t]) \in Nat
      BY ConsumerAssumption DEF TelemetryInit, ConsumerInit
    <2>2. ConsumerTypeOK
      <3>1. /\ committed = [t \in Topics |-> 0] /\ owner = [t \in Topics |-> NoMember]
            /\ settled = FALSE /\ pc = [m \in Members |-> "down"]
            /\ batch = [m \in Members |-> NoBatch]
            /\ fenced = {} /\ stopping = {} /\ dead = {} /\ cutShort = {}
            /\ faults = 0
        BY DEF TelemetryInit, ConsumerInit
      <3>2. committed \in [Topics -> Nat] /\ \A t \in Topics : committed[t] <= Len(log[t])
        BY <2>1, <3>1
      <3>3. owner \in [Topics -> Members \cup {NoMember}] /\ settled \in BOOLEAN
        BY <3>1
      <3>4. pc \in [Members -> Steps]
        BY <3>1 DEF Steps
      <3>5. batch \in [Members -> [topic : Topics, first : Nat, last : Nat, pos : Nat]]
        BY <3>1, NoBatchType
      <3>6. fenced \subseteq Members /\ stopping \subseteq Members /\ dead \subseteq Places
            /\ cutShort \subseteq Places
        BY <3>1
      <3>7. group \in Groups /\ faults \in Nat
        BY <2>1, <3>1, SMT
      <3> QED
        BY <3>2, <3>3, <3>4, <3>5, <3>6, <3>7, Zenon DEF ConsumerTypeOK
    <2>3. \A m \in Members : ~ InBatch(m) /\ m \notin fenced
      BY DEF TelemetryInit, ConsumerInit, InBatch
    <2> QED
      BY <2>1, <2>2, <2>3 DEF GroupInv, LogInv, BatchesInv, BatchOf, DecodedInv
  <1>2. HandlerTypeOK
    <2>1. NoMemory \in [loaded : BOOLEAN, state : [Inputs -> Values]] /\ NoState \in States
          /\ NoCheck \in Checks
      BY AlertAssumption DEF NoMemory, Unknown, Values, NoState, States, NeverFired, NoCheck, Checks, AlertTypes
    <2>2. VehicleTypeOK /\ RowsTypeOK
      BY DEF TelemetryInit, VehicleInit, VehicleTypeOK, RowsInit, RowsTypeOK
    <2>3. EngineTypeOK
      BY <2>1 DEF TelemetryInit, EngineInit, EngineTypeOK
    <2>4. AlertTypeOK
      BY <2>1 DEF TelemetryInit, AlertInit, AlertTypeOK
    <2> QED
      BY <2>2, <2>3, <2>4 DEF HandlerTypeOK
  <1>3. HandlerInv
    BY <1>2 DEF TelemetryInit, ConsumerInit, VehicleInit, RowsInit, EngineInit, HandlerInv, MemberInv,
                StepOf, KnownOf, FoundOf, WorkOf
  <1>4. ResolvedInv /\ CommittedIsStored
    BY DEF TelemetryInit, ConsumerInit, ResolvedInv, CommittedIsStored
  <1>5. CheckedInv
    BY DEF TelemetryInit, ConsumerInit, AlertInit, CheckedInv, AnnouncedInv, StatesInv, CheckedOf,
           InBatch, NoState, NeverFired
  <1> QED
    BY <1>1, <1>3, <1>4, <1>5 DEF DeliveredInv

\* The inductive invariant holds at each step.
LEMMA DeliveredKept ==
  ASSUME DeliveredInv, [TelemetryNext]_telemetryVars
  PROVE  DeliveredInv'
  <1>1. GroupInv' /\ HandlerInv' /\ TablesGrow
    BY GroupInvKept, HandlerInvKept, TablesOnlyGrow DEF DeliveredInv
  <1>2. ResolvedInv' /\ CommittedIsStored' /\ CheckedInv'
    BY <1>1, ResolvedKept, CommittedKept, CheckedKept DEF DeliveredInv
  <1> QED
    BY <1>1, <1>2 DEF DeliveredInv

\* The inductive invariant: the groups, the handlers, and what is resolved and
\* committed.
THEOREM DeliveredAlways == TelemetrySpec => []DeliveredInv
  BY DeliveredInit, DeliveredKept, PTL DEF TelemetrySpec

\* Every variable of the consumers keeps its type: in particular all times of alerts
\* are those of readings, and offsets stay within their logs.
THEOREM TelemetryTypesHold == TelemetrySpec => []TelemetryTypeOK
  <1>1. DeliveredInv => TelemetryTypeOK
    BY DEF DeliveredInv, GroupInv, HandlerInv, HandlerTypeOK, TelemetryTypeOK
  <1> QED
    BY <1>1, DeliveredAlways, PTL

\* The offsets a group commits are those of messages that are stored, dead-lettered
\* or in a batch that a stop cut short, and in the alerting group of readings whose
\* conditions have had an alert announced that lasts to them, unless a call left them
\* out as stale (consumer.ts, client.ts): crashes, evictions, rebalances and refused
\* inserts lose nothing.
THEOREM OnlyTheStoredIsCommitted == TelemetrySpec => []CommittedIsStored
  <1>1. DeliveredInv => CommittedIsStored
    BY DEF DeliveredInv
  <1> QED
    BY <1>1, DeliveredAlways, PTL

\* Replicas that see a device for the first time at once end up with one vehicle
\* for it (vehicles.ts): what they cache and the rows they store name the same.
THEOREM OneVehiclePerDevice == TelemetrySpec => []VehiclesAgree
  <1>1. DeliveredInv => VehiclesAgree
    BY DEF DeliveredInv, HandlerInv, MemberInv, KnownOf, VehiclesAgree
  <1> QED
    BY <1>1, DeliveredAlways, PTL

-----------------------------------------------------------------------------
(* Transitions.                                                            *)

\* A witness is there for good.
LEMMA WitnessLasts ==
  ASSUME TablesGrow, NEW k, NEW v, Witnessed(k, v)
  PROVE  Witnessed(k, v)'
  BY DEF TablesGrow, Witnessed

\* So is what makes a transition a reported one.
LEMMA ReportLasts ==
  ASSUME TablesGrow, NEW r, Reported(r)
  PROVE  Reported(r)'
  <1>1. \A k, v : Against(k, v) => Against(k, v)'
    BY DEF TablesGrow, Against, Contradicts
  <1>2. \A t, i : ReportedAt(r, t, i) => ReportedAt(r, t, i)'
    BY <1>1 DEF TablesGrow, ReportedAt
  <1> QED
    BY <1>2 DEF TablesGrow, Reported

\* Seeding takes the newest stored transition, which is a row.
LEMMA SeedWitnessed ==
  ASSUME HandlerInv, NEW m \in Members, Seed(m), NEW k \in Inputs, memory'[m].state[k] # "none"
  PROVE  Witnessed(k, memory'[m].state[k])
  <1>1. memory'[m].state[k] \in LastTransition(known[m], k)
    BY DEF Seed, HandlerInv, HandlerTypeOK, EngineTypeOK
  <1>2. \E s \in rows : s.key[1] = k /\ s.key[2] = memory'[m].state[k]
    BY <1>1 DEF LastTransition
  <1> QED
    BY <1>2 DEF Witnessed

\* What the loop has in mind a live reading or a row bears witness to.
LEMMA ScanWitnessed ==
  ASSUME GroupInv, HandlerInv, InventedInv, group = "engine", NEW m \in Members, InBatch(m), NEW i,
         NEW k \in Inputs, StateAt(m, i)[k] # "none"
  PROVE  Witnessed(k, StateAt(m, i)[k])
  <1>1. CASE StateAt(m, i)[k] = memory[m].state[k]
    BY <1>1 DEF InventedInv
  <1>2. CASE /\ batch[m].topic = "live"
             /\ \E j \in Events(batch[m]) : StateAt(m, i)[k] = Message(m, j).input[k]
    <2>1. PICK j \in Events(batch[m]) : StateAt(m, i)[k] = Message(m, j).input[k]
      BY <1>2
    <2>2. /\ j \in 1 .. Len(log[batch[m].topic]) /\ Message(m, j).ok
          /\ log[batch[m].topic] \in Seq(Readings)
      BY <2>1, EventType, ConsumerAssumption DEF GroupInv, ConsumerTypeOK, LogInv
    <2> QED
      BY <1>2, <2>1, <2>2 DEF Witnessed, Message
  <1> QED
    BY <1>1, <1>2, StateFrom

\* The loop collects reported transitions only.
LEMMA ChangeReported ==
  ASSUME GroupInv, HandlerInv, InventedInv, NEW m \in Members, pc[m] = "seed", NEW r \in Changes(m)
  PROVE  Reported(r)
  <1>1. InBatch(m) /\ group = "engine" /\ batch[m].topic \in Topics
    BY DEF InBatch, HandlerInv, MemberInv, StepOf, GroupInv, ConsumerTypeOK
  <1>2. PICK i \in Relevant(batch[m]) : \E k \in Inputs :
          /\ k \in TransitionsFor(Message(m, i), StateAt(m, i), batch[m].topic = "live")
          /\ r = Row(known[m], Message(m, i), <<k, Message(m, i).input[k]>>)
    BY ChangeType
  <1>3. PICK k \in Inputs :
          /\ k \in TransitionsFor(Message(m, i), StateAt(m, i), batch[m].topic = "live")
          /\ r = Row(known[m], Message(m, i), <<k, Message(m, i).input[k]>>)
    BY <1>2
  <1>4. /\ r.at = Message(m, i).at /\ r.key[1] = k /\ r.key[2] = Message(m, i).input[k]
    BY <1>3 DEF Row
  <1>5. i \in 1 .. Len(log[batch[m].topic]) /\ Message(m, i).ok
    BY <1>1, EventType DEF Relevant
  <1>6. Message(m, i).cause = k \/ (batch[m].topic = "live" /\ Against(k, r.key[2]))
    <2>1. CASE Notices(Message(m, i), StateAt(m, i), batch[m].topic = "live", k)
      <3> DEFINE v == StateAt(m, i)[k]
      <3>1. batch[m].topic = "live" /\ v # "none" /\ v # r.key[2]
        BY <1>4, <2>1 DEF Notices
      <3>2. Witnessed(k, v)
        BY <1>1, <3>1, ScanWitnessed
      <3> HIDE DEF v
      <3>3. Against(k, r.key[2])
        BY <3>1, <3>2 DEF Witnessed, Against, Contradicts
      <3> QED
        BY <3>1, <3>3
    <2> QED
      BY <1>3, <2>1 DEF TransitionsFor
  <1> QED
    BY <1>1, <1>4, <1>5, <1>6 DEF Reported, ReportedAt, Message

\* Steps other than those of the engine consumer's loop.
LEMMA OthersInventNothing ==
  ASSUME HandlerInv, TablesGrow, InventedInv,
         \A n \in Members, k \in Inputs : memory'[n].state[k] \in {memory[n].state[k], "none"},
         \A n \in Members : found'[n] \subseteq found[n],
         group = "engine" => \A r \in rows' : r \in rows \/ \E n \in Members : r \in found[n]
  PROVE  InventedInv'
  <1> SUFFICES ASSUME group = "engine" PROVE InventedInv'
    BY DEF InventedInv, TablesGrow
  <1>1. \A r \in rows' : Reported(r)'
    BY ReportLasts DEF InventedInv
  <1>2. \A n \in Members : \A r \in found'[n] : Reported(r)'
    BY ReportLasts DEF InventedInv
  <1>3. \A n \in Members, k \in Inputs :
          memory'[n].state[k] # "none" => Witnessed(k, memory[n].state[k])
                                          /\ memory'[n].state[k] = memory[n].state[k]
    BY DEF InventedInv
  <1>4. \A k, v : Witnessed(k, v) => Witnessed(k, v)'
    BY WitnessLasts
  <1>5. \A n \in Members, k \in Inputs :
          memory'[n].state[k] # "none" => Witnessed(k, memory[n].state[k])'
    BY <1>3 DEF TablesGrow, Witnessed
  <1> QED
    BY <1>1, <1>2, <1>3, <1>5 DEF InventedInv, Witnessed

\* The other steps of the engine consumer.
LEMMA InsertsInventNothing ==
  ASSUME HandlerInv, TablesGrow, InventedInv, NEW m \in Members, EngineStep(m),
         ~ Seed(m), ~ Scan(m)
  PROVE  InventedInv'
  <1>1. memory' = memory
    BY DEF EngineStep, BeginEngine, InsertTransitions, engineVars
  <1>2. \A n \in Members : found'[n] \subseteq found[n]
    BY DEF EngineStep, BeginEngine, InsertTransitions, engineVars, HandlerInv, HandlerTypeOK, EngineTypeOK
  <1>3. \A r \in rows' : r \in rows \/ r \in found[m]
    BY DEF EngineStep, BeginEngine, InsertTransitions
  <1> QED
    BY <1>1, <1>2, <1>3, OthersInventNothing

\* Its seeding and its loop.
LEMMA LoopInventsNothing ==
  ASSUME GroupInv, HandlerInv, TablesGrow, InventedInv, NEW m \in Members, Seed(m) \/ Scan(m)
  PROVE  InventedInv'
  <1>1. /\ UNCHANGED <<group, log, rows>> /\ pc[m] = "seed" /\ InBatch(m) /\ group = "engine"
    BY DEF Seed, Scan, HandlerFrame, InBatch, HandlerInv, MemberInv, StepOf
  <1>2. \A r \in rows' : Reported(r)'
    BY <1>1, ReportLasts DEF InventedInv
  <1>3. ASSUME NEW n \in Members, NEW r \in found'[n]
        PROVE  Reported(r)
    <2>1. found'[n] = found[n] \/ found'[n] = Changes(m)
      BY DEF Seed, Scan, HandlerInv, HandlerTypeOK, EngineTypeOK
    <2> QED
      BY <1>1, <1>3, <2>1, ChangeReported DEF InventedInv
  <1>4. ASSUME NEW n \in Members, NEW k \in Inputs, memory'[n].state[k] # "none"
        PROVE  Witnessed(k, memory'[n].state[k])
    <2>1. CASE memory'[n] = memory[n]
      BY <1>1, <1>4, <2>1 DEF InventedInv
    <2>2. CASE Seed(m) /\ n = m
      BY <1>4, <2>2, SeedWitnessed
    <2>3. CASE Scan(m) /\ n = m
      <3>1. memory'[m].state = StateAt(m, batch[m].last + 1)
        BY <2>3 DEF Scan, HandlerInv, HandlerTypeOK, EngineTypeOK
      <3> QED
        BY <1>1, <1>4, <2>3, <3>1, ScanWitnessed
    <2>4. n # m => memory'[n] = memory[n]
      BY DEF Seed, Scan, HandlerInv, HandlerTypeOK, EngineTypeOK
    <2> QED
      BY <2>1, <2>2, <2>3, <2>4
  <1> QED
    BY <1>1, <1>2, <1>3, <1>4, ReportLasts DEF InventedInv, Witnessed

\* Nothing is invented at any step.
LEMMA InventedKept ==
  ASSUME GroupInv, HandlerInv, TablesGrow, InventedInv, [TelemetryNext]_telemetryVars
  PROVE  InventedInv'
  <1>1. CASE \E m \in Members : EngineStep(m)
    BY <1>1, InsertsInventNothing, LoopInventsNothing
  <1>2. CASE ~ \E m \in Members : EngineStep(m)
    <2>1. \A n \in Members, k \in Inputs : memory'[n].state[k] \in {memory[n].state[k], "none"}
      <3>1. memory' = memory \/ \E m \in Members : memory' = [memory EXCEPT ![m] = NoMemory]
        BY <1>2 DEF TelemetryNext, telemetryVars, handlerVars, DropWork, Forget, Register, Lookup,
                    HandlerStep, AlertStep, BeginAlerting, ReadState, ClearState, HoldState, Raise,
                    AlertFrame, engineVars
      <3> QED
        BY <3>1 DEF NoMemory, Unknown, HandlerInv, HandlerTypeOK, EngineTypeOK
    <2>2. \A n \in Members : found'[n] \subseteq found[n]
      <3>1. found' = found \/ \E m \in Members : found' = [found EXCEPT ![m] = {}]
        BY <1>2 DEF TelemetryNext, telemetryVars, handlerVars, DropWork, Forget, Register, Lookup,
                    HandlerStep, AlertStep, BeginAlerting, ReadState, ClearState, HoldState, Raise,
                    AlertFrame, engineVars
      <3> QED
        BY <3>1 DEF HandlerInv, HandlerTypeOK, EngineTypeOK
    <2>3. group = "engine" => rows' = rows
      BY <1>2 DEF TelemetryNext, telemetryVars, handlerVars, DropWork, Forget, Register, Lookup,
                  HandlerStep, WriterStep, BeginLocations, InsertLocations, BeginFuel, InsertFuel,
                  InsertRefused, AlertStep, BeginAlerting, ReadState, ClearState, HoldState, Raise,
                  AlertFrame
    <2> QED
      BY <2>1, <2>2, <2>3, OthersInventNothing
  <1> QED
    BY <1>1, <1>2

\* The inductive invariant: what is stored or found is reported, and what is
\* remembered has a witness.
THEOREM InventedNever == TelemetrySpec => []InventedInv
  <1>1. TelemetryInit => InventedInv
    BY DEF TelemetryInit, RowsInit, EngineInit, NoMemory, Unknown, InventedInv
  <1>2. DeliveredInv /\ InventedInv /\ [TelemetryNext]_telemetryVars => InventedInv'
    BY TablesOnlyGrow, InventedKept DEF DeliveredInv
  <1> QED
    BY <1>1, <1>2, DeliveredAlways, PTL DEF TelemetrySpec

\* The engine consumer stores no transition that the device did not report, unless
\* live readings, or a row, disagree about the input (engine.ts): in whatever order
\* the topics are read and however often batches are handed out again.
THEOREM TransitionsAreNotInvented == TelemetrySpec => []NothingInvented
  <1>1. InventedInv => NothingInvented
    <2> SUFFICES ASSUME InventedInv, group = "engine", NEW r \in rows
                 PROVE  \E t \in Topics : \E i \in 1 .. Len(log[t]) :
                          LET e == log[t][i]
                              k == r.key[1]
                          IN  /\ e.ok /\ e.at = r.at /\ e.input[k] = r.key[2]
                              /\ \/ e.cause = k
                                 \/ /\ t = "live"
                                    /\ \/ \E j \in DOMAIN log[t] : Contradicts(k, r.key[2], log[t][j])
                                       \/ \E s \in rows : s.key[1] = k /\ s.key[2] # r.key[2]
      BY DEF NothingInvented
    <2>1. PICK t \in Topics : \E i \in 1 .. Len(log[t]) : ReportedAt(r, t, i)
      BY DEF InventedInv, Reported
    <2>2. PICK i \in 1 .. Len(log[t]) : ReportedAt(r, t, i)
      BY <2>1
    <2> WITNESS t \in Topics
    <2> WITNESS i \in 1 .. Len(log[t])
    <2> QED
      BY <2>2 DEF ReportedAt, Against
  <1> QED
    BY <1>1, InventedNever, PTL

-----------------------------------------------------------------------------
(* The alerting consumer raises an alert for a reading again only on       *)
(* account of a failure (AlertCopiesAreRetries).                           *)
(*                                                                         *)
(* A check of a reading that is still to come is a share: either that of   *)
(* the group, which has yet to get to the reading by what it has committed *)
(* and what its members have in hand, or that of a member the broker has   *)
(* evicted, whose handler runs on.  An alert costs a share, and only a     *)
(* failure makes new ones, one for each reading at most.                   *)


\* The readings of a time.
At(a) == {i \in DOMAIN Live : Live[i].at = a}

\* The handler of m has reading i still to check for condition c.
Left(m, c, i) ==
  \/ /\ pc[m] \in {"deadletter", "handler"}
     /\ i \in batch[m].first .. batch[m].last
  \/ /\ pc[m] \in {"register", "lookup", "store", "write", "raise"}
     /\ \E k \in DOMAIN AlertTypes : AlertTypes[k] = c /\ Ahead(work[m], k, i)

\* The member that has its batch on behalf of the group.
Acting(m) == InBatch(m) /\ m \notin fenced

\* A check of reading i for condition c that is still to come: the group's, in
\* the name of NoMember, or that of an evicted member.
Share(n, c, i) ==
  IF n = NoMember
    THEN /\ i > committed["live"]
         /\ \A m \in Members : Acting(m) /\ i <= batch[m].last => Left(m, c, i)
    ELSE n \in fenced /\ Left(n, c, i)

Shares(c, a) == {x \in (Members \cup {NoMember}) \X At(a) : Share(x[1], c, x[2])}

\* What was raised and what may still be.
Budget(c, a) ==
  /\ IsFiniteSet(Shares(c, a))
  /\ alerts[<<c, a>>] + Cardinality(Shares(c, a)) <= Cardinality(At(a)) * (1 + faults)

BudgetInv ==
  \A c \in Conditions, a \in 1 .. MaxTime :
    IF group = "alerting" THEN Budget(c, a) ELSE alerts[<<c, a>>] = 0

-----------------------------------------------------------------------------
(* Counting.                                                               *)

\* A set is at most as large as another that has an element for each of its own.
LEMMA NewShares ==
  ASSUME NEW T, IsFiniteSet(T), NEW N, \A x \in N : x[2] \in T,
         \A x, y \in N : x[2] = y[2] => x = y
  PROVE  IsFiniteSet(N) /\ Cardinality(N) <= Cardinality(T)
  <1> DEFINE f == [x \in N |-> x[2]]
  <1>1. f \in Injection(N, T)
    BY DEF Injection, IsInjective
  <1> QED
    BY <1>1, FS_Injection

\* What a set may gain.
LEMMA Gains ==
  ASSUME NEW T, IsFiniteSet(T), NEW S, IsFiniteSet(S), NEW U,
         \A x \in U \ S : x[2] \in T,
         \A x, y \in U \ S : x[2] = y[2] => x = y
  PROVE  IsFiniteSet(U) /\ Cardinality(U) <= Cardinality(S) + Cardinality(T)
  <1>1. IsFiniteSet(U \ S) /\ Cardinality(U \ S) <= Cardinality(T)
    BY NewShares
  <1>2. /\ IsFiniteSet(S \cup (U \ S))
        /\ Cardinality(S \cup (U \ S)) =
             Cardinality(S) + Cardinality(U \ S) - Cardinality(S \cap (U \ S))
    BY <1>1, FS_Union
  <1>3. S \cap (U \ S) = {} /\ U \subseteq S \cup (U \ S)
    OBVIOUS
  <1>4. Cardinality(S \cap (U \ S)) = 0
    BY <1>3, FS_EmptySet
  <1>5. IsFiniteSet(U) /\ Cardinality(U) <= Cardinality(S \cup (U \ S))
    BY <1>2, <1>3, FS_Subset
  <1>6. /\ Cardinality(U) \in Nat /\ Cardinality(S) \in Nat /\ Cardinality(T) \in Nat
        /\ Cardinality(U \ S) \in Nat
    BY <1>1, <1>5, FS_CardinalityType
  <1> QED
    BY <1>1, <1>2, <1>4, <1>5, <1>6

\* There are finitely many readings of a time.
LEMMA AtFinite ==
  ASSUME GroupInv, NEW a
  PROVE  IsFiniteSet(At(a)) /\ Cardinality(At(a)) \in Nat /\ At(a) \subseteq Nat
  <1>1. Len(Live) \in Nat /\ DOMAIN Live = 1 .. Len(Live)
    BY ConsumerAssumption DEF GroupInv, ConsumerTypeOK, LogInv, Live, Topics
  <1>2. IsFiniteSet(1 .. Len(Live))
    BY <1>1, FS_Interval
  <1>3. At(a) \in SUBSET (1 .. Len(Live))
    BY <1>1 DEF At
  <1>4. IsFiniteSet(At(a))
    BY <1>2, <1>3, FS_Subset
  <1> QED
    BY <1>1, <1>3, <1>4, FS_CardinalityType

\* A further failure pays for a further alert of each reading.
LEMMA FailurePays ==
  ASSUME NEW k \in Nat, NEW f \in Nat
  PROVE  k * (1 + (f + 1)) = k * (1 + f) + k /\ k * (1 + f) \in Nat
  OBVIOUS

-----------------------------------------------------------------------------
(* Shares.                                                                 *)

\* A step that no failure is to blame for makes no shares.
Calm ==
  /\ UNCHANGED <<log, committed>> /\ fenced' \subseteq fenced
  /\ \A m \in Members : Acting(m) => Acting(m)' /\ batch'[m].last = batch[m].last
  /\ \A m \in Members : \A c, i : (m \in fenced' \/ Acting(m)) /\ Left(m, c, i)' => Left(m, c, i)

\* A calm step leaves the shares in a reading where they are or takes some away.
LEMMA CalmKeeps ==
  ASSUME Calm, NEW c, NEW a
  PROVE  Shares(c, a)' \subseteq Shares(c, a)
  <1>1. At(a)' = At(a)
    BY DEF Calm, At, Live
  <1>2. ASSUME NEW n \in Members \cup {NoMember}, NEW i, Share(n, c, i)'
        PROVE  Share(n, c, i)
    <2>1. CASE n = NoMember
      BY <1>2, <2>1 DEF Share, Calm
    <2>2. CASE n # NoMember
      BY <1>2, <2>2 DEF Share, Calm
    <2> QED
      BY <2>1, <2>2
  <1> QED
    BY <1>1, <1>2 DEF Shares

\* A budget kept without shares being made.
LEMMA BudgetKept ==
  ASSUME GroupInv, NEW c, NEW a, Budget(c, a), Shares(c, a)' \subseteq Shares(c, a),
         alerts[<<c, a>>] \in Nat,
         alerts'[<<c, a>>] = alerts[<<c, a>>], UNCHANGED log,
         faults \in Nat, faults' = faults \/ faults' = faults + 1
  PROVE  Budget(c, a)'
  <1> DEFINE S == Shares(c, a)
             U == Shares(c, a)'
             k == Cardinality(At(a))
  <1>1. IsFiniteSet(U) /\ Cardinality(U) <= Cardinality(S)
    BY FS_Subset DEF Budget
  <1>2. Cardinality(S) \in Nat /\ Cardinality(U) \in Nat /\ k \in Nat /\ At(a)' = At(a)
    BY <1>1, AtFinite, FS_CardinalityType DEF Budget, At, Live
  <1>3. alerts[<<c, a>>] + Cardinality(S) <= k * (1 + faults)
    BY DEF Budget
  <1>4. k * (1 + (faults + 1)) = k * (1 + faults) + k /\ k * (1 + faults) \in Nat
    BY <1>2, FailurePays
  <1> HIDE DEF S, U, k
  <1>5. alerts'[<<c, a>>] + Cardinality(U) <= k * (1 + faults')
    BY <1>1, <1>2, <1>3, <1>4
  <1> QED
    BY <1>1, <1>2, <1>5 DEF Budget, S, U, k

\* A failure makes a share per reading at most.
LEMMA FailureKept ==
  ASSUME GroupInv, NEW c, NEW a, Budget(c, a),
         \A x, y \in Shares(c, a)' \ Shares(c, a) : x[2] = y[2] => x = y,
         alerts[<<c, a>>] \in Nat,
         alerts'[<<c, a>>] = alerts[<<c, a>>], UNCHANGED log,
         faults \in Nat, faults' = faults + 1
  PROVE  Budget(c, a)'
  <1> DEFINE S == Shares(c, a)
             U == Shares(c, a)'
             k == Cardinality(At(a))
  <1>1. At(a)' = At(a) /\ \A x \in U : x[2] \in At(a)
    BY DEF Shares, At, Live
  <1>2. IsFiniteSet(S) /\ alerts[<<c, a>>] + Cardinality(S) <= k * (1 + faults)
    BY DEF Budget
  <1>3. IsFiniteSet(At(a)) /\ k \in Nat
    BY AtFinite
  <1>4. \A x, y \in U \ S : x[2] = y[2] => x = y
    OBVIOUS
  <1> HIDE DEF S, U
  <1>5. IsFiniteSet(U) /\ Cardinality(U) <= Cardinality(S) + k
    BY <1>1, <1>2, <1>3, <1>4, Gains
  <1>6. Cardinality(S) \in Nat /\ Cardinality(U) \in Nat
    BY <1>2, <1>5, FS_CardinalityType
  <1>7. k * (1 + (faults + 1)) = k * (1 + faults) + k /\ k * (1 + faults) \in Nat
    BY <1>3, FailurePays
  <1> HIDE DEF k
  <1>8. alerts'[<<c, a>>] + Cardinality(U) <= k * (1 + faults')
    BY <1>2, <1>3, <1>5, <1>6, <1>7
  <1> QED
    BY <1>1, <1>5, <1>8 DEF Budget, S, U, k

\* An alert costs a share.
LEMMA AlertKept ==
  ASSUME GroupInv, NEW c, NEW a, Budget(c, a),
         NEW x \in Shares(c, a), Shares(c, a)' \subseteq Shares(c, a) \ {x},
         alerts[<<c, a>>] \in Nat,
         alerts'[<<c, a>>] = alerts[<<c, a>>] + 1, UNCHANGED <<log, faults>>, faults \in Nat
  PROVE  Budget(c, a)'
  <1> DEFINE S == Shares(c, a)
             U == Shares(c, a)'
             k == Cardinality(At(a))
  <1>1. /\ IsFiniteSet(S) /\ IsFiniteSet(S \ {x})
        /\ Cardinality(S \ {x}) = Cardinality(S) - 1
    BY FS_RemoveElement DEF Budget
  <1>2. IsFiniteSet(U) /\ Cardinality(U) <= Cardinality(S \ {x})
    BY <1>1, FS_Subset
  <1>3. Cardinality(S) \in Nat /\ Cardinality(U) \in Nat /\ k \in Nat /\ At(a)' = At(a)
    BY <1>1, <1>2, AtFinite, FS_CardinalityType DEF At, Live
  <1>4. alerts[<<c, a>>] + Cardinality(S) <= k * (1 + faults) /\ k * (1 + faults) \in Nat
    BY <1>3, FailurePays DEF Budget
  <1> HIDE DEF S, U, k
  <1>5. alerts'[<<c, a>>] + Cardinality(U) <= k * (1 + faults)
    BY <1>1, <1>2, <1>3, <1>4
  <1> QED
    BY <1>2, <1>3, <1>5 DEF Budget, S, U, k

-----------------------------------------------------------------------------
(* The group's steps.                                                      *)

\* What a member has left depends on what it has in hand alone.
LEMMA LeftSame ==
  ASSUME UNCHANGED log, NEW n, pc'[n] = pc[n], batch'[n] = batch[n], work'[n] = work[n]
  PROVE  \A c, i : Left(n, c, i)' <=> Left(n, c, i)
  BY DEF Left, Ahead

\* A step of one member makes no shares if it leaves that member no more to do,
\* and as long as the group can rely on it.
LEMMA CalmStep ==
  ASSUME GroupInv, NEW m \in Members, UNCHANGED <<log, committed>>,
         fenced' = fenced \/ fenced' = fenced \ {m},
         \A n \in Members \ {m} : pc'[n] = pc[n] /\ batch'[n] = batch[n] /\ work'[n] = work[n],
         Acting(m) => Acting(m)' /\ batch'[m].last = batch[m].last,
         m \in fenced' \/ Acting(m) => \A c, i : Left(m, c, i)' => Left(m, c, i)
  PROVE  Calm
  <1>1. \A n \in Members \ {m} : Acting(n) => Acting(n)' /\ batch'[n].last = batch[n].last
    BY DEF Acting, InBatch
  <1>2. \A n \in Members \ {m} : \A c, i : Left(n, c, i)' => Left(n, c, i)
    BY LeftSame
  <1> QED
    BY <1>1, <1>2 DEF Calm

\* A member of the alerting group with a batch in hand.
LEMMA LiveBatch ==
  ASSUME GroupInv, group = "alerting", NEW m \in Members, InBatch(m)
  PROVE  /\ batch[m].topic = "live"
         /\ batch[m].first \in Nat /\ batch[m].last \in Nat
         /\ Acting(m) => owner["live"] = m /\ batch[m].first = committed["live"] + 1
         /\ committed["live"] \in Nat
  BY DEF GroupInv, BatchesInv, BatchOf, Subscribed, ConsumerTypeOK, Topics, Acting

\* The send of a dead letter, and the decoding up to the next one, are calm.
LEMMA DecodeCalm ==
  ASSUME GroupInv, NEW m \in Members, DeadLetter(m), UNCHANGED work
  PROVE  Calm
  <1>1. /\ pc[m] = "deadletter" /\ Decode(m, batch[m]) /\ UNCHANGED <<log, committed, fenced>>
        /\ batch[m].pos <= batch[m].last /\ InBatch(m)
        /\ batch[m] \in [topic : Topics, first : Nat, last : Nat, pos : Nat]
    BY DEF DeadLetter, InBatch, GroupInv, BatchesInv, BatchOf, ConsumerTypeOK
  <1>2. PICK p \in Nat, t \in {"deadletter", "handler", "resolve"} :
           /\ batch' = [batch EXCEPT ![m] = [batch[m] EXCEPT !.pos = p]]
           /\ pc' = [pc EXCEPT ![m] = t]
           /\ Decoded(batch[m], p, t)
    BY <1>1, DecodeStep
  <1>3. /\ pc'[m] = t /\ batch'[m] = [batch[m] EXCEPT !.pos = p]
        /\ \A n \in Members \ {m} : pc'[n] = pc[n] /\ batch'[n] = batch[n]
    BY <1>2 DEF GroupInv, ConsumerTypeOK
  <1>4. batch'[m].first = batch[m].first /\ batch'[m].last = batch[m].last
    BY <1>1, <1>3
  <1>5. \A c, i : Left(m, c, i)' => Left(m, c, i)
    BY <1>1, <1>3, <1>4 DEF Left
  <1>6. Acting(m) => Acting(m)'
    BY <1>1, <1>3 DEF Acting, InBatch
  <1> QED
    BY <1>1, <1>3, <1>4, <1>5, <1>6, CalmStep

\* A batch that is handed out is the next of the log, so the shares in it are those of the group.
LEMMA FetchCalm ==
  ASSUME GroupInv, NEW m \in Members, NEW t \in Topics, NEW n \in 1 .. Len(log[t]), Fetch(m, t, n),
         UNCHANGED work
  PROVE  Calm
  <1>1. /\ ~ InBatch(m) /\ m \notin fenced /\ UNCHANGED <<log, committed, fenced>>
        /\ \A k \in Members \ {m} : pc'[k] = pc[k] /\ batch'[k] = batch[k]
    BY DEF Fetch, Decode, InBatch, GroupInv, BatchesInv, BatchOf, ConsumerTypeOK
  <1> QED
    BY <1>1, CalmStep DEF Acting

\* A stop that ends a batch early is calm.
LEMMA EarlyCalm ==
  ASSUME GroupInv, NEW m \in Members, ReturnEarly(m), UNCHANGED work
  PROVE  Calm
  <1>1. /\ UNCHANGED <<log, committed, fenced, batch>> /\ pc[m] = "deadletter" /\ pc'[m] = "resolve"
        /\ \A n \in Members \ {m} : pc'[n] = pc[n]
    BY DEF ReturnEarly, GroupInv, ConsumerTypeOK
  <1>2. \A c, i : ~ Left(m, c, i)'
    BY <1>1 DEF Left
  <1> QED
    BY <1>1, <1>2, CalmStep DEF Acting, InBatch

\* An evicted member ends its batch, and so does one that has none.
LEMMA LeaverCalm ==
  ASSUME GroupInv, NEW m \in Members, GiveBack(m) \/ Gone(m), ~ Acting(m),
         \A n \in Members \ {m} : work'[n] = work[n]
  PROVE  Calm
  <1>1. /\ UNCHANGED <<log, committed>> /\ fenced' = fenced \ {m}
        /\ \A n \in Members \ {m} : pc'[n] = pc[n] /\ batch'[n] = batch[n]
    BY DEF GiveBack, Gone, GroupInv, ConsumerTypeOK
  <1> QED
    BY <1>1, CalmStep

\* Steps that touch no batch are calm.
LEMMA QuietCalm ==
  ASSUME GroupInv, UNCHANGED work,
         Rebalance \/ UNCHANGED consumerVars \/ \E m \in Members : Join(m) \/ Stop(m)
  PROVE  Calm
  <1>1. UNCHANGED <<log, committed, fenced, batch>>
    BY DEF Rebalance, consumerVars, Join, Stop
  <1>2. \A n \in Members : pc'[n] = pc[n] \/ (pc[n] = "down" /\ pc'[n] = "idle")
    BY DEF Rebalance, consumerVars, Join, Stop, GroupInv, ConsumerTypeOK
  <1>3. \A n \in Members : \A c, i : Left(n, c, i)' => Left(n, c, i)
    BY <1>1, <1>2 DEF Left, Ahead
  <1>4. \A n \in Members : Acting(n) => Acting(n)'
    BY <1>1, <1>2 DEF Acting, InBatch
  <1> QED
    BY <1>1, <1>3, <1>4 DEF Calm

\* The commit: what is committed is no longer the group's to check.
LEMMA CommitCalm ==
  ASSUME GroupInv, group = "alerting", NEW m \in Members, Commit(m), UNCHANGED work,
         NEW c, NEW a
  PROVE  Shares(c, a)' \subseteq Shares(c, a)
  <1>1. /\ pc[m] = "resolve" /\ InBatch(m) /\ Acting(m)
        /\ committed' = [committed EXCEPT ![batch[m].topic] = batch[m].last]
        /\ UNCHANGED <<log, fenced>>
        /\ pc'[m] = "idle"
        /\ \A n \in Members \ {m} : pc'[n] = pc[n] /\ batch'[n] = batch[n]
    BY DEF Commit, InBatch, Acting, GroupInv, ConsumerTypeOK
  <1>2. /\ batch[m].topic = "live" /\ batch[m].last \in Nat /\ batch[m].first \in Nat
        /\ owner["live"] = m
        /\ batch[m].first = committed["live"] + 1 /\ committed["live"] \in Nat
        /\ batch[m].first <= batch[m].last
    BY <1>1, LiveBatch DEF GroupInv, BatchesInv, BatchOf, ConsumerTypeOK
  <1>3. committed'["live"] = batch[m].last
    BY <1>1, <1>2 DEF GroupInv, ConsumerTypeOK, Topics
  <1>4. \A n \in Members : Acting(n) => n = m
    BY <1>2, LiveBatch DEF Acting
  <1>5. At(a)' = At(a) /\ At(a) \subseteq Nat
    BY <1>1, AtFinite DEF At, Live
  <1>6. ASSUME NEW n \in Members \cup {NoMember}, NEW i \in Nat, Share(n, c, i)'
        PROVE  Share(n, c, i)
    <2>1. CASE n = NoMember
      <3>1. i > batch[m].last
        BY <1>3, <1>6, <2>1 DEF Share
      <3>2. i > committed["live"] /\ \A k \in Members : ~ (Acting(k) /\ i <= batch[k].last)
        BY <1>2, <1>4, <3>1
      <3> QED
        BY <2>1, <3>2 DEF Share
    <2>2. CASE n # NoMember
      <3>1. n \in fenced /\ n # m /\ Left(n, c, i)'
        BY <1>1, <1>6, <2>2 DEF Share, Acting
      <3> QED
        BY <1>1, <2>2, <3>1, LeftSame DEF Share
    <2> QED
      BY <2>1, <2>2
  <1> QED
    BY <1>5, <1>6 DEF Shares

\* An eviction, or the loss of a batch that was the group's.
LEMMA LossOfOne ==
  ASSUME GroupInv, NEW m \in Members, Acting(m), UNCHANGED <<log, committed>>,
         \A n \in Members \ {m} : /\ pc'[n] = pc[n] /\ batch'[n] = batch[n] /\ work'[n] = work[n]
                                  /\ n \in fenced' <=> n \in fenced,
         m \in fenced' => UNCHANGED <<pc, batch, work>>,
         NEW c, NEW a, NEW x \in Shares(c, a)' \ Shares(c, a), NEW y \in Shares(c, a)' \ Shares(c, a),
         x[2] = y[2]
  PROVE  x = y
  <1>1. /\ x = <<x[1], x[2]>> /\ x[1] \in Members \cup {NoMember} /\ x[2] \in At(a)
        /\ y = <<y[1], y[2]>> /\ y[1] \in Members \cup {NoMember} /\ y[2] \in At(a)
        /\ Share(x[1], c, x[2])' /\ Share(y[1], c, y[2])'
        /\ ~ Share(x[1], c, x[2]) /\ ~ Share(y[1], c, y[2])
    BY DEF Shares, At, Live
  <1>2. ASSUME NEW n \in Members \cup {NoMember}, NEW i, Share(n, c, i)', ~ Share(n, c, i)
        PROVE  \/ n = NoMember /\ ~ Left(m, c, i)
               \/ n = m /\ Left(m, c, i)
    <2>1. CASE n = NoMember
      <3>1. PICK k \in Members : Acting(k) /\ i <= batch[k].last /\ ~ Left(k, c, i)
        BY <1>2, <2>1 DEF Share
      <3>2. k # m => Acting(k)' /\ i <= batch'[k].last /\ ~ Left(k, c, i)'
        BY <3>1, LeftSame DEF Acting, InBatch
      <3>3. k = m
        BY <1>2, <2>1, <3>2 DEF Share
      <3> QED
        BY <2>1, <3>1, <3>3
    <2>2. CASE n = m
      <3>1. m \in fenced' /\ Left(m, c, i)'
        BY <1>2, <2>2, ConsumerAssumption DEF Share
      <3> QED
        BY <2>2, <3>1, LeftSame
    <2>3. CASE n \notin {NoMember, m}
      BY <1>2, <2>3, LeftSame DEF Share
    <2> QED
      BY <2>1, <2>2, <2>3
  <1>3. x[1] = y[1]
    BY <1>1, <1>2
  <1> QED
    BY <1>1, <1>3

-----------------------------------------------------------------------------
(* The handler's steps.                                                    *)

\* The steps of a handler before its checks.
LEMMA BeginCalm ==
  ASSUME GroupInv, HandlerInv, group = "alerting", NEW m \in Members,
         \/ (Register(m) \/ Lookup(m)) /\ UNCHANGED work
         \/ BeginAlerting(m)
  PROVE  Calm
  <1>1. CASE (Register(m) \/ Lookup(m)) /\ UNCHANGED work
    <2>1. /\ UNCHANGED <<log, committed, fenced, batch, work>>
          /\ \A n \in Members \ {m} : pc'[n] = pc[n]
          /\ pc[m] \in {"register", "lookup"} /\ pc'[m] \in {"lookup", "store"}
      BY <1>1 DEF Register, Lookup, GoTo, HandlerFrame, GroupInv, ConsumerTypeOK
    <2>2. \A c, i : Left(m, c, i)' => Left(m, c, i)
      BY <2>1 DEF Left, Ahead
    <2> QED
      BY <2>1, <2>2, CalmStep DEF Acting, InBatch
  <1>2. CASE BeginAlerting(m)
    <2>1. PICK fresh : Begins(m, fresh)
      BY <1>2, AlertingBegins
    <2>2. /\ UNCHANGED <<log, committed, fenced, batch>>
          /\ \A n \in Members \ {m} : pc'[n] = pc[n] /\ work'[n] = work[n]
          /\ pc[m] = "handler" /\ InBatch(m)
          /\ pc'[m] \in {"resolve", "register", "store"} /\ (fresh = {} => pc'[m] = "resolve")
          /\ work'[m] = FirstCheck(fresh)
      BY <2>1 DEF Begins, Begin, Resolve, GoTo, InBatch, HandlerFrame, GroupInv, ConsumerTypeOK,
             HandlerInv, HandlerTypeOK, AlertTypeOK
    <2>3. /\ fresh \subseteq Nat /\ fresh \subseteq Events(batch[m])
          /\ Events(batch[m]) \subseteq batch[m].first .. batch[m].last
      BY <2>1, <2>2, EventTimes DEF Begins, Events
    <2>4. ASSUME NEW c, NEW i, Left(m, c, i)'
          PROVE  Left(m, c, i)
      <3>1. i \in FirstCheck(fresh).rest \/ i = FirstCheck(fresh).place
        BY <2>2, <2>4 DEF Left, Ahead
      <3>2. fresh # {}
        BY <2>2, <2>4 DEF Left
      <3>3. i \in fresh
        BY <2>3, <3>1, <3>2, FirstCheckIn
      <3> QED
        BY <2>2, <2>3, <3>3 DEF Left
    <2> QED
      BY <2>2, <2>4, CalmStep DEF Acting, InBatch
  <1> QED
    BY <1>1, <1>2

\* What a check has left when it is done: all but itself.
LEMMA NextCheckLeft ==
  ASSUME GroupInv, HandlerInv, NEW m \in Members, Checking(m), NextCheck(m), UNCHANGED <<log, batch>>,
         NEW c, c = Condition(m), NEW i, i = work[m].place
  PROVE  /\ Left(m, c, i) /\ ~ Left(m, c, i)'
         /\ \A d, j : Left(m, d, j)' => Left(m, d, j)
  <1>1. /\ CheckOf(work[m], batch[m]) /\ work[m] \in Checks
        /\ i \in Nat /\ work[m].type \in 1 .. 3
        /\ c = AlertTypes[work[m].type] /\ DOMAIN AlertTypes = 1 .. 3
        /\ pc[m] \in {"store", "write", "raise"} /\ Events(batch[m]) \subseteq Nat
    BY CheckType, EventTimes DEF AlertTypes, Checking, Condition
  <1>2. /\ work'[m] = CheckAfter(m)
        /\ pc'[m] = IF CheckAfter(m) = NoCheck THEN "resolve" ELSE "store"
    BY DEF NextCheck, GoTo, HandlerInv, HandlerTypeOK, AlertTypeOK, GroupInv, ConsumerTypeOK
  <1>3. i \notin work[m].rest /\ work[m].rest \subseteq Nat /\ \A j \in work[m].rest : i < j
    BY <1>1 DEF CheckOf
  <1>4. Left(m, c, i)
    BY <1>1 DEF Left, Ahead
  <1>5. ASSUME NEW d, NEW j, Left(m, d, j)'
        PROVE  \E k \in 1 .. 3 : /\ AlertTypes[k] = d
                                 /\ j \in work[m].rest \/ (j = i /\ work[m].type < k)
    <2>1. PICK k \in 1 .. 3 : AlertTypes[k] = d /\ Ahead(CheckAfter(m), k, j)
      BY <1>1, <1>2, <1>5 DEF Left, Ahead
    <2>2. CheckAfter(m) # NoCheck
      BY <1>2, <1>5 DEF Left
    <2>3. CASE work[m].type < 3
      <3>1. CheckAfter(m) = [work[m] EXCEPT !.type = @ + 1]
        BY <2>3 DEF CheckAfter, AlertTypes
      <3>2. /\ CheckAfter(m).place = i /\ CheckAfter(m).rest = work[m].rest
            /\ CheckAfter(m).type = work[m].type + 1
        BY <1>1, <3>1 DEF Checks
      <3> QED
        BY <1>1, <2>1, <3>2 DEF Ahead
    <2>4. CASE ~ (work[m].type < 3)
      <3>1. CheckAfter(m) = FirstCheck(work[m].rest)
        BY <2>4 DEF CheckAfter, AlertTypes
      <3>2. work[m].rest # {}
        BY <2>2, <3>1 DEF FirstCheck
      <3>3. CheckAfter(m).place \in work[m].rest /\ CheckAfter(m).rest \subseteq work[m].rest
        BY <1>3, <3>1, <3>2, FirstCheckIn
      <3> QED
        BY <2>1, <3>3 DEF Ahead
    <2> QED
      BY <2>3, <2>4
  <1>6. ~ Left(m, c, i)'
    <2>1. \A k \in 1 .. 3 : work[m].type < k => AlertTypes[k] # c
      BY <1>1 DEF AlertTypes
    <2> QED
      BY <1>3, <1>5, <2>1
  <1>7. ASSUME NEW d, NEW j, Left(m, d, j)'
        PROVE  Left(m, d, j)
    <2>1. PICK k \in 1 .. 3 : /\ AlertTypes[k] = d
                              /\ j \in work[m].rest \/ (j = i /\ work[m].type < k)
      BY <1>5, <1>7
    <2>2. Ahead(work[m], k, j)
      BY <1>1, <2>1 DEF Ahead
    <2> QED
      BY <1>1, <2>1, <2>2 DEF Left
  <1> QED
    BY <1>4, <1>6, <1>7

\* The steps of a check make no shares.
LEMMA CheckCalm ==
  ASSUME GroupInv, HandlerInv, NEW m \in Members, ReadState(m) \/ ClearState(m) \/ HoldState(m) \/ Raise(m)
  PROVE  Calm
  <1>1. /\ UNCHANGED <<log, committed, fenced, batch>> /\ Checking(m)
        /\ \/ NextCheck(m)
           \/ /\ pc[m] = "store" /\ pc' = [pc EXCEPT ![m] = "write"] /\ UNCHANGED work
           \/ /\ pc[m] = "write" /\ pc' = [pc EXCEPT ![m] = "raise"] /\ UNCHANGED work
    BY DEF ReadState, ClearState, HoldState, Raise, Checking, GoTo, AlertFrame, HandlerFrame, HandlerInv,
           MemberInv, StepOf
  <1>2. \A c, i : Left(m, c, i)' => Left(m, c, i)
    <2>1. CASE NextCheck(m)
      <3>1. PICK d, j : d = Condition(m) /\ j = work[m].place
        OBVIOUS
      <3> QED
        BY <1>1, <2>1, <3>1, NextCheckLeft
    <2>2. CASE ~ NextCheck(m)
      BY <1>1, <2>2 DEF Left, Ahead, GroupInv, ConsumerTypeOK
    <2> QED
      BY <2>1, <2>2
  <1>3. \A n \in Members \ {m} : pc'[n] = pc[n] /\ work'[n] = work[n]
    BY <1>1 DEF NextCheck, GoTo, GroupInv, ConsumerTypeOK, HandlerInv, HandlerTypeOK, AlertTypeOK
  <1>4. InBatch(m)'
    BY <1>1 DEF NextCheck, GoTo, InBatch, GroupInv, ConsumerTypeOK
  <1> QED
    BY <1>1, <1>2, <1>3, <1>4, CalmStep DEF Acting

\* An alert is raised: the share of its check is gone.
LEMMA RaiseCosts ==
  ASSUME GroupInv, HandlerInv, group = "alerting", NEW m \in Members, Raise(m),
         NEW c, NEW a, c = Condition(m), a = Reading(m).at
  PROVE  \E x \in Shares(c, a) : Shares(c, a)' \subseteq Shares(c, a) \ {x}
  <1>a. PICK i, n : i = work[m].place /\ n = IF m \in fenced THEN m ELSE NoMember
    OBVIOUS
  <1>1. /\ Checking(m) /\ NextCheck(m) /\ InBatch(m)
        /\ UNCHANGED <<log, committed, fenced, batch>>
    BY DEF Raise, Checking, AlertFrame, HandlerFrame, InBatch
  <1>2. /\ Left(m, c, i) /\ ~ Left(m, c, i)'
    BY <1>a, <1>1, NextCheckLeft
  <1>3. /\ i \in Events(batch[m]) /\ i \in 1 .. Len(Live)
        /\ i \in batch[m].first .. batch[m].last /\ batch[m].topic = "live"
    BY <1>a, <1>1, CheckType, LiveBatch, EventType DEF CheckOf, Live
  <1>4. i \in At(a)
    <2>1. Reading(m) = Live[i] /\ DOMAIN Live = 1 .. Len(Live)
      BY <1>a, <1>3, ConsumerAssumption
         DEF Reading, Message, Live, GroupInv, ConsumerTypeOK, LogInv, Topics
    <2> QED
      BY <1>3, <2>1 DEF At
  <1>5. Share(n, c, i)
    <2>1. CASE m \in fenced
      BY <1>a, <1>2, <2>1, ConsumerAssumption DEF Share
    <2>2. CASE m \notin fenced
      <3>1. /\ Acting(m) /\ owner["live"] = m /\ batch[m].first = committed["live"] + 1
            /\ committed["live"] \in Nat /\ batch[m].first \in Nat /\ batch[m].last \in Nat
        BY <1>1, <2>2, LiveBatch DEF Acting
      <3>2. i > committed["live"]
        BY <1>3, <3>1
      <3>3. \A k \in Members : Acting(k) => k = m
        BY <3>1, LiveBatch DEF Acting
      <3> QED
        BY <1>a, <1>2, <2>2, <3>2, <3>3 DEF Share
    <2> QED
      BY <2>1, <2>2
  <1>6. ~ Share(n, c, i)'
    <2>1. CASE m \in fenced
      BY <1>a, <1>2, <2>1, ConsumerAssumption DEF Share
    <2>2. CASE m \notin fenced
      <3>1. Acting(m)' \/ pc'[m] \notin {"down", "idle"}
        BY <1>1 DEF NextCheck, GoTo, GroupInv, ConsumerTypeOK
      <3>2. Acting(m)' /\ i <= batch'[m].last
        BY <1>1, <1>3, <2>2, <3>1, LiveBatch DEF Acting, InBatch
      <3> QED
        BY <1>a, <1>1, <1>2, <2>2, <3>2 DEF Share
    <2> QED
      BY <2>1, <2>2
  <1>7. <<n, i>> \in Shares(c, a) /\ <<n, i>> \notin Shares(c, a)'
    BY <1>a, <1>4, <1>5, <1>6 DEF Shares
  <1>8. Shares(c, a)' \subseteq Shares(c, a)
    BY CheckCalm, CalmKeeps
  <1> QED
    BY <1>7, <1>8

-----------------------------------------------------------------------------
(* Every step.                                                             *)

\* What is counted is a number.
LEMMA CountsType ==
  ASSUME GroupInv, HandlerInv, NEW c \in Conditions, NEW a \in 1 .. MaxTime
  PROVE  alerts[<<c, a>>] \in Nat /\ faults \in Nat
  BY ConsumerAssumption DEF GroupInv, ConsumerTypeOK, HandlerInv, HandlerTypeOK, AlertTypeOK

\* A step without a failure of the group's and without an alert.
LEMMA CalmBudget ==
  ASSUME GroupInv, HandlerInv, NEW c \in Conditions, NEW a \in 1 .. MaxTime, Budget(c, a),
         Calm, alerts'[<<c, a>>] = alerts[<<c, a>>], faults' = faults \/ faults' = faults + 1
  PROVE  Budget(c, a)'
  <1>1. UNCHANGED log
    BY DEF Calm
  <1> QED
    BY <1>1, CalmKeeps, BudgetKept, CountsType

\* A step that takes a batch from the group.
LEMMA LossBudget ==
  ASSUME GroupInv, HandlerInv, NEW c \in Conditions, NEW a \in 1 .. MaxTime, Budget(c, a),
         NEW m \in Members, Acting(m), UNCHANGED <<log, committed, alerts>>,
         \A n \in Members \ {m} : /\ pc'[n] = pc[n] /\ batch'[n] = batch[n] /\ work'[n] = work[n]
                                  /\ n \in fenced' <=> n \in fenced,
         m \in fenced' => UNCHANGED <<pc, batch, work>>,
         faults' = faults + 1
  PROVE  Budget(c, a)'
  <1>1. \A x, y \in Shares(c, a)' \ Shares(c, a) : x[2] = y[2] => x = y
    BY LossOfOne
  <1> QED
    BY <1>1, FailureKept, CountsType

\* A member gives its batch back, or its process ends.
LEMMA LeaverBudget ==
  ASSUME GroupInv, HandlerInv, NEW c \in Conditions, NEW a \in 1 .. MaxTime, Budget(c, a),
         NEW m \in Members, GiveBack(m) \/ Gone(m), UNCHANGED alerts,
         \A n \in Members \ {m} : work'[n] = work[n],
         faults' = faults \/ faults' = faults + 1, Acting(m) => faults' = faults + 1
  PROVE  Budget(c, a)'
  <1>1. CASE Acting(m)
    <2>1. /\ UNCHANGED <<log, committed>> /\ fenced' = fenced \ {m}
          /\ \A n \in Members \ {m} : pc'[n] = pc[n] /\ batch'[n] = batch[n]
      BY DEF GiveBack, Gone, GroupInv, ConsumerTypeOK
    <2> QED
      BY <1>1, <2>1, LossBudget
  <1>2. CASE ~ Acting(m)
    BY <1>2, LeaverCalm, CalmBudget
  <1> QED
    BY <1>1, <1>2

\* The group's steps.
LEMMA GroupBudget ==
  ASSUME GroupInv, HandlerInv, NEW c \in Conditions, NEW a \in 1 .. MaxTime, Budget(c, a),
         group = "alerting", NEW m \in Members, GroupStep(m), UNCHANGED handlerVars
  PROVE  Budget(c, a)'
  <1>1. UNCHANGED <<work, alerts>>
    BY DEF handlerVars, alertVars
  <1>2. CASE Join(m) \/ Stop(m)
    <2>1. faults' = faults \/ faults' = faults + 1
      BY <1>2 DEF Join, Stop, Fault
    <2> QED
      BY <1>1, <1>2, <2>1, QuietCalm, CalmBudget
  <1>3. CASE Evict(m)
    <2>1. /\ UNCHANGED <<log, committed, pc, batch>> /\ Acting(m) /\ faults' = faults + 1
          /\ fenced' = fenced \cup {m}
      BY <1>3 DEF Evict, Fault, Acting, InBatch
    <2> QED
      BY <1>1, <2>1, LossBudget
  <1>4. CASE \E t \in Topics : \E n \in 1 .. Len(log[t]) : Fetch(m, t, n)
    <2>1. faults' = faults
      BY <1>4 DEF Fetch
    <2> QED
      BY <1>1, <1>4, <2>1, FetchCalm, CalmBudget
  <1>5. CASE DeadLetter(m)
    <2>1. faults' = faults
      BY <1>5 DEF DeadLetter
    <2> QED
      BY <1>1, <1>5, <2>1, DecodeCalm, CalmBudget
  <1>6. CASE ReturnEarly(m)
    <2>1. faults' = faults
      BY <1>6 DEF ReturnEarly
    <2> QED
      BY <1>1, <1>6, <2>1, EarlyCalm, CalmBudget
  <1>7. CASE Commit(m)
    <2>1. UNCHANGED <<log, faults>>
      BY <1>7 DEF Commit
    <2> QED
      BY <1>1, <1>7, <2>1, CommitCalm, BudgetKept, CountsType
  <1>8. CASE CommitFails(m)
    <2>1. GiveBack(m) /\ IF m \in fenced THEN faults' = faults ELSE faults' = faults + 1
      BY <1>8 DEF CommitFails, Fault
    <2> QED
      BY <1>1, <2>1, LeaverBudget DEF Acting
  <1> QED
    BY <1>2, <1>3, <1>4, <1>5, <1>6, <1>7, <1>8 DEF GroupStep

\* The alert counts.
LEMMA RaiseBudget ==
  ASSUME GroupInv, HandlerInv, NEW c \in Conditions, NEW a \in 1 .. MaxTime, Budget(c, a),
         group = "alerting", NEW m \in Members, Raise(m)
  PROVE  Budget(c, a)'
  <1>1. UNCHANGED <<log, faults>>
    BY DEF Raise, AlertFrame, HandlerFrame
  <1>2. alerts' = [alerts EXCEPT ![<<Condition(m), Reading(m).at>>] = @ + 1]
    BY DEF Raise
  <1>3. CASE c = Condition(m) /\ a = Reading(m).at
    <2>1. PICK x \in Shares(c, a) : Shares(c, a)' \subseteq Shares(c, a) \ {x}
      BY <1>3, RaiseCosts
    <2>2. alerts'[<<c, a>>] = alerts[<<c, a>>] + 1
      BY <1>2, <1>3 DEF HandlerInv, HandlerTypeOK, AlertTypeOK
    <2> QED
      BY <1>1, <2>1, <2>2, AlertKept, CountsType
  <1>4. CASE ~ (c = Condition(m) /\ a = Reading(m).at)
    <2>1. <<c, a>> # <<Condition(m), Reading(m).at>>
      BY <1>4
    <2>2. alerts'[<<c, a>>] = alerts[<<c, a>>]
      BY <1>2, <2>1 DEF HandlerInv, HandlerTypeOK, AlertTypeOK
    <2> QED
      BY <1>1, <2>2, CheckCalm, CalmBudget
  <1> QED
    BY <1>3, <1>4

\* The handler of the alerting group does no step of another.
LEMMA AlertingSteps ==
  ASSUME HandlerInv, group = "alerting", NEW m \in Members, HandlerStep(m)
  PROVE  AlertStep(m)
  <1>1. pc[m] # "seed"
    BY DEF HandlerInv, MemberInv, StepOf
  <1> QED
    BY <1>1 DEF HandlerStep, WriterStep, BeginLocations, InsertLocations, BeginFuel, InsertFuel,
                InsertRefused, EngineStep, BeginEngine, Seed, Scan, InsertTransitions

\* The handler's steps.
LEMMA HandlerBudget ==
  ASSUME GroupInv, HandlerInv, NEW c \in Conditions, NEW a \in 1 .. MaxTime, Budget(c, a),
         group = "alerting", NEW m \in Members, HandlerStep(m)
  PROVE  Budget(c, a)'
  <1>1. AlertStep(m)
    BY AlertingSteps
  <1>2. CASE BeginAlerting(m)
    <2>1. UNCHANGED <<alerts, faults>>
      BY <1>2 DEF BeginAlerting, Begin, HandlerFrame
    <2> QED
      BY <1>2, <2>1, BeginCalm, CalmBudget
  <1>3. CASE ReadState(m) \/ ClearState(m) \/ HoldState(m)
    <2>1. UNCHANGED <<alerts, faults>>
      BY <1>3 DEF ReadState, ClearState, HoldState, AlertFrame, HandlerFrame
    <2> QED
      BY <1>3, <2>1, CheckCalm, CalmBudget
  <1>4. CASE Raise(m)
    BY <1>4, RaiseBudget
  <1> QED
    BY <1>1, <1>2, <1>3, <1>4 DEF AlertStep

\* Every step of the alerting group.
LEMMA StepBudget ==
  ASSUME GroupInv, HandlerInv, NEW c \in Conditions, NEW a \in 1 .. MaxTime, Budget(c, a),
         group = "alerting", [TelemetryNext]_telemetryVars
  PROVE  Budget(c, a)'
  <1>1. CASE UNCHANGED telemetryVars \/ (Rebalance /\ UNCHANGED handlerVars)
    <2>1. UNCHANGED <<work, alerts, faults>>
      BY <1>1 DEF telemetryVars, handlerVars, alertVars, consumerVars, Rebalance
    <2>2. Rebalance \/ UNCHANGED consumerVars
      BY <1>1 DEF telemetryVars
    <2> QED
      BY <2>1, <2>2, QuietCalm, CalmBudget
  <1>2. ASSUME NEW m \in Members, GroupStep(m) /\ UNCHANGED handlerVars
        PROVE  Budget(c, a)'
    BY <1>2, GroupBudget
  <1>3. ASSUME NEW m \in Members, HandlerFails(m) /\ DropWork(m)
        PROVE  Budget(c, a)'
    <2>1. /\ GiveBack(m) /\ faults' = faults + 1 /\ UNCHANGED alerts
          /\ \A n \in Members \ {m} : work'[n] = work[n]
      BY <1>3 DEF HandlerFails, Fault, DropWork, HandlerInv, HandlerTypeOK, AlertTypeOK
    <2> QED
      BY <2>1, LeaverBudget
  <1>4. ASSUME NEW m \in Members, (Leave(m) \/ Kill(m)) /\ Forget(m)
        PROVE  Budget(c, a)'
    <2>1. /\ Gone(m) /\ UNCHANGED alerts
          /\ \A n \in Members \ {m} : work'[n] = work[n]
          /\ faults' = faults \/ faults' = faults + 1
          /\ Acting(m) => faults' = faults + 1
      BY <1>4 DEF Leave, Kill, Fault, Forget, Acting, InBatch, HandlerInv, HandlerTypeOK, AlertTypeOK
    <2> QED
      BY <2>1, LeaverBudget
  <1>5. ASSUME NEW m \in Members, Register(m) \/ Lookup(m), UNCHANGED <<rows, engineVars, alertVars>>
        PROVE  Budget(c, a)'
    <2>1. UNCHANGED <<work, alerts, faults>>
      BY <1>5 DEF Register, Lookup, HandlerFrame, alertVars
    <2> QED
      BY <1>5, <2>1, BeginCalm, CalmBudget
  <1>6. ASSUME NEW m \in Members, HandlerStep(m)
        PROVE  Budget(c, a)'
    BY <1>6, HandlerBudget
  <1> QED
    BY <1>1, <1>2, <1>3, <1>4, <1>5, <1>6 DEF TelemetryNext

\* The other groups raise no alerts.
LEMMA OthersRaiseNone ==
  ASSUME GroupInv, HandlerInv, group # "alerting", [TelemetryNext]_telemetryVars
  PROVE  UNCHANGED alerts
  <1>1. ASSUME NEW m \in Members, HandlerStep(m)
        PROVE  UNCHANGED alerts
    <2>1. pc[m] \notin {"write", "raise"}
      BY DEF HandlerInv, MemberInv, StepOf
    <2> QED
      BY <1>1, <2>1 DEF HandlerStep, AlertStep, BeginAlerting, ReadState, ClearState, HoldState, Raise,
                        alertVars
  <1> QED
    BY <1>1 DEF TelemetryNext, telemetryVars, handlerVars, alertVars, DropWork, Forget

\* The group is chosen at the start.
LEMMA GroupStays ==
  ASSUME GroupInv, [TelemetryNext]_telemetryVars
  PROVE  UNCHANGED group
  BY GroupSteps DEF GroupInv, Rebalance, consumerVars, MemberMoves, Join, Evict, Stop, Fetch, DeadLetter,
     ReturnEarly, Commit, GivesBack, GiveBack, Ends, Gone, Moves, HandlerFrame

-----------------------------------------------------------------------------
(* The theorems.                                                           *)

\* At the start every reading is the group's to check, once.
LEMMA BudgetAtStart ==
  ASSUME TelemetryInit, GroupInv
  PROVE  BudgetInv
  <1>1. ASSUME NEW c \in Conditions, NEW a \in 1 .. MaxTime
        PROVE  alerts[<<c, a>>] = 0 /\ Budget(c, a)
    <2>1. alerts[<<c, a>>] = 0 /\ faults = 0 /\ fenced = {}
      BY <1>1 DEF TelemetryInit, ConsumerInit, AlertInit
    <2>2. IsFiniteSet(At(a)) /\ Cardinality(At(a)) \in Nat
      BY AtFinite
    <2>3. \A x \in Shares(c, a) : x = <<x[1], x[2]>> /\ x[1] = NoMember /\ x[2] \in At(a)
      BY <2>1 DEF Shares, Share
    <2>4. /\ IsFiniteSet(Shares(c, a)) /\ Cardinality(Shares(c, a)) <= Cardinality(At(a))
      BY <2>2, <2>3, NewShares
    <2>5. Cardinality(Shares(c, a)) \in Nat
      BY <2>4, FS_CardinalityType
    <2> QED
      BY <2>1, <2>2, <2>4, <2>5 DEF Budget
  <1> QED
    BY <1>1 DEF BudgetInv

\* Alerts and checks to come stay within the budget of each reading.
LEMMA BudgetInvKept ==
  ASSUME GroupInv, HandlerInv, BudgetInv, [TelemetryNext]_telemetryVars
  PROVE  BudgetInv'
  <1>1. UNCHANGED group
    BY GroupStays
  <1>2. CASE group = "alerting"
    BY <1>1, <1>2, StepBudget DEF BudgetInv
  <1>3. CASE group # "alerting"
    BY <1>1, <1>3, OthersRaiseNone DEF BudgetInv
  <1> QED
    BY <1>2, <1>3

\* The alerts of a reading are within its budget.
LEMMA BudgetBounds ==
  ASSUME GroupInv, HandlerInv, BudgetInv
  PROVE  AlertCopiesAreRetries
  <1>1. ASSUME NEW c \in Conditions, NEW a \in 1 .. MaxTime
        PROVE  alerts[c, a] <= Cardinality(At(a)) * (1 + faults)
    <2> DEFINE n == alerts[<<c, a>>]
               k == Cardinality(At(a)) * (1 + faults)
               s == Cardinality(Shares(c, a))
    <2>1. n \in Nat /\ k \in Nat
      BY CountsType, AtFinite, FailurePays
    <2>2. CASE group = "alerting"
      <3>1. n + s <= k /\ s \in Nat
        BY <2>2, FS_CardinalityType DEF BudgetInv, Budget
      <3> HIDE DEF n, k, s
      <3>2. n <= k
        BY <2>1, <3>1
      <3> QED
        BY <3>2 DEF n, k
    <2>3. CASE group # "alerting"
      <3>1. n = 0
        BY <2>3 DEF BudgetInv
      <3> HIDE DEF n, k
      <3>2. n <= k
        BY <2>1, <3>1
      <3> QED
        BY <3>2 DEF n, k
    <2> QED
      BY <2>2, <2>3
  <1> QED
    BY <1>1 DEF AlertCopiesAreRetries, At

\* At every moment the alerts raised for the readings of a time and the checks
\* of them still to come are as many as the readings, once and once more for each
\* failure: at most.
THEOREM AlertsStayInBudget == TelemetrySpec => []BudgetInv
  <1>1. TelemetryInit /\ DeliveredInv => BudgetInv
    BY BudgetAtStart DEF DeliveredInv
  <1>2. DeliveredInv /\ BudgetInv /\ [TelemetryNext]_telemetryVars => BudgetInv'
    BY BudgetInvKept DEF DeliveredInv
  <1> QED
    BY <1>1, <1>2, DeliveredAlways, PTL DEF TelemetrySpec

\* A reading raises an alert again only on account of a failure: an eviction, a
\* handler that failed or a process that died over its batch
\* (apps/telemetry-consumers/src/alerting/consumer.ts).
THEOREM AlertsAreRaisedOnce == TelemetrySpec => []AlertCopiesAreRetries
  <1>1. DeliveredInv /\ BudgetInv => AlertCopiesAreRetries
    BY BudgetBounds DEF DeliveredInv
  <1> QED
    BY <1>1, DeliveredAlways, AlertsStayInBudget, PTL

-----------------------------------------------------------------------------
(* Lost alerts.                                                            *)
(*                                                                         *)
(* A reading that holds and is committed is covered by an announced alert  *)
(* (OnlyTheStoredIsCommitted).  What is announced is raised with the next  *)
(* statement, unless the member that is about to raise it fails.           *)


\* The alerts that were announced and never raised, and that no one is about to.
Silent == {x \in announced : ~ Alerted(x[1], x[2])} \ AtHands

SilentInv == group = "alerting" => IsFiniteSet(Silent) /\ Cardinality(Silent) <= faults

\* Alerts are never taken back.
AlertsGrow == \A c \in Conditions, a \in 1 .. MaxTime : alerts[c, a] > 0 => alerts'[c, a] > 0

\* What was raised stays raised.
LEMMA AlertedLasts ==
  ASSUME GroupInv, AnnouncedInv, AlertsGrow, UNCHANGED log,
         NEW c \in Conditions, NEW j \in Nat, <<c, j>> \in announced, Alerted(c, j)
  PROVE  Alerted(c, j)'
  <1>1. Live[j].at \in 1 .. MaxTime
    BY LiveTimes DEF AnnouncedInv
  <1>2. Live' = Live
    BY DEF Live
  <1> QED
    BY <1>1, <1>2 DEF Alerted, AlertsGrow

\* What is announced is a condition with a place.
LEMMA AnnouncedType ==
  ASSUME HandlerInv, NEW x \in announced
  PROVE  x[1] \in Conditions /\ x[2] \in Nat /\ x = <<x[1], x[2]>>
  BY DEF HandlerInv, HandlerTypeOK, AlertTypeOK

\* A step that announces nothing and takes no alert out of anyone's hands loses none.
LEMMA NoneLost ==
  ASSUME GroupInv, HandlerInv, AnnouncedInv, AlertsGrow, UNCHANGED <<log, announced>>,
         AtHands \subseteq AtHands'
  PROVE  Silent' \subseteq Silent
  <1>1. ASSUME NEW x \in announced, Alerted(x[1], x[2])
        PROVE  Alerted(x[1], x[2])'
    <2>1. PICK c \in Conditions, j \in Nat : x = <<c, j>>
      BY AnnouncedType
    <2>2. Alerted(c, j) /\ <<c, j>> \in announced
      BY <1>1, <2>1
    <2>3. Alerted(c, j)'
      BY <2>2, AlertedLasts
    <2> QED
      BY <2>1, <2>3 DEF Alerted, Live
  <1> QED
    BY <1>1 DEF Silent

\* Those that are about to raise an alert, when the step of a member leaves the
\* others alone.
LEMMA HandsOfOthers ==
  ASSUME NEW m \in Members, NEW x, x = <<Condition(m), work[m].place>>,
         \A n \in Members \ {m} : pc'[n] = pc[n] /\ work'[n] = work[n]
  PROVE  AtHands \ {x} \subseteq AtHands' /\ (pc[m] # "raise" => AtHands \subseteq AtHands')
  <1>1. ASSUME NEW n \in Members \ {m}, pc[n] = "raise"
        PROVE  <<Condition(n), work[n].place>> \in AtHands'
    BY <1>1 DEF AtHands, Condition
  <1> QED
    BY <1>1 DEF AtHands

\* The alert in the hands of one member is all that its failure loses.
LEMMA OneLost ==
  ASSUME GroupInv, HandlerInv, AnnouncedInv, AlertsGrow, UNCHANGED <<log, announced>>,
         NEW x, AtHands \ {x} \subseteq AtHands'
  PROVE  Silent' \subseteq Silent \cup {x}
  <1>1. ASSUME NEW y \in announced, Alerted(y[1], y[2])
        PROVE  Alerted(y[1], y[2])'
    <2>1. PICK c \in Conditions, j \in Nat : y = <<c, j>>
      BY AnnouncedType
    <2>2. Alerted(c, j) /\ <<c, j>> \in announced
      BY <1>1, <2>1
    <2>3. Alerted(c, j)'
      BY <2>2, AlertedLasts
    <2> QED
      BY <2>1, <2>3 DEF Alerted, Live
  <1> QED
    BY <1>1 DEF Silent

\* The counts: as many as before, or one more for a failure.
LEMMA SilentCount ==
  ASSUME NEW S, IsFiniteSet(S), NEW f \in Nat, Cardinality(S) <= f, NEW T, NEW g \in Nat,
         \/ T \subseteq S /\ g >= f
         \/ g = f + 1 /\ \E x : T \subseteq S \cup {x}
  PROVE  IsFiniteSet(T) /\ Cardinality(T) <= g
  <1>1. CASE T \subseteq S /\ g >= f
    <2>1. IsFiniteSet(T) /\ Cardinality(T) <= Cardinality(S)
      BY <1>1, FS_Subset
    <2>2. Cardinality(T) \in Nat /\ Cardinality(S) \in Nat
      BY <2>1, FS_CardinalityType
    <2> QED
      BY <1>1, <2>1, <2>2
  <1>2. ASSUME g = f + 1, NEW x, T \subseteq S \cup {x}
        PROVE  IsFiniteSet(T) /\ Cardinality(T) <= g
    <2>1. /\ IsFiniteSet(S \cup {x})
          /\ Cardinality(S \cup {x}) = Cardinality(S) \/ Cardinality(S \cup {x}) = Cardinality(S) + 1
      BY FS_AddElement
    <2>2. IsFiniteSet(T) /\ Cardinality(T) <= Cardinality(S \cup {x})
      BY <1>2, <2>1, FS_Subset
    <2>3. Cardinality(T) \in Nat /\ Cardinality(S) \in Nat
      BY <2>2, FS_CardinalityType
    <2> QED
      BY <1>2, <2>1, <2>2, <2>3
  <1> QED
    BY <1>1, <1>2

\* A step loses no alert, or at most one, and then on account of a failure.
AtMostOneLost ==
  \/ Silent' \subseteq Silent /\ faults' >= faults
  \/ faults' = faults + 1 /\ \E x : Silent' \subseteq Silent \cup {x}

\* The handler's steps lose none: an alert that is announced is at hand, and it is
\* until it is raised.
LEMMA HandlerLosesNone ==
  ASSUME GroupInv, HandlerInv, AnnouncedInv, group = "alerting", NEW m \in Members, AlertStep(m)
  PROVE  Silent' \subseteq Silent /\ faults' = faults
  <1>1. PICK c, i : c = Condition(m) /\ i = work[m].place
    OBVIOUS
  <1>2. CASE BeginAlerting(m)
    <2>1. PICK fresh : Begins(m, fresh)
      BY <1>2, AlertingBegins
    <2>2. /\ UNCHANGED <<log, announced, alerts, faults>> /\ pc[m] = "handler"
          /\ \A n \in Members \ {m} : pc'[n] = pc[n] /\ work'[n] = work[n]
      BY <2>1 DEF Begins, Begin, Resolve, GoTo, HandlerFrame, GroupInv, ConsumerTypeOK, HandlerInv,
             HandlerTypeOK, AlertTypeOK
    <2> QED
      BY <1>1, <2>2, HandsOfOthers, NoneLost DEF AlertsGrow
  <1>3. CASE ReadState(m) \/ ClearState(m) \/ HoldState(m) \/ Raise(m)
    <2>1. /\ UNCHANGED <<log, faults>> /\ Checking(m)
          /\ \/ NextCheck(m)
             \/ UNCHANGED work /\ \E s : pc' = [pc EXCEPT ![m] = s]
      BY <1>3 DEF ReadState, ClearState, HoldState, Raise, Checking, GoTo, AlertFrame, HandlerFrame,
             HandlerInv, MemberInv, StepOf
    <2>2. \A n \in Members \ {m} : pc'[n] = pc[n] /\ work'[n] = work[n]
      BY <2>1 DEF NextCheck, GoTo, GroupInv, ConsumerTypeOK, HandlerInv, HandlerTypeOK, AlertTypeOK
    <2>3. AtHands \ {<<c, i>>} \subseteq AtHands' /\ (pc[m] # "raise" => AtHands \subseteq AtHands')
      BY <1>1, <2>2, HandsOfOthers
    <2>4. CASE pc[m] # "raise" /\ UNCHANGED announced
      <3>1. UNCHANGED alerts
        BY <1>3, <2>4 DEF ReadState, ClearState, HoldState, Raise
      <3> QED
        BY <2>1, <2>3, <2>4, <3>1, NoneLost DEF AlertsGrow
    <2>5. CASE announced' # announced
      <3>1. /\ HoldState(m) /\ UNCHANGED <<alerts, work>> /\ pc[m] = "write"
            /\ announced' = announced \cup {<<c, i>>} /\ pc' = [pc EXCEPT ![m] = "raise"]
        BY <1>1, <1>3, <2>5 DEF ReadState, ClearState, HoldState, Raise, GoTo
      <3>2. pc'[m] = "raise"
        BY <3>1 DEF GroupInv, ConsumerTypeOK
      <3>3. <<c, i>> \in AtHands'
        BY <1>1, <3>1, <3>2 DEF AtHands, Condition
      <3>4. \A d, j : Alerted(d, j)' <=> Alerted(d, j)
        BY <2>1, <3>1 DEF Alerted, Live
      <3>5. AtHands \subseteq AtHands'
        BY <2>3, <3>1
      <3>6. ASSUME NEW x, x \in Silent'
            PROVE  x \in Silent
        <4>1. x \in announced' /\ x \notin AtHands' /\ ~ Alerted(x[1], x[2])'
          BY <3>6 DEF Silent
        <4>2. x \in announced /\ x \notin AtHands
          BY <3>1, <3>3, <3>5, <4>1
        <4>3. ~ Alerted(x[1], x[2])
          BY <2>1, <3>1, <4>1 DEF Alerted, Live
        <4> QED
          BY <4>2, <4>3 DEF Silent
      <3> QED
        BY <2>1, <3>6
    <2>6. CASE pc[m] = "raise"
      <3>1. /\ Raise(m) /\ UNCHANGED <<announced, log>>
            /\ alerts' = [alerts EXCEPT ![<<Condition(m), Reading(m).at>>] = @ + 1]
        BY <1>3, <2>6 DEF ReadState, ClearState, HoldState, Raise, AlertFrame, HandlerFrame
      <3>2. /\ c \in Conditions /\ Reading(m).at \in 1 .. MaxTime /\ Reading(m) = Live[i]
        BY <1>1, <2>1, CheckType, OnLive DEF Reading
      <3>3. alerts \in [Conditions \X (1 .. MaxTime) -> Nat]
        BY DEF HandlerInv, HandlerTypeOK, AlertTypeOK
      <3>4. AlertsGrow
        <4>1. ASSUME NEW d \in Conditions, NEW a \in 1 .. MaxTime, alerts[<<d, a>>] > 0
              PROVE  alerts'[<<d, a>>] > 0
          <5>1. alerts[<<d, a>>] \in Nat /\ <<d, a>> \in Conditions \X (1 .. MaxTime)
            BY <3>3
          <5>2. \/ alerts'[<<d, a>>] = alerts[<<d, a>>]
                \/ alerts'[<<d, a>>] = alerts[<<d, a>>] + 1
            BY <3>1, <3>3, <5>1
          <5> QED
            BY <4>1, <5>1, <5>2
        <4> QED
          BY <4>1 DEF AlertsGrow
      <3>5. alerts'[<<c, Live[i].at>>] > 0
        <4>1. alerts[<<c, Live[i].at>>] \in Nat /\ <<c, Live[i].at>> \in Conditions \X (1 .. MaxTime)
          BY <3>2, <3>3
        <4>2. alerts'[<<c, Live[i].at>>] = alerts[<<c, Live[i].at>>] + 1
          BY <1>1, <3>1, <3>2, <3>3, <4>1
        <4> QED
          BY <4>1, <4>2
      <3>6. <<c, i>> \notin Silent'
        BY <3>1, <3>5 DEF Silent, Alerted, Live
      <3>7. Silent' \subseteq Silent \cup {<<c, i>>}
        BY <2>3, <3>1, <3>4, OneLost
      <3> QED
        BY <2>1, <3>6, <3>7
    <2> QED
      BY <2>4, <2>5, <2>6
  <1> QED
    BY <1>2, <1>3 DEF AlertStep

\* A member that gives its batch back or whose process ends loses what it was about
\* to raise, and that counts as a failure.
LEMMA LeaverLoses ==
  ASSUME GroupInv, HandlerInv, AnnouncedInv, UNCHANGED <<alerts, announced>>,
         NEW m \in Members, GiveBack(m) \/ Gone(m),
         \A n \in Members \ {m} : work'[n] = work[n],
         faults \in Nat, faults' = faults \/ faults' = faults + 1,
         pc[m] = "raise" => faults' = faults + 1
  PROVE  AtMostOneLost
  <1>1. UNCHANGED log /\ \A n \in Members \ {m} : pc'[n] = pc[n]
    BY DEF GiveBack, Gone, GroupInv, ConsumerTypeOK
  <1>2. PICK x : x = <<Condition(m), work[m].place>>
    OBVIOUS
  <1>3. AtHands \ {x} \subseteq AtHands' /\ (pc[m] # "raise" => AtHands \subseteq AtHands')
    BY <1>1, <1>2, HandsOfOthers
  <1>4. AlertsGrow
    BY DEF AlertsGrow
  <1>5. CASE pc[m] = "raise"
    BY <1>1, <1>3, <1>4, <1>5, OneLost DEF AtMostOneLost
  <1>6. CASE pc[m] # "raise"
    BY <1>1, <1>3, <1>4, <1>6, NoneLost DEF AtMostOneLost
  <1> QED
    BY <1>5, <1>6

\* The group's steps lose nothing that is at hand.
LEMMA GroupLosesNone ==
  ASSUME GroupInv, HandlerInv, AnnouncedInv, UNCHANGED handlerVars,
         Rebalance \/ UNCHANGED consumerVars \/ \E m \in Members : GroupStep(m)
  PROVE  AtMostOneLost
  <1>a. faults \in Nat
    BY ConsumerAssumption DEF GroupInv, ConsumerTypeOK
  <1>b. UNCHANGED <<work, alerts, announced>>
    BY DEF handlerVars, alertVars
  <1>c. AlertsGrow
    BY <1>b DEF AlertsGrow
  <1>1. faults \in Nat /\ UNCHANGED <<work, alerts, announced>> /\ AlertsGrow
    BY <1>a, <1>b, <1>c
  <1>2. ASSUME NEW m \in Members, CommitFails(m)
        PROVE  AtMostOneLost
    <2>1. /\ GiveBack(m) /\ pc[m] = "resolve"
          /\ faults' = faults \/ faults' = faults + 1
      BY <1>2 DEF CommitFails, Fault
    <2> QED
      BY <1>1, <2>1, LeaverLoses
  <1>3. ASSUME \A n \in Members : pc[n] = "raise" => pc'[n] = "raise",
               UNCHANGED log, faults' = faults \/ faults' = faults + 1
        PROVE  AtMostOneLost
    <2>1. AtHands \subseteq AtHands'
      BY <1>1, <1>3 DEF AtHands, Condition
    <2> QED
      BY <1>1, <1>3, <2>1, NoneLost DEF AtMostOneLost
  <1>4. CASE Rebalance \/ UNCHANGED consumerVars
    BY <1>3, <1>4 DEF Rebalance, consumerVars
  <1>5. ASSUME NEW m \in Members, GroupStep(m), ~ CommitFails(m)
        PROVE  AtMostOneLost
    <2>1. /\ UNCHANGED log
          /\ faults' = faults \/ faults' = faults + 1
          /\ \/ UNCHANGED pc
             \/ pc[m] # "raise" /\ \E s : pc' = [pc EXCEPT ![m] = s]
      <3>1. CASE Join(m) \/ Evict(m)
        BY <3>1 DEF Join, Evict, Fault
      <3>2. CASE Stop(m)
        BY <3>2 DEF Stop, Fault
      <3>3. ASSUME NEW t \in Topics, NEW n \in 1 .. Len(log[t]), Fetch(m, t, n)
            PROVE  UNCHANGED <<log, faults>> /\ pc[m] # "raise" /\ \E s : pc' = [pc EXCEPT ![m] = s]
        BY <3>3 DEF Fetch, Decode
      <3>4. CASE DeadLetter(m)
        BY <3>4 DEF DeadLetter, Decode
      <3>5. CASE ReturnEarly(m)
        BY <3>5 DEF ReturnEarly
      <3>6. CASE Commit(m)
        BY <3>6 DEF Commit
      <3> QED
        BY <1>5, <3>1, <3>2, <3>3, <3>4, <3>5, <3>6 DEF GroupStep
    <2>2. \A n \in Members : pc[n] = "raise" => pc'[n] = "raise"
      BY <2>1 DEF GroupInv, ConsumerTypeOK
    <2> QED
      BY <1>3, <2>1, <2>2
  <1> QED
    BY <1>2, <1>4, <1>5

\* Every step loses at most the alert of a failure.
LEMMA StepLosesOne ==
  ASSUME GroupInv, HandlerInv, AnnouncedInv, group = "alerting", [TelemetryNext]_telemetryVars
  PROVE  AtMostOneLost
  <1>1. faults \in Nat
    BY ConsumerAssumption DEF GroupInv, ConsumerTypeOK
  <1>2. CASE UNCHANGED telemetryVars \/ (Rebalance /\ UNCHANGED handlerVars)
    BY <1>2, GroupLosesNone DEF telemetryVars
  <1>3. ASSUME NEW m \in Members, GroupStep(m) /\ UNCHANGED handlerVars
        PROVE  AtMostOneLost
    BY <1>3, GroupLosesNone
  <1>4. ASSUME NEW m \in Members, HandlerFails(m) /\ DropWork(m)
        PROVE  AtMostOneLost
    <2>1. /\ GiveBack(m) /\ faults' = faults + 1 /\ UNCHANGED <<alerts, announced>>
          /\ \A n \in Members \ {m} : work'[n] = work[n]
      BY <1>4 DEF HandlerFails, Fault, DropWork, HandlerInv, HandlerTypeOK, AlertTypeOK
    <2> QED
      BY <1>1, <2>1, LeaverLoses
  <1>5. ASSUME NEW m \in Members, (Leave(m) \/ Kill(m)) /\ Forget(m)
        PROVE  AtMostOneLost
    <2>1. /\ Gone(m) /\ UNCHANGED <<alerts, announced>>
          /\ \A n \in Members \ {m} : work'[n] = work[n]
          /\ faults' = faults \/ faults' = faults + 1
          /\ pc[m] = "raise" => faults' = faults + 1
      BY <1>5 DEF Leave, Kill, Fault, Forget, HandlerInv, HandlerTypeOK, AlertTypeOK
    <2> QED
      BY <1>1, <2>1, LeaverLoses
  <1>6. ASSUME NEW m \in Members, Register(m) \/ Lookup(m), UNCHANGED <<rows, engineVars, alertVars>>
        PROVE  AtMostOneLost
    <2>1. /\ UNCHANGED <<log, work, alerts, announced, faults>> /\ pc[m] # "raise"
          /\ \A n \in Members \ {m} : pc'[n] = pc[n]
      BY <1>6 DEF Register, Lookup, GoTo, HandlerFrame, alertVars, GroupInv, ConsumerTypeOK
    <2>2. AtHands \subseteq AtHands'
      BY <2>1, HandsOfOthers
    <2>3. AlertsGrow
      BY <2>1 DEF AlertsGrow
    <2> QED
      BY <1>1, <2>1, <2>2, <2>3, NoneLost DEF AtMostOneLost
  <1>7. ASSUME NEW m \in Members, HandlerStep(m)
        PROVE  AtMostOneLost
    BY <1>1, <1>7, AlertingSteps, HandlerLosesNone DEF AtMostOneLost
  <1> QED
    BY <1>2, <1>3, <1>4, <1>5, <1>6, <1>7 DEF TelemetryNext

\* No more alerts are lost than there were failures.
LEMMA SilentKept ==
  ASSUME DeliveredInv, SilentInv, [TelemetryNext]_telemetryVars
  PROVE  SilentInv'
  <1>1. UNCHANGED group
    BY GroupStays DEF DeliveredInv
  <1>2. CASE group = "alerting"
    <2>1. AtMostOneLost
      BY <1>2, StepLosesOne DEF DeliveredInv, CheckedInv
    <2>2. DeliveredInv'
      BY DeliveredKept
    <2>3. faults \in Nat /\ faults' \in Nat
      BY <2>2, ConsumerAssumption DEF DeliveredInv, GroupInv, ConsumerTypeOK
    <2>4. IsFiniteSet(Silent) /\ Cardinality(Silent) <= faults
      BY <1>2 DEF SilentInv
    <2>5. IsFiniteSet(Silent') /\ Cardinality(Silent') <= faults'
      BY <2>1, <2>3, <2>4, SilentCount DEF AtMostOneLost
    <2> QED
      BY <2>5 DEF SilentInv
  <1>3. CASE group # "alerting"
    BY <1>1, <1>3 DEF SilentInv
  <1> QED
    BY <1>2, <1>3

\* A committed reading is covered by an alert that was raised, is about to be, or
\* was lost.
LEMMA SilentBounds ==
  ASSUME DeliveredInv, SilentInv
  PROVE  LostAlertsAreFailures
  <1> SUFFICES ASSUME group = "alerting"
               PROVE  \E lost \in SUBSET {x \in announced : ~ Alerted(x[1], x[2])} :
                        /\ Cardinality(lost) <= faults
                        /\ \A i \in 1 .. committed["live"] : \A c \in Conditions :
                             Holds(c, i) /\ <<"live", i>> \notin cutShort =>
                               Heard(c, i, lost \cup AtHands)
    BY DEF LostAlertsAreFailures
  <1>1. ASSUME NEW i \in 1 .. committed["live"], NEW c \in Conditions,
               Holds(c, i), <<"live", i>> \notin cutShort
        PROVE  Heard(c, i, Silent \cup AtHands)
    <2>1. HasEffect("live", i)
      BY <1>1 DEF DeliveredInv, CommittedIsStored, Topics
    <2>2. Covered(c, i)
      BY <1>1, <2>1 DEF HasEffect, Holds, Counts, Live
    <2>3. PICK j \in 1 .. i : <<c, j>> \in announced /\ Live[i].at < Live[j].at + Cooldown
      BY <2>2 DEF Covered
    <2>4. committed["live"] \in Nat /\ j \in Nat
      BY DEF DeliveredInv, GroupInv, ConsumerTypeOK, Topics
    <2>5. Live[j].ok
      BY <2>3, <2>4 DEF DeliveredInv, CheckedInv, AnnouncedInv
    <2>6. Alerted(c, j) \/ <<c, j>> \in Silent \cup AtHands
      BY <2>3 DEF Silent
    <2> QED
      BY <2>3, <2>5, <2>6 DEF Heard
  <1>2. Silent \in SUBSET {x \in announced : ~ Alerted(x[1], x[2])} /\ Cardinality(Silent) <= faults
    BY DEF Silent, SilentInv
  <1> QED
    BY <1>1, <1>2

\* Only failures make alerts go silent.
THEOREM SilentAreFailures == TelemetrySpec => []SilentInv
  <1>1. TelemetryInit /\ DeliveredInv => SilentInv
    <2>1. TelemetryInit => Silent = {} /\ faults = 0
      BY DEF TelemetryInit, ConsumerInit, AlertInit, Silent
    <2> QED
      BY <2>1, FS_EmptySet DEF SilentInv
  <1>2. DeliveredInv /\ SilentInv /\ [TelemetryNext]_telemetryVars => SilentInv'
    BY SilentKept
  <1> QED
    BY <1>1, <1>2, DeliveredAlways, PTL DEF TelemetrySpec

\* However long an outage is and whatever the calls find stale, a condition of a
\* committed reading that some call looks at has had an alert within the cooldown,
\* up to one lost alert for each failure (alerting/consumer.ts).
THEOREM FewAlertsAreLost == TelemetrySpec => []LostAlertsAreFailures
  <1>1. DeliveredInv /\ SilentInv => LostAlertsAreFailures
    BY SilentBounds
  <1> QED
    BY <1>1, DeliveredAlways, SilentAreFailures, PTL

-----------------------------------------------------------------------------
(* Episodes.                                                               *)
(*                                                                         *)
(* Without failures the members take turns, and each goes on where the one *)
(* before has stopped, so that the alert tables tell what the readings     *)
(* behind the group, one after the other, would have made of them.  The    *)
(* definitions here are of a log L alone.  The one they are used for is    *)
(* the live log with the readings marked that a call has left out.         *)

CountsIn(L, i)   == L[i].ok
HoldsIn(L, c, i) == L[i].ok /\ c \in Candidates(L[i])

DueIn(L, c) ==
  CHOOSE F \in SUBSET DOMAIN L : \A i \in DOMAIN L :
    LET before == {j \in 1 .. i - 1 : CountsIn(L, j)}
        fired  == {j \in F : j < i}
    IN  i \in F <=> /\ HoldsIn(L, c, i)
                    /\ \/ before = {} \/ ~ HoldsIn(L, c, Max(before))
                       \/ fired # {} /\ L[i].at >= L[Max(fired)].at + Cooldown

HeardIn(L, n)     == {j \in 1 .. n : CountsIn(L, j)}
DueTo(L, c, n)    == {i \in DueIn(L, c) : i <= n}
ActiveAt(L, c, n) == HeardIn(L, n) # {} /\ HoldsIn(L, c, Max(HeardIn(L, n)))
FiredAt(L, c, n)  == IF DueTo(L, c, n) = {} THEN 0 ELSE L[Max(DueTo(L, c, n))].at

\* The state s is as it should be behind n readings.
Like(L, c, n, s) == (s.active <=> ActiveAt(L, c, n)) /\ (s.active => s.fired = FiredAt(L, c, n))

Clears(L, c, i) == CountsIn(L, i) /\ ~ HoldsIn(L, c, i)

\* A log of readings whose times are those of the model.
LogOK(L) ==
  Len(L) \in Nat /\ DOMAIN L = 1 .. Len(L) /\ \A i \in DOMAIN L : L[i].at \in 1 .. MaxTime

\* A reading is worth an alert, given those that were.
Worth(L, c, F, i) ==
  /\ HoldsIn(L, c, i)
  /\ \/ ~ ActiveAt(L, c, i - 1)
     \/ {j \in F : j < i} # {} /\ L[i].at >= L[Max({j \in F : j < i})].at + Cooldown

\* What holds of zero, and of the next number if of one, holds of all.
LEMMA UpTo ==
  ASSUME NEW N \in Nat, NEW S, 0 \in S,
         \A n \in 0 .. N - 1 : n \in S => n + 1 \in S
  PROVE  N \in S
  <1> DEFINE Bad == {n \in 0 .. N : n \notin S}
  <1>1. SUFFICES ASSUME Bad # {} PROVE FALSE
    OBVIOUS
  <1>2. PICK n \in Bad : \A k \in Bad : n <= k
    <2>1. Bad \subseteq Nat
      OBVIOUS
    <2> HIDE DEF Bad
    <2> QED
      BY <1>1, <2>1, MinIn
  <1>3. n - 1 \in 0 .. N - 1 /\ n - 1 \notin Bad
    BY <1>2
  <1>4. n - 1 \in S
    BY <1>3
  <1>5. (n - 1) + 1 \in S
    BY <1>3, <1>4
  <1> QED
    BY <1>2, <1>5

\* The readings that are worth an alert are what their definition says.
LEMMA DueRule ==
  ASSUME NEW L, LogOK(L), NEW c
  PROVE  /\ DueIn(L, c) \subseteq DOMAIN L
         /\ \A i \in DOMAIN L : i \in DueIn(L, c) <=> Worth(L, c, DueIn(L, c), i)
  <1> DEFINE N == Len(L)
             Rule(F, n) == \A i \in 1 .. n : i \in F <=> Worth(L, c, F, i)
             Good == {n \in 0 .. N : \E F \in SUBSET (1 .. n) : Rule(F, n)}
  <1>1. 0 \in Good
    <2>1. {} \in SUBSET (1 .. 0) /\ Rule({}, 0) /\ 0 \in 0 .. N
      BY DEF LogOK
    <2> QED
      BY <2>1
  <1>2. ASSUME NEW n \in 0 .. N - 1, n \in Good
        PROVE  n + 1 \in Good
    <2>1. PICK F \in SUBSET (1 .. n) : Rule(F, n)
      BY <1>2
    <2> DEFINE G == IF Worth(L, c, F, n + 1) THEN F \cup {n + 1} ELSE F
    <2>2. n \in Nat /\ n + 1 \in 0 .. N /\ G \in SUBSET (1 .. n + 1)
      BY <2>1 DEF LogOK
    <2>3. \A i \in 1 .. n + 1 : {j \in G : j < i} = {j \in F : j < i}
      BY <2>1, <2>2
    <2>4. \A i \in 1 .. n + 1 : Worth(L, c, G, i) <=> Worth(L, c, F, i)
      BY <2>3 DEF Worth
    <2>5. \A i \in 1 .. n + 1 : i \in G <=> Worth(L, c, F, i)
      <3>1. TAKE i \in 1 .. n + 1
      <3>2. CASE i = n + 1
        BY <2>1, <2>2, <3>2
      <3>3. CASE i # n + 1
        <4>1. i \in 1 .. n
          BY <2>2, <3>3
        <4>2. i \in G <=> i \in F
          BY <3>3
        <4> QED
          BY <2>1, <4>1, <4>2
      <3> QED
        BY <3>2, <3>3
    <2> HIDE DEF G
    <2>6. Rule(G, n + 1)
      BY <2>4, <2>5
    <2> QED
      BY <2>2, <2>6
  <1>3. N \in Good
    <2> HIDE DEF Good
    <2> QED
      BY <1>1, <1>2, UpTo DEF LogOK
  <1>4. PICK F \in SUBSET DOMAIN L : \A i \in DOMAIN L : i \in F <=> Worth(L, c, F, i)
    BY <1>3 DEF LogOK
  <1> DEFINE Meets(G) ==
        \A i \in DOMAIN L :
          LET before == {j \in 1 .. i - 1 : CountsIn(L, j)}
              fired  == {j \in G : j < i}
          IN  i \in G <=> /\ HoldsIn(L, c, i)
                          /\ \/ before = {} \/ ~ HoldsIn(L, c, Max(before))
                             \/ fired # {} /\ L[i].at >= L[Max(fired)].at + Cooldown
  <1>5. \A G : Meets(G) <=> \A i \in DOMAIN L : i \in G <=> Worth(L, c, G, i)
    <2>1. ASSUME NEW i \in DOMAIN L
          PROVE  ~ ActiveAt(L, c, i - 1) <=>
                   LET before == {j \in 1 .. i - 1 : CountsIn(L, j)}
                   IN  before = {} \/ ~ HoldsIn(L, c, Max(before))
      BY DEF ActiveAt, HeardIn
    <2> QED
      BY <2>1 DEF Worth
  <1>6. DueIn(L, c) = CHOOSE G \in SUBSET DOMAIN L : Meets(G)
    BY DEF DueIn
  <1> HIDE DEF Meets
  <1>7. DueIn(L, c) \in SUBSET DOMAIN L /\ Meets(DueIn(L, c))
    BY <1>4, <1>5, <1>6
  <1> QED
    BY <1>5, <1>7

\* What has been heard up to a reading.
LEMMA HeardTo ==
  ASSUME NEW L, LogOK(L), NEW i \in DOMAIN L
  PROVE  /\ i \in Nat /\ i - 1 \in Nat
         /\ CountsIn(L, i) => HeardIn(L, i) # {} /\ Max(HeardIn(L, i)) = i
         /\ ~ CountsIn(L, i) => HeardIn(L, i) = HeardIn(L, i - 1)
  <1>1. i \in Nat /\ i - 1 \in Nat /\ i >= 1
    BY DEF LogOK
  <1>2. ASSUME CountsIn(L, i)
        PROVE  HeardIn(L, i) # {} /\ Max(HeardIn(L, i)) = i
    <2>1. i \in HeardIn(L, i) /\ HeardIn(L, i) \subseteq 0 .. i
      BY <1>1, <1>2 DEF HeardIn
    <2>2. Max(HeardIn(L, i)) \in HeardIn(L, i) /\ i <= Max(HeardIn(L, i))
      BY <1>1, <2>1, MaxIn
    <2> QED
      BY <1>1, <2>1, <2>2
  <1>3. ASSUME ~ CountsIn(L, i)
        PROVE  HeardIn(L, i) = HeardIn(L, i - 1)
    BY <1>1, <1>3 DEF HeardIn
  <1> QED
    BY <1>1, <1>2, <1>3

\* The alerts up to a reading.
LEMMA DueSteps ==
  ASSUME NEW L, LogOK(L), NEW c, NEW i \in DOMAIN L
  PROVE  /\ i \in DueIn(L, c) => HoldsIn(L, c, i)
         /\ i \notin DueIn(L, c) => DueTo(L, c, i) = DueTo(L, c, i - 1)
         /\ i \in DueIn(L, c) => Max(DueTo(L, c, i)) = i /\ DueTo(L, c, i) # {}
         /\ HoldsIn(L, c, i) /\ ~ ActiveAt(L, c, i - 1) => i \in DueIn(L, c)
         /\ HoldsIn(L, c, i) /\ ActiveAt(L, c, i - 1) =>
              (i \in DueIn(L, c) <=> /\ DueTo(L, c, i - 1) # {}
                                     /\ L[i].at >= L[Max(DueTo(L, c, i - 1))].at + Cooldown)
  <1>1. i \in Nat /\ i - 1 \in Nat /\ DueIn(L, c) \subseteq Nat
    BY HeardTo, DueRule DEF LogOK
  <1>2. i \in DueIn(L, c) <=> Worth(L, c, DueIn(L, c), i)
    BY DueRule
  <1>3. {j \in DueIn(L, c) : j < i} = DueTo(L, c, i - 1)
    BY <1>1 DEF DueTo
  <1>4. i \notin DueIn(L, c) => DueTo(L, c, i) = DueTo(L, c, i - 1)
    BY <1>1 DEF DueTo
  <1>5. ASSUME i \in DueIn(L, c)
        PROVE  Max(DueTo(L, c, i)) = i /\ DueTo(L, c, i) # {}
    <2>1. i \in DueTo(L, c, i) /\ DueTo(L, c, i) \subseteq 0 .. i
      BY <1>1, <1>5 DEF DueTo
    <2>2. Max(DueTo(L, c, i)) \in DueTo(L, c, i) /\ i <= Max(DueTo(L, c, i))
      BY <1>1, <2>1, MaxIn
    <2> QED
      BY <1>1, <2>1, <2>2
  <1> QED
    BY <1>2, <1>3, <1>4, <1>5 DEF Worth

\* Once a condition has begun to hold there was an alert for it.
LEMMA ActiveIsFired ==
  ASSUME NEW L, LogOK(L), NEW c, NEW n \in 0 .. Len(L)
  PROVE  ActiveAt(L, c, n) => DueTo(L, c, n) # {}
  <1> DEFINE Good == {k \in 0 .. n : ActiveAt(L, c, k) => DueTo(L, c, k) # {}}
  <1>1. 0 \in Good
    <2>1. HeardIn(L, 0) = {}
      BY DEF HeardIn
    <2> QED
      BY <2>1 DEF ActiveAt, LogOK
  <1>2. ASSUME NEW k \in 0 .. n - 1, k \in Good
        PROVE  k + 1 \in Good
    <2>1. k + 1 \in DOMAIN L /\ k + 1 \in 0 .. n /\ (k + 1) - 1 = k
      BY DEF LogOK
    <2>2. DueTo(L, c, k) \subseteq DueTo(L, c, k + 1)
      <3>1. DueIn(L, c) \subseteq Nat /\ k \in Nat
        BY DueRule DEF LogOK
      <3> QED
        BY <3>1 DEF DueTo
    <2>3. CASE ~ CountsIn(L, k + 1)
      BY <1>2, <2>1, <2>2, <2>3, HeardTo DEF ActiveAt
    <2>4. CASE CountsIn(L, k + 1) /\ ~ HoldsIn(L, c, k + 1)
      BY <2>1, <2>4, HeardTo DEF ActiveAt
    <2>5. CASE HoldsIn(L, c, k + 1)
      BY <1>2, <2>1, <2>2, <2>5, DueSteps
    <2> QED
      BY <2>3, <2>4, <2>5
  <1>3. n \in Good
    <2> HIDE DEF Good
    <2> QED
      BY <1>1, <1>2, UpTo DEF LogOK
  <1> QED
    BY <1>3

\* The time of the last alert.
LEMMA FiredType ==
  ASSUME NEW L, LogOK(L), NEW c, NEW n \in 0 .. Len(L)
  PROVE  /\ FiredAt(L, c, n) \in 0 .. MaxTime
         /\ ActiveAt(L, c, n) => FiredAt(L, c, n) \in 1 .. MaxTime
  <1>1. MaxTime \in Nat /\ n \in Nat
    BY AlertAssumption DEF LogOK
  <1>2. ASSUME DueTo(L, c, n) # {}
        PROVE  L[Max(DueTo(L, c, n))].at \in 1 .. MaxTime
    <2>1. DueTo(L, c, n) \subseteq 0 .. n /\ DueTo(L, c, n) \subseteq DOMAIN L
      BY <1>1, DueRule DEF DueTo, LogOK
    <2>2. Max(DueTo(L, c, n)) \in DOMAIN L
      BY <1>1, <1>2, <2>1, MaxIn
    <2> QED
      BY <2>2 DEF LogOK
  <1> QED
    BY <1>1, <1>2, ActiveIsFired DEF FiredAt

\* A reading that does not count changes nothing.
LEMMA AfterUncounted ==
  ASSUME NEW L, LogOK(L), NEW c, NEW i \in DOMAIN L, ~ CountsIn(L, i)
  PROVE  /\ ActiveAt(L, c, i) <=> ActiveAt(L, c, i - 1)
         /\ FiredAt(L, c, i) = FiredAt(L, c, i - 1)
  <1>1. HeardIn(L, i) = HeardIn(L, i - 1)
    BY HeardTo
  <1>2. ~ HoldsIn(L, c, i)
    BY DEF CountsIn, HoldsIn
  <1>3. DueTo(L, c, i) = DueTo(L, c, i - 1)
    BY <1>2, DueSteps
  <1> QED
    BY <1>1, <1>3 DEF ActiveAt, FiredAt

\* A reading by which the condition does not hold ends the episode.
LEMMA AfterCleared ==
  ASSUME NEW L, LogOK(L), NEW c, NEW i \in DOMAIN L, Clears(L, c, i)
  PROVE  /\ ~ ActiveAt(L, c, i) /\ i \notin DueIn(L, c)
         /\ FiredAt(L, c, i) = FiredAt(L, c, i - 1)
  <1>1. Max(HeardIn(L, i)) = i /\ CountsIn(L, i) /\ ~ HoldsIn(L, c, i)
    BY HeardTo DEF Clears
  <1>2. DueTo(L, c, i) = DueTo(L, c, i - 1) /\ i \notin DueIn(L, c)
    BY <1>1, DueSteps
  <1> QED
    BY <1>1, <1>2 DEF ActiveAt, FiredAt

\* One by which it holds begins an episode or goes on with it.
LEMMA AfterHeld ==
  ASSUME NEW L, LogOK(L), NEW c, NEW i \in DOMAIN L, HoldsIn(L, c, i)
  PROVE  /\ ActiveAt(L, c, i)
         /\ i \in DueIn(L, c) <=> \/ ~ ActiveAt(L, c, i - 1)
                                  \/ L[i].at >= FiredAt(L, c, i - 1) + Cooldown
         /\ FiredAt(L, c, i) = IF i \in DueIn(L, c) THEN L[i].at ELSE FiredAt(L, c, i - 1)
  <1>1. CountsIn(L, i)
    BY DEF CountsIn, HoldsIn
  <1>2. ActiveAt(L, c, i)
    BY <1>1, HeardTo DEF ActiveAt
  <1>3. i - 1 \in 0 .. Len(L)
    BY DEF LogOK
  <1>4. ActiveAt(L, c, i - 1) => /\ DueTo(L, c, i - 1) # {}
                                 /\ FiredAt(L, c, i - 1) = L[Max(DueTo(L, c, i - 1))].at
    BY <1>3, ActiveIsFired DEF FiredAt
  <1>5. i \in DueIn(L, c) <=> \/ ~ ActiveAt(L, c, i - 1)
                              \/ L[i].at >= FiredAt(L, c, i - 1) + Cooldown
    BY <1>4, DueSteps
  <1>6. FiredAt(L, c, i) = IF i \in DueIn(L, c) THEN L[i].at ELSE FiredAt(L, c, i - 1)
    BY DueSteps DEF FiredAt
  <1> QED
    BY <1>2, <1>5, <1>6

\* Readings that do not count change nothing.
LEMMA AfterUncountedAll ==
  ASSUME NEW L, LogOK(L), NEW c, NEW g \in 0 .. Len(L), NEW n \in g .. Len(L),
         \A j \in g + 1 .. n : ~ CountsIn(L, j)
  PROVE  /\ ActiveAt(L, c, n) <=> ActiveAt(L, c, g)
         /\ FiredAt(L, c, n) = FiredAt(L, c, g)
  <1> DEFINE Same(k) == /\ ActiveAt(L, c, g + k) <=> ActiveAt(L, c, g)
                        /\ FiredAt(L, c, g + k) = FiredAt(L, c, g)
             Good == {k \in 0 .. n - g : Same(k)}
  <1>1. Len(L) \in Nat /\ g \in Nat /\ n \in Nat /\ n - g \in Nat /\ g + 0 = g /\ g + (n - g) = n
    BY DEF LogOK
  <1>2. 0 \in Good
    BY <1>1
  <1>3. ASSUME NEW k \in 0 .. (n - g) - 1, k \in Good
        PROVE  k + 1 \in Good
    <2>1. /\ k + 1 \in 0 .. n - g /\ g + (k + 1) \in DOMAIN L
          /\ (g + (k + 1)) - 1 = g + k /\ g + (k + 1) \in g + 1 .. n
      BY <1>1 DEF LogOK
    <2> QED
      BY <1>3, <2>1, AfterUncounted
  <1>4. n - g \in Good
    <2> HIDE DEF Good
    <2> QED
      BY <1>1, <1>2, <1>3, UpTo
  <1> QED
    BY <1>1, <1>4

\* The logs L and M are the same up to n readings.
Agree(L, M, n) ==
  \A i \in 1 .. n :
    /\ CountsIn(L, i) <=> CountsIn(M, i)
    /\ \A c \in Conditions : HoldsIn(L, c, i) <=> HoldsIn(M, c, i)
    /\ L[i].at = M[i].at

\* Whether a condition holds behind n readings depends on those alone.
LEMMA AgreeActive ==
  ASSUME NEW L, NEW M, NEW n \in Nat, Agree(L, M, n), NEW c \in Conditions
  PROVE  ActiveAt(L, c, n) <=> ActiveAt(M, c, n)
  <1>1. HeardIn(L, n) = HeardIn(M, n) /\ HeardIn(L, n) \subseteq 1 .. n
    BY DEF Agree, HeardIn
  <1>2. CASE HeardIn(L, n) # {}
    <2> DEFINE S == HeardIn(L, n)
    <2>1. Max(S) \in S
      <3>1. S \subseteq 0 .. n /\ S # {}
        BY <1>1, <1>2
      <3> HIDE DEF S
      <3> QED
        BY <3>1, MaxIn
    <2> QED
      BY <1>1, <1>2, <2>1 DEF Agree, ActiveAt
  <1>3. CASE HeardIn(L, n) = {}
    BY <1>1, <1>3 DEF ActiveAt
  <1> QED
    BY <1>2, <1>3

\* So do the alerts due for them, and when the last of these was.
LEMMA AgreeDue ==
  ASSUME NEW L, NEW M, LogOK(L), LogOK(M), NEW n \in Nat, n <= Len(L), n <= Len(M), Agree(L, M, n),
         NEW c \in Conditions
  PROVE  /\ DueTo(L, c, n) = DueTo(M, c, n)
         /\ FiredAt(L, c, n) = FiredAt(M, c, n)
  <1> DEFINE Same(k) == DueTo(L, c, k) = DueTo(M, c, k) /\ FiredAt(L, c, k) = FiredAt(M, c, k)
             Good == {k \in 0 .. n : Same(k)}
  <1>1. 0 \in Good
    <2>1. \A K : LogOK(K) => DueIn(K, c) \subseteq DOMAIN K /\ DOMAIN K = 1 .. Len(K) /\ Len(K) \in Nat
      BY DueRule DEF LogOK
    <2>2. DueTo(L, c, 0) = {} /\ DueTo(M, c, 0) = {}
      BY <2>1 DEF DueTo
    <2> QED
      BY <2>2 DEF FiredAt
  <1>2. ASSUME NEW k \in 0 .. n - 1, k \in Good
        PROVE  k + 1 \in Good
    <2>1. PICK p \in Nat : p = k + 1 /\ p - 1 = k /\ k \in Nat /\ p \in 1 .. n
      OBVIOUS
    <2>2. p \in DOMAIN L /\ p \in DOMAIN M
      BY <2>1 DEF LogOK
    <2>3. ActiveAt(L, c, k) <=> ActiveAt(M, c, k)
      <3>1. Agree(L, M, k)
        BY <2>1 DEF Agree
      <3> QED
        BY <2>1, <3>1, AgreeActive
    <2>4. Same(k)
      BY <1>2
    <2>5. (HoldsIn(L, c, p) <=> HoldsIn(M, c, p)) /\ L[p].at = M[p].at
      BY <2>1 DEF Agree
    <2>6. p \in DueIn(L, c) <=> p \in DueIn(M, c)
      <3>1. CASE HoldsIn(L, c, p)
        BY <2>1, <2>2, <2>3, <2>4, <2>5, <3>1, AfterHeld
      <3>2. CASE ~ HoldsIn(L, c, p)
        BY <2>2, <2>5, <3>2, DueSteps
      <3> QED
        BY <3>1, <3>2
    <2>7. DueIn(L, c) \subseteq Nat /\ DueIn(M, c) \subseteq Nat
      BY DueRule DEF LogOK
    <2>8. DueTo(L, c, p) = DueTo(M, c, p)
      <3>1. ASSUME NEW i \in Nat, i <= p
            PROVE  i \in DueIn(L, c) <=> i \in DueIn(M, c)
        <4>1. CASE i = p
          BY <2>6, <4>1
        <4>2. CASE i # p
          <5>1. i <= k
            BY <2>1, <3>1, <4>2
          <5> QED
            BY <2>4, <5>1 DEF DueTo
        <4> QED
          BY <4>1, <4>2
      <3> QED
        BY <2>7, <3>1 DEF DueTo
    <2>9. FiredAt(L, c, p) = FiredAt(M, c, p)
      <3>1. CASE p \in DueIn(L, c)
        BY <2>2, <2>5, <2>6, <3>1, DueSteps DEF FiredAt
      <3>2. CASE p \notin DueIn(L, c)
        <4>1. DueTo(L, c, p) = DueTo(L, c, k) /\ DueTo(M, c, p) = DueTo(M, c, k)
          BY <2>1, <2>2, <2>6, <3>2, DueSteps
        <4> QED
          BY <2>4, <4>1 DEF FiredAt
      <3> QED
        BY <3>1, <3>2
    <2> QED
      BY <2>1, <2>8, <2>9
  <1>3. n \in Good
    <2> HIDE DEF Good
    <2> QED
      BY <1>1, <1>2, UpTo
  <1> QED
    BY <1>3

\* Whether a reading by which the condition holds raises an alert in state s.
FiresIn(L, s, i) ==
  ~ s.active \/ (s.fired # NeverFired /\ L[i].at >= s.fired + Cooldown)

\* The state after a reading by which the condition holds.
HeldState(L, s, i) ==
  [active |-> TRUE, fired |-> IF FiresIn(L, s, i) THEN L[i].at ELSE s.fired]

\* A check by which the condition holds raises an alert if one is due.
LEMMA LikeHeld ==
  ASSUME NEW L, LogOK(L), NEW c, NEW s, NEW n \in 0 .. Len(L),
         NEW p, p = n + 1, p \in DOMAIN L, HoldsIn(L, c, p), Like(L, c, n, s)
  PROVE  /\ Like(L, c, p, HeldState(L, s, p))
         /\ FiresIn(L, s, p) <=> p \in DueIn(L, c)
  <1>1. n \in Nat /\ Len(L) \in Nat /\ p - 1 = n
    BY DEF LogOK
  <1>2. ActiveAt(L, c, n) => FiredAt(L, c, n) # 0
    <2>1. \A x \in 1 .. MaxTime : x # 0
      BY AlertAssumption
    <2> QED
      BY <2>1, FiredType
  <1>3. /\ ActiveAt(L, c, p)
        /\ p \in DueIn(L, c) <=> ~ ActiveAt(L, c, n) \/ L[p].at >= FiredAt(L, c, n) + Cooldown
        /\ FiredAt(L, c, p) = IF p \in DueIn(L, c) THEN L[p].at ELSE FiredAt(L, c, n)
    BY <1>1, AfterHeld
  <1>4. FiresIn(L, s, p) <=> p \in DueIn(L, c)
    BY <1>2, <1>3 DEF Like, FiresIn, NeverFired
  <1>5. Like(L, c, p, HeldState(L, s, p))
    BY <1>3, <1>4 DEF Like, FiresIn, HeldState
  <1> QED
    BY <1>4, <1>5

-----------------------------------------------------------------------------
(* What the alert tables tell of the readings behind the group: S are the  *)
(* states, A the alerts, and P the alerts whose state is set and that are  *)
(* not yet raised.                                                         *)

\* The readings of time a up to h for which an alert was due and is not at hand.
Raised(L, h, P, c, a) == {i \in DueIn(L, c) : i <= h[c] /\ L[i].at = a /\ <<c, i>> \notin P}

\* For each condition the group has committed n readings and is behind pos: the
\* states are those of pos, every alert due is raised or at hand, and no other is.
Follows(L, n, pos, S, A, P) ==
  /\ \A c \in Conditions : n <= pos[c] /\ pos[c] <= Len(L) /\ Like(L, c, pos[c], S[c])
  /\ \A c \in Conditions : \A i \in DueIn(L, c) :
       i <= pos[c] /\ A[<<c, L[i].at>>] = 0 => <<c, i>> \in P
  /\ \A x \in P : x[2] \in DueIn(L, x[1])
  /\ \A c \in Conditions, a \in 1 .. MaxTime :
       A[<<c, a>>] <= Cardinality(Raised(L, pos, P, c, a))

\* The conditions are three.
LEMMA ThreeConditions ==
  /\ Conditions = {"low_fuel", "geofence_exit", "speeding"} /\ IsFiniteSet(Conditions)
  /\ DOMAIN AlertTypes = 1 .. 3 /\ Len(AlertTypes) = 3
  /\ Conditions = {AlertTypes[k] : k \in 1 .. 3}
  /\ \A j, k \in 1 .. 3 : AlertTypes[j] = AlertTypes[k] => j = k
  <1>1. /\ AlertTypes[1] = "low_fuel" /\ AlertTypes[2] = "geofence_exit" /\ AlertTypes[3] = "speeding"
        /\ DOMAIN AlertTypes = 1 .. 3 /\ Len(AlertTypes) = 3
    BY DEF AlertTypes
  <1>2. 1 .. 3 = {1, 2, 3}
    OBVIOUS
  <1>3. Conditions = {"low_fuel", "geofence_exit", "speeding"}
    BY <1>1, <1>2 DEF Conditions, ToSet
  <1>4. IsFiniteSet({"low_fuel"} \cup ({"geofence_exit"} \cup {"speeding"}))
    BY FS_Singleton, FS_Union
  <1>5. IsFiniteSet(Conditions)
    BY <1>3, <1>4
  <1>6. Conditions = {AlertTypes[k] : k \in 1 .. 3}
    BY <1>1, <1>2, <1>3
  <1>7. \A j, k \in 1 .. 3 : AlertTypes[j] = AlertTypes[k] => j = k
    BY <1>1, <1>2
  <1> QED
    BY <1>1, <1>3, <1>5, <1>6, <1>7

\* Only finitely many alerts are due or raised.
LEMMA RaisedFinite ==
  ASSUME NEW L, LogOK(L), NEW h, NEW P, NEW c, NEW a
  PROVE  /\ IsFiniteSet(Raised(L, h, P, c, a)) /\ Cardinality(Raised(L, h, P, c, a)) \in Nat
         /\ IsFiniteSet(DueIn(L, c))
  <1>1. IsFiniteSet(DOMAIN L)
    BY FS_Interval DEF LogOK
  <1>2. DueIn(L, c) \subseteq DOMAIN L
    BY DueRule
  <1>3. Raised(L, h, P, c, a) \subseteq DOMAIN L
    BY <1>2 DEF Raised
  <1>4. IsFiniteSet(Raised(L, h, P, c, a)) /\ IsFiniteSet(DueIn(L, c))
    BY <1>1, <1>2, <1>3, FS_Subset
  <1> QED
    BY <1>4, FS_CardinalityType

\* An alert is due for a reading by which the condition holds.
LEMMA DueHolds ==
  ASSUME NEW L, LogOK(L), NEW c
  PROVE  DueIn(L, c) \subseteq Nat /\ \A i \in DueIn(L, c) : HoldsIn(L, c, i)
  <1>1. DueIn(L, c) \subseteq DOMAIN L
    BY DueRule
  <1>2. DOMAIN L \subseteq Nat
    BY DEF LogOK
  <1>3. \A i \in DOMAIN L : i \in DueIn(L, c) => HoldsIn(L, c, i)
    BY DueSteps
  <1> QED
    BY <1>1, <1>2, <1>3

\* The readings behind the group are all that matters.
LEMMA FollowsAgree ==
  ASSUME NEW L, NEW M, LogOK(L), LogOK(M), NEW n \in Nat, Len(L) = Len(M), Agree(L, M, n), NEW S, NEW A,
         NEW pos \in [Conditions -> Nat], \A c \in Conditions : pos[c] = n,
         Follows(L, n, pos, S, A, {})
  PROVE  Follows(M, n, pos, S, A, {})
  <1>1. ASSUME NEW c \in Conditions
        PROVE  /\ n <= Len(L) /\ n <= Len(M)
               /\ Like(L, c, n, S[c])
               /\ DueTo(L, c, n) = DueTo(M, c, n)
               /\ FiredAt(L, c, n) = FiredAt(M, c, n)
               /\ ActiveAt(L, c, n) <=> ActiveAt(M, c, n)
    <2>1. n <= Len(L) /\ n <= Len(M) /\ Like(L, c, n, S[c])
      BY DEF Follows
    <2> QED
      BY <2>1, AgreeDue, AgreeActive
  <1>2. \A c \in Conditions : Like(M, c, n, S[c])
    BY <1>1 DEF Like
  <1>3. ASSUME NEW c \in Conditions, NEW i \in DueIn(M, c), i <= n
        PROVE  i \in DueIn(L, c) /\ L[i].at = M[i].at /\ i \in 1 .. n
    <2>1. i \in DueIn(L, c)
      BY <1>1, <1>3 DEF DueTo
    <2>2. i \in DOMAIN M /\ DOMAIN M = 1 .. Len(M) /\ Len(M) \in Nat
      BY DueRule DEF LogOK
    <2> QED
      BY <1>3, <2>1, <2>2 DEF Agree
  <1>4. ASSUME NEW c \in Conditions, NEW i \in DueIn(L, c), i <= n
        PROVE  i \in DueIn(M, c)
    BY <1>1, <1>4 DEF DueTo
  <1>5. \A c \in Conditions, a \in 1 .. MaxTime : Raised(M, pos, {}, c, a) = Raised(L, pos, {}, c, a)
    BY <1>3, <1>4 DEF Raised
  <1>6. \A c \in Conditions : \A i \in DueIn(M, c) : ~ (i <= pos[c] /\ A[<<c, M[i].at>>] = 0)
    BY <1>3 DEF Follows
  <1>7. \A c \in Conditions, a \in 1 .. MaxTime :
          A[<<c, a>>] <= Cardinality(Raised(M, pos, {}, c, a))
    BY <1>5 DEF Follows
  <1> QED
    BY <1>1, <1>2, <1>6, <1>7 DEF Follows

\* The group gets over readings that do not count.
LEMMA FollowsSkip ==
  ASSUME NEW L, LogOK(L), NEW n \in Nat, NEW pos \in [Conditions -> Nat], NEW S, NEW A, NEW P,
         Follows(L, n, pos, S, A, P),
         NEW to \in [Conditions -> Nat],
         \A c \in Conditions : /\ pos[c] <= to[c] /\ to[c] <= Len(L)
                               /\ \A j \in pos[c] + 1 .. to[c] : ~ CountsIn(L, j)
  PROVE  Follows(L, n, to, S, A, P)
  <1>1. ASSUME NEW c \in Conditions
        PROVE  /\ n <= to[c] /\ to[c] <= Len(L)
               /\ Like(L, c, to[c], S[c])
               /\ \A i \in DueIn(L, c) : i <= to[c] <=> i <= pos[c]
    <2>1. /\ Len(L) \in Nat /\ pos[c] \in Nat /\ to[c] \in Nat
          /\ n <= pos[c] /\ pos[c] <= Len(L) /\ Like(L, c, pos[c], S[c])
      BY DEF Follows, LogOK
    <2>2. n <= to[c] /\ to[c] <= Len(L)
      BY <2>1
    <2>3. pos[c] \in 0 .. Len(L) /\ to[c] \in pos[c] .. Len(L)
      BY <2>1
    <2>4. Like(L, c, to[c], S[c])
      BY <2>1, <2>3, AfterUncountedAll DEF Like
    <2>5. ASSUME NEW i \in DueIn(L, c)
          PROVE  i <= to[c] <=> i <= pos[c]
      <3>1. i \in Nat /\ CountsIn(L, i)
        BY DueHolds DEF CountsIn, HoldsIn
      <3>2. i \notin pos[c] + 1 .. to[c]
        BY <3>1
      <3> QED
        BY <2>1, <3>1, <3>2
    <2> QED
      BY <2>2, <2>4, <2>5
  <1>2. \A c \in Conditions, a \in 1 .. MaxTime : Raised(L, to, P, c, a) = Raised(L, pos, P, c, a)
    BY <1>1 DEF Raised
  <1> QED
    BY <1>1, <1>2 DEF Follows

\* The group commits what it is behind.
LEMMA FollowsCommit ==
  ASSUME NEW L, NEW n, NEW pos, NEW S, NEW A, NEW P, Follows(L, n, pos, S, A, P),
         NEW k \in Nat, \A c \in Conditions : k <= pos[c]
  PROVE  Follows(L, k, pos, S, A, P)
  BY DEF Follows

\* A check by which the condition does not hold.
LEMMA FollowsCleared ==
  ASSUME NEW L, LogOK(L), NEW n \in Nat, NEW pos \in [Conditions -> Nat], NEW S, NEW A,
         Follows(L, n, pos, S, A, {}),
         NEW c \in Conditions, NEW p \in DOMAIN L, p = pos[c] + 1, Clears(L, c, p),
         NEW T, ~ T[c].active, \A d \in Conditions \ {c} : T[d] = S[d],
         NEW to \in [Conditions -> Nat], to[c] = p, \A d \in Conditions \ {c} : to[d] = pos[d]
  PROVE  Follows(L, n, to, T, A, {})
  <1>1. /\ Len(L) \in Nat /\ pos[c] \in Nat /\ p \in Nat /\ p <= Len(L)
        /\ n <= pos[c] /\ pos[c] <= Len(L)
    BY DEF Follows, LogOK
  <1>2. n <= to[c] /\ to[c] <= Len(L) /\ Like(L, c, to[c], T[c])
    <2>1. n <= to[c] /\ to[c] <= Len(L)
      BY <1>1
    <2> QED
      BY <2>1, AfterCleared DEF Like
  <1>3. \A i \in DueIn(L, c) : i <= to[c] <=> i <= pos[c]
    <2>1. p \notin DueIn(L, c) /\ DueIn(L, c) \subseteq Nat
      BY AfterCleared, DueHolds
    <2> QED
      BY <1>1, <2>1
  <1>4. \A d \in Conditions, a \in 1 .. MaxTime : Raised(L, to, {}, d, a) = Raised(L, pos, {}, d, a)
    BY <1>3 DEF Raised
  <1>5. ASSUME NEW d \in Conditions
        PROVE  /\ n <= to[d] /\ to[d] <= Len(L) /\ Like(L, d, to[d], T[d])
               /\ \A i \in DueIn(L, d) : i <= to[d] <=> i <= pos[d]
    BY <1>2, <1>3 DEF Follows
  <1> QED
    BY <1>4, <1>5 DEF Follows

\* A check by which it holds: the state is set, and if it fires the alert is at hand.
LEMMA FollowsHeld ==
  ASSUME NEW L, LogOK(L), NEW n \in Nat, NEW pos \in [Conditions -> Nat], NEW S, NEW A,
         Follows(L, n, pos, S, A, {}),
         NEW c \in Conditions, NEW p \in DOMAIN L, p = pos[c] + 1, HoldsIn(L, c, p),
         NEW T, \A d \in Conditions \ {c} : T[d] = S[d],
         T[c] = HeldState(L, S[c], p),
         NEW P, P = (IF FiresIn(L, S[c], p) THEN {<<c, p>>} ELSE {}),
         NEW to \in [Conditions -> Nat], to[c] = p, \A d \in Conditions \ {c} : to[d] = pos[d]
  PROVE  Follows(L, n, to, T, A, P)
  <1>1. /\ Len(L) \in Nat /\ pos[c] \in Nat /\ p \in Nat /\ p <= Len(L)
        /\ n <= pos[c] /\ pos[c] <= Len(L)
    BY DEF Follows, LogOK
  <1>2. n <= to[c] /\ to[c] <= Len(L)
    BY <1>1
  <1>3. /\ Like(L, c, to[c], T[c])
        /\ FiresIn(L, S[c], p) <=> p \in DueIn(L, c)
    <2>1. PICK k, s : k = pos[c] /\ s = S[c]
      OBVIOUS
    <2>2. k \in 0 .. Len(L) /\ Like(L, c, k, s) /\ p = k + 1
      BY <1>1, <2>1 DEF Follows
    <2>3. Like(L, c, p, HeldState(L, s, p)) /\ (FiresIn(L, s, p) <=> p \in DueIn(L, c))
      BY <2>2, LikeHeld
    <2> QED
      BY <2>1, <2>3
  <1>4. ASSUME NEW i \in DueIn(L, c)
        PROVE  i <= to[c] <=> (i <= pos[c] \/ i = p)
    <2>1. i \in Nat
      BY DueHolds
    <2> QED
      BY <1>1, <2>1
  <1>5. ~ (p <= pos[c])
    BY <1>1
  <1>6. ASSUME NEW d \in Conditions
        PROVE  n <= to[d] /\ to[d] <= Len(L) /\ Like(L, d, to[d], T[d])
    <2>1. CASE d = c
      BY <1>2, <1>3, <2>1
    <2>2. CASE d # c
      BY <2>2 DEF Follows
    <2> QED
      BY <2>1, <2>2
  <1>7. ASSUME NEW d \in Conditions, NEW i \in DueIn(L, d), i <= to[d], A[<<d, L[i].at>>] = 0
        PROVE  <<d, i>> \in P
    <2>1. ~ (i <= pos[d])
      BY <1>7 DEF Follows
    <2>2. d = c /\ i = p
      BY <1>4, <1>7, <2>1
    <2> QED
      BY <1>3, <1>7, <2>2
  <1>8. \A x \in P : x[2] \in DueIn(L, x[1])
    BY <1>3
  <1>9. \A d \in Conditions : \A a : Raised(L, to, P, d, a) = Raised(L, pos, {}, d, a)
    <2>1. TAKE d \in Conditions
    <2>2. TAKE a
    <2>3. CASE d = c
      BY <1>3, <1>4, <1>5, <2>3 DEF Raised
    <2>4. CASE d # c
      BY <2>4 DEF Raised
    <2> QED
      BY <2>3, <2>4
  <1>10. \A d \in Conditions, a \in 1 .. MaxTime : A[<<d, a>>] <= Cardinality(Raised(L, to, P, d, a))
    BY <1>9 DEF Follows
  <1> QED
    BY <1>6, <1>7, <1>8, <1>10 DEF Follows

\* The alert at hand is raised.
LEMMA FollowsRaise ==
  ASSUME NEW L, LogOK(L), NEW n \in Nat, NEW pos \in [Conditions -> Nat], NEW S,
         NEW A \in [Conditions \X (1 .. MaxTime) -> Nat], NEW c \in Conditions, NEW p \in DOMAIN L,
         Follows(L, n, pos, S, A, {<<c, p>>}), p <= pos[c],
         NEW B, B = [A EXCEPT ![<<c, L[p].at>>] = @ + 1]
  PROVE  Follows(L, n, pos, S, B, {})
  <1>1. /\ <<c, L[p].at>> \in Conditions \X (1 .. MaxTime)
        /\ B[<<c, L[p].at>>] = A[<<c, L[p].at>>] + 1
        /\ \A x \in Conditions \X (1 .. MaxTime) : x # <<c, L[p].at>> => B[x] = A[x]
    BY DEF LogOK
  <1>2. ASSUME NEW d \in Conditions, NEW i \in DueIn(L, d), i <= pos[d]
        PROVE  B[<<d, L[i].at>>] # 0
    <2>1. <<d, L[i].at>> \in Conditions \X (1 .. MaxTime)
      BY DueRule DEF LogOK
    <2>2. A[<<d, L[i].at>>] \in Nat /\ A[<<c, L[p].at>>] \in Nat
      BY <1>1, <2>1
    <2>3. CASE <<d, L[i].at>> = <<c, L[p].at>>
      BY <1>1, <2>2, <2>3
    <2>4. CASE <<d, L[i].at>> # <<c, L[p].at>>
      <3>1. <<d, i>> \notin {<<c, p>>}
        BY <2>4
      <3>2. A[<<d, L[i].at>>] # 0
        BY <1>2, <3>1 DEF Follows
      <3> QED
        BY <1>1, <2>1, <2>4, <3>2
    <2> QED
      BY <2>3, <2>4
  <1>3. p \in DueIn(L, c)
    BY DEF Follows
  <1>4. ASSUME NEW d \in Conditions, NEW a \in 1 .. MaxTime
        PROVE  B[<<d, a>>] <= Cardinality(Raised(L, pos, {}, d, a))
    <2> DEFINE U == Raised(L, pos, {<<c, p>>}, d, a)
               V == Raised(L, pos, {}, d, a)
    <2>1. IsFiniteSet(U) /\ Cardinality(U) \in Nat /\ IsFiniteSet(V) /\ Cardinality(V) \in Nat
      BY RaisedFinite
    <2>2. U \subseteq V
      BY DEF Raised
    <2>3. Cardinality(U) <= Cardinality(V)
      BY <2>1, <2>2, FS_Subset
    <2>4. A[<<d, a>>] \in Nat /\ A[<<d, a>>] <= Cardinality(U) /\ <<d, a>> \in Conditions \X (1 .. MaxTime)
      BY DEF Follows
    <2>5. CASE d = c /\ a = L[p].at
      <3>1. p \in V /\ p \notin U
        BY <1>3, <2>5 DEF Raised
      <3> HIDE DEF U, V
      <3>2. /\ IsFiniteSet(U \cup {p}) /\ Cardinality(U \cup {p}) = Cardinality(U) + 1
        BY <2>1, <3>1, FS_AddElement
      <3>3. Cardinality(U \cup {p}) <= Cardinality(V)
        BY <2>1, <2>2, <3>1, <3>2, FS_Subset
      <3>4. B[<<d, a>>] = A[<<d, a>>] + 1
        BY <1>1, <2>5
      <3>5. B[<<d, a>>] <= Cardinality(V)
        BY <2>1, <2>4, <3>2, <3>3, <3>4
      <3> QED
        BY <3>5 DEF V
    <2>6. CASE ~ (d = c /\ a = L[p].at)
      <3>1. B[<<d, a>>] = A[<<d, a>>]
        BY <1>1, <2>4, <2>6
      <3> HIDE DEF U, V
      <3>2. B[<<d, a>>] <= Cardinality(V)
        BY <2>1, <2>3, <2>4, <3>1
      <3> QED
        BY <3>2 DEF V
    <2> QED
      BY <2>5, <2>6
  <1>5. \A d \in Conditions : n <= pos[d] /\ pos[d] <= Len(L) /\ Like(L, d, pos[d], S[d])
    BY DEF Follows
  <1> QED
    BY <1>2, <1>4, <1>5 DEF Follows

-----------------------------------------------------------------------------
(* What the handlers have behind them.                                     *)

\* The live log with the readings of S marked as not to count, and that with those
\* that a call has left out.
Marked(S) == [i \in DOMAIN Live |-> [Live[i] EXCEPT !.ok = Live[i].ok /\ i \notin S]]
Heeded    == Marked(stale)

\* The conditions for which the handler of m has dealt with the reading at hand.
Checked(m) ==
  {AlertTypes[k] : k \in {k \in DOMAIN AlertTypes :
     k < work[m].type \/ (k = work[m].type /\ pc[m] = "raise")}}

\* A member that has its first check before it, and one that is at its checks.
Fresher  == {"down", "idle", "deadletter", "handler"}
AtChecks == {"register", "lookup", "store", "write", "raise"}

\* The reading that m is behind, for condition c.
PlaceOf(m, c) ==
  IF pc[m] \in Fresher THEN committed["live"]
  ELSE IF pc[m] = "resolve" THEN batch[m].last
  ELSE IF c \in Checked(m) THEN work[m].place ELSE work[m].place - 1

Place(m)  == [c \in Conditions |-> PlaceOf(m, c)]
Committed == [c \in Conditions |-> committed["live"]]

\* The alert whose state m has set and that it has not yet raised.
AtHand(m) == IF pc[m] = "raise" THEN {<<Condition(m), work[m].place>>} ELSE {}

FollowsAt(pos, P) == Follows(Heeded, committed["live"], pos, states, alerts, P)

\* What a handler has read of a state is still so when it writes it.
SeenInv == \A m \in Members : pc[m] = "write" => seen[m] = states[Condition(m)]

\* The checks at hand and left are of all the readings that count.
HeedsOf(m) ==
  pc[m] \in AtChecks =>
    /\ work[m].place \notin stale
    /\ work[m].rest = {j \in Events(batch[m]) : work[m].place < j /\ j \notin stale}

\* The readings up to which a call of m may have left some out.
Seen(m) == IF pc[m] \in Fresher THEN committed["live"] ELSE batch[m].last

FollowsInv ==
  /\ SeenInv
  /\ (\A m \in Members : ~ InBatch(m)) =>
       FollowsAt(Committed, {}) /\ \A j \in stale : j <= committed["live"]
  /\ \A m \in Members : InBatch(m) =>
       FollowsAt(Place(m), AtHand(m)) /\ HeedsOf(m) /\ \A j \in stale : j <= Seen(m)

\* Without failures nobody stops and nobody is evicted.
BlameInv == faults = 0 => stopping = {} /\ fenced = {}

EpisodeInv == BlameInv /\ (group = "alerting" /\ faults = 0 => FollowsInv)

\* The live log, marked, is one that the lemmas are about.
LEMMA MarkedOK ==
  ASSUME GroupInv, NEW S
  PROVE  /\ LogOK(Marked(S))
         /\ DOMAIN Marked(S) = DOMAIN Live /\ Len(Marked(S)) = Len(Live) /\ Len(Live) \in Nat
         /\ DOMAIN Live = 1 .. Len(Live)
         /\ \A i \in DOMAIN Live :
              /\ Marked(S)[i].at = Live[i].at
              /\ CountsIn(Marked(S), i) <=> Live[i].ok /\ i \notin S
              /\ \A c : HoldsIn(Marked(S), c, i) <=>
                          (Live[i].ok /\ i \notin S) /\ c \in Candidates(Live[i])
  <1>1. Live \in Seq(Readings) /\ log \in Logs[group] /\ group \in Groups /\ "live" \in Topics
    BY ConsumerAssumption DEF GroupInv, ConsumerTypeOK, LogInv, Live, Topics
  <1>2. Len(Live) \in Nat /\ DOMAIN Live = 1 .. Len(Live) /\ \A i \in DOMAIN Live : Live[i] \in Readings
    BY <1>1
  <1>3. \A i \in DOMAIN Live : Live[i].at \in 1 .. MaxTime
    BY <1>1, AlertAssumption DEF Live
  <1>4. ASSUME NEW i \in DOMAIN Live
        PROVE  /\ Marked(S)[i] \in Readings
               /\ Marked(S)[i].at = Live[i].at /\ Marked(S)[i].gps = Live[i].gps
               /\ Marked(S)[i].fuel = Live[i].fuel
               /\ Marked(S)[i].ok <=> Live[i].ok /\ i \notin S
    <2>1. Marked(S)[i] = [Live[i] EXCEPT !.ok = Live[i].ok /\ i \notin S]
      BY DEF Marked
    <2>2. Live[i] \in Readings /\ (Live[i].ok /\ i \notin S) \in BOOLEAN
      BY <1>2
    <2> QED
      BY <2>1, <2>2 DEF Readings
  <1>5. Marked(S) = [i \in 1 .. Len(Live) |-> Marked(S)[i]] /\ DOMAIN Marked(S) = DOMAIN Live
    BY <1>2 DEF Marked
  <1>6. Marked(S) \in Seq(Readings) /\ Len(Marked(S)) = Len(Live)
    BY <1>2, <1>4, <1>5
  <1>7. LogOK(Marked(S))
    BY <1>2, <1>3, <1>4, <1>5, <1>6 DEF LogOK
  <1>8. ASSUME NEW i \in DOMAIN Live
        PROVE  /\ CountsIn(Marked(S), i) <=> Live[i].ok /\ i \notin S
               /\ \A c : HoldsIn(Marked(S), c, i) <=>
                           (Live[i].ok /\ i \notin S) /\ c \in Candidates(Live[i])
    <2>1. Candidates(Marked(S)[i]) = Candidates(Live[i])
      BY <1>4 DEF Candidates
    <2> QED
      BY <1>4, <2>1 DEF CountsIn, HoldsIn
  <1> QED
    BY <1>2, <1>4, <1>5, <1>6, <1>7, <1>8

\* So is the one that the alerts are due by.
LEMMA LiveOK ==
  ASSUME GroupInv
  PROVE  /\ LogOK(Heeded) /\ \A c : Due(c) = DueIn(Heeded, c)
         /\ DOMAIN Heeded = DOMAIN Live /\ Len(Heeded) = Len(Live)
         /\ Len(Live) \in Nat /\ DOMAIN Live = 1 .. Len(Live)
         /\ \A i \in DOMAIN Live :
              /\ Heeded[i].at = Live[i].at
              /\ CountsIn(Heeded, i) <=> Counts(i)
              /\ \A c : HoldsIn(Heeded, c, i) <=> Holds(c, i)
  <1>1. /\ LogOK(Heeded) /\ DOMAIN Heeded = DOMAIN Live /\ Len(Heeded) = Len(Live)
        /\ Len(Live) \in Nat /\ DOMAIN Live = 1 .. Len(Live)
    BY MarkedOK DEF Heeded
  <1>2. ASSUME NEW i \in DOMAIN Live
        PROVE  /\ Heeded[i].at = Live[i].at
               /\ CountsIn(Heeded, i) <=> Counts(i)
               /\ \A c : HoldsIn(Heeded, c, i) <=> Holds(c, i)
    BY MarkedOK DEF Heeded, Counts, Holds
  <1>3. ASSUME NEW c
        PROVE  Due(c) = DueIn(Heeded, c)
    <2> DEFINE Rule(F) ==
          \A i \in DOMAIN Live :
            LET before == {j \in 1 .. i - 1 : Counts(j)}
                fired  == {j \in F : j < i}
            IN  i \in F <=> /\ Holds(c, i)
                            /\ \/ before = {} \/ ~ Holds(c, Max(before))
                               \/ fired # {} /\ Live[i].at >= Live[Max(fired)].at + Cooldown
               RuleIn(F) ==
          \A i \in DOMAIN Heeded :
            LET before == {j \in 1 .. i - 1 : CountsIn(Heeded, j)}
                fired  == {j \in F : j < i}
            IN  i \in F <=> /\ HoldsIn(Heeded, c, i)
                            /\ \/ before = {} \/ ~ HoldsIn(Heeded, c, Max(before))
                               \/ fired # {} /\ Heeded[i].at >= Heeded[Max(fired)].at + Cooldown
    <2>1. ASSUME NEW F \in SUBSET DOMAIN Live
          PROVE  Rule(F) <=> RuleIn(F)
      <3>1. ASSUME NEW i \in DOMAIN Live
            PROVE  LET before == {j \in 1 .. i - 1 : Counts(j)}
                       marked == {j \in 1 .. i - 1 : CountsIn(Heeded, j)}
                       fired  == {j \in F : j < i}
                   IN  /\ marked = before
                       /\ before # {} => (HoldsIn(Heeded, c, Max(before)) <=> Holds(c, Max(before)))
                       /\ fired # {} => Heeded[Max(fired)].at = Live[Max(fired)].at
        <4> DEFINE before == {j \in 1 .. i - 1 : Counts(j)}
                   marked == {j \in 1 .. i - 1 : CountsIn(Heeded, j)}
                   fired  == {j \in F : j < i}
        <4>1. i \in Nat /\ i - 1 \in Nat /\ \A j \in 1 .. i - 1 : j \in DOMAIN Live
          BY <1>1
        <4>2. marked = before
          BY <1>2, <4>1
        <4>3. before # {} => Max(before) \in DOMAIN Live
          <5>1. before \subseteq 0 .. i /\ before \subseteq DOMAIN Live
            BY <4>1
          <5> HIDE DEF before
          <5> QED
            BY <4>1, <5>1, MaxIn
        <4>4. fired # {} => Max(fired) \in DOMAIN Live
          <5>1. fired \subseteq 0 .. i /\ fired \subseteq DOMAIN Live
            BY <1>1, <4>1
          <5> HIDE DEF fired
          <5> QED
            BY <4>1, <5>1, MaxIn
        <4> QED
          BY <1>2, <4>2, <4>3, <4>4
      <3>2. ASSUME NEW i \in DOMAIN Live
            PROVE  LET before == {j \in 1 .. i - 1 : Counts(j)}
                       marked == {j \in 1 .. i - 1 : CountsIn(Heeded, j)}
                       fired  == {j \in F : j < i}
                   IN  (/\ Holds(c, i)
                        /\ \/ before = {} \/ ~ Holds(c, Max(before))
                           \/ fired # {} /\ Live[i].at >= Live[Max(fired)].at + Cooldown)
                       <=> (/\ HoldsIn(Heeded, c, i)
                            /\ \/ marked = {} \/ ~ HoldsIn(Heeded, c, Max(marked))
                               \/ fired # {} /\ Heeded[i].at >= Heeded[Max(fired)].at + Cooldown)
        <4> DEFINE before == {j \in 1 .. i - 1 : Counts(j)}
                   marked == {j \in 1 .. i - 1 : CountsIn(Heeded, j)}
                   fired  == {j \in F : j < i}
        <4>1. /\ marked = before
              /\ before # {} => (HoldsIn(Heeded, c, Max(before)) <=> Holds(c, Max(before)))
              /\ fired # {} => Heeded[Max(fired)].at = Live[Max(fired)].at
          BY <3>1
        <4>2. Heeded[i].at = Live[i].at /\ (HoldsIn(Heeded, c, i) <=> Holds(c, i))
          BY <1>2
        <4> HIDE DEF before, marked, fired
        <4>3. (/\ Holds(c, i)
               /\ \/ before = {} \/ ~ Holds(c, Max(before))
                  \/ fired # {} /\ Live[i].at >= Live[Max(fired)].at + Cooldown)
              <=> (/\ HoldsIn(Heeded, c, i)
                   /\ \/ marked = {} \/ ~ HoldsIn(Heeded, c, Max(marked))
                      \/ fired # {} /\ Heeded[i].at >= Heeded[Max(fired)].at + Cooldown)
          BY <4>1, <4>2
        <4> QED
          BY <4>3 DEF before, marked, fired
      <3> QED
        BY <1>1, <3>2
    <2>2. Due(c) = CHOOSE F \in SUBSET DOMAIN Live : Rule(F)
      BY DEF Due
    <2>3. DueIn(Heeded, c) = CHOOSE F \in SUBSET DOMAIN Live : RuleIn(F)
      BY <1>1 DEF DueIn
    <2> HIDE DEF Rule, RuleIn
    <2> QED
      BY <2>1, <2>2, <2>3
  <1> QED
    BY <1>1, <1>2, <1>3

\* At any time one member at most has a batch of the alerting group.
LEMMA Alone ==
  ASSUME GroupInv, fenced = {}, group = "alerting", NEW m \in Members,
         InBatch(m) \/ owner["live"] = m
  PROVE  \A n \in Members : InBatch(n) => n = m
  <1>1. \A n \in Members : InBatch(n) => owner["live"] = n
    BY LiveBatch DEF Acting
  <1> QED
    BY <1>1

\* What is so of the member that has the batch, or of one without when nobody has.
FollowsOf(m) ==
  FollowsAt(Place(m), AtHand(m)) /\ HeedsOf(m) /\ \A j \in stale : j <= Seen(m)

\* Where a member without a batch is.
LEMMA IdlePlace ==
  ASSUME NEW m, ~ InBatch(m)
  PROVE  /\ Place(m) = Committed /\ AtHand(m) = {} /\ HeedsOf(m) /\ Seen(m) = committed["live"]
         /\ pc[m] # "write"
  <1>1. pc[m] \in {"down", "idle"}
    BY DEF InBatch
  <1> QED
    BY <1>1 DEF Fresher, AtChecks, Place, PlaceOf, Committed, AtHand, HeedsOf, Seen

\* What one member does when it is alone.
LEMMA FollowsFrom ==
  ASSUME FollowsInv, NEW m \in Members, \A n \in Members : InBatch(n) => n = m
  PROVE  FollowsOf(m)
  <1>1. CASE InBatch(m)
    BY <1>1 DEF FollowsInv, FollowsOf
  <1>2. CASE ~ InBatch(m)
    <2>1. FollowsAt(Committed, {}) /\ \A j \in stale : j <= committed["live"]
      BY <1>2 DEF FollowsInv
    <2> QED
      BY <1>2, <2>1, IdlePlace DEF FollowsOf
  <1> QED
    BY <1>1, <1>2

\* The state after a step of such a member is the one to look at.
LEMMA FollowsTo ==
  ASSUME NEW m \in Members, \A n \in Members : InBatch(n)' => n = m, FollowsOf(m)',
         pc'[m] = "write" => seen'[m] = states'[Condition(m)']
  PROVE  FollowsInv'
  <1>1. ~ InBatch(m)' => Place(m)' = Committed' /\ AtHand(m)' = {} /\ Seen(m)' = committed'["live"]
    <2>1. ~ InBatch(m)' => pc'[m] \in {"down", "idle"}
      BY DEF InBatch
    <2> QED
      BY <2>1 DEF Fresher, Place, PlaceOf, Committed, AtHand, Seen
  <1>2. SeenInv'
    <2>1. \A n \in Members : pc'[n] = "write" => n = m
      BY DEF InBatch
    <2> QED
      BY <2>1 DEF SeenInv
  <1>3. InBatch(m)' \/ \A n \in Members : ~ InBatch(n)'
    OBVIOUS
  <1>4. CASE InBatch(m)'
    BY <1>2, <1>4 DEF FollowsInv, FollowsOf
  <1>5. CASE \A n \in Members : ~ InBatch(n)'
    BY <1>1, <1>2, <1>5 DEF FollowsInv, FollowsOf
  <1> QED
    BY <1>3, <1>4, <1>5

\* A member stays where it is when nothing of its own changes.
LEMMA PlaceStays ==
  ASSUME UNCHANGED <<log, committed, stale>>, NEW m,
         pc'[m] = pc[m], batch'[m] = batch[m], work'[m] = work[m]
  PROVE  /\ Place(m)' = Place(m) /\ AtHand(m)' = AtHand(m) /\ Seen(m)' = Seen(m)
         /\ HeedsOf(m) => HeedsOf(m)'
  <1>1. Checked(m)' = Checked(m)
    BY DEF Checked
  <1>2. \A c : PlaceOf(m, c)' = PlaceOf(m, c)
    BY <1>1 DEF PlaceOf
  <1>3. AtHand(m)' = AtHand(m)
    BY DEF AtHand, Condition
  <1>4. Seen(m)' = Seen(m)
    BY DEF Seen
  <1>5. Events(batch[m])' = Events(batch[m])
    BY DEF Events
  <1>6. HeedsOf(m) => HeedsOf(m)'
    BY <1>5 DEF HeedsOf
  <1> QED
    BY <1>2, <1>3, <1>4, <1>6 DEF Place

\* A step that leaves the batches alone.
LEMMA FollowsSteady ==
  ASSUME FollowsInv, UNCHANGED <<log, committed, states, alerts, stale>>,
         \A n \in Members : InBatch(n)' <=> InBatch(n),
         \A n \in Members : InBatch(n) =>
           pc'[n] = pc[n] /\ batch'[n] = batch[n] /\ work'[n] = work[n] /\ seen'[n] = seen[n]
  PROVE  FollowsInv'
  <1>1. \A n \in Members : InBatch(n) =>
          /\ Place(n)' = Place(n) /\ AtHand(n)' = AtHand(n) /\ Seen(n)' = Seen(n)
          /\ HeedsOf(n) => HeedsOf(n)'
    BY PlaceStays
  <1>2. Heeded' = Heeded /\ Committed' = Committed
    BY DEF Heeded, Marked, Live, Committed
  <1>3. SeenInv'
    <2>1. \A n \in Members : pc'[n] = "write" => InBatch(n) /\ pc[n] = "write"
      BY DEF InBatch
    <2> QED
      BY <2>1 DEF SeenInv, FollowsInv, Condition
  <1>4. (\A n \in Members : ~ InBatch(n)') =>
          FollowsAt(Committed, {})' /\ \A j \in stale' : j <= committed'["live"]
    BY <1>2 DEF FollowsAt, FollowsInv
  <1>5. ASSUME NEW n \in Members, InBatch(n)'
        PROVE  FollowsAt(Place(n), AtHand(n))' /\ HeedsOf(n)' /\ \A j \in stale' : j <= Seen(n)'
    <2>1. FollowsAt(Place(n), AtHand(n)) /\ HeedsOf(n) /\ \A j \in stale : j <= Seen(n)
      BY <1>5 DEF FollowsInv
    <2> QED
      BY <1>1, <1>2, <1>5, <2>1 DEF FollowsAt
  <1> QED
    BY <1>3, <1>4, <1>5 DEF FollowsInv

\* Where a member is, in numbers.
LEMMA PlaceType ==
  ASSUME GroupInv, HandlerInv, group = "alerting", NEW m \in Members
  PROVE  Place(m) \in [Conditions -> Nat] /\ committed["live"] \in Nat
  <1>1. committed["live"] \in Nat /\ batch[m].last \in Nat
    BY DEF GroupInv, ConsumerTypeOK, Topics
  <1>2. ASSUME pc[m] \notin Fresher, pc[m] # "resolve"
        PROVE  work[m].place \in Nat /\ work[m].place - 1 \in Nat
    <2>1. pc[m] \in {"register", "lookup", "store", "write", "raise"} /\ InBatch(m)
      BY <1>2
         DEF Fresher, GroupInv, ConsumerTypeOK, Steps, HandlerSteps, HandlerInv, MemberInv, StepOf, InBatch
    <2>2. work[m].place \in Events(batch[m])
      BY <2>1 DEF HandlerInv, MemberInv, WorkOf, CheckOf
    <2>3. work[m].place \in 1 .. Len(log[batch[m].topic])
      BY <2>1, <2>2, EventType
    <2> QED
      BY <2>3
  <1>3. \A c \in Conditions : PlaceOf(m, c) \in Nat
    BY <1>1, <1>2 DEF PlaceOf
  <1> QED
    BY <1>1, <1>3 DEF Place

\* The batch of a member is a part of the live log.
LEMMA BatchSpan ==
  ASSUME GroupInv, group = "alerting", NEW m \in Members, InBatch(m)
  PROVE  /\ batch[m].topic = "live"
         /\ batch[m].first \in Nat /\ batch[m].last \in Nat /\ batch[m].first - 1 \in Nat
         /\ 1 <= batch[m].first /\ batch[m].first <= batch[m].last /\ batch[m].last <= Len(Live)
         /\ \A j \in Nat : j \in Events(batch[m]) <=> j \in batch[m].first .. batch[m].last /\ Live[j].ok
  <1>1. BatchOf(m)
    BY DEF GroupInv, BatchesInv
  <1>2. batch[m].topic = "live" /\ batch[m].first \in Nat /\ batch[m].last \in Nat /\ batch[m].pos \in Nat
    BY LiveBatch DEF GroupInv, ConsumerTypeOK
  <1>3. 1 <= batch[m].first /\ batch[m].first <= batch[m].last /\ batch[m].last <= Len(Live)
    BY <1>1, <1>2 DEF BatchOf, Live
  <1>4. \A j \in Nat : j \in Events(batch[m]) <=> j \in batch[m].first .. batch[m].last /\ Live[j].ok
    BY <1>2 DEF Events, Live
  <1> QED
    BY <1>2, <1>3, <1>4

\* The readings of batch b behind n, those of T left out.
Rest(b, n, T) == {j \in Events(b) : n < j /\ j \notin T}

\* How far one gets who has nothing to check before the first of them.
Reach(b, n, T) ==
  IF Rest(b, n, T) = {} THEN b.last ELSE FirstCheck(Rest(b, n, T)).place - 1

\* The check w is the first of a reading of batch b, those of T left out.
FirstReading(w, b, T) ==
  /\ w.type = 1 /\ w.place \in Nat /\ w.place # 0 /\ w.place \notin T
  /\ w.rest = Rest(b, w.place, T)

\* What is between does not count.
LEMMA FirstPlace ==
  ASSUME GroupInv, group = "alerting", NEW m \in Members, InBatch(m), NEW T,
         NEW from \in Nat, batch[m].first - 1 <= from, from <= batch[m].last
  PROVE  /\ Reach(batch[m], from, T) \in Nat
         /\ from <= Reach(batch[m], from, T) /\ Reach(batch[m], from, T) <= Len(Live)
         /\ \A j \in from + 1 .. Reach(batch[m], from, T) : ~ CountsIn(Marked(T), j)
         /\ Rest(batch[m], from, T) # {} =>
              FirstReading(FirstCheck(Rest(batch[m], from, T)), batch[m], T)
  <1>0. PICK S, w, p : /\ S = Rest(batch[m], from, T) /\ w = FirstCheck(S)
                       /\ p = Reach(batch[m], from, T)
    OBVIOUS
  <1>1. /\ batch[m].first \in Nat /\ batch[m].last \in Nat /\ 1 <= batch[m].first
        /\ batch[m].last <= Len(Live) /\ Len(Live) \in Nat /\ DOMAIN Live = 1 .. Len(Live)
        /\ \A j \in Nat : j \in Events(batch[m]) <=> j \in batch[m].first .. batch[m].last /\ Live[j].ok
    BY BatchSpan, MarkedOK
  <1>2. Events(batch[m]) \subseteq Nat /\ S \subseteq Nat
    <2>1. Events(batch[m]) \subseteq Nat
      BY EventTimes
    <2> QED
      BY <1>0, <2>1 DEF Rest
  <1>3. ASSUME NEW j \in Nat, from < j, j <= batch[m].last, j \notin S
        PROVE  ~ CountsIn(Marked(T), j)
    <2>1. j \in batch[m].first .. batch[m].last /\ j \in DOMAIN Live
      BY <1>1, <1>3
    <2>2. ~ (Live[j].ok /\ j \notin T)
      BY <1>0, <1>1, <1>3, <2>1 DEF Rest
    <2> QED
      BY <2>1, <2>2, MarkedOK
  <1>4. CASE S = {}
    <2>1. \A j \in from + 1 .. batch[m].last : ~ CountsIn(Marked(T), j)
      <3>1. \A j \in from + 1 .. batch[m].last : j \in Nat /\ from < j /\ j <= batch[m].last
        BY <1>1
      <3> QED
        BY <1>3, <1>4, <3>1
    <2> QED
      BY <1>0, <1>1, <1>4, <2>1 DEF Reach
  <1>5. CASE S # {}
    <2>1. /\ w.place \in S /\ w.type = 1 /\ w.rest = S \ {w.place}
          /\ \A i \in w.rest : w.place < i
      BY <1>0, <1>2, <1>5, FirstCheckIn
    <2>2. PICK r \in Nat : r = w.place /\ r \in S
      BY <1>2, <2>1
    <2>3. r \in batch[m].first .. batch[m].last /\ from < r /\ r \notin T
      BY <1>0, <1>1, <2>2 DEF Rest
    <2>4. p = r - 1 /\ p \in Nat /\ from <= p /\ p <= Len(Live)
      BY <1>0, <1>1, <1>5, <2>2, <2>3 DEF Reach
    <2>5. ASSUME NEW j \in from + 1 .. r - 1
          PROVE  ~ CountsIn(Marked(T), j)
      <3>1. j \in Nat /\ from < j /\ j <= batch[m].last /\ j < r
        BY <1>1, <2>3, <2>5
      <3>2. ASSUME j \in S
            PROVE  FALSE
        <4>1. j # r
          BY <2>2, <3>1
        <4>2. r < j
          BY <2>1, <2>2, <3>2, <4>1
        <4> QED
          BY <2>2, <3>1, <4>2
      <3> QED
        BY <1>3, <3>1, <3>2
    <2>6. w.rest = Rest(batch[m], r, T)
      <3>1. ASSUME NEW j \in w.rest
            PROVE  j \in Events(batch[m]) /\ r < j /\ j \notin T
        BY <1>0, <2>1, <2>2 DEF Rest
      <3>2. ASSUME NEW j \in Events(batch[m]), r < j, j \notin T
            PROVE  j \in w.rest
        <4>1. j \in Nat /\ from < j /\ j # r
          BY <1>2, <2>3, <3>2
        <4> QED
          BY <1>0, <2>1, <2>2, <3>2, <4>1 DEF Rest
      <3> QED
        BY <3>1, <3>2 DEF Rest
    <2> QED
      BY <1>0, <1>1, <1>5, <2>1, <2>2, <2>3, <2>4, <2>5, <2>6 DEF FirstReading
  <1> QED
    BY <1>4, <1>5

\* Where a member is in a batch it has just taken, or decoded further.
LEMMA DecodePlace ==
  ASSUME GroupInv, NEW m \in Members,
         NEW b \in [topic : Topics, first : Nat, last : Nat, pos : Nat], b.pos <= b.last, Decode(m, b),
         b.topic = "live", UNCHANGED <<log, committed, stale>>,
         b.first = committed["live"] + 1, b.first <= b.last, b.last <= Len(Live),
         \A j \in stale : j <= committed["live"], stale \subseteq Nat
  PROVE  /\ AtHand(m)' = {} /\ pc'[m] # "write" /\ HeedsOf(m)'
         /\ \A j \in stale' : j <= Seen(m)'
         /\ \A n \in Members \ {m} : InBatch(n)' <=> InBatch(n)
         /\ Place(m)' \in [Conditions -> Nat]
         /\ \A c \in Conditions :
              /\ Committed[c] <= Place(m)'[c] /\ Place(m)'[c] <= Len(Live)
              /\ \A j \in Committed[c] + 1 .. Place(m)'[c] : ~ CountsIn(Heeded, j)
  <1>1. PICK p \in Nat, s \in {"deadletter", "handler", "resolve"} :
           /\ batch' = [batch EXCEPT ![m] = [b EXCEPT !.pos = p]]
           /\ pc' = [pc EXCEPT ![m] = s]
           /\ Decoded(b, p, s)
    BY DecodeStep
  <1>2. /\ pc'[m] = s /\ batch'[m] = [b EXCEPT !.pos = p]
        /\ \A n \in Members \ {m} : pc'[n] = pc[n]
    BY <1>1 DEF GroupInv, ConsumerTypeOK
  <1>3. batch'[m].last = b.last
    BY <1>2
  <1>4. /\ committed["live"] \in Nat /\ b.last \in Nat /\ Len(Live) \in Nat /\ committed["live"] <= b.last
        /\ DOMAIN Live = 1 .. Len(Live)
    BY LiveOK DEF GroupInv, ConsumerTypeOK, Topics
  <1>5. ASSUME NEW c \in Conditions
        PROVE  /\ PlaceOf(m, c)' \in Nat
               /\ committed["live"] <= PlaceOf(m, c)' /\ PlaceOf(m, c)' <= Len(Live)
               /\ \A j \in committed["live"] + 1 .. PlaceOf(m, c)' : ~ CountsIn(Heeded, j)
    <2>1. CASE s = "resolve"
      <3>1. PlaceOf(m, c)' = b.last
        BY <1>2, <1>3, <2>1 DEF PlaceOf, Fresher
      <3>2. ASSUME NEW j \in committed["live"] + 1 .. b.last
            PROVE  ~ CountsIn(Heeded, j)
        <4>1. ~ Live[j].ok
          BY <1>1, <2>1 DEF Decoded, Events, Live
        <4>2. j \in DOMAIN Live
          BY <1>4
        <4> QED
          BY <4>1, <4>2, LiveOK DEF Counts
      <3> QED
        BY <1>4, <3>1, <3>2
    <2>2. CASE s # "resolve"
      <3>1. PlaceOf(m, c)' = committed["live"]
        BY <1>2, <2>2 DEF PlaceOf, Fresher
      <3>2. committed["live"] <= Len(Live) /\ \A j \in committed["live"] + 1 .. committed["live"] : FALSE
        BY <1>4
      <3> QED
        BY <1>4, <3>1, <3>2
    <2> QED
      BY <2>1, <2>2
  <1>6. Place(m)' = [c \in Conditions |-> PlaceOf(m, c)']
    BY DEF Place
  <1>7. \A c \in Conditions : Place(m)'[c] = PlaceOf(m, c)' /\ Committed[c] = committed["live"]
    BY <1>6 DEF Committed
  <1>8. AtHand(m)' = {} /\ pc'[m] # "write" /\ HeedsOf(m)'
    BY <1>2 DEF AtHand, HeedsOf, AtChecks
  <1>9. \A n \in Members \ {m} : InBatch(n)' <=> InBatch(n)
    BY <1>2 DEF InBatch
  <1>10. Place(m)' \in [Conditions -> Nat]
    BY <1>5, <1>6
  <1>11. \A j \in stale' : j <= Seen(m)'
    <2>1. Seen(m)' \in {committed["live"], b.last}
      BY <1>2, <1>3 DEF Seen
    <2> QED
      BY <1>4, <2>1
  <1> QED
    BY <1>5, <1>7, <1>8, <1>9, <1>10, <1>11

\* Where a handler is that goes on with the reading at hand done for k conditions.
LEMMA NextPlace ==
  ASSUME GroupInv, HandlerInv, NEW m \in Members, Checking(m), NextCheck(m), HeedsOf(m),
         UNCHANGED <<log, batch, committed, stale>>,
         NEW i, i = work[m].place, NEW k, k = work[m].type,
         NEW mid \in [Conditions -> Nat],
         \A j \in 1 .. 3 : mid[AlertTypes[j]] = IF j <= k THEN i ELSE i - 1
  PROVE  /\ AtHand(m)' = {} /\ pc'[m] # "write" /\ HeedsOf(m)' /\ Seen(m)' = Seen(m)
         /\ \A n \in Members \ {m} : InBatch(n)' <=> InBatch(n)
         /\ Place(m)' \in [Conditions -> Nat]
         /\ \A c \in Conditions :
              /\ mid[c] <= Place(m)'[c] /\ Place(m)'[c] <= Len(Live)
              /\ \A j \in mid[c] + 1 .. Place(m)'[c] : ~ CountsIn(Heeded, j)
  <1>1. /\ group = "alerting" /\ InBatch(m) /\ i \in Events(batch[m]) /\ i \in Nat /\ k \in 1 .. 3
        /\ i \in batch[m].first .. batch[m].last /\ i # 0 /\ work[m] \in Checks
        /\ batch[m].first \in Nat /\ batch[m].last \in Nat /\ batch[m].last <= Len(Live)
        /\ Len(Live) \in Nat
        /\ i \notin stale /\ work[m].rest = {j \in Events(batch[m]) : i < j /\ j \notin stale}
    <2>1. group = "alerting" /\ InBatch(m) /\ i \in Events(batch[m]) /\ k \in 1 .. 3 /\ work[m] \in Checks
      BY CheckType DEF Checking, CheckOf
    <2>2. i \in Nat /\ i \in batch[m].first .. batch[m].last
      BY <2>1, EventType
    <2>3. /\ batch[m].first \in Nat /\ batch[m].last \in Nat /\ 1 <= batch[m].first
          /\ batch[m].last <= Len(Live) /\ Len(Live) \in Nat
      BY <2>1, BatchSpan, LiveOK
    <2>4. i \notin stale /\ work[m].rest = {j \in Events(batch[m]) : i < j /\ j \notin stale}
      BY DEF HeedsOf, AtChecks, Checking
    <2> QED
      BY <2>1, <2>2, <2>3, <2>4
  <1>2. /\ work'[m] = CheckAfter(m)
        /\ pc'[m] = IF CheckAfter(m) = NoCheck THEN "resolve" ELSE "store"
        /\ \A n \in Members \ {m} : pc'[n] = pc[n]
    BY DEF NextCheck, GoTo, HandlerInv, HandlerTypeOK, AlertTypeOK, GroupInv, ConsumerTypeOK
  <1>3. /\ AtHand(m)' = {} /\ pc'[m] # "write" /\ \A n \in Members \ {m} : InBatch(n)' <=> InBatch(n)
    BY <1>2 DEF AtHand, InBatch
  <1>4. Seen(m)' = Seen(m)
    <2>1. pc[m] \notin Fresher /\ pc'[m] \notin Fresher
      BY <1>2 DEF Checking, Fresher
    <2> QED
      BY <2>1 DEF Seen
  <1>5. Events(batch[m])' = Events(batch[m])
    BY DEF Events
  <1>6. CASE k < 3
    <2>1. CheckAfter(m) = [work[m] EXCEPT !.type = @ + 1]
      BY <1>6, ThreeConditions DEF CheckAfter
    <2>2. CheckAfter(m).place = i /\ CheckAfter(m).type = k + 1 /\ CheckAfter(m).rest = work[m].rest
      BY <1>1, <2>1 DEF Checks
    <2>3. pc'[m] = "store"
      <3>1. CheckAfter(m).place # NoCheck.place
        BY <1>1, <2>2 DEF NoCheck
      <3> QED
        BY <1>2, <3>1
    <2>4. HeedsOf(m)'
      BY <1>1, <1>2, <1>5, <2>2 DEF HeedsOf
    <2>5. ASSUME NEW j \in 1 .. 3
          PROVE  PlaceOf(m, AlertTypes[j])' = mid[AlertTypes[j]]
      <3>1. AlertTypes[j] \in Checked(m)' <=> j <= k
        <4>1. Checked(m)' = {AlertTypes[q] : q \in {q \in 1 .. 3 : q < k + 1}}
          BY <1>2, <2>2, <2>3, ThreeConditions DEF Checked
        <4>2. \A q \in 1 .. 3 : q < k + 1 <=> q <= k
          BY <1>1
        <4> QED
          BY <4>1, <4>2, ThreeConditions
      <3> QED
        BY <1>2, <2>2, <2>3, <3>1 DEF PlaceOf, Fresher
    <2>6. ASSUME NEW c \in Conditions
          PROVE  PlaceOf(m, c)' = mid[c] /\ mid[c] \in Nat /\ mid[c] <= Len(Live)
      <3>1. PICK j \in 1 .. 3 : c = AlertTypes[j]
        BY ThreeConditions
      <3>2. i <= Len(Live) /\ i - 1 <= Len(Live)
        BY <1>1
      <3> QED
        BY <2>5, <3>1, <3>2
    <2>7. \A x \in Nat : x <= x /\ \A q \in x + 1 .. x : FALSE
      OBVIOUS
    <2>8. Place(m)' = [c \in Conditions |-> mid[c]]
      BY <2>6 DEF Place
    <2>9. \A c \in Conditions : Place(m)'[c] = mid[c]
      BY <2>8
    <2>10. Place(m)' \in [Conditions -> Nat]
      BY <2>6, <2>8
    <2> QED
      BY <1>3, <1>4, <2>4, <2>6, <2>7, <2>9, <2>10
  <1>7. CASE k = 3
    <2>1. CheckAfter(m) = FirstCheck(work[m].rest)
      BY <1>7, ThreeConditions DEF CheckAfter
    <2>2. PICK S, w, p : /\ S = Rest(batch[m], i, stale) /\ w = FirstCheck(S)
                         /\ p = Reach(batch[m], i, stale)
      OBVIOUS
    <2>3. batch[m].first - 1 <= i /\ i <= batch[m].last /\ S = work[m].rest
      BY <1>1, <2>2 DEF Rest
    <2>4. /\ p \in Nat /\ i <= p /\ p <= Len(Live)
          /\ \A j \in i + 1 .. p : ~ CountsIn(Heeded, j)
          /\ S # {} => FirstReading(w, batch[m], stale)
      BY <1>1, <2>2, <2>3, FirstPlace DEF Heeded
    <2>5. work'[m] = w
      BY <1>2, <2>1, <2>2, <2>3
    <2>6. /\ S = {} => pc'[m] = "resolve"
          /\ S # {} => pc'[m] = "store"
      BY <1>2, <2>1, <2>2, <2>3, <2>4 DEF FirstCheck, NoCheck, FirstReading
    <2>7. HeedsOf(m)'
      BY <1>5, <2>4, <2>5, <2>6 DEF HeedsOf, AtChecks, FirstReading, Rest
    <2>8. ASSUME NEW c \in Conditions
          PROVE  PlaceOf(m, c)' = p
      <3>1. CASE S = {}
        BY <2>2, <2>6, <3>1 DEF PlaceOf, Fresher, Reach
      <3>2. CASE S # {}
        <4>1. pc'[m] = "store" /\ work'[m].type = 1
          BY <2>4, <2>5, <2>6, <3>2 DEF FirstReading
        <4>2. Checked(m)' = {}
          BY <4>1, ThreeConditions DEF Checked
        <4> QED
          BY <2>2, <2>5, <3>2, <4>1, <4>2 DEF PlaceOf, Fresher, Reach
      <3> QED
        BY <3>1, <3>2
    <2>9. Place(m)' = [c \in Conditions |-> p]
      BY <2>8 DEF Place
    <2>10. \A c \in Conditions : mid[c] = i /\ Place(m)'[c] = p
      <3>1. \A j \in 1 .. 3 : mid[AlertTypes[j]] = i
        BY <1>7
      <3> QED
        BY <2>9, <3>1, ThreeConditions
    <2>11. Place(m)' \in [Conditions -> Nat]
      BY <2>4, <2>9
    <2> QED
      BY <1>3, <1>4, <2>4, <2>7, <2>10, <2>11
  <1>8. k < 3 \/ k = 3
    BY <1>1
  <1> QED
    BY <1>6, <1>7, <1>8

-----------------------------------------------------------------------------
(* The steps.                                                              *)

\* A member gets over readings that do not count.
LEMMA SkipFollows ==
  ASSUME GroupInv, HandlerInv, group = "alerting", NEW m \in Members,
         FollowsAt(Place(m), {}), UNCHANGED <<log, committed, states, alerts, stale>>,
         \A n \in Members : InBatch(n)' => n = m,
         AtHand(m)' = {} /\ pc'[m] # "write", Place(m)' \in [Conditions -> Nat],
         HeedsOf(m)', \A j \in stale' : j <= Seen(m)',
         \A c \in Conditions :
           /\ Place(m)[c] <= Place(m)'[c] /\ Place(m)'[c] <= Len(Live)
           /\ \A j \in Place(m)[c] + 1 .. Place(m)'[c] : ~ CountsIn(Heeded, j)
  PROVE  FollowsInv'
  <1>1. /\ committed["live"] \in Nat /\ Place(m) \in [Conditions -> Nat] /\ LogOK(Heeded)
        /\ Len(Heeded) = Len(Live)
    BY PlaceType, LiveOK
  <1>2. Follows(Heeded, committed["live"], Place(m)', states, alerts, {})
    BY <1>1, FollowsSkip DEF FollowsAt
  <1>3. FollowsAt(Place(m), AtHand(m))'
    BY <1>2 DEF FollowsAt, Heeded, Marked, Live
  <1>4. FollowsOf(m)'
    BY <1>3 DEF FollowsOf
  <1> QED
    BY <1>4, FollowsTo

\* A batch is fetched.
LEMMA FetchFollows ==
  ASSUME GroupInv, HandlerInv, fenced = {}, group = "alerting", FollowsInv, NEW m \in Members,
         NEW t \in Topics, NEW n \in 1 .. Len(log[t]), Fetch(m, t, n), UNCHANGED handlerVars
  PROVE  FollowsInv'
  <1> DEFINE b == [topic |-> "live", first |-> committed["live"] + 1, last |-> committed["live"] + n,
                   pos |-> committed["live"]]
  <1>1. /\ t = "live" /\ owner["live"] = m /\ pc[m] = "idle" /\ Decode(m, b)
        /\ committed["live"] + n <= Len(Live)
        /\ UNCHANGED <<log, committed, states, alerts, stale>>
    BY DEF Fetch, Subscribed, Live, handlerVars, alertVars
  <1>2. ~ InBatch(m) /\ Place(m) = Committed /\ AtHand(m) = {} /\ Seen(m) = committed["live"]
    BY <1>1, IdlePlace DEF InBatch
  <1>3. \A k \in Members : InBatch(k) => k = m
    BY <1>1, Alone
  <1>4. committed["live"] \in Nat /\ n \in Nat /\ n >= 1
    BY <1>1 DEF GroupInv, ConsumerTypeOK, Topics
  <1>5. /\ b \in [topic : Topics, first : Nat, last : Nat, pos : Nat] /\ b.pos <= b.last
        /\ b.topic = "live" /\ b.first = committed["live"] + 1 /\ b.first <= b.last /\ b.last <= Len(Live)
    BY <1>1, <1>4 DEF Topics
  <1> HIDE DEF b
  <1>6. FollowsOf(m) /\ stale \subseteq Nat
    BY <1>3, FollowsFrom DEF HandlerInv, HandlerTypeOK, AlertTypeOK
  <1>7. FollowsAt(Place(m), {}) /\ \A j \in stale : j <= committed["live"]
    BY <1>2, <1>6 DEF FollowsOf
  <1>8. /\ AtHand(m)' = {} /\ pc'[m] # "write" /\ HeedsOf(m)'
        /\ \A j \in stale' : j <= Seen(m)'
        /\ \A k \in Members \ {m} : InBatch(k)' <=> InBatch(k)
        /\ Place(m)' \in [Conditions -> Nat]
        /\ \A c \in Conditions :
              /\ Committed[c] <= Place(m)'[c] /\ Place(m)'[c] <= Len(Live)
              /\ \A j \in Committed[c] + 1 .. Place(m)'[c] : ~ CountsIn(Heeded, j)
    BY <1>1, <1>5, <1>6, <1>7, DecodePlace
  <1>9. \A k \in Members : InBatch(k)' => k = m
    BY <1>3, <1>8
  <1> QED
    BY <1>1, <1>2, <1>7, <1>8, <1>9, SkipFollows

\* A dead letter is stored.
LEMMA DeadLetterFollows ==
  ASSUME GroupInv, HandlerInv, fenced = {}, group = "alerting", FollowsInv, NEW m \in Members,
         DeadLetter(m), UNCHANGED handlerVars
  PROVE  FollowsInv'
  <1>1. /\ pc[m] = "deadletter" /\ Decode(m, batch[m])
        /\ UNCHANGED <<log, committed, states, alerts, stale>>
    BY DEF DeadLetter, handlerVars, alertVars
  <1>2. Place(m) = Committed /\ AtHand(m) = {} /\ InBatch(m) /\ Seen(m) = committed["live"]
    BY <1>1 DEF InBatch, Place, PlaceOf, Committed, AtHand, Fresher, Seen
  <1>3. \A k \in Members : InBatch(k) => k = m
    BY <1>2, Alone
  <1>4. batch[m].first = committed["live"] + 1
    BY <1>2, LiveBatch DEF Acting
  <1>5. /\ batch[m] \in [topic : Topics, first : Nat, last : Nat, pos : Nat]
        /\ batch[m].pos <= batch[m].last /\ batch[m].topic = "live"
        /\ batch[m].first <= batch[m].last /\ batch[m].last <= Len(Live)
    <2>1. BatchOf(m)
      BY DEF GroupInv, BatchesInv
    <2> QED
      BY <1>2, <2>1, BatchSpan DEF GroupInv, ConsumerTypeOK, BatchOf
  <1>6. FollowsOf(m) /\ stale \subseteq Nat
    BY <1>3, FollowsFrom DEF HandlerInv, HandlerTypeOK, AlertTypeOK
  <1>7. FollowsAt(Place(m), {}) /\ \A j \in stale : j <= committed["live"]
    BY <1>2, <1>6 DEF FollowsOf
  <1>8. /\ AtHand(m)' = {} /\ pc'[m] # "write" /\ HeedsOf(m)'
        /\ \A j \in stale' : j <= Seen(m)'
        /\ \A k \in Members \ {m} : InBatch(k)' <=> InBatch(k)
        /\ Place(m)' \in [Conditions -> Nat]
        /\ \A c \in Conditions :
              /\ Committed[c] <= Place(m)'[c] /\ Place(m)'[c] <= Len(Live)
              /\ \A j \in Committed[c] + 1 .. Place(m)'[c] : ~ CountsIn(Heeded, j)
    BY <1>1, <1>4, <1>5, <1>6, <1>7, DecodePlace
  <1>9. \A k \in Members : InBatch(k)' => k = m
    BY <1>3, <1>8
  <1> QED
    BY <1>1, <1>2, <1>7, <1>8, <1>9, SkipFollows

\* The handler begins: it leaves out what is stale by its clock.
LEMMA BeginFollows ==
  ASSUME GroupInv, HandlerInv, fenced = {}, group = "alerting", FollowsInv, NEW m \in Members,
         BeginAlerting(m)
  PROVE  FollowsInv'
  <1>1. PICK fresh : Begins(m, fresh)
    BY AlertingBegins
  <1>2. /\ pc[m] = "handler" /\ UNCHANGED <<log, committed, batch, states, alerts>>
        /\ work' = [work EXCEPT ![m] = FirstCheck(fresh)]
        /\ fresh \subseteq Events(batch[m])
        /\ stale' = stale \cup (Events(batch[m]) \ fresh)
        /\ \E s \in {"register", "store", "resolve"} :
             pc' = [pc EXCEPT ![m] = s] /\ (s = "resolve" <=> fresh = {})
    BY <1>1 DEF Begins, Begin, HandlerFrame, Resolve, GoTo
  <1>3. PICK s \in {"register", "store", "resolve"} :
          pc' = [pc EXCEPT ![m] = s] /\ (s = "resolve" <=> fresh = {})
    BY <1>2
  <1>4. /\ pc'[m] = s /\ work'[m] = FirstCheck(fresh)
        /\ \A k \in Members \ {m} : pc'[k] = pc[k]
    BY <1>2, <1>3 DEF GroupInv, ConsumerTypeOK, HandlerInv, HandlerTypeOK, AlertTypeOK
  <1>5. Place(m) = Committed /\ AtHand(m) = {} /\ InBatch(m) /\ Seen(m) = committed["live"]
    BY <1>2 DEF InBatch, Place, PlaceOf, Committed, AtHand, Fresher, Seen
  <1>6. \A k \in Members : InBatch(k) => k = m
    BY <1>5, Alone
  <1>7. \A k \in Members : InBatch(k)' => k = m
    BY <1>4, <1>6 DEF InBatch
  <1>8. AtHand(m)' = {} /\ pc'[m] # "write"
    BY <1>4 DEF AtHand
  <1>9. FollowsAt(Committed, {}) /\ (\A j \in stale : j <= committed["live"]) /\ stale \subseteq Nat
    BY <1>5, <1>6, FollowsFrom DEF FollowsOf, HandlerInv, HandlerTypeOK, AlertTypeOK
  <1>10. /\ batch[m].first = committed["live"] + 1 /\ committed["live"] \in Nat
         /\ batch[m].last \in Nat /\ batch[m].first <= batch[m].last
         /\ batch[m].last <= Len(Live) /\ Len(Live) \in Nat
         /\ \A j \in Nat : j \in Events(batch[m]) <=> j \in batch[m].first .. batch[m].last /\ Live[j].ok
    <2>1. batch[m].first = committed["live"] + 1 /\ committed["live"] \in Nat
      BY <1>5, LiveBatch DEF Acting
    <2> QED
      BY <1>5, <2>1, BatchSpan, LiveOK
  <1>11. Events(batch[m]) \subseteq Nat
    BY <1>5, EventTimes
  <1>12. PICK T : T = stale'
    OBVIOUS
  <1>13. /\ fresh = Rest(batch[m], committed["live"], T)
         /\ \A j \in 1 .. committed["live"] : j \in T <=> j \in stale
         /\ \A j \in T : j <= batch[m].last
    <2>1. \A j \in Events(batch[m]) : j \in Nat /\ committed["live"] < j /\ j <= batch[m].last /\ j \notin stale
      BY <1>9, <1>10, <1>11
    <2>2. \A j \in stale : j <= batch[m].last
      BY <1>9, <1>10
    <2>3. \A j \in 1 .. committed["live"] : j \notin Events(batch[m])
      BY <1>10, <2>1
    <2> QED
      BY <1>2, <1>12, <2>1, <2>2, <2>3 DEF Rest
  <1>14. Heeded' = Marked(T)
    BY <1>2, <1>12 DEF Heeded, Marked, Live
  <1>15. /\ LogOK(Heeded) /\ LogOK(Marked(T)) /\ Len(Heeded) = Len(Marked(T)) /\ Len(Marked(T)) = Len(Live)
         /\ DOMAIN Live = 1 .. Len(Live)
    BY MarkedOK DEF Heeded
  <1>16. Agree(Heeded, Marked(T), committed["live"])
    <2>1. ASSUME NEW i \in 1 .. committed["live"]
          PROVE  /\ CountsIn(Heeded, i) <=> CountsIn(Marked(T), i)
                 /\ \A c \in Conditions : HoldsIn(Heeded, c, i) <=> HoldsIn(Marked(T), c, i)
                 /\ Heeded[i].at = Marked(T)[i].at
      <3>1. i \in DOMAIN Live /\ (i \in T <=> i \in stale)
        BY <1>10, <1>13, <1>15
      <3> QED
        BY <3>1, MarkedOK DEF Heeded
    <2> QED
      BY <2>1 DEF Agree
  <1>17. Follows(Marked(T), committed["live"], Committed, states, alerts, {})
    <2>1. Committed \in [Conditions -> Nat] /\ \A c \in Conditions : Committed[c] = committed["live"]
      BY <1>10 DEF Committed
    <2> QED
      BY <1>9, <1>10, <1>15, <1>16, <2>1, FollowsAgree DEF FollowsAt
  <1>18. PICK p, w : p = Reach(batch[m], committed["live"], T) /\ w = FirstCheck(fresh)
    OBVIOUS
  <1>19. /\ p \in Nat /\ committed["live"] <= p /\ p <= Len(Live)
         /\ \A j \in committed["live"] + 1 .. p : ~ CountsIn(Marked(T), j)
         /\ fresh # {} => FirstReading(w, batch[m], T)
    <2>1. batch[m].first - 1 <= committed["live"] /\ committed["live"] <= batch[m].last
      BY <1>10
    <2> QED
      BY <1>5, <1>10, <1>13, <1>18, <2>1, FirstPlace
  <1>20. ASSUME NEW c \in Conditions
         PROVE  PlaceOf(m, c)' = p
    <2>1. CASE fresh = {}
      BY <1>2, <1>3, <1>4, <1>13, <1>18, <2>1 DEF PlaceOf, Fresher, Reach
    <2>2. CASE fresh # {}
      <3>1. s \in {"register", "store"} /\ work'[m] = w /\ w.type = 1
        BY <1>3, <1>4, <1>18, <1>19, <2>2 DEF FirstReading
      <3>2. Checked(m)' = {}
        BY <1>4, <3>1, ThreeConditions DEF Checked
      <3> QED
        BY <1>4, <1>13, <1>18, <2>2, <3>1, <3>2 DEF PlaceOf, Fresher, Reach
    <2> QED
      BY <2>1, <2>2
  <1>21. Place(m)' = [c \in Conditions |-> p]
    BY <1>20 DEF Place
  <1>22. Follows(Marked(T), committed["live"], Place(m)', states, alerts, {})
    <2>1. Committed \in [Conditions -> Nat] /\ \A c \in Conditions : Committed[c] = committed["live"]
      BY <1>10 DEF Committed
    <2>2. Place(m)' \in [Conditions -> Nat] /\ \A c \in Conditions : Place(m)'[c] = p
      BY <1>19, <1>21
    <2> QED
      BY <1>10, <1>15, <1>17, <1>19, <2>1, <2>2, FollowsSkip
  <1>23. FollowsAt(Place(m), AtHand(m))'
    BY <1>2, <1>8, <1>14, <1>22 DEF FollowsAt
  <1>24. HeedsOf(m)'
    <2>1. CASE fresh = {}
      BY <1>3, <1>4, <2>1 DEF HeedsOf, AtChecks
    <2>2. CASE fresh # {}
      <3>1. Events(batch[m])' = Events(batch[m])
        BY <1>2 DEF Events
      <3> QED
        BY <1>2, <1>4, <1>12, <1>18, <1>19, <2>2, <3>1 DEF HeedsOf, FirstReading, Rest
    <2> QED
      BY <2>1, <2>2
  <1>25. \A j \in stale' : j <= Seen(m)'
    <2>1. Seen(m)' = batch[m].last
      BY <1>2, <1>4 DEF Seen, Fresher
    <2> QED
      BY <1>12, <1>13, <2>1
  <1>26. FollowsOf(m)'
    BY <1>23, <1>24, <1>25 DEF FollowsOf
  <1> QED
    BY <1>7, <1>8, <1>26, FollowsTo

\* The place of a check.
LEMMA CheckPlace ==
  ASSUME GroupInv, HandlerInv, NEW m \in Members, Checking(m), HeedsOf(m)
  PROVE  /\ InBatch(m) /\ work[m].type \in 1 .. 3 /\ work[m].place \in DOMAIN Heeded /\ work[m].place \in Nat
         /\ Condition(m) = AlertTypes[work[m].type] /\ Condition(m) \in Conditions
         /\ Reading(m).at = Heeded[work[m].place].at /\ CountsIn(Heeded, work[m].place)
         /\ Holding(m) <=> HoldsIn(Heeded, Condition(m), work[m].place)
         /\ work[m].place > batch[m].first - 1 /\ batch[m].first \in Nat
         /\ \A j \in 1 .. 3 : Place(m)[AlertTypes[j]] =
              IF j < work[m].type \/ (j = work[m].type /\ pc[m] = "raise")
                THEN work[m].place ELSE work[m].place - 1
  <1>1. /\ InBatch(m) /\ work[m].place \in Events(batch[m]) /\ Condition(m) \in Conditions
        /\ work[m].type \in 1 .. 3 /\ group = "alerting"
    BY CheckType DEF Checking, CheckOf
  <1>2. /\ work[m].place \in Nat /\ work[m].place \in batch[m].first .. batch[m].last
        /\ batch[m].first \in Nat /\ work[m].place \in DOMAIN Live
        /\ Reading(m) = Live[work[m].place] /\ Live[work[m].place].ok
    BY <1>1, EventType, BatchSpan, OnLive DEF Reading
  <1>3. work[m].place \notin stale
    BY DEF HeedsOf, AtChecks, Checking
  <1>4. /\ Reading(m).at = Heeded[work[m].place].at /\ CountsIn(Heeded, work[m].place)
        /\ Holding(m) <=> HoldsIn(Heeded, Condition(m), work[m].place)
        /\ work[m].place \in DOMAIN Heeded
    BY <1>2, <1>3, LiveOK DEF Holding, Holds, Counts
  <1>5. work[m].place > batch[m].first - 1
    BY <1>2
  <1>6. ASSUME NEW j \in 1 .. 3
        PROVE  Place(m)[AlertTypes[j]] =
                 IF j < work[m].type \/ (j = work[m].type /\ pc[m] = "raise")
                   THEN work[m].place ELSE work[m].place - 1
    <2>1. AlertTypes[j] \in Conditions
      BY ThreeConditions
    <2>2. AlertTypes[j] \in Checked(m) <=> j < work[m].type \/ (j = work[m].type /\ pc[m] = "raise")
      BY ThreeConditions DEF Checked
    <2> QED
      BY <2>1, <2>2 DEF Place, PlaceOf, Checking, Fresher
  <1> QED
    BY <1>1, <1>2, <1>4, <1>5, <1>6 DEF Condition

\* Where the group is when m has made its check, for each condition.
Past(m, mid) ==
  /\ mid \in [Conditions -> Nat]
  /\ \A j \in 1 .. 3 :
       mid[AlertTypes[j]] = IF j <= work[m].type THEN work[m].place ELSE work[m].place - 1

\* The handler of m is at a check, and when it has done it goes on to the next.
LEMMA NextFollows ==
  ASSUME GroupInv, HandlerInv, NEW m \in Members, Checking(m), NextCheck(m), HeedsOf(m),
         \A j \in stale : j <= Seen(m),
         UNCHANGED <<log, batch, committed, stale>>,
         \A n \in Members : InBatch(n) => n = m,
         NEW mid, Past(m, mid),
         Follows(Heeded, committed["live"], mid, states', alerts', {})
  PROVE  FollowsInv'
  <1>1. PICK i, k : i = work[m].place /\ k = work[m].type
    OBVIOUS
  <1>2. /\ mid \in [Conditions -> Nat]
        /\ \A j \in 1 .. 3 : mid[AlertTypes[j]] = IF j <= k THEN i ELSE i - 1
    BY <1>1 DEF Past
  <1>3. /\ AtHand(m)' = {} /\ pc'[m] # "write" /\ HeedsOf(m)' /\ Seen(m)' = Seen(m)
        /\ \A n \in Members \ {m} : InBatch(n)' <=> InBatch(n)
        /\ Place(m)' \in [Conditions -> Nat]
        /\ \A c \in Conditions :
              /\ mid[c] <= Place(m)'[c] /\ Place(m)'[c] <= Len(Live)
              /\ \A j \in mid[c] + 1 .. Place(m)'[c] : ~ CountsIn(Heeded, j)
    BY <1>1, <1>2, NextPlace
  <1>4. committed["live"] \in Nat /\ LogOK(Heeded) /\ Len(Heeded) = Len(Live)
    <2>1. group = "alerting"
      BY DEF Checking
    <2> QED
      BY <2>1, PlaceType, LiveOK
  <1>5. Follows(Heeded, committed["live"], Place(m)', states', alerts', {})
    BY <1>2, <1>3, <1>4, FollowsSkip
  <1>6. FollowsAt(Place(m), AtHand(m))'
    BY <1>3, <1>5 DEF FollowsAt, Heeded, Marked, Live
  <1>7. \A n \in Members : InBatch(n)' => n = m
    BY <1>3
  <1>8. FollowsOf(m)'
    BY <1>3, <1>6 DEF FollowsOf
  <1> QED
    BY <1>3, <1>7, <1>8, FollowsTo

\* Where the check leaves the handler.
LEMMA CheckMoves ==
  ASSUME GroupInv, HandlerInv, NEW m \in Members, Checking(m), HeedsOf(m), pc[m] # "raise",
         NEW c, c = Condition(m), NEW i, i = work[m].place
  PROVE  \E mid \in [Conditions -> Nat] :
           /\ mid[c] = i /\ i = Place(m)[c] + 1
           /\ \A d \in Conditions \ {c} : mid[d] = Place(m)[d]
           /\ Past(m, mid)
  <1>1. /\ Place(m) \in [Conditions -> Nat] /\ i \in Nat /\ c \in Conditions
        /\ work[m].type \in 1 .. 3 /\ c = AlertTypes[work[m].type]
        /\ \A j \in 1 .. 3 : Place(m)[AlertTypes[j]] = IF j < work[m].type THEN i ELSE i - 1
    BY PlaceType, CheckPlace DEF Checking
  <1>2. PICK k \in 1 .. 3 : k = work[m].type
    BY <1>1
  <1>3. Place(m)[c] = i - 1
    <2>1. ~ (k < k)
      OBVIOUS
    <2> QED
      BY <1>1, <1>2, <2>1
  <1> DEFINE mid == [Place(m) EXCEPT ![c] = i]
  <1>4. mid \in [Conditions -> Nat] /\ mid[c] = i /\ \A d \in Conditions \ {c} : mid[d] = Place(m)[d]
    BY <1>1
  <1> HIDE DEF mid
  <1>5. ASSUME NEW j \in 1 .. 3
        PROVE  mid[AlertTypes[j]] = IF j <= k THEN i ELSE i - 1
    <2>1. CASE j = k
      BY <1>1, <1>2, <1>4, <2>1
    <2>2. CASE j # k
      <3>1. AlertTypes[j] \in Conditions /\ AlertTypes[j] # c
        BY <1>1, <1>2, <2>2, ThreeConditions
      <3>2. j <= k <=> j < k
        BY <2>2
      <3> QED
        BY <1>1, <1>2, <1>4, <3>1, <3>2
    <2> QED
      BY <2>1, <2>2
  <1>6. Past(m, mid)
    BY <1>2, <1>4, <1>5 DEF Past
  <1> QED
    BY <1>1, <1>3, <1>4, <1>6

\* The vehicle is registered or looked up, and nothing is checked.
LEMMA LookupFollows ==
  ASSUME GroupInv, HandlerInv, fenced = {}, group = "alerting", FollowsInv, NEW m \in Members,
         Register(m) \/ Lookup(m), UNCHANGED <<rows, engineVars, alertVars>>
  PROVE  FollowsInv'
  <1>1. /\ pc[m] \in {"register", "lookup"} /\ pc'[m] \in {"lookup", "store"}
        /\ \A k \in Members \ {m} : pc'[k] = pc[k]
        /\ UNCHANGED <<log, committed, batch, work, states, alerts, stale>>
    BY DEF Register, Lookup, GoTo, HandlerFrame, alertVars, GroupInv, ConsumerTypeOK
  <1>2. \A k \in Members : InBatch(k) => k = m
    BY <1>1, Alone DEF InBatch
  <1>3. AtHand(m) = {} /\ AtHand(m)' = {} /\ Checked(m)' = Checked(m)
    BY <1>1 DEF AtHand, Checked
  <1>4. Place(m)' = Place(m) /\ Seen(m)' = Seen(m)
    BY <1>1, <1>3 DEF Place, PlaceOf, Fresher, Seen
  <1>5. FollowsOf(m)
    BY <1>2, FollowsFrom
  <1>6. FollowsAt(Place(m), AtHand(m))'
    BY <1>1, <1>3, <1>4, <1>5 DEF FollowsOf, FollowsAt, Heeded, Marked, Live
  <1>7. HeedsOf(m)'
    <2>1. Events(batch[m])' = Events(batch[m]) /\ pc[m] \in AtChecks
      BY <1>1 DEF Events, AtChecks
    <2> QED
      BY <1>1, <1>5, <2>1 DEF FollowsOf, HeedsOf
  <1>8. FollowsOf(m)'
    BY <1>1, <1>4, <1>5, <1>6, <1>7 DEF FollowsOf
  <1>9. \A k \in Members : InBatch(k)' => k = m
    BY <1>1, <1>2 DEF InBatch
  <1> QED
    BY <1>1, <1>8, <1>9, FollowsTo

\* A state is read: either there is nothing to do, or it is to be written.
LEMMA ReadFollows ==
  ASSUME GroupInv, HandlerInv, fenced = {}, group = "alerting", FollowsInv, NEW m \in Members,
         ReadState(m)
  PROVE  FollowsInv'
  <1>1. /\ Checking(m) /\ pc[m] = "store"
        /\ UNCHANGED <<log, committed, batch, states, alerts, stale>>
    BY DEF ReadState, Checking, AlertFrame, HandlerFrame
  <1>2. \A k \in Members : InBatch(k) => k = m
    BY <1>1, Alone DEF InBatch
  <1>3. /\ AtHand(m) = {} /\ FollowsAt(Place(m), {}) /\ HeedsOf(m)
        /\ \A j \in stale : j <= Seen(m)
    BY <1>1, <1>2, FollowsFrom DEF AtHand, FollowsOf
  <1>4. CASE Holding(m) \/ states[Condition(m)].active
    <2>1. /\ seen' = [seen EXCEPT ![m] = states[Condition(m)]]
          /\ pc' = [pc EXCEPT ![m] = "write"] /\ work' = work
      BY <1>4 DEF ReadState, GoTo
    <2>2. /\ pc'[m] = "write" /\ seen'[m] = states[Condition(m)]
          /\ \A k \in Members \ {m} : pc'[k] = pc[k]
      BY <2>1 DEF GroupInv, ConsumerTypeOK, HandlerInv, HandlerTypeOK, AlertTypeOK
    <2>3. AtHand(m)' = {} /\ Checked(m)' = Checked(m) /\ Condition(m)' = Condition(m)
      BY <1>1, <2>1, <2>2 DEF AtHand, Checked, Condition
    <2>4. Place(m)' = Place(m) /\ Seen(m)' = Seen(m)
      BY <1>1, <2>1, <2>2, <2>3 DEF Place, PlaceOf, Fresher, Seen
    <2>5. FollowsAt(Place(m), AtHand(m))'
      BY <1>1, <1>3, <2>3, <2>4 DEF FollowsAt, Heeded, Marked, Live
    <2>6. HeedsOf(m)'
      <3>1. Events(batch[m])' = Events(batch[m]) /\ pc[m] \in AtChecks
        BY <1>1 DEF Events, AtChecks
      <3> QED
        BY <1>1, <1>3, <2>1, <3>1 DEF HeedsOf
    <2>7. FollowsOf(m)'
      BY <1>1, <1>3, <2>4, <2>5, <2>6 DEF FollowsOf
    <2>8. \A k \in Members : InBatch(k)' => k = m
      BY <1>2, <2>2 DEF InBatch
    <2> QED
      BY <1>1, <2>2, <2>3, <2>7, <2>8, FollowsTo
  <1>5. CASE ~ (Holding(m) \/ states[Condition(m)].active)
    <2>1. NextCheck(m)
      BY <1>5 DEF ReadState
    <2>2. PICK c, i : c = Condition(m) /\ i = work[m].place
      OBVIOUS
    <2>3. PICK mid \in [Conditions -> Nat] :
            /\ mid[c] = i /\ i = Place(m)[c] + 1
            /\ \A d \in Conditions \ {c} : mid[d] = Place(m)[d]
            /\ Past(m, mid)
      BY <1>1, <1>3, <2>2, CheckMoves
    <2>4. c \in Conditions /\ i \in DOMAIN Heeded /\ Clears(Heeded, c, i)
      BY <1>1, <1>3, <1>5, <2>2, CheckPlace DEF Clears
    <2>5. ~ states[c].active
      BY <1>5, <2>2
    <2>6. committed["live"] \in Nat /\ Place(m) \in [Conditions -> Nat] /\ LogOK(Heeded)
      BY PlaceType, LiveOK
    <2>7. Follows(Heeded, committed["live"], mid, states, alerts, {})
      BY <1>3, <2>3, <2>4, <2>5, <2>6, FollowsCleared DEF FollowsAt
    <2> QED
      BY <1>1, <1>2, <1>3, <2>1, <2>3, <2>7, NextFollows
  <1> QED
    BY <1>4, <1>5

\* A condition that held no longer does.
LEMMA ClearFollows ==
  ASSUME GroupInv, HandlerInv, fenced = {}, group = "alerting", FollowsInv, NEW m \in Members,
         ClearState(m)
  PROVE  FollowsInv'
  <1>1. /\ Checking(m) /\ pc[m] = "write" /\ NextCheck(m) /\ ~ Holding(m)
        /\ UNCHANGED <<log, committed, batch, alerts, stale>>
        /\ states' = [states EXCEPT ![Condition(m)].active = FALSE]
    BY DEF ClearState, Checking, AlertFrame, HandlerFrame
  <1>2. \A k \in Members : InBatch(k) => k = m
    BY <1>1, Alone DEF InBatch
  <1>3. /\ AtHand(m) = {} /\ FollowsAt(Place(m), {}) /\ HeedsOf(m)
        /\ \A j \in stale : j <= Seen(m)
    BY <1>1, <1>2, FollowsFrom DEF AtHand, FollowsOf
  <1>4. PICK c, i : c = Condition(m) /\ i = work[m].place
    OBVIOUS
  <1>5. PICK mid \in [Conditions -> Nat] :
          /\ mid[c] = i /\ i = Place(m)[c] + 1
          /\ \A d \in Conditions \ {c} : mid[d] = Place(m)[d]
          /\ Past(m, mid)
    BY <1>1, <1>3, <1>4, CheckMoves
  <1>6. c \in Conditions /\ i \in DOMAIN Heeded /\ Clears(Heeded, c, i)
    BY <1>1, <1>3, <1>4, CheckPlace DEF Clears
  <1>7. ~ states'[c].active /\ \A d \in Conditions \ {c} : states'[d] = states[d]
    BY <1>1, <1>4, <1>6 DEF HandlerInv, HandlerTypeOK, AlertTypeOK, States
  <1>8. committed["live"] \in Nat /\ Place(m) \in [Conditions -> Nat] /\ LogOK(Heeded)
    BY PlaceType, LiveOK
  <1>9. Follows(Heeded, committed["live"], mid, states', alerts, {})
    BY <1>3, <1>5, <1>6, <1>7, <1>8, FollowsCleared DEF FollowsAt
  <1> QED
    BY <1>1, <1>2, <1>3, <1>5, <1>9, NextFollows

\* A condition holds.
LEMMA HoldFollows ==
  ASSUME GroupInv, HandlerInv, fenced = {}, group = "alerting", FollowsInv, NEW m \in Members,
         HoldState(m)
  PROVE  FollowsInv'
  <1>1. /\ Checking(m) /\ pc[m] = "write" /\ Holding(m)
        /\ UNCHANGED <<log, committed, batch, alerts, stale>>
    BY DEF HoldState, Checking, AlertFrame, HandlerFrame, HandlerInv, MemberInv, StepOf
  <1>2. \A k \in Members : InBatch(k) => k = m
    BY <1>1, Alone DEF InBatch
  <1>3. /\ AtHand(m) = {} /\ FollowsAt(Place(m), {}) /\ HeedsOf(m)
        /\ \A j \in stale : j <= Seen(m)
    BY <1>1, <1>2, FollowsFrom DEF AtHand, FollowsOf
  <1>4. PICK c, i : c = Condition(m) /\ i = work[m].place
    OBVIOUS
  <1>5. PICK mid \in [Conditions -> Nat] :
          /\ mid[c] = i /\ i = Place(m)[c] + 1
          /\ \A d \in Conditions \ {c} : mid[d] = Place(m)[d]
          /\ Past(m, mid)
    BY <1>1, <1>3, <1>4, CheckMoves
  <1>6. c \in Conditions /\ i \in DOMAIN Heeded /\ HoldsIn(Heeded, c, i) /\ Reading(m).at = Heeded[i].at
    BY <1>1, <1>3, <1>4, CheckPlace
  <1>7. seen[m] = states[c] /\ states[c] \in States
    BY <1>1, <1>4, <1>6 DEF FollowsInv, SeenInv, HandlerInv, HandlerTypeOK, AlertTypeOK
  <1>8. Fires(m) <=> FiresIn(Heeded, states[c], i)
    BY <1>6, <1>7 DEF Fires, CooledDown, FiresIn
  <1>9. states'[c] = HeldState(Heeded, states[c], i) /\ \A d \in Conditions \ {c} : states'[d] = states[d]
    BY <1>4, <1>6, <1>8 DEF HoldState, HeldState, HandlerInv, HandlerTypeOK, AlertTypeOK
  <1>10. committed["live"] \in Nat /\ Place(m) \in [Conditions -> Nat] /\ LogOK(Heeded)
    BY PlaceType, LiveOK
  <1>11. PICK P : P = (IF FiresIn(Heeded, states[c], i) THEN {<<c, i>>} ELSE {})
    OBVIOUS
  <1>12. Follows(Heeded, committed["live"], mid, states', alerts, P)
    BY <1>3, <1>5, <1>6, <1>7, <1>9, <1>10, <1>11, FollowsHeld DEF FollowsAt
  <1>13. CASE Fires(m)
    <2>1. pc' = [pc EXCEPT ![m] = "raise"] /\ work' = work
      BY <1>13 DEF HoldState, GoTo
    <2>2. pc'[m] = "raise" /\ \A k \in Members \ {m} : pc'[k] = pc[k]
      BY <2>1 DEF GroupInv, ConsumerTypeOK
    <2>3. AtHand(m)' = P
      BY <1>4, <1>8, <1>11, <1>13, <2>1, <2>2 DEF AtHand, Condition
    <2>4. Place(m)' = mid
      <3>1. work[m].type \in 1 .. 3
        BY <1>1, <1>3, CheckPlace
      <3>2. ASSUME NEW d \in Conditions
            PROVE  PlaceOf(m, d)' = mid[d]
        <4>1. PICK j \in 1 .. 3 : d = AlertTypes[j]
          BY ThreeConditions
        <4>2. d \in Checked(m)' <=> j <= work[m].type
          <5>1. Checked(m)' = {AlertTypes[k] : k \in {k \in 1 .. 3 : k < work[m].type \/ k = work[m].type}}
            BY <2>1, <2>2, ThreeConditions DEF Checked
          <5>2. \A k \in 1 .. 3 : k < work[m].type \/ k = work[m].type <=> k <= work[m].type
            BY <3>1
          <5> QED
            BY <4>1, <5>1, <5>2, ThreeConditions
        <4> QED
          BY <1>4, <1>5, <2>1, <2>2, <4>1, <4>2 DEF PlaceOf, Past, Fresher
      <3> QED
        BY <1>5, <3>2 DEF Place
    <2>5. FollowsAt(Place(m), AtHand(m))'
      BY <1>1, <1>12, <2>3, <2>4 DEF FollowsAt, Heeded, Marked, Live
    <2>6. \A k \in Members : InBatch(k)' => k = m
      BY <1>2, <2>2 DEF InBatch
    <2>7. HeedsOf(m)'
      <3>1. Events(batch[m])' = Events(batch[m]) /\ pc[m] \in AtChecks
        BY <1>1 DEF Events, AtChecks
      <3> QED
        BY <1>1, <1>3, <2>1, <3>1 DEF HeedsOf
    <2>8. Seen(m)' = Seen(m)
      BY <1>1, <2>2 DEF Seen, Fresher
    <2>9. FollowsOf(m)'
      BY <1>1, <1>3, <2>5, <2>7, <2>8 DEF FollowsOf
    <2> QED
      BY <2>2, <2>6, <2>9, FollowsTo
  <1>14. CASE ~ Fires(m)
    <2>1. NextCheck(m) /\ P = {}
      BY <1>8, <1>11, <1>14 DEF HoldState
    <2> QED
      BY <1>1, <1>2, <1>3, <1>5, <1>12, <2>1, NextFollows
  <1> QED
    BY <1>13, <1>14

\* The alert at hand is raised.
LEMMA RaiseFollows ==
  ASSUME GroupInv, HandlerInv, fenced = {}, group = "alerting", FollowsInv, NEW m \in Members,
         Raise(m)
  PROVE  FollowsInv'
  <1>1. /\ Checking(m) /\ pc[m] = "raise" /\ NextCheck(m)
        /\ UNCHANGED <<log, committed, batch, states, stale>>
        /\ alerts' = [alerts EXCEPT ![<<Condition(m), Reading(m).at>>] = @ + 1]
    BY DEF Raise, Checking, AlertFrame, HandlerFrame, HandlerInv, MemberInv, StepOf
  <1>2. \A k \in Members : InBatch(k) => k = m
    BY <1>1, Alone DEF InBatch
  <1>3. PICK c, i : c = Condition(m) /\ i = work[m].place
    OBVIOUS
  <1>4. /\ AtHand(m) = {<<c, i>>} /\ FollowsAt(Place(m), {<<c, i>>}) /\ HeedsOf(m)
        /\ \A j \in stale : j <= Seen(m)
    BY <1>1, <1>2, <1>3, FollowsFrom DEF AtHand, FollowsOf
  <1>5. /\ c \in Conditions /\ i \in DOMAIN Heeded /\ i \in Nat /\ Reading(m).at = Heeded[i].at /\ work[m].type \in 1 .. 3
        /\ c = AlertTypes[work[m].type]
        /\ \A j \in 1 .. 3 : Place(m)[AlertTypes[j]] =
             IF j < work[m].type \/ j = work[m].type THEN i ELSE i - 1
    BY <1>1, <1>3, <1>4, CheckPlace
  <1>6. \A j \in 1 .. 3 : j < work[m].type \/ j = work[m].type <=> j <= work[m].type
    BY <1>5
  <1>7. committed["live"] \in Nat /\ Place(m) \in [Conditions -> Nat] /\ LogOK(Heeded)
    BY PlaceType, LiveOK
  <1>8. i <= Place(m)[c]
    <2>1. Place(m)[c] = i
      BY <1>5
    <2> QED
      BY <1>5, <2>1
  <1>9. alerts \in [Conditions \X (1 .. MaxTime) -> Nat]
    BY DEF HandlerInv, HandlerTypeOK, AlertTypeOK
  <1>10. alerts' = [alerts EXCEPT ![<<c, Heeded[i].at>>] = @ + 1]
    BY <1>1, <1>3, <1>5
  <1>11. Follows(Heeded, committed["live"], Place(m), states, alerts', {})
    BY <1>4, <1>5, <1>7, <1>8, <1>9, <1>10, FollowsRaise DEF FollowsAt
  <1>12. Past(m, Place(m))
    BY <1>3, <1>5, <1>6, <1>7 DEF Past
  <1> QED
    BY <1>1, <1>2, <1>4, <1>11, <1>12, NextFollows

\* A batch is committed.
LEMMA CommitFollows ==
  ASSUME GroupInv, HandlerInv, fenced = {}, group = "alerting", FollowsInv, NEW m \in Members,
         Commit(m), UNCHANGED handlerVars
  PROVE  FollowsInv'
  <1>1. /\ pc[m] = "resolve" /\ InBatch(m) /\ UNCHANGED <<log, states, alerts, stale>>
        /\ committed' = [committed EXCEPT ![batch[m].topic] = batch[m].last]
        /\ pc'[m] = "idle" /\ \A k \in Members \ {m} : pc'[k] = pc[k]
    BY DEF Commit, InBatch, handlerVars, alertVars, GroupInv, ConsumerTypeOK
  <1>2. batch[m].topic = "live" /\ batch[m].last \in Nat
    BY <1>1, LiveBatch
  <1>3. committed'["live"] = batch[m].last
    BY <1>1, <1>2 DEF GroupInv, ConsumerTypeOK, Topics
  <1>4. \A k \in Members : InBatch(k) => k = m
    BY <1>1, Alone
  <1>5. AtHand(m) = {} /\ AtHand(m)' = {} /\ Place(m) = [c \in Conditions |-> batch[m].last]
    BY <1>1 DEF AtHand, Place, PlaceOf, Fresher
  <1>6. Place(m)' = Place(m)
    BY <1>1, <1>3, <1>5 DEF Place, PlaceOf, Fresher
  <1>7. LogOK(Heeded) /\ \A c \in Conditions : batch[m].last <= Place(m)[c]
    BY <1>2, <1>5, LiveOK
  <1>8. Follows(Heeded, batch[m].last, Place(m), states, alerts, {})
    BY <1>2, <1>4, <1>5, <1>7, FollowsFrom, FollowsCommit DEF FollowsOf, FollowsAt
  <1>9. FollowsAt(Place(m), AtHand(m))'
    BY <1>1, <1>3, <1>5, <1>6, <1>8 DEF FollowsAt, Heeded, Marked, Live
  <1>10. \A k \in Members : InBatch(k)' => k = m
    BY <1>1, <1>4 DEF InBatch
  <1>11. HeedsOf(m)' /\ \A j \in stale' : j <= Seen(m)'
    <2>1. Seen(m) = batch[m].last /\ Seen(m)' = batch[m].last
      BY <1>1, <1>3 DEF Seen, Fresher
    <2>2. FollowsOf(m)
      BY <1>4, FollowsFrom
    <2> QED
      BY <1>1, <2>1, <2>2 DEF FollowsOf, HeedsOf, AtChecks
  <1>12. FollowsOf(m)'
    BY <1>9, <1>11 DEF FollowsOf
  <1> QED
    BY <1>1, <1>10, <1>12, FollowsTo

\* Nothing but a failure evicts a member or stops one.
Blamed ==
  \/ faults' = faults /\ stopping' \subseteq stopping /\ fenced' \subseteq fenced
  \/ faults' = faults + 1

\* Every step is without blame or counts as a failure.
LEMMA BlameStep ==
  ASSUME GroupInv, HandlerInv, [TelemetryNext]_telemetryVars
  PROVE  Blamed
  <1>1. CASE UNCHANGED telemetryVars \/ Rebalance
    BY <1>1 DEF telemetryVars, consumerVars, Rebalance, Blamed
  <1>2. ASSUME NEW m \in Members, Join(m) \/ Evict(m) \/ Stop(m)
        PROVE  Blamed
    BY <1>2 DEF Join, Evict, Stop, Fault, Blamed
  <1>3. ASSUME NEW m \in Members,
               (\E t \in Topics : \E n \in 1 .. Len(log[t]) : Fetch(m, t, n)) \/ DeadLetter(m)
                 \/ ReturnEarly(m) \/ Commit(m)
        PROVE  Blamed
    <2>1. CASE ReturnEarly(m)
      BY <2>1 DEF ReturnEarly, Blamed
    <2>2. CASE Commit(m) \/ DeadLetter(m)
      BY <2>2 DEF Commit, DeadLetter, Blamed
    <2>3. CASE \E t \in Topics : \E n \in 1 .. Len(log[t]) : Fetch(m, t, n)
      BY <2>3 DEF Fetch, Blamed
    <2> QED
      BY <1>3, <2>1, <2>2, <2>3
  <1>4. ASSUME NEW m \in Members, CommitFails(m) \/ HandlerFails(m) \/ InsertRefused(m)
        PROVE  Blamed
    BY <1>4 DEF CommitFails, HandlerFails, InsertRefused, GiveBack, Fault, Blamed
  <1>5. ASSUME NEW m \in Members, Leave(m) \/ Kill(m)
        PROVE  Blamed
    BY <1>5 DEF Leave, Kill, Gone, Fault, Blamed
  <1>6. ASSUME HandlerFrame
        PROVE  Blamed
    BY <1>6 DEF HandlerFrame, Blamed
  <1>7. ASSUME NEW m \in Members, Register(m) \/ Lookup(m)
        PROVE  Blamed
    BY <1>6, <1>7 DEF Register, Lookup
  <1>8. ASSUME NEW m \in Members, HandlerStep(m)
        PROVE  Blamed
    <2>1. HandlerFrame \/ InsertRefused(m)
      <3>1. CASE WriterStep(m)
        BY <3>1 DEF WriterStep, BeginLocations, InsertLocations, BeginFuel, InsertFuel, Begin
      <3>2. CASE EngineStep(m)
        BY <3>2 DEF EngineStep, BeginEngine, Seed, Scan, InsertTransitions, Begin
      <3>3. CASE AlertStep(m)
        BY <3>3 DEF AlertStep, BeginAlerting, ReadState, ClearState, HoldState, Raise, AlertFrame, Begin
      <3> QED
        BY <1>8, <3>1, <3>2, <3>3 DEF HandlerStep
    <2> QED
      BY <1>4, <1>6, <2>1
  <1>9. ASSUME NEW m \in Members, GroupStep(m)
        PROVE  Blamed
    BY <1>2, <1>3, <1>4, <1>9 DEF GroupStep
  <1>10. ASSUME NEW m \in Members,
                \/ GroupStep(m) \/ HandlerFails(m) \/ Leave(m) \/ Kill(m)
                \/ Register(m) \/ Lookup(m) \/ HandlerStep(m)
         PROVE  Blamed
    BY <1>4, <1>5, <1>7, <1>8, <1>9, <1>10
  <1>11. CASE TelemetryNext
    <2>1. CASE Rebalance
      BY <1>1, <2>1
    <2>2. CASE \E m \in Members : \/ GroupStep(m) \/ HandlerFails(m) \/ Leave(m) \/ Kill(m)
                                 \/ Register(m) \/ Lookup(m) \/ HandlerStep(m)
      BY <1>10, <2>2
    <2> QED
      BY <1>11, <2>1, <2>2 DEF TelemetryNext
  <1> QED
    BY <1>1, <1>11

\* Who is to blame stays so.
LEMMA BlameKept ==
  ASSUME GroupInv, HandlerInv, BlameInv, [TelemetryNext]_telemetryVars
  PROVE  BlameInv' /\ (faults' = 0 => faults = 0)
  <1>1. faults \in Nat
    BY ConsumerAssumption DEF GroupInv, ConsumerTypeOK
  <1> QED
    BY <1>1, BlameStep DEF Blamed, BlameInv

\* Every step of the alerting group.
LEMMA FollowsKept ==
  ASSUME GroupInv, HandlerInv, BlameInv, group = "alerting", faults = 0, FollowsInv,
         [TelemetryNext]_telemetryVars, faults' = 0
  PROVE  FollowsInv'
  <1>1. fenced = {} /\ stopping = {} /\ ~ Fault
    BY DEF BlameInv, Fault
  <1>2. CASE UNCHANGED telemetryVars \/ (Rebalance /\ UNCHANGED handlerVars)
    <2>1. UNCHANGED <<log, committed, states, alerts, stale, pc, batch, work, seen>>
      BY <1>2 DEF telemetryVars, handlerVars, alertVars, consumerVars, Rebalance
    <2>2. \A n \in Members : InBatch(n)' <=> InBatch(n)
      BY <2>1 DEF InBatch
    <2> QED
      BY <2>1, <2>2, FollowsSteady
  <1>3. ASSUME NEW m \in Members, Join(m), UNCHANGED handlerVars
        PROVE  FollowsInv'
    <2>1. /\ UNCHANGED <<log, committed, states, alerts, stale, batch, work, seen>>
          /\ \A n \in Members : pc'[n] = pc[n] \/ (pc[n] = "down" /\ pc'[n] = "idle")
      BY <1>3 DEF Join, handlerVars, alertVars, GroupInv, ConsumerTypeOK
    <2>2. \A n \in Members : (InBatch(n)' <=> InBatch(n)) /\ (InBatch(n) => pc'[n] = pc[n])
      BY <2>1 DEF InBatch
    <2> QED
      BY <2>1, <2>2, FollowsSteady
  <1>4. ASSUME NEW m \in Members,
               \/ Evict(m) \/ Stop(m) \/ ReturnEarly(m) \/ CommitFails(m)
               \/ HandlerFails(m) \/ Leave(m) \/ Kill(m)
        PROVE  FALSE
    BY <1>1, <1>4 DEF Evict, Stop, ReturnEarly, CommitFails, HandlerFails, Leave, Kill
  <1>5. ASSUME NEW m \in Members, GroupStep(m), UNCHANGED handlerVars
        PROVE  FollowsInv'
    BY <1>1, <1>3, <1>4, <1>5, FetchFollows, DeadLetterFollows, CommitFollows DEF GroupStep
  <1>6. ASSUME NEW m \in Members, HandlerStep(m)
        PROVE  FollowsInv'
    BY <1>1, <1>6, AlertingSteps, BeginFollows, ReadFollows, ClearFollows, HoldFollows, RaiseFollows
       DEF AlertStep
  <1>7. ASSUME NEW m \in Members, Register(m) \/ Lookup(m), UNCHANGED <<rows, engineVars, alertVars>>
        PROVE  FollowsInv'
    BY <1>1, <1>7, LookupFollows
  <1> QED
    BY <1>2, <1>4, <1>5, <1>6, <1>7 DEF TelemetryNext

-----------------------------------------------------------------------------
(* The theorems.                                                           *)

\* At the start there is nothing behind the group.
LEMMA EpisodeAtStart ==
  ASSUME TelemetryInit, GroupInv
  PROVE  EpisodeInv
  <1>1. /\ faults = 0 /\ stopping = {} /\ fenced = {} /\ committed["live"] = 0 /\ stale = {}
        /\ \A m \in Members : pc[m] = "down"
        /\ states = [c \in Conditions |-> NoState]
        /\ alerts = [x \in Conditions \X (1 .. MaxTime) |-> 0]
    BY DEF TelemetryInit, ConsumerInit, AlertInit, Topics
  <1>2. LogOK(Heeded)
    BY LiveOK
  <1>3. Committed \in [Conditions -> Nat] /\ \A c \in Conditions : Committed[c] = 0
    BY <1>1 DEF Committed
  <1>4. \A c \in Conditions : Like(Heeded, c, 0, states[c])
    <2>1. HeardIn(Heeded, 0) = {}
      BY DEF HeardIn
    <2> QED
      BY <1>1, <2>1 DEF Like, ActiveAt, NoState
  <1>5. ASSUME NEW c \in Conditions, NEW i \in DueIn(Heeded, c), i <= 0
        PROVE  FALSE
    BY <1>2, <1>5, DueRule DEF LogOK
  <1>6. ASSUME NEW c \in Conditions, NEW a \in 1 .. MaxTime
        PROVE  alerts[<<c, a>>] <= Cardinality(Raised(Heeded, Committed, {}, c, a))
    <2>1. alerts[<<c, a>>] = 0 /\ Cardinality(Raised(Heeded, Committed, {}, c, a)) \in Nat
      BY <1>1, <1>2, RaisedFinite
    <2> QED
      BY <2>1
  <1>7. Len(Heeded) \in Nat
    BY <1>2 DEF LogOK
  <1>8. Follows(Heeded, 0, Committed, states, alerts, {})
    BY <1>3, <1>4, <1>5, <1>6, <1>7 DEF Follows
  <1>9. FollowsAt(Committed, {})
    BY <1>1, <1>8 DEF FollowsAt
  <1>10. FollowsInv
    BY <1>1, <1>9 DEF FollowsInv, SeenInv, InBatch
  <1> QED
    BY <1>1, <1>10 DEF EpisodeInv, BlameInv

\* The invariant holds at each step.
LEMMA EpisodeKept ==
  ASSUME GroupInv, HandlerInv, EpisodeInv, [TelemetryNext]_telemetryVars
  PROVE  EpisodeInv'
  <1>1. BlameInv' /\ (faults' = 0 => faults = 0)
    BY BlameKept DEF EpisodeInv
  <1>2. UNCHANGED group
    BY GroupStays
  <1>3. group = "alerting" /\ faults' = 0 => FollowsInv'
    BY <1>1, FollowsKept DEF EpisodeInv
  <1> QED
    BY <1>1, <1>2, <1>3 DEF EpisodeInv

\* Some member's place, or the committed offset, is where the tables stand.
LEMMA SomePlace ==
  ASSUME GroupInv, HandlerInv, EpisodeInv, group = "alerting", faults = 0
  PROVE  \E pos \in [Conditions -> Nat] : \E P :
           FollowsAt(pos, P) /\ \A x \in P : ~ (x[2] <= committed["live"])
  <1>1. CASE \A m \in Members : ~ InBatch(m)
    <2>1. Committed \in [Conditions -> Nat]
      BY DEF Committed, GroupInv, ConsumerTypeOK, Topics
    <2>2. FollowsAt(Committed, {})
      BY <1>1 DEF EpisodeInv, FollowsInv
    <2> QED
      BY <2>1, <2>2
  <1>2. ASSUME NEW m \in Members, InBatch(m)
        PROVE  /\ Place(m) \in [Conditions -> Nat] /\ FollowsAt(Place(m), AtHand(m))
               /\ \A x \in AtHand(m) : ~ (x[2] <= committed["live"])
    <2>1. FollowsAt(Place(m), AtHand(m)) /\ HeedsOf(m)
      BY <1>2 DEF EpisodeInv, FollowsInv
    <2>2. ASSUME pc[m] = "raise"
          PROVE  ~ (work[m].place <= committed["live"])
      <3>1. Checking(m) /\ Acting(m)
        BY <1>2, <2>2 DEF Checking, Acting, EpisodeInv, BlameInv
      <3>2. work[m].place > batch[m].first - 1 /\ work[m].place \in Nat
        BY <2>1, <3>1, CheckPlace
      <3>3. batch[m].first = committed["live"] + 1 /\ committed["live"] \in Nat
        BY <1>2, <3>1, LiveBatch
      <3> QED
        BY <3>2, <3>3
    <2>3. Place(m) \in [Conditions -> Nat]
      BY PlaceType
    <2> QED
      BY <2>1, <2>2, <2>3 DEF AtHand
  <1> QED
    BY <1>1, <1>2

\* What the alerts tell.
LEMMA EpisodeBounds ==
  ASSUME GroupInv, HandlerInv, EpisodeInv
  PROVE  AlertsMarkEpisodes
  <1>1. SUFFICES ASSUME group = "alerting", faults = 0
                 PROVE  /\ Missing = {}
                        /\ \A c \in Conditions, a \in 1 .. MaxTime :
                             alerts[c, a] <= Cardinality({i \in Due(c) : Live[i].at = a})
    BY DEF AlertsMarkEpisodes
  <1>2. PICK pos \in [Conditions -> Nat] : \E P :
          FollowsAt(pos, P) /\ \A x \in P : ~ (x[2] <= committed["live"])
    BY <1>1, SomePlace
  <1>3. PICK P : FollowsAt(pos, P) /\ \A x \in P : ~ (x[2] <= committed["live"])
    BY <1>2
  <1>4. Follows(Heeded, committed["live"], pos, states, alerts, P)
    BY <1>3 DEF FollowsAt
  <1>5. /\ LogOK(Heeded) /\ (\A c : Due(c) = DueIn(Heeded, c))
        /\ DOMAIN Heeded = DOMAIN Live /\ \A i \in DOMAIN Live : Heeded[i].at = Live[i].at
    BY LiveOK
  <1>6. committed["live"] \in Nat
    BY DEF GroupInv, ConsumerTypeOK, Topics
  <1>7. ASSUME NEW c \in Conditions, NEW i \in 1 .. committed["live"], i \in Due(c),
               alerts[<<c, Live[i].at>>] = 0
        PROVE  FALSE
    <2>1. i \in DueIn(Heeded, c) /\ Heeded[i].at = Live[i].at
      BY <1>5, <1>7, DueRule
    <2>2. committed["live"] <= pos[c] /\ pos[c] \in Nat
      BY <1>4 DEF Follows
    <2>3. i <= committed["live"] /\ i <= pos[c]
      BY <1>6, <2>2
    <2>4. <<c, i>> \in P
      BY <1>4, <1>7, <2>1, <2>3 DEF Follows
    <2>5. ~ (<<c, i>>[2] <= committed["live"])
      BY <1>3, <2>4
    <2> QED
      BY <2>3, <2>5
  <1>8. Missing = {}
    <2>1. ASSUME NEW x \in Missing
          PROVE  FALSE
      <3>1. /\ x[1] \in Conditions /\ x[2] \in 1 .. committed["live"] /\ x[2] \in Due(x[1])
            /\ alerts[<<x[1], Live[x[2]].at>>] = 0
        BY DEF Missing
      <3> QED
        BY <1>7, <3>1
    <2> QED
      BY <2>1
  <1>9. ASSUME NEW c \in Conditions, NEW a \in 1 .. MaxTime
        PROVE  alerts[c, a] <= Cardinality({i \in Due(c) : Live[i].at = a})
    <2> DEFINE U == Raised(Heeded, pos, P, c, a)
               V == {i \in Due(c) : Live[i].at = a}
    <2>1. IsFiniteSet(U) /\ Cardinality(U) \in Nat /\ IsFiniteSet(DueIn(Heeded, c))
      BY <1>5, RaisedFinite
    <2>2. U \subseteq V /\ V \subseteq DueIn(Heeded, c)
      BY <1>5, DueRule DEF Raised
    <2>3. IsFiniteSet(V) /\ Cardinality(V) \in Nat /\ Cardinality(U) <= Cardinality(V)
      BY <2>1, <2>2, FS_Subset, FS_CardinalityType
    <2>4. alerts[<<c, a>>] <= Cardinality(U) /\ alerts[<<c, a>>] \in Nat
      BY <1>4, CountsType DEF Follows
    <2> HIDE DEF U, V
    <2>5. alerts[<<c, a>>] <= Cardinality(V)
      BY <2>1, <2>3, <2>4
    <2> QED
      BY <2>5 DEF V
  <1> QED
    BY <1>8, <1>9

\* Without failures the alert tables tell at every moment of the readings behind the
\* group that no call has left out.
THEOREM EpisodesAreFollowed == TelemetrySpec => []EpisodeInv
  <1>1. TelemetryInit /\ DeliveredInv => EpisodeInv
    BY EpisodeAtStart DEF DeliveredInv
  <1>2. DeliveredInv /\ EpisodeInv /\ [TelemetryNext]_telemetryVars => EpisodeInv'
    BY EpisodeKept DEF DeliveredInv
  <1> QED
    BY <1>1, <1>2, DeliveredAlways, PTL DEF TelemetrySpec

\* Without a failure the alerts are those of the episodes: one for the reading that
\* begins one and one whenever a cooldown has passed since, none missing behind the
\* committed offset and none in excess (consumer.ts:25-30, state.ts), however the log
\* is cut into batches, whichever replica handles them, and whatever each call takes
\* for stale by its own clock (consumer.ts:130-132): the readings left out count for
\* nothing.
THEOREM EpisodesAreMarked == TelemetrySpec => []AlertsMarkEpisodes
  <1>1. DeliveredInv /\ EpisodeInv => AlertsMarkEpisodes
    BY EpisodeBounds DEF DeliveredInv
  <1> QED
    BY <1>1, DeliveredAlways, EpisodesAreFollowed, PTL

=============================================================================
