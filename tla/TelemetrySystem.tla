--------------------------- MODULE TelemetrySystem ---------------------------
(***************************************************************************)
(* The telemetry consumers: replicas of apps/telemetry-consumers in one    *)
(* group, with their handler, the vehicle table and the tables the group   *)
(* writes.  Everything in the memory of a process - the vehicle cache, the *)
(* engine's last known state, the batch in hand - is gone when it ends.    *)
(***************************************************************************)
EXTENDS Alerting

handlerVars   == <<vehicleVars, rows, engineVars, alertVars>>
telemetryVars == <<consumerVars, handlerVars>>

TelemetryTypeOK ==
  ConsumerTypeOK /\ VehicleTypeOK /\ RowsTypeOK /\ EngineTypeOK /\ AlertTypeOK

TelemetryInit ==
  ConsumerInit /\ VehicleInit /\ RowsInit /\ EngineInit /\ AlertInit

\* The handler of m throws; what it had in hand is lost, not what its process
\* remembers.
DropWork(m) ==
  /\ found' = [found EXCEPT ![m] = {}]
  /\ seen' = [seen EXCEPT ![m] = NoState]
  /\ work' = [work EXCEPT ![m] = NoCheck]
  /\ UNCHANGED <<vehicleVars, rows, memory, states, alerts, stale, announced>>

\* The process of m ends.
Forget(m) ==
  /\ ForgetVehicle(m)
  /\ memory' = [memory EXCEPT ![m] = NoMemory]
  /\ found' = [found EXCEPT ![m] = {}]
  /\ seen' = [seen EXCEPT ![m] = NoState]
  /\ work' = [work EXCEPT ![m] = NoCheck]
  /\ UNCHANGED <<vehicle, rows, states, alerts, stale, announced>>

HandlerStep(m) ==
  \/ WriterStep(m) /\ UNCHANGED <<engineVars, alertVars>>
  \/ EngineStep(m) /\ UNCHANGED alertVars
  \/ AlertStep(m)

TelemetryNext ==
  \/ Rebalance /\ UNCHANGED handlerVars
  \/ \E m \in Members :
       \/ GroupStep(m) /\ UNCHANGED handlerVars
       \/ HandlerFails(m) /\ DropWork(m)
       \/ (Leave(m) \/ Kill(m)) /\ Forget(m)
       \/ Register(m) /\ UNCHANGED <<rows, engineVars, alertVars>>
       \/ Lookup(m) /\ UNCHANGED <<rows, engineVars, alertVars>>
       \/ HandlerStep(m)

TelemetrySpec == TelemetryInit /\ [][TelemetryNext]_telemetryVars

-----------------------------------------------------------------------------
(* What the consumers promise.                                             *)

Live == log["live"]

\* Condition c has been given an alert that lasts to reading i, its own or that
\* of a reading before it in the log.
Covered(c, i) ==
  \E j \in 1 .. i : <<c, j>> \in announced /\ Live[i].at < Live[j].at + Cooldown

\* What message i of topic t leaves behind, at the least.
HasEffect(t, i) ==
  LET e == log[t][i] IN
  IF ~ e.ok THEN <<t, i>> \in dead
  ELSE CASE group = "locations" -> e.gps.fix => Row(vehicle, e, <<"position">>) \in rows
         [] group = "fuel" -> \A f \in e.fuel : Row(vehicle, e, <<f.source, "level">>) \in rows
         [] group = "engine" -> \A k \in Inputs :
              e.cause = k /\ e.input[k] # "none" => Row(vehicle, e, <<k, e.input[k]>>) \in rows
         [] group = "alerting" -> i \in stale \/ \A c \in Candidates(e) : Covered(c, i)

\* Committed offsets are the recovery mechanism (docs/TELEMETRY.md): the group
\* never commits past a message it has neither stored nor dead-lettered, unless
\* a stop cut its batch short.
CommittedIsStored ==
  \A t \in Topics : \A i \in 1 .. committed[t] : HasEffect(t, i) \/ <<t, i>> \in cutShort

\* All replicas name a device's vehicle alike, and so do its rows (vehicles.ts:23).
VehiclesAgree ==
  /\ \A m \in Members : known[m] \in {NoMember, vehicle}
  /\ \A r \in rows : r.vehicle = vehicle

Contradicts(k, value, e) == e.ok /\ e.input[k] \notin {"none", value}

\* Backlog invents no transitions (engine.ts:31-34): a transition is one the
\* device reported, or it was noticed on the live topic, against another live
\* reading - a later one, perhaps, when a batch is handed out again - or a row.
NothingInvented ==
  group = "engine" => \A r \in rows : \E t \in Topics : \E i \in 1 .. Len(log[t]) :
    LET e == log[t][i]
        k == r.key[1]
    IN  /\ e.ok /\ e.at = r.at /\ e.input[k] = r.key[2]
        /\ \/ e.cause = k
           \/ /\ t = "live"
              /\ \/ \E j \in DOMAIN log[t] : Contradicts(k, r.key[2], log[t][j])
                 \/ \E s \in rows : s.key[1] = k /\ s.key[2] # r.key[2]

\* A reading counts unless a call has left it out.
Counts(i)   == Live[i].ok /\ i \notin stale
Holds(c, i) == Counts(i) /\ c \in Candidates(Live[i])

\* The messages of the live topic that an alert for condition c is due for: the
\* first of an episode, and one whose predecessor among them is a cooldown old.
Due(c) ==
  CHOOSE F \in SUBSET DOMAIN Live : \A i \in DOMAIN Live :
    LET before == {j \in 1 .. i - 1 : Counts(j)}
        fired  == {j \in F : j < i}
    IN  i \in F <=> /\ Holds(c, i)
                    /\ \/ before = {} \/ ~ Holds(c, Max(before))
                       \/ fired # {} /\ Live[i].at >= Live[Max(fired)].at + Cooldown

\* The alerts that are due and were never raised.
Missing ==
  {x \in Conditions \X (1 .. committed["live"]) :
     x[2] \in Due(x[1]) /\ alerts[<<x[1], Live[x[2]].at>>] = 0}

\* Without failures the alerts are those of the episodes, however the log is cut
\* into batches and whichever replica handles them (consumer.ts:25-30).
AlertsMarkEpisodes ==
  group = "alerting" /\ faults = 0 =>
    /\ Missing = {}
    /\ \A c \in Conditions, a \in 1 .. MaxTime :
         alerts[c, a] <= Cardinality({i \in Due(c) : Live[i].at = a})

\* The alerts about to be written, and those that will do for reading i of
\* condition c: its own or that of an earlier reading, less than a cooldown ago.
AtHands == {<<Condition(m), work[m].place>> : m \in {n \in Members : pc[n] = "raise"}}

Alerted(c, j) == alerts[c, Live[j].at] > 0

Heard(c, i, extra) ==
  \E j \in 1 .. i :
    /\ Live[j].ok /\ Live[i].at < Live[j].at + Cooldown
    /\ Alerted(c, j) \/ <<c, j>> \in extra

\* A condition that holds is never silent for longer than the cooldown, whoever
\* handles its readings and however long the consumers were away.  The state is
\* committed before the alert, so a failure in between loses one; no failure
\* loses two.  Readings that a call found stale, and those in a batch that a stop
\* cut short, are not looked at.
LostAlertsAreFailures ==
  group = "alerting" =>
    \E lost \in SUBSET {x \in announced : ~ Alerted(x[1], x[2])} :
      /\ Cardinality(lost) <= faults
      /\ \A i \in 1 .. committed["live"] : \A c \in Conditions :
           Holds(c, i) /\ <<"live", i>> \notin cutShort => Heard(c, i, lost \cup AtHands)

\* A reading raises an alert again only on account of a failure.
AlertCopiesAreRetries ==
  \A c \in Conditions, a \in 1 .. MaxTime :
    alerts[c, a] <= Cardinality({i \in DOMAIN Live : Live[i].at = a}) * (1 + faults)

-----------------------------------------------------------------------------
(* Fairness.  As long as something is due, something is done: a replica is *)
(* started again, members join, the broker rebalances and hands out        *)
(* batches, handlers run their statements and offsets are committed.       *)
(* Failures, stops and evictions need not happen.                          *)

Progress ==
  \/ \E m \in Members :
       \/ HandlerStep(m)
       \/ (Register(m) \/ Lookup(m)) /\ UNCHANGED <<rows, engineVars, alertVars>>
       \/ (Join(m) \/ DeadLetter(m) \/ ReturnEarly(m) \/ Commit(m)) /\ UNCHANGED handlerVars
       \/ m \in fenced /\ CommitFails(m) /\ UNCHANGED handlerVars
       \/ \E t \in Topics : \E n \in 1 .. Len(log[t]) : Fetch(m, t, n) /\ UNCHANGED handlerVars
       \/ Leave(m) /\ Forget(m)
  \/ Rebalance /\ UNCHANGED handlerVars

FairTelemetrySpec == TelemetrySpec /\ WF_telemetryVars(Progress)

Finished == \A t \in Subscribed : committed[t] = Len(log[t])

\* A group whose readings the database takes gets through its log, whatever
\* fails on the way: undecodable messages, crashes and rebalances included.
EveryMessageIsCommitted ==
  (\A t \in Topics : \A i \in DOMAIN log[t] : Storable(log[t][i])) => <>[]Finished

-----------------------------------------------------------------------------
(* What the repository says and the code does not do.                      *)

\* A stop loses nothing (client.ts:166, main.ts:70): what is committed is stored.
NothingQuietlyLost ==
  \A t \in Topics : \A i \in 1 .. committed[t] : HasEffect(t, i)

\* One bad message never wedges a partition (docs/TELEMETRY.md:76).
NoPartitionIsWedged == <>[]Finished

\* One row per state change (engine.ts:21): when two readings that follow each
\* other differ, the second has its row once it is committed.
EveryChangeIsStored ==
  group = "engine" => \A j \in 1 .. committed["live"], k \in Inputs :
    LET earlier == {i \in 1 .. j - 1 : Live[i].ok /\ Live[i].input[k] # "none"} IN
    Live[j].ok /\ Live[j].input[k] # "none" /\ earlier # {} =>
      \/ Live[Max(earlier)].input[k] = Live[j].input[k]
      \/ Row(vehicle, Live[j], <<k, Live[j].input[k]>>) \in rows

=============================================================================
