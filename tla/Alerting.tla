------------------------------ MODULE Alerting ------------------------------
(***************************************************************************)
(* apps/telemetry-consumers/src/alerting: the alert conditions of a        *)
(* reading and the edge-triggered alerts.  The state of a condition and    *)
(* the alert are rows of two tables, written one after the other.          *)
(***************************************************************************)
EXTENDS EngineWriter

CONSTANTS
  LowFuelPct, SpeedLimit, Cooldown,
  Cutoffs,     \* bound: the values of now() - maxAgeMs when a handler is called
  Geofences,   \* the active ones, each a set of spots
  MaxTime      \* bound: the latest recordedAt

ASSUME AlertAssumption ==
  /\ MaxTime \in Nat /\ Cooldown \in Nat \ {0} /\ Cutoffs \subseteq Nat
  /\ \A g \in Groups : \A l \in Logs[g] : \A t \in Topics : \A i \in DOMAIN l[t] :
       l[t][i].at \in 1 .. MaxTime

VARIABLES
  states,  \* vehicle_alert_states: per condition
  alerts,  \* vehicle_alerts: how many of a condition and a time
  seen,    \* per member, the state its handler has read
  work,    \* per member, its check: a place in the log, a condition, the places left
  stale,   \* history: places in the log that a call has left out as stale
  announced  \* history: conditions with the places whose times last_fired_at has had

alertVars == <<states, alerts, seen, work, stale, announced>>

AlertTypes == <<"low_fuel", "geofence_exit", "speeding">>
Conditions == ToSet(AlertTypes)
NeverFired == 0
NoState == [active |-> FALSE, fired |-> NeverFired]
NoCheck == [place |-> 0, type |-> 1, rest |-> {}]
States  == [active : BOOLEAN, fired : 0 .. MaxTime]
Checks  == [place : Nat, type : DOMAIN AlertTypes, rest : SUBSET Nat]

AlertTypeOK ==
  /\ states \in [Conditions -> States]
  /\ alerts \in [Conditions \X (1 .. MaxTime) -> Nat]
  /\ seen \in [Members -> States]
  /\ work \in [Members -> Checks]
  /\ stale \subseteq Nat
  /\ announced \subseteq Conditions \X Nat

AlertInit ==
  /\ states = [c \in Conditions |-> NoState]
  /\ alerts = [x \in Conditions \X (1 .. MaxTime) |-> 0]
  /\ seen = [m \in Members |-> NoState]
  /\ work = [m \in Members |-> NoCheck]
  /\ stale = {} /\ announced = {}

\* evaluateRules.  The lowest fuel percentage decides, a vehicle without a fix
\* is nowhere, and without geofences none can be left.
Candidates(e) ==
  {c \in Conditions :
     \/ c = "low_fuel" /\ \E f \in e.fuel : f.pct # NoPct /\ f.pct < LowFuelPct
     \/ c = "speeding" /\ e.gps.fix /\ e.gps.kph > SpeedLimit
     \/ c = "geofence_exit" /\ e.gps.fix /\ Geofences # {}
                            /\ e.gps.spot \notin UNION Geofences}

Fresh(b, cutoff) == {i \in Events(b) : log[b.topic][i].at >= cutoff}

\* Every reading is held against every condition, those that do not hold
\* included: the readings in their order, the conditions in that of ALERT_TYPES.
FirstCheck(places) ==
  IF places = {} THEN NoCheck
  ELSE [place |-> Min(places), type |-> 1, rest |-> places \ {Min(places)}]

\* Each call looks at its own clock: what one finds fresh may be stale to the
\* next, and the clocks of two replicas need not agree.
BeginAlerting(m) ==
  /\ group = "alerting"
  /\ \E cutoff \in Cutoffs :
       LET fresh == Fresh(batch[m], cutoff) IN
       /\ Begin(m, fresh)
       /\ work' = [work EXCEPT ![m] = FirstCheck(fresh)]
       /\ stale' = stale \cup (Events(batch[m]) \ fresh)
  /\ UNCHANGED <<rows, engineVars, states, alerts, seen, announced>>

Reading(m)   == Message(m, work[m].place)
Condition(m) == AlertTypes[work[m].type]
Holding(m)   == Condition(m) \in Candidates(Reading(m))

CheckAfter(m) ==
  IF work[m].type < Len(AlertTypes) THEN [work[m] EXCEPT !.type = @ + 1]
  ELSE FirstCheck(work[m].rest)

NextCheck(m) ==
  /\ work' = [work EXCEPT ![m] = CheckAfter(m)]
  /\ seen' = [seen EXCEPT ![m] = NoState]
  /\ GoTo(m, IF CheckAfter(m) = NoCheck THEN "resolve" ELSE "store")

AlertFrame == UNCHANGED <<vehicleVars, rows, engineVars, stale>> /\ HandlerFrame

\* shouldFire reads the state; a condition that neither holds nor held needs no
\* write.
ReadState(m) ==
  LET existing == states[Condition(m)] IN
  /\ group = "alerting" /\ pc[m] = "store"
  /\ IF Holding(m) \/ existing.active
       THEN /\ seen' = [seen EXCEPT ![m] = existing]
            /\ GoTo(m, "write")
            /\ UNCHANGED work
       ELSE NextCheck(m)
  /\ UNCHANGED <<states, alerts, announced>> /\ AlertFrame

ClearState(m) ==
  /\ pc[m] = "write" /\ ~ Holding(m)
  /\ states' = [states EXCEPT ![Condition(m)].active = FALSE]
  /\ NextCheck(m)
  /\ UNCHANGED <<alerts, announced>> /\ AlertFrame

CooledDown(m) ==
  seen[m].fired # NeverFired /\ Reading(m).at >= seen[m].fired + Cooldown

\* Mutant: an alert per reading.
FiresAlways(m) == TRUE

\* Mutant: an alert per episode.
FiresOnce(m) == ~ seen[m].active

Fires(m) == ~ seen[m].active \/ CooledDown(m)

HoldState(m) ==
  /\ pc[m] = "write" /\ Holding(m)
  /\ states' = [states EXCEPT ![Condition(m)] =
                  [active |-> TRUE, fired |-> IF Fires(m) THEN Reading(m).at ELSE @.fired]]
  /\ IF Fires(m)
       THEN /\ announced' = announced \cup {<<Condition(m), work[m].place>>}
            /\ GoTo(m, "raise")
            /\ UNCHANGED <<seen, work>>
       ELSE NextCheck(m) /\ UNCHANGED announced
  /\ UNCHANGED alerts /\ AlertFrame

Raise(m) ==
  /\ pc[m] = "raise"
  /\ alerts' = [alerts EXCEPT ![<<Condition(m), Reading(m).at>>] = @ + 1]
  /\ NextCheck(m)
  /\ UNCHANGED <<states, announced>> /\ AlertFrame

AlertStep(m) ==
  BeginAlerting(m) \/ ReadState(m) \/ ClearState(m) \/ HoldState(m) \/ Raise(m)

=============================================================================
