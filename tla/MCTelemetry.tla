----------------------------- MODULE MCTelemetry -----------------------------
(* Finite instances of TelemetrySystem: a few records and the logs made of *)
(* them.  A record differs from Plain in what its name says.               *)
EXTENDS TelemetrySystem, TLC

Depot  == [satellites |-> 7, onMap |-> TRUE, kph |-> 50, spot |-> "depot"]
Street == [Depot EXCEPT !.spot = "street"]

Plain(at)  == AvlRecord(at, Depot, 0, << >>)
Bad(at)    == AvlRecord(at, [Depot EXCEPT !.onMap = FALSE], 0, << >>)
NoFix(at)  == AvlRecord(at, [Street EXCEPT !.satellites = 0], 0, << >>)
Astray(at) == AvlRecord(at, [Street EXCEPT !.kph = 130], 0, << >>)
Racing(at) == AvlRecord(at, [Depot EXCEPT !.kph = 130], 0, << >>)
Fuel(at, pct) ==
  AvlRecord(at, Depot, 0, AvlId["can_pct"] :> pct @@ AvlId["can_liters"] :> 400)
Low(at) ==
  AvlRecord(at, IF at = 1 THEN Depot ELSE Street, 0, AvlId["lls1"] :> 10)
On(at, why)  == AvlRecord(at, Depot, why, AvlId["ignition"] :> 1)
Off(at, why) == AvlRecord(at, Depot, why, AvlId["ignition"] :> 0)

Both(live, backfill) ==
  [t \in Topics |-> BuildTelemetryEvents(IF t = "live" THEN live ELSE backfill)]

\* Where a record repeats an older one, an earlier publish of it was stored late.

LocationLogs ==
  {Both(<<Plain(1), Bad(2), NoFix(3)>>, <<Plain(1)>>)}

FuelLogs ==
  {Both(<<Fuel(2, 40), Bad(3)>>, <<Fuel(1, 55)>>), Both(<<Fuel(1, 40), Fuel(2, 255)>>, << >>)}

EngineLogs ==
  {Both(<<Off(2, 0), On(3, AvlId["ignition"])>>, <<On(1, 0)>>), Both(<<Off(2, 0), On(1, 0)>>, << >>)}

\* Two conditions begin, end with a late reading that a call may leave out as
\* stale, and begin again within the cooldown.
Outage == Both(<<Astray(2), Plain(1), Astray(3)>>, << >>)

AlertLogs ==
  {Outage} \cup
  {Both(live, << >>) : live \in {<<Bad(1), Low(3)>>, <<Racing(1), Racing(3)>>, <<Racing(2), Racing(5)>>}}

AllLogs ==
  [g \in Groups |-> CASE g = "locations" -> LocationLogs [] g = "fuel" -> FuelLogs
                      [] g = "engine" -> EngineLogs [] g = "alerting" -> AlertLogs]

\* The logs of one group alone.
Only(group0, logs) == [g \in Groups |-> IF g = group0 THEN logs ELSE {}]

CutLogs    == Only("locations", {Both(<<Plain(1), Bad(2), Plain(3)>>, << >>)})
WedgeLogs  == Only("fuel", FuelLogs)
ChangeLogs == Only("engine", EngineLogs)

\* How many failures a log meets.
AtMost(n)  == [l \in UNION {Logs[g] : g \in Groups} |-> n]
NoFault    == AtMost(0)
OneFault   == AtMost(1)
SomeFaults == [AtMost(2) EXCEPT ![Outage] = 1]
=============================================================================
