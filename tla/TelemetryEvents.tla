--------------------------- MODULE TelemetryEvents ---------------------------
(***************************************************************************)
(* packages/events: the messages of the telemetry topics, reduced to what  *)
(* the consumers tell apart.  A message that cannot be decoded is one      *)
(* whose ok is FALSE; the rest of it means nothing.                        *)
(***************************************************************************)
EXTENDS Naturals, Sequences

CONSTANT Spots  \* places a vehicle can be at

Topics  == {"live", "backfill"}
Inputs  == {"ignition", "movement"}
Values  == {"none", "on", "off"}    \* none: the record does not carry the input
Sources == {"can_pct", "can_liters", "obd_pct", "lls1", "lls2"}

\* Percentages come from one unsigned byte of the record; NoPct is a reading in
\* litres alone.
NoPct == 256
FuelReadings == {r \in [source : Sources, pct : 0 .. NoPct] :
                   (r.pct = NoPct) = (r.source = "can_liters")}

Readings ==
  [ok    : BOOLEAN,
   at    : Nat,                        \* recordedAt
   gps   : [fix : BOOLEAN, kph : Nat, spot : Spots],
   fuel  : SUBSET FuelReadings,
   input : [Inputs -> Values],
   cause : Inputs \cup {"other"}]      \* eventIoId: what made the device record

Storable(r) == r.ok => \A f \in r.fuel : f.pct <= 100 \/ f.pct = NoPct

-----------------------------------------------------------------------------
(* From the records of a packet to messages.                               *)

AvlId == [ignition |-> 239, movement |-> 240, can_pct |-> 89, can_liters |-> 84,
          obd_pct |-> 48, lls1 |-> 201, lls2 |-> 203]

\* A decoded record: io maps the ids it carries to their values.
AvlRecord(at, gps, eventIoId, io) == [at |-> at, gps |-> gps, eventIoId |-> eventIoId, io |-> io]

ReadBoolean(io, id) ==
  IF id \notin DOMAIN io THEN "none" ELSE IF io[id] # 0 THEN "on" ELSE "off"

\* A reading per sensor that reports.
ReadFuel(io) ==
  {[source |-> s, pct |-> IF s = "can_liters" THEN NoPct ELSE io[AvlId[s]]] :
     s \in {x \in Sources : AvlId[x] \in DOMAIN io}}

Cause(eventIoId) ==
  IF \E i \in Inputs : AvlId[i] = eventIoId
    THEN CHOOSE i \in Inputs : AvlId[i] = eventIoId ELSE "other"

\* normalizeRecord, and what decodeTelemetryEvent makes of it: without a satellite
\* there is no position, and one that is off the map does not pass the schema.
NormalizeRecord(record) ==
  [ok    |-> record.gps.satellites > 0 => record.gps.onMap,
   at    |-> record.at,
   gps   |-> [fix |-> record.gps.satellites > 0, kph |-> record.gps.kph, spot |-> record.gps.spot],
   fuel  |-> ReadFuel(record.io),
   input |-> [i \in Inputs |-> ReadBoolean(record.io, AvlId[i])],
   cause |-> Cause(record.eventIoId)]

\* The messages of a packet, in its order.
BuildTelemetryEvents(records) == [i \in DOMAIN records |-> NormalizeRecord(records[i])]

=============================================================================
