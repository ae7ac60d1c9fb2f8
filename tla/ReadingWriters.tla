--------------------------- MODULE ReadingWriters ---------------------------
(***************************************************************************)
(* apps/telemetry-consumers/src/consumers/locations.ts and fuel.ts.  A row *)
(* is known by the columns of its table's unique key; an insert that meets *)
(* the key again does nothing.                                             *)
(***************************************************************************)
EXTENDS VehicleRegistry

VARIABLE rows  \* the reading table of the group: locations, fuel or engine events

Row(v, e, key) == [vehicle |-> v, at |-> e.at, key |-> key]

Keys == {<<"position">>} \cup (Sources \X {"level"}) \cup (Inputs \X Values)

RowsTypeOK == rows \subseteq [vehicle : Members, at : Nat, key : Keys]

RowsInit == rows = {}

-----------------------------------------------------------------------------
(* Locations: readings without a satellite fix are skipped.                *)

Positioned(b) == {i \in Events(b) : log[b.topic][i].gps.fix}

BeginLocations(m) ==
  group = "locations" /\ Begin(m, Positioned(batch[m])) /\ UNCHANGED rows

InsertLocations(m) ==
  /\ group = "locations" /\ pc[m] = "store"
  /\ rows' = rows \cup {Row(known[m], Message(m, i), <<"position">>) : i \in Positioned(batch[m])}
  /\ GoTo(m, "resolve")
  /\ UNCHANGED vehicleVars /\ HandlerFrame

-----------------------------------------------------------------------------
(* Fuel: a row per sensor.                                                 *)

WithFuel(b) == {i \in Events(b) : log[b.topic][i].fuel # {}}

BeginFuel(m) ==
  group = "fuel" /\ Begin(m, WithFuel(batch[m])) /\ UNCHANGED rows

FuelRows(m) ==
  UNION {{Row(known[m], Message(m, i), <<f.source, "level">>) : f \in Message(m, i).fuel} :
           i \in WithFuel(batch[m])}

InsertFuel(m) ==
  /\ group = "fuel" /\ pc[m] = "store"
  /\ \A i \in WithFuel(batch[m]) : Storable(Message(m, i))
  /\ rows' = rows \cup FuelRows(m)
  /\ GoTo(m, "resolve")
  /\ UNCHANGED vehicleVars /\ HandlerFrame

\* One level above 100 breaks the table's check and the whole insert with it.
InsertRefused(m) ==
  /\ group = "fuel" /\ pc[m] = "store"
  /\ \E i \in WithFuel(batch[m]) : ~ Storable(Message(m, i))
  /\ GiveBack(m)
  /\ UNCHANGED <<vehicleVars, rows, faults>>

WriterStep(m) ==
  \/ BeginLocations(m) \/ InsertLocations(m)
  \/ BeginFuel(m) \/ InsertFuel(m) \/ InsertRefused(m)

=============================================================================
