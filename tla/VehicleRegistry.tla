--------------------------- MODULE VehicleRegistry ---------------------------
(***************************************************************************)
(* apps/telemetry-consumers/src/vehicles.ts: from a device to its vehicle. *)
(* The row is inserted on first sight, by whichever replica comes first,   *)
(* and read back; each process caches what it read.  An id is named after  *)
(* the member whose insert made the row.                                   *)
(***************************************************************************)
EXTENDS TelemetryConsumer

VARIABLES
  vehicle,  \* the id of the device's row in the vehicle table
  known     \* per member, the id its process has cached

vehicleVars == <<vehicle, known>>

VehicleTypeOK ==
  /\ vehicle \in Members \cup {NoMember}
  /\ known \in [Members -> Members \cup {NoMember}]

VehicleInit == vehicle = NoMember /\ known = [m \in Members |-> NoMember]

GoTo(m, step) == pc' = [pc EXCEPT ![m] = step]

\* What a step of a handler leaves alone in the group.
HandlerFrame ==
  UNCHANGED <<group, log, committed, owner, settled, batch, fenced, stopping, dead, cutShort, faults>>

\* Mutant: the loser of the race keeps the id it made up.
RegisterOwnId(m) ==
  /\ pc[m] = "register"
  /\ vehicle' = IF vehicle = NoMember THEN m ELSE vehicle
  /\ known' = [known EXCEPT ![m] = m]
  /\ GoTo(m, "store")
  /\ HandlerFrame

\* INSERT ... ON CONFLICT DO NOTHING on the unique IMEI.
Register(m) ==
  /\ pc[m] = "register"
  /\ vehicle' = IF vehicle = NoMember THEN m ELSE vehicle
  /\ GoTo(m, "lookup")
  /\ UNCHANGED known /\ HandlerFrame

\* The row is read back and cached.
Lookup(m) ==
  /\ pc[m] = "lookup"
  /\ known' = [known EXCEPT ![m] = vehicle]
  /\ GoTo(m, IF group = "engine" THEN "seed" ELSE "store")
  /\ UNCHANGED vehicle /\ HandlerFrame

\* Where resolve ends when the id is cached, and where it starts when it is not.
Resolve(m) ==
  GoTo(m, IF known[m] = NoMember THEN "register"
          ELSE IF group = "engine" THEN "seed" ELSE "store")

\* The start of a handler: with nothing relevant in the batch it returns, and
\* so it does not even look up the vehicle.
Begin(m, relevant) ==
  /\ pc[m] = "handler"
  /\ IF relevant = {} THEN GoTo(m, "resolve") ELSE Resolve(m)
  /\ UNCHANGED vehicleVars /\ HandlerFrame

ForgetVehicle(m) == known' = [known EXCEPT ![m] = NoMember]

=============================================================================
