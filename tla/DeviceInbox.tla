----------------------------- MODULE DeviceInbox -----------------------------
(***************************************************************************)
(* What ingest promises a device: the store it hands its records to loses  *)
(* none.  A record is taken, stored, and only then deleted by the device;  *)
(* storing it again changes nothing.                                       *)
(***************************************************************************)
EXTENDS Naturals

CONSTANT MaxRecords  \* bound: records the device takes

VARIABLES
  taken,   \* records taken so far, 1 .. taken
  kept,    \* records in the device's flash memory
  stored   \* records in the log

inboxVars == <<taken, kept, stored>>

InboxInit == taken = 0 /\ kept = {} /\ stored = {}

Take ==
  /\ taken < MaxRecords
  /\ taken' = taken + 1
  /\ kept' = kept \cup {taken + 1}
  /\ UNCHANGED stored

Store ==
  /\ \E S \in SUBSET kept : stored' = stored \cup S
  /\ UNCHANGED <<taken, kept>>

Delete ==
  /\ \E S \in SUBSET (kept \cap stored) : kept' = kept \ S
  /\ UNCHANGED <<taken, stored>>

InboxSpec == InboxInit /\ [][Take \/ Store \/ Delete]_inboxVars

=============================================================================
