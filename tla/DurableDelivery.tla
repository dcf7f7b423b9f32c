-------------------------- MODULE DurableDelivery --------------------------
(***************************************************************************)
(* What the client promises about work it has written to its outbox,       *)
(* without saying how: an operation it owes to the host stays owed until   *)
(* the host has applied it, and whatever the host is able to accept is     *)
(* applied in the end.  Delivery is at least once: an operation may be     *)
(* owed again, and applied again, after it was applied.                    *)
(***************************************************************************)
CONSTANTS
  Operations,   \* everything a client may want the host to apply
  Acceptable    \* the operations the host does not reject for good

VARIABLES
  owed,         \* operations recorded on the client's disk
  applied       \* operations the host has applied at least once

vars == <<owed, applied>>

TypeOK == owed \subseteq Operations /\ applied \subseteq Operations

Init == owed = {} /\ applied = {}

\* An operation is written down, for the first time or once more.
Record(o) ==
  /\ owed' = owed \union {o}
  /\ UNCHANGED applied

\* The host applies an operation, whether the client had recorded it or not.
Apply(o) ==
  /\ o \in Acceptable
  /\ applied' = applied \union {o}
  /\ UNCHANGED owed

\* The record goes only after the operation was applied.
Discharge(o) ==
  /\ o \in applied
  /\ owed' = owed \ {o}
  /\ UNCHANGED applied

Next == \E o \in Operations : Record(o) \/ Apply(o) \/ Discharge(o)

SafeSpec == Init /\ [][Next]_vars

Fairness == \A o \in Acceptable : WF_vars(o \in owed /\ Apply(o))

Spec == SafeSpec /\ Fairness
=============================================================================
