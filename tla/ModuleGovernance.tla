------------------------- MODULE ModuleGovernance -------------------------
(***************************************************************************)
(* What the governance of processing modules promises, without the audit   *)
(* trail, the capacity limits or the error codes of the implementation:    *)
(* a module becomes a candidate, is qualified, is authorised and only then *)
(* is active, one step at a time, and a retired module never comes back.   *)
(*                                                                         *)
(* ModuleRegistry implements this module under the mapping it gives there. *)
(***************************************************************************)
CONSTANT Module          \* the identifiers a module can declare

VARIABLE status          \* the standing of each identifier

Standing ==
  {"unknown", "candidate", "qualified", "authorized", "active", "retired"}

TypeOK == status \in [Module -> Standing]

Init == status = [m \in Module |-> "unknown"]

Move(m, from, to) ==
  /\ status[m] \in from
  /\ status' = [status EXCEPT ![m] = to]

Register(m)  == Move(m, {"unknown"}, "candidate")
Qualify(m)   == Move(m, {"candidate"}, "qualified")
Authorize(m) == Move(m, {"qualified"}, "authorized")

\* An authorisation that cannot be put on record is taken back.
Revoke(m)    == Move(m, {"authorized"}, "qualified")

Activate(m)  == Move(m, {"authorized"}, "active")
Retire(m)    == Move(m, Standing \ {"unknown"}, "retired")

Next ==
  \E m \in Module :
    \/ Register(m)
    \/ Qualify(m)
    \/ Authorize(m)
    \/ Revoke(m)
    \/ Activate(m)
    \/ Retire(m)

Spec == Init /\ [][Next]_status

=============================================================================
