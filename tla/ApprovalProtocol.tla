-------------------------- MODULE ApprovalProtocol --------------------------
(***************************************************************************)
(* What a one-time approval promises, as approval-state-machine.ts states  *)
(* it: an open request moves once, to a verdict or to an end without one;  *)
(* only an approved request can be consumed, and once. The workflows keep  *)
(* their own records and assign the status directly, so nothing in the     *)
(* running code enforces this table: it is the specification they must     *)
(* implement. A slot is one place that holds at most one request at a      *)
(* time, and is opened again only when its last request has ended.         *)
(***************************************************************************)
CONSTANT Slots

VARIABLE request

OpenStatuses == {"pending", "approved"}

ClosedStatuses == {"denied", "cancelled", "expired", "invalidated", "consumed"}

LegalMoves(s) ==
    CASE s = "pending" -> {"approved", "denied", "cancelled", "expired", "invalidated"}
      [] s = "approved" -> {"cancelled", "expired", "invalidated", "consumed"}
      [] OTHER -> {}

Init == request = [s \in Slots |-> "none"]

\* One status change of one request, or a new request in a free slot.
Move(old, new) ==
    \/ new \in LegalMoves(old)
    \/ old \notin OpenStatuses /\ new = "pending"

\* Disposal closes every open request at once, so slots move together.
Next ==
    /\ request' \in [Slots -> OpenStatuses \union ClosedStatuses \union {"none"}]
    /\ \A s \in Slots : request'[s] = request[s] \/ Move(request[s], request'[s])

Spec == Init /\ [][Next]_request
=============================================================================
