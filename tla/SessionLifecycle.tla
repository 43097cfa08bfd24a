-------------------------- MODULE SessionLifecycle --------------------------
(***************************************************************************)
(* What SessionStateMachine promises: a Session has one status and at most *)
(* one owning Run; a Run begins only from a resting status, moves along    *)
(* the legal transitions only, and loses the Session with the terminal     *)
(* status it commits.                                                      *)
(***************************************************************************)
CONSTANTS Runtimes, Runs, None

VARIABLES status, owner

vars == <<status, owner>>

ActiveStatuses == {"preparing", "streaming", "awaiting_approval", "executing_tool"}

TerminalStatuses == {"completed", "truncated", "cancelled", "budget-exceeded", "failed"}

ResetStatuses == TerminalStatuses \union {"idle", "interrupted"}

Statuses == ActiveStatuses \union ResetStatuses

\* Every active status can be abandoned; only streaming ends well.
LegalNext(s) ==
    CASE s = "idle" -> {"preparing"}
      [] s = "preparing" -> {"streaming", "cancelled", "budget-exceeded", "failed"}
      [] s = "streaming" -> {"awaiting_approval", "executing_tool"} \union TerminalStatuses
      [] s = "awaiting_approval" ->
            {"streaming", "executing_tool", "cancelled", "budget-exceeded", "failed"}
      [] s = "executing_tool" -> {"streaming", "cancelled", "budget-exceeded", "failed"}
      [] OTHER -> {}

Init ==
    /\ status \in [Runtimes -> ResetStatuses]
    /\ owner = [rt \in Runtimes |-> None]

BeginRun(rt, r) ==
    /\ status[rt] \in ResetStatuses
    /\ status' = [status EXCEPT ![rt] = "preparing"]
    /\ owner' = [owner EXCEPT ![rt] = r]

\* transitionTo: only the owning Run calls it, and a terminal status frees
\* the Session.
TransitionTo(rt, s) ==
    /\ owner[rt] # None
    /\ s \in LegalNext(status[rt])
    /\ status' = [status EXCEPT ![rt] = s]
    /\ owner' = IF s \in TerminalStatuses THEN [owner EXCEPT ![rt] = None] ELSE owner

Next ==
    \E rt \in Runtimes :
        \/ \E r \in Runs : BeginRun(rt, r)
        \/ \E s \in Statuses : TransitionTo(rt, s)

Spec == Init /\ [][Next]_vars

TypeOK ==
    /\ status \in [Runtimes -> Statuses]
    /\ owner \in [Runtimes -> Runs \union {None}]

\* A Session is active exactly while some Run owns it, so a Session never
\* stays "in use" after its Run is gone and never rests under a live Run
\* (session-state-machine.ts #commit).
OwnedWhileActive == \A rt \in Runtimes : owner[rt] # None <=> status[rt] \in ActiveStatuses
=============================================================================
