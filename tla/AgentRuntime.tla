---------------------------- MODULE AgentRuntime ----------------------------
(***************************************************************************)
(* One Run of the agent, from AgentRuntime.run to its terminal status: the *)
(* model turns and their recovery, the Tool loop, and the one-time         *)
(* approval a Tool with a side effect waits for. Between two actions the   *)
(* code either awaits something or has just notified the Host, so the user *)
(* (Cancel, Decide), the clock and the disposal of the approval router may *)
(* interleave exactly there. A Run is identified by its AbortSignal.       *)
(***************************************************************************)
EXTENDS Naturals

CONSTANTS Runtimes, Runs, RuntimeOf, Calls, Kind, MaxToolSteps, RepetitionThreshold,
          MaxRetries, None

ApprovalKinds == {"file", "command", "mcp"}

Kinds == ApprovalKinds \union {"unknown", "read", "network"}

ASSUME RuntimeOfType == RuntimeOf \in [Runs -> Runtimes]
ASSUME KindType == Kind \in [Calls -> Kinds]
ASSUME LimitsType ==
    /\ MaxToolSteps \in Nat \ {0}
    /\ RepetitionThreshold \in Nat \ {0}
    /\ MaxRetries \in Nat
ASSUME NoneIsFresh == None \notin Runs /\ None \notin Calls

VARIABLES
    status,     \* per Runtime: the Session status
    owner,      \* per Runtime: the Run that owns the Session
    pc,         \* per Run: where its control is
    outcome,    \* per Run: how it ended
    aborted,    \* per Run: whether its AbortSignal is aborted
    budget,     \* per Run: what the Token budget has reported
    turn,       \* per Run: the model turn in progress
    loop,       \* per Run: the Tool loop's locals
    approval    \* per Run: its latest approval record

vars == <<status, owner, pc, outcome, aborted, budget, turn, loop, approval>>

Session == INSTANCE SessionLifecycle
Approvals == INSTANCE ApprovalProtocol
                 WITH Slots <- Runs, request <- [r \in Runs |-> approval[r].status]

FreshTurn == [emitted |-> FALSE, text |-> FALSE, retries |-> 0, recovering |-> FALSE]

FreshLoop == [tools |-> FALSE, steps |-> 0, call |-> None, last |-> None, count |-> 0]

\* effects and granted are history: the side effects begun under this
\* approval, and whether the user's approval of it was accepted.
FreshApproval == [status |-> "none", listed |-> FALSE, reply |-> "none", due |-> FALSE,
                  granted |-> FALSE, effects |-> 0]

Init ==
    /\ status \in [Runtimes -> Session!ResetStatuses]
    /\ owner = [rt \in Runtimes |-> None]
    /\ pc = [r \in Runs |-> "idle"]
    /\ outcome = [r \in Runs |-> "none"]
    /\ aborted = [r \in Runs |-> FALSE]
    /\ budget = [r \in Runs |-> "none"]
    /\ turn = [r \in Runs |-> FreshTurn]
    /\ loop = [r \in Runs |-> FreshLoop]
    /\ approval = [r \in Runs |-> FreshApproval]

-----------------------------------------------------------------------------
\* Steps shared by the actions.

Goto(r, from, to) == pc[r] = from /\ pc' = [pc EXCEPT ![r] = to]

\* SessionStateMachine.#commit: a terminal status lets go of the Session.
Commit(r, s) ==
    /\ status' = [status EXCEPT ![RuntimeOf[r]] = s]
    /\ owner' = IF s \in Session!TerminalStatuses
                THEN [owner EXCEPT ![RuntimeOf[r]] = None]
                ELSE owner

\* The approval record. register: a new pending request, found by its id.
Requested == [FreshApproval EXCEPT !.status = "pending", !.listed = TRUE]

\* Mutant: the timer closes the request but forgets whoever waits for it.
ExpiredSilently(a) == [a EXCEPT !.status = "expired"]

Expired(a) == [a EXCEPT !.status = "expired", !.reply = "rejected"]

\* requestDecision: the request waits, unless its time is already over.
Awaited(a) == IF a.due THEN [Expired(a) EXCEPT !.listed = FALSE]
                       ELSE [a EXCEPT !.reply = "waiting"]

\* decide: the user's answer settles the wait, unless it comes too late.
Answered(a, d) == IF a.due THEN Expired(a)
                           ELSE [a EXCEPT !.reply = d, !.granted = (d = "approved")]

\* requestDecision, continued: the verdict; only an approval stays listed.
Approved(a) == [a EXCEPT !.status = "approved"]

\* Mutant: a denied request can still be found by its id.
DeniedKept(a) == [a EXCEPT !.status = "denied"]

Denied(a) == [a EXCEPT !.status = "denied", !.listed = FALSE]

Released(a) == [a EXCEPT !.listed = FALSE]

\* Mutant: the request is closed, but whoever waits for it is not told.
InvalidatedSilently(a) ==
    [a EXCEPT !.status = IF @ \in Approvals!OpenStatuses THEN "invalidated" ELSE @,
              !.listed = FALSE]

\* invalidate: an open request ends, whoever waits for the decision is
\* rejected, and the record can no longer be found by its id.
Invalidated(a) ==
    [a EXCEPT !.status = IF @ \in Approvals!OpenStatuses THEN "invalidated" ELSE @,
              !.reply = IF @ = "waiting" THEN "rejected" ELSE @,
              !.listed = FALSE]

\* Mutant: the outcome overwrites whatever closed the record before.
FinishedAnyway(a, s) == [a EXCEPT !.status = s, !.listed = FALSE]

\* finish: closes the record unless something closed it first.
Finished(a, s) ==
    [a EXCEPT !.status = IF @ \in Approvals!OpenStatuses THEN s ELSE @, !.listed = FALSE]

EffectBegun(a) == [a EXCEPT !.effects = @ + 1]

ApprovalBecomes(r, a) == approval' = [approval EXCEPT ![r] = a]

\* The Run returns or throws: one terminal status, its approval invalidated
\* on the way out, its locals gone.
End(r, o) ==
    /\ pc' = [pc EXCEPT ![r] = "ended"]
    /\ outcome' = [outcome EXCEPT ![r] = o]
    /\ Commit(r, o)
    /\ turn' = [turn EXCEPT ![r] = FreshTurn]
    /\ loop' = [loop EXCEPT ![r] = FreshLoop]
    /\ ApprovalBecomes(r, Invalidated(approval[r]))
    /\ UNCHANGED <<aborted, budget>>

\* RunTokenBudgetGuard: one warning at most, then the limit.
Reports(b) == IF b = "none" THEN {"none", "warned", "exceeded"} ELSE {"warned", "exceeded"}

\* Mutant: the limit is reported and the Run goes on.
ObserveOnly(r, from, to) ==
    /\ \E b \in Reports(budget[r]) : budget' = [budget EXCEPT ![r] = b]
    /\ Goto(r, from, to)

\* One observation of the budget; beyond the limit it throws instead of
\* letting the Run reach the control state `to`.
Observe(r, from, to) ==
    \E b \in Reports(budget[r]) :
        /\ budget' = [budget EXCEPT ![r] = b]
        /\ Goto(r, from, IF b = "exceeded" THEN "unwinding" ELSE to)

-----------------------------------------------------------------------------
\* The Run begins and loads what the model will see.

Begin(r) ==
    /\ Goto(r, "idle", "begun")
    /\ status[RuntimeOf[r]] \in Session!ResetStatuses
    /\ status' = [status EXCEPT ![RuntimeOf[r]] = "preparing"]
    /\ owner' = [owner EXCEPT ![RuntimeOf[r]] = r]
    /\ UNCHANGED <<outcome, aborted, budget, turn, loop, approval>>

\* Mutant: the catch does not ask who owns the Session.
RefuseAndFail(r) ==
    /\ Goto(r, "idle", "ended")
    /\ status[RuntimeOf[r]] \notin Session!ResetStatuses
    /\ outcome' = [outcome EXCEPT ![r] = "refused"]
    /\ Commit(r, "failed")
    /\ UNCHANGED <<aborted, budget, turn, loop, approval>>

\* The Session is in use: the second Run is rejected and must not touch it.
Refuse(r) ==
    /\ Goto(r, "idle", "ended")
    /\ status[RuntimeOf[r]] \notin Session!ResetStatuses
    /\ outcome' = [outcome EXCEPT ![r] = "refused"]
    /\ UNCHANGED <<status, owner, aborted, budget, turn, loop, approval>>

LoadHistory(r) ==
    /\ ~aborted[r]
    /\ Goto(r, "begun", "request")
    /\ Commit(r, "streaming")
    /\ \E tools \in BOOLEAN : loop' = [loop EXCEPT ![r] = [FreshLoop EXCEPT !.tools = tools]]
    /\ UNCHANGED <<outcome, aborted, budget, turn, approval>>

-----------------------------------------------------------------------------
\* A model turn.

Request(r) ==
    /\ ~aborted[r]
    /\ Observe(r, "request", "streaming")
    /\ UNCHANGED <<status, owner, outcome, aborted, turn, loop, approval>>

\* Text, reasoning or usage arrives.
Delta(r) ==
    /\ ~aborted[r]
    /\ Observe(r, "streaming", "streaming")
    /\ \E text \in {turn[r].text, TRUE} :
           turn' = [turn EXCEPT ![r] = [@ EXCEPT !.emitted = TRUE, !.text = text]]
    /\ UNCHANGED <<status, owner, outcome, aborted, loop, approval>>

\* ToolRepetitionDetector: how often in a row this call has now been made.
Repetition(r, c) == IF loop[r].last = c THEN loop[r].count + 1 ELSE 1

CallAllowed(r, c) ==
    /\ loop[r].tools
    /\ loop[r].call = None
    /\ loop[r].steps < MaxToolSteps
    /\ Repetition(r, c) < RepetitionThreshold

AcceptCall(r, c) ==
    /\ ~aborted[r]
    /\ CallAllowed(r, c)
    /\ Observe(r, "streaming", "streaming")
    /\ turn' = [turn EXCEPT ![r] = [@ EXCEPT !.emitted = TRUE]]
    /\ loop' = [loop EXCEPT ![r] =
                   [@ EXCEPT !.call = c, !.last = c, !.count = Repetition(r, c)]]
    /\ UNCHANGED <<status, owner, outcome, aborted, approval>>

RejectCall(r, c) ==
    /\ ~aborted[r]
    /\ ~CallAllowed(r, c)
    /\ Goto(r, "streaming", "unwinding")
    /\ UNCHANGED <<status, owner, outcome, aborted, budget, turn, loop, approval>>

Retried(t) == [t EXCEPT !.retries = @ + 1]

\* Mutant: the retry does not look at the signal.
RetryDeaf(r) ==
    /\ pc[r] = "streaming"
    /\ ~turn[r].emitted
    /\ turn[r].retries < MaxRetries
    /\ turn' = [turn EXCEPT ![r] = Retried(@)]
    /\ UNCHANGED <<status, owner, pc, outcome, aborted, budget, loop, approval>>

\* RetryingModelGateway: again, while nothing of the turn has been shown.
RetryProvider(r) ==
    /\ ~aborted[r]
    /\ pc[r] = "streaming"
    /\ ~turn[r].emitted
    /\ turn[r].retries < MaxRetries
    /\ turn' = [turn EXCEPT ![r] = Retried(@)]
    /\ UNCHANGED <<status, owner, pc, outcome, aborted, budget, loop, approval>>

\* The context overflowed: the turn is made once more with a pruned history.
RecoverOverflow(r) ==
    /\ ~aborted[r]
    /\ ~turn[r].emitted
    /\ ~turn[r].recovering
    /\ Goto(r, "streaming", "request")
    /\ turn' = [turn EXCEPT ![r] = [FreshTurn EXCEPT !.recovering = TRUE]]
    /\ UNCHANGED <<status, owner, outcome, aborted, budget, loop, approval>>

\* Nothing could be pruned, or the pruned turn overflowed too.
OverflowExhausted(r) ==
    /\ ~aborted[r]
    /\ pc[r] = "streaming"
    /\ ~turn[r].emitted
    /\ End(r, "failed")

StreamBreaks(r) ==
    /\ ~aborted[r]
    /\ Goto(r, "streaming", "unwinding")
    /\ UNCHANGED <<status, owner, outcome, aborted, budget, turn, loop, approval>>

\* The error of a turn leaves the generator, which is awaited; the signal is
\* looked at once more before it counts.
Unwind(r) ==
    /\ ~aborted[r]
    /\ pc[r] = "unwinding"
    /\ End(r, IF budget[r] = "exceeded" THEN "budget-exceeded" ELSE "failed")

Truncate(r) ==
    /\ ~aborted[r]
    /\ pc[r] = "streaming"
    /\ End(r, "truncated")

Complete(r) ==
    /\ ~aborted[r]
    /\ pc[r] = "streaming"
    /\ loop[r].call = None
    /\ End(r, IF turn[r].text THEN "completed" ELSE "failed")

-----------------------------------------------------------------------------
\* A Tool step.

\* No such Tool, or no valid input: an error result, the status untouched.
UnknownCall(r) ==
    /\ ~aborted[r]
    /\ loop[r].call # None
    /\ Goto(r, "streaming", "result")
    /\ UNCHANGED <<status, owner, outcome, aborted, budget, turn, loop, approval>>

RunCall(r) ==
    /\ ~aborted[r]
    /\ loop[r].call # None
    /\ Kind[loop[r].call] # "unknown"
    /\ Goto(r, "streaming", "running")
    /\ Commit(r, "executing_tool")
    /\ UNCHANGED <<outcome, aborted, budget, turn, loop, approval>>

\* BasicApprovalPolicy: allow, deny, or require approval.
ApplyPolicy(r) ==
    LET kind == Kind[loop[r].call]
    IN  /\ ~aborted[r]
        /\ Goto(r, "running", CASE kind = "read" -> "executing"
                                [] kind = "network" -> "result"
                                [] OTHER -> "preparing")
        /\ UNCHANGED <<status, owner, outcome, aborted, budget, turn, loop, approval>>

Prepare(r) ==
    /\ ~aborted[r]
    /\ \/ Goto(r, "preparing", "creating")
       \/ Goto(r, "preparing", "result")
    /\ UNCHANGED <<status, owner, outcome, aborted, budget, turn, loop, approval>>

ExecuteSettles(r) ==
    /\ ~aborted[r]
    /\ Goto(r, "executing", "result")
    /\ UNCHANGED <<status, owner, outcome, aborted, budget, turn, loop, approval>>

Stepped(l) == [l EXCEPT !.steps = @ + 1, !.call = None]

\* The result is shown and the loop goes round.
NextTurn(r) ==
    /\ ~aborted[r]
    /\ Observe(r, "result", "request")
    /\ IF budget'[r] = "exceeded"
       THEN UNCHANGED <<status, owner, turn, loop>>
       ELSE /\ Commit(r, "streaming")
            /\ turn' = [turn EXCEPT ![r] = FreshTurn]
            /\ loop' = [loop EXCEPT ![r] = Stepped(@)]
    /\ UNCHANGED <<outcome, aborted, approval>>

-----------------------------------------------------------------------------
\* The approval of a Tool step.

\* Mutant: the approval is announced straight from executing_tool.
CreateWhileExecuting(r) ==
    /\ ~aborted[r]
    /\ Goto(r, "creating", "opened")
    /\ ApprovalBecomes(r, Requested)
    /\ UNCHANGED <<status, owner, outcome, aborted, budget, turn, loop>>

CreateApproval(r) ==
    /\ ~aborted[r]
    /\ Goto(r, "creating", "opened")
    /\ ApprovalBecomes(r, Requested)
    /\ Commit(r, "streaming")
    /\ UNCHANGED <<outcome, aborted, budget, turn, loop>>

Announce(r) ==
    /\ ~aborted[r]
    /\ Goto(r, "opened", "announced")
    /\ Commit(r, "awaiting_approval")
    /\ UNCHANGED <<outcome, aborted, budget, turn, loop, approval>>

RequestDecision(r) ==
    /\ ~aborted[r]
    /\ approval[r].status = "pending"
    /\ Goto(r, "announced", "deciding")
    /\ ApprovalBecomes(r, Awaited(approval[r]))
    /\ UNCHANGED <<status, owner, outcome, aborted, budget, turn, loop>>

RequestRefused(r) ==
    /\ ~aborted[r]
    /\ pc[r] = "announced"
    /\ approval[r].status # "pending"
    /\ End(r, "failed")

\* Mutant: any decision counts as an approval.
DecidedSomehow(r) ==
    /\ approval[r].reply \in {"approved", "denied"}
    /\ approval[r].status = "pending"
    /\ ~aborted[r]
    /\ Goto(r, "deciding", "approved")
    /\ ApprovalBecomes(r, Approved(approval[r]))
    /\ Commit(r, "executing_tool")
    /\ UNCHANGED <<outcome, aborted, budget, turn, loop>>

DecidedApproved(r) ==
    /\ approval[r].reply = "approved"
    /\ approval[r].status = "pending"
    /\ ~aborted[r]
    /\ Goto(r, "deciding", "approved")
    /\ ApprovalBecomes(r, Approved(approval[r]))
    /\ Commit(r, "executing_tool")
    /\ UNCHANGED <<outcome, aborted, budget, turn, loop>>

DecidedDenied(r) ==
    /\ approval[r].reply = "denied"
    /\ approval[r].status = "pending"
    /\ ~aborted[r]
    /\ Goto(r, "deciding", "result")
    /\ ApprovalBecomes(r, Denied(approval[r]))
    /\ Commit(r, "streaming")
    /\ UNCHANGED <<outcome, aborted, budget, turn, loop>>

DecidedExpired(r) ==
    /\ approval[r].status = "expired"
    /\ approval[r].reply # "waiting"
    /\ ~aborted[r]
    /\ Goto(r, "deciding", "result")
    /\ ApprovalBecomes(r, Released(approval[r]))
    /\ Commit(r, "streaming")
    /\ UNCHANGED <<outcome, aborted, budget, turn, loop>>

\* The request ended with an error of its own: the router's abort listener
\* or its disposal closed it. That error is not the signal's reason, so the
\* Run fails even when it was cancelled.
DecisionRejected(r) ==
    /\ pc[r] = "deciding"
    /\ approval[r].status = "invalidated"
    /\ approval[r].reply # "waiting"
    /\ End(r, "failed")

-----------------------------------------------------------------------------
\* The one attempt to consume an approval.

\* Closed in the meantime by a disposal.
ConsumeUnavailable(r) ==
    /\ ~aborted[r]
    /\ pc[r] = "approved"
    /\ approval[r].status # "approved"
    /\ End(r, "failed")

ConsumeExpired(r) ==
    /\ ~aborted[r]
    /\ approval[r].status = "approved"
    /\ approval[r].due
    /\ Goto(r, "approved", "result")
    /\ ApprovalBecomes(r, Finished(approval[r], "expired"))
    /\ UNCHANGED <<status, owner, outcome, aborted, budget, turn, loop>>

\* A command is bound to its directory again, a file plan is checked again.
BeginConsume(r) ==
    /\ ~aborted[r]
    /\ approval[r].status = "approved"
    /\ ~approval[r].due
    /\ Goto(r, "approved", "consuming")
    /\ Kind[loop[r].call] \in {"file", "command"}
    /\ UNCHANGED <<status, owner, outcome, aborted, budget, turn, loop, approval>>

\* Trust, the scope, the revision or the MCP generation has changed.
ConsumeConflict(r) ==
    /\ ~aborted[r]
    /\ \/ Goto(r, "approved", "result") /\ approval[r].status = "approved" /\ ~approval[r].due
       \/ Goto(r, "consuming", "result")
    /\ ApprovalBecomes(r, Finished(approval[r], "invalidated"))
    /\ UNCHANGED <<status, owner, outcome, aborted, budget, turn, loop>>

\* Consumed first, then run: an MCP Tool at once, a command after its directory
\* is bound. The consumption is shown before the Tool is called.
ConsumeExecutable(r) ==
    /\ ~aborted[r]
    /\ approval[r].status = "approved"
    /\ \/ Goto(r, "approved", "consumed") /\ Kind[loop[r].call] = "mcp" /\ ~approval[r].due
       \/ Goto(r, "consuming", "consumed") /\ Kind[loop[r].call] = "command"
    /\ ApprovalBecomes(r, Finished(approval[r], "consumed"))
    /\ UNCHANGED <<status, owner, outcome, aborted, budget, turn, loop>>

BeginExecution(r) ==
    /\ ~aborted[r]
    /\ Goto(r, "consumed", "executing")
    /\ ApprovalBecomes(r, EffectBegun(approval[r]))
    /\ UNCHANGED <<status, owner, outcome, aborted, budget, turn, loop>>

\* A command's record was closed while its directory was bound.
ConsumeLate(r) ==
    /\ ~aborted[r]
    /\ pc[r] = "consuming"
    /\ Kind[loop[r].call] = "command"
    /\ approval[r].status # "approved"
    /\ End(r, "failed")

\* A file plan is submitted to the editor and cannot be taken back.
SubmitMutation(r) ==
    /\ ~aborted[r]
    /\ Goto(r, "consuming", "applying")
    /\ Kind[loop[r].call] = "file"
    /\ ApprovalBecomes(r, EffectBegun(approval[r]))
    /\ UNCHANGED <<status, owner, outcome, aborted, budget, turn, loop>>

MutationApplied(r) ==
    /\ ~aborted[r]
    /\ Goto(r, "applying", "result")
    /\ ApprovalBecomes(r, Finished(approval[r], "consumed"))
    /\ UNCHANGED <<status, owner, outcome, aborted, budget, turn, loop>>

-----------------------------------------------------------------------------
\* Ends that are not part of the plan.

\* Where the code looks at the signal, or waits for something that does.
Interruptible == {"begun", "request", "streaming", "unwinding", "running", "preparing",
                  "creating", "opened", "announced", "approved", "consuming", "consumed",
                  "applying", "executing", "result"}

StopCancelled(r) ==
    /\ aborted[r]
    /\ \/ pc[r] \in Interruptible
       \/ pc[r] = "deciding" /\ approval[r].status = "expired" /\ approval[r].reply # "waiting"
    /\ End(r, "cancelled")

\* The history, the approval's scope, the checkpoint or the editor throws an
\* error of its own, which wins over a cancellation.
HostFails(r) ==
    /\ pc[r] \in {"begun", "creating", "consuming", "applying"}
    /\ End(r, "failed")

-----------------------------------------------------------------------------
\* The user, the clock and the Host.

\* The router's abort listener runs before any other and closes the request.
Cancel(r) ==
    /\ pc[r] # "ended"
    /\ ~aborted[r]
    /\ aborted' = [aborted EXCEPT ![r] = TRUE]
    /\ ApprovalBecomes(r, IF approval[r].listed THEN Invalidated(approval[r]) ELSE approval[r])
    /\ UNCHANGED <<status, owner, pc, outcome, budget, turn, loop>>

\* Before the request waits and after it is settled, a decision is dropped.
Decide(r, d) ==
    /\ approval[r].listed
    /\ approval[r].status = "pending"
    /\ approval[r].reply = "waiting"
    /\ ApprovalBecomes(r, Answered(approval[r], d))
    /\ UNCHANGED <<status, owner, pc, outcome, aborted, budget, turn, loop>>

TimePasses(r) ==
    /\ approval[r].status \in Approvals!OpenStatuses
    /\ ~approval[r].due
    /\ ApprovalBecomes(r, [approval[r] EXCEPT !.due = TRUE])
    /\ UNCHANGED <<status, owner, pc, outcome, aborted, budget, turn, loop>>

TimerFires(r) ==
    /\ approval[r].due
    /\ approval[r].reply = "waiting"
    /\ approval[r].status = "pending"
    /\ ApprovalBecomes(r, Expired(approval[r]))
    /\ UNCHANGED <<status, owner, pc, outcome, aborted, budget, turn, loop>>

DisposeRouter ==
    /\ \E r \in Runs : approval[r].listed
    /\ approval' = [r \in Runs |-> IF approval[r].listed THEN Invalidated(approval[r])
                                                         ELSE approval[r]]
    /\ UNCHANGED <<status, owner, pc, outcome, aborted, budget, turn, loop>>

AllEnded == (\A r \in Runs : pc[r] = "ended") /\ UNCHANGED vars

-----------------------------------------------------------------------------
TurnStep(r) ==
    \/ Begin(r) \/ Refuse(r) \/ LoadHistory(r)
    \/ Request(r) \/ Delta(r)
    \/ \E c \in Calls : AcceptCall(r, c) \/ RejectCall(r, c)
    \/ RetryProvider(r) \/ RecoverOverflow(r) \/ OverflowExhausted(r)
    \/ StreamBreaks(r) \/ Unwind(r) \/ Truncate(r) \/ Complete(r)

ToolStep(r) ==
    \/ UnknownCall(r) \/ RunCall(r) \/ ApplyPolicy(r) \/ Prepare(r)
    \/ ExecuteSettles(r) \/ NextTurn(r)

ApprovalStep(r) ==
    \/ CreateApproval(r) \/ Announce(r) \/ RequestDecision(r) \/ RequestRefused(r)
    \/ DecidedApproved(r) \/ DecidedDenied(r) \/ DecidedExpired(r) \/ DecisionRejected(r)
    \/ ConsumeUnavailable(r) \/ ConsumeExpired(r) \/ BeginConsume(r) \/ ConsumeConflict(r)
    \/ ConsumeExecutable(r) \/ BeginExecution(r) \/ ConsumeLate(r)
    \/ SubmitMutation(r) \/ MutationApplied(r)

RunStep(r) == TurnStep(r) \/ ToolStep(r) \/ ApprovalStep(r) \/ StopCancelled(r) \/ HostFails(r)

UserStep(r) == Cancel(r) \/ \E d \in {"approved", "denied"} : Decide(r, d)

Next ==
    \/ \E r \in Runs : RunStep(r) \/ UserStep(r) \/ TimePasses(r) \/ TimerFires(r)
    \/ DisposeRouter
    \/ AllEnded

Spec == Init /\ [][Next]_vars

\* A Run that can move moves, time passes and timers fire. The user owes nothing.
FairSpec ==
    /\ Spec
    /\ \A r \in Runs : WF_vars(RunStep(r)) /\ WF_vars(TimePasses(r)) /\ WF_vars(TimerFires(r))

-----------------------------------------------------------------------------
PCs == Interruptible \union {"idle", "deciding", "ended"}

Outcomes == Session!TerminalStatuses \union {"none", "refused"}

ApprovalStatuses == Approvals!OpenStatuses \union Approvals!ClosedStatuses \union {"none"}

Replies == {"none", "waiting", "approved", "denied", "rejected"}

ApprovalRecords ==
    [status : ApprovalStatuses,
     listed : BOOLEAN,
     reply : Replies,
     due : BOOLEAN,
     granted : BOOLEAN,
     effects : Nat]

Turns == [emitted : BOOLEAN, text : BOOLEAN, retries : Nat, recovering : BOOLEAN]

Loops == [tools : BOOLEAN, steps : Nat, call : Calls \union {None},
          last : Calls \union {None}, count : Nat]

\* Every variable stays within its type.
TypeOK ==
    /\ status \in [Runtimes -> Session!Statuses]
    /\ owner \in [Runtimes -> Runs \union {None}]
    /\ pc \in [Runs -> PCs]
    /\ outcome \in [Runs -> Outcomes]
    /\ aborted \in [Runs -> BOOLEAN]
    /\ budget \in [Runs -> {"none", "warned", "exceeded"}]
    /\ turn \in [Runs -> Turns]
    /\ loop \in [Runs -> Loops]
    /\ approval \in [Runs -> ApprovalRecords]

\* The Session belongs to the one Run that is between its beginRun and its
\* terminal status. A second Run on the same Runtime neither takes it over nor
\* ends it when it is refused (agent-runtime.ts ownsRun check in the catch).
OneOwner ==
    \A r \in Runs : (owner[RuntimeOf[r]] = r) <=> (pc[r] \notin {"idle", "ended"})

\* A side effect is begun at most once per approval, only for a Tool that
\* needs one, only when the user's approval was accepted in time, and never
\* under a request that was denied or had expired (security.md:209: only
\* approved can become consumed, for one attempt).
EffectNeedsGrant ==
    \A r \in Runs :
        approval[r].effects > 0 =>
            /\ approval[r].effects = 1
            /\ approval[r].granted
            /\ approval[r].status \in {"approved", "consumed", "invalidated"}

\* A decision that is being waited for can still arrive: the request is
\* pending, the router finds it by its id, and its Run is not aborted. No
\* disposal, timer or cancellation leaves a Run waiting for nobody.
AwaitedIsDecidable ==
    \A r \in Runs :
        approval[r].reply = "waiting" =>
            /\ pc[r] = "deciding"
            /\ approval[r].status = "pending"
            /\ approval[r].listed
            /\ ~aborted[r]

\* Once its Tool step is over, by whatever path, an approval is closed and no
\* longer listed: a late click cannot reach it and the next Tool step of the
\* Run cannot find it (the finally blocks of the router and of the Tool call).
NoApprovalOutlivesItsStep ==
    \A r \in Runs :
        approval[r].listed \/ approval[r].status \in Approvals!OpenStatuses =>
            pc[r] \in {"opened", "announced", "deciding", "approved", "consuming", "applying"}

\* A Run that reported an exceeded budget makes no further request and no
\* further Tool step, and ends as budget-exceeded, or as cancelled when the
\* cancellation wins (session-and-runtime.md:235-245).
ExceededStopsRun ==
    \A r \in Runs :
        budget[r] = "exceeded" =>
            \/ pc[r] = "unwinding"
            \/ pc[r] = "ended" /\ outcome[r] \in {"budget-exceeded", "cancelled"}

\* After Cancel a begun Run makes no progress of any kind: no retry, no
\* recovery, no Tool step, no side effect. The only step left to it ends it
\* (context-and-session.md:39).
CancelStopsRun ==
    [][\A r \in Runs :
          aborted[r] /\ pc[r] \notin {"idle", "ended"} =>
              /\ pc'[r] \in {pc[r], "ended"}
              /\ pc'[r] = pc[r] => turn'[r] = turn[r] /\ loop'[r] = loop[r]
              /\ approval'[r].effects = approval[r].effects]_vars

\* Every status the Runtime commits is a legal transition made by the Run
\* that owns the Session: the throw in SessionStateMachine.transitionTo is
\* unreachable from AgentRuntime.
LegalSession == Session!Spec

\* The workflows' own records follow the approval state machine of the core.
LegalApprovals == Approvals!Spec

\* Every Run that is started ends, whatever the user does or does not do: an
\* unanswered approval expires, recovery, retries and Tool steps are bounded.
RunSettles == \A r \in Runs : pc[r] = "begun" ~> pc[r] = "ended"

\* A Run cancelled while it waits for a decision ends as cancelled
\* (session-and-runtime.md:278, agent-runtime.approval.test.ts:477).
CancelWhileAwaitingCancels ==
    [][\A r \in Runs :
          pc[r] = "deciding" /\ aborted[r] /\ pc'[r] = "ended" => outcome'[r] = "cancelled"]_vars

-----------------------------------------------------------------------------
\* The inductive invariant behind the safety properties.

\* The status the code relies on at each control state.
StatusesAt(p) ==
    CASE p = "begun" -> {"preparing"}
      [] p \in {"request", "streaming", "opened"} -> {"streaming"}
      [] p \in {"announced", "deciding"} -> {"awaiting_approval"}
      [] p \in {"unwinding", "result"} -> {"streaming", "executing_tool"}
      [] OTHER -> {"executing_tool"}

StatusFitsPhase ==
    \A r \in Runs : pc[r] \notin {"idle", "ended"} => status[RuntimeOf[r]] \in StatusesAt(pc[r])

\* What a Run may assume of its approval record at each control state.
ApprovalFits(p, a) ==
    CASE p \in {"opened", "announced"} ->
            a.status \in {"pending", "invalidated"} /\ a.reply = "none" /\ a.effects = 0
      [] p = "deciding" ->
            /\ a.status \in {"pending", "expired", "invalidated"}
            /\ a.status = "pending" => a.reply \in {"waiting", "approved", "denied"}
            /\ a.reply = "waiting" => a.status = "pending"
            /\ a.reply = "approved" => a.granted
            /\ a.effects = 0
      [] p \in {"approved", "consuming", "applying"} ->
            /\ a.status \in {"approved", "invalidated"}
            /\ a.granted
            /\ a.reply = "approved"
            /\ a.effects = IF p = "applying" THEN 1 ELSE 0
      [] p = "consumed" ->
            a.status = "consumed" /\ ~a.listed /\ a.granted /\ a.reply = "approved" /\ a.effects = 0
      [] OTHER ->
            /\ a.status \notin Approvals!OpenStatuses
            /\ ~a.listed
            /\ a.reply # "waiting"
            /\ a.effects # 0 => /\ a.effects = 1
                                /\ a.granted
                                /\ a.status \in {"consumed", "invalidated"}

ApprovalFitsPhase ==
    \A r \in Runs :
        /\ ApprovalFits(pc[r], approval[r])
        /\ approval[r].status \in Approvals!OpenStatuses => approval[r].listed
        /\ approval[r].listed => ~aborted[r]

\* Control state, Session status, owner and approval record agree at every
\* step of every Run; each safety invariant above follows from it.
IInv ==
    /\ TypeOK
    /\ OneOwner
    /\ Session!OwnedWhileActive
    /\ StatusFitsPhase
    /\ ApprovalFitsPhase
    /\ ExceededStopsRun
=============================================================================
