------------------------- MODULE AgentRuntimeProofs -------------------------
(***************************************************************************)
(* Theorems about AgentRuntime for every set of Runs, Runtimes and calls   *)
(* and every limit. First the types, then the inductive invariant IInv,    *)
(* then what follows from it: the safety invariants, the refinements of    *)
(* SessionLifecycle and ApprovalProtocol, and the promise of Cancel.       *)
(***************************************************************************)
EXTENDS AgentRuntime, TLAPS

USE RuntimeOfType

-----------------------------------------------------------------------------
\* The operators on records keep their type.

\* Every step of the approval lifecycle yields a well-formed record.
LEMMA ApprovalOps ==
    ASSUME NEW a \in ApprovalRecords, NEW d \in {"approved", "denied"},
           NEW s \in Approvals!ClosedStatuses
    PROVE  /\ Requested \in ApprovalRecords
           /\ Expired(a) \in ApprovalRecords
           /\ Awaited(a) \in ApprovalRecords
           /\ Answered(a, d) \in ApprovalRecords
           /\ Approved(a) \in ApprovalRecords
           /\ Denied(a) \in ApprovalRecords
           /\ Released(a) \in ApprovalRecords
           /\ Invalidated(a) \in ApprovalRecords
           /\ Finished(a, s) \in ApprovalRecords
           /\ EffectBegun(a) \in ApprovalRecords
           /\ [a EXCEPT !.due = TRUE] \in ApprovalRecords
  <1> USE DEF ApprovalRecords, ApprovalStatuses, Replies, Approvals!OpenStatuses,
              Approvals!ClosedStatuses
  <1>1. Requested \in ApprovalRecords
    BY DEF FreshApproval, Requested
  <1>2. Expired(a) \in ApprovalRecords
    BY DEF Expired
  <1>3. Awaited(a) \in ApprovalRecords
    BY <1>2 DEF Awaited, Expired
  <1>4. [a EXCEPT !.reply = d, !.granted = (d = "approved")] \in ApprovalRecords
    OBVIOUS
  <1>5. Answered(a, d) \in ApprovalRecords
    BY <1>2, <1>4 DEF Answered
  <1>6. Approved(a) \in ApprovalRecords
    BY DEF Approved
  <1>7. Denied(a) \in ApprovalRecords
    BY DEF Denied
  <1>8. Released(a) \in ApprovalRecords
    BY DEF Released
  <1>9. Invalidated(a) \in ApprovalRecords
    BY DEF Invalidated
  <1>10. Finished(a, s) \in ApprovalRecords
    BY DEF Finished
  <1>11. EffectBegun(a) \in ApprovalRecords
    BY DEF EffectBegun
  <1>12. [a EXCEPT !.due = TRUE] \in ApprovalRecords
    OBVIOUS
  <1> QED BY <1>1, <1>2, <1>3, <1>5, <1>6, <1>7, <1>8, <1>9, <1>10, <1>11, <1>12

\* Closing a request begins and undoes no side effect.
LEMMA InvalidatedKeepsEffects ==
    ASSUME NEW a \in ApprovalRecords
    PROVE  Invalidated(a).effects = a.effects
  BY DEF Invalidated, ApprovalRecords

\* Every update of a turn yields a well-formed turn.
LEMMA TurnOps ==
    ASSUME NEW t \in Turns, NEW b \in BOOLEAN
    PROVE  /\ FreshTurn \in Turns
           /\ [t EXCEPT !.emitted = TRUE] \in Turns
           /\ [t EXCEPT !.emitted = TRUE, !.text = b] \in Turns
           /\ Retried(t) \in Turns
           /\ [FreshTurn EXCEPT !.recovering = TRUE] \in Turns
  <1>1. FreshTurn \in Turns
    BY DEF Turns, FreshTurn
  <1>2. [t EXCEPT !.emitted = TRUE] \in Turns
    BY DEF Turns
  <1>3. [t EXCEPT !.emitted = TRUE, !.text = b] \in Turns
    BY DEF Turns
  <1>4. Retried(t) \in Turns
    BY DEF Retried, Turns
  <1>5. [FreshTurn EXCEPT !.recovering = TRUE] \in Turns
    BY <1>1 DEF Turns
  <1> QED BY <1>1, <1>2, <1>3, <1>4, <1>5

\* Every update of the Tool loop's locals yields well-formed locals.
LEMMA LoopOps ==
    ASSUME NEW l \in Loops, NEW c \in Calls, NEW n \in Nat, NEW b \in BOOLEAN
    PROVE  /\ FreshLoop \in Loops
           /\ [FreshLoop EXCEPT !.tools = b] \in Loops
           /\ [l EXCEPT !.call = c, !.last = c, !.count = n] \in Loops
  <1>1. FreshLoop \in Loops
    BY DEF Loops, FreshLoop
  <1>2. [FreshLoop EXCEPT !.tools = b] \in Loops
    <2>1. \A k \in Loops : [k EXCEPT !.tools = b] \in Loops
      BY DEF Loops
    <2> QED BY <1>1, <2>1
  <1>3. [l EXCEPT !.call = c, !.last = c, !.count = n] \in Loops
    BY DEF Loops
  <1> QED BY <1>1, <1>2, <1>3

\* One more Tool step is counted and its call forgotten.
LEMMA LoopNext ==
    ASSUME NEW l \in Loops
    PROVE  Stepped(l) \in Loops
  <1>1. l.steps + 1 \in Nat
    BY DEF Loops
  <1>2. \A n \in Nat : [l EXCEPT !.steps = n, !.call = None] \in Loops
    BY DEF Loops
  <1> QED BY <1>1, <1>2 DEF Stepped

-----------------------------------------------------------------------------
\* The steps shared by the actions keep their variables' types.

LEMMA ApprovalTyped ==
    ASSUME TypeOK, NEW r \in Runs, NEW a \in ApprovalRecords, ApprovalBecomes(r, a)
    PROVE  approval' \in [Runs -> ApprovalRecords]
  BY DEF TypeOK, ApprovalBecomes

LEMMA CommitTyped ==
    ASSUME TypeOK, NEW r \in Runs, NEW s \in Session!Statuses, Commit(r, s)
    PROVE  /\ status' \in [Runtimes -> Session!Statuses]
           /\ owner' \in [Runtimes -> Runs \union {None}]
  BY DEF TypeOK, Commit

LEMMA GotoTyped ==
    ASSUME TypeOK, NEW r \in Runs, NEW p \in PCs, NEW q \in PCs, Goto(r, p, q)
    PROVE  pc' \in [Runs -> PCs]
  BY DEF TypeOK, Goto

LEMMA ObserveTyped ==
    ASSUME TypeOK, NEW r \in Runs, NEW p \in PCs, NEW q \in PCs, Observe(r, p, q)
    PROVE  /\ pc' \in [Runs -> PCs]
           /\ budget' \in [Runs -> {"none", "warned", "exceeded"}]
  <1>1. PICK b \in Reports(budget[r]) :
           /\ budget' = [budget EXCEPT ![r] = b]
           /\ Goto(r, p, IF b = "exceeded" THEN "unwinding" ELSE q)
    BY DEF Observe
  <1>2. b \in {"none", "warned", "exceeded"}
    BY DEF Reports
  <1>3. (IF b = "exceeded" THEN "unwinding" ELSE q) \in PCs
    BY DEF PCs, Interruptible
  <1> QED BY <1>1, <1>2, <1>3, GotoTyped DEF TypeOK

LEMMA EndTyped ==
    ASSUME TypeOK, NEW r \in Runs, NEW o \in Session!TerminalStatuses, End(r, o)
    PROVE  TypeOK'
  <1>1. o \in Session!Statuses /\ o \in Outcomes
    BY DEF Session!Statuses, Session!ResetStatuses, Outcomes
  <1>2. status' \in [Runtimes -> Session!Statuses] /\ owner' \in [Runtimes -> Runs \union {None}]
    BY <1>1, CommitTyped DEF End
  <1>3. Invalidated(approval[r]) \in ApprovalRecords
    BY ApprovalOps DEF TypeOK, Approvals!ClosedStatuses
  <1>4. approval' \in [Runs -> ApprovalRecords]
    BY <1>3, ApprovalTyped DEF End
  <1>5. FreshTurn \in Turns /\ FreshLoop \in Loops
    BY TurnOps, LoopOps DEF FreshTurn, FreshLoop, Turns, Loops
  <1>6. "ended" \in PCs
    BY DEF PCs
  <1>7. pc' \in [Runs -> PCs] /\ outcome' \in [Runs -> Outcomes]
    BY <1>1, <1>6 DEF End, TypeOK
  <1>8. turn' \in [Runs -> Turns] /\ loop' \in [Runs -> Loops]
    BY <1>5 DEF End, TypeOK
  <1> QED BY <1>2, <1>4, <1>7, <1>8 DEF End, TypeOK

-----------------------------------------------------------------------------
\* Type correctness.

\* A step of the model turn keeps the types.
LEMMA TurnStepTyped ==
    ASSUME TypeOK, NEW r \in Runs, TurnStep(r)
    PROVE  TypeOK'
  <1> USE DEF PCs, Interruptible
  <1> FreshTurn \in Turns
    BY DEF FreshTurn, Turns
  <1> turn[r] \in Turns /\ loop[r] \in Loops
    BY DEF TypeOK
  <1>1. CASE Begin(r)
    BY <1>1 DEF Begin, Goto, TypeOK, Session!Statuses, Session!ActiveStatuses
  <1>2. CASE Refuse(r)
    BY <1>2 DEF Refuse, Goto, TypeOK, Outcomes
  <1>3. CASE LoadHistory(r)
    <2>1. \A tools \in BOOLEAN : [FreshLoop EXCEPT !.tools = tools] \in Loops
      BY LoopOps DEF FreshLoop, Loops
    <2>2. loop' \in [Runs -> Loops]
      BY <1>3, <2>1 DEF LoadHistory, TypeOK
    <2>3. "streaming" \in Session!Statuses
      BY DEF Session!Statuses, Session!ActiveStatuses
    <2> QED BY <1>3, <2>2, <2>3, CommitTyped, GotoTyped DEF LoadHistory, TypeOK
  <1>4. CASE Request(r)
    BY <1>4, ObserveTyped DEF Request, TypeOK
  <1>5. CASE Delta(r)
    <2>1. PICK text \in {turn[r].text, TRUE} :
              turn' = [turn EXCEPT ![r] = [@ EXCEPT !.emitted = TRUE, !.text = text]]
      BY <1>5 DEF Delta
    <2>2. [turn[r] EXCEPT !.emitted = TRUE, !.text = text] \in Turns
      BY DEF Turns
    <2>3. turn' \in [Runs -> Turns]
      BY <2>1, <2>2 DEF TypeOK
    <2> QED BY <1>5, <2>3, ObserveTyped DEF Delta, TypeOK
  <1>6. ASSUME NEW c \in Calls, AcceptCall(r, c)
        PROVE  TypeOK'
    <2>1. Repetition(r, c) \in Nat
      BY DEF Repetition, Loops
    <2>2. [loop[r] EXCEPT !.call = c, !.last = c, !.count = Repetition(r, c)] \in Loops
      BY <2>1 DEF Loops
    <2>3. [turn[r] EXCEPT !.emitted = TRUE] \in Turns
      BY DEF Turns
    <2>4. turn' \in [Runs -> Turns] /\ loop' \in [Runs -> Loops]
      BY <1>6, <2>2, <2>3 DEF AcceptCall, TypeOK
    <2> QED BY <1>6, <2>4, ObserveTyped DEF AcceptCall, TypeOK
  <1>7. ASSUME NEW c \in Calls, RejectCall(r, c)
        PROVE  TypeOK'
    BY <1>7, GotoTyped DEF RejectCall, TypeOK
  <1>8. CASE RetryProvider(r)
    <2>1. Retried(turn[r]) \in Turns
      BY DEF Retried, Turns
    <2> QED BY <1>8, <2>1 DEF RetryProvider, TypeOK
  <1>9. CASE RecoverOverflow(r)
    <2>1. [FreshTurn EXCEPT !.recovering = TRUE] \in Turns
      BY DEF Turns
    <2>2. turn' \in [Runs -> Turns]
      BY <1>9, <2>1 DEF RecoverOverflow, TypeOK
    <2> QED BY <1>9, <2>2, GotoTyped DEF RecoverOverflow, TypeOK
  <1>10. CASE OverflowExhausted(r) \/ Unwind(r) \/ Truncate(r) \/ Complete(r)
    BY <1>10, EndTyped DEF OverflowExhausted, Unwind, Truncate, Complete,
                           Session!TerminalStatuses
  <1>11. CASE StreamBreaks(r)
    BY <1>11, GotoTyped DEF StreamBreaks, TypeOK
  <1> QED
    BY <1>1, <1>2, <1>3, <1>4, <1>5, <1>6, <1>7, <1>8, <1>9, <1>10, <1>11 DEF TurnStep

\* A Tool step keeps the types.
LEMMA ToolStepTyped ==
    ASSUME TypeOK, NEW r \in Runs, ToolStep(r)
    PROVE  TypeOK'
  <1> USE DEF PCs, Interruptible
  <1>s. {"streaming", "executing_tool"} \subseteq Session!Statuses
    BY DEF Session!Statuses, Session!ActiveStatuses
  <1>1. CASE UnknownCall(r)
    BY <1>1, GotoTyped DEF UnknownCall, TypeOK
  <1>2. CASE RunCall(r)
    BY <1>2, <1>s, GotoTyped, CommitTyped DEF RunCall, TypeOK
  <1>3. CASE ApplyPolicy(r)
    BY <1>3 DEF ApplyPolicy, Goto, TypeOK
  <1>4. CASE Prepare(r)
    BY <1>4, GotoTyped DEF Prepare, TypeOK
  <1>5. CASE ExecuteSettles(r)
    BY <1>5, GotoTyped DEF ExecuteSettles, TypeOK
  <1>6. CASE NextTurn(r)
    <2>1. pc' \in [Runs -> PCs] /\ budget' \in [Runs -> {"none", "warned", "exceeded"}]
      BY <1>6, ObserveTyped DEF NextTurn
    <2>2. CASE budget'[r] = "exceeded"
      BY <1>6, <2>1, <2>2 DEF NextTurn, TypeOK
    <2>3. CASE budget'[r] # "exceeded"
      <3>1. FreshTurn \in Turns
        BY DEF FreshTurn, Turns
      <3>2. Stepped(loop[r]) \in Loops
        BY LoopNext DEF TypeOK
      <3>3. turn' \in [Runs -> Turns] /\ loop' \in [Runs -> Loops]
        BY <1>6, <2>3, <3>1, <3>2 DEF NextTurn, TypeOK
      <3>4. status' \in [Runtimes -> Session!Statuses] /\ owner' \in [Runtimes -> Runs \union {None}]
        BY <1>6, <2>3, <1>s, CommitTyped DEF NextTurn
      <3> QED BY <1>6, <2>1, <3>3, <3>4 DEF NextTurn, TypeOK
    <2> QED BY <2>2, <2>3
  <1> QED
    BY <1>1, <1>2, <1>3, <1>4, <1>5, <1>6 DEF ToolStep

\* A step of the approval keeps the types.
LEMMA ApprovalStepTyped ==
    ASSUME TypeOK, NEW r \in Runs, ApprovalStep(r)
    PROVE  TypeOK'
  <1> USE DEF PCs, Interruptible
  <1>a. approval[r] \in ApprovalRecords
    BY DEF TypeOK
  <1>f. /\ Finished(approval[r], "expired") \in ApprovalRecords
        /\ Finished(approval[r], "invalidated") \in ApprovalRecords
        /\ Finished(approval[r], "consumed") \in ApprovalRecords
    BY <1>a, ApprovalOps DEF Approvals!ClosedStatuses
  <1>o. \A a \in ApprovalRecords :
            /\ Requested \in ApprovalRecords
            /\ Awaited(a) \in ApprovalRecords
            /\ Approved(a) \in ApprovalRecords
            /\ Denied(a) \in ApprovalRecords
            /\ Released(a) \in ApprovalRecords
            /\ EffectBegun(a) \in ApprovalRecords
    BY ApprovalOps DEF Approvals!ClosedStatuses
  <1>s. {"streaming", "awaiting_approval", "executing_tool"} \subseteq Session!Statuses
    BY DEF Session!Statuses, Session!ActiveStatuses
  <1> USE <1>a, <1>f, <1>o, <1>s, ApprovalTyped, GotoTyped, CommitTyped
  <1>1. CASE CreateApproval(r)
    BY <1>1 DEF CreateApproval, TypeOK
  <1>2. CASE Announce(r)
    BY <1>2 DEF Announce, TypeOK
  <1>3. CASE RequestDecision(r)
    BY <1>3 DEF RequestDecision, TypeOK
  <1>4. CASE DecidedApproved(r)
    BY <1>4 DEF DecidedApproved, TypeOK
  <1>5. CASE DecidedDenied(r)
    BY <1>5 DEF DecidedDenied, TypeOK
  <1>6. CASE DecidedExpired(r)
    BY <1>6 DEF DecidedExpired, TypeOK
  <1>7. CASE ConsumeExpired(r)
    BY <1>7 DEF ConsumeExpired, TypeOK
  <1>8. CASE BeginConsume(r)
    BY <1>8 DEF BeginConsume, TypeOK
  <1>9. CASE ConsumeConflict(r)
    BY <1>9 DEF ConsumeConflict, TypeOK
  <1>10. CASE ConsumeExecutable(r)
    BY <1>10 DEF ConsumeExecutable, TypeOK
  <1>11. CASE SubmitMutation(r)
    BY <1>11 DEF SubmitMutation, TypeOK
  <1>12. CASE MutationApplied(r)
    BY <1>12 DEF MutationApplied, TypeOK
  <1>14. CASE BeginExecution(r)
    BY <1>14 DEF BeginExecution, TypeOK
  <1>13. CASE RequestRefused(r) \/ DecisionRejected(r) \/ ConsumeUnavailable(r) \/ ConsumeLate(r)
    BY <1>13, EndTyped DEF RequestRefused, DecisionRejected, ConsumeUnavailable, ConsumeLate,
                           Session!TerminalStatuses
  <1> QED
    BY <1>1, <1>2, <1>3, <1>4, <1>5, <1>6, <1>7, <1>8, <1>9, <1>10, <1>11, <1>12, <1>13,
       <1>14 DEF ApprovalStep

\* The user, the clock and a disposal keep the types.
LEMMA OutsideStepTyped ==
    ASSUME TypeOK,
           \/ DisposeRouter
           \/ \E r \in Runs : UserStep(r) \/ TimePasses(r) \/ TimerFires(r)
    PROVE  TypeOK'
  <1>o. \A a \in ApprovalRecords :
            /\ Expired(a) \in ApprovalRecords
            /\ Invalidated(a) \in ApprovalRecords
            /\ [a EXCEPT !.due = TRUE] \in ApprovalRecords
            /\ Answered(a, "approved") \in ApprovalRecords
            /\ Answered(a, "denied") \in ApprovalRecords
    BY ApprovalOps DEF Approvals!ClosedStatuses
  <1>1. CASE DisposeRouter
    BY <1>1, <1>o DEF DisposeRouter, TypeOK
  <1>2. ASSUME NEW r \in Runs, UserStep(r) \/ TimePasses(r) \/ TimerFires(r)
        PROVE  TypeOK'
    <2>a. approval[r] \in ApprovalRecords
      BY DEF TypeOK
    <2>1. CASE Cancel(r)
      BY <2>1, <2>a, <1>o, ApprovalTyped DEF Cancel, TypeOK
    <2>2. ASSUME NEW d \in {"approved", "denied"}, Decide(r, d)
          PROVE  TypeOK'
      BY <2>2, <2>a, <1>o, ApprovalTyped DEF Decide, TypeOK
    <2>3. CASE TimePasses(r)
      BY <2>3, <2>a, <1>o, ApprovalTyped DEF TimePasses, TypeOK
    <2>4. CASE TimerFires(r)
      BY <2>4, <2>a, <1>o, ApprovalTyped DEF TimerFires, TypeOK
    <2> QED BY <1>2, <2>1, <2>2, <2>3, <2>4 DEF UserStep
  <1> QED BY <1>1, <1>2

LEMMA TypeStep == TypeOK /\ [Next]_vars => TypeOK'
  <1> SUFFICES ASSUME TypeOK, [Next]_vars PROVE TypeOK'
    OBVIOUS
  <1>1. ASSUME NEW r \in Runs, RunStep(r)
        PROVE  TypeOK'
    <2>1. CASE StopCancelled(r) \/ HostFails(r)
      BY <2>1, EndTyped DEF StopCancelled, HostFails, Session!TerminalStatuses
    <2> QED BY <1>1, <2>1, TurnStepTyped, ToolStepTyped, ApprovalStepTyped DEF RunStep
  <1>2. CASE UNCHANGED vars
    BY <1>2 DEF vars, TypeOK
  <1> QED BY <1>1, <1>2, OutsideStepTyped DEF Next, AllEnded

\* Every state of every behaviour is well typed (the declarations of the
\* runtime, the loop, the turn and the approval record).
THEOREM TypeCorrect == Spec => []TypeOK
  <1>1. Init => TypeOK
    BY DEF Init, TypeOK, PCs, Outcomes, FreshTurn, Turns, FreshLoop, Loops, FreshApproval,
           ApprovalRecords, ApprovalStatuses, Replies, Session!Statuses
  <1> QED BY <1>1, TypeStep, PTL DEF Spec

-----------------------------------------------------------------------------
\* What a step does to the control of the Runs and to their Sessions.

Active(p) == p \notin {"idle", "ended"}

Begins(r) ==
    /\ pc[r] = "idle"
    /\ pc' = [pc EXCEPT ![r] = "begun"]
    /\ status[RuntimeOf[r]] \in Session!ResetStatuses
    /\ status' = [status EXCEPT ![RuntimeOf[r]] = "preparing"]
    /\ owner' = [owner EXCEPT ![RuntimeOf[r]] = r]

IsRefused(r) ==
    /\ pc[r] = "idle"
    /\ pc' = [pc EXCEPT ![r] = "ended"]
    /\ status[RuntimeOf[r]] \notin Session!ResetStatuses
    /\ UNCHANGED <<status, owner>>

Moves(r, q) ==
    /\ Active(pc[r])
    /\ Active(q)
    /\ pc' = [pc EXCEPT ![r] = q]
    /\ \/ UNCHANGED <<status, owner>> /\ status[RuntimeOf[r]] \in StatusesAt(q)
       \/ \E s \in Session!ActiveStatuses :
              /\ s \in StatusesAt(q)
              /\ s \in Session!LegalNext(status[RuntimeOf[r]]) \union {status[RuntimeOf[r]]}
              /\ status' = [status EXCEPT ![RuntimeOf[r]] = s]
              /\ UNCHANGED owner

Ends(r, o) ==
    /\ Active(pc[r])
    /\ pc' = [pc EXCEPT ![r] = "ended"]
    /\ o \in Session!TerminalStatuses
    /\ o \in Session!LegalNext(status[RuntimeOf[r]])
    /\ status' = [status EXCEPT ![RuntimeOf[r]] = o]
    /\ owner' = [owner EXCEPT ![RuntimeOf[r]] = None]

SessionStays == UNCHANGED <<pc, status, owner>>

SessionShape(r) ==
    \/ Begins(r) \/ IsRefused(r)
    \/ \E q \in PCs : Moves(r, q)
    \/ \E o \in Session!TerminalStatuses : Ends(r, o)
    \/ SessionStays

\* Whatever the control state, failing and cancelling are legal.
LEMMA EndShape ==
    ASSUME IInv, NEW r \in Runs, NEW o \in {"failed", "cancelled", "budget-exceeded"},
           Active(pc[r]), End(r, o)
    PROVE  Ends(r, o)
  <1>1. status[RuntimeOf[r]] \in Session!ActiveStatuses
    BY DEF IInv, StatusFitsPhase, StatusesAt, Active, Session!ActiveStatuses
  <1>2. o \in Session!LegalNext(status[RuntimeOf[r]])
    BY <1>1 DEF Session!ActiveStatuses, Session!LegalNext, Session!TerminalStatuses
  <1> QED BY <1>2 DEF End, Ends, Commit, Session!TerminalStatuses

LEMMA TurnStepShape ==
    ASSUME IInv, NEW r \in Runs, TurnStep(r)
    PROVE  SessionShape(r)
  <1> USE DEF Active, PCs, Interruptible
  <1>fit. Active(pc[r]) => status[RuntimeOf[r]] \in StatusesAt(pc[r])
    BY DEF IInv, StatusFitsPhase
  <1>1. CASE Begin(r)
    BY <1>1 DEF Begin, Begins, Goto, SessionShape
  <1>2. CASE Refuse(r)
    BY <1>2 DEF Refuse, IsRefused, Goto, SessionShape
  <1>3. CASE LoadHistory(r)
    <2>1. Moves(r, "request")
      BY <1>3, <1>fit DEF LoadHistory, Moves, Goto, Commit, StatusesAt, Session!LegalNext,
                          Session!ActiveStatuses, Session!TerminalStatuses
    <2> QED BY <2>1 DEF SessionShape
  <1>4. CASE Request(r) \/ Delta(r) \/ StreamBreaks(r)
    <2>1. Moves(r, "streaming") \/ Moves(r, "unwinding")
      BY <1>4, <1>fit DEF Request, Delta, StreamBreaks, Observe, Moves, Goto, StatusesAt
    <2> QED BY <2>1 DEF SessionShape
  <1>5. ASSUME NEW c \in Calls, AcceptCall(r, c) \/ RejectCall(r, c)
        PROVE  SessionShape(r)
    <2>1. Moves(r, "streaming") \/ Moves(r, "unwinding")
      BY <1>5, <1>fit DEF AcceptCall, RejectCall, Observe, Moves, Goto, StatusesAt
    <2> QED BY <2>1 DEF SessionShape
  <1>6. CASE RetryProvider(r)
    BY <1>6 DEF RetryProvider, SessionShape, SessionStays
  <1>7. CASE RecoverOverflow(r)
    <2>1. Moves(r, "request")
      BY <1>7, <1>fit DEF RecoverOverflow, Moves, Goto, StatusesAt
    <2> QED BY <2>1 DEF SessionShape
  <1>8. CASE OverflowExhausted(r) \/ Unwind(r)
    <2>1. \E o \in {"failed", "budget-exceeded"} : End(r, o) /\ Active(pc[r])
      BY <1>8 DEF OverflowExhausted, Unwind
    <2> QED BY <2>1, EndShape DEF SessionShape, Ends
  <1>9. CASE Truncate(r) \/ Complete(r)
    <2>1. status[RuntimeOf[r]] = "streaming" /\ Active(pc[r])
      BY <1>9, <1>fit DEF Truncate, Complete, StatusesAt
    <2>2. \E o \in Session!TerminalStatuses : End(r, o)
      BY <1>9 DEF Truncate, Complete, Session!TerminalStatuses
    <2>3. Session!TerminalStatuses \subseteq Session!LegalNext("streaming")
      BY DEF Session!LegalNext
    <2>4. \E o \in Session!TerminalStatuses : Ends(r, o)
      BY <2>1, <2>2, <2>3 DEF End, Ends, Commit
    <2> QED BY <2>4 DEF SessionShape
  <1> QED BY <1>1, <1>2, <1>3, <1>4, <1>5, <1>6, <1>7, <1>8, <1>9 DEF TurnStep

LEMMA ToolStepShape ==
    ASSUME IInv, NEW r \in Runs, ToolStep(r)
    PROVE  SessionShape(r)
  <1> USE DEF Active, PCs, Interruptible
  <1>fit. Active(pc[r]) => status[RuntimeOf[r]] \in StatusesAt(pc[r])
    BY DEF IInv, StatusFitsPhase
  <1>1. CASE UnknownCall(r)
    <2>1. Moves(r, "result")
      BY <1>1, <1>fit DEF UnknownCall, Moves, Goto, StatusesAt
    <2> QED BY <2>1 DEF SessionShape
  <1>2. CASE RunCall(r)
    <2>1. Moves(r, "running")
      BY <1>2, <1>fit DEF RunCall, Moves, Goto, Commit, StatusesAt, Session!LegalNext,
                          Session!ActiveStatuses, Session!TerminalStatuses
    <2> QED BY <2>1 DEF SessionShape
  <1>3. CASE ApplyPolicy(r) \/ Prepare(r) \/ ExecuteSettles(r)
    <2>1. \E q \in {"executing", "result", "preparing", "creating"} : Moves(r, q)
      BY <1>3, <1>fit DEF ApplyPolicy, Prepare, ExecuteSettles, Moves, Goto, StatusesAt
    <2> QED BY <2>1 DEF SessionShape
  <1>4. CASE NextTurn(r)
    <2>1. CASE budget'[r] = "exceeded"
      <3>1. Moves(r, "unwinding")
        BY <1>4, <1>fit, <2>1 DEF NextTurn, Observe, Moves, Goto, StatusesAt, IInv, TypeOK
      <3> QED BY <3>1 DEF SessionShape
    <2>2. CASE budget'[r] # "exceeded"
      <3>1. Moves(r, "request")
        BY <1>4, <1>fit, <2>2 DEF NextTurn, Observe, Moves, Goto, Commit, StatusesAt, IInv, TypeOK,
                                  Session!LegalNext, Session!ActiveStatuses,
                                  Session!TerminalStatuses
      <3> QED BY <3>1 DEF SessionShape
    <2> QED BY <2>1, <2>2
  <1> QED BY <1>1, <1>2, <1>3, <1>4 DEF ToolStep

LEMMA ApprovalStepShape ==
    ASSUME IInv, NEW r \in Runs, ApprovalStep(r)
    PROVE  SessionShape(r)
  <1> USE DEF Active, PCs, Interruptible
  <1>fit. Active(pc[r]) => status[RuntimeOf[r]] \in StatusesAt(pc[r])
    BY DEF IInv, StatusFitsPhase
  <1>1. CASE CreateApproval(r) \/ Announce(r) \/ DecidedApproved(r) \/ DecidedDenied(r)
             \/ DecidedExpired(r)
    <2>1. \E q \in {"opened", "announced", "approved", "result"} : Moves(r, q)
      BY <1>1, <1>fit DEF CreateApproval, Announce, DecidedApproved, DecidedDenied,
                          DecidedExpired, Moves, Goto, Commit, StatusesAt, Session!LegalNext,
                          Session!ActiveStatuses, Session!TerminalStatuses
    <2> QED BY <2>1 DEF SessionShape
  <1>2. CASE RequestDecision(r) \/ ConsumeExpired(r) \/ BeginConsume(r) \/ ConsumeConflict(r)
             \/ ConsumeExecutable(r) \/ BeginExecution(r) \/ SubmitMutation(r)
             \/ MutationApplied(r)
    <2>1. \E q \in {"deciding", "result", "consuming", "consumed", "executing", "applying"} :
              Moves(r, q)
      BY <1>2, <1>fit DEF RequestDecision, ConsumeExpired, BeginConsume, ConsumeConflict,
                          ConsumeExecutable, BeginExecution, SubmitMutation, MutationApplied,
                          Moves, Goto, StatusesAt
    <2> QED BY <2>1 DEF SessionShape
  <1>3. CASE RequestRefused(r) \/ DecisionRejected(r) \/ ConsumeUnavailable(r) \/ ConsumeLate(r)
    <2>1. Active(pc[r]) /\ End(r, "failed")
      BY <1>3 DEF RequestRefused, DecisionRejected, ConsumeUnavailable, ConsumeLate
    <2> QED BY <2>1, EndShape DEF SessionShape, Ends
  <1> QED BY <1>1, <1>2, <1>3 DEF ApprovalStep

\* Every step of the system has one of these shapes.
LEMMA StepShape ==
    ASSUME IInv, [Next]_vars
    PROVE  SessionStays \/ \E r \in Runs : SessionShape(r)
  <1>1. ASSUME NEW r \in Runs, RunStep(r)
        PROVE  SessionShape(r)
    <2>1. CASE StopCancelled(r) \/ HostFails(r)
      <3>1. \E o \in {"failed", "cancelled"} : End(r, o) /\ Active(pc[r])
        BY <2>1 DEF StopCancelled, HostFails, Interruptible, Active
      <3> QED BY <3>1, EndShape DEF SessionShape, Ends
    <2> QED BY <1>1, <2>1, TurnStepShape, ToolStepShape, ApprovalStepShape DEF RunStep
  <1>2. ASSUME NEW r \in Runs, UserStep(r) \/ TimePasses(r) \/ TimerFires(r)
        PROVE  SessionStays
    BY <1>2 DEF UserStep, Cancel, Decide, TimePasses, TimerFires, SessionStays
  <1>3. CASE DisposeRouter
    BY <1>3 DEF DisposeRouter, SessionStays
  <1>4. CASE UNCHANGED vars
    BY <1>4 DEF vars, SessionStays
  <1> QED BY <1>1, <1>2, <1>3, <1>4 DEF Next, AllEnded

\* A step keeps ownership, activity and control state together.
LEMMA SessionInvStep ==
    ASSUME IInv, [Next]_vars
    PROVE  (OneOwner /\ Session!OwnedWhileActive /\ StatusFitsPhase)'
  <1> USE NoneIsFresh DEF OneOwner, StatusFitsPhase, Session!OwnedWhileActive, Active
  <1>t. TypeOK /\ OneOwner /\ Session!OwnedWhileActive /\ StatusFitsPhase
    BY DEF IInv
  <1>d. Session!ActiveStatuses \intersect Session!ResetStatuses = {}
    BY DEF Session!ActiveStatuses, Session!ResetStatuses, Session!TerminalStatuses
  <1>1. CASE SessionStays
    BY <1>1, <1>t DEF SessionStays
  <1>2. ASSUME NEW r \in Runs, Begins(r)
        PROVE  (OneOwner /\ Session!OwnedWhileActive /\ StatusFitsPhase)'
    <2>1. owner[RuntimeOf[r]] = None
      BY <1>2, <1>t, <1>d DEF Begins, TypeOK
    <2>2. \A q \in Runs : RuntimeOf[q] = RuntimeOf[r] => pc[q] \in {"idle", "ended"}
      BY <2>1, <1>t
    <2>3. OneOwner'
      BY <1>2, <1>t, <2>2 DEF Begins, TypeOK
    <2>4. Session!OwnedWhileActive'
      BY <1>2, <1>t DEF Begins, TypeOK, Session!ActiveStatuses
    <2>5. StatusFitsPhase'
      BY <1>2, <1>t, <2>2 DEF Begins, TypeOK, StatusesAt
    <2> QED BY <2>3, <2>4, <2>5
  <1>3. ASSUME NEW r \in Runs, IsRefused(r)
        PROVE  (OneOwner /\ Session!OwnedWhileActive /\ StatusFitsPhase)'
    BY <1>3, <1>t DEF IsRefused, TypeOK
  <1>4. ASSUME NEW r \in Runs, NEW q \in PCs, Moves(r, q)
        PROVE  (OneOwner /\ Session!OwnedWhileActive /\ StatusFitsPhase)'
    <2>1. \A p \in Runs : p # r /\ RuntimeOf[p] = RuntimeOf[r] => pc[p] \in {"idle", "ended"}
      BY <1>4, <1>t DEF Moves
    <2>2. OneOwner'
      BY <1>4, <1>t DEF Moves, TypeOK
    <2>3. owner[RuntimeOf[r]] # None
      BY <1>4, <1>t DEF Moves
    <2>4. Session!OwnedWhileActive'
      BY <1>4, <1>t, <2>3 DEF Moves, TypeOK
    <2>5. StatusFitsPhase'
      BY <1>4, <1>t, <2>1 DEF Moves, TypeOK
    <2> QED BY <2>2, <2>4, <2>5
  <1>5. ASSUME NEW r \in Runs, NEW o \in Session!TerminalStatuses, Ends(r, o)
        PROVE  (OneOwner /\ Session!OwnedWhileActive /\ StatusFitsPhase)'
    <2>1. \A p \in Runs : p # r /\ RuntimeOf[p] = RuntimeOf[r] => pc[p] \in {"idle", "ended"}
      BY <1>5, <1>t DEF Ends
    <2>2. OneOwner'
      BY <1>5, <1>t, <2>1 DEF Ends, TypeOK
    <2>3. o \notin Session!ActiveStatuses
      BY <1>d DEF Session!ResetStatuses
    <2>4. Session!OwnedWhileActive'
      BY <1>5, <1>t, <2>3 DEF Ends, TypeOK
    <2>5. StatusFitsPhase'
      BY <1>5, <1>t, <2>1 DEF Ends, TypeOK
    <2> QED BY <2>2, <2>4, <2>5
  <1> QED BY <1>1, <1>2, <1>3, <1>4, <1>5, StepShape DEF SessionShape

-----------------------------------------------------------------------------
\* What a step does to the approval records.

\* The part of ApprovalFitsPhase about one Run.
RecordFits(p, a, ab) ==
    /\ ApprovalFits(p, a)
    /\ a.status \in Approvals!OpenStatuses => a.listed
    /\ a.listed => ~ab

RecordChanges(r, q, a, ab) ==
    /\ pc' = [pc EXCEPT ![r] = q]
    /\ approval' = [approval EXCEPT ![r] = a]
    /\ aborted' = [aborted EXCEPT ![r] = ab]

\* A step that changes one Run's record, control state and signal keeps the
\* invariant when that Run's record still fits.
LEMMA OneRecord ==
    ASSUME TypeOK, ApprovalFitsPhase, NEW r \in Runs, NEW a \in ApprovalRecords, NEW q \in PCs,
           NEW ab \in BOOLEAN, RecordChanges(r, q, a, ab), RecordFits(q, a, ab)
    PROVE  ApprovalFitsPhase'
  <1> SUFFICES ASSUME NEW p \in Runs
               PROVE  RecordFits(pc'[p], approval'[p], aborted'[p])
    BY DEF ApprovalFitsPhase, RecordFits
  <1>1. CASE p = r
    BY <1>1 DEF RecordChanges, TypeOK
  <1>2. CASE p # r
    BY <1>2 DEF RecordChanges, TypeOK, ApprovalFitsPhase, RecordFits
  <1> QED BY <1>1, <1>2

\* Control states outside an approval.
Elsewhere == PCs \ {"opened", "announced", "deciding", "approved", "consuming", "applying",
                    "consumed"}

\* A Run that is not in its approval may move anywhere else.
LEMMA ElsewhereKeeps ==
    ASSUME TypeOK, ApprovalFitsPhase, NEW r \in Runs, NEW q \in Elsewhere,
           pc[r] \in Elsewhere,
           pc' = [pc EXCEPT ![r] = q],
           UNCHANGED <<approval, aborted>>
    PROVE  ApprovalFitsPhase'
  <1>1. RecordFits(pc[r], approval[r], aborted[r])
    BY DEF ApprovalFitsPhase, RecordFits
  <1>2. RecordFits(q, approval[r], aborted[r])
    BY <1>1 DEF RecordFits, ApprovalFits, Elsewhere
  <1>3. RecordChanges(r, q, approval[r], aborted[r])
    BY DEF RecordChanges, TypeOK
  <1>4. /\ approval[r] \in ApprovalRecords
        /\ aborted[r] \in BOOLEAN
        /\ q \in PCs
    BY DEF TypeOK, Elsewhere
  <1> QED BY <1>2, <1>3, <1>4, OneRecord

\* An ended Run leaves a closed record behind, wherever it came from.
LEMMA EndFits ==
    ASSUME TypeOK, ApprovalFitsPhase, NEW r \in Runs, NEW o, End(r, o)
    PROVE  ApprovalFitsPhase'
  <1> DEFINE a == approval[r]
  <1>1. a \in ApprovalRecords /\ Invalidated(a) \in ApprovalRecords
    BY ApprovalOps DEF TypeOK, Approvals!ClosedStatuses
  <1>2. RecordFits(pc[r], a, aborted[r]) /\ pc[r] \in PCs
    BY DEF ApprovalFitsPhase, RecordFits, TypeOK
  <1>3. RecordFits("ended", Invalidated(a), aborted[r])
    BY <1>1, <1>2 DEF RecordFits, ApprovalFits, Invalidated, ApprovalRecords, ApprovalStatuses,
                      Replies, PCs, Interruptible, Approvals!OpenStatuses,
                      Approvals!ClosedStatuses
  <1>4. RecordChanges(r, "ended", Invalidated(a), aborted[r])
    BY DEF RecordChanges, End, ApprovalBecomes, TypeOK
  <1>5. aborted[r] \in BOOLEAN /\ "ended" \in PCs
    BY DEF TypeOK, PCs
  <1> QED BY <1>1, <1>3, <1>4, <1>5, OneRecord

LEMMA TurnStepFits ==
    ASSUME TypeOK, ApprovalFitsPhase, NEW r \in Runs, TurnStep(r)
    PROVE  ApprovalFitsPhase'
  <1> USE DEF Elsewhere, PCs, Interruptible, Goto, Observe
  <1>1. CASE Begin(r) \/ Refuse(r) \/ LoadHistory(r)
    BY <1>1, ElsewhereKeeps DEF Begin, Refuse, LoadHistory
  <1>2. CASE Request(r) \/ Delta(r) \/ RecoverOverflow(r) \/ StreamBreaks(r)
    BY <1>2, ElsewhereKeeps DEF Request, Delta, RecoverOverflow, StreamBreaks
  <1>3. ASSUME NEW c \in Calls, AcceptCall(r, c) \/ RejectCall(r, c)
        PROVE  ApprovalFitsPhase'
    BY <1>3, ElsewhereKeeps DEF AcceptCall, RejectCall
  <1>4. CASE RetryProvider(r)
    BY <1>4 DEF RetryProvider, ApprovalFitsPhase
  <1>5. CASE OverflowExhausted(r) \/ Unwind(r) \/ Truncate(r) \/ Complete(r)
    BY <1>5, EndFits DEF OverflowExhausted, Unwind, Truncate, Complete
  <1> QED BY <1>1, <1>2, <1>3, <1>4, <1>5 DEF TurnStep

LEMMA ToolStepFits ==
    ASSUME TypeOK, ApprovalFitsPhase, NEW r \in Runs, ToolStep(r)
    PROVE  ApprovalFitsPhase'
  <1> USE DEF Elsewhere, PCs, Interruptible, Goto, Observe
  <1>1. CASE UnknownCall(r) \/ RunCall(r) \/ ApplyPolicy(r)
    BY <1>1, ElsewhereKeeps DEF UnknownCall, RunCall, ApplyPolicy
  <1>2. CASE Prepare(r) \/ ExecuteSettles(r) \/ NextTurn(r)
    BY <1>2, ElsewhereKeeps DEF Prepare, ExecuteSettles, NextTurn
  <1> QED BY <1>1, <1>2 DEF ToolStep

LEMMA ApprovalStepFits ==
    ASSUME TypeOK, ApprovalFitsPhase, NEW r \in Runs, ApprovalStep(r)
    PROVE  ApprovalFitsPhase'
  <1> DEFINE a == approval[r]
  <1>a. a \in ApprovalRecords /\ aborted[r] \in BOOLEAN
    BY DEF TypeOK
  <1>b. \A s \in {"expired", "invalidated", "consumed"} : Finished(a, s) \in ApprovalRecords
    BY <1>a, ApprovalOps DEF Approvals!ClosedStatuses
  <1>c. /\ Requested \in ApprovalRecords
        /\ Awaited(a) \in ApprovalRecords
        /\ Approved(a) \in ApprovalRecords
        /\ Denied(a) \in ApprovalRecords
        /\ Released(a) \in ApprovalRecords
        /\ EffectBegun(a) \in ApprovalRecords
    BY <1>a, <1>b, ApprovalOps DEF Approvals!ClosedStatuses
  <1>d. RecordFits(pc[r], a, aborted[r])
    BY DEF ApprovalFitsPhase, RecordFits
  <1>n. \A q \in PCs, b \in ApprovalRecords :
            pc' = [pc EXCEPT ![r] = q] /\ ApprovalBecomes(r, b) /\ aborted' = aborted
            /\ RecordFits(q, b, aborted[r]) => ApprovalFitsPhase'
    <2> SUFFICES ASSUME NEW q \in PCs, NEW b \in ApprovalRecords,
                        pc' = [pc EXCEPT ![r] = q], ApprovalBecomes(r, b), aborted' = aborted,
                        RecordFits(q, b, aborted[r])
                 PROVE  ApprovalFitsPhase'
      OBVIOUS
    <2>1. RecordChanges(r, q, b, aborted[r])
      BY DEF RecordChanges, ApprovalBecomes, TypeOK
    <2> QED BY <1>a, <2>1, OneRecord
  <1>p. {"opened", "announced", "deciding", "approved", "consuming", "consumed", "applying",
         "executing", "result"} \subseteq PCs
    BY DEF PCs, Interruptible
  <1> USE DEF RecordFits, ApprovalFits, ApprovalRecords, ApprovalStatuses, Replies,
              Approvals!OpenStatuses, Approvals!ClosedStatuses
  <1>1. CASE CreateApproval(r)
    <2>1. RecordFits("opened", Requested, aborted[r])
      BY <1>1 DEF CreateApproval, Requested, FreshApproval
    <2> HIDE DEF RecordFits, ApprovalRecords
    <2> QED BY <1>1, <2>1, <1>c, <1>n, <1>p DEF CreateApproval, Goto
  <1>2. CASE Announce(r)
    <2>1. RecordFits("announced", a, aborted[r]) /\ ApprovalBecomes(r, a)
      BY <1>2, <1>a, <1>d DEF Announce, Goto, ApprovalBecomes, TypeOK
    <2> HIDE DEF RecordFits, ApprovalRecords
    <2> QED BY <1>2, <2>1, <1>a, <1>n, <1>p DEF Announce, Goto
  <1>3. CASE RequestDecision(r)
    <2>1. RecordFits("deciding", Awaited(a), aborted[r])
      BY <1>3, <1>a, <1>d DEF RequestDecision, Goto, Awaited, Expired
    <2> HIDE DEF RecordFits, ApprovalRecords
    <2> QED BY <1>3, <2>1, <1>c, <1>n, <1>p DEF RequestDecision, Goto
  <1>4. CASE DecidedApproved(r)
    <2>1. RecordFits("approved", Approved(a), aborted[r])
      BY <1>4, <1>a, <1>d DEF DecidedApproved, Goto, Approved
    <2> HIDE DEF RecordFits, ApprovalRecords
    <2> QED BY <1>4, <2>1, <1>c, <1>n, <1>p DEF DecidedApproved, Goto
  <1>5. CASE DecidedDenied(r)
    <2>1. RecordFits("result", Denied(a), aborted[r])
      BY <1>5, <1>a, <1>d DEF DecidedDenied, Goto, Denied
    <2> HIDE DEF RecordFits, ApprovalRecords
    <2> QED BY <1>5, <2>1, <1>c, <1>n, <1>p DEF DecidedDenied, Goto
  <1>6. CASE DecidedExpired(r)
    <2>1. RecordFits("result", Released(a), aborted[r])
      BY <1>6, <1>a, <1>d DEF DecidedExpired, Goto, Released
    <2> HIDE DEF RecordFits, ApprovalRecords
    <2> QED BY <1>6, <2>1, <1>c, <1>n, <1>p DEF DecidedExpired, Goto
  <1>7. CASE ConsumeExpired(r)
    <2>1. RecordFits("result", Finished(a, "expired"), aborted[r])
      BY <1>7, <1>a, <1>d DEF ConsumeExpired, Goto, Finished
    <2> HIDE DEF RecordFits, ApprovalRecords
    <2> QED BY <1>7, <2>1, <1>b, <1>n, <1>p DEF ConsumeExpired, Goto
  <1>8. CASE BeginConsume(r)
    <2>1. RecordFits("consuming", a, aborted[r]) /\ ApprovalBecomes(r, a)
      BY <1>8, <1>a, <1>d DEF BeginConsume, Goto, ApprovalBecomes, TypeOK
    <2> HIDE DEF RecordFits, ApprovalRecords
    <2> QED BY <1>8, <2>1, <1>a, <1>n, <1>p DEF BeginConsume, Goto
  <1>9. CASE ConsumeConflict(r)
    <2>1. RecordFits("result", Finished(a, "invalidated"), aborted[r])
      BY <1>9, <1>a, <1>d DEF ConsumeConflict, Goto, Finished
    <2> HIDE DEF RecordFits, ApprovalRecords
    <2> QED BY <1>9, <2>1, <1>b, <1>n, <1>p DEF ConsumeConflict, Goto
  <1>10. CASE ConsumeExecutable(r)
    <2>1. RecordFits("consumed", Finished(a, "consumed"), aborted[r])
      BY <1>10, <1>a, <1>d DEF ConsumeExecutable, Goto, Finished
    <2> HIDE DEF RecordFits, ApprovalRecords
    <2> QED BY <1>10, <2>1, <1>b, <1>n, <1>p DEF ConsumeExecutable, Goto
  <1>14. CASE BeginExecution(r)
    <2>1. RecordFits("executing", EffectBegun(a), aborted[r])
      BY <1>14, <1>a, <1>d DEF BeginExecution, Goto, EffectBegun
    <2> HIDE DEF RecordFits, ApprovalRecords
    <2> QED BY <1>14, <2>1, <1>c, <1>n, <1>p DEF BeginExecution, Goto
  <1>11. CASE SubmitMutation(r)
    <2>1. RecordFits("applying", EffectBegun(a), aborted[r])
      BY <1>11, <1>a, <1>d DEF SubmitMutation, Goto, EffectBegun
    <2> HIDE DEF RecordFits, ApprovalRecords
    <2> QED BY <1>11, <2>1, <1>c, <1>n, <1>p DEF SubmitMutation, Goto
  <1>12. CASE MutationApplied(r)
    <2>1. RecordFits("result", Finished(a, "consumed"), aborted[r])
      BY <1>12, <1>a, <1>d DEF MutationApplied, Goto, Finished
    <2> HIDE DEF RecordFits, ApprovalRecords
    <2> QED BY <1>12, <2>1, <1>b, <1>n, <1>p DEF MutationApplied, Goto
  <1>13. CASE RequestRefused(r) \/ DecisionRejected(r) \/ ConsumeUnavailable(r) \/ ConsumeLate(r)
    BY <1>13, EndFits DEF RequestRefused, DecisionRejected, ConsumeUnavailable, ConsumeLate
  <1> HIDE DEF RecordFits, ApprovalFits, ApprovalRecords
  <1> QED
    BY <1>1, <1>2, <1>3, <1>4, <1>5, <1>6, <1>7, <1>8, <1>9, <1>10, <1>11, <1>12, <1>13,
       <1>14 DEF ApprovalStep

\* The user, the clock and a disposal leave every record fitting where its
\* Run stands.
LEMMA OutsideStepFits ==
    ASSUME TypeOK, ApprovalFitsPhase,
           \/ DisposeRouter
           \/ \E r \in Runs : UserStep(r) \/ TimePasses(r) \/ TimerFires(r)
    PROVE  ApprovalFitsPhase'
  <1>1. CASE DisposeRouter
    <2>1. ASSUME NEW r \in Runs
          PROVE  RecordFits(pc[r], approval'[r], aborted[r])
      <3>1. RecordFits(pc[r], approval[r], aborted[r]) /\ approval[r] \in ApprovalRecords
        BY DEF ApprovalFitsPhase, RecordFits, TypeOK
      <3>2. RecordFits(pc[r], Invalidated(approval[r]), aborted[r])
        BY <3>1 DEF RecordFits, ApprovalFits, ApprovalRecords, ApprovalStatuses, Replies,
                    Approvals!OpenStatuses, Approvals!ClosedStatuses, Invalidated
      <3> QED BY <1>1, <3>1, <3>2 DEF DisposeRouter
    <2> QED BY <1>1, <2>1 DEF DisposeRouter, ApprovalFitsPhase, RecordFits
  <1>2. ASSUME NEW r \in Runs, UserStep(r) \/ TimePasses(r) \/ TimerFires(r)
        PROVE  ApprovalFitsPhase'
    <2> DEFINE a == approval[r]
    <2>1. RecordFits(pc[r], a, aborted[r])
      BY DEF ApprovalFitsPhase, RecordFits
    <2>2. a \in ApprovalRecords /\ pc[r] \in PCs /\ aborted[r] \in BOOLEAN
      BY DEF TypeOK
    <2>3. /\ Invalidated(a) \in ApprovalRecords
          /\ Expired(a) \in ApprovalRecords
          /\ [a EXCEPT !.due = TRUE] \in ApprovalRecords
          /\ \A d \in {"approved", "denied"} : Answered(a, d) \in ApprovalRecords
      BY <2>2, ApprovalOps DEF Approvals!ClosedStatuses
    <2>4. \A b \in ApprovalRecords :
              pc' = pc /\ ApprovalBecomes(r, b) /\ aborted' = aborted
              /\ RecordFits(pc[r], b, aborted[r]) => ApprovalFitsPhase'
      <3> SUFFICES ASSUME NEW b \in ApprovalRecords, pc' = pc, ApprovalBecomes(r, b),
                          aborted' = aborted, RecordFits(pc[r], b, aborted[r])
                   PROVE  ApprovalFitsPhase'
        OBVIOUS
      <3>1. RecordChanges(r, pc[r], b, aborted[r])
        BY DEF RecordChanges, ApprovalBecomes, TypeOK
      <3> QED BY <2>2, <3>1, OneRecord
    <2>5. CASE Cancel(r)
      <3> DEFINE b == IF a.listed THEN Invalidated(a) ELSE a
      <3>1. RecordFits(pc[r], b, TRUE) /\ b \in ApprovalRecords
        BY <2>1, <2>2, <2>3 DEF RecordFits, ApprovalFits, ApprovalRecords, ApprovalStatuses,
                    Replies, Approvals!OpenStatuses, Approvals!ClosedStatuses, Invalidated
      <3>2. RecordChanges(r, pc[r], b, TRUE)
        BY <2>5 DEF Cancel, RecordChanges, ApprovalBecomes, TypeOK
      <3> HIDE DEF b
      <3> QED BY <2>2, <3>1, <3>2, OneRecord
    <2>6. ASSUME NEW d \in {"approved", "denied"}, Decide(r, d)
          PROVE  ApprovalFitsPhase'
      <3>1. RecordFits(pc[r], Answered(a, d), aborted[r])
        BY <2>1, <2>2, <2>6 DEF Decide, RecordFits, ApprovalFits, ApprovalRecords,
                    Approvals!OpenStatuses, Answered, Expired
      <3> QED BY <2>3, <2>4, <2>6, <3>1 DEF Decide
    <2>7. CASE TimePasses(r)
      <3>1. RecordFits(pc[r], [a EXCEPT !.due = TRUE], aborted[r])
        BY <2>1, <2>2 DEF RecordFits, ApprovalFits, ApprovalRecords
      <3> QED BY <2>3, <2>4, <2>7, <3>1 DEF TimePasses
    <2>8. CASE TimerFires(r)
      <3>1. RecordFits(pc[r], Expired(a), aborted[r])
        BY <2>1, <2>2, <2>8 DEF TimerFires, RecordFits, ApprovalFits, ApprovalRecords,
                    Approvals!OpenStatuses, Expired
      <3> QED BY <2>3, <2>4, <2>8, <3>1 DEF TimerFires
    <2> QED BY <1>2, <2>5, <2>6, <2>7, <2>8 DEF UserStep
  <1> QED BY <1>1, <1>2

LEMMA ApprovalFitsStep ==
    ASSUME TypeOK, ApprovalFitsPhase, [Next]_vars
    PROVE  ApprovalFitsPhase'
  <1>1. ASSUME NEW r \in Runs, RunStep(r)
        PROVE  ApprovalFitsPhase'
    BY <1>1, TurnStepFits, ToolStepFits, ApprovalStepFits, EndFits
       DEF RunStep, StopCancelled, HostFails
  <1>2. CASE UNCHANGED vars
    BY <1>2 DEF vars, ApprovalFitsPhase
  <1> QED BY <1>1, <1>2, OutsideStepFits DEF Next, AllEnded

-----------------------------------------------------------------------------
\* The budget.

\* Past the limit a Run can only unwind: every other step starts elsewhere.
LEMMA ExceededStep ==
    ASSUME TypeOK, ExceededStopsRun, [Next]_vars
    PROVE  ExceededStopsRun'
  <1> USE DEF ExceededStopsRun, TypeOK
  <1>1. ASSUME NEW r \in Runs, TurnStep(r)
        PROVE  ExceededStopsRun'
    <2>1. CASE Begin(r) \/ Refuse(r) \/ LoadHistory(r) \/ RetryProvider(r) \/ RecoverOverflow(r)
               \/ StreamBreaks(r)
      BY <2>1 DEF Begin, Refuse, LoadHistory, RetryProvider, RecoverOverflow, StreamBreaks, Goto
    <2>2. CASE Request(r) \/ Delta(r)
      BY <2>2 DEF Request, Delta, Observe, Goto
    <2>3. ASSUME NEW c \in Calls, AcceptCall(r, c) \/ RejectCall(r, c)
          PROVE  ExceededStopsRun'
      BY <2>3 DEF AcceptCall, RejectCall, Observe, Goto
    <2>4. CASE OverflowExhausted(r) \/ Unwind(r) \/ Truncate(r) \/ Complete(r)
      BY <2>4 DEF OverflowExhausted, Unwind, Truncate, Complete, End
    <2> QED BY <1>1, <2>1, <2>2, <2>3, <2>4 DEF TurnStep
  <1>2. ASSUME NEW r \in Runs, ToolStep(r)
        PROVE  ExceededStopsRun'
    <2>1. CASE NextTurn(r)
      BY <2>1 DEF NextTurn, Observe, Goto
    <2>2. CASE UnknownCall(r) \/ RunCall(r) \/ ApplyPolicy(r) \/ Prepare(r) \/ ExecuteSettles(r)
      BY <2>2 DEF UnknownCall, RunCall, ApplyPolicy, Prepare, ExecuteSettles, Goto
    <2> QED BY <1>2, <2>1, <2>2 DEF ToolStep
  <1>3. ASSUME NEW r \in Runs, ApprovalStep(r)
        PROVE  ExceededStopsRun'
    <2>1. CASE CreateApproval(r) \/ Announce(r) \/ RequestDecision(r) \/ DecidedApproved(r)
               \/ DecidedDenied(r) \/ DecidedExpired(r)
      BY <2>1 DEF CreateApproval, Announce, RequestDecision, DecidedApproved, DecidedDenied,
                  DecidedExpired, Goto
    <2>2. CASE ConsumeExpired(r) \/ BeginConsume(r) \/ ConsumeConflict(r) \/ ConsumeExecutable(r)
               \/ BeginExecution(r) \/ SubmitMutation(r) \/ MutationApplied(r)
      BY <2>2 DEF ConsumeExpired, BeginConsume, ConsumeConflict, ConsumeExecutable,
                  BeginExecution, SubmitMutation, MutationApplied, Goto
    <2>3. CASE RequestRefused(r) \/ DecisionRejected(r) \/ ConsumeUnavailable(r) \/ ConsumeLate(r)
      BY <2>3 DEF RequestRefused, DecisionRejected, ConsumeUnavailable, ConsumeLate, End
    <2> QED BY <1>3, <2>1, <2>2, <2>3 DEF ApprovalStep
  <1>4. ASSUME NEW r \in Runs, StopCancelled(r) \/ HostFails(r)
        PROVE  ExceededStopsRun'
    BY <1>4 DEF StopCancelled, HostFails, End
  <1>5. ASSUME NEW r \in Runs, UserStep(r) \/ TimePasses(r) \/ TimerFires(r)
        PROVE  ExceededStopsRun'
    BY <1>5 DEF UserStep, Cancel, Decide, TimePasses, TimerFires
  <1>6. CASE DisposeRouter \/ UNCHANGED vars
    BY <1>6 DEF DisposeRouter, vars
  <1> QED BY <1>1, <1>2, <1>3, <1>4, <1>5, <1>6 DEF Next, RunStep, AllEnded

-----------------------------------------------------------------------------
\* The inductive invariant and the properties that follow from it.

\* Control state, Session status, owner and approval record agree at every
\* step of every Run, for any number of Runs, Runtimes, calls and Tool steps.
THEOREM Inductive == Spec => []IInv
  <1>1. Init => IInv
    <2> SUFFICES ASSUME Init PROVE IInv
      OBVIOUS
    <2>1. TypeOK
      BY DEF Init, TypeOK, PCs, Outcomes, FreshTurn, Turns, FreshLoop, Loops, FreshApproval,
             ApprovalRecords, ApprovalStatuses, Replies, Session!Statuses
    <2>2. OneOwner /\ StatusFitsPhase
      BY NoneIsFresh DEF Init, OneOwner, StatusFitsPhase
    <2>3. Session!OwnedWhileActive
      BY DEF Init, Session!OwnedWhileActive, Session!ActiveStatuses, Session!ResetStatuses,
             Session!TerminalStatuses
    <2>4. ApprovalFitsPhase
      BY DEF Init, ApprovalFitsPhase, ApprovalFits, FreshApproval, Approvals!OpenStatuses
    <2>5. ExceededStopsRun
      BY DEF Init, ExceededStopsRun
    <2> QED BY <2>1, <2>2, <2>3, <2>4, <2>5 DEF IInv
  <1>2. IInv /\ [Next]_vars => IInv'
    BY TypeStep, SessionInvStep, ApprovalFitsStep, ExceededStep DEF IInv
  <1> QED BY <1>1, <1>2, PTL DEF Spec

\* A Session is owned by the one Run that is under way, and active exactly
\* then: no second Run takes it over, none leaves it in use.
THEOREM SessionHasOneOwner == Spec => [](OneOwner /\ Session!OwnedWhileActive)
  <1>1. IInv => OneOwner /\ Session!OwnedWhileActive
    BY DEF IInv
  <1> QED BY <1>1, Inductive, PTL

\* A side effect is begun at most once per approval and only under a decision
\* of the user that was accepted in time.
THEOREM EffectsAreGranted == Spec => []EffectNeedsGrant
  <1>1. IInv => EffectNeedsGrant
    BY DEF IInv, ApprovalFitsPhase, ApprovalFits, EffectNeedsGrant
  <1> QED BY <1>1, Inductive, PTL

\* A Run never waits for a decision that can no longer arrive.
THEOREM AwaitedDecisionsArrive == Spec => []AwaitedIsDecidable
  <1>1. IInv => AwaitedIsDecidable
    BY DEF IInv, ApprovalFitsPhase, ApprovalFits, AwaitedIsDecidable, Approvals!OpenStatuses
  <1> QED BY <1>1, Inductive, PTL

\* An approval is closed and unlisted once its Tool step is over.
THEOREM ApprovalsAreReleased == Spec => []NoApprovalOutlivesItsStep
  <1>1. IInv => NoApprovalOutlivesItsStep
    BY DEF IInv, ApprovalFitsPhase, ApprovalFits, NoApprovalOutlivesItsStep,
           Approvals!OpenStatuses
  <1> QED BY <1>1, Inductive, PTL

\* An exceeded budget ends the Run without a further request or Tool step.
THEOREM ExceededBudgetEndsRun == Spec => []ExceededStopsRun
  <1>1. IInv => ExceededStopsRun
    BY DEF IInv
  <1> QED BY <1>1, Inductive, PTL

-----------------------------------------------------------------------------
\* The refinements.

\* AgentRuntime drives the Session only along SessionStateMachine's legal
\* transitions, and only by the Run that owns it.
THEOREM RefinesSession == Spec => LegalSession
  <1>1. Init => Session!Init
    BY DEF Init, Session!Init
  <1>2. IInv /\ [Next]_vars => [Session!Next]_(Session!vars)
    <2> SUFFICES ASSUME IInv, [Next]_vars
                 PROVE  Session!Next \/ UNCHANGED <<status, owner>>
      BY DEF Session!vars
    <2>t. TypeOK /\ OneOwner
      BY DEF IInv
    <2>1. CASE SessionStays
      BY <2>1 DEF SessionStays
    <2>2. ASSUME NEW r \in Runs, Begins(r) \/ IsRefused(r)
          PROVE  Session!Next \/ UNCHANGED <<status, owner>>
      BY <2>2 DEF Begins, IsRefused, Session!Next, Session!BeginRun
    <2>3. ASSUME NEW r \in Runs, Active(pc[r])
          PROVE  owner[RuntimeOf[r]] # None /\ RuntimeOf[r] \in Runtimes
      BY <2>3, <2>t, NoneIsFresh DEF OneOwner, Active
    <2>4. ASSUME NEW r \in Runs, NEW q \in PCs, Moves(r, q)
          PROVE  Session!Next \/ UNCHANGED <<status, owner>>
      <3>1. CASE UNCHANGED <<status, owner>>
        BY <3>1
      <3>2. CASE ~UNCHANGED <<status, owner>>
        <4>1. PICK s \in Session!ActiveStatuses :
                 /\ s \in Session!LegalNext(status[RuntimeOf[r]]) \union {status[RuntimeOf[r]]}
                 /\ status' = [status EXCEPT ![RuntimeOf[r]] = s]
                 /\ UNCHANGED owner
          BY <2>4, <3>2 DEF Moves
        <4>2. s # status[RuntimeOf[r]]
          BY <3>2, <4>1, <2>t DEF TypeOK
        <4>3. s \in Session!Statuses /\ s \notin Session!TerminalStatuses
          BY DEF Session!Statuses, Session!ActiveStatuses, Session!TerminalStatuses
        <4>4. Session!TransitionTo(RuntimeOf[r], s)
          BY <2>3, <2>4, <4>1, <4>2, <4>3 DEF Session!TransitionTo, Moves
        <4> QED BY <2>3, <2>4, <4>3, <4>4 DEF Session!Next, Moves
      <3> QED BY <3>1, <3>2
    <2>5. ASSUME NEW r \in Runs, NEW o \in Session!TerminalStatuses, Ends(r, o)
          PROVE  Session!Next
      <3>1. Session!TransitionTo(RuntimeOf[r], o)
        BY <2>3, <2>5 DEF Ends, Session!TransitionTo
      <3>2. o \in Session!Statuses
        BY DEF Session!Statuses, Session!ResetStatuses
      <3> QED BY <2>3, <2>5, <3>1, <3>2 DEF Session!Next, Ends
    <2> QED BY <2>1, <2>2, <2>4, <2>5, StepShape DEF SessionShape
  <1> QED BY <1>1, <1>2, Inductive, PTL DEF Spec, LegalSession, Session!Spec

\* The statuses of two records, one after the other, are the same or a legal
\* move of the approval protocol.
StatusMoves(a, b) == b.status = a.status \/ Approvals!Move(a.status, b.status)

\* The operations that close a record close it legally from any state.
LEMMA ClosingMoves ==
    ASSUME NEW a \in ApprovalRecords
    PROVE  /\ StatusMoves(a, Invalidated(a))
           /\ StatusMoves(a, Finished(a, "invalidated"))
           /\ a.status = "approved" => StatusMoves(a, Finished(a, "expired"))
           /\ a.status # "pending" => StatusMoves(a, Finished(a, "consumed"))
           /\ a.status = "pending" => StatusMoves(a, Expired(a))
           /\ StatusMoves(a, EffectBegun(a)) /\ StatusMoves(a, Released(a))
           /\ StatusMoves(a, [a EXCEPT !.due = TRUE])
  BY DEF StatusMoves, Approvals!Move, Approvals!LegalMoves, Approvals!OpenStatuses,
         Invalidated, Finished, Expired, EffectBegun, Released, ApprovalRecords

LEMMA OneMoves ==
    ASSUME TypeOK, NEW r \in Runs, NEW a, ApprovalBecomes(r, a), StatusMoves(approval[r], a)
    PROVE  \A p \in Runs : StatusMoves(approval[p], approval'[p])
  BY DEF TypeOK, ApprovalBecomes, StatusMoves

LEMMA ApprovalStepMoves ==
    ASSUME IInv, NEW r \in Runs, ApprovalStep(r)
    PROVE  \A p \in Runs : StatusMoves(approval[p], approval'[p])
  <1> DEFINE a == approval[r]
  <1>a. TypeOK /\ a \in ApprovalRecords /\ ApprovalFits(pc[r], a)
    BY DEF IInv, TypeOK, ApprovalFitsPhase
  <1> USE DEF Goto
  <1>1. CASE CreateApproval(r)
    <2>1. StatusMoves(a, Requested)
      BY <1>a, <1>1 DEF CreateApproval, ApprovalFits, StatusMoves, Approvals!Move, Requested,
                        FreshApproval
    <2> QED BY <1>a, <1>1, <2>1, OneMoves DEF CreateApproval
  <1>2. CASE Announce(r) \/ BeginConsume(r)
    BY <1>2 DEF Announce, BeginConsume, StatusMoves
  <1>3. CASE RequestDecision(r)
    <2>1. StatusMoves(a, Awaited(a))
      BY <1>a, <1>3 DEF RequestDecision, Awaited, Expired, StatusMoves, Approvals!Move,
                        Approvals!LegalMoves, ApprovalRecords
    <2> QED BY <1>a, <1>3, <2>1, OneMoves DEF RequestDecision
  <1>4. CASE DecidedApproved(r)
    <2>1. StatusMoves(a, Approved(a))
      BY <1>a, <1>4 DEF DecidedApproved, Approved, StatusMoves, Approvals!Move,
                        Approvals!LegalMoves, ApprovalRecords
    <2> QED BY <1>a, <1>4, <2>1, OneMoves DEF DecidedApproved
  <1>5. CASE DecidedDenied(r)
    <2>1. StatusMoves(a, Denied(a))
      BY <1>a, <1>5 DEF DecidedDenied, Denied, StatusMoves, Approvals!Move,
                        Approvals!LegalMoves, ApprovalRecords
    <2> QED BY <1>a, <1>5, <2>1, OneMoves DEF DecidedDenied
  <1>6. CASE DecidedExpired(r)
    BY <1>a, <1>6, ClosingMoves, OneMoves DEF DecidedExpired
  <1>7. CASE ConsumeExpired(r)
    BY <1>a, <1>7, ClosingMoves, OneMoves DEF ConsumeExpired
  <1>8. CASE ConsumeConflict(r)
    BY <1>a, <1>8, ClosingMoves, OneMoves DEF ConsumeConflict
  <1>9. CASE ConsumeExecutable(r)
    BY <1>a, <1>9, ClosingMoves, OneMoves DEF ConsumeExecutable
  <1>13. CASE BeginExecution(r)
    BY <1>a, <1>13, ClosingMoves, OneMoves DEF BeginExecution
  <1>10. CASE SubmitMutation(r)
    BY <1>a, <1>10, ClosingMoves, OneMoves DEF SubmitMutation
  <1>11. CASE MutationApplied(r)
    <2>1. a.status # "pending"
      BY <1>a, <1>11 DEF MutationApplied, ApprovalFits
    <2> QED BY <1>a, <1>11, <2>1, ClosingMoves, OneMoves DEF MutationApplied
  <1>12. CASE RequestRefused(r) \/ DecisionRejected(r) \/ ConsumeUnavailable(r) \/ ConsumeLate(r)
    BY <1>a, <1>12, ClosingMoves, OneMoves
       DEF RequestRefused, DecisionRejected, ConsumeUnavailable, ConsumeLate, End
  <1> QED
    BY <1>1, <1>2, <1>3, <1>4, <1>5, <1>6, <1>7, <1>8, <1>9, <1>10, <1>11, <1>12, <1>13
       DEF ApprovalStep

\* Every step moves every record legally, also the disposal of many at once.
LEMMA StepMoves ==
    ASSUME IInv, [Next]_vars
    PROVE  \A p \in Runs : StatusMoves(approval[p], approval'[p])
  <1>t. TypeOK /\ \A p \in Runs : approval[p] \in ApprovalRecords
    BY DEF IInv, TypeOK
  <1>u. UNCHANGED approval => \A p \in Runs : StatusMoves(approval[p], approval'[p])
    BY DEF StatusMoves
  <1>e. ASSUME NEW r \in Runs, NEW o, End(r, o)
        PROVE  \A p \in Runs : StatusMoves(approval[p], approval'[p])
    BY <1>t, <1>e, ClosingMoves, OneMoves DEF End
  <1>1. ASSUME NEW r \in Runs, TurnStep(r) \/ ToolStep(r)
        PROVE  \A p \in Runs : StatusMoves(approval[p], approval'[p])
    BY <1>1, <1>u, <1>e DEF TurnStep, Begin, Refuse, LoadHistory, Request, Delta, AcceptCall,
           RejectCall, RetryProvider, RecoverOverflow, OverflowExhausted, StreamBreaks, Unwind,
           Truncate, Complete, ToolStep, UnknownCall, RunCall, ApplyPolicy, Prepare,
           ExecuteSettles, NextTurn
  <1>2. ASSUME NEW r \in Runs, StopCancelled(r) \/ HostFails(r)
        PROVE  \A p \in Runs : StatusMoves(approval[p], approval'[p])
    BY <1>2, <1>e DEF StopCancelled, HostFails
  <1>3. ASSUME NEW r \in Runs, UserStep(r) \/ TimePasses(r) \/ TimerFires(r)
        PROVE  \A p \in Runs : StatusMoves(approval[p], approval'[p])
    <2>1. CASE Cancel(r)
      <3>1. StatusMoves(approval[r], IF approval[r].listed THEN Invalidated(approval[r])
                                                           ELSE approval[r])
        BY <1>t, ClosingMoves DEF StatusMoves
      <3> QED BY <1>t, <2>1, <3>1, OneMoves DEF Cancel
    <2>2. ASSUME NEW d \in {"approved", "denied"}, Decide(r, d)
          PROVE  \A p \in Runs : StatusMoves(approval[p], approval'[p])
      <3>1. StatusMoves(approval[r], Answered(approval[r], d))
        BY <1>t, <2>2 DEF Decide, Answered, Expired, StatusMoves, Approvals!Move,
                          Approvals!LegalMoves, ApprovalRecords
      <3> QED BY <1>t, <2>2, <3>1, OneMoves DEF Decide
    <2>3. CASE TimePasses(r) \/ TimerFires(r)
      BY <1>t, <2>3, ClosingMoves, OneMoves DEF TimePasses, TimerFires
    <2> QED BY <1>3, <2>1, <2>2, <2>3 DEF UserStep
  <1>4. CASE DisposeRouter
    BY <1>t, <1>4, ClosingMoves DEF DisposeRouter, StatusMoves
  <1>5. CASE UNCHANGED vars
    BY <1>5, <1>u DEF vars
  <1> QED
    BY <1>1, <1>2, <1>3, <1>4, <1>5, ApprovalStepMoves DEF Next, RunStep, AllEnded

\* The records the approval workflows keep follow the approval protocol: one
\* verdict at most, consumed only when approved, one request at a time.
THEOREM RefinesApprovals == Spec => LegalApprovals
  <1>1. Init => Approvals!Init
    BY DEF Init, Approvals!Init, FreshApproval
  <1>2. IInv /\ [Next]_vars =>
            [Approvals!Next]_[r \in Runs |-> approval[r].status]
    <2> SUFFICES ASSUME IInv, [Next]_vars
                 PROVE  Approvals!Next
      OBVIOUS
    <2>1. TypeOK'
      BY TypeStep DEF IInv
    <2>2. [r \in Runs |-> approval'[r].status] \in [Runs -> ApprovalStatuses]
      BY <2>1 DEF TypeOK, ApprovalRecords
    <2> QED BY <2>2, StepMoves DEF Approvals!Next, StatusMoves, ApprovalStatuses
  <1> QED BY <1>1, <1>2, Inductive, PTL DEF Spec, LegalApprovals, Approvals!Spec

-----------------------------------------------------------------------------
\* Cancellation.

\* A step of a Run touches no other Run.
LEMMA OwnStep ==
    ASSUME TypeOK, NEW r \in Runs, RunStep(r), NEW p \in Runs, p # r
    PROVE  /\ pc'[p] = pc[p]
           /\ turn'[p] = turn[p]
           /\ loop'[p] = loop[p]
           /\ approval'[p] = approval[p]
  <1> USE DEF TypeOK, Goto, Observe, ApprovalBecomes, End
  <1>1. CASE TurnStep(r)
    BY <1>1 DEF TurnStep, Begin, Refuse, LoadHistory, Request, Delta, AcceptCall, RejectCall,
                RetryProvider, RecoverOverflow, OverflowExhausted, StreamBreaks, Unwind,
                Truncate, Complete
  <1>2. CASE ToolStep(r)
    BY <1>2 DEF ToolStep, UnknownCall, RunCall, ApplyPolicy, Prepare, ExecuteSettles, NextTurn
  <1>3. CASE ApprovalStep(r)
    BY <1>3 DEF ApprovalStep, CreateApproval, Announce, RequestDecision, RequestRefused,
                DecidedApproved, DecidedDenied, DecidedExpired, DecisionRejected,
                ConsumeUnavailable, ConsumeExpired, BeginConsume, ConsumeConflict,
                ConsumeExecutable, BeginExecution, ConsumeLate, SubmitMutation,
                MutationApplied
  <1>4. CASE StopCancelled(r) \/ HostFails(r)
    BY <1>4 DEF StopCancelled, HostFails
  <1> QED BY <1>1, <1>2, <1>3, <1>4 DEF RunStep

\* An aborted Run that has begun has no step but its end.
LEMMA AbortedStepEnds ==
    ASSUME NEW r \in Runs, RunStep(r), aborted[r], pc[r] # "idle"
    PROVE  \E o \in {"failed", "cancelled"} : End(r, o)
  <1>1. CASE TurnStep(r)
    BY <1>1 DEF TurnStep, Begin, Refuse, LoadHistory, Request, Delta, AcceptCall, RejectCall,
                RetryProvider, RecoverOverflow, OverflowExhausted, StreamBreaks, Unwind,
                Truncate, Complete, Goto
  <1>2. CASE ToolStep(r)
    BY <1>2 DEF ToolStep, UnknownCall, RunCall, ApplyPolicy, Prepare, ExecuteSettles, NextTurn
  <1>3. CASE ApprovalStep(r)
    BY <1>3 DEF ApprovalStep, CreateApproval, Announce, RequestDecision, RequestRefused,
                DecidedApproved, DecidedDenied, DecidedExpired, DecisionRejected,
                ConsumeUnavailable, ConsumeExpired, BeginConsume, ConsumeConflict,
                ConsumeExecutable, BeginExecution, ConsumeLate, SubmitMutation,
                MutationApplied
  <1>4. CASE StopCancelled(r) \/ HostFails(r)
    BY <1>4 DEF StopCancelled, HostFails
  <1> QED BY <1>1, <1>2, <1>3, <1>4 DEF RunStep

\* After Cancel the only step left to a begun Run is the one that ends it.
THEOREM CancelEndsRun == Spec => CancelStopsRun
  <1> DEFINE Quiet(r) ==
          aborted[r] /\ pc[r] \notin {"idle", "ended"} =>
              /\ pc'[r] \in {pc[r], "ended"}
              /\ pc'[r] = pc[r] => turn'[r] = turn[r] /\ loop'[r] = loop[r]
              /\ approval'[r].effects = approval[r].effects
  <1>1. TypeOK /\ [Next]_vars => \A r \in Runs : Quiet(r)
    <2> SUFFICES ASSUME TypeOK, [Next]_vars, NEW r \in Runs, aborted[r],
                        pc[r] \notin {"idle", "ended"}
                 PROVE  /\ pc'[r] \in {pc[r], "ended"}
                        /\ pc'[r] = pc[r] => turn'[r] = turn[r] /\ loop'[r] = loop[r]
                        /\ approval'[r].effects = approval[r].effects
      OBVIOUS
    <2>a. approval[r] \in ApprovalRecords
      BY DEF TypeOK
    <2>1. ASSUME RunStep(r)
          PROVE  Quiet(r)
      <3>1. PICK o \in {"failed", "cancelled"} : End(r, o)
        BY <2>1, AbortedStepEnds
      <3>2. pc'[r] = "ended" /\ approval'[r] = Invalidated(approval[r])
        BY <3>1 DEF End, ApprovalBecomes, TypeOK
      <3>3. approval'[r].effects = approval[r].effects
        BY <3>2, <2>a DEF Invalidated, ApprovalRecords
      <3> QED BY <3>2, <3>3
    <2>2. ASSUME NEW p \in Runs, p # r, RunStep(p)
          PROVE  Quiet(r)
      BY <2>2, OwnStep
    <2>3. ASSUME NEW p \in Runs, UserStep(p) \/ TimePasses(p) \/ TimerFires(p)
          PROVE  Quiet(r)
      <3>1. UNCHANGED <<pc, turn, loop>>
        BY <2>3 DEF UserStep, Cancel, Decide, TimePasses, TimerFires
      <3>2. \A q \in Runs : approval[q] \in ApprovalRecords
        BY DEF TypeOK
      <3>3. \E a : ApprovalBecomes(p, a) /\ a.effects = approval[p].effects
        <4>1. CASE Cancel(p)
          <5> DEFINE closed == IF approval[p].listed THEN Invalidated(approval[p])
                                                     ELSE approval[p]
          <5>1. Invalidated(approval[p]).effects = approval[p].effects
            BY <3>2, InvalidatedKeepsEffects
          <5>2. closed.effects = approval[p].effects
            BY <5>1
          <5>3. ApprovalBecomes(p, closed)
            BY <4>1 DEF Cancel
          <5> HIDE DEF closed
          <5> QED BY <5>2, <5>3
        <4>2. ASSUME NEW d \in {"approved", "denied"}, Decide(p, d)
              PROVE  \E a : ApprovalBecomes(p, a) /\ a.effects = approval[p].effects
          <5>1. Answered(approval[p], d).effects = approval[p].effects
            BY <3>2 DEF Answered, Expired, ApprovalRecords
          <5> QED BY <4>2, <5>1 DEF Decide
        <4>3. CASE TimePasses(p)
          <5>1. [approval[p] EXCEPT !.due = TRUE].effects = approval[p].effects
            BY <3>2 DEF ApprovalRecords
          <5> QED BY <4>3, <5>1 DEF TimePasses
        <4>4. CASE TimerFires(p)
          <5>1. Expired(approval[p]).effects = approval[p].effects
            BY <3>2 DEF Expired, ApprovalRecords
          <5> QED BY <4>4, <5>1 DEF TimerFires
        <4> QED BY <2>3, <4>1, <4>2, <4>3, <4>4 DEF UserStep
      <3>4. approval'[r].effects = approval[r].effects
        BY <3>3 DEF ApprovalBecomes, TypeOK
      <3> QED BY <3>1, <3>4
    <2>4. CASE DisposeRouter
      BY <2>4, <2>a DEF DisposeRouter, Invalidated, ApprovalRecords
    <2>5. CASE UNCHANGED vars
      BY <2>5 DEF vars
    <2> QED BY <2>1, <2>2, <2>3, <2>4, <2>5 DEF Next, AllEnded
  <1> QED BY <1>1, TypeCorrect, PTL DEF Spec, CancelStopsRun
=============================================================================
