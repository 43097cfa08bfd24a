---------------------------- MODULE RunServices ----------------------------
(* What serves one Run and its Session: the stream of the model, the token    *)
(* budget, reasoning, the history it is told and the part of it that is sent. *)
(* They share no state.                                                       *)
EXTENDS TokenCounts, TokenShares, Sequences, FiniteSets

CONSTANTS
    Sources, Texts, DeltaLimit, BlockLimit, RunLimit, MaxBlocks, MaxTurns, MaxThought,
    MaxQuestions, MaxToolCalls,
    Histories, Attached, Frame, Weights, MaxSteps,
    MaxRetries, LongestWait, Waits, MaxParts, MaxInvocations

VARIABLES
    budget, snapshots, observed,
    stream, thoughts, thoughtLog, shown,
    events, status, turns, current,
    shares, transcript, request, asking,
    feed, retrying, answer, told

Budget == INSTANCE RunBudget
Reasoning == INSTANCE ReasoningStream
History == INSTANCE SessionHistory
Context == INSTANCE ContextWindow
Model == INSTANCE ModelStream

budgetVars == <<budget, snapshots, observed>>
reasoningVars == <<stream, thoughts, thoughtLog, shown>>
historyVars == <<events, status, turns, current>>
contextVars == <<shares, transcript, request, asking>>
modelVars == <<feed, retrying, answer, told>>
runVars == <<budgetVars, reasoningVars, historyVars, contextVars, modelVars>>
=============================================================================
