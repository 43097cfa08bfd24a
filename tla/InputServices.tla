--------------------------- MODULE InputServices ---------------------------
(* What a message or a Tool is given: files of the workspace, the text of the *)
(* editor, the queries of the language services, and the Resources and        *)
(* Prompts of an MCP Server. They share no state.                             *)
EXTENDS Integers, Sequences, FiniteSets

CONSTANTS
    Paths, MaxReferences, MaxReads, MaxChanges, MaxEndings,
    MaxCaptures, MaxMoves, MaxChats,
    Found, MaxEntries, MaxNodes, TextLimit, MaxDisturbances,
    MaxKept, MaxBoxed, MaxPeers, MaxFails

VARIABLES
    view, toKeeper, toView, keeper, texts, reached, gone,
    shownCard, toEditor, fromEditor, editor, source, used, missed,
    query, desk,
    offer, peer, inputs, toInputs, box, toBox, fate

Attaching == INSTANCE WorkspaceFiles
Editor == INSTANCE EditorContext
Queries == INSTANCE EditorQueries
Inputs == INSTANCE McpInputs

filesVars == <<view, toKeeper, toView, keeper, texts, reached, gone>>
editorVars == <<shownCard, toEditor, fromEditor, editor, source, used, missed>>
queryVars == <<query, desk>>
mcpInputVars == <<offer, peer, inputs, toInputs, box, toBox, fate>>
inputVars == <<filesVars, editorVars, queryVars, mcpInputVars>>
=============================================================================
