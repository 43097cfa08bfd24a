------------------------------ MODULE Services ------------------------------
(* The services of the extension that share no state with one another and     *)
(* meet the rest only through the calls their modules enumerate. One run      *)
(* checks them all: `part` says which of them moves, the others stay as they  *)
(* start. No variable of one is read by another, so that what holds of each   *)
(* alone holds of any interleaving of them.                                   *)
EXTENDS HostServices, RunServices, UserServices, InputServices

VARIABLE part

Parts == {"changes", "connection", "catalog", "panel", "command", "deletion",
          "budget", "reasoning", "history", "context", "model", "keys", "check", "onboarding", "export",
          "files", "editor", "queries", "inputs"}
\* The parts that stay put start in one state each.
Init ==
    /\ part \in Parts
    /\ Changes!Init
    /\ part # "changes" => disk = [f \in Files |-> [saved |-> "old", text |-> "old", version |-> 0]]
    /\ Connection!Init
    /\ Catalog!Init
    /\ Panel!Init
    /\ part # "panel" => mcp.oversized = 0
    /\ Command!Init
    /\ Deletion!Init
    /\ part # "deletion" => saved = [s \in Sessions |-> "gone"] /\ records = {}
    /\ Budget!Init
    /\ part # "budget" => budget.warning = MaxTokenCount
    /\ Reasoning!Init
    /\ History!Init
    /\ IF part = "context" THEN Context!Init
       ELSE shares = <<>> /\ transcript = <<>> /\ request = <<>> /\ asking = "refused"
    /\ Model!Init
    /\ Keys!Init
    /\ Check!Init
    /\ part # "check" => target = "dedicated"
    /\ Onboarding!Init
    /\ Export!Init
    /\ Attaching!Init
    /\ Editor!Init
    /\ Queries!Init
    /\ Inputs!Init
    /\ part # "inputs" => offer = "resource"

\* An action moves one of the parts: the services proper, those of a Run and its Session, and
\* those of the user's settings and choices, and those of what a message or a Tool is given.
Moves(chosen) == part = chosen /\ UNCHANGED part
ServiceMoves ==
    \/ Moves("changes") /\ Changes!Next /\ UNCHANGED <<connectionVars, catalogVars, panelVars, commandVars, deletionVars>>
    \/ Moves("connection") /\ Connection!Next /\ UNCHANGED <<changesVars, catalogVars, panelVars, commandVars, deletionVars>>
    \/ Moves("catalog") /\ Catalog!Next /\ UNCHANGED <<changesVars, connectionVars, panelVars, commandVars, deletionVars>>
    \/ Moves("panel") /\ Panel!Next /\ UNCHANGED <<changesVars, connectionVars, catalogVars, commandVars, deletionVars>>
    \/ Moves("command") /\ Command!Next /\ UNCHANGED <<changesVars, connectionVars, catalogVars, panelVars, deletionVars>>
    \/ Moves("deletion") /\ Deletion!Next
       /\ UNCHANGED <<changesVars, connectionVars, catalogVars, panelVars, commandVars>>
RunMoves ==
    \/ Moves("budget") /\ Budget!Next /\ UNCHANGED <<reasoningVars, historyVars, contextVars, modelVars>>
    \/ Moves("reasoning") /\ Reasoning!Next /\ UNCHANGED <<budgetVars, historyVars, contextVars, modelVars>>
    \/ Moves("history") /\ History!Next /\ UNCHANGED <<budgetVars, reasoningVars, contextVars, modelVars>>
    \/ Moves("context") /\ Context!Next /\ UNCHANGED <<budgetVars, reasoningVars, historyVars, modelVars>>
    \/ Moves("model") /\ Model!Next /\ UNCHANGED <<budgetVars, reasoningVars, historyVars, contextVars>>
UserMoves ==
    \/ Moves("keys") /\ Keys!Next /\ UNCHANGED <<checkVars, onboardingVars, exportVars>>
    \/ Moves("check") /\ Check!Next /\ UNCHANGED <<keysVars, onboardingVars, exportVars>>
    \/ Moves("onboarding") /\ Onboarding!Next /\ UNCHANGED <<keysVars, checkVars, exportVars>>
    \/ Moves("export") /\ Export!Next /\ UNCHANGED <<keysVars, checkVars, onboardingVars>>
InputMoves ==
    \/ Moves("files") /\ Attaching!Next /\ UNCHANGED <<editorVars, queryVars, mcpInputVars>>
    \/ Moves("editor") /\ Editor!Next /\ UNCHANGED <<filesVars, queryVars, mcpInputVars>>
    \/ Moves("queries") /\ Queries!Next /\ UNCHANGED <<filesVars, editorVars, mcpInputVars>>
    \/ Moves("inputs") /\ Inputs!Next /\ UNCHANGED <<filesVars, editorVars, queryVars>>
Next ==
    \/ ServiceMoves /\ UNCHANGED <<runVars, userVars, inputVars>>
    \/ RunMoves /\ UNCHANGED <<serviceVars, userVars, inputVars>>
    \/ UserMoves /\ UNCHANGED <<serviceVars, runVars, inputVars>>
    \/ InputMoves /\ UNCHANGED <<serviceVars, runVars, userVars>>

vars == <<part, serviceVars, runVars, userVars, inputVars>>
Spec == Init /\ [][Next]_vars

----------------------------------------------------------------------------
(* What is asked of a part is asked while it moves: one that stays is in a    *)
(* state it also starts to move from.                                         *)
\* Every part keeps its types.
TypeOK ==
    CASE part = "changes" -> Changes!TypeOK
      [] part = "connection" -> Connection!TypeOK
      [] part = "catalog" -> Catalog!TypeOK
      [] part = "panel" -> Panel!TypeOK
      [] part = "command" -> Command!TypeOK
      [] part = "deletion" -> Deletion!TypeOK
      [] part = "budget" -> Budget!TypeOK
      [] part = "reasoning" -> Reasoning!TypeOK
      [] part = "history" -> History!TypeOK
      [] part = "context" -> Context!TypeOK
      [] part = "model" -> Model!TypeOK
      [] part = "keys" -> Keys!TypeOK
      [] part = "check" -> Check!TypeOK
      [] part = "onboarding" -> Onboarding!TypeOK
      [] part = "export" -> Export!TypeOK
      [] part = "files" -> Attaching!TypeOK
      [] part = "editor" -> Editor!TypeOK
      [] part = "queries" -> Queries!TypeOK
      [] part = "inputs" -> Inputs!TypeOK
\* The properties, each stated in the module of its part: FileChanges,
CheckpointHoldsWhatWasLost == Changes!CheckpointHoldsWhatWasLost
\* FileChanges again: a restore undoes the change and nothing written since,
RestoreTakesBackOnlyTheChange == Changes!RestoreTakesBackOnlyTheChange
\* McpConnection: a connection that is shown is alive, and as configured or marked,
ConnectedMeansLive ==
    part = "connection" => Connection!ConnectedMeansLive /\ Connection!ChangesAreMarked
\* and only an approved Server is started.
StartsOnlyWhatWasApproved == Connection!StartsOnlyWhatWasApproved
\* McpCatalog: a catalog at rest is the Server's,
CatalogSettles == part = "catalog" => Catalog!CatalogSettles
\* and results of a replaced one are refused,
AcceptsOnlyWhatIsOffered == Catalog!AcceptsOnlyWhatIsOffered
\* McpPanel: the panel and the Host agree when all is quiet,
PanelAgrees == part = "panel" => Panel!PanelAgrees
\* CommandProcess and EditorQueries: a Tool's result is what the process did, or what the editor's
\* services found.
ToolResultsAreTrue ==
    /\ part = "command" => Command!OutcomeIsTrue
    /\ part = "queries" => Queries!AnswersAreTrue
\* RunBudget: a Run that goes on has used less than its limit.
RunStaysBelowLimit == part = "budget" => Budget!RunStaysBelowLimit
\* ReasoningStream and ModelStream: a Run tells what the Provider sent, once and in its order, and a
\* restore shows the reasoning that was shown.
RunTellsWhatWasSent ==
    /\ part = "reasoning" => Reasoning!RestoredIsShown
    /\ part = "model" => Model!ToldIsWhatWasSent /\ Model!BlocksAreTheRuns /\ Model!WaitIsAsAsked
\* SessionHistory: a restore shows the conversation,
RestoreShowsTheConversation == part = "history" => History!RestoreShowsTheConversation
\* and so does what a Run is told.
RunIsToldTheConversation == part = "history" => History!RunIsToldTheConversation
\* ContextWindow: a request is the recent part of what there is to send.
RequestIsTheRecentPart == part = "context" => Context!RequestIsTheRecentPart
\* ProviderKeys, ConnectionCheck, SessionDeletion and DiagnosticExport: what a command tells is so,
\* of a Provider's key, of its connection, of the Sessions that are listed or removed, and of the
\* diagnostics that are written.
CommandsTellWhatIsSo ==
    /\ part = "deletion" => /\ Deletion!DeletedIsGone /\ Deletion!NothingStaysUntold
                            /\ Deletion!ListedAreThere /\ Deletion!OnlyExpiredGo
    /\ part = "keys" => Keys!KeysFollowOperations
    /\ part = "check" => Check!ReportIsTrue
    /\ part = "export" => Export!OnlyTheShownIsWritten /\ Export!ToldAsItWas /\ Export!ExportIsInSight
\* ProviderOnboarding, WorkspaceFiles, EditorContext and McpInputs: a card waits only while it has a
\* reason to, the one of the settings shows no older ones than before, the one of the editor is the
\* Host's and shows the editor as it is, and what is shown as attached is what the Host keeps.
CardsAgreeWithTheHost ==
    /\ part = "onboarding" => Onboarding!WaitsWithReason /\ Onboarding!StatusNeverGoesBack
    /\ part = "files" => Attaching!WaitsForAnAnswer
    /\ part = "editor" => Editor!CardIsTheOwners /\ Editor!ReadyMeansCurrent
    /\ part = "inputs" => Inputs!ShownIsKept /\ Inputs!PreviewIsOfNow
\* WorkspaceFiles and McpInputs: a message is sent with what is shown and was asked for, and what is
\* kept for it was read on the connection there is.
InputsAreAsShown ==
    [][/\ part = "files" => Attaching!GivenWasShown /\ Attaching!ShownIsGiven
       /\ part = "inputs" => Inputs!GivenWasAsked /\ Inputs!KeptIsCurrent]_vars
=============================================================================
