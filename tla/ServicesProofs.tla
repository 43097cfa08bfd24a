--------------------------- MODULE ServicesProofs ---------------------------
(***************************************************************************)
(* Theorems about the services. Each is about one part of Services: what   *)
(* moves another part leaves it as it is, so that an invariant of the part *)
(* by itself, of HostServicesProofs, UserServicesProofs or RunBudgetProofs, *)
(* is one of the services together.                                        *)
(***************************************************************************)
EXTENDS Services, HostServicesProofs, UserServicesProofs

-----------------------------------------------------------------------------
(* FileChanges.                                                            *)

\* A step of the services is a step of the files or leaves them alone.
LEMMA ChangesMove == [Next]_vars => [Changes!Next]_changesVars
  BY DEF Next, vars, ServiceMoves, RunMoves, UserMoves, InputMoves, Moves, serviceVars, changesVars

LEMMA FilesHold == Spec => []FilesInv
  <1>1. Init => FilesInv
    BY FilesInit DEF Init
  <1>2. FilesInv /\ [Next]_vars => FilesInv'
    BY ChangesMove, FilesNext
  <1> QED BY <1>1, <1>2, PTL DEF Spec

\* Whatever the application of a plan destroys, its checkpoint holds, unless the user wrote it after the
\* last look at the file, or it is the unsaved text of a file that is deleted or renamed; and the files become what the checkpoint says they became, however the plan's
\* two passes, typing, cancellation and restores interleave (workspace-edit-applier.ts, file-create-applier.ts,
\* delete-rename-applier.ts, checkpoint-store.ts).
THEOREM CheckpointHoldsWhatWasLostHolds == Spec => CheckpointHoldsWhatWasLost
  BY CheckpointStep, FilesHold, ChangesMove, PTL
     DEF Spec, CheckpointHoldsWhatWasLost, Changes!CheckpointHoldsWhatWasLost, PlanRecorded

\* A restore takes back what the plan left and nothing that was written since, unless it was written after
\* the restorer's last look at the file; and one that went through puts back what there was before the plan,
\* unless it undoes the renaming of a file with unsaved text (checkpoint-restorer.ts).
THEOREM RestoreTakesBackOnlyTheChangeHolds == Spec => RestoreTakesBackOnlyTheChange
  BY RestoreStep, FilesHold, ChangesMove, PTL
     DEF Spec, RestoreTakesBackOnlyTheChange, Changes!RestoreTakesBackOnlyTheChange, RestoreExact

-----------------------------------------------------------------------------
(* McpCatalog.                                                             *)

\* A step of the services is a step of the catalog or leaves it alone.
LEMMA CatalogMoves == [Next]_vars => [Catalog!Next]_catalogVars
  BY DEF Next, vars, ServiceMoves, RunMoves, UserMoves, InputMoves, Moves, serviceVars, catalogVars

LEMMA CatalogHolds == Spec => []CatalogInv
  <1>1. Init => CatalogInv
    BY CatalogInit DEF Init
  <1>2. CatalogInv /\ [Next]_vars => CatalogInv'
    BY CatalogMoves, CatalogNext
  <1> QED BY <1>1, <1>2, PTL DEF Spec

\* Whatever the Server changes while its list is read, and whatever the user asks for meanwhile, the
\* catalog that is on offer when all is quiet is the Server's (mcp-catalog-refresh.ts).
THEOREM CatalogSettlesHolds == Spec => []CatalogSettles
  <1>1. CatalogInv => CatalogSettles
    <2> SUFFICES ASSUME CatalogInv, catalog.context, ~catalog.running, ~catalog.failed, wire = <<>>
                 PROVE  \A i \in 1 .. Catalog!Pages : contents[catalog.value][i] = server.version
      BY DEF CatalogSettles, Catalog!CatalogSettles
    <2>1. ~Announced
      BY DEF Announced
    <2> QED BY <2>1 DEF CatalogInv, UpToDate
  <1> QED BY <1>1, CatalogHolds, PTL

\* A result of a catalog that was replaced, or of a connection that ended, is never taken
\* (mcp-tool-snapshot.ts, mcp-client.ts).
THEOREM AcceptsOnlyWhatIsOfferedHolds == Spec => AcceptsOnlyWhatIsOffered
  BY AcceptedStep, CatalogHolds, CatalogMoves, PTL
     DEF Spec, AcceptsOnlyWhatIsOffered, Catalog!AcceptsOnlyWhatIsOffered, AcceptedOffered

-----------------------------------------------------------------------------
(* McpConnection.                                                          *)

\* A step of the services is a step of the connection or leaves it alone.
LEMMA ConnectionMoves == [Next]_vars => [Connection!Next]_connectionVars
  BY DEF Next, vars, ServiceMoves, RunMoves, UserMoves, InputMoves, Moves, serviceVars, connectionVars

LEMMA ConnectionHolds == Spec => [](ConnectionInv /\ StandingInv)
  <1>1. Init => ConnectionInv /\ StandingInv
    BY ConnectionInit, StandingInit DEF Init
  <1>2. ConnectionInv /\ StandingInv /\ [Next]_vars => (ConnectionInv /\ StandingInv)'
    BY ConnectionMoves, ConnectionNext, StandingNext
  <1> QED BY <1>1, <1>2, PTL DEF Spec

\* While the panel says connected, the controller's client is connected and its Server runs, however
\* connects, disconnects, exits and late answers of earlier clients interleave, but for two cases that the
\* code has: a break of the protocol, of which the controller does not hear, and a client that was
\* forgotten by the end of an earlier one's disconnect. A connection whose configuration has changed since
\* it was up is marked as stale (mcp-connection-controller.ts, controlled-mcp-client.ts).
THEOREM ConnectedMeansLiveHolds == Spec => []ConnectedMeansLive
  <1>1. ConnectionInv /\ StandingInv => ConnectedMeansLive
    BY ConnectedStands DEF ConnectedMeansLive, StandingInv
  <1> QED BY <1>1, ConnectionHolds, PTL

\* A Server is started only in a trusted workspace, and as it is configured at that moment, which is what
\* the user approved, unless the configuration changed while the workspace was bound again
\* (mcp-connection-controller.ts).
THEOREM StartsOnlyWhatWasApprovedHolds == Spec => StartsOnlyWhatWasApproved
  BY StartedStep, ConnectionHolds, ConnectionMoves, PTL
     DEF Spec, StartsOnlyWhatWasApproved, Connection!StartsOnlyWhatWasApproved, StartedApproved

-----------------------------------------------------------------------------
(* McpPanel.                                                               *)

\* A step of the services is a step of the panel and its Host or leaves them alone.
LEMMA PanelMoves == [Next]_vars => [Panel!Next]_panelVars
  BY DEF Next, vars, ServiceMoves, RunMoves, UserMoves, InputMoves, Moves, serviceVars, panelVars

LEMMA PanelHolds == Spec => []PanelInv
  <1>1. Init => PanelInv
    BY PanelInit DEF Init
  <1>2. PanelInv /\ [Next]_vars => PanelInv'
    BY PanelMoves, PanelNext
  <1> QED BY <1>1, <1>2, PTL DEF Spec

\* Once what the Host published has arrived and the panel awaits no answer, the panel shows the
\* connection the controller has, and its catalog, however clicks, answers, messages on their way and
\* a deletion of the local data interleave (mcp-workflow.ts, mcp-store.ts).
THEOREM PanelAgreesHolds == Spec => []PanelAgrees
  <1>1. PanelInv => PanelAgrees
    BY PanelAgreeing DEF PanelAgrees
  <1> QED BY <1>1, PanelHolds, PTL

-----------------------------------------------------------------------------
(* RunBudget, of which RunBudgetProofs tells what is used here.            *)

BudgetProofs == INSTANCE RunBudgetProofs

\* A step of the services is a step of the budget or leaves it alone.
LEMMA BudgetMoves == [Next]_vars => [Budget!Next]_budgetVars
  BY DEF Next, vars, ServiceMoves, RunMoves, UserMoves, InputMoves, Moves, runVars, budgetVars

\* RunBudgetProofs speaks of the budget in the same words as Services does.
LEMMA SameBudget ==
    /\ BudgetProofs!TokenCountAssumption
    /\ Budget!Init => BudgetProofs!Init
    /\ [Budget!Next]_budgetVars => [BudgetProofs!Next]_(BudgetProofs!budgetVars)
    /\ BudgetProofs!RunStaysBelowLimit => Budget!RunStaysBelowLimit
  <1> USE DEF Budget!Unknown, BudgetProofs!Unknown, Budget!Counts, BudgetProofs!Counts,
          Budget!Fields, BudgetProofs!Fields, Budget!NoUsage, BudgetProofs!NoUsage,
          Budget!SaturatingAdd, BudgetProofs!SaturatingAdd, Budget!Larger, BudgetProofs!Larger
  <1>1. BudgetProofs!TokenCountAssumption
    BY TokenCountAssumption DEF BudgetProofs!Usages, Usages, Counts, Fields, Unknown
  <1>2. Budget!Init => BudgetProofs!Init
    BY DEF Budget!Init, BudgetProofs!Init, Budget!Configurations, BudgetProofs!Configurations
  <1>3. Budget!ObserveEstimate => BudgetProofs!ObserveEstimate
    BY DEF Budget!ObserveEstimate, BudgetProofs!ObserveEstimate, Budget!Evaluate, BudgetProofs!Evaluate,
           Budget!Effective, BudgetProofs!Effective, Budget!Actual, BudgetProofs!Actual,
           Budget!Snapshot, BudgetProofs!Snapshot
  <1>4. Budget!ObserveUsage => BudgetProofs!ObserveUsage
    <2>1. ASSUME NEW u, NEW r
          PROVE  /\ Budget!Merged(u, r) = BudgetProofs!Merged(u, r)
                 /\ Budget!Mergeable(u, r) <=> BudgetProofs!Mergeable(u, r)
      BY DEF Budget!Merged, BudgetProofs!Merged, Budget!MergedCount, BudgetProofs!MergedCount,
             Budget!Mergeable, BudgetProofs!Mergeable, Budget!Overflows, BudgetProofs!Overflows
    <2>2. ASSUME NEW u
          PROVE  /\ Budget!TotalOverflows(u) <=> BudgetProofs!TotalOverflows(u)
                 /\ Budget!UsageTokenCount(u) = BudgetProofs!UsageTokenCount(u)
      BY DEF Budget!TotalOverflows, BudgetProofs!TotalOverflows, Budget!Overflows, BudgetProofs!Overflows,
             Budget!UsageTokenCount, BudgetProofs!UsageTokenCount
    <2>3. ASSUME NEW b, NEW r
          PROVE  Budget!Accounted(b, r) = BudgetProofs!Accounted(b, r)
      BY <2>1, <2>2 DEF Budget!Accounted, BudgetProofs!Accounted, Budget!Overflowed, BudgetProofs!Overflowed
    <2>4. ASSUME NEW b, NEW estimated
          PROVE  Budget!Evaluate(b, estimated) <=> BudgetProofs!Evaluate(b, estimated)
      BY DEF Budget!Evaluate, BudgetProofs!Evaluate, Budget!Effective, BudgetProofs!Effective,
             Budget!Actual, BudgetProofs!Actual, Budget!Snapshot, BudgetProofs!Snapshot
    <2>5. ASSUME NEW r
          PROVE  Budget!HasUsage(r) <=> BudgetProofs!HasUsage(r)
      BY DEF Budget!HasUsage, BudgetProofs!HasUsage
    <2> QED BY <2>1, <2>3, <2>4, <2>5 DEF Budget!ObserveUsage, BudgetProofs!ObserveUsage
  <1>5. Budget!Abort \/ Budget!Cancelled \/ Budget!Finish
            => BudgetProofs!Abort \/ BudgetProofs!Cancelled \/ BudgetProofs!Finish
    BY DEF Budget!Abort, BudgetProofs!Abort, Budget!Cancelled, BudgetProofs!Cancelled,
           Budget!Finish, BudgetProofs!Finish
  <1>6. UNCHANGED budgetVars => UNCHANGED BudgetProofs!budgetVars
    BY DEF budgetVars, BudgetProofs!budgetVars
  <1>7. BudgetProofs!RunStaysBelowLimit => Budget!RunStaysBelowLimit
    BY DEF BudgetProofs!RunStaysBelowLimit, Budget!RunStaysBelowLimit
  <1> QED BY <1>1, <1>2, <1>3, <1>4, <1>5, <1>6, <1>7 DEF Budget!Next, BudgetProofs!Next

\* A Run of the services, too, goes on only while it has used less than its limit, whatever is
\* estimated and reported and however it is bounded (run-token-budget.ts).
THEOREM RunStaysBelowLimitHolds == Spec => []RunStaysBelowLimit
  <1>1. Init => BudgetProofs!BudgetInv
    BY SameBudget, BudgetProofs!BudgetInit DEF Init
  <1>2. BudgetProofs!BudgetInv /\ [Next]_vars => BudgetProofs!BudgetInv'
    BY SameBudget, BudgetMoves, BudgetProofs!BudgetStep
  <1>3. BudgetProofs!BudgetInv => RunStaysBelowLimit
    BY SameBudget, BudgetProofs!CountedIsBelow DEF RunStaysBelowLimit
  <1> QED BY <1>1, <1>2, <1>3, PTL DEF Spec

-----------------------------------------------------------------------------
(* TokenShares: the shares of the context window, for every window.        *)

\* What rounding down leaves over is less than one token for each of the four shares.
LEMMA LeftOver ==
    ASSUME NEW window \in Nat
    PROVE  Remainder(window) \in 0..3
<1> DEFINE a == (window * 10) \div 100
           b == (window * 50) \div 100
           c == (window * 25) \div 100
           d == (window * 15) \div 100
<1>1. /\ a \in Int /\ 100 * a <= window * 10 /\ window * 10 < 100 * a + 100
      /\ b \in Int /\ 100 * b <= window * 50 /\ window * 50 < 100 * b + 100
  BY SMT
<1>2. /\ c \in Int /\ 100 * c <= window * 25 /\ window * 25 < 100 * c + 100
      /\ d \in Int /\ 100 * d <= window * 15 /\ window * 15 < 100 * d + 100
  BY SMT
<1>3. Remainder(window) = window - (a + b + c + d)
  BY DEF Remainder, Percent
<1> HIDE DEF a, b, c, d
<1> QED
  BY <1>1, <1>2, <1>3, SMT

\* allocateTokenBudget gives the whole window away and nothing twice, so that its loop over
\* what is left never runs out of shares to add to (token-budget.ts:61).
THEOREM SharesAddUp ==
    ASSUME NEW window \in Windows
    PROVE  LET allotted == Allocate(window)
           IN  /\ allotted.system + allotted.tools + allotted.history + allotted.files = window
               /\ allotted \in [{"system", "tools", "history", "files"} -> 0..window]
<1>1. window \in Nat /\ window \in Int
  BY WindowAssumption
<1> DEFINE a == Percent(window, 10)
           b == Percent(window, 50)
           c == Percent(window, 25)
           d == Percent(window, 15)
           rest == Remainder(window)
<1>2. rest \in 0..3
  BY <1>1, LeftOver
<1>3. a \in Nat /\ b \in Nat /\ c \in Nat /\ d \in Nat
  BY <1>1, SMT DEF Percent
<1>4. rest = window - (a + b + c + d)
  BY DEF Remainder
<1>5. /\ More(window, 1) = IF rest >= 1 THEN 1 ELSE 0
      /\ More(window, 2) = IF rest >= 2 THEN 1 ELSE 0
      /\ More(window, 3) = IF rest >= 3 THEN 1 ELSE 0
      /\ More(window, 4) = IF rest >= 4 THEN 1 ELSE 0
  BY DEF More
<1>6. Allocate(window) = [system |-> a + More(window, 1), tools |-> d + More(window, 2),
                          history |-> b + More(window, 3), files |-> c + More(window, 4)]
  BY DEF Allocate
<1> HIDE DEF a, b, c, d, rest
<1>7. a + More(window, 1) + (d + More(window, 2)) + (b + More(window, 3)) + (c + More(window, 4))
          = window
  BY <1>1, <1>2, <1>3, <1>4, <1>5, SMT
<1>8. /\ a + More(window, 1) \in 0..window /\ d + More(window, 2) \in 0..window
      /\ b + More(window, 3) \in 0..window /\ c + More(window, 4) \in 0..window
  BY <1>1, <1>2, <1>3, <1>4, <1>5, SMT
<1> QED
  BY <1>6, <1>7, <1>8

-----------------------------------------------------------------------------
(* SessionDeletion, ProviderKeys, ConnectionCheck and DiagnosticExport.    *)

\* A step of the services is a step of one of these or leaves it alone.
LEMMA DeletionMoves == [Next]_vars => [Deletion!Next]_deletionVars
  BY DEF Next, vars, ServiceMoves, RunMoves, UserMoves, InputMoves, Moves, serviceVars, deletionVars
LEMMA KeysMove == [Next]_vars => [Keys!Next]_keysVars
  BY DEF Next, vars, ServiceMoves, RunMoves, UserMoves, InputMoves, Moves, userVars, keysVars
LEMMA CheckMoves == [Next]_vars => [Check!Next]_checkVars
  BY DEF Next, vars, ServiceMoves, RunMoves, UserMoves, InputMoves, Moves, userVars, checkVars
LEMMA ExportMoves == [Next]_vars => [Export!Next]_exportVars
  BY DEF Next, vars, ServiceMoves, RunMoves, UserMoves, InputMoves, Moves, userVars, exportVars

LEMMA CommandsHold == Spec => [](DeletionInv /\ KeysInv /\ CheckInv /\ ExportInv)
  <1>1. Init => DeletionInv /\ KeysInv /\ CheckInv /\ ExportInv
    BY DeletionInit, KeysInit, CheckInit, ExportInit DEF Init
  <1>2. DeletionInv /\ KeysInv /\ CheckInv /\ ExportInv /\ [Next]_vars
            => (DeletionInv /\ KeysInv /\ CheckInv /\ ExportInv)'
    BY DeletionMoves, DeletionNext, KeysMove, KeysNext, CheckMoves, CheckNext, ExportMoves, ExportNext
  <1> QED BY <1>1, <1>2, PTL DEF Spec

\* What a command tells is so: of the Sessions that are listed, deleted or cleaned up, of the keys whose
\* operations overlap with one another and with the clearing of all data, of a connection that was checked,
\* and of a file of diagnostics, which holds what was shown and confirmed (session-repository.ts,
\* provider-api-key-command.ts, provider-connection-check-command.ts, diagnostics-export.ts).
THEOREM CommandsTellWhatIsSoHolds == Spec => []CommandsTellWhatIsSo
  <1>1. DeletionInv /\ KeysInv /\ CheckInv /\ ExportInv => CommandsTellWhatIsSo
    BY DeletionTells, KeysTell, CheckTells, ExportTells DEF CommandsTellWhatIsSo
  <1> QED BY <1>1, CommandsHold, PTL
=============================================================================
