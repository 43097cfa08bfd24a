-------------------------- MODULE DiagnosticExport --------------------------
(* The export of diagnostics: the Webview asks, the Host builds the document, *)
(* lets the user choose a file, shows what it would write and writes it when  *)
(* told to. One controller serves every view there will be, and takes one     *)
(* export at a time. A document is told apart by the errors counted in it; an *)
(* export and its preview have one id; both channels keep the order.          *)
EXTENDS Integers, Sequences

CONSTANTS
    MaxExports,     \* bound: exports asked for
    MaxErrorCount,  \* the most errors a category counts
    MaxLeft         \* bound: local data cleared, views closed

VARIABLES
    exporter,   \* DiagnosticsExportController: what it prepares, keeps and writes
    errorCount, \* #errorCounts, of one category
    pane,       \* DiagnosticsExportState of the Webview
    toExporter, toPane, \* messages under way, in order
    outcome,    \* history: what became of each export
    left        \* exports asked for; local data cleared and views closed; exports left so

exportVars == <<exporter, errorCount, pane, toExporter, toPane, outcome, left>>

Exports == 1 .. MaxExports
Nothing == [req |-> 0, content |-> -1]
Idle == [status |-> "idle", req |-> 0, content |-> -1]

Init ==
    /\ exporter = [choosing |-> Nothing, pending |-> Nothing, writing |-> Nothing, isDisposed |-> FALSE]
    /\ errorCount = 0
    /\ pane = Idle /\ toExporter = <<>> /\ toPane = <<>>
    /\ outcome = [r \in Exports |-> [shown |-> -1, isConfirmed |-> FALSE, written |-> -1]]
    /\ left = [asked |-> 0, times |-> 0, exports |-> {}]

----------------------------------------------------------------------------
(* The Host. *)
\* recordErrorCategory: the count stays at its limit.
RecordError ==
    /\ errorCount' = IF errorCount < MaxErrorCount THEN errorCount + 1 ELSE errorCount
    /\ UNCHANGED <<exporter, pane, toExporter, toPane, outcome, left>>
\* Built from what is counted now; the preview and the file are this one document.
Document(req) == [req |-> req, content |-> errorCount]

Takes(kind) == toExporter # <<>> /\ Head(toExporter).kind = kind /\ toExporter' = Tail(toExporter)
Answer(status, export) ==
    toPane' = Append(toPane, [status |-> status, req |-> export.req, content |-> export.content])
Refuses(req) == Answer("error", [Nothing EXCEPT !.req = req]) /\ UNCHANGED exporter
IsFree ==
    /\ ~exporter.isDisposed
    /\ exporter.choosing = Nothing /\ exporter.pending = Nothing /\ exporter.writing = Nothing
\* request: the document may be too large, or what it is built from unreadable.
HostPrepares(isBuilt) ==
    /\ Takes("request")
    /\ IF IsFree /\ isBuilt
       THEN exporter' = [exporter EXCEPT !.choosing = Document(Head(toExporter).req)] /\ UNCHANGED toPane
       ELSE Refuses(Head(toExporter).req)
    /\ UNCHANGED <<errorCount, pane, outcome, left>>
\* Mutant: a preview that could not be shown is kept.
SettledKept(export, choice) ==
    [exporter EXCEPT !.choosing = Nothing, !.pending = IF choice = "none" THEN @ ELSE export]
\* The rest of #prepare: the dialog is closed; it, the id or the label may be refused.
Settled(export, choice) ==
    [exporter EXCEPT !.choosing = Nothing, !.pending = IF choice = "file" THEN export ELSE @]
HostChose(choice) ==
    LET export == exporter.choosing
    IN  /\ export # Nothing
        /\ IF exporter.isDisposed
           THEN exporter' = [exporter EXCEPT !.choosing = Nothing] /\ UNCHANGED toPane
           ELSE /\ exporter' = Settled(export, choice)
                /\ CASE choice = "file" -> Answer("ready", export)
                     [] choice = "none" -> Answer("cancelled", export)
                     [] OTHER -> Answer("error", export)
        /\ UNCHANGED <<errorCount, pane, toExporter, outcome, left>>
IsKept(req) ==
    /\ ~exporter.isDisposed /\ exporter.writing = Nothing
    /\ exporter.pending # Nothing /\ exporter.pending.req = req
\* Mutant: the document is built again to be written.
WritesNow(export) == Document(export.req)
Writes(export) == export
HostConfirms(isBegun) ==
    LET req == Head(toExporter).req
    IN  /\ Takes("confirm")
        /\ IF ~IsKept(req) THEN Refuses(req)
           ELSE IF isBegun
           THEN exporter' = [exporter EXCEPT !.writing = Writes(exporter.pending)] /\ UNCHANGED toPane
           ELSE exporter' = [exporter EXCEPT !.pending = Nothing] /\ Answer("error", exporter.pending)
        /\ UNCHANGED <<errorCount, pane, outcome, left>>
HostWrote(isWritten) ==
    LET export == exporter.writing
    IN  /\ export # Nothing
        /\ exporter' = [exporter EXCEPT !.writing = Nothing, !.pending = Nothing]
        /\ outcome' = IF isWritten THEN [outcome EXCEPT ![export.req].written = export.content] ELSE outcome
        /\ IF exporter.isDisposed THEN UNCHANGED toPane
           ELSE Answer(IF isWritten THEN "completed" ELSE "error", export)
        /\ UNCHANGED <<errorCount, pane, toExporter, left>>
HostCancels ==
    LET req == Head(toExporter).req
    IN  /\ Takes("cancel")
        /\ IF IsKept(req)
           THEN exporter' = [exporter EXCEPT !.pending = Nothing] /\ Answer("cancelled", exporter.pending)
           ELSE UNCHANGED <<exporter, toPane>>
        /\ UNCHANGED <<errorCount, pane, outcome, left>>

----------------------------------------------------------------------------
(* The Webview. *)
Asks(kind, req) == toExporter' = Append(toExporter, [kind |-> kind, req |-> req])
Start ==
    /\ pane.status \notin {"preparing", "ready", "exporting"} /\ left.asked < MaxExports
    /\ left' = [left EXCEPT !.asked = @ + 1]
    /\ pane' = [Idle EXCEPT !.status = "preparing", !.req = left'.asked] /\ Asks("request", left'.asked)
    /\ UNCHANGED <<exporter, errorCount, toPane, outcome>>
Confirm ==
    /\ pane.status = "ready"
    /\ pane' = [pane EXCEPT !.status = "exporting"] /\ Asks("confirm", pane.req)
    /\ outcome' = [outcome EXCEPT ![pane.req].isConfirmed = TRUE]
    /\ UNCHANGED <<exporter, errorCount, toPane, left>>
Cancel ==
    /\ pane.status = "ready"
    /\ pane' = [pane EXCEPT !.status = "cancelled"] /\ Asks("cancel", pane.req)
    /\ UNCHANGED <<exporter, errorCount, toPane, outcome, left>>
\* Mutant: the answers to any export count while there is one.
IsForPaneOfAny(message) == pane.req # 0
IsForPane(message) == message.req = pane.req
Receive ==
    LET message == Head(toPane)
        isShown == message.status = "ready" /\ IsForPane(message)
    IN  /\ toPane # <<>> /\ toPane' = Tail(toPane)
        /\ pane' = IF isShown THEN [pane EXCEPT !.status = "ready", !.content = message.content]
                   ELSE IF IsForPane(message)
                   THEN [pane EXCEPT !.status = message.status, !.content = -1]
                   ELSE pane
        /\ outcome' = IF isShown THEN [outcome EXCEPT ![pane.req].shown = message.content] ELSE outcome
        /\ UNCHANGED <<exporter, errorCount, toExporter, left>>

Leaves ==
    /\ left.times < MaxLeft
    /\ left' = [left EXCEPT !.times = @ + 1, !.exports = @ \union (1 .. left.asked)]
    /\ pane' = Idle
\* afterLocalDataCleared: the pane forgets its export, the Host is not told.
ClearLocal == Leaves /\ UNCHANGED <<exporter, errorCount, toExporter, toPane, outcome>>
\* The view is closed, another is opened: the controller that serves it is disposed of.
Reopen ==
    /\ Leaves /\ toExporter' = <<>> /\ toPane' = <<>>
    /\ exporter' = [exporter EXCEPT !.isDisposed = TRUE, !.pending = Nothing]
    /\ UNCHANGED <<errorCount, outcome>>

Next ==
    \/ RecordError
    \/ \E b \in BOOLEAN : HostPrepares(b) \/ HostConfirms(b) \/ HostWrote(b)
    \/ \E c \in {"file", "none", "refused"} : HostChose(c)
    \/ HostCancels
    \/ Start
    \/ Confirm
    \/ Cancel
    \/ Receive
    \/ ClearLocal
    \/ Reopen
ExportSpec == Init /\ [][Next]_exportVars

----------------------------------------------------------------------------
(* Properties. *)
Documents == [req : 0 .. MaxExports, content : -1 .. MaxErrorCount]
Statuses == {"idle", "preparing", "ready", "exporting", "completed", "cancelled", "error"}
\* The types of the variables.
TypeOK ==
    /\ exporter \in [choosing : Documents, pending : Documents, writing : Documents, isDisposed : BOOLEAN]
    /\ errorCount \in 0 .. MaxErrorCount
    /\ pane \in [status : Statuses, req : 0 .. MaxExports, content : -1 .. MaxErrorCount]
    /\ toExporter \in Seq([kind : {"request", "confirm", "cancel"}, req : Exports])
    /\ toPane \in Seq([status : Statuses, req : Exports, content : -1 .. MaxErrorCount])
    /\ \A r \in Exports : outcome[r].isConfirmed \in BOOLEAN
    /\ left.exports \subseteq Exports

\* docs/architecture/lifecycle.md: a file is written only when the user confirmed it, and holds what
\* the preview showed, whatever errors were counted since and whatever else was asked for.
OnlyTheShownIsWritten ==
    \A r \in Exports : outcome[r].written # -1 =>
        outcome[r].isConfirmed /\ outcome[r].written = outcome[r].shown

\* What the pane tells is so: completed, there is a file; cancelled or failed, there is none.
ToldAsItWas ==
    /\ pane.status = "completed" => outcome[pane.req].written # -1
    /\ pane.status \in {"cancelled", "error"} => outcome[pane.req].written = -1

About(req) ==
    \/ \E i \in DOMAIN toExporter : toExporter[i].req = req
    \/ \E i \in DOMAIN toPane : toPane[i].req = req
\* A pane waits only for what is under way, and the Host keeps an export only while the pane shows
\* it: what is kept keeps every other export out. Left out by name are the exports a pane forgot when
\* local data was cleared (the Host keeps them until the extension restarts).
ExportIsInSight ==
    /\ pane.status \in {"preparing", "exporting"} =>
         About(pane.req) \/ pane.req \in {exporter.choosing.req, exporter.writing.req}
    /\ exporter.pending # Nothing =>
         \/ pane.req = exporter.pending.req /\ pane.status \in {"ready", "exporting"}
         \/ About(exporter.pending.req) \/ exporter.pending.req \in left.exports
=============================================================================
