---------------------------- MODULE EditorQueries ----------------------------
(* What the read Tools ask the editor: definitions, references and symbols of *)
(* a document from the language providers, diagnostics of the active file, of *)
(* a named file or of the workspace. A query captures the workspace and the   *)
(* document, asks, and bounds what it is given item by item; between any two  *)
(* of its steps the user types, closes, switches or changes the workspace.    *)
EXTENDS Naturals, Sequences, FiniteSets, SequencesExt

CONSTANTS
    Found,          \* answers of a provider: sequences of [rank, size, where]
    MaxEntries,     \* maxIdeLanguageLocationEntries, maxIdeSymbolEntries, maxIdeDiagnosticEntries
    MaxNodes,       \* maxDocumentSymbolTraversalNodes
    TextLimit,      \* maxIdeDiagnosticAggregateCodePoints, less what the source takes
    MaxDisturbances \* bound: what the user does meanwhile

VARIABLES
    query,          \* the query, its QuerySnapshot and what it collected
    desk            \* root, trust, versions of the documents opened for the target, the editor;
                    \* wasTouched: text typed or a document opened while the provider was asked

queryVars == <<query, desk>>

LanguageKinds == {"locations", "symbols"}
DiagnosticKinds == {"active", "named", "workspace"}
IsLanguage == query.kind \in LanguageKinds
\* where is "inside", "closed" (inside, but not an open document), "outside" or "malformed".
IsInside(item) == item.where = "inside"

Init ==
    /\ query = [kind |-> "none", phase |-> "idle"]
    /\ desk = [root |-> 1, trusted |-> FALSE, versions |-> <<1>>, isOpen |-> TRUE, editor |-> 1,
               closed |-> FALSE, wasTouched |-> FALSE, disturbances |-> 0]

----------------------------------------------------------------------------
(* The user, the Run and the extension. What is found of one file is          *)
(* collected without waiting.                                                 *)
IsWaiting ==
    /\ query.phase \in {"rooting", "targeting", "asking", "collecting"}
    /\ query.phase = "collecting" => query.kind \notin {"active", "named"}
Disturbed(changed) ==
    /\ IsWaiting /\ desk.disturbances < MaxDisturbances
    /\ desk' = [changed EXCEPT !.disturbances = @ + 1]
    /\ UNCHANGED query
Touched == desk.wasTouched \/ query.phase = "asking"
Type ==
    /\ desk.isOpen
    /\ Disturbed([desk EXCEPT !.versions[Len(desk.versions)] = @ + 1, !.wasTouched = Touched])
Close == desk.isOpen /\ Disturbed([desk EXCEPT !.isOpen = FALSE, !.editor = @ + 1])
\* Another document of the same file: its versions begin anew.
Open ==
    /\ ~desk.isOpen
    /\ Disturbed([desk EXCEPT !.isOpen = TRUE, !.editor = @ + 1, !.versions = Append(@, 1),
                              !.wasTouched = Touched])
SwitchEditor == Disturbed([desk EXCEPT !.editor = @ + 1])
ChangeRoot == Disturbed([desk EXCEPT !.root = @ + 1])
Trust == ~desk.trusted /\ Disturbed([desk EXCEPT !.trusted = TRUE])
\* The Run is cancelled or the extension is deactivated.
Stop == ~desk.closed /\ Disturbed([desk EXCEPT !.closed = TRUE])

----------------------------------------------------------------------------
(* Capturing what is asked about.                                             *)
Ends(outcome) == query' = [query EXCEPT !.phase = outcome]
IsSameWorkspace == desk.root = query.root /\ desk.trusted = query.trusted
\* assertSnapshotIdentity of each service, the document's text allowed to have changed: a language
\* service wants a document open, diagnostics of the active file want that editor.
IsSameForLanguage == IsSameWorkspace /\ desk.isOpen
IsSameForDiagnostics == IsSameWorkspace /\ (query.kind = "active" => desk.editor = query.editor)
IsAlive == ~desk.closed /\ IF IsLanguage THEN IsSameForLanguage ELSE IsSameForDiagnostics
Seen == [query EXCEPT !.seen = @ \union {<<desk.root, desk.trusted>>}]

\* get_diagnostics and the language Tools: parsed, and asked of their service.
Begin(kind) ==
    /\ query.phase = "idle" /\ ~desk.closed
    /\ query' = [kind |-> kind, phase |-> "rooting", root |-> desk.root, trusted |-> desk.trusted,
                 editor |-> 0, document |-> 0, version |-> 0, stale |-> FALSE,
                 found |-> <<>>, next |-> 1, retained |-> {}, reasons |-> {}, isInside |-> FALSE,
                 chosen |-> <<>>, seen |-> {<<desk.root, desk.trusted>>}]
    /\ UNCHANGED desk
\* The root is validated; diagnostics then look at the active editor.
Rooted ==
    /\ query.phase = "rooting"
    /\ IF desk.closed \/ (query.kind = "active" /\ ~desk.isOpen) THEN Ends("unavailable")
       ELSE query' = [query EXCEPT !.phase = "targeting",
                                   !.editor = IF query.kind = "active" THEN desk.editor ELSE 0]
    /\ UNCHANGED desk
WithDocument(isKnown) ==
    [Seen EXCEPT !.phase = "asking",
                 !.document = IF isKnown THEN Len(desk.versions) ELSE 0,
                 !.version = IF isKnown THEN Last(desk.versions) ELSE 0]
\* The target is validated, or found outside. Diagnostics of a file that is not open are asked for.
CapturedForLanguage(isValid) ==
    /\ query.phase = "targeting" /\ IsLanguage
    /\ IF isValid /\ IsAlive THEN query' = WithDocument(TRUE) ELSE Ends("unavailable")
    /\ UNCHANGED desk
CapturedForDiagnostics(isValid) ==
    /\ query.phase = "targeting" /\ ~IsLanguage
    /\ IF isValid /\ IsAlive THEN query' = WithDocument(desk.isOpen /\ query.kind # "workspace")
       ELSE Ends("unavailable")
    /\ UNCHANGED desk

----------------------------------------------------------------------------
(* Asking.                                                                    *)
HasNewText == query.document # 0 /\ desk.versions[query.document] # query.version
\* Mutant: the version alone tells whether a document changed.
LanguageStaleByVersion == Last(desk.versions) # query.version
\* readStale: the document was typed into or, for a language service, is another one.
LanguageStale == Len(desk.versions) # query.document \/ HasNewText
DiagnosticsStale == HasNewText
Given(found, isStale) ==
    IF IsAlive THEN query' = [Seen EXCEPT !.phase = "collecting", !.found = found, !.stale = isStale]
    ELSE Ends("unavailable")
LanguageAnswered(found) ==
    /\ query.phase = "asking" /\ IsLanguage
    /\ Given(found, LanguageStale) /\ UNCHANGED desk
\* Diagnostics of one file are inside it.
DiagnosticsAnswered(found) ==
    /\ query.phase = "asking" /\ ~IsLanguage
    /\ query.kind # "workspace" => \A i \in DOMAIN found : found[i].where \in {"inside", "malformed"}
    /\ Given(found, DiagnosticsStale) /\ UNCHANGED desk
NotAnswered == query.phase = "asking" /\ Ends("unavailable") /\ UNCHANGED desk

----------------------------------------------------------------------------
(* Collecting: an item at a time, its range looked at in the document there   *)
(* is now, which it may no longer fit.                                        *)
Worst(items) == CHOOSE i \in items : \A j \in items : j.rank <= i.rank
WithoutWorst(items) == IF Cardinality(items) <= MaxEntries THEN items ELSE items \ {Worst(items)}
\* Mutant: of one too many the one that comes last is dropped.
RetainedFirst(item) ==
    IF Cardinality(query.retained) < MaxEntries THEN query.retained \union {item} ELSE query.retained
\* Items are retained up to a bound, equal ones once: of one too many the worst is dropped, whatever
\* the order they come in.
Retained(item) == WithoutWorst(query.retained \union {item})
IsOneTooMany(item) == Cardinality(query.retained \union {item}) > MaxEntries
Because(is, reason) == IF is THEN {reason} ELSE {}
\* A symbol tree is walked up to so many nodes.
IsCut == query.kind = "symbols" /\ query.next > MaxNodes
HasNext == query.phase = "collecting" /\ query.next <= Len(query.found) /\ ~IsCut
Item == query.found[query.next]
HasRange(fits) == fits \/ HasNewText
Passes(isValid, retained, reasons) ==
    IF desk.closed THEN Ends("unavailable")
    ELSE IF ~isValid THEN Ends("invalid")
    ELSE IF Item.where = "outside"
    THEN query' = [Seen EXCEPT !.next = @ + 1, !.reasons = @ \union {"out-of-workspace"}]
    ELSE query' = [Seen EXCEPT !.next = @ + 1, !.isInside = TRUE, !.retained = retained,
                               !.reasons = @ \union reasons]
\* A range is looked at in an open document only: what is found in one that is not open, or of a
\* named file that was not open when it was captured, ends the whole query.
CanLookAt ==
    /\ Item.where \notin {"malformed", "closed"}
    /\ query.kind = "named" => query.document # 0
CollectLocation(fits) ==
    /\ HasNext /\ query.kind = "locations" /\ HasRange(fits)
    /\ Passes(fits /\ CanLookAt, Retained(Item),
              Because(IsOneTooMany(Item), "entries"))
    /\ UNCHANGED desk
CollectSymbol(fits) ==
    /\ HasNext /\ query.kind = "symbols" /\ HasRange(fits)
    /\ Passes(fits /\ CanLookAt, query.retained \union {Item}, {})
    /\ UNCHANGED desk
CollectDiagnostic(fits) ==
    /\ HasNext /\ query.kind \in DiagnosticKinds /\ HasRange(fits)
    /\ Passes(fits /\ CanLookAt, Retained(Item), Because(IsOneTooMany(Item), "entries"))
    /\ UNCHANGED desk

----------------------------------------------------------------------------
(* What was retained is sorted, cut and fitted.                               *)
Sorted(items) == SetToSortSeq(items, LAMBDA i, j : i.rank < j.rank)
\* AggregateTextBudget: what does not fit is left out, and of diagnostics all that comes after.
Fitted(items) ==
    FoldLeft(LAMBDA done, item :
                 IF (~IsLanguage /\ done.isFull) \/ done.text + item.size > TextLimit
                 THEN [done EXCEPT !.isFull = TRUE]
                 ELSE [done EXCEPT !.chosen = Append(@, item), !.text = @ + item.size],
             [chosen |-> <<>>, text |-> 0, isFull |-> FALSE], items)
Chosen(kept, reasons) ==
    LET fitted == Fitted(kept)
    IN  [Seen EXCEPT !.phase = "ok", !.chosen = fitted.chosen,
                     !.reasons = @ \union reasons \union Because(fitted.isFull, "text")]
IsDone == query.phase = "collecting" /\ ~HasNext
\* Providers of which all is outside the workspace are not believed.
IsAllOutside == query.found # <<>> /\ ~query.isInside
EndsWith(answer) ==
    IF ~IsAlive THEN Ends("unavailable")
    ELSE IF IsAllOutside THEN Ends("invalid") ELSE query' = answer
FinishLocations ==
    /\ IsDone /\ query.kind = "locations"
    /\ EndsWith(Chosen(Sorted(query.retained), {})) /\ UNCHANGED desk
FinishSymbols ==
    LET sorted == Sorted(query.retained)
        isLong == Len(sorted) > MaxEntries
        wasCut == query.next <= Len(query.found)
    IN  /\ IsDone /\ query.kind = "symbols"
        /\ EndsWith(Chosen(IF isLong THEN SubSeq(sorted, 1, MaxEntries) ELSE sorted,
                           Because(isLong \/ wasCut, "entries")))
        /\ UNCHANGED desk
\* Mutant: the workspace is not looked at again.
FinishDiagnosticsBlindly ==
    /\ IsDone /\ query.kind \in DiagnosticKinds
    /\ query' = Chosen(Sorted(query.retained), {}) /\ UNCHANGED desk
FinishDiagnostics ==
    /\ IsDone /\ query.kind \in DiagnosticKinds
    /\ EndsWith(Chosen(Sorted(query.retained), {})) /\ UNCHANGED desk

Disturb == Type \/ Close \/ Open \/ SwitchEditor \/ ChangeRoot \/ Trust \/ Stop
Capture ==
    \/ \E kind \in LanguageKinds \union DiagnosticKinds : Begin(kind)
    \/ Rooted
    \/ \E isValid \in BOOLEAN : CapturedForLanguage(isValid) \/ CapturedForDiagnostics(isValid)
Ask == (\E found \in Found : LanguageAnswered(found) \/ DiagnosticsAnswered(found)) \/ NotAnswered
Collect == \E fits \in BOOLEAN : CollectLocation(fits) \/ CollectSymbol(fits) \/ CollectDiagnostic(fits)
Finish == FinishLocations \/ FinishSymbols \/ FinishDiagnostics
Next == Disturb \/ Capture \/ Ask \/ Collect \/ Finish
QuerySpec == Init /\ [][Next]_queryVars

----------------------------------------------------------------------------
TypeOK ==
    /\ query.phase \in {"idle", "rooting", "targeting", "asking", "collecting", "unavailable", "invalid", "ok"}
    /\ query.phase # "idle" =>
        /\ query.kind \in LanguageKinds \union DiagnosticKinds /\ query.stale \in BOOLEAN
        /\ query.reasons \subseteq {"entries", "out-of-workspace", "text"}
        /\ query.retained \subseteq UNION {ToSet(found) : found \in Found}
    /\ desk.disturbances \in 0..MaxDisturbances
\* An answer holds the first of what the provider found in the workspace, whatever the order it came
\* in and whatever was dropped on the way, and says that something was left out exactly if something
\* was (docs/protocol/ide-context.md, "Bounds").
Walked == IF query.kind = "symbols" THEN {query.found[i] : i \in 1..(query.next - 1)} ELSE ToSet(query.found)
Offered == {item \in Walked : IsInside(item)}
FirstOf(items) == {i \in items : Cardinality({j \in items : j.rank < i.rank}) < MaxEntries}
AnswerIsTheFirst ==
    query.phase = "ok" =>
        /\ query.chosen = Fitted(Sorted(FirstOf(Offered))).chosen
        /\ ToSet(query.chosen) # ToSet(query.found) => query.reasons # {}
        /\ query.reasons # {} => ToSet(query.chosen) # ToSet(query.found) \/ Len(query.found) > MaxNodes
\* All an answer is made of was read in one workspace, trusted or not.
AnswerIsOfOneWorkspace == query.phase = "ok" => Cardinality(query.seen) = 1
\* What the provider was asked about did not change while it was asked, unless the answer says so.
\* (The answer says nothing of a change that comes while it is collected, and diagnostics take no
\* notice of a file that was closed and opened again: vscode-diagnostics.ts:593.)
AnswerIsFreshOrStale ==
    query.phase \in {"collecting", "ok"} /\ query.document # 0 /\ desk.wasTouched =>
        query.stale \/ (~IsLanguage /\ Len(desk.versions) # query.document)
AnswersAreTrue == AnswerIsTheFirst /\ AnswerIsOfOneWorkspace /\ AnswerIsFreshOrStale
=============================================================================
