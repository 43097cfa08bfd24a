---------------------------- MODULE EditorContext ----------------------------
(* Text of the editor captured on demand for a message. The Host reads it     *)
(* behind a gate, owns the card it delivered, and marks it stale or clears it *)
(* when the editor moves on; the Webview shows the card and may refresh or    *)
(* remove it. What is captured is told apart by what the source looked like.  *)
(* Both channels keep the order; one view; the draft is left out.             *)
EXTENDS Integers, Sequences

CONSTANTS
    MaxCaptures,    \* bound: commands and refreshes
    MaxMoves,       \* bound: changes of the editor, its text or its selection
    MaxChats        \* bound: chats begun, Sessions restored or deleted

VARIABLES
    shownCard,      \* editor-context-store: card, capturePending and the fences of acceptEvent
    toEditor, fromEditor, \* messages under way, in order
    editor,         \* EditorViewState: session and card generation, capture, owner; transitions awaited
    source,         \* the active editor, the version of its text and its selection
    used,           \* captures, moves and chats so far
    missed          \* history: a change the owner was not told of, a chat the Host did not leave

editorVars == <<shownCard, toEditor, fromEditor, editor, source, used, missed>>

Scopes == {"selection", "active-editor"}
Reasons == {"editor-changed", "selection-changed", "document-changed"}
None == -1
NoCard == [ctx |-> 0]

Init ==
    /\ shownCard = [card |-> NoCard, pending |-> FALSE, session |-> None, minimum |-> None,
                    isClosed |-> FALSE, closedGeneration |-> None, chat |-> 0]
    /\ toEditor = <<>> /\ fromEditor = <<>>
    /\ editor = [session |-> 0, generation |-> 0, owner |-> NoCard, capture |-> NoCard,
                 awaited |-> {}, chat |-> 0]
    /\ source = [editor |-> 0, text |-> 0, selection |-> 0]
    /\ used = [captures |-> 0, moves |-> 0, chats |-> 0]
    /\ missed = [change |-> FALSE, chat |-> FALSE]

\* getSourceFingerprint: the selection counts only for a capture of it.
FingerprintOf(seen, scope) == IF scope = "selection" THEN seen ELSE [seen EXCEPT !.selection = 0]
Fingerprint(scope) == FingerprintOf(source, scope)

----------------------------------------------------------------------------
(* The Host. *)
Post(message) == fromEditor' = Append(fromEditor, message)
Told(status, owner) ==
    [status |-> status, session |-> editor.session, generation |-> owner.generation, ctx |-> owner.ctx,
     scope |-> owner.scope, seen |-> owner.seen, chat |-> owner.chat]
Unavailable == [status |-> "unavailable", session |-> editor.session, generation |-> 0]

\* #capture: the editor, its document, its version and its selection as they are now.
Captured == source
\* A capture replaces the one there is: its gate is closed, whatever it reads is dropped.
NewCapture(ctx, scope) ==
    [ctx |-> ctx, scope |-> scope, at |-> "asking", seen |-> Fingerprint(scope),
     read |-> Captured, chat |-> editor.chat]
IsCapture == used.captures < MaxCaptures /\ used' = [used EXCEPT !.captures = @ + 1]
AskAbout(scope) ==
    /\ IsCapture /\ editor' = [editor EXCEPT !.capture = NewCapture(used'.captures, scope)]
    /\ UNCHANGED <<shownCard, toEditor, fromEditor, source, missed>>
CaptureStarts(isAvailable) ==
    /\ editor.capture # NoCard /\ editor.capture.at = "asking"
    /\ IF isAvailable
       THEN /\ editor' = [editor EXCEPT !.capture.at = "reading", !.capture.read = Captured]
            /\ UNCHANGED fromEditor
       ELSE editor' = [editor EXCEPT !.capture = NoCard] /\ Post(Unavailable)
    /\ UNCHANGED <<shownCard, toEditor, source, used, missed>>
\* #assertOwner: the editor and the document are still those that were captured.
IsOwned(capture) == source.editor = capture.read.editor
\* Delivered only if nothing changed: neither while it was read, nor since it was asked for.
IsUnchanged(capture) ==
    /\ Fingerprint(capture.scope) = FingerprintOf(capture.read, capture.scope)
    /\ Fingerprint(capture.scope) = capture.seen
\* Another editor, or a failed read, is told; a changed text is not.
CaptureEnds(isRead) ==
    LET capture == editor.capture
        owner == [ctx |-> capture.ctx, scope |-> capture.scope, generation |-> editor.generation + 1,
                  seen |-> Fingerprint(capture.scope), isStale |-> FALSE, chat |-> capture.chat]
    IN  /\ capture # NoCard /\ capture.at = "reading"
        /\ IF ~isRead \/ ~IsOwned(capture)
           THEN /\ editor' = [editor EXCEPT !.capture = NoCard] /\ Post(Unavailable)
                /\ UNCHANGED missed
           ELSE IF IsUnchanged(capture)
           THEN /\ editor' = [editor EXCEPT !.capture = NoCard, !.generation = @ + 1, !.owner = owner]
                /\ Post(Told("ready", [owner EXCEPT !.seen = FingerprintOf(capture.read, capture.scope)]))
                /\ missed' = [missed EXCEPT !.change = FALSE]
           ELSE editor' = [editor EXCEPT !.capture = NoCard] /\ UNCHANGED <<fromEditor, missed>>
        /\ UNCHANGED <<shownCard, toEditor, source, used>>

\* Mutant: the text of the selection is taken to be the selection.
AffectsByName(reason, scope) ==
    reason = "editor-changed" \/ (scope = "selection") = (reason = "selection-changed")
\* transitionAffectsScope: a whole file is the same file whatever is selected in it.
Affects(reason, scope) == scope = "selection" \/ reason # "selection-changed"
\* notifyHostTransition: the newest transition alone is followed up, once it is known whether the
\* source may still be read (a selection that changes overtakes the text that was typed).
Move(reason) ==
    /\ used.moves < MaxMoves /\ used' = [used EXCEPT !.moves = @ + 1]
    /\ source' = CASE reason = "editor-changed" -> [source EXCEPT !.editor = @ + 1]
                   [] reason = "document-changed" -> [source EXCEPT !.text = @ + 1]
                   [] OTHER -> [source EXCEPT !.selection = 1 - @]
    /\ editor' = [editor EXCEPT !.awaited = {reason}]
    /\ missed' = [missed EXCEPT !.change = @ \/ \E r \in editor.awaited, scope \in Scopes :
                                                  Affects(r, scope) /\ ~Affects(reason, scope)]
    /\ UNCHANGED <<shownCard, toEditor, fromEditor>>
Transition(reason) ==
    LET owner == editor.owner
        isStale == owner # NoCard /\ ~owner.isStale /\ Affects(reason, owner.scope)
        isClosed == editor.capture # NoCard /\ Affects(reason, editor.capture.scope)
    IN  /\ reason \in editor.awaited
        /\ editor' = [editor EXCEPT !.awaited = {}, !.capture = IF isClosed THEN NoCard ELSE @,
                                    !.owner = IF isStale THEN [@ EXCEPT !.isStale = TRUE] ELSE @]
        /\ IF isStale THEN Post(Told("stale", owner)) ELSE UNCHANGED fromEditor
        /\ UNCHANGED <<shownCard, toEditor, source, used, missed>>
Cleared ==
    /\ editor' = [editor EXCEPT !.awaited = {}, !.capture = NoCard, !.owner = NoCard,
                                !.generation = IF editor.owner = NoCard THEN @ ELSE @ + 1]
    /\ IF editor.owner = NoCard THEN UNCHANGED fromEditor ELSE Post(Told("cleared", editor.owner))
\* The source of an awaited transition may no longer be read.
TransitionInvalidates ==
    /\ editor.awaited # {} /\ Cleared
    /\ UNCHANGED <<shownCard, toEditor, source, used, missed>>
\* No editor, another workspace, no trust, the setting turned off.
Invalidate ==
    /\ used.moves < MaxMoves /\ used' = [used EXCEPT !.moves = @ + 1]
    /\ source' = [source EXCEPT !.editor = @ + 1]
    /\ Cleared
    /\ UNCHANGED <<shownCard, toEditor, missed>>

HasNext(kind) == toEditor # <<>> /\ Head(toEditor).kind = kind /\ toEditor' = Tail(toEditor)
\* A refresh of the Session there is, of the scope there is.
HostRefreshes ==
    LET message == Head(toEditor)
    IN  /\ HasNext("refresh")
        /\ IF message.session = editor.session /\ editor.owner # NoCard /\ editor.owner.scope = message.scope
           THEN editor' = [editor EXCEPT !.capture = NewCapture(message.id, message.scope)]
           ELSE UNCHANGED editor
        /\ UNCHANGED <<shownCard, fromEditor, source, used, missed>>
\* Mutant: whatever card there is is removed.
MatchesAny(message) == message.session = editor.session /\ editor.owner # NoCard
MatchesOwner(message) ==
    /\ message.session = editor.session /\ editor.owner # NoCard
    /\ editor.owner.generation = message.generation /\ editor.owner.ctx = message.ctx
HostRemoves ==
    /\ HasNext("remove")
    /\ editor' = IF MatchesOwner(Head(toEditor))
                 THEN [editor EXCEPT !.capture = NoCard, !.owner = NoCard, !.generation = @ + 1]
                 ELSE editor
    /\ UNCHANGED <<shownCard, fromEditor, source, used, missed>>
\* New chat, a restore, a deletion: the Host leaves the chat, unless it is busy with the history.
HostLeaves(isBusy) ==
    /\ HasNext("leave")
    /\ editor' = IF isBusy THEN [editor EXCEPT !.chat = @ + 1]
                 ELSE [editor EXCEPT !.capture = NoCard, !.owner = NoCard, !.session = @ + 1,
                                     !.generation = 0, !.chat = @ + 1]
    /\ missed' = [missed EXCEPT !.chat = @ \/ isBusy]
    /\ UNCHANGED <<shownCard, fromEditor, source, used>>

----------------------------------------------------------------------------
(* The Webview. *)
Ask(kind, card) ==
    toEditor' = Append(toEditor, [kind |-> kind, session |-> shownCard.session, ctx |-> card.ctx,
                                  generation |-> card.generation, scope |-> card.scope, id |-> used'.captures])
WithoutCard(state) == [state EXCEPT !.card = NoCard, !.pending = FALSE]
Closed(state) ==
    [WithoutCard(state) EXCEPT
       !.isClosed = TRUE,
       !.closedGeneration = IF shownCard.card = NoCard THEN None ELSE shownCard.card.generation]
RefreshCard ==
    /\ shownCard.card # NoCard /\ IsCapture
    /\ shownCard' = [shownCard EXCEPT !.pending = TRUE] /\ Ask("refresh", shownCard.card)
    /\ UNCHANGED <<fromEditor, editor, source, missed>>
RemoveCard ==
    /\ shownCard.card # NoCard /\ UNCHANGED used
    /\ shownCard' = Closed(shownCard) /\ Ask("remove", shownCard.card)
    /\ UNCHANGED <<fromEditor, editor, source, missed>>
\* New chat clears the card, a restore expects a later Session of the Host too, a deletion leaves
\* the card as it is.
Leave(how) ==
    /\ used.chats < MaxChats /\ used' = [used EXCEPT !.chats = @ + 1]
    /\ shownCard' = [(CASE how = "new" -> Closed(shownCard)
                        [] how = "restore" ->
                             [Closed(shownCard) EXCEPT
                                !.minimum = IF shownCard.session = None THEN 1 ELSE shownCard.session + 1]
                        [] OTHER -> shownCard) EXCEPT !.chat = @ + 1]
    /\ toEditor' = Append(toEditor, [kind |-> "leave"])
    /\ UNCHANGED <<fromEditor, editor, source, missed>>
\* acceptEvent: the fences after a message, and whether it counts.
Fenced(message) ==
    LET isNewer == shownCard.session = None \/ message.session > shownCard.session
        seen == IF shownCard.session # None /\ isNewer THEN WithoutCard(shownCard) ELSE shownCard
    IN  IF shownCard.minimum # None /\ message.session < shownCard.minimum THEN seen
        ELSE IF isNewer
        THEN [seen EXCEPT !.session = message.session, !.isClosed = FALSE, !.closedGeneration = None,
                          !.minimum = IF shownCard.session = None THEN None ELSE @]
        ELSE seen
Counts(message, fenced) ==
    /\ shownCard.minimum = None \/ message.session >= shownCard.minimum
    /\ message.session = fenced.session
    /\ fenced.isClosed => /\ message.status = "ready"
                          /\ fenced.closedGeneration # None => message.generation > fenced.closedGeneration
IsCardOf(card, message) == card.ctx = message.ctx /\ card.generation = message.generation
CardReceives ==
    LET message == Head(fromEditor)
        fenced == Fenced(message)
    IN  /\ fromEditor # <<>> /\ fromEditor' = Tail(fromEditor)
        /\ shownCard' =
             IF ~Counts(message, fenced) THEN fenced
             ELSE IF message.status = "unavailable" THEN [fenced EXCEPT !.pending = FALSE]
             ELSE IF message.status = "ready"
             THEN [fenced EXCEPT !.pending = FALSE, !.isClosed = FALSE, !.closedGeneration = None,
                     !.card = [ctx |-> message.ctx, generation |-> message.generation, scope |-> message.scope,
                               seen |-> message.seen, isStale |-> FALSE, chat |-> message.chat]]
             ELSE IF fenced.card = NoCard \/ ~IsCardOf(fenced.card, message) THEN fenced
             ELSE IF message.status = "stale" THEN [fenced EXCEPT !.pending = FALSE, !.card.isStale = TRUE]
             ELSE [WithoutCard(fenced) EXCEPT !.isClosed = TRUE, !.closedGeneration = message.generation]
        /\ UNCHANGED <<toEditor, editor, source, used, missed>>

Next ==
    \/ \E scope \in Scopes : AskAbout(scope)
    \/ \E is \in BOOLEAN : CaptureStarts(is) \/ CaptureEnds(is) \/ HostLeaves(is)
    \/ \E reason \in Reasons : Move(reason) \/ Transition(reason)
    \/ TransitionInvalidates \/ Invalidate
    \/ HostRefreshes \/ HostRemoves
    \/ RefreshCard \/ RemoveCard \/ CardReceives
    \/ \E how \in {"new", "restore", "delete"} : Leave(how)
EditorSpec == Init /\ [][Next]_editorVars

----------------------------------------------------------------------------
TypeOK ==
    /\ shownCard.session \in None..MaxChats /\ shownCard.minimum \in None..(MaxChats + 1)
    /\ editor.session \in 0..MaxChats /\ editor.awaited \subseteq Reasons
    /\ editor.owner.ctx \in 0..MaxCaptures /\ editor.capture.ctx \in 0..MaxCaptures
IsQuiet == toEditor = <<>> /\ fromEditor = <<>> /\ editor.awaited = {}
\* Once all messages are handled the card is the one the Host owns, whatever was refreshed, removed
\* or invalidated meanwhile. A card captured before the chat was left may stay or still come, and a
\* Host too busy to leave it keeps its card.
CardIsTheOwners ==
    IsQuiet =>
        \/ shownCard.card.ctx = editor.owner.ctx
        \/ missed.chat
        \/ shownCard.card # NoCard /\ shownCard.card.chat < shownCard.chat
\* And a card of the Host's that is not marked stale shows the source as it is now. Known not to
\* hold of a whole file when the selection changed before the change of its text was followed up
\* (editor-context-entry.ts:211: typing changes both).
ReadyMeansCurrent ==
    IsQuiet /\ shownCard.card # NoCard /\ shownCard.card.ctx = editor.owner.ctx =>
        \/ shownCard.card.isStale
        \/ shownCard.card.seen = Fingerprint(shownCard.card.scope)
        \/ shownCard.card.scope = "active-editor" /\ missed.change
=============================================================================
