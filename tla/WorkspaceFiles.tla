---------------------------- MODULE WorkspaceFiles ----------------------------
(* Files referenced with @ in a message: the Webview shows a card for each,   *)
(* the Host keeps what it read of it and gives it to the next Run. A file may *)
(* change at any time; the Host marks what it keeps as stale when it hears of *)
(* it, and leaves it out of the message unless the user accepted it so. What  *)
(* a file holds is told apart by its version.                                 *)
EXTENDS Naturals, Sequences, FiniteSets, SequencesExt

CONSTANTS
    Paths,          \* files of the workspace
    MaxReferences,  \* maxWorkspaceFileReferences
    MaxReads,       \* bound: searches, reads and refreshes the user asks for
    MaxChanges,     \* bound: changes of the files
    MaxEndings      \* bound: chats begun, Sessions deleted and workspace changes; messages sent after

VARIABLES
    view,           \* workspace-file-reference-store: cards, pending reads, closed references, search
    toKeeper, toView, \* messages under way, in order
    keeper,         \* WorkspaceFileReferenceActions: states, reads, removed references
    texts,          \* version of each file
    reached,        \* requests, endings and changes so far
    gone            \* history: reads the Host gave up and references it let go without a word,
                    \* files it keeps twice or beside the cards

filesVars == <<view, toKeeper, toView, keeper, texts, reached, gone>>

Init ==
    /\ view = [cards |-> {}, reads |-> {}, closed |-> {}, search |-> 0]
    /\ toKeeper = <<>> /\ toView = <<>>
    /\ keeper = [states |-> {}, reads |-> {}, removed |-> {}]
    /\ texts = [p \in Paths |-> 1]
    /\ reached = [reads |-> 0, endings |-> 0, changes |-> 0]
    /\ gone = [reads |-> {}, references |-> {}, unseen |-> {}]

Ids(records) == {r.id : r \in records}
Of(records, ref) == {r \in records : r.ref = ref}
About(records, path) == {r \in records : r.path = path}

----------------------------------------------------------------------------
(* The Webview. *)
Ask(message) == toKeeper' = Append(toKeeper, message)
IsRequest == reached.reads < MaxReads /\ reached' = [reached EXCEPT !.reads = @ + 1]
IsEnding == reached.endings < MaxEndings /\ reached' = [reached EXCEPT !.endings = @ + 1]
IsSending == reached.endings <= MaxEndings /\ reached' = [reached EXCEPT !.endings = MaxEndings + 1]

Search ==
    /\ IsRequest /\ view' = [view EXCEPT !.search = reached'.reads]
    /\ Ask([kind |-> "search", id |-> reached'.reads])
    /\ UNCHANGED <<toView, keeper, texts, gone>>
ClearSearch ==
    /\ view.search # 0 /\ view' = [view EXCEPT !.search = 0]
    /\ UNCHANGED <<toKeeper, toView, keeper, texts, reached, gone>>
Read(path) ==
    /\ IsRequest
    /\ view' = [view EXCEPT !.reads = @ \union {[id |-> reached'.reads, ref |-> 0]}]
    /\ Ask([kind |-> "read", id |-> reached'.reads, path |-> path])
    /\ UNCHANGED <<toView, keeper, texts, gone>>
Refresh(card) ==
    /\ IsRequest
    /\ view' = [view EXCEPT !.reads = @ \union {[id |-> reached'.reads, ref |-> card.ref]}]
    /\ Ask([kind |-> "refresh", id |-> reached'.reads, ref |-> card.ref])
    /\ UNCHANGED <<toView, keeper, texts, gone>>
RemoveCard(card) ==
    /\ view' = [view EXCEPT !.cards = @ \ Of(@, card.ref), !.closed = @ \union {card.ref},
                            !.reads = @ \ Of(@, card.ref)]
    /\ Ask([kind |-> "remove", ref |-> card.ref])
    /\ UNCHANGED <<toView, keeper, texts, reached, gone>>
UseStale(card) ==
    /\ card.stale /\ ~card.accepted
    /\ view' = [view EXCEPT !.cards = (@ \ {card}) \union {[card EXCEPT !.accepted = TRUE]}]
    /\ Ask([kind |-> "useStale", ref |-> card.ref])
    /\ UNCHANGED <<toView, keeper, texts, reached, gone>>

CanSend ==
    /\ view.search = 0 /\ view.reads = {}
    /\ \A card \in view.cards : card.stale => card.accepted
\* The cards stay when the message is sent (app.tsx, handleSubmit).
Submit ==
    /\ CanSend /\ IsSending
    /\ Ask([kind |-> "submit", shown |-> view.cards])
    /\ UNCHANGED <<view, toView, keeper, texts, gone>>
\* New chat and a restore begin with no cards, a deletion leaves those there are.
Leave(keepsCards) ==
    /\ IsEnding
    /\ view' = IF keepsCards THEN view
               ELSE [cards |-> {}, reads |-> {}, closed |-> {}, search |-> 0]
    /\ Ask([kind |-> "clear"])
    /\ UNCHANGED <<toView, keeper, texts, gone>>

\* upsertCard: one card of a reference, and one of a path.
Upserted(card) == (view.cards \ (Of(view.cards, card.ref) \union About(view.cards, card.path)))
                  \union {card}
\* A stale card that was accepted stays accepted, whatever made it stale again.
CardOf(message) ==
    [ref |-> message.ref, path |-> message.path, text |-> message.text, stale |-> message.stale,
     accepted |-> message.stale /\ \E card \in Of(view.cards, message.ref) : card.accepted]
Concerns(message) ==
    {message.ref} \union {read.ref : read \in {r \in view.reads : r.id = message.id}}
IsExpected(message) == message.id \in Ids(view.reads) \/ Of(view.cards, message.ref) # {}
\* Mutant: a closed reference may come back.
CardsAfterReopening(message) ==
    CASE message.kind = "removed" -> view.cards \ Of(view.cards, message.ref)
      [] message.kind = "shown" /\ IsExpected(message) -> Upserted(CardOf(message))
      [] OTHER -> view.cards
CardsAfter(message) ==
    CASE Concerns(message) \intersect view.closed # {} -> view.cards
      [] message.kind = "removed" -> view.cards \ Of(view.cards, message.ref)
      [] message.kind = "shown" /\ IsExpected(message) -> Upserted(CardOf(message))
      [] OTHER -> view.cards
ViewReceives ==
    LET message == Head(toView)
    IN  /\ toView # <<>> /\ toView' = Tail(toView)
        /\ view' = IF message.kind = "found"
                   THEN [view EXCEPT !.search = IF @ = message.id THEN 0 ELSE @]
                   ELSE [view EXCEPT
                           !.cards = CardsAfter(message),
                           !.reads = {r \in @ : /\ r.id # message.id
                                                /\ message.kind = "removed" => r.ref # message.ref},
                           !.closed = IF message.kind = "removed" THEN @ \union {message.ref} ELSE @]
        /\ UNCHANGED <<toKeeper, keeper, texts, reached, gone>>

----------------------------------------------------------------------------
(* The Host. *)
Post(message) == toView' = Append(toView, message)
Shown(id, state) ==
    [kind |-> "shown", id |-> id, ref |-> state.ref, path |-> state.path, text |-> state.text,
     stale |-> state.stale]
Failed(id, ref) == [kind |-> "failed", id |-> id, ref |-> ref]
Removed(ref) == [kind |-> "removed", id |-> 0, ref |-> ref]
ByRef(records) == SetToSortSeq(records, LAMBDA a, b : a.ref < b.ref)

HasNext(kind) == toKeeper # <<>> /\ Head(toKeeper).kind = kind /\ toKeeper' = Tail(toKeeper)
Start(read) == keeper' = [keeper EXCEPT !.reads = @ \union {read}]
StartSearch ==
    /\ HasNext("search") /\ Start([kind |-> "search", id |-> Head(toKeeper).id, ref |-> 0])
    /\ UNCHANGED <<view, toView, texts, reached, gone>>
ReadOf(id, ref, path) ==
    [kind |-> "read", id |-> id, ref |-> ref, path |-> path, at |-> "validating",
     existing |-> 0, before |-> 0]
StartRead ==
    /\ HasNext("read") /\ Start(ReadOf(Head(toKeeper).id, 0, Head(toKeeper).path))
    /\ UNCHANGED <<view, toView, texts, reached, gone>>
\* Mutant: nothing is said of a reference that is not there.
StartRefreshQuietly ==
    LET message == Head(toKeeper)
    IN  /\ HasNext("refresh")
        /\ keeper' = [keeper EXCEPT !.reads = @ \union
                        {ReadOf(message.id, message.ref, s.path) : s \in Of(keeper.states, message.ref)}]
        /\ UNCHANGED <<view, toView, texts, reached, gone>>
StartRefresh ==
    LET message == Head(toKeeper)
    IN  /\ HasNext("refresh")
        /\ IF Of(keeper.states, message.ref) = {}
           THEN Post(Failed(message.id, message.ref)) /\ UNCHANGED keeper
           ELSE /\ UNCHANGED toView
                /\ \E s \in Of(keeper.states, message.ref) :
                     Start(ReadOf(message.id, message.ref, s.path))
        /\ UNCHANGED <<view, texts, reached, gone>>
\* The reads of a removed reference are aborted: an aborted read ends without a word.
HostRemoves ==
    LET ref == Head(toKeeper).ref
    IN  /\ HasNext("remove")
        /\ IF Of(keeper.states, ref) = {} THEN UNCHANGED <<keeper, toView>>
           ELSE /\ keeper' = [states |-> keeper.states \ Of(keeper.states, ref),
                              reads |-> keeper.reads \ Of(keeper.reads, ref),
                              removed |-> keeper.removed \union {ref}]
                /\ Post(Removed(ref))
        /\ UNCHANGED <<view, texts, reached, gone>>
HostUsesStale ==
    LET stale == {s \in Of(keeper.states, Head(toKeeper).ref) : s.stale}
        accepted == {[s EXCEPT !.accepted = TRUE] : s \in stale}
    IN  /\ HasNext("useStale")
        /\ keeper' = [keeper EXCEPT !.states = (@ \ stale) \union accepted]
        /\ toView' = toView \o [i \in 1..Cardinality(accepted) |-> Shown(0, ByRef(accepted)[i])]
        /\ UNCHANGED <<view, texts, reached, gone>>

\* clearInput: nothing is kept, the reads are aborted, the Webview is not told.
Empty == [states |-> {}, reads |-> {}, removed |-> {}]
LetGo == [reads |-> gone.reads \union Ids(keeper.reads),
          references |-> gone.references \union {s.ref : s \in keeper.states}, unseen |-> {}]
\* What the message is given: nothing stale that the user did not accept.
Taken == {s \in keeper.states : s.stale => s.accepted}
TakeReferences ==
    /\ HasNext("submit")
    /\ keeper' = Empty /\ gone' = LetGo
    /\ UNCHANGED <<view, toView, texts, reached>>
\* Mutant: only the reads are given up when a chat is left.
ClearReads(isBusy) ==
    /\ HasNext("clear")
    /\ keeper' = [keeper EXCEPT !.reads = {}] /\ gone' = [LetGo EXCEPT !.references = gone.references]
    /\ UNCHANGED <<view, toView, texts, reached>>
\* A chat is left, unless the Host is busy with the history: then it drops what it is asked.
ClearInput(isBusy) ==
    /\ HasNext("clear")
    /\ IF isBusy
       THEN /\ gone' = [gone EXCEPT !.unseen = @ \union {s.path : s \in keeper.states}
                                                 \union {r.path : r \in {q \in keeper.reads : q.kind = "read"}}]
            /\ UNCHANGED keeper
       ELSE keeper' = Empty /\ gone' = LetGo
    /\ UNCHANGED <<view, toView, texts, reached>>
\* clearForBoundaryChange: the workspace or the trust in it changed.
BoundaryChanges ==
    /\ IsEnding
    /\ keeper' = Empty /\ gone' = LetGo
    /\ toView' = toView \o [i \in 1..Cardinality(keeper.states) |-> Removed(ByRef(keeper.states)[i].ref)]
    /\ UNCHANGED <<view, toKeeper, texts>>

Ended(read) == keeper.reads \ {read}
SearchEnds(read) ==
    /\ read.kind = "search"
    /\ keeper' = [keeper EXCEPT !.reads = Ended(read)]
    /\ Post([kind |-> "found", id |-> read.id])
    /\ UNCHANGED <<view, toKeeper, texts, reached, gone>>
ReadFails(read) ==
    /\ read.kind = "read"
    /\ keeper' = [keeper EXCEPT !.reads = Ended(read)]
    /\ Post(Failed(read.id, read.ref))
    /\ UNCHANGED <<view, toKeeper, texts, reached, gone>>
\* The target is validated: a reference there is and not stale is the answer to a read, and there
\* are no more than so many.
Existing(read) == {s \in About(keeper.states, read.path) : read.ref \in {0, s.ref}}
ReadLooks(read) ==
    /\ read.kind = "read" /\ read.at = "validating"
    /\ \/ \E s \in Existing(read) :
            /\ read.ref = 0 /\ ~s.stale
            /\ keeper' = [keeper EXCEPT !.reads = Ended(read)] /\ Post(Shown(read.id, s))
       \/ /\ Existing(read) = {} /\ Cardinality(keeper.states) >= MaxReferences
          /\ keeper' = [keeper EXCEPT !.reads = Ended(read)] /\ Post(Failed(read.id, read.ref))
       \/ /\ IF Existing(read) = {} THEN Cardinality(keeper.states) < MaxReferences
             ELSE read.ref # 0 \/ \E s \in Existing(read) : s.stale
          /\ \E existing \in IF Existing(read) = {} THEN {0} ELSE {s.ref : s \in Existing(read)} :
               keeper' = [keeper EXCEPT !.reads = Ended(read) \union
                            {[read EXCEPT !.at = "reading", !.existing = existing,
                                          !.before = texts[read.path]]}]
          /\ UNCHANGED toView
    /\ UNCHANGED <<view, toKeeper, texts, reached, gone>>
\* Whatever version the text was read from, it is stale if the file changed meanwhile. A refreshed
\* reference must still be there (assertReferenceLive); one that a read found is not looked for.
Install(read, text) ==
    LET ref == IF read.existing # 0 THEN read.existing
               ELSE IF read.ref # 0 THEN read.ref ELSE read.id
        state == [ref |-> ref, path |-> read.path, text |-> text,
                  stale |-> read.before # texts[read.path], accepted |-> FALSE]
        isLive == read.ref = 0 \/ (read.ref \notin keeper.removed /\ Of(keeper.states, read.ref) # {})
        others == keeper.states \ Of(keeper.states, ref)
    IN  /\ read.kind = "read" /\ read.at = "reading" /\ text \in read.before..texts[read.path]
        /\ keeper' = [keeper EXCEPT !.reads = Ended(read),
                                    !.states = IF isLive THEN others \union {state} ELSE @]
        /\ Post(IF isLive THEN Shown(read.id, state) ELSE Failed(read.id, read.ref))
        /\ gone' = IF isLive /\ (About(others, read.path) # {} \/ ref \in keeper.removed)
                   THEN [gone EXCEPT !.unseen = @ \union {read.path}] ELSE gone
        /\ UNCHANGED <<view, toKeeper, texts, reached>>

\* A file changes; the Host hears of it from the editor, not from another program. What is stale
\* and was not accepted since is not marked again.
Change(path, isHeard) ==
    LET marked == {s \in About(keeper.states, path) : isHeard /\ (s.stale => s.accepted)}
        stale == {[s EXCEPT !.stale = TRUE, !.accepted = FALSE] : s \in marked}
    IN  /\ reached.changes < MaxChanges /\ reached' = [reached EXCEPT !.changes = @ + 1]
        /\ texts' = [texts EXCEPT ![path] = @ + 1]
        /\ keeper' = [keeper EXCEPT !.states = (@ \ marked) \union stale]
        /\ toView' = toView \o [i \in 1..Cardinality(stale) |-> Shown(0, ByRef(stale)[i])]
        /\ UNCHANGED <<view, toKeeper, gone>>

Next ==
    \/ Search \/ ClearSearch \/ Submit \/ ViewReceives
    \/ \E path \in Paths : Read(path)
    \/ \E card \in view.cards : Refresh(card) \/ RemoveCard(card) \/ UseStale(card)
    \/ \E keepsCards \in BOOLEAN : Leave(keepsCards)
    \/ StartSearch \/ StartRead \/ StartRefresh \/ HostRemoves \/ HostUsesStale \/ TakeReferences
    \/ \E isBusy \in BOOLEAN : ClearInput(isBusy)
    \/ BoundaryChanges
    \/ \E read \in keeper.reads :
         SearchEnds(read) \/ ReadFails(read) \/ ReadLooks(read) \/ \E text \in 1..(MaxChanges + 1) : Install(read, text)
    \/ \E path \in Paths, isHeard \in BOOLEAN : Change(path, isHeard)
FilesSpec == Init /\ [][Next]_filesVars

----------------------------------------------------------------------------
Kept == [ref : 0..MaxReads, path : Paths, text : 1..(MaxChanges + 1), stale : BOOLEAN, accepted : BOOLEAN]
TypeOK ==
    /\ view.cards \subseteq Kept /\ keeper.states \subseteq Kept
    /\ texts \in [Paths -> 1..(MaxChanges + 1)]
    /\ \A c, d \in view.cards : c.path = d.path => c = d
\* A Run is given no file but those whose cards the message was sent with, as the cards showed them.
\* Known not to hold where the Host keeps a file beside its card: two reads of it raced, it was read
\* again while its card was removed, or New chat came while the Host was busy
\* (workspace-file-reference-actions.ts:339, 392; webview-message-controller.ts:217).
GivenWasShown ==
    TakeReferences => \A s \in Taken :
        \/ s.path \in gone.unseen
        \/ \E c \in Head(toKeeper).shown : c.ref = s.ref /\ c.text = s.text
\* And a file whose card was not stale and that has not changed since is given to it, unless an
\* earlier message or a deletion took it: the card stays behind (app.tsx:310).
ShownIsGiven ==
    TakeReferences => \A c \in Head(toKeeper).shown :
        \/ c.stale \/ c.text # texts[c.path]
        \/ c.ref \in gone.references \/ c.path \in gone.unseen
        \/ \E s \in Taken : c.ref = s.ref /\ c.text = s.text
\* Sending waits for a search or a read only while an answer will come, unless the Host gave it up
\* with the workspace or the Session (workspace-file-reference-actions.ts:210, 243).
WaitsForAnAnswer ==
    \A id \in (Ids(view.reads) \union {view.search}) \ {0} :
        \/ id \in gone.reads \union Ids(keeper.reads)
        \/ \E i \in DOMAIN toKeeper : toKeeper[i].kind \in {"search", "read", "refresh"} /\ toKeeper[i].id = id
        \/ \E i \in DOMAIN toView : toView[i].id = id
=============================================================================
