----------------------------- MODULE ChatStore -----------------------------
(* The Webview's chat store: the transcript on screen, the one request whose  *)
(* Run it follows, the pending list, restore and deletion requests, and the   *)
(* old branch it keeps while a regeneration or an edit replaces it. Messages   *)
(* are correlated by request id; text is gathered and shown at the next frame. *)
EXTENDS ViewChannel, FiniteSets, SequencesExt

CONSTANTS
    Legacy,     \* the Sessions that may only be read
    Intentions, \* what the user does, of the intents below
    MaxQueued   \* bound: intents under way when the user acts again

VARIABLES
    chat,    \* the store's state
    issued   \* request ids created so far

chatVars == <<chat, issued>>

\* `status` is "working" for preparing, streaming, awaiting_approval and
\* executing_tool, "ended" for idle, interrupted and the terminal ones.
NoBackup == [id |-> NoRequest, kept |-> <<>>, begun |-> FALSE]

----------------------------------------------------------------------------
(* The transcript. An exchange is a question and its answer; of the answer,   *)
(* which requests' text it holds and from which Sessions.                     *)

Exchange(id) == [id |-> id, by |-> {}, of |-> {}]
Answered(e) == e.of # {}
HistoryId == MaxRequests + 1
RestoredExchange(s) == [id |-> HistoryId, by |-> {}, of |-> {s}]

\* A fresh view (no Session), or one that shows the Session s, restored from a
\* list of the Sessions saved.
ChatInit(s, saved) ==
    /\ chat = [status |-> "ended", active |-> NoRequest,
               selected |-> s, selection |-> s, switching |-> FALSE,
               mutating |-> FALSE, readOnly |-> s \in Legacy,
               sessions |-> IF s = NoSession THEN {} ELSE saved,
               list |-> NoRequest, restore |-> NoRequest, restoreTarget |-> NoSession,
               delete |-> NoRequest, deleteTarget |-> NoSession, clear |-> NoRequest,
               reset |-> NoRequest, mismatched |-> {},
               transcript |-> IF s = NoSession THEN <<>> ELSE <<RestoredExchange(s)>>,
               target |-> NoRequest, pending |-> {},
               regeneration |-> NoBackup, edit |-> NoBackup]
    /\ issued = 0

Replaced(transcript, id, exchange(_)) ==
    [i \in DOMAIN transcript |->
        IF transcript[i].id = id THEN exchange(transcript[i]) ELSE transcript[i]]
Index(transcript, id) == SelectInSeq(transcript, LAMBDA e : e.id = id)

\* applyPendingStreams: the gathered text reaches the message it was meant for.
Flushed(c) ==
    LET extended(e) == [e EXCEPT !.by = @ \cup {p.req : p \in c.pending},
                                 !.of = @ \cup {p.session : p \in c.pending}]
    IN  [c EXCEPT !.transcript = Replaced(@, c.target, extended), !.pending = {}]

\* Mutant: the new answer is added to the old one.
RegenerationAppends(c) ==
    IF c.regeneration = NoBackup \/ c.regeneration.begun THEN c
    ELSE [c EXCEPT !.regeneration.begun = TRUE, !.pending = {}]

\* The old answer is blanked, or the old branch cut, when the first output comes.
RegenerationBegun(c) ==
    LET blank(e) == Exchange(e.id) IN
    IF c.regeneration = NoBackup \/ c.regeneration.begun THEN c
    ELSE [c EXCEPT !.regeneration.begun = TRUE, !.pending = {},
                   !.transcript = Replaced(@, c.regeneration.id, blank)]
EditBegun(c) ==
    LET i == Index(c.transcript, c.edit.id) IN
    IF c.edit = NoBackup \/ c.edit.begun \/ i = 0 THEN c
    ELSE [c EXCEPT !.edit.begun = TRUE, !.pending = {}, !.target = c.active,
                   !.transcript = Append(SubSeq(@, 1, i - 1), Exchange(c.active))]

RegenerationRestored(c) ==
    LET old(e) == c.regeneration.kept[1] IN
    IF c.regeneration = NoBackup THEN c
    ELSE [c EXCEPT !.transcript = Replaced(@, c.regeneration.id, old),
                   !.pending = {}, !.target = NoRequest, !.regeneration = NoBackup]
EditRestored(c) ==
    IF c.edit = NoBackup THEN c
    ELSE [c EXCEPT !.transcript = c.edit.kept, !.pending = {}, !.target = NoRequest,
                   !.edit = NoBackup]

\* The terminal status of the followed Run.
Terminated(c, status) ==
    LET kept == IF status = "completed" THEN c ELSE EditRestored(RegenerationRestored(c))
    IN  [Flushed(kept) EXCEPT !.status = "ended", !.active = NoRequest,
                              !.regeneration = NoBackup, !.edit = NoBackup]

NoReplacement(c) == [c EXCEPT !.regeneration = NoBackup, !.edit = NoBackup]

\* Mutant: the transcript of the deleted Session stays.
ResetKeepsTranscript(c, s) ==
    [NoReplacement(c) EXCEPT
        !.sessions = IF s = NoSession THEN {} ELSE @ \ {s}, !.status = "ended",
        !.active = NoRequest, !.selected = NoSession, !.selection = NoSession,
        !.switching = FALSE]

\* resetSessionProjection. Without a Session everything is cleared.
Reset(c, s) ==
    LET listed == [c EXCEPT !.sessions = IF s = NoSession THEN {} ELSE @ \ {s}] IN
    CASE s = NoSession \/ c.selected = s ->
           [NoReplacement(listed) EXCEPT
               !.transcript = <<>>, !.pending = {}, !.target = NoRequest,
               !.restore = NoRequest, !.restoreTarget = NoSession,
               !.status = "ended", !.active = NoRequest, !.selected = NoSession,
               !.selection = NoSession, !.switching = FALSE, !.readOnly = FALSE]
      [] s # NoSession /\ c.selected # s /\ c.selection = s ->
           [listed EXCEPT !.selection = c.selected, !.switching = FALSE]
      [] OTHER -> listed

----------------------------------------------------------------------------
(* What the user does. The guards are those of the store's methods.           *)

Next1 == issued + 1

Send(c, intents) ==
    /\ Len(toHost) < MaxQueued
    /\ chat' = c
    /\ toHost' = toHost \o intents
    /\ UNCHANGED toView
Create ==
    /\ issued < MaxRequests
    /\ issued' = Next1

\* Bound: a deletion leaves an id for the list that follows its failure.
RoomToReload == issued + 2 <= MaxRequests

Unoccupied == chat.active = NoRequest /\ chat.restore = NoRequest /\ ~chat.mutating
MayRun == Unoccupied /\ ~chat.switching /\ ~chat.readOnly

\* What submit, regenerate and editMessage have in common.
Following(c) ==
    [c EXCEPT !.status = "working", !.active = Next1, !.pending = {}]

Submit ==
    /\ "submit" \in Intentions /\ MayRun /\ Create
    /\ Send([Following(chat) EXCEPT !.transcript = Append(@, Exchange(Next1)),
                                    !.target = Next1],
            <<Intent("submit", Next1, chat.selected)>>)

Regenerate ==
    /\ "regenerate" \in Intentions /\ MayRun /\ Create
    /\ chat.selected # NoSession
    /\ chat.transcript # <<>> /\ Answered(Last(chat.transcript))
    /\ LET old == Last(chat.transcript) IN
       Send([Following(chat) EXCEPT !.target = old.id,
                !.regeneration = [id |-> old.id, kept |-> <<old>>, begun |-> FALSE]],
            <<Intent("regenerate", Next1, chat.selected)>>)

EditMessage ==
    /\ "edit-message" \in Intentions /\ MayRun /\ Create
    /\ chat.selected # NoSession
    /\ \E i \in DOMAIN chat.transcript :
        /\ Answered(chat.transcript[i])
        /\ Send([Following(chat) EXCEPT !.target = NoRequest,
                    !.edit = [id |-> chat.transcript[i].id, kept |-> chat.transcript,
                              begun |-> FALSE]],
                <<Intent("edit-message", Next1, chat.selected)>>)

\* One cancel is enough: a second for the same request finds no active Run.
Cancel ==
    /\ "cancel" \in Intentions
    /\ chat.active # NoRequest
    /\ ~ \E i \in DOMAIN toHost : toHost[i].type = "cancel"
    /\ Send(chat, <<Intent("cancel", chat.active, NoSession)>>)
    /\ UNCHANGED issued

NewChat ==
    /\ "new-chat" \in Intentions /\ Create
    /\ Unoccupied /\ ~chat.switching
    /\ Send([NoReplacement(chat) EXCEPT
                !.transcript = <<>>, !.status = "ended", !.pending = {},
                !.target = NoRequest, !.list = NoRequest,
                !.restoreTarget = NoSession, !.delete = NoRequest,
                !.deleteTarget = NoSession, !.clear = NoRequest, !.mismatched = {},
                !.selected = NoSession, !.selection = NoSession, !.readOnly = FALSE],
            <<Intent("select-session", Next1, NoSession),
              Intent("new-chat", Next1, NoSession)>>)

LoadSessions ==
    /\ "list-sessions" \in Intentions /\ Unoccupied /\ Create
    /\ Send([chat EXCEPT !.list = Next1],
            <<Intent("list-sessions", Next1, NoSession)>>)

\* The view does not offer the list while a Session is restored.
SelectSession ==
    /\ "select-session" \in Intentions
    /\ Unoccupied
    /\ \E s \in chat.sessions \ {chat.selection} :
        Send([NoReplacement(chat) EXCEPT !.selection = s, !.switching = s # chat.selected],
             <<Intent("select-session", NoRequest, s)>>)
    /\ UNCHANGED issued

RestoreSelectedSession ==
    /\ "restore-session" \in Intentions /\ Unoccupied /\ Create
    /\ chat.selection # NoSession
    /\ Send([chat EXCEPT !.list = NoRequest, !.restore = Next1,
                         !.restoreTarget = chat.selection],
            <<Intent("restore-session", Next1, chat.selection)>>)

\* The view deletes the Session that is selected in the list.
DeleteSession ==
    /\ "delete-session" \in Intentions /\ Create /\ RoomToReload
    /\ ~chat.mutating /\ chat.restore = NoRequest
    /\ chat.selection # NoSession
    /\ Send([chat EXCEPT !.list = NoRequest, !.delete = Next1,
                         !.deleteTarget = chat.selection, !.mutating = TRUE],
            <<Intent("delete-session", Next1, chat.selection)>>)

ClearSessions ==
    /\ "clear-sessions" \in Intentions /\ Create /\ RoomToReload
    /\ ~chat.mutating /\ chat.restore = NoRequest
    /\ Send([chat EXCEPT !.list = NoRequest, !.clear = Next1, !.mutating = TRUE],
            <<Intent("clear-sessions", Next1, NoSession)>>)

\* A restore under way does not hold this one up.
ClearLocalData ==
    /\ "clear-local-data" \in Intentions /\ Create
    /\ ~chat.mutating
    /\ Send([chat EXCEPT !.list = NoRequest, !.reset = Next1, !.mutating = TRUE],
            <<Intent("clear-local-data", Next1, NoSession)>>)

UserActs ==
    \/ Submit \/ Regenerate \/ EditMessage \/ Cancel \/ NewChat
    \/ LoadSessions \/ SelectSession \/ RestoreSelectedSession
    \/ DeleteSession \/ ClearSessions \/ ClearLocalData

----------------------------------------------------------------------------
(* receive, one action for each branch that recognizes the message at hand.   *)

Incoming == Head(toView)
Takes(type) ==
    /\ toView # <<>>
    /\ Incoming.type = type
    /\ toView' = Tail(toView)
Becomes(c) == chat' = c /\ UNCHANGED <<toHost, issued>>

\* A Session the user did not expect: nothing of this Run is shown.
ReceiveSessionStarted ==
    LET s == Incoming.session IN
    /\ Takes("session-started")
    /\ Incoming.req = chat.active
    /\ IF chat.selected \notin {NoSession, s}
       THEN Becomes([chat EXCEPT !.mismatched = @ \cup {chat.active}, !.pending = {},
                                 !.target = NoRequest])
       ELSE Becomes([chat EXCEPT !.selected = s, !.selection = s, !.switching = FALSE,
                                 !.readOnly = FALSE])

ReceiveSessionDeleted ==
    /\ Takes("session-deleted")
    /\ Incoming.req = chat.delete /\ Incoming.session = chat.deleteTarget
    /\ Becomes([Reset(chat, chat.deleteTarget) EXCEPT
                   !.delete = NoRequest, !.deleteTarget = NoSession,
                   !.list = NoRequest, !.mutating = FALSE])

ReceiveSessionsCleared ==
    /\ Takes("sessions-cleared")
    /\ Incoming.req = chat.clear
    /\ Becomes([Reset(chat, NoSession) EXCEPT
                   !.clear = NoRequest, !.delete = NoRequest, !.deleteTarget = NoSession,
                   !.list = NoRequest, !.mutating = FALSE])

\* A partial deletion is treated as one; the list is asked for again.
ReceiveDeletionError ==
    LET after == IF Incoming.status # "partial" THEN chat
                 ELSE Reset(chat, IF chat.clear # NoRequest THEN NoSession
                                  ELSE chat.deleteTarget)
        settled == [after EXCEPT !.delete = NoRequest, !.deleteTarget = NoSession,
                                 !.clear = NoRequest, !.mutating = FALSE]
    IN
    /\ Takes("session-deletion-error")
    /\ Incoming.req \in {chat.delete, chat.clear}
    /\ IF settled.active = NoRequest /\ settled.restore = NoRequest
       THEN /\ chat' = [settled EXCEPT !.list = Next1]
            /\ issued' = Next1
            /\ toHost' = Append(toHost, Intent("list-sessions", Next1, NoSession))
       ELSE Becomes(settled)

ReceiveResetResult ==
    /\ Takes("local-data-clear-result")
    /\ Incoming.req = chat.reset
    /\ Becomes(IF Incoming.status = "cancelled"
               THEN [chat EXCEPT !.reset = NoRequest, !.mutating = FALSE]
               ELSE [Reset(chat, NoSession) EXCEPT
                        !.reset = NoRequest, !.clear = NoRequest, !.delete = NoRequest,
                        !.deleteTarget = NoSession, !.list = NoRequest,
                        !.mutating = FALSE])

\* Mutant: any list is taken for the one awaited.
ReceiveAnyList ==
    /\ Takes("session-list")
    /\ Becomes([chat EXCEPT !.list = NoRequest, !.sessions = Incoming.sessions])

\* The list selects the current Session, or else its first one.
ReceiveSessionList ==
    /\ Takes("session-list")
    /\ Incoming.req = chat.list
    /\ \E s \in IF chat.selected \in Incoming.sessions THEN {chat.selected}
              ELSE IF Incoming.sessions = {} THEN {NoSession} ELSE Incoming.sessions :
        /\ chat' = [chat EXCEPT !.list = NoRequest, !.sessions = Incoming.sessions,
                                !.selection = s, !.switching = s # chat.selected]
        /\ toHost' = Append(toHost, Intent("select-session", NoRequest, s))
    /\ UNCHANGED issued

ReceiveSessionRestored ==
    LET s == Incoming.session
        over == [chat EXCEPT !.restore = NoRequest, !.restoreTarget = NoSession]
    IN
    /\ Takes("session-restored")
    /\ Incoming.req = chat.restore
    /\ Becomes(IF s # chat.restoreTarget THEN over
               ELSE [over EXCEPT
                        !.transcript = <<RestoredExchange(s)>>, !.pending = {},
                        !.target = NoRequest, !.status = "ended",
                        !.selected = s, !.selection = s, !.switching = FALSE,
                        !.readOnly = s \in Legacy])

ReceiveSessionError ==
    /\ Takes("session-error")
    /\ Incoming.req \in {chat.list, chat.restore}
    /\ Becomes(IF Incoming.req = chat.list THEN [chat EXCEPT !.list = NoRequest]
               ELSE [chat EXCEPT !.restore = NoRequest, !.restoreTarget = NoSession])

\* From here on only the followed request counts.
Followed == Incoming.req = chat.active
Fenced == chat.active \in chat.mismatched
Working == chat.status = "working"

ReceiveText ==
    /\ Takes("text-delta")
    /\ Followed /\ ~Fenced /\ Working
    /\ Becomes([EditBegun(RegenerationBegun(chat)) EXCEPT
                   !.pending = @ \cup {[req |-> Incoming.req,
                                        session |-> Incoming.session]}])

ReceiveRunStatus ==
    /\ Takes("run-status")
    /\ Followed
    /\ CASE Incoming.status \notin Terminal ->
              Becomes(IF Fenced THEN chat ELSE [chat EXCEPT !.status = "working"])
         [] Incoming.status \in Terminal /\ ~Fenced ->
              Becomes(Terminated(chat, Incoming.status))
         [] Incoming.status \in Terminal /\ Fenced ->
              Becomes([Flushed(IF Incoming.status = "completed" THEN chat
                               ELSE EditRestored(chat)) EXCEPT
                          !.status = "ended", !.active = NoRequest,
                          !.mismatched = @ \ {Incoming.req}])

\* run-error only sets the text shown with the status. Anything else is stale.
Recognized ==
    LET m == Incoming IN
    CASE m.type = "session-deleted" -> m.req = chat.delete /\ m.session = chat.deleteTarget
      [] m.type = "sessions-cleared" -> m.req = chat.clear
      [] m.type = "session-deletion-error" -> m.req \in {chat.delete, chat.clear}
      [] m.type = "local-data-clear-result" -> m.req = chat.reset
      [] m.type = "session-list" -> m.req = chat.list
      [] m.type = "session-restored" -> m.req = chat.restore
      [] m.type = "session-error" -> m.req \in {chat.list, chat.restore}
      [] m.type \in {"session-started", "run-status"} -> Followed
      [] m.type = "text-delta" -> Followed /\ ~Fenced /\ Working
      [] OTHER -> FALSE
IgnoreMessage ==
    /\ toView # <<>> /\ ~Recognized
    /\ toView' = Tail(toView)
    /\ Becomes(chat)

\* The next animation frame.
Frame ==
    /\ chat.pending # {}
    /\ chat' = Flushed(chat)
    /\ UNCHANGED <<issued, toHost, toView>>

Receive ==
    \/ ReceiveSessionStarted \/ ReceiveSessionDeleted \/ ReceiveSessionsCleared
    \/ ReceiveDeletionError \/ ReceiveResetResult \/ ReceiveSessionList
    \/ ReceiveSessionRestored \/ ReceiveSessionError
    \/ ReceiveText \/ ReceiveRunStatus \/ IgnoreMessage

ChatNext == UserActs \/ Receive \/ Frame
=============================================================================
