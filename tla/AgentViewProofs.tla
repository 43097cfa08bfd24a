-------------------------- MODULE AgentViewProofs --------------------------
(* What is proved of the Webview and the Host behind it, for any number of    *)
(* Sessions, requests and messages: that Sessions are deleted, expire and are *)
(* cleared only when no Run works in them.                                    *)
(*                                                                            *)
(* The Host waits for the Runs it knows to own the Session. A Run that has    *)
(* reported nothing yet works in a Session of its own that the Host does not  *)
(* know it owns; the proof is that nobody can ask for its deletion, because   *)
(* nobody - no variable of the Host or the view, no message under way - names *)
(* that Session before the Run has told of it.                                *)
EXTENDS AgentView, TLAPS

-----------------------------------------------------------------------------
(* What is known of a Session.                                             *)

\* A Run works in a Session of its own and has not told anybody of it.
Hidden(run) == run.phase = "reporting" /\ run.session = NoSession
HiddenRuns == {r \in Requests : Hidden(runs[r])}

\* The Sessions somebody may know: every one there ever was, but those of hidden Runs.
Told == (used \ {runs[r].on : r \in HiddenRuns}) \cup {NoSession}

Lists(T) == [req : Nat, latest : BOOLEAN, read : BOOLEAN, found : SUBSET T]
Jobs(T) == [kind : {"none", "restore", "delete", "clear"}, req : Nat, session : T,
     step : {"", "reading", "read", "settling"}]
Resets == [step : {"none", "confirming", "locking", "settling"}, req : Nat]
Hosts(T) ==
    [active : Nat, settling : SUBSET Nat, owned : T, lock : BOOLEAN, list : Lists(T), job : Jobs(T),
     known : SUBSET T, selected : T, reset : Resets]
RunRecords(T) ==
    [phase : {"none", "opening", "reporting", "failing", "ending", "settled", "rejected"},
     session : T, on : AnySession, left : Nat,
     aborted : BOOLEAN, started : BOOLEAN, closed : BOOLEAN, terminalSent : BOOLEAN]
IntentTypes ==
    {"submit", "regenerate", "edit-message", "cancel", "new-chat", "list-sessions", "select-session",
     "restore-session", "delete-session", "clear-sessions", "clear-local-data"}
MessageTypes ==
    {"run-status", "run-error", "session-started", "text-delta", "session-list", "session-error",
     "session-restored", "session-deleted", "sessions-cleared", "session-deletion-error",
     "local-data-clear-result"}
Intents(T) == [type : IntentTypes, req : Nat, session : T]
Statuses == RunEnds \cup {"", "preparing", "completed", "cancelled", "failed", "partial", "unavailable"}
Messages(T) == [type : MessageTypes, req : Nat, session : T, status : Statuses, sessions : SUBSET T]
ChatFields ==
    {"status", "active", "selected", "selection", "switching", "mutating", "readOnly", "sessions", "list",
     "restore", "restoreTarget", "delete", "deleteTarget", "clear", "reset", "mismatched", "transcript",
     "target", "pending", "regeneration", "edit"}
Chats(c, T) ==
    /\ DOMAIN c = ChatFields
    /\ c.active \in Nat /\ c.selected \in T /\ c.selection \in T /\ c.sessions \subseteq T

\* Nobody names a Session that is not told; what everyone keeps has its type.
Named(T) ==
    /\ host \in Hosts(T)
    /\ runs \in [Requests -> RunRecords(T)]
    /\ Chats(chat, T) /\ issued \in Nat
    /\ toHost \in Seq(Intents(T)) /\ toView \in Seq(Messages(T))

AtWork(run) == run.phase \in {"opening", "reporting", "failing", "ending"}

\* A Run that works is waited for, in a Session that is stored; no two hidden Runs share theirs.
Places ==
    /\ \A r \in Requests : AtWork(runs[r]) => r \in host.settling
    /\ \A r \in Requests : runs[r].phase = "reporting" =>
          runs[r].on \in stored /\ runs[r].session \in {NoSession, runs[r].on}
    /\ \A r, q \in HiddenRuns : r # q => runs[r].on # runs[q].on
\* The Sessions are listed while no Run works, and not while they are cleared.
ListAlone ==
    host.list.req # NoRequest =>
        host.lock /\ host.settling = {} /\ host.active = NoRequest /\ host.reset.step # "settling"

ViewInv == Named(Told) /\ Places /\ ListAlone /\ stored \subseteq used /\ used \subseteq Sessions

LEMMA ViewInit == Init => ViewInv
  <1> SUFFICES ASSUME NEW s \in Opened, HostInit(s), ChatInit(s, Prior), toHost = <<>>, toView = <<>>
               PROVE  ViewInv
    BY DEF Init
  <1>1. /\ runs = [r \in Requests |-> NoRun] /\ stored = Prior /\ used = Prior
        /\ host = [active |-> NoRequest, settling |-> {}, owned |-> s, lock |-> FALSE, list |-> NoList,
                   job |-> NoJob, known |-> IF s = NoSession THEN {} ELSE Prior, selected |-> s, reset |-> NoReset]
    BY DEF HostInit
  <1>2. HiddenRuns = {}
    BY <1>1 DEF HiddenRuns, Hidden, NoRun
  <1>3. Told = Prior \cup {NoSession}
    BY <1>1, <1>2 DEF Told
  <1>4. s \in Told /\ NoSession \in Told /\ Prior \subseteq Told
    BY <1>3, OpenedAssumption
  <1> HIDE DEF Told
  <1>5. NoList \in Lists(Told) /\ NoJob \in Jobs(Told) /\ NoReset \in Resets
    BY <1>4 DEF NoList, NoJob, NoReset, NoRequest, Lists, Jobs, Resets
  <1>6. host \in Hosts(Told)
    BY <1>1, <1>4, <1>5 DEF Hosts, NoRequest
  <1>7. NoRun \in RunRecords(Told)
    BY <1>4 DEF NoRun, RunRecords, AnySession
  <1>8. Chats(chat, Told) /\ issued \in Nat
    BY <1>4 DEF ChatInit, Chats, ChatFields, NoRequest
  <1>9. toHost \in Seq(Intents(Told)) /\ toView \in Seq(Messages(Told))
    OBVIOUS
  <1>10. Named(Told)
    BY <1>1, <1>6, <1>7, <1>8, <1>9 DEF Named
  <1>11. Places /\ ListAlone
    BY <1>1, <1>2 DEF Places, ListAlone, AtWork, NoRun, NoList
  <1> QED BY <1>1, <1>10, <1>11, PriorAssumption DEF ViewInv

\* What is told stays told.
LEMMA Grows ==
    ASSUME used \subseteq used',
           \A r \in Requests : Hidden(runs'[r]) =>
              (Hidden(runs[r]) /\ runs'[r].on = runs[r].on) \/ runs'[r].on \notin used
    PROVE  Told \subseteq Told'
  BY DEF Told, HiddenRuns

LEMMA Wider ==
    ASSUME NEW A, NEW B, A \subseteq B
    PROVE  /\ Hosts(A) \subseteq Hosts(B) /\ RunRecords(A) \subseteq RunRecords(B)
           /\ \A c : Chats(c, A) => Chats(c, B)
           /\ Seq(Intents(A)) \subseteq Seq(Intents(B)) /\ Seq(Messages(A)) \subseteq Seq(Messages(B))
  <1>1. Lists(A) \subseteq Lists(B) /\ Jobs(A) \subseteq Jobs(B)
    BY DEF Lists, Jobs
  <1>2. Hosts(A) \subseteq Hosts(B)
    BY <1>1 DEF Hosts
  <1>3. RunRecords(A) \subseteq RunRecords(B)
    BY DEF RunRecords
  <1>4. Intents(A) \subseteq Intents(B) /\ Messages(A) \subseteq Messages(B)
    BY DEF Intents, Messages
  <1>5. \A X, Y : X \subseteq Y => Seq(X) \subseteq Seq(Y)
    OBVIOUS
  <1> QED BY <1>2, <1>3, <1>4, <1>5 DEF Chats

-----------------------------------------------------------------------------
(* The Webview: what it keeps and sends is told.                           *)

LEMMA ChatStep ==
    ASSUME ViewInv, UNCHANGED hostVars, Chats(chat', Told), issued' \in Nat,
           toHost' \in Seq(Intents(Told)), toView' \in Seq(Messages(Told))
    PROVE  ViewInv'
  <1>1. host' = host /\ runs' = runs /\ stored' = stored /\ used' = used
    BY DEF hostVars
  <1>2. HiddenRuns' = HiddenRuns /\ Told' = Told
    BY <1>1 DEF HiddenRuns, Told
  <1>3. Named(Told)'
    BY <1>1, <1>2 DEF ViewInv, Named
  <1>4. Places' /\ ListAlone'
    BY <1>1, <1>2 DEF ViewInv, Places, ListAlone
  <1> QED BY <1>1, <1>3, <1>4 DEF ViewInv

LEMMA FlushedIs ==
    ASSUME NEW T, NEW c, Chats(c, T)
    PROVE  Chats(Flushed(c), T)
  BY DEF Flushed, Replaced, Chats, ChatFields

LEMMA BegunIs ==
    ASSUME NEW T, NEW c, Chats(c, T)
    PROVE  Chats(RegenerationBegun(c), T) /\ Chats(EditBegun(c), T)
  <1>1. Chats(RegenerationBegun(c), T)
    BY DEF RegenerationBegun, Replaced, Chats, ChatFields
  <1>2. Chats(EditBegun(c), T)
    BY DEF EditBegun, Chats, ChatFields
  <1> QED BY <1>1, <1>2

LEMMA RestoredIs ==
    ASSUME NEW T, NEW c, Chats(c, T)
    PROVE  Chats(RegenerationRestored(c), T) /\ Chats(EditRestored(c), T)
  <1>1. Chats(RegenerationRestored(c), T)
    BY DEF RegenerationRestored, Replaced, Chats, ChatFields
  <1>2. Chats(EditRestored(c), T)
    BY DEF EditRestored, Chats, ChatFields
  <1> QED BY <1>1, <1>2

LEMMA TerminatedIs ==
    ASSUME NEW T, NEW c, Chats(c, T), NEW status
    PROVE  Chats(Terminated(c, status), T)
  <1> DEFINE k == IF status = "completed" THEN c ELSE EditRestored(RegenerationRestored(c))
             f == Flushed(k)
  <1>1. Chats(f, T)
    BY RestoredIs, FlushedIs
  <1>2. Terminated(c, status) = [f EXCEPT !.status = "ended", !.active = NoRequest,
                                          !.regeneration = NoBackup, !.edit = NoBackup]
    BY DEF Terminated
  <1> HIDE DEF f
  <1> QED BY <1>1, <1>2 DEF Chats, ChatFields, NoRequest

LEMMA ResetIs ==
    ASSUME NEW T, NEW c, Chats(c, T), NoSession \in T, NEW s
    PROVE  Chats(Reset(c, s), T)
  <1> DEFINE l == [c EXCEPT !.sessions = IF s = NoSession THEN {} ELSE c.sessions \ {s}]
             n == NoReplacement(l)
  <1>1. Chats(l, T)
    BY DEF Chats, ChatFields
  <1>2. Chats(n, T)
    BY <1>1 DEF NoReplacement, Chats, ChatFields
  <1>3. \/ Reset(c, s) = [n EXCEPT !.transcript = <<>>, !.pending = {}, !.target = NoRequest,
               !.restore = NoRequest, !.restoreTarget = NoSession,
               !.status = "ended", !.active = NoRequest, !.selected = NoSession,
               !.selection = NoSession, !.switching = FALSE, !.readOnly = FALSE]
        \/ Reset(c, s) = [l EXCEPT !.selection = c.selected, !.switching = FALSE]
        \/ Reset(c, s) = l
    BY DEF Reset
  <1> HIDE DEF l, n
  <1>4. Chats([n EXCEPT !.transcript = <<>>, !.pending = {}, !.target = NoRequest,
               !.restore = NoRequest, !.restoreTarget = NoSession,
               !.status = "ended", !.active = NoRequest, !.selected = NoSession,
               !.selection = NoSession, !.switching = FALSE, !.readOnly = FALSE], T)
    BY <1>2 DEF Chats, ChatFields, NoRequest
  <1>5. Chats([l EXCEPT !.selection = c.selected, !.switching = FALSE], T)
    BY <1>1 DEF Chats, ChatFields
  <1> QED BY <1>1, <1>3, <1>4, <1>5

\* An intent about a Session that is told, added to those under way.
LEMMA SendKeepsInv ==
    ASSUME ViewInv, UNCHANGED hostVars, NEW c, Chats(c, Told), NEW sent \in Seq(Intents(Told)),
           Send(c, sent), issued' \in Nat
    PROVE  ViewInv'
  <1>1. chat' = c /\ toHost' = toHost \o sent /\ toView' = toView
    BY DEF Send
  <1>2. toHost \in Seq(Intents(Told)) /\ toView \in Seq(Messages(Told))
    BY DEF ViewInv, Named
  <1>3. toHost' \in Seq(Intents(Told)) /\ toView' \in Seq(Messages(Told))
    BY <1>1, <1>2
  <1> QED BY <1>1, <1>3, ChatStep

LEMMA UserActsKeepInv == ViewInv /\ UserActs /\ UNCHANGED hostVars => ViewInv'
  <1> SUFFICES ASSUME ViewInv, UserActs, UNCHANGED hostVars PROVE ViewInv'
    OBVIOUS
  <1>1. Chats(chat, Told) /\ issued \in Nat /\ NoSession \in Told /\ Next1 \in Nat
    BY DEF ViewInv, Named, Told, Next1
  <1> HIDE DEF Told
  <1>2. \A t \in IntentTypes, n \in Nat, s \in Told : Intent(t, n, s) \in Intents(Told)
    BY DEF Intent, Intents
  <1>3. \A x \in Intents(Told) : <<x>> \in Seq(Intents(Told))
    OBVIOUS
  <1>4. \A x, y \in Intents(Told) : <<x, y>> \in Seq(Intents(Told))
    OBVIOUS
  <1>5. chat.selected \in Told /\ chat.selection \in Told /\ chat.active \in Nat /\ chat.sessions \subseteq Told
    BY <1>1 DEF Chats
  <1>6. issued' \in Nat
    BY <1>1 DEF UserActs, Submit, Regenerate, EditMessage, Cancel, NewChat, LoadSessions, SelectSession,
                RestoreSelectedSession, DeleteSession, ClearSessions, ClearLocalData, Create
  <1>7. PICK c, sent : Send(c, sent) /\ Chats(c, Told) /\ sent \in Seq(Intents(Told))
    <2> DEFINE Ok(c, sent) == Send(c, sent) /\ Chats(c, Told) /\ sent \in Seq(Intents(Told))
    <2>1. CASE Submit
      <3> DEFINE c == [Following(chat) EXCEPT !.transcript = Append(Following(chat).transcript, Exchange(Next1)),
                                              !.target = Next1]
      <3>1. Send(c, <<Intent("submit", Next1, chat.selected)>>)
        BY <2>1 DEF Submit
      <3>2. Chats(c, Told)
        BY <1>1 DEF Following, Chats, ChatFields
      <3> QED BY <1>1, <1>2, <1>3, <1>5, <3>1, <3>2 DEF IntentTypes
    <2>2. CASE Regenerate
      <3> DEFINE old == Last(chat.transcript)
                 c == [Following(chat) EXCEPT !.target = old.id,
                          !.regeneration = [id |-> old.id, kept |-> <<old>>, begun |-> FALSE]]
      <3>1. Send(c, <<Intent("regenerate", Next1, chat.selected)>>)
        BY <2>2 DEF Regenerate
      <3> HIDE DEF old
      <3>2. Chats(c, Told)
        BY <1>1 DEF Following, Chats, ChatFields
      <3> QED BY <1>1, <1>2, <1>3, <1>5, <3>1, <3>2 DEF IntentTypes
    <2>3. CASE EditMessage
      <3>1. PICK i : Send([Following(chat) EXCEPT !.target = NoRequest,
                    !.edit = [id |-> chat.transcript[i].id, kept |-> chat.transcript, begun |-> FALSE]],
                    <<Intent("edit-message", Next1, chat.selected)>>)
        BY <2>3 DEF EditMessage
      <3>2. Chats([Following(chat) EXCEPT !.target = NoRequest,
                    !.edit = [id |-> chat.transcript[i].id, kept |-> chat.transcript, begun |-> FALSE]], Told)
        BY <1>1 DEF Following, Chats, ChatFields
      <3> QED BY <1>1, <1>2, <1>3, <1>5, <3>1, <3>2 DEF IntentTypes
    <2>4. CASE Cancel
      <3>1. Send(chat, <<Intent("cancel", chat.active, NoSession)>>)
        BY <2>4 DEF Cancel
      <3> QED BY <1>1, <1>2, <1>3, <1>5, <3>1 DEF IntentTypes
    <2>5. CASE NewChat
      <3> DEFINE n == NoReplacement(chat)
                 c == [n EXCEPT
                !.transcript = <<>>, !.status = "ended", !.pending = {},
                !.target = NoRequest, !.list = NoRequest,
                !.restoreTarget = NoSession, !.delete = NoRequest,
                !.deleteTarget = NoSession, !.clear = NoRequest, !.mismatched = {},
                !.selected = NoSession, !.selection = NoSession, !.readOnly = FALSE]
      <3>1. Send(c, <<Intent("select-session", Next1, NoSession), Intent("new-chat", Next1, NoSession)>>)
        BY <2>5 DEF NewChat
      <3>2. Chats(n, Told)
        BY <1>1 DEF NoReplacement, Chats, ChatFields
      <3> HIDE DEF n
      <3>3. Chats(c, Told)
        BY <1>1, <3>2 DEF Chats, ChatFields
      <3> QED BY <1>1, <1>2, <1>4, <3>1, <3>3 DEF IntentTypes
    <2>6. CASE LoadSessions
      <3>1. Send([chat EXCEPT !.list = Next1], <<Intent("list-sessions", Next1, NoSession)>>)
        BY <2>6 DEF LoadSessions
      <3>2. Chats([chat EXCEPT !.list = Next1], Told)
        BY <1>1 DEF Chats, ChatFields
      <3> QED BY <1>1, <1>2, <1>3, <3>1, <3>2 DEF IntentTypes
    <2>7. CASE SelectSession
      <3> DEFINE n == NoReplacement(chat)
      <3>1. PICK s \in chat.sessions \ {chat.selection} :
              Send([n EXCEPT !.selection = s, !.switching = s # chat.selected],
                   <<Intent("select-session", NoRequest, s)>>)
        BY <2>7 DEF SelectSession
      <3>2. Chats(n, Told)
        BY <1>1 DEF NoReplacement, Chats, ChatFields
      <3> HIDE DEF n
      <3>3. Chats([n EXCEPT !.selection = s, !.switching = s # chat.selected], Told)
        BY <1>5, <3>2, <3>1 DEF Chats, ChatFields
      <3> QED BY <1>2, <1>3, <1>5, <3>1, <3>3 DEF IntentTypes, NoRequest
    <2>8. CASE RestoreSelectedSession
      <3> DEFINE c == [chat EXCEPT !.list = NoRequest, !.restore = Next1, !.restoreTarget = chat.selection]
      <3>1. Send(c, <<Intent("restore-session", Next1, chat.selection)>>)
        BY <2>8 DEF RestoreSelectedSession
      <3>2. Chats(c, Told)
        BY <1>1 DEF Chats, ChatFields
      <3> QED BY <1>1, <1>2, <1>3, <1>5, <3>1, <3>2 DEF IntentTypes
    <2>9. CASE DeleteSession
      <3> DEFINE c == [chat EXCEPT !.list = NoRequest, !.delete = Next1,
                         !.deleteTarget = chat.selection, !.mutating = TRUE]
      <3>1. Send(c, <<Intent("delete-session", Next1, chat.selection)>>)
        BY <2>9 DEF DeleteSession
      <3>2. Chats(c, Told)
        BY <1>1 DEF Chats, ChatFields
      <3> QED BY <1>1, <1>2, <1>3, <1>5, <3>1, <3>2 DEF IntentTypes
    <2>10. CASE ClearSessions
      <3> DEFINE c == [chat EXCEPT !.list = NoRequest, !.clear = Next1, !.mutating = TRUE]
      <3>1. Send(c, <<Intent("clear-sessions", Next1, NoSession)>>)
        BY <2>10 DEF ClearSessions
      <3>2. Chats(c, Told)
        BY <1>1 DEF Chats, ChatFields
      <3> QED BY <1>1, <1>2, <1>3, <3>1, <3>2 DEF IntentTypes
    <2>11. CASE ClearLocalData
      <3> DEFINE c == [chat EXCEPT !.list = NoRequest, !.reset = Next1, !.mutating = TRUE]
      <3>1. Send(c, <<Intent("clear-local-data", Next1, NoSession)>>)
        BY <2>11 DEF ClearLocalData
      <3>2. Chats(c, Told)
        BY <1>1 DEF Chats, ChatFields
      <3> QED BY <1>1, <1>2, <1>3, <3>1, <3>2 DEF IntentTypes
    <2> QED BY <2>1, <2>2, <2>3, <2>4, <2>5, <2>6, <2>7, <2>8, <2>9, <2>10, <2>11 DEF UserActs
  <1> QED BY <1>6, <1>7, SendKeepsInv

\* A message is taken, and the store becomes c.
LEMMA TakenKeepsInv ==
    ASSUME ViewInv, UNCHANGED hostVars, toView # <<>>, toView' = Tail(toView),
           Chats(chat', Told), issued' \in Nat, toHost' \in Seq(Intents(Told))
    PROVE  ViewInv'
  <1>1. toView \in Seq(Messages(Told))
    BY DEF ViewInv, Named
  <1>2. toView' \in Seq(Messages(Told))
    BY <1>1
  <1> QED BY <1>2, ChatStep

LEMMA ReceiveKeepsInv == ViewInv /\ Receive /\ UNCHANGED hostVars => ViewInv'
  <1> SUFFICES ASSUME ViewInv, Receive, UNCHANGED hostVars PROVE ViewInv'
    OBVIOUS
  <1>1. /\ Chats(chat, Told) /\ issued \in Nat /\ NoSession \in Told /\ Next1 \in Nat
        /\ toHost \in Seq(Intents(Told)) /\ toView \in Seq(Messages(Told))
    BY DEF ViewInv, Named, Told, Next1
  <1> HIDE DEF Told
  <1>2. toView # <<>> /\ toView' = Tail(toView)
    BY DEF Receive, ReceiveSessionStarted, ReceiveSessionDeleted, ReceiveSessionsCleared, ReceiveDeletionError,
           ReceiveResetResult, ReceiveSessionList, ReceiveSessionRestored, ReceiveSessionError, ReceiveText,
           ReceiveRunStatus, IgnoreMessage, Takes
  <1>3. Incoming \in Messages(Told)
    BY <1>1, <1>2 DEF Incoming
  <1>4. Incoming.session \in Told /\ Incoming.sessions \subseteq Told
    BY <1>3 DEF Messages
  <1>5. \A s \in Told : Intent("select-session", NoRequest, s) \in Intents(Told)
    BY DEF Intent, Intents, IntentTypes, NoRequest
  <1>6. Intent("list-sessions", Next1, NoSession) \in Intents(Told)
    BY <1>1 DEF Intent, Intents, IntentTypes
  <1>7. ASSUME NEW c, Becomes(c), Chats(c, Told) PROVE ViewInv'
    BY <1>1, <1>2, <1>7, TakenKeepsInv DEF Becomes
  <1>8. \A c : Chats(c, Told) => Chats(Flushed(c), Told) /\ Chats(RegenerationBegun(c), Told)
               /\ Chats(EditBegun(c), Told) /\ Chats(EditRestored(c), Told)
               /\ (\A status : Chats(Terminated(c, status), Told)) /\ (\A s : Chats(Reset(c, s), Told))
    BY <1>1, FlushedIs, BegunIs, RestoredIs, TerminatedIs, ResetIs
  <1>9. CASE ReceiveSessionStarted
    <2> DEFINE a == [chat EXCEPT !.mismatched = chat.mismatched \cup {chat.active}, !.pending = {}, !.target = NoRequest]
               b == [chat EXCEPT !.selected = Incoming.session, !.selection = Incoming.session,
                                 !.switching = FALSE, !.readOnly = FALSE]
    <2>1. Becomes(a) \/ Becomes(b)
      BY <1>9 DEF ReceiveSessionStarted
    <2>2. Chats(a, Told) /\ Chats(b, Told)
      BY <1>1, <1>4 DEF Chats, ChatFields
    <2> HIDE DEF a, b
    <2> QED BY <1>7, <2>1, <2>2
  <1>10. CASE ReceiveSessionDeleted
    <2> DEFINE k == Reset(chat, chat.deleteTarget)
               c == [k EXCEPT !.delete = NoRequest, !.deleteTarget = NoSession,
                              !.list = NoRequest, !.mutating = FALSE]
    <2>1. Becomes(c) /\ Chats(k, Told)
      BY <1>1, <1>8, <1>10 DEF ReceiveSessionDeleted
    <2> HIDE DEF k
    <2>2. Chats(c, Told)
      BY <2>1 DEF Chats, ChatFields
    <2> HIDE DEF c
    <2> QED BY <1>7, <2>1, <2>2
  <1>11. CASE ReceiveSessionsCleared
    <2> DEFINE k == Reset(chat, NoSession)
               c == [k EXCEPT !.clear = NoRequest, !.delete = NoRequest, !.deleteTarget = NoSession,
                              !.list = NoRequest, !.mutating = FALSE]
    <2>1. Becomes(c) /\ Chats(k, Told)
      BY <1>1, <1>8, <1>11 DEF ReceiveSessionsCleared
    <2> HIDE DEF k
    <2>2. Chats(c, Told)
      BY <2>1 DEF Chats, ChatFields
    <2> HIDE DEF c
    <2> QED BY <1>7, <2>1, <2>2
  <1>12. CASE ReceiveDeletionError
    <2> DEFINE k == IF Incoming.status # "partial" THEN chat
                    ELSE Reset(chat, IF chat.clear # NoRequest THEN NoSession ELSE chat.deleteTarget)
               c == [k EXCEPT !.delete = NoRequest, !.deleteTarget = NoSession,
                              !.clear = NoRequest, !.mutating = FALSE]
    <2>1. /\ Chats(k, Told)
          /\ \/ Becomes(c)
             \/ /\ chat' = [c EXCEPT !.list = Next1] /\ issued' = Next1
                /\ toHost' = Append(toHost, Intent("list-sessions", Next1, NoSession))
      BY <1>1, <1>8, <1>12 DEF ReceiveDeletionError
    <2> HIDE DEF k
    <2>2. Chats(c, Told)
      BY <2>1 DEF Chats, ChatFields
    <2> HIDE DEF c
    <2>3. Chats([c EXCEPT !.list = Next1], Told)
      BY <2>2 DEF Chats, ChatFields
    <2>4. Append(toHost, Intent("list-sessions", Next1, NoSession)) \in Seq(Intents(Told))
      BY <1>1, <1>6
    <2> QED BY <1>1, <1>2, <1>7, <2>1, <2>2, <2>3, <2>4, TakenKeepsInv
  <1>13. CASE ReceiveResetResult
    <2> DEFINE k == Reset(chat, NoSession)
               a == [chat EXCEPT !.reset = NoRequest, !.mutating = FALSE]
               c == [k EXCEPT !.reset = NoRequest, !.clear = NoRequest, !.delete = NoRequest,
                              !.deleteTarget = NoSession, !.list = NoRequest, !.mutating = FALSE]
    <2>1. (Becomes(a) \/ Becomes(c)) /\ Chats(k, Told)
      BY <1>1, <1>8, <1>13 DEF ReceiveResetResult
    <2> HIDE DEF k
    <2>2. Chats(a, Told) /\ Chats(c, Told)
      BY <1>1, <2>1 DEF Chats, ChatFields
    <2> HIDE DEF a, c
    <2> QED BY <1>7, <2>1, <2>2
  <1>14. CASE ReceiveSessionList
    <2>1. PICK s \in Incoming.sessions \cup {chat.selected, NoSession} :
            /\ chat' = [chat EXCEPT !.list = NoRequest, !.sessions = Incoming.sessions,
                                    !.selection = s, !.switching = s # chat.selected]
            /\ toHost' = Append(toHost, Intent("select-session", NoRequest, s))
            /\ issued' = issued
      BY <1>14 DEF ReceiveSessionList
    <2>2. s \in Told
      BY <1>1, <1>4, <2>1 DEF Chats
    <2>3. Chats(chat', Told)
      BY <1>1, <1>4, <2>1, <2>2 DEF Chats, ChatFields
    <2>4. toHost' \in Seq(Intents(Told))
      BY <1>1, <1>5, <2>1, <2>2
    <2> QED BY <1>1, <1>2, <2>1, <2>3, <2>4, TakenKeepsInv
  <1>15. CASE ReceiveSessionRestored
    <2> DEFINE a == [chat EXCEPT !.restore = NoRequest, !.restoreTarget = NoSession]
               b == [a EXCEPT !.transcript = <<RestoredExchange(Incoming.session)>>, !.pending = {},
                        !.target = NoRequest, !.status = "ended",
                        !.selected = Incoming.session, !.selection = Incoming.session, !.switching = FALSE,
                        !.readOnly = Incoming.session \in Legacy]
    <2>1. Becomes(a) \/ Becomes(b)
      BY <1>15 DEF ReceiveSessionRestored
    <2>2. Chats(a, Told)
      BY <1>1 DEF Chats, ChatFields
    <2> HIDE DEF a
    <2>3. Chats(b, Told)
      BY <1>4, <2>2 DEF Chats, ChatFields
    <2> HIDE DEF b
    <2> QED BY <1>7, <2>1, <2>2, <2>3
  <1>16. CASE ReceiveSessionError
    <2> DEFINE a == [chat EXCEPT !.list = NoRequest]
               b == [chat EXCEPT !.restore = NoRequest, !.restoreTarget = NoSession]
    <2>1. Becomes(a) \/ Becomes(b)
      BY <1>16 DEF ReceiveSessionError
    <2>2. Chats(a, Told) /\ Chats(b, Told)
      BY <1>1 DEF Chats, ChatFields
    <2> HIDE DEF a, b
    <2> QED BY <1>7, <2>1, <2>2
  <1>17. CASE ReceiveText
    <2> DEFINE k == EditBegun(RegenerationBegun(chat))
    <2>1. PICK p : Becomes([k EXCEPT !.pending = p])
      BY <1>17 DEF ReceiveText
    <2>2. Chats(k, Told)
      BY <1>1, <1>8
    <2> HIDE DEF k
    <2>3. Chats([k EXCEPT !.pending = p], Told)
      BY <2>2 DEF Chats, ChatFields
    <2> QED BY <1>7, <2>1, <2>3
  <1>18. CASE ReceiveRunStatus
    <2> DEFINE a == [chat EXCEPT !.status = "working"]
               k == IF Incoming.status = "completed" THEN chat ELSE EditRestored(chat)
               f == Flushed(k)
    <2>1. \/ Becomes(chat) \/ Becomes(a) \/ Becomes(Terminated(chat, Incoming.status))
          \/ \E m : Becomes([f EXCEPT !.status = "ended", !.active = NoRequest, !.mismatched = m])
      BY <1>18 DEF ReceiveRunStatus
    <2>2. Chats(f, Told) /\ Chats(Terminated(chat, Incoming.status), Told)
      BY <1>1, <1>8
    <2> HIDE DEF f
    <2>3. \A m : Chats([f EXCEPT !.status = "ended", !.active = NoRequest, !.mismatched = m], Told)
      BY <2>2 DEF Chats, ChatFields, NoRequest
    <2>4. Chats(a, Told)
      BY <1>1 DEF Chats, ChatFields
    <2> HIDE DEF a
    <2>5. CASE \E m : Becomes([f EXCEPT !.status = "ended", !.active = NoRequest, !.mismatched = m])
      <3>1. PICK m : Becomes([f EXCEPT !.status = "ended", !.active = NoRequest, !.mismatched = m])
        BY <2>5
      <3> QED BY <1>7, <2>3, <3>1
    <2> QED BY <1>1, <1>7, <2>1, <2>2, <2>4, <2>5
  <1>19. CASE IgnoreMessage
    BY <1>1, <1>7, <1>19 DEF IgnoreMessage
  <1> QED BY <1>9, <1>10, <1>11, <1>12, <1>13, <1>14, <1>15, <1>16, <1>17, <1>18, <1>19 DEF Receive

LEMMA FrameKeepsInv == ViewInv /\ Frame /\ UNCHANGED hostVars => ViewInv'
  <1> SUFFICES ASSUME ViewInv, Frame, UNCHANGED hostVars PROVE ViewInv'
    OBVIOUS
  <1>1. Chats(chat, Told) /\ issued \in Nat /\ toHost \in Seq(Intents(Told)) /\ toView \in Seq(Messages(Told))
    BY DEF ViewInv, Named
  <1>2. chat' = Flushed(chat) /\ issued' = issued /\ toHost' = toHost /\ toView' = toView
    BY DEF Frame
  <1> QED BY <1>1, <1>2, FlushedIs, ChatStep

-----------------------------------------------------------------------------
(* The Host: what its steps have in common.                                *)

LEMMA HostStep ==
    ASSUME ViewInv, UNCHANGED <<chat, issued>>, used' \subseteq Sessions, stored' \subseteq used', Told \subseteq Told',
           host' \in Hosts(Told'), runs' \in [Requests -> RunRecords(Told')],
           toHost' \in Seq(Intents(Told)), toView' \in Seq(Messages(Told')), Places', ListAlone'
    PROVE  ViewInv'
  <1> DEFINE A == Told
             B == Told'
  <1>1. Chats(chat, A) /\ issued \in Nat /\ A \subseteq B
    BY DEF ViewInv, Named
  <1>2. Chats(chat, B) /\ Seq(Intents(A)) \subseteq Seq(Intents(B))
    <2> HIDE DEF A, B
    <2> QED BY <1>1, Wider
  <1>3. Chats(chat', B) /\ issued' \in Nat /\ toHost' \in Seq(Intents(B))
    BY <1>1, <1>2
  <1>4. Named(Told)'
    BY <1>3 DEF Named
  <1> QED BY <1>4 DEF ViewInv

\* No Run changes what it does or where.
LEMMA SameRunsStep ==
    ASSUME ViewInv, UNCHANGED <<chat, issued, used>>, runs' \in [Requests -> RunRecords(Told)],
           \A r \in Requests : /\ runs'[r].phase = runs[r].phase /\ runs'[r].on = runs[r].on
                               /\ runs'[r].session = runs[r].session,
           host' \in Hosts(Told), host.settling \subseteq host'.settling,
           toHost' \in Seq(Intents(Told)), toView' \in Seq(Messages(Told)), stored' \subseteq stored,
           \A r \in Requests : runs[r].phase = "reporting" => runs[r].on \in stored',
           ListAlone'
    PROVE  ViewInv'
  <1>1. HiddenRuns' = HiddenRuns
    BY DEF HiddenRuns, Hidden
  <1>2. Told' = Told
    BY <1>1 DEF Told, HiddenRuns
  <1>3. Places'
    BY <1>1 DEF ViewInv, Places, AtWork, HiddenRuns
  <1>4. used' \subseteq Sessions /\ stored' \subseteq used'
    BY DEF ViewInv
  <1> QED BY <1>2, <1>3, <1>4, HostStep

\* The active Run is cancelled; it goes on being waited for.
LEMMA CancelActiveIs ==
    ASSUME ViewInv, NEW h \in Hosts(Told), h.active = host.active, h.settling = host.settling, CancelActive(h)
    PROVE  /\ runs' \in [Requests -> RunRecords(Told)]
           /\ \A r \in Requests : /\ runs'[r].phase = runs[r].phase /\ runs'[r].on = runs[r].on
                                  /\ runs'[r].session = runs[r].session
           /\ host' \in Hosts(Told) /\ host.settling \subseteq host'.settling
           /\ host'.list = h.list /\ host'.lock = h.lock /\ host'.reset = h.reset
           /\ host.active = NoRequest => host'.settling = host.settling /\ host'.active = NoRequest
           /\ toView' \in Seq(Messages(Told))
  <1>1. /\ host \in Hosts(Told) /\ runs \in [Requests -> RunRecords(Told)] /\ toView \in Seq(Messages(Told))
        /\ NoSession \in Told
    BY DEF ViewInv, Named, Told
  <1> HIDE DEF Told
  <1>2. CASE host.active = NoRequest
    BY <1>1, <1>2 DEF CancelActive, PostNothing
  <1>3. CASE host.active # NoRequest
    <2> DEFINE a == host.active
    <2>1. /\ host' = Finished(h, a) /\ runs' = CancelledRun(a) /\ toView' = toView \o <<RunStatus(a, "cancelled")>>
      BY <1>3 DEF CancelActive, Post
    <2>2. a \in Nat
      BY <1>1 DEF Hosts
    <2> HIDE DEF a
    <2>3. /\ host' \in Hosts(Told) /\ host'.settling = h.settling \cup {a}
          /\ host'.list = h.list /\ host'.lock = h.lock /\ host'.reset = h.reset
      BY <2>1, <2>2 DEF Finished, Hosts, NoRequest
    <2>4. /\ runs' \in [Requests -> RunRecords(Told)]
          /\ \A r \in Requests : /\ runs'[r].phase = runs[r].phase /\ runs'[r].on = runs[r].on
                                  /\ runs'[r].session = runs[r].session
      <3>1. CASE a \in Requests
        <4> DEFINE x == [runs[a] EXCEPT !.aborted = TRUE, !.terminalSent = TRUE]
        <4>1. runs' = [runs EXCEPT ![a] = x]
          BY <1>1, <2>1, <3>1 DEF CancelledRun
        <4>2. /\ x \in RunRecords(Told) /\ x.phase = runs[a].phase /\ x.on = runs[a].on
              /\ x.session = runs[a].session
          BY <1>1, <3>1 DEF RunRecords
        <4> HIDE DEF x
        <4> QED BY <1>1, <4>1, <4>2
      <3>2. CASE a \notin Requests
        <4>1. runs' = runs
          BY <1>1, <2>1, <3>2 DEF CancelledRun
        <4> QED BY <1>1, <4>1
      <3> QED BY <3>1, <3>2
    <2>5. RunStatus(a, "cancelled") \in Messages(Told)
      BY <1>1, <2>2 DEF RunStatus, Message, Messages, MessageTypes, Statuses
    <2>6. toView' \in Seq(Messages(Told))
      BY <1>1, <2>1, <2>5
    <2> QED BY <1>3, <2>3, <2>4, <2>6
  <1> QED BY <1>2, <1>3

\* A Run is launched, in a Session that is told or in one it will create.
LEMMA LaunchKeepsInv ==
    ASSUME ViewInv, NEW req \in Nat, NEW s \in Told, CanStart, Launch(req, s),
           UNCHANGED <<chat, issued, stored, used>>, toHost' \in Seq(Intents(Told))
    PROVE  ViewInv'
  <1>1. /\ host \in Hosts(Told) /\ runs \in [Requests -> RunRecords(Told)] /\ toView \in Seq(Messages(Told))
        /\ NoSession \in Told
    BY DEF ViewInv, Named, Told
  <1> DEFINE x == [NoRun EXCEPT !.phase = "opening", !.session = s, !.left = MaxEvents]
  <1>2. /\ runs' = [runs EXCEPT ![req] = x]
        /\ host' = [host EXCEPT !.active = req, !.settling = host.settling \cup {req}]
        /\ toView' = toView \o <<RunStatus(req, "preparing")>>
    BY DEF Launch, Post
  <1>3. x \in RunRecords(Told) /\ x.phase = "opening"
    <2> HIDE DEF Told
    <2> QED BY <1>1, EventsAssumption DEF NoRun, RunRecords, AnySession
  <1> HIDE DEF x
  <1>4. /\ runs' \in [Requests -> RunRecords(Told)]
        /\ \A r \in Requests : runs'[r] = runs[r] \/ (r = req /\ runs'[r].phase = "opening")
    BY <1>1, <1>2, <1>3
  <1>5. Told \subseteq Told'
    BY <1>4, Grows DEF Hidden
  <1>6. /\ host' \in Hosts(Told) /\ host'.settling = host.settling \cup {req} /\ host'.list = host.list
    <2> HIDE DEF Told
    <2> QED BY <1>1, <1>2 DEF Hosts
  <1>7. toView' \in Seq(Messages(Told))
    <2>1. RunStatus(req, "preparing") \in Messages(Told)
      <3> HIDE DEF Told
      <3> QED BY <1>1 DEF RunStatus, Message, Messages, MessageTypes, Statuses
    <2> HIDE DEF Told
    <2> QED BY <1>1, <1>2, <2>1
  <1>8. /\ host' \in Hosts(Told') /\ runs' \in [Requests -> RunRecords(Told')] /\ toView' \in Seq(Messages(Told'))
    <2> DEFINE A == Told
               B == Told'
    <2>1. A \subseteq B /\ host' \in Hosts(A) /\ runs' \in [Requests -> RunRecords(A)] /\ toView' \in Seq(Messages(A))
      BY <1>4, <1>5, <1>6, <1>7
    <2>2. host' \in Hosts(B) /\ runs' \in [Requests -> RunRecords(B)] /\ toView' \in Seq(Messages(B))
      <3> HIDE DEF A, B
      <3> QED BY <2>1, Wider
    <2> QED BY <2>2
  <1>9. Places'
    BY <1>4, <1>6 DEF ViewInv, Places, HiddenRuns, Hidden, AtWork
  <1>10. ListAlone'
    BY <1>6 DEF ViewInv, ListAlone, CanStart
  <1> QED BY <1>5, <1>8, <1>9, <1>10, HostStep DEF ViewInv

-----------------------------------------------------------------------------
(* The intents.                                                            *)

\* The Host answers, or changes what it keeps, without touching a Run or a stored Session.
LEMMA AnswerKeepsInv ==
    ASSUME ViewInv, UNCHANGED <<chat, issued, stored, used, runs>>, host' \in Hosts(Told),
           host'.settling = host.settling, toHost' \in Seq(Intents(Told)),
           NEW ms \in Seq(Messages(Told)), toView' = toView \o ms, ListAlone'
    PROVE  ViewInv'
  <1>1. runs \in [Requests -> RunRecords(Told)] /\ toView \in Seq(Messages(Told))
        /\ (\A r \in Requests : runs[r].phase = "reporting" => runs[r].on \in stored)
    BY DEF ViewInv, Named, Places
  <1>2. toView' \in Seq(Messages(Told))
    BY <1>1
  <1> QED BY <1>1, <1>2, SameRunsStep

\* Such an answer.
LEMMA AnswersAre ==
    ASSUME NEW T, NoSession \in T, NEW req \in Nat
    PROVE  /\ \A type \in MessageTypes : Notice(type, req) \in Messages(T)
           /\ RunStatus(req, "failed") \in Messages(T)
           /\ \A code \in {"unavailable", "partial"} : DeletionError(req, code) \in Messages(T)
           /\ \A s \in T, type \in MessageTypes : Message(type, req, s, "", {}) \in Messages(T)
           /\ \A found \in SUBSET T : Message("session-list", req, NoSession, "", found) \in Messages(T)
           /\ \A outcome \in {"cancelled", "partial", "completed"} :
                 Message("local-data-clear-result", req, NoSession, outcome, {}) \in Messages(T)
           /\ \A x \in Messages(T) : <<x>> \in Seq(Messages(T))
           /\ \A x, y \in Messages(T) : <<x, y>> \in Seq(Messages(T))
           /\ <<>> \in Seq(Messages(T))
  <1>1. /\ \A type \in MessageTypes : Notice(type, req) \in Messages(T)
        /\ RunStatus(req, "failed") \in Messages(T)
    BY DEF Notice, RunStatus, Message, Messages, MessageTypes, Statuses
  <1>2. \A code \in {"unavailable", "partial"} : DeletionError(req, code) \in Messages(T)
    BY DEF DeletionError, Message, Messages, MessageTypes, Statuses
  <1>3. \A s \in T, type \in MessageTypes : Message(type, req, s, "", {}) \in Messages(T)
    BY DEF Message, Messages, Statuses
  <1>4. \A found \in SUBSET T : Message("session-list", req, NoSession, "", found) \in Messages(T)
    BY DEF Message, Messages, MessageTypes, Statuses
  <1>5. \A outcome \in {"cancelled", "partial", "completed"} :
           Message("local-data-clear-result", req, NoSession, outcome, {}) \in Messages(T)
    BY DEF Message, Messages, MessageTypes, Statuses
  <1>6. /\ \A x \in Messages(T) : <<x>> \in Seq(Messages(T))
        /\ \A x, y \in Messages(T) : <<x, y>> \in Seq(Messages(T))
        /\ <<>> \in Seq(Messages(T))
    OBVIOUS
  <1> QED BY <1>1, <1>2, <1>3, <1>4, <1>5, <1>6

LEMMA PostedNothing ==
    ASSUME ViewInv, PostNothing
    PROVE  toView' = toView \o <<>> /\ <<>> \in Seq(Messages(Told))
  <1>1. toView \in Seq(Messages(Told))
    BY DEF ViewInv, Named
  <1> QED BY <1>1 DEF PostNothing

LEMMA RunIntentsKeepInv ==
    ASSUME ViewInv, HandleSubmit \/ HandleReplace \/ HandleCancel, UNCHANGED <<chat, issued>>
    PROVE  ViewInv'
  <1> DEFINE m == Head(toHost)
  <1>1. toHost # <<>> /\ toHost' = Tail(toHost) /\ UNCHANGED <<stored, used>>
    BY DEF HandleSubmit, HandleReplace, HandleCancel, Handles
  <1>2. /\ host \in Hosts(Told) /\ toHost \in Seq(Intents(Told)) /\ NoSession \in Told /\ ListAlone
        /\ runs \in [Requests -> RunRecords(Told)]
        /\ \A r \in Requests : runs[r].phase = "reporting" => runs[r].on \in stored
    BY DEF ViewInv, Named, Told, Places
  <1>3. m \in Intents(Told) /\ toHost' \in Seq(Intents(Told))
    BY <1>1, <1>2
  <1>4. m.req \in Nat /\ m.session \in Told
    BY <1>3 DEF Intents
  <1>5. CASE CanStart /\ Launch(m.req, m.session)
    BY <1>1, <1>3, <1>4, <1>5, LaunchKeepsInv
  <1>6. CASE UNCHANGED <<host, runs>> /\ PostNothing
    <2>1. ListAlone'
      BY <1>2, <1>6 DEF ListAlone
    <2>2. host' \in Hosts(Told) /\ host'.settling = host.settling /\ UNCHANGED <<chat, issued, stored, used, runs>>
      BY <1>1, <1>2, <1>6
    <2> HIDE DEF m
    <2> QED BY <1>3, <1>6, <2>1, <2>2, PostedNothing, AnswerKeepsInv
  <1>7. CASE UNCHANGED <<host, runs>> /\ Post(<<Notice("run-error", m.req), RunStatus(m.req, "failed")>>)
    <2>1. ListAlone'
      BY <1>2, <1>7 DEF ListAlone
    <2>2. /\ Notice("run-error", m.req) \in Messages(Told) /\ RunStatus(m.req, "failed") \in Messages(Told)
          /\ \A x, y \in Messages(Told) : <<x, y>> \in Seq(Messages(Told))
      BY <1>2, <1>4, AnswersAre DEF MessageTypes
    <2>3. PICK ms \in Seq(Messages(Told)) : toView' = toView \o ms
      BY <1>7, <2>2 DEF Post
    <2>4. host' \in Hosts(Told) /\ host'.settling = host.settling /\ UNCHANGED <<chat, issued, stored, used, runs>>
      BY <1>1, <1>2, <1>7
    <2> QED BY <1>3, <2>1, <2>3, <2>4, AnswerKeepsInv
  <1>8. CASE CancelActive(host)
    <2>1. /\ runs' \in [Requests -> RunRecords(Told)]
          /\ \A r \in Requests : /\ runs'[r].phase = runs[r].phase /\ runs'[r].on = runs[r].on
                                 /\ runs'[r].session = runs[r].session
          /\ host' \in Hosts(Told) /\ host.settling \subseteq host'.settling
          /\ host'.list = host.list /\ host'.lock = host.lock /\ host'.reset = host.reset
          /\ host.active = NoRequest => host'.settling = host.settling /\ host'.active = NoRequest
          /\ toView' \in Seq(Messages(Told))
      BY <1>2, <1>8, CancelActiveIs
    <2>2. ListAlone'
      BY <1>2, <2>1 DEF ListAlone
    <2>3. stored' \subseteq stored /\ (\A r \in Requests : runs[r].phase = "reporting" => runs[r].on \in stored')
          /\ UNCHANGED <<chat, issued, used>>
      BY <1>1, <1>2
    <2> QED BY <1>3, <2>1, <2>2, <2>3, SameRunsStep
  <1> QED BY <1>5, <1>6, <1>7, <1>8 DEF HandleSubmit, HandleReplace, HandleCancel

LEMMA SessionIntentsKeepInv ==
    ASSUME ViewInv, UNCHANGED <<chat, issued>>,
           HandleNewChat \/ HandleList \/ HandleSelect \/ HandleRestore \/ HandleReset \/ DropIntent
    PROVE  ViewInv'
  <1> DEFINE m == Head(toHost)
  <1>1. toHost # <<>> /\ toHost' = Tail(toHost) /\ UNCHANGED <<stored, used, runs>>
    BY DEF HandleNewChat, HandleList, HandleSelect, HandleRestore, HandleReset, DropIntent, Handles, hostVars
  <1>2. /\ host \in Hosts(Told) /\ toHost \in Seq(Intents(Told)) /\ NoSession \in Told /\ ListAlone
    BY DEF ViewInv, Named, Told
  <1>3. m \in Intents(Told) /\ toHost' \in Seq(Intents(Told))
    BY <1>1, <1>2
  <1>4. m.req \in Nat /\ m.session \in Told
    BY <1>3 DEF Intents
  <1> HIDE DEF Told
  <1>5. PICK ms \in Seq(Messages(Told)) : toView' = toView \o ms
    <2>1. Notice("session-error", m.req) \in Messages(Told) /\ \A x \in Messages(Told) : <<x>> \in Seq(Messages(Told))
      BY <1>2, <1>4, AnswersAre DEF MessageTypes
    <2>2. PostNothing \/ Post(<<Notice("session-error", m.req)>>)
      BY DEF HandleNewChat, HandleList, HandleSelect, HandleRestore, HandleReset, DropIntent
    <2> QED BY <2>1, <2>2, PostedNothing DEF Post
  <1>6. host' \in Hosts(Told) /\ host'.settling = host.settling /\ ListAlone'
    <2>1. CASE host' = host
      BY <1>2, <2>1 DEF ListAlone
    <2>2. CASE HandleNewChat /\ host' # host
      <3>1. host' = [host EXCEPT !.owned = NoSession]
        BY <2>2 DEF HandleNewChat
      <3> QED BY <1>2, <3>1 DEF Hosts, ListAlone
    <2>3. CASE HandleList /\ host' # host
      <3>1. /\ host' = [host EXCEPT !.lock = TRUE, !.list = [NoList EXCEPT !.req = m.req, !.latest = TRUE]]
            /\ CanListSessions /\ ~IsResetting
        BY <2>3 DEF HandleList, Handles
      <3>2. [NoList EXCEPT !.req = m.req, !.latest = TRUE] \in Lists(Told)
        BY <1>4 DEF NoList, Lists
      <3>3. /\ host' \in Hosts(Told) /\ host'.settling = host.settling /\ host'.lock /\ host'.active = host.active
            /\ host'.reset = host.reset
        BY <1>2, <3>1, <3>2 DEF Hosts
      <3> QED BY <3>1, <3>3 DEF ListAlone, CanListSessions, CanStart, IsResetting
    <2>4. CASE HandleSelect /\ host' # host
      <3>1. host' = [host EXCEPT !.selected = m.session]
        BY <2>4 DEF HandleSelect
      <3> QED BY <1>2, <1>4, <3>1 DEF Hosts, ListAlone
    <2>5. CASE HandleRestore /\ host' # host
      <3> DEFINE j == [kind |-> "restore", req |-> m.req, session |-> m.session, step |-> "reading"]
      <3>1. host' = [host EXCEPT !.job = j]
        BY <2>5 DEF HandleRestore
      <3>2. j \in Jobs(Told)
        BY <1>4 DEF Jobs
      <3> HIDE DEF j
      <3> QED BY <1>2, <3>1, <3>2 DEF Hosts, ListAlone
    <2>6. CASE HandleReset
      <3> DEFINE x == [step |-> "confirming", req |-> m.req]
      <3>1. host' = [host EXCEPT !.reset = x]
        BY <2>6 DEF HandleReset
      <3>2. x \in Resets /\ x.step = "confirming"
        BY <1>4 DEF Resets
      <3> HIDE DEF x
      <3> QED BY <1>2, <3>1, <3>2 DEF Hosts, ListAlone
    <2>7. CASE DropIntent
      BY <2>1, <2>7 DEF DropIntent, hostVars
    <2> QED BY <2>1, <2>2, <2>3, <2>4, <2>5, <2>6, <2>7
  <1>7. UNCHANGED <<chat, issued, stored, used, runs>>
    BY <1>1
  <1> HIDE DEF m
  <1> QED BY <1>3, <1>5, <1>6, <1>7, AnswerKeepsInv

LEMMA DeletionIntentsKeepInv ==
    ASSUME ViewInv, UNCHANGED <<chat, issued>>, HandleDelete \/ HandleClear
    PROVE  ViewInv'
  <1> DEFINE m == Head(toHost)
             a == [kind |-> "delete", req |-> m.req, session |-> m.session, step |-> "settling"]
             b == [kind |-> "clear", req |-> m.req, session |-> NoSession, step |-> "settling"]
             l == [host.list EXCEPT !.latest = FALSE]
             H(j) == [host EXCEPT !.list = l, !.job = j]
  <1>1. toHost # <<>> /\ toHost' = Tail(toHost) /\ UNCHANGED <<stored, used>>
    BY DEF HandleDelete, HandleClear, Handles
  <1>2. /\ host \in Hosts(Told) /\ toHost \in Seq(Intents(Told)) /\ NoSession \in Told /\ ListAlone
        /\ runs \in [Requests -> RunRecords(Told)]
        /\ \A r \in Requests : runs[r].phase = "reporting" => runs[r].on \in stored
    BY DEF ViewInv, Named, Told, Places
  <1>3. m \in Intents(Told) /\ toHost' \in Seq(Intents(Told))
    BY <1>1, <1>2
  <1>4. m.req \in Nat /\ m.session \in Told
    BY <1>3 DEF Intents
  <1> HIDE DEF Told
  <1>5. a \in Jobs(Told) /\ b \in Jobs(Told)
    BY <1>2, <1>4 DEF Jobs
  <1>6. l \in Lists(Told) /\ l.req = host.list.req
    BY <1>2 DEF Hosts, Lists
  <1>7. \/ UNCHANGED <<host, runs>> /\ PostNothing
        \/ UNCHANGED <<host, runs>> /\ Post(<<DeletionError(m.req, "unavailable")>>)
        \/ \E j \in {a, b} : host' = H(j) /\ UNCHANGED runs /\ PostNothing
        \/ \E j \in {a, b} : CancelActive(H(j))
    <2>1. /\ H(a) = [host EXCEPT !.list.latest = FALSE, !.job = a]
          /\ H(b) = [host EXCEPT !.list.latest = FALSE, !.job = b]
      BY <1>2 DEF Hosts
    <2> QED BY <2>1 DEF HandleDelete, HandleClear
  <1> HIDE DEF a, b, l
  <1>8. \A j \in {a, b} : /\ H(j) \in Hosts(Told) /\ H(j).active = host.active /\ H(j).settling = host.settling
                          /\ H(j).lock = host.lock /\ H(j).reset = host.reset /\ H(j).list.req = host.list.req
    BY <1>2, <1>5, <1>6 DEF Hosts
  <1>9. UNCHANGED <<stored, used, chat, issued>>
    BY <1>1
  <1> HIDE DEF m
  <1>10. CASE UNCHANGED <<host, runs>> /\ (PostNothing \/ Post(<<DeletionError(m.req, "unavailable")>>))
    <2>1. ListAlone'
      BY <1>2, <1>10 DEF ListAlone
    <2>2. PICK ms \in Seq(Messages(Told)) : toView' = toView \o ms
      <3>1. DeletionError(m.req, "unavailable") \in Messages(Told)
            /\ \A x \in Messages(Told) : <<x>> \in Seq(Messages(Told))
        BY <1>2, <1>4, AnswersAre
      <3> QED BY <1>10, <3>1, PostedNothing DEF Post
    <2>3. UNCHANGED <<chat, issued, stored, used, runs>> /\ host' \in Hosts(Told) /\ host'.settling = host.settling
      BY <1>2, <1>9, <1>10
    <2> QED BY <1>3, <2>1, <2>2, <2>3, AnswerKeepsInv
  <1>11. ASSUME NEW j \in {a, b}, host' = H(j), UNCHANGED runs, PostNothing PROVE ViewInv'
    <2>1. ListAlone' /\ host' \in Hosts(Told) /\ host'.settling = host.settling
      BY <1>2, <1>8, <1>11 DEF ListAlone
    <2>2. UNCHANGED <<chat, issued, stored, used, runs>>
      BY <1>9, <1>11
    <2> QED BY <1>3, <1>11, <2>1, <2>2, PostedNothing, AnswerKeepsInv
  <1>12. ASSUME NEW j \in {a, b}, CancelActive(H(j)) PROVE ViewInv'
    <2> DEFINE h == H(j)
    <2>1. /\ h \in Hosts(Told) /\ h.active = host.active /\ h.settling = host.settling
          /\ h.lock = host.lock /\ h.reset = host.reset /\ h.list.req = host.list.req /\ CancelActive(h)
      BY <1>8, <1>12
    <2> HIDE DEF h
    <2>2. /\ runs' \in [Requests -> RunRecords(Told)]
          /\ \A r \in Requests : /\ runs'[r].phase = runs[r].phase /\ runs'[r].on = runs[r].on
                                 /\ runs'[r].session = runs[r].session
          /\ host' \in Hosts(Told) /\ host.settling \subseteq host'.settling
          /\ host'.list = h.list /\ host'.lock = h.lock /\ host'.reset = h.reset
          /\ host.active = NoRequest => host'.settling = host.settling /\ host'.active = NoRequest
          /\ toView' \in Seq(Messages(Told))
      BY <2>1, CancelActiveIs
    <2>3. ListAlone'
      BY <1>2, <2>1, <2>2 DEF ListAlone
    <2>4. stored' \subseteq stored /\ (\A r \in Requests : runs[r].phase = "reporting" => runs[r].on \in stored')
          /\ UNCHANGED <<chat, issued, used>>
      BY <1>2, <1>9
    <2> QED BY <1>3, <2>2, <2>3, <2>4, SameRunsStep
  <1> QED BY <1>7, <1>10, <1>11, <1>12

-----------------------------------------------------------------------------
(* The Runs.                                                               *)

\* One Run changes: it is no longer hidden, or as it was.
LEMMA RunStepKeepsInv ==
    ASSUME ViewInv, NEW r \in Requests, NEW x \in RunRecords(Told'), runs' = [runs EXCEPT ![r] = x],
           UNCHANGED <<chat, issued, stored, used, toHost>>,
           Told \subseteq Told', host' \in Hosts(Told'), toView' \in Seq(Messages(Told')),
           Hidden(x) => Hidden(runs[r]) /\ x.on = runs[r].on,
           AtWork(x) => r \in host'.settling,
           host.settling \ {r} \subseteq host'.settling,
           x.phase = "reporting" => x.on \in stored /\ x.session \in {NoSession, x.on},
           ListAlone'
    PROVE  ViewInv'
  <1>1. runs \in [Requests -> RunRecords(Told)] /\ toHost \in Seq(Intents(Told))
    BY DEF ViewInv, Named
  <1>2. runs' \in [Requests -> RunRecords(Told')]
    <2> DEFINE A == Told
               B == Told'
    <2>1. A \subseteq B /\ runs \in [Requests -> RunRecords(A)] /\ x \in RunRecords(B)
      BY <1>1
    <2>2. [runs EXCEPT ![r] = x] \in [Requests -> RunRecords(B)]
      <3> HIDE DEF A, B
      <3> QED BY <2>1, Wider
    <2> QED BY <2>2
  <1>3. \A q \in Requests : runs'[q] = IF q = r THEN x ELSE runs[q]
    BY <1>1
  <1>4. /\ \A q \in Requests : AtWork(runs'[q]) => q \in host'.settling
        /\ \A q \in Requests : runs'[q].phase = "reporting" =>
              runs'[q].on \in stored /\ runs'[q].session \in {NoSession, runs'[q].on}
    BY <1>3 DEF ViewInv, Places
  <1>5. \A q \in HiddenRuns' : q \in HiddenRuns /\ runs'[q].on = runs[q].on
    BY <1>3 DEF HiddenRuns
  <1>6. Places'
    BY <1>4, <1>5 DEF ViewInv, Places
  <1> QED BY <1>1, <1>2, <1>6, HostStep DEF ViewInv

\* A hidden Run works in a Session that is not told.
LEMMA HiddenIs ==
    ASSUME ViewInv, NEW r \in Requests, runs[r].phase = "reporting"
    PROVE  /\ runs[r].on \in stored /\ runs[r].on \in used /\ runs[r].on \in Sessions /\ runs[r].on # NoSession
           /\ runs[r].session = NoSession => runs[r].on \notin Told
           /\ runs[r].session # NoSession => runs[r].session = runs[r].on /\ runs[r].on \in Told
           /\ r \in host.settling
  <1>1. /\ runs[r].on \in stored /\ runs[r].on \in used /\ runs[r].on \in Sessions /\ runs[r].on # NoSession
        /\ runs[r].session \in {NoSession, runs[r].on} /\ r \in host.settling
    BY SessionAssumption DEF ViewInv, Places, AtWork
  <1>2. runs[r].session = NoSession => runs[r].on \notin Told
    BY <1>1 DEF Told, HiddenRuns, Hidden
  <1>3. runs[r].session \in Told
    BY DEF ViewInv, Named, RunRecords
  <1> QED BY <1>1, <1>2, <1>3

\* Once it is bound, its Session is told.
LEMMA BoundIsTold ==
    ASSUME ViewInv, NEW r \in Requests, runs[r].phase = "reporting", NEW x,
           runs' = [runs EXCEPT ![r] = x], x.session = runs[r].on, x.on = runs[r].on, used' = used
    PROVE  Told \subseteq Told' /\ runs[r].on \in Told' /\ ~Hidden(x)
  <1>1. /\ DOMAIN runs = Requests /\ runs[r].on \in used /\ runs[r].on # NoSession
        /\ runs[r].session \in {NoSession, runs[r].on} /\ runs[r].session \in Told
    BY HiddenIs DEF ViewInv, Named, RunRecords, Places
  <1>2. ~Hidden(x)
    BY <1>1 DEF Hidden
  <1>3. \A q \in Requests : Hidden(runs'[q]) => q # r /\ Hidden(runs[q]) /\ runs'[q] = runs[q]
    BY <1>1, <1>2
  <1>4. Told \subseteq Told'
    BY <1>3, Grows
  <1>5. CASE Hidden(runs[r])
    <2>1. \A q \in Requests : Hidden(runs'[q]) => runs'[q].on # runs[r].on
      BY <1>3, <1>5 DEF ViewInv, Places, HiddenRuns
    <2> QED BY <1>1, <1>2, <1>4, <2>1 DEF Told, HiddenRuns
  <1>6. CASE ~Hidden(runs[r])
    BY <1>1, <1>2, <1>4, <1>6 DEF Hidden
  <1> QED BY <1>2, <1>4, <1>5, <1>6

LEMMA FinishedIs ==
    ASSUME ViewInv, NEW r \in Requests
    PROVE  /\ Finished(host, r) \in Hosts(Told) /\ host.settling \subseteq Finished(host, r).settling
           /\ Finished(host, r).list = host.list
  <1>1. host \in Hosts(Told) /\ r \in Nat
    BY DEF ViewInv, Named, Requests
  <1> HIDE DEF Told
  <1> QED BY <1>1 DEF Finished, Hosts, NoRequest

\* What a Run reports is accepted, misplaced, or comes too late.
LEMMA ReportsKeepInv ==
    ASSUME ViewInv, NEW r \in Requests, runs[r].phase = "reporting", NEW h \in {host, Finished(host, r)},
           NEW report \in RunRecords(AnySession), report.on = runs[r].on, report.session = runs[r].on,
           report.phase \in {"reporting", "failing", "ending"},
           NEW ms, \A T : NoSession \in T /\ runs[r].on \in T => ms \in Seq(Messages(T)),
           Reports(r, h, report, ms), UNCHANGED <<chat, issued, stored, used, toHost>>
    PROVE  ViewInv'
  <1>1. /\ host \in Hosts(Told) /\ runs \in [Requests -> RunRecords(Told)] /\ toView \in Seq(Messages(Told))
        /\ NoSession \in Told /\ ListAlone
    BY DEF ViewInv, Named, Told
  <1>2. host.list.req = NoRequest /\ r \in host.settling
    BY HiddenIs DEF ViewInv, ListAlone
  <1>3. /\ h \in Hosts(Told) /\ host.settling \subseteq h.settling /\ h.list = host.list
    BY <1>1, FinishedIs
  <1>4. /\ runs[r].on \in stored /\ runs[r].on # NoSession
    BY HiddenIs
  <1>5. CASE ~Accepted(r)
    <2>1. PICK p, n : /\ p \in {runs[r].phase, report.phase} /\ n \in Nat
                      /\ runs' = [runs EXCEPT ![r] = [runs[r] EXCEPT !.phase = p, !.left = n]]
                      /\ host' = host /\ toView' = toView
      <3>1. CASE runs[r].aborted
        <4>1. runs' = [runs EXCEPT ![r] = [runs[r] EXCEPT !.phase = runs[r].phase, !.left = runs[r].left]]
          <5>1. runs[r] = [runs[r] EXCEPT !.phase = runs[r].phase, !.left = runs[r].left]
            BY <1>1 DEF RunRecords
          <5>2. runs' = runs
            BY <1>5, <3>1 DEF Reports
          <5> QED BY <1>1, <5>1, <5>2
        <4> QED BY <1>1, <1>5, <4>1 DEF Reports, PostNothing, RunRecords
      <3>2. CASE ~runs[r].aborted
        <4>1. runs' = [runs EXCEPT ![r] = [runs[r] EXCEPT !.phase = report.phase, !.left = report.left]]
          BY <1>1, <1>5, <3>2 DEF Reports
        <4> QED BY <1>5, <4>1 DEF Reports, PostNothing, RunRecords
      <3> QED BY <3>1, <3>2
    <2> DEFINE x == [runs[r] EXCEPT !.phase = p, !.left = n]
    <2>2. /\ x \in RunRecords(Told) /\ x.on = runs[r].on /\ x.session = runs[r].session /\ x.phase = p
      <3> HIDE DEF Told
      <3> QED BY <1>1, <2>1 DEF RunRecords
    <2>3. runs' = [runs EXCEPT ![r] = x]
      BY <2>1
    <2> HIDE DEF x
    <2>4. Hidden(x) => Hidden(runs[r]) /\ x.on = runs[r].on
      BY <2>2 DEF Hidden
    <2>5. Told \subseteq Told'
      BY <1>1, <2>3, <2>4, Grows
    <2>6. x \in RunRecords(Told') /\ host' \in Hosts(Told') /\ toView' \in Seq(Messages(Told'))
      <3> DEFINE A == Told
                 B == Told'
      <3>1. A \subseteq B /\ x \in RunRecords(A) /\ host' \in Hosts(A) /\ toView' \in Seq(Messages(A))
        BY <1>1, <2>1, <2>2, <2>5
      <3>2. x \in RunRecords(B) /\ host' \in Hosts(B) /\ toView' \in Seq(Messages(B))
        <4> HIDE DEF A, B
        <4> QED BY <3>1, Wider
      <3> QED BY <3>2
    <2>7. ListAlone'
      BY <1>1, <2>1 DEF ListAlone
    <2>8. x.session \in {NoSession, x.on}
      BY <2>2, HiddenIs
    <2>9. r \in host'.settling /\ host.settling \ {r} \subseteq host'.settling
      BY <1>2, <2>1
    <2> QED BY <1>4, <2>2, <2>3, <2>4, <2>5, <2>6, <2>7, <2>8, <2>9, RunStepKeepsInv
  <1>6. CASE Accepted(r)
    <2>1. PICK x : /\ x \in {report, [report EXCEPT !.started = FALSE, !.closed = TRUE, !.terminalSent = FALSE]}
                   /\ runs' = [runs EXCEPT ![r] = x]
                   /\ \/ host' = host /\ toView' = toView
                      \/ /\ host' = [h EXCEPT !.owned = IF runs[r].session = NoSession THEN runs[r].on ELSE h.owned]
                         /\ toView' = toView \o (Started(r) \o ms)
      <3>1. CASE Misplaced(r)
        BY <1>6, <3>1 DEF Reports, PostNothing
      <3>2. CASE ~Misplaced(r)
        BY <1>6, <3>2 DEF Reports, Post
      <3> QED BY <3>1, <3>2
    <2>2. /\ x.on = runs[r].on /\ x.session = runs[r].on /\ x.phase = report.phase
          /\ x \in RunRecords(AnySession)
      BY <2>1 DEF RunRecords
    <2>3. Told \subseteq Told' /\ runs[r].on \in Told' /\ ~Hidden(x)
      BY <2>1, <2>2, BoundIsTold
    <2> DEFINE A == Told
               B == Told'
    <2>4. A \subseteq B /\ runs[r].on \in B /\ NoSession \in B
      BY <1>1, <2>3
    <2>5. host \in Hosts(B) /\ h \in Hosts(B) /\ toView \in Seq(Messages(B))
      <3>1. host \in Hosts(A) /\ h \in Hosts(A) /\ toView \in Seq(Messages(A))
        BY <1>1, <1>3
      <3> HIDE DEF A, B
      <3> QED BY <2>4, <3>1, Wider
    <2>6. x \in RunRecords(B)
      <3> HIDE DEF B
      <3> QED BY <2>2, <2>4 DEF RunRecords
    <2>7. ms \in Seq(Messages(B)) /\ Started(r) \in Seq(Messages(B))
      <3>1. ms \in Seq(Messages(B))
        <4> HIDE DEF A, B
        <4> QED BY <2>4
      <3>2. Message("session-started", r, runs[r].on, "", {}) \in Messages(B)
        <4> HIDE DEF A, B
        <4>1. r \in Nat
          BY DEF Requests
        <4> QED BY <2>4, <4>1, AnswersAre DEF MessageTypes
      <3> HIDE DEF A, B
      <3>3. \A y \in Messages(B) : <<y>> \in Seq(Messages(B))
        OBVIOUS
      <3>4. <<>> \in Seq(Messages(B))
        OBVIOUS
      <3> QED BY <3>1, <3>2, <3>3, <3>4 DEF Started
    <2>8. toView' \in Seq(Messages(B))
      <3> HIDE DEF A, B
      <3>1. Started(r) \o ms \in Seq(Messages(B))
        BY <2>7
      <3>2. toView \o (Started(r) \o ms) \in Seq(Messages(B))
        BY <2>5, <3>1
      <3> QED BY <2>1, <2>5, <3>2
    <2>9. /\ host' \in Hosts(B) /\ host'.list = host.list /\ host.settling \subseteq host'.settling
      <3> HIDE DEF A, B
      <3>1. CASE host' = host
        BY <2>5, <3>1
      <3>2. CASE host' = [h EXCEPT !.owned = IF runs[r].session = NoSession THEN runs[r].on ELSE h.owned]
        BY <1>3, <2>4, <2>5, <3>2 DEF Hosts
      <3> QED BY <2>1, <3>1, <3>2
    <2>10. ListAlone'
      BY <1>2, <2>9 DEF ListAlone
    <2> QED BY <1>2, <1>4, <2>1, <2>2, <2>3, <2>6, <2>8, <2>9, <2>10, RunStepKeepsInv
  <1> QED BY <1>5, <1>6

\* A Run settles: nobody waits for it any more.
LEMMA SettlesKeepInv ==
    ASSUME ViewInv, NEW r \in Requests, NEW phase \in {"settled", "rejected"}, NEW ms \in Seq(Messages(Told)),
           Settles(r, phase, ms), UNCHANGED <<chat, issued>>
    PROVE  ViewInv'
  <1>1. /\ host \in Hosts(Told) /\ runs \in [Requests -> RunRecords(Told)] /\ toView \in Seq(Messages(Told))
        /\ NoSession \in Told /\ ListAlone
    BY DEF ViewInv, Named, Told
  <1> DEFINE x == [NoRun EXCEPT !.phase = phase, !.aborted = runs[r].aborted, !.started = runs[r].started]
  <1>2. runs' = [runs EXCEPT ![r] = x] /\ host' = SettledHost(host, r) /\ toView' = toView \o ms
        /\ UNCHANGED <<stored, used, toHost>>
    BY DEF Settles, Post
  <1>3. x \in RunRecords(Told) /\ x.phase = phase
    <2> HIDE DEF Told
    <2> QED BY <1>1 DEF NoRun, RunRecords, AnySession
  <1> HIDE DEF x
  <1>4. ~Hidden(x) /\ ~AtWork(x) /\ x.phase # "reporting"
    BY <1>3 DEF Hidden, AtWork
  <1>5. Told \subseteq Told'
    BY <1>1, <1>2, <1>4, Grows
  <1>6. /\ host' \in Hosts(Told) /\ host'.settling = host.settling \ {r} /\ host'.list = host.list
        /\ host'.lock = host.lock /\ host'.reset = host.reset /\ host'.active \in {host.active, NoRequest}
    <2> HIDE DEF Told
    <2> QED BY <1>1, <1>2 DEF SettledHost, Hosts, NoRequest
  <1>7. toView' \in Seq(Messages(Told))
    <2> HIDE DEF Told
    <2> QED BY <1>1, <1>2
  <1>8. x \in RunRecords(Told') /\ host' \in Hosts(Told') /\ toView' \in Seq(Messages(Told'))
    <2> DEFINE A == Told
               B == Told'
    <2>1. A \subseteq B /\ x \in RunRecords(A) /\ host' \in Hosts(A) /\ toView' \in Seq(Messages(A))
      BY <1>3, <1>5, <1>6, <1>7
    <2>2. x \in RunRecords(B) /\ host' \in Hosts(B) /\ toView' \in Seq(Messages(B))
      <3> HIDE DEF A, B
      <3> QED BY <2>1, Wider
    <2> QED BY <2>2
  <1>9. ListAlone'
    BY <1>1, <1>6 DEF ListAlone
  <1>10. UNCHANGED <<chat, issued, stored, used, toHost>> /\ host.settling \ {r} \subseteq host'.settling
    BY <1>2, <1>6
  <1> QED BY <1>2, <1>4, <1>5, <1>8, <1>9, <1>10, RunStepKeepsInv

LEMMA OpensKeepInv ==
    ASSUME ViewInv, NEW r \in Requests, RunOpens(r), UNCHANGED <<chat, issued>>
    PROVE  ViewInv'
  <1>1. /\ host \in Hosts(Told) /\ runs \in [Requests -> RunRecords(Told)] /\ toView \in Seq(Messages(Told))
        /\ toHost \in Seq(Intents(Told)) /\ NoSession \in Told /\ ListAlone /\ DOMAIN runs = Requests
    BY DEF ViewInv, Named, Told
  <1>2. PICK s \in Sessions : /\ runs[r].session = NoSession => s \notin used
                              /\ runs[r].session # NoSession => s = runs[r].session /\ s \in stored
                              /\ runs' = [runs EXCEPT ![r] = [runs[r] EXCEPT !.phase = "reporting", !.on = s]]
                              /\ stored' = stored \cup {s} /\ used' = used \cup {s}
    BY <1>1 DEF RunOpens
  <1>3. host' = host /\ toHost' = toHost /\ toView' = toView /\ runs[r].phase = "opening"
    BY DEF RunOpens, PostNothing
  <1> DEFINE x == [runs[r] EXCEPT !.phase = "reporting", !.on = s]
  <1>4. /\ x \in RunRecords(Told) /\ x.phase = "reporting" /\ x.on = s /\ x.session = runs[r].session
    <2> HIDE DEF Told
    <2> QED BY <1>1 DEF RunRecords, AnySession
  <1>5. runs' = [runs EXCEPT ![r] = x]
    BY <1>2
  <1> HIDE DEF x
  <1>6. \A q \in Requests : runs'[q] = IF q = r THEN x ELSE runs[q]
    BY <1>1, <1>5
  <1>7. Hidden(x) => s \notin used
    BY <1>2, <1>4 DEF Hidden
  <1>8. Told \subseteq Told'
    BY <1>2, <1>4, <1>6, <1>7, Grows
  <1>9. runs' \in [Requests -> RunRecords(Told')] /\ host' \in Hosts(Told') /\ toView' \in Seq(Messages(Told'))
    <2> DEFINE A == Told
               B == Told'
    <2>1. A \subseteq B /\ runs' \in [Requests -> RunRecords(A)] /\ host' \in Hosts(A) /\ toView' \in Seq(Messages(A))
      BY <1>1, <1>3, <1>4, <1>5, <1>8
    <2>2. runs' \in [Requests -> RunRecords(B)] /\ host' \in Hosts(B) /\ toView' \in Seq(Messages(B))
      <3> HIDE DEF A, B
      <3> QED BY <2>1, Wider
    <2> QED BY <2>2
  <1>10. r \in host.settling
    BY <1>3 DEF ViewInv, Places, AtWork
  <1>11. \A q \in Requests : AtWork(runs'[q]) => q \in host'.settling
    BY <1>3, <1>6, <1>10 DEF ViewInv, Places
  <1>12. \A q \in Requests : runs'[q].phase = "reporting" =>
            runs'[q].on \in stored' /\ runs'[q].session \in {NoSession, runs'[q].on}
    BY <1>2, <1>4, <1>6 DEF ViewInv, Places
  <1>13. \A q \in HiddenRuns' : (q = r /\ Hidden(x)) \/ (q # r /\ q \in HiddenRuns /\ runs'[q].on \in used)
    BY <1>6, HiddenIs DEF HiddenRuns, Hidden
  <1>14. \A q, p \in HiddenRuns' : q # p => runs'[q].on # runs'[p].on
    BY <1>4, <1>6, <1>7, <1>13 DEF ViewInv, Places, HiddenRuns
  <1>15. Places'
    BY <1>11, <1>12, <1>14 DEF Places
  <1>16. ListAlone'
    BY <1>1, <1>3 DEF ListAlone
  <1>17. used' \subseteq Sessions /\ stored' \subseteq used'
    BY <1>2 DEF ViewInv
  <1>18. toHost' \in Seq(Intents(Told))
    BY <1>1, <1>3
  <1> QED BY <1>8, <1>9, <1>15, <1>16, <1>17, <1>18, HostStep

LEMMA RunsKeepInv ==
    ASSUME ViewInv, NEW r \in Requests, RunStep(r), UNCHANGED <<chat, issued>>
    PROVE  ViewInv'
  <1>1. /\ runs \in [Requests -> RunRecords(Told)] /\ NoSession \in Told /\ r \in Nat
    BY DEF ViewInv, Named, Told, Requests
  <1>2. runs[r] \in RunRecords(AnySession)
    BY <1>1 DEF RunRecords, Told, ViewInv, AnySession
  <1>3. \A T : NoSession \in T /\ runs[r].on \in T =>
           /\ <<Message("text-delta", r, runs[r].on, "", {})>> \in Seq(Messages(T))
           /\ <<>> \in Seq(Messages(T))
    BY <1>1, AnswersAre DEF MessageTypes
  <1>4. CASE RunOpens(r)
    BY <1>4, OpensKeepInv
  <1>5. CASE RunReportsText(r)
    <2> DEFINE b == Bound(r)
               x == [b EXCEPT !.left = b.left - 1]
    <2>1. /\ runs[r].phase = "reporting" /\ runs[r].left > 0
          /\ Reports(r, host, x, <<Message("text-delta", r, runs[r].on, "", {})>>)
          /\ UNCHANGED <<stored, used, toHost>>
      BY <1>5 DEF RunReportsText
    <2>2. b \in RunRecords(AnySession) /\ b.on = runs[r].on /\ b.session = runs[r].on
          /\ b.left = runs[r].left /\ b.phase = runs[r].phase
      BY <1>2 DEF Bound, RunRecords
    <2> HIDE DEF b
    <2>4. b.left - 1 \in Nat
      <3>1. b.left \in Nat /\ b.left > 0
        BY <2>1, <2>2 DEF RunRecords
      <3> QED BY <3>1
    <2>3. x \in RunRecords(AnySession) /\ x.on = runs[r].on /\ x.session = runs[r].on /\ x.phase = "reporting"
      BY <2>1, <2>2, <2>4 DEF RunRecords
    <2> HIDE DEF x
    <2> QED BY <1>3, <2>1, <2>3, ReportsKeepInv
  <1>6. ASSUME NEW status \in RunEnds, RunReportsEnd(r, status) PROVE ViewInv'
    <2> DEFINE b == Bound(r)
               x == [b EXCEPT !.phase = "failing", !.closed = TRUE]
               y == [b EXCEPT !.phase = "ending", !.terminalSent = TRUE]
    <2>1. /\ runs[r].phase = "reporting" /\ UNCHANGED <<stored, used, toHost>>
          /\ \/ Reports(r, host, x, <<>>)
             \/ Reports(r, Finished(host, r), y, <<RunStatus(r, status)>>)
      BY <1>6 DEF RunReportsEnd
    <2>2. b \in RunRecords(AnySession) /\ b.on = runs[r].on /\ b.session = runs[r].on
      BY <1>2 DEF Bound, RunRecords
    <2> HIDE DEF b
    <2>3. x \in RunRecords(AnySession) /\ x.on = runs[r].on /\ x.session = runs[r].on /\ x.phase = "failing"
      BY <2>2 DEF RunRecords
    <2>4. y \in RunRecords(AnySession) /\ y.on = runs[r].on /\ y.session = runs[r].on /\ y.phase = "ending"
      BY <2>2 DEF RunRecords
    <2> HIDE DEF x, y
    <2>5. \A T : NoSession \in T => <<RunStatus(r, status)>> \in Seq(Messages(T))
      <3>1. \A T : NoSession \in T => RunStatus(r, status) \in Messages(T)
        BY <1>1 DEF RunStatus, Message, Messages, MessageTypes, Statuses
      <3> QED BY <3>1
    <2>6. CASE Reports(r, host, x, <<>>)
      <3> DEFINE ms == <<>>
      <3>1. \A T : NoSession \in T /\ runs[r].on \in T => ms \in Seq(Messages(T))
        BY <1>3
      <3>2. Reports(r, host, x, ms)
        BY <2>6
      <3> HIDE DEF ms
      <3> QED BY <2>1, <2>3, <3>1, <3>2, ReportsKeepInv
    <2>7. CASE Reports(r, Finished(host, r), y, <<RunStatus(r, status)>>)
      BY <2>1, <2>4, <2>5, <2>7, ReportsKeepInv
    <2> QED BY <2>1, <2>6, <2>7
  <1>7. CASE RunResolves(r) \/ RunRejects(r)
    <2>1. /\ Notice("run-error", r) \in Messages(Told) /\ RunStatus(r, "failed") \in Messages(Told)
          /\ RunStatus(r, "cancelled") \in Messages(Told) /\ RunStatus(r, "completed") \in Messages(Told)
      <3> HIDE DEF Told
      <3> QED BY <1>1 DEF Notice, RunStatus, Message, Messages, MessageTypes, Statuses
    <2> DEFINE M == Messages(Told)
    <2>2. PICK phase \in {"settled", "rejected"}, u, v \in {<<>>} \cup {<<z>> : z \in M} : Settles(r, phase, u \o v)
      <3>1. \A z \in M : <<z>> = <<>> \o <<z>> /\ <<z>> = <<z>> \o <<>>
        OBVIOUS
      <3>2. <<>> = <<>> \o <<>>
        OBVIOUS
      <3>3. CASE RunResolves(r)
        <4>1. \E w \in {<<>>} \cup {<<z>> : z \in M} : Settles(r, "settled", w)
          BY <2>1, <3>3 DEF RunResolves
        <4> HIDE DEF M
        <4> QED BY <3>1, <3>2, <4>1
      <3>4. CASE RunRejects(r)
        <4>1. \/ Settles(r, "rejected", <<>>)
              \/ \E v \in {<<>>, <<RunStatus(r, "failed")>>} : Settles(r, "rejected", <<Notice("run-error", r)>> \o v)
          BY <3>4 DEF RunRejects
        <4> QED BY <2>1, <3>2, <4>1
      <3> QED BY <1>7, <3>3, <3>4
    <2> HIDE DEF M
    <2>3. u \o v \in Seq(M)
      <3>1. \A z \in M : <<z>> \in Seq(M)
        OBVIOUS
      <3>2. u \in Seq(M) /\ v \in Seq(M)
        <4>1. <<>> \in Seq(M)
          OBVIOUS
        <4> QED BY <2>2, <3>1, <4>1
      <3> QED BY <3>2
    <2> QED BY <2>2, <2>3, SettlesKeepInv DEF M
  <1> QED BY <1>4, <1>5, <1>6, <1>7 DEF RunStep

-----------------------------------------------------------------------------
(* The Session operations and the clearing of local data.                  *)

LEMMA JobsKeepInv ==
    ASSUME ViewInv, UNCHANGED <<chat, issued>>,
           ListReads \/ ListSettles \/ RestoreReads \/ RestoreSettles \/ DeleteSettles \/ ClearSettles
           \/ ResetConfirmed \/ ResetSettles \/ ResetDismissed
    PROVE  ViewInv'
  <1>1. /\ host \in Hosts(Told) /\ runs \in [Requests -> RunRecords(Told)] /\ toView \in Seq(Messages(Told))
        /\ toHost \in Seq(Intents(Told)) /\ NoSession \in Told /\ ListAlone
    BY DEF ViewInv, Named, Told
  <1>2. UNCHANGED <<used, runs, toHost>>
    BY DEF ListReads, ListSettles, RestoreReads, RestoreSettles, DeleteSettles, ClearSettles, ResetConfirmed,
           ResetSettles, ResetDismissed
  <1>3. host.settling = {} => \A r \in Requests : runs[r].phase # "reporting"
    BY HiddenIs
  <1>4. host.settling = {} => stored \subseteq Told
    BY <1>3, SessionAssumption DEF Told, HiddenRuns, Hidden, ViewInv
  <1>5. /\ host.list.req \in Nat /\ host.job.req \in Nat /\ host.reset.req \in Nat /\ host.job.session \in Told
        /\ host.list.found \subseteq Told
    <2> HIDE DEF Told
    <2> QED BY <1>1 DEF Hosts, Lists, Jobs, Resets
  <1>6. PICK ms \in Seq(Messages(Told)) : toView' = toView \o ms
    <2> DEFINE M == Messages(Told)
    <2>1. /\ \A q \in {host.list.req, host.job.req} : Notice("session-error", q) \in M
          /\ Notice("sessions-cleared", host.job.req) \in M
          /\ \A code \in {"unavailable", "partial"} : DeletionError(host.job.req, code) \in M
          /\ Message("session-deleted", host.job.req, host.job.session, "", {}) \in M
          /\ Message("session-restored", host.job.req, host.job.session, "", {}) \in M
          /\ Message("session-list", host.list.req, NoSession, "", host.list.found) \in M
          /\ \A outcome \in {"cancelled", "partial", "completed"} :
                Message("local-data-clear-result", host.reset.req, NoSession, outcome, {}) \in M
      <3> HIDE DEF Told
      <3> QED BY <1>1, <1>5, AnswersAre DEF MessageTypes
    <2> HIDE DEF M
    <2>2. (\E z \in M : toView' = toView \o <<z>>) \/ toView' = toView
      <3>1. CASE ListReads \/ RestoreReads \/ ResetConfirmed
        BY <3>1 DEF ListReads, RestoreReads, ResetConfirmed, PostNothing
      <3>2. CASE ListSettles \/ RestoreSettles
        BY <2>1, <3>2 DEF ListSettles, RestoreSettles, Post
      <3>3. CASE DeleteSettles \/ ClearSettles
        BY <2>1, <3>3 DEF DeleteSettles, ClearSettles, DeleteFails, Post
      <3>4. CASE ResetSettles \/ ResetDismissed
        BY <2>1, <3>4 DEF ResetSettles, ResetDismissed, ResetResult, Post
      <3> QED BY <3>1, <3>2, <3>3, <3>4
    <2>3. toView = toView \o <<>> /\ <<>> \in Seq(M)
      BY <1>1
    <2>4. \A z \in M : <<z>> \in Seq(M)
      OBVIOUS
    <2>5. \E ms \in Seq(M) : toView' = toView \o ms
      BY <2>2, <2>3, <2>4
    <2> QED BY <2>5 DEF M
  <1>7. stored' \subseteq stored
    <2>1. CASE ListReads
      BY <2>1 DEF ListReads
    <2>2. CASE DeleteSettles
      BY <2>2 DEF DeleteSettles
    <2>3. CASE ClearSettles
      BY <2>3 DEF ClearSettles
    <2>4. CASE ResetSettles
      BY <2>4 DEF ResetSettles
    <2> QED BY <2>1, <2>2, <2>3, <2>4 DEF ListSettles, RestoreReads, RestoreSettles, ResetConfirmed, ResetDismissed
  <1>8. \A r \in Requests : runs[r].phase = "reporting" => runs[r].on \in stored'
    <2> SUFFICES ASSUME NEW r \in Requests, runs[r].phase = "reporting" PROVE runs[r].on \in stored'
      OBVIOUS
    <2>1. runs[r].on \in stored /\ host.settling # {}
      BY <1>3, HiddenIs
    <2>2. CASE stored' = stored
      BY <2>1, <2>2
    <2>3. CASE ListReads
      BY <1>1, <2>1, <2>3 DEF ListReads, ListAlone
    <2>4. CASE DeleteSettles
      <3>1. runs[r].on # host.job.session
        BY <1>5, <2>4, HiddenIs DEF DeleteSettles, Quiet, RunOwns
      <3> QED BY <2>1, <2>4, <3>1 DEF DeleteSettles
    <2>5. CASE ClearSettles \/ ResetSettles
      BY <2>1, <2>5 DEF ClearSettles, ResetSettles
    <2> QED BY <2>2, <2>3, <2>4, <2>5 DEF ListSettles, RestoreReads, RestoreSettles, ResetConfirmed, ResetDismissed
  <1>9. /\ host' \in Hosts(Told) /\ host'.settling = host.settling /\ ListAlone'
    <2>1. CASE ListReads
      <3> DEFINE l == [host.list EXCEPT !.read = TRUE, !.found = stored']
      <3>1. host' = [host EXCEPT !.list = l]
        BY <1>1, <2>1 DEF ListReads, Hosts
      <3>2. stored' \subseteq Told
        BY <1>1, <1>4, <1>7, <2>1 DEF ListReads, ListAlone
      <3> HIDE DEF Told
      <3>3. l \in Lists(Told) /\ l.req = host.list.req
        BY <1>1, <3>2 DEF Hosts, Lists
      <3> HIDE DEF l
      <3> QED BY <1>1, <3>1, <3>3 DEF Hosts, ListAlone
    <2>2. CASE ListSettles
      <3> HIDE DEF Told
      <3> DEFINE e == [host EXCEPT !.lock = FALSE, !.list = NoList]
      <3>1. NoList \in Lists(Told) /\ NoList.req = NoRequest
        BY DEF NoList, Lists, NoRequest
      <3>2. e \in Hosts(Told) /\ e.settling = host.settling /\ e.list = NoList
        BY <1>1, <3>1 DEF Hosts
      <3>3. host' = e \/ \E s \in {host.selected, NoSession} :
                            host' = [e EXCEPT !.known = host.list.found, !.selected = s]
        BY <2>2, <3>2 DEF ListSettles, Hosts
      <3> HIDE DEF e
      <3>4. /\ host' \in Hosts(Told) /\ host'.settling = host.settling /\ host'.list = NoList
        BY <1>1, <1>5, <3>2, <3>3 DEF Hosts
      <3> QED BY <3>1, <3>4 DEF ListAlone
    <2>3. CASE RestoreReads
      <3> HIDE DEF Told
      <3> DEFINE j == [host.job EXCEPT !.step = "read"]
      <3>1. host' = [host EXCEPT !.job = j]
        BY <1>1, <2>3 DEF RestoreReads, Hosts
      <3>2. j \in Jobs(Told)
        BY <1>1 DEF Hosts, Jobs
      <3> HIDE DEF j
      <3> QED BY <1>1, <3>1, <3>2 DEF Hosts, ListAlone
    <2>4. CASE RestoreSettles \/ DeleteSettles \/ ClearSettles
      <3> HIDE DEF Told
      <3>1. PICK k \in SUBSET Told, s \in Told, o \in Told :
               host' = [host EXCEPT !.job = NoJob, !.known = k, !.selected = s, !.owned = o]
        <4> DEFINE F(k, s, o) == [host EXCEPT !.job = NoJob, !.known = k, !.selected = s, !.owned = o]
        <4>1. host.known \subseteq Told /\ host.selected \in Told /\ host.owned \in Told
          BY <1>1 DEF Hosts
        <4>2. [host EXCEPT !.job = NoJob] = F(host.known, host.selected, host.owned)
          BY <1>1 DEF Hosts
        <4>3. CASE host' = [host EXCEPT !.job = NoJob]
          BY <4>1, <4>2, <4>3
        <4>4. CASE RestoreSettles /\ host' # [host EXCEPT !.job = NoJob]
          <5>1. \E o \in {host.job.session, host.owned} :
                   host' = F(host.known \cup {host.job.session}, host.job.session, o)
            BY <1>1, <4>4 DEF RestoreSettles, Hosts
          <5>2. host.known \cup {host.job.session} \in SUBSET Told
            BY <1>5, <4>1
          <5> QED BY <1>5, <4>1, <5>1, <5>2
        <4>5. CASE DeleteSettles /\ host' # [host EXCEPT !.job = NoJob]
          <5>1. \E s \in {host.selected, NoSession}, o \in {NoSession, host.owned} :
                   host' = F(host.known \ {host.job.session}, s, o)
            BY <1>1, <4>5 DEF DeleteSettles, DeleteFails, Hosts
          <5>2. host.known \ {host.job.session} \in SUBSET Told
            BY <4>1
          <5>3. PICK s \in {host.selected, NoSession}, o \in {NoSession, host.owned} :
                   host' = F(host.known \ {host.job.session}, s, o)
            BY <5>1
          <5>4. s \in Told /\ o \in Told
            BY <1>1, <4>1, <5>3
          <5> QED BY <5>2, <5>3, <5>4
        <4>6. CASE ClearSettles /\ host' # [host EXCEPT !.job = NoJob]
          <5>1. \E o \in {NoSession, host.owned} : host' = F({}, NoSession, o)
            BY <1>1, <4>6 DEF ClearSettles, DeleteFails, Hosts
          <5> QED BY <1>1, <1>5, <4>1, <5>1
        <4> QED BY <2>4, <4>3, <4>4, <4>5, <4>6
      <3>2. NoJob \in Jobs(Told)
        BY <1>1 DEF NoJob, Jobs, NoRequest
      <3> QED BY <1>1, <3>1, <3>2 DEF Hosts, ListAlone
    <2>5. CASE ResetConfirmed \/ ResetDismissed
      <3> HIDE DEF Told
      <3>1. PICK x \in Resets : host' = [host EXCEPT !.reset = x] /\ x.step # "settling"
        <4>1. NoReset \in Resets /\ [host.reset EXCEPT !.step = "locking"] \in Resets /\ NoReset.step = "none"
              /\ [host.reset EXCEPT !.step = "locking"].step = "locking"
          BY <1>1 DEF Hosts, Resets, NoReset, NoRequest
        <4>2. host' = [host EXCEPT !.reset = [host.reset EXCEPT !.step = "locking"]] \/ host' = [host EXCEPT !.reset = NoReset]
          BY <1>1, <2>5 DEF ResetConfirmed, ResetDismissed, Hosts
        <4> QED BY <4>1, <4>2
      <3> QED BY <1>1, <3>1 DEF Hosts, ListAlone
    <2>6. CASE ResetSettles
      <3> HIDE DEF Told
      <3>1. host' = [host EXCEPT !.reset = NoReset, !.lock = FALSE] /\ host.reset.step = "settling"
        BY <2>6 DEF ResetSettles
      <3>2. NoReset \in Resets
        BY DEF NoReset, Resets, NoRequest
      <3> QED BY <1>1, <3>1, <3>2 DEF Hosts, ListAlone
    <2> QED BY <2>1, <2>2, <2>3, <2>4, <2>5, <2>6
  <1>10. toView' \in Seq(Messages(Told)) /\ toHost' \in Seq(Intents(Told))
    <2> HIDE DEF Told
    <2> QED BY <1>1, <1>2, <1>6
  <1>11. UNCHANGED <<chat, issued, used>> /\ host.settling \subseteq host'.settling
    BY <1>2, <1>9
  <1>12. /\ runs' \in [Requests -> RunRecords(Told)]
         /\ \A r \in Requests : /\ runs'[r].phase = runs[r].phase /\ runs'[r].on = runs[r].on
                                /\ runs'[r].session = runs[r].session
    BY <1>1, <1>2
  <1> QED BY <1>7, <1>8, <1>9, <1>10, <1>11, <1>12, SameRunsStep

LEMMA ResetLocksKeepsInv ==
    ASSUME ViewInv, ResetLocks, UNCHANGED <<chat, issued, toHost>>
    PROVE  ViewInv'
  <1>1. /\ host \in Hosts(Told) /\ toHost \in Seq(Intents(Told)) /\ NoSession \in Told /\ ListAlone
        /\ runs \in [Requests -> RunRecords(Told)] /\ UNCHANGED <<stored, used>>
        /\ \A r \in Requests : runs[r].phase = "reporting" => runs[r].on \in stored
    BY DEF ViewInv, Named, Told, Places, ResetLocks
  <1>2. toHost' \in Seq(Intents(Told))
    BY <1>1
  <1> HIDE DEF Told
  <1>3. CASE host.lock
    <2>1. host' = [host EXCEPT !.reset = NoReset] /\ UNCHANGED runs /\ ResetResult("partial")
      BY <1>3 DEF ResetLocks
    <2>2. NoReset \in Resets /\ NoReset.step = "none"
      BY DEF NoReset, Resets, NoRequest
    <2>3. host' \in Hosts(Told) /\ host'.settling = host.settling /\ ListAlone'
      BY <1>1, <2>1, <2>2 DEF Hosts, ListAlone
    <2>4. host.reset.req \in Nat
      BY <1>1 DEF Hosts, Resets
    <2>5. PICK ms \in Seq(Messages(Told)) : toView' = toView \o ms
      <3>1. /\ Message("local-data-clear-result", host.reset.req, NoSession, "partial", {}) \in Messages(Told)
            /\ \A x \in Messages(Told) : <<x>> \in Seq(Messages(Told))
        BY <1>1, <2>4, AnswersAre
      <3> QED BY <2>1, <3>1 DEF ResetResult, Post
    <2>6. UNCHANGED <<chat, issued, stored, used, runs>>
      BY <1>1, <2>1
    <2> QED BY <1>2, <2>3, <2>5, <2>6, AnswerKeepsInv
  <1>4. CASE ~host.lock
    <2> DEFINE x == [host.reset EXCEPT !.step = "settling"]
               h == [host EXCEPT !.lock = TRUE, !.reset = x]
    <2>1. x \in Resets
      BY <1>1 DEF Hosts, Resets
    <2>2. CancelActive(h)
      <3>1. h = [host EXCEPT !.lock = TRUE, !.reset.step = "settling"]
        BY <1>1 DEF Hosts
      <3> QED BY <1>4, <3>1 DEF ResetLocks
    <2> HIDE DEF x
    <2>3. /\ h \in Hosts(Told) /\ h.active = host.active /\ h.settling = host.settling /\ h.list = host.list
      BY <1>1, <2>1 DEF Hosts
    <2> HIDE DEF h
    <2>4. /\ runs' \in [Requests -> RunRecords(Told)]
          /\ \A r \in Requests : /\ runs'[r].phase = runs[r].phase /\ runs'[r].on = runs[r].on
                                 /\ runs'[r].session = runs[r].session
          /\ host' \in Hosts(Told) /\ host.settling \subseteq host'.settling /\ host'.list = h.list
          /\ toView' \in Seq(Messages(Told))
      BY <2>2, <2>3, CancelActiveIs
    <2>5. ListAlone'
      BY <1>1, <1>4, <2>3, <2>4 DEF ListAlone
    <2>6. stored' \subseteq stored /\ (\A r \in Requests : runs[r].phase = "reporting" => runs[r].on \in stored')
          /\ UNCHANGED <<chat, issued, used>>
      BY <1>1
    <2> QED BY <1>2, <2>4, <2>5, <2>6, SameRunsStep
  <1> QED BY <1>3, <1>4

LEMMA HostNextKeepsInv == ViewInv /\ HostNext /\ UNCHANGED chatVars => ViewInv'
  <1> SUFFICES ASSUME ViewInv, HostNext, UNCHANGED chatVars PROVE ViewInv'
    OBVIOUS
  <1>1. UNCHANGED <<chat, issued>>
    BY DEF chatVars
  <1>2. CASE HandleIntent
    BY <1>1, <1>2, RunIntentsKeepInv, SessionIntentsKeepInv, DeletionIntentsKeepInv DEF HandleIntent
  <1>3. CASE \E r \in Requests : RunStep(r)
    BY <1>1, <1>3, RunsKeepInv
  <1>4. CASE HostJob \/ ResetDismissed
    <2>1. CASE ResetLocks
      <3>1. UNCHANGED <<chat, issued, toHost>>
        BY <1>1, <1>4, <2>1 DEF HostNext, ResetLocks, CancelActive
      <3> QED BY <2>1, <3>1, ResetLocksKeepsInv
    <2>2. CASE ~ResetLocks
      BY <1>1, <1>4, <2>2, JobsKeepInv DEF HostJob
    <2> QED BY <2>1, <2>2
  <1> QED BY <1>2, <1>3, <1>4 DEF HostNext

LEMMA ViewNext == ViewInv /\ [Next]_vars => ViewInv'
  <1> SUFFICES ASSUME ViewInv, [Next]_vars PROVE ViewInv'
    OBVIOUS
  <1>1. CASE HostActs
    BY <1>1, HostNextKeepsInv DEF HostActs
  <1>2. CASE ChatActs
    BY <1>2, UserActsKeepInv DEF ChatActs
  <1>3. CASE ViewReceives
    BY <1>3, ReceiveKeepsInv DEF ViewReceives
  <1>4. CASE ViewPaints
    BY <1>4, FrameKeepsInv DEF ViewPaints
  <1>5. CASE UNCHANGED vars
    BY <1>5 DEF vars, ViewInv, Named, Places, ListAlone, Told, HiddenRuns
  <1> QED BY <1>1, <1>2, <1>3, <1>4, <1>5 DEF Next, Rest

LEMMA ViewHolds == Spec => []ViewInv
  BY ViewInit, ViewNext, PTL DEF Spec

\* A deletion waits for the Runs of its Session, and so does every other loss of a Session: no Run works
\* in a Session that is gone. It needs that nobody can name the Session of a Run that has reported
\* nothing yet (webview-session-message-handler.ts, webview-run-message-handler.ts).
THEOREM RunsWorkInStoredSessionsHolds == Spec => []RunsWorkInStoredSessions
  <1>1. ViewInv => RunsWorkInStoredSessions
    BY DEF ViewInv, Places, RunsWorkInStoredSessions
  <1> QED BY <1>1, ViewHolds, PTL
=============================================================================
