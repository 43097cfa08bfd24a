----------------------------- MODULE AgentView -----------------------------
(* One Webview and the Host behind it, composed over the two channels.        *)
EXTENDS WebviewHost, ChatStore

CONSTANT Opened  \* the Sessions the view may have restored at the start, or none

ASSUME OpenedAssumption == Opened \subseteq Prior \cup {NoSession}

VARIABLE gone  \* history: the Sessions the user was told are deleted

vars == <<host, runs, stored, used, chat, issued, toHost, toView, gone>>

Init ==
    /\ \E s \in Opened : HostInit(s) /\ ChatInit(s, Prior)
    /\ toHost = <<>> /\ toView = <<>>
    /\ gone = {}

\* What a confirmation tells: the deleted Session, or all there were.
Confirmed ==
    LET all == used \ stored IN
    IF toView = <<>> \/ toView' # Tail(toView) THEN {}
    ELSE CASE Incoming.type = "session-deleted" /\ Incoming.req = chat.delete ->
                {Incoming.session}
           [] Incoming.type = "sessions-cleared" /\ Incoming.req = chat.clear -> all
           [] Incoming.type = "local-data-clear-result" /\ Incoming.req = chat.reset
              /\ Incoming.status = "completed" -> all
           [] OTHER -> {}

HostActs == HostNext /\ UNCHANGED <<chatVars, gone>>
ChatActs == UserActs /\ UNCHANGED <<hostVars, gone>>
ViewReceives == Receive /\ gone' = gone \cup Confirmed /\ UNCHANGED hostVars
ViewPaints == Frame /\ UNCHANGED <<hostVars, gone>>

\* The user may do nothing, and nobody has anything more to say.
Rest == ChannelsEmpty /\ UNCHANGED vars

Next == HostActs \/ ChatActs \/ ViewReceives \/ ViewPaints \/ Rest

Spec == Init /\ [][Next]_vars

----------------------------------------------------------------------------
(* Properties.                                                               *)

JobType == [kind : {"none", "restore", "delete", "clear"}, req : AnyRequest,
            session : AnySession, step : {"", "reading", "read", "settling"}]
HostOK ==
    /\ host.active \in AnyRequest /\ host.settling \subseteq Requests
    /\ host.owned \in AnySession /\ host.selected \in AnySession
    /\ host.lock \in BOOLEAN
    /\ host.list \in [req : AnyRequest, latest : BOOLEAN, read : BOOLEAN,
                     found : SUBSET Sessions]
    /\ host.known \subseteq Sessions /\ host.job \in JobType
    /\ host.reset \in [step : {"none", "confirming", "locking", "settling"},
                       req : AnyRequest]
RunsOK ==
    \A r \in Requests :
        /\ runs[r].phase \in {"none", "opening", "reporting", "failing", "ending",
                              "settled", "rejected"}
        /\ {runs[r].session, runs[r].on} \subseteq AnySession
        /\ runs[r].left \in 0 .. MaxEvents
        /\ {runs[r].aborted, runs[r].started, runs[r].closed, runs[r].terminalSent}
              \subseteq BOOLEAN
ChatOK ==
    /\ chat.status \in {"working", "ended"}
    /\ {chat.active, chat.list, chat.restore, chat.delete, chat.clear, chat.reset}
          \subseteq AnyRequest
    /\ {chat.selected, chat.selection, chat.restoreTarget, chat.deleteTarget}
          \subseteq AnySession
    /\ {chat.switching, chat.mutating, chat.readOnly} \subseteq BOOLEAN
    /\ \A i \in DOMAIN chat.transcript :
          /\ chat.transcript[i].by \subseteq Requests
          /\ chat.transcript[i].of \subseteq Sessions
\* Every variable stays in its type, a Session that exists was created, and the
\* list and the clearing are the only ones that hold the history lock.
TypeOK ==
    /\ HostOK /\ RunsOK /\ ChatOK
    /\ stored \subseteq used /\ used \subseteq Sessions /\ gone \subseteq Sessions
    /\ host.lock <=> host.list.req # NoRequest \/ host.reset.step = "settling"

\* What the transcript shows comes from the Session the view names as current,
\* whatever restores, deletions and Runs answer late (chat-store.ts receive).
ShownBelongsToSelected ==
    \A i \in DOMAIN chat.transcript : chat.transcript[i].of \subseteq {chat.selected}

\* One answer holds the text of one Run: neither a regeneration, an edit nor text
\* that waits for its frame adds to what another Run wrote. Everything keeps its
\* type with it.
AnswerFromOneRun ==
    /\ TypeOK
    /\ \A i \in DOMAIN chat.transcript : Cardinality(chat.transcript[i].by) <= 1

\* An active Run is one the view follows, so that the user sees it and can cancel
\* it; no deletion, restore or clearing leaves a Run behind that works unseen.
ActiveRunIsFollowed ==
    host.active # NoRequest => chat.active = host.active

\* A deletion waits for the Runs of its Session: no Run is still at work in a
\* Session that is gone, so none can write it back.
RunsWorkInStoredSessions ==
    \A r \in Requests : runs[r].phase = "reporting" => runs[r].on \in stored

\* What the user was told is deleted is neither listed nor current again,
\* whatever lists and restores were under way (webview-session-message-handler.ts).
DeletedStaysGone ==
    gone \cap (chat.sessions \cup {chat.selected, chat.selection}) = {}

----------------------------------------------------------------------------
(* Fairness: messages arrive, Runs and file operations settle.                *)

Settling == \E r \in Requests : RunResolves(r) \/ RunRejects(r)
Answering ==
    \/ ViewReceives
    \/ (HandleIntent \/ HostJob \/ Settling) /\ UNCHANGED <<chatVars, gone>>

FairSpec == Spec /\ WF_vars(Answering)

DeletionOver == chat.delete = NoRequest /\ chat.clear = NoRequest
\* A deletion is on its way, and the Host is not at a restore that the view gave up
\* when all local data was cleared: it would drop the deletion without an answer.
DeletionHeard ==
    /\ \E i \in DOMAIN toHost : toHost[i].type \in {"delete-session", "clear-sessions"}
    /\ host.job.kind = "restore" => host.job.req = chat.restore

\* Every deletion that is not dropped is answered, also when Runs must settle first.
DeletionIsAnswered == DeletionHeard ~> DeletionOver

\* A submitted question is answered by a terminal status: "holds Run startup until
\* an in-flight Session history refresh completes" and then starts it
\* (webview-message-controller.test.ts:676).
SubmitIsAnswered ==
    \A r \in Requests : chat.active = r ~> chat.active # r
=============================================================================
