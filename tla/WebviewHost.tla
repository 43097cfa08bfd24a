---------------------------- MODULE WebviewHost ----------------------------
(* The extension Host behind one Webview: which Run is active, which Runs     *)
(* still settle, which Session the Host owns, and the Session operations      *)
(* (list, restore, delete, clear, clearing of all local data) that exclude    *)
(* each other and the Runs. A Run is named by the request that started it.    *)
EXTENDS ViewChannel, FiniteSets

CONSTANTS
    MaxEvents,    \* bound: text deltas a Run reports
    MaxPosted,    \* bound: messages under way when the Host does more
    RunEnds,      \* the terminal statuses explored as reported by a Run
    Prior         \* the Sessions saved before the Webview is opened

ASSUME EventsAssumption == MaxEvents \in Nat
ASSUME PriorAssumption == Prior \subseteq Sessions

VARIABLES
    host,    \* the two handlers and the clearing controller
    runs,    \* request -> what the Run it started does
    stored,  \* Sessions that exist on disk
    used     \* Sessions that ever existed: a Session id is never reused

hostVars == <<host, runs, stored, used>>

NoRun == [phase |-> "none", session |-> NoSession, on |-> NoSession, left |-> 0,
          aborted |-> FALSE, started |-> FALSE, closed |-> FALSE,
          terminalSent |-> FALSE]
NoJob == [kind |-> "none", req |-> NoRequest, session |-> NoSession, step |-> ""]
NoList == [req |-> NoRequest, latest |-> FALSE, read |-> FALSE, found |-> {}]
NoReset == [step |-> "none", req |-> NoRequest]

\* A fresh view (no Session), or one that has listed and restored Session s.
HostInit(s) ==
    /\ host = [active |-> NoRequest, settling |-> {}, owned |-> s,
               lock |-> FALSE, list |-> NoList,
               job |-> NoJob, known |-> IF s = NoSession THEN {} ELSE Prior,
               selected |-> s, reset |-> NoReset]
    /\ runs = [r \in Requests |-> NoRun]
    /\ stored = Prior
    /\ used = Prior

----------------------------------------------------------------------------
(* What the handlers ask of each other.                                      *)

CanStart == host.active = NoRequest /\ ~host.lock
CanListSessions == CanStart /\ host.settling = {}
\* A restore, delete or clear is under way.
IsRestoring == host.job # NoJob
\* The clearing of all local data is past its confirmation.
IsResetting == host.reset.step \notin {"none", "confirming"}
OwnsSession(s) ==
    \/ host.owned = s
    \/ host.active # NoRequest /\ runs[host.active].session = s
RunOwns(r, s) ==
    (IF runs[r].session = NoSession THEN host.owned ELSE runs[r].session) = s

Post(messages) == toView' = toView \o messages
PostNothing == UNCHANGED toView

\* #finish: the one terminal status of a Run, posted while it is active.
Finished(h, r) == [h EXCEPT !.active = NoRequest, !.settling = @ \cup {r}]
Finishing(r) == host.active = r /\ ~runs[r].terminalSent

\* An abort of the active Run together with its #finish.
CancelledRun(r) == [runs EXCEPT ![r].aborted = TRUE, ![r].terminalSent = TRUE]
\* cancelAllSessions, before it waits.
CancelActive(h) ==
    IF host.active = NoRequest
    THEN host' = h /\ UNCHANGED runs /\ PostNothing
    ELSE /\ host' = Finished(h, host.active)
         /\ runs' = CancelledRun(host.active)
         /\ Post(<<RunStatus(host.active, "cancelled")>>)

----------------------------------------------------------------------------
(* Intents about Runs.                                                       *)

\* The intent at the head of the channel is handled, unless the clearing of
\* all local data drops it.
Handles(type) ==
    /\ toHost # <<>>
    /\ Head(toHost).type = type
    /\ toHost' = Tail(toHost)
    /\ ~IsResetting

\* createRun and launch.
Launch(req, session) ==
    /\ runs' = [runs EXCEPT ![req] = [NoRun EXCEPT !.phase = "opening",
                                       !.session = session, !.left = MaxEvents]]
    /\ host' = [host EXCEPT !.active = req, !.settling = @ \cup {req}]
    /\ Post(<<RunStatus(req, "preparing")>>)

HandleSubmit ==
    LET m == Head(toHost) IN
    /\ Handles("submit")
    /\ IF /\ CanStart
          /\ ~IsRestoring
          /\ \/ NoSession \in {m.session, host.owned}
             \/ m.session = host.owned
       THEN Launch(m.req, m.session)
       ELSE UNCHANGED <<host, runs>> /\ PostNothing
    /\ UNCHANGED <<stored, used>>

\* regenerate and edit: both need the owned Session, and say so if it is not.
HandleReplace ==
    LET m == Head(toHost) IN
    /\ Handles("regenerate") \/ Handles("edit-message")
    /\ CASE ~CanStart \/ IsRestoring -> UNCHANGED <<host, runs>> /\ PostNothing
         [] OTHER ->
              IF host.owned = m.session
              THEN Launch(m.req, m.session)
              ELSE /\ UNCHANGED <<host, runs>>
                   /\ Post(<<Notice("run-error", m.req), RunStatus(m.req, "failed")>>)
    /\ UNCHANGED <<stored, used>>

HandleCancel ==
    /\ Handles("cancel")
    /\ IF host.active = Head(toHost).req
       THEN CancelActive(host)
       ELSE UNCHANGED <<host, runs>> /\ PostNothing
    /\ UNCHANGED <<stored, used>>

HandleNewChat ==
    /\ Handles("new-chat")
    /\ host' = IF CanStart /\ ~IsRestoring
               THEN [host EXCEPT !.owned = NoSession] ELSE host
    /\ PostNothing
    /\ UNCHANGED <<runs, stored, used>>

----------------------------------------------------------------------------
(* Intents about Sessions.                                                   *)

HandleList ==
    LET m == Head(toHost) IN
    /\ Handles("list-sessions")
    /\ host' = IF CanListSessions /\ ~IsRestoring
               THEN [host EXCEPT !.lock = TRUE,
                               !.list = [NoList EXCEPT !.req = m.req, !.latest = TRUE]]
               ELSE host
    /\ PostNothing
    /\ UNCHANGED <<runs, stored, used>>

HandleSelect ==
    LET s == Head(toHost).session IN
    /\ Handles("select-session")
    /\ host' = IF IsRestoring \/ ~(s = NoSession \/ s \in host.known \/ OwnsSession(s))
               THEN host ELSE [host EXCEPT !.selected = s]
    /\ PostNothing
    /\ UNCHANGED <<runs, stored, used>>

HandleRestore ==
    LET m == Head(toHost) IN
    /\ Handles("restore-session")
    /\ CASE ~CanStart \/ IsRestoring -> UNCHANGED host /\ PostNothing
         [] OTHER ->
              IF m.session \in host.known \/ OwnsSession(m.session)
              THEN /\ host' = [host EXCEPT !.job = [kind |-> "restore", req |-> m.req,
                                            session |-> m.session, step |-> "reading"]]
                   /\ PostNothing
              ELSE UNCHANGED host /\ Post(<<Notice("session-error", m.req)>>)
    /\ UNCHANGED <<runs, stored, used>>

DeletionError(req, code) == Message("session-deletion-error", req, NoSession, code, {})

\* delete, up to the wait for the Runs of the Session.
HandleDelete ==
    LET m == Head(toHost)
        begun == [host EXCEPT !.list.latest = FALSE,
                     !.job = [kind |-> "delete", req |-> m.req, session |-> m.session,
                              step |-> "settling"]]
    IN
    /\ Handles("delete-session")
    /\ CASE IsRestoring -> UNCHANGED <<host, runs>> /\ PostNothing
         [] ~IsRestoring /\ host.selected # m.session /\ ~OwnsSession(m.session) ->
              UNCHANGED <<host, runs>> /\ Post(<<DeletionError(m.req, "unavailable")>>)
         [] OTHER ->
              IF host.active # NoRequest /\ RunOwns(host.active, m.session)
              THEN CancelActive(begun)
              ELSE host' = begun /\ UNCHANGED runs /\ PostNothing
    /\ UNCHANGED <<stored, used>>

HandleClear ==
    LET m == Head(toHost) IN
    /\ Handles("clear-sessions")
    /\ IF IsRestoring
       THEN UNCHANGED <<host, runs>> /\ PostNothing
       ELSE CancelActive([host EXCEPT !.list.latest = FALSE,
                             !.job = [kind |-> "clear", req |-> m.req,
                                      session |-> NoSession, step |-> "settling"]])
    /\ UNCHANGED <<stored, used>>

\* clear-local-data is accepted at any time; the modal question comes first.
HandleReset ==
    /\ toHost # <<>>
    /\ Head(toHost).type = "clear-local-data"
    /\ host.reset = NoReset
    /\ toHost' = Tail(toHost)
    /\ host' = [host EXCEPT !.reset = [step |-> "confirming", req |-> Head(toHost).req]]
    /\ PostNothing
    /\ UNCHANGED <<runs, stored, used>>

\* While local data is cleared every other intent is lost.
DropIntent ==
    /\ IsResetting
    /\ toHost # <<>>
    /\ Head(toHost).type # "clear-local-data"
    /\ toHost' = Tail(toHost)
    /\ PostNothing
    /\ UNCHANGED hostVars

HandleIntent ==
    \/ HandleSubmit \/ HandleReplace \/ HandleCancel \/ HandleNewChat
    \/ HandleList \/ HandleSelect \/ HandleRestore
    \/ HandleDelete \/ HandleClear \/ HandleReset \/ DropIntent

----------------------------------------------------------------------------
(* The Runs. A Run goes on after its cancellation until it settles.          *)

\* Session ids are never used twice; which one is next does not matter.
Fresh == CHOOSE s \in Sessions : s \notin used

\* The runner binds a Run to its Session: a new one is created, a given one
\* must be there.
RunOpens(r) ==
    /\ runs[r].phase = "opening"
    /\ \E s \in Sessions :
        /\ IF runs[r].session = NoSession THEN s \notin used /\ s = Fresh
           ELSE s = runs[r].session /\ s \in stored
        /\ runs' = [runs EXCEPT ![r].phase = "reporting", ![r].on = s]
        /\ stored' = stored \cup {s}
        /\ used' = used \cup {s}
    /\ PostNothing
    /\ UNCHANGED <<host, toHost>>

\* The guard of handleRuntimeEvent, and what its first accepted event does.
Accepted(r) ==
    /\ host.active = r
    /\ ~runs[r].terminalSent /\ ~runs[r].closed
    /\ runs[r].session \in {NoSession, runs[r].on}
\* The Run is another Session's than the Host's.
Misplaced(r) ==
    /\ runs[r].session = NoSession
    /\ host.owned \notin {NoSession, runs[r].on}

Bound(r) == [runs[r] EXCEPT !.session = runs[r].on, !.started = TRUE]
Started(r) ==
    IF runs[r].started THEN <<>>
    ELSE <<Message("session-started", r, runs[r].on, "", {})>>

\* A Run reports something. `report` is what the
\* handler makes of the Run's record once it is bound, `messages` what it posts.
\* What a cancelled Run reports changes nothing.
Reports(r, h, report, messages) ==
    CASE ~Accepted(r) ->
            /\ runs' = IF runs[r].aborted THEN runs
                       ELSE [runs EXCEPT ![r].phase = report.phase,
                                         ![r].left = report.left]
            /\ UNCHANGED host
            /\ PostNothing
      [] Accepted(r) /\ Misplaced(r) ->
            /\ runs' = [runs EXCEPT ![r] = [report EXCEPT !.started = FALSE,
                                              !.closed = TRUE,
                                              !.terminalSent = FALSE]]
            /\ UNCHANGED host
            /\ PostNothing
      [] OTHER ->
            /\ runs' = [runs EXCEPT ![r] = report]
            /\ host' = [h EXCEPT !.owned = IF runs[r].session = NoSession
                                           THEN runs[r].on ELSE @]
            /\ Post(Started(r) \o messages)

\* Text; usage, the budget, Tools and approvals are forwarded in the same way.
RunReportsText(r) ==
    /\ runs[r].phase = "reporting"
    /\ runs[r].left > 0
    /\ Reports(r, host, [Bound(r) EXCEPT !.left = @ - 1],
               <<Message("text-delta", r, runs[r].on, "", {})>>)
    /\ UNCHANGED <<stored, used, toHost>>

\* `failed` is not reported to the user here: the rejection that follows is.
RunReportsEnd(r, status) ==
    /\ runs[r].phase = "reporting"
    /\ IF status = "failed"
       THEN Reports(r, host, [Bound(r) EXCEPT !.phase = "failing", !.closed = TRUE], <<>>)
       ELSE Reports(r, Finished(host, r),
                    [Bound(r) EXCEPT !.phase = "ending", !.terminalSent = TRUE],
                    <<RunStatus(r, status)>>)
    /\ UNCHANGED <<stored, used, toHost>>

\* Mutants: the Run stays the active one; it settles for ever.
SettledButActive(h, r) == [h EXCEPT !.settling = @ \ {r}]
SettlingForEver(h, r) == [h EXCEPT !.active = IF @ = r THEN NoRequest ELSE @]

\* The Run's promise settles: launch's then-handlers and its finally. Of its
\* record nothing is read again.
SettledHost(h, r) ==
    [h EXCEPT !.settling = @ \ {r}, !.active = IF @ = r THEN NoRequest ELSE @]
Settles(r, phase, messages) ==
    /\ runs' = [runs EXCEPT ![r] = [NoRun EXCEPT !.phase = phase,
                                       !.aborted = runs[r].aborted,
                                       !.started = runs[r].started]]
    /\ host' = SettledHost(host, r)
    /\ Post(messages)
    /\ UNCHANGED <<stored, used, toHost>>

RunResolves(r) ==
    /\ \/ runs[r].phase = "ending"
       \/ runs[r].phase = "reporting" /\ runs[r].aborted
    /\ Settles(r, "settled",
               IF Finishing(r)
               THEN <<RunStatus(r, IF runs[r].aborted THEN "cancelled" ELSE "completed")>>
               ELSE <<>>)

\* A Run may fail, or be stopped by its signal, at any point before it settles.
RunRejects(r) ==
    /\ runs[r].phase \in {"opening", "reporting", "failing", "ending"}
    /\ Settles(r, "rejected",
               IF runs[r].aborted THEN <<>>
               ELSE <<Notice("run-error", r)>>
                    \o IF Finishing(r) THEN <<RunStatus(r, "failed")>> ELSE <<>>)

RunStep(r) ==
    \/ RunOpens(r)
    \/ RunReportsText(r)
    \/ \E status \in RunEnds : RunReportsEnd(r, status)
    \/ RunResolves(r)
    \/ RunRejects(r)

----------------------------------------------------------------------------
(* The Session operations settle.                                            *)

\* The stored Sessions are read, and the expired ones removed.
ListReads ==
    /\ host.list.req # NoRequest /\ ~host.list.read
    /\ \E expired \in SUBSET stored :
        /\ stored' = stored \ expired
        /\ host' = [host EXCEPT !.list.read = TRUE, !.list.found = stored \ expired]
    /\ PostNothing
    /\ UNCHANGED <<runs, used, toHost>>

\* `latest`: no deletion came after the list under way.
ListSettles ==
    LET found == host.list.found
        ended == [host EXCEPT !.lock = FALSE, !.list = NoList]
    IN
    /\ host.list.req # NoRequest
    /\ \/ /\ host.list.read
          /\ host' = IF ~host.list.latest THEN ended
                     ELSE [ended EXCEPT !.known = found,
                              !.selected = IF @ \in found \/ OwnsSession(@) THEN @
                                           ELSE NoSession]
          /\ Post(<<Message("session-list", host.list.req, NoSession, "", found)>>)
       \/ host' = ended /\ Post(<<Notice("session-error", host.list.req)>>)
    /\ UNCHANGED <<runs, stored, used, toHost>>

RestoreReads ==
    /\ host.job.kind = "restore" /\ host.job.step = "reading"
    /\ host.job.session \in stored
    /\ host' = [host EXCEPT !.job.step = "read"]
    /\ PostNothing
    /\ UNCHANGED <<runs, stored, used, toHost>>

\* setOwnedSession is asked after the restored Session is selected and known.
RestoreSettles ==
    LET s == host.job.session IN
    /\ host.job.kind = "restore"
    /\ \/ /\ host.job.step = "read"
          /\ host' = [host EXCEPT !.job = NoJob, !.selected = s, !.known = @ \cup {s},
                !.owned = IF host.active = NoRequest THEN s ELSE @]
          /\ Post(<<Message("session-restored", host.job.req, s, "", {})>>)
       \/ /\ host' = [host EXCEPT !.job = NoJob]
          /\ Post(<<Notice("session-error", host.job.req)>>)
    /\ UNCHANGED <<runs, stored, used, toHost>>

\* Mutant: a cancelled Run is not waited for.
QuietOnceCancelled(s) == \A r \in host.settling : runs[r].aborted \/ ~RunOwns(r, s)
\* The Runs a deletion waits for have settled.
Quiet(s) == \A r \in host.settling : ~RunOwns(r, s)

DeleteFails(code) ==
    /\ host' = [host EXCEPT !.job = NoJob]
    /\ Post(<<DeletionError(host.job.req, code)>>)

DeleteSettles ==
    LET s == host.job.session IN
    /\ host.job.kind = "delete"
    /\ Quiet(s)
    /\ \/ /\ stored' = stored \ {s}
          /\ host' = [host EXCEPT !.job = NoJob, !.known = @ \ {s},
                !.selected = IF @ = s THEN NoSession ELSE @,
                !.owned = IF host.active = NoRequest /\ @ = s THEN NoSession ELSE @]
          /\ Post(<<Message("session-deleted", host.job.req, s, "", {})>>)
       \/ DeleteFails("unavailable") /\ UNCHANGED stored
       \/ DeleteFails("partial") /\ stored' = stored \ {s}
    /\ UNCHANGED <<runs, used, toHost>>

ClearSettles ==
    /\ host.job.kind = "clear"
    /\ host.settling = {}
    /\ \/ /\ stored' = {}
          /\ host' = [host EXCEPT !.job = NoJob, !.known = {}, !.selected = NoSession,
                !.owned = IF host.active = NoRequest THEN NoSession ELSE @]
          /\ Post(<<Notice("sessions-cleared", host.job.req)>>)
       \/ DeleteFails("unavailable") /\ UNCHANGED stored
       \/ DeleteFails("partial") /\ \E kept \in SUBSET stored : stored' = kept
    /\ UNCHANGED <<runs, used, toHost>>

----------------------------------------------------------------------------
(* Clearing all local data.                                                  *)

ResetResult(outcome) ==
    Post(<<Message("local-data-clear-result", host.reset.req, NoSession, outcome, {})>>)

ResetDismissed ==
    /\ host.reset.step = "confirming"
    /\ host' = [host EXCEPT !.reset = NoReset]
    /\ ResetResult("cancelled")
    /\ UNCHANGED <<runs, stored, used, toHost>>

\* The Provider lock comes first, and waits.
ResetConfirmed ==
    /\ host.reset.step = "confirming"
    /\ host' = [host EXCEPT !.reset.step = "locking"]
    /\ PostNothing
    /\ UNCHANGED <<runs, stored, used, toHost>>

\* acquireLocalDataClearLock, which asks for the history lock only.
ResetLocks ==
    /\ host.reset.step = "locking"
    /\ IF host.lock
       THEN /\ host' = [host EXCEPT !.reset = NoReset]
            /\ UNCHANGED runs
            /\ ResetResult("partial")
       ELSE CancelActive([host EXCEPT !.lock = TRUE, !.reset.step = "settling"])
    /\ UNCHANGED <<stored, used, toHost>>

\* The Runs have settled; the MCP lock may still fail. Then the categories, each on its own: one
\* that fails, or counts a failure, makes the result partial. The locks are released either way.
ResetSettles ==
    /\ host.reset.step = "settling"
    /\ host.settling = {}
    /\ host' = [host EXCEPT !.reset = NoReset, !.lock = FALSE]
    /\ \/ stored' = {} /\ ResetResult("completed")
       \/ (\E kept \in SUBSET stored : stored' = kept) /\ ResetResult("partial")
    /\ UNCHANGED <<runs, used, toHost>>

HostJob ==
    \/ ListReads \/ ListSettles \/ RestoreReads \/ RestoreSettles \/ DeleteSettles \/ ClearSettles
    \/ ResetConfirmed \/ ResetLocks \/ ResetSettles

HostNext ==
    /\ Len(toView) < MaxPosted
    /\ \/ HandleIntent
       \/ \E r \in Requests : RunStep(r)
       \/ HostJob
       \/ ResetDismissed
=============================================================================
