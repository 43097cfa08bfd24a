--------------------------- MODULE McpConnection ---------------------------
(* The connection to the one configured MCP Server: the controller and its    *)
(* attempt to connect, the clients it creates, one per generation, and the    *)
(* Server process each client owns. A client is used for one connection; what *)
(* it hears of its process reaches the controller through the port.           *)
EXTENDS Naturals, FiniteSets

CONSTANTS
    MaxGenerations,  \* bound: clients that are created
    MaxDisconnects,  \* bound: disconnects that are asked for
    MaxConfigured    \* bound: changes of the configuration or the workspace

VARIABLES
    ctl,         \* the controller: snapshot, client, operation, termination, exclusion;
                 \* unseen: a change of the configuration came when none is marked
    attempt,     \* connectOnce
    disconnects, \* disconnect calls
    clients,     \* generation -> client, transport and process
    configured   \* the operation the settings and the workspace describe now

vars == <<ctl, attempt, disconnects, clients, configured>>

Generations == 1 .. MaxGenerations
NoClient == [status |-> "none", connect |-> "none", cleanup |-> "none",
             process |-> "none", unconfirmed |-> FALSE, broken |-> FALSE]
NoAttempt == [step |-> "none", operation |-> 0, reread |-> 0, of |-> 0, aborted |-> FALSE]
NoDisconnect == [step |-> "none", of |-> 0, exclusive |-> FALSE]

Init ==
    /\ ctl = [status |-> "disconnected", generation |-> 0, client |-> 0,
              blocked |-> FALSE, exclusive |-> FALSE, operation |-> 0, stale |-> FALSE,
              unseen |-> FALSE]
    /\ attempt = NoAttempt
    /\ disconnects = [d \in 1 .. MaxDisconnects |-> NoDisconnect]
    /\ clients = [g \in Generations |-> NoClient]
    /\ configured = [operation |-> 1, trusted |-> TRUE]

----------------------------------------------------------------------------
(* The client and its transport. Closing the delivery gate starts the cleanup *)
(* of the process, which is done once however often it is asked for.          *)

Closed(c) == [c EXCEPT !.cleanup = IF @ = "none" THEN "running" ELSE @]
CleanedUp(g) == clients[g].cleanup = "done"
\* disconnect and dispose of the client, before they wait.
ClientDisconnecting(c) ==
    IF c.status = "failed" THEN Closed(c)
    ELSE [Closed(c) EXCEPT !.status = "disconnecting",
                           !.connect = IF @ \in {"probe", "handshake"} THEN "closing" ELSE @]
ClientDisconnected(g) ==
    CleanedUp(g) /\ clients[g].connect \notin {"probe", "handshake", "closing", "refused"}
ClientAtRest(c) ==
    IF c.status = "failed" \/ c.unconfirmed THEN [c EXCEPT !.status = "failed"]
    ELSE [c EXCEPT !.status = "disconnected"]

ControllerFails(h) == [h EXCEPT !.status = "failed"]
ControllerCleared(h) ==
    [h EXCEPT !.status = "disconnected", !.client = 0, !.operation = 0, !.stale = FALSE]

HostFailureWhileConnecting(g, unconfirmed) ==
    IF g # ctl.generation \/ ctl.status # "connecting" THEN ctl
    ELSE [ControllerFails(ctl) EXCEPT !.blocked = @ \/ unconfirmed]
\* #handleHostFailure: what the port of generation g reports.
HostFailure(g, unconfirmed) ==
    IF g # ctl.generation \/ ctl.status \in {"disconnecting", "disconnected"} THEN ctl
    ELSE [ControllerFails(ctl) EXCEPT !.blocked = @ \/ unconfirmed]

\* negotiateMcpEra, then the handshake of the SDK.
Negotiated(g) ==
    /\ clients[g].connect = "probe"
    /\ clients' = [clients EXCEPT ![g].connect = "handshake"]
    /\ UNCHANGED <<ctl, attempt, disconnects, configured>>
Connected(g) ==
    /\ clients[g].connect = "handshake"
    /\ clients' = [clients EXCEPT ![g].connect = "connected", ![g].status = "connected"]
    /\ UNCHANGED <<ctl, attempt, disconnects, configured>>
\* A probe or a handshake that is refused, malformed or too late.
ConnectRefused(g) ==
    /\ clients[g].connect \in {"probe", "handshake"}
    /\ clients' = [clients EXCEPT ![g] = [Closed(@) EXCEPT !.connect = "refused"]]
    /\ UNCHANGED <<ctl, attempt, disconnects, configured>>
\* connectOnce gives up: cancelled when a disconnect or an abort closed the gate
\* before anything failed.
GaveUp(c) ==
    IF c.unconfirmed \/ c.connect = "refused"
    THEN [c EXCEPT !.connect = "failed", !.status = "failed"]
    ELSE [c EXCEPT !.connect = "cancelled",
                   !.status = IF @ = "disconnecting" THEN @ ELSE "disconnected"]
ConnectGivenUp(g) ==
    /\ clients[g].connect \in {"closing", "refused"}
    /\ CleanedUp(g)
    /\ clients' = [clients EXCEPT ![g] = GaveUp(@)]
    /\ UNCHANGED <<ctl, attempt, disconnects, configured>>

\* The transport fails: no message is delivered any more, the process is cleaned up.
ClientFailed(c) ==
    [Closed(c) EXCEPT !.status = "failed",
                      !.connect = IF @ \in {"probe", "handshake"} THEN "refused" ELSE @]
Delivers(g) == clients[g].process = "running" /\ clients[g].cleanup = "none"
\* The process exits by itself: the port tells the client, then the controller.
ServerExits(g) ==
    /\ Delivers(g)
    /\ clients' = [clients EXCEPT ![g] = [ClientFailed(@) EXCEPT !.process = "gone"]]
    /\ ctl' = HostFailure(g, FALSE)
    /\ UNCHANGED <<attempt, disconnects, configured>>
\* A message that is malformed or too long, or a failed write: only the client
\* is told. The process ends in a cleanup then, which the port does not report.
ProtocolBreaks(g) ==
    /\ Delivers(g)
    /\ clients' = [clients EXCEPT ![g] = [ClientFailed(@) EXCEPT !.broken = TRUE]]
    /\ UNCHANGED <<ctl, attempt, disconnects, configured>>
Terminated(g) ==
    /\ clients[g].cleanup = "running"
    /\ clients' = [clients EXCEPT ![g].cleanup = "done", ![g].process = "gone"]
    /\ UNCHANGED <<ctl, attempt, disconnects, configured>>
TerminationUnconfirmed(g) ==
    /\ clients[g].cleanup = "running"
    /\ clients[g].process = "running"
    /\ clients' = [clients EXCEPT ![g].cleanup = "done", ![g].unconfirmed = TRUE,
                                  ![g].status = "failed"]
    /\ ctl' = HostFailure(g, TRUE)
    /\ UNCHANGED <<attempt, disconnects, configured>>

----------------------------------------------------------------------------
(* The controller's attempt to connect.                                      *)

GoOn(step) == attempt' = [attempt EXCEPT !.step = step]
\* It goes on with this.#client as it is now.
WithClient(step) == attempt' = [attempt EXCEPT !.step = step, !.of = ctl.client]
AttemptEnds == attempt' = NoAttempt
At(step) == attempt.step = step /\ ~attempt.aborted

\* What the user does is handled when no continuation of ours is due.
NothingDue == \A d \in DOMAIN disconnects :
    CASE disconnects[d].step = "attempt" -> attempt.step # "none"
      [] disconnects[d].step = "client" -> ~ClientDisconnected(disconnects[d].of)
      [] OTHER -> TRUE
Connect ==
    /\ NothingDue
    /\ IF ctl.exclusive
       THEN ctl' = ControllerFails(ctl) /\ UNCHANGED <<attempt, clients>>
       ELSE /\ attempt.step = "none"
            /\ ctl.status # "connected"
            /\ IF ctl.blocked
               THEN ctl' = ControllerFails(ctl) /\ UNCHANGED <<attempt, clients>>
               ELSE IF ctl.status = "failed" /\ ctl.client # 0
               THEN /\ WithClient("release")
                    /\ clients' = [clients EXCEPT ![ctl.client] = ClientDisconnecting(@)]
                    /\ UNCHANGED ctl
               ELSE GoOn("read") /\ UNCHANGED <<ctl, clients>>
    /\ UNCHANGED <<disconnects, configured>>

\* #releaseFailedClient has waited for the failed client's cleanup.
Released ==
    /\ attempt.step = "release"
    /\ ClientDisconnected(attempt.of)
    /\ IF clients[attempt.of].unconfirmed
       THEN AttemptEnds /\ ctl' = [ControllerFails(ctl) EXCEPT !.blocked = TRUE]
       ELSE GoOn("read") /\ ctl' = [ctl EXCEPT !.client = 0, !.operation = 0]
    /\ UNCHANGED <<disconnects, clients, configured>>

\* #readOperation reads the settings and the selected folder in one step, then
\* waits for the folder to be bound and asks for trust once more. The user then
\* answers, and what was approved is read again the same way.
ReadConfiguration ==
    /\ At("read") /\ configured.trusted
    /\ attempt' = [attempt EXCEPT !.step = "binding", !.operation = configured.operation]
    /\ UNCHANGED <<ctl, disconnects, clients, configured>>
WorkspaceBound ==
    /\ At("binding") /\ configured.trusted
    /\ GoOn("approval")
    /\ UNCHANGED <<ctl, disconnects, clients, configured>>
Approved ==
    /\ At("approval")
    /\ NothingDue
    /\ GoOn("reread")
    /\ UNCHANGED <<ctl, disconnects, clients, configured>>
NotApproved ==
    /\ At("approval")
    /\ AttemptEnds
    /\ ctl' = ControllerFails(ctl)
    /\ UNCHANGED <<disconnects, clients, configured>>
ReadAgain ==
    /\ At("reread") /\ configured.trusted
    /\ attempt' = [attempt EXCEPT !.step = "rebinding", !.reread = configured.operation]
    /\ ctl' = [ctl EXCEPT !.unseen = FALSE]
    /\ UNCHANGED <<disconnects, clients, configured>>
Reading == {"read", "binding", "reread", "rebinding"}
\* Nothing valid is configured, the folder cannot be bound, or trust is lost.
ReadFails ==
    /\ \E step \in Reading : At(step)
    /\ AttemptEnds
    /\ ctl' = ControllerFails(ctl)
    /\ UNCHANGED <<disconnects, clients, configured>>

ApprovedOnce == TRUE
\* sameMcpStartOperation: what was approved must be what was read again.
StillApproved == attempt.reread = attempt.operation
StartServer ==
    /\ At("rebinding") /\ configured.trusted
    /\ ctl.generation < MaxGenerations
    /\ IF StillApproved
       THEN LET g == ctl.generation + 1 IN
            /\ ctl' = [ctl EXCEPT !.generation = g, !.status = "connecting", !.client = g,
                                  !.operation = attempt.operation, !.stale = FALSE]
            /\ clients' = [clients EXCEPT ![g] =
                   [NoClient EXCEPT !.status = "connecting", !.connect = "probe",
                                    !.process = "running"]]
            /\ GoOn("connect")
       ELSE AttemptEnds /\ ctl' = ControllerFails(ctl) /\ UNCHANGED clients
    /\ UNCHANGED <<disconnects, configured>>

\* The attempt awaits the client it created; what follows goes through
\* this.#client, which may be another one by then, or none.
Own == ctl.generation
ConnectSettles ==
    /\ attempt.step = "connect"
    /\ clients[Own].connect \in {"connected", "cancelled", "failed"}
    /\ CASE clients[Own].connect = "cancelled" ->
              AttemptEnds /\ ctl' = ControllerCleared(ctl)
         [] clients[Own].connect = "failed" ->
              /\ AttemptEnds
              /\ ctl' = [ControllerFails(ctl) EXCEPT
                            !.blocked = @ \/ clients[Own].unconfirmed]
         [] clients[Own].connect = "connected" ->
              IF ctl.status = "failed" THEN AttemptEnds /\ UNCHANGED ctl
              ELSE IF ctl.client = 0
              THEN /\ AttemptEnds
                   /\ ctl' = IF attempt.aborted THEN ControllerCleared(ctl) ELSE ControllerFails(ctl)
              ELSE WithClient("tools") /\ UNCHANGED ctl
    /\ UNCHANGED <<disconnects, clients, configured>>

\* Tools, Resources and Prompts are discovered in turn, each with this.#client
\* as it is when its turn comes; the catalogs themselves are McpCatalog's.
Discovering == attempt.step \in {"tools", "resources", "prompts"}
Usable == clients[attempt.of].status = "connected"
Discovered ==
    /\ Discovering /\ ~attempt.aborted /\ Usable
    /\ IF attempt.step = "prompts"
       THEN /\ AttemptEnds
            /\ ctl' = IF ctl.status = "failed" THEN ctl
                      ELSE [ctl EXCEPT !.status = "connected", !.stale = FALSE]
       ELSE IF ctl.client = 0 THEN AttemptEnds /\ ctl' = ControllerFails(ctl)
       ELSE /\ WithClient(IF attempt.step = "tools" THEN "resources" ELSE "prompts")
            /\ UNCHANGED ctl
    /\ UNCHANGED <<disconnects, clients, configured>>
DiscoveryFails ==
    /\ Discovering /\ ~attempt.aborted
    /\ IF ctl.client = 0
       THEN AttemptEnds /\ ctl' = ControllerFails(ctl) /\ UNCHANGED clients
       ELSE /\ WithClient("giveup")
            /\ clients' = [clients EXCEPT ![ctl.client] = ClientDisconnecting(@)]
            /\ UNCHANGED ctl
    /\ UNCHANGED <<disconnects, configured>>
GivenUp ==
    /\ attempt.step = "giveup"
    /\ ClientDisconnected(attempt.of)
    /\ AttemptEnds
    /\ ctl' = ControllerFails(ctl)
    /\ UNCHANGED <<disconnects, clients, configured>>

\* The abort of the attempt is seen: the client it has by now is disposed of, or
\* only forgotten when the user was asked.
AttemptAborts ==
    /\ attempt.aborted
    /\ Discovering \/ attempt.step \in Reading \cup {"approval"}
    /\ IF ctl.client = 0 \/ attempt.step = "approval"
       THEN AttemptEnds /\ ctl' = ControllerCleared(ctl) /\ UNCHANGED clients
       ELSE /\ WithClient("dispose")
            /\ clients' = [clients EXCEPT ![ctl.client] = ClientDisconnecting(@)]
            /\ UNCHANGED ctl
    /\ UNCHANGED <<disconnects, configured>>
AttemptDisposed ==
    /\ attempt.step = "dispose"
    /\ ClientDisconnected(attempt.of)
    /\ AttemptEnds
    /\ ctl' = IF clients[attempt.of].unconfirmed
              THEN [ControllerFails(ctl) EXCEPT !.blocked = TRUE]
              ELSE ControllerCleared(ctl)
    /\ UNCHANGED <<disconnects, clients, configured>>

----------------------------------------------------------------------------
(* Disconnect, exclusive use, and the loss of trust.                         *)

Aborted(a) == IF a.step = "none" THEN a ELSE [a EXCEPT !.aborted = TRUE]
\* The signal of an attempt that is in client.connect closes the gate there.
GateClosedByAbort ==
    IF attempt.step = "connect" /\ clients[Own].connect \in {"probe", "handshake"}
    THEN [clients EXCEPT ![Own] = [Closed(@) EXCEPT !.connect = "closing"]]
    ELSE clients

Disconnect(d, exclusive) ==
    /\ disconnects[d] = NoDisconnect
    /\ \A e \in DOMAIN disconnects : e < d => disconnects[e] # NoDisconnect
    /\ exclusive => ~ctl.exclusive
    /\ attempt' = Aborted(attempt)
    /\ disconnects' = [disconnects EXCEPT ![d] =
          [step |-> IF ctl.client = 0 THEN "attempt" ELSE "client",
           of |-> ctl.client, exclusive |-> exclusive]]
    /\ clients' = IF ctl.client = 0 THEN GateClosedByAbort
                  ELSE [GateClosedByAbort EXCEPT ![ctl.client] = ClientDisconnecting(@)]
    /\ ctl' = [ctl EXCEPT !.exclusive = @ \/ exclusive,
                          !.status = IF ctl.client = 0 THEN @ ELSE "disconnecting"]
    /\ UNCHANGED configured

\* The exclusion is kept only if the controller is disconnected.
DisconnectEnds(d, h) ==
    /\ disconnects' = [disconnects EXCEPT ![d].step = "done"]
    /\ ctl' = [h EXCEPT !.exclusive =
                  @ /\ ~(disconnects[d].exclusive /\ h.status # "disconnected")]
NothingToDisconnect(d) ==
    /\ disconnects[d].step = "attempt"
    /\ attempt.step = "none"
    /\ DisconnectEnds(d, ControllerCleared(ctl))
    /\ UNCHANGED <<attempt, clients, configured>>
ClientGone(d) ==
    LET g == disconnects[d].of IN
    /\ disconnects[d].step = "client"
    /\ ClientDisconnected(g)
    /\ ~(attempt.step = "connect" /\ g = Own)
    /\ clients' = [clients EXCEPT ![g] = ClientAtRest(@)]
    /\ DisconnectEnds(d, IF clients[g].unconfirmed
                         THEN [ControllerFails(ctl) EXCEPT !.blocked = TRUE]
                         ELSE ControllerCleared(ctl))
    /\ UNCHANGED <<attempt, configured>>
ReleaseExclusive ==
    /\ ctl.exclusive
    /\ \A d \in DOMAIN disconnects : disconnects[d].exclusive => disconnects[d].step = "done"
    /\ ctl' = [ctl EXCEPT !.exclusive = FALSE]
    /\ UNCHANGED <<attempt, disconnects, clients, configured>>

\* markConfigurationStale
Marked == ctl.operation # 0 /\ ctl.status \in {"connecting", "connected"}
\* No mark is made while the workspace is bound again, and one that is made while
\* the controller connects is taken back when it is connected.
Unmarked == attempt.step = "rebinding" \/ ctl.status = "connecting"
\* The user edits the settings or selects another folder.
Reconfigure ==
    /\ configured.operation < MaxConfigured
    /\ configured' = [configured EXCEPT !.operation = @ + 1]
    /\ ctl' = [ctl EXCEPT !.stale = @ \/ Marked, !.unseen = @ \/ Unmarked]
    /\ UNCHANGED <<attempt, disconnects, clients>>
\* handleWorkspaceTrustChange disconnects in the same step.
LoseTrust(d) ==
    /\ configured.trusted
    /\ disconnects[d] = NoDisconnect
    /\ configured' = [configured EXCEPT !.trusted = FALSE]
    /\ attempt' = Aborted(attempt)
    /\ disconnects' = [disconnects EXCEPT ![d] =
          [step |-> IF ctl.client = 0 THEN "attempt" ELSE "client",
           of |-> ctl.client, exclusive |-> FALSE]]
    /\ clients' = IF ctl.client = 0 THEN GateClosedByAbort
                  ELSE [GateClosedByAbort EXCEPT ![ctl.client] = ClientDisconnecting(@)]
    /\ ctl' = [ctl EXCEPT !.status = IF ctl.client = 0 THEN @ ELSE "disconnecting"]

Next ==
    \/ \E g \in Generations :
         \/ Negotiated(g) \/ Connected(g) \/ ConnectRefused(g) \/ ConnectGivenUp(g)
         \/ ServerExits(g) \/ ProtocolBreaks(g) \/ Terminated(g) \/ TerminationUnconfirmed(g)
    \/ Connect \/ Released \/ ReadConfiguration \/ WorkspaceBound \/ Approved \/ NotApproved
    \/ ReadAgain \/ ReadFails \/ StartServer \/ ConnectSettles \/ Discovered \/ DiscoveryFails \/ GivenUp
    \/ AttemptAborts \/ AttemptDisposed
    \/ \E d \in DOMAIN disconnects :
         \/ \E exclusive \in BOOLEAN : Disconnect(d, exclusive)
         \/ NothingToDisconnect(d) \/ ClientGone(d) \/ LoseTrust(d)
    \/ ReleaseExclusive \/ Reconfigure

Spec == Init /\ [][Next]_vars

----------------------------------------------------------------------------
TypeOK ==
    /\ ctl.status \in {"disconnected", "connecting", "connected", "disconnecting", "failed"}
    /\ ctl.client \in 0 .. ctl.generation
    /\ attempt.step = "connect" => Own > 0

\* A Server is started only as it is configured at that moment, which is what
\* the user approved, and only in a trusted workspace. (A change that comes while
\* the workspace is bound again is not noticed.)
StartsOnlyWhatWasApproved ==
    [][\A g \in Generations :
         clients[g].process = "none" /\ clients'[g].process = "running" =>
             configured.trusted /\ (configured.operation = attempt.operation \/ ctl.unseen)]_vars

\* While the panel says connected, the controller's client is connected and its
\* Server runs. Two cases are left out: a break of the protocol, of which the
\* controller never hears: the client is of no use then and its Server is cleaned
\* up; and a client that was forgotten by the end of a disconnect of an earlier one.
Live(g) == g # 0 /\ clients[g].status = "connected" /\ clients[g].process = "running"
BrokenUnheard(g) ==
    g # 0 /\ clients[g].broken /\ clients[g].status = "failed" /\ clients[g].cleanup # "none"
Forgotten ==
    /\ ctl.client = 0
    /\ \E d \in DOMAIN disconnects :
         disconnects[d].step = "done" /\ disconnects[d].of \in 1 .. ctl.generation - 1
ConnectedMeansLive ==
    ctl.status = "connected" => Live(ctl.client) \/ BrokenUnheard(ctl.client) \/ Forgotten

\* A connection whose configuration has changed since is marked as stale, unless
\* the change came before it was up.
ChangesAreMarked ==
    ctl.status = "connected" /\ ctl.client # 0 =>
        ctl.operation = configured.operation \/ ctl.stale \/ ctl.unseen
=============================================================================
