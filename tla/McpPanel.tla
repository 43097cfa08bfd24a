------------------------------ MODULE McpPanel ------------------------------
(* The MCP panel: the Host publishes the connection and the Tool catalog when *)
(* it is asked to and, every half second, when they have changed; the panel   *)
(* takes them in order, but while a connect or a disconnect of its own is     *)
(* unanswered it takes no other word about the connection. How the connection *)
(* and the catalog come to change is McpConnection and McpCatalog.            *)
EXTENDS Naturals, Sequences

CONSTANTS
    Oversized,      \* a catalog that does not fit into one message, or 0
    MaxGenerations, \* bound: connections
    MaxTools,       \* bound: catalogs
    MaxRequests,    \* bound: connects and disconnects from the panel
    MaxPosted,      \* bound: messages on their way when another is posted
    MaxSequence     \* stands for Number.MAX_SAFE_INTEGER

VARIABLES
    mcp,       \* what the controller says: status, generation, Tool catalog
    publisher, \* McpWebviewActions: signatures, scope and sequence
    intents,   \* connects and disconnects the Host works on
    posted,    \* messages on their way to the panel
    panel      \* the store of the panel

panelVars == <<mcp, publisher, intents, posted, panel>>

Unpublished == [signature |-> <<>>, scope |-> 0, sequence |-> 0, blocked |-> FALSE,
                tools |-> 0]

Init ==
    /\ mcp \in [status : {"disconnected"}, generation : {0}, tools : {0},
                 oversized : {0, Oversized}]
    /\ publisher = Unpublished
    /\ intents = {}
    /\ posted = <<>>
    /\ panel = [status |-> "disconnected", generation |-> 0, tools |-> 0, sequence |-> 0,
                closed |-> FALSE, awaiting |-> 0, asked |-> 0, busy |-> FALSE]

----------------------------------------------------------------------------
(* #publish                                                                  *)

ConnectionOf(request) == [kind |-> "connection", request |-> request,
                          status |-> mcp.status, generation |-> mcp.generation]
CatalogOf(sequence) == [kind |-> "tools", generation |-> mcp.generation,
                        sequence |-> sequence, tools |-> mcp.tools]
\* Another connection: its catalogs are counted from one again.
Rescoped(p) ==
    IF p.scope = mcp.generation THEN p
    ELSE [p EXCEPT !.scope = mcp.generation, !.sequence = 0, !.blocked = FALSE, !.tools = 0]

Publishes(request, force) ==
    LET changed == force \/ publisher.signature # <<mcp.status, mcp.generation>>
        said == [publisher EXCEPT !.signature = <<mcp.status, mcp.generation>>]
        p == Rescoped(said)
        connection == IF changed THEN <<ConnectionOf(request)>> ELSE <<>>
        due == ~p.blocked /\ mcp.tools # 0 /\ (force \/ p.tools # mcp.tools)
        fits == mcp.tools # mcp.oversized
    IN IF mcp.status # "connected"
       THEN /\ publisher' = [Unpublished EXCEPT !.signature = said.signature]
            /\ posted' = posted \o connection
            /\ UNCHANGED mcp
       ELSE IF due /\ p.sequence = MaxSequence
       THEN \* #closeOverflowedGeneration
            /\ publisher' = [p EXCEPT !.blocked = TRUE]
            /\ posted' = posted \o connection
            /\ mcp' = [mcp EXCEPT !.status = "disconnecting", !.tools = 0]
       ELSE IF due /\ fits
       THEN /\ publisher' = [p EXCEPT !.sequence = @ + 1, !.tools = mcp.tools]
            /\ posted' = posted \o connection \o <<CatalogOf(p.sequence + 1)>>
            /\ UNCHANGED mcp
       ELSE /\ publisher' = p
            /\ posted' = posted \o connection
            /\ UNCHANGED mcp

Poll ==
    /\ Len(posted) <= MaxPosted
    /\ Publishes(0, FALSE)
    /\ UNCHANGED <<intents, panel>>
\* connect and disconnect have been waited for.
IntentSettles(i) ==
    /\ i \in intents
    /\ Len(posted) <= MaxPosted
    /\ mcp.status \notin {"connecting", "disconnecting"}
    /\ intents' = intents \ {i}
    /\ Publishes(i, TRUE)
    /\ UNCHANGED panel

\* What the controller does meanwhile.
Moves(to, generation, tools) ==
    /\ mcp' = [mcp EXCEPT !.status = to, !.generation = generation, !.tools = tools]
    /\ UNCHANGED <<publisher, intents, posted, panel>>
ControllerConnects ==
    /\ mcp.status \in {"disconnected", "failed"}
    /\ mcp.generation < MaxGenerations
    /\ Moves("connecting", mcp.generation + 1, 0)
ControllerConnected ==
    /\ mcp.status = "connecting"
    /\ \E tools \in 1 .. MaxTools : Moves("connected", mcp.generation, tools)
ControllerFails ==
    /\ mcp.status \in {"connecting", "connected", "disconnecting"}
    /\ Moves("failed", mcp.generation, 0)
ControllerDisconnects ==
    /\ mcp.status \in {"connected", "failed"}
    /\ Moves("disconnecting", mcp.generation, 0)
ControllerDisconnected ==
    /\ mcp.status = "disconnecting"
    /\ Moves("disconnected", mcp.generation, 0)
ToolsReplaced ==
    /\ mcp.status = "connected"
    /\ \E tools \in 1 .. MaxTools :
         tools # mcp.tools /\ Moves("connected", mcp.generation, tools)

----------------------------------------------------------------------------
(* The store of the panel.                                                   *)

\* connect and disconnect close the delivery of catalogs and forget the count.
Closed(p) == [p EXCEPT !.closed = TRUE, !.sequence = 0]
Asks(p) ==
    /\ ~panel.busy
    /\ panel.asked < MaxRequests
    /\ intents' = intents \cup {panel.asked + 1}
    /\ panel' = [p EXCEPT !.busy = TRUE, !.asked = @ + 1, !.awaiting = panel.asked + 1]
    /\ UNCHANGED <<mcp, publisher, posted>>
PanelConnects ==
    /\ panel.status # "connected"
    /\ Asks([Closed(panel) EXCEPT !.tools = 0])
PanelDisconnects ==
    /\ panel.status # "disconnected"
    /\ Asks(Closed(panel))

Arrives(kind) == posted # <<>> /\ Head(posted).kind = kind
\* Catalogs of another connection are counted anew.
ForgetsNothing(moved) == panel
Forgets(moved) == IF moved THEN [panel EXCEPT !.sequence = 0] ELSE panel
Expected(m) == panel.awaiting \in {0, m.request}
ConnectionOfPanel(p) == IF p.status = "connected" THEN p.generation ELSE 0
ReceiveConnection ==
    /\ Arrives("connection")
    /\ posted' = Tail(posted)
    /\ LET m == Head(posted)
           live == m.status = "connected"
           moved == ConnectionOfPanel(panel) # (IF live THEN m.generation ELSE 0)
       IN panel' = IF ~Expected(m) THEN panel
                   ELSE [Forgets(moved) EXCEPT !.status = m.status, !.generation = m.generation,
                                  !.awaiting = 0, !.closed = ~live,
                                  !.busy = @ /\ live /\ ~moved,
                                  !.tools = IF live /\ ~moved THEN @ ELSE 0]
    /\ UNCHANGED <<mcp, publisher, intents>>
Newer(m) == m.sequence > panel.sequence
ReceiveTools ==
    /\ Arrives("tools")
    /\ posted' = Tail(posted)
    /\ LET m == Head(posted) IN
       panel' = IF panel.closed \/ ConnectionOfPanel(panel) # m.generation \/ ~Newer(m)
                THEN panel
                ELSE [panel EXCEPT !.tools = m.tools, !.sequence = m.sequence]
    /\ UNCHANGED <<mcp, publisher, intents>>

\* Local data is cleared while the controller is held disconnected.
LocalDataCleared ==
    /\ mcp.status = "disconnected"
    /\ Len(posted) <= MaxPosted
    /\ publisher' = Unpublished
    /\ posted' = Append(posted, [kind |-> "cleared"])
    /\ UNCHANGED <<mcp, intents, panel>>
ReceiveCleared ==
    /\ Arrives("cleared")
    /\ posted' = Tail(posted)
    /\ panel' = [Closed(panel) EXCEPT !.status = "disconnected", !.generation = 0,
                                      !.awaiting = 0, !.tools = 0, !.busy = FALSE]
    /\ UNCHANGED <<mcp, publisher, intents>>

Next ==
    \/ Poll \/ \E i \in intents : IntentSettles(i)
    \/ ControllerConnects \/ ControllerConnected \/ ControllerFails
    \/ ControllerDisconnects \/ ControllerDisconnected \/ ToolsReplaced
    \/ PanelConnects \/ PanelDisconnects
    \/ ReceiveConnection \/ ReceiveTools \/ LocalDataCleared \/ ReceiveCleared

Spec == Init /\ [][Next]_panelVars

----------------------------------------------------------------------------
TypeOK ==
    /\ panel.sequence <= MaxSequence /\ publisher.sequence <= MaxSequence
    /\ panel.awaiting <= panel.asked

\* Once the Host has published what there is, nothing is under way and the panel
\* awaits no answer, it shows the connection the controller has, and its catalog:
\* none is held back by a count of an earlier connection, and none of an earlier
\* connection is left. (A catalog that the panel dropped while it awaited an
\* answer is not sent again when it comes back after one that did not fit.)
Quiet == intents = {} /\ posted = <<>> /\ panel.awaiting = 0
Published == publisher.signature = <<mcp.status, mcp.generation>>
PanelAgrees ==
    Quiet /\ Published =>
        /\ (panel.status = "connected") <=> (mcp.status = "connected")
        /\ mcp.status = "connected" =>
             /\ panel.generation = mcp.generation
             /\ publisher.tools = mcp.tools /\ (panel.asked = 0 \/ mcp.oversized = 0)
                => panel.tools = mcp.tools
=============================================================================
