----------------------------- MODULE McpCatalog -----------------------------
(* One catalog of the connected MCP Server (its Tools, or its Resources or    *)
(* Prompts): how it is read page by page, read again when the Server says it  *)
(* changed, and replaced; and the calls made from it. What the Server sends   *)
(* arrives in order. Every connection has a client, and so a catalog, of its  *)
(* own; a Run may hold a Tool of an older one.                                *)
EXTENDS Naturals, Sequences

CONSTANTS
    Callers,     \* calls that are made
    MaxVersions, \* bound: changes of the Server's list
    MaxCommits,  \* bound: catalogs that are read completely
    MaxLinks     \* bound: connections

VARIABLES
    server,   \* the version of the Server's list, and whether it owes an answer
    wire,     \* what the Server sent and the client has not handled
    link,     \* the connection: up or down, and which one
    catalog,  \* McpCatalogRefresh: context, value, requested, the run in flight
    active,   \* McpToolSnapshot: the catalogs that are not revoked
    contents, \* catalog -> the versions its pages were read from
    calls     \* caller -> a Tool call, or a read of a Resource or a Prompt

catalogVars == <<server, wire, link, catalog, active, contents, calls>>

Pages == 2
NoValue == 0
Fresh == [context |-> FALSE, value |-> NoValue, requested |-> FALSE,
          seen |-> <<>>, running |-> FALSE, failed |-> FALSE]
NoCall == [step |-> "none", kind |-> "tool", of |-> NoValue, link |-> 0]

Init ==
    /\ server = [version |-> 1, owes |-> FALSE]
    /\ wire = <<>>
    /\ link = [up |-> FALSE, number |-> 0]
    /\ catalog = Fresh
    /\ active = {}
    /\ contents = <<>>
    /\ calls = [c \in Callers |-> NoCall]

----------------------------------------------------------------------------
\* The Server changes its list and announces it; it answers with the list it has.
ServerChanges ==
    /\ link.up
    /\ server.version < MaxVersions
    /\ server' = [server EXCEPT !.version = @ + 1]
    /\ wire' = Append(wire, [kind |-> "list_changed", version |-> server.version + 1])
    /\ UNCHANGED <<link, catalog, active, contents, calls>>
ServerAnswers ==
    /\ server.owes
    /\ server' = [server EXCEPT !.owes = FALSE]
    /\ wire' = Append(wire, [kind |-> "page", version |-> server.version])
    /\ UNCHANGED <<link, catalog, active, contents, calls>>

\* request: a refresh in flight is told to run once more, or one is started.
Requested(c) ==
    IF c.running THEN [c EXCEPT !.requested = TRUE]
    ELSE [c EXCEPT !.requested = FALSE, !.running = TRUE, !.seen = <<>>]
Request ==
    /\ catalog' = Requested(catalog)
    /\ server' = [server EXCEPT !.owes = @ \/ ~catalog.running]

Connect ==
    /\ ~link.up
    /\ link.number < MaxLinks
    /\ link' = [up |-> TRUE, number |-> link.number + 1]
    /\ catalog' = Fresh
    /\ UNCHANGED <<server, wire, active, contents, calls>>
\* discoverTools, discoverResources, discoverPrompts.
Discover ==
    /\ link.up
    /\ ~catalog.context
    /\ catalog' = Requested([catalog EXCEPT !.context = TRUE])
    /\ server' = [server EXCEPT !.owes = TRUE]
    /\ UNCHANGED <<wire, link, active, contents, calls>>
\* The panel's button.
Refresh ==
    /\ link.up
    /\ catalog.value # NoValue
    /\ ~catalog.requested
    /\ Len(contents) < MaxCommits
    /\ Request
    /\ UNCHANGED <<wire, link, active, contents, calls>>

Arrives(kind) == wire # <<>> /\ Head(wire).kind = kind
ListChanged ==
    /\ Arrives("list_changed")
    /\ wire' = Tail(wire)
    /\ IF catalog.context THEN Request ELSE UNCHANGED <<server, catalog>>
    /\ UNCHANGED <<link, active, contents, calls>>

\* collectMcpCatalogPages goes on to the next page.
PageArrives ==
    /\ Arrives("page")
    /\ Len(catalog.seen) + 1 < Pages
    /\ wire' = Tail(wire)
    /\ catalog' = [catalog EXCEPT !.seen = Append(@, Head(wire).version)]
    /\ server' = [server EXCEPT !.owes = TRUE]
    /\ UNCHANGED <<link, active, contents, calls>>

CommittedOnce(c, id) == [c EXCEPT !.value = id, !.failed = FALSE, !.running = FALSE]
\* run: the value is replaced and, if a request came meanwhile, read again.
Committed(c, id) ==
    LET done == [c EXCEPT !.value = id, !.failed = FALSE, !.running = FALSE] IN
    IF c.requested THEN Requested(done) ELSE done
KeepsBoth(id) == active \cup {id}
Replaced(id) == (active \ {catalog.value}) \cup {id}
LastPageArrives ==
    /\ Arrives("page")
    /\ Len(catalog.seen) + 1 = Pages
    /\ Len(contents) < MaxCommits
    /\ wire' = Tail(wire)
    /\ LET id == Len(contents) + 1 IN
       /\ contents' = Append(contents, Append(catalog.seen, Head(wire).version))
       /\ catalog' = Committed(catalog, id)
       /\ active' = Replaced(id)
    /\ server' = [server EXCEPT !.owes = catalog'.running]
    /\ UNCHANGED <<link, calls>>
\* A malformed page, too many entries, no usable Tool, or an error. The last
\* complete catalog stays; a request that came meanwhile is lost with the run.
RefreshFails ==
    /\ Arrives("page")
    /\ wire' = Tail(wire)
    /\ catalog' = [catalog EXCEPT !.running = FALSE, !.failed = TRUE]
    /\ UNCHANGED <<server, link, active, contents, calls>>

ConnectionEndsOpen ==
    /\ link.up
    /\ link' = [link EXCEPT !.up = FALSE]
    /\ server' = [server EXCEPT !.owes = FALSE]
    /\ catalog' = Fresh
    /\ active' = active \ {catalog.value}
    /\ UNCHANGED <<wire, contents, calls>>
\* Disconnect, or a failure of the transport: the delivery gate is closed.
ConnectionEnds ==
    /\ link.up
    /\ link' = [link EXCEPT !.up = FALSE]
    /\ wire' = <<>>
    /\ server' = [server EXCEPT !.owes = FALSE]
    /\ catalog' = Fresh
    /\ active' = active \ {catalog.value}
    /\ UNCHANGED <<contents, calls>>

----------------------------------------------------------------------------
(* Calls.                                                                    *)

\* A Run holds the Tools of the catalog there is when it is started; a read of
\* a Resource or a Prompt starts from the catalog there is.
Hold(c, kind) ==
    /\ calls[c].step = "none"
    /\ link.up /\ catalog.value # NoValue
    /\ calls' = [calls EXCEPT ![c] = [step |-> "held", kind |-> kind, of |-> catalog.value,
                                      link |-> link.number]]
    /\ UNCHANGED <<server, wire, link, catalog, active, contents>>

\* isActive and callTool's own check; or getPrompt's and readResource's, which
\* hold the catalog they validated against.
SameConnection(c) == link.up /\ link.number = calls[c].link
Usable(c) ==
    /\ SameConnection(c)
    /\ IF calls[c].kind = "tool" THEN calls[c].of \in active ELSE calls[c].of = catalog.value
Call(c) ==
    /\ calls[c].step = "held"
    /\ calls' = [calls EXCEPT ![c].step = IF Usable(c) THEN "sent" ELSE "unavailable"]
    /\ UNCHANGED <<server, wire, link, catalog, active, contents>>
\* The Server's answer: it is accepted only if what was called is still offered.
Answer(c) ==
    /\ calls[c].step = "sent"
    /\ calls' = [calls EXCEPT ![c].step = IF Usable(c) THEN "accepted" ELSE "unavailable"]
    /\ UNCHANGED <<server, wire, link, catalog, active, contents>>

Next ==
    \/ ServerChanges \/ ServerAnswers \/ Connect \/ Discover \/ Refresh
    \/ ListChanged \/ PageArrives \/ LastPageArrives \/ RefreshFails \/ ConnectionEnds
    \/ \E c \in Callers :
         \/ \E kind \in {"tool", "read"} : Hold(c, kind)
         \/ Call(c) \/ Answer(c)

Spec == Init /\ [][Next]_catalogVars

----------------------------------------------------------------------------
TypeOK ==
    /\ server.version \in 1 .. MaxVersions
    /\ catalog.value \in 0 .. Len(contents)
    /\ active \subseteq 1 .. Len(contents)
    /\ catalog.running <=> server.owes \/ \E i \in DOMAIN wire : wire[i].kind = "page"

\* When nothing is in flight and the last read did not fail, every page of the
\* catalog on offer is the Server's present one: a change announced while the
\* list was being read is read again, and a list put together from pages before
\* and after a change does not stay.
CatalogSettles ==
    link.up /\ catalog.context /\ ~catalog.running /\ ~catalog.failed /\ wire = <<>> =>
        \A i \in 1 .. Pages : contents[catalog.value][i] = server.version

\* A result is accepted only from the catalog that is on offer at that moment,
\* never from one that was replaced or that an ended connection offered.
AcceptsOnlyWhatIsOffered ==
    [][\A c \in Callers :
         calls[c].step = "sent" /\ calls'[c].step = "accepted" =>
             link.up /\ calls[c].of = catalog.value]_catalogVars
=============================================================================
