---------------------------- MODULE ViewChannel ----------------------------
(* The two message channels between the Webview and the extension Host. Both *)
(* are asynchronous and keep the order of what is posted on them; intents go *)
(* one way and answers the other, and neither side waits for delivery.       *)
EXTENDS Naturals, Sequences

CONSTANTS
    Sessions,     \* the Sessions there can ever be
    NoSession,    \* the undefined Session id
    MaxRequests   \* bound: intents that carry a request id of their own

ASSUME SessionAssumption == NoSession \notin Sessions
ASSUME RequestsAssumption == MaxRequests \in Nat

VARIABLES
    toHost,  \* intents under way to the Host
    toView   \* messages under way to the Webview

channels == <<toHost, toView>>

NoRequest == 0
Requests == 1 .. MaxRequests
AnySession == Sessions \cup {NoSession}
AnyRequest == Requests \cup {NoRequest}

Terminal == {"completed", "truncated", "cancelled", "budget-exceeded", "failed"}

\* An intent of the Webview.
Intent(type, req, session) == [type |-> type, req |-> req, session |-> session]

\* A message of the Host. `status` is the status, code or outcome it carries,
\* `sessions` the listed Sessions; `session` of a text delta is the Session the
\* text comes from, which the message itself does not carry.
Message(type, req, session, status, sessions) ==
    [type |-> type, req |-> req, session |-> session, status |-> status,
     sessions |-> sessions]

RunStatus(req, status) == Message("run-status", req, NoSession, status, {})
Notice(type, req) == Message(type, req, NoSession, "", {})

ChannelsEmpty == toHost = <<>> /\ toView = <<>>
=============================================================================
