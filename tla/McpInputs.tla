------------------------------ MODULE McpInputs ------------------------------
(* What a user takes from an MCP Server into a message: the text of a         *)
(* Resource is read and attached, that of a Prompt previewed and confirmed.   *)
(* The panel asks, the Host reads and keeps, the Server replaces its list or  *)
(* goes away, a message takes along what is kept. The two kinds meet only in  *)
(* the panel; a behaviour is about one of them.                               *)
EXTENDS Naturals, Sequences, FiniteSets

CONSTANTS
    MaxKept,  \* what fits the Files budget (projectExternalResourceContext, projectExternalPromptContext)
    MaxBoxed, \* bound: what the user does that the Host hears of
    MaxPeers, \* bound: connections
    MaxFails  \* bound: the Server goes away or replaces its list

VARIABLES
    offer,    \* "resource" or "prompt"
    peer,     \* the connection: its generation, 0 for none, and its list; how many there were
    inputs,   \* McpResourceActions or McpPromptActions, and what was last published
    toInputs, \* messages to the Host
    box,      \* McpState of this kind
    toBox,    \* messages to the panel
    fate      \* history: what the user asked for (asked, removed), what became of it (given, left)

mcpInputVars == <<offer, peer, inputs, toInputs, box, toBox, fate>>

Nothing == [id |-> 0, generation |-> 0, list |-> 0, epoch |-> 0]
Init ==
    /\ offer \in {"resource", "prompt"}
    /\ peer = [generation |-> 1, count |-> 1, list |-> 1, fails |-> 0]
    /\ inputs = [preview |-> Nothing, kept |-> {}, reads |-> {}, epoch |-> 0, published |-> <<1, 1>>]
    /\ box = [generation |-> 1, request |-> 0, preview |-> 0, shown |-> {}, isBusy |-> FALSE, count |-> 0]
    /\ toInputs = <<>> /\ toBox = <<>>
    /\ fate = [asked |-> {}, removed |-> {}, given |-> {}, left |-> {}]

----------------------------------------------------------------------------
(* The Server, and what the Host tells of it (McpConnection, McpPanel).       *)
Peers(changed) == peer' = changed /\ UNCHANGED <<offer, inputs, toInputs, box, toBox, fate>>
Connects ==
    /\ peer.generation = 0 /\ peer.count < MaxPeers
    /\ Peers([peer EXCEPT !.generation = peer.count + 1, !.count = @ + 1, !.list = @ + 1])
Fails(changed) ==
    /\ peer.generation # 0 /\ peer.fails < MaxFails
    /\ Peers([changed EXCEPT !.fails = @ + 1])
GoesAway == Fails([peer EXCEPT !.generation = 0])
ReplacesList == Fails([peer EXCEPT !.list = @ + 1])
Connection == [kind |-> "connection", generation |-> peer.generation]
List == [kind |-> "list", generation |-> peer.generation]
\* #publish: the connection, and the list of a live one, each if it changed. It looks every half a
\* second, by when what was posted before has arrived.
News ==
    (IF inputs.published[1] # peer.generation THEN <<Connection>> ELSE <<>>)
    \o IF peer.generation # 0 /\ inputs.published # <<peer.generation, peer.list>>
       THEN <<List>> ELSE <<>>
Publish ==
    /\ toBox = <<>> /\ News # <<>>
    /\ toBox' = News
    /\ inputs' = [inputs EXCEPT !.published = <<peer.generation, peer.list>>]
    /\ UNCHANGED <<offer, peer, toInputs, box, fate>>

----------------------------------------------------------------------------
(* The Host.                                                                  *)
Arrives(kind) == toInputs # <<>> /\ Head(toInputs).kind = kind
Answer(kind, m, id) == <<[kind |-> kind, request |-> m.request, id |-> id, generation |-> peer.generation]>>
Handles(changed, answers) ==
    /\ inputs' = changed /\ toInputs' = Tail(toInputs) /\ toBox' = toBox \o answers
    /\ UNCHANGED <<offer, peer, box, fate>>
\* Mutant: what is kept goes with what is live.
InvalidatedAll(i) == [i EXCEPT !.preview = Nothing, !.reads = {}, !.kept = {}, !.epoch = @ + 1]
\* Mutant: reads in flight are left alone.
InvalidatedPreview(i) == [i EXCEPT !.preview = Nothing, !.epoch = @ + 1]
\* Reads in flight are aborted, which nobody is told.
Invalidated(i) == [i EXCEPT !.preview = Nothing, !.reads = {}, !.epoch = @ + 1]
IsLive(generation) == generation # 0 /\ peer.generation = generation
\* A Prompt's preview takes the place of the one before at once, a Resource's when it is there.
HostReads ==
    LET m == Head(toInputs)
        host == IF offer = "prompt" THEN Invalidated(inputs) ELSE inputs
        read == [request |-> m.request, generation |-> m.generation, list |-> peer.list, epoch |-> host.epoch]
    IN  /\ Arrives("read")
        /\ Handles(IF IsLive(m.generation) THEN [host EXCEPT !.reads = @ \union {read}] ELSE host, <<>>)
\* getPrompt and readResource of the client look at the list again, too.
IsOfNow(read) == IsLive(read.generation) /\ read.list = peer.list
Previewed(read) ==
    [inputs EXCEPT !.reads = @ \ {read},
                   !.preview = [id |-> read.request, generation |-> read.generation,
                                list |-> peer.list, epoch |-> read.epoch]]
\* An answer of another connection is not told of.
ReadEnds(read, hasFailed) ==
    /\ read \in inputs.reads
    /\ IF ~hasFailed /\ IsOfNow(read)
       THEN inputs' = Previewed(read) /\ toBox' = toBox \o Answer("ready", read, read.request)
       ELSE /\ inputs' = [inputs EXCEPT !.reads = @ \ {read}]
            /\ toBox' = toBox \o IF IsLive(read.generation) THEN Answer("error", read, 0) ELSE <<>>
    /\ UNCHANGED <<offer, peer, toInputs, box, fate>>
HasRoom == Cardinality(inputs.kept) < MaxKept
\* Mutant: a Prompt of a list that was replaced is confirmed.
IsKeepableOld(m) ==
    /\ inputs.preview.id = m.id /\ inputs.preview.generation = m.generation /\ IsLive(m.generation)
    /\ HasRoom
\* attach, confirm: exactly what was previewed, on the connection it is of, if there is room for it.
IsKeepable(m) ==
    /\ inputs.preview.id = m.id /\ inputs.preview.generation = m.generation /\ IsLive(m.generation)
    /\ offer = "prompt" => inputs.preview.list = peer.list
    /\ HasRoom
HostKeeps ==
    LET m == Head(toInputs)
    IN  /\ Arrives("keep")
        /\ IF IsKeepable(m)
           THEN Handles([inputs EXCEPT !.preview = Nothing, !.kept = @ \union {m.id}], Answer("kept", m, m.id))
           ELSE Handles(inputs, Answer("error", m, 0))
HostCancels ==
    LET m == Head(toInputs)
    IN  /\ Arrives("cancel")
        /\ IF inputs.preview.id = m.id
           THEN Handles([inputs EXCEPT !.preview = Nothing], Answer("cancelled", m, m.id))
           ELSE Handles(inputs, <<>>)
HostDetaches ==
    LET m == Head(toInputs)
    IN  /\ Arrives("detach")
        /\ IF m.id \in inputs.kept
           THEN Handles([inputs EXCEPT !.kept = @ \ {m.id}], Answer("detached", m, m.id))
           ELSE Handles(inputs, <<>>)
HostDisconnects ==
    /\ Arrives("disconnect")
    /\ inputs' = [Invalidated(inputs) EXCEPT !.published = <<0, peer.list>>]
    /\ peer' = [peer EXCEPT !.generation = 0]
    /\ toInputs' = Tail(toInputs) /\ toBox' = Append(toBox, [kind |-> "connection", generation |-> 0])
    /\ UNCHANGED <<offer, box, fate>>
\* takeAttachments, takeConfirmations: only Prompts are invalidated, too.
HostTakes ==
    /\ Arrives("submit")
    /\ inputs' = [(IF offer = "prompt" THEN Invalidated(inputs) ELSE inputs) EXCEPT !.kept = {}]
    /\ toInputs' = Tail(toInputs)
    /\ fate' = [fate EXCEPT !.given = @ \union inputs.kept]
    /\ UNCHANGED <<offer, peer, box, toBox>>
\* Mutant: what is kept outlives the chat.
ClearedLive(i) == Invalidated(i)
\* clearInput: a new chat, or another Session.
Cleared(i) == [Invalidated(i) EXCEPT !.kept = {}]
HostClears ==
    /\ Arrives("clear")
    /\ inputs' = Cleared(inputs)
    /\ toInputs' = Tail(toInputs)
    /\ fate' = [fate EXCEPT !.left = @ \union inputs.kept]
    /\ UNCHANGED <<offer, peer, box, toBox>>
Host ==
    \/ HostReads \/ HostKeeps \/ HostCancels \/ HostDetaches \/ HostDisconnects \/ HostTakes \/ HostClears
    \/ \E read \in inputs.reads, hasFailed \in BOOLEAN : ReadEnds(read, hasFailed)

----------------------------------------------------------------------------
(* The user at the panel.                                                     *)
Asks(message, asking) ==
    /\ box.count < MaxBoxed
    /\ toInputs' = Append(toInputs, message)
    /\ box' = [asking EXCEPT !.count = @ + 1, !.request = box.count + 1]
    /\ UNCHANGED <<offer, peer, inputs, toBox>>
Message(kind, id) == [kind |-> kind, request |-> box.count + 1, generation |-> box.generation, id |-> id]
Read ==
    /\ box.generation # 0 /\ ~box.isBusy
    /\ Asks(Message("read", 0), [box EXCEPT !.isBusy = TRUE, !.preview = 0])
    /\ UNCHANGED fate
Keep ==
    /\ box.generation # 0 /\ box.preview # 0
    /\ Asks(Message("keep", box.preview), box)
    /\ fate' = [fate EXCEPT !.asked = @ \union {box.preview}]
Cancel ==
    /\ offer = "prompt" /\ box.generation # 0 /\ box.preview # 0
    /\ Asks(Message("cancel", box.preview), box)
    /\ UNCHANGED fate
Detach(id) ==
    /\ id \in box.shown
    /\ Asks(Message("detach", id), box)
    /\ fate' = [fate EXCEPT !.asked = @ \ {id}, !.removed = @ \union {id}]
Disconnect ==
    /\ box.generation # 0 /\ ~box.isBusy /\ box.count < MaxBoxed
    /\ toInputs' = Append(toInputs, Message("disconnect", 0))
    /\ box' = [box EXCEPT !.count = @ + 1, !.request = 0, !.isBusy = TRUE]
    /\ UNCHANGED <<offer, peer, inputs, toBox, fate>>
\* selectResource, selectPrompt: an answer under way is not wanted any more.
Select ==
    /\ box.request # 0 \/ box.preview # 0
    /\ box' = [box EXCEPT !.request = 0, !.preview = 0]
    /\ UNCHANGED <<offer, peer, inputs, toInputs, toBox, fate>>
Ended(message, ended) ==
    /\ box.count < MaxBoxed
    /\ toInputs' = Append(toInputs, message)
    /\ box' = [ended EXCEPT !.count = @ + 1]
    /\ UNCHANGED <<offer, peer, inputs, toBox>>
\* handleSubmit leaves the panel as it is.
Submit == Ended([kind |-> "submit", asked |-> fate.asked], box) /\ UNCHANGED fate
Unasked == fate' = [fate EXCEPT !.asked = {}]
NewChat ==
    /\ Ended([kind |-> "clear"], [box EXCEPT !.request = 0, !.preview = 0, !.shown = {}, !.isBusy = FALSE])
    /\ Unasked
\* Restoring or deleting a Session clears the Host only.
LeaveSession == Ended([kind |-> "clear"], box) /\ Unasked
User ==
    \/ Read \/ Keep \/ Cancel \/ Disconnect \/ Select \/ Submit \/ NewChat \/ LeaveSession
    \/ \E id \in box.shown : Detach(id)

----------------------------------------------------------------------------
(* The panel receives.                                                        *)
Delivers(kinds) == toBox # <<>> /\ Head(toBox).kind \in kinds
Takes(changed) == box' = changed /\ toBox' = Tail(toBox) /\ UNCHANGED <<offer, peer, inputs, toInputs, fate>>
\* A connection that is gone takes the preview along, another one ends the wait.
ReceiveConnection ==
    LET m == Head(toBox)
    IN  /\ Delivers({"connection"})
        /\ Takes([box EXCEPT !.generation = m.generation,
                             !.preview = IF m.generation = 0 THEN 0 ELSE @,
                             !.isBusy = @ /\ m.generation # 0 /\ m.generation = box.generation])
ReceiveList ==
    /\ Delivers({"list"})
    /\ Takes(IF Head(toBox).generation = box.generation THEN [box EXCEPT !.preview = 0] ELSE box)
\* Only an answer to the last request is taken.
Wanted == Head(toBox).request = box.request
Answered == [box EXCEPT !.request = 0, !.isBusy = FALSE]
ReceiveReady ==
    LET m == Head(toBox)
    IN  /\ Delivers({"ready"})
        /\ Takes(IF ~Wanted THEN box
                 ELSE IF m.generation = box.generation THEN [Answered EXCEPT !.preview = m.id]
                 ELSE [box EXCEPT !.request = 0])
ReceiveKept ==
    /\ Delivers({"kept"})
    /\ Takes(IF Wanted THEN [Answered EXCEPT !.shown = @ \union {Head(toBox).id}, !.preview = 0] ELSE box)
ReceiveDetached ==
    /\ Delivers({"detached"})
    /\ Takes(IF Wanted THEN [box EXCEPT !.request = 0, !.shown = @ \ {Head(toBox).id}] ELSE box)
\* A failure leaves the preview of a Resource where it is.
ReceiveRefusal ==
    /\ Delivers({"error", "cancelled"})
    /\ Takes(IF Wanted THEN [Answered EXCEPT !.preview = IF offer = "resource" THEN @ ELSE 0] ELSE box)
Receive == ReceiveConnection \/ ReceiveList \/ ReceiveReady \/ ReceiveKept \/ ReceiveDetached \/ ReceiveRefusal

Next == Connects \/ GoesAway \/ ReplacesList \/ Publish \/ Host \/ User \/ Receive
InputSpec == Init /\ [][Next]_mcpInputVars

----------------------------------------------------------------------------
TypeOK ==
    /\ offer \in {"resource", "prompt"}
    /\ peer.generation \in 0..MaxPeers /\ peer.fails \in 0..MaxFails
    /\ box.request \in 0..MaxBoxed /\ box.preview \in 0..MaxBoxed /\ box.shown \subseteq 1..MaxBoxed
    /\ inputs.kept \subseteq 1..MaxBoxed /\ Cardinality(inputs.kept) <= MaxKept
    /\ {read.request : read \in inputs.reads} \subseteq 1..MaxBoxed
\* What is shown as attached or confirmed is what the Host keeps for the next message, unless it went
\* with a message (handleSubmit leaves it shown) or with a Session that was left, or is being taken
\* away: no disconnect, refresh or further read takes it away or puts another in its place
\* (docs/mcp.md, "Resources and Resource Templates").
ShownIsKept == box.shown \subseteq inputs.kept \union fate.given \union fate.left \union fate.removed
\* A preview of the Host was read since it was last told to forget what it reads.
PreviewIsOfNow == inputs.preview.id # 0 => inputs.preview.epoch = inputs.epoch
\* What is kept was read on the connection there is, and a Prompt is on the list there is.
KeptIsCurrent ==
    \A id \in inputs'.kept \ inputs.kept :
        /\ inputs.preview.id = id /\ inputs.preview.generation = peer.generation
        /\ offer = "prompt" => inputs.preview.list = peer.list
\* A message takes along only what the user asked for, in this chat and before it was sent, and did
\* not take away; and nothing that an earlier one took.
GivenWasAsked ==
    HostTakes => inputs.kept \subseteq Head(toInputs).asked \ fate.given
=============================================================================
