---------------------------- MODULE ProviderKeys ----------------------------
(* The keys of the Providers: the operations on them, queued per Provider and *)
(* fenced by a generation, the selection of a model, which reads a key, and   *)
(* the clearing of local data, which takes the queues for itself. A key is    *)
(* the number of the operation that stored it; rotating a key is saving it.   *)
(* Reads are those of a Run, of the connection check and of the Webview.      *)
EXTENDS Integers, Sequences

CONSTANTS
    Providers,
    MaxOperations,  \* bound: operations on keys
    MaxSettings     \* bound: changes of the Provider settings by the user

VARIABLES
    keys,           \* SecretStorage: the operation that stored the key, 0 without one
    exclusive,      \* ProviderApiKeyOperationCoordinator: clearing holds the queues
    operations,     \* those queued so far, in order; isCurrent: the generation has not moved since
    settings,       \* ctrlZebra.provider: the Provider, whether a model is set; changes so far
    selection,      \* the command that selects a model: its step
    clearing        \* LocalDataClearController: its step, what it waits for and has to delete

keysVars == <<keys, exclusive, operations, settings, selection, clearing>>

IsCurrent(i) == operations[i].isCurrent
Done == {i \in DOMAIN operations : operations[i].at = "done"}
\* A new generation: what was queued before is obsolete.
Invalidates == operations' = [i \in DOMAIN operations |-> [operations[i] EXCEPT !.isCurrent = FALSE]]
IsRunning == clearing.at \notin {"idle", "confirming"}

Init ==
    /\ keys = [p \in Providers |-> 0]
    /\ exclusive = FALSE
    /\ operations = <<>>
    /\ settings = [provider |-> CHOOSE p \in Providers : TRUE, model |-> FALSE, changes |-> 0]
    /\ selection = "idle"
    /\ clearing = [at |-> "idle", waits |-> {}, left |-> {}, failed |-> FALSE, asked |-> FALSE,
                   since |-> 0]

----------------------------------------------------------------------------
\* ProviderApiKeyOperationCoordinator.run: refused while it is held, else behind the last one.
Queued(kind, p) ==
    /\ Len(operations) < MaxOperations /\ ~exclusive
    /\ operations' = Append(operations,
           [kind |-> kind, provider |-> p, isCurrent |-> TRUE,
            at |-> "queued", result |-> "none"])
At(i, step) == i \in DOMAIN operations /\ operations[i].at = step
Goto(i, step) == operations' = [operations EXCEPT ![i].at = step]
Shows(i, result) == operations' = [operations EXCEPT ![i].at = "showing", ![i].result = result]

\* An operation ends, an obsolete one without a result. With the key it lists, the selection
\* asks the Provider for its models, without it the user.
Ends(i, result) ==
    LET known == IF IsCurrent(i) THEN result ELSE "undefined"
    IN  /\ operations' = [operations EXCEPT ![i] =
               [@ EXCEPT !.at = "done", !.result = "none", !.isCurrent = FALSE]]
        /\ selection' = IF operations[i].kind # "list" THEN selection
                        ELSE IF known = "present" THEN "fetching" ELSE "entering"
Started(i) ==
    /\ IF ~IsCurrent(i) THEN Ends(i, "undefined")
       ELSE /\ Goto(i, CASE operations[i].kind = "save" -> "asking"
                         [] operations[i].kind = "delete" -> "confirming"
                         [] OTHER -> "looking")
            /\ UNCHANGED selection
    /\ UNCHANGED <<keys, exclusive, settings, clearing>>

\* Mutant: an operation does not wait for the ones before it.
StartsAnyway(i) == At(i, "queued") /\ Started(i)
Starts(i) ==
    /\ At(i, "queued")
    /\ \A j \in 1..(i - 1) : operations[j].provider = operations[i].provider => j \in Done
    /\ Started(i)

\* The input box and the modal dialog: an answer that comes too late is none.
Entered(i, entered) ==
    /\ At(i, "asking")
    /\ IF IsCurrent(i) /\ entered THEN Goto(i, "confirming") /\ UNCHANGED selection
       ELSE Ends(i, "cancelled")
    /\ UNCHANGED <<keys, exclusive, settings, clearing>>
Confirmed(i, confirmed) ==
    /\ At(i, "confirming")
    /\ IF IsCurrent(i) /\ confirmed
       THEN /\ Goto(i, IF operations[i].kind = "save" THEN "writing" ELSE "looking")
            /\ UNCHANGED selection
       ELSE Ends(i, "cancelled")
    /\ UNCHANGED <<keys, exclusive, settings, clearing>>
Presences(p) == {IF keys[p] = 0 THEN "absent" ELSE "present", "unavailable"}
\* The presence of a key is read: the one asked for, or the one to be deleted.
Looks(i, presence) ==
    /\ At(i, "looking") /\ presence \in Presences(operations[i].provider)
    /\ IF operations[i].kind # "delete" \/ ~IsCurrent(i) THEN Ends(i, presence)
       ELSE /\ CASE presence = "present" -> Goto(i, "writing")
                 [] presence = "absent" -> Shows(i, "completed")
                 [] OTHER -> Shows(i, "failed")
            /\ UNCHANGED selection
    /\ UNCHANGED <<keys, exclusive, settings, clearing>>
\* The storage may refuse, before or after it has done what was asked.
Writes(i, refused, written) ==
    /\ At(i, "writing") /\ (refused \/ written)
    /\ keys' = IF ~written THEN keys
               ELSE [keys EXCEPT ![operations[i].provider] =
                                     IF operations[i].kind = "save" THEN i ELSE 0]
    /\ operations' = [operations EXCEPT ![i].at = "reconciling",
                                        ![i].result = IF refused THEN "failed" ELSE @]
    /\ UNCHANGED <<exclusive, settings, selection, clearing>>
Reconciles(i, presence) ==
    LET wanted == IF operations[i].kind = "save" THEN "present" ELSE "absent"
    IN  /\ At(i, "reconciling") /\ presence \in Presences(operations[i].provider)
        /\ Shows(i, IF operations[i].result = "none" /\ presence = wanted THEN "completed" ELSE "failed")
        /\ UNCHANGED <<keys, exclusive, settings, selection, clearing>>
\* The notification is awaited: the next operation starts when it is dismissed. An obsolete
\* operation shows none.
Dismissed(i) ==
    /\ At(i, "showing") /\ Ends(i, operations[i].result)
    /\ UNCHANGED <<keys, exclusive, settings, clearing>>

KeyCommand(kind, p) ==
    /\ Queued(kind, p) /\ UNCHANGED <<keys, exclusive, settings, selection, clearing>>
ReadKey == Queued("read", settings.provider) /\ UNCHANGED <<keys, exclusive, settings, selection, clearing>>
SettingsChange(p) ==
    /\ settings.changes < MaxSettings /\ p # settings.provider
    /\ settings' = [settings EXCEPT !.provider = p, !.changes = @ + 1]
    /\ Invalidates
    /\ UNCHANGED <<keys, exclusive, selection, clearing>>

----------------------------------------------------------------------------
\* selectModelCommand: an official list needs the key, any other way asks for the model. It
\* asks for the clearing of local data only when it starts.
SelectModel(isOfficial) ==
    /\ selection = "idle" /\ ~IsRunning
    /\ IF isOfficial THEN Queued("list", settings.provider) /\ selection' = "reading"
       ELSE UNCHANGED operations /\ selection' = "entering"
    /\ UNCHANGED <<keys, exclusive, settings, clearing>>
Fetched(isUsable) ==
    /\ selection = "fetching"
    /\ selection' = IF isUsable THEN "choosing" ELSE "entering"
    /\ UNCHANGED <<keys, exclusive, operations, settings, clearing>>
Chosen ==
    /\ selection \in {"choosing", "entering"} /\ selection' = "saving"
    /\ UNCHANGED <<keys, exclusive, operations, settings, clearing>>
NothingChosen ==
    /\ selection \in {"choosing", "entering"} /\ selection' = "idle"
    /\ UNCHANGED <<keys, exclusive, operations, settings, clearing>>
\* The setting is written, and its change makes the operations on keys obsolete.
ModelSaved ==
    /\ selection = "saving" /\ selection' = "idle"
    /\ settings' = [settings EXCEPT !.model = TRUE]
    /\ Invalidates
    /\ UNCHANGED <<keys, exclusive, clearing>>
ModelNotSaved ==
    /\ selection = "saving" /\ selection' = "idle"
    /\ UNCHANGED <<keys, exclusive, operations, settings, clearing>>

----------------------------------------------------------------------------
\* LocalDataClearController: the queues first, then the other locks, any of which may fail.
ClearAsked ==
    /\ clearing.at = "idle" /\ ~clearing.asked
    /\ clearing' = [clearing EXCEPT !.at = "confirming", !.asked = TRUE]
    /\ UNCHANGED <<keys, exclusive, operations, settings, selection>>
ClearDismissed ==
    /\ clearing.at = "confirming" /\ clearing' = [clearing EXCEPT !.at = "idle"]
    /\ UNCHANGED <<keys, exclusive, operations, settings, selection>>
\* Mutant: the queues are closed, but what they hold is not waited for.
AcquireAtOnce ==
    /\ clearing.at = "confirming"
    /\ exclusive' = TRUE /\ Invalidates
    /\ clearing' = [clearing EXCEPT !.at = "locking"]
    /\ UNCHANGED <<keys, settings, selection>>
AcquireExclusive ==
    /\ clearing.at = "confirming"
    /\ exclusive' = TRUE /\ Invalidates
    /\ clearing' = [clearing EXCEPT !.at = "locking", !.waits = (DOMAIN operations) \ Done]
    /\ UNCHANGED <<keys, settings, selection>>
ClearLocked ==
    /\ clearing.at = "locking" /\ clearing.waits \subseteq Done
    /\ clearing' = [clearing EXCEPT !.at = "deleting", !.left = Providers, !.waits = {}]
    /\ UNCHANGED <<keys, exclusive, operations, settings, selection>>
\* clearProviderSecrets: one failure does not keep the others.
ClearKey(p, refused, deleted) ==
    /\ clearing.at = "deleting" /\ p \in clearing.left /\ (refused \/ deleted)
    /\ keys' = IF deleted THEN [keys EXCEPT ![p] = 0] ELSE keys
    /\ clearing' = [clearing EXCEPT !.left = @ \ {p}, !.failed = @ \/ refused]
    /\ UNCHANGED <<exclusive, operations, settings, selection>>
\* clearConfigurationEntries: the change of the settings is told like any other.
ClearSettings(refused) ==
    /\ clearing.at = "deleting" /\ clearing.left = {}
    /\ settings' = IF refused THEN settings ELSE [settings EXCEPT !.model = FALSE]
    /\ IF refused THEN UNCHANGED operations ELSE Invalidates
    /\ clearing' = [clearing EXCEPT !.at = "cleared", !.failed = @ \/ refused]
    /\ UNCHANGED <<keys, exclusive, selection>>
\* The locks are given back, after everything was tried or because one could not be had.
Released(failed) ==
    /\ exclusive' = FALSE /\ Invalidates
    /\ clearing' = [clearing EXCEPT !.at = "idle", !.waits = {},
                                    !.since = IF failed THEN @ ELSE Len(operations)]
    /\ UNCHANGED <<keys, settings, selection>>
ClearEnds == clearing.at = "cleared" /\ Released(clearing.failed)
ClearFails == clearing.at = "locking" /\ clearing.waits \subseteq Done /\ Released(TRUE)

Next ==
    \/ \E i \in 1..MaxOperations :
         \/ Starts(i) \/ Dismissed(i)
         \/ \E answer \in BOOLEAN : Entered(i, answer) \/ Confirmed(i, answer)
         \/ \E presence \in {"present", "absent", "unavailable"} : Looks(i, presence) \/ Reconciles(i, presence)
         \/ \E refused, written \in BOOLEAN : Writes(i, refused, written)
    \/ ReadKey
    \/ \E p \in Providers : SettingsChange(p) \/ \E kind \in {"save", "delete"} : KeyCommand(kind, p)
    \/ Chosen \/ NothingChosen \/ ModelSaved \/ ModelNotSaved
    \/ \E yes \in BOOLEAN : SelectModel(yes) \/ Fetched(yes)
    \/ ClearAsked \/ ClearDismissed \/ AcquireExclusive \/ ClearLocked \/ ClearEnds \/ ClearFails
    \/ \E p \in Providers, refused, deleted \in BOOLEAN : ClearKey(p, refused, deleted)
    \/ \E refused \in BOOLEAN : ClearSettings(refused)
KeysSpec == Init /\ [][Next]_keysVars

----------------------------------------------------------------------------
TypeOK ==
    /\ keys \in [Providers -> 0..MaxOperations]
    /\ Len(operations) <= MaxOperations
    /\ clearing.left \subseteq Providers
\* While an operation tells that it completed, its Provider has the key it stored, or none if
\* it deleted it, whatever other commands and the clearing do meanwhile (docs/adr/0003:
\* operations "are serialized per Provider through storage settlement"). And once all local
\* data was cleared, a key is one that was asked for afterwards.
KeysFollowOperations ==
    /\ \A i \in DOMAIN operations :
         operations[i].at = "showing" /\ operations[i].result = "completed" =>
             keys[operations[i].provider] = IF operations[i].kind = "save" THEN i ELSE 0
    /\ \A p \in Providers :
         keys[p] # 0 => keys[p] > clearing.since
=============================================================================
