-------------------------- MODULE ProviderOnboarding --------------------------
(* The card that helps to set a Provider up: the Webview asks the Host for    *)
(* the status of the settings and to run one action at a time, the Host runs  *)
(* it and reads the status again. A status is told apart by the settings it   *)
(* was read from. Local data may be cleared at any time: meanwhile the Host   *)
(* drops what it is asked, afterwards the card forgets all it knew.           *)
EXTENDS Naturals, Sequences

CONSTANTS
    MaxAsked,       \* bound: requests of the card
    MaxEdits        \* bound: changes of the settings

VARIABLES
    card,           \* onboarding-store: status, pendingAction, the two requests it awaits a status for
    asked,          \* requests made so far
    toHost, toCard, \* messages under way, in order
    host,           \* ProviderOnboardingController: #pendingActionRequestId and what it awaits
    reads,          \* statuses being read for the card: the request, the settings they are read from
    edits,          \* changes of the settings so far
    isClearing,     \* LocalDataClearController.isRunning
    unheard,        \* history: actions the Host dropped while it was busy, or ended without a word
    newest          \* history: the newest settings the card has shown

onboardingVars == <<card, asked, toHost, toCard, host, reads, edits, isClearing, unheard, newest>>

Requests == 1..MaxAsked
\* The card asks for the status once, when it is mounted.
Init ==
    /\ card = [status |-> 0, pending |-> 0, statusFor |-> 1, afterAction |-> 0]
    /\ asked = 1 /\ toHost = <<[kind |-> "status", id |-> 1]>> /\ toCard = <<>>
    /\ host = [pending |-> 0, at |-> "idle", since |-> 1]
    /\ reads = {} /\ edits = 1 /\ isClearing = FALSE /\ unheard = {} /\ newest = 0

Post(message) == toCard' = Append(toCard, message)
\* Mutant: a status that is being read may still be shown after an action.
RunActionOnly ==
    /\ card.pending = 0 /\ asked < MaxAsked
    /\ asked' = asked + 1
    /\ card' = [card EXCEPT !.pending = asked']
    /\ toHost' = Append(toHost, [kind |-> "action", id |-> asked'])
    /\ UNCHANGED <<toCard, host, reads, edits, isClearing, unheard, newest>>
RunAction ==
    /\ card.pending = 0 /\ asked < MaxAsked
    /\ asked' = asked + 1
    /\ card' = [card EXCEPT !.pending = asked', !.statusFor = 0]
    /\ toHost' = Append(toHost, [kind |-> "action", id |-> asked'])
    /\ UNCHANGED <<toCard, host, reads, edits, isClearing, unheard, newest>>

\* bindWebviewMessageController: nothing is handled while local data are cleared, and neither a
\* status nor an action while an action is pending.
HostReceives ==
    LET message == Head(toHost)
        isTaken == ~isClearing /\ host.pending = 0
    IN  /\ toHost # <<>> /\ toHost' = Tail(toHost)
        /\ reads' = IF isTaken /\ message.kind = "status"
                    THEN reads \union {[id |-> message.id, since |-> edits]} ELSE reads
        /\ host' = IF isTaken /\ message.kind = "action"
                   THEN [host EXCEPT !.pending = message.id, !.at = "running"] ELSE host
        /\ unheard' = IF message.kind = "action" /\ (isClearing \/ host.at # "idle")
                      THEN unheard \union {message.id} ELSE unheard
        /\ UNCHANGED <<card, asked, toCard, edits, isClearing, newest>>
\* The status of the settings as they were when it was asked for, or none that can be trusted.
StatusRead(read, isKnown) ==
    /\ read \in reads /\ reads' = reads \ {read}
    /\ IF isKnown /\ host.pending = 0
       THEN Post([kind |-> "status", id |-> read.id, since |-> read.since])
       ELSE UNCHANGED toCard
    /\ UNCHANGED <<card, asked, toHost, host, edits, isClearing, unheard, newest>>
\* Mutant: an action that ends without a word still counts as running.
ActionKept ==
    /\ host.at = "running"
    /\ host' = [host EXCEPT !.at = "idle"]
    /\ unheard' = unheard \union {host.pending}
    /\ UNCHANGED <<card, asked, toHost, toCard, reads, edits, isClearing, newest>>
\* The action's operation became obsolete: there is nothing to be told of it.
ActionSuppressed ==
    /\ host.at = "running"
    /\ host' = [host EXCEPT !.pending = 0, !.at = "idle"]
    /\ unheard' = unheard \union {host.pending}
    /\ UNCHANGED <<card, asked, toHost, toCard, reads, edits, isClearing, newest>>
ActionEnds ==
    /\ host.at = "running"
    /\ Post([kind |-> "outcome", id |-> host.pending, since |-> 0])
    /\ host' = [host EXCEPT !.at = "reading", !.since = edits]
    /\ UNCHANGED <<card, asked, toHost, reads, edits, isClearing, unheard, newest>>
StatusRefreshed(isKnown) ==
    /\ host.at = "reading"
    /\ IF isKnown THEN Post([kind |-> "status", id |-> host.pending, since |-> host.since])
       ELSE UNCHANGED toCard
    /\ host' = [host EXCEPT !.pending = 0, !.at = "idle"]
    /\ UNCHANGED <<card, asked, toHost, reads, edits, isClearing, unheard, newest>>

CardReceives ==
    LET message == Head(toCard)
    IN  /\ toCard # <<>> /\ toCard' = Tail(toCard)
        /\ card' =
             CASE message.kind = "cleared" ->
                    [status |-> 0, pending |-> 0, statusFor |-> 0, afterAction |-> 0]
               [] message.kind = "outcome" /\ message.id = card.pending ->
                    [card EXCEPT !.pending = 0, !.afterAction = message.id]
               [] message.kind = "status" /\ message.id = card.statusFor ->
                    [card EXCEPT !.status = message.since, !.statusFor = 0]
               [] message.kind = "status" /\ message.id = card.afterAction ->
                    [card EXCEPT !.status = message.since, !.afterAction = 0]
               [] OTHER -> card
        /\ newest' = IF card'.status > newest THEN card'.status ELSE newest
        /\ UNCHANGED <<asked, toHost, host, reads, edits, isClearing, unheard>>

\* By the action that runs, by another command, in the settings, or by a clearing.
SettingsChange ==
    /\ edits <= MaxEdits /\ edits' = edits + 1
    /\ UNCHANGED <<card, asked, toHost, toCard, host, reads, isClearing, unheard, newest>>
ClearingStarts ==
    /\ ~isClearing /\ edits <= MaxEdits /\ isClearing' = TRUE
    /\ UNCHANGED <<card, asked, toHost, toCard, host, reads, edits, unheard, newest>>
\* The Webview hears of it if all was cleared and it was the Webview that asked.
ClearingEnds(isTold) ==
    /\ isClearing /\ isClearing' = FALSE /\ edits' = edits + 1
    /\ IF isTold THEN Post([kind |-> "cleared", id |-> 0, since |-> 0]) ELSE UNCHANGED toCard
    /\ UNCHANGED <<card, asked, toHost, host, reads, unheard, newest>>

Next ==
    \/ RunAction \/ HostReceives \/ CardReceives
    \/ \E read \in reads, isKnown \in BOOLEAN : StatusRead(read, isKnown)
    \/ ActionSuppressed \/ ActionEnds \/ \E isKnown \in BOOLEAN : StatusRefreshed(isKnown)
    \/ SettingsChange \/ ClearingStarts \/ \E isTold \in BOOLEAN : ClearingEnds(isTold)
OnboardingSpec == Init /\ [][Next]_onboardingVars

----------------------------------------------------------------------------
TypeOK ==
    /\ card \in [status : 0..(MaxEdits + 2), pending : 0..MaxAsked,
                 statusFor : 0..MaxAsked, afterAction : 0..MaxAsked]
    /\ host \in [pending : 0..MaxAsked, at : {"idle", "running", "reading"}, since : 1..(MaxEdits + 2)]
\* A card that waits for an action will hear of it, unless the Host dropped it while it was busy
\* with another one or with clearing local data, or suppressed its outcome: only those leave the
\* card waiting until the view is made anew (provider-onboarding-controller.ts:61, 74).
WaitsWithReason ==
    card.pending # 0 =>
        \/ card.pending \in unheard
        \/ card.pending = host.pending
        \/ \E i \in DOMAIN toHost : toHost[i].id = card.pending
        \/ \E i \in DOMAIN toCard : toCard[i].kind \in {"outcome", "cleared"}
\* The status on the card never goes back to older settings, in whatever order the reads of it
\* come back (onboarding-store.ts: a status counts only for the request that awaits it).
StatusNeverGoesBack == card.status # 0 => card.status >= newest
=============================================================================
