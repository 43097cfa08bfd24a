# CtrlZebra: models, checks and proofs

CtrlZebra is a VS Code extension: an agent that talks to a model provider, runs
Tools in the workspace and asks the user before any of them has a side effect.
This directory models the parts of it whose difficulty is *order*: what may
happen between two `await`s, after a cancellation, when a timer and a click
race, when a second Run starts. The reference is the code under `src/`; paths
below are relative to it.

## 1. The system

| Component | State it keeps | Operations | Interacts with |
|---|---|---|---|
| `AgentRuntime`, `ModelTurnStream` (packages/core) | one Session state machine, the Run's locals: messages, tool steps, repetition detector, budget | `run`: load history, stream a turn, recover from overflow, run a Tool, go round | model gateway (stream), event sink (synchronous callbacks), Tool execution |
| `SessionStateMachine` (core) | status, run owner | `beginRun`, `transitionTo`, `ownsRun` | emits status changes |
| `ToolCallExecution`, `BasicApprovalPolicy` (core) | none of its own | `execute`: policy, prepare, approve, consume, run | approval workflow, Tool registry |
| Approval workflows (apps/extension controllers): router, `ApprovalLifecycle`, file / command / MCP workflow, `CancellableApprovalService` | a record per request, found by id in the lifecycle and in the router; timer, abort listeners, the promise waited for | create, requestDecision, decide, consume, invalidate, dispose | the user (Webview), the clock, the Run's AbortSignal, workspace trust, MCP snapshot |
| Session persistence (core): `JsonlEventStore`, `AtomicManifestStore`, `PersistedSessionRepository` | two files per Session: manifest, event log | create, appendEvent, update, get, list, delete, clear | VS Code file system |
| `chat-runner` (controllers) | the promise chain of appends behind a Run, its sequence counter | run, regenerate, edit | runtime, repository |
| Session recovery, history, retention (controllers) | none beyond the files | list, restore, delete, clear; projection of the log to model history | repository, checkpoints |
| Webview host (controllers): message, run and session handlers | active Run, settling Runs, history lock, owned Session, pending list/restore/delete | submit, cancel, regenerate, edit, list, restore, delete, clear, dispose | runner, recovery, Webview |
| MCP client and connection controller | connection state, generation, catalogs, pending calls | connect, disconnect, refresh, call | child process, approval |
| Mutation appliers, checkpoints | checkpoint store, plan revisions | apply, create checkpoint, preview, restore | VS Code workspace |
| Command executor and runner | one child process: timers, output limits | run, time out, kill | operating system |
| Diagnostics export | the one export under way | request, choose, preview, confirm, cancel | the user, the file system |
| Editor context and file references | the current selection and its fence | select, clear, submit | editor events |
| Provider commands, onboarding, model selection | secrets, configuration | set, clear, check, select | VS Code configuration |
| Webview stores | the UI's view of a Run, of approvals, of MCP | messages in, intents out | host |

Hard behaviours and what makes each component correct:

* **Run and approval.** One JavaScript thread, but every `await` and every event
  callback is a point where the user, a timer or the disposal may act. Correct:
  one terminal status per Run; no side effect without a timely approval and at
  most one per approval; nothing of a Run goes on after its cancellation; every
  request is closed exactly once and whoever waits for it is told; every Run
  ends.
* **Persistence.** Two files and no transaction; a read-modify-write per event;
  a second writer (recovery, a Run that still settles). Correct: a Session that
  was written can be listed, restored and continued after any crash.
* **Host.** Cancel takes effect in the UI before the Run has settled. Correct:
  one Run writes a Session; no late message of an old request reaches a new one.
* **MCP.** Reconnects make a new generation. Correct: nothing of an old one is
  used or shown.
* **Files, checkpoints, commands.** Partial failure and a workspace that changes
  underneath. Correct: a checkpoint describes what was applied; a restore never
  overwrites what it did not create; a process is ended once and for all.

`PROJECT.json` lists every hazard at the line where it bites, with the
properties that cover it.

## 2. What is modelled

### `AgentRuntime.tla`

One Run (or several on one Runtime) from `AgentRuntime.run` to its terminal
status. A Run is identified with its AbortSignal.

* `status`, `owner`: the `SessionStateMachine` of each Runtime.
* `pc`: where the Run is. A control state is a stretch of code that ends where
  the code awaits or has just called back into the Host, which is where others
  can interleave. `idle`, `begun` (history is loaded), `request` (about to ask
  the model), `streaming`, `unwinding` (an error leaves the generator, which is
  awaited), then for a Tool `running`, `preparing`, `creating`, `opened` (the
  request exists), `announced` (shown to the user), `deciding` (waits),
  `approved`, `consuming` (command directory bound again, file plan checked
  again), `consumed`, `applying` (a file plan is in the editor's hands),
  `executing`, `result`, and `ended`.
* `turn`: `emittedEvent`, `hasMeaningfulText`, the gateway's retries, whether the
  turn is an overflow recovery. `loop`: whether Tools are offered, tool steps,
  the accepted call, the repetition detector.
* `budget`: the strongest report of `RunTokenBudgetGuard`. Each observation
  chooses what it reports; after a warning there is no return to none.
* `approval`: the Run's latest request. `listed` merges the lifecycle's
  `#records` and the router's `#owners`, which are kept in step; `reply` is the
  promise of `requestDecision`; `due` says that `expiresAt` has passed.
  `granted` and `effects` are history variables.

An aborted signal is noticed at every control state of `Interruptible`
(`throwIfAborted` on both sides of each await), as `StopCancelled`. Where the code
can throw an error of its own although the signal is aborted (history provider,
approval scope, checkpoint, editor: `HostFails`; a rejected decision:
`DecisionRejected`), that error wins, as in the code. `End` is the catch and every
`return` of `run`, with the `finally` blocks that invalidate the approval.

Abstractions. Trust, scope, revision and MCP generation may change at any time,
so `ConsumeConflict` is always possible where the code compares them.
`validateToolApproval`, which compares the operation with the call, always
succeeds. The `consuming` flag of a record is the control state of its Run. A Tool
without `prepareApproval` is `Prepare` to `result`. Timers and clicks are macrotasks,
so they act on a request only while its promise is unsettled; cancellation and
disposal may also fall between an answer and its continuation, which allows a
little more than the code. `RejectCall` leaves the repetition counter alone: the
Run is over.

### `SessionLifecycle.tla`, `ApprovalProtocol.tla`

The abstract specifications. `SessionLifecycle` is `session-state-machine.ts`: a
status and an owner per Runtime, moved only along `legalTransitions`.
`ApprovalProtocol` is the table of `approval-state-machine.ts`. The workflows do
*not* use that class: `ApprovalLifecycle` assigns `record.status` directly. That its
assignments still follow the table is something to check, and `LegalApprovals`
does. Both are implemented by `AgentRuntime` (`LegalSession`, `LegalApprovals`).

### `SessionStore.tla`

The two files of every Session and whoever writes them: the chains of the Runs
(`chat-runner.ts`) and the Host's recovery (`session-recovery.ts`). Every access to
a file is a step, so that any two calls interleave where the code awaits.

* `manifest`, `log`, `staged`: `manifest.json`, `events.jsonl` and their temporary
  files, which all writers of a Session share. `fresh` is `#freshSessionIds`.
* `io[p]`: the repository call a Run or the recovery has under way, and at which of
  its accesses it is. `get` reads the manifest, then the log; `create` reads the
  manifest, then writes it; `update` is `get`, then stages and renames the manifest;
  `appendEvent` is `get`, reads the log twice more (for the sequence, and for the
  copy it will replace), stages and renames the log, stages and renames the
  manifest. The accesses are the actions under `Access`.
* `run[r]`: `creating` or `opening` (the record is read and judged by `Refusal`),
  `greeting` (the user message is written), `running` (the runtime reports, and the
  chain `queue` writes behind it), `ended`. `seq` is the chain's sequence counter,
  `rejected` says that a job of the chain failed, so that no later one runs.
* `active`, `recovery`, `answer`: `#activeRun`, the list (which holds the history
  lock) or restore under way, and what the last one told the user. `Settling` is
  `#settlingRuns`. `active` is given up as the Host does: at a cancellation, and when
  a Run *reports* its end (not when it settles), except `failed`.
* `cut`: a history variable. `cut.event` has the Sessions a fault caught between the
  two renames of an `appendEvent`; `cut.begin` those where a Run died after its
  "preparing" event was in the log and before the manifest's status said so
  (`HalfBegun`).

What the readers make of a log is `HistoryAccepts` (`projectSessionModelHistory`:
may the next Run begin), `BudgetAccepts` and `ReasoningAccepts` (may it be
restored).

Abstractions. Of the events, those that the readers relate to each other are kept:
user message, status, start of a reasoning block, budget exceeded. Attachments,
regenerations and edits append more events of the same kind at the same place;
text, Tool states and usage are checked one by one. A damaged tail cannot arise
from these writers (the log is replaced by a rename) and is left out, as are size
limits, retention, delete and clear. `list` reads all manifests in one step, since
it holds the history lock and starts when no Run settles. The clean-up after a
failed manifest write is one step with the failure. `Shown` is what the user can
name: a Session a Run or a list has shown. What a Run reports is any legal sequence
of statuses that `AgentRuntime.tla` allows after an abort or an exceeded budget.
Constants: `Reports` (the statuses explored), `MaxEvents` (events a Run reports
before its end), `Faults` (`crash`, `io`), and `Patient`: the user starts the next
Run or restore only when the last Run has settled.

### The view and its Host: `ViewChannel`, `WebviewHost`, `ChatStore`, `AgentView`

`ViewChannel` is the two message channels, in order and without acknowledgement.
`WebviewHost` is `webview-message-controller.ts` with its Run and Session handlers and
`local-data-clear.ts`: which Run is active (`host.active`), which still settle
(`host.settling`), the Session the Host owns, the history lock, the list, restore,
deletion or clearing under way. A Run here is only what the Host sees of it: it opens
a Session, reports text (usage, Tools and approvals are forwarded the same way),
reports its end, settles. `ChatStore` is `chat-store.ts`: transcript, the request it
follows, the branch it keeps while a regeneration or an edit replaces it, the frame
in which gathered text is painted. `AgentView` composes the two over the channels.

Left out: the Webview's other stores (they have modules of their own), the disposal of
the view, the command `ctrlZebra.clearLocalData` (extension.ts:799), which clears
without telling the Webview, and drafts.

### The services: `Services`

Parts of the extension that share no state with one another and meet the rest only
through calls which their modules enumerate. `Services` instantiates all of them; the
variable `part`, chosen in `Init`, says which one moves, and a property is asked of a
part while it moves. As no variable of one is read by another, what holds of each
alone holds of every interleaving, and the one run explores the sum of their state
spaces and not the product. The instances are declared in four groups, which `Services`
extends: `HostServices` (the first four rows below, `CommandProcess`, `SessionDeletion`),
`RunServices` (from `ModelStream` to `ContextWindow`), `UserServices` (from `ProviderKeys`
to `DiagnosticExport`) and `InputServices` (the last three and `McpInputs`).

| Module | Code | What it has |
|---|---|---|
| `FileChanges` | the five appliers, `checkpoint-store`, `checkpoint-restorer`, the propose Tools | a plan from its proposal over the looks before the checkpoint and before the edit to the edit; a restore with its two looks and its verification; the user types at any point |
| `McpConnection` | `mcp-connection-controller`, `controlled-mcp-client` | attempts, disconnects, exclusive use, trust, configuration; one client and one Server process per generation |
| `McpCatalog` | `mcp-catalog-refresh`, `mcp-catalog-collector`, `mcp-tool-snapshot`, calls of the client | one catalog (Tools, or Resources or Prompts) read page by page, coalesced refreshes, revocation, calls under way |
| `McpPanel` | `mcp-webview-actions`, connection part of `mcp-store` | half-second publication, intents, fences by generation and sequence |
| `McpInputs` | `mcp-resource-actions`, `mcp-prompt-actions`, input part of `mcp-store` | reading, previewing, keeping, removing, sending of a Resource or a Prompt |
| `CommandProcess` | `spawn-command-runner`, `command-output-collector`, `workspace-command-executor` | spawn, output, the race of close, timeout and abort, killing the group, bounded collection |
| `SessionDeletion` | list, delete and clear of `session-recovery`, `session-retention`, deletions of `checkpoint-store` | a list that marks and cleans up, deletions that may overtake it, files that refuse to go, restarts |
| `ModelStream` | `ai-sdk-model-gateway`, `provider-retry-policy`, `context-overflow-recovery`, `model-turn-stream` | parts of the SDK's stream, retries and their waits, overflow recovery, what the turn tells |
| `RunBudget` (over `TokenCounts`) | `run-token-budget` | estimates and reported usage counted apart, warning, limit, the log |
| `ReasoningStream` | the normalizer of the gateway, `reasoning-collector`, live and restored display | block ids, three limits, truncation in whole characters, recovery from the log at any cut |
| `SessionHistory` | `session-history`, `regeneration-validation`, projections of `session-recovery` | questions, retries, edits, stops; the log they leave; what the model is told and what a restore shows |
| `ContextWindow` (over `TokenShares`) | `token-budget`, `history-pruner`, `submission-context`, `agent-runtime` | shares, pruning, attached context, a second cut after an overflow |
| `ProviderKeys` | `provider-api-key-command`, `model-selection-command`, clearing | operations queued per Provider, fenced by generations; reads by a Run, a check, the Webview |
| `ConnectionCheck` | `provider-connection-check-command` | key, request, chunks, under a deadline and a cancellation |
| `ProviderOnboarding` | `provider-onboarding-controller`, `onboarding-store` | status requests and one action at a time, while settings change and data are cleared |
| `DiagnosticExport` | `diagnostic-export`, `diagnostics-export`, `diagnostic-export-store` | request, choice of a file, preview, confirmation, writing; errors counted meanwhile; panes that leave |
| `WorkspaceFiles` | `workspace-file-reference-actions`, `workspace-file-reference-store` | files referenced in a message, their staleness, refresh, removal, what is sent |
| `EditorContext` | `editor-context-entry`, `editor-context-store`, `vscode-editor-context` | text captured behind a gate, transitions of the editor, the card and its fences |
| `EditorQueries` | `vscode-language-services`, `vscode-diagnostics` | capture, answer of the providers, collection item by item while the editor moves |

What they abstract, beyond wording and layout:

* `FileChanges`: a file has two texts, the saved bytes and that of its document. Edits and
  restores look at the document; a deletion or a renaming looks at the saved bytes only
  (`Reads`). The user types, saves, removes a file; another program writes one, and an open
  document follows unless it holds unsaved text. A file that is removed takes its document
  with it; an editor that keeps it open is not modelled. The last look at a file and the
  submission of the edit are one step (nothing runs between them); texts are told apart, not
  their ranges; a plan of several files may fail half way, and files it had not reached are
  exempt (`loose`). The checkpoint list of the panel is left out.
* `McpConnection`: the settings and the selected folder are read in one step, then the folder
  is bound, which is awaited; what was approved is read again in the same two steps. An exit
  of the Server reaches client and controller, a break of the protocol only the client.
  Disposal of the extension is left out; what negotiation checks is one refusal.
  `McpPanel`, `McpInputs`: what a Server answers is one item; in `McpInputs` the
  client's answer and its installation in the Host are one step, and a behaviour is
  about Resources or about Prompts, which meet only in the panel.
* `SessionDeletion`: read-only Sessions of the older format, a directory that is half
  deleted.
* `ModelStream` leaves budgets, repetition and step limits to `RunBudget` and
  `AgentRuntime`, the splitting of deltas to `ReasoningStream`. `ReasoningStream`
  takes a text as the sizes of its characters. `SessionHistory` lets a Run end in every
  way but a crash (`SessionStore` has those).
* `WorkspaceFiles`, `EditorContext`: one view, no drafts, no overflow of the
  counters, no limits of what is read. `EditorQueries`: positions and texts.
* `DiagnosticExport`: a document is told apart by the errors counted in it; its
  allowlist and redaction are data. The id of a preview is that of its request.

### Proofs

Section 5 says what they prove and how.

| Module | About |
|---|---|
| `AgentRuntimeProofs` | one Run: types, the inductive invariant, its properties, both refinements |
| `SessionStoreProofs` | the files of a Session, who calls them, what a Run reports and what of it is in the log |
| `AgentViewProofs` | the Host, the view and the messages between them: no Run works in a deleted Session |
| `ChatViewProofs` | the same: what the view follows, shows and lists; extends the former |
| `HostServicesProofs` | `FileChanges`, `McpCatalog`, `McpConnection`, `McpPanel` and `SessionDeletion`, each by itself |
| `UserServicesProofs` | `ProviderKeys`, `ConnectionCheck` and `DiagnosticExport`, each by itself |
| `ServicesProofs` | what follows for them, and for `RunBudget`, as parts of `Services`; the shares of `TokenShares` |
| `RunBudgetProofs` | the token budget of a Run |

## 3. What is checked

| Run | Question | Bounds |
|---|---|---|
| `one_run` | Does one Run behave, whatever it calls and whatever happens around it? Type, five safety invariants, the inductive invariant, cancellation, both refinements, termination | one Run; one Tool of every kind (unknown, read, network, file, command, MCP); 2 Tool steps; repetition threshold 2; 1 retry |
| `two_runs` | Does a Run that is refused, or comes second, disturb the first? | two Runs on one Runtime; a file Tool; 1 Tool step, no retry |
| `cancel_awaiting` | Does a cancellation during a pending approval end the Run as cancelled? It does not (section 4) | one Run, a command |
| `store_faults` | Is what was written still there and readable after a crash or a failing access at any step? | one Session, two Runs, list and restore; 2 events per Run and its end; four of the statuses; patient user |
| `store_settles` | Do Run and recovery come to an end, with failing accesses and two writers at once? | one Session, one Run, list and restore; 3 events; reasoning and budget; impatient user |
| `store_overlap` | Do manifest and log agree once the Runs have settled? They do not | one Session, two Runs, list and restore, no fault, impatient user |
| `store_continue` | Can a recovered Session always be continued? It cannot | one Session, three Runs, list, no fault, patient user |
| `store_reasoning` | Can a Session without faults always be restored? It cannot | one Session, two Runs, no fault, patient user |
| `host_chat` | Do the view and the Host agree on what is shown and on who works, whatever the user asks for and however late the answers come? | two saved Sessions, one of them read-only, and one new; three requests of every kind, one intent and one message under way; one text per Run (887,000 states, two minutes) |
| `chat_stuck` | Is every submitted question answered? It is not | one saved Session, two requests |
| `services` | Do the services keep their promises? Seventeen properties of nineteen parts | section 2; two of whatever a part fences off or replaces: files, generations, catalogs, reads, jobs, captures (1,565,000 states, three and a half minutes) |
| `edit_alias` | Does an edit replace the question that was chosen? It does not | three questions |

A run `some_name` is configured by `MCSomeName.cfg`, for the module `MCAgentRuntime`,
`MCSessionStore`, `MCAgentView` or `MCServices` (`edit_alias`: `SessionHistory` itself).

Why these are enough. A Run's Tool steps share nothing but the counters, the
repetition detector and the approval slot, so two steps show every pair of
consecutive steps (an approval after an approval, of any two kinds), and a step
limit and a repetition threshold of 2 are both reached. One retry shows a retry
and its exhaustion. Two Runs on a Runtime show one refused, one after another, and
one that begins while the other is cancelled; a third would only repeat the
second. The theorems have no such bounds.

For the store: Sessions share no file, and no call of the model touches two of
them, so one Session is enough (a list that goes over several is only longer). Two
Runs show one Run read what another, or a fault, has left; two events and the end
make a chain with writes before, at and after every fault, and the log reaches eight
events. The four statuses of `store_faults` include one begin, one middle and two
ends; budget and reasoning, which only the readers tell apart, are in
`store_settles`. `store_faults` assumes `Patient`: without it the files come apart
with no fault at all, which is what `store_overlap` shows. Three Runs were also checked,
apart, since they take too long for a run of the project: a crash with two events and
the statuses "preparing", "streaming", "completed" (228,000 states), a crash and failing
accesses with one event and "preparing", "failed" (1.6 million), and "cancelled" as well
(3.5 million); no property failed. The theorems hold for any number of Sessions, Runs
and events.

For the view: three requests are one that is under way, one that overtakes it and one
after both; Sessions are interchangeable but for being saved, restored and new.
For the services every bound is a constant named `Max...`, at the smallest value at
which every action fires and every mutant is found; the parts with the fewest states
were also checked alone at larger bounds (`SessionDeletion` with three jobs,
`ModelStream` with five parts and three requests, `EditorContext` with three captures
or three changes, `WorkspaceFiles` with three reads and two endings,
`DiagnosticExport` with three exports).

Type invariants are conjuncts of other properties where a run has no room for its
own: of `IInv`, `LogAndManifest` and `AnswerFromOneRun`.

Properties, beyond the type invariant:

* `OneOwner`: the Session is owned by exactly the Run between its `beginRun` and
  its end.
* `EffectNeedsGrant`: an effect was granted in time, once per approval.
* `AwaitedIsDecidable`: nobody waits for a decision that can no longer arrive.
* `NoApprovalOutlivesItsStep`: after its Tool step an approval is closed and
  unlisted on every path.
* `ExceededStopsRun`: after the budget is exceeded nothing follows but the end.
* `CancelStopsRun` (action property): after a cancellation nothing follows but the
  end, and no effect begins.
* `LegalSession`, `LegalApprovals` (refinement).
* `RunSettles` (liveness).
* `IInv`, the inductive invariant, is checked as well as proved.

and for the store:

* `LogAndManifest`: the manifest names the last event of the log, or exactly the one
  before it while an `appendEvent` is between its renames or a fault cut it there.
* `LogOnlyGrows` (action property): no step loses or changes an event.
* `SettledRunIsRecorded`: a Run that settles with a status left everything it
  reported in the log, contiguous and in order.
* `LogsStayReadable`: after recovery the next Run accepts the log, whether the Runs
  ended or died.
* `OnlyRestingIsInterrupted` (action property): recovery never marks a Session with a
  Run under way.
* `RunsSettle`, `RecoveryEnds` (liveness).

for the view (stated in `AgentView`):

* `ShownBelongsToSelected`, `AnswerFromOneRun`: the transcript is of the Session named
  as current, and one answer holds the text of one Run.
* `ActiveRunIsFollowed`: no Run works unseen. `RunsWorkInStoredSessions`: none writes a
  deleted Session back. `DeletedStaysGone`: what was told as deleted does not return.
* `DeletionIsAnswered` (liveness): every deletion is answered, but for those the Host
  drops (section 4, `DeletionHeard`).

and for the services, each stated in the module of its part and asked in `Services`:

* `CheckpointHoldsWhatWasLost`, `RestoreTakesBackOnlyTheChange` (action properties of
  `FileChanges`): what a plan destroys is in its checkpoint, but for the unsaved text of a file
  that is deleted or renamed; a restore undoes the change and nothing written since.
* `ConnectedMeansLive`, `StartsOnlyWhatWasApproved` (`McpConnection`): what is shown as
  connected is alive, and marked if its configuration has changed (`ChangesAreMarked`); what
  starts was approved; each but for cases the code lets slip (section 4).
* `CatalogSettles`, `AcceptsOnlyWhatIsOffered` (`McpCatalog`): no catalog put together from two lists
  stays, no result of a replaced one is used; `PanelAgrees` (`McpPanel`).
* `ToolResultsAreTrue` (`CommandProcess`, `EditorQueries`): a command that is told to be
  stopped is gone with all it started; a query answers with the first of what there is,
  from one workspace, and says what is missing or stale.
* `RunTellsWhatWasSent` (`ModelStream`, `ReasoningStream`): told once, in order, nothing
  of a request made again; a restore shows the reasoning that was shown live.
* `RunStaysBelowLimit` (`RunBudget`), `RequestIsTheRecentPart` (`ContextWindow`).
* `RestoreShowsTheConversation`, `RunIsToldTheConversation` (`SessionHistory`): the log
  is compared with the conversation as its questions amount to it.
* `CommandsTellWhatIsSo` (`ProviderKeys`, `ConnectionCheck`, `SessionDeletion`,
  `DiagnosticExport`): what a command reports is so: keys, checks, removed Sessions with
  their Checkpoints, written files.
* `CardsAgreeWithTheHost`, `InputsAreAsShown` (`ProviderOnboarding`, `WorkspaceFiles`,
  `EditorContext`, `McpInputs`): a card waits only for what will come and shows what the
  Host has; a message is sent with what was shown and asked for.

Where the code is known not to keep such a promise, the property names the case it
leaves out, and section 4 says what happens in it.

Fairness (`FairSpec`): a Run that can take a step takes one, which says that the
event loop runs continuations and that streams, Tools and the editor settle when
the code awaits them (they are external, and the code has no timeout of its own
around a model stream); time passes; a due timer fires. The user owes nothing: no
decision, no cancellation. Deadlock is checked; `AllEnded` is the only rest. For the
store: every file access is answered, with success or failure (VS Code's file system
promises settle); the event loop runs a Run, or the recovery, that has its answer.
The user owes nothing there either, and recovery can always be asked for again. For
the view (`Answering`): what is posted is handled, a Run that was told to stop or has
reported its end settles, the Session operations of the Host come to an end; the user
and a Run that goes on owe nothing. The services are asked for safety only, without
fairness.

## 4. Findings

`cancel_awaiting` (`CancelWhileAwaitingCancels`). The router registers its abort listener when the approval is
created (tool-approval-workflow.ts:62), before the service registers its own. On
cancellation it runs first and invalidates the request, so the wait is rejected
with `ApprovalInvalidatedError` and not with the signal's reason. `isCancellation`
(agent-runtime.ts:434) is false, and the Session is committed, and persisted, as
`failed`; the Run rejects. The Webview hides this, since its handler looks at the
signal, but the restored Session says `failed`.
docs/protocol/session-and-runtime.md:278 promises the `cancelled` status.

`store_overlap` (`SettledSessionsAgree`). `canStart` (webview-run-message-handler.ts:184) asks for no active
Run and no history lock, but not for settling Runs, as `canListSessions` does. The
Host forgets a Run when it reports its end (:522) or is cancelled (:283), while the
chain behind it still writes. A restore or a next Run of that Session then makes a
second read-modify-write of the manifest and shares both temporary files:
`lastEventSequence` can fall behind the log, and every later `get` calls the Session
corrupt. docs/architecture/context-and-session.md:171 says a Session accepts one
active Run and others fail closed.

`store_continue` (`WholeSessionsContinue`). Recovery marks a Session as interrupted in the manifest only. The
next Run reports its first transition *from* `interrupted`, and the history reader
wants each transition to continue the one before it in the log
(session-history.ts:346). So an interrupted Session takes one more Run, and the one
after that is refused as corrupt. docs/persistence.md:153 lets a later submit reset a
recovered Session to a new Run.

`store_reasoning` (`WholeSessionsRestore`). Reasoning blocks are numbered from one in every Run, and
`recoverReasoning` (session-recovery.ts:599) wants ids unique in the Session: with
reasoning in two completed Runs a Session cannot be restored.
docs/persistence.md:171 says a valid lifecycle recovers as complete.

`chat_stuck` (`SubmitIsAnswered`). The view submits although it waits for a list (chat-store.ts:596); the
Host holds the history lock while it lists and drops the intent without a message
(webview-message-controller.ts:195). The view stays in `preparing` with a request that
nobody has: cancel does nothing, and everything else waits for it. New chat is dropped
in the same way and leaves the Host with the Session it owned, so that the next Run
completes without any of it being shown.

`edit_alias` (`EditsTheChosen`). The view names a question of a live chat after its request;
`resolveLiveUserProjectionAlias` takes any name of that form for the latest user
message (session-history.ts:186). Editing an earlier question edits the latest one.

The following are consequences of the code that the models show and that no run of
this project states as a violated property; the properties exempt them by the name in
brackets.

Sessions. An `appendEvent` cut between its renames leaves a Session that every `get`
refuses; if it is still marked active, every list fails with it, since `list` gives up
at the first failing update (session-recovery.ts:153). A crash after the budget event
and before the status that follows it leaves a log that the next Run accepts but
restore refuses. A crash between the "preparing" event and the status in the manifest, in
a Session whose manifest still holds the end of the Run before, leaves a Session that
recovery does not mark: the next Run continues it from that end, its first transition does
not continue the log, and every later Run is refused (`cut.begin`;
docs/persistence.md:153 lets a later submit reset it to a new Run). A list under way that marks a Session just after "Clear all" removed it
writes its manifest again (session-repository.ts:275; `returned`). When Sessions went
but their Checkpoints would not, the warning asks to refresh the history, but the next
list no longer knows those Sessions, so the Checkpoints stay until all is cleared; so do
those that a restart leaves behind (`excused`).

Deletions (`DeletionHeard`). The view offers to clear all local data while a Session is
restored (chat-store.ts:889 asks for no restore). The result makes the view forget the
restore (chat-store.ts:525), while the Host is still at it. The view then allows a deletion,
and sets `sessionMutationPending`; the Host finds `isRestoring()` and drops the intent
without a message (webview-message-controller.ts:376, 386). Everything else in the view
waits for an answer that does not come; docs/protocol/session-and-runtime.md:60 promises one
of two.

History (`FollowsRetry`). After a completed retry that another message followed, a later
retry of that message is refused as corrupt (session-history.ts:141, 236);
regenerating an edited answer tells the model the original question as one more message;
after a cancelled retry the next is refused; a Run stopped between the question and its
relation leaves the question as a turn of its own; an alias is resolved one level only.

Reasoning (`short`): a byte limit that stops before a character that does not fit is not
hit exactly, and the log is refused (session-recovery.ts:746).

Providers. A Retry-After is lost when the SDK gives the error as a part of the stream
(ai-sdk-model-gateway.ts:280); a stream that stops without a finish counts as a
complete response. A model selected before a clear is written after it. A completed key
command awaits its notification, and the Provider's queue with it. A key read that the
queue drops is reported as a rejected key. An action that the Host suppresses, or drops
while it is busy, leaves the onboarding card pending (`unheard`).

Diagnostics. The controller serves every view there will be. An export that a pane
forgets when local data is cleared (app.tsx:110) keeps every later one out as "already in
progress", and a view that is closed disposes of the controller for good
(diagnostic-export.ts:180, agent-view.ts:121).

Editor and files. Only the newest transition of the editor is followed up
(editor-context-entry.ts:207), so a change of the selection right after typing keeps a
card of the whole file from being marked stale (`missed.change`). Cards of files stay
shown after a message took their references; a read aborted by a deletion or a change of
workspace is never answered and blocks Send; two reads of one file leave two references
for one card; a refresh of a file whose card is removed brings the reference back.
An answer of a language provider is looked at once, before it is collected. Positions can be
looked at only in an open document, so one location, symbol or diagnostic in a document that is
not open (extension.ts:385 gives only open ones to vscode-diagnostics.ts:652), or of a named
file that is not, fails the whole Tool.

MCP. A malformed or oversize message, or a failed write, on a connection that is up makes the
client fail and its Server end, but only the client is told (controlled-mcp-client.ts:518): the
process ends by the termination the client began, so that the port records no failure
(mcp-stdio-port.ts:140), and the panel goes on showing a connection of which nothing can be
used. docs/mcp.md:116 has the connection fail then (`BrokenUnheard`). A configuration or folder
that changes between the second reading of the settings and the start of the Server, while the
folder is bound (mcp-connection-controller.ts:509), is neither compared nor marked, since the
controller is not connecting yet (:326); one that changes while the controller connects is marked, and
the mark is taken back when it is connected (:471). docs/mcp.md:143 has any change invalidate
an approval that is not consumed (`unseen`). A connect during a disconnect leaves a Server nobody owns
(:298; `Forgotten`). A coalesced refresh may be rejected with the failure
of an earlier load. What a message took, or a Session that was left had, stays shown as
attached (`fate.given`, `fate.left`); an answer is dropped when another of its kind is
asked for (`fate.removed`); choosing another item while one is read leaves all buttons of
the panel disabled. Resources and Prompts are each held against the whole budget of
attached context, so that a Run may fail on what was accepted.

Plans. A deletion or a renaming of a file with unsaved text reads only its saved bytes, for the
proposal (vscode-propose-file-delete-rename-workspace.ts:132), for both looks and for the
checkpoint (create-vscode-file-delete-applier.ts:39, create-vscode-file-rename-applier.ts:39).
The unsaved text, which an edit applied before may itself have left so, is not noticed as a
difference and is in no checkpoint; a restore brings back what was saved. docs/ux.md:107 has a
deletion restored by recreating the original (`OnlySavedIsKept`). The restore of a renaming
moves back whatever the editor makes of unsaved text.

Commands and plans. When the leader has exited but what it started holds the pipes,
nothing is killed and the result says so. A checkpoint may stay for a plan that was
never applied; a restore aborted after its edit answers "unavailable".

## 5. What is proved

Each theorem is about the specification a run checks, for every value of its constants.

### One Run

For any Runs, Runtimes, Tools and limits (`RuntimeOfType`, `KindType`, `LimitsType`,
`NoneIsFresh` are the only assumptions):

| Theorem | Property |
|---|---|
| `TypeCorrect` | `TypeOK` |
| `Inductive` | `IInv` |
| `SessionHasOneOwner` | `OneOwner` |
| `EffectsAreGranted` | `EffectNeedsGrant` |
| `AwaitedDecisionsArrive` | `AwaitedIsDecidable` |
| `ApprovalsAreReleased` | `NoApprovalOutlivesItsStep` |
| `ExceededBudgetEndsRun` | `ExceededStopsRun` |
| `CancelEndsRun` | `CancelStopsRun` |
| `RefinesSession` | `LegalSession` |
| `RefinesApprovals` | `LegalApprovals` |

The argument. None of the safety properties is inductive: that an effect was
granted depends on where the Run is, that a transition is legal depends on the
status, which the code never looks at before it moves. `IInv` supplies both:
`StatusFitsPhase` gives the statuses the code relies on at each control state, and
`ApprovalFitsPhase` what it may assume of the approval record there.
`OwnedWhileActive` and `OneOwner` together keep the steps of one Run from changing
the status another relies on. Each action is shown to preserve `IInv`, most of them
through a lemma about the record operator they use; the properties and the two
refinements then follow from `IInv`, one action at a time.

### The store

| Theorem | Property |
|---|---|
| `TypeCorrect` | `TypeOK`, for any user |
| `LogAndManifestHolds` | `LogAndManifest` |
| `LogOnlyGrowsHolds` | `LogOnlyGrows` |
| `OnlyRestingIsInterruptedHolds` | `OnlyRestingIsInterrupted` |
| `LogsStayReadableHolds` | `LogsStayReadable` |
| `SettledRunIsRecordedHolds` | `SettledRunIsRecorded` |
| `PatientStartsOneByOne` | none: what the five above suppose, for the user of `store_faults` |

For any Sessions, Runs, statuses, faults and number of events (`StoreAssumption`;
`NoneAssumption`, the absence of a staged file is not a manifest). All but the first and the
last are of the form `Spec /\ StartsOneByOne => ...`: they are about the behaviours in which no
Run and no restore is started while a Run settles. The code does not see to that: `canStart`
(webview-run-message-handler.ts:184) and the handling of a restore ask for no settling Runs, and
`store_overlap` shows how manifest and log come apart without it. What is proved is that nothing
else can take the files apart, whatever the Runs report and wherever a crash or a failing
access cuts them. `PatientStartsOneByOne` shows that the model's constant `Patient`, with which
`store_faults` and `store_continue` are checked, amounts to such behaviours.

The argument has three layers, each an inductive invariant on top of the one before.

* `Typed` holds for any user. Besides the types it says what a call carries at each of
  its accesses (`CallFits`), which call a Run or the recovery has in which phase (`RunFits`,
  `RecoveryFits`), and what is in the temporary files when (`StagedFits`).
* `Writer` holds as long as `StartsOneByOne` does: at most one call is under way (`OneWriter`), so what it
  has read is still so (`CallsCurrent`), and the two files agree but for the one event
  between the renames (`FilesAgree`). The code has no lock; that nothing comes between
  the read and the write of a call follows from *who may start when*, which is spread over
  the Host's handlers, the chain of the Run and the recovery. `LogAndManifest`,
  `LogOnlyGrows` and `OnlyRestingIsInterrupted` follow.
* `Record` follows a report on its way from the runtime to the file. Every Run has a story,
  the events it has reported: some of it is in the log, in order and in one piece, and
  the chain of its writes holds exactly the rest (`Told`). A Run whose chain has failed
  writes no more (`Silenced`). Of the files it says that the log of a Session reads as
  `HistoryAccepts` wants it and that its manifest fits where the log ends (`AtRest`), and of
  the recovery that it marks only Sessions that are not over (`MarksOnlyOpen`). Without the
  story neither property is inductive: whether a log is readable depends on events that
  are still in the chain. `LogsStayReadable` and `SettledRunIsRecorded` follow.

### The view and its Host

| Theorem | Property |
|---|---|
| `RunsWorkInStoredSessionsHolds` | `RunsWorkInStoredSessions` |
| `ActiveRunIsFollowedHolds` | `ActiveRunIsFollowed` |
| `DeletedStaysGoneHolds` | `DeletedStaysGone` |
| `ShownBelongsToSelectedHolds` | `ShownBelongsToSelected` |
| `AnswerFromOneRunHolds` | `AnswerFromOneRun`, and `TypeOK` with it |

These are all the safety properties of `AgentView`, for any Sessions, requests, texts and
messages under way (`SessionAssumption`, `RequestsAssumption` and `EventsAssumption`: the
bounds are numbers; `PriorAssumption`: the Sessions there were are Sessions;
`OpenedAssumption`: what was open is one of them or none).

Neither side asks the other: each decides by what it has been told. So each invariant is about
what is *under way*, and there are four layers.

* `ViewInv` (`AgentViewProofs`). The guards that keep a Session with a Run in it from being
  deleted look at the active Run and at those that settle, by the Session the Host has
  *recorded* for them. A Run that has opened its Session and not yet reported anything has
  none recorded. What saves it is that nobody can name that Session: it is in no variable of
  the Host or of the view and in no message on either channel (`Named`); every Run at work is
  waited for, in a Session that is stored and that no other such Run shares (`Places`); a list
  runs while no Run works (`ListAlone`).
* `TalkInv`, which gives `ActiveRunIsFollowed`. A deletion or clearing the view waits for is in
  one place: on its way, with the Host, or answered (`OnePlace`), and the view waits for one at
  a time and restores nothing meanwhile (`OneMutation`). A question on its way is the one the
  view follows, ahead of any deletion (`Submitted`); the active Run is the one that is
  followed, works in the Session that is shown, and is not told to be over
  (`ActiveFollowed`); all that is told of it is told in one Session (`WordsAgree`). What makes
  the answer to a deletion safe to act on is that no active Run works in what it takes away,
  from the moment the Host decides until the view has read the answer (`HostHushed`,
  `AnswersHushed`): the view forgets its Run then, and the Host must have none left.
* `GoneInv`, which gives `DeletedStaysGone`: a list that was read before the deletion, a restore,
  and a Run that starts late name nothing that is gone, on the Host, on the channel or in what the
  view still awaits (`ListsGone`, `WordsGone`).
* `ShownInv`, which gives the last two. A view that has no Session yet hears which one it is
  before any text (`StartsFirst`), so text is always of the Session that is shown. `Shows` says
  of the transcript that every exchange is of that Session and has the text of one request at most, that
  gathered text is of the followed Run, that it goes to an exchange on which no other Run has
  written, or to one that is blanked before it is painted (`OwnText`, `Writable`), and that what a
  regeneration or an edit keeps for its undoing was itself shown so (`Backups`).

Each step of the Host is summed up once, by what it does to all of this together with the
messages it posts (`HostMoves`), and each step of the view in the same way (`ChatMoves`); the
layers are shown to be kept by such a move, whatever step it was. The proof shows more than
was asked: `Shows` has `mismatched = {}`, so the fence of the view against a Run of another
Session (chat-store.ts, `mismatchedSessionRequests`) never closes with this Host.

### The services

| Theorem | Property |
|---|---|
| `CheckpointHoldsWhatWasLostHolds` | `CheckpointHoldsWhatWasLost` of `FileChanges` |
| `RestoreTakesBackOnlyTheChangeHolds` | `RestoreTakesBackOnlyTheChange` of `FileChanges` |
| `CatalogSettlesHolds` | `CatalogSettles` of `McpCatalog` |
| `AcceptsOnlyWhatIsOfferedHolds` | `AcceptsOnlyWhatIsOffered` of `McpCatalog` |
| `ConnectedMeansLiveHolds` | `ConnectedMeansLive` and `ChangesAreMarked` of `McpConnection` |
| `StartsOnlyWhatWasApprovedHolds` | `StartsOnlyWhatWasApproved` of `McpConnection` |
| `PanelAgreesHolds` | `PanelAgrees` of `McpPanel` |
| `CommandsTellWhatIsSoHolds` | `CommandsTellWhatIsSo` of `SessionDeletion`, `ProviderKeys`, `ConnectionCheck` and `DiagnosticExport` |
| `RunStaysBelowLimitHolds` | `RunStaysBelowLimit` of `RunBudget`, by its theorems below |

A step of `Services` is a step of one part and leaves the variables of the others alone
(`ChangesMove`, `CatalogMoves`, `ConnectionMoves`, `PanelMoves`, `DeletionMoves`, `KeysMove`,
`CheckMoves`, `ExportMoves`), so an invariant of a part, which `HostServicesProofs` and
`UserServicesProofs` show its own steps to keep, is one of `Services`.

* `FilesInv`: a plan and a restore are described step by step, against the files as they are
  now. A plan holds the captured text and version of as many files as its step says
  (`CapturedSoFar`), a version that is still the file's stands for the text of its document
  (`VersionsTell`), and every file it has looked at for the last time is as captured or has
  changed since (`AsPlanned`; `loose`); its checkpoint is what it will do (`CheckpointFits`).
  A restore has a checkpoint that a plan recorded (`Recorded`: one or two files, a renaming
  moves one text) and every file it has compared is as the plan left it or has changed since
  (`Stays`). Whoever writes to a file, the user, a plan or another restore, makes it loose for
  all others at work, and keeps the rest (`LooseChangeFits`, `LooseRestoreFits`). There are no
  assumptions.
* `CatalogInv`: at most the catalog in place is on offer, and nothing without a connection
  (`OnOffer`); a read is under way exactly while one page is owed or on its way (`OneAnswer`);
  and every page, on the wire, read, or in place, is either as the Server has it, or a change
  is still announced or a refresh requested (`UpToDate`). So a catalog can be mixed, but never
  at rest.
* `ConnectionInv`: a client that is connected or about to be has a running Server and no
  cleanup (`Lives`), for the client of every generation; that of a controller which says
  connected is connected or has met a break of the protocol (`ConnectedShows`); and the attempt
  goes on with the controller's client or with none (`AttemptFits`), since a disconnect may have
  forgotten it. On top of it `StandingInv`: which disconnects are still to come to their end and
  of which client (`DisconnectsFit`), what is connecting (`ConnectingFits`), that what was read
  again is what is configured unless a change was not seen (`ReadingAgreed`), which operation
  the controller has (`OperationKnown`), and that its changes are marked. It assumes that the
  bound on generations is a number (`GenerationAssumption`).
* `PanelInv`: what the Host published and the panel has not yet seen is on its way, in order.
  A connection has a number and a connected Server has Tools, and catalogs are counted for the
  connection that was last said to be there (`HostInv`). An answer that the panel awaits is
  being worked on or on its way (`AnswerComes`). The last word on its way, or without one what
  the panel shows, is what was published last (`LastWord`): the panel drops words while it
  awaits an answer, and the answer repeats the last. The catalogs of a connection arrive in the
  order of their numbers, which stay above the one that is shown and at most the one counted
  (`InSequence`), so that the fence drops none; hence the catalog published last is the last
  message on its way, or has arrived (`CatalogComes`). There are no assumptions.
* `DeletionInv`: a deletion that is complete, or about to be, has left nothing of what it was
  asked for but Sessions that a Run in it wrote again (`DeletionSparesNothing`, `returned`). A
  record of Checkpoints belongs to a Session there is, or to one whose sweep is still to come
  in a list or a deletion under way, or to one whose sweep failed (`RecordsAreOwned`). A
  list that no deletion overtakes knows which Sessions there are (`ListKnows`).
* `KeysInv`: the operations on one Provider's key are served one after the other (`OneByOne`), so
  an operation that is about to tell it completed still finds the key as it left it
  (`WrittenKeys`). A clearing that has the queues waits for every operation that is not done, and
  once it deletes, each key is gone or still to be deleted (`QueuesHeld`); whatever key there is
  after it was written by an operation that was asked for later (`Cleared`). It assumes that
  there is a Provider (`ProvidersAssumption`).
* `CheckInv`: what was answered so far fits the step the check is at. There are no
  assumptions.
* `ExportInv`: an export's turn is in one place at most, on the way to the Host, in its hand, on
  the way back, or with the user (`OneTurn`), though the Host may have been given up by the pane
  and know nothing of it. Unless the pane has left an export, it waits for what is under way
  about it (`PaneFollows`), and what it waits for is under way (`PaneWaits`). What the Host keeps
  is what was shown, for as long as it may be confirmed (`KeptIsShown`), and so what is written
  was shown, confirmed and is told so (`WrittenIsConfirmed`). It assumes that the bound on
  exports is a number (`ExportsAssumption`).

### The algorithms


| Theorem | Property |
|---|---|
| `BudgetTypeCorrect` | the counts stay within the shared bound |
| `StaysBelowLimit` | `RunStaysBelowLimit` of `RunBudget`: a Run that goes on has used less than its limit |
| `BudgetLogIsReadable` | `BudgetLogReadsBack`: what is logged follows the rules its recovery enforces |
| `SharesAddUp` | the shares of a window of any size add up to it, and none is negative |

Here the assumptions are those of the constants only (`WindowAssumption`, and that
reports and estimates are counts). `RunStaysBelowLimit` alone is not inductive: the guard
counts with a saturating addition and remembers a warning. `BudgetInv` adds that, while
the Run goes on, what was counted equals what was observed, that nothing has yet been
rounded to the bound, and that the snapshots emitted fit the counts.

### Model-checked only

* Out of the prover's reach: the liveness properties (`RunSettles`, `RunsSettle`,
  `RecoveryEnds`, `DeletionIsAnswered`), which need fairness; and what `ReasoningStream`,
  `SessionHistory` and `ContextWindow` compute over sequences by folds, which needs induction
  over data: `RunTellsWhatWasSent` (its `ReasoningStream` half), `RestoreShowsTheConversation`,
  `RunIsToldTheConversation`, `RequestIsTheRecentPart`.
* Not proved: of the services, `ToolResultsAreTrue`, `CardsAgreeWithTheHost`,
  `InputsAreAsShown`, and the type invariant of `Services`.

## 6. Not modelled, and the plan

Not modelled, for good: the composition root, rendering, scripts, the schemas of
persistence and the built-in file Tools keep no state whose order matters; the messages of
the wire protocol are the records of `ViewChannel` and of the services' modules, without the
schemas that validate them; their limits and shapes are data. Provider construction, endpoint
validation, redaction and text projection are data as well. Partly modelled components
say in `PROJECT.json` what they leave out; the larger ones are the size limits of the
Session storage, output limits of the built-in Tools, the approval and checkpoint stores
of the Webview, and the disposal of views.

Next, in this order:

| Step | What | Why |
|---|---|---|
| 1 | `CardsAgreeWithTheHost`, of its parts one by one, for any number of files, scopes and operations | their fences are counters, like those of `McpPanel` |
| 2 | `ToolResultsAreTrue`, of `CommandProcess` first | the queries of the language services compute by folds |
