---------------------------- MODULE HostServices ----------------------------
(* The services of the extension Host proper: changes of files, the MCP       *)
(* connection, its catalogs and its panel, one command, and the deletion of   *)
(* Sessions. They share no state.                                             *)
EXTENDS Naturals, Sequences, FiniteSets

CONSTANTS
    Files, MaxTyped, MaxPlans, MaxRestores,
    MaxGenerations, MaxDisconnects, MaxConfigured,
    Callers, MaxVersions, MaxCommits, MaxLinks,
    Oversized, MaxTools, MaxRequests, MaxPosted, MaxSequence,
    Sizes, MaxWritten, ContextLimit, DisplayLimit, LogLimit,
    Sessions, MaxJobs

\* As many connections as one wishes to count.
ASSUME GenerationAssumption == MaxGenerations \in Nat

VARIABLES
    disk, typed, change, plans, checkpoints, restores,
    ctl, attempt, disconnects, clients, configured,
    server, wire, link, catalog, active, contents, calls,
    mcp, publisher, intents, posted, panel,
    process, pipe, run, collector, log,
    saved, records, listing, deletion, excused, returned, jobs

Changes == INSTANCE FileChanges
Connection == INSTANCE McpConnection
Catalog == INSTANCE McpCatalog
Panel == INSTANCE McpPanel
Command == INSTANCE CommandProcess
Deletion == INSTANCE SessionDeletion

changesVars == <<disk, typed, change, plans, checkpoints, restores>>
connectionVars == <<ctl, attempt, disconnects, clients, configured>>
catalogVars == <<server, wire, link, catalog, active, contents, calls>>
panelVars == <<mcp, publisher, intents, posted, panel>>
commandVars == <<process, pipe, run, collector, log>>
deletionVars == <<saved, records, listing, deletion, excused, returned, jobs>>
serviceVars == <<changesVars, connectionVars, catalogVars, panelVars, commandVars, deletionVars>>
=============================================================================
