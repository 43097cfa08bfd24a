---------------------------- MODULE UserServices ----------------------------
(* What serves the user's settings: the keys of the Providers, the check of a *)
(* connection, the onboarding card and the export of diagnostics. They share  *)
(* no state.                                                                  *)
EXTENDS Integers, Sequences

CONSTANTS
    Providers, MaxOperations, MaxSettings,
    MaxAsked, MaxEdits,
    MaxExports, MaxErrorCount, MaxLeft

\* PROVIDER_IDS is not empty, and the setting of the Provider has a default.
ASSUME ProvidersAssumption == Providers # {}
\* As many exports as one wishes to ask for.
ASSUME ExportsAssumption == MaxExports \in Nat

VARIABLES
    keys, exclusive, operations, settings, selection, clearing,
    target, checking, answered, stopped, report,
    card, asked, toHost, toCard, host, reads, edits, isClearing, unheard, newest,
    exporter, errorCount, pane, toExporter, toPane, outcome, left

Keys == INSTANCE ProviderKeys
Check == INSTANCE ConnectionCheck
Onboarding == INSTANCE ProviderOnboarding
Export == INSTANCE DiagnosticExport

keysVars == <<keys, exclusive, operations, settings, selection, clearing>>
checkVars == <<target, checking, answered, stopped, report>>
onboardingVars == <<card, asked, toHost, toCard, host, reads, edits, isClearing, unheard, newest>>
exportVars == <<exporter, errorCount, pane, toExporter, toPane, outcome, left>>
userVars == <<keysVars, checkVars, onboardingVars, exportVars>>
=============================================================================
