--------------------------- MODULE MCAgentRuntime ---------------------------
EXTENDS AgentRuntime, TLC

CONSTANTS r1, r2, rt, cUnknown, cRead, cNetwork, cFile, cCommand, cMcp

SameRuntime == [r \in Runs |-> rt]

KindOfCall ==
    (cUnknown :> "unknown" @@ cRead :> "read" @@ cNetwork :> "network"
        @@ cFile :> "file" @@ cCommand :> "command" @@ cMcp :> "mcp")

KindOf == [c \in Calls |-> KindOfCall[c]]
=============================================================================
