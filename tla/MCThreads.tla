------------------------------- MODULE MCThreads -------------------------------
(* The small instances of the three components whose threads must come to an
   end: SubAgents, whose variables and constants are this module's own, Mcp and
   StdioRpc. They share no state: the first state picks the one that runs, "part",
   and the others stay as they began, where none of their fair steps is enabled,
   so one run of TLC checks all three without multiplying their states. *)
EXTENDS SubAgents

VARIABLES
    part,
    server, mcpSession, run, mcpStop, shown, snapshot, latest, raced,
    child, status, call, nextId, inflight, noticed, notices, asked, responses, rpcStop

mcpVars == <<server, mcpSession, run, mcpStop, shown, snapshot, latest, raced>>
rpcVars == <<child, status, call, nextId, inflight, noticed, notices, asked,
             responses, rpcStop>>
allVars == <<part, vars, mcpVars, rpcVars>>

\* One caller is enough for a stop; MCComponents has two.
Servers == INSTANCE Mcp WITH
    Callers <- {"chat"}, MaxAttempts <- 2, MaxVersion <- 2,
    session <- mcpSession, stop <- mcpStop, caller <- snapshot

\* Two requests in flight, stopped by the session and by the destructor.
Rpc == INSTANCE StdioRpc WITH
    Callers <- {"run", "chat"}, MaxIds <- 2, MaxStops <- 2, stop <- rpcStop

ThreadsInit ==
    /\ part \in {"SubAgents", "Mcp", "StdioRpc"}
    /\ Init /\ Servers!Init /\ Rpc!Init

ThreadsNext ==
    \/ part = "SubAgents" /\ Next /\ UNCHANGED <<part, mcpVars, rpcVars>>
    \/ part = "Mcp" /\ Servers!Next /\ UNCHANGED <<part, vars, rpcVars>>
    \/ part = "StdioRpc" /\ Rpc!Next /\ UNCHANGED <<part, vars, mcpVars>>

\* No step of a component that does not run is taken, so none may be due:
\* Mcp's and StdioRpc's fair steps are not enabled in their first state.
ThreadsSpec ==
    /\ ThreadsInit /\ [][ThreadsNext]_allVars
    /\ Fairness /\ Servers!Fairness /\ Rpc!Fairness

---------------------------------------------------------------------------
\* Every component is well-typed.
TypesOK == TypeOK /\ Servers!TypeOK /\ Rpc!TypeOK

\* A stop of the MCP manager ends, whatever its server does.
StopEnds == Servers!StopEnds

\* Every request to a child process comes back to its caller, also when its frame
\* was mixed with another's, the child has died or the answer never comes.
EveryCallEnds == Rpc!EveryCallEnds
=============================================================================
