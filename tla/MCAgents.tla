------------------------------ MODULE MCAgents ------------------------------
(* One instance of five parts of the agents that share no state: the approval *)
(* chains, the operator service and the protected memory of the Python        *)
(* packages, and the AI clients with the router of cheap tasks.  A behaviour  *)
(* is one of theirs, the others staying as they begin.  One task has a chain  *)
(* and one call of the clients is in progress, since chains share nothing and *)
(* calls share nothing but the installed models, which change by themselves.  *)
EXTENDS ApprovalGate, OperatorService, AgentMemory, AIClients, LlmRouter

\* k1 begins with a safe pattern, k2 does not; Themis lets k1 be deleted, never k2.
CONSTANTS k1, k2

MCThemis == {<<"store", k2>>, <<"recall", k2>>, <<"forget", k1>>}

CONSTANTS one, two
MCTexts == {<<one>>, <<one, two>>}

AgentsInit == Init /\ ServiceInit /\ MemoryInit /\ ClientsInit /\ RouterInit
AgentsNext ==
    \/ ServiceInit /\ MemoryInit /\ ClientsInit /\ RouterInit
       /\ Next /\ UNCHANGED <<serviceVars, memoryVars, clientsVars, routerVars>>
    \/ Init /\ MemoryInit /\ ClientsInit /\ RouterInit
       /\ ServiceNext /\ UNCHANGED <<chain, memoryVars, clientsVars, routerVars>>
    \/ Init /\ ServiceInit /\ ClientsInit /\ RouterInit
       /\ MemoryNext /\ UNCHANGED <<chain, serviceVars, clientsVars, routerVars>>
    \/ Init /\ ServiceInit /\ MemoryInit /\ RouterInit
       /\ ClientsNext /\ UNCHANGED <<chain, serviceVars, memoryVars, routerVars>>
    \/ Init /\ ServiceInit /\ MemoryInit /\ ClientsInit
       /\ RouterNext /\ UNCHANGED <<chain, serviceVars, memoryVars, clientsVars>>
AgentsSpec == AgentsInit /\ [][AgentsNext]_<<chain, serviceVars, memoryVars, clientsVars, routerVars>>

AgentsTypeOK == TypeOK /\ ServiceTypeOK /\ MemoryTypeOK /\ ClientsTypeOK /\ RouterTypeOK
=============================================================================
