--------------------------- MODULE MCAgentSupervisor ----------------------------
(* Small instances of AgentSupervisor.  The processes are interchangeable.     *)
EXTENDS AgentSupervisor, TLC

ProcSymmetry == Permutations(Procs)

=================================================================================
