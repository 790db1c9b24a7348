---------------------------- MODULE MCToolCalls ----------------------------
(***************************************************************************)
(* Small instances of ToolCalls for TLC: an agent with a session row, and   *)
(* the workflow agent, whose row is of the workflow workspace.              *)
(***************************************************************************)
EXTENDS ToolCalls, TLC

CONSTANTS c1, c2, x, y, noRow, noSession, full

Agent    == [client |-> "agent", workspace |-> "session"]
Flow     == [client |-> "flow", workspace |-> "workflow"]
MCCaller == {Agent, Flow}
Plain    == [name |-> "s", padded |-> FALSE, long |-> FALSE]
MCSessionArg == {Plain, [Plain EXCEPT !.padded = TRUE]}
MCRequests == {<< >>, <<1, 2>>}
MCAllowlists == {{AllProjects}, {1}}
MCKeySets  == {{AllSources}, {y}}
MCFiles    == {[sources |-> {x}, deployment |-> NoDeployment], [sources |-> {x, y}, deployment |-> full]}

\* The workflow agent may read everything; the agent everything while project 2 has
\* no manifest yet, else project 1.
MCInit ==
  /\ CallsInit
  /\ grants[Flow] = {AllProjects}
  /\ manifests[1] # NoRow /\ manifests[1].sources = {x}
  /\ manifests[2] # NoRow => manifests[2].sources # {x}
  /\ manifests[2] = NoRow <=> grants[Agent] = {AllProjects}

MCSpec == MCInit /\ [][CallsNext]_callVars

\* An edit while no call is under way gives another of the initial states.
EditsDuringCalls == edits' > edits => \E c \in Call : calls[c].pc \notin {"idle", "done"}

CallSymmetry == Permutations(Call)
=============================================================================
