------------------------------ MODULE MCAgents ------------------------------
(***************************************************************************)
(* Instances of Agents for TLC: a session and its subagent.                *)
(***************************************************************************)
EXTENDS Agents

\* A turn that a restart ended is given up at once, or taken up once.
GiveUpOrResume == {0, 1}
GiveUp == {0}
=============================================================================
