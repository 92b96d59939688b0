---------------------------- MODULE MCNodeScope -----------------------------
(* Two requests and the metrics loop; the panel's host, a bare node and one *)
(* with an agent.                                                           *)
EXTENDS NodeScope

CONSTANTS local, bare, agent, w1, w2, metrics, none

MCNodes == {local, bare, agent}
MCAgents == {agent}
MCWorkers == {w1, w2, metrics}
MCLoops == {metrics}
=============================================================================
