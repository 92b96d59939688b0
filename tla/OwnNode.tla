------------------------------ MODULE OwnNode -------------------------------
(***************************************************************************)
(* What the handlers rely on: every request has a node of its own, as if   *)
(* the node were an argument of each Host* call.  There is no lock here    *)
(* and no override: a request runs alone, for the node it named, or beside *)
(* others, for whatever node is current when it asks.  This is the         *)
(* abstract specification that NodeScope implements with one global        *)
(* variable and a lock.                                                    *)
(***************************************************************************)
CONSTANTS Nodes, Local, Agents, Workers, None

VARIABLES current,  \* the panel's current node
          known,    \* the nodes in the table
          mode,     \* how each goroutine runs: "out", "alone" or "beside" others
          node,     \* the node it named
          acted     \* the nodes its operations ran on

vars == <<current, known, mode, node, acted>>

Init ==
    /\ current \in Nodes
    /\ known = Nodes
    /\ mode = [w \in Workers |-> "out"]
    /\ node = [w \in Workers |-> None]
    /\ acted = [w \in Workers |-> {}]

EnterAlone(w) ==
    /\ \A v \in Workers : mode[v] = "out"
    /\ mode' = [mode EXCEPT ![w] = "alone"]
    /\ \E n \in Nodes : node' = [node EXCEPT ![w] = n]
    /\ UNCHANGED <<current, known, acted>>

EnterBeside(w) ==
    /\ mode[w] = "out"
    /\ \A v \in Workers : mode[v] # "alone"
    /\ mode' = [mode EXCEPT ![w] = "beside"]
    /\ \E n \in Nodes \cup {None} : node' = [node EXCEPT ![w] = n]
    /\ UNCHANGED <<current, known, acted>>

Leave(w) ==
    /\ mode[w] # "out"
    /\ mode' = [mode EXCEPT ![w] = "out"]
    /\ node' = [node EXCEPT ![w] = None]
    /\ acted' = [acted EXCEPT ![w] = {}]
    /\ UNCHANGED <<current, known>>

\* One that ran alone leaves, and any number of others enter at that instant.
HandOver(w) ==
    /\ mode[w] = "alone"
    /\ mode' \in [Workers -> {"out", "beside"}]
    /\ mode'[w] = "out"
    /\ node' \in [Workers -> Nodes \cup {None}]
    /\ acted' = [v \in Workers |-> {}]
    /\ UNCHANGED <<current, known>>

\* The node that is the request's own; the panel's host once it is not in the table.
NodeOf(w) ==
    LET n == IF mode[w] = "alone" THEN node[w] ELSE current
    IN  IF n \in known THEN n ELSE Local

Act(w) ==
    /\ mode[w] # "out"
    /\ acted' = [acted EXCEPT ![w] = @ \cup {NodeOf(w)}]
    /\ UNCHANGED <<current, known, mode, node>>

\* A node with an agent serves a request as a whole, before anything is done for
\* it: the node that the request named or the current one.
Forward(w) ==
    /\ mode[w] = "beside" /\ acted[w] = {}
    /\ \E n \in {node[w], current} \cap Agents \cap known :
          acted' = [acted EXCEPT ![w] = {n}]
    /\ UNCHANGED <<current, known, mode, node>>

\* Otherwise what it named is of no further use.
Stay(w) ==
    /\ mode[w] = "beside"
    /\ node' = [node EXCEPT ![w] = None]
    /\ UNCHANGED <<current, known, mode, acted>>

\* The table changes by the hand of a request inside, so of no other than the one
\* that runs alone.
SetCurrent(w) ==
    /\ mode[w] # "out"
    /\ current' \in known
    /\ UNCHANGED <<known, mode, node, acted>>

Delete(w) ==
    /\ mode[w] # "out"
    /\ \E n \in known \ {Local} :
          /\ known' = known \ {n}
          /\ current' = IF current = n THEN Local ELSE current
    /\ UNCHANGED <<mode, node, acted>>

Next ==
    \E w \in Workers :
       \/ EnterAlone(w) \/ EnterBeside(w) \/ Leave(w) \/ HandOver(w)
       \/ Act(w) \/ Forward(w) \/ Stay(w) \/ SetCurrent(w) \/ Delete(w)

Spec == Init /\ [][Next]_vars
=============================================================================
