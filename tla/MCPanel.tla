------------------------------ MODULE MCPanel ------------------------------
(* Two hosts, one task on each, and on the second, which has no agent, the *)
(* task centre cannot be opened while it is the current one; an account    *)
(* that may open the task centre and one that may open the file window;    *)
(* two windows in the life of the page, one behind the other.              *)
EXTENDS Panel

CONSTANTS h1, h2, t1, t2, f1, f2

MCHosts == {h1, h2}
MCTasks == {t1, t2}
MCHostOf == [t \in MCTasks |-> IF t = t1 THEN h1 ELSE h2]
MCFiles == {f1, f2}
MCKinds == {"tasks", "files", "form", "editor"}
MCAccounts == {{"tasks"}, {"files"}}
MCLocalKinds == {"tasks"}
MCBarred == {h2}
=============================================================================
