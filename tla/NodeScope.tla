----------------------------- MODULE NodeScope ------------------------------
(***************************************************************************)
(* Which machine a host operation runs on.  The panel has one persistent   *)
(* current node; a request may name another in X-Graw-Node and then runs   *)
(* alone, under the write lock of nodeScopeMu, with nodeOverride set       *)
(* (withNodeScope); everything else runs side by side under the read lock  *)
(* (readNodeScope).  Every Host* primitive asks anew (resolvedNodeID,      *)
(* opsNode), so the answer can change within a request.                    *)
(*                                                                         *)
(* The node table itself, its cache and its overlapping saves are module   *)
(* Nodes; here POST /api/nodes/current and DELETE are one step each.       *)
(*                                                                         *)
(* The recycle bin's hourly purge and some WebSocket handlers take no scope *)
(* at all: nothing here is claimed for them.                               *)
(*                                                                         *)
(* acted is history: the nodes that the host operations of a request ran   *)
(* on.                                                                     *)
(***************************************************************************)
EXTENDS FiniteSets, Naturals

CONSTANTS Nodes, Local,
          Agents,     \* nodes reached through an agent, to which whole requests go
          Workers,    \* goroutines
          Loops,      \* those that sample: the metrics and the docker loop
          None

ASSUME ScopeAssumption ==
    /\ Local \in Nodes
    /\ Agents \subseteq Nodes \ {Local}
    /\ Loops \subseteq Workers
    /\ None \notin Nodes \cup Workers

VARIABLES current,   \* Current of the node table
          known,     \* the nodes in the table
          override,  \* nodeOverride
          turn,      \* who has announced or holds nodeScopeMu for writing
          readers,   \* who holds it for reading
          op         \* what each goroutine is doing

vars == <<current, known, override, turn, readers, op>>

\* http: a request; frame: one round of the metrics or the docker loop; ws: a
\* subscription to another node.
Request ==
    [kind  : {"http", "frame", "ws"},
     pc    : {"idle", "lock", "announced", "write",
              "rlock", "waiting", "dispatch", "read", "proxied"},
     named : Nodes \cup {None},
     acted : SUBSET Nodes]

Idle == [kind |-> "http", pc |-> "idle", named |-> None, acted |-> {}]

TypeOK ==
    /\ current \in Nodes
    /\ known \subseteq Nodes
    /\ override \in Nodes \cup {None}
    /\ turn \in Workers \cup {None}
    /\ readers \subseteq Workers
    /\ op \in [Workers -> Request]

Init ==
    /\ current \in Nodes
    /\ known = Nodes
    /\ override = None
    /\ turn = None
    /\ readers = {}
    /\ op = [w \in Workers |-> Idle]

Goto(w, pc) == op' = [op EXCEPT ![w].pc = pc]

Begin(w, kind, pc, n) ==
    op' = [op EXCEPT ![w] = [kind |-> kind, pc |-> pc, named |-> n,
                             acted |-> {}]]

-----------------------------------------------------------------------------
\* Where an operation goes.

InTable(n) == IF n \in known THEN n ELSE Local

resolvedNodeID == IF override # None THEN override ELSE current

\* opsNode: an id that is not in the table stands for the panel's own host.
opsNode == InTable(resolvedNodeID)

RequestNode(w) == InTable(IF op[w].named # None THEN op[w].named ELSE resolvedNodeID)

-----------------------------------------------------------------------------
\* What there is to do.

\* ServeHTTP: only a bare node other than the current one makes a scope.
Arrive(w, n) ==
    /\ w \notin Loops /\ op[w].pc = "idle"
    /\ IF n \in known \ Agents /\ n # current
       THEN Begin(w, "http", "lock", n)
       ELSE Begin(w, "http", "rlock", n)
    /\ UNCHANGED <<current, known, override, turn, readers>>

\* StartMetricsBackground, StartDockerBackground
Frame(w) ==
    /\ w \in Loops /\ op[w].pc = "idle"
    /\ Begin(w, "frame", "rlock", None)
    /\ UNCHANGED <<current, known, override, turn, readers>>

\* systemWSHandler, dockerWSHandler: the node is looked up once, when the socket
\* opens, and then sampled under a scope of its own every few seconds.
Subscribe(w, n) ==
    /\ w \notin Loops /\ op[w].pc = "idle"
    /\ n \in known \ (Agents \cup {Local, current})
    /\ Begin(w, "ws", "lock", n)
    /\ UNCHANGED <<current, known, override, turn, readers>>

-----------------------------------------------------------------------------
\* withNodeScope and readNodeScope over sync.RWMutex: a writer announces itself,
\* which keeps new readers out, and waits for the readers that are in; when it
\* unlocks, the readers that waited go first.

Announce(w) ==
    /\ op[w].pc = "lock"
    /\ turn = None
    /\ turn' = w
    /\ Goto(w, "announced")
    /\ UNCHANGED <<current, known, override, readers>>

\* Mutant: the writer does not wait for the readers that are in.
EnterWriteAtOnce(w) ==
    /\ op[w].pc = "announced"
    /\ override' = op[w].named
    /\ Goto(w, "write")
    /\ UNCHANGED <<current, known, turn, readers>>

EnterWrite(w) ==
    /\ op[w].pc = "announced"
    /\ readers = {}
    /\ override' = op[w].named
    /\ Goto(w, "write")
    /\ UNCHANGED <<current, known, turn, readers>>

Inside(r) == [r EXCEPT !.pc = IF r.kind = "http" THEN "dispatch" ELSE "read"]

EnterRead(w) ==
    /\ op[w].pc = "rlock"
    /\ IF turn = None
       THEN readers' = readers \cup {w} /\ op' = [op EXCEPT ![w] = Inside(@)]
       ELSE Goto(w, "waiting") /\ UNCHANGED readers
    /\ UNCHANGED <<current, known, override, turn>>

LeaveRead(w) ==
    /\ op[w].pc \in {"read", "proxied"}
    /\ readers' = readers \ {w}
    /\ op' = [op EXCEPT ![w] = Idle]
    /\ UNCHANGED <<current, known, override, turn>>

Waiting == {w \in Workers : op[w].pc = "waiting"}

\* Mutant: the old override is not put back.
RestoredNever == override

\* The saved value: scopes do not nest, so it is always the empty one.
Restored == None

\* What w does after its scope: a subscription goes on or ends, a request ends.
After(w) ==
    {Idle} \cup (IF op[w].kind # "ws" THEN {}
                 ELSE {[op[w] EXCEPT !.pc = "lock", !.acted = {}]})

\* Mutant: without the defer, a handler that panics keeps the lock.
LeaveWriteLocked(w) ==
    /\ op[w].pc = "write"
    /\ override' = Restored
    /\ op' = [op EXCEPT ![w] = Idle]
    /\ UNCHANGED <<current, known, turn, readers>>

LeaveWrite(w) ==
    /\ op[w].pc = "write"
    /\ override' = Restored
    /\ turn' = None
    /\ readers' = Waiting
    /\ \E r \in After(w) :
          op' = [v \in Workers |-> IF v = w THEN r
                                   ELSE IF v \in Waiting THEN Inside(op[v])
                                   ELSE op[v]]
    /\ UNCHANGED <<current, known>>

-----------------------------------------------------------------------------
\* Inside.

\* dispatch: a request for a node with an agent goes there as a whole, unless its
\* path is one of those that stay on the panel.
Dispatch(w) ==
    /\ op[w].pc = "dispatch"
    /\ \/ /\ RequestNode(w) \in Agents
          /\ op' = [op EXCEPT ![w].pc = "proxied", ![w].acted = {RequestNode(w)}]
       \/ op' = [op EXCEPT ![w].pc = "read", ![w].named = None]
    /\ UNCHANGED <<current, known, override, turn, readers>>

\* Any Host* primitive.
HostOp(w) ==
    /\ op[w].pc \in {"read", "write"}
    /\ op' = [op EXCEPT ![w].acted = @ \cup {opsNode}]
    /\ UNCHANGED <<current, known, override, turn, readers>>

Handler(w) == op[w].kind = "http" /\ op[w].pc \in {"read", "write"}

\* POST /api/nodes/current
SetCurrent(w, n) ==
    /\ Handler(w)
    /\ n \in known
    /\ current' = n
    /\ UNCHANGED <<known, override, turn, readers, op>>

\* Mutant: there is no current node after the current one is deleted.
FallbackNone(n) == IF current = n THEN None ELSE current

Fallback(n) == IF current = n THEN Local ELSE current

\* DELETE /api/nodes/{node_id}
DeleteNode(w, n) ==
    /\ Handler(w)
    /\ n \in known \ {Local}
    /\ known' = known \ {n}
    /\ current' = Fallback(n)
    /\ UNCHANGED <<override, turn, readers, op>>

Start(w) ==
    \/ Frame(w)
    \/ \E n \in Nodes : Subscribe(w, n)
    \/ \E n \in Nodes \cup {None} : Arrive(w, n)

Work(w) ==
    \/ HostOp(w)
    \/ \E n \in Nodes : SetCurrent(w, n) \/ DeleteNode(w, n)

Leave(w) == LeaveRead(w) \/ LeaveWrite(w)

Next ==
    \E w \in Workers :
       \/ Start(w) \/ Work(w) \/ Leave(w)
       \/ Announce(w) \/ EnterWrite(w) \/ EnterRead(w) \/ Dispatch(w)

\* Goroutines are scheduled, and sync.Mutex hands itself to a writer that has
\* waited for long.  Nothing makes a request leave: a command over SSH and a
\* streamed answer of an agent have no timeout.
Fairness ==
    \A w \in Workers :
       /\ WF_vars(EnterWrite(w) \/ EnterRead(w) \/ Dispatch(w))
       /\ SF_vars(Announce(w))

Spec == Init /\ [][Next]_vars /\ Fairness

-----------------------------------------------------------------------------
\* nodeScopeMu keeps requests from taking each other's node (hostops.go,
\* nodeOverride).  Under a scope of its own a request acts on the node it named,
\* or on the panel's host once that node is no longer in the table; side by side
\* with others it never runs under the override of another request, and where an
\* agent serves it, it runs on that one node as a whole.
NoCrosstalk ==
    \A w \in Workers :
        /\ op[w].pc = "write" =>
              op[w].acted \subseteq {op[w].named} \cup
                                    (IF op[w].named \in known THEN {} ELSE {Local})
        /\ op[w].pc \in {"dispatch", "read", "proxied"} => override = None
        /\ op[w].pc = "proxied" => \E n \in Agents : op[w].acted = {n}

\* What a request is to OwnNode: nothing but how it runs, the node that it named,
\* and where it acted.
ModeOf(r) ==
    IF r.pc = "write" THEN "alone"
    ELSE IF r.pc \in {"dispatch", "read", "proxied"} THEN "beside" ELSE "out"

NamedBy(r) == IF ModeOf(r) = "out" THEN None ELSE r.named

Modes == [w \in Workers |-> ModeOf(op[w])]
Names == [w \in Workers |-> NamedBy(op[w])]
Acts  == [w \in Workers |-> op[w].acted]

PerRequest == INSTANCE OwnNode WITH mode <- Modes, node <- Names, acted <- Acts

\* One global override and a lock are as good as a node of its own for every
\* request: each host operation runs on the node that its request named, alone, or
\* on the node that is current, and nobody else changes the table under a request
\* that has a node to itself (withNodeScope, readNodeScope, opsNode).
NodeIsOwn == PerRequest!Spec

Asking(w)  == op[w].pc \in {"lock", "announced", "rlock", "waiting"}
Holding(w) == op[w].pc \in {"read", "write", "proxied"}

\* Only a request that never ends can keep others out of the node scope: as long
\* as everyone who is inside leaves again, whoever asks gets in, readers and
\* writers alike, however many others keep asking (nodeScopeMu, the defer of
\* withNodeScope).
EveryoneEnters ==
    (\A v \in Workers : []<>~Holding(v)) => (\A w \in Workers : []<>~Asking(w))

\* sysmon.go, StartMetricsBackground: the read lock makes sure "that one frame of
\* data comes from the same node as a whole".
FramesAreWhole ==
    \A w \in Workers : op[w].kind = "frame" => Cardinality(op[w].acted) <= 1
=============================================================================
