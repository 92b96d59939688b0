-------------------------- MODULE NodeScopeProofs ---------------------------
(***************************************************************************)
(* Proofs about NodeScope, for any number of nodes and goroutines.         *)
(***************************************************************************)
EXTENDS NodeScope, TLAPS

-----------------------------------------------------------------------------
(* The inductive invariant: who is where agrees with the lock, the override  *)
(* belongs to the one writer inside, and the current node is always in the   *)
(* table, hence among those a reader has seen.                               *)

Outside == {"idle", "lock", "rlock", "waiting"}
Writing == {"announced", "write"}
Reading == {"dispatch", "read", "proxied"}

LockMatches ==
    /\ \A w \in Workers : op[w].pc \in Writing <=> turn = w
    /\ \A w \in Workers : op[w].pc \in Reading <=> w \in readers
    /\ \A w \in Workers : op[w].pc = "write" => readers = {}

OverrideMatches ==
    /\ \A w \in Workers : op[w].pc = "write" => override = op[w].named
    /\ (\A w \in Workers : op[w].pc # "write") => override = None

TableWhole == Local \in known /\ current \in known

Prepared(r) ==
    /\ r.pc \in {"lock", "announced", "write"} => r.named \in Nodes
    /\ r.pc \notin {"write", "read", "proxied"} => r.acted = {}

AllPrepared == \A w \in Workers : Prepared(op[w])

\* Where a goroutine has acted.
Kept(r) ==
    /\ r.pc = "write" =>
          r.acted \subseteq {r.named} \cup (IF r.named \in known THEN {} ELSE {Local})
    /\ r.pc = "proxied" => \E n \in Agents : r.acted = {n}

AllKept == \A w \in Workers : Kept(op[w])

Inv ==
    /\ TypeOK
    /\ LockMatches
    /\ OverrideMatches
    /\ TableWhole
    /\ AllPrepared
    /\ AllKept

LEMMA IdleTyped ==
    Idle \in Request /\ Idle.pc = "idle" /\ Idle.acted = {}
  BY DEF Idle, Request

LEMMA InitInv == Init => Inv
  <1> SUFFICES ASSUME Init PROVE Inv
    OBVIOUS
  <1>1. TypeOK
    BY IdleTyped DEF Init, TypeOK
  <1>2. \A w \in Workers : op[w].pc = "idle" /\ op[w].acted = {}
    BY IdleTyped DEF Init
  <1>3. LockMatches /\ OverrideMatches
    BY <1>2, ScopeAssumption DEF Init, LockMatches, OverrideMatches, Writing, Reading
  <1>4. TableWhole
    BY ScopeAssumption DEF Init, TableWhole
  <1>5. AllPrepared /\ AllKept
    BY <1>2 DEF AllPrepared, Prepared, AllKept, Kept
  <1> QED BY <1>1, <1>3, <1>4, <1>5 DEF Inv

\* The host operations of anyone inside, while nobody else changes the table.
LEMMA OpsNodeTyped ==
    ASSUME Inv
    PROVE  opsNode \in Nodes /\ \A w \in Workers : RequestNode(w) \in Nodes
  BY ScopeAssumption DEF Inv, TypeOK, Request, opsNode, RequestNode, InTable, resolvedNodeID

\* No reader is inside together with an override.
LEMMA ReaderSeesCurrent ==
    ASSUME Inv, NEW w \in Workers, op[w].pc \in Reading
    PROVE  override = None /\ opsNode = current
  <1>1. \A v \in Workers : op[v].pc # "write"
    BY DEF Inv, LockMatches, Reading
  <1>2. override = None
    BY <1>1 DEF Inv, OverrideMatches
  <1> QED BY <1>2 DEF Inv, TableWhole, opsNode, InTable, resolvedNodeID

LEMMA WriterSeesNamed ==
    ASSUME Inv, NEW w \in Workers, op[w].pc = "write"
    PROVE  opsNode = InTable(op[w].named)
  BY ScopeAssumption DEF Inv, OverrideMatches, AllPrepared, Prepared, opsNode, resolvedNodeID

-----------------------------------------------------------------------------
(* One goroutine moves.  Its new state r is prepared and fits the lock; what *)
(* the others need is that tables, lock and override do not change under     *)
(* them.                                                                     *)

LEMMA OneMoves ==
    ASSUME Inv, NEW w \in Workers, NEW r \in Request,
           op' = [op EXCEPT ![w] = r],
           UNCHANGED <<current, known>>,
           Prepared(r), Kept(r)
    PROVE  /\ op' \in [Workers -> Request]
           /\ TableWhole'
           /\ \A v \in Workers : op'[v] = IF v = w THEN r ELSE op[v]
           /\ AllPrepared'
           /\ AllKept'
  <1>1. \A v \in Workers : op'[v] = IF v = w THEN r ELSE op[v]
    BY DEF Inv, TypeOK
  <1>2. op' \in [Workers -> Request] /\ TableWhole'
    BY DEF Inv, TypeOK, TableWhole
  <1>3. AllPrepared'
    BY <1>1 DEF Inv, AllPrepared, Prepared
  <1>4. \A v \in Workers : Kept(op[v])
    BY DEF Inv, AllKept
  <1>5. AllKept'
    BY <1>1, <1>4 DEF AllKept, Kept
  <1> QED BY <1>1, <1>2, <1>3, <1>5

\* It keeps its place with respect to the lock.
LEMMA StaysPut ==
    ASSUME Inv, NEW w \in Workers, NEW r \in Request,
           op' = [op EXCEPT ![w] = r],
           UNCHANGED <<current, known, override, turn, readers>>,
           Prepared(r), Kept(r),
           \/ r.pc = op[w].pc /\ r.named = op[w].named
           \/ op[w].pc \in Outside /\ r.pc \in Outside
           \/ op[w].pc \in Reading /\ r.pc \in Reading
    PROVE  Inv'
  <1>1. /\ op' \in [Workers -> Request] /\ TableWhole' /\ AllKept'
        /\ \A v \in Workers : op'[v] = IF v = w THEN r ELSE op[v]
        /\ AllPrepared'
    BY OneMoves
  <1>2. TypeOK'
    BY <1>1 DEF Inv, TypeOK
  <1>3. LockMatches'
    BY <1>1 DEF Inv, LockMatches, Outside, Writing, Reading
  <1>4. OverrideMatches'
    BY <1>1 DEF Inv, OverrideMatches, Outside, Reading
  <1> QED BY <1>1, <1>2, <1>3, <1>4 DEF Inv

LEMMA BeginInv ==
    ASSUME Inv, NEW w \in Workers, op[w].pc = "idle",
           NEW kind \in {"http", "frame", "ws"}, NEW pc \in {"lock", "rlock"},
           NEW n \in Nodes \cup {None}, pc = "lock" => n \in Nodes,
           Begin(w, kind, pc, n),
           UNCHANGED <<current, known, override, turn, readers>>
    PROVE  Inv'
  <1> DEFINE r == [kind |-> kind, pc |-> pc, named |-> n, acted |-> {}]
  <1>1. r \in Request /\ Prepared(r) /\ Kept(r)
    BY DEF Request, Prepared, Kept
  <1>2. op' = [op EXCEPT ![w] = r] /\ op[w].pc \in Outside /\ r.pc \in Outside
    BY DEF Begin, Outside
  <1> HIDE DEF r
  <1> QED BY <1>1, <1>2, StaysPut

LEMMA StartInv ==
    ASSUME Inv, NEW w \in Workers, Start(w)
    PROVE  Inv'
  <1>1. CASE Frame(w)
    BY <1>1, BeginInv DEF Frame
  <1>2. ASSUME NEW n \in Nodes, Subscribe(w, n) PROVE Inv'
    BY <1>2, BeginInv DEF Subscribe
  <1>3. ASSUME NEW n \in Nodes \cup {None}, Arrive(w, n) PROVE Inv'
    <2>1. CASE n \in known \ Agents /\ n # current
      <3>1. n \in Nodes
        BY <2>1 DEF Inv, TypeOK
      <3> QED BY <1>3, <2>1, <3>1, BeginInv DEF Arrive
    <2>2. CASE ~(n \in known \ Agents /\ n # current)
      BY <1>3, <2>2, BeginInv DEF Arrive
    <2> QED BY <2>1, <2>2
  <1> QED BY <1>1, <1>2, <1>3 DEF Start

\* Go's lock: one announces itself, one enters when the readers have left.
LEMMA AnnounceInv ==
    ASSUME Inv, NEW w \in Workers, Announce(w)
    PROVE  Inv'
  <1> DEFINE r == [op[w] EXCEPT !.pc = "announced"]
  <1>1. op[w] \in Request /\ op[w].pc = "lock" /\ Prepared(op[w])
    BY DEF Inv, AllPrepared, TypeOK, Announce
  <1>2. /\ r \in Request /\ Prepared(r) /\ Kept(r) /\ r.pc = "announced"
        /\ op' = [op EXCEPT ![w] = r]
    BY <1>1 DEF Request, Prepared, Kept, Announce, Goto
  <1> HIDE DEF r
  <1>3. /\ op' \in [Workers -> Request] /\ TableWhole' /\ AllKept'
        /\ \A v \in Workers : op'[v] = IF v = w THEN r ELSE op[v]
        /\ AllPrepared'
    BY <1>2, OneMoves DEF Announce
  <1>4. TypeOK'
    BY <1>3 DEF Inv, TypeOK, Announce
  <1>5. LockMatches'
    BY <1>1, <1>2, <1>3, ScopeAssumption
       DEF Inv, LockMatches, Announce, Writing, Reading
  <1>6. OverrideMatches'
    BY <1>1, <1>2, <1>3 DEF Inv, OverrideMatches, Announce
  <1> QED BY <1>3, <1>4, <1>5, <1>6 DEF Inv

LEMMA EnterWriteInv ==
    ASSUME Inv, NEW w \in Workers, EnterWrite(w)
    PROVE  Inv'
  <1> DEFINE r == [op[w] EXCEPT !.pc = "write"]
  <1>1. op[w] \in Request /\ op[w].pc = "announced" /\ Prepared(op[w])
    BY DEF Inv, AllPrepared, TypeOK, EnterWrite
  <1>2. /\ r \in Request /\ Prepared(r) /\ Kept(r) /\ r.pc = "write"
        /\ r.named = op[w].named /\ r.named \in Nodes
        /\ op' = [op EXCEPT ![w] = r]
    BY <1>1 DEF Request, Prepared, Kept, EnterWrite, Goto
  <1> HIDE DEF r
  <1>3. /\ op' \in [Workers -> Request] /\ TableWhole' /\ AllKept'
        /\ \A v \in Workers : op'[v] = IF v = w THEN r ELSE op[v]
        /\ AllPrepared'
    BY <1>2, OneMoves DEF EnterWrite
  <1>4. TypeOK'
    BY <1>2, <1>3 DEF Inv, TypeOK, EnterWrite
  <1>5. \A v \in Workers : v # w => op[v].pc # "write"
    BY <1>1 DEF Inv, LockMatches, Writing
  <1>6. LockMatches'
    BY <1>1, <1>2, <1>3 DEF Inv, LockMatches, EnterWrite, Writing, Reading
  <1>7. OverrideMatches'
    BY <1>2, <1>3, <1>5 DEF OverrideMatches, EnterWrite
  <1> QED BY <1>3, <1>4, <1>6, <1>7 DEF Inv

LEMMA InsideTyped ==
    ASSUME Inv, NEW w \in Workers, op[w].pc \in {"rlock", "waiting"}
    PROVE  /\ Inside(op[w]) \in Request /\ Inside(op[w]).pc \in {"dispatch", "read"}
           /\ Prepared(Inside(op[w])) /\ Kept(Inside(op[w]))
  <1>1. op[w] \in Request /\ Prepared(op[w]) /\ current \in Nodes
    BY DEF Inv, AllPrepared, TypeOK
  <1> QED BY <1>1 DEF Inside, Request, Prepared, Kept

LEMMA EnterReadInv ==
    ASSUME Inv, NEW w \in Workers, EnterRead(w)
    PROVE  Inv'
  <1>1. op[w] \in Request /\ op[w].pc = "rlock" /\ Prepared(op[w])
    BY DEF Inv, AllPrepared, TypeOK, EnterRead
  <1>2. CASE turn # None
    <2> DEFINE r == [op[w] EXCEPT !.pc = "waiting"]
    <2>1. /\ r \in Request /\ Prepared(r) /\ Kept(r)
          /\ r.pc \in Outside /\ op[w].pc \in Outside
          /\ op' = [op EXCEPT ![w] = r]
      BY <1>1, <1>2 DEF Request, Prepared, Kept, Outside, EnterRead, Goto
    <2> HIDE DEF r
    <2> QED BY <1>2, <2>1, StaysPut DEF EnterRead
  <1>3. CASE turn = None
    <2> DEFINE r == Inside(op[w])
    <2>1. r \in Request /\ r.pc \in {"dispatch", "read"} /\ Prepared(r) /\ Kept(r)
      BY <1>1, InsideTyped
    <2>2. op' = [op EXCEPT ![w] = r] /\ readers' = readers \cup {w}
      BY <1>3 DEF EnterRead
    <2> HIDE DEF r
    <2>3. /\ op' \in [Workers -> Request] /\ TableWhole' /\ AllKept'
          /\ \A v \in Workers : op'[v] = IF v = w THEN r ELSE op[v]
          /\ AllPrepared'
      BY <2>1, <2>2, OneMoves DEF EnterRead
    <2>4. TypeOK'
      BY <2>2, <2>3 DEF Inv, TypeOK, EnterRead
    <2>5. \A v \in Workers : op[v].pc \notin Writing
      BY <1>3, ScopeAssumption DEF Inv, LockMatches
    <2>6. LockMatches'
      BY <1>1, <2>1, <2>2, <2>3, <2>5 DEF Inv, LockMatches, EnterRead, Writing, Reading
    <2>7. OverrideMatches'
      BY <1>1, <2>1, <2>3 DEF Inv, OverrideMatches, EnterRead
    <2> QED BY <2>3, <2>4, <2>6, <2>7 DEF Inv
  <1> QED BY <1>2, <1>3

LEMMA LeaveReadInv ==
    ASSUME Inv, NEW w \in Workers, LeaveRead(w)
    PROVE  Inv'
  <1>1. Idle \in Request /\ Prepared(Idle) /\ Kept(Idle) /\ Idle.pc = "idle"
    BY IdleTyped DEF Prepared, Kept
  <1>2. op[w].pc \in Reading /\ op' = [op EXCEPT ![w] = Idle] /\ readers' = readers \ {w}
    BY DEF LeaveRead, Reading
  <1>3. /\ op' \in [Workers -> Request] /\ TableWhole' /\ AllKept'
        /\ \A v \in Workers : op'[v] = IF v = w THEN Idle ELSE op[v]
        /\ AllPrepared'
    BY <1>1, <1>2, OneMoves DEF LeaveRead
  <1>4. TypeOK'
    BY <1>2, <1>3 DEF Inv, TypeOK, LeaveRead
  <1>5. LockMatches'
    BY <1>1, <1>2, <1>3 DEF Inv, LockMatches, LeaveRead, Writing, Reading
  <1>6. OverrideMatches'
    BY <1>1, <1>2, <1>3 DEF Inv, OverrideMatches, LeaveRead, Reading
  <1> QED BY <1>3, <1>4, <1>5, <1>6 DEF Inv

LEMMA AfterTyped ==
    ASSUME Inv, NEW w \in Workers, op[w].pc = "write", NEW r \in After(w)
    PROVE  r \in Request /\ Prepared(r) /\ Kept(r) /\ r.pc \in {"idle", "lock"}
  <1>1. Idle \in Request /\ Prepared(Idle) /\ Kept(Idle) /\ Idle.pc = "idle"
    BY IdleTyped DEF Prepared, Kept
  <1>2. op[w] \in Request /\ Prepared(op[w])
    BY DEF Inv, AllPrepared, TypeOK
  <1>3. CASE r = [op[w] EXCEPT !.pc = "lock", !.acted = {}]
    BY <1>2, <1>3 DEF Request, Prepared, Kept
  <1> QED BY <1>1, <1>3 DEF After

\* The writer leaves and those that waited enter.
LEMMA LeaveWriteInv ==
    ASSUME Inv, NEW w \in Workers, LeaveWrite(w)
    PROVE  Inv'
  <1>1. PICK r \in After(w) :
          op' = [v \in Workers |-> IF v = w THEN r
                                   ELSE IF v \in Waiting THEN Inside(op[v])
                                   ELSE op[v]]
    BY DEF LeaveWrite
  <1>2. op[w].pc = "write" /\ turn = w /\ readers = {}
    BY DEF Inv, LockMatches, LeaveWrite, Writing
  <1>3. r \in Request /\ Prepared(r) /\ Kept(r) /\ r.pc \in {"idle", "lock"}
    BY <1>2, AfterTyped
  <1>4. \A v \in Waiting : /\ v \in Workers /\ op[v].pc = "waiting"
                           /\ Inside(op[v]) \in Request
                           /\ Inside(op[v]).pc \in {"dispatch", "read"}
                           /\ Prepared(Inside(op[v])) /\ Kept(Inside(op[v]))
    BY InsideTyped DEF Waiting
  <1>5. \A v \in Workers : op[v] \in Request /\ Prepared(op[v]) /\ Kept(op[v])
    BY DEF Inv, AllKept, AllPrepared, TypeOK
  <1>6. \A v \in Workers : op'[v] = IF v = w THEN r
                                    ELSE IF v \in Waiting THEN Inside(op[v]) ELSE op[v]
    BY <1>1
  <1>7. \A v \in Workers : op'[v] \in Request /\ Prepared(op'[v]) /\ Kept(op'[v])
    BY <1>3, <1>4, <1>5, <1>6
  <1>8. AllPrepared' /\ AllKept'
    BY <1>7 DEF LeaveWrite, AllPrepared, Prepared, AllKept, Kept
  <1>9. TypeOK'
    <2>1. op' \in [Workers -> Request]
      BY <1>1, <1>7
    <2>2. readers' \subseteq Workers
      BY DEF LeaveWrite, Waiting
    <2> QED BY <2>1, <2>2 DEF Inv, TypeOK, LeaveWrite, Restored
  <1>10. \A v \in Workers : v # w => op[v].pc \notin Writing
    BY <1>2 DEF Inv, LockMatches
  <1>11. \A v \in Workers : op[v].pc \notin Reading
    BY <1>2 DEF Inv, LockMatches
  <1>12. \A v \in Workers : op'[v].pc \notin Writing
    BY <1>3, <1>4, <1>6, <1>10 DEF Writing
  <1>13. \A v \in Workers : op'[v].pc \in Reading <=> v \in Waiting
    BY <1>2, <1>3, <1>4, <1>6, <1>11 DEF Reading, Waiting
  <1>14. LockMatches'
    BY <1>12, <1>13, ScopeAssumption DEF LeaveWrite, LockMatches, Writing
  <1>15. OverrideMatches'
    BY <1>12 DEF LeaveWrite, Restored, OverrideMatches, Writing
  <1>16. TableWhole'
    BY DEF Inv, TableWhole, LeaveWrite
  <1> QED BY <1>8, <1>9, <1>14, <1>15, <1>16 DEF Inv

-----------------------------------------------------------------------------
(* Inside. *)

\* A request for a node with an agent goes to the node it named or to the one that
\* is current, never to an override.
LEMMA DispatchInv ==
    ASSUME Inv, NEW w \in Workers, Dispatch(w)
    PROVE  Inv'
  <1>1. op[w] \in Request /\ op[w].pc = "dispatch" /\ Prepared(op[w]) /\ current \in Nodes
    BY DEF Inv, AllPrepared, TypeOK, Dispatch
  <1>2. CASE /\ RequestNode(w) \in Agents
             /\ op' = [op EXCEPT ![w].pc = "proxied", ![w].acted = {RequestNode(w)}]
    <2> DEFINE n == RequestNode(w)
               r == [op[w] EXCEPT !.pc = "proxied", !.acted = {n}]
    <2>2. n \in Agents /\ n \in Nodes /\ n # Local
      BY <1>2, ScopeAssumption
    <2> HIDE DEF n
    <2>5. /\ r \in Request /\ r.pc = "proxied" /\ r.acted = {n}
          /\ r.named = op[w].named
      BY <1>1, <2>2 DEF Request
    <2>6. Prepared(r) /\ Kept(r)
      BY <2>2, <2>5 DEF Prepared, Kept
    <2>7. op' = [op EXCEPT ![w] = r]
      BY <1>2 DEF n
    <2> HIDE DEF r
    <2> QED BY <1>1, <2>5, <2>6, <2>7, StaysPut DEF Dispatch, Reading
  <1>3. CASE op' = [op EXCEPT ![w].pc = "read", ![w].named = None]
    <2> DEFINE r == [op[w] EXCEPT !.pc = "read", !.named = None]
    <2>1. /\ r \in Request /\ r.pc = "read" /\ Prepared(r) /\ Kept(r)
          /\ op' = [op EXCEPT ![w] = r]
      BY <1>1, <1>3 DEF Request, Prepared, Kept
    <2> HIDE DEF r
    <2> QED BY <1>1, <2>1, StaysPut DEF Dispatch, Reading
  <1> QED BY <1>2, <1>3 DEF Dispatch

LEMMA HostOpInv ==
    ASSUME Inv, NEW w \in Workers, HostOp(w)
    PROVE  Inv'
  <1> DEFINE n == opsNode
             r == [op[w] EXCEPT !.acted = @ \cup {n}]
  <1>1. op[w] \in Request /\ op[w].pc \in {"read", "write"} /\ Prepared(op[w]) /\ Kept(op[w])
    BY DEF Inv, AllKept, AllPrepared, TypeOK, HostOp
  <1>2. n \in Nodes
    BY OpsNodeTyped
  <1>3. op[w].pc = "read" => n = current
    BY ReaderSeesCurrent DEF Reading
  <1>4. op[w].pc = "write" => n = InTable(op[w].named)
    BY WriterSeesNamed
  <1> HIDE DEF n
  <1>5. /\ r \in Request /\ r.pc = op[w].pc /\ r.acted = op[w].acted \cup {n}
        /\ r.named = op[w].named
    BY <1>1, <1>2 DEF Request
  <1>6. Prepared(r)
    BY <1>1, <1>5 DEF Prepared
  <1>7. Kept(r)
    BY <1>1, <1>3, <1>4, <1>5 DEF Kept, Prepared, InTable
  <1>8. op' = [op EXCEPT ![w] = r]
    BY DEF HostOp, n
  <1> HIDE DEF r
  <1> QED BY <1>5, <1>6, <1>7, <1>8, StaysPut DEF HostOp

\* The node table changes under everyone who is inside.
LEMMA TableChanges ==
    ASSUME Inv, NEW n \in Nodes, n \in known', Local \in known', known' \subseteq known,
           current' = n, UNCHANGED <<override, turn, readers, op>>
    PROVE  Inv'
  <1>1. TypeOK' /\ TableWhole'
    BY DEF Inv, TypeOK, TableWhole
  <1>2. LockMatches' /\ OverrideMatches' /\ AllPrepared'
    BY DEF Inv, LockMatches, OverrideMatches, AllPrepared, Prepared
  <1>3. AllKept'
    <2> SUFFICES ASSUME NEW v \in Workers PROVE Kept(op[v])'
      BY DEF AllKept
    <2>1. Kept(op[v])
      BY DEF Inv, AllKept
    <2> QED BY <2>1 DEF Kept
  <1> QED BY <1>1, <1>2, <1>3 DEF Inv

LEMMA WorkInv ==
    ASSUME Inv, NEW w \in Workers, Work(w)
    PROVE  Inv'
  <1>1. CASE HostOp(w)
    BY <1>1, HostOpInv
  <1>2. ASSUME NEW n \in Nodes, SetCurrent(w, n) PROVE Inv'
    BY <1>2, TableChanges DEF SetCurrent, Inv, TableWhole
  <1>3. ASSUME NEW n \in Nodes, DeleteNode(w, n) PROVE Inv'
    <2>1. Fallback(n) \in known \ {n} /\ Fallback(n) \in Nodes /\ Local \in known \ {n}
      BY <1>3, ScopeAssumption DEF DeleteNode, Fallback, Inv, TypeOK, TableWhole
    <2> QED BY <1>3, <2>1, TableChanges DEF DeleteNode
  <1> QED BY <1>1, <1>2, <1>3 DEF Work

LEMMA NextInv == Inv /\ [Next]_vars => Inv'
  <1> SUFFICES ASSUME Inv, [Next]_vars PROVE Inv'
    OBVIOUS
  <1>1. CASE UNCHANGED vars
    BY <1>1 DEF vars, Inv, TypeOK, LockMatches, OverrideMatches, TableWhole,
                AllPrepared, Prepared, AllKept, Kept
  <1>2. ASSUME NEW w \in Workers,
               \/ Start(w) \/ Work(w) \/ Leave(w)
               \/ Announce(w) \/ EnterWrite(w) \/ EnterRead(w) \/ Dispatch(w)
        PROVE  Inv'
    BY <1>2, StartInv, WorkInv, LeaveReadInv, LeaveWriteInv, AnnounceInv,
       EnterWriteInv, EnterReadInv, DispatchInv DEF Leave
  <1> QED BY <1>1, <1>2 DEF Next

LEMMA SpecInv == Spec => []Inv
  BY InitInv, NextInv, PTL DEF Spec

\* Lock, override, node table and requests stay well formed.
THEOREM TypeCorrect == Spec => []TypeOK
  <1>1. Inv => TypeOK
    BY DEF Inv
  <1> QED BY <1>1, SpecInv, PTL

\* No request ever acts on the node that another one's X-Graw-Node named, however
\* many run, name nodes, move the current node and delete nodes at once
\* (withNodeScope, readNodeScope).
THEOREM ScopesDoNotMix == Spec => []NoCrosstalk
  <1>1. Inv => NoCrosstalk
    <2> SUFFICES ASSUME Inv, NEW w \in Workers
                 PROVE  /\ Kept(op[w])
                        /\ op[w].pc \in Reading => override = None
      BY DEF NoCrosstalk, Kept, Reading
    <2> QED BY ReaderSeesCurrent DEF Inv, AllKept
  <1> QED BY <1>1, SpecInv, PTL

-----------------------------------------------------------------------------
(* One override and a lock implement a node of its own for every request     *)
(* (OwnNode).                                                                *)

LEMMA InitRefines == Init => PerRequest!Init
  <1> SUFFICES ASSUME Init PROVE PerRequest!Init
    OBVIOUS
  <1>1. \A w \in Workers : op[w] = Idle
    BY DEF Init
  <1>2. ModeOf(Idle) = "out" /\ NamedBy(Idle) = None /\ Idle.acted = {}
    BY DEF Idle, ModeOf, NamedBy
  <1> QED BY <1>1, <1>2 DEF Init, PerRequest!Init, Modes, Names, Acts

\* One goroutine moves to r: what OwnNode sees of it.
LEMMA OneSeen ==
    ASSUME Inv, NEW w \in Workers, NEW r \in Request, op' = [op EXCEPT ![w] = r]
    PROVE  /\ \A v \in Workers : Modes'[v] = IF v = w THEN ModeOf(r) ELSE Modes[v]
           /\ \A v \in Workers : Names'[v] = IF v = w THEN NamedBy(r) ELSE Names[v]
           /\ \A v \in Workers : Acts'[v] = IF v = w THEN r.acted ELSE Acts[v]
  <1>1. \A v \in Workers : op'[v] = IF v = w THEN r ELSE op[v]
    BY DEF Inv, TypeOK
  <1>2. \A v \in Workers : (v = w => op'[v] = r) /\ (v # w => op'[v] = op[v])
    BY <1>1
  <1>3. \A v \in Workers : Modes'[v] = IF v = w THEN ModeOf(r) ELSE Modes[v]
    BY <1>2 DEF Modes, ModeOf
  <1>4. \A v \in Workers : Names'[v] = IF v = w THEN NamedBy(r) ELSE Names[v]
    BY <1>2 DEF Names, NamedBy, ModeOf
  <1>5. \A v \in Workers : Acts'[v] = IF v = w THEN r.acted ELSE Acts[v]
    BY <1>2 DEF Acts
  <1> QED BY <1>3, <1>4, <1>5

\* Functions of goroutines that agree everywhere are equal.
LEMMA Pointwise ==
    /\ \A m : \A w \in Workers : (\A v \in Workers : Modes'[v] = IF v = w THEN m ELSE Modes[v])
                               => Modes' = [Modes EXCEPT ![w] = m]
    /\ \A n : \A w \in Workers : (\A v \in Workers : Names'[v] = IF v = w THEN n ELSE Names[v])
                               => Names' = [Names EXCEPT ![w] = n]
    /\ \A a : \A w \in Workers : (\A v \in Workers : Acts'[v] = IF v = w THEN a ELSE Acts[v])
                               => Acts' = [Acts EXCEPT ![w] = a]
  BY DEF Modes, Names, Acts, ModeOf, NamedBy

LEMMA Seen ==
    ASSUME NEW w \in Workers
    PROVE  Modes[w] = ModeOf(op[w]) /\ Names[w] = NamedBy(op[w]) /\ Acts[w] = op[w].acted
  BY DEF Modes, Names, Acts

\* Outside the scope nothing is seen of a goroutine.
LEMMA UnseenRefines ==
    ASSUME Inv, NEW w \in Workers, NEW r \in Request, op' = [op EXCEPT ![w] = r],
           op[w].pc \in Outside \cup {"announced"}, r.pc \in Outside \cup {"announced"},
           r.acted = {}, UNCHANGED <<current, known>>
    PROVE  UNCHANGED PerRequest!vars
  <1>1. op[w].acted = {}
    BY DEF Inv, AllPrepared, Prepared, Outside
  <1>2. /\ ModeOf(op[w]) = "out" /\ ModeOf(r) = "out"
        /\ NamedBy(op[w]) = None /\ NamedBy(r) = None
    BY DEF ModeOf, NamedBy, Outside
  <1>3. Modes' = Modes /\ Names' = Names /\ Acts' = Acts
    <2>1. \A v \in Workers : op'[v] = IF v = w THEN r ELSE op[v]
      BY DEF Inv, TypeOK
    <2> QED BY <1>1, <1>2, <2>1 DEF Modes, Names, Acts
  <1> QED BY <1>3 DEF PerRequest!vars

LEMMA StartRefines ==
    ASSUME Inv, NEW w \in Workers, Start(w)
    PROVE  UNCHANGED PerRequest!vars
  <1>1. PICK kind \in {"http", "frame", "ws"}, pc \in {"lock", "rlock"}, n \in Nodes \cup {None} :
           Begin(w, kind, pc, n)
    BY DEF Start, Frame, Subscribe, Arrive
  <1>2. op[w].pc = "idle" /\ UNCHANGED <<current, known>>
    BY DEF Start, Frame, Subscribe, Arrive
  <1> DEFINE r == [kind |-> kind, pc |-> pc, named |-> n, acted |-> {}]
  <1>3. r \in Request /\ r.pc \in Outside /\ r.acted = {}
    BY DEF Request, Outside
  <1>4. op' = [op EXCEPT ![w] = r]
    BY <1>1 DEF Begin
  <1> HIDE DEF r
  <1> QED BY <1>2, <1>3, <1>4, UnseenRefines DEF Outside

LEMMA AnnounceRefines ==
    ASSUME Inv, NEW w \in Workers, Announce(w)
    PROVE  UNCHANGED PerRequest!vars
  <1> DEFINE r == [op[w] EXCEPT !.pc = "announced"]
  <1>1. op[w] \in Request /\ op[w].pc = "lock" /\ op[w].acted = {}
    BY DEF Inv, AllPrepared, Prepared, TypeOK, Announce
  <1>2. r \in Request /\ r.pc = "announced" /\ r.acted = {} /\ op' = [op EXCEPT ![w] = r]
    BY <1>1 DEF Request, Announce, Goto
  <1> HIDE DEF r
  <1> QED BY <1>1, <1>2, UnseenRefines DEF Outside, Announce

LEMMA EnterWriteRefines ==
    ASSUME Inv, NEW w \in Workers, EnterWrite(w)
    PROVE  PerRequest!EnterAlone(w)
  <1> DEFINE r == [op[w] EXCEPT !.pc = "write"]
  <1>1. op[w] \in Request /\ op[w].pc = "announced" /\ op[w].acted = {} /\ op[w].named \in Nodes
    BY DEF Inv, AllPrepared, Prepared, TypeOK, EnterWrite
  <1>2. /\ r \in Request /\ r.pc = "write" /\ r.acted = {} /\ r.named = op[w].named
        /\ op' = [op EXCEPT ![w] = r]
    BY <1>1 DEF Request, EnterWrite, Goto
  <1> HIDE DEF r
  <1>3. ModeOf(r) = "alone" /\ NamedBy(r) = op[w].named
    BY <1>2 DEF ModeOf, NamedBy
  <1>4. /\ \A v \in Workers : Modes'[v] = IF v = w THEN "alone" ELSE Modes[v]
        /\ \A v \in Workers : Names'[v] = IF v = w THEN op[w].named ELSE Names[v]
        /\ \A v \in Workers : Acts'[v] = IF v = w THEN {} ELSE Acts[v]
    BY <1>2, <1>3, OneSeen
  <1>4a. /\ Modes' = [Modes EXCEPT ![w] = "alone"]
         /\ Names' = [Names EXCEPT ![w] = op[w].named]
         /\ Acts' = [Acts EXCEPT ![w] = {}]
    BY <1>4, Pointwise
  <1>5. Acts' = Acts
    BY <1>1, <1>4a DEF Acts
  <1>6. \A v \in Workers : op[v].pc \notin Reading /\ op[v].pc # "write"
    <2>1. \A v \in Workers : op[v].pc \notin Reading
      BY DEF Inv, LockMatches, EnterWrite
    <2>2. \A v \in Workers : op[v].pc # "write"
      BY <1>1 DEF Inv, LockMatches, Writing
    <2> QED BY <2>1, <2>2
  <1>7. \A v \in Workers : Modes[v] = "out"
    BY <1>6 DEF Modes, ModeOf, Reading
  <1> QED BY <1>1, <1>4a, <1>5, <1>7 DEF PerRequest!EnterAlone, EnterWrite

\* With nobody's turn to write, nobody runs alone.
LEMMA NobodyAlone ==
    ASSUME Inv, \A v \in Workers : op[v].pc # "write"
    PROVE  \A v \in Workers : Modes[v] # "alone"
  BY DEF Modes, ModeOf

LEMMA EnterReadRefines ==
    ASSUME Inv, NEW w \in Workers, EnterRead(w)
    PROVE  PerRequest!EnterBeside(w) \/ UNCHANGED PerRequest!vars
  <1>1. op[w] \in Request /\ op[w].pc = "rlock" /\ op[w].acted = {} /\ op[w].named \in Nodes \cup {None}
    BY DEF Inv, AllPrepared, Prepared, TypeOK, EnterRead, Request
  <1>2. CASE turn # None
    <2> DEFINE r == [op[w] EXCEPT !.pc = "waiting"]
    <2>1. r \in Request /\ r.pc = "waiting" /\ r.acted = {} /\ op' = [op EXCEPT ![w] = r]
      BY <1>1, <1>2 DEF Request, EnterRead, Goto
    <2> HIDE DEF r
    <2> QED BY <1>1, <2>1, UnseenRefines DEF Outside, EnterRead
  <1>3. CASE turn = None
    <2> DEFINE r == Inside(op[w])
    <2>1. /\ r \in Request /\ r.pc \in {"dispatch", "read"} /\ r.acted = {}
          /\ r.named = op[w].named
      BY <1>1 DEF Inside, Request
    <2>2. op' = [op EXCEPT ![w] = r]
      BY <1>3 DEF EnterRead
    <2> HIDE DEF r
    <2>3. ModeOf(r) = "beside" /\ NamedBy(r) = op[w].named
      BY <2>1 DEF ModeOf, NamedBy
    <2>4. /\ \A v \in Workers : Modes'[v] = IF v = w THEN "beside" ELSE Modes[v]
          /\ \A v \in Workers : Names'[v] = IF v = w THEN op[w].named ELSE Names[v]
          /\ \A v \in Workers : Acts'[v] = IF v = w THEN {} ELSE Acts[v]
      BY <2>1, <2>2, <2>3, OneSeen
    <2>4a. /\ Modes' = [Modes EXCEPT ![w] = "beside"]
           /\ Names' = [Names EXCEPT ![w] = op[w].named]
           /\ Acts' = [Acts EXCEPT ![w] = {}]
      BY <2>4, Pointwise
    <2>5. Acts' = Acts /\ Modes[w] = "out"
      BY <1>1, <2>4a DEF Acts, Modes, ModeOf
    <2>6. \A v \in Workers : op[v].pc # "write"
      BY <1>3, ScopeAssumption DEF Inv, LockMatches, Writing
    <2> QED BY <1>1, <2>4a, <2>5, <2>6, NobodyAlone DEF PerRequest!EnterBeside, EnterRead
  <1> QED BY <1>2, <1>3

LEMMA LeaveReadRefines ==
    ASSUME Inv, NEW w \in Workers, LeaveRead(w)
    PROVE  PerRequest!Leave(w)
  <1>1. Idle \in Request /\ ModeOf(Idle) = "out" /\ NamedBy(Idle) = None /\ Idle.acted = {}
    BY DEF Idle, Request, ModeOf, NamedBy
  <1>2. /\ \A v \in Workers : Modes'[v] = IF v = w THEN "out" ELSE Modes[v]
        /\ \A v \in Workers : Names'[v] = IF v = w THEN None ELSE Names[v]
        /\ \A v \in Workers : Acts'[v] = IF v = w THEN {} ELSE Acts[v]
    BY <1>1, OneSeen DEF LeaveRead
  <1>3. /\ Modes' = [Modes EXCEPT ![w] = "out"]
        /\ Names' = [Names EXCEPT ![w] = None]
        /\ Acts' = [Acts EXCEPT ![w] = {}]
    BY <1>2, Pointwise
  <1>4. Modes[w] = "beside"
    BY DEF LeaveRead, Modes, ModeOf
  <1> QED BY <1>3, <1>4 DEF PerRequest!Leave, LeaveRead

LEMMA LeaveWriteRefines ==
    ASSUME Inv, NEW w \in Workers, LeaveWrite(w)
    PROVE  PerRequest!HandOver(w)
  <1>1. PICK r \in After(w) :
          op' = [v \in Workers |-> IF v = w THEN r
                                   ELSE IF v \in Waiting THEN Inside(op[v])
                                   ELSE op[v]]
    BY DEF LeaveWrite
  <1>2. op[w].pc = "write" /\ turn = w /\ readers = {}
    BY DEF Inv, LockMatches, LeaveWrite, Writing
  <1>3. r \in Request /\ r.pc \in {"idle", "lock"} /\ Prepared(r)
    BY <1>2, AfterTyped
  <1>4. \A v \in Workers : op[v] \in Request /\ Prepared(op[v])
    BY DEF Inv, AllPrepared, TypeOK
  <1>5. \A v \in Workers : op[v].pc \notin Reading /\ (v # w => op[v].pc # "write")
    BY <1>2 DEF Inv, LockMatches, Writing
  <1>6. ASSUME NEW v \in Workers
        PROVE  /\ ModeOf(op'[v]) = IF v # w /\ v \in Waiting THEN "beside" ELSE "out"
               /\ NamedBy(op'[v]) \in Nodes \cup {None}
               /\ op'[v].acted = {}
    <2>1. CASE v = w
      <3>1. op'[v] = r
        BY <1>1, <2>1
      <3>2. r.acted = {}
        BY <1>3 DEF Prepared
      <3> QED BY <1>3, <2>1, <3>1, <3>2 DEF ModeOf, NamedBy
    <2>2. CASE v # w /\ v \in Waiting
      <3>1. op'[v] = Inside(op[v]) /\ op[v].pc = "waiting"
        BY <1>1, <2>2 DEF Waiting
      <3>2. op[v].acted = {} /\ op[v].named \in Nodes \cup {None}
        BY <1>4, <3>1 DEF Prepared, Request
      <3>3. /\ Inside(op[v]).pc \in {"dispatch", "read"}
            /\ Inside(op[v]).acted = {} /\ Inside(op[v]).named = op[v].named
        BY <1>4, <3>2 DEF Inside, Request
      <3> QED BY <2>2, <3>1, <3>2, <3>3 DEF ModeOf, NamedBy
    <2>3. CASE v # w /\ v \notin Waiting
      <3>1. op'[v] = op[v]
        BY <1>1, <2>3
      <3>2. op[v].pc \notin {"write", "dispatch", "read", "proxied"} /\ op[v].acted = {}
        BY <1>4, <1>5, <2>3 DEF Prepared, Reading
      <3> QED BY <2>3, <3>1, <3>2 DEF ModeOf, NamedBy
    <2> QED BY <2>1, <2>2, <2>3
  <1>7. Modes' \in [Workers -> {"out", "beside"}] /\ Modes'[w] = "out"
    BY <1>6 DEF Modes
  <1>8. Names' \in [Workers -> Nodes \cup {None}] /\ Acts' = [v \in Workers |-> {}]
    BY <1>6 DEF Names, Acts
  <1>9. Modes[w] = "alone"
    BY <1>2 DEF Modes, ModeOf
  <1> QED BY <1>7, <1>8, <1>9 DEF PerRequest!HandOver, LeaveWrite

LEMMA DispatchRefines ==
    ASSUME Inv, NEW w \in Workers, Dispatch(w)
    PROVE  PerRequest!Forward(w) \/ PerRequest!Stay(w)
  <1>1. op[w] \in Request /\ op[w].pc = "dispatch" /\ op[w].acted = {}
    BY DEF Inv, AllPrepared, Prepared, TypeOK, Dispatch
  <1>2. Modes[w] = "beside" /\ Names[w] = op[w].named /\ Acts[w] = {}
    BY <1>1 DEF Modes, Names, Acts, ModeOf, NamedBy
  <1>3. CASE /\ RequestNode(w) \in Agents
             /\ op' = [op EXCEPT ![w].pc = "proxied", ![w].acted = {RequestNode(w)}]
    <2> DEFINE n == RequestNode(w)
               r == [op[w] EXCEPT !.pc = "proxied", !.acted = {n}]
    <2>1. override = None
      BY <1>1, ReaderSeesCurrent DEF Reading
    <2>2. n \in Agents /\ n \in Nodes /\ n # Local
      BY <1>3, ScopeAssumption
    <2>3. n \in {op[w].named, current} \cap known
      BY <2>1, <2>2 DEF RequestNode, InTable, resolvedNodeID
    <2> HIDE DEF n
    <2>4. r \in Request /\ r.pc = "proxied" /\ r.acted = {n} /\ r.named = op[w].named
      BY <1>1, <2>2 DEF Request
    <2>5. op' = [op EXCEPT ![w] = r]
      BY <1>3 DEF n
    <2> HIDE DEF r
    <2>6. ModeOf(r) = "beside" /\ NamedBy(r) = op[w].named
      BY <2>4 DEF ModeOf, NamedBy
    <2>7. /\ \A v \in Workers : Modes'[v] = IF v = w THEN "beside" ELSE Modes[v]
          /\ \A v \in Workers : Names'[v] = IF v = w THEN op[w].named ELSE Names[v]
          /\ \A v \in Workers : Acts'[v] = IF v = w THEN {n} ELSE Acts[v]
      BY <2>4, <2>5, <2>6, OneSeen
    <2>7a. /\ Modes' = [Modes EXCEPT ![w] = "beside"]
           /\ Names' = [Names EXCEPT ![w] = op[w].named]
           /\ Acts' = [Acts EXCEPT ![w] = {n}]
      BY <2>7, Pointwise
    <2>8. Modes' = Modes /\ Names' = Names
      BY <1>2, <2>7a DEF Modes, Names
    <2> QED BY <1>2, <2>2, <2>3, <2>7a, <2>8 DEF PerRequest!Forward, Dispatch
  <1>4. CASE op' = [op EXCEPT ![w].pc = "read", ![w].named = None]
    <2> DEFINE r == [op[w] EXCEPT !.pc = "read", !.named = None]
    <2>1. /\ r \in Request /\ r.pc = "read" /\ r.acted = {} /\ r.named = None
          /\ op' = [op EXCEPT ![w] = r]
      BY <1>1, <1>4 DEF Request
    <2> HIDE DEF r
    <2>2. ModeOf(r) = "beside" /\ NamedBy(r) = None
      BY <2>1 DEF ModeOf, NamedBy
    <2>3. /\ \A v \in Workers : Modes'[v] = IF v = w THEN "beside" ELSE Modes[v]
          /\ \A v \in Workers : Names'[v] = IF v = w THEN None ELSE Names[v]
          /\ \A v \in Workers : Acts'[v] = IF v = w THEN {} ELSE Acts[v]
      BY <2>1, <2>2, OneSeen
    <2>3a. /\ Modes' = [Modes EXCEPT ![w] = "beside"]
           /\ Names' = [Names EXCEPT ![w] = None]
           /\ Acts' = [Acts EXCEPT ![w] = {}]
      BY <2>3, Pointwise
    <2>4. Modes' = Modes /\ Acts' = Acts
      BY <1>2, <2>3a DEF Modes, Acts
    <2> QED BY <1>2, <2>3a, <2>4 DEF PerRequest!Stay, Dispatch
  <1> QED BY <1>3, <1>4 DEF Dispatch

\* The heart of it: the node that opsNode answers is the request's own.
LEMMA HostOpRefines ==
    ASSUME Inv, NEW w \in Workers, HostOp(w)
    PROVE  PerRequest!Act(w)
  <1> DEFINE n == opsNode
             r == [op[w] EXCEPT !.acted = @ \cup {n}]
  <1>1. op[w] \in Request /\ op[w].pc \in {"read", "write"}
    BY DEF Inv, TypeOK, HostOp
  <1>2. n \in Nodes
    BY OpsNodeTyped
  <1>3. op[w].pc = "read" => n = current /\ current \in known
    BY ReaderSeesCurrent DEF Reading, Inv, TableWhole
  <1>4. op[w].pc = "write" => n = IF op[w].named \in known THEN op[w].named ELSE Local
    BY WriterSeesNamed DEF InTable
  <1> HIDE DEF n
  <1>5. /\ r \in Request /\ r.pc = op[w].pc /\ r.acted = op[w].acted \cup {n}
        /\ r.named = op[w].named
    BY <1>1, <1>2 DEF Request
  <1>6. op' = [op EXCEPT ![w] = r]
    BY DEF HostOp, n
  <1> HIDE DEF r
  <1>7. ModeOf(r) = ModeOf(op[w]) /\ NamedBy(r) = NamedBy(op[w])
    BY <1>5 DEF ModeOf, NamedBy
  <1>8. /\ \A v \in Workers : Modes'[v] = IF v = w THEN Modes[w] ELSE Modes[v]
        /\ \A v \in Workers : Names'[v] = IF v = w THEN Names[w] ELSE Names[v]
        /\ \A v \in Workers : Acts'[v] = IF v = w THEN Acts[w] \cup {n} ELSE Acts[v]
    <2>1. /\ \A v \in Workers : Modes'[v] = IF v = w THEN ModeOf(r) ELSE Modes[v]
          /\ \A v \in Workers : Names'[v] = IF v = w THEN NamedBy(r) ELSE Names[v]
          /\ \A v \in Workers : Acts'[v] = IF v = w THEN r.acted ELSE Acts[v]
      BY <1>5, <1>6, OneSeen
    <2>2. Modes[w] = ModeOf(r) /\ Names[w] = NamedBy(r) /\ r.acted = Acts[w] \cup {n}
      BY <1>5, <1>7, Seen
    <2> QED BY <2>1, <2>2
  <1>8a. /\ Modes' = [Modes EXCEPT ![w] = Modes[w]]
         /\ Names' = [Names EXCEPT ![w] = Names[w]]
         /\ Acts' = [Acts EXCEPT ![w] = Acts[w] \cup {n}]
    BY <1>8, Pointwise
  <1>9. Modes' = Modes /\ Names' = Names
    BY <1>8a DEF Modes, Names
  <1>10. /\ Modes[w] = IF op[w].pc = "write" THEN "alone" ELSE "beside"
         /\ op[w].pc = "write" => Names[w] = op[w].named
    BY <1>1 DEF Modes, Names, ModeOf, NamedBy
  <1>11. n = PerRequest!NodeOf(w)
    BY <1>1, <1>3, <1>4, <1>10 DEF PerRequest!NodeOf
  <1> QED BY <1>1, <1>8a, <1>9, <1>10, <1>11 DEF PerRequest!Act, HostOp

LEMMA TableRefines ==
    ASSUME Inv, NEW w \in Workers, NEW n \in Nodes, SetCurrent(w, n) \/ DeleteNode(w, n)
    PROVE  PerRequest!SetCurrent(w) \/ PerRequest!Delete(w)
  <1>1. UNCHANGED <<Modes, Names, Acts>>
    BY DEF SetCurrent, DeleteNode, Modes, Names, Acts
  <1>2. Modes[w] # "out"
    BY DEF SetCurrent, DeleteNode, Handler, Modes, ModeOf
  <1>3. CASE SetCurrent(w, n)
    BY <1>1, <1>2, <1>3 DEF SetCurrent, PerRequest!SetCurrent
  <1>4. CASE DeleteNode(w, n)
    BY <1>1, <1>2, <1>4 DEF DeleteNode, Fallback, PerRequest!Delete
  <1> QED BY <1>3, <1>4

LEMMA NextRefines == Inv /\ [Next]_vars => [PerRequest!Next]_(PerRequest!vars)
  <1> SUFFICES ASSUME Inv, [Next]_vars PROVE [PerRequest!Next]_(PerRequest!vars)
    OBVIOUS
  <1>1. CASE UNCHANGED vars
    BY <1>1 DEF vars, PerRequest!vars, Modes, Names, Acts
  <1>2. ASSUME NEW w \in Workers, Start(w) \/ Announce(w)
        PROVE  UNCHANGED PerRequest!vars
    BY <1>2, StartRefines, AnnounceRefines
  <1>3. ASSUME NEW w \in Workers, Work(w) \/ Leave(w) \/ EnterWrite(w) \/ EnterRead(w) \/ Dispatch(w)
        PROVE  PerRequest!Next \/ UNCHANGED PerRequest!vars
    BY <1>3, HostOpRefines, TableRefines, LeaveReadRefines, LeaveWriteRefines,
       EnterWriteRefines, EnterReadRefines, DispatchRefines DEF Work, Leave, PerRequest!Next
  <1> QED BY <1>1, <1>2, <1>3 DEF Next

\* Every behaviour of the panel, with its one global override, is one in which each
\* request has a node of its own: no interleaving of scopes, subscriptions, frames,
\* changes of the current node and deletions can be told apart from that.
THEOREM OverrideIsInvisible == Spec => NodeIsOwn
  BY SpecInv, InitRefines, NextRefines, PTL DEF Spec, NodeIsOwn, PerRequest!Spec
=============================================================================
