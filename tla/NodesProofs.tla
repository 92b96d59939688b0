---------------------------- MODULE NodesProofs -----------------------------
(***************************************************************************)
(* Proofs about Nodes, for any number of nodes, keys, secrets, requests,   *)
(* saves and connections.                                                  *)
(***************************************************************************)
EXTENDS Nodes, TLAPS

-----------------------------------------------------------------------------
(* Typing.  A request that is about to save has its copy, one that is on its *)
(* way to a node has the node's record, one about to pool has its client.    *)

Saving == {"fill", "unpool", "save", "cache", "upsert:save", "upsert:cache"}
Reaching == {"probe", "connect", "insert", "token", "issue"}
Dropping == {"upsert:save", "upsert:cache", "drop old", "drop new", "drop tokens"}

Equipped(r) ==
    /\ r.pc \in Saving => r.copy \in Store
    /\ r.pc \in Reaching \cup Dropping => r.conf \in Conf
    /\ r.pc \in {"insert", "token"} => r.client \in Clients

Typed ==
    /\ TypeOK
    /\ \A w \in Workers : Equipped(op[w])

LEMMA IdleTyped == Idle \in Request /\ Equipped(Idle)
  BY DEF Idle, Request, Equipped, Saving, Reaching, Dropping

LEMMA InitTyped == Init => Typed
  <1> SUFFICES ASSUME Init PROVE Typed
    OBVIOUS
  <1>1. TypeOK
    <2>1. file \in Store
      BY DEF Init, SavedTables
    <2>2. saves \in 0 .. MaxSaves
      BY NodesAssumption DEF Init
    <2> QED BY <2>1, <2>2, IdleTyped DEF Init, TypeOK
  <1> QED BY <1>1, IdleTyped DEF Typed, Init

\* One request moves, the others stay.
LEMMA OneRequestTyped ==
    ASSUME Typed, NEW w \in Workers, NEW r \in Request, Equipped(r),
           op' = [op EXCEPT ![w] = r]
    PROVE  op' \in [Workers -> Request] /\ \A v \in Workers : Equipped(op'[v])
  <1>1. \A v \in Workers : op'[v] = IF v = w THEN r ELSE op[v]
    BY DEF Typed, TypeOK
  <1> QED BY <1>1 DEF Typed, TypeOK

LEMMA DoneTyped ==
    ASSUME Typed, NEW w \in Workers, Done(w)
    PROVE  op' \in [Workers -> Request] /\ \A v \in Workers : Equipped(op'[v])
  BY IdleTyped, OneRequestTyped DEF Done

LEMMA GotoTyped ==
    ASSUME Typed, NEW w \in Workers,
           NEW pc \in {"save", "cache", "upsert:cache", "drop old", "drop new",
                       "drop tokens", "connect", "token", "issue"},
           Goto(w, pc),
           pc \in Saving => op[w].copy \in Store,
           pc \in Reaching \cup Dropping => op[w].conf \in Conf,
           pc = "token" => op[w].client \in Clients
    PROVE  op' \in [Workers -> Request] /\ \A v \in Workers : Equipped(op'[v])
  <1> DEFINE r == [op[w] EXCEPT !.pc = pc]
  <1>1. op[w] \in Request
    BY DEF Typed, TypeOK
  <1>2. /\ r \in Request /\ r.pc = pc /\ r.conf = op[w].conf /\ r.copy = op[w].copy
        /\ r.client = op[w].client
    BY <1>1 DEF Request
  <1>3. op' = [op EXCEPT ![w] = r]
    BY DEF Goto
  <1>4. Equipped(r)
    BY <1>2 DEF Equipped
  <1> HIDE DEF r
  <1> QED BY <1>2, <1>3, <1>4, OneRequestTyped

-----------------------------------------------------------------------------
(* Every step keeps the types. *)

LEMMA StoreUpdates ==
    ASSUME NEW s \in Store, NEW n \in Ids, NEW c \in Conf
    PROVE  /\ [s EXCEPT !.nodes[n] = c] \in Store
           /\ Without(s, n) \in Store
           /\ [s EXCEPT !.current = n] \in Store
  BY NodesAssumption DEF Store, Without

\* Whatever a handler reads is a table.
LEMMA LoadedTyped ==
    ASSUME Typed, NEW s \in Loaded
    PROVE  s \in Store
  <1>1. Default \in Store
    BY NodesAssumption DEF Default, Store
  <1> QED BY <1>1 DEF Loaded, Typed, TypeOK

LEMMA UpsertTyped ==
    ASSUME Typed, NEW w \in Workers, NEW n \in Ids, NEW c \in Conf, Upsert(w, n, c)
    PROVE  Typed'
  <1>0. PICK s \in Loaded :
           op' = [op EXCEPT ![w] = [Idle EXCEPT !.pc = "upsert:save", !.conf = c,
                                                !.old = s.nodes[n],
                                                !.copy = [s EXCEPT !.nodes[n] = c]]]
    BY DEF Upsert
  <1> DEFINE r == [Idle EXCEPT !.pc = "upsert:save", !.conf = c, !.old = s.nodes[n],
                               !.copy = [s EXCEPT !.nodes[n] = c]]
  <1>1. [s EXCEPT !.nodes[n] = c] \in Store /\ s.nodes[n] \in Conf \cup {ThisHost, Absent}
    BY StoreUpdates, LoadedTyped DEF Store
  <1>2. r \in Request /\ Equipped(r)
    BY <1>1 DEF Idle, Request, Equipped, Saving, Reaching, Dropping
  <1>3. op' = [op EXCEPT ![w] = r]
    BY <1>0
  <1>4. op' \in [Workers -> Request] /\ \A v \in Workers : Equipped(op'[v])
    <2> HIDE DEF r
    <2> QED BY <1>2, <1>3, OneRequestTyped
  <1> QED BY <1>4 DEF Upsert, Typed, TypeOK, store, links

LEMMA DeleteTyped ==
    ASSUME Typed, NEW w \in Workers, NEW n \in Ids, Delete(w, n)
    PROVE  Typed'
  <1>0. PICK s \in Loaded :
           op' = [op EXCEPT ![w] = [Idle EXCEPT !.pc = "unpool", !.old = s.nodes[n],
                                                !.copy = Without(s, n)]]
    BY DEF Delete
  <1> DEFINE r == [Idle EXCEPT !.pc = "unpool", !.old = s.nodes[n],
                               !.copy = Without(s, n)]
  <1>1. s \in Store /\ s.nodes[n] \in Conf \cup {ThisHost, Absent}
    BY LoadedTyped DEF Store
  <1>2. Without(s, n) \in Store
    BY <1>1, NodesAssumption DEF Without, Store
  <1>3. r \in Request /\ Equipped(r)
    BY <1>1, <1>2 DEF Idle, Request, Equipped, Saving, Reaching, Dropping
  <1>4. op' = [op EXCEPT ![w] = r]
    BY <1>0
  <1>5. op' \in [Workers -> Request] /\ \A v \in Workers : Equipped(op'[v])
    <2> HIDE DEF r
    <2> QED BY <1>3, <1>4, OneRequestTyped
  <1> QED BY <1>5 DEF Delete, Typed, TypeOK, store, links

LEMMA SetCurrentTyped ==
    ASSUME Typed, NEW w \in Workers, NEW n \in Ids, SetCurrent(w, n)
    PROVE  Typed'
  <1>0. PICK f \in Loaded :
           \E t \in {[f EXCEPT !.current = n], f} :
              op' = [op EXCEPT ![w] = [Idle EXCEPT !.pc = "save", !.copy = t]]
    BY DEF SetCurrent
  <1>1. PICK s \in {[f EXCEPT !.current = n], f} :
           op' = [op EXCEPT ![w] = [Idle EXCEPT !.pc = "save", !.copy = s]]
    BY <1>0
  <1>2. s \in Store
    BY LoadedTyped DEF Store
  <1> DEFINE r == [Idle EXCEPT !.pc = "save", !.copy = s]
  <1>3. r \in Request /\ Equipped(r)
    BY <1>2 DEF Idle, Request, Equipped, Saving, Reaching, Dropping
  <1>4. op' \in [Workers -> Request] /\ \A v \in Workers : Equipped(op'[v])
    <2> HIDE DEF r
    <2> QED BY <1>1, <1>3, OneRequestTyped DEF r
  <1> QED BY <1>4 DEF SetCurrent, Typed, TypeOK, store, links

LEMMA SaveFileTyped ==
    ASSUME Typed, NEW w \in Workers, SaveFile(w)
    PROVE  Typed'
  <1>1. op[w].copy \in Store /\ (op[w].pc = "upsert:save" => op[w].conf \in Conf)
    BY DEF SaveFile, Typed, Equipped, Saving, Reaching, Dropping
  <1>2. saves' \in 0 .. MaxSaves
    BY NodesAssumption DEF SaveFile, Typed, TypeOK
  <1>3. op' \in [Workers -> Request] /\ \A v \in Workers : Equipped(op'[v])
    <2>1. CASE op[w].pc = "save"
      BY <1>1, <2>1, GotoTyped DEF SaveFile, Reaching, Dropping
    <2>2. CASE op[w].pc = "upsert:save"
      BY <1>1, <2>2, GotoTyped DEF SaveFile
    <2> QED BY <2>1, <2>2 DEF SaveFile
  <1> QED BY <1>1, <1>2, <1>3 DEF SaveFile, Typed, TypeOK, links

LEMMA SaveCacheTyped ==
    ASSUME Typed, NEW w \in Workers, SaveCache(w)
    PROVE  Typed'
  <1>1. op[w].copy \in Store /\ (op[w].pc = "upsert:cache" => op[w].conf \in Conf)
    BY DEF SaveCache, Typed, Equipped, Saving, Reaching, Dropping
  <1>2. op' \in [Workers -> Request] /\ \A v \in Workers : Equipped(op'[v])
    <2>1. CASE op[w].pc = "cache"
      BY <2>1, DoneTyped DEF SaveCache
    <2>2. CASE op[w].pc = "upsert:cache"
      BY <1>1, <2>2, GotoTyped DEF SaveCache, Saving
    <2> QED BY <2>1, <2>2 DEF SaveCache
  <1> QED BY <1>1, <1>2 DEF SaveCache, Typed, TypeOK, links

LEMMA CloseTyped ==
    ASSUME TypeOK, NEW k \in Keys
    PROVE  Close(k) \in [Clients -> {"none", "open", "dead", "closed"}]
  BY DEF TypeOK, Close

LEMMA DropTyped ==
    ASSUME TypeOK, NEW c, Drop(c)
    PROVE  /\ status' \in [Clients -> {"none", "open", "dead", "closed"}]
           /\ pool' \in [Keys -> Clients \cup {Absent}]
  <1>1. CASE c \in Conf
    <2>1. c.key \in Keys
      BY <1>1 DEF Conf
    <2> QED BY <1>1, <2>1, CloseTyped DEF Drop, TypeOK
  <1>2. CASE c \notin Conf
    BY <1>2 DEF Drop, TypeOK
  <1> QED BY <1>1, <1>2

LEMMA UnpoolTyped ==
    ASSUME Typed, NEW w \in Workers, Unpool(w) \/ DropOld(w) \/ DropNew(w)
    PROVE  Typed'
  <1>1. /\ status' \in [Clients -> {"none", "open", "dead", "closed"}]
        /\ pool' \in [Keys -> Clients \cup {Absent}]
    BY DropTyped DEF Unpool, DropOld, DropNew, Typed
  <1>2. op' \in [Workers -> Request] /\ \A v \in Workers : Equipped(op'[v])
    <2>1. CASE Unpool(w)
      BY <2>1, GotoTyped DEF Unpool, Typed, Equipped, Saving, Reaching, Dropping
    <2>2. CASE DropOld(w)
      BY <2>2, GotoTyped DEF DropOld, Typed, Equipped, Saving, Dropping
    <2>3. CASE DropNew(w)
      BY <2>3, GotoTyped DEF DropNew, Typed, Equipped, Saving, Dropping
    <2> QED BY <2>1, <2>2, <2>3
  <1> QED BY <1>1, <1>2 DEF Unpool, DropOld, DropNew, Typed, TypeOK, store

LEMMA DropTokensTyped ==
    ASSUME Typed, NEW w \in Workers, DropTokens(w)
    PROVE  Typed'
  <1>1. op' \in [Workers -> Request] /\ \A v \in Workers : Equipped(op'[v])
    BY DoneTyped DEF DropTokens
  <1>2. tokens' \in [Keys -> Secrets \cup {Absent}]
    BY DEF DropTokens, Typed, TypeOK
  <1> QED BY <1>1, <1>2 DEF DropTokens, Typed, TypeOK, store

LEMMA ResolveTyped ==
    ASSUME Typed, NEW w \in Workers, NEW s \in Store, Resolve(w, s)
    PROVE  op' \in [Workers -> Request] /\ \A v \in Workers : Equipped(op'[v])
  <1>1. CASE Done(w)
    BY <1>1, DoneTyped
  <1>2. ASSUME NEW n \in Ids, s.nodes[n] \in Conf,
               op' = [op EXCEPT ![w] = [Idle EXCEPT !.pc = "probe", !.conf = s.nodes[n]]]
        PROVE  op' \in [Workers -> Request] /\ \A v \in Workers : Equipped(op'[v])
    <2> DEFINE r == [Idle EXCEPT !.pc = "probe", !.conf = s.nodes[n]]
    <2>1. r \in Request /\ Equipped(r)
      BY <1>2 DEF Idle, Request, Equipped, Saving, Reaching, Dropping
    <2> QED BY <1>2, <2>1, OneRequestTyped
  <1> QED BY <1>1, <1>2 DEF Resolve

LEMMA LoadTyped ==
    ASSUME Typed, NEW w \in Workers, LoadCached(w) \/ LoadFresh(w) \/ FillCache(w)
    PROVE  Typed'
  <1>1. CASE LoadCached(w)
    <2>1. cache \in Store
      BY <1>1 DEF LoadCached, CacheUsable, Typed, TypeOK
    <2>2. op' \in [Workers -> Request] /\ \A v \in Workers : Equipped(op'[v])
      BY <1>1, <2>1, ResolveTyped DEF LoadCached
    <2> QED BY <1>1, <2>2 DEF LoadCached, Typed, TypeOK, store, links
  <1>2. CASE LoadFresh(w)
    <2>0. PICK s \in Loaded : op' = [op EXCEPT ![w] = [Idle EXCEPT !.pc = "fill", !.copy = s]]
      BY <1>2 DEF LoadFresh
    <2> DEFINE r == [Idle EXCEPT !.pc = "fill", !.copy = s]
    <2>1. r \in Request /\ Equipped(r)
      BY LoadedTyped DEF Idle, Request, Equipped, Saving, Reaching, Dropping
    <2>2. op' = [op EXCEPT ![w] = r]
      BY <2>0
    <2>3. op' \in [Workers -> Request] /\ \A v \in Workers : Equipped(op'[v])
      <3> HIDE DEF r
      <3> QED BY <2>1, <2>2, OneRequestTyped
    <2> QED BY <1>2, <2>3 DEF LoadFresh, Typed, TypeOK, store, links
  <1>3. CASE FillCache(w)
    <2>1. op[w].copy \in Store
      BY <1>3 DEF FillCache, Typed, Equipped, Saving
    <2>2. op' \in [Workers -> Request] /\ \A v \in Workers : Equipped(op'[v])
      BY <1>3, <2>1, ResolveTyped DEF FillCache
    <2> QED BY <1>3, <2>1, <2>2 DEF FillCache, Typed, TypeOK, links
  <1> QED BY <1>1, <1>2, <1>3

LEMMA ProbeTyped ==
    ASSUME Typed, NEW w \in Workers, Probe(w)
    PROVE  Typed'
  <1> DEFINE k == op[w].conf.key
  <1>1. op[w].conf \in Conf /\ k \in Keys /\ op[w] \in Request
    BY DEF Probe, Typed, TypeOK, Equipped, Reaching, Conf
  <1>2. CASE pool[k] # Absent /\ status[pool[k]] = "open"
    <2> DEFINE r == [op[w] EXCEPT !.pc = "token", !.client = pool[k]]
    <2>1. pool[k] \in Clients
      BY <1>1, <1>2 DEF Typed, TypeOK
    <2>2. /\ r \in Request /\ r.pc = "token" /\ r.conf = op[w].conf /\ r.client = pool[k]
      BY <1>1, <2>1 DEF Request
    <2>3. Equipped(r)
      BY <1>1, <2>1, <2>2 DEF Equipped, Saving
    <2>4. op' = [op EXCEPT ![w] = r]
      BY <1>2 DEF Probe
    <2>5. op' \in [Workers -> Request] /\ \A v \in Workers : Equipped(op'[v])
      <3> HIDE DEF r
      <3> QED BY <2>2, <2>3, <2>4, OneRequestTyped
    <2> QED BY <1>2, <2>5 DEF Probe, Typed, TypeOK, store
  <1>3. CASE ~(pool[k] # Absent /\ status[pool[k]] = "open")
    <2>1. op' \in [Workers -> Request] /\ \A v \in Workers : Equipped(op'[v])
      BY <1>1, <1>3, GotoTyped DEF Probe, Saving
    <2>2. /\ status' \in [Clients -> {"none", "open", "dead", "closed"}]
          /\ pool' \in [Keys -> Clients \cup {Absent}]
      BY <1>3, DropTyped DEF Probe, Typed
    <2> QED BY <2>1, <2>2 DEF Probe, Typed, TypeOK, store
  <1> QED BY <1>2, <1>3

LEMMA ConnectTyped ==
    ASSUME Typed, NEW w \in Workers, Connect(w)
    PROVE  Typed'
  <1>1. PICK c \in Clients :
           /\ clients' = [clients EXCEPT ![c] = op[w].conf]
           /\ status' = [status EXCEPT ![c] = "open"]
           /\ op' = [op EXCEPT ![w].pc = "insert", ![w].client = c]
    BY DEF Connect
  <1>2. op[w].conf \in Conf /\ op[w] \in Request
    BY DEF Connect, Typed, TypeOK, Equipped, Reaching
  <1> DEFINE r == [op[w] EXCEPT !.pc = "insert", !.client = c]
  <1>3. r \in Request /\ r.pc = "insert" /\ r.conf = op[w].conf /\ r.client = c
    BY <1>2 DEF Request
  <1>4. Equipped(r)
    BY <1>2, <1>3 DEF Equipped, Saving
  <1>5. op' = [op EXCEPT ![w] = r]
    BY <1>1
  <1>6. op' \in [Workers -> Request] /\ \A v \in Workers : Equipped(op'[v])
    <2> HIDE DEF r
    <2> QED BY <1>3, <1>4, <1>5, OneRequestTyped
  <1> QED BY <1>1, <1>2, <1>6 DEF Connect, Typed, TypeOK, store

LEMMA InsertTyped ==
    ASSUME Typed, NEW w \in Workers, Insert(w)
    PROVE  Typed'
  <1>1. /\ op[w].conf \in Conf /\ op[w].conf.key \in Keys /\ op[w].client \in Clients
    BY DEF Insert, Typed, Equipped, Reaching, Conf
  <1>2. op' \in [Workers -> Request] /\ \A v \in Workers : Equipped(op'[v])
    BY <1>1, GotoTyped DEF Insert, Saving
  <1>3. /\ status' \in [Clients -> {"none", "open", "dead", "closed"}]
        /\ pool' \in [Keys -> Clients \cup {Absent}]
    BY <1>1, CloseTyped DEF Insert, Typed, TypeOK
  <1> QED BY <1>2, <1>3 DEF Insert, Typed, TypeOK, store

LEMMA UseClientTyped ==
    ASSUME Typed, NEW w \in Workers, UseClient(w)
    PROVE  Typed'
  <1>1. op[w].conf \in Conf
    BY DEF UseClient, Typed, Equipped, Reaching
  <1>2. op' \in [Workers -> Request] /\ \A v \in Workers : Equipped(op'[v])
    BY <1>1, GotoTyped, DoneTyped DEF UseClient, Saving
  <1> QED BY <1>2 DEF UseClient, Typed, TypeOK, store, links

LEMMA StoreTokenTyped ==
    ASSUME Typed, NEW w \in Workers, StoreToken(w)
    PROVE  Typed'
  <1>1. op[w].conf.secret \in Secrets
    BY DEF StoreToken, Typed, Equipped, Reaching, Conf
  <1>2. op' \in [Workers -> Request] /\ \A v \in Workers : Equipped(op'[v])
    BY DoneTyped DEF StoreToken
  <1> QED BY <1>1, <1>2 DEF StoreToken, Typed, TypeOK, store

LEMMA FailTyped ==
    ASSUME Typed, NEW w \in Workers, SaveFails(w) \/ ConnectFails(w)
    PROVE  Typed'
  <1>1. op' \in [Workers -> Request] /\ \A v \in Workers : Equipped(op'[v])
    BY DoneTyped DEF SaveFails, ConnectFails
  <1> QED BY <1>1 DEF SaveFails, ConnectFails, Typed, TypeOK, store, links

LEMMA EnvironmentTyped ==
    ASSUME Typed,
           \/ TtlPasses
           \/ \E k \in Keys : TokenExpires(k)
           \/ \E c \in Clients : LinkFails(c)
    PROVE  Typed'
  BY DEF TtlPasses, TokenExpires, LinkFails, Typed, TypeOK, store, links

LEMMA NextTyped == Typed /\ [Next]_vars => Typed'
  <1> SUFFICES ASSUME Typed, [Next]_vars PROVE Typed'
    OBVIOUS
  <1>1. ASSUME NEW w \in Workers, Start(w) PROVE Typed'
    BY <1>1, LoadTyped, DeleteTyped, SetCurrentTyped, UpsertTyped DEF Start
  <1>2. ASSUME NEW w \in Workers, Write(w) PROVE Typed'
    BY <1>2, SaveFileTyped, FailTyped, SaveCacheTyped, UnpoolTyped, DropTokensTyped DEF Write
  <1>3. ASSUME NEW w \in Workers, Reach(w) PROVE Typed'
    BY <1>3, LoadTyped, ProbeTyped, ConnectTyped, FailTyped, InsertTyped, UseClientTyped,
       StoreTokenTyped DEF Reach
  <1>4. CASE UNCHANGED vars
    BY <1>4 DEF vars, store, links, Typed, TypeOK
  <1> QED BY <1>1, <1>2, <1>3, <1>4, EnvironmentTyped DEF Next

LEMMA SpecTyped == Spec => []Typed
  BY InitTyped, NextTyped, PTL DEF Spec

\* The node table, its cache, the pool, the tokens and the requests stay well formed.
THEOREM TypeCorrect == Spec => []TypeOK
  <1>1. Typed => TypeOK
    BY DEF Typed
  <1> QED BY <1>1, SpecTyped, PTL

-----------------------------------------------------------------------------
(* current names an existing node.  Inductive form: so does every copy of the *)
(* table that a request is about to save or to put in the cache, which is why *)
(* it does not matter whose save comes last.                                  *)

\* The local node is never deleted, so it is always there to fall back to.
Whole(s) == Sound(s) /\ s.nodes[Local] # Absent

AllWhole ==
    /\ Whole(file)
    /\ cache # Absent => Whole(cache)
    /\ \A w \in Workers : op[w].pc \in Saving => Whole(op[w].copy)

LEMMA InitWhole == Init => AllWhole
  BY NodesAssumption DEF Init, SavedTables, AllWhole, Whole, Sound, Idle, Saving

\* Changing one record to a record, moving current to an existing node, and
\* deleting a node other than the local one all keep a whole table whole.
LEMMA UpdateWhole ==
    ASSUME NEW s \in Store, Whole(s), NEW n \in Ids, NEW c \in Conf
    PROVE  Whole([s EXCEPT !.nodes[n] = c])
  <1>1. c # Absent
    BY NodesAssumption
  <1> QED BY <1>1 DEF Whole, Sound, Store

LEMMA WithoutWhole ==
    ASSUME NEW s \in Store, Whole(s), NEW n \in Ids, n # Local
    PROVE  Whole(Without(s, n))
  BY NodesAssumption DEF Whole, Sound, Store, Without

LEMMA MoveWhole ==
    ASSUME NEW s \in Store, Whole(s), NEW n \in Ids, s.nodes[n] # Absent
    PROVE  Whole([s EXCEPT !.current = n])
  BY DEF Whole, Sound, Store

\* A request that takes a whole copy, or none, endangers no table.
LEMMA CopyWhole ==
    ASSUME Typed, AllWhole, NEW w \in Workers, NEW r,
           op' = [op EXCEPT ![w] = r], r.pc \in Saving => Whole(r.copy),
           UNCHANGED <<file, cache>>
    PROVE  AllWhole'
  <1>1. \A v \in Workers : op'[v] = IF v = w THEN r ELSE op[v]
    BY DEF Typed, TypeOK
  <1> QED BY <1>1 DEF AllWhole, Whole, Sound

\* A request that keeps its copy and puts it on disk or in the cache, or neither.
LEMMA PassOnWhole ==
    ASSUME Typed, AllWhole, NEW w \in Workers,
           \/ Done(w)
           \/ \E pc : Goto(w, pc) /\ (pc \in Saving => op[w].pc \in Saving),
           file' \in {file} \cup (IF op[w].pc \in Saving THEN {op[w].copy} ELSE {}),
           cache' \in {cache} \cup (IF op[w].pc \in Saving THEN {op[w].copy} ELSE {})
    PROVE  AllWhole'
  <1>1. Whole(file)' /\ (cache' # Absent => Whole(cache)')
    BY DEF AllWhole, Whole, Sound
  <1>2. \A v \in Workers : v # w => op'[v] = op[v]
    BY DEF Typed, TypeOK, Done, Goto
  <1>3. op'[w].pc \in Saving => op[w].pc \in Saving /\ op'[w].copy = op[w].copy
    <2>1. op[w] \in Request
      BY DEF Typed, TypeOK
    <2>2. CASE Done(w)
      <3>1. op'[w] = Idle
        BY <2>2 DEF Typed, TypeOK, Done
      <3> QED BY <3>1 DEF Idle, Saving
    <2>3. ASSUME NEW pc, Goto(w, pc), pc \in Saving => op[w].pc \in Saving
          PROVE  op'[w].pc \in Saving => op[w].pc \in Saving /\ op'[w].copy = op[w].copy
      <3>1. op'[w] = [op[w] EXCEPT !.pc = pc]
        BY <2>3 DEF Typed, TypeOK, Goto
      <3> QED BY <2>1, <2>3, <3>1 DEF Request
    <2> QED BY <2>2, <2>3
  <1> QED BY <1>1, <1>2, <1>3 DEF AllWhole, Whole, Sound

\* Going on with a node's record leaves the request without a copy.
LEMMA ResolveSaves ==
    ASSUME Typed, NEW w \in Workers, NEW s, Resolve(w, s)
    PROVE  /\ op'[w].pc \notin Saving
           /\ \A v \in Workers : v # w => op'[v] = op[v]
  <1>1. CASE Done(w)
    BY <1>1 DEF Done, Idle, Saving, Typed, TypeOK
  <1>2. ASSUME NEW n \in Ids,
               op' = [op EXCEPT ![w] = [Idle EXCEPT !.pc = "probe", !.conf = s.nodes[n]]]
        PROVE  /\ op'[w].pc \notin Saving
               /\ \A v \in Workers : v # w => op'[v] = op[v]
    BY <1>2 DEF Idle, Saving, Typed, TypeOK
  <1> QED BY <1>1, <1>2 DEF Resolve

LEMMA StartWhole ==
    ASSUME Typed, AllWhole, NEW w \in Workers, Start(w)
    PROVE  AllWhole'
  <1>1. \A s \in Loaded : s \in Store /\ Whole(s)
    <2>1. Whole(Default)
      BY NodesAssumption DEF Default, Whole, Sound
    <2> QED BY <2>1, LoadedTyped DEF Loaded, AllWhole
  <1>2. ASSUME NEW n \in Ids, NEW c \in Conf, Upsert(w, n, c) PROVE AllWhole'
    <2>0. PICK s \in Loaded :
             op' = [op EXCEPT ![w] = [Idle EXCEPT !.pc = "upsert:save", !.conf = c,
                                                  !.old = s.nodes[n],
                                                  !.copy = [s EXCEPT !.nodes[n] = c]]]
      BY <1>2 DEF Upsert
    <2> DEFINE r == [Idle EXCEPT !.pc = "upsert:save", !.conf = c, !.old = s.nodes[n],
                                 !.copy = [s EXCEPT !.nodes[n] = c]]
    <2>1. Whole(r.copy)
      BY <1>1, UpdateWhole DEF Idle
    <2>2. op' = [op EXCEPT ![w] = r] /\ UNCHANGED <<file, cache>>
      BY <1>2, <2>0 DEF Upsert, store
    <2> HIDE DEF r
    <2> QED BY <2>1, <2>2, CopyWhole
  <1>3. ASSUME NEW n \in Ids, Delete(w, n) PROVE AllWhole'
    <2>0. PICK s \in Loaded :
             op' = [op EXCEPT ![w] = [Idle EXCEPT !.pc = "unpool", !.old = s.nodes[n],
                                                  !.copy = Without(s, n)]]
      BY <1>3 DEF Delete
    <2> DEFINE r == [Idle EXCEPT !.pc = "unpool", !.old = s.nodes[n],
                                 !.copy = Without(s, n)]
    <2>1. Whole(r.copy)
      BY <1>1, <1>3, WithoutWhole DEF Delete, Idle
    <2>2. op' = [op EXCEPT ![w] = r] /\ UNCHANGED <<file, cache>>
      BY <1>3, <2>0 DEF Delete, store
    <2> HIDE DEF r
    <2> QED BY <2>1, <2>2, CopyWhole
  <1>4. ASSUME NEW n \in Ids, SetCurrent(w, n) PROVE AllWhole'
    <2>1. PICK f \in Loaded :
             /\ f.nodes[n] # Absent
             /\ \E t \in {[f EXCEPT !.current = n], f} :
                   op' = [op EXCEPT ![w] = [Idle EXCEPT !.pc = "save", !.copy = t]]
      BY <1>4 DEF SetCurrent
    <2>5. PICK s \in {[f EXCEPT !.current = n], f} :
             op' = [op EXCEPT ![w] = [Idle EXCEPT !.pc = "save", !.copy = s]]
      BY <2>1
    <2>2. Whole(s)
      BY <1>1, <2>1, MoveWhole
    <2> DEFINE r == [Idle EXCEPT !.pc = "save", !.copy = s]
    <2>3. Whole(r.copy)
      BY <2>2 DEF Idle
    <2>4. op' = [op EXCEPT ![w] = r] /\ UNCHANGED <<file, cache>>
      BY <1>4, <2>5 DEF SetCurrent, store
    <2> HIDE DEF r
    <2> QED BY <2>3, <2>4, CopyWhole
  <1>5. CASE LoadFresh(w)
    <2>0. PICK s \in Loaded : op' = [op EXCEPT ![w] = [Idle EXCEPT !.pc = "fill", !.copy = s]]
      BY <1>5 DEF LoadFresh
    <2> DEFINE r == [Idle EXCEPT !.pc = "fill", !.copy = s]
    <2>1. Whole(r.copy)
      BY <1>1 DEF Idle
    <2>2. op' = [op EXCEPT ![w] = r] /\ UNCHANGED <<file, cache>>
      BY <1>5, <2>0 DEF LoadFresh, store
    <2> HIDE DEF r
    <2> QED BY <2>1, <2>2, CopyWhole
  <1>6. CASE LoadCached(w)
    <2>1. op'[w].pc \notin Saving /\ \A v \in Workers : v # w => op'[v] = op[v]
      BY <1>6, ResolveSaves DEF LoadCached
    <2>2. UNCHANGED <<file, cache>>
      BY <1>6 DEF LoadCached, store
    <2> QED BY <2>1, <2>2 DEF AllWhole, Whole, Sound
  <1> QED BY <1>2, <1>3, <1>4, <1>5, <1>6 DEF Start

LEMMA WriteWhole ==
    ASSUME Typed, AllWhole, NEW w \in Workers, Write(w)
    PROVE  AllWhole'
  <1>1. CASE SaveFile(w)
    BY <1>1, PassOnWhole DEF SaveFile, Saving
  <1>2. CASE SaveFails(w)
    BY <1>2, PassOnWhole DEF SaveFails, store
  <1>3. CASE SaveCache(w)
    BY <1>3, PassOnWhole DEF SaveCache, Saving
  <1>4. CASE Unpool(w)
    BY <1>4, PassOnWhole DEF Unpool, store, Saving
  <1>5. CASE DropOld(w) \/ DropNew(w)
    <2>1. UNCHANGED <<file, cache>> /\ (Goto(w, "drop new") \/ Goto(w, "drop tokens"))
      BY <1>5 DEF DropOld, DropNew, store
    <2>2. "drop new" \notin Saving /\ "drop tokens" \notin Saving
      BY DEF Saving
    <2>3. \E pc : Goto(w, pc) /\ (pc \in Saving => op[w].pc \in Saving)
      BY <2>1, <2>2
    <2>4. file' \in {file} /\ cache' \in {cache}
      BY <2>1
    <2> QED BY <2>3, <2>4, PassOnWhole
  <1>6. CASE DropTokens(w)
    <2>1. UNCHANGED <<file, cache>> /\ Done(w)
      BY <1>6 DEF DropTokens, store
    <2> QED BY <2>1, PassOnWhole
  <1> QED BY <1>1, <1>2, <1>3, <1>4, <1>5, <1>6 DEF Write

LEMMA ReachWhole ==
    ASSUME Typed, AllWhole, NEW w \in Workers, Reach(w)
    PROVE  AllWhole'
  <1>1. CASE FillCache(w)
    <2>1. op'[w].pc \notin Saving /\ \A v \in Workers : v # w => op'[v] = op[v]
      BY <1>1, ResolveSaves DEF FillCache
    <2>2. file' = file /\ cache' = op[w].copy /\ op[w].pc \in Saving
      BY <1>1 DEF FillCache, Saving
    <2> QED BY <2>1, <2>2 DEF AllWhole, Whole, Sound
  <1>2. CASE Probe(w)
    <2>1. UNCHANGED <<file, cache>>
      BY <1>2 DEF Probe, store
    <2>2. CASE Goto(w, "connect")
      BY <2>1, <2>2, PassOnWhole DEF Saving
    <2>3. CASE op' = [op EXCEPT ![w].pc = "token", ![w].client = pool[op[w].conf.key]]
      <3>1. op[w] \in Request
        BY DEF Typed, TypeOK
      <3> DEFINE r == [op[w] EXCEPT !.pc = "token", !.client = pool[op[w].conf.key]]
      <3>2. r.pc = "token" /\ op' = [op EXCEPT ![w] = r]
        BY <2>3, <3>1 DEF Request
      <3> HIDE DEF r
      <3> QED BY <2>1, <3>2, CopyWhole DEF Saving
    <2> QED BY <1>2, <2>2, <2>3 DEF Probe
  <1>3. CASE Connect(w)
    <2>1. PICK c \in Clients : op' = [op EXCEPT ![w].pc = "insert", ![w].client = c]
      BY <1>3 DEF Connect
    <2>2. op[w] \in Request
      BY DEF Typed, TypeOK
    <2> DEFINE r == [op[w] EXCEPT !.pc = "insert", !.client = c]
    <2>3. r.pc = "insert" /\ op' = [op EXCEPT ![w] = r]
      BY <2>1, <2>2 DEF Request
    <2>4. UNCHANGED <<file, cache>>
      BY <1>3 DEF Connect, store
    <2> HIDE DEF r
    <2> QED BY <2>3, <2>4, CopyWhole DEF Saving
  <1>4. CASE ConnectFails(w) \/ Insert(w) \/ UseClient(w) \/ StoreToken(w)
    BY <1>4, PassOnWhole DEF ConnectFails, Insert, UseClient, StoreToken, store, Saving
  <1> QED BY <1>1, <1>2, <1>3, <1>4 DEF Reach

LEMMA NextWhole == Typed /\ AllWhole /\ [Next]_vars => AllWhole'
  <1> SUFFICES ASSUME Typed, AllWhole, [Next]_vars PROVE AllWhole'
    OBVIOUS
  <1>1. ASSUME UNCHANGED <<file, cache, op>> PROVE AllWhole'
    BY <1>1 DEF AllWhole, Whole, Sound
  <1>2. CASE \/ TtlPasses
             \/ \E k \in Keys : TokenExpires(k)
             \/ \E c \in Clients : LinkFails(c)
    BY <1>1, <1>2 DEF TtlPasses, TokenExpires, LinkFails, store
  <1>3. CASE UNCHANGED vars
    BY <1>1, <1>3 DEF vars, store
  <1> QED BY <1>2, <1>3, StartWhole, WriteWhole, ReachWhole DEF Next

\* The global current node exists, on disk and in the cache, whatever handlers
\* overlap and whichever of them saves last.
THEOREM CurrentAlwaysExists == Spec => []CurrentExists
  <1>1. Spec => []AllWhole
    BY SpecTyped, InitWhole, NextWhole, PTL DEF Spec
  <1>2. AllWhole => CurrentExists
    BY DEF AllWhole, Whole, CurrentExists
  <1> QED BY <1>1, <1>2, PTL
-----------------------------------------------------------------------------
(* The pool holds exactly the clients that are up and not about to be pooled. *)
(* Inductive form: a client is unmade as long as its status says so; what is  *)
(* pooled is up and was made for that key; what a request is about to pool is *)
(* up, was made from the record the request works with, is not pooled yet and *)
(* belongs to no other request.                                               *)

Live == {"open", "dead"}

Making(w) == op[w].pc = "insert"

Fresh == \A c \in Clients : status[c] = "none" <=> clients[c] = Absent

PoolKeyed ==
    \A k \in Keys : pool[k] # Absent =>
        /\ status[pool[k]] \in Live
        /\ clients[pool[k]].key = k

Held ==
    \A w \in Workers : Making(w) =>
        /\ clients[op[w].client] = op[w].conf
        /\ status[op[w].client] \in Live
        /\ pool[op[w].conf.key] # op[w].client

HeldOnce ==
    \A v, w \in Workers :
        Making(v) /\ Making(w) /\ op[v].client = op[w].client => v = w

\* No client that is up is forgotten: the half of PoolExact that has to be kept.
NoneLost ==
    \A c \in Clients : status[c] \in Live =>
        \/ clients[c] # Absent /\ pool[clients[c].key] = c
        \/ \E w \in Workers : Making(w) /\ op[w].client = c

PoolInv == Fresh /\ PoolKeyed /\ Held /\ HeldOnce /\ NoneLost

LEMMA InitPool == Init => PoolInv
  BY DEF Init, Idle, PoolInv, Fresh, PoolKeyed, Held, HeldOnce, NoneLost, Making, Live

\* A client that has been made was made from a record, and one that is up has
\* been made.
LEMMA MadeFromRecord ==
    ASSUME Typed, Fresh, NEW c \in Clients, status[c] # "none"
    PROVE  clients[c] \in Conf /\ clients[c].key \in Keys
  BY DEF Typed, TypeOK, Fresh, Conf

LEMMA PoolInvExact == Typed /\ PoolInv => PoolExact
  <1> SUFFICES ASSUME Typed, PoolInv, NEW c \in Clients
               PROVE  status[c] \in Live <=>
                        \/ clients[c] # Absent /\ pool[clients[c].key] = c
                        \/ \E w \in Workers : Making(w) /\ op[w].client = c
    BY DEF PoolExact, Live, Making
  <1>1. ASSUME clients[c] # Absent, pool[clients[c].key] = c PROVE status[c] \in Live
    <2>1. clients[c].key \in Keys
      BY <1>1, MadeFromRecord DEF PoolInv, Fresh
    <2>2. c # Absent
      BY NodesAssumption
    <2> QED BY <1>1, <2>1, <2>2 DEF PoolInv, PoolKeyed
  <1>2. ASSUME NEW w \in Workers, Making(w), op[w].client = c PROVE status[c] \in Live
    BY <1>2 DEF PoolInv, Held
  <1> QED BY <1>1, <1>2 DEF PoolInv, NoneLost

\* The requests that are about to pool a client are the same before and after.
SameMakers ==
    \A w \in Workers : /\ op'[w].pc = "insert" <=> op[w].pc = "insert"
                       /\ Making(w) => op'[w] = op[w]

\* A request that neither was nor gets about to pool a client is none of them.
LEMMA OthersMake ==
    ASSUME Typed, NEW w \in Workers, NEW r,
           op' = [op EXCEPT ![w] = r], ~Making(w), r.pc # "insert"
    PROVE  SameMakers
  BY DEF Typed, TypeOK, SameMakers, Making

LEMMA GotoMakes ==
    ASSUME Typed, NEW w \in Workers, NEW pc, Goto(w, pc), ~Making(w), pc # "insert"
    PROVE  SameMakers
  <1> DEFINE r == [op[w] EXCEPT !.pc = pc]
  <1>1. op[w] \in Request
    BY DEF Typed, TypeOK
  <1>2. r.pc # "insert" /\ op' = [op EXCEPT ![w] = r]
    BY <1>1 DEF Request, Goto
  <1> HIDE DEF r
  <1> QED BY <1>2, OthersMake

LEMMA DoneMakes ==
    ASSUME Typed, NEW w \in Workers, Done(w), ~Making(w)
    PROVE  SameMakers
  <1>1. Idle.pc # "insert"
    BY DEF Idle
  <1> QED BY <1>1, OthersMake DEF Done

LEMMA ResolveMakes ==
    ASSUME Typed, NEW w \in Workers, NEW s, Resolve(w, s), ~Making(w)
    PROVE  SameMakers
  <1>1. ASSUME NEW n \in Ids,
               op' = [op EXCEPT ![w] = [Idle EXCEPT !.pc = "probe", !.conf = s.nodes[n]]]
        PROVE  SameMakers
    <2> DEFINE r == [Idle EXCEPT !.pc = "probe", !.conf = s.nodes[n]]
    <2>1. r.pc # "insert"
      BY DEF Idle
    <2> HIDE DEF r
    <2> QED BY <1>1, <2>1, OthersMake DEF r
  <1> QED BY <1>1, DoneMakes DEF Resolve

LEMMA PoolRests ==
    ASSUME PoolInv, SameMakers, UNCHANGED <<clients, status, pool>>
    PROVE  PoolInv'
  BY DEF PoolInv, Fresh, PoolKeyed, Held, HeldOnce, NoneLost, SameMakers, Making

-----------------------------------------------------------------------------
(* Closing what is pooled under a key, then replacing it or not. *)

\* Closing touches the pooled client only.
LEMMA CloseExact ==
    ASSUME Typed, PoolInv, NEW k \in Keys
    PROVE  /\ \A c \in Clients :
                 Close(k)[c] = IF pool[k] # Absent /\ c = pool[k] THEN "closed" ELSE status[c]
           /\ pool[k] # Absent => pool[k] \in Clients /\ status[pool[k]] # "none"
  BY DEF Typed, TypeOK, Close, PoolInv, PoolKeyed, Live

LEMMA DropPool ==
    ASSUME Typed, PoolInv, NEW conf, Drop(conf), SameMakers, UNCHANGED clients
    PROVE  PoolInv'
  <1>1. CASE conf \notin Conf
    BY <1>1, PoolRests DEF Drop
  <1>2. CASE conf \in Conf
    <2> DEFINE k == conf.key
    <2>1. k \in Keys
      BY <1>2 DEF Conf
    <2>2. /\ \A c \in Clients :
               status'[c] = IF pool[k] # Absent /\ c = pool[k] THEN "closed" ELSE status[c]
          /\ pool[k] # Absent => pool[k] \in Clients /\ status[pool[k]] # "none"
      BY <1>2, <2>1, CloseExact DEF Drop
    <2>3. \A j \in Keys : pool'[j] = IF j = k THEN Absent ELSE pool[j]
      BY <1>2, <2>1 DEF Drop, Typed, TypeOK
    <2>4. \A j \in Keys : pool[j] \in Clients \cup {Absent}
      BY DEF Typed, TypeOK
    <2> HIDE DEF k
    <2>5. Fresh'
      BY <2>2 DEF PoolInv, Fresh
    <2>6. PoolKeyed'
      <3> SUFFICES ASSUME NEW j \in Keys, pool'[j] # Absent
                   PROVE  status'[pool[j]] \in Live /\ clients[pool[j]].key = j /\ pool'[j] = pool[j]
        BY DEF PoolKeyed, Live
      <3>1. j # k /\ pool'[j] = pool[j] /\ pool[j] \in Clients
        BY <2>3, <2>4
      <3>2. status[pool[j]] \in Live /\ clients[pool[j]].key = j
        BY <3>1 DEF PoolInv, PoolKeyed
      <3>3. pool[k] # Absent => clients[pool[k]].key = k
        BY <2>1 DEF PoolInv, PoolKeyed
      <3> QED BY <2>2, <3>1, <3>2, <3>3
    <2>7. Held'
      <3> SUFFICES ASSUME NEW w \in Workers, Making(w)
                   PROVE  /\ clients[op[w].client] = op[w].conf
                          /\ status'[op[w].client] \in Live
                          /\ pool'[op[w].conf.key] # op[w].client
        BY DEF Held, SameMakers, Making, Live
      <3>1. /\ op[w].client \in Clients /\ op[w].conf.key \in Keys
        BY DEF Typed, Equipped, Reaching, Making, Conf
      <3>2. /\ clients[op[w].client] = op[w].conf
            /\ status[op[w].client] \in Live
            /\ pool[op[w].conf.key] # op[w].client
        BY DEF PoolInv, Held
      <3>3. pool[k] # Absent => clients[pool[k]].key = k
        BY <2>1 DEF PoolInv, PoolKeyed
      <3>4. ~(pool[k] # Absent /\ op[w].client = pool[k])
        BY <3>2, <3>3
      <3>5. op[w].client # Absent
        BY <3>1, NodesAssumption
      <3> QED BY <2>2, <2>3, <3>1, <3>2, <3>4, <3>5
    <2>8. HeldOnce'
      BY DEF PoolInv, HeldOnce, SameMakers, Making
    <2>9. NoneLost'
      <3> SUFFICES ASSUME NEW c \in Clients, status'[c] \in Live
                   PROVE  \/ clients[c] # Absent /\ pool'[clients[c].key] = c
                          \/ \E w \in Workers : Making(w)' /\ op'[w].client = c
        BY DEF NoneLost, Live
      <3>1. status'[c] = status[c] /\ ~(pool[k] # Absent /\ c = pool[k])
        BY <2>2 DEF Live
      <3>2. CASE \E w \in Workers : Making(w) /\ op[w].client = c
        BY <3>2 DEF SameMakers, Making
      <3>3. CASE clients[c] # Absent /\ pool[clients[c].key] = c
        <4>1. clients[c].key \in Keys /\ c # Absent
          BY <3>3, MadeFromRecord, NodesAssumption DEF PoolInv, Fresh
        <4> QED BY <2>3, <3>1, <3>3, <4>1
      <3> QED BY <3>1, <3>2, <3>3 DEF PoolInv, NoneLost
    <2> QED BY <2>5, <2>6, <2>7, <2>8, <2>9 DEF PoolInv
  <1> QED BY <1>1, <1>2

\* The second half of pooledSSH: what is pooled under the key is closed, and the
\* request's own client takes its place.
LEMMA InsertPool ==
    ASSUME Typed, PoolInv, NEW w \in Workers, Insert(w)
    PROVE  PoolInv'
  <1> DEFINE k == op[w].conf.key
             d == op[w].client
  <1>1. /\ Making(w) /\ op[w].conf \in Conf /\ k \in Keys /\ d \in Clients /\ d # Absent
    BY NodesAssumption DEF Insert, Typed, Equipped, Reaching, Making, Conf
  <1>2. /\ \A c \in Clients :
             status'[c] = IF pool[k] # Absent /\ c = pool[k] THEN "closed" ELSE status[c]
        /\ pool[k] # Absent => pool[k] \in Clients /\ status[pool[k]] # "none"
    BY <1>1, CloseExact DEF Insert
  <1>3. \A j \in Keys : pool'[j] = IF j = k THEN d ELSE pool[j]
    BY <1>1 DEF Insert, Typed, TypeOK
  <1>4. clients[d] = op[w].conf /\ status[d] \in Live /\ pool[k] # d
    BY <1>1 DEF PoolInv, Held
  <1>5. clients' = clients /\ \A j \in Keys : pool[j] \in Clients \cup {Absent}
    BY DEF Insert, Typed, TypeOK
  <1>6. /\ \A v \in Workers : v # w => op'[v] = op[v]
        /\ ~Making(w)'
    BY DEF Insert, Goto, Typed, TypeOK, Request, Making
  <1>7. \A j \in Keys : pool[j] # Absent =>
          status[pool[j]] \in Live /\ clients[pool[j]].key = j
    BY DEF PoolInv, PoolKeyed
  <1>8. clients[d].key = k
    BY <1>4
  <1> HIDE DEF k, d
  <1>9. Fresh'
    BY <1>2, <1>5 DEF PoolInv, Fresh
  <1>10. PoolKeyed'
    <2> SUFFICES ASSUME NEW j \in Keys, pool'[j] # Absent
                 PROVE  status'[pool'[j]] \in Live /\ clients[pool'[j]].key = j
      BY <1>5 DEF PoolKeyed, Live
    <2>1. CASE j = k
      BY <1>1, <1>2, <1>3, <1>4, <1>8, <2>1
    <2>2. CASE j # k
      <3>1. pool'[j] = pool[j] /\ pool[j] \in Clients
        BY <1>3, <1>5, <2>2
      <3>2. status[pool[j]] \in Live /\ clients[pool[j]].key = j
        BY <1>7, <3>1
      <3>3. pool[k] # Absent => clients[pool[k]].key = k
        BY <1>1, <1>7
      <3> QED BY <1>2, <2>2, <3>1, <3>2, <3>3
    <2> QED BY <2>1, <2>2
  <1>11. ASSUME NEW v \in Workers, Making(v)'
         PROVE  /\ v # w /\ op'[v] = op[v] /\ Making(v) /\ op[v].client \in Clients
                /\ op[v].client # d
    <2>1. v # w /\ op'[v] = op[v] /\ Making(v)
      BY <1>6, <1>11 DEF Making
    <2>2. op[v].client \in Clients
      BY <2>1 DEF Typed, Equipped, Making
    <2> QED BY <1>1, <2>1, <2>2 DEF PoolInv, HeldOnce, d
  <1>12. Held'
    <2> SUFFICES ASSUME NEW v \in Workers, Making(v)'
                 PROVE  /\ clients[op[v].client] = op[v].conf
                        /\ status'[op[v].client] \in Live
                        /\ pool'[op[v].conf.key] # op[v].client
      BY <1>5, <1>11 DEF Held, Live
    <2>1. /\ Making(v) /\ op[v].client \in Clients /\ op[v].client # d
          /\ op[v].conf.key \in Keys /\ op[v].client # Absent
      BY <1>11, NodesAssumption DEF Typed, Equipped, Reaching, Making, Conf
    <2>2. /\ clients[op[v].client] = op[v].conf
          /\ status[op[v].client] \in Live
          /\ pool[op[v].conf.key] # op[v].client
      BY <2>1 DEF PoolInv, Held
    <2>3. ~(pool[k] # Absent /\ op[v].client = pool[k])
      BY <1>1, <1>7, <2>2
    <2> QED BY <1>2, <1>3, <2>1, <2>2, <2>3
  <1>13. HeldOnce'
    BY <1>11 DEF PoolInv, HeldOnce
  <1>14. NoneLost'
    <2> SUFFICES ASSUME NEW c \in Clients, status'[c] \in Live
                 PROVE  \/ clients[c] # Absent /\ pool'[clients[c].key] = c
                        \/ \E v \in Workers : Making(v)' /\ op'[v].client = c
      BY <1>5 DEF NoneLost, Live
    <2>1. status'[c] = status[c] /\ ~(pool[k] # Absent /\ c = pool[k])
      BY <1>2 DEF Live
    <2>2. CASE c = d
      <3>1. clients[c] # Absent
        BY <1>1, <1>4, <2>2, NodesAssumption
      <3> QED BY <1>1, <1>3, <1>8, <2>2, <3>1
    <2>3. ASSUME NEW v \in Workers, Making(v), op[v].client = c, c # d
          PROVE  \E u \in Workers : Making(u)' /\ op'[u].client = c
      BY <1>6, <2>3 DEF Making, d
    <2>4. CASE clients[c] # Absent /\ pool[clients[c].key] = c
      <3>1. clients[c].key \in Keys /\ c # Absent
        BY <2>4, MadeFromRecord, NodesAssumption DEF PoolInv, Fresh
      <3> QED BY <1>3, <2>1, <2>4, <3>1
    <2> QED BY <2>1, <2>2, <2>3, <2>4 DEF PoolInv, NoneLost
  <1> QED BY <1>9, <1>10, <1>12, <1>13, <1>14 DEF PoolInv

\* A new client belongs to the request that made it.
LEMMA ConnectPool ==
    ASSUME Typed, PoolInv, NEW w \in Workers, Connect(w)
    PROVE  PoolInv'
  <1>1. PICK d \in Clients :
           /\ status[d] = "none"
           /\ clients' = [clients EXCEPT ![d] = op[w].conf]
           /\ status' = [status EXCEPT ![d] = "open"]
           /\ op' = [op EXCEPT ![w].pc = "insert", ![w].client = d]
    BY DEF Connect
  <1>2. op[w].conf \in Conf /\ op[w].conf # Absent /\ op[w].conf.key \in Keys /\ ~Making(w)
    BY NodesAssumption DEF Connect, Typed, Equipped, Reaching, Making, Conf
  <1>3. \A c \in Clients : /\ clients'[c] = IF c = d THEN op[w].conf ELSE clients[c]
                           /\ status'[c] = IF c = d THEN "open" ELSE status[c]
    BY <1>1 DEF Typed, TypeOK
  <1>4. /\ \A v \in Workers : v # w => op'[v] = op[v]
        /\ op'[w].pc = "insert" /\ op'[w].client = d /\ op'[w].conf = op[w].conf
    BY <1>1 DEF Typed, TypeOK, Request
  <1>5. pool' = pool /\ \A k \in Keys : pool[k] \in Clients \cup {Absent}
    BY DEF Connect, Typed, TypeOK
  <1>6. \A k \in Keys : pool[k] # d
    <2>1. d # Absent
      BY NodesAssumption
    <2> QED BY <1>1, <2>1 DEF PoolInv, PoolKeyed, Live
  <1>7. ASSUME NEW v \in Workers, v # w, Making(v)'
        PROVE  Making(v) /\ op'[v] = op[v] /\ op[v].client \in Clients \ {d}
    <2>1. Making(v) /\ op'[v] = op[v]
      BY <1>4, <1>7 DEF Making
    <2>2. op[v].client \in Clients
      BY <2>1 DEF Typed, Equipped, Making
    <2> QED BY <1>1, <2>1, <2>2 DEF PoolInv, Held, Live
  <1>8. Fresh'
    BY <1>2, <1>3 DEF PoolInv, Fresh
  <1>9. PoolKeyed'
    <2> SUFFICES ASSUME NEW k \in Keys, pool[k] # Absent
                 PROVE  status'[pool[k]] \in Live /\ clients'[pool[k]].key = k
      BY <1>5 DEF PoolKeyed, Live
    <2> QED BY <1>3, <1>5, <1>6 DEF PoolInv, PoolKeyed
  <1>10. Held'
    <2> SUFFICES ASSUME NEW v \in Workers, Making(v)'
                 PROVE  /\ clients'[op'[v].client] = op'[v].conf
                        /\ status'[op'[v].client] \in Live
                        /\ pool[op'[v].conf.key] # op'[v].client
      BY <1>5 DEF Held, Live
    <2>1. CASE v = w
      BY <1>2, <1>3, <1>4, <1>6, <2>1 DEF Live
    <2>2. CASE v # w
      BY <1>3, <1>7, <2>2 DEF PoolInv, Held
    <2> QED BY <2>1, <2>2
  <1>11. HeldOnce'
    <2> SUFFICES ASSUME NEW u \in Workers, NEW v \in Workers, Making(u)', Making(v)',
                        op'[u].client = op'[v].client
                 PROVE  u = v
      BY DEF HeldOnce
    <2> QED BY <1>4, <1>7 DEF PoolInv, HeldOnce
  <1>12. NoneLost'
    <2> SUFFICES ASSUME NEW c \in Clients, status'[c] \in Live
                 PROVE  \/ clients'[c] # Absent /\ pool[clients'[c].key] = c
                        \/ \E v \in Workers : Making(v)' /\ op'[v].client = c
      BY <1>5 DEF NoneLost, Live
    <2>1. CASE c = d
      BY <1>4, <2>1 DEF Making
    <2>2. CASE c # d
      <3>1. status[c] \in Live /\ clients'[c] = clients[c]
        BY <1>3, <2>2
      <3>2. ASSUME NEW v \in Workers, Making(v), op[v].client = c
            PROVE  \E u \in Workers : Making(u)' /\ op'[u].client = c
        BY <1>2, <1>4, <3>2 DEF Making
      <3> QED BY <3>1, <3>2 DEF PoolInv, NoneLost
    <2> QED BY <2>1, <2>2
  <1> QED BY <1>8, <1>9, <1>10, <1>11, <1>12 DEF PoolInv

\* A link that fails leaves its client where it is.
LEMMA LinkFailsPool ==
    ASSUME Typed, PoolInv, NEW c \in Clients, LinkFails(c)
    PROVE  PoolInv'
  <1>1. \A d \in Clients : status'[d] = IF d = c THEN "dead" ELSE status[d]
    BY DEF LinkFails, Typed, TypeOK
  <1>2. status[c] = "open" /\ UNCHANGED <<clients, pool, op>>
    BY DEF LinkFails
  <1>3. \A d \in Clients : /\ status'[d] \in Live <=> status[d] \in Live
                           /\ status'[d] = "none" <=> status[d] = "none"
    BY <1>1, <1>2 DEF Live
  <1>4. Fresh' /\ HeldOnce' /\ NoneLost'
    BY <1>2, <1>3 DEF PoolInv, Fresh, HeldOnce, NoneLost, Making, Live
  <1>5. PoolKeyed'
    <2> SUFFICES ASSUME NEW k \in Keys, pool[k] # Absent
                 PROVE  status'[pool[k]] \in Live /\ clients[pool[k]].key = k
      BY <1>2 DEF PoolKeyed, Live
    <2>1. pool[k] \in Clients
      BY DEF Typed, TypeOK
    <2> QED BY <1>3, <2>1 DEF PoolInv, PoolKeyed
  <1>6. Held'
    <2> SUFFICES ASSUME NEW w \in Workers, Making(w)
                 PROVE  /\ clients[op[w].client] = op[w].conf
                        /\ status'[op[w].client] \in Live
                        /\ pool[op[w].conf.key] # op[w].client
      BY <1>2 DEF Held, Live, Making
    <2>1. op[w].client \in Clients
      BY DEF Typed, Equipped, Making
    <2> QED BY <1>3, <2>1 DEF PoolInv, Held
  <1> QED BY <1>4, <1>5, <1>6 DEF PoolInv

\* The other steps touch neither client nor pool, and are not about making one.
LEMMA StartMakes ==
    ASSUME Typed, NEW w \in Workers, Start(w)
    PROVE  SameMakers /\ UNCHANGED links
  <1>1. ~Making(w) /\ UNCHANGED links
    BY DEF Start, LoadCached, LoadFresh, Delete, SetCurrent, Upsert, Making
  <1>2. ASSUME NEW n \in Ids, NEW c \in Conf, Upsert(w, n, c) PROVE SameMakers
    <2>0. PICK s \in Loaded :
             op' = [op EXCEPT ![w] = [Idle EXCEPT !.pc = "upsert:save", !.conf = c,
                                                  !.old = s.nodes[n],
                                                  !.copy = [s EXCEPT !.nodes[n] = c]]]
      BY <1>2 DEF Upsert
    <2> DEFINE r == [Idle EXCEPT !.pc = "upsert:save", !.conf = c, !.old = s.nodes[n],
                                 !.copy = [s EXCEPT !.nodes[n] = c]]
    <2>1. r.pc # "insert" /\ op' = [op EXCEPT ![w] = r]
      BY <2>0 DEF Idle
    <2> HIDE DEF r
    <2> QED BY <1>1, <2>1, OthersMake
  <1>3. ASSUME NEW n \in Ids, Delete(w, n) PROVE SameMakers
    <2>0. PICK s \in Loaded :
             op' = [op EXCEPT ![w] = [Idle EXCEPT !.pc = "unpool", !.old = s.nodes[n],
                                                  !.copy = Without(s, n)]]
      BY <1>3 DEF Delete
    <2> DEFINE r == [Idle EXCEPT !.pc = "unpool", !.old = s.nodes[n],
                                 !.copy = Without(s, n)]
    <2>1. r.pc # "insert" /\ op' = [op EXCEPT ![w] = r]
      BY <2>0 DEF Idle
    <2> HIDE DEF r
    <2> QED BY <1>1, <2>1, OthersMake
  <1>4. ASSUME NEW n \in Ids, SetCurrent(w, n) PROVE SameMakers
    <2>0. PICK f \in Loaded :
             \E t \in {[f EXCEPT !.current = n], f} :
                op' = [op EXCEPT ![w] = [Idle EXCEPT !.pc = "save", !.copy = t]]
      BY <1>4 DEF SetCurrent
    <2>1. PICK s \in {[f EXCEPT !.current = n], f} :
             op' = [op EXCEPT ![w] = [Idle EXCEPT !.pc = "save", !.copy = s]]
      BY <2>0
    <2> DEFINE r == [Idle EXCEPT !.pc = "save", !.copy = s]
    <2>2. r.pc # "insert"
      BY DEF Idle
    <2> HIDE DEF r
    <2> QED BY <1>1, <2>1, <2>2, OthersMake DEF r
  <1>5. CASE LoadFresh(w)
    <2>0. PICK s \in Loaded : op' = [op EXCEPT ![w] = [Idle EXCEPT !.pc = "fill", !.copy = s]]
      BY <1>5 DEF LoadFresh
    <2> DEFINE r == [Idle EXCEPT !.pc = "fill", !.copy = s]
    <2>1. r.pc # "insert" /\ op' = [op EXCEPT ![w] = r]
      BY <2>0 DEF Idle
    <2> HIDE DEF r
    <2> QED BY <1>1, <2>1, OthersMake
  <1>6. CASE LoadCached(w)
    BY <1>1, <1>6, ResolveMakes DEF LoadCached
  <1> QED BY <1>1, <1>2, <1>3, <1>4, <1>5, <1>6 DEF Start

LEMMA WritePool ==
    ASSUME Typed, PoolInv, NEW w \in Workers, Write(w)
    PROVE  PoolInv'
  <1>1. ~Making(w)
    BY DEF Write, SaveFile, SaveFails, SaveCache, Unpool, DropOld, DropNew, DropTokens, Making
  <1>2. SameMakers
    BY <1>1, GotoMakes, DoneMakes
       DEF Write, SaveFile, SaveFails, SaveCache, Unpool, DropOld, DropNew, DropTokens
  <1>3. CASE SaveFile(w) \/ SaveFails(w) \/ SaveCache(w) \/ DropTokens(w)
    BY <1>2, <1>3, PoolRests DEF SaveFile, SaveFails, SaveCache, DropTokens, links
  <1>4. CASE Unpool(w) \/ DropOld(w) \/ DropNew(w)
    BY <1>2, <1>4, DropPool DEF Unpool, DropOld, DropNew
  <1> QED BY <1>3, <1>4 DEF Write

LEMMA ReachPool ==
    ASSUME Typed, PoolInv, NEW w \in Workers, Reach(w)
    PROVE  PoolInv'
  <1>1. CASE FillCache(w)
    <2>1. ~Making(w) /\ UNCHANGED links
      BY <1>1 DEF FillCache, Making
    <2> QED BY <1>1, <2>1, ResolveMakes, PoolRests DEF FillCache, links
  <1>2. CASE Probe(w)
    <2>1. ~Making(w) /\ clients' = clients
      BY <1>2 DEF Probe, Making
    <2>2. CASE Drop(op[w].conf) /\ Goto(w, "connect")
      BY <2>1, <2>2, GotoMakes, DropPool
    <2>3. CASE /\ op' = [op EXCEPT ![w].pc = "token", ![w].client = pool[op[w].conf.key]]
               /\ UNCHANGED <<status, pool>>
      <3>1. op[w] \in Request
        BY DEF Typed, TypeOK
      <3> DEFINE r == [op[w] EXCEPT !.pc = "token", !.client = pool[op[w].conf.key]]
      <3>2. r.pc # "insert" /\ op' = [op EXCEPT ![w] = r]
        BY <2>3, <3>1 DEF Request
      <3> HIDE DEF r
      <3> QED BY <2>1, <2>3, <3>2, OthersMake, PoolRests
    <2> QED BY <1>2, <2>2, <2>3 DEF Probe
  <1>3. CASE ConnectFails(w) \/ UseClient(w) \/ StoreToken(w)
    <2>1. ~Making(w) /\ UNCHANGED <<clients, status, pool>>
      BY <1>3 DEF ConnectFails, UseClient, StoreToken, Making, links
    <2> QED BY <1>3, <2>1, GotoMakes, DoneMakes, PoolRests
         DEF ConnectFails, UseClient, StoreToken
  <1> QED BY <1>1, <1>2, <1>3, ConnectPool, InsertPool DEF Reach

LEMMA NextPool == Typed /\ PoolInv /\ [Next]_vars => PoolInv'
  <1> SUFFICES ASSUME Typed, PoolInv, [Next]_vars PROVE PoolInv'
    OBVIOUS
  <1>1. ASSUME UNCHANGED <<clients, status, pool, op>> PROVE PoolInv'
    BY <1>1 DEF PoolInv, Fresh, PoolKeyed, Held, HeldOnce, NoneLost, Making
  <1>2. ASSUME NEW w \in Workers, Start(w) PROVE PoolInv'
    BY <1>2, StartMakes, PoolRests DEF links
  <1>3. CASE TtlPasses \/ \E k \in Keys : TokenExpires(k)
    BY <1>1, <1>3 DEF TtlPasses, TokenExpires, links
  <1>4. CASE UNCHANGED vars
    BY <1>1, <1>4 DEF vars, links
  <1> QED BY <1>2, <1>3, <1>4, WritePool, ReachPool, LinkFailsPool DEF Next

\* The panel never forgets an SSH client that is up, and never keeps one pooled
\* that it closed, however requests for one node overlap with each other, with
\* failing links and with edits and deletions of the node (pooledSSH, dropSSHPool).
THEOREM PoolIsExact == Spec => []PoolExact
  <1>1. Spec => [](Typed /\ PoolInv)
    BY SpecTyped, InitPool, NextPool, PTL DEF Spec
  <1> QED BY <1>1, PoolInvExact, PTL
=============================================================================
