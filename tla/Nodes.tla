------------------------------- MODULE Nodes --------------------------------
(***************************************************************************)
(* The machines the panel manages (agent.go): the node table nodes.json    *)
(* with its two-second read cache, and what requests build from a node's   *)
(* record: the pool of SSH clients and the cache of agent tokens, both     *)
(* keyed by host, port and user (nodeKey).                                 *)
(*                                                                         *)
(* A worker is one request.  Handlers that write the table read it from    *)
(* disk without a lock, change their copy, and hold nodeStoreMu only while *)
(* saving; sshPoolMu and agentTokenMu are given up while connecting and    *)
(* while asking the child panel for a token.                               *)
(*                                                                         *)
(* A nodes.json that cannot be read or parsed counts as the default table, *)
(* which has this host only, for readers and for handlers that save what   *)
(* they read (Loaded).                                                     *)
(***************************************************************************)
EXTENDS Naturals

CONSTANTS Ids,        \* node ids
          Local,      \* localNodeID
          ThisHost,   \* the record of a node of type local
          Keys,       \* nodeKey values
          Secrets,    \* password or key, and the agent's paired secret
          Workers,
          MaxSaves,   \* bound: saves of nodes.json
          MaxClients, \* bound: SSH connections made
          Faults,     \* whether nodes.json can fail to be read
          Absent

Conf == [key : Keys, secret : Secrets]
Store == [nodes : [Ids -> Conf \cup {ThisHost, Absent}], current : Ids]
Clients == 1 .. MaxClients

ASSUME NodesAssumption ==
    /\ Local \in Ids
    /\ MaxSaves \in Nat /\ MaxClients \in Nat /\ Faults \in BOOLEAN
    /\ ThisHost \notin Conf
    /\ Absent \notin Conf \cup {ThisHost} \cup Store \cup Clients \cup Secrets \cup Workers

VARIABLES file,     \* nodes.json
          cache,    \* nodeCache, Absent until nodeCacheValid
          recent,   \* the cache is less than two seconds old
          storeMu,  \* the holder of nodeStoreMu
          saves,    \* saves so far
          clients,  \* what each SSH client was made from, Absent before
          status,   \* "open", "dead" (the link failed) or "closed" (by the panel)
          pool,     \* sshPool
          tokens,   \* agentTokens: the secret each was obtained with
          op        \* the request of each worker

store == <<file, cache, recent, storeMu, saves>>
links == <<clients, status, pool, tokens>>
vars == <<store, links, op>>

\* A request: where it is, the node record it uses or writes, the record it
\* replaces, its copy of the table, the client it made or was handed.
Request ==
    [pc     : {"idle", "fill", "probe", "connect", "insert", "token", "issue",
               "unpool", "save", "cache", "upsert:save", "upsert:cache",
               "drop old", "drop new", "drop tokens"},
     conf   : Conf \cup {Absent},
     old    : Conf \cup {ThisHost, Absent},
     copy   : Store \cup {Absent},
     client : Clients \cup {Absent}]

Idle == [pc |-> "idle", conf |-> Absent, old |-> Absent, copy |-> Absent, client |-> Absent]

TypeOK ==
    /\ file \in Store
    /\ cache \in Store \cup {Absent}
    /\ recent \in BOOLEAN
    /\ storeMu \in Workers \cup {Absent}
    /\ saves \in 0 .. MaxSaves
    /\ clients \in [Clients -> Conf \cup {Absent}]
    /\ status \in [Clients -> {"none", "open", "dead", "closed"}]
    /\ pool \in [Keys -> Clients \cup {Absent}]
    /\ tokens \in [Keys -> Secrets \cup {Absent}]
    /\ op \in [Workers -> Request]

Done(w) == op' = [op EXCEPT ![w] = Idle]

Goto(w, pc) == op' = [op EXCEPT ![w].pc = pc]

\* defaultNodeStore, and what loadNodeStoreFresh may return.
Default == [nodes |-> [n \in Ids |-> IF n = Local THEN ThisHost ELSE Absent],
            current |-> Local]

Loaded == {file} \cup (IF Faults THEN {Default} ELSE {})

\* What loadNodeStoreFresh can find when the panel starts: a table that an earlier
\* run of it saved, or the default one.
SavedTables ==
    {s \in Store : /\ s.nodes[Local] # Absent /\ s.nodes[s.current] # Absent
                   /\ \A n \in Ids \ {Local} : s.nodes[n] # ThisHost}

Init ==
    /\ file \in SavedTables
    /\ cache = Absent
    /\ recent = FALSE
    /\ storeMu = Absent
    /\ saves = 0
    /\ clients = [c \in Clients |-> Absent]
    /\ status = [c \in Clients |-> "none"]
    /\ pool = [k \in Keys |-> Absent]
    /\ tokens = [k \in Keys |-> Absent]
    /\ op = [w \in Workers |-> Idle]

-----------------------------------------------------------------------------
\* Handlers that write the table.  Each takes its copy from disk and changes it.

\* upsertNode, for POST /api/nodes and PUT /api/nodes/{node_id}; a blank secret
\* inherits the old one, so any record may result.
Upsert(w, n, c) ==
    /\ op[w].pc = "idle"
    /\ \E s \in Loaded :
          op' = [op EXCEPT ![w] = [Idle EXCEPT !.pc = "upsert:save", !.conf = c,
                                               !.old = s.nodes[n],
                                               !.copy = [s EXCEPT !.nodes[n] = c]]]
    /\ UNCHANGED <<store, links>>

\* Mutant: deleting the current node leaves current pointing at it.
WithoutKeepsCurrent(s, n) == [s EXCEPT !.nodes[n] = Absent]

\* Mutant: it is left empty instead.
WithoutClearsCurrent(s, n) ==
    [s EXCEPT !.nodes[n] = Absent, !.current = IF @ = n THEN Absent ELSE @]

Without(s, n) ==
    [s EXCEPT !.nodes[n] = Absent, !.current = IF @ = n THEN Local ELSE @]

\* DELETE /api/nodes/{node_id}: the pooled connection goes before the record.
Delete(w, n) ==
    /\ op[w].pc = "idle"
    /\ n # Local
    /\ \E s \in Loaded :
          /\ s.nodes[n] # Absent
          /\ op' = [op EXCEPT ![w] = [Idle EXCEPT !.pc = "unpool", !.old = s.nodes[n],
                                                  !.copy = Without(s, n)]]
    /\ UNCHANGED <<store, links>>

\* POST /api/nodes/current, and POST /api/nodes/{node_id}/meta, whose group and
\* tags are not modelled: it saves the table as it read it.
SetCurrent(w, n) ==
    /\ op[w].pc = "idle"
    /\ \E s \in Loaded :
          /\ s.nodes[n] # Absent
          /\ \E t \in {[s EXCEPT !.current = n], s} :
                op' = [op EXCEPT ![w] = [Idle EXCEPT !.pc = "save", !.copy = t]]
    /\ UNCHANGED <<store, links>>

\* saveNodeStore: the rename, then the cache, both under nodeStoreMu.
SaveFile(w) ==
    /\ op[w].pc \in {"save", "upsert:save"}
    /\ storeMu = Absent
    /\ saves < MaxSaves
    /\ saves' = saves + 1
    /\ file' = op[w].copy
    /\ storeMu' = w
    /\ Goto(w, IF op[w].pc = "save" THEN "cache" ELSE "upsert:cache")
    /\ UNCHANGED <<cache, recent, links>>

SaveFails(w) ==
    /\ op[w].pc \in {"save", "upsert:save"}
    /\ storeMu = Absent
    /\ Done(w)
    /\ UNCHANGED <<store, links>>

SaveCache(w) ==
    /\ op[w].pc \in {"cache", "upsert:cache"}
    /\ cache' = op[w].copy
    /\ recent' = TRUE
    /\ storeMu' = Absent
    /\ IF op[w].pc = "cache" THEN Done(w) ELSE Goto(w, "drop old")
    /\ UNCHANGED <<file, saves, links>>

-----------------------------------------------------------------------------
\* dropSSHPool and the token cache.

\* Mutant: the entry goes, its client stays open.
CloseForgotten(k) == status

\* The client pooled under k is closed by the panel.
Close(k) ==
    IF pool[k] = Absent THEN status ELSE [status EXCEPT ![pool[k]] = "closed"]

Drop(conf) ==
    IF conf \in Conf
    THEN /\ status' = Close(conf.key)
         /\ pool' = [pool EXCEPT ![conf.key] = Absent]
    ELSE UNCHANGED <<status, pool>>

Unpool(w) ==
    /\ op[w].pc = "unpool"
    /\ Drop(op[w].old)
    /\ Goto(w, "save")
    /\ UNCHANGED <<store, clients, tokens>>

DropOld(w) ==
    /\ op[w].pc = "drop old"
    /\ Drop(op[w].old)
    /\ Goto(w, "drop new")
    /\ UNCHANGED <<store, clients, tokens>>

DropNew(w) ==
    /\ op[w].pc = "drop new"
    /\ Drop(op[w].conf)
    /\ Goto(w, "drop tokens")
    /\ UNCHANGED <<store, clients, tokens>>

DropTokens(w) ==
    /\ op[w].pc = "drop tokens"
    /\ tokens' = [k \in Keys |->
                    IF k = op[w].conf.key \/ (op[w].old \in Conf /\ k = op[w].old.key)
                    THEN Absent ELSE tokens[k]]
    /\ Done(w)
    /\ UNCHANGED <<store, clients, status, pool>>

-----------------------------------------------------------------------------
\* A request for a node: loadNodeStore, pooledSSH, agentToken.

\* Mutant: the two seconds never run out.
CacheUsableForever == cache # Absent

CacheUsable == cache # Absent /\ recent

\* The request goes on with the record of the node it names, or ends.
Resolve(w, s) ==
    \/ \E n \in Ids : /\ s.nodes[n] \in Conf
                      /\ op' = [op EXCEPT ![w] = [Idle EXCEPT !.pc = "probe",
                                                              !.conf = s.nodes[n]]]
    \/ Done(w)

LoadCached(w) ==
    /\ op[w].pc = "idle"
    /\ CacheUsable
    /\ Resolve(w, cache)
    /\ UNCHANGED <<store, links>>

LoadFresh(w) ==
    /\ op[w].pc = "idle"
    /\ ~CacheUsable
    /\ \E s \in Loaded : op' = [op EXCEPT ![w] = [Idle EXCEPT !.pc = "fill", !.copy = s]]
    /\ UNCHANGED <<store, links>>

FillCache(w) ==
    /\ op[w].pc = "fill"
    /\ cache' = op[w].copy
    /\ recent' = TRUE
    /\ Resolve(w, op[w].copy)
    /\ UNCHANGED <<file, storeMu, saves, links>>

\* The first half of pooledSSH, under sshPoolMu: a pooled client that answers the
\* keepalive is handed out, one that does not is closed and removed.
Probe(w) ==
    LET k == op[w].conf.key IN
    /\ op[w].pc = "probe"
    /\ IF pool[k] # Absent /\ status[pool[k]] = "open"
       THEN /\ op' = [op EXCEPT ![w].pc = "token", ![w].client = pool[k]]
            /\ UNCHANGED <<status, pool>>
       ELSE /\ Drop(op[w].conf)
            /\ Goto(w, "connect")
    /\ UNCHANGED <<store, clients, tokens>>

\* sshConnect, outside the lock.
Connect(w) ==
    /\ op[w].pc = "connect"
    /\ \E c \in Clients :
          /\ status[c] = "none" /\ \A d \in 1 .. (c - 1) : status[d] # "none"
          /\ clients' = [clients EXCEPT ![c] = op[w].conf]
          /\ status' = [status EXCEPT ![c] = "open"]
          /\ op' = [op EXCEPT ![w].pc = "insert", ![w].client = c]
    /\ UNCHANGED <<store, pool, tokens>>

ConnectFails(w) ==
    /\ op[w].pc = "connect"
    /\ Done(w)
    /\ UNCHANGED <<store, links>>

\* The second half of pooledSSH: a client that another request pooled meanwhile
\* is closed before ours takes its place.
Insert(w) ==
    LET k == op[w].conf.key IN
    /\ op[w].pc = "insert"
    /\ status' = Close(k)
    /\ pool' = [pool EXCEPT ![k] = op[w].client]
    /\ Goto(w, "token")
    /\ UNCHANGED <<store, clients, tokens>>

\* The request runs its command over the client, or, for a node with an agent,
\* takes the cached token, or has to ask the child panel for one.
UseClient(w) ==
    /\ op[w].pc = "token"
    /\ \/ Done(w)
       \/ /\ tokens[op[w].conf.key] = Absent
          /\ status[op[w].client] = "open"
          /\ Goto(w, "issue")
    /\ UNCHANGED <<store, links>>

StoreToken(w) ==
    /\ op[w].pc = "issue"
    /\ \/ tokens' = [tokens EXCEPT ![op[w].conf.key] = op[w].conf.secret]
       \/ UNCHANGED tokens      \* refused, or issued without a lifetime
    /\ Done(w)
    /\ UNCHANGED <<store, clients, status, pool>>

-----------------------------------------------------------------------------
\* Time and the network.

TtlPasses ==
    /\ recent
    /\ recent' = FALSE
    /\ UNCHANGED <<file, cache, storeMu, saves, links, op>>

TokenExpires(k) ==
    /\ tokens[k] # Absent
    /\ tokens' = [tokens EXCEPT ![k] = Absent]
    /\ UNCHANGED <<store, clients, status, pool, op>>

LinkFails(c) ==
    /\ status[c] = "open"
    /\ status' = [status EXCEPT ![c] = "dead"]
    /\ UNCHANGED <<store, clients, pool, tokens, op>>

Write(w) ==
    \/ SaveFile(w) \/ SaveFails(w) \/ SaveCache(w)
    \/ Unpool(w) \/ DropOld(w) \/ DropNew(w) \/ DropTokens(w)

Reach(w) ==
    \/ FillCache(w) \/ Probe(w) \/ Connect(w) \/ ConnectFails(w)
    \/ Insert(w) \/ UseClient(w) \/ StoreToken(w)

Start(w) ==
    \/ LoadCached(w) \/ LoadFresh(w)
    \/ \E n \in Ids : Delete(w, n) \/ SetCurrent(w, n)
    \/ \E n \in Ids, c \in Conf : Upsert(w, n, c)

Next ==
    \/ \E w \in Workers : Start(w) \/ Write(w) \/ Reach(w)
    \/ TtlPasses
    \/ \E k \in Keys : TokenExpires(k)
    \/ \E c \in Clients : LinkFails(c)

\* Goroutines are scheduled and the clock runs.
Fairness == WF_vars(TtlPasses) /\ \A w \in Workers : WF_vars(Write(w) \/ Reach(w))

Spec == Init /\ [][Next]_vars /\ Fairness

-----------------------------------------------------------------------------
\* current always names a node that exists, on disk and in the cache, although
\* handlers that move it, delete nodes and rewrite them overlap without a lock
\* (agent.go, the fallback to localNodeID in DELETE /api/nodes/{node_id}).
Sound(s) == s.nodes[s.current] # Absent

CurrentExists == Sound(file) /\ (cache # Absent => Sound(cache))

\* Every SSH client that the panel made and has not closed is in the pool under
\* its own key or about to be put there by the request that made it: replacing,
\* probing and dropping leak none, and none is pooled after its Close
\* (pooledSSH, dropSSHPool).
PoolExact ==
    \A c \in Clients :
        status[c] \in {"open", "dead"} <=>
            \/ clients[c] # Absent /\ pool[clients[c].key] = c
            \/ \E w \in Workers : op[w].pc = "insert" /\ op[w].client = c

\* Once nobody changes the table any more, requests work from the table on disk,
\* or from the default one where that cannot be read: a slow reader may put an old
\* table back into the cache, but not for good (loadNodeStore, two seconds).
CacheHeals == <>[](CacheUsable => cache \in Loaded)

\* saveNodeStore: the lock is held "so that concurrent upserts do not overwrite
\* each other".  A save changes no record but those its own handler is about.
\* (Each handler here is about at most one record.)
SavesKeepEachOther ==
    [][\A n, m \in Ids :
          n # m => file'.nodes[n] = file.nodes[n] \/ file'.nodes[m] = file.nodes[m]]_vars

\* upsertNode drops the pooled clients "so that the new credentials take effect at
\* once", and "or connections made with the old credentials would stay usable":
\* when no request is in flight, the client pooled under the key of a node was
\* made with the node's credentials as they are now.  (Of a single node besides
\* this host, so that the key is nobody else's.)
PoolIsCurrent ==
    (\A w \in Workers : op[w].pc = "idle") =>
        \A n \in Ids \ {Local} :
            file.nodes[Local] = ThisHost /\ file.nodes[n] \in Conf =>
                LET c == pool[file.nodes[n].key] IN
                c # Absent => clients[c] = file.nodes[n]
=============================================================================
