----------------------------- MODULE TrashProofs -----------------------------
(***************************************************************************)
(* Proofs about Trash, for any number of paths, slots, files, entries and  *)
(* requests.                                                               *)
(***************************************************************************)
EXTENDS Trash, TLAPS

-----------------------------------------------------------------------------
(* The inductive invariant.                                                *)

\* A request at work has what it needs, and only deletions have entries to do.
Shaped(r) ==
    /\ r.pc \in {"move", "restore"} => r.path \in Paths
    /\ r.pc \in {"move", "restore", "delete"} => r.slot \in Slots
    /\ r.pc \in {"empty", "purge"} => r.slot = None
    /\ r.pc \notin {"empty", "purge"} => r.todo = {}

Typed == TypeOK /\ \A w \in Workers : Shaped(op[w])

Exclusive == \A w \in Workers : op[w].pc # "idle" => trashMu = w

\* No file is at two places, and the next one to be created is new.
OnePlace ==
    /\ \A x, y \in Places : disk[x] # None /\ disk[x] = disk[y] => x = y
    /\ \A x \in Places : disk[x] # None => disk[x] <= created

\* A file in the bin for which the manifest has to account.
Due(s) == disk[s] \in Files \ orphans /\ trashed[disk[s]] # None

Tagged == \A s \in Slots : Due(s) => trashed[disk[s]] \in Entry /\ trashed[disk[s]].slot = s

OnFile ==
    \A s \in Slots : Due(s) =>
        \/ trashed[disk[s]] \in manifest
        \/ \E w \in Workers : op[w].pc = "save" /\ op[w].slot = s

\* What a request holds covers the bin, if it could read the manifest, and the
\* file it has moved itself in any case.
Covered ==
    \A w \in Workers, s \in Slots :
        /\ Due(s) /\ op[w].pc # "idle" /\ ~op[w].unread
              => trashed[disk[s]] \in op[w].items \cup op[w].todo
        /\ Due(s) /\ op[w].pc = "save" /\ op[w].slot = s
              => trashed[disk[s]] \in op[w].items

Inv == Typed /\ Exclusive /\ OnePlace /\ Tagged /\ OnFile /\ Covered

\* No file has an entry before it exists.
Unborn == \A f \in Files : trashed[f] # None => f <= created

LEMMA InvListed == Inv => Listed
  BY DEF Inv, Typed, TypeOK, Request, OnFile, Covered, Listed, Due

LEMMA IdleTyped ==
    /\ Idle \in Request /\ Shaped(Idle) /\ Idle.pc = "idle"
    /\ Idle.slot = None /\ Idle.todo = {}
  BY DEF Idle, Request, Shaped

LEMMA InitInv == Init => Inv
  <1> SUFFICES ASSUME Init PROVE Inv
    OBVIOUS
  <1>1. \A w \in Workers : op[w] = Idle
    BY DEF Init
  <1>2. \A x \in Places : disk[x] = None
    BY DEF Init
  <1>3. Typed
    BY IdleTyped, TrashAssumption, <1>1 DEF Init, Typed, TypeOK, Files, Slots
  <1>4. \A s \in Slots : ~Due(s)
    BY <1>2, TrashAssumption DEF Due, Places
  <1> QED
    BY <1>1, <1>2, <1>3, <1>4, IdleTyped
    DEF Inv, Exclusive, OnePlace, Tagged, OnFile, Covered

-----------------------------------------------------------------------------
(* How requests change.                                                    *)

\* One request moves.
LEMMA OneRequest ==
    ASSUME Typed, NEW w \in Workers, NEW r \in Request, Shaped(r),
           op' = [op EXCEPT ![w] = r]
    PROVE  /\ op' \in [Workers -> Request] /\ \A v \in Workers : Shaped(op'[v])
           /\ \A v \in Workers : op'[v] = IF v = w THEN r ELSE op[v]
  <1>1. \A v \in Workers : op'[v] = IF v = w THEN r ELSE op[v]
    BY DEF Typed, TypeOK
  <1> QED BY <1>1 DEF Typed, TypeOK

LEMMA DoneRequest ==
    ASSUME Typed, NEW w \in Workers, Done(w)
    PROVE  /\ op' \in [Workers -> Request] /\ \A v \in Workers : Shaped(op'[v])
           /\ \A v \in Workers : op'[v] = IF v = w THEN Idle ELSE op[v]
           /\ trashMu' = None
  BY OneRequest, IdleTyped DEF Done

\* Whoever holds the lock is alone.
LEMMA Alone ==
    ASSUME Inv, NEW w \in Workers, op[w].pc # "idle"
    PROVE  trashMu = w /\ \A v \in Workers : v # w => op[v].pc = "idle"
  BY DEF Inv, Exclusive

LEMMA NobodyInside ==
    ASSUME Inv, trashMu = None
    PROVE  /\ \A v \in Workers : op[v].pc = "idle"
           /\ \A s \in Slots : Due(s) => trashed[disk[s]] \in manifest
  <1>1. \A v \in Workers : op[v].pc = "idle"
    BY TrashAssumption DEF Inv, Exclusive
  <1> QED BY <1>1 DEF Inv, OnFile

-----------------------------------------------------------------------------
(* Taking the lock: nothing but the request and the lock changes.          *)

LEMMA LockInv ==
    ASSUME Inv, NEW w \in Workers, NEW r \in Request, Shaped(r), Lock(w, r),
           r.pc \notin {"idle", "save"},
           ~r.unread => r.items \cup r.todo = manifest,
           UNCHANGED <<remote, disk, manifest, counters, history>>
    PROVE  Inv'
  <1>1. trashMu = None /\ trashMu' = w /\ op' = [op EXCEPT ![w] = r]
    BY DEF Lock
  <1>2. /\ op' \in [Workers -> Request] /\ \A v \in Workers : Shaped(op'[v])
        /\ \A v \in Workers : op'[v] = IF v = w THEN r ELSE op[v]
    BY <1>1, OneRequest DEF Inv
  <1>3. /\ \A v \in Workers : op[v].pc = "idle"
        /\ \A s \in Slots : Due(s) => trashed[disk[s]] \in manifest
    BY <1>1, NobodyInside
  <1>4. Typed'
    BY <1>1, <1>2 DEF Inv, Typed, TypeOK, counters, history
  <1>5. Exclusive'
    BY <1>1, <1>2, <1>3 DEF Exclusive
  <1>6. OnePlace' /\ Tagged'
    BY DEF Inv, OnePlace, Tagged, Due, counters, history
  <1>7. OnFile' /\ Covered'
    BY <1>2, <1>3 DEF OnFile, Covered, Due, counters, history
  <1> QED BY <1>4, <1>5, <1>6, <1>7 DEF Inv

\* What a request reads of the manifest.
LEMMA ReadTyped ==
    ASSUME Inv, NEW items \in SUBSET manifest, NEW unread \in BOOLEAN,
           Reading(items, unread)
    PROVE  items \in SUBSET Entry /\ (~unread => items = manifest)
  BY DEF Inv, Typed, TypeOK, Reading

LEMMA LockMoveInv ==
    ASSUME Inv, NEW w \in Workers, NEW p \in Paths, LockMove(w, p)
    PROVE  Inv'
  <1>1. PICK s \in Slots, items \in SUBSET manifest, unread \in BOOLEAN :
             /\ Reading(items, unread)
             /\ Lock(w, [Idle EXCEPT !.pc = "move", !.path = p, !.slot = s,
                                     !.items = items, !.unread = unread])
    BY DEF LockMove
  <1> DEFINE r == [Idle EXCEPT !.pc = "move", !.path = p, !.slot = s,
                               !.items = items, !.unread = unread]
  <1>2. items \in SUBSET Entry /\ (~unread => items = manifest)
    BY <1>1, ReadTyped
  <1>3. /\ r \in Request /\ Shaped(r) /\ r.pc = "move"
        /\ r.items = items /\ r.todo = {} /\ r.unread = unread
    BY <1>2 DEF Idle, Request, Shaped
  <1>4. Lock(w, r) /\ UNCHANGED <<remote, disk, manifest, counters, history>>
    BY <1>1 DEF LockMove
  <1> HIDE DEF r
  <1> QED BY <1>2, <1>3, <1>4, LockInv

LEMMA LockRestoreInv ==
    ASSUME Inv, NEW w \in Workers, NEW s \in Slots, LockRestore(w, s)
    PROVE  Inv'
  <1>1. PICK items \in SUBSET manifest, unread \in BOOLEAN, e \in manifest :
             /\ Reading(items, unread)
             /\ Lock(w, [Idle EXCEPT !.pc = "restore", !.path = e.home, !.slot = s,
                                     !.items = items, !.unread = unread])
    BY DEF LockRestore
  <1> DEFINE r == [Idle EXCEPT !.pc = "restore", !.path = e.home, !.slot = s,
                               !.items = items, !.unread = unread]
  <1>2. items \in SUBSET Entry /\ (~unread => items = manifest) /\ e.home \in Paths
    BY <1>1, ReadTyped DEF Inv, Typed, TypeOK, Entry
  <1>3. /\ r \in Request /\ Shaped(r) /\ r.pc = "restore"
        /\ r.items = items /\ r.todo = {} /\ r.unread = unread
    BY <1>2 DEF Idle, Request, Shaped
  <1>4. Lock(w, r) /\ UNCHANGED <<remote, disk, manifest, counters, history>>
    BY <1>1 DEF LockRestore
  <1> HIDE DEF r
  <1> QED BY <1>2, <1>3, <1>4, LockInv

LEMMA LockDeleteInv ==
    ASSUME Inv, NEW w \in Workers, NEW s \in Slots, LockDelete(w, s)
    PROVE  Inv'
  <1>1. PICK items \in SUBSET manifest, unread \in BOOLEAN :
             /\ Reading(items, unread)
             /\ Lock(w, [Idle EXCEPT !.pc = "delete", !.slot = s, !.items = items,
                                     !.unread = unread])
    BY DEF LockDelete
  <1> DEFINE r == [Idle EXCEPT !.pc = "delete", !.slot = s, !.items = items,
                               !.unread = unread]
  <1>2. items \in SUBSET Entry /\ (~unread => items = manifest)
    BY <1>1, ReadTyped
  <1>3. /\ r \in Request /\ Shaped(r) /\ r.pc = "delete"
        /\ r.items = items /\ r.todo = {} /\ r.unread = unread
    BY <1>2 DEF Idle, Request, Shaped
  <1>4. Lock(w, r) /\ UNCHANGED <<remote, disk, manifest, counters, history>>
    BY <1>1 DEF LockDelete
  <1> HIDE DEF r
  <1> QED BY <1>2, <1>3, <1>4, LockInv

LEMMA LockEmptyInv ==
    ASSUME Inv, NEW w \in Workers, LockEmpty(w)
    PROVE  Inv'
  <1>1. PICK items \in SUBSET manifest, unread \in BOOLEAN :
             /\ Reading(items, unread)
             /\ Lock(w, [Idle EXCEPT !.pc = "empty", !.todo = items, !.dirty = TRUE,
                                     !.unread = unread])
    BY DEF LockEmpty
  <1> DEFINE r == [Idle EXCEPT !.pc = "empty", !.todo = items, !.dirty = TRUE,
                               !.unread = unread]
  <1>2. items \in SUBSET Entry /\ (~unread => items = manifest)
    BY <1>1, ReadTyped
  <1>3. /\ r \in Request /\ Shaped(r) /\ r.pc = "empty"
        /\ r.items = {} /\ r.todo = items /\ r.unread = unread
    BY <1>2 DEF Idle, Request, Shaped
  <1>4. Lock(w, r) /\ UNCHANGED <<remote, disk, manifest, counters, history>>
    BY <1>1 DEF LockEmpty
  <1> HIDE DEF r
  <1> QED BY <1>2, <1>3, <1>4, LockInv

LEMMA LockPurgeInv ==
    ASSUME Inv, NEW w \in Workers, LockPurge(w)
    PROVE  Inv'
  <1>1. PICK items \in SUBSET manifest, unread \in BOOLEAN :
             /\ Reading(items, unread)
             /\ Lock(w, [Idle EXCEPT !.pc = "purge", !.todo = Expired(items),
                                     !.items = items \ Expired(items),
                                     !.unread = unread])
    BY DEF LockPurge
  <1> DEFINE r == [Idle EXCEPT !.pc = "purge", !.todo = Expired(items),
                               !.items = items \ Expired(items), !.unread = unread]
  <1>2. /\ items \in SUBSET Entry /\ (~unread => items = manifest)
        /\ Expired(items) \subseteq items
    BY <1>1, ReadTyped DEF Expired
  <1>3. /\ r \in Request /\ Shaped(r) /\ r.pc = "purge" /\ r.unread = unread
        /\ r.items = items \ Expired(items) /\ r.todo = Expired(items)
    BY <1>2 DEF Idle, Request, Shaped
  <1>4. Lock(w, r) /\ UNCHANGED <<remote, disk, manifest, counters, history>>
    BY <1>1 DEF LockPurge
  <1> HIDE DEF r
  <1>5. ~r.unread => r.items \cup r.todo = manifest
    BY <1>2, <1>3
  <1> QED BY <1>3, <1>4, <1>5, LockInv

-----------------------------------------------------------------------------
(* Files move and go.                                                      *)

LEMMA MovedFile ==
    ASSUME Inv, NEW x \in Places, NEW y \in Places, x # y,
           disk' = Moved(x, y), created' = created
    PROVE  /\ disk' \in [Places -> Files \cup {None}] /\ OnePlace'
           /\ \A z \in Places : disk'[z] = IF z = y THEN disk[x]
                                          ELSE IF z = x THEN None ELSE disk[z]
  <1>1. \A z \in Places : disk'[z] = IF z = y THEN disk[x]
                                     ELSE IF z = x THEN None ELSE disk[z]
    BY DEF Inv, Typed, TypeOK, Moved
  <1>2. disk' \in [Places -> Files \cup {None}]
    BY DEF Inv, Typed, TypeOK, Moved
  <1>3. OnePlace'
    BY <1>1 DEF Inv, OnePlace
  <1> QED BY <1>1, <1>2, <1>3

LEMMA RemovedFile ==
    ASSUME Inv, NEW x \in Places, disk' = Removed(x), created' = created
    PROVE  /\ disk' \in [Places -> Files \cup {None}] /\ OnePlace'
           /\ \A z \in Places : disk'[z] = IF z = x THEN None ELSE disk[z]
  <1>1. \A z \in Places : disk'[z] = IF z = x THEN None ELSE disk[z]
    BY DEF Inv, Typed, TypeOK, Removed
  <1>2. disk' \in [Places -> Files \cup {None}]
    BY DEF Inv, Typed, TypeOK, Removed
  <1>3. OnePlace'
    BY <1>1 DEF Inv, OnePlace
  <1> QED BY <1>1, <1>2, <1>3

LEMMA NewFile ==
    ASSUME Inv, NEW x \in Places, created < MaxFile,
           disk' = [disk EXCEPT ![x] = created + 1], created' = created + 1
    PROVE  /\ disk' \in [Places -> Files \cup {None}] /\ OnePlace'
           /\ created' \in 0 .. MaxFile /\ created + 1 \in Files
           /\ \A z \in Places : disk'[z] = IF z = x THEN created + 1 ELSE disk[z]
  <1>1. created \in Nat /\ created + 1 \in Files /\ created + 1 \in 0 .. MaxFile
    BY TrashAssumption DEF Inv, Typed, TypeOK, Files
  <1>2. \A z \in Places : disk'[z] = IF z = x THEN created + 1 ELSE disk[z]
    BY DEF Inv, Typed, TypeOK
  <1>3. disk' \in [Places -> Files \cup {None}]
    BY <1>1 DEF Inv, Typed, TypeOK
  <1>4. \A z \in Places : disk[z] # None => disk[z] \in Nat /\ disk[z] # created + 1
    BY <1>1 DEF Inv, Typed, TypeOK, Files, OnePlace
  <1>5. OnePlace'
    BY <1>1, <1>2, <1>4, TrashAssumption DEF Inv, OnePlace, Files
  <1> QED BY <1>1, <1>2, <1>3, <1>5

\* Whoever has the lock ends its request; the bin stays as it is, but for files
\* that vanish from it or are put at risk.
LEMMA DoneInv ==
    ASSUME Inv, NEW w \in Workers, op[w].pc # "idle", Done(w),
           UNCHANGED <<remote, entries, aged, trashed>>,
           manifest' \in SUBSET Entry,
           disk' \in [Places -> Files \cup {None}], OnePlace',
           created' \in 0 .. MaxFile, orphans' \in SUBSET Files,
           \A s \in Slots : Due(s)' =>
               Due(s) /\ disk'[s] = disk[s] /\ trashed[disk[s]] \in manifest'
    PROVE  Inv'
  <1>1. /\ op' \in [Workers -> Request] /\ \A v \in Workers : Shaped(op'[v])
        /\ \A v \in Workers : op'[v] = IF v = w THEN Idle ELSE op[v]
        /\ trashMu' = None
    BY DoneRequest DEF Inv
  <1>2. \A v \in Workers : op'[v].pc = "idle"
    BY <1>1, Alone, IdleTyped
  <1>3. Typed'
    BY <1>1 DEF Inv, Typed, TypeOK
  <1>4. Exclusive' /\ Covered'
    BY <1>2 DEF Exclusive, Covered
  <1>5. Tagged' /\ OnFile'
    BY DEF Inv, Tagged, OnFile
  <1> QED BY <1>3, <1>4, <1>5 DEF Inv

\* What is accounted for while nothing of its own is at risk.
LEMMA OthersOnFile ==
    ASSUME Inv, NEW w \in Workers, op[w].pc # "idle",
           NEW s \in Slots, Due(s), op[w].pc # "save" \/ op[w].slot # s
    PROVE  trashed[disk[s]] \in manifest
  BY Alone DEF Inv, OnFile

LEMMA MoveFailsInv ==
    ASSUME Inv, NEW w \in Workers, op[w].pc \in {"move", "restore"},
           NEW x \in Places, NEW y \in Places, x # y, MoveFails(w, x, y),
           UNCHANGED <<remote, manifest, entries, aged, trashed>>
    PROVE  Inv'
  <1>1. Done(w) /\ op[w].pc # "idle" /\ manifest' \in SUBSET Entry
    BY DEF MoveFails, Inv, Typed, TypeOK
  <1>2. \A s \in Slots : Due(s) => trashed[disk[s]] \in manifest
    BY OthersOnFile, <1>1
  <1>3. created \in 0 .. MaxFile /\ orphans \in SUBSET Files /\ Slots \subseteq Places
    BY DEF Inv, Typed, TypeOK, Places
  <1>4. CASE UNCHANGED <<disk, created, orphans>>
    <2>1. disk' \in [Places -> Files \cup {None}] /\ OnePlace'
      BY <1>4 DEF Inv, Typed, TypeOK, OnePlace
    <2>2. \A s \in Slots : Due(s)' => Due(s) /\ disk'[s] = disk[s]
      BY <1>4 DEF Due
    <2> QED BY <1>1, <1>2, <1>3, <1>4, <2>1, <2>2, DoneInv
  <1>5. CASE /\ created < MaxFile
             /\ created' = created + 1
             /\ disk' = [disk EXCEPT ![y] = created + 1]
             /\ orphans' = orphans \cup {created + 1}
    <2>1. /\ disk' \in [Places -> Files \cup {None}] /\ OnePlace'
          /\ created' \in 0 .. MaxFile /\ created + 1 \in Files
          /\ \A z \in Places : disk'[z] = IF z = y THEN created + 1 ELSE disk[z]
      BY <1>5, NewFile
    <2>2. \A s \in Slots : Due(s)' => Due(s) /\ disk'[s] = disk[s]
      BY <1>3, <1>5, <2>1 DEF Due
    <2> QED BY <1>1, <1>2, <1>3, <1>5, <2>1, <2>2, DoneInv
  <1>6. CASE /\ disk[x] # None
             /\ disk' = Moved(x, y)
             /\ orphans' = orphans \cup {disk[x]}
             /\ UNCHANGED created
    <2>1. /\ disk' \in [Places -> Files \cup {None}] /\ OnePlace'
          /\ \A z \in Places : disk'[z] = IF z = y THEN disk[x]
                                         ELSE IF z = x THEN None ELSE disk[z]
      BY <1>6, MovedFile
    <2>2. disk[x] \in Files
      BY <1>6 DEF Inv, Typed, TypeOK
    <2>3. \A s \in Slots : Due(s)' => Due(s) /\ disk'[s] = disk[s]
      BY <1>3, <1>6, <2>1, TrashAssumption DEF Due
    <2> QED BY <1>1, <1>2, <1>3, <1>6, <2>1, <2>2, <2>3, DoneInv
  <1> QED BY <1>4, <1>5, <1>6 DEF MoveFails

-----------------------------------------------------------------------------
(* The steps of a critical section.                                        *)

\* Whoever has the lock goes on to r.
LEMMA GoOnInv ==
    ASSUME Inv, NEW w \in Workers, op[w].pc # "idle",
           NEW r \in Request, Shaped(r), r.pc # "idle", op' = [op EXCEPT ![w] = r],
           UNCHANGED <<remote, manifest, trashMu, aged, created>>,
           disk' \in [Places -> Files \cup {None}], OnePlace',
           entries' \in 0 .. MaxEntry, orphans' \in SUBSET Files,
           trashed' \in [Files -> Entry \cup {None}],
           Tagged',
           \A s \in Slots : Due(s)' =>
               /\ trashed'[disk'[s]] \in manifest \/ (r.pc = "save" /\ r.slot = s)
               /\ ~r.unread => trashed'[disk'[s]] \in r.items \cup r.todo
               /\ r.pc = "save" /\ r.slot = s => trashed'[disk'[s]] \in r.items
    PROVE  Inv'
  <1>1. /\ op' \in [Workers -> Request] /\ \A v \in Workers : Shaped(op'[v])
        /\ \A v \in Workers : op'[v] = IF v = w THEN r ELSE op[v]
    BY OneRequest DEF Inv
  <1>2. trashMu = w /\ \A v \in Workers : v # w => op[v].pc = "idle"
    BY Alone
  <1>3. Typed'
    BY <1>1 DEF Inv, Typed, TypeOK
  <1>4. Exclusive'
    BY <1>1, <1>2 DEF Exclusive
  <1>5. OnFile'
    BY <1>1 DEF OnFile
  <1>6. Covered'
    BY <1>1, <1>2 DEF Covered
  <1> QED BY <1>3, <1>4, <1>5, <1>6 DEF Inv

\* What w holds covers the other slots.
LEMMA HeldCovers ==
    ASSUME Inv, NEW w \in Workers, op[w].pc # "idle", NEW s \in Slots, Due(s),
           ~op[w].unread
    PROVE  trashed[disk[s]] \in op[w].items \cup op[w].todo
  BY DEF Inv, Covered

LEMMA MoveInv ==
    ASSUME Inv, NEW w \in Workers, Move(w)
    PROVE  Inv'
  <1>0. /\ op[w] \in Request /\ Shaped(op[w]) /\ op[w].pc = "move"
        /\ op[w].path \in Paths /\ op[w].slot \in Slots /\ op[w].todo = {}
    BY DEF Move, Inv, Typed, TypeOK, Shaped
  <1> PICK p \in Paths, s \in Slots : p = op[w].path /\ s = op[w].slot
    BY <1>0
  <1> PICK item : item = [id |-> entries + 1, slot |-> s, home |-> p]
    OBVIOUS
  <1> DEFINE r == [op[w] EXCEPT !.pc = "save", !.items = @ \cup {item}]
  <1>1. /\ op[w] \in Request /\ Shaped(op[w]) /\ op[w].pc = "move"
        /\ p \in Paths /\ s \in Slots /\ op[w].todo = {}
    BY <1>0
  <1>2. p \in Places /\ s \in Places /\ p # s /\ Slots \subseteq Places
    BY <1>1, TrashAssumption DEF Places
  <1>3. CASE MoveFails(w, p, s) /\ UNCHANGED <<entries, trashed>>
    BY <1>1, <1>2, <1>3, MoveFailsInv DEF Move
  <1>4. CASE /\ disk[p] # None /\ entries < MaxEntry
             /\ disk' = Moved(p, s)
             /\ entries' = entries + 1
             /\ trashed' = [trashed EXCEPT ![disk[p]] = item]
             /\ orphans' = orphans \ {disk[p]}
             /\ Save(w, op[w].items \cup {item})
             /\ UNCHANGED <<trashMu, created>>
    <2>1. /\ disk' \in [Places -> Files \cup {None}] /\ OnePlace'
          /\ \A z \in Places : disk'[z] = IF z = s THEN disk[p]
                                         ELSE IF z = p THEN None ELSE disk[z]
      BY <1>2, <1>4, MovedFile
    <2>2. disk[p] \in Files
      BY <1>2, <1>4 DEF Inv, Typed, TypeOK
    <2>3. item \in Entry /\ item.slot = s /\ entries' \in 0 .. MaxEntry
      BY <1>1, <1>4, TrashAssumption DEF Entry, Inv, Typed, TypeOK
    <2>4. /\ trashed' \in [Files -> Entry \cup {None}]
          /\ \A f \in Files : trashed'[f] = IF f = disk[p] THEN item ELSE trashed[f]
      BY <1>4, <2>2, <2>3 DEF Inv, Typed, TypeOK
    <2>5. /\ r \in Request /\ r.pc = "save" /\ r.slot = s /\ r.todo = {}
          /\ r.items = op[w].items \cup {item} /\ r.unread = op[w].unread
      BY <1>1, <2>3 DEF Request
    <2>6. Shaped(r)
      BY <2>5 DEF Shaped
    <2>7. op' = [op EXCEPT ![w] = r]
      BY <1>4, <1>1 DEF Save, Inv, Typed, TypeOK, Request
    <2> HIDE DEF r
    <2>8. ASSUME NEW q \in Slots, q # s, Due(q)'
          PROVE  Due(q) /\ disk'[q] = disk[q] /\ trashed'[disk'[q]] = trashed[disk[q]]
      <3>1. disk'[q] = disk[q] /\ disk[q] # disk[p] /\ q # p
        BY <1>1, <1>2, <1>4, <2>1, <2>8, TrashAssumption DEF Inv, OnePlace
      <3>2. Due(q)
        BY <1>4, <2>4, <2>8, <3>1 DEF Due
      <3> QED BY <2>4, <3>1, <3>2 DEF Due
    <2>9. Due(s)' => trashed'[disk'[s]] = item
      BY <1>2, <2>1, <2>2, <2>4
    <2>10. Tagged'
      BY <2>3, <2>8, <2>9 DEF Tagged, Inv
    <2>11. \A q \in Slots : Due(q)' =>
               /\ trashed'[disk'[q]] \in manifest \/ (r.pc = "save" /\ r.slot = q)
               /\ ~r.unread => trashed'[disk'[q]] \in r.items \cup r.todo
               /\ r.pc = "save" /\ r.slot = q => trashed'[disk'[q]] \in r.items
      <3> SUFFICES ASSUME NEW q \in Slots, Due(q)'
                   PROVE  /\ trashed'[disk'[q]] \in manifest \/ (r.pc = "save" /\ r.slot = q)
                          /\ ~r.unread => trashed'[disk'[q]] \in r.items \cup r.todo
                          /\ r.pc = "save" /\ r.slot = q => trashed'[disk'[q]] \in r.items
        OBVIOUS
      <3>1. CASE q = s
        BY <2>5, <2>9, <3>1
      <3>2. CASE q # s
        BY <1>1, <2>5, <2>8, <3>2, OthersOnFile, HeldCovers
      <3> QED BY <3>1, <3>2
    <2>12. orphans' \in SUBSET Files /\ UNCHANGED <<remote, manifest, trashMu, aged, created>>
      BY <1>4 DEF Move, Inv, Typed, TypeOK
    <2> QED BY <1>1, <2>1, <2>3, <2>4, <2>5, <2>6, <2>7, <2>10, <2>11, <2>12, GoOnInv
  <1> QED BY <1>3, <1>4 DEF Move

\* The file of one slot has gone; what remains of the request's entries still
\* covers the other slots.
LEMMA GoneFromSlot ==
    ASSUME Inv, NEW w \in Workers, op[w].pc \notin {"idle", "save"}, NEW s \in Slots,
           disk'[s] = None, \A q \in Slots : q # s => disk'[q] = disk[q],
           UNCHANGED <<trashed, orphans>>
    PROVE  /\ Tagged'
           /\ \A q \in Slots : Due(q)' =>
                 /\ q # s /\ disk'[q] = disk[q] /\ trashed[disk[q]].slot = q
                 /\ trashed[disk[q]] \in manifest
                 /\ ~op[w].unread => trashed[disk[q]] \in op[w].items \cup op[w].todo
  <1>1. \A q \in Slots : Due(q)' => q # s /\ disk'[q] = disk[q] /\ Due(q)
    BY TrashAssumption DEF Due
  <1>2. Tagged'
    BY <1>1 DEF Inv, Tagged
  <1>3. \A q \in Slots : Due(q)' => trashed[disk[q]].slot = q
    BY <1>1 DEF Inv, Tagged
  <1> QED BY <1>1, <1>2, <1>3, OthersOnFile, HeldCovers

LEMMA RestoreInv ==
    ASSUME Inv, NEW w \in Workers, Restore(w)
    PROVE  Inv'
  <1>0. /\ op[w] \in Request /\ op[w].pc = "restore" /\ op[w].todo = {}
        /\ op[w].path \in Paths /\ op[w].slot \in Slots
    BY DEF Restore, Inv, Typed, TypeOK, Shaped
  <1> PICK p \in Paths, s \in Slots : p = op[w].path /\ s = op[w].slot
    BY <1>0
  <1>1. p \in Places /\ s \in Places /\ p # s /\ Slots \subseteq Places
    BY TrashAssumption DEF Places
  <1>2. CASE MoveFails(w, s, p)
    BY <1>0, <1>1, <1>2, MoveFailsInv DEF Restore
  <1>3. CASE /\ disk' = Moved(s, p)
             /\ Save(w, op[w].items \ About(op[w].items, s))
             /\ UNCHANGED <<trashMu, created, orphans>>
    <2> DEFINE r == [op[w] EXCEPT !.pc = "save",
                                  !.items = op[w].items \ About(op[w].items, s)]
    <2>1. /\ disk' \in [Places -> Files \cup {None}] /\ OnePlace'
          /\ \A z \in Places : disk'[z] = IF z = p THEN disk[s]
                                         ELSE IF z = s THEN None ELSE disk[z]
      BY <1>1, <1>3, MovedFile
    <2>2. disk'[s] = None /\ \A q \in Slots : q # s => disk'[q] = disk[q]
      BY <1>1, <2>1, TrashAssumption
    <2>3. /\ r \in Request /\ r.pc = "save" /\ r.slot = s /\ r.todo = {}
          /\ r.items = op[w].items \ About(op[w].items, s) /\ r.unread = op[w].unread
      BY <1>0 DEF Request
    <2>4. Shaped(r)
      BY <2>3 DEF Shaped
    <2>5. op' = [op EXCEPT ![w] = r]
      BY <1>3, <1>0 DEF Save, Inv, Typed, TypeOK, Request
    <2>6. UNCHANGED <<remote, manifest, entries, aged, trashed>>
      BY DEF Restore
    <2> HIDE DEF r
    <2>7. /\ Tagged'
          /\ \A q \in Slots : Due(q)' =>
                /\ q # s /\ disk'[q] = disk[q] /\ trashed[disk[q]].slot = q
                /\ trashed[disk[q]] \in manifest
                /\ ~op[w].unread => trashed[disk[q]] \in op[w].items \cup op[w].todo
      BY <1>0, <1>3, <2>2, <2>6, GoneFromSlot
    <2>8. \A q \in Slots : Due(q)' =>
              /\ trashed'[disk'[q]] \in manifest \/ (r.pc = "save" /\ r.slot = q)
              /\ ~r.unread => trashed'[disk'[q]] \in r.items \cup r.todo
              /\ r.pc = "save" /\ r.slot = q => trashed'[disk'[q]] \in r.items
      BY <1>0, <2>3, <2>6, <2>7 DEF About
    <2>9. /\ entries' \in 0 .. MaxEntry /\ orphans' \in SUBSET Files
          /\ trashed' \in [Files -> Entry \cup {None}]
      BY <1>3, <2>6 DEF Inv, Typed, TypeOK
    <2> QED BY <1>0, <1>3, <2>1, <2>3, <2>4, <2>5, <2>6, <2>7, <2>8, <2>9, GoOnInv
  <1> QED BY <1>2, <1>3 DEF Restore

LEMMA FailedRemoval ==
    ASSUME Inv, NEW w \in Workers, op[w].pc \notin {"idle", "save"}, NEW s \in Slots,
           RemovalFails(s), UNCHANGED <<created, trashed, orphans>>
    PROVE  /\ disk' \in [Places -> Files \cup {None}] /\ OnePlace' /\ Tagged'
           /\ \A q \in Slots : Due(q)' =>
                 /\ Due(q) /\ disk'[q] = disk[q]
                 /\ trashed[disk[q]] \in manifest
                 /\ ~op[w].unread => trashed[disk[q]] \in op[w].items \cup op[w].todo
  <1>1. s \in Places /\ Slots \subseteq Places
    BY DEF Places
  <1>2. CASE disk' = disk
    <2>1. disk' \in [Places -> Files \cup {None}] /\ OnePlace' /\ Tagged'
      BY <1>2 DEF Inv, Typed, TypeOK, OnePlace, Tagged, Due
    <2>2. \A q \in Slots : Due(q)' => Due(q)
      BY <1>2 DEF Due
    <2> QED BY <1>2, <2>1, <2>2, OthersOnFile, HeldCovers
  <1>3. CASE disk' = Removed(s)
    <2>1. /\ disk' \in [Places -> Files \cup {None}] /\ OnePlace'
          /\ \A z \in Places : disk'[z] = IF z = s THEN None ELSE disk[z]
      BY <1>1, <1>3, RemovedFile
    <2>2. \A q \in Slots : Due(q)' => Due(q)
      BY <1>1, <2>1, TrashAssumption DEF Due
    <2> QED BY <1>1, <2>1, <2>2, GoneFromSlot
  <1> QED BY <1>2, <1>3 DEF RemovalFails

LEMMA DeleteInv ==
    ASSUME Inv, NEW w \in Workers, Delete(w)
    PROVE  Inv'
  <1>0. /\ op[w] \in Request /\ op[w].pc = "delete" /\ op[w].todo = {}
        /\ op[w].slot \in Slots
    BY DEF Delete, Inv, Typed, TypeOK, Shaped
  <1> PICK s \in Slots : s = op[w].slot
    BY <1>0
  <1>1. s \in Places /\ Slots \subseteq Places
    BY DEF Places
  <1>2. UNCHANGED <<remote, manifest, created, entries, aged, trashed, orphans>>
    BY DEF Delete, counters, history
  <1>3. /\ manifest \in SUBSET Entry /\ created \in 0 .. MaxFile
        /\ entries \in 0 .. MaxEntry /\ orphans \in SUBSET Files
        /\ trashed \in [Files -> Entry \cup {None}]
    BY DEF Inv, Typed, TypeOK
  <1>4. CASE RemovalFails(s) /\ Done(w)
    <2>1. /\ disk' \in [Places -> Files \cup {None}] /\ OnePlace'
          /\ \A q \in Slots : Due(q)' =>
                Due(q) /\ disk'[q] = disk[q] /\ trashed[disk[q]] \in manifest
      BY <1>0, <1>2, <1>4, FailedRemoval
    <2> QED BY <1>0, <1>2, <1>3, <1>4, <2>1, DoneInv
  <1>5. CASE /\ disk' = Removed(s)
             /\ Save(w, op[w].items \ About(op[w].items, s))
             /\ UNCHANGED trashMu
    <2> DEFINE r == [op[w] EXCEPT !.pc = "save",
                                  !.items = op[w].items \ About(op[w].items, s)]
    <2>1. /\ disk' \in [Places -> Files \cup {None}] /\ OnePlace'
          /\ \A z \in Places : disk'[z] = IF z = s THEN None ELSE disk[z]
      BY <1>1, <1>2, <1>5, RemovedFile
    <2>2. /\ r \in Request /\ r.pc = "save" /\ r.slot = s /\ r.todo = {}
          /\ r.items = op[w].items \ About(op[w].items, s) /\ r.unread = op[w].unread
      BY <1>0 DEF Request
    <2>3. Shaped(r)
      BY <2>2 DEF Shaped
    <2>4. op' = [op EXCEPT ![w] = r]
      BY <1>5, <1>0 DEF Save, Inv, Typed, TypeOK, Request
    <2> HIDE DEF r
    <2>5. /\ Tagged'
          /\ \A q \in Slots : Due(q)' =>
                /\ q # s /\ disk'[q] = disk[q] /\ trashed[disk[q]].slot = q
                /\ trashed[disk[q]] \in manifest
                /\ ~op[w].unread => trashed[disk[q]] \in op[w].items \cup op[w].todo
      BY <1>0, <1>1, <1>2, <2>1, GoneFromSlot
    <2>6. \A q \in Slots : Due(q)' =>
              /\ trashed'[disk'[q]] \in manifest \/ (r.pc = "save" /\ r.slot = q)
              /\ ~r.unread => trashed'[disk'[q]] \in r.items \cup r.todo
              /\ r.pc = "save" /\ r.slot = q => trashed'[disk'[q]] \in r.items
      BY <1>0, <1>2, <2>2, <2>5 DEF About
    <2> QED BY <1>0, <1>2, <1>3, <1>5, <2>1, <2>2, <2>3, <2>4, <2>5, <2>6, GoOnInv
  <1> QED BY <1>4, <1>5 DEF Delete

LEMMA SweepInv ==
    ASSUME Inv, NEW w \in Workers, Sweep(w)
    PROVE  Inv'
  <1>0. op[w] \in Request /\ op[w].pc \in {"empty", "purge"} /\ op[w].slot = None
    BY DEF Sweep, Inv, Typed, TypeOK, Shaped
  <1> PICK e \in op[w].todo :
             \/ /\ disk' = Removed(e.slot)
                /\ op' = [op EXCEPT ![w].todo = @ \ {e}, ![w].dirty = TRUE]
             \/ /\ RemovalFails(e.slot)
                /\ op' = [op EXCEPT ![w].todo = @ \ {e}, ![w].items = @ \cup {e}]
    BY DEF Sweep
  <1>1. e \in Entry /\ e.slot \in Slots
    BY <1>0 DEF Request, Entry
  <1> PICK s \in Slots : s = e.slot
    BY <1>1
  <1>2. s \in Places /\ Slots \subseteq Places
    BY DEF Places
  <1>3. UNCHANGED <<remote, manifest, trashMu, created, entries, aged, trashed, orphans>>
    BY DEF Sweep, counters, history
  <1>4. /\ entries \in 0 .. MaxEntry /\ orphans \in SUBSET Files
        /\ trashed \in [Files -> Entry \cup {None}]
    BY DEF Inv, Typed, TypeOK
  <1>5. CASE /\ disk' = Removed(s)
             /\ op' = [op EXCEPT ![w].todo = @ \ {e}, ![w].dirty = TRUE]
    <2> DEFINE r == [op[w] EXCEPT !.todo = @ \ {e}, !.dirty = TRUE]
    <2>1. /\ disk' \in [Places -> Files \cup {None}] /\ OnePlace'
          /\ \A z \in Places : disk'[z] = IF z = s THEN None ELSE disk[z]
      BY <1>2, <1>3, <1>5, RemovedFile
    <2>2. /\ r \in Request /\ r.pc \in {"empty", "purge"} /\ r.todo = op[w].todo \ {e}
          /\ r.items = op[w].items /\ r.unread = op[w].unread
      BY <1>0 DEF Request
    <2>3. Shaped(r)
      BY <1>0, <2>2 DEF Shaped
    <2>4. op' = [op EXCEPT ![w] = r]
      BY <1>5, <1>0 DEF Inv, Typed, TypeOK, Request
    <2> HIDE DEF r
    <2>5. /\ Tagged'
          /\ \A q \in Slots : Due(q)' =>
                /\ q # s /\ disk'[q] = disk[q] /\ trashed[disk[q]].slot = q
                /\ trashed[disk[q]] \in manifest
                /\ ~op[w].unread => trashed[disk[q]] \in op[w].items \cup op[w].todo
      BY <1>0, <1>2, <1>3, <2>1, GoneFromSlot
    <2>6. \A q \in Slots : Due(q)' =>
              /\ trashed'[disk'[q]] \in manifest \/ (r.pc = "save" /\ r.slot = q)
              /\ ~r.unread => trashed'[disk'[q]] \in r.items \cup r.todo
              /\ r.pc = "save" /\ r.slot = q => trashed'[disk'[q]] \in r.items
      BY <1>3, <2>2, <2>5
    <2> QED BY <1>0, <1>3, <1>4, <2>1, <2>2, <2>3, <2>4, <2>5, <2>6, GoOnInv
  <1>6. CASE /\ RemovalFails(s)
             /\ op' = [op EXCEPT ![w].todo = @ \ {e}, ![w].items = @ \cup {e}]
    <2> DEFINE r == [op[w] EXCEPT !.todo = @ \ {e}, !.items = @ \cup {e}]
    <2>1. /\ disk' \in [Places -> Files \cup {None}] /\ OnePlace' /\ Tagged'
          /\ \A q \in Slots : Due(q)' =>
                /\ Due(q) /\ disk'[q] = disk[q]
                /\ trashed[disk[q]] \in manifest
                /\ ~op[w].unread => trashed[disk[q]] \in op[w].items \cup op[w].todo
      BY <1>0, <1>3, <1>6, FailedRemoval
    <2>2. /\ r \in Request /\ r.pc \in {"empty", "purge"} /\ r.todo = op[w].todo \ {e}
          /\ r.items = op[w].items \cup {e} /\ r.unread = op[w].unread
      BY <1>0, <1>1 DEF Request
    <2>3. Shaped(r)
      BY <1>0, <2>2 DEF Shaped
    <2>4. op' = [op EXCEPT ![w] = r]
      BY <1>6, <1>0 DEF Inv, Typed, TypeOK, Request
    <2> HIDE DEF r
    <2>5. \A q \in Slots : Due(q)' =>
              /\ trashed'[disk'[q]] \in manifest \/ (r.pc = "save" /\ r.slot = q)
              /\ ~r.unread => trashed'[disk'[q]] \in r.items \cup r.todo
              /\ r.pc = "save" /\ r.slot = q => trashed'[disk'[q]] \in r.items
      BY <1>3, <2>1, <2>2
    <2> QED BY <1>0, <1>3, <1>4, <2>1, <2>2, <2>3, <2>4, <2>5, GoOnInv
  <1> QED BY <1>5, <1>6

LEMMA SweptInv ==
    ASSUME Inv, NEW w \in Workers, Swept(w)
    PROVE  Inv'
  <1>0. /\ op[w] \in Request /\ op[w].pc \in {"empty", "purge"}
        /\ op[w].todo = {} /\ op[w].slot = None
    BY DEF Swept, Inv, Typed, TypeOK, Shaped
  <1>1. UNCHANGED <<remote, disk, manifest, created, entries, aged, trashed, orphans>>
    BY DEF Swept, counters, history
  <1>2. /\ manifest \in SUBSET Entry /\ created \in 0 .. MaxFile
        /\ entries \in 0 .. MaxEntry /\ orphans \in SUBSET Files
        /\ trashed \in [Files -> Entry \cup {None}]
        /\ disk \in [Places -> Files \cup {None}]
    BY DEF Inv, Typed, TypeOK
  <1>3. OnePlace' /\ Tagged' /\ \A s \in Slots : Due(s)' <=> Due(s)
    BY <1>1 DEF Inv, OnePlace, Tagged, Due
  <1>4. CASE Done(w)
    <2>1. \A s \in Slots : Due(s)' =>
              Due(s) /\ disk'[s] = disk[s] /\ trashed[disk[s]] \in manifest'
      BY <1>0, <1>1, <1>3, OthersOnFile
    <2> QED BY <1>0, <1>1, <1>2, <1>3, <1>4, <2>1, DoneInv
  <1>5. CASE Save(w, op[w].items) /\ UNCHANGED trashMu
    <2> DEFINE r == [op[w] EXCEPT !.pc = "save", !.items = op[w].items]
    <2>1. /\ r \in Request /\ r.pc = "save" /\ r.todo = {} /\ r.slot = op[w].slot
          /\ r.items = op[w].items /\ r.unread = op[w].unread
      BY <1>0 DEF Request
    <2>2. Shaped(r)
      BY <2>1 DEF Shaped
    <2>3. op' = [op EXCEPT ![w] = r]
      BY <1>5, <1>0 DEF Save, Inv, Typed, TypeOK, Request
    <2>4. r.slot = None
      BY <1>0, <2>1
    <2> HIDE DEF r
    <2>5. \A q \in Slots : Due(q)' =>
              /\ trashed'[disk'[q]] \in manifest \/ (r.pc = "save" /\ r.slot = q)
              /\ ~r.unread => trashed'[disk'[q]] \in r.items \cup r.todo
              /\ r.pc = "save" /\ r.slot = q => trashed'[disk'[q]] \in r.items
      BY <1>0, <1>1, <1>3, <2>1, <2>4, OthersOnFile, HeldCovers, TrashAssumption DEF Places
    <2> QED BY <1>0, <1>1, <1>2, <1>3, <1>5, <2>1, <2>2, <2>3, <2>5, GoOnInv
  <1> QED BY <1>4, <1>5 DEF Swept

-----------------------------------------------------------------------------
(* The manifest is saved, or is not.                                       *)

LEMMA SavedInv ==
    ASSUME Inv, NEW w \in Workers, Saved(w)
    PROVE  Inv'
  <1>1. /\ op[w] \in Request /\ op[w].pc = "save" /\ op[w].todo = {}
        /\ op[w].items \in SUBSET Entry /\ op[w].unread \in BOOLEAN
    BY DEF Saved, Inv, Typed, TypeOK, Shaped, Request
  <1>2. UNCHANGED <<remote, disk, created, entries, aged, trashed>>
    BY DEF Saved, counters
  <1>3. /\ disk' \in [Places -> Files \cup {None}] /\ created' \in 0 .. MaxFile
        /\ orphans' \in SUBSET Files /\ manifest' \in SUBSET Entry /\ OnePlace'
    BY <1>1, <1>2 DEF Inv, Typed, TypeOK, OnePlace, Saved, Binned
  <1>4. ASSUME NEW s \in Slots, Due(s)'
        PROVE  Due(s) /\ trashed[disk[s]] \in op[w].items
    <2>1. Due(s)
      BY <1>2, <1>4 DEF Due, Saved
    <2>2. CASE op[w].unread
      BY <1>2, <1>4, <2>2 DEF Due, Saved, Binned
    <2>3. CASE ~op[w].unread
      BY <1>1, <2>1, <2>3, HeldCovers
    <2> QED BY <1>1, <2>1, <2>2, <2>3
  <1> QED BY <1>1, <1>2, <1>3, <1>4, DoneInv DEF Saved

LEMMA SaveFailsInv ==
    ASSUME Inv, NEW w \in Workers, SaveFails(w)
    PROVE  Inv'
  <1>1. op[w] \in Request /\ op[w].pc = "save"
    BY DEF SaveFails, Inv, Typed, TypeOK
  <1>2. UNCHANGED <<remote, disk, created, entries, aged, trashed>>
    BY DEF SaveFails, counters
  <1>3. /\ disk' \in [Places -> Files \cup {None}] /\ created' \in 0 .. MaxFile
        /\ orphans' \in SUBSET Files /\ manifest' \in SUBSET Entry /\ OnePlace'
    BY <1>1, <1>2 DEF Inv, Typed, TypeOK, OnePlace, SaveFails, Binned, InHand
  <1>4. ASSUME NEW s \in Slots, Due(s)'
        PROVE  Due(s) /\ trashed[disk[s]] \in manifest'
    <2>1. Due(s)
      BY <1>2, <1>4 DEF Due, SaveFails
    <2>2. CASE UNCHANGED manifest /\ orphans' = orphans \cup InHand(w)
      <3>1. op[w].slot # s
        BY <1>1, <1>2, <1>4, <2>2, TrashAssumption DEF Due, InHand, Places
      <3> QED BY <1>1, <2>1, <2>2, <3>1, OthersOnFile
    <2>3. CASE manifest' = {} /\ orphans' = orphans \cup Binned
      BY <1>2, <1>4, <2>3 DEF Due, Binned
    <2> QED BY <2>1, <2>2, <2>3 DEF SaveFails
  <1> QED BY <1>1, <1>2, <1>3, <1>4, DoneInv DEF SaveFails

-----------------------------------------------------------------------------
(* Those who do not hold the lock.                                         *)

\* The requests, the lock and the manifest stay as they are; so does the bin, but
\* for files that vanish from it.
LEMMA BystanderInv ==
    ASSUME Inv,
           UNCHANGED <<remote, manifest, trashMu, orphans, op>>,
           disk' \in [Places -> Files \cup {None}], OnePlace',
           trashed' \in [Files -> Entry \cup {None}],
           created' \in 0 .. MaxFile, entries' \in 0 .. MaxEntry, aged' \in 0 .. MaxEntry,
           \A s \in Slots : Due(s)' =>
               Due(s) /\ disk'[s] = disk[s] /\ trashed'[disk[s]] = trashed[disk[s]]
    PROVE  Inv'
  <1>1. Typed' /\ Exclusive'
    BY DEF Inv, Typed, TypeOK, Exclusive
  <1>2. Tagged' /\ OnFile' /\ Covered'
    BY DEF Inv, Tagged, OnFile, Covered
  <1> QED BY <1>1, <1>2 DEF Inv

LEMMA TrashedTyped == Inv => trashed \in [Files -> Entry \cup {None}]
  BY DEF Inv, Typed, TypeOK

LEMMA CreateInv ==
    ASSUME Inv, Unborn, NEW x \in Places, Create(x)
    PROVE  Inv'
  <1>1. Slots \subseteq Places
    BY DEF Places
  <1>2. /\ created < MaxFile /\ created' = created + 1 /\ disk[x] = None
        /\ disk' = [disk EXCEPT ![x] = created + 1]
        /\ UNCHANGED <<remote, manifest, trashMu, entries, aged, trashed, orphans, op>>
    BY DEF Create, history
  <1>3. /\ disk' \in [Places -> Files \cup {None}] /\ OnePlace'
        /\ created' \in 0 .. MaxFile /\ created + 1 \in Files
        /\ \A z \in Places : disk'[z] = IF z = x THEN created + 1 ELSE disk[z]
    BY <1>1, <1>2, NewFile
  <1>4. trashed[created + 1] = None
    <2>1. created \in Nat
      BY DEF Inv, Typed, TypeOK
    <2> QED BY <1>3, <2>1 DEF Unborn
  <1>5. \A s \in Slots : Due(s)' =>
            Due(s) /\ disk'[s] = disk[s] /\ trashed'[disk[s]] = trashed[disk[s]]
    BY <1>1, <1>2, <1>3, <1>4 DEF Due
  <1>6. entries' \in 0 .. MaxEntry /\ aged' \in 0 .. MaxEntry
    BY <1>2 DEF Inv, Typed, TypeOK
  <1> QED BY <1>2, <1>3, <1>5, <1>6, TrashedTyped, BystanderInv

LEMMA DeleteForGoodInv ==
    ASSUME Inv, NEW x \in Places, DeleteForGood(x)
    PROVE  Inv'
  <1>1. /\ disk' = Removed(x)
        /\ UNCHANGED <<remote, manifest, trashMu, created, entries, aged, trashed,
                       orphans, op>>
    BY DEF DeleteForGood, counters, history
  <1>2. /\ disk' \in [Places -> Files \cup {None}] /\ OnePlace'
        /\ \A z \in Places : disk'[z] = IF z = x THEN None ELSE disk[z]
    BY <1>1, RemovedFile
  <1>3. \A s \in Slots : Due(s)' =>
            Due(s) /\ disk'[s] = disk[s] /\ trashed'[disk[s]] = trashed[disk[s]]
    BY <1>1, <1>2, TrashAssumption DEF Due, Places
  <1>4. /\ created' \in 0 .. MaxFile /\ entries' \in 0 .. MaxEntry
        /\ aged' \in 0 .. MaxEntry
    BY <1>1 DEF Inv, Typed, TypeOK
  <1> QED BY <1>1, <1>2, <1>3, <1>4, TrashedTyped, BystanderInv

\* A file that is put into the bin by hand is not one that was moved there.
LEMMA RenameInv ==
    ASSUME Inv, NEW x \in Places, NEW y \in Places, Rename(x, y)
    PROVE  Inv'
  <1>1. /\ disk' = Moved(x, y) /\ disk[x] # None /\ disk[y] = None
        /\ trashed' = IF y \in Slots THEN [trashed EXCEPT ![disk[x]] = None] ELSE trashed
        /\ UNCHANGED <<remote, manifest, trashMu, created, entries, aged, orphans, op>>
    BY DEF Rename, counters
  <1>2. /\ disk' \in [Places -> Files \cup {None}] /\ OnePlace'
        /\ \A z \in Places : disk'[z] = IF z = y THEN disk[x]
                                       ELSE IF z = x THEN None ELSE disk[z]
    BY <1>1, MovedFile
  <1>3. disk[x] \in Files /\ Slots \subseteq Places
    BY <1>1 DEF Inv, Typed, TypeOK, Places
  <1>4. trashed' \in [Files -> Entry \cup {None}]
    BY <1>1, <1>3, TrashedTyped
  <1>5. ASSUME NEW s \in Slots, Due(s)'
        PROVE  Due(s) /\ disk'[s] = disk[s] /\ trashed'[disk[s]] = trashed[disk[s]]
    <2>1. s # y
      BY <1>1, <1>2, <1>3, <1>5, TrashedTyped DEF Due
    <2>2. s # x
      BY <1>2, <1>3, <1>5, <2>1, TrashAssumption DEF Due
    <2>3. disk'[s] = disk[s] /\ disk[s] \in Files
      BY <1>2, <1>3, <1>5, <2>1, <2>2 DEF Due
    <2>4. disk[s] # disk[x]
      BY <1>1, <1>3, <2>2 DEF Inv, OnePlace
    <2>5. trashed'[disk[s]] = trashed[disk[s]]
      BY <1>1, <2>3, <2>4, TrashedTyped
    <2> QED BY <1>1, <1>5, <2>3, <2>5 DEF Due
  <1>6. /\ created' \in 0 .. MaxFile /\ entries' \in 0 .. MaxEntry
        /\ aged' \in 0 .. MaxEntry
    BY <1>1 DEF Inv, Typed, TypeOK
  <1> QED BY <1>1, <1>2, <1>4, <1>5, <1>6, BystanderInv

LEMMA AgeInv == Inv /\ Age => Inv'
  <1> SUFFICES ASSUME Inv, Age PROVE Inv'
    OBVIOUS
  <1>1. UNCHANGED <<remote, disk, manifest, trashMu, created, entries, trashed, orphans, op>>
    BY DEF Age, history
  <1>2. /\ disk' \in [Places -> Files \cup {None}] /\ OnePlace'
        /\ created' \in 0 .. MaxFile /\ entries' \in 0 .. MaxEntry
    BY <1>1 DEF Inv, Typed, TypeOK, OnePlace
  <1>3. aged' \in 0 .. MaxEntry
    BY TrashAssumption DEF Age, Inv, Typed, TypeOK
  <1>4. \A s \in Slots : Due(s)' =>
            Due(s) /\ disk'[s] = disk[s] /\ trashed'[disk[s]] = trashed[disk[s]]
    BY <1>1 DEF Due
  <1> QED BY <1>1, <1>2, <1>3, <1>4, TrashedTyped, BystanderInv

\* The file in hand is at risk, and all the others are in the manifest.
LEMMA CrashInv == Inv /\ Crash => Inv'
  <1> SUFFICES ASSUME Inv, Crash PROVE Inv'
    OBVIOUS
  <1>1. /\ UNCHANGED <<remote, disk, manifest, created, entries, aged, trashed>>
        /\ trashMu' = None /\ \A w \in Workers : op'[w] = Idle
        /\ op' \in [Workers -> Request]
    BY IdleTyped DEF Crash, counters
  <1>2. \A w \in Workers : op'[w].pc = "idle"
    BY <1>1, IdleTyped
  <1>3. orphans \subseteq orphans' /\ orphans' \in SUBSET Files
    BY DEF Crash, InHand, Inv, Typed, TypeOK
  <1>4. Typed'
    BY <1>1, <1>3, IdleTyped DEF Inv, Typed, TypeOK
  <1>5. Exclusive' /\ Covered'
    BY <1>2 DEF Exclusive, Covered
  <1>6. \A s \in Slots : Due(s)' => Due(s) /\ disk'[s] = disk[s]
    BY <1>1, <1>3 DEF Due
  <1>7. OnePlace' /\ Tagged'
    BY <1>1, <1>6 DEF Inv, OnePlace, Tagged
  <1>8. ASSUME NEW s \in Slots, Due(s)'
        PROVE  trashed[disk[s]] \in manifest
    <2>1. Due(s)
      BY <1>6, <1>8
    <2>2. ASSUME NEW w \in Workers, op[w].pc = "save", op[w].slot = s
          PROVE  FALSE
      <3>1. disk[s] \in InHand(w)
        BY <2>1, <2>2, TrashAssumption DEF InHand, Due, Places
      <3>2. disk[s] \in orphans'
        BY <3>1 DEF Crash
      <3> QED BY <1>1, <1>8, <3>2 DEF Due
    <2> QED BY <2>1, <2>2 DEF Inv, OnFile
  <1>9. OnFile'
    BY <1>1, <1>8 DEF OnFile
  <1> QED BY <1>4, <1>5, <1>7, <1>9 DEF Inv

-----------------------------------------------------------------------------
(* The theorems.                                                           *)

LEMMA NextInv == Inv /\ Unborn /\ [Next]_vars => Inv'
  <1> SUFFICES ASSUME Inv, Unborn, [Next]_vars PROVE Inv'
    OBVIOUS
  <1>1. ASSUME NEW w \in Workers, Start(w) PROVE Inv'
    BY <1>1, LockMoveInv, LockRestoreInv, LockDeleteInv, LockEmptyInv, LockPurgeInv
    DEF Start
  <1>2. ASSUME NEW w \in Workers, Step(w) PROVE Inv'
    BY <1>2, MoveInv, RestoreInv, DeleteInv, SweepInv, SweptInv, SavedInv, SaveFailsInv
    DEF Step
  <1>3. ASSUME NEW x \in Hands, Create(x) \/ DeleteForGood(x) PROVE Inv'
    BY <1>3, CreateInv, DeleteForGoodInv, TrashAssumption
  <1>4. ASSUME NEW x \in Hands, NEW y \in Hands, Rename(x, y) PROVE Inv'
    BY <1>4, RenameInv, TrashAssumption
  <1>5. CASE UNCHANGED vars
    BY <1>5 DEF vars, counters, history, Inv, Typed, TypeOK, Exclusive, OnePlace,
                Tagged, OnFile, Covered, Due
  <1> QED BY <1>1, <1>2, <1>3, <1>4, <1>5, AgeInv, CrashInv DEF Next

\* Entries are made for files on the disk, and the count of files only grows.
LEMMA UnbornInv == Inv /\ Unborn /\ [Next]_vars => Unborn'
  <1> SUFFICES ASSUME Inv, Unborn, [Next]_vars PROVE Unborn'
    OBVIOUS
  <1>0. /\ trashed \in [Files -> Entry \cup {None}] /\ created \in Nat
        /\ disk \in [Places -> Files \cup {None}] /\ Files \subseteq Nat
    BY TrashedTyped DEF Inv, Typed, TypeOK, Files
  <1>1. CASE UNCHANGED trashed /\ created' \in {created, created + 1}
    BY <1>0, <1>1 DEF Unborn
  <1>2. ASSUME NEW w \in Workers, Move(w) PROVE Unborn'
    <2>1. op[w].path \in Places
      BY <1>2 DEF Move, Inv, Typed, Shaped, Places
    <2>2. CASE MoveFails(w, op[w].path, op[w].slot) /\ UNCHANGED trashed
      BY <1>1, <2>2 DEF MoveFails
    <2>3. ASSUME NEW e, disk[op[w].path] # None, UNCHANGED created,
                 trashed' = [trashed EXCEPT ![disk[op[w].path]] = e]
          PROVE  Unborn'
      <3>1. disk[op[w].path] <= created
        BY <2>1, <2>3 DEF Inv, OnePlace
      <3> QED BY <1>0, <2>3, <3>1 DEF Unborn
    <2> QED BY <1>2, <2>2, <2>3 DEF Move
  <1>3. ASSUME NEW x \in Hands, NEW y \in Hands, Rename(x, y) PROVE Unborn'
    BY <1>0, <1>1, <1>3 DEF Rename, counters, Unborn
  <1>4. ASSUME NEW w \in Workers, Start(w) PROVE Unborn'
    BY <1>1, <1>4 DEF Start, LockMove, LockRestore, LockDelete, LockEmpty, LockPurge,
                      counters, history
  <1>5. ASSUME NEW w \in Workers, Restore(w) PROVE Unborn'
    BY <1>1, <1>5 DEF Restore, MoveFails
  <1>6. ASSUME NEW w \in Workers,
               Delete(w) \/ Sweep(w) \/ Swept(w) \/ Saved(w) \/ SaveFails(w)
        PROVE  Unborn'
    BY <1>1, <1>6 DEF Delete, Sweep, Swept, Saved, SaveFails, counters, history
  <1>7. ASSUME NEW x \in Hands, Create(x) \/ DeleteForGood(x) PROVE Unborn'
    BY <1>1, <1>7 DEF Create, DeleteForGood, counters, history
  <1>8. CASE Age \/ Crash \/ UNCHANGED vars
    BY <1>1, <1>8 DEF Age, Crash, vars, counters, history
  <1> QED BY <1>2, <1>3, <1>4, <1>5, <1>6, <1>7, <1>8 DEF Next, Step

LEMMA AlwaysInv == Spec => [](Inv /\ Unborn)
  <1>1. Init => Unborn
    BY DEF Init, Unborn
  <1> QED BY <1>1, InitInv, NextInv, UnbornInv, PTL DEF Spec

\* Disk, manifest, counters and requests keep their types (trash.go, trashItem).
THEOREM TypeCorrect == Spec => []TypeOK
  <1>1. Inv => TypeOK
    BY DEF Inv, Typed
  <1> QED BY <1>1, AlwaysInv, PTL

\* A file moved into the bin that no failed read, write or command and no crash has
\* put at risk has its entry in the manifest, or in the one that is about to be
\* saved (trash.go, trashMu around every read-modify-write of the manifest).
THEOREM AlwaysListed == Spec => []Listed
  BY InvListed, AlwaysInv, PTL

-----------------------------------------------------------------------------
(* Moving destroys nothing: until the file arrives, its slot stays free, or *)
(* holds only what nobody promised to keep.                                 *)

Spare(s) == disk[s] \in {None} \cup Unseen \/ trashed[disk[s]] = None

Free == ~remote => \A w \in Workers : op[w].pc = "move" => Spare(op[w].slot)

\* Only hands put anything into a slot while another request holds the lock.
LEMMA SlotStaysFree ==
    ASSUME Inv, Unborn, Free, ~remote, NEW w \in Workers, op[w].pc = "move", Next,
           op'[w].pc = "move"
    PROVE  Spare(op[w].slot)' /\ op' = op
  <1>1. op[w].slot \in Slots /\ Spare(op[w].slot)
    BY DEF Inv, Typed, Shaped, Free
  <1> PICK s \in Slots : s = op[w].slot
    BY <1>1
  <1>2. Spare(s) /\ s \in Places
    BY <1>1 DEF Places
  <1>3. trashMu = w /\ \A v \in Workers : v # w => op[v].pc = "idle"
    BY Alone
  <1>4. ASSUME NEW v \in Workers, Start(v) PROVE FALSE
    BY <1>3, <1>4, TrashAssumption
    DEF Start, LockMove, LockRestore, LockDelete, LockEmpty, LockPurge, Lock
  <1>5. ASSUME NEW v \in Workers, Step(v) PROVE FALSE
    <2>1. v = w
      BY <1>3, <1>5 DEF Step, Move, Restore, Delete, Sweep, Swept, Saved, SaveFails
    <2>2. Move(w)
      BY <1>5, <2>1 DEF Step, Restore, Delete, Sweep, Swept, Saved, SaveFails
    <2>3. op \in [Workers -> Request] /\ op[w] \in Request
      BY DEF Inv, Typed, TypeOK
    <2>4. op'[w].pc \in {"save", "idle"}
      BY <2>2, <2>3 DEF Move, MoveFails, Done, Save, Idle, Request
    <2> QED BY <2>4
  <1>6. /\ trashed \in [Files -> Entry \cup {None}]
        /\ disk \in [Places -> Files \cup {None}] /\ created \in Nat
    BY TrashedTyped DEF Inv, Typed, TypeOK
  <1>7. ASSUME NEW x \in Hands, Create(x) PROVE Spare(s)'
    <2>1. x \in Places /\ created < MaxFile /\ disk' = [disk EXCEPT ![x] = created + 1]
      BY <1>7, TrashAssumption DEF Create
    <2>2. created + 1 \in Files
      BY <1>6, <2>1, TrashAssumption DEF Files
    <2>3. trashed[created + 1] = None
      BY <1>6, <2>2 DEF Unborn
    <2> QED BY <1>2, <1>6, <1>7, <2>1, <2>3 DEF Spare, Create, history
  <1>8. ASSUME NEW x \in Hands, DeleteForGood(x) PROVE Spare(s)'
    BY <1>2, <1>6, <1>8 DEF DeleteForGood, Removed, Spare, history
  <1>9. ASSUME NEW x \in Hands, NEW y \in Hands, Rename(x, y) PROVE Spare(s)'
    <2>1. /\ x \in Places /\ y \in Places /\ disk[x] \in Files /\ disk' = Moved(x, y)
          /\ trashed' = IF y \in Slots THEN [trashed EXCEPT ![disk[x]] = None] ELSE trashed
      BY <1>6, <1>9, TrashAssumption DEF Rename
    <2>2. CASE s = y
      BY <1>2, <1>6, <2>1, <2>2 DEF Spare, Moved
    <2>3. CASE s # y
      BY <1>2, <1>6, <2>1, <2>3 DEF Spare, Moved
    <2> QED BY <2>2, <2>3
  <1>10. op' = op
    <2>1. ~Crash
      BY IdleTyped DEF Crash
    <2> QED BY <1>4, <1>5, <2>1 DEF Next, Create, DeleteForGood, Rename, Age
  <1>11. Age => Spare(s)'
    BY <1>2 DEF Age, Spare, history
  <1>12. ~Crash
    BY IdleTyped DEF Crash
  <1>13. Spare(s)'
    BY <1>4, <1>5, <1>7, <1>8, <1>9, <1>11, <1>12 DEF Next
  <1> QED BY <1>10, <1>13

\* On the panel's host, the first name that seems free is free, but for a file that
\* cannot be seen.
LEMMA FreeAtStart ==
    ASSUME Inv, ~remote, NEW w \in Workers, op[w].pc # "move", Next, op'[w].pc = "move"
    PROVE  Spare(op'[w].slot) /\ UNCHANGED <<disk, trashed>>
  <1>1. op \in [Workers -> Request]
    BY DEF Inv, Typed, TypeOK
  <1>2. ASSUME NEW v \in Workers, Step(v) PROVE op'[w].pc # "move"
    <2>1. op[v] \in Request
      BY <1>1
    <2>2. CASE Done(v)
      BY <1>1, <2>2, IdleTyped DEF Done
    <2>3. ASSUME NEW items, Save(v, items) PROVE op'[w].pc # "move"
      BY <1>1, <2>1, <2>3 DEF Save, Request
    <2>4. CASE Sweep(v)
      BY <1>1, <2>1, <2>4 DEF Sweep, Request
    <2> QED BY <1>2, <2>2, <2>3, <2>4 DEF Step, Move, Restore, Delete, Swept, Saved,
                                          SaveFails, MoveFails
  <1>3. ASSUME NEW v \in Workers, NEW r, Lock(v, r), r.pc # "move"
        PROVE  op'[w].pc # "move"
    BY <1>1, <1>3 DEF Lock
  <1>4. ASSUME NEW v \in Workers, NEW p \in Paths, LockMove(v, p)
        PROVE  Spare(op'[w].slot) /\ UNCHANGED <<disk, trashed>>
    <2>1. PICK s \in Slots, items \in SUBSET manifest, unread \in BOOLEAN :
               /\ Candidate(s)
               /\ Lock(v, [Idle EXCEPT !.pc = "move", !.path = p, !.slot = s,
                                       !.items = items, !.unread = unread])
      BY <1>4 DEF LockMove
    <2>2. v = w /\ op'[w].slot = s
      BY <1>1, <2>1 DEF Lock, Idle
    <2> QED BY <1>4, <2>1, <2>2 DEF Candidate, MayBeAbsent, LockMove, Spare, history
  <1>5. ASSUME NEW v \in Workers, LockEmpty(v) \/ LockPurge(v)
        PROVE  op'[w].pc # "move"
    BY <1>3, <1>5 DEF LockEmpty, LockPurge, Idle
  <1>6. ASSUME NEW v \in Workers, NEW s \in Slots, LockRestore(v, s) \/ LockDelete(v, s)
        PROVE  op'[w].pc # "move"
    BY <1>3, <1>6 DEF LockRestore, LockDelete, Idle
  <1> QED BY <1>2, <1>4, <1>5, <1>6
          DEF Next, Start, Create, DeleteForGood, Rename, Age, Crash, Idle

LEMMA FreeInv == Inv /\ Unborn /\ Free /\ [Next]_vars => Free'
  <1> SUFFICES ASSUME Inv, Unborn, Free, [Next]_vars, ~remote', NEW w \in Workers,
                      op'[w].pc = "move"
               PROVE  Spare(op[w].slot)'
    BY DEF Free
  <1>1. CASE UNCHANGED vars
    BY <1>1 DEF vars, Free, Spare, history
  <1>2. CASE Next
    <2>1. ~remote
      BY <1>2 DEF Next, Start, Step, LockMove, LockRestore, LockDelete, LockEmpty,
                  LockPurge, Move, Restore, Delete, Sweep, Swept, Saved, SaveFails,
                  Create, DeleteForGood, Rename, Age, Crash
    <2>2. CASE op[w].pc = "move"
      BY <1>2, <2>1, <2>2, SlotStaysFree
    <2>3. CASE op[w].pc # "move"
      BY <1>2, <2>1, <2>3, FreeAtStart DEF Spare
    <2> QED BY <2>2, <2>3
  <1> QED BY <1>1, <1>2

LEMMA MoveKeepsFiles ==
    ASSUME Inv, Free, [Next]_vars, NEW w \in Workers,
           ~remote, op[w].pc = "move", op'[w].pc # "move"
    PROVE  Kept \ Unseen \subseteq OnDisk'
  <1>1. /\ op \in [Workers -> Request] /\ disk \in [Places -> Files \cup {None}]
        /\ op[w].path \in Paths /\ op[w].slot \in Slots /\ Spare(op[w].slot)
    BY DEF Inv, Typed, TypeOK, Shaped, Free
  <1> PICK p \in Paths, s \in Slots : p = op[w].path /\ s = op[w].slot
    BY <1>1
  <1>2. p \in Places /\ s \in Places /\ p # s /\ Spare(s)
    BY <1>1, TrashAssumption DEF Places
  <1>3. trashMu = w /\ \A v \in Workers : v # w => op[v].pc = "idle"
    BY Alone
  <1>4. ASSUME NEW f \in Kept \ Unseen
        PROVE  \E z \in Places : z # s /\ disk[z] = f /\ f # None
    <2>1. f \in OnDisk /\ f # None
      BY DEF Kept, OnDisk
    <2>2. PICK z \in Places : disk[z] = f
      BY <2>1 DEF OnDisk
    <2>3. ASSUME disk[s] = f PROVE FALSE
      <3>1. trashed[f] = None
        BY <1>2, <2>1, <2>3 DEF Spare
      <3>2. PICK q \in Paths : disk[q] = f
        BY <3>1 DEF Kept
      <3>3. q \in Places /\ q # s
        BY TrashAssumption DEF Places
      <3> QED BY <1>2, <2>1, <2>3, <3>2, <3>3 DEF Inv, OnePlace
    <2> QED BY <2>1, <2>2, <2>3
  <1>5. CASE Move(w)
    <2>1. CASE disk' = Moved(p, s)
      <3>1. \A z \in Places : disk'[z] = IF z = s THEN disk[p]
                                         ELSE IF z = p THEN None ELSE disk[z]
        BY <1>1, <2>1 DEF Moved
      <3>2. ASSUME NEW z \in Places, z # s, disk[z] # None
            PROVE  \E y \in Places : disk'[y] = disk[z]
        BY <1>2, <3>1, <3>2
      <3> QED BY <1>4, <3>2 DEF OnDisk
    <2>2. CASE disk' = disk
      BY <1>4, <2>2 DEF OnDisk
    <2>3. CASE disk' = [disk EXCEPT ![s] = created + 1]
      <3>1. \A z \in Places : z # s => disk'[z] = disk[z]
        BY <1>1, <1>2, <2>3
      <3> QED BY <1>4, <3>1 DEF OnDisk
    <2> QED BY <1>5, <2>1, <2>2, <2>3 DEF Move, MoveFails
  <1>6. CASE Crash
    BY <1>4, <1>6 DEF Crash, OnDisk
  <1>7. ASSUME NEW v \in Workers, Start(v) PROVE FALSE
    BY <1>3, <1>7, TrashAssumption
    DEF Start, LockMove, LockRestore, LockDelete, LockEmpty, LockPurge, Lock
  <1>8. ASSUME NEW v \in Workers, Step(v) PROVE Move(w)
    <2>1. v = w
      BY <1>3, <1>8 DEF Step, Move, Restore, Delete, Sweep, Swept, Saved, SaveFails
    <2> QED BY <1>8, <2>1 DEF Step, Restore, Delete, Sweep, Swept, Saved, SaveFails
  <1>9. op' # op
    OBVIOUS
  <1> QED BY <1>5, <1>6, <1>7, <1>8, <1>9 DEF Next, Create, DeleteForGood, Rename, Age, vars

LEMMA AlwaysFree == Spec => [](Inv /\ Unborn /\ Free)
  <1>1. Init => Inv /\ Free
    BY InitInv, IdleTyped DEF Init, Free
  <1> QED BY <1>1, AlwaysInv, FreeInv, PTL DEF Spec

\* On the panel's host no move into the bin destroys a user's file or one that was
\* moved there before, however many requests move files of one name at once
\* (uniqueTrashDst under trashMu), as long as os.Stat can see them.
THEOREM MovesAreSafe == Spec => MoveLosesNothing
  <1>1. Inv /\ Free /\ [Next]_vars =>
            [\A w \in Workers :
                ~remote /\ op[w].pc = "move" /\ op'[w].pc # "move"
                => Kept \ Unseen \subseteq OnDisk']_vars
    BY MoveKeepsFiles
  <1> QED BY <1>1, AlwaysFree, PTL DEF Spec, MoveLosesNothing
=============================================================================
