------------------------------- MODULE Trash --------------------------------
(***************************************************************************)
(* The recycle bin of one node (trash.go, handlers_files.go): the files in *)
(* the bin's directory and the manifest .graw_trash.json that says where   *)
(* each came from.  Moving, restoring, deleting, emptying and purging each *)
(* hold trashMu from the first look at the bin to the saved manifest; the  *)
(* file manager's own writes, renames and deletions, and whoever else uses *)
(* the disk, do not.                                                       *)
(*                                                                         *)
(* A manifest that cannot be read counts as empty, and a file that cannot  *)
(* be looked at as absent.  The node is the panel's host or a bare SSH     *)
(* node; there, every step is a command of its own, any test may fail, the *)
(* answer to a command may be lost, and a failed write leaves a truncated  *)
(* manifest.                                                               *)
(*                                                                         *)
(* All paths have the same base name, the case in which slots of the bin   *)
(* are contested: slot i is the i-th name that uniqueTrashDst tries.       *)
(*                                                                         *)
(* trashed and orphans are history: the entry that was made for a file     *)
(* when it was last moved into the bin (none once it is put there by hand),*)
(* and the files whose registration a failed read, write or command or a   *)
(* crash has put at risk.                                                  *)
(***************************************************************************)
EXTENDS Naturals

CONSTANTS Paths,     \* where users' files are
          Hands,     \* where they reach without the recycle bin's handlers
          Workers,
          MaxSlot,   \* bound: names tried in the bin
          MaxFile,   \* bound: files ever created
          Unseen,    \* files that os.Stat may fail on: symbolic links that
                     \* lead nowhere, as relative ones do once they are moved
          MaxEntry,  \* bound: manifest entries ever made
          None

Slots == 1 .. MaxSlot
Places == Paths \cup Slots
Files == 1 .. MaxFile
Entry == [id : 1 .. MaxEntry, slot : Slots, home : Paths]

ASSUME TrashAssumption ==
    /\ MaxSlot \in Nat /\ MaxFile \in Nat /\ MaxEntry \in Nat
    /\ Paths \cap Slots = {}
    /\ Hands \subseteq Places
    /\ Unseen \subseteq Files
    /\ None \notin Places \cup Files \cup Entry \cup Workers

VARIABLES remote,    \* a bare SSH node
          disk,      \* the file at each place
          manifest,  \* the entries in .graw_trash.json
          trashMu,   \* its holder
          created,   \* files created so far
          entries,   \* entries made so far
          aged,      \* entries up to this one are past the retention period
          trashed,
          orphans,
          op         \* the request of each worker

history == <<trashed, orphans>>
counters == <<created, entries, aged>>
vars == <<remote, disk, manifest, trashMu, counters, history, op>>

\* A request: where it is, the path and the slot it is about, the entries it will
\* save, those it still has to delete, whether it will save at all, and whether
\* its read of the manifest failed.
Request ==
    [pc     : {"idle", "move", "restore", "delete", "empty", "purge", "save"},
     path   : Paths \cup {None},
     slot   : Slots \cup {None},
     items  : SUBSET Entry,
     todo   : SUBSET Entry,
     dirty  : BOOLEAN,
     unread : BOOLEAN]

Idle == [pc |-> "idle", path |-> None, slot |-> None, items |-> {}, todo |-> {},
         dirty |-> FALSE, unread |-> FALSE]

TypeOK ==
    /\ remote \in BOOLEAN
    /\ disk \in [Places -> Files \cup {None}]
    /\ manifest \in SUBSET Entry
    /\ trashMu \in Workers \cup {None}
    /\ created \in 0 .. MaxFile /\ entries \in 0 .. MaxEntry /\ aged \in 0 .. MaxEntry
    /\ trashed \in [Files -> Entry \cup {None}]
    /\ orphans \subseteq Files
    /\ op \in [Workers -> Request]

Init ==
    /\ remote \in BOOLEAN
    /\ disk = [x \in Places |-> None]
    /\ manifest = {}
    /\ trashMu = None
    /\ created = 0 /\ entries = 0 /\ aged = 0
    /\ trashed = [f \in Files |-> None]
    /\ orphans = {}
    /\ op = [w \in Workers |-> Idle]

-----------------------------------------------------------------------------
\* The bin.

Binned == {disk[s] : s \in Slots} \cap Files

\* findTrashItem: the oldest entry wins.
First(e, items) == e \in items /\ \A d \in items : e.id <= d.id

About(items, s) == {e \in items : e.slot = s}

\* loadTrashItems: any error reads as an empty manifest.
Reading(items, unread) ==
    \/ items = manifest /\ unread = FALSE
    \/ items = {} /\ unread = TRUE

\* HostExists: what cannot be looked at does not exist.
MayBeAbsent(x) == disk[x] \in {None} \cup Unseen \/ remote

\* uniqueTrashDst: the first name that is free, or seems to be.
Candidate(s) ==
    /\ \A r \in 1 .. (s - 1) : disk[r] # None
    /\ MayBeAbsent(s)

\* Mutant: the critical section starts after the bin has been looked at.
Unguarded(w, r) ==
    /\ op[w].pc = "idle"
    /\ trashMu' = w
    /\ op' = [op EXCEPT ![w] = r]

Lock(w, r) ==
    /\ op[w].pc = "idle"
    /\ trashMu = None
    /\ trashMu' = w
    /\ op' = [op EXCEPT ![w] = r]

Done(w) ==
    /\ trashMu' = None
    /\ op' = [op EXCEPT ![w] = Idle]

\* The handler goes on to save these entries.
Save(w, items) == op' = [op EXCEPT ![w].pc = "save", ![w].items = items]

Moved(x, y) == [disk EXCEPT ![x] = None, ![y] = disk[x]]

Removed(x) == [disk EXCEPT ![x] = None]

\* moveHostPath failed: nothing happened, or the copy that stands in for a rename
\* was left behind, or only the answer of a remote command was lost.
MoveFails(w, x, y) ==
    /\ Done(w)
    /\ \/ UNCHANGED <<disk, created, orphans>>
       \/ /\ created < MaxFile
          /\ created' = created + 1
          /\ disk' = [disk EXCEPT ![y] = created + 1]
          /\ orphans' = orphans \cup {created + 1}
       \/ /\ remote /\ disk[x] # None
          /\ disk' = Moved(x, y)
          /\ orphans' = orphans \cup {disk[x]}
          /\ UNCHANGED created

-----------------------------------------------------------------------------
\* MoveToTrash, for the file manager's delete of a path outside the bin.

LockMove(w, p) ==
    /\ disk[p] # None
    /\ \E s \in Slots, items \in SUBSET manifest, unread \in BOOLEAN :
          /\ Candidate(s)
          /\ Reading(items, unread)
          /\ Lock(w, [Idle EXCEPT !.pc = "move", !.path = p, !.slot = s,
                                  !.items = items, !.unread = unread])
    /\ UNCHANGED <<remote, disk, manifest, counters, history>>

Move(w) ==
    LET p == op[w].path
        s == op[w].slot
        item == [id |-> entries + 1, slot |-> s, home |-> p]
    IN  /\ op[w].pc = "move"
        /\ \/ /\ disk[p] # None /\ entries < MaxEntry
              /\ disk' = Moved(p, s)
              /\ entries' = entries + 1
              /\ trashed' = [trashed EXCEPT ![disk[p]] = item]
              /\ orphans' = orphans \ {disk[p]}
              /\ Save(w, op[w].items \cup {item})
              /\ UNCHANGED <<trashMu, created>>
           \/ MoveFails(w, p, s) /\ UNCHANGED <<entries, trashed>>
        /\ UNCHANGED <<remote, manifest, aged>>

-----------------------------------------------------------------------------
\* RestoreTrashItem: a request that fails its checks changes nothing.

LockRestore(w, s) ==
    /\ \E items \in SUBSET manifest, unread \in BOOLEAN, e \in manifest :
          /\ Reading(items, unread)
          /\ First(e, About(items, s))
          /\ MayBeAbsent(e.home)
          /\ Lock(w, [Idle EXCEPT !.pc = "restore", !.path = e.home, !.slot = s,
                                  !.items = items, !.unread = unread])
    /\ UNCHANGED <<remote, disk, manifest, counters, history>>

Restore(w) ==
    LET p == op[w].path
        s == op[w].slot
    IN  /\ op[w].pc = "restore"
        /\ \/ /\ disk[s] # None
              /\ disk' = Moved(s, p)
              /\ Save(w, op[w].items \ About(op[w].items, s))
              /\ UNCHANGED <<trashMu, created, orphans>>
           \/ MoveFails(w, s, p)
        /\ UNCHANGED <<remote, manifest, entries, aged, trashed>>

-----------------------------------------------------------------------------
\* DeleteTrashItem, EmptyTrash, PurgeExpiredTrash.

\* removeHostPath: what is not there counts as removed.
RemovalFails(s) ==
    \/ disk[s] # None /\ UNCHANGED disk
    \/ remote /\ disk' \in {disk, Removed(s)}

LockDelete(w, s) ==
    /\ \E items \in SUBSET manifest, unread \in BOOLEAN :
          /\ Reading(items, unread)
          /\ About(items, s) # {}
          /\ Lock(w, [Idle EXCEPT !.pc = "delete", !.slot = s, !.items = items,
                                  !.unread = unread])
    /\ UNCHANGED <<remote, disk, manifest, counters, history>>

Delete(w) ==
    LET s == op[w].slot IN
    /\ op[w].pc = "delete"
    /\ \/ /\ disk' = Removed(s)
          /\ Save(w, op[w].items \ About(op[w].items, s))
          /\ UNCHANGED trashMu
       \/ RemovalFails(s) /\ Done(w)
    /\ UNCHANGED <<remote, manifest, counters, history>>

LockEmpty(w) ==
    /\ \E items \in SUBSET manifest, unread \in BOOLEAN :
          /\ Reading(items, unread)
          /\ Lock(w, [Idle EXCEPT !.pc = "empty", !.todo = items, !.dirty = TRUE,
                                  !.unread = unread])
    /\ UNCHANGED <<remote, disk, manifest, counters, history>>

Expired(items) == {e \in items : e.id <= aged}

LockPurge(w) ==
    /\ \E items \in SUBSET manifest, unread \in BOOLEAN :
          /\ Reading(items, unread)
          /\ Lock(w, [Idle EXCEPT !.pc = "purge", !.todo = Expired(items),
                                  !.items = items \ Expired(items), !.unread = unread])
    /\ UNCHANGED <<remote, disk, manifest, counters, history>>

\* Mutant: an entry goes whether or not its file could be deleted.
SweepForgets(w) ==
    /\ op[w].pc \in {"empty", "purge"}
    /\ \E e \in op[w].todo :
          /\ First(e, op[w].todo)
          /\ disk' \in {Removed(e.slot), disk}
          /\ op' = [op EXCEPT ![w].todo = @ \ {e}, ![w].dirty = TRUE]
    /\ UNCHANGED <<remote, manifest, trashMu, counters, history>>

\* One entry's file is deleted, or cannot be, and then the entry is kept.
Sweep(w) ==
    /\ op[w].pc \in {"empty", "purge"}
    /\ \E e \in op[w].todo :
          /\ First(e, op[w].todo)
          /\ \/ /\ disk' = Removed(e.slot)
                /\ op' = [op EXCEPT ![w].todo = @ \ {e}, ![w].dirty = TRUE]
             \/ /\ RemovalFails(e.slot)
                /\ op' = [op EXCEPT ![w].todo = @ \ {e}, ![w].items = @ \cup {e}]
    /\ UNCHANGED <<remote, manifest, trashMu, counters, history>>

\* A purge that deleted nothing saves nothing.
Swept(w) ==
    /\ op[w].pc \in {"empty", "purge"}
    /\ op[w].todo = {}
    /\ IF op[w].dirty THEN Save(w, op[w].items) /\ UNCHANGED trashMu ELSE Done(w)
    /\ UNCHANGED <<remote, disk, manifest, counters, history>>

-----------------------------------------------------------------------------
\* saveTrashItems.

\* Mutant: the kept list starts with a length, so with a blank entry.
SavedBlank(w) ==
    /\ op[w].pc = "save"
    /\ manifest' = op[w].items \cup {None}
    /\ orphans' = IF op[w].unread THEN orphans \cup Binned ELSE orphans
    /\ Done(w)
    /\ UNCHANGED <<remote, disk, counters, trashed>>

Saved(w) ==
    /\ op[w].pc = "save"
    /\ manifest' = op[w].items
    /\ orphans' = IF op[w].unread THEN orphans \cup Binned ELSE orphans
    /\ Done(w)
    /\ UNCHANGED <<remote, disk, counters, trashed>>

\* The file that w has just moved into the bin.
InHand(w) ==
    IF op[w].pc = "save" /\ op[w].slot # None THEN {disk[op[w].slot]} \cap Files ELSE {}

\* Locally the old manifest stays; a remote one may be left truncated, and then
\* reads as empty.
SaveFails(w) ==
    /\ op[w].pc = "save"
    /\ \/ UNCHANGED manifest /\ orphans' = orphans \cup InHand(w)
       \/ remote /\ manifest' = {} /\ orphans' = orphans \cup Binned
    /\ Done(w)
    /\ UNCHANGED <<remote, disk, counters, trashed>>

-----------------------------------------------------------------------------
\* Those who do not hold trashMu: the file manager's write, upload, rename and
\* permanent delete, which may reach into the bin, other users of the disk, time,
\* and the process's end.  To overwrite a file is to delete it first.

Create(x) ==
    /\ disk[x] = None /\ created < MaxFile
    /\ created' = created + 1
    /\ disk' = [disk EXCEPT ![x] = created + 1]
    /\ UNCHANGED <<remote, manifest, trashMu, entries, aged, history, op>>

Rename(x, y) ==
    /\ disk[x] # None /\ disk[y] = None
    /\ disk' = Moved(x, y)
    /\ trashed' = IF y \in Slots THEN [trashed EXCEPT ![disk[x]] = None] ELSE trashed
    /\ UNCHANGED <<remote, manifest, trashMu, counters, orphans, op>>

DeleteForGood(x) ==
    /\ disk[x] # None
    /\ disk' = Removed(x)
    /\ UNCHANGED <<remote, manifest, trashMu, counters, history, op>>

Age ==
    /\ aged < entries
    /\ aged' = aged + 1
    /\ UNCHANGED <<remote, disk, manifest, trashMu, created, entries, history, op>>

Crash ==
    /\ trashMu' = None
    /\ op' = [w \in Workers |-> Idle]
    /\ orphans' = orphans \cup UNION {InHand(w) : w \in Workers}
    /\ UNCHANGED <<remote, disk, manifest, counters, trashed>>

Step(w) ==
    \/ Move(w) \/ Restore(w) \/ Delete(w) \/ Sweep(w) \/ Swept(w)
    \/ Saved(w) \/ SaveFails(w)

Start(w) ==
    \/ \E p \in Paths : LockMove(w, p)
    \/ \E s \in Slots : LockRestore(w, s) \/ LockDelete(w, s)
    \/ LockEmpty(w) \/ LockPurge(w)

Next ==
    \/ \E w \in Workers : Start(w) \/ Step(w)
    \/ \E x \in Hands : Create(x) \/ DeleteForGood(x)
    \/ \E x, y \in Hands : Rename(x, y)
    \/ Age
    \/ Crash

Spec == Init /\ [][Next]_vars

-----------------------------------------------------------------------------
\* Every file moved into the bin can be found there: it has its entry in the
\* manifest, or the request that moved it is about to save one, unless a failed
\* read, write or command or a crash hit it.  The requests themselves, however
\* they overlap and whichever of their deletions fail, lose no entry (trash.go:
\* trashMu, "the manifest's read-modify-write"; EmptyTrash, entries whose deletion
\* failed stay in the manifest).
Listed ==
    \A s \in Slots :
        disk[s] \in Files \ orphans /\ trashed[disk[s]] # None =>
            \/ trashed[disk[s]] \in manifest
            \/ \E w \in Workers : op[w].pc = "save" /\ trashed[disk[s]] \in op[w].items

OnDisk == {disk[x] : x \in Places} \ {None}

\* Users' files, and those that were moved into the bin.
Kept == {f \in OnDisk : trashed[f] # None \/ \E p \in Paths : disk[p] = f}

\* Moving into the bin destroys nothing on the panel's host, however many files of
\* one name are moved at once (uniqueTrashDst, "the caller must hold trashMu"):
\* neither a user's file nor one that was moved into the bin, as long as os.Stat
\* can see it.  What somebody puts into the bin by hand has no such protection.
MoveLosesNothing ==
    [][\A w \in Workers :
          ~remote /\ op[w].pc = "move" /\ op'[w].pc # "move" =>
             Kept \ Unseen \subseteq OnDisk']_vars

\* DeleteTrashItem says of an entry that stays behind without its file that the
\* purge skips it, as its path does not exist: a file that the purge deletes was
\* itself moved into the bin longer ago than the retention period.
PurgeSparesTheFresh ==
    [][\A w \in Workers, f \in Files :
          /\ ~remote /\ op[w].pc = "purge" /\ op'[w].todo # op[w].todo
          /\ f \in OnDisk \ OnDisk' /\ trashed[f] # None
          => trashed[f].id <= aged]_vars
=============================================================================
