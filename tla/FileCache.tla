----------------------------- MODULE FileCache ------------------------------
(***************************************************************************)
(* The read caches of the authentication path: loadUsersCached (auth.go)   *)
(* and loadSessionsCached (sessions.go), which are the same algorithm over *)
(* users.json and sessions.json.  A read stats the file, compares the      *)
(* stamp (mtime and size) with the cache under the cache mutex, and on a   *)
(* miss parses the file and fills the cache with the stamp it saw BEFORE   *)
(* parsing.  Writers replace the file by rename and then clear the cache.  *)
(*                                                                         *)
(* The two tables differ in what becomes of a file that is there and       *)
(* cannot be read or parsed: users.json is an error to the caller, and     *)
(* nothing is cached; sessions.json is an empty table, and that is cached. *)
(*                                                                         *)
(* Every write is taken to give the file a stamp it never had: two writes  *)
(* within the file system's timestamp granularity that also keep the size  *)
(* are outside the model.                                                  *)
(***************************************************************************)
EXTENDS Naturals

CONSTANTS Readers, Contents,
          Empty,       \* the empty table
          Error,       \* what the caller gets instead of a table
          Absent,      \* no file, no cache entry, no stamp
          MaxStamp     \* bound: writes

Stamps == 0 .. MaxStamp
Tables == Contents \cup {Empty}
Entry == [content : Tables, stamp : Stamps]

ASSUME FileCacheAssumption ==
    /\ MaxStamp \in Nat
    /\ Absent # Error
    /\ Absent \notin Tables \cup Stamps \cup Entry
    /\ Error \notin Tables

VARIABLES table,    \* which of the two it is
          file,     \* the content on disk
          stamp,    \* its mtime and size
          cache,    \* usersCache with usersCacheMod and usersCacheSize
          writer,   \* the holder of usersMu or sessMu: "idle" or past its rename
          late,     \* BumpTokenVersions that have unlocked and not yet invalidated
          pc,       \* where each read is
          stat,     \* the stamp each read saw
          got,      \* the content each read loaded or found
          seen,     \* history: what the file has passed for since each read began
          blank     \* history: the file as it is now has been read as empty

vars == <<table, file, stamp, cache, writer, late, pc, stat, got, seen, blank>>

TypeOK ==
    /\ table \in {"users", "sessions"}
    /\ file \in Contents \cup {Absent}
    /\ stamp \in Stamps
    /\ cache \in Entry \cup {Absent}
    /\ writer \in {"idle", "renamed"}
    /\ late \in Nat
    /\ pc \in [Readers -> {"idle", "probe", "load", "fill", "done"}]
    /\ stat \in [Readers -> Stamps \cup {Absent}]
    /\ got \in [Readers -> Tables \cup {Error, Absent}]
    /\ seen \in [Readers -> SUBSET (Tables \cup {Absent})]
    /\ blank \in BOOLEAN

Init ==
    /\ table \in {"users", "sessions"}
    /\ file \in Contents \cup {Absent}
    /\ stamp = 0
    /\ cache = Absent
    /\ writer = "idle"
    /\ late = 0
    /\ pc = [r \in Readers |-> "idle"]
    /\ stat = [r \in Readers |-> Absent]
    /\ got = [r \in Readers |-> Absent]
    /\ seen = [r \in Readers |-> {}]
    /\ blank = FALSE

-----------------------------------------------------------------------------
\* A read: os.Stat, the comparison, LoadUsers or loadSessions, the fill.

\* os.Stat may fail for a file that is there, too.
Stat(r) ==
    /\ pc[r] = "idle"
    /\ \E s \in (IF file = Absent THEN {Absent} ELSE {stamp, Absent}) :
          stat' = [stat EXCEPT ![r] = s]
    /\ seen' = [seen EXCEPT ![r] = {file} \cup (IF blank THEN {Empty} ELSE {})]
    /\ pc' = [pc EXCEPT ![r] = "probe"]
    /\ UNCHANGED <<table, file, stamp, cache, writer, late, got, blank>>

\* Mutant: any entry will do.
UsableAny(r) == stat[r] # Absent /\ cache # Absent

Usable(r) == stat[r] # Absent /\ cache # Absent /\ cache.stamp = stat[r]

Hit(r) ==
    /\ pc[r] = "probe"
    /\ Usable(r)
    /\ got' = [got EXCEPT ![r] = cache.content]
    /\ pc' = [pc EXCEPT ![r] = "done"]
    /\ UNCHANGED <<table, file, stamp, cache, writer, late, stat, seen, blank>>

Miss(r) ==
    /\ pc[r] = "probe"
    /\ ~Usable(r)
    /\ pc' = [pc EXCEPT ![r] = "load"]
    /\ UNCHANGED <<table, file, stamp, cache, writer, late, stat, got, seen, blank>>

\* Mutant: the cache is filled whether or not the stat succeeded.
AfterLoadFill(r) == "fill"

\* Nothing is cached for a file whose stamp is not known.
AfterLoad(r) == IF stat[r] = Absent THEN "done" ELSE "fill"

Load(r) ==
    /\ pc[r] = "load"
    /\ got' = [got EXCEPT ![r] = file]
    /\ pc' = [pc EXCEPT ![r] = AfterLoad(r)]
    /\ UNCHANGED <<table, file, stamp, cache, writer, late, stat, seen, blank>>

\* The file is there and cannot be read or parsed: LoadUsers returns the error...
LoadError(r) ==
    /\ pc[r] = "load" /\ file # Absent
    /\ table = "users"
    /\ got' = [got EXCEPT ![r] = Error]
    /\ pc' = [pc EXCEPT ![r] = "done"]
    /\ UNCHANGED <<table, file, stamp, cache, writer, late, stat, seen, blank>>

\* ... and loadSessions an empty table, which is cached like any other.  For
\* the reads in progress, and for those that begin before the next write if the
\* stamp was that of the file as it is, the table has passed for empty.
LoadBlank(r) ==
    /\ pc[r] = "load" /\ file # Absent
    /\ table = "sessions"
    /\ got' = [got EXCEPT ![r] = Empty]
    /\ pc' = [pc EXCEPT ![r] = AfterLoad(r)]
    /\ seen' = [q \in Readers |-> IF pc[q] = "idle" THEN {} ELSE seen[q] \cup {Empty}]
    /\ blank' = (blank \/ stat[r] = stamp)
    /\ UNCHANGED <<table, file, stamp, cache, writer, late, stat>>

\* Mutant: the entry carries the stamp the file has by now.
FillRestat(r) ==
    /\ pc[r] = "fill"
    /\ cache' = [content |-> got[r], stamp |-> stamp]
    /\ pc' = [pc EXCEPT ![r] = "done"]
    /\ UNCHANGED <<table, file, stamp, writer, late, stat, got, seen, blank>>

Fill(r) ==
    /\ pc[r] = "fill"
    /\ cache' = [content |-> got[r], stamp |-> stat[r]]
    /\ pc' = [pc EXCEPT ![r] = "done"]
    /\ UNCHANGED <<table, file, stamp, writer, late, stat, got, seen, blank>>

Return(r) ==
    /\ pc[r] = "done"
    /\ pc' = [pc EXCEPT ![r] = "idle"]
    /\ stat' = [stat EXCEPT ![r] = Absent]
    /\ got' = [got EXCEPT ![r] = Absent]
    /\ seen' = [seen EXCEPT ![r] = {}]
    /\ UNCHANGED <<table, file, stamp, cache, writer, late, blank>>

-----------------------------------------------------------------------------
\* A write: WriteJSONFile's rename, under the table's mutex, then the
\* invalidation; or the rename alone, by a program that is not the panel.

Replace(c) ==
    /\ stamp < MaxStamp
    /\ file' = c
    /\ stamp' = stamp + 1
    /\ seen' = [r \in Readers |-> IF pc[r] = "idle" THEN {} ELSE seen[r] \cup {c}]
    /\ blank' = FALSE
    /\ UNCHANGED <<table, cache, pc, stat, got>>

Rename(c) == writer = "idle" /\ Replace(c) /\ writer' = "renamed" /\ UNCHANGED late

ExternalWrite(c) == Replace(c) /\ UNCHANGED <<writer, late>>

\* SaveUsers, UpdateUsers and saveSessions, with the mutex still held.
Invalidate ==
    /\ writer = "renamed"
    /\ cache' = Absent
    /\ writer' = "idle"
    /\ UNCHANGED <<table, file, stamp, late, pc, stat, got, seen, blank>>

\* BumpTokenVersion gives up usersMu first, so that others can write in between.
Unlock ==
    /\ writer = "renamed" /\ table = "users"
    /\ writer' = "idle"
    /\ late' = late + 1
    /\ UNCHANGED <<table, file, stamp, cache, pc, stat, got, seen, blank>>

InvalidateLate ==
    /\ late > 0
    /\ cache' = Absent
    /\ late' = late - 1
    /\ UNCHANGED <<table, file, stamp, writer, pc, stat, got, seen, blank>>

\* The process ends and starts again: the file is all that is left.
Restart ==
    /\ cache' = Absent
    /\ writer' = "idle"
    /\ late' = 0
    /\ pc' = [r \in Readers |-> "idle"]
    /\ stat' = [r \in Readers |-> Absent]
    /\ got' = [r \in Readers |-> Absent]
    /\ seen' = [r \in Readers |-> {}]
    /\ blank' = FALSE
    /\ UNCHANGED <<table, file, stamp>>

Next ==
    \/ \E r \in Readers : \/ Stat(r) \/ Hit(r) \/ Miss(r) \/ Load(r)
                          \/ LoadError(r) \/ LoadBlank(r) \/ Fill(r) \/ Return(r)
    \/ \E c \in Contents : Rename(c) \/ ExternalWrite(c)
    \/ Invalidate
    \/ Unlock
    \/ InvalidateLate
    \/ Restart

Spec == Init /\ [][Next]_vars

-----------------------------------------------------------------------------
\* A cache entry that the next read would use is the file as it is, however
\* fills, writes and invalidations overlap: a fill that lands after a newer
\* write never passes for it (the order of os.Stat and LoadUsers in
\* loadUsersCached and loadSessionsCached).  The one exception is loadSessions'
\* own: a sessions.json that could not be read since it was written may be
\* cached as empty.
CacheSound ==
    file # Absent /\ cache # Absent /\ cache.stamp = stamp =>
        \/ cache.content = file
        \/ table = "sessions" /\ blank /\ cache.content = Empty

\* The caches are invisible: every cached read answers with the file as it was
\* at one instant of the read, with an error for users.json, or with the empty
\* table if sessions.json, as it was at such an instant, has once failed to be
\* read (AtomicFile).  Authentication never acts on accounts or sessions older
\* than the request.
Register == INSTANCE AtomicFile WITH
    answer <- [r \in Readers |-> IF pc[r] = "done" THEN {got[r]} ELSE {}]

ReadsAreAtomic == Register!Spec
=============================================================================
