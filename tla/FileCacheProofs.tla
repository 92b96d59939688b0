-------------------------- MODULE FileCacheProofs ---------------------------
(***************************************************************************)
(* The read caches implement AtomicFile, for any number of readers,        *)
(* contents and writes.                                                    *)
(***************************************************************************)
EXTENDS FileCache, TLAPS

-----------------------------------------------------------------------------
(* The inductive invariant.  What makes a late fill harmless is Probing: an  *)
(* entry that a read in progress could still hit, in the cache or on its way *)
(* there, is content the file has had since that read began.                 *)

Seeing ==
    \A r \in Readers :
        /\ pc[r] = "idle" <=> seen[r] = {}
        /\ pc[r] # "idle" => file \in seen[r] /\ (blank => Empty \in seen[r])
        /\ pc[r] = "fill" => got[r] \in seen[r]
        /\ pc[r] = "done" => got[r] \in seen[r] \/ (got[r] = Error /\ table = "users")

\* A table that passes for the file as it is.
Passes(c) == c = file \/ (table = "sessions" /\ blank /\ c = Empty)

Statted ==
    \A r \in Readers :
        /\ stat[r] # Absent => stat[r] <= stamp /\ file # Absent
        /\ pc[r] = "fill" =>
              /\ stat[r] # Absent /\ got[r] \in Tables
              /\ stat[r] = stamp => Passes(got[r])

Cached ==
    cache # Absent =>
        /\ file # Absent /\ cache.stamp <= stamp
        /\ cache.stamp = stamp => Passes(cache.content)

Probing ==
    \A r \in Readers : pc[r] = "probe" /\ stat[r] # Absent =>
        /\ cache # Absent /\ cache.stamp = stat[r] => cache.content \in seen[r]
        /\ \A q \in Readers : pc[q] = "fill" /\ stat[q] = stat[r] => got[q] \in seen[r]

Inv == TypeOK /\ Seeing /\ Statted /\ Cached /\ Probing

LEMMA InitInv == Init => Inv
  <1> SUFFICES ASSUME Init PROVE Inv
    OBVIOUS
  <1>1. stamp \in Stamps /\ late \in Nat
    <2>1. stamp = 0 /\ late = 0
      BY DEF Init
    <2> QED BY <2>1, FileCacheAssumption DEF Stamps
  <1>2. TypeOK
    BY <1>1 DEF Init, TypeOK
  <1> QED BY <1>2 DEF Init, Inv, Seeing, Statted, Cached, Probing

LEMMA StatInv ==
    ASSUME Inv, NEW r \in Readers, Stat(r)
    PROVE  Inv'
  <1>1. PICK s \in {stamp, Absent} : /\ stat' = [stat EXCEPT ![r] = s]
                                    /\ s # Absent => file # Absent
    BY DEF Stat
  <1>2. TypeOK'
    BY <1>1 DEF Stat, Inv, TypeOK, Tables
  <1>3. Seeing'
    BY DEF Stat, Inv, TypeOK, Seeing
  <1>4. Statted'
    BY <1>1, FileCacheAssumption DEF Stat, Inv, TypeOK, Statted, Stamps, Passes
  <1>5. Cached'
    BY DEF Stat, Inv, Cached, Passes
  <1>6. Probing'
    <2> SUFFICES ASSUME NEW q \in Readers, pc'[q] = "probe", stat'[q] # Absent
                 PROVE  /\ cache # Absent /\ cache.stamp = stat'[q] => cache.content \in seen'[q]
                        /\ \A x \in Readers : pc'[x] = "fill" /\ stat'[x] = stat'[q]
                                                => got[x] \in seen'[q]
      BY DEF Probing, Stat
    <2>1. CASE q # r
      BY <1>1, <2>1 DEF Stat, Inv, TypeOK, Probing
    <2>2. CASE q = r
      <3>1. stat'[q] = stamp /\ \A c : Passes(c) => c \in seen'[q]
        BY <1>1, <2>2 DEF Stat, Inv, TypeOK, Passes
      <3>2. \A x \in Readers : pc'[x] = "fill" => pc[x] = "fill" /\ stat'[x] = stat[x]
        BY <1>1 DEF Stat, Inv, TypeOK
      <3> QED BY <3>1, <3>2 DEF Inv, Cached, Statted
    <2> QED BY <2>1, <2>2
  <1> QED BY <1>2, <1>3, <1>4, <1>5, <1>6 DEF Inv

LEMMA HitInv ==
    ASSUME Inv, NEW r \in Readers, Hit(r)
    PROVE  Inv'
  <1>1. cache.content \in Tables /\ cache.content \in seen[r]
    BY DEF Hit, Usable, Inv, TypeOK, Entry, Probing
  <1>2. TypeOK'
    BY <1>1 DEF Hit, Inv, TypeOK
  <1>3. Seeing'
    BY <1>1 DEF Hit, Inv, TypeOK, Seeing
  <1>4. Statted' /\ Cached' /\ Probing'
    BY DEF Hit, Inv, TypeOK, Statted, Cached, Probing, Passes
  <1> QED BY <1>2, <1>3, <1>4 DEF Inv

LEMMA MissInv ==
    ASSUME Inv, NEW r \in Readers, Miss(r)
    PROVE  Inv'
  <1>1. TypeOK'
    BY DEF Miss, Inv, TypeOK
  <1>2. Seeing' /\ Statted' /\ Cached' /\ Probing'
    BY DEF Miss, Inv, TypeOK, Seeing, Statted, Cached, Probing, Passes
  <1> QED BY <1>1, <1>2 DEF Inv

LEMMA LoadInv ==
    ASSUME Inv, NEW r \in Readers, Load(r)
    PROVE  Inv'
  <1>1. TypeOK'
    BY DEF Load, AfterLoad, Inv, TypeOK, Tables
  <1>2. Seeing'
    BY DEF Load, AfterLoad, Inv, TypeOK, Seeing
  <1>3. Statted'
    BY DEF Load, AfterLoad, Inv, TypeOK, Statted, Passes, Tables
  <1>4. Cached'
    BY DEF Load, Inv, Cached, Passes
  <1>5. Probing'
    BY DEF Load, AfterLoad, Inv, TypeOK, Probing, Seeing
  <1> QED BY <1>1, <1>2, <1>3, <1>4, <1>5 DEF Inv

LEMMA LoadErrorInv ==
    ASSUME Inv, NEW r \in Readers, LoadError(r)
    PROVE  Inv'
  <1>1. TypeOK'
    BY DEF LoadError, Inv, TypeOK
  <1>2. Seeing'
    BY DEF LoadError, Inv, TypeOK, Seeing
  <1>3. Statted' /\ Cached' /\ Probing'
    BY DEF LoadError, Inv, TypeOK, Statted, Cached, Probing, Passes
  <1> QED BY <1>1, <1>2, <1>3 DEF Inv

\* Every read in progress learns that the table has passed for empty.
LEMMA LoadBlankInv ==
    ASSUME Inv, NEW r \in Readers, LoadBlank(r)
    PROVE  Inv'
  <1>1. /\ table = "sessions" /\ \A c : Passes(c) => Passes(c)'
        /\ stat[r] = stamp => Passes(Empty)'
    BY DEF LoadBlank, Passes
  <1>2. \A q \in Readers :
           /\ pc'[q] = "idle" <=> pc[q] = "idle"
           /\ pc[q] = "idle" => seen'[q] = {}
           /\ pc[q] # "idle" => seen'[q] = seen[q] \cup {Empty}
    BY DEF LoadBlank, AfterLoad, Inv, TypeOK
  <1>3. \A q \in Readers : q # r => pc'[q] = pc[q] /\ got'[q] = got[q]
    BY DEF LoadBlank, Inv, TypeOK
  <1>4. pc'[r] \in {"fill", "done"} /\ got'[r] = Empty /\ (pc'[r] = "fill" => stat[r] # Absent)
    BY DEF LoadBlank, AfterLoad, Inv, TypeOK
  <1>5. TypeOK'
    <2>1. seen' \in [Readers -> SUBSET (Tables \cup {Absent})]
      BY DEF LoadBlank, Inv, TypeOK, Tables
    <2>2. pc' \in [Readers -> {"idle", "probe", "load", "fill", "done"}]
      BY DEF LoadBlank, AfterLoad, Inv, TypeOK
    <2>3. got' \in [Readers -> Tables \cup {Error, Absent}]
      BY DEF LoadBlank, Inv, TypeOK, Tables
    <2>4. blank' \in BOOLEAN
      BY DEF LoadBlank, Inv, TypeOK
    <2> QED BY <2>1, <2>2, <2>3, <2>4 DEF LoadBlank, Inv, TypeOK
  <1>6. Seeing'
    <2>1. \A q \in Readers : pc[q] # "idle" => file \in seen'[q] /\ Empty \in seen'[q]
      BY <1>2 DEF Inv, Seeing
    <2>2. \A q \in Readers : q # r /\ pc[q] # "idle" /\ got[q] \in seen[q] => got'[q] \in seen'[q]
      BY <1>2, <1>3
    <2> QED BY <1>1, <1>2, <1>3, <1>4, <2>1, <2>2 DEF LoadBlank, Inv, Seeing
  <1>7. Statted'
    BY <1>1, <1>3, <1>4 DEF LoadBlank, Inv, Statted, Tables
  <1>8. Cached'
    BY <1>1 DEF LoadBlank, Inv, Cached
  <1>9. Probing'
    <2> SUFFICES ASSUME NEW q \in Readers, pc'[q] = "probe", stat[q] # Absent
                 PROVE  /\ cache # Absent /\ cache.stamp = stat[q] => cache.content \in seen'[q]
                        /\ \A x \in Readers : pc'[x] = "fill" /\ stat[x] = stat[q]
                                                => got'[x] \in seen'[q]
      BY DEF Probing, LoadBlank
    <2>1. q # r /\ pc[q] = "probe" /\ seen'[q] = seen[q] \cup {Empty}
      BY <1>2, <1>3, <1>4
    <2> QED BY <1>3, <1>4, <2>1 DEF Inv, Probing
  <1> QED BY <1>5, <1>6, <1>7, <1>8, <1>9 DEF Inv

LEMMA FillInv ==
    ASSUME Inv, NEW r \in Readers, Fill(r)
    PROVE  Inv'
  <1>1. /\ stat[r] \in Stamps /\ got[r] \in Tables /\ stat[r] <= stamp
        /\ file # Absent /\ (stat[r] = stamp => Passes(got[r]))
    BY DEF Fill, Inv, TypeOK, Statted
  <1>2. /\ cache' \in Entry /\ cache'.content = got[r] /\ cache'.stamp = stat[r]
    BY <1>1 DEF Fill, Entry
  <1>3. TypeOK'
    BY <1>2 DEF Fill, Inv, TypeOK
  <1>4. Seeing' /\ Statted'
    BY DEF Fill, Inv, TypeOK, Seeing, Statted, Passes
  <1>5. Cached'
    BY <1>1, <1>2 DEF Fill, Cached, Passes
  <1>6. Probing'
    BY <1>2 DEF Fill, Inv, TypeOK, Probing
  <1> QED BY <1>3, <1>4, <1>5, <1>6 DEF Inv

LEMMA ReturnInv ==
    ASSUME Inv, NEW r \in Readers, Return(r)
    PROVE  Inv'
  <1>1. TypeOK'
    BY DEF Return, Inv, TypeOK
  <1>2. Seeing' /\ Statted' /\ Cached' /\ Probing'
    BY DEF Return, Inv, TypeOK, Seeing, Statted, Cached, Probing, Passes
  <1> QED BY <1>1, <1>2 DEF Inv

\* After a write no entry and no fill carries the new stamp.
LEMMA ReplaceInv ==
    ASSUME Inv, NEW c \in Contents, Replace(c), writer' \in {"idle", "renamed"}, late' = late
    PROVE  Inv'
  <1>1. stamp' = stamp + 1 /\ stamp \in Nat /\ stamp' \in Stamps
    BY FileCacheAssumption DEF Replace, Inv, TypeOK, Stamps
  <1>2. file' = c /\ c # Absent
    BY FileCacheAssumption DEF Replace, Tables
  <1>3. \A r \in Readers : seen'[r] = IF pc[r] = "idle" THEN {} ELSE seen[r] \cup {c}
    BY DEF Replace
  <1>4. TypeOK'
    BY <1>1 DEF Replace, Inv, TypeOK, Tables
  <1>5. Seeing'
    BY <1>2, <1>3 DEF Replace, Inv, Seeing
  <1>6. Statted'
    BY <1>1, <1>2 DEF Replace, Inv, TypeOK, Statted, Stamps
  <1>7. Cached'
    <2>1. cache # Absent => cache.stamp \in Nat
      BY FileCacheAssumption DEF Inv, TypeOK, Entry, Stamps
    <2> QED BY <1>1, <1>2, <2>1 DEF Replace, Inv, Cached
  <1>8. Probing'
    BY <1>3 DEF Replace, Inv, Probing
  <1> QED BY <1>4, <1>5, <1>6, <1>7, <1>8 DEF Inv

LEMMA NextInv == Inv /\ [Next]_vars => Inv'
  <1> SUFFICES ASSUME Inv, [Next]_vars PROVE Inv'
    OBVIOUS
  <1>1. ASSUME NEW c \in Contents, Rename(c) \/ ExternalWrite(c) PROVE Inv'
    BY <1>1, ReplaceInv DEF Rename, ExternalWrite, Inv, TypeOK
  <1>2. CASE Invalidate \/ Unlock \/ InvalidateLate
    <2>1. cache' \in {cache, Absent} /\ late' \in Nat
      BY <1>2 DEF Invalidate, Unlock, InvalidateLate, Inv, TypeOK
    <2>2. TypeOK'
      BY <1>2, <2>1 DEF Invalidate, Unlock, InvalidateLate, Inv, TypeOK
    <2>3. UNCHANGED <<table, file, stamp, pc, stat, got, seen, blank>>
      BY <1>2 DEF Invalidate, Unlock, InvalidateLate
    <2> QED BY <2>1, <2>2, <2>3 DEF Inv, Seeing, Statted, Cached, Probing, Passes
  <1>3. CASE Restart
    <2>1. TypeOK'
      BY <1>3 DEF Restart, Inv, TypeOK
    <2> QED BY <1>3, <2>1 DEF Restart, Inv, Seeing, Statted, Cached, Probing
  <1>4. CASE UNCHANGED vars
    BY <1>4 DEF vars, Inv, TypeOK, Seeing, Statted, Cached, Probing, Passes
  <1> QED BY <1>1, <1>2, <1>3, <1>4, StatInv, HitInv, MissInv, LoadInv, LoadErrorInv,
             LoadBlankInv, FillInv, ReturnInv
          DEF Next

LEMMA SpecInv == Spec => []Inv
  BY InitInv, NextInv, PTL DEF Spec

\* The caches, the file and every read in progress stay well formed.
THEOREM TypeCorrect == Spec => []TypeOK
  <1>1. Inv => TypeOK
    BY DEF Inv
  <1> QED BY <1>1, SpecInv, PTL

\* An entry that the next read would use is the file as it is, or the empty table
\* that loadSessions has made of it.
THEOREM CacheIsSound == Spec => []CacheSound
  <1>1. Inv => CacheSound
    BY DEF Inv, Cached, CacheSound, Passes
  <1> QED BY <1>1, SpecInv, PTL

-----------------------------------------------------------------------------
(* Refinement: Stat begins a read, Hit and Load-without-fill and Fill answer *)
(* it, Return ends it; LoadError refuses it and LoadBlank makes the table     *)
(* pass for empty.  Miss, Load before a fill and the invalidations are        *)
(* invisible.                                                                 *)

LEMMA InitRefines == Init => Register!Init
  BY DEF Init, Register!Init

\* A step that answers one read and touches neither the file nor a history.
LEMMA AnswerRefines ==
    ASSUME Inv, NEW r \in Readers, pc[r] # "done", pc[r] # "idle",
           pc' = [pc EXCEPT ![r] = "done"], got'[r] \in seen[r],
           \A q \in Readers : q # r => got'[q] = got[q],
           UNCHANGED <<table, file, blank, seen>>
    PROVE  Register!Answer(r)
  <1> DEFINE answer == [q \in Readers |-> IF pc[q] = "done" THEN {got[q]} ELSE {}]
  <1>1. answer[r] = {}
    OBVIOUS
  <1>2. answer' = [answer EXCEPT ![r] = {got'[r]}]
    BY DEF Inv, TypeOK
  <1> QED BY <1>1, <1>2 DEF Register!Answer

LEMMA NextRefines == Inv /\ [Next]_vars => [Register!Next]_(Register!vars)
  <1> SUFFICES ASSUME Inv, [Next]_vars PROVE [Register!Next]_(Register!vars)
    OBVIOUS
  <1>1. ASSUME NEW r \in Readers, Stat(r) PROVE Register!Begin(r)
    <2>1. seen[r] = {}
      BY <1>1 DEF Stat, Inv, Seeing
    <2>2. [q \in Readers |-> IF pc[q] = "done" THEN {got[q]} ELSE {}]'
             = [q \in Readers |-> IF pc[q] = "done" THEN {got[q]} ELSE {}]
      BY <1>1 DEF Stat, Inv, TypeOK
    <2> QED BY <1>1, <2>1, <2>2 DEF Stat, Register!Begin
  <1>2. ASSUME NEW r \in Readers, Hit(r) PROVE Register!Answer(r)
    <2>1. cache.content \in seen[r]
      BY <1>2 DEF Hit, Usable, Inv, Probing
    <2> QED BY <1>2, <2>1, AnswerRefines DEF Hit, Inv, TypeOK
  <1>3. ASSUME NEW r \in Readers, Miss(r) PROVE UNCHANGED Register!vars
    BY <1>3 DEF Miss, Register!vars, Inv, TypeOK
  <1>4. ASSUME NEW r \in Readers, Load(r)
        PROVE  Register!Answer(r) \/ UNCHANGED Register!vars
    <2>1. file \in seen[r]
      BY <1>4 DEF Load, Inv, Seeing
    <2>2. CASE stat[r] = Absent
      BY <1>4, <2>1, <2>2, AnswerRefines DEF Load, AfterLoad, Inv, TypeOK
    <2>3. CASE stat[r] # Absent
      BY <1>4, <2>3 DEF Load, AfterLoad, Register!vars, Inv, TypeOK
    <2> QED BY <2>2, <2>3
  <1>5. ASSUME NEW r \in Readers, Fill(r) PROVE Register!Answer(r)
    <2>1. got[r] \in seen[r]
      BY <1>5 DEF Fill, Inv, Seeing
    <2> QED BY <1>5, <2>1, AnswerRefines DEF Fill
  <1>6. ASSUME NEW r \in Readers, Return(r) PROVE Register!End(r)
    BY <1>6 DEF Return, Register!End, Inv, TypeOK
  <1>7. ASSUME NEW c \in Contents, Rename(c) \/ ExternalWrite(c) PROVE Register!Write(c)
    <2>1. seen' = [r \in Readers |-> IF seen[r] = {} THEN {} ELSE seen[r] \cup {c}]
      BY <1>7 DEF Rename, ExternalWrite, Replace, Inv, Seeing
    <2> QED BY <1>7, <2>1 DEF Rename, ExternalWrite, Replace, Register!Write, Register!Passes
  <1>8. CASE Invalidate \/ Unlock \/ InvalidateLate
    BY <1>8 DEF Invalidate, Unlock, InvalidateLate, Register!vars
  <1>11. ASSUME NEW r \in Readers, LoadError(r) PROVE Register!Refuse(r)
    <2> DEFINE answer == [q \in Readers |-> IF pc[q] = "done" THEN {got[q]} ELSE {}]
    <2>1. answer[r] = {} /\ seen[r] # {}
      BY <1>11 DEF LoadError, Inv, Seeing
    <2>2. answer' = [answer EXCEPT ![r] = {Error}]
      BY <1>11 DEF LoadError, Inv, TypeOK
    <2> QED BY <1>11, <2>1, <2>2 DEF LoadError, Register!Refuse
  <1>12. ASSUME NEW r \in Readers, LoadBlank(r) PROVE Register!Blank(r)
    <2> DEFINE answer == [q \in Readers |-> IF pc[q] = "done" THEN {got[q]} ELSE {}]
    <2>1. answer[r] = {} /\ seen[r] # {}
      BY <1>12 DEF LoadBlank, Inv, Seeing
    <2>2. answer' \in {answer, [answer EXCEPT ![r] = {Empty}]}
      <3>1. CASE stat[r] = Absent
        BY <1>12, <3>1 DEF LoadBlank, AfterLoad, Inv, TypeOK
      <3>2. CASE stat[r] # Absent
        BY <1>12, <3>2 DEF LoadBlank, AfterLoad, Inv, TypeOK
      <3> QED BY <3>1, <3>2
    <2>3. seen' = [q \in Readers |-> IF seen[q] = {} THEN {} ELSE seen[q] \cup {Empty}]
      BY <1>12 DEF LoadBlank, Inv, Seeing
    <2>4. blank' \in {blank, TRUE}
      BY <1>12 DEF LoadBlank, Inv, TypeOK
    <2> HIDE DEF answer
    <2> QED BY <1>12, <2>1, <2>2, <2>3, <2>4
            DEF LoadBlank, answer, Register!Blank, Register!Passes
  <1>9. CASE Restart
    BY <1>9 DEF Restart, Register!Next, Register!Crash
  <1>10. CASE UNCHANGED vars
    BY <1>10 DEF vars, Register!vars
  <1> QED BY <1>1, <1>2, <1>3, <1>4, <1>5, <1>6, <1>7, <1>8, <1>9, <1>10, <1>11, <1>12
          DEF Next, Register!Next

\* Every behaviour of the cached reads, failing ones included, is one of atomic
\* reads of the file.
THEOREM CachedReadsAreAtomic == Spec => ReadsAreAtomic
  BY SpecInv, InitRefines, NextRefines, PTL DEF Spec, ReadsAreAtomic, Register!Spec
=============================================================================
