----------------------------- MODULE AtomicFile -----------------------------
(***************************************************************************)
(* What the readers of users.json and sessions.json rely on: a read        *)
(* answers with the whole file as it was at one instant between the        *)
(* read's begin and its end.  A file that cannot be read is an error to    *)
(* that one reader if it is users.json.  If it is sessions.json it passes  *)
(* for empty, and may go on doing so until the next write.  This is the    *)
(* abstract specification that FileCache implements and that AuthSessions  *)
(* assumes of every read.                                                  *)
(***************************************************************************)
CONSTANTS Readers, Contents, Empty, Error, Absent

VARIABLES table,   \* "users" or "sessions"
          file,    \* the content on disk, or Absent
          blank,   \* whether the file as it is now passes for empty as well
          seen,    \* what the file has passed for since each read in progress began
          answer   \* {} until a read has its answer, then the set of that one value

vars == <<table, file, blank, seen, answer>>

Init ==
    /\ table \in {"users", "sessions"}
    /\ file \in Contents \cup {Absent}
    /\ blank = FALSE
    /\ seen = [r \in Readers |-> {}]
    /\ answer = [r \in Readers |-> {}]

\* One more value for the reads that are in progress.
Passes(c) == seen' = [r \in Readers |-> IF seen[r] = {} THEN {} ELSE seen[r] \cup {c}]

Begin(r) ==
    /\ seen[r] = {}
    /\ seen' = [seen EXCEPT ![r] = {file} \cup (IF blank THEN {Empty} ELSE {})]
    /\ UNCHANGED <<table, file, blank, answer>>

Answer(r) ==
    /\ answer[r] = {}
    /\ \E c \in seen[r] : answer' = [answer EXCEPT ![r] = {c}]
    /\ UNCHANGED <<table, file, blank, seen>>

\* One reader cannot read accounts: it is told so, and nobody else is concerned.
Refuse(r) ==
    /\ table = "users" /\ file # Absent
    /\ seen[r] # {} /\ answer[r] = {}
    /\ answer' = [answer EXCEPT ![r] = {Error}]
    /\ UNCHANGED <<table, file, blank, seen>>

\* One reader cannot read sessions: others may be told as well that there are none.
Blank(r) ==
    /\ table = "sessions" /\ file # Absent
    /\ seen[r] # {} /\ answer[r] = {}
    /\ Passes(Empty)
    /\ blank' \in {blank, TRUE}
    /\ answer' \in {answer, [answer EXCEPT ![r] = {Empty}]}
    /\ UNCHANGED <<table, file>>

End(r) ==
    /\ answer[r] # {}
    /\ seen' = [seen EXCEPT ![r] = {}]
    /\ answer' = [answer EXCEPT ![r] = {}]
    /\ UNCHANGED <<table, file, blank>>

Write(c) ==
    /\ file' = c
    /\ blank' = FALSE
    /\ Passes(c)
    /\ UNCHANGED <<table, answer>>

Crash ==
    /\ seen' = [r \in Readers |-> {}]
    /\ answer' = [r \in Readers |-> {}]
    /\ blank' = FALSE
    /\ UNCHANGED <<table, file>>

Next ==
    \/ \E r \in Readers : Begin(r) \/ Answer(r) \/ Refuse(r) \/ Blank(r) \/ End(r)
    \/ \E c \in Contents : Write(c)
    \/ Crash

Spec == Init /\ [][Next]_vars
=============================================================================
