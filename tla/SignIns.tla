------------------------------ MODULE SignIns -------------------------------
(***************************************************************************)
(* What the panel promises about signing in: one table of the sign-ins in  *)
(* force, looked at once when a request arrives and changed at one stroke. *)
(* A new password or a deletion ends every sign-in of the account at the   *)
(* instant it is written; a sign-in that has ended is never in force       *)
(* again; accounts are changed only by requests that were let in, except   *)
(* for the offline reset, which needs no request and ends no sign-in.      *)
(* This is the abstract specification that AuthSessions implements with    *)
(* two files, a version number in every token and a revocation that comes  *)
(* later.                                                                  *)
(*                                                                         *)
(* A name can be given to a second account.  Nothing is promised of the    *)
(* tokens of the first one: they can be let in again.                      *)
(***************************************************************************)
EXTENDS Naturals

CONSTANTS Users,     \* names of accounts
          Seed,      \* the account there is from the start
          Passwords,
          Sids,      \* names of sign-ins
          Claims,    \* what a token says: whose it is (sub), the password it was
                     \* issued for (pw), the account of that name (born)
          Workers,   \* requests being served at once
          Absent

VARIABLES passwords, \* what each account's password has been since a request last
                     \* set it: that one and those of the resets after it; none
                     \* if there is no such account
          born,      \* accounts created so far under each name
          issued,    \* the token of every sign-in
          live,      \* the sign-ins in force
          inside     \* the sign-in under which each request is served

vars == <<passwords, born, issued, live, inside>>

Owned(u) == {s \in Sids : issued[s] # Absent /\ issued[s].sub = u}

\* Issued to an account that is gone and whose name another one has now.
Former(s) == issued[s] # Absent /\ issued[s].born # born[issued[s].sub]

Init ==
    /\ \E p \in Passwords : passwords = [u \in Users |-> IF u = Seed THEN {p} ELSE {}]
    /\ born = [u \in Users |-> IF u = Seed THEN 1 ELSE 0]
    /\ issued = [s \in Sids |-> Absent]
    /\ live = {}
    /\ inside = [w \in Workers |-> Absent]

\* A token is in force from the start or never, and only if it was issued for a
\* password of the account as it is at this instant.  The table of sign-ins that
\* it is entered in may turn out to be lost.
Issue(s) ==
    /\ issued[s] = Absent /\ issued'[s] \in Claims
    /\ issued' = [issued EXCEPT ![s] = issued'[s]]
    /\ \E kept \in {live, {}} :
          \/ live' = kept
          \/ /\ issued'[s].born = born[issued'[s].sub]
             /\ issued'[s].pw \in passwords[issued'[s].sub]
             /\ live' = kept \cup {s}
    /\ UNCHANGED <<passwords, born, inside>>

\* A logout of another device, a kick, the end of the token's lifetime.
End(s) ==
    /\ live' = live \ {s}
    /\ UNCHANGED <<passwords, born, issued, inside>>

EndAll(u) ==
    /\ live' = live \ Owned(u)
    /\ UNCHANGED <<passwords, born, issued, inside>>

Enter(w, s) ==
    /\ inside[w] = Absent
    /\ s \in live \/ Former(s)
    /\ inside' = [inside EXCEPT ![w] = s]
    /\ UNCHANGED <<passwords, born, issued, live>>

\* The request is answered; it may have been the logout of its own sign-in.
Exit(w) ==
    /\ inside[w] # Absent
    /\ inside' = [inside EXCEPT ![w] = Absent]
    /\ live' = live \/ live' = live \ {inside[w]}
    /\ UNCHANGED <<passwords, born, issued>>

\* The three ways in which a request changes an account.
NewPassword(w, u) ==
    /\ inside[w] # Absent
    /\ passwords[u] # {}
    /\ \E p \in Passwords : passwords' = [passwords EXCEPT ![u] = {p}]
    /\ live' = live \ Owned(u)
    /\ inside' = [inside EXCEPT ![w] = Absent]
    /\ UNCHANGED <<born, issued>>

Delete(w, u) ==
    /\ inside[w] # Absent /\ issued[inside[w]].sub # u
    /\ passwords' = [passwords EXCEPT ![u] = {}]
    /\ live' = live \ Owned(u)
    /\ inside' = [inside EXCEPT ![w] = Absent]
    /\ UNCHANGED <<born, issued>>

Create(w, u) ==
    /\ inside[w] # Absent
    /\ passwords[u] = {}
    /\ \E p \in Passwords : passwords' = [passwords EXCEPT ![u] = {p}]
    /\ born' = [born EXCEPT ![u] = @ + 1]
    /\ inside' = [inside EXCEPT ![w] = Absent]
    /\ UNCHANGED <<issued, live>>

\* The password is replaced from outside.  Whoever was signed in stays so.
Reset(u) ==
    /\ passwords[u] # {}
    /\ \E p \in Passwords : passwords' = [passwords EXCEPT ![u] = @ \cup {p}]
    /\ UNCHANGED <<born, issued, live, inside>>

\* The process dies: what was being served is gone, what was in force stays so.
Restart ==
    /\ inside' = [w \in Workers |-> Absent]
    /\ UNCHANGED <<passwords, born, issued, live>>

Request(w) ==
    \/ Exit(w)
    \/ \E s \in Sids : Enter(w, s)
    \/ \E u \in Users : NewPassword(w, u) \/ Delete(w, u) \/ Create(w, u)

Next ==
    \/ \E s \in Sids : End(s) \/ Issue(s)
    \/ \E u \in Users : EndAll(u) \/ Reset(u)
    \/ \E w \in Workers : Request(w)
    \/ Restart

Spec == Init /\ [][Next]_vars
=============================================================================
