---------------------------- MODULE AuthSessions ----------------------------
(***************************************************************************)
(* Accounts, sessions and tokens of the panel: data/users.json,            *)
(* data/sessions.json, the JWTs built from both, and the handlers of       *)
(* handlers_auth.go.                                                       *)
(*                                                                         *)
(* Every handler is a sequence of steps separated where the code gives up  *)
(* usersMu or sessMu: a worker is one request in flight, and requests      *)
(* interleave at those points.  A read of either table takes one instant,  *)
(* as module FileCache shows of the mtime caches.  sessions.json that      *)
(* cannot be read counts as empty and one that cannot be written stays as  *)
(* it is (Loaded, Saved); an error on users.json ends the request before   *)
(* it has changed anything, as Serve does.                                 *)
(*                                                                         *)
(* claims.pw, claims.born, the variable born, the field had of an account  *)
(* and the field live of a request are history: the password a token was   *)
(* issued for, the account of that name it was issued to, the passwords    *)
(* the account has had since the panel last set one, and whether a         *)
(* request's token was acceptable at the instant the request began.        *)
(***************************************************************************)
EXTENDS Naturals, FiniteSets

CONSTANTS Users,       \* usernames
          Seed,        \* the seeded "admin" account
          Passwords,
          DefaultPw,   \* DefaultPassword, never a legal new password
          Workers,     \* requests in flight
          MaxSid,      \* bound: session ids drawn
          MaxVersion,  \* bound: token_version of an account
          MaxBorn,     \* bound: accounts created under each name
          Granted,     \* bound: the levels that accounts are given
          Resets,      \* bound: the accounts the offline tool is used on, with
                       \* the new passwords
          Faults,      \* whether sessions.json can fail to be read or written
          Absent       \* no account, no session, no token

Sids == 1 .. MaxSid
Levels == {"full", "limited", "user"}   \* admin without perms, with perms, role user
Account == {a \in [pw : Passwords, tv : 0 .. MaxVersion, level : Levels,
                  had : SUBSET Passwords] : a.pw \in a.had}
Claims == [sub : Users, tv : 0 .. MaxVersion, pw : Passwords, born : Nat]

ASSUME AuthAssumption ==
    /\ Seed \in Users
    /\ DefaultPw \in Passwords
    /\ MaxSid \in Nat /\ MaxVersion \in Nat /\ MaxBorn \in [Users -> Nat]
    /\ Granted \subseteq Levels /\ Resets \subseteq Users \X Passwords
    /\ Faults \in BOOLEAN
    /\ Absent \notin Users \cup Passwords \cup Sids \cup Account \cup Claims

VARIABLES users,     \* users.json
          sessions,  \* sessions.json: the owner of each live sid
          tokens,    \* the claims signed for each sid
          lastSid,   \* sids drawn so far
          expired,   \* sids older than TokenTTL
          born,      \* accounts created so far under each name
          op         \* the request of each worker

vars == <<users, sessions, tokens, lastSid, expired, born, op>>

\* One request: where it is, its token's sid, the claims it was let in with or
\* is about to sign, the caller's rights as read at authentication (a full
\* administrator; one that adminOnly() lets through), and the account whose
\* sessions it is about to revoke.
Request ==
    [pc     : {"idle", "login", "session", "touch", "route",
               "bump", "signout", "revoke", "rotate", "issue", "kick"},
     sid    : Sids \cup {Absent},
     claims : Claims \cup {Absent},
     full   : BOOLEAN,
     admin  : BOOLEAN,
     target : Users \cup {Absent},
     live   : BOOLEAN]

Idle == [pc |-> "idle", sid |-> Absent, claims |-> Absent,
         full |-> FALSE, admin |-> FALSE, target |-> Absent, live |-> FALSE]

TypeOK ==
    /\ users \in [Users -> Account \cup {Absent}]
    /\ sessions \in [Sids -> Users \cup {Absent}]
    /\ tokens \in [Sids -> Claims \cup {Absent}]
    /\ lastSid \in 0 .. MaxSid
    /\ expired \subseteq Sids
    /\ born \in [Users -> Nat]
    /\ op \in [Workers -> Request]

-----------------------------------------------------------------------------
\* The two tables.

Exists(u) == users[u] # Absent

FullAdmins(table) == {u \in Users : table[u] # Absent /\ table[u].level = "full"}

NoSessions == [s \in Sids |-> Absent]

\* What loadSessions may return: an error counts as an empty table.
Loaded == {sessions} \cup (IF Faults THEN {NoSessions} ELSE {})

\* What saveSessions may leave behind: an error is logged and no more.
Saved(table) == {table} \cup (IF Faults THEN {sessions} ELSE {})

Prune(table) == [s \in Sids |-> IF s \in expired THEN Absent ELSE table[s]]

WithoutUser(table, u) == [s \in Sids |-> IF table[s] = u THEN Absent ELSE table[s]]

\* Mutant: touchSession puts a missing record back.
TouchedAnyway(table, s, u) == [table EXCEPT ![s] = u]

\* touchSession refreshes a record that is still there and never restores one.
Touched(table, s, u) == IF table[s] = Absent THEN table ELSE [table EXCEPT ![s] = u]

\* The claims a handler signs for the account as it read it.
ClaimsOf(u) == [sub |-> u, tv |-> users[u].tv, pw |-> users[u].pw, born |-> born[u]]

\* Mutant: any version of an account that exists will do.
VersionUnchecked(c) == Exists(c.sub)

VersionMatches(c) == Exists(c.sub) /\ users[c.sub].tv = c.tv

\* What Authenticate and AuthenticateWS demand of a token, taken at one instant.
Acceptable(s) ==
    /\ tokens[s] # Absent
    /\ s \notin expired
    /\ VersionMatches(tokens[s])
    /\ sessions[s] # Absent

\* Mutant: a new password under the old token_version.
SetPasswordOnly(u, p, l) ==
    [users EXCEPT ![u] = [pw |-> p, tv |-> users[u].tv, level |-> l, had |-> {p}]]

SetPassword(u, p, l) ==
    [users EXCEPT ![u] = [pw |-> p, tv |-> users[u].tv + 1, level |-> l, had |-> {p}]]

SetLevel(u, l) == [users EXCEPT ![u].level = l]

\* Mutant: the version is counted twice.
BumpVersionTwice(u) == [users EXCEPT ![u].tv = @ + 2]

BumpVersion(u) == [users EXCEPT ![u].tv = @ + 1]

\* What is left of a request once only its revocation is outstanding.
Pending(pc, u) == [Idle EXCEPT !.pc = pc, !.target = u]

Done(w) == op' = [op EXCEPT ![w] = Idle]

Goto(w, pc) == op' = [op EXCEPT ![w].pc = pc]

-----------------------------------------------------------------------------
\* SeedDefaultUsers has written its one account, under the default password.
Init ==
    /\ users = [u \in Users |->
                  IF u = Seed
                  THEN [pw |-> DefaultPw, tv |-> 0, level |-> "full", had |-> {DefaultPw}]
                  ELSE Absent]
    /\ sessions = NoSessions
    /\ tokens = [s \in Sids |-> Absent]
    /\ lastSid = 0
    /\ expired = {}
    /\ born = [u \in Users |-> IF u = Seed THEN 1 ELSE 0]
    /\ op = [w \in Workers |-> Idle]

-----------------------------------------------------------------------------
\* POST /api/auth/login: the account is read once, the password and the second
\* factor are verified against that copy, and its version is signed later.

LoginVerify(w, u) ==
    /\ op[w].pc = "idle"
    /\ Exists(u)
    /\ op' = [op EXCEPT ![w] = [Idle EXCEPT !.pc = "login", !.claims = ClaimsOf(u)]]
    /\ UNCHANGED <<users, sessions, tokens, lastSid, expired, born>>

\* CreateSession, then CreateToken, at the end of a login or a password change.
IssueToken(w) ==
    /\ op[w].pc \in {"login", "issue"}
    /\ lastSid < MaxSid
    /\ lastSid' = lastSid + 1
    /\ \E t \in Loaded :
          sessions' \in Saved([Prune(t) EXCEPT ![lastSid + 1] = op[w].claims.sub])
    /\ tokens' = [tokens EXCEPT ![lastSid + 1] = op[w].claims]
    /\ Done(w)
    /\ UNCHANGED <<users, expired, born>>

-----------------------------------------------------------------------------
\* Authenticate: signature and exp, then the users table, then the sessions
\* table, then touchSession under sessMu.

AuthUser(w, s) ==
    /\ op[w].pc = "idle"
    /\ tokens[s] # Absent /\ s \notin expired
    /\ VersionMatches(tokens[s])
    /\ LET u == tokens[s].sub IN
       op' = [op EXCEPT ![w] =
                [Idle EXCEPT !.pc = "session", !.sid = s, !.claims = tokens[s],
                             !.full = u \in FullAdmins(users),
                             !.admin = u \in FullAdmins(users) /\ users[u].pw # DefaultPw,
                             !.live = Acceptable(s)]]
    /\ UNCHANGED <<users, sessions, tokens, lastSid, expired, born>>

\* Mutant: a matching version is taken for a live session.
AuthSessionUnchecked(w) ==
    /\ op[w].pc = "session"
    /\ Goto(w, "touch")
    /\ UNCHANGED <<users, sessions, tokens, lastSid, expired, born>>

AuthSession(w) ==
    /\ op[w].pc = "session"
    /\ \E t \in Loaded :
          IF t[op[w].sid] # Absent THEN Goto(w, "touch") ELSE Done(w)
    /\ UNCHANGED <<users, sessions, tokens, lastSid, expired, born>>

TouchSession(w) ==
    /\ op[w].pc = "touch"
    /\ sessions' \in Saved(Touched(sessions, op[w].sid, op[w].claims.sub))
    /\ Goto(w, "route")
    /\ UNCHANGED <<users, tokens, lastSid, expired, born>>

Caller(w) == op[w].claims.sub

AdminRoute(w) == op[w].pc = "route" /\ op[w].admin

\* Any other handler.  The list of devices drops the sessions past TokenTTL from
\* the file; nothing else touches the two tables.
Serve(w) ==
    /\ op[w].pc = "route"
    /\ sessions' \in {sessions, Prune(sessions)}
    /\ Done(w)
    /\ UNCHANGED <<users, tokens, lastSid, expired, born>>

-----------------------------------------------------------------------------
\* POST /api/auth/logout: decode the token once more and revoke its session; if
\* the token has expired by now or the session is not found in the table, every
\* token of the account.

Logout(w) ==
    /\ op[w].pc = "route"
    /\ \E t \in Loaded :
          IF op[w].sid \notin expired /\ t[op[w].sid] # Absent
          THEN /\ sessions' \in Saved([sessions EXCEPT ![op[w].sid] = Absent])
               /\ Done(w)
          ELSE /\ op' = [op EXCEPT ![w] =
                           [Pending("signout", Caller(w)) EXCEPT !.sid = op[w].sid]]
               /\ UNCHANGED sessions
    /\ UNCHANGED <<users, tokens, lastSid, expired, born>>

\* POST /api/auth/sessions/{sid}/kick: look the owner up, then revoke.
KickLookup(w, s) ==
    /\ op[w].pc = "route"
    /\ sessions' \in Saved(Prune(sessions))
    /\ \/ /\ Prune(sessions)[s] # Absent
          /\ (Prune(sessions)[s] = Caller(w) \/ op[w].full)
          /\ op' = [op EXCEPT ![w] = [Idle EXCEPT !.pc = "kick", !.sid = s]]
       \/ Done(w)    \* unread, unknown, idle for longer than OnlineSeconds, not ours
    /\ UNCHANGED <<users, tokens, lastSid, expired, born>>

KickRevoke(w) ==
    /\ op[w].pc = "kick"
    /\ sessions' \in Saved([sessions EXCEPT ![op[w].sid] = Absent])
    /\ Done(w)
    /\ UNCHANGED <<users, tokens, lastSid, expired, born>>

\* POST /api/auth/sessions/kick-all
KickAll(w, t) ==
    /\ AdminRoute(w)
    /\ Exists(t)
    /\ op' = [op EXCEPT ![w] = Pending("bump", t)]
    /\ UNCHANGED <<users, sessions, tokens, lastSid, expired, born>>

\* BumpTokenVersion: the version under usersMu, the sessions afterwards.
BumpTokenVersion(w) ==
    LET t == op[w].target IN
    /\ op[w].pc \in {"bump", "signout"}
    /\ IF Exists(t)
       THEN /\ users[t].tv < MaxVersion
            /\ users' = BumpVersion(t)
            /\ Goto(w, "revoke")
       ELSE Done(w) /\ UNCHANGED users
    /\ UNCHANGED <<sessions, tokens, lastSid, expired, born>>

RevokeUserSessions(w) ==
    /\ op[w].pc \in {"revoke", "rotate"}
    /\ sessions' \in Saved(WithoutUser(sessions, op[w].target))
    /\ IF op[w].pc = "rotate" THEN Goto(w, "issue") ELSE Done(w)
    /\ UNCHANGED <<users, tokens, lastSid, expired, born>>

-----------------------------------------------------------------------------
\* POST /api/auth/password: the old password is checked again inside the
\* transaction, so the caller is whoever knows the current one.
ChangePassword(w, p) ==
    LET u == Caller(w) IN
    /\ op[w].pc = "route"
    /\ Exists(u)
    /\ p \notin {users[u].pw, DefaultPw}
    /\ users[u].tv < MaxVersion
    /\ users' = SetPassword(u, p, users[u].level)
    /\ op' = [op EXCEPT ![w] =
                [Pending("rotate", u) EXCEPT
                   !.claims = [sub |-> u, tv |-> users[u].tv + 1, pw |-> p, born |-> born[u]]]]
    /\ UNCHANGED <<sessions, tokens, lastSid, expired, born>>

\* Mutant: the last full administrator may step down.
KeepsFullAdminUnchecked(table) == TRUE

\* The write is refused if it would leave no full administrator.
KeepsFullAdmin(table) == FullAdmins(users) # {} => FullAdmins(table) # {}

\* PUT /api/auth/users/{username}, with a password in the body or without one.
UpdateUserPassword(w, t, p, l) ==
    /\ AdminRoute(w)
    /\ Exists(t)
    /\ p # DefaultPw
    /\ users[t].tv < MaxVersion
    /\ KeepsFullAdmin(SetPassword(t, p, l))
    /\ users' = SetPassword(t, p, l)
    /\ op' = [op EXCEPT ![w] = Pending("revoke", t)]
    /\ UNCHANGED <<sessions, tokens, lastSid, expired, born>>

UpdateUserLevel(w, t, l) ==
    /\ AdminRoute(w)
    /\ Exists(t)
    /\ KeepsFullAdmin(SetLevel(t, l))
    /\ users' = SetLevel(t, l)
    /\ Done(w)
    /\ UNCHANGED <<sessions, tokens, lastSid, expired, born>>

\* DELETE /api/auth/users/{username}: the record goes, its sessions stay.
DeleteUser(w, t) ==
    /\ AdminRoute(w)
    /\ t # Caller(w)
    /\ Exists(t)
    /\ t \in FullAdmins(users) => FullAdmins(users) # {t}
    /\ users' = [users EXCEPT ![t] = Absent]
    /\ Done(w)
    /\ UNCHANGED <<sessions, tokens, lastSid, expired, born>>

\* POST /api/auth/users: a new record starts at token_version 0.
CreateUser(w, t, p, l) ==
    /\ AdminRoute(w)
    /\ ~Exists(t)
    /\ p # DefaultPw
    /\ born[t] < MaxBorn[t]
    /\ users' = [users EXCEPT ![t] = [pw |-> p, tv |-> 0, level |-> l, had |-> {p}]]
    /\ born' = [born EXCEPT ![t] = @ + 1]
    /\ Done(w)
    /\ UNCHANGED <<sessions, tokens, lastSid, expired>>

-----------------------------------------------------------------------------
\* cmd/reset-password, a process of its own: any account, any password (the
\* default one too) and the version as it was, so that what was signed stays good.
\* The tool reads, hashes and writes with no lock that the panel knows of; here
\* that is one step (see the README for what an overlap loses).
OfflineReset(u, p) ==
    /\ Exists(u)
    /\ users' = [users EXCEPT ![u].pw = p, ![u].had = @ \cup {p}]
    /\ UNCHANGED <<sessions, tokens, lastSid, expired, born, op>>

\* TokenTTL passes, oldest session first: its JWT is refused and its record can
\* be pruned.
Expire(s) ==
    /\ s <= lastSid /\ s \notin expired
    /\ \A r \in 1 .. (s - 1) : r \in expired
    /\ expired' = expired \cup {s}
    /\ UNCHANGED <<users, sessions, tokens, lastSid, born, op>>

\* SeedDefaultUsers at start-up: a demoted seed account is an admin again.
SeedRepaired ==
    IF Exists(Seed) /\ users[Seed].level = "user" THEN SetLevel(Seed, "full") ELSE users

\* The process dies at any point; both files survive, requests do not.
Restart ==
    /\ users' = SeedRepaired
    /\ op' = [w \in Workers |-> Idle]
    /\ UNCHANGED <<sessions, tokens, lastSid, expired, born>>

Handle(w) ==
    \/ IssueToken(w)
    \/ AuthSession(w)
    \/ TouchSession(w)
    \/ Serve(w)
    \/ Logout(w)
    \/ KickRevoke(w)
    \/ BumpTokenVersion(w)
    \/ RevokeUserSessions(w)
    \/ \E s \in Sids : AuthUser(w, s) \/ KickLookup(w, s)
    \/ \E u \in Users : LoginVerify(w, u) \/ KickAll(w, u) \/ DeleteUser(w, u)
    \/ \E p \in Passwords : ChangePassword(w, p)
    \/ \E u \in Users, l \in Granted : UpdateUserLevel(w, u, l)
    \/ \E u \in Users, p \in Passwords, l \in Granted :
          UpdateUserPassword(w, u, p, l) \/ CreateUser(w, u, p, l)

Next ==
    \/ \E w \in Workers : Handle(w)
    \/ \E r \in Resets : OfflineReset(r[1], r[2])
    \/ \E s \in Sids : Expire(s)
    \/ Restart

Spec == Init /\ [][Next]_vars

-----------------------------------------------------------------------------
\* Changing a password in the panel invalidates every token issued for a former
\* one, logins still in flight included: a token that Authenticate would accept
\* was issued for a password the account has had since the panel last set it,
\* that one or one that the offline tool put in its place (auth.go token_version,
\* the transaction of changePasswordHandler and updateUserHandler; the tool
\* leaves issued tokens valid, reset_password.go:12).  Tokens of a deleted
\* account of the same name are not claimed about: see the README.
PasswordBinding ==
    \A s \in Sids :
        Acceptable(s) /\ tokens[s].born = born[tokens[s].sub]
            => tokens[s].pw \in users[tokens[s].sub].had

\* Authenticate reads users.json and sessions.json at different times, yet the
\* requests it lets in are exactly those whose token was acceptable as a whole
\* at the instant the request began: a request that begins after a kick, a
\* logout or a password change has completed never gets in.
AdmittedWasLive ==
    \A w \in Workers : op[w].pc \in {"touch", "route"} => op[w].live

\* The panel always keeps a full administrator (docs/api-overview.md, "must
\* always keep at least one"), whatever two administrators do to each other.
FullAdminRemains == FullAdmins(users) # {}

\* A sid that has left sessions.json never comes back: neither touchSession nor
\* a login writing its own table entry revives a kicked device.
GoneStaysGone ==
    [][\A s \in Sids : s <= lastSid /\ sessions[s] = Absent => sessions'[s] = Absent]_vars

\* logoutHandler: "other devices' sign-in state must not lapse because of one
\* logout".  A logout whose session has not expired leaves every other device's
\* token as acceptable as it was, also when another request has just revoked
\* that session.
LogoutIsLocal ==
    [][\A w \in Workers :
          /\ op[w].pc = "signout" /\ op'[w].pc = "revoke"
          /\ op[w].sid \notin expired
          => \A s \in Sids \ {op[w].sid} : Acceptable(s) => Acceptable(s)']_vars

-----------------------------------------------------------------------------
\* What SignIns sees of all this: the passwords of each account since the panel
\* last set one, the tokens that an account of
\* the present is let in with, and the requests that were let in.  A request is
\* inside from the instant at which its token was acceptable as a whole.
PasswordsOf == [u \in Users |-> IF Exists(u) THEN users[u].had ELSE {}]

InForce == {s \in Sids : Acceptable(s) /\ tokens[s].born = born[tokens[s].sub]}

UnderSid(r) ==
    IF r.pc \in {"touch", "route"} \/ (r.pc = "session" /\ r.live) THEN r.sid ELSE Absent

Inside == [w \in Workers |-> UnderSid(op[w])]

OneTable == INSTANCE SignIns WITH
                passwords <- PasswordsOf, issued <- tokens, live <- InForce, inside <- Inside

\* Two files that are read one after the other, versions that are compared and
\* sessions that are revoked after the account was written behave like one table
\* of sign-ins that is read and changed at one stroke: whatever interleaves or
\* fails, a new password, a deletion or a kick of all devices takes effect on all
\* of its tokens at once, a token issued for a password from before that is never
\* in force, and accounts are changed only under a sign-in that was in force when
\* the request began, or by the offline tool, which ends nothing (auth.go
\* Authenticate, handlers_auth.go, reset_password.go).
TableOfSignIns == OneTable!Spec
=============================================================================
