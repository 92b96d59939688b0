------------------------- MODULE AuthSessionsProofs -------------------------
(***************************************************************************)
(* Proofs about AuthSessions, for any number of accounts, passwords,       *)
(* requests in flight and session ids.                                     *)
(***************************************************************************)
EXTENDS AuthSessions, TLAPS

-----------------------------------------------------------------------------
(* The records a step writes. *)

LEMMA IdleTyped == Idle \in Request
  BY DEF Idle, Request

LEMMA PendingTyped ==
    ASSUME NEW pc \in {"bump", "signout", "revoke", "rotate"}, NEW u \in Users
    PROVE  Pending(pc, u) \in Request
  BY DEF Pending, Idle, Request

LEMMA ClaimsTyped ==
    ASSUME TypeOK, NEW u \in Users, Exists(u)
    PROVE  ClaimsOf(u) \in Claims
  BY DEF TypeOK, Exists, ClaimsOf, Claims, Account

LEMMA AccountTyped ==
    ASSUME TypeOK, NEW u \in Users, Exists(u)
    PROVE  users[u] \in Account
  BY DEF TypeOK, Exists

LEMMA RequestTyped ==
    ASSUME TypeOK, NEW w \in Workers
    PROVE  op[w] \in Request
  BY DEF TypeOK

\* Whatever is read from sessions.json, or left in it, is a table.
LEMMA LoadedTyped ==
    ASSUME TypeOK, NEW t \in Loaded
    PROVE  t \in [Sids -> Users \cup {Absent}] /\ Prune(t) \in [Sids -> Users \cup {Absent}]
  <1>1. t = sessions \/ t = NoSessions
    BY DEF Loaded
  <1>2. t \in [Sids -> Users \cup {Absent}]
    BY <1>1 DEF TypeOK, NoSessions
  <1> QED BY <1>2 DEF Prune

LEMMA SavedTyped ==
    ASSUME TypeOK, NEW table \in [Sids -> Users \cup {Absent}], sessions' \in Saved(table)
    PROVE  sessions' \in [Sids -> Users \cup {Absent}]
  BY DEF Saved, TypeOK

\* Requests that carry claims do carry them.
Signs(w) == op[w].pc \in {"login", "session", "touch", "route", "rotate", "issue"}

CarriesClaims ==
    \A w \in Workers :
       /\ Signs(w) => op[w].claims # Absent
       /\ op[w].pc \in {"session", "touch", "route", "signout", "kick"} => op[w].sid # Absent
       /\ op[w].pc \in {"bump", "signout", "revoke", "rotate"} => op[w].target # Absent

Typed == TypeOK /\ CarriesClaims

LEMMA InitTyped == Init => Typed
  <1> SUFFICES ASSUME Init PROVE Typed
    OBVIOUS
  <1>1. TypeOK
    BY AuthAssumption, IdleTyped DEF Init, TypeOK, Account, Levels, NoSessions
  <1>2. CarriesClaims
    BY DEF Init, CarriesClaims, Signs, Idle
  <1> QED BY <1>1, <1>2 DEF Typed

\* A new request state of one worker and unchanged tables keep the invariant.
LEMMA OneRequestTyped ==
    ASSUME Typed, NEW w \in Workers, NEW r \in Request,
           r.pc \in {"login", "session", "touch", "route", "rotate", "issue"}
              => r.claims # Absent,
           r.pc \in {"session", "touch", "route", "signout", "kick"} => r.sid # Absent,
           r.pc \in {"bump", "signout", "revoke", "rotate"} => r.target # Absent,
           op' = [op EXCEPT ![w] = r]
    PROVE  op' \in [Workers -> Request] /\ CarriesClaims'
  <1>1. op' \in [Workers -> Request]
    BY DEF Typed, TypeOK
  <1>2. ASSUME NEW v \in Workers
        PROVE  op'[v] = IF v = w THEN r ELSE op[v]
    BY DEF Typed, TypeOK
  <1>3. CarriesClaims'
    BY <1>2 DEF Typed, CarriesClaims, Signs
  <1> QED BY <1>1, <1>3

LEMMA DoneTyped ==
    ASSUME Typed, NEW w \in Workers, Done(w)
    PROVE  op' \in [Workers -> Request] /\ CarriesClaims'
  <1>1. Idle \in Request /\ Idle.pc = "idle"
    BY IdleTyped DEF Idle
  <1>2. op' = [op EXCEPT ![w] = Idle]
    BY DEF Done
  <1> QED BY <1>1, <1>2, OneRequestTyped

LEMMA GotoTyped ==
    ASSUME Typed, NEW w \in Workers,
           NEW pc \in {"touch", "route", "revoke", "issue"},
           pc \in {"touch", "route", "issue"} => op[w].claims # Absent,
           pc \in {"touch", "route"} => op[w].sid # Absent,
           pc = "revoke" => op[w].target # Absent,
           Goto(w, pc)
    PROVE  op' \in [Workers -> Request] /\ CarriesClaims'
  <1> DEFINE r == [op[w] EXCEPT !.pc = pc]
  <1>1. op[w] \in Request
    BY RequestTyped DEF Typed
  <1>2. /\ r \in Request /\ r.pc = pc /\ r.claims = op[w].claims
        /\ r.sid = op[w].sid /\ r.target = op[w].target
    BY <1>1 DEF Request
  <1>3. op' = [op EXCEPT ![w] = r]
    BY DEF Goto
  <1> HIDE DEF r
  <1> QED BY <1>2, <1>3, OneRequestTyped

LEMMA PendingTypedStep ==
    ASSUME Typed, NEW w \in Workers, NEW u \in Users, NEW pc \in {"bump", "revoke"},
           op' = [op EXCEPT ![w] = Pending(pc, u)]
    PROVE  op' \in [Workers -> Request] /\ CarriesClaims'
  <1>1. /\ Pending(pc, u) \in Request /\ Pending(pc, u).pc = pc
        /\ Pending(pc, u).target = u
    BY PendingTyped DEF Pending, Idle
  <1>2. u # Absent
    BY AuthAssumption
  <1> QED BY <1>1, <1>2, OneRequestTyped

-----------------------------------------------------------------------------
(* Every step keeps the types. *)

LEMMA LoginVerifyTyped ==
    ASSUME Typed, NEW w \in Workers, NEW u \in Users, LoginVerify(w, u)
    PROVE  Typed'
  <1> DEFINE r == [Idle EXCEPT !.pc = "login", !.claims = ClaimsOf(u)]
  <1>1. ClaimsOf(u) \in Claims /\ ClaimsOf(u) # Absent
    BY ClaimsTyped, AuthAssumption DEF LoginVerify, Typed
  <1>2. r \in Request /\ r.pc = "login" /\ r.claims # Absent
    BY <1>1 DEF Idle, Request
  <1>3. op' = [op EXCEPT ![w] = r]
    BY DEF LoginVerify
  <1>4. op' \in [Workers -> Request] /\ CarriesClaims'
    <2> HIDE DEF r
    <2> QED BY <1>2, <1>3, OneRequestTyped
  <1> QED BY <1>4 DEF LoginVerify, Typed, TypeOK

LEMMA IssueTokenTyped ==
    ASSUME Typed, NEW w \in Workers, IssueToken(w)
    PROVE  Typed'
  <1>1. op[w].claims \in Claims
    BY RequestTyped DEF Typed, CarriesClaims, Signs, IssueToken, Request
  <1>2. lastSid + 1 \in Sids /\ lastSid' \in 0 .. MaxSid
    BY AuthAssumption DEF IssueToken, Typed, TypeOK, Sids
  <1>3. op[w].claims.sub \in Users
    BY <1>1 DEF Claims
  <1>4. PICK t \in Loaded :
              sessions' \in Saved([Prune(t) EXCEPT ![lastSid + 1] = op[w].claims.sub])
    BY DEF IssueToken
  <1>5. sessions' \in [Sids -> Users \cup {Absent}]
    <2>1. [Prune(t) EXCEPT ![lastSid + 1] = op[w].claims.sub] \in [Sids -> Users \cup {Absent}]
      BY <1>3, LoadedTyped DEF Typed
    <2> QED BY <1>4, <2>1, SavedTyped DEF Typed
  <1>6. tokens' \in [Sids -> Claims \cup {Absent}]
    BY <1>1 DEF IssueToken, Typed, TypeOK
  <1>7. op' \in [Workers -> Request] /\ CarriesClaims'
    BY DoneTyped DEF IssueToken
  <1> QED BY <1>2, <1>5, <1>6, <1>7 DEF IssueToken, Typed, TypeOK

LEMMA SessionRequestTyped ==
    ASSUME NEW s \in Sids, NEW c \in Claims, NEW f \in BOOLEAN, NEW a \in BOOLEAN,
           NEW l \in BOOLEAN
    PROVE  [Idle EXCEPT !.pc = "session", !.sid = s, !.claims = c, !.full = f,
                        !.admin = a, !.live = l] \in Request
  BY DEF Idle, Request

LEMMA AuthUserTyped ==
    ASSUME Typed, NEW w \in Workers, NEW s \in Sids, AuthUser(w, s)
    PROVE  Typed'
  <1> DEFINE u == tokens[s].sub
             r == [Idle EXCEPT !.pc = "session", !.sid = s, !.claims = tokens[s],
                     !.full = u \in FullAdmins(users),
                     !.admin = u \in FullAdmins(users) /\ users[u].pw # DefaultPw,
                     !.live = Acceptable(s)]
  <1>1. tokens[s] \in Claims /\ tokens[s] # Absent /\ s # Absent
    BY AuthAssumption DEF AuthUser, Typed, TypeOK
  <1>2. r \in Request /\ r.pc = "session" /\ r.claims # Absent /\ r.sid # Absent
    <2>1. Acceptable(s) \in BOOLEAN
      BY DEF Acceptable
    <2>2. (u \in FullAdmins(users)) \in BOOLEAN
      OBVIOUS
    <2>3. (u \in FullAdmins(users) /\ users[u].pw # DefaultPw) \in BOOLEAN
      OBVIOUS
    <2>4. r \in Request
      BY <1>1, <2>1, <2>2, <2>3, SessionRequestTyped
    <2>5. r.pc = "session" /\ r.claims = tokens[s] /\ r.sid = s
      BY DEF Idle
    <2> QED BY <1>1, <2>4, <2>5
  <1>3. op' = [op EXCEPT ![w] = r]
    BY DEF AuthUser
  <1>4. op' \in [Workers -> Request] /\ CarriesClaims'
    <2> HIDE DEF r
    <2> QED BY <1>2, <1>3, OneRequestTyped
  <1> QED BY <1>4 DEF AuthUser, Typed, TypeOK

LEMMA AuthSessionTyped ==
    ASSUME Typed, NEW w \in Workers, AuthSession(w)
    PROVE  Typed'
  <1>1. op[w].claims # Absent /\ op[w].sid # Absent
    BY DEF AuthSession, Typed, CarriesClaims, Signs
  <1>2. op' \in [Workers -> Request] /\ CarriesClaims'
    BY <1>1, DoneTyped, GotoTyped DEF AuthSession
  <1> QED BY <1>2 DEF AuthSession, Typed, TypeOK

LEMMA TouchSessionTyped ==
    ASSUME Typed, NEW w \in Workers, TouchSession(w)
    PROVE  Typed'
  <1>1. op[w].claims # Absent /\ op[w].sid # Absent
    BY DEF TouchSession, Typed, CarriesClaims, Signs
  <1>2. op[w].sid \in Sids /\ op[w].claims.sub \in Users
    BY <1>1, RequestTyped DEF Typed, Request, Claims
  <1>3. sessions' \in [Sids -> Users \cup {Absent}]
    <2>1. Touched(sessions, op[w].sid, op[w].claims.sub) \in [Sids -> Users \cup {Absent}]
      BY <1>2 DEF Touched, Typed, TypeOK
    <2> QED BY <2>1, SavedTyped DEF TouchSession, Typed
  <1>4. op' \in [Workers -> Request] /\ CarriesClaims'
    BY <1>1, GotoTyped DEF TouchSession
  <1> QED BY <1>3, <1>4 DEF TouchSession, Typed, TypeOK

LEMMA PruneTyped ==
    ASSUME TypeOK
    PROVE  Prune(sessions) \in [Sids -> Users \cup {Absent}]
  BY DEF TypeOK, Prune

LEMMA ServeTyped ==
    ASSUME Typed, NEW w \in Workers, Serve(w)
    PROVE  Typed'
  <1>1. op' \in [Workers -> Request] /\ CarriesClaims'
    BY DoneTyped DEF Serve
  <1>2. sessions' \in [Sids -> Users \cup {Absent}]
    BY PruneTyped DEF Serve, Typed, TypeOK
  <1> QED BY <1>1, <1>2 DEF Serve, Typed, TypeOK

\* A handler past authentication knows its caller and its session.
LEMMA CallerTyped ==
    ASSUME Typed, NEW w \in Workers, op[w].pc = "route"
    PROVE  Caller(w) \in Users /\ op[w].sid \in Sids
  <1>1. op[w].claims # Absent /\ op[w].sid # Absent
    BY DEF Typed, CarriesClaims, Signs
  <1> QED BY <1>1, RequestTyped DEF Typed, Request, Claims, Caller

\* A logout ends with the session revoked, or goes on to revoke every token.
SignsOut(w) ==
    /\ op' = [op EXCEPT ![w] = [Pending("signout", Caller(w)) EXCEPT !.sid = op[w].sid]]
    /\ sessions' = sessions

LEMMA LogoutEither ==
    ASSUME NEW w \in Workers, Logout(w)
    PROVE  \/ Done(w) /\ sessions' \in Saved([sessions EXCEPT ![op[w].sid] = Absent])
           \/ SignsOut(w)
  BY DEF Logout, SignsOut

LEMMA LogoutTyped ==
    ASSUME Typed, NEW w \in Workers, Logout(w)
    PROVE  Typed'
  <1>1. Caller(w) \in Users /\ op[w].sid \in Sids
    BY CallerTyped DEF Logout
  <1>2. CASE Done(w) /\ sessions' \in Saved([sessions EXCEPT ![op[w].sid] = Absent])
    <2>1. [sessions EXCEPT ![op[w].sid] = Absent] \in [Sids -> Users \cup {Absent}]
      BY DEF Typed, TypeOK
    <2>2. sessions' \in [Sids -> Users \cup {Absent}]
      BY <1>2, <2>1, SavedTyped DEF Typed
    <2>3. op' \in [Workers -> Request] /\ CarriesClaims'
      BY <1>2, DoneTyped
    <2> QED BY <2>2, <2>3 DEF Logout, Typed, TypeOK
  <1>3. CASE SignsOut(w)
    <2> DEFINE r == [Pending("signout", Caller(w)) EXCEPT !.sid = op[w].sid]
    <2>1. Pending("signout", Caller(w)) \in Request
      BY <1>1, PendingTyped
    <2>2. op[w].sid # Absent /\ Caller(w) # Absent
      BY <1>1, AuthAssumption
    <2>3. r \in Request /\ r.pc = "signout" /\ r.sid # Absent /\ r.target # Absent
      BY <1>1, <2>1, <2>2 DEF Pending, Idle, Request
    <2>4. op' = [op EXCEPT ![w] = r]
      BY <1>3 DEF SignsOut
    <2>5. op' \in [Workers -> Request] /\ CarriesClaims'
      <3> HIDE DEF r
      <3> QED BY <2>3, <2>4, OneRequestTyped
    <2> QED BY <1>3, <2>5 DEF Logout, SignsOut, Typed, TypeOK
  <1> QED BY <1>2, <1>3, LogoutEither

LEMMA KickLookupTyped ==
    ASSUME Typed, NEW w \in Workers, NEW s \in Sids, KickLookup(w, s)
    PROVE  Typed'
  <1> DEFINE r == [Idle EXCEPT !.pc = "kick", !.sid = s]
  <1>1. r \in Request /\ r.pc = "kick" /\ r.sid # Absent
    BY AuthAssumption DEF Idle, Request
  <1>2. op' = [op EXCEPT ![w] = r] \/ Done(w)
    BY DEF KickLookup
  <1>3. op' \in [Workers -> Request] /\ CarriesClaims'
    <2> HIDE DEF r
    <2> QED BY <1>1, <1>2, OneRequestTyped, DoneTyped
  <1>4. sessions' \in [Sids -> Users \cup {Absent}]
    BY PruneTyped, SavedTyped DEF KickLookup, Typed
  <1> QED BY <1>3, <1>4 DEF KickLookup, Typed, TypeOK

LEMMA KickRevokeTyped ==
    ASSUME Typed, NEW w \in Workers, KickRevoke(w)
    PROVE  Typed'
  <1>1. op' \in [Workers -> Request] /\ CarriesClaims'
    BY DoneTyped DEF KickRevoke
  <1>2. sessions' \in [Sids -> Users \cup {Absent}]
    <2>1. [sessions EXCEPT ![op[w].sid] = Absent] \in [Sids -> Users \cup {Absent}]
      BY DEF Typed, TypeOK
    <2> QED BY <2>1, SavedTyped DEF KickRevoke, Typed
  <1> QED BY <1>1, <1>2 DEF KickRevoke, Typed, TypeOK

LEMMA KickAllTyped ==
    ASSUME Typed, NEW w \in Workers, NEW t \in Users, KickAll(w, t)
    PROVE  Typed'
  <1>1. op' \in [Workers -> Request] /\ CarriesClaims'
    BY PendingTypedStep DEF KickAll
  <1> QED BY <1>1 DEF KickAll, Typed, TypeOK

LEMMA BumpTokenVersionTyped ==
    ASSUME Typed, NEW w \in Workers, BumpTokenVersion(w)
    PROVE  Typed'
  <1> DEFINE t == op[w].target
  <1>1. t \in Users /\ t # Absent
    BY RequestTyped DEF BumpTokenVersion, Typed, CarriesClaims, Request
  <1>2. CASE Exists(t)
    <2>1. users[t] \in Account /\ users[t].tv + 1 \in 0 .. MaxVersion
      BY <1>1, <1>2, AccountTyped, AuthAssumption DEF BumpTokenVersion, Typed, Account
    <2>2. users' \in [Users -> Account \cup {Absent}]
      BY <1>1, <1>2, <2>1 DEF BumpTokenVersion, BumpVersion, Typed, TypeOK, Account
    <2>3. op' \in [Workers -> Request] /\ CarriesClaims'
      BY <1>1, <1>2, GotoTyped DEF BumpTokenVersion
    <2> QED BY <2>2, <2>3 DEF BumpTokenVersion, Typed, TypeOK
  <1>3. CASE ~Exists(t)
    <2>1. op' \in [Workers -> Request] /\ CarriesClaims'
      BY <1>3, DoneTyped DEF BumpTokenVersion
    <2> QED BY <1>3, <2>1 DEF BumpTokenVersion, Typed, TypeOK
  <1> QED BY <1>2, <1>3

LEMMA RevokeUserSessionsTyped ==
    ASSUME Typed, NEW w \in Workers, RevokeUserSessions(w)
    PROVE  Typed'
  <1>1. sessions' \in [Sids -> Users \cup {Absent}]
    <2>1. WithoutUser(sessions, op[w].target) \in [Sids -> Users \cup {Absent}]
      BY DEF WithoutUser, Typed, TypeOK
    <2> QED BY <2>1, SavedTyped DEF RevokeUserSessions, Typed
  <1>2. CASE op[w].pc = "rotate"
    <2>1. op[w].claims # Absent
      BY <1>2 DEF Typed, CarriesClaims, Signs
    <2>2. op' \in [Workers -> Request] /\ CarriesClaims'
      BY <1>2, <2>1, GotoTyped DEF RevokeUserSessions
    <2> QED BY <1>1, <2>2 DEF RevokeUserSessions, Typed, TypeOK
  <1>3. CASE op[w].pc # "rotate"
    <2>1. op' \in [Workers -> Request] /\ CarriesClaims'
      BY <1>3, DoneTyped DEF RevokeUserSessions
    <2> QED BY <1>1, <2>1 DEF RevokeUserSessions, Typed, TypeOK
  <1> QED BY <1>2, <1>3

LEMMA SetPasswordTyped ==
    ASSUME TypeOK, NEW u \in Users, NEW p \in Passwords, NEW l \in Levels,
           Exists(u), users[u].tv < MaxVersion
    PROVE  /\ SetPassword(u, p, l) \in [Users -> Account \cup {Absent}]
           /\ users[u].tv + 1 \in 0 .. MaxVersion
  <1>1. users[u] \in Account
    BY AccountTyped
  <1>2. users[u].tv + 1 \in 0 .. MaxVersion
    BY <1>1, AuthAssumption DEF Account
  <1>3. [pw |-> p, tv |-> users[u].tv + 1, level |-> l, had |-> {p}] \in Account
    BY <1>2 DEF Account
  <1> QED BY <1>2, <1>3 DEF SetPassword, TypeOK

LEMMA SetLevelTyped ==
    ASSUME TypeOK, NEW u \in Users, NEW l \in Levels, Exists(u)
    PROVE  SetLevel(u, l) \in [Users -> Account \cup {Absent}]
  <1>1. users[u] \in Account
    BY AccountTyped
  <1>2. [users[u] EXCEPT !.level = l] \in Account
    BY <1>1 DEF Account
  <1> QED BY <1>2 DEF SetLevel, TypeOK

LEMMA ChangePasswordTyped ==
    ASSUME Typed, NEW w \in Workers, NEW p \in Passwords, ChangePassword(w, p)
    PROVE  Typed'
  <1> DEFINE u == Caller(w)
             c == [sub |-> u, tv |-> users[u].tv + 1, pw |-> p, born |-> born[u]]
             r == [Pending("rotate", u) EXCEPT !.claims = c]
  <1>1. u \in Users /\ Exists(u)
    BY CallerTyped DEF ChangePassword
  <1>2. users[u].level \in Levels /\ users[u].tv < MaxVersion
    BY <1>1, AccountTyped DEF Typed, Account, ChangePassword
  <1>3. users' \in [Users -> Account \cup {Absent}]
    BY <1>1, <1>2, SetPasswordTyped DEF ChangePassword, Typed
  <1>4. c \in Claims
    BY <1>1, <1>2, SetPasswordTyped DEF Typed, TypeOK, Claims
  <1>5. /\ r \in Request /\ r.pc = "rotate" /\ r.claims # Absent
        /\ r.target # Absent
    <2>1. c # Absent /\ u # Absent
      BY <1>1, <1>4, AuthAssumption
    <2>2. Pending("rotate", u) \in Request
      BY <1>1, PendingTyped
    <2> HIDE DEF c
    <2> QED BY <1>1, <1>4, <2>1, <2>2 DEF Pending, Idle, Request
  <1>6. op' = [op EXCEPT ![w] = r]
    BY DEF ChangePassword
  <1>7. op' \in [Workers -> Request] /\ CarriesClaims'
    <2> HIDE DEF r
    <2> QED BY <1>5, <1>6, OneRequestTyped
  <1> QED BY <1>3, <1>7 DEF ChangePassword, Typed, TypeOK

LEMMA UpdateUserPasswordTyped ==
    ASSUME Typed, NEW w \in Workers, NEW t \in Users, NEW p \in Passwords,
           NEW l \in Levels, UpdateUserPassword(w, t, p, l)
    PROVE  Typed'
  <1>1. users' \in [Users -> Account \cup {Absent}]
    BY SetPasswordTyped DEF UpdateUserPassword, Typed
  <1>2. op' \in [Workers -> Request] /\ CarriesClaims'
    BY PendingTypedStep DEF UpdateUserPassword
  <1> QED BY <1>1, <1>2 DEF UpdateUserPassword, Typed, TypeOK

LEMMA UpdateUserLevelTyped ==
    ASSUME Typed, NEW w \in Workers, NEW t \in Users, NEW l \in Levels,
           UpdateUserLevel(w, t, l)
    PROVE  Typed'
  <1>1. users' \in [Users -> Account \cup {Absent}]
    BY SetLevelTyped DEF UpdateUserLevel, Typed
  <1>2. op' \in [Workers -> Request] /\ CarriesClaims'
    BY DoneTyped DEF UpdateUserLevel
  <1> QED BY <1>1, <1>2 DEF UpdateUserLevel, Typed, TypeOK

LEMMA DeleteUserTyped ==
    ASSUME Typed, NEW w \in Workers, NEW t \in Users, DeleteUser(w, t)
    PROVE  Typed'
  <1>1. users' \in [Users -> Account \cup {Absent}]
    BY DEF DeleteUser, Typed, TypeOK
  <1>2. op' \in [Workers -> Request] /\ CarriesClaims'
    BY DoneTyped DEF DeleteUser
  <1> QED BY <1>1, <1>2 DEF DeleteUser, Typed, TypeOK

LEMMA CreateUserTyped ==
    ASSUME Typed, NEW w \in Workers, NEW t \in Users, NEW p \in Passwords,
           NEW l \in Levels, CreateUser(w, t, p, l)
    PROVE  Typed'
  <1>1. [pw |-> p, tv |-> 0, level |-> l, had |-> {p}] \in Account
    BY AuthAssumption DEF Account
  <1>2. users' \in [Users -> Account \cup {Absent}]
    BY <1>1 DEF CreateUser, Typed, TypeOK
  <1>3. born' \in [Users -> Nat]
    BY AuthAssumption DEF CreateUser, Typed, TypeOK
  <1>4. op' \in [Workers -> Request] /\ CarriesClaims'
    BY DoneTyped DEF CreateUser
  <1> QED BY <1>2, <1>3, <1>4 DEF CreateUser, Typed, TypeOK

LEMMA ResetTyped ==
    ASSUME TypeOK, NEW u \in Users, NEW p \in Passwords, OfflineReset(u, p)
    PROVE  /\ users'[u] \in Account /\ users'[u].tv = users[u].tv
           /\ users'[u].level = users[u].level /\ users'[u].had = users[u].had \cup {p}
           /\ \A v \in Users : v # u => users'[v] = users[v]
           /\ users' \in [Users -> Account \cup {Absent}]
  <1>1. users[u] \in Account
    BY AccountTyped DEF OfflineReset
  <1> DEFINE a == [users[u] EXCEPT !.pw = p, !.had = @ \cup {p}]
  <1>2. /\ a \in Account /\ a.tv = users[u].tv /\ a.level = users[u].level
        /\ a.had = users[u].had \cup {p}
    BY <1>1 DEF Account
  <1>3. users' = [users EXCEPT ![u] = a]
    BY DEF OfflineReset, TypeOK
  <1> HIDE DEF a
  <1> QED BY <1>2, <1>3 DEF TypeOK

LEMMA OfflineResetTyped ==
    ASSUME Typed, NEW u \in Users, NEW p \in Passwords, OfflineReset(u, p)
    PROVE  Typed'
  <1>1. users' \in [Users -> Account \cup {Absent}]
    BY ResetTyped DEF Typed
  <1> QED BY <1>1 DEF OfflineReset, Typed, TypeOK, CarriesClaims, Signs

\* The bound on the resets leaves accounts and passwords.
LEMMA ResetsTyped ==
    ASSUME NEW r \in Resets
    PROVE  r[1] \in Users /\ r[2] \in Passwords
  BY AuthAssumption

LEMMA ExpireTyped ==
    ASSUME Typed, NEW s \in Sids, Expire(s)
    PROVE  Typed'
  BY DEF Expire, Typed, TypeOK, CarriesClaims, Signs

LEMMA RestartTyped ==
    ASSUME Typed, Restart
    PROVE  Typed'
  <1>1. users' \in [Users -> Account \cup {Absent}]
    <2>1. "full" \in Levels
      BY DEF Levels
    <2> QED BY <2>1, SetLevelTyped, AuthAssumption DEF Restart, SeedRepaired, Typed, TypeOK
  <1>2. op' \in [Workers -> Request] /\ CarriesClaims'
    BY IdleTyped DEF Restart, CarriesClaims, Signs, Idle
  <1> QED BY <1>1, <1>2 DEF Restart, Typed, TypeOK

LEMMA NextTyped == Typed /\ [Next]_vars => Typed'
  <1> SUFFICES ASSUME Typed, [Next]_vars PROVE Typed'
    OBVIOUS
  <1>1. ASSUME NEW w \in Workers, Handle(w) PROVE Typed'
    BY AuthAssumption, <1>1, IssueTokenTyped, AuthSessionTyped, TouchSessionTyped, ServeTyped, LogoutTyped,
       KickRevokeTyped, BumpTokenVersionTyped, RevokeUserSessionsTyped, AuthUserTyped,
       KickLookupTyped, LoginVerifyTyped, KickAllTyped, DeleteUserTyped,
       ChangePasswordTyped, UpdateUserLevelTyped, UpdateUserPasswordTyped, CreateUserTyped
       DEF Handle
  <1>2. ASSUME NEW s \in Sids, Expire(s) PROVE Typed'
    BY <1>2, ExpireTyped
  <1>3. CASE Restart
    BY <1>3, RestartTyped
  <1>4. CASE UNCHANGED vars
    BY <1>4 DEF vars, Typed, TypeOK, CarriesClaims, Signs
  <1>5. CASE \E r \in Resets : OfflineReset(r[1], r[2])
    BY <1>5, OfflineResetTyped, ResetsTyped
  <1> QED BY <1>1, <1>2, <1>3, <1>4, <1>5 DEF Next

LEMMA SpecTyped == Spec => []Typed
  BY InitTyped, NextTyped, PTL DEF Spec

\* The two files, the tokens and every request in flight stay well formed.
THEOREM TypeCorrect == Spec => []TypeOK
  <1>1. Typed => TypeOK
    BY DEF Typed
  <1> QED BY <1>1, SpecTyped, PTL

-----------------------------------------------------------------------------
(* Password binding.  Inductive form: every claim set in circulation, signed *)
(* or in flight, is of an account at most as new and a version at most as    *)
(* high as the present ones, and with equal versions the password is one the *)
(* account has had since the panel last set it.                              *)

Bound(c) ==
    /\ c.born <= born[c.sub]
    /\ Exists(c.sub) /\ c.born = born[c.sub] =>
          /\ c.tv <= users[c.sub].tv
          /\ c.tv = users[c.sub].tv => c.pw \in users[c.sub].had

Circulating ==
    {c \in Claims : \/ \E s \in Sids : tokens[s] = c
                    \/ \E w \in Workers : Signs(w) /\ op[w].claims = c}

AllBound == \A c \in Circulating : Bound(c)

\* What any step may do to the account of one name.
AccountMoves(u) ==
    \/ users'[u] = Absent /\ born'[u] = born[u]
    \/ born'[u] = born[u] + 1
    \/ /\ Exists(u) /\ users'[u] # Absent /\ born'[u] = born[u]
       /\ \/ users'[u].tv = users[u].tv + 1
          \/ users'[u].tv = users[u].tv /\ users[u].had \subseteq users'[u].had

LEMMA AccountUnchangedMoves ==
    ASSUME NEW u \in Users, users'[u] = users[u], born'[u] = born[u]
    PROVE  AccountMoves(u)
  BY DEF AccountMoves, Exists

LEMMA SetPasswordMoves ==
    ASSUME Typed, NEW t \in Users, NEW p \in Passwords, NEW l \in Levels, Exists(t),
           users[t].tv < MaxVersion,
           users' = SetPassword(t, p, l), born' = born, NEW u \in Users
    PROVE  AccountMoves(u)
  <1>1. [pw |-> p, tv |-> users[t].tv + 1, level |-> l, had |-> {p}] # Absent
    BY SetPasswordTyped, AuthAssumption DEF Typed, Account
  <1>2. CASE u = t
    BY <1>1, <1>2 DEF AccountMoves, SetPassword, Typed, TypeOK
  <1>3. CASE u # t
    BY <1>3, AccountUnchangedMoves DEF SetPassword, Typed, TypeOK
  <1> QED BY <1>2, <1>3

LEMMA SetLevelMoves ==
    ASSUME Typed, NEW t \in Users, NEW l \in Levels, Exists(t),
           users' = SetLevel(t, l), born' = born, NEW u \in Users
    PROVE  AccountMoves(u)
  <1>1. users[t] \in Account
    BY AccountTyped DEF Typed
  <1>2. [users[t] EXCEPT !.level = l] \in Account
    BY <1>1 DEF Account
  <1>3. CASE u = t
    <2>1. users'[t] = [users[t] EXCEPT !.level = l]
      BY DEF SetLevel, Typed, TypeOK
    <2>2. users'[t].tv = users[t].tv /\ users'[t].had = users[t].had
      BY <1>1, <2>1 DEF Account
    <2>3. users'[t] # Absent
      BY <1>2, <2>1, AuthAssumption
    <2> QED BY <1>3, <2>2, <2>3 DEF AccountMoves
  <1>4. CASE u # t
    BY <1>4, AccountUnchangedMoves DEF SetLevel, Typed, TypeOK
  <1> QED BY <1>3, <1>4

LEMMA BumpVersionMoves ==
    ASSUME Typed, NEW t \in Users, Exists(t), users[t].tv < MaxVersion,
           users' = BumpVersion(t), born' = born, NEW u \in Users
    PROVE  AccountMoves(u)
  <1>1. users[t] \in Account
    BY AccountTyped DEF Typed
  <1>2. [users[t] EXCEPT !.tv = @ + 1] \in Account
    BY <1>1, AuthAssumption DEF Account
  <1>3. CASE u = t
    <2>1. users'[t] = [users[t] EXCEPT !.tv = @ + 1]
      BY DEF BumpVersion, Typed, TypeOK
    <2>2. users'[t].tv = users[t].tv + 1
      BY <1>1, <2>1 DEF Account
    <2>3. users'[t] # Absent
      BY <1>2, <2>1, AuthAssumption
    <2> QED BY <1>3, <2>2, <2>3 DEF AccountMoves
  <1>4. CASE u # t
    BY <1>4, AccountUnchangedMoves DEF BumpVersion, Typed, TypeOK
  <1> QED BY <1>3, <1>4

\* Only the offline tool replaces a password without a new version or a new
\* account, and the passwords had so far stay good.
LEMMA AccountsMove ==
    ASSUME Typed, [Next]_vars, NEW u \in Users
    PROVE  AccountMoves(u)
  <1>1. CASE users' = users /\ born' = born
    BY <1>1, AccountUnchangedMoves
  <1>2. ASSUME NEW w \in Workers, NEW p \in Passwords, ChangePassword(w, p)
        PROVE  AccountMoves(u)
    <2>1. Caller(w) \in Users
      BY <1>2, CallerTyped DEF ChangePassword
    <2>2. users[Caller(w)].level \in Levels
      BY <1>2, <2>1, AccountTyped DEF ChangePassword, Typed, Account
    <2> QED BY <1>2, <2>1, <2>2, SetPasswordMoves DEF ChangePassword
  <1>3. ASSUME NEW w \in Workers, NEW t \in Users, NEW p \in Passwords, NEW l \in Levels,
               UpdateUserPassword(w, t, p, l)
        PROVE  AccountMoves(u)
    BY <1>3, SetPasswordMoves DEF UpdateUserPassword
  <1>4. ASSUME NEW w \in Workers, NEW t \in Users, NEW l \in Levels,
               UpdateUserLevel(w, t, l)
        PROVE  AccountMoves(u)
    BY <1>4, SetLevelMoves DEF UpdateUserLevel
  <1>5. ASSUME NEW w \in Workers, NEW t \in Users, DeleteUser(w, t)
        PROVE  AccountMoves(u)
    <2>1. CASE u = t
      BY <1>5, <2>1 DEF DeleteUser, AccountMoves, Typed, TypeOK
    <2>2. CASE u # t
      BY <1>5, <2>2, AccountUnchangedMoves DEF DeleteUser, Typed, TypeOK
    <2> QED BY <2>1, <2>2
  <1>6. ASSUME NEW w \in Workers, NEW t \in Users, NEW p \in Passwords, NEW l \in Levels,
               CreateUser(w, t, p, l)
        PROVE  AccountMoves(u)
    <2>1. CASE u = t
      BY <1>6, <2>1 DEF CreateUser, AccountMoves, Typed, TypeOK
    <2>2. CASE u # t
      BY <1>6, <2>2, AccountUnchangedMoves DEF CreateUser, Typed, TypeOK
    <2> QED BY <2>1, <2>2
  <1>7. ASSUME NEW w \in Workers, BumpTokenVersion(w)
        PROVE  AccountMoves(u)
    <2>1. op[w].target \in Users
      BY <1>7, RequestTyped DEF BumpTokenVersion, Typed, CarriesClaims, Request
    <2>2. CASE Exists(op[w].target)
      BY <1>7, <2>1, <2>2, BumpVersionMoves DEF BumpTokenVersion
    <2>3. CASE ~Exists(op[w].target)
      BY <1>7, <2>3, AccountUnchangedMoves DEF BumpTokenVersion
    <2> QED BY <2>2, <2>3
  <1>8. CASE Restart
    <2>1. "full" \in Levels
      BY DEF Levels
    <2>2. CASE Exists(Seed) /\ users[Seed].level = "user"
      BY <1>8, <2>1, <2>2, SetLevelMoves, AuthAssumption DEF Restart, SeedRepaired
    <2>3. CASE ~(Exists(Seed) /\ users[Seed].level = "user")
      BY <1>8, <2>3, AccountUnchangedMoves DEF Restart, SeedRepaired
    <2> QED BY <2>2, <2>3
  <1>10. ASSUME NEW t \in Users, NEW p \in Passwords, OfflineReset(t, p)
         PROVE  AccountMoves(u)
    <2>1. born' = born /\ Exists(t)
      BY <1>10 DEF OfflineReset
    <2>2. CASE u = t
      BY <1>10, <2>1, <2>2, ResetTyped, AuthAssumption DEF AccountMoves, Typed
    <2>3. CASE u # t
      BY <1>10, <2>1, <2>3, ResetTyped, AccountUnchangedMoves DEF Typed
    <2> QED BY <2>2, <2>3
  <1>9. \/ users' = users /\ born' = born
        \/ Restart
        \/ \E r \in Resets : OfflineReset(r[1], r[2])
        \/ \E w \in Workers :
              \/ BumpTokenVersion(w)
              \/ \E p \in Passwords : ChangePassword(w, p)
              \/ \E t \in Users : DeleteUser(w, t)
              \/ \E t \in Users, l \in Levels : UpdateUserLevel(w, t, l)
              \/ \E t \in Users, p \in Passwords, l \in Levels :
                    UpdateUserPassword(w, t, p, l) \/ CreateUser(w, t, p, l)
    <2>1. ASSUME NEW w \in Workers,
                 \/ IssueToken(w) \/ AuthSession(w) \/ TouchSession(w) \/ Serve(w)
                 \/ Logout(w) \/ KickRevoke(w) \/ RevokeUserSessions(w)
                 \/ \E s \in Sids : AuthUser(w, s) \/ KickLookup(w, s)
                 \/ \E t \in Users : LoginVerify(w, t) \/ KickAll(w, t)
          PROVE  users' = users /\ born' = born
      BY <2>1 DEF IssueToken, AuthSession, TouchSession, Serve, Logout, KickRevoke,
         RevokeUserSessions, AuthUser, KickLookup, LoginVerify, KickAll
    <2>2. ASSUME NEW w \in Workers, Handle(w)
          PROVE  \/ users' = users /\ born' = born
                 \/ BumpTokenVersion(w)
                 \/ \E p \in Passwords : ChangePassword(w, p)
                 \/ \E t \in Users : DeleteUser(w, t)
                 \/ \E t \in Users, l \in Levels : UpdateUserLevel(w, t, l)
                 \/ \E t \in Users, p \in Passwords, l \in Levels :
                       UpdateUserPassword(w, t, p, l) \/ CreateUser(w, t, p, l)
      BY AuthAssumption, <2>1, <2>2 DEF Handle
    <2> QED BY <2>2 DEF Next, vars, Expire
  <1> QED BY <1>1, <1>2, <1>3, <1>4, <1>5, <1>6, <1>7, <1>8, <1>9, <1>10, ResetsTyped

\* So a claim set that was bound stays bound.
LEMMA BoundStays ==
    ASSUME Typed, Typed', [Next]_vars, NEW c \in Claims, Bound(c)
    PROVE  Bound(c)'
  <1> DEFINE u == c.sub
  <1>1. /\ u \in Users /\ c.tv \in Nat /\ c.born \in Nat
        /\ born[u] \in Nat /\ born'[u] \in Nat
    BY AuthAssumption DEF Claims, Typed, TypeOK
  <1>2. AccountMoves(u)
    BY <1>1, AccountsMove
  <1>3. users[u] # Absent => users[u].tv \in Nat
    BY <1>1, AccountTyped, AuthAssumption DEF Typed, Account, Exists
  <1> QED BY <1>1, <1>2, <1>3 DEF AccountMoves, Bound, Exists

LEMMA OneRequestCirculating ==
    ASSUME Typed, NEW w \in Workers, NEW r \in Request,
           op' = [op EXCEPT ![w] = r], tokens' = tokens, NEW c \in Circulating'
    PROVE  \/ c \in Circulating
           \/ /\ r.pc \in {"login", "session", "touch", "route", "rotate", "issue"}
              /\ c = r.claims
  <1>1. \A v \in Workers : op'[v] = IF v = w THEN r ELSE op[v]
    BY DEF Typed, TypeOK
  <1> QED BY <1>1 DEF Circulating, Signs

LEMMA DoneCirculating ==
    ASSUME Typed, NEW w \in Workers, Done(w), tokens' = tokens
    PROVE  Circulating' \subseteq Circulating
  <1>1. Idle \in Request /\ Idle.pc = "idle"
    BY IdleTyped DEF Idle
  <1> QED BY <1>1, OneRequestCirculating DEF Done

LEMMA PendingCirculating ==
    ASSUME Typed, NEW w \in Workers, NEW u \in Users, NEW pc \in {"bump", "revoke"},
           op' = [op EXCEPT ![w] = Pending(pc, u)], tokens' = tokens
    PROVE  Circulating' \subseteq Circulating
  <1>1. Pending(pc, u) \in Request /\ Pending(pc, u).pc = pc
    BY PendingTyped DEF Pending, Idle
  <1> QED BY <1>1, OneRequestCirculating

LEMMA GotoCirculating ==
    ASSUME Typed, NEW w \in Workers, NEW pc \in {"touch", "route", "revoke", "issue"},
           Signs(w) \/ pc = "revoke", Goto(w, pc), tokens' = tokens
    PROVE  Circulating' \subseteq Circulating
  <1> DEFINE r == [op[w] EXCEPT !.pc = pc]
  <1>1. op[w] \in Request
    BY RequestTyped DEF Typed
  <1>2. r \in Request /\ r.pc = pc /\ r.claims = op[w].claims
    BY <1>1 DEF Request
  <1>3. op' = [op EXCEPT ![w] = r]
    BY DEF Goto
  <1>4. ASSUME NEW c \in Circulating' PROVE c \in Circulating
    <2>1. c \in Claims
      BY DEF Circulating, Claims
    <2>2. c \in Circulating \/ (pc # "revoke" /\ c = op[w].claims)
      <3> HIDE DEF r
      <3> QED BY <1>2, <1>3, OneRequestCirculating
    <2> QED BY <2>1, <2>2 DEF Circulating
  <1> QED BY <1>4

\* A step only passes claims on, except that a login or a password change
\* draws up new ones from the account as it is.
LEMMA IssueTokenCirculating ==
    ASSUME Typed, NEW w \in Workers, IssueToken(w)
    PROVE  Circulating' \subseteq Circulating
  <1>1. op[w].claims \in Claims /\ Signs(w) /\ lastSid + 1 \in Sids
    BY RequestTyped, AuthAssumption
       DEF Typed, TypeOK, CarriesClaims, Signs, IssueToken, Request, Sids
  <1>2. \A s \in Sids : tokens'[s] = IF s = lastSid + 1 THEN op[w].claims ELSE tokens[s]
    BY <1>1 DEF IssueToken, Typed, TypeOK
  <1>3. \A v \in Workers : op'[v] = IF v = w THEN Idle ELSE op[v]
    BY DEF IssueToken, Done, Typed, TypeOK
  <1>4. Idle.pc = "idle"
    BY DEF Idle
  <1> QED BY <1>1, <1>2, <1>3, <1>4 DEF Circulating, Signs

LEMMA AuthUserCirculating ==
    ASSUME Typed, NEW w \in Workers, NEW s \in Sids, AuthUser(w, s)
    PROVE  Circulating' \subseteq Circulating
  <1>1. tokens[s] \in Claims
    BY DEF AuthUser, Typed, TypeOK
  <1>2. op'[w].claims = tokens[s]
    BY DEF AuthUser, Idle, Typed, TypeOK
  <1>3. \A v \in Workers : v # w => op'[v] = op[v]
    BY DEF AuthUser, Typed, TypeOK
  <1>4. tokens' = tokens
    BY DEF AuthUser
  <1> QED BY <1>1, <1>2, <1>3, <1>4 DEF Circulating, Signs

LEMMA LogoutCirculating ==
    ASSUME Typed, NEW w \in Workers, Logout(w)
    PROVE  Circulating' \subseteq Circulating
  <1>1. tokens' = tokens
    BY DEF Logout
  <1>2. CASE Done(w)
    BY <1>1, <1>2, DoneCirculating
  <1>3. CASE SignsOut(w)
    <2> DEFINE r == [Pending("signout", Caller(w)) EXCEPT !.sid = op[w].sid]
    <2>1. r.pc = "signout"
      BY DEF Pending, Idle
    <2>2. op' = [op EXCEPT ![w] = r]
      BY <1>3 DEF SignsOut
    <2>3. op'[w].pc = "signout"
      BY <2>1, <2>2 DEF Typed, TypeOK
    <2>4. \A v \in Workers : v # w => op'[v] = op[v]
      BY <2>2 DEF Typed, TypeOK
    <2> QED BY <1>1, <2>3, <2>4 DEF Circulating, Signs
  <1> QED BY <1>2, <1>3, LogoutEither

LEMMA KickLookupCirculating ==
    ASSUME Typed, NEW w \in Workers, NEW s \in Sids, KickLookup(w, s)
    PROVE  Circulating' \subseteq Circulating
  <1>1. CASE Done(w)
    BY <1>1, DoneCirculating DEF KickLookup
  <1>2. CASE op' = [op EXCEPT ![w] = [Idle EXCEPT !.pc = "kick", !.sid = s]]
    <2>1. op'[w].pc = "kick"
      BY <1>2 DEF Idle, Typed, TypeOK
    <2>2. \A v \in Workers : v # w => op'[v] = op[v]
      BY <1>2 DEF Typed, TypeOK
    <2> QED BY <2>1, <2>2 DEF Circulating, Signs, KickLookup
  <1> QED BY <1>1, <1>2 DEF KickLookup

LEMMA LoginVerifyCirculating ==
    ASSUME Typed, NEW w \in Workers, NEW u \in Users, LoginVerify(w, u),
           NEW c \in Circulating'
    PROVE  c \in Circulating \/ Bound(c)'
  <1>1. op'[w].claims = ClaimsOf(u)
    BY DEF LoginVerify, Idle, Typed, TypeOK
  <1>2. \A v \in Workers : v # w => op'[v] = op[v]
    BY DEF LoginVerify, Typed, TypeOK
  <1>3. c \in Circulating \/ c = ClaimsOf(u)
    BY <1>1, <1>2 DEF Circulating, Signs, LoginVerify
  <1>4. CASE c = ClaimsOf(u)
    <2>1. Exists(u) /\ users' = users /\ born' = born
      BY DEF LoginVerify
    <2>2. /\ c.sub = u /\ c.tv = users[u].tv /\ c.pw = users[u].pw /\ c.born = born[u]
      BY <1>4 DEF ClaimsOf
    <2>4. users[u].pw \in users[u].had
      BY <2>1, AccountTyped DEF Account, Typed
    <2>3. users[u].tv \in Nat /\ born[u] \in Nat
      BY <2>1, AccountTyped, AuthAssumption DEF Account, Typed, TypeOK
    <2> QED BY <2>1, <2>2, <2>3, <2>4 DEF Bound, Exists
  <1> QED BY <1>3, <1>4

LEMMA ChangePasswordCirculating ==
    ASSUME Typed, NEW w \in Workers, NEW p \in Passwords, ChangePassword(w, p),
           NEW c \in Circulating'
    PROVE  c \in Circulating \/ Bound(c)'
  <1> DEFINE u == Caller(w)
             d == [sub |-> u, tv |-> users[u].tv + 1, pw |-> p, born |-> born[u]]
  <1>1. op'[w].claims = d
    BY DEF ChangePassword, Pending, Idle, Typed, TypeOK
  <1>2. \A v \in Workers : v # w => op'[v] = op[v]
    BY DEF ChangePassword, Typed, TypeOK
  <1>3. c \in Circulating \/ c = d
    <2> HIDE DEF d
    <2> QED BY <1>1, <1>2 DEF Circulating, Signs, ChangePassword
  <1>4. CASE c = d
    <2>1. u \in Users /\ Exists(u)
      BY CallerTyped DEF ChangePassword
    <2>2. users' = SetPassword(u, p, users[u].level) /\ born' = born
      BY DEF ChangePassword
    <2>3. users'[u].tv = users[u].tv + 1 /\ users'[u].had = {p}
      BY <2>1, <2>2 DEF SetPassword, Typed, TypeOK
    <2>4. users[u].tv \in Nat /\ born[u] \in Nat
      BY <2>1, AccountTyped, AuthAssumption DEF Account, Typed, TypeOK
    <2> QED BY <1>4, <2>2, <2>3, <2>4 DEF Bound
  <1> QED BY <1>3, <1>4

LEMMA BumpTokenVersionCirculating ==
    ASSUME Typed, NEW w \in Workers, BumpTokenVersion(w)
    PROVE  Circulating' \subseteq Circulating
  BY DoneCirculating, GotoCirculating DEF BumpTokenVersion

LEMMA RevokeUserSessionsCirculating ==
    ASSUME Typed, NEW w \in Workers, RevokeUserSessions(w)
    PROVE  Circulating' \subseteq Circulating
  BY DoneCirculating, GotoCirculating DEF RevokeUserSessions, Signs

LEMMA CirculatingMoves ==
    ASSUME Typed, [Next]_vars, NEW c \in Circulating'
    PROVE  c \in Circulating \/ Bound(c)'
  <1>1. CASE UNCHANGED vars
    BY <1>1 DEF vars, Circulating, Signs
  <1>2. ASSUME NEW w \in Workers, Handle(w) PROVE c \in Circulating \/ Bound(c)'
    <2>1. ASSUME tokens' = tokens, Done(w) PROVE c \in Circulating
      BY <2>1, DoneCirculating
    <2>2. CASE AuthSession(w) \/ TouchSession(w)
      BY <2>2, DoneCirculating, GotoCirculating DEF AuthSession, TouchSession, Signs
    <2>3. CASE IssueToken(w) \/ Logout(w) \/ BumpTokenVersion(w) \/ RevokeUserSessions(w)
      BY <2>3, IssueTokenCirculating, LogoutCirculating, BumpTokenVersionCirculating,
         RevokeUserSessionsCirculating
    <2>4. CASE \E s \in Sids : AuthUser(w, s) \/ KickLookup(w, s)
      BY <2>4, AuthUserCirculating, KickLookupCirculating
    <2>5. CASE \E u \in Users : LoginVerify(w, u)
      BY <2>5, LoginVerifyCirculating
    <2>6. CASE \E p \in Passwords : ChangePassword(w, p)
      BY <2>6, ChangePasswordCirculating
    <2>7. CASE \/ \E t \in Users : KickAll(w, t)
               \/ \E t \in Users, p \in Passwords, l \in Levels :
                     UpdateUserPassword(w, t, p, l)
      BY <2>7, PendingCirculating DEF KickAll, UpdateUserPassword
    <2>8. CASE \/ Serve(w) \/ KickRevoke(w)
               \/ \E t \in Users : DeleteUser(w, t)
               \/ \E t \in Users, l \in Levels : UpdateUserLevel(w, t, l)
               \/ \E t \in Users, p \in Passwords, l \in Levels : CreateUser(w, t, p, l)
      BY <2>1, <2>8 DEF Serve, KickRevoke, DeleteUser, UpdateUserLevel, CreateUser
    <2> QED BY AuthAssumption, <1>2, <2>2, <2>3, <2>4, <2>5, <2>6, <2>7, <2>8 DEF Handle
  <1>3. ASSUME NEW s \in Sids, Expire(s) PROVE c \in Circulating \/ Bound(c)'
    BY <1>3 DEF Expire, Circulating, Signs
  <1>4. CASE Restart
    BY <1>4 DEF Restart, Circulating, Signs, Idle
  <1>5. CASE \E r \in Resets : OfflineReset(r[1], r[2])
    BY <1>5 DEF OfflineReset, Circulating, Signs
  <1> QED BY <1>1, <1>2, <1>3, <1>4, <1>5 DEF Next

LEMMA InitBound == Init => AllBound
  BY AuthAssumption DEF Init, AllBound, Circulating, Signs, Idle

LEMMA NextBound == Typed /\ Typed' /\ AllBound /\ [Next]_vars => AllBound'
  <1> SUFFICES ASSUME Typed, Typed', AllBound, [Next]_vars, NEW c \in Circulating'
               PROVE  Bound(c)'
    BY DEF AllBound
  <1>1. c \in Claims
    BY DEF Circulating, Claims
  <1>2. CASE c \in Circulating
    BY <1>1, <1>2, BoundStays DEF AllBound
  <1> QED BY <1>2, CirculatingMoves

LEMMA BoundBinds == Typed /\ AllBound => PasswordBinding
  <1> SUFFICES ASSUME Typed, AllBound, NEW s \in Sids, Acceptable(s),
                      tokens[s].born = born[tokens[s].sub]
               PROVE  tokens[s].pw \in users[tokens[s].sub].had
    BY DEF PasswordBinding
  <1>1. tokens[s] \in Claims
    BY DEF Acceptable, Typed, TypeOK
  <1>2. Bound(tokens[s])
    BY <1>1 DEF AllBound, Circulating
  <1> QED BY <1>2 DEF Bound, Acceptable, VersionMatches

\* Whatever logins, password changes, kicks, restarts and deletions interleave,
\* a token that is accepted was issued for the password that the panel last set
\* or for one that the offline tool has put in its place.
THEOREM PasswordBound == Spec => []PasswordBinding
  <1>1. Spec => []AllBound
    BY SpecTyped, InitBound, NextBound, PTL DEF Spec
  <1> QED BY <1>1, SpecTyped, BoundBinds, PTL

-----------------------------------------------------------------------------
(* Sessions: gone is gone, and what that gives Authenticate. *)

LEMMA GoneStays ==
    ASSUME Typed, [Next]_vars, NEW s \in Sids, s <= lastSid, sessions[s] = Absent
    PROVE  sessions'[s] = Absent
  <1>1. CASE sessions' = sessions
    BY <1>1
  <1>2. /\ Prune(sessions)[s] = Absent
        /\ \A t \in Loaded : Prune(t)[s] = Absent
        /\ \A table : table[s] = Absent /\ sessions' \in Saved(table) => sessions'[s] = Absent
    BY DEF Prune, Loaded, NoSessions, Saved
  <1>3. ASSUME NEW w \in Workers, IssueToken(w) PROVE sessions'[s] = Absent
    <2>1. s # lastSid + 1
      BY DEF Typed, TypeOK, Sids
    <2>2. PICK t \in Loaded :
                sessions' \in Saved([Prune(t) EXCEPT ![lastSid + 1] = op[w].claims.sub])
      BY <1>3 DEF IssueToken
    <2>3. [Prune(t) EXCEPT ![lastSid + 1] = op[w].claims.sub][s] = Absent
      BY <1>2, <2>1, LoadedTyped DEF Typed
    <2> QED BY <1>2, <2>2, <2>3
  <1>4. ASSUME NEW w \in Workers, TouchSession(w) PROVE sessions'[s] = Absent
    <2>1. Touched(sessions, op[w].sid, op[w].claims.sub)[s] = Absent
      BY DEF Touched, Typed, TypeOK
    <2> QED BY <1>2, <1>4, <2>1 DEF TouchSession
  <1>5. ASSUME NEW w \in Workers, Logout(w) \/ KickRevoke(w) PROVE sessions'[s] = Absent
    <2>1. [sessions EXCEPT ![op[w].sid] = Absent][s] = Absent
      BY DEF Typed, TypeOK
    <2> QED BY <1>2, <1>5, <2>1, LogoutEither DEF SignsOut, KickRevoke
  <1>6. ASSUME NEW w \in Workers, NEW r \in Sids, KickLookup(w, r) PROVE sessions'[s] = Absent
    BY <1>2, <1>6 DEF KickLookup
  <1>7. ASSUME NEW w \in Workers, RevokeUserSessions(w) PROVE sessions'[s] = Absent
    <2>1. WithoutUser(sessions, op[w].target)[s] = Absent
      BY DEF WithoutUser
    <2> QED BY <1>2, <1>7, <2>1 DEF RevokeUserSessions
  <1>8. ASSUME NEW w \in Workers,
               \/ AuthSession(w) \/ BumpTokenVersion(w)
               \/ \E r \in Sids : AuthUser(w, r)
               \/ \E u \in Users : LoginVerify(w, u) \/ KickAll(w, u) \/ DeleteUser(w, u)
               \/ \E p \in Passwords : ChangePassword(w, p)
               \/ \E u \in Users, l \in Levels : UpdateUserLevel(w, u, l)
               \/ \E u \in Users, p \in Passwords, l \in Levels :
                     UpdateUserPassword(w, u, p, l) \/ CreateUser(w, u, p, l)
        PROVE  sessions' = sessions
    BY <1>8 DEF AuthSession, BumpTokenVersion, AuthUser, LoginVerify, KickAll,
       DeleteUser, ChangePassword, UpdateUserLevel, UpdateUserPassword, CreateUser
  <1>9. ASSUME NEW w \in Workers, Serve(w) PROVE sessions'[s] = Absent
    BY <1>2, <1>9 DEF Serve
  <1>10. ASSUME NEW w \in Workers, Handle(w) PROVE sessions'[s] = Absent
    BY AuthAssumption, <1>1, <1>3, <1>4, <1>5, <1>6, <1>7, <1>8, <1>9, <1>10 DEF Handle
  <1>11. \/ sessions' = sessions \/ \E w \in Workers : Handle(w)
    BY DEF Next, vars, Expire, Restart, OfflineReset
  <1> QED BY <1>1, <1>10, <1>11

\* No interleaving of touchSession, logins and revocations revives a sid.
THEOREM GoneForGood == Spec => GoneStaysGone
  <1>1. Typed /\ [Next]_vars
          => [\A s \in Sids : s <= lastSid /\ sessions[s] = Absent
                               => sessions'[s] = Absent]_vars
    BY GoneStays
  <1> QED BY <1>1, SpecTyped, PTL DEF Spec, GoneStaysGone

\* A sid with a token has been drawn, and a request between the two halves of
\* Authenticate was acceptable when it began or has lost its session since.
Drawn == \A s \in Sids : tokens[s] # Absent => s <= lastSid

HalfWay ==
    \A w \in Workers :
        op[w].pc = "session" =>
            /\ op[w].sid <= lastSid
            /\ op[w].live \/ sessions[op[w].sid] = Absent

Admission == Drawn /\ HalfWay /\ AdmittedWasLive

LEMMA InitAdmission == Init => Admission
  BY DEF Init, Admission, Drawn, HalfWay, AdmittedWasLive, Idle

LEMMA NextDrawn ==
    ASSUME Typed, Drawn, [Next]_vars
    PROVE  Drawn' /\ lastSid' >= lastSid
  <1>1. CASE tokens' = tokens /\ lastSid' = lastSid
    BY <1>1 DEF Drawn, Typed, TypeOK
  <1>2. ASSUME NEW w \in Workers, IssueToken(w) PROVE Drawn' /\ lastSid' >= lastSid
    BY <1>2, AuthAssumption DEF IssueToken, Drawn, Typed, TypeOK, Sids
  <1>3. ASSUME NEW w \in Workers,
               \/ AuthSession(w) \/ TouchSession(w) \/ Serve(w) \/ Logout(w) \/ KickRevoke(w)
               \/ BumpTokenVersion(w) \/ RevokeUserSessions(w)
               \/ \E r \in Sids : AuthUser(w, r) \/ KickLookup(w, r)
               \/ \E u \in Users : LoginVerify(w, u) \/ KickAll(w, u) \/ DeleteUser(w, u)
               \/ \E p \in Passwords : ChangePassword(w, p)
               \/ \E u \in Users, l \in Levels : UpdateUserLevel(w, u, l)
               \/ \E u \in Users, p \in Passwords, l \in Levels :
                     UpdateUserPassword(w, u, p, l) \/ CreateUser(w, u, p, l)
        PROVE  tokens' = tokens /\ lastSid' = lastSid
    BY <1>3 DEF AuthSession, TouchSession, Serve, Logout, KickRevoke, BumpTokenVersion,
       RevokeUserSessions, AuthUser, KickLookup, LoginVerify, KickAll, DeleteUser,
       ChangePassword, UpdateUserLevel, UpdateUserPassword, CreateUser
  <1>4. ASSUME NEW w \in Workers, Handle(w) PROVE Drawn' /\ lastSid' >= lastSid
    BY AuthAssumption, <1>1, <1>2, <1>3, <1>4 DEF Handle
  <1>5. \/ tokens' = tokens /\ lastSid' = lastSid
        \/ \E w \in Workers : Handle(w)
    BY DEF Next, vars, Expire, Restart, OfflineReset
  <1> QED BY <1>1, <1>4, <1>5

\* A step of w moves w into or along authentication or out of it, and no other
\* request at all.
LEMMA RequestMoves ==
    ASSUME Typed, [Next]_vars, NEW v \in Workers
    PROVE  \/ op'[v] = op[v]
           \/ op'[v].pc \notin {"session", "touch", "route"}
           \/ \E s \in Sids : AuthUser(v, s)
           \/ AuthSession(v)
           \/ TouchSession(v)
  <1> DEFINE Goal == \/ op'[v] = op[v]
                     \/ op'[v].pc \notin {"session", "touch", "route"}
                     \/ \E s \in Sids : AuthUser(v, s)
                     \/ AuthSession(v)
                     \/ TouchSession(v)
  <1>1. Idle.pc = "idle" /\ \A pc, u : Pending(pc, u).pc = pc
    BY DEF Pending, Idle
  <1>2. CASE UNCHANGED op
    BY <1>2
  <1>3. CASE Restart
    BY <1>1, <1>3 DEF Restart
  <1>4. ASSUME NEW w \in Workers, Handle(w) PROVE Goal
    <2>1. CASE w # v
      <3>1. ASSUME NEW r, op' = [op EXCEPT ![w] = r] PROVE op'[v] = op[v]
        BY <2>1, <3>1 DEF Typed, TypeOK
      <3>2. \E r : op' = [op EXCEPT ![w] = r]
        BY AuthAssumption, <1>4 DEF Handle, Done, Goto, IssueToken, AuthSession, TouchSession, Serve,
           Logout, KickRevoke, BumpTokenVersion, RevokeUserSessions, AuthUser, KickLookup,
           LoginVerify, KickAll, DeleteUser, ChangePassword, UpdateUserLevel,
           UpdateUserPassword, CreateUser
      <3> QED BY <3>1, <3>2
    <2>2. CASE w = v
      <3>1. ASSUME NEW r, op' = [op EXCEPT ![v] = r] PROVE op'[v] = r
        BY <3>1 DEF Typed, TypeOK
      <3>2. CASE Done(v)
        BY <1>1, <3>1, <3>2 DEF Done
      <3>3. ASSUME Goto(v, "revoke") \/ Goto(v, "issue") PROVE Goal
        <4>1. op[v] \in Request
          BY RequestTyped DEF Typed
        <4>2. op'[v].pc \in {"revoke", "issue"}
          BY <3>1, <3>3, <4>1 DEF Goto, Request
        <4> QED BY <4>2
      <3>4. CASE RevokeUserSessions(v) \/ BumpTokenVersion(v)
        BY <3>2, <3>3, <3>4 DEF RevokeUserSessions, BumpTokenVersion
      <3>5. CASE \E s \in Sids : KickLookup(v, s)
        <4>1. PICK s \in Sids : KickLookup(v, s)
          BY <3>5
        <4>2. CASE op' = [op EXCEPT ![v] = [Idle EXCEPT !.pc = "kick", !.sid = s]]
          BY <3>1, <4>2 DEF Idle
        <4> QED BY <3>2, <4>1, <4>2 DEF KickLookup
      <3>6. CASE Logout(v)
        <4>1. CASE SignsOut(v)
          BY <3>1, <4>1 DEF SignsOut, Pending, Idle
        <4> QED BY <3>2, <3>6, <4>1, LogoutEither
      <3>7. CASE \E u \in Users : LoginVerify(v, u)
        BY <3>1, <3>7 DEF LoginVerify, Idle
      <3>8. CASE \E p \in Passwords : ChangePassword(v, p)
        BY <3>1, <3>8 DEF ChangePassword, Pending, Idle
      <3>9. CASE \/ \E t \in Users : KickAll(v, t)
                 \/ \E t \in Users, p \in Passwords, l \in Levels :
                       UpdateUserPassword(v, t, p, l)
        BY <1>1, <3>1, <3>9 DEF KickAll, UpdateUserPassword
      <3>10. CASE \/ IssueToken(v) \/ Serve(v) \/ KickRevoke(v)
                  \/ \E t \in Users : DeleteUser(v, t)
                  \/ \E t \in Users, l \in Levels : UpdateUserLevel(v, t, l)
                  \/ \E t \in Users, p \in Passwords, l \in Levels : CreateUser(v, t, p, l)
        BY <3>2, <3>10 DEF IssueToken, Serve, KickRevoke, DeleteUser, UpdateUserLevel,
           CreateUser
      <3> QED BY AuthAssumption, <1>4, <2>2, <3>4, <3>5, <3>6, <3>7, <3>8, <3>9, <3>10 DEF Handle
    <2> QED BY <2>1, <2>2
  <1> QED BY <1>2, <1>3, <1>4 DEF Next, Expire, OfflineReset, vars

LEMMA NextAdmission == Typed /\ Typed' /\ Admission /\ [Next]_vars => Admission'
  <1> SUFFICES ASSUME Typed, Typed', Admission, [Next]_vars PROVE Admission'
    OBVIOUS
  <1>1. Drawn' /\ lastSid' >= lastSid
    BY NextDrawn DEF Admission
  <1>2. ASSUME NEW v \in Workers
        PROVE  /\ op'[v].pc = "session" =>
                     /\ op'[v].sid <= lastSid'
                     /\ op'[v].live \/ sessions'[op'[v].sid] = Absent
               /\ op'[v].pc \in {"touch", "route"} => op'[v].live
    <2>1. CASE op'[v].pc \notin {"session", "touch", "route"}
      BY <2>1
    <2>2. CASE op'[v] = op[v]
      <3>1. op[v].pc = "session" => op[v].sid \in Sids
        BY RequestTyped DEF Typed, CarriesClaims, Request
      <3>2. ASSUME op[v].pc = "session"
            PROVE  /\ op[v].sid <= lastSid'
                   /\ op[v].live \/ sessions'[op[v].sid] = Absent
        <4>1. op[v].sid \in Sids /\ op[v].sid <= lastSid
          BY <3>1, <3>2 DEF Admission, HalfWay
        <4>2. op[v].sid <= lastSid'
          BY <1>1, <4>1 DEF Typed, TypeOK, Sids
        <4> QED BY <3>2, <4>1, <4>2, GoneStays DEF Admission, HalfWay
      <3> QED BY <2>2, <3>2 DEF Admission, AdmittedWasLive
    <2>3. ASSUME NEW s \in Sids, AuthUser(v, s)
          PROVE  /\ op'[v].pc = "session" /\ op'[v].sid = s /\ s <= lastSid'
                 /\ op'[v].live \/ sessions'[s] = Absent
      <3>1. /\ op'[v].pc = "session" /\ op'[v].sid = s
            /\ op'[v].live = Acceptable(s)
        BY <2>3 DEF AuthUser, Idle, Typed, TypeOK
      <3>2. s <= lastSid' /\ sessions' = sessions
        BY <2>3 DEF AuthUser, Admission, Drawn
      <3>3. sessions[s] # Absent => Acceptable(s)
        BY <2>3 DEF AuthUser, Acceptable
      <3> QED BY <3>1, <3>2, <3>3
    <2>4. CASE AuthSession(v) /\ Goto(v, "touch")
      <3>1. op[v].live
        <4>1. op[v].sid \in Sids
          BY <2>4, RequestTyped DEF AuthSession, Typed, CarriesClaims, Request
        <4>2. \A t \in Loaded : t[op[v].sid] = sessions[op[v].sid] \/ t[op[v].sid] = Absent
          BY <4>1 DEF Loaded, NoSessions
        <4>3. CASE sessions[op[v].sid] # Absent
          BY <2>4, <4>3 DEF AuthSession, Admission, HalfWay
        <4>4. CASE sessions[op[v].sid] = Absent
          <5>1. Done(v)
            BY <2>4, <4>2, <4>4 DEF AuthSession
          <5>2. op'[v].pc = "touch" /\ op'[v].pc = "idle"
            <6>1. op'[v] = [op[v] EXCEPT !.pc = "touch"] /\ op'[v] = Idle
              BY <2>4, <5>1 DEF Goto, Done, Typed, TypeOK
            <6> QED BY <6>1, RequestTyped DEF Typed, Request, Idle
          <5> QED BY <5>2
        <4> QED BY <4>3, <4>4
      <3>2. op'[v] = [op[v] EXCEPT !.pc = "touch"]
        BY <2>4 DEF AuthSession, Goto, Typed, TypeOK
      <3>3. op'[v].pc = "touch" /\ op'[v].live = op[v].live
        BY <3>2, RequestTyped DEF Typed, Request
      <3> QED BY <3>1, <3>3
    <2>5. CASE AuthSession(v) /\ Done(v)
      BY <2>5 DEF Done, Idle, Typed, TypeOK
    <2>6. CASE TouchSession(v)
      <3>1. op[v].live
        BY <2>6 DEF TouchSession, Admission, AdmittedWasLive
      <3>2. op'[v] = [op[v] EXCEPT !.pc = "route"]
        BY <2>6 DEF TouchSession, Goto, Typed, TypeOK
      <3>3. op'[v].pc = "route" /\ op'[v].live = op[v].live
        BY <3>2, RequestTyped DEF Typed, Request
      <3> QED BY <3>1, <3>3
    <2>7. AuthSession(v) => Goto(v, "touch") \/ Done(v)
      BY DEF AuthSession
    <2> QED BY <2>1, <2>2, <2>3, <2>4, <2>5, <2>6, <2>7, RequestMoves
  <1> QED BY <1>1, <1>2 DEF Admission, HalfWay, AdmittedWasLive

\* The two reads of Authenticate admit only what one atomic check would have.
THEOREM AdmissionSound == Spec => []AdmittedWasLive
  <1>1. Spec => []Admission
    BY SpecTyped, InitAdmission, NextAdmission, PTL DEF Spec
  <1>2. Admission => AdmittedWasLive
    BY DEF Admission
  <1> QED BY <1>1, <1>2, PTL

-----------------------------------------------------------------------------
(* The last full administrator. *)

\* A full administrator whose own record the step leaves alone survives it.
LEMMA FullAdminStays ==
    ASSUME NEW a \in FullAdmins(users), users'[a] # Absent,
           users'[a].level = users[a].level
    PROVE  FullAdminRemains'
  BY DEF FullAdminRemains, FullAdmins

LEMMA BumpTokenVersionKeeps ==
    ASSUME Typed, FullAdminRemains, NEW w \in Workers, BumpTokenVersion(w)
    PROVE  FullAdminRemains'
  <1> DEFINE t == op[w].target
  <1>1. PICK a \in FullAdmins(users) : TRUE
    BY DEF FullAdminRemains
  <1>2. a \in Users /\ Exists(a)
    BY DEF FullAdmins, Exists
  <1>3. users[a] \in Account
    BY <1>2, AccountTyped DEF Typed
  <1>4. CASE Exists(t) /\ t = a
    <2>1. users'[a] = [users[a] EXCEPT !.tv = @ + 1]
      BY <1>2, <1>4 DEF BumpTokenVersion, BumpVersion, Typed, TypeOK
    <2>2. users'[a].level = users[a].level /\ users[a].tv < MaxVersion
      BY <1>3, <1>4, <2>1 DEF BumpTokenVersion, Account
    <2>3. users'[a] \in Account
      BY <1>3, <2>1, <2>2, AuthAssumption DEF Account
    <2> QED BY <2>2, <2>3, AuthAssumption, FullAdminStays
  <1>5. CASE ~(Exists(t) /\ t = a)
    <2>1. users'[a] = users[a]
      BY <1>2, <1>5 DEF BumpTokenVersion, BumpVersion, Typed, TypeOK
    <2> QED BY <1>2, <2>1, FullAdminStays DEF Exists
  <1> QED BY <1>4, <1>5

LEMMA ChangePasswordKeeps ==
    ASSUME Typed, FullAdminRemains, NEW w \in Workers, NEW p \in Passwords,
           ChangePassword(w, p)
    PROVE  FullAdminRemains'
  <1> DEFINE t == Caller(w)
  <1>1. PICK a \in FullAdmins(users) : TRUE
    BY DEF FullAdminRemains
  <1>2. a \in Users /\ Exists(a)
    BY DEF FullAdmins, Exists
  <1>3. t \in Users /\ Exists(t) /\ users[t] \in Account
    BY CallerTyped, AccountTyped DEF ChangePassword, Typed
  <1>4. CASE t = a
    <2>1. users'[a] = [pw |-> p, tv |-> users[a].tv + 1, level |-> users[a].level,
                      had |-> {p}]
      BY <1>3, <1>4 DEF ChangePassword, SetPassword, Typed, TypeOK
    <2>2. users'[a] # Absent
      BY <1>3, <1>4, <2>1, SetPasswordTyped, AuthAssumption
         DEF ChangePassword, Typed, Account
    <2> QED BY <2>1, <2>2, FullAdminStays
  <1>5. CASE t # a
    <2>1. users'[a] = users[a]
      BY <1>2, <1>5 DEF ChangePassword, SetPassword, Typed, TypeOK
    <2> QED BY <1>2, <2>1, FullAdminStays DEF Exists
  <1> QED BY <1>4, <1>5

LEMMA DeleteUserKeeps ==
    ASSUME Typed, FullAdminRemains, NEW w \in Workers, NEW t \in Users, DeleteUser(w, t)
    PROVE  FullAdminRemains'
  <1>1. PICK a \in FullAdmins(users) : a # t
    BY DEF FullAdminRemains, DeleteUser
  <1>2. a \in Users /\ users[a] # Absent /\ users'[a] = users[a]
    BY <1>1 DEF DeleteUser, FullAdmins, Typed, TypeOK
  <1> QED BY <1>2, FullAdminStays

LEMMA CreateUserKeeps ==
    ASSUME Typed, FullAdminRemains, NEW w \in Workers, NEW t \in Users,
           NEW p \in Passwords, NEW l \in Levels, CreateUser(w, t, p, l)
    PROVE  FullAdminRemains'
  <1>1. PICK a \in FullAdmins(users) : TRUE
    BY DEF FullAdminRemains
  <1>2. a \in Users /\ users[a] # Absent /\ users'[a] = users[a]
    BY DEF CreateUser, FullAdmins, Exists, Typed, TypeOK
  <1> QED BY <1>2, FullAdminStays

LEMMA RestartKeeps ==
    ASSUME Typed, FullAdminRemains, Restart
    PROVE  FullAdminRemains'
  <1>1. CASE Exists(Seed) /\ users[Seed].level = "user"
    <2>1. Seed \in Users /\ users[Seed] \in Account /\ "full" \in Levels
      BY <1>1, AccountTyped, AuthAssumption DEF Typed, Levels
    <2>2. users'[Seed] = [users[Seed] EXCEPT !.level = "full"]
      BY <1>1, <2>1 DEF Restart, SeedRepaired, SetLevel, Typed, TypeOK
    <2>3. users'[Seed].level = "full" /\ users'[Seed] \in Account
      BY <2>1, <2>2 DEF Account
    <2> QED BY <2>1, <2>3, AuthAssumption DEF FullAdminRemains, FullAdmins
  <1>2. CASE ~(Exists(Seed) /\ users[Seed].level = "user")
    BY <1>2 DEF Restart, SeedRepaired, FullAdminRemains, FullAdmins
  <1> QED BY <1>1, <1>2

LEMMA SeedTyped ==
    [pw |-> DefaultPw, tv |-> 0, level |-> "full", had |-> {DefaultPw}] \in Account
  BY AuthAssumption DEF Account, Levels

LEMMA InitFullAdmin == Init => FullAdminRemains
  <1> SUFFICES ASSUME Init PROVE Seed \in FullAdmins(users)
    BY DEF FullAdminRemains
  <1> DEFINE a == [pw |-> DefaultPw, tv |-> 0, level |-> "full", had |-> {DefaultPw}]
  <1>1. users[Seed] = a /\ a \in Account /\ a.level = "full"
    BY SeedTyped, AuthAssumption DEF Init
  <1> HIDE DEF a
  <1> QED BY <1>1, AuthAssumption DEF FullAdmins

LEMMA OfflineResetKeeps ==
    ASSUME Typed, FullAdminRemains, NEW u \in Users, NEW p \in Passwords, OfflineReset(u, p)
    PROVE  FullAdminRemains'
  <1>1. PICK a \in FullAdmins(users) : TRUE
    BY DEF FullAdminRemains
  <1>2. a \in Users /\ users[a] # Absent
    BY DEF FullAdmins
  <1>3. users'[a] # Absent /\ users'[a].level = users[a].level
    BY <1>2, ResetTyped, AuthAssumption DEF Typed
  <1> QED BY <1>3, FullAdminStays

LEMMA NextFullAdmin == Typed /\ FullAdminRemains /\ [Next]_vars => FullAdminRemains'
  <1> SUFFICES ASSUME Typed, FullAdminRemains, [Next]_vars PROVE FullAdminRemains'
    OBVIOUS
  <1>1. CASE users' = users
    BY <1>1 DEF FullAdminRemains, FullAdmins
  <1>2. ASSUME NEW w \in Workers, NEW t \in Users, NEW l \in Levels,
               \/ UpdateUserLevel(w, t, l)
               \/ \E p \in Passwords : UpdateUserPassword(w, t, p, l)
        PROVE  FullAdminRemains'
    BY <1>2 DEF UpdateUserLevel, UpdateUserPassword, KeepsFullAdmin, FullAdminRemains,
       FullAdmins
  <1>3. ASSUME NEW w \in Workers,
               \/ IssueToken(w) \/ AuthSession(w) \/ TouchSession(w) \/ Serve(w)
               \/ Logout(w) \/ KickRevoke(w) \/ RevokeUserSessions(w)
               \/ \E s \in Sids : AuthUser(w, s) \/ KickLookup(w, s)
               \/ \E u \in Users : LoginVerify(w, u) \/ KickAll(w, u)
        PROVE  users' = users
    BY <1>3 DEF IssueToken, AuthSession, TouchSession, Serve, Logout, KickRevoke,
       RevokeUserSessions, AuthUser, KickLookup, LoginVerify, KickAll
  <1>4. ASSUME NEW w \in Workers, Handle(w) PROVE FullAdminRemains'
    BY AuthAssumption, <1>1, <1>2, <1>3, <1>4, BumpTokenVersionKeeps, ChangePasswordKeeps, DeleteUserKeeps,
       CreateUserKeeps DEF Handle
  <1>5. \/ users' = users \/ Restart \/ \E w \in Workers : Handle(w)
        \/ \E r \in Resets : OfflineReset(r[1], r[2])
    BY DEF Next, vars, Expire
  <1> QED BY <1>1, <1>4, <1>5, RestartKeeps, OfflineResetKeeps, ResetsTyped

\* Administrators updating and deleting each other always leave one of them in
\* full rights, restarts included.
THEOREM FullAdminAlways == Spec => []FullAdminRemains
  BY SpecTyped, InitFullAdmin, NextFullAdmin, PTL DEF Spec

-----------------------------------------------------------------------------
(* Two files and the versions in the tokens implement one table of sign-ins  *)
(* (SignIns).                                                                *)

\* A session is of the account that its token names, and a request goes by the
\* token it was let in with.
Owners ==
    /\ \A s \in Sids : sessions[s] # Absent
                          => tokens[s] # Absent /\ sessions[s] = tokens[s].sub
    /\ \A w \in Workers : op[w].pc \in {"session", "touch", "route"}
                             => op[w].claims = tokens[op[w].sid]

TableInv == Typed /\ AllBound /\ Admission /\ Owners

LEMMA InitOwners == Init => Owners
  BY DEF Init, Owners, Idle, NoSessions

\* A token is signed once.
LEMMA TokensStay ==
    ASSUME Typed, Drawn, [Next]_vars, NEW s \in Sids, tokens[s] # Absent
    PROVE  tokens'[s] = tokens[s]
  <1>1. s <= lastSid
    BY DEF Drawn
  <1>2. ASSUME NEW w \in Workers, IssueToken(w) PROVE tokens'[s] = tokens[s]
    <2>1. s # lastSid + 1
      BY <1>1 DEF Typed, TypeOK, Sids
    <2> QED BY <1>2, <2>1 DEF IssueToken, Typed, TypeOK
  <1>3. ASSUME NEW w \in Workers,
               \/ AuthSession(w) \/ TouchSession(w) \/ Serve(w) \/ Logout(w) \/ KickRevoke(w)
               \/ BumpTokenVersion(w) \/ RevokeUserSessions(w)
               \/ \E r \in Sids : AuthUser(w, r) \/ KickLookup(w, r)
               \/ \E u \in Users : LoginVerify(w, u) \/ KickAll(w, u) \/ DeleteUser(w, u)
               \/ \E p \in Passwords : ChangePassword(w, p)
               \/ \E u \in Users, l \in Levels : UpdateUserLevel(w, u, l)
               \/ \E u \in Users, p \in Passwords, l \in Levels :
                     UpdateUserPassword(w, u, p, l) \/ CreateUser(w, u, p, l)
        PROVE  tokens' = tokens
    BY <1>3 DEF AuthSession, TouchSession, Serve, Logout, KickRevoke, BumpTokenVersion,
       RevokeUserSessions, AuthUser, KickLookup, LoginVerify, KickAll, DeleteUser,
       ChangePassword, UpdateUserLevel, UpdateUserPassword, CreateUser
  <1>4. ASSUME NEW w \in Workers, Handle(w) PROVE tokens'[s] = tokens[s]
    BY AuthAssumption, <1>2, <1>3, <1>4 DEF Handle
  <1>5. tokens' = tokens \/ \E w \in Workers : Handle(w)
    BY DEF Next, vars, Expire, Restart, OfflineReset
  <1> QED BY <1>4, <1>5

\* A session keeps its owner.
LEMMA SessionsMove ==
    ASSUME Typed, Owners, [Next]_vars, NEW s \in Sids
    PROVE  \/ sessions'[s] = Absent
           \/ sessions'[s] = sessions[s]
           \/ tokens'[s] # Absent /\ sessions'[s] = tokens'[s].sub
  <1> DEFINE Goal == \/ sessions'[s] = Absent
                     \/ sessions'[s] = sessions[s]
                     \/ tokens'[s] # Absent /\ sessions'[s] = tokens'[s].sub
  <1>1. /\ Prune(sessions)[s] \in {sessions[s], Absent}
        /\ \A t \in Loaded : Prune(t)[s] \in {sessions[s], Absent}
        /\ \A table : sessions' \in Saved(table) => sessions' = table \/ sessions' = sessions
    BY DEF Prune, Loaded, NoSessions, Saved
  <1>2. ASSUME NEW w \in Workers, IssueToken(w) PROVE Goal
    <2> DEFINE u == op[w].claims.sub
    <2>1. op[w].claims \in Claims /\ op[w].claims # Absent
      BY <1>2, RequestTyped
         DEF Typed, CarriesClaims, Signs, IssueToken, Request
    <2>2. PICK t \in Loaded : sessions' \in Saved([Prune(t) EXCEPT ![lastSid + 1] = u])
      BY <1>2 DEF IssueToken
    <2>3. Prune(t) \in [Sids -> Users \cup {Absent}]
      BY LoadedTyped DEF Typed
    <2>4. CASE sessions' = sessions
      BY <2>4
    <2>5. CASE sessions' = [Prune(t) EXCEPT ![lastSid + 1] = u] /\ s = lastSid + 1
      <3>1. sessions'[s] = u
        BY <2>3, <2>5
      <3>2. tokens'[s] = op[w].claims
        BY <1>2, <2>5 DEF IssueToken, Typed, TypeOK
      <3> QED BY <2>1, <3>1, <3>2
    <2>6. CASE sessions' = [Prune(t) EXCEPT ![lastSid + 1] = u] /\ s # lastSid + 1
      BY <1>1, <2>3, <2>6
    <2> QED BY <1>1, <2>2, <2>4, <2>5, <2>6
  <1>3. ASSUME NEW w \in Workers, TouchSession(w) PROVE Goal
    <2>1. op[w].sid \in Sids /\ op[w].claims # Absent /\ op[w].claims = tokens[op[w].sid]
      BY <1>3, RequestTyped DEF TouchSession, Typed, CarriesClaims, Signs, Request, Owners
    <2>2. tokens'[s] = tokens[s]
      BY <1>3 DEF TouchSession
    <2>3. CASE sessions' = Touched(sessions, op[w].sid, op[w].claims.sub)
      BY <2>1, <2>2, <2>3 DEF Touched, Typed, TypeOK
    <2>4. CASE sessions' = sessions
      BY <2>4
    <2> QED BY <1>1, <1>3, <2>3, <2>4 DEF TouchSession
  <1>4. ASSUME NEW w \in Workers, Logout(w) \/ KickRevoke(w) PROVE Goal
    <2>1. [sessions EXCEPT ![op[w].sid] = Absent][s] \in {sessions[s], Absent}
      BY DEF Typed, TypeOK
    <2> QED BY <1>1, <1>4, <2>1, LogoutEither DEF SignsOut, KickRevoke
  <1>5. ASSUME NEW w \in Workers, NEW r \in Sids, KickLookup(w, r) PROVE Goal
    BY <1>1, <1>5 DEF KickLookup
  <1>6. ASSUME NEW w \in Workers, RevokeUserSessions(w) PROVE Goal
    <2>1. WithoutUser(sessions, op[w].target)[s] \in {sessions[s], Absent}
      BY DEF WithoutUser
    <2> QED BY <1>1, <1>6, <2>1 DEF RevokeUserSessions
  <1>7. ASSUME NEW w \in Workers,
               \/ AuthSession(w) \/ BumpTokenVersion(w)
               \/ \E r \in Sids : AuthUser(w, r)
               \/ \E u \in Users : LoginVerify(w, u) \/ KickAll(w, u) \/ DeleteUser(w, u)
               \/ \E p \in Passwords : ChangePassword(w, p)
               \/ \E u \in Users, l \in Levels : UpdateUserLevel(w, u, l)
               \/ \E u \in Users, p \in Passwords, l \in Levels :
                     UpdateUserPassword(w, u, p, l) \/ CreateUser(w, u, p, l)
        PROVE  sessions' = sessions
    BY <1>7 DEF AuthSession, BumpTokenVersion, AuthUser, LoginVerify, KickAll,
       DeleteUser, ChangePassword, UpdateUserLevel, UpdateUserPassword, CreateUser
  <1>8. ASSUME NEW w \in Workers, Serve(w) PROVE Goal
    BY <1>1, <1>8 DEF Serve
  <1>9. ASSUME NEW w \in Workers, Handle(w) PROVE Goal
    BY AuthAssumption, <1>2, <1>3, <1>4, <1>5, <1>6, <1>7, <1>8, <1>9 DEF Handle
  <1>10. sessions' = sessions \/ \E w \in Workers : Handle(w)
    BY DEF Next, vars, Expire, Restart, OfflineReset
  <1> QED BY <1>9, <1>10

LEMMA NextOwners ==
    ASSUME Typed, Typed', Drawn, Owners, [Next]_vars
    PROVE  Owners'
  <1>1. ASSUME NEW s \in Sids, sessions'[s] # Absent
        PROVE  tokens'[s] # Absent /\ sessions'[s] = tokens'[s].sub
    BY <1>1, SessionsMove, TokensStay DEF Owners
  <1>2. ASSUME NEW v \in Workers, op'[v].pc \in {"session", "touch", "route"}
        PROVE  op'[v].claims = tokens'[op'[v].sid]
    <2>1. ASSUME op[v].pc \in {"session", "touch", "route"},
                 op'[v].sid = op[v].sid, op'[v].claims = op[v].claims
          PROVE  op'[v].claims = tokens'[op'[v].sid]
      <3>1. op[v].sid \in Sids /\ op[v].claims # Absent /\ op[v].claims = tokens[op[v].sid]
        BY <2>1, RequestTyped DEF Typed, CarriesClaims, Signs, Request, Owners
      <3> QED BY <2>1, <3>1, TokensStay
    <2>2. ASSUME NEW s \in Sids, AuthUser(v, s)
          PROVE  op'[v].claims = tokens'[op'[v].sid]
      <3>1. op'[v].sid = s /\ op'[v].claims = tokens[s] /\ tokens' = tokens
        BY <2>2 DEF AuthUser, Idle, Typed, TypeOK
      <3> QED BY <3>1
    <2>3. CASE AuthSession(v) /\ Goto(v, "touch")
      <3>1. op'[v] = [op[v] EXCEPT !.pc = "touch"]
        BY <2>3 DEF Goto, Typed, TypeOK
      <3>2. op'[v].sid = op[v].sid /\ op'[v].claims = op[v].claims
        BY <3>1, RequestTyped DEF Typed, Request
      <3> QED BY <2>1, <2>3, <3>2 DEF AuthSession
    <2>4. CASE AuthSession(v) /\ Done(v)
      BY <1>2, <2>4 DEF Done, Idle, Typed, TypeOK
    <2>5. CASE TouchSession(v)
      <3>1. op'[v] = [op[v] EXCEPT !.pc = "route"]
        BY <2>5 DEF TouchSession, Goto, Typed, TypeOK
      <3>2. op'[v].sid = op[v].sid /\ op'[v].claims = op[v].claims
        BY <3>1, RequestTyped DEF Typed, Request
      <3> QED BY <2>1, <2>5, <3>2 DEF TouchSession
    <2>6. CASE op'[v] = op[v]
      BY <1>2, <2>1, <2>6
    <2>7. AuthSession(v) => Goto(v, "touch") \/ Done(v)
      BY DEF AuthSession
    <2> QED BY <1>2, <2>2, <2>3, <2>4, <2>5, <2>6, <2>7, RequestMoves
  <1> QED BY <1>1, <1>2 DEF Owners

LEMMA SpecTableInv == Spec => []TableInv
  <1>1. Init => TableInv
    BY InitTyped, InitBound, InitAdmission, InitOwners DEF TableInv
  <1>2. TableInv /\ [Next]_vars => TableInv'
    BY NextTyped, NextBound, NextAdmission, NextOwners DEF TableInv, Admission
  <1> QED BY <1>1, <1>2, PTL DEF Spec

LEMMA InitTable == Init => OneTable!Init
  <1> SUFFICES ASSUME Init PROVE OneTable!Init
    OBVIOUS
  <1> DEFINE a == [pw |-> DefaultPw, tv |-> 0, level |-> "full", had |-> {DefaultPw}]
  <1>1. users = [u \in Users |-> IF u = Seed THEN a ELSE Absent]
    BY DEF Init
  <1>2. a # Absent /\ a.had = {DefaultPw}
    BY SeedTyped, AuthAssumption
  <1> HIDE DEF a
  <1>3. PasswordsOf = [u \in Users |-> IF u = Seed THEN {DefaultPw} ELSE {}]
    BY <1>1, <1>2 DEF PasswordsOf, Exists
  <1>4. InForce = {}
    BY DEF Init, InForce, Acceptable
  <1>5. Inside = [w \in Workers |-> Absent]
    BY DEF Init, Inside, UnderSid, Idle
  <1> QED BY <1>3, <1>4, <1>5, AuthAssumption DEF Init, OneTable!Init

\* One request moves to r: how the table of sign-ins sees it.
LEMMA InsideMoves ==
    ASSUME Typed, NEW w \in Workers, NEW r, op' = [op EXCEPT ![w] = r]
    PROVE  Inside' = [Inside EXCEPT ![w] = UnderSid(r)]
  <1>1. \A v \in Workers : op'[v] = IF v = w THEN r ELSE op[v]
    BY DEF Typed, TypeOK
  <1>2. \A v \in Workers : UnderSid(op[v])' = IF v = w THEN UnderSid(r) ELSE UnderSid(op[v])
    BY <1>1 DEF UnderSid
  <1> QED BY <1>2 DEF Inside

\* One that is as much inside after the step as before it.
LEMMA InsideStays ==
    ASSUME Typed, NEW w \in Workers, NEW r, op' = [op EXCEPT ![w] = r],
           UnderSid(r) = UnderSid(op[w])
    PROVE  Inside' = Inside
  <1>1. Inside' = [Inside EXCEPT ![w] = UnderSid(op[w])]
    BY InsideMoves
  <1> QED BY <1>1 DEF Inside

LEMMA UnderNone ==
    /\ UnderSid(Idle) = Absent
    /\ \A pc \in {"bump", "signout", "revoke", "rotate"} : \A u : UnderSid(Pending(pc, u)) = Absent
  BY DEF UnderSid, Idle, Pending

\* A request at a route is inside under the sid it was authenticated with.
LEMMA RouteInside ==
    ASSUME TableInv, NEW w \in Workers, op[w].pc = "route"
    PROVE  /\ op[w].sid \in Sids /\ Inside[w] = op[w].sid /\ Inside[w] # Absent
           /\ Caller(w) \in Users
           /\ tokens[op[w].sid] \in Claims /\ tokens[op[w].sid].sub = Caller(w)
  <1>1. op[w].sid \in Sids /\ op[w].sid # Absent
    BY RequestTyped DEF TableInv, Typed, CarriesClaims, Request
  <1>2. op[w].claims = tokens[op[w].sid] /\ op[w].claims # Absent
    BY DEF TableInv, Owners, Typed, CarriesClaims, Signs
  <1>3. tokens[op[w].sid] \in Claims
    BY <1>1, <1>2 DEF TableInv, Typed, TypeOK
  <1>4. Inside[w] = op[w].sid
    BY DEF Inside, UnderSid
  <1>5. tokens[op[w].sid].sub \in Users
    BY <1>3 DEF Claims
  <1> QED BY <1>1, <1>2, <1>3, <1>4, <1>5 DEF Caller

\* An answered request leaves.
LEMMA Exits ==
    ASSUME TableInv, NEW w \in Workers, op[w].pc = "route", NEW r,
           op' = [op EXCEPT ![w] = r], UnderSid(r) = Absent
    PROVE  Inside[w] # Absent /\ Inside' = [Inside EXCEPT ![w] = Absent]
  BY RouteInside, InsideMoves DEF TableInv

\* The sign-ins in force, as a step of sessions.json or of the clock leaves them.
LEMMA ForceLoses ==
    ASSUME Typed, UNCHANGED <<users, born>>, NEW X,
           \A s \in Sids : tokens'[s] = tokens[s],
           \A s \in Sids : s \notin expired' /\ sessions'[s] # Absent <=>
                           s \notin expired /\ sessions[s] # Absent /\ s \notin X
    PROVE  InForce' = InForce \ X
  BY DEF InForce, Acceptable, VersionMatches, Exists

LEMMA ForceStays ==
    ASSUME Typed, UNCHANGED <<users, born>>,
           \A s \in Sids : tokens'[s] = tokens[s],
           \A s \in Sids : s \notin expired' /\ sessions'[s] # Absent <=>
                           s \notin expired /\ sessions[s] # Absent
    PROVE  InForce' = InForce
  <1>1. InForce' = InForce \ {}
    BY ForceLoses
  <1> QED BY <1>1

LEMMA PasswordsStay ==
    ASSUME users' = users
    PROVE  PasswordsOf' = PasswordsOf
  BY DEF PasswordsOf, Exists

\* A table that was pruned, or not saved, leaves the same sign-ins in force.
LEMMA ForcePruned ==
    ASSUME Typed, UNCHANGED <<users, born, tokens, expired>>,
           sessions' \in {sessions, Prune(sessions)}
    PROVE  InForce' = InForce
  <1>1. \A s \in Sids : s \notin expired' /\ sessions'[s] # Absent <=>
                        s \notin expired /\ sessions[s] # Absent
    BY DEF Prune
  <1> QED BY <1>1, ForceStays

\* One session is revoked, or is not.
LEMMA ForceRevoked ==
    ASSUME Typed, UNCHANGED <<users, born, tokens, expired>>, NEW s \in Sids,
           sessions' \in Saved([sessions EXCEPT ![s] = Absent])
    PROVE  InForce' = InForce \/ InForce' = InForce \ {s}
  <1>1. CASE sessions' = sessions
    BY <1>1, ForceStays
  <1>2. CASE sessions' = [sessions EXCEPT ![s] = Absent]
    <2>1. \A r \in Sids : sessions'[r] = IF r = s THEN Absent ELSE sessions[r]
      BY <1>2 DEF Typed, TypeOK
    <2> QED BY <2>1, ForceLoses
  <1> QED BY <1>1, <1>2 DEF Saved

\* Nothing is seen of a login before its token is signed.
LEMMA LoginVerifyTable ==
    ASSUME TableInv, NEW w \in Workers, NEW u \in Users, LoginVerify(w, u)
    PROVE  UNCHANGED OneTable!vars
  <1> DEFINE r == [Idle EXCEPT !.pc = "login", !.claims = ClaimsOf(u)]
  <1>1. op' = [op EXCEPT ![w] = r]
    BY DEF LoginVerify
  <1>2. UnderSid(r) = Absent /\ UnderSid(op[w]) = Absent
    BY DEF UnderSid, Idle, LoginVerify
  <1>3. Inside' = Inside
    <2> HIDE DEF r
    <2> QED BY <1>1, <1>2, InsideStays DEF TableInv
  <1>4. InForce' = InForce
    BY ForceStays DEF LoginVerify, TableInv
  <1> QED BY <1>3, <1>4, PasswordsStay DEF OneTable!vars, LoginVerify

\* The token is in force if and only if the account still is as it was read.
LEMMA IssueTokenTable ==
    ASSUME TableInv, TableInv', NEW w \in Workers, IssueToken(w)
    PROVE  OneTable!Issue(lastSid + 1)
  <1> DEFINE n == lastSid + 1
             c == op[w].claims
  <1>1. n \in Sids /\ c \in Claims /\ c # Absent
    BY RequestTyped, AuthAssumption
       DEF TableInv, Typed, TypeOK, CarriesClaims, Signs, IssueToken, Request, Sids
  <1>2. tokens[n] = Absent
    BY <1>1, AuthAssumption DEF TableInv, Admission, Drawn, Typed, TypeOK, Sids
  <1>3. tokens' = [tokens EXCEPT ![n] = c] /\ tokens'[n] = c
    BY <1>1 DEF IssueToken, TableInv, Typed, TypeOK
  <1>4. \A s \in Sids : s # n => tokens'[s] = tokens[s]
    BY <1>1 DEF IssueToken, TableInv, Typed, TypeOK
  <1>5. n \notin InForce
    BY <1>2 DEF InForce, Acceptable
  <1>6. \E kept \in {InForce, {}} : \A s \in Sids : s # n => (s \in InForce' <=> s \in kept)
    <2>1. PICK t \in Loaded : sessions' \in Saved([Prune(t) EXCEPT ![n] = c.sub])
      BY DEF IssueToken
    <2>2. Prune(t) \in [Sids -> Users \cup {Absent}]
      BY LoadedTyped DEF TableInv, Typed
    <2>3. \/ \A s \in Sids : s # n => sessions'[s] = sessions[s]
          \/ \A s \in Sids : s # n => sessions'[s] = Prune(sessions)[s]
          \/ \A s \in Sids : s # n => sessions'[s] = Absent
      <3>1. sessions' = sessions \/ sessions' = [Prune(t) EXCEPT ![n] = c.sub]
        BY <2>1 DEF Saved
      <3>2. t = sessions \/ t = NoSessions
        BY DEF Loaded
      <3>3. \A s \in Sids : Prune(NoSessions)[s] = Absent
        BY DEF Prune, NoSessions
      <3> QED BY <1>1, <2>2, <3>1, <3>2, <3>3
    <2>4. CASE \A s \in Sids : s # n => sessions'[s] = Absent
      BY <2>4 DEF InForce, Acceptable
    <2>5. CASE \/ \A s \in Sids : s # n => sessions'[s] = sessions[s]
               \/ \A s \in Sids : s # n => sessions'[s] = Prune(sessions)[s]
      BY <1>4, <2>5 DEF IssueToken, InForce, Acceptable, Prune, VersionMatches, Exists
    <2> QED BY <2>3, <2>4, <2>5
  <1>7. n \in InForce' => c.born = born[c.sub] /\ c.pw \in PasswordsOf[c.sub]
    <2> SUFFICES ASSUME n \in InForce' PROVE c.born = born[c.sub] /\ c.pw \in PasswordsOf[c.sub]
      OBVIOUS
    <2>1. c.born = born[c.sub]
      BY <1>1, <1>3 DEF InForce, IssueToken
    <2>2. c.sub \in Users /\ Exists(c.sub)
      BY <1>1, <1>3 DEF InForce, Acceptable, VersionMatches, Claims, IssueToken, Exists
    <2>3. c.pw \in users[c.sub].had
      <3>1. Bound(c)
        BY <1>1 DEF TableInv, AllBound, Circulating, Signs, IssueToken
      <3>2. users[c.sub].tv = c.tv
        BY <1>1, <1>3 DEF InForce, Acceptable, VersionMatches, IssueToken
      <3> QED BY <2>1, <2>2, <3>1, <3>2 DEF Bound
    <2> QED BY <2>1, <2>2, <2>3 DEF PasswordsOf
  <1>8. \E kept \in {InForce, {}} :
           \/ InForce' = kept
           \/ n \in InForce' /\ InForce' = kept \cup {n}
    <2>1. PICK kept \in {InForce, {}} : \A s \in Sids : s # n => (s \in InForce' <=> s \in kept)
      BY <1>6
    <2>2. n \notin kept /\ kept \subseteq Sids /\ InForce' \subseteq Sids
      BY <1>5 DEF InForce
    <2> QED BY <1>1, <2>1, <2>2
  <1>10. UNCHANGED <<PasswordsOf, born, Inside>>
    <2>1. UnderSid(op[w]) = Absent
      BY DEF UnderSid, IssueToken
    <2>2. Inside' = Inside
      BY <2>1, UnderNone, InsideStays DEF IssueToken, Done, TableInv
    <2> QED BY <2>2, PasswordsStay DEF IssueToken
  <1> HIDE DEF n, c
  <1>11. OneTable!Issue(n)
    BY <1>1, <1>2, <1>3, <1>7, <1>8, <1>10 DEF OneTable!Issue
  <1> QED BY <1>11 DEF n

\* The instant at which a request is let in, if it will be, is that at which its
\* token is compared with users.json.
LEMMA AuthUserTable ==
    ASSUME TableInv, NEW w \in Workers, NEW s \in Sids, AuthUser(w, s)
    PROVE  OneTable!Enter(w, s) \/ UNCHANGED OneTable!vars
  <1> DEFINE full == tokens[s].sub \in FullAdmins(users)
             admin == full /\ users[tokens[s].sub].pw # DefaultPw
             r == [Idle EXCEPT !.pc = "session", !.sid = s, !.claims = tokens[s],
                               !.full = full, !.admin = admin, !.live = Acceptable(s)]
  <1>1. op' = [op EXCEPT ![w] = r]
    BY DEF AuthUser
  <1>2. UnderSid(r) = IF Acceptable(s) THEN s ELSE Absent
    BY DEF UnderSid, Idle
  <1> HIDE DEF r
  <1>3. UnderSid(op[w]) = Absent /\ Inside[w] = Absent
    BY DEF UnderSid, AuthUser, Inside
  <1>4. InForce' = InForce /\ PasswordsOf' = PasswordsOf /\ UNCHANGED <<born, tokens>>
    BY ForceStays, PasswordsStay DEF AuthUser, TableInv
  <1>5. CASE Acceptable(s)
    <2>1. s \in InForce \/ OneTable!Former(s)
      BY <1>5 DEF InForce, OneTable!Former, Acceptable
    <2>2. Inside' = [Inside EXCEPT ![w] = s]
      BY <1>1, <1>2, <1>5, InsideMoves DEF TableInv
    <2> QED BY <1>3, <1>4, <2>1, <2>2 DEF OneTable!Enter
  <1>6. CASE ~Acceptable(s)
    <2>1. Inside' = Inside
      BY <1>1, <1>2, <1>3, <1>6, InsideStays DEF TableInv
    <2> QED BY <1>4, <2>1 DEF OneTable!vars
  <1> QED BY <1>5, <1>6

\* What has lost its session in between leaves again without having done anything.
LEMMA AuthSessionTable ==
    ASSUME TableInv, NEW w \in Workers, AuthSession(w)
    PROVE  OneTable!Exit(w) \/ UNCHANGED OneTable!vars
  <1>1. InForce' = InForce /\ PasswordsOf' = PasswordsOf /\ UNCHANGED <<born, tokens>>
    BY ForceStays, PasswordsStay DEF AuthSession, TableInv
  <1>2. op[w] \in Request /\ op[w].pc = "session" /\ op[w].sid \in Sids /\ op[w].sid # Absent
    BY RequestTyped DEF AuthSession, TableInv, Typed, CarriesClaims, Request
  <1>3. CASE sessions[op[w].sid] # Absent /\ Goto(w, "touch")
    <2> DEFINE r == [op[w] EXCEPT !.pc = "touch"]
    <2>1. op' = [op EXCEPT ![w] = r]
      BY <1>3 DEF Goto
    <2>2. op[w].live
      BY <1>2, <1>3 DEF TableInv, Admission, HalfWay
    <2>3. r.pc = "touch" /\ r.sid = op[w].sid
      BY <1>2 DEF Request
    <2> HIDE DEF r
    <2>4. UnderSid(r) = UnderSid(op[w])
      BY <1>2, <2>2, <2>3 DEF UnderSid
    <2>5. Inside' = Inside
      BY <2>1, <2>4, InsideStays DEF TableInv
    <2> QED BY <1>1, <2>5 DEF OneTable!vars
  <1>4. CASE Done(w)
    <2>1. Inside' = [Inside EXCEPT ![w] = Absent]
      BY <1>4, UnderNone, InsideMoves DEF Done, TableInv
    <2>2. CASE Inside[w] = Absent
      BY <1>1, <2>1, <2>2 DEF OneTable!vars, Inside
    <2>3. CASE Inside[w] # Absent
      BY <1>1, <2>1, <2>3 DEF OneTable!Exit
    <2> QED BY <2>2, <2>3
  <1>5. (sessions[op[w].sid] # Absent /\ Goto(w, "touch")) \/ Done(w)
    BY <1>2 DEF AuthSession, Loaded, NoSessions
  <1> QED BY <1>3, <1>4, <1>5

LEMMA TouchSessionTable ==
    ASSUME TableInv, NEW w \in Workers, TouchSession(w)
    PROVE  UNCHANGED OneTable!vars
  <1>1. op[w] \in Request /\ op[w].pc = "touch" /\ op[w].claims # Absent
    BY RequestTyped DEF TouchSession, TableInv, Typed, CarriesClaims, Signs
  <1>2. op[w].claims.sub # Absent
    BY <1>1, AuthAssumption DEF Request, Claims
  <1>3. InForce' = InForce
    <2>1. \A s \in Sids : sessions'[s] # Absent <=> sessions[s] # Absent
      BY <1>2 DEF TouchSession, Saved, Touched, TableInv, Typed, TypeOK
    <2> QED BY <2>1, ForceStays DEF TouchSession, TableInv
  <1> DEFINE r == [op[w] EXCEPT !.pc = "route"]
  <1>4. op' = [op EXCEPT ![w] = r] /\ r.pc = "route" /\ r.sid = op[w].sid
    BY <1>1 DEF TouchSession, Goto, Request
  <1> HIDE DEF r
  <1>5. UnderSid(r) = UnderSid(op[w])
    BY <1>1, <1>4 DEF UnderSid
  <1>6. Inside' = Inside
    BY <1>4, <1>5, InsideStays DEF TableInv
  <1> QED BY <1>3, <1>6, PasswordsStay DEF OneTable!vars, TouchSession

\* Answers that leave the tables alone, or prune them.
LEMMA ServeTable ==
    ASSUME TableInv, NEW w \in Workers, Serve(w) \/ \E t \in Users : KickAll(w, t)
    PROVE  OneTable!Exit(w)
  <1>1. /\ op[w].pc = "route" /\ UNCHANGED <<users, tokens, lastSid, expired, born>>
        /\ sessions' \in {sessions, Prune(sessions)}
    BY DEF Serve, KickAll, AdminRoute
  <1>2. \E r : op' = [op EXCEPT ![w] = r] /\ UnderSid(r) = Absent
    BY UnderNone DEF Serve, Done, KickAll
  <1>3. InForce' = InForce
    BY <1>1, ForcePruned DEF TableInv
  <1> QED BY <1>1, <1>2, <1>3, Exits, PasswordsStay DEF OneTable!Exit

LEMMA LogoutTable ==
    ASSUME TableInv, NEW w \in Workers, Logout(w)
    PROVE  OneTable!Exit(w)
  <1>1. op[w].pc = "route" /\ op[w].sid \in Sids /\ Inside[w] = op[w].sid
    BY RouteInside DEF Logout
  <1>2. \E r : op' = [op EXCEPT ![w] = r] /\ UnderSid(r) = Absent
    <2>1. UnderSid([Pending("signout", Caller(w)) EXCEPT !.sid = op[w].sid]) = Absent
      BY DEF Pending, Idle, UnderSid
    <2> QED BY <2>1, UnderNone, LogoutEither DEF SignsOut, Done
  <1>3. InForce' = InForce \/ InForce' = InForce \ {op[w].sid}
    <2>1. CASE sessions' = sessions
      BY <2>1, ForceStays DEF Logout, TableInv
    <2>2. CASE sessions' \in Saved([sessions EXCEPT ![op[w].sid] = Absent])
      BY <1>1, <2>2, ForceRevoked DEF Logout, TableInv
    <2> QED BY <2>1, <2>2, LogoutEither DEF SignsOut
  <1> QED BY <1>1, <1>2, <1>3, Exits, PasswordsStay DEF OneTable!Exit, Logout

LEMMA KickLookupTable ==
    ASSUME TableInv, NEW w \in Workers, NEW s \in Sids, KickLookup(w, s)
    PROVE  OneTable!Exit(w)
  <1>1. op[w].pc = "route" /\ UNCHANGED <<users, tokens, expired, born>>
    BY DEF KickLookup
  <1>2. UnderSid([Idle EXCEPT !.pc = "kick", !.sid = s]) = Absent
    BY DEF Idle, UnderSid
  <1>3. \E r : op' = [op EXCEPT ![w] = r] /\ UnderSid(r) = Absent
    BY <1>2, UnderNone DEF KickLookup, Done
  <1>4. InForce' = InForce
    <2>1. sessions' \in {sessions, Prune(sessions)}
      BY DEF KickLookup, Saved
    <2> QED BY <1>1, <2>1, ForcePruned DEF TableInv
  <1> QED BY <1>1, <1>3, <1>4, Exits, PasswordsStay DEF OneTable!Exit

LEMMA KickRevokeTable ==
    ASSUME TableInv, NEW w \in Workers, KickRevoke(w)
    PROVE  /\ op[w].sid \in Sids
           /\ OneTable!End(op[w].sid) \/ UNCHANGED OneTable!vars
  <1>1. op[w].sid \in Sids
    BY RequestTyped DEF KickRevoke, TableInv, Typed, CarriesClaims, Request
  <1>2. InForce' = InForce \/ InForce' = InForce \ {op[w].sid}
    BY <1>1, ForceRevoked DEF KickRevoke, TableInv
  <1>3. UnderSid(op[w]) = Absent
    BY DEF UnderSid, KickRevoke
  <1>4. Inside' = Inside
    BY <1>3, UnderNone, InsideStays DEF KickRevoke, Done, TableInv
  <1> QED BY <1>1, <1>2, <1>4, PasswordsStay DEF OneTable!End, OneTable!vars, KickRevoke

LEMMA ExpireTable ==
    ASSUME TableInv, NEW s \in Sids, Expire(s)
    PROVE  OneTable!End(s)
  <1>1. InForce' = InForce \ {s}
    BY ForceLoses DEF Expire, TableInv
  <1>2. Inside' = Inside
    BY DEF Inside, UnderSid, Expire
  <1> QED BY <1>1, <1>2, PasswordsStay DEF OneTable!End, Expire

\* Steps of a pending revocation: nothing is seen of the request itself.
LEMMA PendingUnseen ==
    ASSUME TableInv, NEW w \in Workers, NEW pc \in {"revoke", "issue"},
           op[w].pc \in {"bump", "signout", "revoke", "rotate"},
           Goto(w, pc) \/ Done(w)
    PROVE  Inside' = Inside
  <1>1. UnderSid(op[w]) = Absent
    BY DEF UnderSid
  <1>2. CASE Done(w)
    BY <1>1, <1>2, UnderNone, InsideStays DEF Done, TableInv
  <1>3. CASE Goto(w, pc)
    <2> DEFINE r == [op[w] EXCEPT !.pc = pc]
    <2>1. op' = [op EXCEPT ![w] = r]
      BY <1>3 DEF Goto
    <2>2. r.pc = pc
      BY RequestTyped DEF Request, TableInv, Typed
    <2> HIDE DEF r
    <2>3. UnderSid(r) = Absent
      BY <2>2 DEF UnderSid
    <2> QED BY <1>1, <2>1, <2>3, InsideStays DEF TableInv
  <1> QED BY <1>2, <1>3

LEMMA RevokeUserSessionsTable ==
    ASSUME TableInv, NEW w \in Workers, RevokeUserSessions(w)
    PROVE  OneTable!EndAll(op[w].target) \/ UNCHANGED OneTable!vars
  <1> DEFINE t == op[w].target
  <1>1. t \in Users /\ t # Absent
    BY RequestTyped DEF RevokeUserSessions, TableInv, Typed, CarriesClaims, Request
  <1>2. \A s \in Sids : sessions[s] # Absent => (s \in OneTable!Owned(t) <=> sessions[s] = t)
    BY DEF TableInv, Owners, OneTable!Owned
  <1>3. ASSUME sessions' = WithoutUser(sessions, t)
        PROVE  InForce' = InForce \ OneTable!Owned(t)
    <2>1. \A s \in Sids : sessions'[s] # Absent
                            <=> sessions[s] # Absent /\ s \notin OneTable!Owned(t)
      BY <1>1, <1>2, <1>3 DEF WithoutUser
    <2> QED BY <2>1, ForceLoses DEF RevokeUserSessions, TableInv
  <1>4. ASSUME sessions' = sessions
        PROVE  InForce' = InForce
    BY <1>4, ForceStays DEF RevokeUserSessions, TableInv
  <1>5. sessions' = WithoutUser(sessions, t) \/ sessions' = sessions
    BY DEF RevokeUserSessions, Saved
  <1>6. Inside' = Inside
    BY PendingUnseen DEF RevokeUserSessions
  <1> QED BY <1>3, <1>4, <1>5, <1>6, PasswordsStay
          DEF OneTable!EndAll, OneTable!vars, RevokeUserSessions

\* A higher version, a deletion and a new account of that name each put an end to
\* all tokens of the account, and to no other one's.
LEMMA AccountEnds ==
    ASSUME TableInv, NEW t \in Users, UNCHANGED <<sessions, tokens, expired>>,
           \A u \in Users \ {t} : users'[u] = users[u] /\ born'[u] = born[u],
           \/ users'[t] = Absent
           \/ born'[t] = born[t] + 1
           \/ born'[t] = born[t] /\ Exists(t) /\ users'[t].tv = users[t].tv + 1
    PROVE  InForce' = InForce \ OneTable!Owned(t)
  <1>1. ASSUME NEW s \in Sids, tokens[s] # Absent, tokens[s].sub # t
        PROVE  s \in InForce' <=> s \in InForce
    <2>1. tokens[s].sub \in Users \ {t}
      BY <1>1 DEF TableInv, Typed, TypeOK, Claims
    <2> QED BY <2>1 DEF InForce, Acceptable, VersionMatches, Exists
  <1>2. ASSUME NEW s \in Sids, tokens[s] # Absent, tokens[s].sub = t
        PROVE  s \notin InForce'
    <2>1. tokens[s] \in Claims /\ Bound(tokens[s])
      BY <1>2 DEF TableInv, Typed, TypeOK, AllBound, Circulating
    <2>2. tokens[s].tv \in Nat /\ tokens[s].born \in Nat /\ born[t] \in Nat
      BY <2>1, AuthAssumption DEF Claims, TableInv, Typed, TypeOK
    <2>3. Exists(t) => users[t].tv \in Nat
      BY AccountTyped DEF TableInv, Typed, Account
    <2> QED BY <1>2, <2>1, <2>2, <2>3 DEF Bound, InForce, Acceptable, VersionMatches, Exists
  <1>3. ASSUME NEW s \in Sids, tokens[s] = Absent PROVE s \notin InForce /\ s \notin InForce'
    BY <1>3 DEF InForce, Acceptable
  <1>4. \A s \in Sids : s \in InForce' <=> s \in InForce /\ s \notin OneTable!Owned(t)
    BY <1>1, <1>2, <1>3 DEF OneTable!Owned
  <1> QED BY <1>4 DEF InForce

LEMMA BumpTokenVersionTable ==
    ASSUME TableInv, NEW w \in Workers, BumpTokenVersion(w)
    PROVE  OneTable!EndAll(op[w].target) \/ UNCHANGED OneTable!vars
  <1> DEFINE t == op[w].target
  <1>1. t \in Users
    BY RequestTyped DEF BumpTokenVersion, TableInv, Typed, CarriesClaims, Request
  <1>2. Inside' = Inside
    BY PendingUnseen DEF BumpTokenVersion
  <1>3. CASE Exists(t)
    <2>1. users[t] \in Account
      BY <1>1, <1>3, AccountTyped DEF TableInv, Typed
    <2>2. /\ users'[t] = [users[t] EXCEPT !.tv = @ + 1]
          /\ \A u \in Users \ {t} : users'[u] = users[u]
      BY <1>1, <1>3 DEF BumpTokenVersion, BumpVersion, TableInv, Typed, TypeOK
    <2>3. users'[t].tv = users[t].tv + 1 /\ users'[t].had = users[t].had
      BY <2>1, <2>2 DEF Account
    <2>4. users'[t] # Absent
      <3>1. users[t].tv < MaxVersion
        BY <1>3 DEF BumpTokenVersion
      <3>2. [users[t] EXCEPT !.tv = @ + 1] \in Account
        BY <2>1, <3>1, AuthAssumption DEF Account
      <3> QED BY <2>2, <3>2, AuthAssumption
    <2>5. InForce' = InForce \ OneTable!Owned(t)
      BY <1>1, <1>3, <2>2, <2>3, AccountEnds DEF BumpTokenVersion
    <2>6. PasswordsOf' = PasswordsOf
      BY <1>1, <1>3, <2>2, <2>3, <2>4 DEF PasswordsOf, Exists
    <2> QED BY <1>2, <2>5, <2>6 DEF OneTable!EndAll, BumpTokenVersion
  <1>4. CASE ~Exists(t)
    <2>1. users' = users
      BY <1>4 DEF BumpTokenVersion
    <2>2. InForce' = InForce
      BY <2>1, ForceStays DEF BumpTokenVersion, TableInv
    <2> QED BY <1>2, <2>1, <2>2, PasswordsStay DEF OneTable!vars, BumpTokenVersion
  <1> QED BY <1>3, <1>4

\* Both ways of setting a password.
LEMMA SetPasswordTable ==
    ASSUME TableInv, NEW w \in Workers, op[w].pc = "route",
           NEW t \in Users, NEW p \in Passwords, NEW l \in Levels,
           Exists(t), users[t].tv < MaxVersion, users' = SetPassword(t, p, l),
           UNCHANGED <<sessions, tokens, expired, born>>,
           NEW r, op' = [op EXCEPT ![w] = r], UnderSid(r) = Absent
    PROVE  OneTable!NewPassword(w, t)
  <1> DEFINE a == [pw |-> p, tv |-> users[t].tv + 1, level |-> l, had |-> {p}]
  <1>1. a # Absent
    BY SetPasswordTyped, AuthAssumption DEF TableInv, Typed, Account
  <1>2. users' = [users EXCEPT ![t] = a]
    BY DEF SetPassword
  <1>3. a.had = {p} /\ a.tv = users[t].tv + 1
    OBVIOUS
  <1> HIDE DEF a
  <1>4. users'[t] = a /\ \A u \in Users \ {t} : users'[u] = users[u]
    BY <1>2 DEF TableInv, Typed, TypeOK
  <1>5. InForce' = InForce \ OneTable!Owned(t)
    BY <1>3, <1>4, AccountEnds
  <1>6. PasswordsOf' = [PasswordsOf EXCEPT ![t] = {p}]
    BY <1>1, <1>3, <1>4 DEF PasswordsOf, Exists
  <1>7. PasswordsOf[t] # {}
    BY AccountTyped, AuthAssumption DEF PasswordsOf, TableInv, Typed, Account
  <1> QED BY <1>5, <1>6, <1>7, Exits DEF OneTable!NewPassword

LEMMA ChangePasswordTable ==
    ASSUME TableInv, NEW w \in Workers, NEW p \in Passwords, ChangePassword(w, p)
    PROVE  OneTable!NewPassword(w, Caller(w))
  <1> DEFINE u == Caller(w)
             c == [sub |-> u, tv |-> users[u].tv + 1, pw |-> p, born |-> born[u]]
             r == [Pending("rotate", u) EXCEPT !.claims = c]
  <1>1. u \in Users /\ op[w].pc = "route"
    BY RouteInside DEF ChangePassword
  <1>2. users[u].level \in Levels
    BY <1>1, AccountTyped DEF ChangePassword, TableInv, Typed, Account
  <1>3. op' = [op EXCEPT ![w] = r]
    BY DEF ChangePassword
  <1>4. UnderSid(r) = Absent
    BY DEF UnderSid, Pending, Idle
  <1> HIDE DEF r
  <1> QED BY <1>1, <1>2, <1>3, <1>4, SetPasswordTable DEF ChangePassword

LEMMA UpdateUserPasswordTable ==
    ASSUME TableInv, NEW w \in Workers, NEW t \in Users, NEW p \in Passwords, NEW l \in Levels,
           UpdateUserPassword(w, t, p, l)
    PROVE  OneTable!NewPassword(w, t)
  <1>1. UnderSid(Pending("revoke", t)) = Absent
    BY UnderNone
  <1> QED BY <1>1, SetPasswordTable DEF UpdateUserPassword, AdminRoute

\* Another level leaves the account's tokens as they are.
LEMMA SetLevelUnseen ==
    ASSUME TableInv, NEW t \in Users, NEW l \in Levels, Exists(t), users' = SetLevel(t, l),
           UNCHANGED <<sessions, tokens, expired, born>>
    PROVE  InForce' = InForce /\ PasswordsOf' = PasswordsOf
  <1>1. users[t] \in Account
    BY AccountTyped DEF TableInv, Typed
  <1>2. /\ users'[t] = [users[t] EXCEPT !.level = l]
        /\ \A u \in Users \ {t} : users'[u] = users[u]
    BY DEF SetLevel, TableInv, Typed, TypeOK
  <1>3. users'[t].tv = users[t].tv /\ users'[t].had = users[t].had
    BY <1>1, <1>2 DEF Account
  <1>4. users'[t] # Absent
    <2>1. [users[t] EXCEPT !.level = l] \in Account
      BY <1>1 DEF Account
    <2> QED BY <1>2, <2>1, AuthAssumption
  <1>5. PasswordsOf' = PasswordsOf
    BY <1>2, <1>3, <1>4 DEF PasswordsOf, Exists
  <1>6. ASSUME NEW s \in Sids PROVE s \in InForce' <=> s \in InForce
    <2>1. CASE tokens[s] = Absent
      BY <2>1 DEF InForce, Acceptable
    <2>2. CASE tokens[s] # Absent
      <3>1. tokens[s].sub \in Users
        BY <2>2 DEF TableInv, Typed, TypeOK, Claims
      <3> QED BY <1>2, <1>3, <1>4, <2>2, <3>1 DEF InForce, Acceptable, VersionMatches, Exists
    <2> QED BY <2>1, <2>2
  <1> QED BY <1>5, <1>6 DEF InForce

LEMMA UpdateUserLevelTable ==
    ASSUME TableInv, NEW w \in Workers, NEW t \in Users, NEW l \in Levels,
           UpdateUserLevel(w, t, l)
    PROVE  OneTable!Exit(w)
  <1>1. InForce' = InForce /\ PasswordsOf' = PasswordsOf
    BY SetLevelUnseen DEF UpdateUserLevel
  <1> QED BY <1>1, Exits, UnderNone DEF OneTable!Exit, UpdateUserLevel, AdminRoute, Done

LEMMA DeleteUserTable ==
    ASSUME TableInv, NEW w \in Workers, NEW t \in Users, DeleteUser(w, t)
    PROVE  OneTable!Delete(w, t)
  <1>1. users'[t] = Absent /\ \A u \in Users \ {t} : users'[u] = users[u]
    BY DEF DeleteUser, TableInv, Typed, TypeOK
  <1>2. InForce' = InForce \ OneTable!Owned(t)
    BY <1>1, AccountEnds DEF DeleteUser
  <1>3. PasswordsOf' = [PasswordsOf EXCEPT ![t] = {}]
    BY <1>1 DEF PasswordsOf, Exists
  <1>4. tokens[Inside[w]].sub # t
    BY RouteInside DEF DeleteUser, AdminRoute
  <1> QED BY <1>2, <1>3, <1>4, Exits, UnderNone DEF OneTable!Delete, DeleteUser, AdminRoute, Done

LEMMA CreateUserTable ==
    ASSUME TableInv, NEW w \in Workers, NEW t \in Users, NEW p \in Passwords, NEW l \in Levels,
           CreateUser(w, t, p, l)
    PROVE  OneTable!Create(w, t)
  <1> DEFINE a == [pw |-> p, tv |-> 0, level |-> l, had |-> {p}]
  <1>1. a # Absent /\ a.had = {p}
    BY AuthAssumption DEF Account
  <1>2. users' = [users EXCEPT ![t] = a]
    BY DEF CreateUser
  <1> HIDE DEF a
  <1>3. /\ users'[t] = a /\ born'[t] = born[t] + 1
        /\ \A u \in Users \ {t} : users'[u] = users[u] /\ born'[u] = born[u]
    BY <1>2 DEF CreateUser, TableInv, Typed, TypeOK
  <1>4. InForce' = InForce \ OneTable!Owned(t)
    BY <1>3, AccountEnds DEF CreateUser
  <1>5. InForce \cap OneTable!Owned(t) = {}
    BY DEF InForce, Acceptable, VersionMatches, OneTable!Owned, CreateUser
  <1>6. PasswordsOf[t] = {}
    BY DEF PasswordsOf, Exists, CreateUser
  <1>7. PasswordsOf' = [PasswordsOf EXCEPT ![t] = {p}]
    <2>1. \A u \in Users : PasswordsOf'[u] = IF u = t THEN {p} ELSE PasswordsOf[u]
      BY <1>1, <1>3 DEF PasswordsOf, Exists
    <2> QED BY <2>1 DEF PasswordsOf
  <1> QED BY <1>4, <1>5, <1>6, <1>7, Exits, UnderNone DEF OneTable!Create, CreateUser, AdminRoute, Done

\* The offline tool: one more password, and the same sign-ins in force.
LEMMA OfflineResetTable ==
    ASSUME TableInv, NEW t \in Users, NEW p \in Passwords, OfflineReset(t, p)
    PROVE  OneTable!Reset(t)
  <1>1. users[t] \in Account /\ Exists(t)
    BY AccountTyped DEF OfflineReset, TableInv, Typed
  <1> DEFINE a == [users[t] EXCEPT !.pw = p, !.had = @ \cup {p}]
  <1>2. users'[t] = a /\ \A u \in Users \ {t} : users'[u] = users[u]
    BY DEF OfflineReset, TableInv, Typed, TypeOK
  <1>3. a \in Account /\ a.tv = users[t].tv /\ a.had = users[t].had \cup {p}
    BY <1>1 DEF Account
  <1> HIDE DEF a
  <1>4. users'[t] # Absent
    BY <1>2, <1>3, AuthAssumption
  <1>5. PasswordsOf[t] # {}
    BY <1>1 DEF PasswordsOf, Account
  <1>6. PasswordsOf' = [PasswordsOf EXCEPT ![t] = @ \cup {p}]
    <2>1. \A u \in Users : PasswordsOf'[u] = IF u = t THEN PasswordsOf[t] \cup {p} ELSE PasswordsOf[u]
      BY <1>1, <1>2, <1>3, <1>4 DEF PasswordsOf, Exists
    <2> QED BY <2>1 DEF PasswordsOf
  <1>7. ASSUME NEW s \in Sids PROVE s \in InForce' <=> s \in InForce
    <2>1. CASE tokens[s] = Absent
      BY <2>1 DEF InForce, Acceptable, OfflineReset
    <2>2. CASE tokens[s] # Absent
      <3>1. tokens[s].sub \in Users
        BY <2>2 DEF TableInv, Typed, TypeOK, Claims
      <3>2. users'[tokens[s].sub] # Absent <=> users[tokens[s].sub] # Absent
        BY <1>1, <1>2, <1>4, <3>1 DEF Exists
      <3>3. users'[tokens[s].sub].tv = users[tokens[s].sub].tv
        BY <1>2, <1>3, <3>1
      <3> QED BY <2>2, <3>2, <3>3
              DEF InForce, Acceptable, VersionMatches, Exists, OfflineReset
    <2> QED BY <2>1, <2>2
  <1>8. InForce' = InForce
    BY <1>7 DEF InForce
  <1>9. Inside' = Inside
    BY DEF Inside, UnderSid, OfflineReset
  <1> QED BY <1>5, <1>6, <1>8, <1>9 DEF OneTable!Reset, OfflineReset

LEMMA RestartTable ==
    ASSUME TableInv, Restart
    PROVE  OneTable!Restart
  <1>1. Inside' = [w \in Workers |-> Absent]
    BY UnderNone DEF Inside, UnderSid, Restart
  <1>2. InForce' = InForce /\ PasswordsOf' = PasswordsOf
    <2>1. "full" \in Levels
      BY DEF Levels
    <2>2. CASE Exists(Seed) /\ users[Seed].level = "user"
      BY <2>1, <2>2, SetLevelUnseen, AuthAssumption DEF Restart, SeedRepaired
    <2>3. CASE ~(Exists(Seed) /\ users[Seed].level = "user")
      BY <2>3, ForceStays, PasswordsStay DEF Restart, SeedRepaired, TableInv
    <2> QED BY <2>2, <2>3
  <1> QED BY <1>1, <1>2 DEF OneTable!Restart, Restart

LEMMA HandleTable ==
    ASSUME TableInv, TableInv', NEW w \in Workers, Handle(w)
    PROVE  OneTable!Next \/ UNCHANGED OneTable!vars
  <1>1. CASE IssueToken(w)
    <2>1. lastSid + 1 \in Sids
      BY <1>1, AuthAssumption DEF IssueToken, TableInv, Typed, TypeOK, Sids
    <2> QED BY <1>1, <2>1, IssueTokenTable DEF OneTable!Next
  <1>2. CASE AuthSession(w) \/ TouchSession(w) \/ Serve(w) \/ Logout(w)
    BY <1>2, AuthSessionTable, TouchSessionTable, ServeTable, LogoutTable
       DEF OneTable!Next, OneTable!Request
  <1>3. CASE KickRevoke(w)
    BY <1>3, KickRevokeTable DEF OneTable!Next
  <1>4. CASE BumpTokenVersion(w) \/ RevokeUserSessions(w)
    <2>1. op[w].target \in Users
      BY <1>4, RequestTyped DEF BumpTokenVersion, RevokeUserSessions, TableInv, Typed,
         CarriesClaims, Request
    <2> QED BY <1>4, <2>1, BumpTokenVersionTable, RevokeUserSessionsTable DEF OneTable!Next
  <1>5. CASE \E s \in Sids : AuthUser(w, s) \/ KickLookup(w, s)
    BY <1>5, AuthUserTable, KickLookupTable DEF OneTable!Next, OneTable!Request
  <1>6. CASE \E u \in Users : LoginVerify(w, u) \/ KickAll(w, u) \/ DeleteUser(w, u)
    BY <1>6, LoginVerifyTable, ServeTable, DeleteUserTable DEF OneTable!Next, OneTable!Request
  <1>7. CASE \E p \in Passwords : ChangePassword(w, p)
    <2>1. Caller(w) \in Users
      BY <1>7, RouteInside DEF ChangePassword
    <2> QED BY <1>7, <2>1, ChangePasswordTable DEF OneTable!Next, OneTable!Request
  <1>8. CASE \E u \in Users, l \in Levels : UpdateUserLevel(w, u, l)
    BY <1>8, UpdateUserLevelTable DEF OneTable!Next, OneTable!Request
  <1>9. CASE \E u \in Users, p \in Passwords, l \in Levels :
               UpdateUserPassword(w, u, p, l) \/ CreateUser(w, u, p, l)
    BY <1>9, UpdateUserPasswordTable, CreateUserTable DEF OneTable!Next, OneTable!Request
  <1> QED BY AuthAssumption, <1>1, <1>2, <1>3, <1>4, <1>5, <1>6, <1>7, <1>8, <1>9 DEF Handle

LEMMA NextTable ==
    TableInv /\ TableInv' /\ [Next]_vars => [OneTable!Next]_(OneTable!vars)
  <1> SUFFICES ASSUME TableInv, TableInv', [Next]_vars
               PROVE  OneTable!Next \/ UNCHANGED OneTable!vars
    OBVIOUS
  <1>1. CASE \E w \in Workers : Handle(w)
    BY <1>1, HandleTable
  <1>2. CASE \E s \in Sids : Expire(s)
    BY <1>2, ExpireTable DEF OneTable!Next
  <1>3. CASE Restart
    BY <1>3, RestartTable DEF OneTable!Next
  <1>4. CASE \E x \in Resets : OfflineReset(x[1], x[2])
    <2>1. PICK x \in Resets : OfflineReset(x[1], x[2])
      BY <1>4
    <2>2. x[1] \in Users /\ x[2] \in Passwords
      BY AuthAssumption
    <2> QED BY <2>1, <2>2, OfflineResetTable DEF OneTable!Next
  <1>5. CASE UNCHANGED vars
    BY <1>5 DEF vars, OneTable!vars, PasswordsOf, Exists, InForce, Acceptable, VersionMatches,
                Inside, UnderSid
  <1> QED BY <1>1, <1>2, <1>3, <1>4, <1>5 DEF Next

\* users.json, sessions.json and the versions in the tokens are one table of
\* sign-ins, read and changed at one stroke, for every request that comes.
THEOREM TableRefined == Spec => TableOfSignIns
  <1>1. Spec => [][OneTable!Next]_(OneTable!vars)
    BY SpecTableInv, NextTable, PTL DEF Spec
  <1>2. Spec => OneTable!Init
    BY InitTable, PTL DEF Spec
  <1> QED BY <1>1, <1>2, PTL DEF TableOfSignIns, OneTable!Spec
=============================================================================
