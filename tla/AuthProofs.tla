----------------------------- MODULE AuthProofs -----------------------------
(* The invariants of accounts, sessions and tokens, for any number of      *)
(* users, requests in flight, password changes and failures.               *)
EXTENDS Auth, TLAPS

(* A session row: its id was given out, its holder knew no password that   *)
(* is yet to come, every change to a later one has still to delete it      *)
(* unless a deletion missed it, and the one of an API login is about to    *)
(* be ended unless that failed.                                            *)
Serving(i) == \E p \in Slots : req[p].pc \in {"issue", "drop"} /\ req[p].sid = i
Pending(u, v, i) ==
    \E p \in Slots : req[p].pc = "sweep" /\ req[p].user = u /\ req[p].pw = v /\ req[p].sid # i
SessionSound(i) ==
    sessions[i] # None =>
        /\ i \in usedIds
        /\ sessions[i].pw <= password[sessions[i].user]
        /\ ~ sessions[i].missed =>
              \A v \in Nat : sessions[i].pw < v /\ v <= password[sessions[i].user] =>
                  Pending(sessions[i].user, v, i)
        /\ sessions[i].api => Serving(i) \/ i \in cut

(* A request in flight: the password it read is no newer than the current  *)
(* one, and the session it holds, while there is one, is its own user's.   *)
HoldsSession(r) ==
    r.pc \in {"issue", "drop", "expire", "logout", "read", "update", "sweep", "mark"}
RequestSound(p) ==
    /\ req[p].pc \notin {"idle", "extract"} => req[p].pw <= password[req[p].user]
    /\ HoldsSession(req[p]) =>
          /\ req[p].sid \in usedIds
          /\ sessions[req[p].sid] # None => sessions[req[p].sid].user = req[p].user

(* The revocation rows: each lasts as long as its token, and a token that  *)
(* was logged out has one until it expires.                                *)
RevocationSound(r) == tokens[r.jti] # None /\ r.expires = tokens[r.jti].expires
LogoutSound(j) == tokens[j] # None /\ (Parse(j) => IsRevoked(j))

(* Every change but those that have come to their deletion is about to.    *)
Sweeping(u, v) ==
    \E p \in Slots : req[p].pc = "sweep" /\ req[p].user = u /\ req[p].pw = v
SweptSound(u) ==
    /\ settled[u] <= password[u]
    /\ \A v \in Nat : settled[u] < v /\ v <= password[u] => Sweeping(u, v)

SessionsSound == \A i \in SessionIds : SessionSound(i)
RequestsSound == \A p \in Slots : RequestSound(p)
TokensSound ==
    /\ \A r \in revocations : RevocationSound(r)
    /\ \A j \in loggedOut : LogoutSound(j)
AllSwept == \A u \in Users : SweptSound(u)

IInv == Typed /\ SessionsSound /\ RequestsSound /\ TokensSound /\ AllSwept

(* The place a request is at tells what it carries. *)
LEMMA RequestKinds ==
    ASSUME NEW r \in Request
    PROVE  /\ r.pc \in {"find", "create", "issue", "drop"} => r \in LoginReq
           /\ r.pc \in {"expire", "logout", "read", "update", "sweep", "mark"} => r \in WebReq
           /\ r.pc = "extract" => r \in ApiReq
           /\ r.pc = "idle" => r = IdleReq
           /\ r \in LoginReq => r.pc \in {"find", "create", "issue", "drop"}
           /\ r \in WebReq =>
                 r.pc \in {"expire", "logout", "read", "update", "sweep", "mark"}
           /\ r \in ApiReq => r.pc = "extract"
  BY DEF Request, LoginReq, WebReq, ApiReq, IdleReq

LEMMA IdleSound == ASSUME NEW p \in Slots, req'[p] = IdleReq PROVE RequestSound(p)'
  BY DEF RequestSound, HoldsSession, IdleReq

LEMMA NewestOf ==
    ASSUME NEW a \in Nat, NEW b \in Nat
    PROVE  Newest(a, b) \in {a, b} /\ Newest(a, b) >= a /\ Newest(a, b) >= b
  BY DEF Newest

LEMMA InitIInv == Init => IInv
<1> SUFFICES ASSUME Init PROVE IInv
  OBVIOUS
<1>1. Typed
  BY DEF Init, Typed, Request
<1>2. RequestsSound
  BY DEF Init, RequestsSound, RequestSound, HoldsSession, IdleReq
<1>3. SessionsSound
  BY DEF Init, SessionsSound, SessionSound
<1>4. AllSwept
  BY DEF Init, AllSwept, SweptSound
<1>5. TokensSound
  BY DEF Init, TokensSound
<1> QED
  BY <1>1, <1>2, <1>3, <1>4, <1>5 DEF IInv

(***************************************************************************)
(* What a step that does not concern a part leaves sound.                  *)
(***************************************************************************)
PasswordsGrow == \A u \in Users : password'[u] \in Nat /\ password[u] <= password'[u]
SessionsOnlyEnd == \A i \in SessionIds : sessions'[i] \in {None, sessions[i]}

(* A request that does not move stays sound. *)
LEMMA RequestKept ==
    ASSUME IInv, NEW p \in Slots, req'[p] = req[p], PasswordsGrow, usedIds \subseteq usedIds',
           \A i \in usedIds : sessions'[i] # None =>
               sessions[i] # None /\ sessions'[i].user = sessions[i].user
    PROVE  RequestSound(p)'
<1>1. RequestSound(p) /\ req[p] \in Request
  BY DEF IInv, RequestsSound, Typed
<1>2. ASSUME req[p].pc \notin {"idle", "extract"} PROVE req[p].pw <= password'[req[p].user]
  <2>1. req[p].user \in Users /\ req[p].pw \in Nat
    BY <1>1, <1>2 DEF Request, LoginReq, WebReq, ApiReq, IdleReq
  <2>2. password[req[p].user] \in Nat
    BY <2>1 DEF IInv, Typed
  <2> QED
    BY <1>1, <1>2, <2>1, <2>2 DEF RequestSound, PasswordsGrow
<1> QED
  BY <1>1, <1>2 DEF RequestSound, HoldsSession

(* Rows that stay are sound, if the API logins that hold one go on or are  *)
(* known to have failed, and if the changes that are to delete one go on   *)
(* or have missed it.                                                      *)
LEMMA SessionsCarried ==
    ASSUME IInv, UNCHANGED password, usedIds \subseteq usedIds', cut \subseteq cut',
           NEW i \in SessionIds, sessions'[i] # None,
           /\ sessions[i] # None
           /\ sessions'[i].user = sessions[i].user
           /\ sessions'[i].pw = sessions[i].pw
           /\ sessions'[i].api = sessions[i].api,
           ~ sessions'[i].missed =>
               /\ ~ sessions[i].missed
               /\ \A p \in Slots :
                     req[p].pc = "sweep" /\ req[p].user = sessions[i].user /\ req[p].sid # i =>
                         req'[p] = req[p],
           Serving(i) => Serving(i)' \/ i \in cut'
    PROVE  SessionSound(i)'
<1>1. SessionSound(i)
  BY DEF IInv, SessionsSound
<1>2. ASSUME ~ sessions'[i].missed, NEW v, Pending(sessions[i].user, v, i)
      PROVE  Pending(sessions[i].user, v, i)'
  BY <1>2 DEF Pending
<1> QED
  BY <1>1, <1>2 DEF SessionSound

SweepsGoOn == \A p \in Slots : req[p].pc = "sweep" => req'[p] = req[p]

LEMMA SessionsKept ==
    ASSUME IInv, UNCHANGED password, SessionsOnlyEnd, SweepsGoOn, usedIds \subseteq usedIds',
           cut \subseteq cut',
           \A i \in SessionIds : sessions'[i] # None /\ Serving(i) => Serving(i)' \/ i \in cut'
    PROVE  SessionsSound'
<1> SUFFICES ASSUME NEW i \in SessionIds, sessions'[i] # None PROVE SessionSound(i)'
  BY DEF SessionsSound, SessionSound
<1>1. sessions'[i] = sessions[i]
  BY DEF SessionsOnlyEnd
<1> QED
  BY <1>1, SessionsCarried DEF SweepsGoOn

(* The revocation table is sound as long as nothing is removed from it. *)
LEMMA TokensKept ==
    ASSUME IInv, UNCHANGED <<revocations, loggedOut>>, clock' \in Nat, clock <= clock',
           \A j \in Jtis : tokens[j] # None => tokens'[j] = tokens[j]
    PROVE  TokensSound'
<1>1. ASSUME NEW r \in revocations PROVE RevocationSound(r)'
  BY DEF IInv, Typed, TokensSound, RevocationSound, Revocation
<1>2. ASSUME NEW j \in loggedOut PROVE LogoutSound(j)'
  <2>1. j \in Jtis /\ LogoutSound(j) /\ tokens'[j] = tokens[j] /\ tokens[j] \in Token
    BY DEF IInv, Typed, TokensSound, LogoutSound
  <2>2. Parse(j)' => Parse(j)
    BY <2>1 DEF Parse, Token, IInv, Typed
  <2> QED
    BY <2>1, <2>2 DEF LogoutSound, IsRevoked
<1> QED
  BY <1>1, <1>2 DEF TokensSound

LEMMA SweptKept ==
    ASSUME IInv, UNCHANGED <<settled, password>>, SweepsGoOn
    PROVE  AllSwept'
  BY DEF IInv, AllSwept, SweptSound, Sweeping, SweepsGoOn

(***************************************************************************)
(* One lemma per action.                                                   *)
(***************************************************************************)
LEMMA StartLoginIInv ==
    ASSUME IInv, NEW p \in Slots, NEW u \in Users, NEW isApi \in BOOLEAN,
           req[p] = IdleReq, StartLogin(p, u, isApi), registered' \in SUBSET Users,
           UNCHANGED <<password, sessions, revocations, markers, tokens, clock, ghosts>>
    PROVE  IInv'
<1> USE DEF ghosts
<1> DEFINE r == [pc |-> "find", user |-> u, api |-> isApi, pw |-> 0, sid |-> None]
<1>1. r \in LoginReq /\ r.pc = "find" /\ r.user = u /\ r.pw = 0
  BY DEF LoginReq
<1>2. req' = [req EXCEPT ![p] = r]
  BY DEF StartLogin
<1> HIDE DEF r
<1>3. req'[p] = r /\ \A o \in Slots \ {p} : req'[o] = req[o]
  BY <1>2 DEF IInv, Typed
<1>4. Typed'
  BY <1>1, <1>2 DEF IInv, Typed, Request
<1>5. PasswordsGrow /\ SessionsOnlyEnd /\ SweepsGoOn
  BY <1>3 DEF IInv, Typed, PasswordsGrow, SessionsOnlyEnd, SweepsGoOn, IdleReq
<1>6. RequestsSound'
  <2>1. RequestSound(p)'
    BY <1>1, <1>3 DEF RequestSound, HoldsSession, IInv, Typed
  <2>2. ASSUME NEW o \in Slots \ {p} PROVE RequestSound(o)'
    BY <1>3, <1>5, RequestKept
  <2> QED
    BY <2>1, <2>2 DEF RequestsSound
<1>7. SessionsSound'
  <2>1. \A i \in SessionIds : Serving(i) => Serving(i)'
    BY <1>3 DEF Serving, IdleReq
  <2> QED
    BY <1>5, <2>1, SessionsKept
<1>8. TokensSound'
  BY TokensKept DEF IInv, Typed
<1>9. AllSwept'
  BY <1>5, SweptKept
<1> QED
  BY <1>4, <1>6, <1>7, <1>8, <1>9 DEF IInv

LEMMA LoginFindIInv == ASSUME IInv, NEW p \in Slots, LoginFind(p) PROVE IInv'
<1> USE DEF tables, ghosts
<1> DEFINE u == req[p].user
<1>1. req[p] \in LoginReq /\ u \in Users /\ password[u] \in Nat
  BY RequestKinds DEF LoginFind, IInv, Typed, LoginReq
<1>2. \A o \in Slots \ {p} : req'[o] = req[o]
  BY DEF LoginFind, Done, IInv, Typed
<1>3. req' \in [Slots -> Request] /\ RequestSound(p)'
  <2>1. CASE u \in registered
    <3>1. req'[p] = [req[p] EXCEPT !.pc = "create", !.pw = password[u]]
      BY <2>1 DEF LoginFind, IInv, Typed
    <3>2. /\ req'[p] \in LoginReq /\ req'[p].pc = "create" /\ req'[p].pw = password[u]
          /\ req'[p].user = u
      BY <1>1, <3>1 DEF LoginReq
    <3>3. req' \in [Slots -> Request]
      BY <1>2, <2>1, <3>2 DEF LoginFind, IInv, Typed, Request
    <3> QED
      BY <1>1, <3>2, <3>3 DEF LoginFind, RequestSound, HoldsSession
  <2>2. CASE u \notin registered
    <3>1. req' = [req EXCEPT ![p] = IdleReq]
      BY <2>2 DEF LoginFind, Done
    <3> QED
      BY <3>1, IdleSound DEF IInv, Typed, Request
  <2> QED
    BY <2>1, <2>2
<1>4. Typed'
  BY <1>3 DEF LoginFind, IInv, Typed
<1>5. PasswordsGrow /\ SessionsOnlyEnd /\ SweepsGoOn
  BY <1>2 DEF LoginFind, IInv, Typed, PasswordsGrow, SessionsOnlyEnd, SweepsGoOn
<1>6. RequestsSound'
  <2>1. ASSUME NEW o \in Slots \ {p} PROVE RequestSound(o)'
    BY <1>2, <1>5, RequestKept DEF LoginFind
  <2> QED
    BY <1>3, <2>1 DEF RequestsSound
<1>7. SessionsSound'
  <2>1. \A i \in SessionIds : Serving(i) => Serving(i)'
    BY <1>2 DEF LoginFind, Serving
  <2> QED
    BY <1>5, <2>1, SessionsKept DEF LoginFind
<1>8. TokensSound'
  BY TokensKept DEF LoginFind, IInv, Typed
<1>9. AllSwept'
  BY <1>5, SweptKept DEF LoginFind
<1> QED
  BY <1>4, <1>6, <1>7, <1>8, <1>9 DEF IInv

LEMMA LoginCreateIInv == ASSUME IInv, NEW p \in Slots, LoginCreate(p) PROVE IInv'
<1> DEFINE u == req[p].user
           row == NewSession(req[p])
<1>1. req[p] \in LoginReq /\ u \in Users /\ req[p].pw \in Nat /\ req[p].pw <= password[u]
  BY RequestKinds DEF LoginCreate, IInv, Typed, LoginReq, RequestsSound, RequestSound
<1>2. /\ row \in Session /\ row.user = u /\ row.pw = req[p].pw /\ row.api = req[p].api
      /\ row.pw >= settled[u] \/ row.missed
  <2> DEFINE missed == req[p].pw < settled[u]
  <2>1. /\ clock \in Nat /\ clock + SessionTTL \in Nat /\ req[p].api \in BOOLEAN
        /\ settled[u] \in Nat /\ missed \in BOOLEAN /\ (missed \/ req[p].pw >= settled[u])
    BY <1>1, AuthAssumption DEF IInv, Typed, LoginReq
  <2>2. row = [user |-> u, created |-> clock, expires |-> clock + SessionTTL,
               pw |-> req[p].pw, missed |-> missed, api |-> req[p].api]
    BY DEF NewSession
  <2> HIDE DEF missed, row
  <2>3. row \in Session /\ row.user = u /\ row.pw = req[p].pw /\ row.api = req[p].api
    BY <1>1, <2>1, <2>2 DEF Session
  <2>4. row.missed = missed
    BY <2>2
  <2> QED
    BY <2>1, <2>3, <2>4
<1>3. row # None
  BY <1>2, AuthAssumption
<1> HIDE DEF row
<1>4. PICK i \in SessionIds \ usedIds :
        /\ sessions' = [sessions EXCEPT ![i] = row]
        /\ usedIds' = usedIds \cup {i}
        /\ IF req[p].api THEN req' = [req EXCEPT ![p].pc = "issue", ![p].sid = i] ELSE Done(p)
  BY DEF LoginCreate, row
<1>5. /\ UNCHANGED <<registered, password, revocations, markers, tokens, clock, settled, cut>>
      /\ UNCHANGED loggedOut
  BY DEF LoginCreate
<1>6. sessions'[i] = row /\ \A k \in SessionIds \ {i} : sessions'[k] = sessions[k]
  BY <1>4 DEF IInv, Typed
<1>7. \A o \in Slots \ {p} : req'[o] = req[o]
  BY <1>4 DEF Done, IInv, Typed
<1>8. req' \in [Slots -> Request] /\ RequestSound(p)' /\ (req[p].api => Serving(i)')
  <2>1. CASE req[p].api
    <3>1. /\ req'[p] \in LoginReq /\ req'[p].pc = "issue" /\ req'[p].sid = i
          /\ req'[p].user = u /\ req'[p].pw = req[p].pw
      BY <1>1, <1>4, <2>1 DEF LoginReq, IInv, Typed
    <3>2. req' \in [Slots -> Request]
      BY <1>4, <1>7, <2>1, <3>1 DEF IInv, Typed, Request
    <3>3. RequestSound(p)'
      BY <1>1, <1>2, <1>4, <1>5, <1>6, <3>1 DEF RequestSound, HoldsSession
    <3> QED
      BY <3>1, <3>2, <3>3 DEF Serving
  <2>2. CASE ~ req[p].api
    <3>1. req' = [req EXCEPT ![p] = IdleReq]
      BY <1>4, <2>2 DEF Done
    <3> QED
      BY <2>2, <3>1, IdleSound DEF IInv, Typed, Request
  <2> QED
    BY <2>1, <2>2
<1>9. Typed'
  BY <1>2, <1>4, <1>5, <1>8 DEF IInv, Typed
<1>10. PasswordsGrow
  BY <1>5 DEF IInv, Typed, PasswordsGrow
<1>11. RequestsSound'
  <2>1. ASSUME NEW o \in Slots \ {p} PROVE RequestSound(o)'
    <3>1. \A k \in usedIds : sessions'[k] # None =>
            sessions[k] # None /\ sessions'[k].user = sessions[k].user
      BY <1>6 DEF IInv, Typed
    <3> QED
      BY <1>4, <1>7, <1>10, <3>1, RequestKept
  <2> QED
    BY <1>8, <2>1 DEF RequestsSound
<1>12. SessionsSound'
  <2>1. SessionSound(i)'
    <3> PICK w \in Users : w = u
      BY <1>1
    <3>1. ASSUME NEW v \in Nat, ~ row.missed, row.pw < v, v <= password[u]
          PROVE  Pending(w, v, i)'
      <4>1. settled[u] < v
        BY <1>1, <1>2, <3>1 DEF IInv, Typed
      <4>2. PICK o \in Slots : req[o].pc = "sweep" /\ req[o].user = u /\ req[o].pw = v
        BY <1>1, <3>1, <4>1 DEF IInv, AllSwept, SweptSound, Sweeping
      <4>3. req[o].sid # i
        BY <4>2 DEF IInv, RequestsSound, RequestSound, HoldsSession
      <4>4. req'[o] = req[o]
        BY <1>7, <4>2 DEF LoginCreate
      <4> QED
        BY <4>2, <4>3, <4>4 DEF Pending
    <3>2. sessions'[i].user = w /\ password' = password /\ sessions'[i] = row
      BY <1>2, <1>5, <1>6
    <3>3. ~ sessions'[i].missed =>
            \A v \in Nat : sessions'[i].pw < v /\ v <= password'[w] => Pending(w, v, i)'
      BY <3>1, <3>2
    <3>4. i \in usedIds' /\ sessions'[i].pw <= password'[w]
          /\ (sessions'[i].api => Serving(i)')
      BY <1>1, <1>2, <1>4, <1>8, <3>2
    <3> QED
      BY <3>2, <3>3, <3>4 DEF SessionSound
  <2>2. ASSUME NEW k \in SessionIds \ {i}, sessions[k] # None PROVE SessionSound(k)'
    <3>1. sessions'[k] = sessions[k]
      BY <1>6
    <3>2. Serving(k) => Serving(k)'
      BY <1>7 DEF Serving, LoginCreate
    <3>3. SweepsGoOn
      BY <1>7 DEF SweepsGoOn, LoginCreate
    <3>4. sessions'[k] # None => SessionSound(k)'
      BY <1>4, <1>5, <2>2, <3>1, <3>2, <3>3, SessionsCarried DEF SweepsGoOn
    <3> QED
      BY <3>4 DEF SessionSound
  <2> QED
    BY <1>6, <2>1, <2>2 DEF SessionsSound, SessionSound
<1>13. TokensSound'
  BY <1>5, TokensKept DEF IInv, Typed
<1>14. AllSwept'
  BY <1>5, <1>7, SweptKept DEF LoginCreate, SweepsGoOn
<1> QED
  BY <1>9, <1>11, <1>12, <1>13, <1>14 DEF IInv

LEMMA ApiIssueIInv == ASSUME IInv, NEW p \in Slots, ApiIssue(p) PROVE IInv'
<1> USE DEF tables, ghosts
<1> DEFINE r == req[p]
<1>1. r \in LoginReq /\ r.user \in Users /\ r.pw \in Nat /\ RequestSound(p)
  BY RequestKinds DEF ApiIssue, IInv, Typed, LoginReq, RequestsSound
<1>2. PICK j \in Jtis : tokens[j] = None /\ tokens' = [tokens EXCEPT ![j] = Sign(r.user, r.pw)]
  BY DEF ApiIssue
<1>3. Sign(r.user, r.pw) \in Token
  BY <1>1, AuthAssumption DEF Sign, Token, IInv, Typed
<1>4. /\ req'[p] \in LoginReq /\ req'[p].pc = "drop" /\ req'[p].sid = r.sid
      /\ req'[p].user = r.user /\ req'[p].pw = r.pw
  BY <1>1 DEF ApiIssue, LoginReq, IInv, Typed
<1>5. \A o \in Slots \ {p} : req'[o] = req[o]
  BY DEF ApiIssue, IInv, Typed
<1>6. Typed'
  <2>1. req' \in [Slots -> Request]
    BY <1>4, <1>5 DEF ApiIssue, IInv, Typed, Request
  <2> QED
    BY <1>2, <1>3, <2>1 DEF ApiIssue, IInv, Typed
<1>7. PasswordsGrow /\ SessionsOnlyEnd /\ SweepsGoOn
  BY <1>5 DEF ApiIssue, IInv, Typed, PasswordsGrow, SessionsOnlyEnd, SweepsGoOn
<1>8. RequestsSound'
  <2>1. RequestSound(p)'
    BY <1>1, <1>4 DEF ApiIssue, RequestSound, HoldsSession
  <2>2. ASSUME NEW o \in Slots \ {p} PROVE RequestSound(o)'
    BY <1>5, <1>7, RequestKept DEF ApiIssue
  <2> QED
    BY <2>1, <2>2 DEF RequestsSound
<1>9. SessionsSound'
  <2>1. \A i \in SessionIds : Serving(i) => Serving(i)'
    BY <1>4, <1>5 DEF Serving
  <2> QED
    BY <1>7, <2>1, SessionsKept DEF ApiIssue
<1>10. TokensSound'
  BY <1>2, TokensKept DEF ApiIssue, IInv, Typed
<1>11. AllSwept'
  BY <1>7, SweptKept DEF ApiIssue
<1> QED
  BY <1>6, <1>8, <1>9, <1>10, <1>11 DEF IInv

(* The two actions that delete one session and end. *)
LEMMA DeleteIInv ==
    ASSUME IInv, NEW p \in Slots, req[p].pc \in {"drop", "expire", "logout"},
           sessions' = [sessions EXCEPT ![req[p].sid] = None], Done(p),
           UNCHANGED <<registered, password, revocations, markers, tokens, clock, ghosts>>
    PROVE  IInv'
<1> USE DEF ghosts
<1>1. /\ req' = [req EXCEPT ![p] = IdleReq] /\ req'[p] = IdleReq
      /\ \A o \in Slots \ {p} : req'[o] = req[o]
  BY DEF Done, IInv, Typed
<1>2. Typed'
  BY <1>1 DEF IInv, Typed, Request
<1>3. PasswordsGrow /\ SessionsOnlyEnd /\ SweepsGoOn
  BY <1>1 DEF IInv, Typed, PasswordsGrow, SessionsOnlyEnd, SweepsGoOn
<1>4. RequestsSound'
  <2>1. \A k \in usedIds : sessions'[k] # None =>
          sessions[k] # None /\ sessions'[k].user = sessions[k].user
    BY <1>3 DEF IInv, Typed, SessionsOnlyEnd
  <2>2. ASSUME NEW o \in Slots \ {p} PROVE RequestSound(o)'
    BY <1>1, <1>3, <2>1, RequestKept
  <2> QED
    BY <1>1, <2>2, IdleSound DEF RequestsSound
<1>5. SessionsSound'
  <2>1. ASSUME NEW i \in SessionIds, sessions'[i] # None, Serving(i) PROVE Serving(i)'
    <3>1. req[p].sid # i
      BY <2>1 DEF IInv, Typed
    <3> QED
      BY <1>1, <2>1, <3>1 DEF Serving
  <2> QED
    BY <1>3, <2>1, SessionsKept
<1>6. TokensSound'
  BY TokensKept DEF IInv, Typed
<1>7. AllSwept'
  BY <1>3, SweptKept
<1> QED
  BY <1>2, <1>4, <1>5, <1>6, <1>7 DEF IInv

LEMMA WebRequestIInv == ASSUME IInv, NEW p \in Slots, WebRequest(p) PROVE IInv'
<1> USE DEF tables, ghosts
<1>1. PICK i \in SessionIds, pc \in {"logout", "read", "expire"} :
        /\ sessions[i] # None
        /\ req' = [req EXCEPT ![p] =
                     [pc |-> pc, user |-> sessions[i].user, sid |-> i, pw |-> 0, at |-> 0]]
  BY DEF WebRequest
<1>2. sessions[i].user \in Users /\ i \in usedIds
  BY <1>1 DEF IInv, Typed, Session, SessionsSound, SessionSound
<1> DEFINE r == [pc |-> pc, user |-> sessions[i].user, sid |-> i, pw |-> 0, at |-> 0]
<1>3. r \in WebReq /\ r.pc = pc /\ r.user = sessions[i].user /\ r.sid = i /\ r.pw = 0
  BY <1>2 DEF WebReq
<1>4. req' = [req EXCEPT ![p] = r]
  BY <1>1
<1> HIDE DEF r
<1>5. req'[p] = r /\ \A o \in Slots \ {p} : req'[o] = req[o]
  BY <1>4 DEF IInv, Typed
<1>6. Typed'
  BY <1>3, <1>4 DEF WebRequest, IInv, Typed, Request
<1>7. PasswordsGrow /\ SessionsOnlyEnd /\ SweepsGoOn
  BY <1>5 DEF WebRequest, IInv, Typed, PasswordsGrow, SessionsOnlyEnd, SweepsGoOn, IdleReq
<1>8. RequestsSound'
  <2>1. RequestSound(p)'
    BY <1>2, <1>3, <1>5 DEF WebRequest, RequestSound, HoldsSession, IInv, Typed
  <2>2. ASSUME NEW o \in Slots \ {p} PROVE RequestSound(o)'
    BY <1>5, <1>7, RequestKept DEF WebRequest
  <2> QED
    BY <2>1, <2>2 DEF RequestsSound
<1>9. SessionsSound'
  <2>1. \A k \in SessionIds : Serving(k) => Serving(k)'
    BY <1>5 DEF WebRequest, Serving, IdleReq
  <2> QED
    BY <1>7, <2>1, SessionsKept DEF WebRequest
<1>10. TokensSound'
  BY TokensKept DEF WebRequest, IInv, Typed
<1>11. AllSwept'
  BY <1>7, SweptKept DEF WebRequest
<1> QED
  BY <1>6, <1>8, <1>9, <1>10, <1>11 DEF IInv

LEMMA ChangeReadIInv == ASSUME IInv, NEW p \in Slots, ChangeRead(p) PROVE IInv'
<1> USE DEF tables, ghosts
<1> DEFINE u == req[p].user
<1>1. req[p] \in WebReq /\ u \in Users /\ password[u] \in Nat /\ RequestSound(p)
  BY RequestKinds DEF ChangeRead, IInv, Typed, WebReq, RequestsSound
<1>2. /\ req'[p] = [req[p] EXCEPT !.pc = "update", !.pw = password[u]]
      /\ \A o \in Slots \ {p} : req'[o] = req[o]
  BY DEF ChangeRead, IInv, Typed
<1>3. /\ req'[p] \in WebReq /\ req'[p].pc = "update" /\ req'[p].pw = password[u]
      /\ req'[p].user = u /\ req'[p].sid = req[p].sid
  BY <1>1, <1>2 DEF WebReq
<1>4. Typed'
  BY <1>2, <1>3 DEF ChangeRead, IInv, Typed, Request
<1>5. PasswordsGrow /\ SessionsOnlyEnd /\ SweepsGoOn
  BY <1>2 DEF ChangeRead, IInv, Typed, PasswordsGrow, SessionsOnlyEnd, SweepsGoOn
<1>6. RequestsSound'
  <2>1. RequestSound(p)'
    BY <1>1, <1>3 DEF ChangeRead, RequestSound, HoldsSession
  <2>2. ASSUME NEW o \in Slots \ {p} PROVE RequestSound(o)'
    BY <1>2, <1>5, RequestKept DEF ChangeRead
  <2> QED
    BY <2>1, <2>2 DEF RequestsSound
<1>7. SessionsSound'
  <2>1. \A i \in SessionIds : Serving(i) => Serving(i)'
    BY <1>2 DEF ChangeRead, Serving
  <2> QED
    BY <1>5, <2>1, SessionsKept DEF ChangeRead
<1>8. TokensSound'
  BY TokensKept DEF ChangeRead, IInv, Typed
<1>9. AllSwept'
  BY <1>5, SweptKept DEF ChangeRead
<1> QED
  BY <1>4, <1>6, <1>7, <1>8, <1>9 DEF IInv

(* What the update of the password leaves: the rows as they are, but that  *)
(* the holder of the session it was made from knows the new one.           *)
LEMMA UpdateLeaves ==
    ASSUME IInv, NEW p \in Slots, ChangeUpdate(p)
    PROVE  /\ req[p] \in WebReq /\ req[p].user \in Users /\ req[p].sid \in SessionIds
           /\ password[req[p].user] \in Nat
           /\ password' \in [Users -> Nat]
           /\ password'[req[p].user] = password[req[p].user] + 1
           /\ \A v \in Users \ {req[p].user} : password'[v] = password[v]
           /\ sessions' \in [SessionIds -> Session \cup {None}]
           /\ \A i \in SessionIds :
                 /\ sessions'[i] = None <=> sessions[i] = None
                 /\ i # req[p].sid => sessions'[i] = sessions[i]
                 /\ sessions'[i] # None =>
                       /\ sessions'[i].user = sessions[i].user
                       /\ sessions'[i].api = sessions[i].api
                       /\ sessions'[i].missed = sessions[i].missed
                       /\ sessions'[i].expires = sessions[i].expires
                       /\ i = req[p].sid => /\ sessions[i].user = req[p].user
                                            /\ sessions'[i].pw = password'[req[p].user]
<1> DEFINE u == req[p].user
           keep == req[p].sid
<1>1. req[p] \in WebReq /\ RequestSound(p)
  BY RequestKinds DEF ChangeUpdate, IInv, Typed, RequestsSound
<1>2. /\ u \in Users /\ password[u] \in Nat /\ keep \in SessionIds
      /\ sessions[keep] # None => sessions[keep].user = u
  BY <1>1 DEF WebReq, RequestSound, HoldsSession, ChangeUpdate, IInv, Typed
<1>3. /\ password' = [password EXCEPT ![u] = password[u] + 1]
      /\ sessions' = Proved(keep, password[u] + 1)
  BY DEF ChangeUpdate
<1>4. /\ password' \in [Users -> Nat] /\ password'[u] = password[u] + 1
      /\ \A v \in Users \ {u} : password'[v] = password[v]
  BY <1>2, <1>3 DEF IInv, Typed
<1>5. ASSUME NEW i \in SessionIds \ {keep} PROVE sessions'[i] = sessions[i]
  BY <1>3 DEF Proved, IInv, Typed
<1>6. CASE sessions[keep] = None
  <2>1. sessions'[keep] = None
    BY <1>2, <1>3, <1>6 DEF Proved, IInv, Typed
  <2>2. sessions' \in [SessionIds -> Session \cup {None}]
    BY <1>3, <1>5, <2>1 DEF Proved, IInv, Typed
  <2> QED
    BY <1>1, <1>2, <1>4, <1>5, <1>6, <2>1, <2>2
<1>7. CASE sessions[keep] # None
  <2>1. sessions'[keep] = [sessions[keep] EXCEPT !.pw = password[u] + 1]
    BY <1>2, <1>3, <1>7 DEF Proved, IInv, Typed
  <2>2. sessions[keep] \in Session /\ password[u] + 1 \in Nat
    BY <1>2, <1>7 DEF IInv, Typed
  <2>3. /\ sessions'[keep] \in Session
        /\ sessions'[keep].user = sessions[keep].user
        /\ sessions'[keep].api = sessions[keep].api
        /\ sessions'[keep].missed = sessions[keep].missed
        /\ sessions'[keep].expires = sessions[keep].expires
        /\ sessions'[keep].pw = password[u] + 1
    BY <2>1, <2>2 DEF Session
  <2>4. sessions' \in [SessionIds -> Session \cup {None}]
    BY <1>3, <1>5, <2>3 DEF Proved, IInv, Typed
  <2>5. sessions'[keep] # None
    BY <2>3, AuthAssumption
  <2> QED
    BY <1>1, <1>2, <1>4, <1>5, <1>7, <2>3, <2>4, <2>5
<1> QED
  BY <1>6, <1>7

LEMMA ChangeUpdateIInv == ASSUME IInv, NEW p \in Slots, ChangeUpdate(p) PROVE IInv'
<1> USE DEF ghosts
<1> PICK u \in Users : u = req[p].user
  BY UpdateLeaves
<1>1. RequestSound(p) /\ SweptSound(u) /\ settled[u] \in Nat
  BY UpdateLeaves DEF IInv, Typed, RequestsSound, AllSwept
<1>2. /\ req'[p] = [req[p] EXCEPT !.pc = "sweep", !.pw = password[u] + 1, !.at = clock]
      /\ \A o \in Slots \ {p} : req'[o] = req[o]
      /\ req[p].pc = "update"
  BY DEF ChangeUpdate, IInv, Typed
<1>3. /\ req'[p] \in WebReq /\ req'[p].pc = "sweep" /\ req'[p].pw = password'[u]
      /\ req'[p].user = u /\ req'[p].sid = req[p].sid
  <2>1. clock \in Nat /\ password[u] + 1 \in Nat
    BY UpdateLeaves DEF IInv, Typed
  <2> QED
    BY <1>2, <2>1, UpdateLeaves DEF WebReq
<1>4. Typed'
  <2>1. req' \in [Slots -> Request]
    BY <1>2, <1>3 DEF ChangeUpdate, IInv, Typed, Request
  <2> QED
    BY <2>1, UpdateLeaves DEF ChangeUpdate, IInv, Typed
<1>5. PasswordsGrow /\ SweepsGoOn
  BY <1>2, UpdateLeaves DEF IInv, Typed, PasswordsGrow, SweepsGoOn
<1>6. RequestsSound'
  <2>1. \A k \in usedIds : sessions'[k] # None =>
          sessions[k] # None /\ sessions'[k].user = sessions[k].user
    BY UpdateLeaves DEF IInv, Typed
  <2>2. RequestSound(p)'
    <3>1. req[p].sid \in usedIds /\ (sessions[req[p].sid] # None => sessions[req[p].sid].user = u)
      BY <1>1, <1>2 DEF RequestSound, HoldsSession
    <3>2. req'[p].pw <= password'[u]
      <4>1. password'[u] \in Nat
        BY UpdateLeaves
      <4> QED
        BY <1>3, <4>1
    <3>3. usedIds' = usedIds
      BY DEF ChangeUpdate
    <3> QED
      BY <1>3, <2>1, <3>1, <3>2, <3>3 DEF RequestSound, HoldsSession
  <2>3. ASSUME NEW o \in Slots \ {p} PROVE RequestSound(o)'
    BY <1>2, <1>5, <2>1, RequestKept DEF ChangeUpdate
  <2> QED
    BY <2>2, <2>3 DEF RequestsSound
<1>7. ASSUME NEW v, Sweeping(u, v) PROVE Sweeping(u, v)'
  BY <1>5, <1>7 DEF Sweeping, SweepsGoOn
<1>8. SessionsSound'
  <2> SUFFICES ASSUME NEW i \in SessionIds, sessions'[i] # None PROVE SessionSound(i)'
    BY DEF SessionsSound, SessionSound
  <2> PICK o \in Users : o = sessions[i].user
    BY UpdateLeaves DEF IInv, Typed, Session
  <2>1. /\ SessionSound(i) /\ sessions[i] # None /\ sessions[i].pw \in Nat
        /\ sessions'[i].user = o /\ sessions'[i].api = sessions[i].api
        /\ sessions'[i].missed = sessions[i].missed /\ password[o] \in Nat
    BY UpdateLeaves DEF IInv, Typed, SessionsSound, Session
  <2>2. Serving(i) => Serving(i)'
    BY <1>2 DEF Serving
  <2>3. sessions'[i].pw <= password'[o]
    <3>1. CASE i = req[p].sid
      BY <3>1, UpdateLeaves
    <3>2. CASE i # req[p].sid
      BY <1>5, <2>1, <3>2, UpdateLeaves DEF SessionSound, PasswordsGrow
    <3> QED
      BY <3>1, <3>2
  <2>4. ASSUME ~ sessions'[i].missed, NEW v \in Nat, sessions'[i].pw < v, v <= password'[o]
        PROVE  Pending(o, v, i)'
    <3>1. i # req[p].sid
      BY <2>1, <2>4, UpdateLeaves
    <3>2. CASE o = u /\ v = password'[u]
      BY <1>3, <3>1, <3>2 DEF Pending
    <3>3. CASE ~ (o = u /\ v = password'[u])
      <4>1. v <= password[o]
        BY <2>1, <2>4, <3>3, UpdateLeaves
      <4>2. Pending(o, v, i)
        BY <2>1, <2>4, <3>1, <4>1, UpdateLeaves DEF SessionSound
      <4> QED
        BY <1>5, <4>2 DEF Pending, SweepsGoOn
    <3> QED
      BY <3>2, <3>3
  <2> QED
    BY <2>1, <2>2, <2>3, <2>4 DEF SessionSound, ChangeUpdate
<1>9. TokensSound'
  BY TokensKept DEF ChangeUpdate, IInv, Typed
<1>10. ASSUME NEW o \in Users PROVE SweptSound(o)'
  <2>1. SweptSound(o) /\ settled'[o] = settled[o] /\ password[o] \in Nat /\ settled[o] \in Nat
        /\ password'[o] \in Nat /\ password[o] <= password'[o]
    BY <1>5 DEF ChangeUpdate, IInv, Typed, AllSwept, PasswordsGrow
  <2>2. ASSUME NEW v \in Nat, settled'[o] < v, v <= password'[o] PROVE Sweeping(o, v)'
    <3>1. CASE o = u /\ v = password'[u]
      BY <1>3, <3>1 DEF Sweeping
    <3>2. CASE ~ (o = u /\ v = password'[u])
      <4>1. v <= password[o]
        BY <2>1, <2>2, <3>2, UpdateLeaves
      <4>2. Sweeping(o, v)
        BY <2>1, <2>2, <4>1 DEF SweptSound
      <4> QED
        BY <1>5, <4>2 DEF Sweeping, SweepsGoOn
    <3> QED
      BY <3>1, <3>2
  <2> QED
    BY <2>1, <2>2 DEF SweptSound
<1> QED
  BY <1>4, <1>6, <1>8, <1>9, <1>10 DEF IInv, AllSwept

(* A change that comes to its deletion: no newer one is counted as settled *)
(* that still has to.                                                      *)
LEMMA SettleSound ==
    ASSUME IInv, NEW p \in Slots, req[p].pc = "sweep", Settle(p), UNCHANGED password,
           \A o \in Slots \ {p} : req'[o] = req[o]
    PROVE  settled' \in [Users -> Nat] /\ AllSwept'
<1> DEFINE u == req[p].user
           pw == req[p].pw
<1>1. req[p] \in WebReq /\ RequestSound(p)
  BY RequestKinds DEF IInv, Typed, RequestsSound
<1>2. /\ u \in Users /\ pw \in Nat /\ pw <= password[u]
      /\ password[u] \in Nat /\ settled[u] \in Nat /\ settled[u] <= password[u]
  BY <1>1 DEF WebReq, RequestSound, IInv, Typed, AllSwept, SweptSound
<1>3. settled' = [settled EXCEPT ![u] = Newest(settled[u], pw)]
  BY DEF Settle
<1>4. Newest(settled[u], pw) \in {settled[u], pw} /\ Newest(settled[u], pw) >= settled[u]
      /\ Newest(settled[u], pw) >= pw
  BY <1>2, NewestOf
<1>5. /\ settled' \in [Users -> Nat] /\ settled'[u] = Newest(settled[u], pw)
      /\ \A o \in Users \ {u} : settled'[o] = settled[o]
  BY <1>2, <1>3, <1>4 DEF IInv, Typed
<1>6. ASSUME NEW o \in Users PROVE SweptSound(o)'
  <2>1. SweptSound(o) /\ settled[o] \in Nat /\ password[o] \in Nat
    BY DEF IInv, Typed, AllSwept
  <2>2. settled'[o] \in Nat /\ settled[o] <= settled'[o] /\ settled'[o] <= password[o]
    BY <1>2, <1>4, <1>5, <2>1 DEF SweptSound
  <2>3. ASSUME NEW v \in Nat, settled'[o] < v, v <= password[o] PROVE Sweeping(o, v)'
    <3>1. settled[o] < v
      BY <2>1, <2>2, <2>3
    <3>2. PICK q \in Slots : req[q].pc = "sweep" /\ req[q].user = o /\ req[q].pw = v
      BY <2>1, <2>3, <3>1 DEF SweptSound, Sweeping
    <3>3. q # p
      BY <1>2, <1>4, <1>5, <2>2, <2>3, <3>2
    <3> QED
      BY <3>2, <3>3 DEF Sweeping
  <2> QED
    BY <2>2, <2>3 DEF SweptSound
<1> QED
  BY <1>5, <1>6 DEF AllSwept

(* What the deletion of the other sessions leaves: the kept session and    *)
(* the rows of other users, as they were.                                  *)
LEMMA SweepLeaves ==
    ASSUME IInv, NEW p \in Slots, ChangeSweep(p)
    PROVE  /\ SessionsOnlyEnd
           /\ sessions' \in [SessionIds -> Session \cup {None}]
           /\ \A i \in SessionIds : sessions'[i] # None =>
                 req[p].user # sessions[i].user \/ req[p].sid = i
<1>1. sessions' = [i \in SessionIds |->
                     IF i \in OtherSessions(req[p].user, req[p].sid) THEN None ELSE sessions[i]]
  BY DEF ChangeSweep
<1>2. SessionsOnlyEnd /\ sessions' \in [SessionIds -> Session \cup {None}]
  BY <1>1 DEF SessionsOnlyEnd, IInv, Typed
<1>3. ASSUME NEW i \in SessionIds, sessions'[i] # None, req[p].sid # i
      PROVE  req[p].user # sessions[i].user
  BY <1>1, <1>3 DEF OtherSessions
<1> QED
  BY <1>2, <1>3

LEMMA ChangeSweepIInv == ASSUME IInv, NEW p \in Slots, ChangeSweep(p) PROVE IInv'
<1>1. /\ req'[p] = [req[p] EXCEPT !.pc = "mark"]
      /\ \A o \in Slots \ {p} : req'[o] = req[o]
      /\ UNCHANGED <<registered, password, revocations, markers, tokens, clock, usedIds,
                     loggedOut, cut>>
      /\ req[p].pc = "sweep" /\ Settle(p)
  BY DEF ChangeSweep, IInv, Typed
<1>2. req[p] \in WebReq /\ RequestSound(p)
  BY RequestKinds DEF ChangeSweep, IInv, Typed, RequestsSound
<1>3. /\ req'[p] \in WebReq /\ req'[p].pc = "mark" /\ req'[p].pw = req[p].pw
      /\ req'[p].user = req[p].user /\ req'[p].sid = req[p].sid
  BY <1>1, <1>2 DEF WebReq
<1>4. settled' \in [Users -> Nat] /\ AllSwept'
  BY <1>1, SettleSound
<1>5. Typed'
  <2>1. req' \in [Slots -> Request]
    BY <1>1, <1>3 DEF ChangeSweep, IInv, Typed, Request
  <2> QED
    BY <1>1, <1>4, <2>1, SweepLeaves DEF IInv, Typed
<1>6. PasswordsGrow
  BY <1>1 DEF IInv, Typed, PasswordsGrow
<1>7. RequestsSound'
  <2>1. \A k \in usedIds : sessions'[k] # None =>
          sessions[k] # None /\ sessions'[k].user = sessions[k].user
    BY SweepLeaves DEF IInv, Typed, SessionsOnlyEnd
  <2>2. RequestSound(p)'
    BY <1>1, <1>2, <1>3, <2>1 DEF RequestSound, HoldsSession
  <2>3. ASSUME NEW o \in Slots \ {p} PROVE RequestSound(o)'
    BY <1>1, <1>6, <2>1, RequestKept
  <2> QED
    BY <2>2, <2>3 DEF RequestsSound
<1>8. SessionsSound'
  <2> SUFFICES ASSUME NEW i \in SessionIds, sessions'[i] # None PROVE SessionSound(i)'
    BY DEF SessionsSound, SessionSound
  <2>1. sessions'[i] = sessions[i]
    BY SweepLeaves DEF SessionsOnlyEnd
  <2>2. Serving(i) => Serving(i)'
    BY <1>1 DEF Serving
  <2>3. ASSUME NEW o \in Slots, req[o].user = sessions[i].user, req[o].sid # i
        PROVE  req'[o] = req[o]
    BY <1>1, <2>3, SweepLeaves
  <2> QED
    BY <1>1, <2>1, <2>2, <2>3, SessionsCarried
<1>9. TokensSound'
  BY <1>1, TokensKept DEF IInv, Typed
<1> QED
  BY <1>4, <1>5, <1>7, <1>8, <1>9 DEF IInv

(* The end of a request that has no session of an API login and none left  *)
(* to delete: what it has done stays.                                      *)
LEMMA EndedIInv ==
    ASSUME IInv, NEW p \in Slots, Done(p), cut' \in SUBSET SessionIds, cut \subseteq cut',
           req[p].pc # "sweep", req[p].pc \in {"issue", "drop"} => req[p].sid \in cut',
           UNCHANGED <<registered, password, sessions, settled, usedIds>>,
           markers' \in SUBSET Marker, tokens' \in [Jtis -> Token \cup {None}],
           revocations' \in SUBSET Revocation, clock' \in Nat, loggedOut' \in SUBSET Jtis,
           TokensSound'
    PROVE  IInv'
<1>1. /\ req' = [req EXCEPT ![p] = IdleReq] /\ req'[p] = IdleReq
      /\ \A o \in Slots \ {p} : req'[o] = req[o]
  BY DEF Done, IInv, Typed
<1>2. Typed'
  BY <1>1 DEF IInv, Typed, Request
<1>3. PasswordsGrow /\ SessionsOnlyEnd /\ SweepsGoOn
  BY <1>1 DEF IInv, Typed, PasswordsGrow, SessionsOnlyEnd, SweepsGoOn
<1>4. RequestsSound'
  <2>1. ASSUME NEW o \in Slots \ {p} PROVE RequestSound(o)'
    BY <1>1, <1>3, RequestKept
  <2> QED
    BY <1>1, <2>1, IdleSound DEF RequestsSound
<1>5. SessionsSound'
  <2>1. \A i \in SessionIds : Serving(i) => Serving(i)' \/ i \in cut'
    BY <1>1 DEF Serving
  <2> QED
    BY <1>3, <2>1, SessionsKept
<1>6. AllSwept'
  BY <1>3, SweptKept
<1> QED
  BY <1>2, <1>4, <1>5, <1>6 DEF IInv

LEMMA ChangeMarkIInv == ASSUME IInv, NEW p \in Slots, ChangeMark(p) PROVE IInv'
<1> USE DEF ghosts
<1>1. req[p] \in WebReq
  BY RequestKinds DEF ChangeMark, IInv, Typed
<1>2. markers' \in SUBSET Marker
  <2>1. req[p].user \in Users /\ req[p].at + RevokeAllTTL \in Nat
    BY <1>1, AuthAssumption DEF WebReq
  <2> QED
    BY <2>1 DEF ChangeMark, Marker, IInv, Typed
<1>3. TokensSound'
  BY TokensKept DEF ChangeMark, IInv, Typed
<1> QED
  BY <1>2, <1>3, EndedIInv DEF ChangeMark, IInv, Typed

LEMMA ApiLogoutIInv == ASSUME IInv, NEW p \in Slots, ApiLogout(p) PROVE IInv'
<1> USE DEF tables, ghosts
<1>1. PICK j \in Jtis : req' = [req EXCEPT ![p] = [pc |-> "extract", jti |-> j]]
  BY DEF ApiLogout
<1> DEFINE r == [pc |-> "extract", jti |-> j]
<1>2. r \in ApiReq /\ r.pc = "extract"
  BY DEF ApiReq
<1> HIDE DEF r
<1>3. req' = [req EXCEPT ![p] = r] /\ req'[p] = r /\ \A o \in Slots \ {p} : req'[o] = req[o]
  BY <1>1 DEF IInv, Typed, r
<1>4. Typed'
  BY <1>2, <1>3 DEF ApiLogout, IInv, Typed, Request
<1>5. PasswordsGrow /\ SessionsOnlyEnd /\ SweepsGoOn
  BY <1>3 DEF ApiLogout, IInv, Typed, PasswordsGrow, SessionsOnlyEnd, SweepsGoOn, IdleReq
<1>6. RequestsSound'
  <2>1. RequestSound(p)'
    BY <1>2, <1>3 DEF RequestSound, HoldsSession
  <2>2. ASSUME NEW o \in Slots \ {p} PROVE RequestSound(o)'
    BY <1>3, <1>5, RequestKept DEF ApiLogout
  <2> QED
    BY <2>1, <2>2 DEF RequestsSound
<1>7. SessionsSound'
  <2>1. \A k \in SessionIds : Serving(k) => Serving(k)'
    BY <1>3 DEF ApiLogout, Serving, IdleReq
  <2> QED
    BY <1>5, <2>1, SessionsKept DEF ApiLogout
<1>8. TokensSound'
  BY TokensKept DEF ApiLogout, IInv, Typed
<1>9. AllSwept'
  BY <1>5, SweptKept DEF ApiLogout
<1> QED
  BY <1>4, <1>6, <1>7, <1>8, <1>9 DEF IInv

(* A logout's row replaces the one of an earlier logout by an equal one. *)
LEMMA ApiRevokeIInv == ASSUME IInv, NEW p \in Slots, ApiRevoke(p) PROVE IInv'
<1> DEFINE j == req[p].jti
<1>1. j \in Jtis
  BY RequestKinds DEF ApiRevoke, ApiReq, IInv, Typed
<1>2. /\ UNCHANGED <<registered, password, sessions, markers, tokens, clock, usedIds, settled, cut>>
      /\ Done(p) /\ req[p].pc = "extract"
  BY DEF ApiRevoke
<1>3. /\ revocations' \in SUBSET Revocation /\ loggedOut' \in SUBSET Jtis /\ TokensSound'
  <2>1. CASE ~ Parse(j)
    <3>1. UNCHANGED <<revocations, loggedOut>>
      BY <2>1 DEF ApiRevoke
    <3> QED
      BY <1>2, <3>1, TokensKept DEF IInv, Typed
  <2>2. CASE Parse(j)
    <3>1. /\ revocations' = {r \in revocations : r.jti # j} \cup {RevocationOf(j)}
          /\ loggedOut' = loggedOut \cup {j}
      BY <2>2 DEF ApiRevoke
    <3>2. tokens[j] # None /\ tokens[j] \in Token
      BY <1>1, <2>2 DEF Parse, IInv, Typed
    <3>3. /\ RevocationOf(j) \in Revocation /\ RevocationOf(j).jti = j
          /\ RevocationOf(j).expires = tokens[j].expires
      BY <1>1, <3>2 DEF RevocationOf, Revocation, Token
    <3>4. ASSUME NEW r \in revocations' PROVE RevocationSound(r)'
      BY <1>2, <3>1, <3>2, <3>3 DEF IInv, TokensSound, RevocationSound
    <3>5. ASSUME NEW k \in loggedOut' PROVE LogoutSound(k)'
      <4>1. CASE k = req[p].jti
        BY <1>2, <3>1, <3>2, <3>3, <4>1 DEF LogoutSound, IsRevoked
      <4>2. CASE k # req[p].jti
        <5>1. LogoutSound(k)
          BY <3>1, <4>2 DEF IInv, TokensSound
        <5>2. IsRevoked(k) => IsRevoked(k)'
          BY <3>1, <4>2 DEF IsRevoked
        <5> QED
          BY <1>2, <5>1, <5>2 DEF LogoutSound, Parse
      <4> QED
        BY <4>1, <4>2
    <3> QED
      BY <1>1, <3>1, <3>3, <3>4, <3>5 DEF IInv, Typed, TokensSound
  <2> QED
    BY <2>1, <2>2
<1> QED
  BY <1>2, <1>3, EndedIInv DEF ApiRevoke, IInv, Typed

(* What a deletion that fails leaves: every row, and those it should have  *)
(* deleted are known to be missed.                                         *)
LEMMA MissLeaves ==
    ASSUME IInv, NEW p \in Slots, Abort(p), req[p].pc = "sweep"
    PROVE  /\ sessions' \in [SessionIds -> Session \cup {None}]
           /\ \A i \in SessionIds :
                 /\ sessions'[i] = None <=> sessions[i] = None
                 /\ sessions'[i] # None =>
                       /\ sessions'[i].user = sessions[i].user
                       /\ sessions'[i].api = sessions[i].api
                       /\ sessions'[i].pw = sessions[i].pw
                       /\ sessions'[i].expires = sessions[i].expires
                       /\ ~ sessions'[i].missed =>
                             /\ ~ sessions[i].missed
                             /\ req[p].user # sessions[i].user \/ req[p].sid = i
<1>1. sessions' = [i \in SessionIds |->
                     IF i \in OtherSessions(req[p].user, req[p].sid)
                     THEN [sessions[i] EXCEPT !.missed = TRUE] ELSE sessions[i]]
  BY DEF Abort
<1>2. ASSUME NEW i \in SessionIds
      PROVE  /\ sessions'[i] \in Session \cup {None}
             /\ sessions'[i] = None <=> sessions[i] = None
             /\ sessions'[i] # None =>
                   /\ sessions'[i].user = sessions[i].user
                   /\ sessions'[i].api = sessions[i].api
                   /\ sessions'[i].pw = sessions[i].pw
                   /\ sessions'[i].expires = sessions[i].expires
                   /\ ~ sessions'[i].missed =>
                         /\ ~ sessions[i].missed
                         /\ req[p].user # sessions[i].user \/ req[p].sid = i
  <2>1. CASE i \in OtherSessions(req[p].user, req[p].sid)
    <3>1. sessions[i] \in Session /\ sessions[i] # None
      BY <2>1 DEF OtherSessions, IInv, Typed
    <3>2. sessions'[i] = [sessions[i] EXCEPT !.missed = TRUE]
      BY <1>1, <2>1
    <3>3. /\ sessions'[i] \in Session
          /\ sessions'[i].user = sessions[i].user
          /\ sessions'[i].api = sessions[i].api
          /\ sessions'[i].pw = sessions[i].pw
          /\ sessions'[i].expires = sessions[i].expires
          /\ sessions'[i].missed
      BY <3>1, <3>2 DEF Session
    <3> QED
      BY <3>1, <3>3, AuthAssumption
  <2>2. CASE i \notin OtherSessions(req[p].user, req[p].sid)
    <3>1. sessions'[i] = sessions[i]
      BY <1>1, <2>2
    <3> QED
      BY <2>2, <3>1 DEF OtherSessions, IInv, Typed
  <2> QED
    BY <2>1, <2>2
<1>3. sessions' \in [SessionIds -> Session \cup {None}]
  BY <1>1, <1>2
<1> QED
  BY <1>2, <1>3

LEMMA AbortIInv == ASSUME IInv, NEW p \in Slots, Abort(p) PROVE IInv'
<1>1. /\ req' = [req EXCEPT ![p] = IdleReq] /\ req'[p] = IdleReq
      /\ \A o \in Slots \ {p} : req'[o] = req[o]
  BY DEF Abort, Done, IInv, Typed
<1>2. /\ cut' \in SUBSET SessionIds /\ cut \subseteq cut'
      /\ req[p].pc \in {"issue", "drop"} => req[p].sid \in cut'
  <2>1. req[p].pc \in {"issue", "drop"} => req[p].sid \in SessionIds
    BY DEF IInv, Typed, RequestsSound, RequestSound, HoldsSession
  <2> QED
    BY <2>1 DEF Abort, IInv, Typed
<1>3. UNCHANGED <<registered, password, revocations, markers, tokens, clock, usedIds, loggedOut>>
  BY DEF Abort
<1>4. TokensSound'
  BY <1>3, TokensKept DEF IInv, Typed
<1>5. CASE req[p].pc # "sweep"
  BY <1>2, <1>3, <1>4, <1>5, EndedIInv DEF Abort, IInv, Typed
<1>6. CASE req[p].pc = "sweep"
  <2>1. Settle(p)
    BY <1>6 DEF Abort
  <2>2. settled' \in [Users -> Nat] /\ AllSwept'
    BY <1>1, <1>3, <1>6, <2>1, SettleSound
  <2>3. Typed'
    <3>1. req' \in [Slots -> Request]
      BY <1>1 DEF IInv, Typed, Request
    <3> QED
      BY <1>2, <1>3, <1>6, <2>2, <3>1, MissLeaves DEF IInv, Typed
  <2>4. PasswordsGrow
    BY <1>3 DEF IInv, Typed, PasswordsGrow
  <2>5. RequestsSound'
    <3>1. \A k \in usedIds : sessions'[k] # None =>
            sessions[k] # None /\ sessions'[k].user = sessions[k].user
      BY <1>6, MissLeaves DEF IInv, Typed
    <3>2. ASSUME NEW o \in Slots \ {p} PROVE RequestSound(o)'
      BY <1>1, <1>3, <2>4, <3>1, RequestKept
    <3> QED
      BY <1>1, <3>2, IdleSound DEF RequestsSound
  <2>6. SessionsSound'
    <3> SUFFICES ASSUME NEW i \in SessionIds, sessions'[i] # None PROVE SessionSound(i)'
      BY DEF SessionsSound, SessionSound
    <3>1. /\ sessions[i] # None
          /\ sessions'[i].user = sessions[i].user
          /\ sessions'[i].pw = sessions[i].pw
          /\ sessions'[i].api = sessions[i].api
      BY <1>6, MissLeaves
    <3>2. ASSUME ~ sessions'[i].missed
          PROVE  /\ ~ sessions[i].missed
                 /\ req[p].user # sessions[i].user \/ req[p].sid = i
      BY <1>6, <3>2, MissLeaves
    <3>3. Serving(i) => Serving(i)'
      BY <1>1, <1>6 DEF Serving
    <3> QED
      BY <1>1, <1>2, <1>3, <3>1, <3>2, <3>3, SessionsCarried
  <2> QED
    BY <1>4, <2>2, <2>3, <2>5, <2>6 DEF IInv
<1> QED
  BY <1>5, <1>6

LEMMA PurgeSessionsIInv == ASSUME IInv, PurgeSessions PROVE IInv'
<1> USE DEF ghosts
<1>1. PasswordsGrow /\ SessionsOnlyEnd /\ SweepsGoOn
  BY DEF PurgeSessions, IInv, Typed, PasswordsGrow, SessionsOnlyEnd, SweepsGoOn
<1>2. Typed'
  BY DEF PurgeSessions, IInv, Typed
<1>3. ASSUME NEW o \in Slots PROVE RequestSound(o)'
  <2>1. \A k \in usedIds : sessions'[k] # None =>
          sessions[k] # None /\ sessions'[k].user = sessions[k].user
    BY <1>1 DEF IInv, Typed, SessionsOnlyEnd
  <2> QED
    BY <1>1, <2>1, RequestKept DEF PurgeSessions
<1>4. SessionsSound'
  <2>1. \A i \in SessionIds : Serving(i) => Serving(i)'
    BY DEF PurgeSessions, Serving
  <2> QED
    BY <1>1, <2>1, SessionsKept DEF PurgeSessions
<1>5. TokensSound'
  BY TokensKept DEF PurgeSessions, IInv, Typed
<1>6. AllSwept'
  BY <1>1, SweptKept DEF PurgeSessions
<1> QED
  BY <1>2, <1>3, <1>4, <1>5, <1>6 DEF IInv, RequestsSound

(* What changes neither rows nor requests. *)
LEMMA QuietIInv ==
    ASSUME IInv, UNCHANGED <<registered, password, sessions, tokens, req, ghosts>>,
           markers' \in SUBSET Marker, revocations' \in SUBSET Revocation, clock' \in Nat,
           TokensSound'
    PROVE  IInv'
<1> USE DEF ghosts
<1>1. Typed'
  BY DEF IInv, Typed
<1>2. RequestsSound'
  BY DEF IInv, RequestsSound, RequestSound
<1>3. SessionsSound'
  BY DEF IInv, SessionsSound, SessionSound, Serving, Pending
<1>4. AllSwept'
  BY DEF IInv, AllSwept, SweptSound, Sweeping
<1> QED
  BY <1>1, <1>2, <1>3, <1>4 DEF IInv

LEMMA PurgeRevocationsIInv == ASSUME IInv, PurgeRevocations PROVE IInv'
<1> USE DEF ghosts
<1>1. ASSUME NEW r \in revocations' PROVE RevocationSound(r)'
  BY DEF PurgeRevocations, IInv, TokensSound, RevocationSound
<1>2. ASSUME NEW j \in loggedOut' PROVE LogoutSound(j)'
  <2>1. j \in Jtis /\ LogoutSound(j)
    BY DEF PurgeRevocations, IInv, Typed, TokensSound
  <2>2. ASSUME Parse(j)' PROVE IsRevoked(j)'
    <3>1. Parse(j) /\ tokens[j] \in Token
      BY <2>1, <2>2 DEF PurgeRevocations, Parse, IInv, Typed
    <3>2. PICK r \in revocations : r.jti = j
      BY <2>1, <3>1 DEF LogoutSound, IsRevoked
    <3>3. r.expires = tokens[j].expires
      BY <3>2 DEF IInv, TokensSound, RevocationSound
    <3>4. ~ r.expires <= clock
      BY <3>1, <3>3 DEF Parse, Token, IInv, Typed
    <3> QED
      BY <3>2, <3>4 DEF PurgeRevocations, PurgeableRevocations, IsRevoked
  <2> QED
    BY <2>1, <2>2 DEF PurgeRevocations, LogoutSound
<1>3. TokensSound'
  BY <1>1, <1>2 DEF TokensSound
<1> QED
  BY <1>3, QuietIInv DEF PurgeRevocations, PurgeableRevocations, IInv, Typed

LEMMA TickIInv == ASSUME IInv, Tick PROVE IInv'
<1> USE DEF tables, ghosts
<1>1. TokensSound'
  BY TokensKept DEF Tick, IInv, Typed
<1> QED
  BY <1>1, QuietIInv DEF Tick, IInv, Typed

LEMMA NextIInv == IInv /\ [Next]_vars => IInv'
<1> SUFFICES ASSUME IInv, [Next]_vars PROVE IInv'
  OBVIOUS
<1>1. ASSUME NEW p \in Slots, Register(p) \/ Login(p) PROVE IInv'
  <2>1. PICK u \in Users, isApi \in BOOLEAN : StartLogin(p, u, isApi)
    BY <1>1 DEF Register, Login, IInv, Typed
  <2>2. /\ req[p] = IdleReq /\ registered' \in SUBSET Users
        /\ UNCHANGED <<password, sessions, revocations, markers, tokens, clock, ghosts>>
    BY <1>1 DEF Register, Login, tables, IInv, Typed
  <2> QED
    BY <2>1, <2>2, StartLoginIInv
<1>2. ASSUME NEW p \in Slots, LoginFind(p) \/ LoginCreate(p) \/ ApiIssue(p) \/ WebRequest(p)
      PROVE  IInv'
  BY <1>2, LoginFindIInv, LoginCreateIInv, ApiIssueIInv, WebRequestIInv
<1>3. ASSUME NEW p \in Slots, ApiDrop(p) \/ DeleteSession(p) PROVE IInv'
  BY <1>3, DeleteIInv DEF ApiDrop, DeleteSession
<1>4. ASSUME NEW p \in Slots,
             ChangeRead(p) \/ ChangeUpdate(p) \/ ChangeSweep(p) \/ ChangeMark(p)
      PROVE  IInv'
  BY <1>4, ChangeReadIInv, ChangeUpdateIInv, ChangeSweepIInv, ChangeMarkIInv
<1>5. ASSUME NEW p \in Slots, ApiLogout(p) \/ ApiRevoke(p) \/ Abort(p) PROVE IInv'
  BY <1>5, ApiLogoutIInv, ApiRevokeIInv, AbortIInv
<1>6. CASE PurgeSessions \/ PurgeRevocations \/ Tick
  BY <1>6, PurgeSessionsIInv, PurgeRevocationsIInv, TickIInv
<1>7. CASE UNCHANGED vars
  <2>1. UNCHANGED <<registered, password, sessions, revocations, markers, tokens, clock, req,
                    ghosts>>
    BY <1>7 DEF vars, tables
  <2>2. TokensSound'
    BY <2>1, TokensKept DEF ghosts, IInv, Typed
  <2> QED
    BY <2>1, <2>2, QuietIInv DEF IInv, Typed
<1> QED
  BY <1>1, <1>2, <1>3, <1>4, <1>5, <1>6, <1>7 DEF Next

(* The inductive invariant holds in every reachable state: the rows of     *)
(* sessions and revocations agree with the requests in flight.             *)
THEOREM AuthInvariant == Spec => []IInv
  BY InitIInv, NextIInv, PTL DEF Spec

(***************************************************************************)
(* Everything is kept for registered users.                                *)
(***************************************************************************)
LEMMA KeysKept ==
    ASSUME ForeignKeys, registered \subseteq registered',
           \A i \in SessionIds : sessions'[i] # None =>
               \/ sessions[i] # None /\ sessions'[i].user = sessions[i].user
               \/ sessions'[i].user \in registered,
           \A j \in Jtis : tokens'[j] # None =>
               tokens'[j] = tokens[j] \/ tokens'[j].user \in registered,
           \A m \in markers' : m \in markers \/ m.user \in registered,
           \A p \in Slots :
               \/ req'[p] = req[p]
               \/ req'[p].pc \in {"idle", "find", "extract"}
               \/ req'[p].user \in registered
    PROVE  ForeignKeys'
  BY DEF ForeignKeys

LEMMA KeysStep == ASSUME IInv, ForeignKeys, [Next]_vars PROVE ForeignKeys'
<1>1. ASSUME NEW p \in Slots,
             \/ Register(p) \/ Login(p) \/ LoginFind(p) \/ WebRequest(p) \/ ApiDrop(p)
             \/ DeleteSession(p) \/ ChangeRead(p) \/ ApiLogout(p) \/ ApiRevoke(p)
      PROVE  ForeignKeys'
  <2>1. /\ SessionsOnlyEnd /\ UNCHANGED <<tokens, markers>> /\ registered \subseteq registered'
        /\ \A o \in Slots \ {p} : req'[o] = req[o]
    <3>1. CASE Register(p) \/ Login(p) \/ LoginFind(p)
      BY <3>1 DEF Register, Login, StartLogin, LoginFind, Done, tables, SessionsOnlyEnd, IInv, Typed
    <3>2. CASE WebRequest(p) \/ ChangeRead(p) \/ ApiLogout(p)
      BY <3>2 DEF WebRequest, ChangeRead, ApiLogout, tables, SessionsOnlyEnd, IInv, Typed
    <3>3. CASE ApiDrop(p) \/ DeleteSession(p) \/ ApiRevoke(p)
      BY <3>3 DEF ApiDrop, DeleteSession, ApiRevoke, Done, SessionsOnlyEnd, IInv, Typed
    <3> QED
      BY <1>1, <3>1, <3>2, <3>3
  <2>2. req'[p].pc \in {"idle", "find", "extract"} \/ req'[p].user \in registered
    <3>1. CASE Register(p) \/ Login(p)
      BY <3>1 DEF Register, Login, StartLogin, IInv, Typed
    <3>2. CASE LoginFind(p)
      <4>1. req[p] \in LoginReq
        BY <3>2, RequestKinds DEF LoginFind, IInv, Typed
      <4> QED
        BY <3>2, <4>1 DEF LoginFind, LoginReq, Done, IdleReq, IInv, Typed
    <3>3. CASE WebRequest(p)
      <4>1. PICK i \in SessionIds, pc \in {"logout", "read", "expire"} :
              /\ sessions[i] # None
              /\ req' = [req EXCEPT ![p] =
                           [pc |-> pc, user |-> sessions[i].user, sid |-> i, pw |-> 0, at |-> 0]]
        BY <3>3 DEF WebRequest
      <4> QED
        BY <4>1 DEF ForeignKeys, IInv, Typed
    <3>4. CASE ChangeRead(p)
      <4>1. req[p] \in WebReq
        BY <3>4, RequestKinds DEF ChangeRead, IInv, Typed
      <4> QED
        BY <3>4, <4>1 DEF ChangeRead, WebReq, ForeignKeys, IInv, Typed
    <3>5. CASE ApiLogout(p)
      BY <3>5 DEF ApiLogout, IInv, Typed
    <3>6. CASE ApiDrop(p) \/ DeleteSession(p) \/ ApiRevoke(p)
      BY <3>6 DEF ApiDrop, DeleteSession, ApiRevoke, Done, IdleReq, IInv, Typed
    <3> QED
      BY <1>1, <3>1, <3>2, <3>3, <3>4, <3>5, <3>6
  <2> QED
    BY <2>1, <2>2, KeysKept DEF SessionsOnlyEnd
<1>2. ASSUME NEW p \in Slots, LoginCreate(p) PROVE ForeignKeys'
  <2>1. req[p] \in LoginReq /\ req[p].pc = "create" /\ req[p].user \in registered
    BY <1>2, RequestKinds DEF LoginCreate, ForeignKeys, IInv, Typed
  <2>2. PICK i \in SessionIds :
          /\ sessions' = [sessions EXCEPT ![i] = NewSession(req[p])]
          /\ IF req[p].api THEN req' = [req EXCEPT ![p].pc = "issue", ![p].sid = i] ELSE Done(p)
    BY <1>2 DEF LoginCreate
  <2>3. /\ sessions'[i].user = req[p].user
        /\ \A k \in SessionIds \ {i} : sessions'[k] = sessions[k]
    BY <2>2 DEF NewSession, IInv, Typed
  <2>4. /\ req'[p].pc = "idle" \/ req'[p].user = req[p].user
        /\ \A o \in Slots \ {p} : req'[o] = req[o]
    BY <2>1, <2>2 DEF Done, IdleReq, LoginReq, IInv, Typed
  <2> QED
    BY <1>2, <2>1, <2>3, <2>4, KeysKept DEF LoginCreate
<1>3. ASSUME NEW p \in Slots, ApiIssue(p) PROVE ForeignKeys'
  <2>1. req[p] \in LoginReq /\ req[p].user \in registered
    BY <1>3, RequestKinds DEF ApiIssue, ForeignKeys, IInv, Typed
  <2>2. PICK j \in Jtis : tokens' = [tokens EXCEPT ![j] = Sign(req[p].user, req[p].pw)]
    BY <1>3 DEF ApiIssue
  <2>3. \A k \in Jtis : tokens'[k] = tokens[k] \/ tokens'[k].user = req[p].user
    BY <2>2 DEF Sign, IInv, Typed
  <2>4. req'[p].user = req[p].user /\ \A o \in Slots \ {p} : req'[o] = req[o]
    BY <1>3, <2>1 DEF ApiIssue, LoginReq, IInv, Typed
  <2> QED
    BY <1>3, <2>1, <2>3, <2>4, KeysKept DEF ApiIssue, tables
<1>4. ASSUME NEW p \in Slots, ChangeUpdate(p) PROVE ForeignKeys'
  <2>1. req[p] \in WebReq /\ req[p].user \in registered
    BY <1>4, UpdateLeaves DEF ChangeUpdate, ForeignKeys
  <2>2. req'[p].user = req[p].user /\ \A o \in Slots \ {p} : req'[o] = req[o]
    BY <1>4, <2>1 DEF ChangeUpdate, WebReq, IInv, Typed
  <2> QED
    BY <1>4, <2>1, <2>2, UpdateLeaves, KeysKept DEF ChangeUpdate
<1>5. ASSUME NEW p \in Slots, ChangeSweep(p) PROVE ForeignKeys'
  <2>1. req[p] \in WebReq /\ req[p].user \in registered
    BY <1>5, RequestKinds DEF ChangeSweep, ForeignKeys, IInv, Typed
  <2>2. req'[p].user = req[p].user /\ \A o \in Slots \ {p} : req'[o] = req[o]
    BY <1>5, <2>1 DEF ChangeSweep, WebReq, IInv, Typed
  <2> QED
    BY <1>5, <2>1, <2>2, SweepLeaves, KeysKept DEF ChangeSweep, SessionsOnlyEnd
<1>6. ASSUME NEW p \in Slots, ChangeMark(p) PROVE ForeignKeys'
  <2>1. req[p].user \in registered
    BY <1>6 DEF ChangeMark, ForeignKeys
  <2>2. req'[p].pc = "idle" /\ \A o \in Slots \ {p} : req'[o] = req[o]
    BY <1>6 DEF ChangeMark, Done, IdleReq, IInv, Typed
  <2>3. \A m \in markers' : m \in markers \/ m.user = req[p].user
    BY <1>6 DEF ChangeMark
  <2> QED
    BY <1>6, <2>1, <2>2, <2>3, KeysKept DEF ChangeMark
<1>7. ASSUME NEW p \in Slots, Abort(p) PROVE ForeignKeys'
  <2>1. req'[p].pc = "idle" /\ \A o \in Slots \ {p} : req'[o] = req[o]
    BY <1>7 DEF Abort, Done, IdleReq, IInv, Typed
  <2>2. \A i \in SessionIds : sessions'[i] # None =>
          sessions[i] # None /\ sessions'[i].user = sessions[i].user
    <3>1. CASE req[p].pc = "sweep"
      BY <1>7, <3>1, MissLeaves
    <3>2. CASE req[p].pc # "sweep"
      BY <1>7, <3>2 DEF Abort
    <3> QED
      BY <3>1, <3>2
  <2> QED
    BY <1>7, <2>1, <2>2, KeysKept DEF Abort
<1>8. CASE PurgeSessions \/ PurgeRevocations \/ Tick \/ UNCHANGED vars
  <2>1. SessionsOnlyEnd /\ UNCHANGED <<registered, tokens, req>> /\ markers' \subseteq markers
    BY <1>8 DEF PurgeSessions, PurgeRevocations, Tick, vars, tables, SessionsOnlyEnd, IInv, Typed
  <2> QED
    BY <2>1, KeysKept DEF SessionsOnlyEnd
<1> QED
  BY <1>1, <1>2, <1>3, <1>4, <1>5, <1>6, <1>7, <1>8 DEF Next

(* The tables, the tokens and the requests in flight have their types, and *)
(* nothing is stored, signed or done for a user without a row.             *)
THEOREM AuthTypeCorrect == Spec => []TypeOK
<1>1. Init => ForeignKeys
  BY DEF Init, ForeignKeys, IdleReq
<1>2. IInv /\ ForeignKeys /\ [Next]_vars => ForeignKeys'
  BY KeysStep
<1>3. IInv /\ ForeignKeys => TypeOK
  BY DEF IInv, TypeOK
<1> QED
  BY <1>1, <1>2, <1>3, AuthInvariant, PTL DEF Spec

(* A token that was logged out is never accepted again, whatever the       *)
(* purges of jwt_revocations delete.                                       *)
THEOREM LogoutIsFinal == Spec => []LoggedOutRejected
<1>1. IInv => LoggedOutRejected
  BY DEF IInv, TokensSound, LogoutSound, LoggedOutRejected, VerifyToken
<1> QED
  BY <1>1, AuthInvariant, PTL

LEMMA SweptAll == ASSUME IInv PROVE ChangeEndsSessions
<1> SUFFICES ASSUME NEW i \in SessionIds, sessions[i] # None, ~ sessions[i].missed,
                    ~ ChangedFromAnother(sessions[i].user, i)
             PROVE  sessions[i].pw = password[sessions[i].user]
  BY DEF ChangeEndsSessions
<1> DEFINE u == sessions[i].user
<1>1. SessionSound(i) /\ sessions[i].pw \in Nat /\ password[u] \in Nat
  BY DEF IInv, Typed, Session, SessionsSound
<1>2. ASSUME sessions[i].pw < password[u] PROVE FALSE
  <2>1. Pending(u, password[u], i)
    BY <1>1, <1>2 DEF SessionSound
  <2> QED
    BY <2>1 DEF Pending, ChangedFromAnother
<1> QED
  BY <1>1, <1>2 DEF SessionSound

(* However changes and logins overlap, and wherever they fail: a session   *)
(* whose holder does not know the stored password is one that a change in  *)
(* flight has still to delete, or one that the deletion of a change missed *)
(* because it was inserted after it or because the deletion failed.        *)
THEOREM ChangeIsComplete == Spec => []ChangeEndsSessions
  BY AuthInvariant, SweptAll, PTL

(* The session that an API login opens is gone when the login is over,     *)
(* unless this login failed before it ended it; no other failure keeps it. *)
THEOREM ApiLoginsEndTheirSessions == Spec => []ApiLoginLeavesNoSession
<1>1. IInv => ApiLoginLeavesNoSession
  BY DEF IInv, SessionsSound, SessionSound, Serving, ApiLoginLeavesNoSession
<1> QED
  BY <1>1, AuthInvariant, PTL

(* A session that is no longer stored had expired, or a request of its own *)
(* user ended it: a logout, the end of an API login or a password change.  *)
THEOREM SessionsEndedByOwners == Spec => OnlyOwnerEndsSession
<1>1. IInv /\ [Next]_vars => [SessionEndedByOwner]_vars
  <2> SUFFICES ASSUME IInv, Next, NEW i \in SessionIds, sessions[i] # None, sessions'[i] = None
               PROVE  \/ IsExpired(sessions[i])
                      \/ \E p \in Slots : req'[p] # req[p] /\ req[p].user = sessions[i].user
    BY DEF SessionEndedByOwner
  <2>1. ASSUME NEW p \in Slots, LoginCreate(p) PROVE FALSE
    <3>1. i \in usedIds
      BY DEF IInv, SessionsSound, SessionSound
    <3>2. PICK k \in SessionIds \ usedIds : sessions' = [sessions EXCEPT ![k] = NewSession(req[p])]
      BY <2>1 DEF LoginCreate
    <3>3. sessions'[i] = sessions[i]
      BY <3>1, <3>2 DEF IInv, Typed
    <3> QED
      BY <3>3
  <2>2. ASSUME NEW p \in Slots, ApiDrop(p) \/ DeleteSession(p)
        PROVE  req'[p] # req[p] /\ req[p].user = sessions[i].user
    <3>1. req[p].sid = i /\ req[p].pc \in {"drop", "expire", "logout"}
      BY <2>2 DEF ApiDrop, DeleteSession, IInv, Typed
    <3>2. req'[p] = IdleReq
      BY <2>2 DEF ApiDrop, DeleteSession, Done, IInv, Typed
    <3> QED
      BY <3>1, <3>2 DEF IdleReq, IInv, RequestsSound, RequestSound, HoldsSession
  <2>3. ASSUME NEW p \in Slots, ChangeSweep(p)
        PROVE  req'[p] # req[p] /\ req[p].user = sessions[i].user
    <3>1. i \in OtherSessions(req[p].user, req[p].sid)
      BY <2>3 DEF ChangeSweep
    <3>2. req'[p].pc = "mark" /\ req[p].pc = "sweep"
      <4>1. req' = [req EXCEPT ![p].pc = "mark"] /\ req[p] \in WebReq /\ req[p].pc = "sweep"
        BY <2>3, RequestKinds DEF ChangeSweep, IInv, Typed
      <4> QED
        BY <4>1 DEF WebReq, IInv, Typed
    <3> QED
      BY <3>1, <3>2 DEF OtherSessions
  <2>4. CASE PurgeSessions
    BY <2>4 DEF PurgeSessions, IInv, Typed
  <2>5. ASSUME \/ PurgeRevocations \/ Tick
               \/ \E p \in Slots :
                     \/ Register(p) \/ Login(p) \/ LoginFind(p) \/ ApiIssue(p) \/ WebRequest(p)
                     \/ ChangeRead(p) \/ ChangeMark(p) \/ ApiLogout(p) \/ ApiRevoke(p)
        PROVE  FALSE
    <3>1. UNCHANGED sessions
      BY <2>5 DEF PurgeRevocations, Tick, Register, Login, LoginFind, ApiIssue, WebRequest,
                  ChangeRead, ChangeMark, ApiLogout, ApiRevoke, tables
    <3> QED
      BY <3>1
  <2>6. ASSUME NEW p \in Slots, ChangeUpdate(p) PROVE FALSE
    BY <2>6, UpdateLeaves
  <2>7. ASSUME NEW p \in Slots, Abort(p) PROVE FALSE
    <3>1. CASE req[p].pc = "sweep"
      BY <2>7, <3>1, MissLeaves
    <3>2. CASE req[p].pc # "sweep"
      BY <2>7, <3>2 DEF Abort
    <3> QED
      BY <3>1, <3>2
  <2> QED
    BY <2>1, <2>2, <2>3, <2>4, <2>5, <2>6, <2>7 DEF Next
<1> QED
  BY <1>1, AuthInvariant, PTL DEF Spec, OnlyOwnerEndsSession

(***************************************************************************)
(* Session ids and tokens as credentials.                                  *)
(***************************************************************************)
RowsStay ==
    \A i \in SessionIds : sessions'[i] # None =>
        /\ sessions[i] # None
        /\ sessions'[i].user = sessions[i].user
        /\ sessions'[i].expires = sessions[i].expires

LEMMA SessionsMayEnd ==
    ASSUME IInv, RowsStay, UNCHANGED usedIds, clock' \in Nat, clock <= clock'
    PROVE  SessionTable!Next
<1> DEFINE ended == {i \in SessionIds : SessionUser'[i] # SessionUser[i]}
<1>1. ASSUME NEW i \in SessionIds PROVE SessionUser'[i] \in {SessionUser[i], None}
  <2>1. SessionAccepted(i)' => SessionAccepted(i)
    BY DEF RowsStay, SessionAccepted, IsExpired, IInv, Typed, Session
  <2> QED
    BY <2>1 DEF SessionUser, RowsStay, SessionAccepted
<1>2. SessionUser' = [i \in SessionIds |-> IF i \in ended THEN None ELSE SessionUser[i]]
  BY <1>1 DEF SessionUser
<1>3. ended \in SUBSET SessionIds
  OBVIOUS
<1> HIDE DEF ended
<1>4. SessionTable!End(ended)
  BY <1>2 DEF SessionTable!End
<1> QED
  BY <1>3, <1>4 DEF SessionTable!Next

LEMMA SessionIsIssued == ASSUME IInv, NEW p \in Slots, LoginCreate(p) PROVE SessionTable!Next
<1>1. PICK i \in SessionIds \ usedIds :
        sessions' = [sessions EXCEPT ![i] = NewSession(req[p])] /\ usedIds' = usedIds \cup {i}
  BY DEF LoginCreate
<1>2. clock' = clock /\ req[p].user \in Users
  BY RequestKinds DEF LoginCreate, IInv, Typed, LoginReq
<1>3. sessions'[i].user = req[p].user /\ \A k \in SessionIds \ {i} : sessions'[k] = sessions[k]
  BY <1>1 DEF NewSession, IInv, Typed
<1>4. SessionUser'[i] \in Users \cup {None}
  BY <1>2, <1>3 DEF SessionUser
<1>5. ASSUME NEW k \in SessionIds \ {i} PROVE SessionUser'[k] = SessionUser[k]
  BY <1>2, <1>3 DEF SessionUser, SessionAccepted, IsExpired
<1>6. SessionUser' = [SessionUser EXCEPT ![i] = SessionUser'[i]]
  BY <1>5 DEF SessionUser
<1>7. SessionTable!Issue(i, SessionUser'[i])
  BY <1>1, <1>6 DEF SessionTable!Issue
<1> QED
  BY <1>4, <1>7 DEF SessionTable!Next

LEMMA SessionStep == ASSUME IInv, [Next]_vars PROVE SessionTable!Next
<1>1. ASSUME NEW p \in Slots, LoginCreate(p) PROVE SessionTable!Next
  BY <1>1, SessionIsIssued
<1>2. ASSUME NEW p \in Slots, ApiDrop(p) \/ DeleteSession(p) PROVE SessionTable!Next
  <2>1. RowsStay
    BY <1>2 DEF ApiDrop, DeleteSession, RowsStay, IInv, Typed
  <2> QED
    BY <1>2, <2>1, SessionsMayEnd DEF ApiDrop, DeleteSession, ghosts, IInv, Typed
<1>3. ASSUME NEW p \in Slots, ChangeUpdate(p) \/ ChangeSweep(p) \/ Abort(p)
      PROVE  SessionTable!Next
  <2>1. RowsStay
    <3>1. CASE ChangeUpdate(p)
      BY <3>1, UpdateLeaves DEF RowsStay
    <3>2. CASE ChangeSweep(p)
      BY <3>2, SweepLeaves DEF RowsStay, SessionsOnlyEnd
    <3>3. CASE Abort(p) /\ req[p].pc = "sweep"
      BY <3>3, MissLeaves DEF RowsStay
    <3>4. CASE Abort(p) /\ req[p].pc # "sweep"
      BY <3>4 DEF Abort, RowsStay
    <3> QED
      BY <1>3, <3>1, <3>2, <3>3, <3>4
  <2>2. UNCHANGED <<usedIds, clock>>
    BY <1>3 DEF ChangeUpdate, ChangeSweep, Abort, ghosts
  <2> QED
    BY <2>1, <2>2, SessionsMayEnd DEF IInv, Typed
<1>4. CASE PurgeSessions
  <2>1. RowsStay
    BY <1>4 DEF PurgeSessions, RowsStay, IInv, Typed
  <2> QED
    BY <1>4, <2>1, SessionsMayEnd DEF PurgeSessions, ghosts, IInv, Typed
<1>5. ASSUME UNCHANGED <<sessions, usedIds>>, clock' \in Nat, clock <= clock'
      PROVE  SessionTable!Next
  BY <1>5, SessionsMayEnd DEF RowsStay
<1>6. CASE Tick
  BY <1>5, <1>6 DEF Tick, tables, ghosts, IInv, Typed
<1>7. ASSUME \/ PurgeRevocations \/ UNCHANGED vars
             \/ \E p \in Slots :
                   \/ Register(p) \/ Login(p) \/ LoginFind(p) \/ ApiIssue(p) \/ WebRequest(p)
                   \/ ChangeRead(p) \/ ChangeMark(p) \/ ApiLogout(p) \/ ApiRevoke(p)
      PROVE  SessionTable!Next
  <2>1. UNCHANGED <<sessions, usedIds, clock>>
    BY <1>7 DEF PurgeRevocations, Register, Login, LoginFind, ApiIssue, WebRequest, ChangeRead,
                ChangeMark, ApiLogout, ApiRevoke, tables, ghosts, vars
  <2> QED
    BY <1>5, <2>1 DEF IInv, Typed
<1> QED
  BY <1>1, <1>2, <1>3, <1>4, <1>6, <1>7 DEF Next

(* A session id is accepted for the user who logged in and for nobody else *)
(* until it ends, and never after: for any number of overlapping requests, *)
(* with failures, purges and expiry.                                       *)
THEOREM SessionIdsAreCredentials == Spec => SessionsAreCredentials
<1>1. Init => SessionTable!Init
  BY DEF Init, SessionTable!Init, SessionUser, SessionAccepted
<1>2. IInv /\ [Next]_vars => [SessionTable!Next]_(SessionTable!vars)
  BY SessionStep
<1> QED
  BY <1>1, <1>2, AuthInvariant, PTL DEF Spec, SessionsAreCredentials, SessionTable!Spec

LEMMA TokensMayEnd ==
    ASSUME IInv, UNCHANGED tokens, \A j \in Jtis : VerifyToken(j)' => VerifyToken(j)
    PROVE  TokenTable!Next
<1> DEFINE ended == {j \in Jtis : TokenUser'[j] # TokenUser[j]}
<1>1. ASSUME NEW j \in Jtis PROVE TokenUser'[j] \in {TokenUser[j], None}
  BY DEF TokenUser
<1>2. TokenUser' = [j \in Jtis |-> IF j \in ended THEN None ELSE TokenUser[j]]
  BY <1>1 DEF TokenUser
<1>3. ended \in SUBSET Jtis
  OBVIOUS
<1> HIDE DEF ended
<1>4. TokenTable!End(ended)
  BY <1>2 DEF TokenTable!End
<1> QED
  BY <1>3, <1>4 DEF TokenTable!Next

LEMMA TokenIsIssued == ASSUME IInv, NEW p \in Slots, ApiIssue(p) PROVE TokenTable!Next
<1>1. req[p].user \in Users /\ req[p].pw \in Nat
  BY RequestKinds DEF ApiIssue, IInv, Typed, LoginReq
<1>2. PICK j \in Jtis :
        tokens[j] = None /\ tokens' = [tokens EXCEPT ![j] = Sign(req[p].user, req[p].pw)]
  BY DEF ApiIssue
<1>3. Sign(req[p].user, req[p].pw) \in Token
  BY <1>1, AuthAssumption DEF Sign, Token, IInv, Typed
<1>4. /\ tokens'[j].user = req[p].user /\ tokens'[j] # None
      /\ \A k \in Jtis \ {j} : tokens'[k] = tokens[k]
  BY <1>2, <1>3, AuthAssumption DEF Sign, IInv, Typed
<1> DEFINE w == TokenUser'[j]
<1>5. w \in Users \cup {None}
  BY <1>1, <1>4 DEF TokenUser
<1>6. ASSUME NEW k \in Jtis \ {j} PROVE TokenUser'[k] = TokenUser[k]
  BY <1>4 DEF ApiIssue, tables, TokenUser, VerifyToken, Parse, IsRevoked
<1>7. TokenUser' = [TokenUser EXCEPT ![j] = w]
  BY <1>6 DEF TokenUser
<1> HIDE DEF w
<1>8. {k \in Jtis : tokens'[k] = None} = {k \in Jtis : tokens[k] = None} \ {j}
  BY <1>4
<1>9. \E i \in Jtis, user \in Users \cup {None} : TokenTable!Issue(i, user)
  BY <1>2, <1>5, <1>7, <1>8 DEF TokenTable!Issue
<1> QED
  BY <1>9 DEF TokenTable!Next

LEMMA TokenStep == ASSUME IInv, [Next]_vars PROVE TokenTable!Next
<1>1. ASSUME NEW p \in Slots, ApiIssue(p) PROVE TokenTable!Next
  BY <1>1, TokenIsIssued
<1>2. ASSUME NEW p \in Slots, ApiRevoke(p) PROVE TokenTable!Next
  <2> DEFINE j == req[p].jti
  <2>1. UNCHANGED <<tokens, clock>>
    BY <1>2 DEF ApiRevoke
  <2>2. ASSUME NEW k \in Jtis, IsRevoked(k) PROVE IsRevoked(k)'
    <3>1. CASE ~ Parse(j)
      BY <1>2, <2>2, <3>1 DEF ApiRevoke, IsRevoked
    <3>2. CASE Parse(j)
      <4>1. revocations' = {r \in revocations : r.jti # j} \cup {RevocationOf(j)}
        BY <1>2, <3>2 DEF ApiRevoke
      <4>2. RevocationOf(j).jti = j
        BY DEF RevocationOf
      <4> QED
        BY <2>2, <4>1, <4>2 DEF IsRevoked
    <3> QED
      BY <3>1, <3>2
  <2> QED
    BY <2>1, <2>2, TokensMayEnd DEF VerifyToken, Parse
<1>3. CASE PurgeRevocations
  <2>1. UNCHANGED <<tokens, clock>>
    BY <1>3 DEF PurgeRevocations
  <2>2. ASSUME NEW j \in Jtis, Parse(j), IsRevoked(j) PROVE IsRevoked(j)'
    <3>1. PICK r \in revocations : r.jti = j
      BY <2>2 DEF IsRevoked
    <3>2. r.expires = tokens[j].expires /\ tokens[j] \in Token
      BY <2>2, <3>1 DEF IInv, TokensSound, RevocationSound, Parse, Typed
    <3>3. ~ r.expires <= clock
      BY <2>2, <3>2 DEF Parse, Token, IInv, Typed
    <3> QED
      BY <1>3, <3>1, <3>3 DEF PurgeRevocations, PurgeableRevocations, IsRevoked
  <2> QED
    BY <2>1, <2>2, TokensMayEnd DEF VerifyToken, Parse
<1>4. CASE Tick
  <2>1. ASSUME NEW j \in Jtis PROVE VerifyToken(j)' => VerifyToken(j)
    BY <1>4 DEF Tick, tables, VerifyToken, Parse, IsRevoked, IInv, Typed, Token
  <2> QED
    BY <1>4, <2>1, TokensMayEnd DEF Tick
<1>5. ASSUME \/ UNCHANGED vars \/ PurgeSessions
             \/ \E p \in Slots :
                   \/ Register(p) \/ Login(p) \/ LoginFind(p) \/ LoginCreate(p) \/ WebRequest(p)
                   \/ ApiDrop(p) \/ DeleteSession(p) \/ ChangeSweep(p)
                   \/ ChangeRead(p) \/ ChangeUpdate(p) \/ ChangeMark(p)
                   \/ ApiLogout(p) \/ Abort(p)
      PROVE  TokenTable!Next
  <2>1. UNCHANGED <<tokens, revocations, clock>>
    BY <1>5 DEF PurgeSessions, Register, Login, LoginFind, LoginCreate, WebRequest, ApiDrop,
                DeleteSession, ChangeSweep, ChangeRead, ChangeUpdate, ChangeMark, ApiLogout,
                Abort, tables, vars
  <2> QED
    BY <2>1, TokensMayEnd DEF VerifyToken, Parse, IsRevoked
<1> QED
  BY <1>1, <1>2, <1>3, <1>4, <1>5 DEF Next

(* A token is accepted for the user it was issued to until it is logged    *)
(* out or expires, and never after, whatever is purged from the revocation *)
(* table and however often it is logged out.                               *)
THEOREM ApiTokensAreCredentials == Spec => TokensAreCredentials
<1>1. Init => TokenTable!Init
  BY DEF Init, TokenTable!Init, TokenUser, VerifyToken, Parse
<1>2. IInv /\ [Next]_vars => [TokenTable!Next]_(TokenTable!vars)
  BY TokenStep
<1> QED
  BY <1>1, <1>2, AuthInvariant, PTL DEF Spec, TokensAreCredentials, TokenTable!Spec

(***************************************************************************)
(* The account that users are promised, with requests that overlap and     *)
(* fail.                                                                   *)
(***************************************************************************)
Counts(i) ==
    /\ SessionAccepted(i)
    /\ ~ sessions[i].api
    /\ ~ sessions[i].missed
    /\ ~ ChangedFromAnother(sessions[i].user, i)

(* Every session that counts knows the password of this moment: there is   *)
(* no other way to keep one over a change.                                 *)
Shown ==
    \A i \in SessionIds :
        OpenSession(i) = IF Counts(i)
                         THEN [user |-> sessions[i].user, knows |-> password[sessions[i].user]]
                         ELSE None

LEMMA OpenIsShown == IInv => Shown
<1> SUFFICES ASSUME IInv, NEW i \in SessionIds, Counts(i)
             PROVE  sessions[i].pw = password[sessions[i].user]
  BY DEF Shown, OpenSession, Counts
<1> QED
  BY SweptAll DEF ChangeEndsSessions, Counts, SessionAccepted

LEMMA OpenIsShownNext == IInv' => Shown'
  BY OpenIsShown, PTL

(* A step in which some sessions end and nothing else is seen of accounts. *)
LEMMA AccountMayEnd ==
    ASSUME IInv, IInv', UNCHANGED password,
           \A i \in SessionIds :
               Counts(i)' => Counts(i) /\ sessions'[i].user = sessions[i].user
    PROVE  AccountOf!Next
<1> DEFINE ended == {i \in SessionIds : OpenSession(i)' # OpenSession(i)}
<1>1. \A i \in SessionIds : OpenSession(i)' \in {OpenSession(i), None}
  BY OpenIsShown, OpenIsShownNext DEF Shown
<1>2. [i \in SessionIds |-> OpenSession(i)'] =
        [i \in SessionIds |-> IF i \in ended THEN None ELSE OpenSession(i)]
  BY <1>1
<1>3. ended \in SUBSET SessionIds
  OBVIOUS
<1> HIDE DEF ended
<1>4. AccountOf!End(ended)
  BY <1>2 DEF AccountOf!End
<1> QED
  BY <1>3, <1>4 DEF AccountOf!Next

(* Rows only go, and a change that is to delete sessions stays in flight   *)
(* until it has, or is known to have missed them.                          *)
LEMMA CountsEnd ==
    ASSUME IInv, IInv', UNCHANGED password, RowsStay, clock <= clock',
           \A i \in SessionIds : sessions'[i] # None =>
               /\ sessions'[i].api = sessions[i].api
               /\ ~ sessions'[i].missed =>
                     /\ ~ sessions[i].missed
                     /\ ChangedFromAnother(sessions[i].user, i) =>
                           ChangedFromAnother(sessions[i].user, i)'
    PROVE  AccountOf!Next
<1>1. ASSUME NEW i \in SessionIds, Counts(i)'
      PROVE  Counts(i) /\ sessions'[i].user = sessions[i].user
  <2>1. sessions'[i] # None /\ clock' < sessions'[i].expires
        /\ ~ sessions'[i].api /\ ~ sessions'[i].missed
    BY <1>1 DEF Counts, SessionAccepted, IsExpired
  <2>2. /\ sessions[i] # None /\ sessions'[i].user = sessions[i].user
        /\ sessions'[i].expires = sessions[i].expires
    BY <2>1 DEF RowsStay
  <2>3. SessionAccepted(i)
    BY <2>1, <2>2 DEF SessionAccepted, IsExpired, IInv, Typed, Session
  <2>4. ~ ChangedFromAnother(sessions[i].user, i)
    <3>1. ~ ChangedFromAnother(sessions[i].user, i)'
      BY <1>1, <2>2 DEF Counts, ChangedFromAnother
    <3> QED
      BY <2>1, <3>1
  <2> QED
    BY <2>1, <2>2, <2>3, <2>4 DEF Counts
<1> QED
  BY <1>1, AccountMayEnd

(* Whoever has logged in, and was not overtaken by a change, knows the     *)
(* password of this moment.                                                *)
LEMMA LoginOpens ==
    ASSUME IInv, IInv', NEW p \in Slots, LoginCreate(p)
    PROVE  AccountOf!Next
<1> DEFINE u == req[p].user
<1>1. req[p] \in LoginReq /\ u \in Users /\ req[p].pc = "create"
  BY RequestKinds DEF LoginCreate, IInv, Typed, LoginReq
<1>2. PICK i \in SessionIds \ usedIds :
        /\ sessions' = [sessions EXCEPT ![i] = NewSession(req[p])]
        /\ IF req[p].api THEN req' = [req EXCEPT ![p].pc = "issue", ![p].sid = i] ELSE Done(p)
  BY DEF LoginCreate
<1>3. /\ sessions'[i].user = u
      /\ \A k \in SessionIds \ {i} : sessions'[k] = sessions[k]
      /\ sessions[i] = None
  BY <1>2 DEF NewSession, IInv, Typed, SessionsSound, SessionSound
<1>4. UNCHANGED <<password, clock>>
  BY DEF LoginCreate
<1>5. req'[p].pc # "sweep" /\ \A o \in Slots \ {p} : req'[o] = req[o]
  BY <1>1, <1>2 DEF Done, IdleReq, IInv, Typed, LoginReq
<1>6. \A v, k : ChangedFromAnother(v, k)' <=> ChangedFromAnother(v, k)
  BY <1>1, <1>5 DEF ChangedFromAnother
<1>7. ASSUME NEW k \in SessionIds \ {i}
      PROVE  (Counts(k)' <=> Counts(k)) /\ sessions'[k] = sessions[k]
  BY <1>3, <1>4, <1>6 DEF Counts, SessionAccepted, IsExpired
<1>8. ~ Counts(i)
  BY <1>3 DEF Counts, SessionAccepted
<1>9. CASE ~ Counts(i)'
  BY <1>4, <1>7, <1>9, AccountMayEnd
<1>10. CASE Counts(i)'
  <2>1. OpenSession(i) = None /\ OpenSession(i)' = [user |-> u, knows |-> password[u]]
    BY <1>3, <1>4, <1>8, <1>10, OpenIsShown, OpenIsShownNext DEF Shown
  <2>2. \A k \in SessionIds \ {i} : OpenSession(k)' = OpenSession(k)
    BY <1>4, <1>7, OpenIsShown, OpenIsShownNext DEF Shown
  <2>3. [k \in SessionIds |-> OpenSession(k)'] =
          [[k \in SessionIds |-> OpenSession(k)] EXCEPT ![i] = [user |-> u, knows |-> password[u]]]
    BY <2>1, <2>2
  <2>4. AccountOf!Open(u, i)
    BY <1>4, <2>1, <2>3 DEF AccountOf!Open
  <2> QED
    BY <1>1, <2>4 DEF AccountOf!Next
<1> QED
  BY <1>9, <1>10

(* The change of an account: at once, for all sessions of the user.        *)
LEMMA UpdateChanges ==
    ASSUME IInv, IInv', NEW p \in Slots, ChangeUpdate(p)
    PROVE  AccountOf!Next
<1> DEFINE u == req[p].user
           keep == req[p].sid
<1>1. req[p] \in WebReq /\ u \in Users /\ keep \in SessionIds /\ req[p].pc = "update"
  BY UpdateLeaves DEF ChangeUpdate
<1>2. /\ password' = [password EXCEPT ![u] = @ + 1]
      /\ password'[u] = password[u] + 1 /\ \A v \in Users \ {u} : password'[v] = password[v]
      /\ clock' = clock
  BY <1>1 DEF ChangeUpdate, IInv, Typed
<1>3. /\ req'[p].pc = "sweep" /\ req'[p].user = u /\ req'[p].sid = keep
      /\ \A o \in Slots \ {p} : req'[o] = req[o]
  BY <1>1 DEF ChangeUpdate, WebReq, IInv, Typed
<1>4. \A v, i : ChangedFromAnother(v, i)' <=> ChangedFromAnother(v, i) \/ (v = u /\ i # keep)
  BY <1>1, <1>3 DEF ChangedFromAnother
<1>5. ASSUME NEW i \in SessionIds
      PROVE  /\ Counts(i)' <=> Counts(i) /\ ~ (sessions[i].user = u /\ i # keep)
             /\ Counts(i) => sessions'[i].user = sessions[i].user
  <2>1. CASE sessions[i] = None
    BY <2>1, UpdateLeaves DEF Counts, SessionAccepted
  <2>2. CASE sessions[i] # None
    <3>1. /\ sessions'[i] # None /\ sessions'[i].user = sessions[i].user
          /\ sessions'[i].api = sessions[i].api /\ sessions'[i].missed = sessions[i].missed
          /\ sessions'[i].expires = sessions[i].expires
      BY <2>2, UpdateLeaves
    <3>2. SessionAccepted(i)' <=> SessionAccepted(i)
      BY <1>2, <2>2, <3>1 DEF SessionAccepted, IsExpired
    <3>3. ChangedFromAnother(sessions[i].user, i)'
            <=> ChangedFromAnother(sessions[i].user, i) \/ (sessions[i].user = u /\ i # keep)
      <4> PICK v : v = sessions[i].user
        OBVIOUS
      <4>1. ChangedFromAnother(v, i)' <=> ChangedFromAnother(v, i) \/ (v = u /\ i # keep)
        BY <1>4
      <4> QED
        BY <3>1, <4>1 DEF ChangedFromAnother
    <3> QED
      BY <2>2, <3>1, <3>2, <3>3 DEF Counts
  <2> QED
    BY <2>1, <2>2
<1>6. ASSUME NEW i \in SessionIds
      PROVE  OpenSession(i)' =
               IF i \notin AccountOf!SessionsOf(u) THEN OpenSession(i)
               ELSE IF i = keep THEN [user |-> u, knows |-> password[u] + 1] ELSE None
  <2>1. CASE ~ Counts(i)
    <3>1. OpenSession(i) = None /\ OpenSession(i)' = None
      BY <1>5, <2>1, OpenIsShown, OpenIsShownNext DEF Shown
    <3> QED
      BY <3>1 DEF AccountOf!SessionsOf
  <2>2. CASE Counts(i)
    <3>1. sessions[i].user \in Users /\ password[sessions[i].user] \in Nat
      BY <2>2 DEF Counts, SessionAccepted, IInv, Typed, Session
    <3>2. OpenSession(i) = [user |-> sessions[i].user, knows |-> password[sessions[i].user]]
      BY <2>2, OpenIsShown DEF Shown
    <3>3. i \in AccountOf!SessionsOf(u) <=> sessions[i].user = u
      BY <3>1, <3>2, AuthAssumption DEF AccountOf!SessionsOf
    <3>4. OpenSession(i)' =
            IF sessions[i].user = u /\ i # keep THEN None
            ELSE [user |-> sessions[i].user, knows |-> password'[sessions[i].user]]
      BY <1>2, <1>5, <2>2, OpenIsShownNext DEF Shown
    <3> QED
      BY <1>2, <3>1, <3>2, <3>3, <3>4
  <2> QED
    BY <2>1, <2>2
<1>7. AccountOf!Change(u, keep)
  BY <1>2, <1>6 DEF AccountOf!Change
<1> QED
  BY <1>1, <1>7 DEF AccountOf!Next

(* What the change has ended is now deleted. *)
LEMMA SweepEnds ==
    ASSUME IInv, IInv', NEW p \in Slots, ChangeSweep(p)
    PROVE  AccountOf!Next
<1>1. \A o \in Slots \ {p} : req'[o] = req[o]
  BY DEF ChangeSweep, IInv, Typed
<1>2. ASSUME NEW i \in SessionIds, sessions'[i] # None,
             ChangedFromAnother(sessions[i].user, i)
      PROVE  ChangedFromAnother(sessions[i].user, i)'
  <2>1. PICK o \in Slots : req[o].pc = "sweep" /\ req[o].user = sessions[i].user /\ req[o].sid # i
    BY <1>2 DEF ChangedFromAnother
  <2>2. req'[o] = req[o] /\ sessions'[i] = sessions[i]
    BY <1>1, <1>2, <2>1, SweepLeaves DEF SessionsOnlyEnd
  <2> QED
    BY <2>1, <2>2 DEF ChangedFromAnother
<1>3. UNCHANGED <<password, clock>>
  BY DEF ChangeSweep
<1>4. \A i \in SessionIds : sessions'[i] # None => sessions'[i] = sessions[i]
  BY SweepLeaves DEF SessionsOnlyEnd
<1> QED
  BY <1>2, <1>3, <1>4, CountsEnd DEF RowsStay, IInv, Typed

(* What a change has ended and failed to delete counts for nothing.        *)
LEMMA MissEnds ==
    ASSUME IInv, IInv', NEW p \in Slots, Abort(p), req[p].pc = "sweep"
    PROVE  AccountOf!Next
<1>1. \A o \in Slots \ {p} : req'[o] = req[o]
  BY DEF Abort, Done, IInv, Typed
<1>2. ASSUME NEW i \in SessionIds, sessions'[i] # None, ~ sessions'[i].missed,
             ChangedFromAnother(sessions[i].user, i)
      PROVE  ChangedFromAnother(sessions[i].user, i)'
  <2>1. PICK o \in Slots : req[o].pc = "sweep" /\ req[o].user = sessions[i].user /\ req[o].sid # i
    BY <1>2 DEF ChangedFromAnother
  <2>2. req'[o] = req[o] /\ sessions'[i].user = sessions[i].user
    BY <1>1, <1>2, <2>1, MissLeaves
  <2> QED
    BY <2>1, <2>2 DEF ChangedFromAnother
<1>3. UNCHANGED <<password, clock>>
  BY DEF Abort
<1>4. RowsStay
  BY MissLeaves DEF RowsStay
<1>5. \A i \in SessionIds : sessions'[i] # None =>
        /\ sessions'[i].api = sessions[i].api
        /\ ~ sessions'[i].missed => ~ sessions[i].missed
  BY MissLeaves
<1> QED
  BY <1>2, <1>3, <1>4, <1>5, CountsEnd DEF IInv, Typed

(* Most steps: no password is read or written, and no change is finished.  *)
LEMMA OthersEnd ==
    ASSUME IInv, IInv', UNCHANGED password, SessionsOnlyEnd, SweepsGoOn, clock <= clock'
    PROVE  AccountOf!Next
<1>1. ASSUME NEW i \in SessionIds, sessions'[i] # None PROVE sessions'[i] = sessions[i]
  BY <1>1 DEF SessionsOnlyEnd
<1>2. ASSUME NEW i \in SessionIds, sessions'[i] # None, ChangedFromAnother(sessions[i].user, i)
      PROVE  ChangedFromAnother(sessions[i].user, i)'
  BY <1>1, <1>2 DEF ChangedFromAnother, SweepsGoOn
<1> QED
  BY <1>1, <1>2, CountsEnd DEF RowsStay

LEMMA AccountStep ==
    ASSUME IInv, IInv', [Next]_vars
    PROVE  [AccountOf!Next]_(AccountOf!vars)
<1>1. ASSUME NEW p \in Slots, LoginCreate(p) \/ ChangeUpdate(p) \/ ChangeSweep(p)
      PROVE  AccountOf!Next
  BY <1>1, LoginOpens, UpdateChanges, SweepEnds
<1>2. ASSUME NEW p \in Slots,
             \/ Register(p) \/ Login(p) \/ LoginFind(p) \/ ApiIssue(p) \/ ApiDrop(p)
             \/ WebRequest(p) \/ DeleteSession(p) \/ ChangeRead(p) \/ ChangeMark(p)
             \/ ApiLogout(p) \/ ApiRevoke(p)
      PROVE  AccountOf!Next
  <2>1. UNCHANGED <<password, clock>> /\ SessionsOnlyEnd
    BY <1>2 DEF Register, Login, LoginFind, ApiIssue, ApiDrop, WebRequest, DeleteSession,
                ChangeRead, ChangeMark, ApiLogout, ApiRevoke, tables, ghosts, SessionsOnlyEnd,
                IInv, Typed
  <2>2. req[p].pc # "sweep"
    <3>1. CASE Register(p) \/ Login(p) \/ WebRequest(p) \/ ApiLogout(p)
      <4>1. req[p] = IdleReq
        BY <3>1 DEF Register, Login, WebRequest, ApiLogout
      <4> QED
        BY <4>1 DEF IdleReq
    <3>2. CASE \/ LoginFind(p) \/ ApiIssue(p) \/ ApiDrop(p) \/ DeleteSession(p)
               \/ ChangeRead(p) \/ ChangeMark(p) \/ ApiRevoke(p)
      BY <3>2 DEF LoginFind, ApiIssue, ApiDrop, DeleteSession, ChangeRead, ChangeMark, ApiRevoke
    <3> QED
      BY <1>2, <3>1, <3>2
  <2>3. \A o \in Slots \ {p} : req'[o] = req[o]
    <3>1. CASE Register(p) \/ Login(p) \/ LoginFind(p) \/ ApiIssue(p) \/ ChangeRead(p)
      BY <3>1 DEF Register, Login, StartLogin, LoginFind, Done, ApiIssue, ChangeRead, IInv, Typed
    <3>2. CASE WebRequest(p) \/ ApiLogout(p)
      BY <3>2 DEF WebRequest, ApiLogout, IInv, Typed
    <3>3. CASE ApiDrop(p) \/ DeleteSession(p) \/ ChangeMark(p) \/ ApiRevoke(p)
      BY <3>3 DEF ApiDrop, DeleteSession, ChangeMark, ApiRevoke, Done, IInv, Typed
    <3> QED
      BY <1>2, <3>1, <3>2, <3>3
  <2> QED
    BY <2>1, <2>2, <2>3, OthersEnd DEF SweepsGoOn, IInv, Typed
<1>3. ASSUME NEW p \in Slots, Abort(p) PROVE AccountOf!Next
  <2>1. CASE req[p].pc = "sweep"
    BY <1>3, <2>1, MissEnds
  <2>2. CASE req[p].pc # "sweep"
    <3>1. UNCHANGED <<password, sessions, clock>> /\ \A o \in Slots \ {p} : req'[o] = req[o]
      BY <1>3, <2>2 DEF Abort, Done, IInv, Typed
    <3> QED
      BY <2>2, <3>1, OthersEnd DEF SweepsGoOn, SessionsOnlyEnd, IInv, Typed
  <2> QED
    BY <2>1, <2>2
<1>4. CASE PurgeSessions \/ PurgeRevocations \/ Tick \/ UNCHANGED vars
  <2>1. UNCHANGED <<password, req>> /\ SessionsOnlyEnd
    BY <1>4 DEF PurgeSessions, PurgeRevocations, Tick, vars, tables, ghosts, SessionsOnlyEnd,
                IInv, Typed
  <2>2. clock <= clock'
    BY <1>4 DEF PurgeSessions, PurgeRevocations, Tick, vars, IInv, Typed
  <2> QED
    BY <2>1, <2>2, OthersEnd DEF SweepsGoOn
<1> QED
  BY <1>1, <1>2, <1>3, <1>4 DEF Next

(* However requests overlap and fail, the sessions that count are those of *)
(* the account that users are promised: a password change ends the others  *)
(* with the step that replaces the password, and the deletion that follows *)
(* changes nothing.                                                        *)
THEOREM AccountsAsPromised == Spec => ImplementsAccount
<1>1. Init => AccountOf!Init
  BY DEF Init, AccountOf!Init, OpenSession, SessionAccepted
<1>2. IInv /\ IInv' /\ [Next]_vars => [AccountOf!Next]_(AccountOf!vars)
  BY AccountStep
<1> QED
  BY <1>1, <1>2, AuthInvariant, PTL DEF Spec, ImplementsAccount, AccountOf!Spec

(***************************************************************************)
(* Requests that neither overlap nor fail: every session counts.           *)
(***************************************************************************)
Serial == ~ Faults /\ \A p, o \in Slots : p = o

(* A login has read the password that is stored, and so the deletion of a  *)
(* change has missed no session.                                           *)
Current ==
    /\ \A p \in Slots : req[p].pc = "create" => req[p].pw = password[req[p].user]
    /\ \A i \in SessionIds : sessions[i] # None => ~ sessions[i].missed

SInv == IInv /\ Current

LEMMA CurrentKept == ASSUME Serial, SInv, [Next]_vars PROVE Current'
<1>1. ASSUME NEW p \in Slots, LoginFind(p) PROVE Current'
  <2>1. req[p] \in LoginReq /\ UNCHANGED <<password, sessions>>
    BY <1>1, RequestKinds DEF LoginFind, SInv, IInv, Typed, tables
  <2>2. req'[p].pc = "create" => req'[p].pw = password[req'[p].user]
    <3>1. CASE req[p].user \in registered
      BY <1>1, <2>1, <3>1 DEF LoginFind, LoginReq, SInv, IInv, Typed
    <3>2. CASE req[p].user \notin registered
      BY <1>1, <3>2 DEF LoginFind, Done, IdleReq, SInv, IInv, Typed
    <3> QED
      BY <3>1, <3>2
  <2> QED
    BY <2>1, <2>2 DEF Serial, SInv, Current
<1>2. ASSUME NEW p \in Slots, LoginCreate(p) PROVE Current'
  <2>1. PICK i \in SessionIds \ usedIds :
          /\ sessions' = [sessions EXCEPT ![i] = NewSession(req[p])]
          /\ IF req[p].api THEN req' = [req EXCEPT ![p].pc = "issue", ![p].sid = i] ELSE Done(p)
    BY <1>2 DEF LoginCreate
  <2>2. req[p] \in LoginReq /\ req[p].pc = "create" /\ req[p].pw = password[req[p].user]
    BY <1>2, RequestKinds DEF LoginCreate, SInv, IInv, Typed, Current
  <2>3. ~ sessions'[i].missed
    <3>1. req[p].user \in Users
      BY <2>2 DEF LoginReq
    <3>2. settled[req[p].user] <= password[req[p].user] /\ settled[req[p].user] \in Nat
          /\ password[req[p].user] \in Nat
      BY <3>1 DEF SInv, IInv, Typed, AllSwept, SweptSound
    <3>3. sessions'[i] = NewSession(req[p])
      BY <2>1 DEF SInv, IInv, Typed
    <3>4. ~ req[p].pw < settled[req[p].user]
      BY <2>2, <3>2
    <3>5. sessions'[i].missed = (req[p].pw < settled[req[p].user])
      BY <3>3 DEF NewSession
    <3> QED
      BY <3>4, <3>5
  <2>4. req'[p].pc # "create"
    BY <2>1, <2>2 DEF Done, IdleReq, LoginReq, SInv, IInv, Typed
  <2> QED
    BY <1>2, <2>1, <2>3, <2>4 DEF LoginCreate, Serial, SInv, Current, IInv, Typed
<1>3. ASSUME NEW p \in Slots, ChangeUpdate(p) PROVE Current'
  <2>1. req'[p].pc = "sweep"
    <3>1. req[p] \in WebReq
      BY <1>3, UpdateLeaves DEF SInv
    <3> QED
      BY <1>3, <3>1 DEF ChangeUpdate, WebReq, SInv, IInv, Typed
  <2>2. \A i \in SessionIds : sessions'[i] # None =>
          sessions[i] # None /\ sessions'[i].missed = sessions[i].missed
    BY <1>3, UpdateLeaves DEF SInv
  <2> QED
    BY <2>1, <2>2 DEF Serial, SInv, Current
<1>4. ASSUME NEW p \in Slots, ChangeSweep(p) PROVE Current'
  <2>1. req[p] \in WebReq /\ req'[p].pc = "mark"
    BY <1>4, RequestKinds DEF ChangeSweep, WebReq, SInv, IInv, Typed
  <2>2. \A i \in SessionIds : sessions'[i] # None => sessions'[i] = sessions[i]
    BY <1>4, SweepLeaves DEF SInv, SessionsOnlyEnd
  <2> QED
    BY <2>1, <2>2 DEF Serial, SInv, Current
<1>5. ASSUME NEW p \in Slots,
             \/ Register(p) \/ Login(p) \/ ApiIssue(p) \/ ApiDrop(p) \/ WebRequest(p)
             \/ DeleteSession(p) \/ ChangeRead(p) \/ ChangeMark(p) \/ ApiLogout(p) \/ ApiRevoke(p)
      PROVE  Current'
  <2>1. UNCHANGED password /\ SessionsOnlyEnd
    BY <1>5 DEF Register, Login, ApiIssue, ApiDrop, WebRequest, DeleteSession, ChangeRead,
                ChangeMark, ApiLogout, ApiRevoke, tables, ghosts, SessionsOnlyEnd, SInv, IInv, Typed
  <2>2. req'[p].pc # "create"
    <3>1. CASE Register(p) \/ Login(p) \/ ApiLogout(p)
      BY <3>1 DEF Register, Login, ApiLogout, StartLogin, SInv, IInv, Typed
    <3>2. CASE WebRequest(p)
      <4>1. PICK i \in SessionIds, pc \in {"logout", "read", "expire"} :
              req' = [req EXCEPT ![p] =
                        [pc |-> pc, user |-> sessions[i].user, sid |-> i, pw |-> 0, at |-> 0]]
        BY <3>2 DEF WebRequest
      <4> QED
        BY <4>1 DEF SInv, IInv, Typed
    <3>3. CASE ApiIssue(p) \/ ChangeRead(p)
      <4>1. req[p] \in LoginReq \cup WebReq
        BY <3>3, RequestKinds DEF ApiIssue, ChangeRead, SInv, IInv, Typed
      <4> QED
        BY <3>3, <4>1 DEF ApiIssue, ChangeRead, LoginReq, WebReq, SInv, IInv, Typed
    <3>4. CASE ApiDrop(p) \/ DeleteSession(p) \/ ChangeMark(p) \/ ApiRevoke(p)
      BY <3>4 DEF ApiDrop, DeleteSession, ChangeMark, ApiRevoke, Done, IdleReq, SInv, IInv, Typed
    <3> QED
      BY <1>5, <3>1, <3>2, <3>3, <3>4
  <2> QED
    BY <2>1, <2>2 DEF Serial, SInv, Current, SessionsOnlyEnd
<1>6. CASE PurgeSessions \/ PurgeRevocations \/ Tick \/ UNCHANGED vars
  <2>1. UNCHANGED <<password, req>> /\ SessionsOnlyEnd
    BY <1>6 DEF PurgeSessions, PurgeRevocations, Tick, vars, tables, ghosts, SessionsOnlyEnd,
                SInv, IInv, Typed
  <2> QED
    BY <2>1 DEF SInv, Current, SessionsOnlyEnd
<1>7. ASSUME NEW p \in Slots PROVE ~ Abort(p)
  BY DEF Abort, Serial
<1> QED
  BY <1>1, <1>2, <1>3, <1>4, <1>5, <1>6, <1>7 DEF Next

(* Without overlap and failure a login in flight has read the password     *)
(* that is stored, and the deletion of a change misses no session.         *)
THEOREM SerialAuthInvariant == ASSUME Serial PROVE Spec => []SInv
<1>1. Init => SInv
  BY InitIInv DEF SInv, Init, Current, IdleReq
<1>2. SInv /\ [Next]_vars => SInv'
  <2> SUFFICES ASSUME SInv, [Next]_vars PROVE SInv'
    OBVIOUS
  <2>1. IInv' /\ Current'
    BY CurrentKept, NextIInv DEF SInv
  <2> QED
    BY <2>1 DEF SInv
<1> QED
  BY <1>1, <1>2, PTL DEF Spec

(* What the page promises after a password change holds when requests do   *)
(* not overlap and do not fail: every session knows the new password.      *)
THEOREM SerialNoStaleSession == ASSUME Serial PROVE Spec => []NoStaleSession
<1>1. SInv => NoStaleSession
  <2> SUFFICES ASSUME SInv, Quiet, NEW i \in SessionIds, sessions[i] # None
               PROVE  sessions[i].pw = password[sessions[i].user]
    BY DEF NoStaleSession
  <2>1. ~ ChangedFromAnother(sessions[i].user, i)
    BY DEF Quiet, ChangedFromAnother, IdleReq
  <2> QED
    BY <2>1, SweptAll DEF SInv, Current, ChangeEndsSessions
<1> QED
  BY <1>1, SerialAuthInvariant, PTL
=============================================================================
