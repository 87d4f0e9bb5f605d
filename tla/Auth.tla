-------------------------------- MODULE Auth --------------------------------
(***************************************************************************)
(* Accounts, browser sessions and API tokens: AuthService, APIAuthService  *)
(* and the handlers that call them, over the users, sessions and           *)
(* jwt_revocations tables.                                                 *)
(*                                                                         *)
(* A statement is atomic; a request issues several, and hashing a password *)
(* takes long between them, so logins, logouts and password changes of one *)
(* user overlap; reading the clock belongs to the statement it is read     *)
(* for.  A password is the number of times it was changed; an attempt with *)
(* a wrong password changes nothing here and is left out.  The clock is    *)
(* taken not to be set back: what has expired stays expired.               *)
(***************************************************************************)
EXTENDS Integers, FiniteSets

CONSTANTS
    Users,
    SessionIds,     \* the random ids sessions get, never the same twice
    Jtis,           \* the random ids tokens get, never the same twice
    Slots,          \* requests that may be in flight at the same time
    None,           \* no session, no token, no id
    SessionTTL,     \* AuthConfig.SessionTTL
    TokenTTL,       \* the API's TokenTTL
    RevokeAllTTL,   \* how long the marker of RevokeAllForUser is kept
    Faults,         \* whether a statement may fail or a client go away
    MaxClock,       \* bound: units of time the model runs
    MaxChanges      \* bound: password changes of a user

(* A session row.  pw, missed and api are ghosts: the newest password its  *)
(* holder proved to know, whether the deletion of a password change missed *)
(* it, because the row was inserted after it or because it failed, and     *)
(* whether the session belongs to an API login.                            *)
Session == [user : Users, created : Nat, expires : Nat, pw : Nat, missed : BOOLEAN, api : BOOLEAN]
Token == [user : Users, expires : Nat, pw : Nat]

ASSUME AuthAssumption ==
    /\ None \notin SessionIds
    /\ None \notin Session
    /\ None \notin Token
    /\ None \notin [user : Users, knows : Nat]
    /\ SessionTTL \in Nat
    /\ TokenTTL \in Nat
    /\ RevokeAllTTL \in Nat
    /\ Faults \in BOOLEAN
    /\ MaxClock \in Nat
    /\ MaxChanges \in Nat

VARIABLES
    registered,     \* users with a row
    password,       \* password[u]: the password of u, counted by its changes
    sessions,       \* sessions[i]: the row with id i, or None
    tokens,         \* tokens[j]: the token that was issued with id j, or None
    revocations,    \* rows of jwt_revocations whose jti is a token's
    markers,        \* rows of jwt_revocations written by RevokeAllForUser
    clock,
    req,            \* req[p]: the request in flight in slot p
    usedIds,        \* ghost: session ids ever given out
    settled,        \* ghost: settled[u]: newest password whose change has come to its
                    \* deletion of sessions, done or failed
    loggedOut,      \* ghost: token ids ever revoked by a logout
    cut             \* ghost: sessions of API logins that failed before they ended them

tables == <<registered, password, sessions, revocations, markers>>
ghosts == <<usedIds, settled, loggedOut, cut>>
vars == <<tables, tokens, clock, req, ghosts>>

Revocation == [jti : Jtis, expires : Nat]
Marker == [user : Users, expires : Nat]

IdleReq == [pc |-> "idle"]
LoginReq == [pc : {"find", "create", "issue", "drop"}, user : Users, api : BOOLEAN,
             pw : Nat, sid : SessionIds \cup {None}]
WebReq == [pc : {"expire", "logout", "read", "update", "sweep", "mark"},
           user : Users, sid : SessionIds, pw : Nat, at : Nat]
ApiReq == [pc : {"extract"}, jti : Jtis]
Request == {IdleReq} \cup LoginReq \cup WebReq \cup ApiReq

Quiet == \A p \in Slots : req[p] = IdleReq

(* Mutant: the negation is missing. *)
IsExpiredBefore(s) == clock < s.expires

(* Session.IsExpired *)
IsExpired(s) == ~ clock < s.expires

(* SessionByID *)
SessionAccepted(i) == sessions[i] # None /\ ~ IsExpired(sessions[i])

(* IsRevoked looks for the row of exactly this jti: the marker of          *)
(* RevokeAllForUser has a jti of its own.                                  *)
IsRevoked(j) == \E r \in revocations : r.jti = j

(* HS256Signer.Parse: a token that was signed here and has not expired.    *)
Parse(j) == tokens[j] # None /\ clock < tokens[j].expires

(* VerifyToken: signature and expiry, then the revocation table. *)
VerifyToken(j) == Parse(j) /\ ~ IsRevoked(j)

(* The token that Sign makes of the claims of IssueToken. *)
Sign(u, pw) == [user |-> u, expires |-> clock + TokenTTL, pw |-> pw]

(* The row that sessions.Create inserts for the login r. *)
NewSession(r) ==
    [user |-> r.user, created |-> clock, expires |-> clock + SessionTTL,
     pw |-> r.pw, missed |-> r.pw < settled[r.user], api |-> r.api]

(* Mutant: the owner is not part of the condition. *)
OtherSessionsOfAnyone(u, keep) == {i \in SessionIds \ {keep} : sessions[i] # None}

(* Mutant: the comparison with the kept id is the wrong way round. *)
OtherSessionsSwapped(u, keep) ==
    {i \in {keep} : sessions[i] # None /\ sessions[i].user = u}

(* WHERE user_id = ? AND id != ? *)
OtherSessions(u, keep) ==
    {i \in SessionIds \ {keep} : sessions[i] # None /\ sessions[i].user = u}

(* WHERE expires_at <= ? *)
PurgeableRevocations(now) == {r \in revocations : r.expires <= now}

Newest(a, b) == IF a > b THEN a ELSE b

(* The request is over and its slot free. *)
Done(p) == req' = [req EXCEPT ![p] = IdleReq]

-----------------------------------------------------------------------------

Init ==
    /\ registered = {}
    /\ password = [u \in Users |-> 0]
    /\ sessions = [i \in SessionIds |-> None]
    /\ tokens = [j \in Jtis |-> None]
    /\ revocations = {}
    /\ markers = {}
    /\ clock = 0
    /\ req = [p \in Slots |-> IdleReq]
    /\ usedIds = {}
    /\ settled = [u \in Users |-> 0]
    /\ loggedOut = {}
    /\ cut = {}

StartLogin(p, u, isApi) ==
    req' = [req EXCEPT ![p] = [pc |-> "find", user |-> u, api |-> isApi, pw |-> 0, sid |-> None]]

(* Register: users.Create (a taken name is ErrAlreadyExists), then the     *)
(* handler logs the new user in.                                           *)
Register(p) ==
    /\ req[p] = IdleReq
    /\ \E u \in Users \ registered :
          /\ registered' = registered \cup {u}
          /\ StartLogin(p, u, FALSE)
    /\ UNCHANGED <<password, sessions, revocations, markers, tokens, clock, ghosts>>

(* The login form, or POST /api/v1/auth/login, for any name. *)
Login(p) ==
    /\ req[p] = IdleReq
    /\ \E u \in Users, isApi \in BOOLEAN : StartLogin(p, u, isApi)
    /\ UNCHANGED <<tables, tokens, clock, ghosts>>

(* Mutant: that there is no such user does not end the login. *)
LoginFindAnyone(p) ==
    /\ req[p].pc = "find"
    /\ req' = [req EXCEPT ![p].pc = "create", ![p].pw = password[req[p].user]]
    /\ UNCHANGED <<tables, tokens, clock, ghosts>>

(* users.FindByUsername: the password given is compared with this row. *)
LoginFind(p) ==
    /\ req[p].pc = "find"
    /\ IF req[p].user \in registered
       THEN req' = [req EXCEPT ![p].pc = "create", ![p].pw = password[req[p].user]]
       ELSE Done(p)
    /\ UNCHANGED <<tables, tokens, clock, ghosts>>

(* sessions.Create, under a new random id. *)
LoginCreate(p) ==
    /\ req[p].pc = "create"
    /\ \E i \in SessionIds \ usedIds :
          /\ sessions' = [sessions EXCEPT ![i] = NewSession(req[p])]
          /\ usedIds' = usedIds \cup {i}
          /\ IF req[p].api
             THEN req' = [req EXCEPT ![p].pc = "issue", ![p].sid = i]
             ELSE Done(p)
    /\ UNCHANGED <<registered, password, revocations, markers, tokens, clock, settled, loggedOut, cut>>

(* Mutant: the API login does not end its session. *)
ApiIssueOnly(p) ==
    /\ req[p].pc = "issue"
    /\ \E j \in Jtis :
          /\ tokens[j] = None
          /\ tokens' = [tokens EXCEPT ![j] = Sign(req[p].user, req[p].pw)]
    /\ Done(p)
    /\ UNCHANGED <<tables, clock, ghosts>>

(* APIAuthService.IssueToken: nothing is stored, the client gets the token. *)
ApiIssue(p) ==
    /\ req[p].pc = "issue"
    /\ \E j \in Jtis :
          /\ tokens[j] = None
          /\ tokens' = [tokens EXCEPT ![j] = Sign(req[p].user, req[p].pw)]
    /\ req' = [req EXCEPT ![p].pc = "drop"]
    /\ UNCHANGED <<tables, clock, ghosts>>

(* The API login ends its session at once: AuthService.Logout. *)
ApiDrop(p) ==
    /\ req[p].pc = "drop"
    /\ sessions' = [sessions EXCEPT ![req[p].sid] = None]
    /\ Done(p)
    /\ UNCHANGED <<registered, password, revocations, markers, tokens, clock, ghosts>>

(* The session middleware on a request that carries a session id: the row  *)
(* is read; an expired one is to be deleted, otherwise the handler, a      *)
(* logout or a password change, runs for the user of that row.  Touch only *)
(* sets last_seen_at, which nothing reads.  No page carries the id of an   *)
(* API login's session.                                                    *)
WebRequest(p) ==
    /\ req[p] = IdleReq
    /\ \E i \in SessionIds :
          /\ sessions[i] # None
          /\ ~ sessions[i].api
          /\ \E pc \in IF SessionAccepted(i) THEN {"logout", "read"} ELSE {"expire"} :
                req' = [req EXCEPT ![p] =
                          [pc |-> pc, user |-> sessions[i].user, sid |-> i, pw |-> 0, at |-> 0]]
    /\ UNCHANGED <<tables, tokens, clock, ghosts>>

(* AuthService.Logout, and the deletion of an expired session. *)
DeleteSession(p) ==
    /\ req[p].pc \in {"expire", "logout"}
    /\ sessions' = [sessions EXCEPT ![req[p].sid] = None]
    /\ Done(p)
    /\ UNCHANGED <<registered, password, revocations, markers, tokens, clock, ghosts>>

(* ChangePassword: FindByID; the current password given is compared with   *)
(* this row, and the new one hashed, before the next statement.            *)
ChangeRead(p) ==
    /\ req[p].pc = "read"
    /\ req' = [req EXCEPT ![p].pc = "update", ![p].pw = password[req[p].user]]
    /\ UNCHANGED <<tables, tokens, clock, ghosts>>

(* The row of session i, whose holder has proved to know password pw. *)
Proved(i, pw) ==
    [sessions EXCEPT ![i] = IF @ = None THEN None ELSE [@ EXCEPT !.pw = pw]]

(* Mutant: the other sessions are not deleted. *)
ChangeUpdateOnly(p) ==
    /\ req[p].pc = "update"
    /\ LET new == password[req[p].user] + 1 IN
          /\ new <= MaxChanges
          /\ password' = [password EXCEPT ![req[p].user] = new]
          /\ sessions' = Proved(req[p].sid, new)
          /\ req' = [req EXCEPT ![p].pc = "mark", ![p].pw = new, ![p].at = clock]
    /\ UNCHANGED <<registered, revocations, markers, tokens, clock, ghosts>>

(* The clock is read, and users.UpdatePassword replaces whatever the       *)
(* password is by now; whoever uses the session the change is made from    *)
(* knows the new one.                                                      *)
ChangeUpdate(p) ==
    /\ req[p].pc = "update"
    /\ LET new == password[req[p].user] + 1 IN
          /\ new <= MaxChanges
          /\ password' = [password EXCEPT ![req[p].user] = new]
          /\ sessions' = Proved(req[p].sid, new)
          /\ req' = [req EXCEPT ![p].pc = "sweep", ![p].pw = new, ![p].at = clock]
    /\ UNCHANGED <<registered, revocations, markers, tokens, clock, ghosts>>

Settle(p) == settled' = [settled EXCEPT ![req[p].user] = Newest(@, req[p].pw)]

(* sessions.DeleteAllForUserExcept. *)
ChangeSweep(p) ==
    /\ req[p].pc = "sweep"
    /\ sessions' = [i \in SessionIds |->
                      IF i \in OtherSessions(req[p].user, req[p].sid) THEN None ELSE sessions[i]]
    /\ Settle(p)
    /\ req' = [req EXCEPT ![p].pc = "mark"]
    /\ UNCHANGED <<registered, password, revocations, markers, tokens, clock, usedIds, loggedOut,
                   cut>>

(* jwts.RevokeAllForUser, with the time read before the update. *)
ChangeMark(p) ==
    /\ req[p].pc = "mark"
    /\ markers' = markers \cup {[user |-> req[p].user, expires |-> req[p].at + RevokeAllTTL]}
    /\ Done(p)
    /\ UNCHANGED <<registered, password, sessions, revocations, tokens, clock, ghosts>>

(* POST /api/v1/auth/logout: the middleware verifies the token. *)
ApiLogout(p) ==
    /\ req[p] = IdleReq
    /\ \E j \in Jtis :
          /\ VerifyToken(j)
          /\ req' = [req EXCEPT ![p] = [pc |-> "extract", jti |-> j]]
    /\ UNCHANGED <<tables, tokens, clock, ghosts>>

(* Mutant: the row is kept only until the logout itself. *)
RevocationUntilNow(j) == [jti |-> j, expires |-> clock]

(* The row a logout writes for a token: it is kept as long as the token    *)
(* would be valid.                                                         *)
RevocationOf(j) == [jti |-> j, expires |-> tokens[j].expires]

(* ExtractJTI and Revoke: an insert, or the replacement of the row that is *)
(* there.  A token that has expired meanwhile needs no row.                *)
ApiRevoke(p) ==
    /\ req[p].pc = "extract"
    /\ LET j == req[p].jti IN
          IF Parse(j)
          THEN /\ revocations' = {r \in revocations : r.jti # j} \cup {RevocationOf(j)}
               /\ loggedOut' = loggedOut \cup {j}
          ELSE UNCHANGED <<revocations, loggedOut>>
    /\ Done(p)
    /\ UNCHANGED <<registered, password, sessions, markers, tokens, clock, usedIds, settled, cut>>

(* A statement fails or the request's context is cancelled: the request    *)
(* ends where it is and nothing is undone.  A password change that fails   *)
(* to delete the other sessions leaves them.                               *)
Abort(p) ==
    /\ Faults
    /\ req[p] # IdleReq
    /\ Done(p)
    /\ IF req[p].pc = "sweep"
       THEN /\ sessions' = [i \in SessionIds |->
                              IF i \in OtherSessions(req[p].user, req[p].sid)
                              THEN [sessions[i] EXCEPT !.missed = TRUE] ELSE sessions[i]]
            /\ Settle(p)
       ELSE UNCHANGED <<sessions, settled>>
    /\ cut' = cut \cup (IF req[p].pc \in {"issue", "drop"} THEN {req[p].sid} ELSE {})
    /\ UNCHANGED <<registered, password, revocations, markers, tokens, clock, usedIds, loggedOut>>

(* The two PurgeExpired of the repositories. *)
PurgeSessions ==
    /\ \E i \in SessionIds : sessions[i] # None /\ IsExpired(sessions[i])
    /\ sessions' = [i \in SessionIds |->
                      IF sessions[i] # None /\ IsExpired(sessions[i]) THEN None ELSE sessions[i]]
    /\ UNCHANGED <<registered, password, revocations, markers, tokens, clock, req, ghosts>>

PurgeRevocations ==
    /\ revocations' = revocations \ PurgeableRevocations(clock)
    /\ markers' = {m \in markers : m.expires > clock}
    /\ UNCHANGED <<registered, password, sessions, tokens, clock, req, ghosts>>

Tick ==
    /\ clock < MaxClock
    /\ clock' = clock + 1
    /\ UNCHANGED <<tables, tokens, req, ghosts>>

Next ==
    \/ \E p \in Slots :
          \/ Register(p) \/ Login(p) \/ LoginFind(p) \/ LoginCreate(p)
          \/ ApiIssue(p) \/ ApiDrop(p)
          \/ WebRequest(p) \/ DeleteSession(p)
          \/ ChangeRead(p) \/ ChangeUpdate(p) \/ ChangeSweep(p) \/ ChangeMark(p)
          \/ ApiLogout(p) \/ ApiRevoke(p)
          \/ Abort(p)
    \/ PurgeSessions
    \/ PurgeRevocations
    \/ Tick

Spec == Init /\ [][Next]_vars

-----------------------------------------------------------------------------

(* The variables have their types. *)
Typed ==
    /\ registered \in SUBSET Users
    /\ password \in [Users -> Nat]
    /\ sessions \in [SessionIds -> Session \cup {None}]
    /\ tokens \in [Jtis -> Token \cup {None}]
    /\ revocations \in SUBSET Revocation
    /\ markers \in SUBSET Marker
    /\ clock \in Nat
    /\ req \in [Slots -> Request]
    /\ usedIds \in SUBSET SessionIds
    /\ settled \in [Users -> Nat]
    /\ loggedOut \in SUBSET Jtis
    /\ cut \in SUBSET SessionIds

(* What is stored or signed for a user, and what a request does for one    *)
(* after its first statement, is for a user who has a row.                 *)
ForeignKeys ==
    /\ \A i \in SessionIds : sessions[i] # None => sessions[i].user \in registered
    /\ \A j \in Jtis : tokens[j] # None => tokens[j].user \in registered
    /\ \A m \in markers : m.user \in registered
    /\ \A p \in Slots :
          req[p].pc \notin {"idle", "find", "extract"} => req[p].user \in registered

(* The variables have their types, and the rows and tokens their user      *)
(* (the foreign keys of the schema, and Login's answer to unknown names).  *)
TypeOK == Typed /\ ForeignKeys

(* A token that was logged out is never accepted again, however long ago,  *)
(* repeated logouts and purges of the revocation table included: the row   *)
(* may be purged only when the token has expired.                          *)
LoggedOutRejected == \A j \in loggedOut : ~ VerifyToken(j)

(* When no request is in flight, every session of a user was opened with   *)
(* the current password or is the one it was changed from (the message of  *)
(* postSettingsPassword: the sessions of other devices are invalid).       *)
NoStaleSession ==
    Quiet => \A i \in SessionIds :
        sessions[i] # None => sessions[i].pw = password[sessions[i].user]

(* Sessions of one user disappear only by a request of that user or        *)
(* because they have expired (the user_id conditions of the deletes).      *)
SessionEndedByOwner ==
    \A i \in SessionIds :
        sessions[i] # None /\ sessions'[i] = None =>
            \/ IsExpired(sessions[i])
            \/ \E p \in Slots : req'[p] # req[p] /\ req[p].user = sessions[i].user

OnlyOwnerEndsSession == [][SessionEndedByOwner]_vars

(* A session of an API login exists only while the request that opened it  *)
(* is being served, whatever overlaps it, unless this very request failed  *)
(* before it ended the session (the comment of the API's login: the        *)
(* session is ended at once by Logout).                                    *)
ApiLoginLeavesNoSession ==
    \A i \in SessionIds :
        sessions[i] # None /\ sessions[i].api =>
            \/ \E p \in Slots : req[p].pc \in {"issue", "drop"} /\ req[p].sid = i
            \/ i \in cut

(* A change of u's password that has still to delete session i. *)
ChangedFromAnother(u, i) ==
    \E p \in Slots : req[p].pc = "sweep" /\ req[p].user = u /\ req[p].sid # i

(* Every session of a user belongs to someone who knows the current        *)
(* password, or a change is about to delete it, or the deletion of one     *)
(* missed it (ChangePassword, with any number of changes and logins at     *)
(* once, and with changes that fail before their deletion).                *)
ChangeEndsSessions ==
    \A i \in SessionIds :
        /\ sessions[i] # None
        /\ ~ sessions[i].missed
        /\ ~ ChangedFromAnother(sessions[i].user, i)
        => sessions[i].pw = password[sessions[i].user]

(* When no request is in flight, no token issued before the last password  *)
(* change is accepted (the comment of RevokeAllForUser: all the JWTs of    *)
(* the user are revoked).                                                  *)
ChangeRevokesTokens ==
    Quiet => \A j \in Jtis :
        VerifyToken(j) => tokens[j].pw = password[tokens[j].user]

-----------------------------------------------------------------------------

(* The ids that are accepted, and for whom.                                *)
SessionUser == [i \in SessionIds |-> IF SessionAccepted(i) THEN sessions[i].user ELSE None]
TokenUser == [j \in Jtis |-> IF VerifyToken(j) THEN tokens[j].user ELSE None]

SessionTable == INSTANCE Credential WITH
    Ids <- SessionIds, Nobody <- None, fresh <- SessionIds \ usedIds, accepted <- SessionUser

TokenTable == INSTANCE Credential WITH
    Ids <- Jtis, Nobody <- None, fresh <- {j \in Jtis : tokens[j] = None}, accepted <- TokenUser

(* A session id is accepted for the user who logged in and for nobody else *)
(* until it ends, and once a logout, a password change, a purge or the     *)
(* time has ended it, no overlapping request and no failure brings it back *)
(* (SessionByID over what every other statement does to the table).        *)
SessionsAreCredentials == SessionTable!Spec

(* The same of a token: neither a second logout nor the purge of the       *)
(* revocation table makes one valid again that was rejected (VerifyToken). *)
TokensAreCredentials == TokenTable!Spec

(* The sessions a user can count on.  Those that a change of the password  *)
(* has still to delete count as ended.  Nothing is promised of a session   *)
(* that the deletion of a change missed.                                   *)
OpenSession(i) ==
    LET s == sessions[i] IN
    IF \/ ~ SessionAccepted(i)
       \/ s.api
       \/ s.missed
       \/ ChangedFromAnother(s.user, i)
    THEN None
    ELSE [user |-> s.user, knows |-> s.pw]

AccountOf == INSTANCE Account WITH
    Ids <- SessionIds, Nobody <- None, version <- password,
    open <- [i \in SessionIds |-> OpenSession(i)]

(* However requests overlap and wherever they fail, those sessions are the *)
(* ones of the account that users are promised: a password change takes    *)
(* effect at once, also one of two that overlap (the message of            *)
(* postSettingsPassword), and a login needs the password of that moment.   *)
ImplementsAccount == AccountOf!Spec
=============================================================================
