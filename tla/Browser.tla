------------------------------- MODULE Browser -------------------------------
(* One browser and the pages of the server: the cookies it keeps, the tabs  *)
(* that share them, the checks of the Session and CSRF middleware on what a *)
(* tab sends, and the answers that pass them and are graded.  The server    *)
(* handles a request with the cookies of the moment it was sent; responses, *)
(* with the cookies they set, reach the browser in any order.               *)
(*                                                                          *)
(* Session ids and CSRF tokens are numbered as they are drawn; a session    *)
(* and the token stored with it share a number.  The cookies have no        *)
(* Domain (BOKI3_COOKIE_DOMAIN is not set).  The quiz page stands for every *)
(* page with a form that needs a session.                                   *)
EXTENDS Grading

CONSTANTS
    Users,
    Tabs,
    Questions,
    Want,       \* question -> the answer the bank has for it
    Forms,      \* what users enter, among it the right answers
    MaxIssued   \* bound on the tokens and sessions drawn

ASSUME BrowserAssumption ==
    /\ \A q \in Questions :
          /\ Want[q].type \in QuestionType
          /\ Want[q].choice = "" <=> Want[q].type = "journal"
          /\ Want[q].debits \in Seq(Entry) /\ Want[q].credits \in Seq(Entry)
    /\ \A f \in Forms : f.debits \in Seq(Entry) /\ f.credits \in Seq(Entry)
    /\ MaxIssued \in Nat

VARIABLES
    cookies,    \* [session, csrf], 0 for a cookie that is not there
    sessions,   \* live rows of sessions: id -> user
    issued,     \* number of the last token drawn
    page,       \* page[t]: what tab t shows
    wire,       \* wire[t]: the response on its way to tab t
    graded,     \* the last answer graded: for whom, off whose page, and how
    guest       \* tokens given to a browser that sent no live session (history)
vars == <<cookies, sessions, issued, page, wire, graded, guest>>

Numbers == 0 .. MaxIssued
NoCookies == [session |-> 0, csrf |-> 0]
Blank == [kind |-> "blank"]
LoginForm == [kind |-> "login"]
QuizPages == [kind : {"quiz"}, token : Numbers \ {0}, user : Users, question : Questions]
Pages == {Blank, LoginForm} \cup QuizPages
(* A response: the page, and the cookies that it sets, if any.              *)
Kept == [keep |-> TRUE]
Responses == [page : Pages, set : {Kept} \cup [session : Numbers, csrf : Numbers]
                                        \cup [csrf : Numbers]]
Nothing == [page |-> Blank, set |-> Kept, idle |-> TRUE]
Idle(t) == wire[t] = Nothing
Ungraded == [user |-> "nobody"]

LiveSession == cookies.session \in DOMAIN sessions
Responds(t, p, s) == wire' = [wire EXCEPT ![t] = [page |-> p, set |-> s]]

-----------------------------------------------------------------------------
Init ==
    /\ cookies = NoCookies /\ sessions = << >> /\ issued = 0
    /\ page = [t \in Tabs |-> Blank]
    /\ wire = [t \in Tabs |-> Nothing]
    /\ graded = Ungraded /\ guest = {}

(* Mutant: every login page gets a token of its own.                        *)
NeedsCsrfCookieAlways == TRUE

(* ensureCSRFCookie: a browser that has a CSRF cookie keeps it.             *)
NeedsCsrfCookie == cookies.csrf = 0

(* getLogin, getRegister *)
OpenLogin(t) ==
    /\ Idle(t)
    /\ IF NeedsCsrfCookie
       THEN /\ issued < MaxIssued /\ issued' = issued + 1
            /\ guest' = IF LiveSession THEN guest ELSE guest \cup {issued'}
            /\ Responds(t, LoginForm, [csrf |-> issued'])
       ELSE Responds(t, LoginForm, Kept) /\ UNCHANGED <<issued, guest>>
    /\ UNCHANGED <<cookies, sessions, page, graded>>

(* Mutant: a browser that has a session keeps its id.                       *)
PostLoginSameId(t) ==
    /\ Idle(t) /\ page[t] = LoginForm /\ issued < MaxIssued
    /\ issued' = issued + 1
    /\ \E u \in Users :
          LET id == IF LiveSession THEN cookies.session ELSE issued'
          IN  /\ sessions' = [i \in DOMAIN sessions \cup {id} |-> IF i = id THEN u ELSE sessions[i]]
              /\ Responds(t, Blank, [session |-> id, csrf |-> id])
    /\ UNCHANGED <<cookies, page, graded, guest>>

(* postLogin, postRegister, when they succeed: no check of cookies or       *)
(* tokens, a new session, and both cookies set.                             *)
PostLogin(t) ==
    /\ Idle(t) /\ page[t] = LoginForm /\ issued < MaxIssued
    /\ issued' = issued + 1
    /\ \E u \in Users : sessions' = [i \in DOMAIN sessions \cup {issued'} |->
                                       IF i = issued' THEN u ELSE sessions[i]]
    /\ Responds(t, Blank, [session |-> issued', csrf |-> issued'])
    /\ UNCHANGED <<cookies, page, graded, guest>>

(* getQuiz behind the Session middleware: the page carries the token of the *)
(* session.  Without a live session the answer is a redirect.               *)
OpenQuiz(t) ==
    /\ Idle(t)
    /\ IF LiveSession
       THEN \E q \in Questions :
              Responds(t, [kind |-> "quiz", token |-> cookies.session,
                           user |-> sessions[cookies.session], question |-> q], Kept)
       ELSE Responds(t, Blank, Kept)
    /\ UNCHANGED <<cookies, sessions, issued, page, graded, guest>>

(* Mutant: the token of the form is not looked at.                          *)
CsrfPassesCookieOnly(token) == cookies.csrf # 0 /\ cookies.csrf = cookies.session

(* CSRF: the token of the form, of the cookie and of the session are one.   *)
CsrfPasses(token) ==
    cookies.csrf # 0 /\ token = cookies.csrf /\ cookies.csrf = cookies.session

(* postQuizAnswer behind Session and CSRF; 403 or a redirect change nothing.*)
PostAnswer(t) ==
    /\ Idle(t) /\ page[t].kind = "quiz"
    /\ IF LiveSession /\ CsrfPasses(page[t].token)
       THEN \E form \in Forms :
              LET want == Want[page[t].question]
              IN  graded' = [user |-> sessions[cookies.session],
                             pageOf |-> page[t].user, type |-> want.type,
                             correct |-> IsCorrect(want, BuildAnswerFromForm(want.type, form)),
                             right |-> IsRight(want, form)]
       ELSE UNCHANGED graded
    /\ Responds(t, Blank, Kept)
    /\ UNCHANGED <<cookies, sessions, issued, page, guest>>

(* Auth.Logout, whose error is ignored: a Delete that fails leaves the      *)
(* session accepted.                                                        *)
SessionEndsIfDeleted ==
    \/ sessions' = [i \in DOMAIN sessions \ {cookies.session} |-> sessions[i]]
    \/ UNCHANGED sessions

(* Mutant: the CSRF cookie stays.                                           *)
PostLogoutKeepsCsrf(t) ==
    /\ Idle(t) /\ page[t].kind = "quiz"
    /\ IF LiveSession /\ CsrfPasses(page[t].token)
       THEN /\ SessionEndsIfDeleted
            /\ Responds(t, Blank, [session |-> 0])
       ELSE Responds(t, Blank, Kept) /\ UNCHANGED sessions
    /\ UNCHANGED <<cookies, issued, page, graded, guest>>

(* postLogout behind the same checks: both cookies go, and the session ends *)
(* unless the database fails.                                               *)
PostLogout(t) ==
    /\ Idle(t) /\ page[t].kind = "quiz"
    /\ IF LiveSession /\ CsrfPasses(page[t].token)
       THEN /\ SessionEndsIfDeleted
            /\ Responds(t, Blank, NoCookies)
       ELSE Responds(t, Blank, Kept) /\ UNCHANGED sessions
    /\ UNCHANGED <<cookies, issued, page, graded, guest>>

(* A response arrives.                                                      *)
Deliver(t) ==
    /\ ~Idle(t)
    /\ cookies' = [c \in {"session", "csrf"} |->
                     IF c \in DOMAIN wire[t].set THEN wire[t].set[c] ELSE cookies[c]]
    /\ page' = [page EXCEPT ![t] = wire[t].page]
    /\ wire' = [wire EXCEPT ![t] = Nothing]
    /\ UNCHANGED <<sessions, issued, graded, guest>>

(* A session expires, or a password change elsewhere deletes it.            *)
EndSession ==
    /\ \E i \in DOMAIN sessions :
         sessions' = [j \in DOMAIN sessions \ {i} |-> sessions[j]]
    /\ UNCHANGED <<cookies, issued, page, wire, graded, guest>>

Next ==
    \/ \E t \in Tabs : \/ OpenLogin(t) \/ PostLogin(t) \/ OpenQuiz(t)
                       \/ PostAnswer(t) \/ PostLogout(t) \/ Deliver(t)
    \/ EndSession

Spec == Init /\ [][Next]_vars

-----------------------------------------------------------------------------
(* Every variable has its shape.                                            *)
TypeOK ==
    /\ cookies \in [session : Numbers, csrf : Numbers]
    /\ DOMAIN sessions \subseteq 1 .. issued
    /\ \A i \in DOMAIN sessions : sessions[i] \in Users
    /\ issued \in Numbers
    /\ page \in [Tabs -> Pages]
    /\ wire \in [Tabs -> Responses \cup {Nothing}]
    /\ graded = Ungraded \/ graded \in [user : Users, pageOf : Users, type : QuestionType,
                                        correct : BOOLEAN, right : BOOLEAN]
    /\ guest \subseteq 1 .. issued

(* An answer is recorded for the user whose page it was entered on, however *)
(* the tabs of a shared browser log in and out meanwhile: the form of a     *)
(* page from another session is refused (the three-way comparison of CSRF). *)
AnswersByPageOwner == graded # Ungraded => graded.user = graded.pageOf

(* The forms of a browser that has a live session pass the CSRF check,      *)
(* unless the response of a login page that was asked for without a session *)
(* arrived after that of the login and put its token over the session's     *)
(* (ensureCSRFCookie and setSessionCookies).                                *)
FormsUsable == LiveSession => cookies.csrf = cookies.session \/ cookies.csrf \in guest

(* An answer to a journal question or to one that IsCorrect judges by its   *)
(* choice passes exactly if it is right, whatever the rows it was entered   *)
(* in, blank ones, and the way accounts and letters are written.            *)
GradedByAnswer ==
    graded # Ungraded /\ graded.type \notin {"ledger", "slip"} =>
        graded.correct = graded.right

(* What the comment of IsCorrect says of choices, for every question of the *)
(* bank: an answer passes only if it is the right one.                      *)
OnlyRightAnswersPass == graded # Ungraded /\ graded.correct => graded.right

SessionUser == [i \in 1 .. MaxIssued |-> IF i \in DOMAIN sessions THEN sessions[i] ELSE "nobody"]
SessionTable == INSTANCE Credential WITH
    Ids <- 1 .. MaxIssued, Nobody <- "nobody",
    fresh <- issued + 1 .. MaxIssued, accepted <- SessionUser

(* The sessions behind the pages are credentials, as Auth guarantees of its *)
(* table: however the tabs log in and out, an id is one user's, and a login *)
(* in a browser that has a session never puts another user behind its id.   *)
SessionsAreCredentials == SessionTable!Spec
=============================================================================
