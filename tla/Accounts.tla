------------------------------ MODULE Accounts ------------------------------
(***************************************************************************)
(* Setup, login, logout and the check every dashboard request passes       *)
(* (internal/api/auth_handlers.go) over the tables users and sessions      *)
(* (internal/db/users.go), and the cookie each browser keeps.              *)
(*                                                                         *)
(* A request is one call of one browser.  It goes through its handler a    *)
(* statement at a time, and its answer reaches the browser in a step of    *)
(* its own, so that two tabs of one browser interleave.  A session is      *)
(* named by the request that started it: its token is a random one         *)
(* nothing else has (auth.NewSessionToken).                                *)
(***************************************************************************)
EXTENDS Integers, FiniteSets

CONSTANTS
    Setups, Logins, Logouts, Checks,  \* the requests; a check is a dashboard request
    Browsers,
    BrowserOf,     \* the browser each request comes from
    Form,          \* what is typed for each setup and login
    Lower(_),      \* strings.ToLower
    LongEnough,    \* passwords of 8 bytes and more
    SetupToken,    \* CLIPFOLIO_SETUP_TOKEN
    NoToken,       \* the empty string
    NoSession,     \* no cookie
    DbFaults       \* "db": a statement fails; "dbReply": it fails after taking effect

Requests == Setups \cup Logins \cup Logouts \cup Checks

(* An account is named by the setup that created it. *)
ASSUME RequestsAssumption ==
    /\ Setups \cap Logins = {}
    /\ (Setups \cup Logins) \cap (Logouts \cup Checks) = {}
    /\ Logouts \cap Checks = {}
    /\ NoSession \notin Requests
    /\ BrowserOf \in [Requests -> Browsers]
    /\ DOMAIN Form = Setups \cup Logins
    /\ \A r \in DOMAIN Form : DOMAIN Form[r] = {"email", "password", "token"}
ASSUME DbFaultsAssumption == DbFaults \subseteq {"db", "dbReply"}

VARIABLES
    users,         \* rows of users: the setup, its stored email and password
    sessions,      \* the tokens of unexpired rows of sessions
    who,           \* the account each request acts for; a session's user_id
    cookie,        \* the session cookie each browser keeps
    carried,       \* the cookie a request was sent with
    call           \* where each request stands

accountVars == <<users, sessions, who, cookie, carried, call>>

(* "lost": the process stopped before it answered. *)
CallPlaces == {"idle", "sent", "counted", "known", "answered", "ok", "denied",
               "error", "lost"}

AccountTypeOK ==
    /\ {u.id : u \in users} \subseteq Setups
    /\ sessions \subseteq Setups \cup Logins
    /\ who \in [Requests -> Setups \cup {NoSession}]
    /\ cookie \in [Browsers -> Setups \cup Logins \cup {NoSession}]
    /\ carried \in [Requests -> Setups \cup Logins \cup {NoSession}]
    /\ call \in [Requests -> CallPlaces]

AccountInit ==
    /\ users = {}
    /\ sessions = {}
    /\ who = [r \in Requests |-> NoSession]
    /\ cookie = [b \in Browsers |-> NoSession]
    /\ carried = [r \in Requests |-> NoSession]
    /\ call = [r \in Requests |-> "idle"]

CallGoes(r, place) == call' = [call EXCEPT ![r] = place]

(* Slips: the email is stored as typed; any password opens; the cookie is  *)
(* left.                                                                   *)
AccountAsTyped(r) == [id |-> r, email |-> Form[r].email, password |-> Form[r].password]

OpenedByEmail(r) == {u \in users : u.email = Lower(Form[r].email)}

KeepCookie(r) ==
    /\ r \in Logouts /\ call[r] = "answered"
    /\ CallGoes(r, "ok")
    /\ UNCHANGED <<users, sessions, who, cookie, carried>>

Account(r) == [id |-> r, email |-> Lower(Form[r].email), password |-> Form[r].password]

(* The accounts r's email and password open (GetUserByEmail, CheckPassword). *)
Opened(r) == {u \in users : u.email = Lower(Form[r].email) /\ u.password = Form[r].password}

TokenRight(r) == SetupToken = NoToken \/ Form[r].token = SetupToken

(* A statement's error ends the request with a 500. *)
StatementFails(r) == "db" \in DbFaults /\ CallGoes(r, "error")

-----------------------------------------------------------------------------
(* handleSetup: CountUsers, ... *)
CountUsers(r) ==
    /\ call[r] = "idle"
    /\ \/ CallGoes(r, IF users = {} THEN "counted" ELSE "denied")
       \/ StatementFails(r)
    /\ UNCHANGED <<users, sessions, who, cookie, carried>>

(* ... the checks of the form, and CreateUser, where users.email is UNIQUE. *)
RefuseForm(r) ==
    /\ call[r] = "counted"
    /\ ~TokenRight(r) \/ Form[r].password \notin LongEnough
    /\ CallGoes(r, "denied")
    /\ UNCHANGED <<users, sessions, who, cookie, carried>>

CreateUser(r) ==
    /\ call[r] = "counted"
    /\ TokenRight(r) /\ Form[r].password \in LongEnough
    /\ \A u \in users : u.email # Account(r).email
    /\ users' = users \cup {Account(r)}
    /\ who' = [who EXCEPT ![r] = r]
    /\ \/ CallGoes(r, "known")
       \/ "dbReply" \in DbFaults /\ CallGoes(r, "error")
    /\ UNCHANGED <<sessions, cookie, carried>>

CreateUserFails(r) ==
    /\ call[r] = "counted"
    /\ TokenRight(r) /\ Form[r].password \in LongEnough
    /\ \/ CallGoes(r, "error") /\ \E u \in users : u.email = Account(r).email
       \/ StatementFails(r)
    /\ UNCHANGED <<users, sessions, who, cookie, carried>>

(* handleLogin up to startSession. *)
FindAccount(r) ==
    /\ call[r] = "idle"
    /\ \/ \E u \in Opened(r) : who' = [who EXCEPT ![r] = u.id] /\ CallGoes(r, "known")
       \/ Opened(r) = {} /\ CallGoes(r, "denied") /\ UNCHANGED who
       \/ StatementFails(r) /\ UNCHANGED who
    /\ UNCHANGED <<users, sessions, cookie, carried>>

(* startSession, called by both.  Its error is the answer: what its caller *)
(* writes after it comes too late.                                         *)
StartSession(r) ==
    /\ call[r] = "known"
    /\ \/ sessions' = sessions \cup {r} /\ CallGoes(r, "answered")
       \/ "dbReply" \in DbFaults /\ sessions' = sessions \cup {r} /\ CallGoes(r, "error")
       \/ StatementFails(r) /\ UNCHANGED sessions
    /\ UNCHANGED <<users, who, cookie, carried>>

ReceiveSession(r) ==
    /\ r \in Setups \cup Logins /\ call[r] = "answered"
    /\ cookie' = [cookie EXCEPT ![BrowserOf[r]] = r]
    /\ CallGoes(r, "ok")
    /\ UNCHANGED <<users, sessions, who, carried>>

(* A logout or a dashboard request leaves the browser with its cookie. *)
SendCookie(r) ==
    /\ call[r] = "idle"
    /\ carried' = [carried EXCEPT ![r] = cookie[BrowserOf[r]]]
    /\ CallGoes(r, "sent")
    /\ UNCHANGED <<users, sessions, who, cookie>>

(* handleLogout: the error of DeleteSession is dropped. *)
DropSession(r) ==
    /\ call[r] = "sent"
    /\ \/ sessions' = sessions \ {carried[r]}
       \/ "db" \in DbFaults /\ UNCHANGED sessions
    /\ CallGoes(r, "answered")
    /\ UNCHANGED <<users, who, cookie, carried>>

ClearCookie(r) ==
    /\ r \in Logouts /\ call[r] = "answered"
    /\ cookie' = [cookie EXCEPT ![BrowserOf[r]] = NoSession]
    /\ CallGoes(r, "ok")
    /\ UNCHANGED <<users, sessions, who, carried>>

(* requireAuth: GetSession and GetUserByID; every error is a 401.  Rows of *)
(* users are never deleted.                                                *)
RequireAuth(r) ==
    /\ call[r] = "sent"
    /\ \/ /\ carried[r] \in sessions
          /\ who' = [who EXCEPT ![r] = who[carried[r]]]
          /\ CallGoes(r, "ok")
       \/ /\ carried[r] \notin sessions \/ "db" \in DbFaults
          /\ CallGoes(r, "denied")
          /\ UNCHANGED who
    /\ UNCHANGED <<users, sessions, cookie, carried>>

(* 30 days pass.  Browser and server go by their own clocks: a browser may *)
(* still send the cookie of a session that has expired.                    *)
Expire(s) ==
    /\ s \in sessions
    /\ sessions' = sessions \ {s}
    /\ UNCHANGED <<users, who, cookie, carried, call>>

(* The process that serves these requests stops. *)
LoseCalls(R) ==
    /\ call' = [r \in Requests |->
                   IF r \in R /\ call[r] \in {"sent", "counted", "known", "answered"}
                   THEN "lost" ELSE call[r]]
    /\ UNCHANGED <<users, sessions, who, cookie, carried>>

Handle(r) ==
    \/ r \in Setups /\ (CountUsers(r) \/ RefuseForm(r) \/ CreateUser(r) \/ CreateUserFails(r))
    \/ r \in Logins /\ FindAccount(r)
    \/ r \in Setups \cup Logins /\ StartSession(r)
    \/ r \in Logouts \cup Checks /\ SendCookie(r)
    \/ r \in Logouts /\ DropSession(r)
    \/ r \in Checks /\ RequireAuth(r)

Receive(r) == ReceiveSession(r) \/ ClearCookie(r)

-----------------------------------------------------------------------------
(* Whoever types the email, in any case, and the password of an account    *)
(* that exists is never told they are wrong, however the account came to   *)
(* be there: also when its setup was answered 500 or not at all            *)
(* (auth_handlers.go:72-79, 93).                                           *)
AccountHolderGetsIn ==
    [][\A r \in Logins, s \in Setups :
          (/\ \E u \in users : u.id = s
           /\ Lower(Form[r].email) = Lower(Form[s].email)
           /\ Form[r].password = Form[s].password)
          => ~(call[r] # "denied" /\ call'[r] = "denied")]_accountVars

(* A dashboard request is served for an account of which its session, or   *)
(* the setup that started it, typed the email and the password, and the    *)
(* setup typed the token.                                                  *)
ServedToHolder ==
    \A c \in Checks : call[c] = "ok" =>
        LET session == carried[c]  account == who[c]
        IN  /\ \E u \in users : u.id = account
            /\ TokenRight(account)
            /\ Form[session].password = Form[account].password
            /\ Lower(Form[session].email) = Lower(Form[account].email)

(* Once a browser has been told that it is logged out, no request carries  *)
(* the session it gave up again: also when the row could not be deleted,   *)
(* and when another tab's requests overlap (auth_handlers.go:114-126).     *)
LoggedOutStaysOut ==
    \A r \in Logouts : call[r] = "ok" /\ carried[r] # NoSession =>
        /\ \A b \in Browsers : cookie[b] # carried[r]
        /\ "db" \notin DbFaults => carried[r] \notin sessions

(* There is one administrator: setup creates the first admin account and   *)
(* is only reachable while no user exists (auth_handlers.go:31-34).        *)
OneAdmin == Cardinality(users) <= 1
=============================================================================
