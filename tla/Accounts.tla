------------------------------ MODULE Accounts ------------------------------
(***************************************************************************)
(* Users and sessions: user.c, session.c and the handlers of route_pages.c *)
(* that log in, register, log out and choose a page by the session's user. *)
(*                                                                         *)
(* users is the table, indexed by id (AUTOINCREMENT, rows are neither      *)
(* changed nor deleted).  sessions is s_sessions as the finite map that    *)
(* HashTable implements; an entry keeps its age instead of createdAt.  jar *)
(* is what the browsers remember: the sid cookie, and, as history, who     *)
(* logged in to get it.                                                    *)
(*                                                                         *)
(* A password is right or wrong; names and cities are opaque.  Tokens are  *)
(* 128 random bits.  A draw may collide with a session in the table, which *)
(* is what session_create guards against, but is taken never to hit a dead *)
(* token that some browser still remembers.                                *)
(***************************************************************************)
EXTENDS Naturals, Sequences, FiniteSets

CONSTANTS
  Names,            \* usernames
  Cities,           \* municipalities of the geo table
  Browsers,
  Trailing,         \* browsers that send another cookie after sid
  Tokens,
  SESSION_MAX_AGE,  \* in ticks
  DbFaults,         \* statements that may fail: "admin", "insert", "operators"
  MaxUsers,         \* bound on the users table
  NULL

ASSUME AgeAssumption == SESSION_MAX_AGE \in Nat
ASSUME BoundAssumption == MaxUsers \in Nat
ASSUME BrowserAssumption == Trailing \subseteq Browsers
ASSUME NullAssumption == NULL \notin Tokens

VARIABLES
  users,     \* the users table
  sessions,  \* token -> NULL or the Session stored under it
  jar,       \* browser -> NULL or its sid cookie
  resp       \* the latest response: page, whose it is, and who asked

vars == <<users, sessions, jar, resp>>

-----------------------------------------------------------------------------
(* user.c                                                                  *)

Ids == DOMAIN users

\* UserRole.
Roles == {"citizen", "operator", "admin"}

Fails(statement) == statement \in DbFaults

\* A response that shows nothing of any user.
Answer(page) == [page |-> page, of |-> NULL, by |-> NULL, body |-> {}]

\* Mutant of AdminExists: the SELECT looks for the name, not for the office.
AdminExistsByName(name, city) == \E i \in Ids : users[i].name = name

\* The SELECT of user_register_admin finds a row.
AdminExists(name, city) == \E i \in Ids : users[i].role = "admin" /\ users[i].city = city

\* INSERT INTO users: username is UNIQUE.
Taken(name) == \E i \in Ids : users[i].name = name

user_register(name, city, role) ==
  \/ /\ ~Taken(name)
     /\ users' = Append(users, [name |-> name, city |-> city, role |-> role])
     /\ resp' = Answer("redirect")
  \/ /\ Taken(name) \/ Fails("insert")
     /\ resp' = Answer("register_error")
     /\ UNCHANGED users

\* A SELECT that fails finds no row.
user_register_admin(name, city) ==
  \/ /\ AdminExists(name, city)
     /\ resp' = Answer("register_error")
     /\ UNCHANGED users
  \/ /\ ~AdminExists(name, city) \/ Fails("admin")
     /\ user_register(name, city, "admin")

Operators(city) == {i \in Ids : users[i].role = "operator" /\ users[i].city = city}

-----------------------------------------------------------------------------
(* session.c                                                               *)

Expired(s) == s.age > SESSION_MAX_AGE

\* session_verify succeeds.
Valid(t) == t \in Tokens /\ sessions[t] # NULL /\ ~Expired(sessions[t])

\* Mutant of Verified: every use starts the session's day anew.
VerifiedRenews(t) ==
  IF Valid(t) THEN [sessions EXCEPT ![t].age = 0]
  ELSE IF t \in Tokens THEN [sessions EXCEPT ![t] = NULL] ELSE sessions

\* The table after session_verify: an expired entry is deleted on first use.
Verified(t) ==
  IF t \in Tokens /\ ~Valid(t) THEN [sessions EXCEPT ![t] = NULL] ELSE sessions

\* Mutant of Drawn: the loop does not look at the table.
DrawnUnchecked == {t \in Tokens : Valid(t) \/ \A b \in Browsers : jar[b] = NULL \/ jar[b].token # t}

\* The tokens the loop of session_create can end with.
Drawn == {t \in Tokens : ~Valid(t) /\ \A b \in Browsers : jar[b] = NULL \/ jar[b].token # t}

\* session_create for user i in browser b; b may not receive the cookie.
\* It fails when ht_set does, or when every try hits a live session.
session_create(b, i) ==
  \/ \E t \in Drawn, received \in BOOLEAN :
       /\ sessions' = [sessions EXCEPT ![t] = [user |-> i, row |-> users[i], age |-> 0]]
       /\ jar' = IF received THEN [jar EXCEPT ![b] = [token |-> t, by |-> i]] ELSE jar
       /\ resp' = Answer("redirect")
  \/ /\ \/ \E t \in Drawn : sessions' = Verified(t)
        \/ UNCHANGED sessions
     /\ resp' = Answer("login_error")
     /\ UNCHANGED jar

-----------------------------------------------------------------------------
(* route_helpers.c, route_pages.c, route_api.c                             *)

TOKEN_HEX_LEN == 32

\* http_request_cookie into a buffer of max bytes.  url_decode stops at a
\* space, not at ';', so a value that another cookie follows ends with ';'
\* unless the buffer is full before.
CookieValue(b, max) ==
  IF jar[b] = NULL THEN NULL
  ELSE IF b \in Trailing /\ max > TOKEN_HEX_LEN + 1 THEN <<jar[b].token, ";">>
  ELSE jar[b].token

\* get_session_user: the session of b's cookie, NULL without a valid one.
SessionOf(b) ==
  LET t == CookieValue(b, TOKEN_HEX_LEN + 1) IN IF Valid(t) THEN sessions[t] ELSE NULL

RoleIn(s) == IF s = NULL THEN "stranger" ELSE s.row.role

\* A handler that starts with get_session_user and answers with the page for
\* the user's role, and one of bodies.
Serve(b, pages, bodies) ==
  LET s == SessionOf(b)
  IN  /\ sessions' = Verified(CookieValue(b, TOKEN_HEX_LEN + 1))
      /\ IF s = NULL THEN resp' = Answer(pages["stranger"])
         ELSE \E body \in bodies :
                resp' = [page |-> pages[RoleIn(s)], of |-> s.user, by |-> jar[b].by, body |-> body]
      /\ UNCHANGED <<users, jar>>

route_get_root(b) ==
  Serve(b, [r \in Roles \cup {"stranger"} |-> IF r = "stranger" THEN "login" ELSE "redirect"],
        {{}})

HomePage == [stranger |-> "redirect", citizen |-> "citizen_home",
             operator |-> "operator_map", admin |-> "admin_map"]

route_get_home(b) == Serve(b, HomePage, {{}})

route_get_submit(b) ==
  Serve(b, [r \in Roles \cup {"stranger"} |-> IF r = "citizen" THEN "submit" ELSE "redirect"],
        {{}})

\* user_get_operators_json for an admin: a cursor that fails yields fewer.
OperatorLists(s) ==
  IF RoleIn(s) # "admin" THEN {{}}
  ELSE IF Fails("operators") THEN SUBSET Operators(s.row.city)
  ELSE {Operators(s.row.city)}

route_api_operators(b) ==
  Serve(b, [r \in Roles \cup {"stranger"} |-> IF r = "admin" THEN "operators" ELSE "forbidden"],
        OperatorLists(SessionOf(b)))

\* The session is deleted under the value read from the cookie; the browser
\* drops the cookie when it receives the answer.
route_get_logout(b) ==
  LET t == CookieValue(b, TOKEN_HEX_LEN + 2)
  IN  /\ sessions' = IF t \in Tokens THEN [sessions EXCEPT ![t] = NULL] ELSE sessions
      /\ jar' \in {jar, [jar EXCEPT ![b] = NULL]}
      /\ resp' = Answer("logged_out")
      /\ UNCHANGED users

\* Wrong name, wrong password or a failed SELECT, or a session for user i.
route_post_login(b) ==
  \/ /\ resp' = Answer("login_error")
     /\ UNCHANGED <<users, sessions, jar>>
  \/ \E i \in Ids : session_create(b, i) /\ UNCHANGED users

\* Mutant of RoleOf: the number is cast to UserRole.
RoleOfCast(code) == <<"citizen", "operator", "admin", "none">>[code + 1]

\* The role field; any number but 1 and 2 is a citizen's.
RoleOf(code) == CASE code = 2 -> "admin" [] code = 1 -> "operator" [] OTHER -> "citizen"

\* An empty field, a short password, an unknown city; then the role decides.
route_post_register ==
  /\ \/ /\ resp' = Answer("register_error")
        /\ UNCHANGED users
     \/ \E name \in Names, city \in Cities, code \in 0..3 :
          /\ Len(users) < MaxUsers
          /\ IF RoleOf(code) = "admin" THEN user_register_admin(name, city)
             ELSE user_register(name, city, RoleOf(code))
  /\ UNCHANGED <<sessions, jar>>

-----------------------------------------------------------------------------
(* The environment                                                         *)

\* The browser drops the cookie: its Max-Age is over, or it is cleared.
Forget(b) ==
  /\ jar[b] # NULL
  /\ jar' = [jar EXCEPT ![b] = NULL]
  /\ UNCHANGED <<users, sessions, resp>>

\* Time passes; ages beyond the limit are not told apart.
Tick ==
  /\ sessions' = [t \in Tokens |->
                    IF sessions[t] = NULL \/ Expired(sessions[t]) THEN sessions[t]
                    ELSE [sessions[t] EXCEPT !.age = @ + 1]]
  /\ UNCHANGED <<users, jar, resp>>

\* The table of users survives a restart, the sessions do not.
Restart ==
  /\ sessions' = [t \in Tokens |-> NULL]
  /\ UNCHANGED <<users, jar, resp>>

Init ==
  /\ users = <<>>
  /\ sessions = [t \in Tokens |-> NULL]
  /\ jar = [b \in Browsers |-> NULL]
  /\ resp = Answer("none")

Visit(b) ==
  \/ route_get_root(b) \/ route_get_home(b) \/ route_get_submit(b)
  \/ route_api_operators(b) \/ route_get_logout(b) \/ route_post_login(b)

Next ==
  \/ \E b \in Browsers : Visit(b) \/ Forget(b)
  \/ route_post_register \/ Tick \/ Restart

Spec == Init /\ [][Next]_vars

\* Only time is sure to pass; no browser need do anything.
FairSpec == Spec /\ WF_vars(Tick)

-----------------------------------------------------------------------------
(* Properties.                                                             *)

Pages == {"none", "login", "redirect", "forbidden", "login_error", "register_error", "logged_out",
          "citizen_home", "operator_map", "admin_map", "submit", "operators"}

Response == [page : Pages, of : Ids \cup {NULL}, by : Ids \cup {NULL}, body : SUBSET Ids]

TypeOK ==
  /\ users \in Seq([name : Names, city : Cities, role : Roles])
  /\ sessions \in [Tokens -> {NULL} \cup
       [user : Ids, row : [name : Names, city : Cities, role : Roles],
        age : 0..(SESSION_MAX_AGE + 1)]]
  /\ jar \in [Browsers -> {NULL} \cup [token : Tokens, by : Ids]]
  /\ resp \in Response

\* Whoever is served as a user is the one who logged in as that user in this
\* browser, and gets the page of the role and the operators of the city that
\* the table has for that user, whatever logins, logouts, expiries, lost
\* answers and restarts came between (session.c, route_helpers.c).
ServedAsSelf ==
  resp.of # NULL =>
    /\ resp.of = resp.by
    /\ resp.page \in {"citizen_home", "operator_map", "admin_map"}
         => resp.page = HomePage[users[resp.by].role]
    /\ resp.body \subseteq Operators(users[resp.by].city)

\* The municipality has one administration, which sees all its reports
\* (user.c, user_register_admin; user.h ROLE_ADMIN "one per city"), as long
\* as the SELECT that looks for it does not fail.
OneAdminPerCity ==
  \A i, j \in Ids :
    users[i].role = "admin" /\ users[j].role = "admin" /\ users[i].city = users[j].city
      => i = j

\* A session ends, however often it is used: session_verify does not renew
\* it (session.h SESSION_MAX_AGE "Maximum session lifetime").
SessionsEnd == \A t \in Tokens : Valid(t) ~> ~Valid(t)

\* route_pages.h:40 "GET /logout -- destroys the session and redirects to /."
LogoutEndsSession ==
  [][\A b \in Browsers :
       jar[b] # NULL /\ route_get_logout(b) => sessions'[jar[b].token] = NULL]_vars
=============================================================================
