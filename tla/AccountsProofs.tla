--------------------------- MODULE AccountsProofs ---------------------------
(***************************************************************************)
(* Proofs about Accounts, for any names, cities, browsers, tokens, session *)
(* lifetime and, but for OneAdminPerCity, any failing statements.          *)
(***************************************************************************)
EXTENDS Accounts, TLAPS

Row == [name : Names, city : Cities, role : Roles]
Session == [user : Ids, row : Row, age : 0..(SESSION_MAX_AGE + 1)]
Cookie == [token : Tokens, by : Ids]

\* A session is its user's: the copy of the row made at login is still the
\* row, as rows are neither changed nor deleted.
SessionsTrue == \A t \in Tokens : sessions[t] # NULL => sessions[t].row = users[sessions[t].user]

\* A cookie that still opens a session opens the one its browser logged in to.
JarTrue ==
  \A b \in Browsers :
    jar[b] # NULL /\ sessions[jar[b].token] # NULL => sessions[jar[b].token].user = jar[b].by

\* The inductive invariant.  The response alone does not say why the next
\* one will be right: SessionsTrue and JarTrue do.
Inv == TypeOK /\ SessionsTrue /\ JarTrue /\ ServedAsSelf

\* A response that shows nothing of any user satisfies what is asked of it.
LEMMA AnswerOK ==
  ASSUME NEW page \in Pages
  PROVE  Answer(page) \in Response /\ Answer(page).of = NULL
BY DEF Answer, Response

\* Deleting sessions and cookies, or letting sessions age, breaks nothing.
LEMMA FewerOK ==
  ASSUME Inv, users' = users,
         sessions' \in [Tokens -> {NULL} \cup Session],
         \A t \in Tokens : sessions'[t] = NULL \/
           (/\ sessions[t] # NULL
            /\ sessions'[t].user = sessions[t].user /\ sessions'[t].row = sessions[t].row),
         \A b \in Browsers : jar'[b] = NULL \/ jar'[b] = jar[b],
         jar' \in [Browsers -> {NULL} \cup Cookie],
         resp' \in Response, resp'.of = NULL \/ resp' = resp
  PROVE  Inv'
<1>1. TypeOK'
  BY DEF Inv, TypeOK, Row, Session, Cookie, Ids, Response
<1>2. SessionsTrue'
  BY DEF Inv, SessionsTrue
<1>3. JarTrue'
  <2> SUFFICES ASSUME NEW b \in Browsers, jar'[b] # NULL, sessions'[jar'[b].token] # NULL
               PROVE  sessions'[jar'[b].token].user = jar'[b].by
    BY DEF JarTrue
  <2>1. jar'[b] = jar[b] /\ jar[b] \in Cookie
    OBVIOUS
  <2>2. jar[b].token \in Tokens
    BY <2>1 DEF Cookie
  <2> QED
    BY <2>1, <2>2 DEF Inv, JarTrue
<1>4. ServedAsSelf'
  BY DEF Inv, ServedAsSelf, Operators, Ids
<1> QED
  BY <1>1, <1>2, <1>3, <1>4 DEF Inv

\* session_verify only deletes.
LEMMA VerifiedOK ==
  ASSUME Inv, NEW t
  PROVE  /\ Verified(t) \in [Tokens -> {NULL} \cup Session]
         /\ \A u \in Tokens : Verified(t)[u] = NULL \/ Verified(t)[u] = sessions[u]
BY DEF Inv, TypeOK, Verified, Session, Row

\* get_session_user finds nothing, or the session of the user who logged in.
LEMMA SessionOfOK ==
  ASSUME Inv, NEW b \in Browsers, SessionOf(b) # NULL
  PROVE  /\ SessionOf(b) \in Session
         /\ SessionOf(b).row = users[SessionOf(b).user]
         /\ SessionOf(b).user = jar[b].by
<1> DEFINE t == CookieValue(b, TOKEN_HEX_LEN + 1)
<1>1. Valid(t) /\ SessionOf(b) = sessions[t]
  BY DEF SessionOf
<1>2. t \in Tokens /\ sessions[t] # NULL
  BY <1>1 DEF Valid
<1>3. jar[b] # NULL /\ t = jar[b].token
  BY <1>2, NullAssumption DEF CookieValue, TOKEN_HEX_LEN
<1>4. sessions[t] \in Session
  BY <1>2 DEF Inv, TypeOK, Session, Row
<1> QED
  BY <1>1, <1>2, <1>3, <1>4 DEF Inv, SessionsTrue, JarTrue

\* A page is served to the session's user, or to nobody.
LEMMA ServeOK ==
  ASSUME Inv, NEW b \in Browsers,
         NEW pages, \A r \in Roles \cup {"stranger"} : pages[r] \in Pages,
         \A r \in Roles :
           pages[r] \in {"citizen_home", "operator_map", "admin_map"} => pages[r] = HomePage[r],
         NEW bodies,
         SessionOf(b) # NULL =>
           \A body \in bodies : body \subseteq Operators(SessionOf(b).row.city),
         Serve(b, pages, bodies)
  PROVE  Inv'
<1> DEFINE s == SessionOf(b)
           t == CookieValue(b, TOKEN_HEX_LEN + 1)
<1>1. /\ sessions' = Verified(t)
      /\ users' = users /\ jar' = jar
  BY DEF Serve
<1>2. /\ sessions' \in [Tokens -> {NULL} \cup Session]
      /\ \A u \in Tokens : sessions'[u] = NULL \/ sessions'[u] = sessions[u]
  <2> HIDE DEF t
  <2> QED
    BY <1>1, VerifiedOK
<1>3. jar' \in [Browsers -> {NULL} \cup Cookie]
  BY <1>1 DEF Inv, TypeOK, Cookie
<1>4. CASE s = NULL
  <2>1. resp' = Answer(pages["stranger"])
    BY <1>4 DEF Serve
  <2>2. resp' \in Response /\ resp'.of = NULL
    BY <2>1, AnswerOK
  <2> HIDE DEF s, t
  <2> QED
    BY <1>1, <1>2, <1>3, <2>2, FewerOK
<1>5. CASE s # NULL
  <2>1. PICK body \in bodies :
          resp' = [page |-> pages[RoleIn(s)], of |-> s.user, by |-> jar[b].by, body |-> body]
    BY <1>5 DEF Serve
  <2>2. s \in Session /\ s.row = users[s.user] /\ s.user = jar[b].by
    BY <1>5, SessionOfOK
  <2> HIDE DEF s, t
  <2>3. s.user \in Ids /\ s.row \in Row /\ RoleIn(s) = s.row.role /\ s.row.role \in Roles
    BY <1>5, <2>2 DEF Session, Row, RoleIn
  <2>4. body \subseteq Operators(s.row.city) /\ body \subseteq Ids
    BY <1>5, <2>1 DEF Operators, s
  <2>5. pages[RoleIn(s)] \in Pages
    BY <2>3
  <2>6. resp' \in Response
    BY <2>1, <2>2, <2>3, <2>4, <2>5 DEF Response
  <2>7. TypeOK'
    BY <1>1, <1>2, <1>3, <2>6 DEF Inv, TypeOK, Session, Cookie, Row, Ids, Response
  <2>8. SessionsTrue'
    BY <1>1, <1>2 DEF Inv, SessionsTrue
  <2>9. JarTrue'
    <3>1. \A c \in Browsers : jar[c] # NULL => jar[c].token \in Tokens
      BY DEF Inv, TypeOK
    <3> QED
      BY <1>1, <1>2, <3>1 DEF Inv, JarTrue
  <2>10. ServedAsSelf'
    BY <1>1, <2>1, <2>2, <2>3, <2>4 DEF ServedAsSelf, Operators, Ids
  <2> QED
    BY <2>7, <2>8, <2>9, <2>10 DEF Inv
<1> QED
  BY <1>4, <1>5

\* Whoever asks, each handler that starts with get_session_user is a Serve.
LEMMA PagesOK ==
  ASSUME Inv, NEW b \in Browsers,
         \/ route_get_root(b) \/ route_get_home(b)
         \/ route_get_submit(b) \/ route_api_operators(b)
  PROVE  Inv'
<1>1. CASE route_get_root(b)
  <2> DEFINE pages == [r \in Roles \cup {"stranger"} |-> IF r = "stranger" THEN "login" ELSE "redirect"]
  <2>1. Serve(b, pages, {{}})
    BY <1>1 DEF route_get_root
  <2>2. \A r \in Roles \cup {"stranger"} : pages[r] \in Pages
    BY DEF Pages
  <2>3. \A r \in Roles : pages[r] = "redirect"
    BY DEF Roles
  <2> HIDE DEF pages
  <2> QED
    BY <2>1, <2>2, <2>3, ServeOK
<1>2. CASE route_get_home(b)
  <2>1. Serve(b, HomePage, {{}})
    BY <1>2 DEF route_get_home
  <2>2. \A r \in Roles \cup {"stranger"} : HomePage[r] \in Pages
    BY DEF HomePage, Roles, Pages
  <2> QED
    BY <2>1, <2>2, ServeOK
<1>3. CASE route_get_submit(b)
  <2> DEFINE pages == [r \in Roles \cup {"stranger"} |-> IF r = "citizen" THEN "submit" ELSE "redirect"]
  <2>1. Serve(b, pages, {{}})
    BY <1>3 DEF route_get_submit
  <2>2. \A r \in Roles \cup {"stranger"} : pages[r] \in Pages
    BY DEF Pages
  <2>3. \A r \in Roles : pages[r] \in {"submit", "redirect"}
    BY DEF Roles
  <2> HIDE DEF pages
  <2> QED
    BY <2>1, <2>2, <2>3, ServeOK
<1>4. CASE route_api_operators(b)
  <2> DEFINE pages == [r \in Roles \cup {"stranger"} |-> IF r = "admin" THEN "operators" ELSE "forbidden"]
             bodies == OperatorLists(SessionOf(b))
  <2>1. Serve(b, pages, bodies)
    BY <1>4 DEF route_api_operators
  <2>2. \A r \in Roles \cup {"stranger"} : pages[r] \in Pages
    BY DEF Pages
  <2>3. \A r \in Roles : pages[r] \in {"operators", "forbidden"}
    BY DEF Roles
  <2>4. \A body \in bodies : body \subseteq Operators(SessionOf(b).row.city)
    BY DEF OperatorLists
  <2> HIDE DEF pages, bodies
  <2> QED
    BY <2>1, <2>2, <2>3, <2>4, ServeOK
<1> QED
  BY <1>1, <1>2, <1>3, <1>4

\* A new row moves no other, so all that was true stays true.
LEMMA RegisterOK ==
  ASSUME Inv, route_post_register
  PROVE  Inv'
<1>1. users' = users \/ \E row \in Row : users' = Append(users, row)
  <2>1. ASSUME NEW name \in Names, NEW city \in Cities, NEW role \in Roles,
               user_register(name, city, role)
        PROVE  users' = users \/ \E row \in Row : users' = Append(users, row)
    BY <2>1 DEF user_register, Row
  <2>2. "admin" \in Roles /\ \A code \in 0..3 : RoleOf(code) \in Roles
    BY DEF Roles, RoleOf
  <2> QED
    BY <2>1, <2>2 DEF route_post_register, user_register_admin
<1>2. resp' \in {Answer("redirect"), Answer("register_error")}
  BY DEF route_post_register, user_register, user_register_admin
<1>3. /\ users \in Seq(Row) /\ users' \in Seq(Row)
      /\ Ids \subseteq Ids' /\ \A i \in Ids : users'[i] = users[i]
  <2>1. users \in Seq(Row)
    BY DEF Inv, TypeOK, Row
  <2>2. ASSUME NEW row \in Row, users' = Append(users, row)
        PROVE  /\ users' \in Seq(Row)
               /\ Ids \subseteq Ids' /\ \A i \in Ids : users'[i] = users[i]
    BY <2>1, <2>2 DEF Ids
  <2> QED
    BY <1>1, <2>1, <2>2 DEF Ids
<1>4. sessions' = sessions /\ jar' = jar
  BY DEF route_post_register
<1>5. resp'.of = NULL /\ resp' \in Response'
  BY <1>2 DEF Answer, Response, Pages
<1>6. sessions \in [Tokens -> {NULL} \cup Session] /\ jar \in [Browsers -> {NULL} \cup Cookie]
  BY DEF Inv, TypeOK, Session, Cookie, Row
<1>7. Session \subseteq Session' /\ Cookie \subseteq Cookie'
  BY <1>3 DEF Session, Cookie
<1>8. TypeOK'
  <2>1. sessions' \in [Tokens -> {NULL} \cup Session'] /\ jar' \in [Browsers -> {NULL} \cup Cookie']
    BY <1>4, <1>6, <1>7
  <2> QED
    BY <1>3, <1>5, <2>1 DEF TypeOK, Session, Cookie, Row
<1>9. SessionsTrue'
  BY <1>3, <1>4, <1>6 DEF Inv, SessionsTrue, Session
<1>10. JarTrue'
  BY <1>4 DEF Inv, JarTrue
<1>11. ServedAsSelf'
  BY <1>5 DEF ServedAsSelf
<1> QED
  BY <1>8, <1>9, <1>10, <1>11 DEF Inv

\* A session is given a token that no browser's cookie names, so the cookies
\* that are out still open what they opened.
LEMMA LoginOK ==
  ASSUME Inv, NEW b \in Browsers, route_post_login(b)
  PROVE  Inv'
<1> DEFINE Stored(t, i) == [sessions EXCEPT ![t] = [user |-> i, row |-> users[i], age |-> 0]]
<1>1. /\ sessions \in [Tokens -> {NULL} \cup Session] /\ jar \in [Browsers -> {NULL} \cup Cookie]
      /\ users \in Seq(Row) /\ users' = users
  BY DEF Inv, TypeOK, Session, Cookie, Row, route_post_login
<1>2. resp' \in Response /\ resp'.of = NULL
  <2>1. resp' \in {Answer("redirect"), Answer("login_error")}
    BY DEF route_post_login, session_create
  <2> QED
    BY <2>1 DEF Answer, Response, Pages
<1>3. CASE jar' = jar /\ (sessions' = sessions \/ \E t \in Drawn : sessions' = Verified(t))
  <2>1. /\ sessions' \in [Tokens -> {NULL} \cup Session]
        /\ \A u \in Tokens : sessions'[u] = NULL \/ sessions'[u] = sessions[u]
    BY <1>1, <1>3, VerifiedOK
  <2> QED
    BY <1>1, <1>2, <1>3, <2>1, FewerOK
<1>4. ASSUME NEW t \in Drawn, NEW i \in Ids, sessions' = Stored(t, i),
             jar' = jar \/ jar' = [jar EXCEPT ![b] = [token |-> t, by |-> i]]
      PROVE  Inv'
  <2>1. t \in Tokens /\ \A c \in Browsers : jar[c] = NULL \/ jar[c].token # t
    BY DEF Drawn
  <2>2. users[i] \in Row /\ 0 \in 0..(SESSION_MAX_AGE + 1)
    BY <1>1, AgeAssumption DEF Ids
  <2>3. [user |-> i, row |-> users[i], age |-> 0] \in Session
    BY <2>2 DEF Session
  <2>4. sessions' \in [Tokens -> {NULL} \cup Session]
    BY <1>1, <1>4, <2>1, <2>3
  <2>5. jar' \in [Browsers -> {NULL} \cup Cookie]
    BY <1>1, <1>4, <2>1 DEF Cookie
  <2>6. TypeOK'
    BY <1>1, <1>2, <2>4, <2>5 DEF TypeOK, Session, Cookie, Row, Ids, Response
  <2>7. SessionsTrue'
    BY <1>1, <1>4, <2>1 DEF Inv, SessionsTrue
  <2>8. JarTrue'
    <3> SUFFICES ASSUME NEW c \in Browsers, jar'[c] # NULL, sessions'[jar'[c].token] # NULL
                 PROVE  sessions'[jar'[c].token].user = jar'[c].by
      BY DEF JarTrue
    <3>1. CASE jar'[c] = jar[c]
      <4>1. jar[c].token \in Tokens /\ jar[c].token # t
        BY <1>1, <2>1, <3>1 DEF Cookie
      <4> QED
        BY <1>1, <1>4, <3>1, <4>1 DEF Inv, JarTrue
    <3>2. CASE jar'[c] = [token |-> t, by |-> i]
      BY <1>1, <1>4, <2>1, <3>2
    <3> QED
      BY <1>1, <1>4, <3>1, <3>2
  <2>9. ServedAsSelf'
    BY <1>2 DEF ServedAsSelf
  <2> QED
    BY <2>6, <2>7, <2>8, <2>9 DEF Inv
<1> QED
  BY <1>3, <1>4 DEF route_post_login, session_create

\* Every step keeps the invariant.
LEMMA NextOK ==
  ASSUME Inv, [Next]_vars
  PROVE  Inv'
<1>1. /\ sessions \in [Tokens -> {NULL} \cup Session] /\ jar \in [Browsers -> {NULL} \cup Cookie]
      /\ resp \in Response
  BY DEF Inv, TypeOK, Session, Cookie, Row
<1>2. ASSUME NEW b \in Browsers, Visit(b)
      PROVE  Inv'
  <2>1. CASE route_get_logout(b)
    <3>1. /\ users' = users /\ jar' \in {jar, [jar EXCEPT ![b] = NULL]}
          /\ resp' = Answer("logged_out")
      BY <2>1 DEF route_get_logout
    <3>2. PICK t : sessions' = IF t \in Tokens THEN [sessions EXCEPT ![t] = NULL] ELSE sessions
      BY <2>1 DEF route_get_logout
    <3>3. resp' \in Response /\ resp'.of = NULL
      BY <3>1 DEF Answer, Response, Pages
    <3>4. /\ sessions' \in [Tokens -> {NULL} \cup Session]
          /\ \A u \in Tokens : sessions'[u] = NULL \/ sessions'[u] = sessions[u]
      BY <1>1, <3>2
    <3>5. /\ jar' \in [Browsers -> {NULL} \cup Cookie]
          /\ \A c \in Browsers : jar'[c] = NULL \/ jar'[c] = jar[c]
      BY <1>1, <3>1
    <3> QED
      BY <3>1, <3>3, <3>4, <3>5, FewerOK
  <2> QED
    BY <1>2, <2>1, PagesOK, LoginOK DEF Visit
<1>3. ASSUME NEW b \in Browsers, Forget(b)
      PROVE  Inv'
  <2>1. /\ users' = users /\ sessions' = sessions /\ resp' = resp
        /\ jar' = [jar EXCEPT ![b] = NULL]
    BY <1>3 DEF Forget
  <2> QED
    BY <1>1, <2>1, FewerOK
<1>4. CASE Tick
  <2>1. users' = users /\ jar' = jar /\ resp' = resp
    BY <1>4 DEF Tick
  <2>2. ASSUME NEW t \in Tokens
        PROVE  /\ sessions'[t] \in {NULL} \cup Session
               /\ sessions'[t] = NULL \/
                    (/\ sessions[t] # NULL
                     /\ sessions'[t].user = sessions[t].user /\ sessions'[t].row = sessions[t].row)
    <3>1. CASE sessions[t] = NULL \/ Expired(sessions[t])
      BY <1>1, <1>4, <3>1 DEF Tick
    <3>2. CASE sessions[t] # NULL /\ ~Expired(sessions[t])
      <4>1. sessions'[t] = [sessions[t] EXCEPT !.age = @ + 1]
        BY <1>4, <3>2 DEF Tick
      <4>2. sessions[t] \in Session /\ sessions[t].age + 1 \in 0..(SESSION_MAX_AGE + 1)
        BY <1>1, <3>2, AgeAssumption DEF Expired, Session
      <4> QED
        BY <3>2, <4>1, <4>2 DEF Session
    <3> QED
      BY <3>1, <3>2
  <2>3. sessions' \in [Tokens -> {NULL} \cup Session]
    BY <1>4, <2>2 DEF Tick
  <2> QED
    BY <1>1, <2>1, <2>2, <2>3, FewerOK
<1>5. CASE Restart
  <2>1. /\ users' = users /\ jar' = jar /\ resp' = resp
        /\ sessions' = [t \in Tokens |-> NULL]
    BY <1>5 DEF Restart
  <2> QED
    BY <1>1, <2>1, FewerOK
<1>6. CASE UNCHANGED vars
  BY <1>1, <1>6, FewerOK DEF vars
<1> QED
  BY <1>2, <1>3, <1>4, <1>5, <1>6, RegisterOK DEF Next

\* The invariant holds throughout.
LEMMA InvHolds == Spec => []Inv
<1>1. Init => Inv
  <2> SUFFICES ASSUME Init
               PROVE  Inv
    OBVIOUS
  <2>1. users \in Seq(Row) /\ sessions \in [Tokens -> {NULL}] /\ jar \in [Browsers -> {NULL}]
    BY DEF Init
  <2>2. resp \in Response /\ resp.of = NULL
    BY DEF Init, Answer, Response, Pages
  <2> QED
    BY <2>1, <2>2 DEF Inv, TypeOK, SessionsTrue, JarTrue, ServedAsSelf, Row
<1>2. Inv /\ [Next]_vars => Inv'
  BY NextOK
<1> QED
  BY <1>1, <1>2, PTL DEF Spec

\* Type correctness: the table grows, and sessions and cookies name its rows.
THEOREM TypeCorrect == Spec => []TypeOK
<1>1. Inv => TypeOK
  BY DEF Inv
<1> QED
  BY <1>1, InvHolds, PTL

\* Nobody is ever served as somebody else, or with the page or the operators
\* of another role or city (session.c, get_session_user).
THEOREM NobodyServedAsAnother == Spec => []ServedAsSelf
<1>1. Inv => ServedAsSelf
  BY DEF Inv
<1> QED
  BY <1>1, InvHolds, PTL

\* A municipality never has two administrators while the SELECT that looks
\* for the first one does not fail (user_register_admin).
THEOREM OneAdministration ==
  ASSUME "admin" \notin DbFaults
  PROVE  Spec => []OneAdminPerCity
<1>1. Init => OneAdminPerCity
  BY DEF Init, OneAdminPerCity, Ids
<1>2. Inv /\ OneAdminPerCity /\ [Next]_vars => OneAdminPerCity'
  <2> SUFFICES ASSUME Inv, OneAdminPerCity, [Next]_vars
               PROVE  OneAdminPerCity'
    OBVIOUS
  <2>1. users \in Seq(Row)
    BY DEF Inv, TypeOK, Row
  <2>2. CASE UNCHANGED users
    BY <2>2 DEF OneAdminPerCity, Ids
  <2>3. ASSUME NEW name \in Names, NEW city \in Cities, NEW role \in Roles,
               role = "admin" => ~AdminExists(name, city),
               user_register(name, city, role)
        PROVE  OneAdminPerCity'
    <3> DEFINE row == [name |-> name, city |-> city, role |-> role]
    <3>1. CASE users' = Append(users, row)
      <4>1. /\ row \in Row /\ Len(users') = Len(users) + 1 /\ Len(users) \in Nat
            /\ Ids = 1..Len(users) /\ Ids' = 1..(Len(users) + 1)
            /\ users'[Len(users) + 1] = row
            /\ \A i \in Ids : users'[i] = users[i]
        BY <2>1, <3>1 DEF Ids, Row
      <4>2. row.role = role /\ row.city = city
        OBVIOUS
      <4> HIDE DEF row
      <4>3. \A i \in Ids' : i \in Ids \/ i = Len(users) + 1
        BY <4>1
      <4> QED
        BY <2>3, <4>1, <4>2, <4>3 DEF OneAdminPerCity, AdminExists
    <3> QED
      BY <2>2, <2>3, <3>1 DEF user_register
  <2>4. CASE route_post_register
    <3>1. ASSUME NEW name \in Names, NEW city \in Cities, user_register_admin(name, city)
          PROVE  OneAdminPerCity'
      <4>1. "admin" \in Roles
        BY DEF Roles
      <4> QED
        BY <2>2, <2>3, <3>1, <4>1 DEF user_register_admin, Fails
    <3>2. ASSUME NEW name \in Names, NEW city \in Cities, NEW code \in 0..3,
                 RoleOf(code) # "admin", user_register(name, city, RoleOf(code))
          PROVE  OneAdminPerCity'
      BY <2>3, <3>2 DEF Roles, RoleOf
    <3> QED
      BY <2>2, <2>4, <3>1, <3>2 DEF route_post_register
  <2>5. CASE ~route_post_register
    BY <2>2, <2>5 DEF Next, vars, Visit, Forget, Tick, Restart, route_get_root, route_get_home,
       route_get_submit, route_api_operators, Serve, route_get_logout, route_post_login
  <2> QED
    BY <2>4, <2>5
<1> QED
  BY <1>1, <1>2, InvHolds, PTL DEF Spec
=============================================================================
