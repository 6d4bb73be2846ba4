------------------------------ MODULE Session -------------------------------
(* Sessions: the cookies that auth sets, the gateway (nginx) that looks at   *)
(* the access token of every request, and the services behind it, which look *)
(* at cookies of their own.  Requests of one browser overlap, their answers  *)
(* arrive in any order or not at all, and time passes meanwhile.             *)
(*                                                                           *)
(* The browser is external: it sends the cookies it has when it sends a      *)
(* request, drops a cookie when its Max-Age is over, and follows redirects.  *)
EXTENDS Naturals

CONSTANTS
    Request,      \* requests that may be under way at once
    Access,       \* lifetime of an access token: 15 minutes
    Refresh,      \* lifetime of a refresh token: 7 days
    MaxAge,       \* lifetime of a cookie: 1 hour
    Horizon,      \* bound on the time
    None

ASSUME SessionAssumption ==
    /\ Access \in Nat \ {0} /\ MaxAge \in Nat \ {0} /\ Refresh \in Nat \ {0}
    /\ Access <= Refresh
    /\ Horizon \in Nat

\* What a cookie holds, and the end that its session has by the login or the
\* registration it began with (history).
Token == [exp : Nat, end : Nat]
Cookie == [exp : Nat, end : Nat, until : Nat]

ASSUME NoneAssumption == None \notin Token /\ None \notin Cookie

VARIABLES
    now,
    jar,          \* the browser's cookies
    stage, route, \* where a request is, and which
    sent,         \* the cookies it carries
    reply         \* the cookies that its answer sets
vars == <<now, jar, stage, route, sent, reply>>

\* user-id, database and company-id are always set together: "identity".  auth
\* sets access_token; the chats and timer services ask for access-token.
Name == {"access_token", "refresh_token", "identity", "access-token"}
Open == {"login", "register"}
\* Mutant: the location of /auth redirects as the others do.
RedirectedAll == {"admin", "chats", "messages", "refresh"}
\* error_page 401 = @refresh_token.
Redirected == {"admin", "chats", "messages"}
Route == Open \cup Redirected \cup {"refresh", "refreshGet", "check", "timer"}
Stage == {"idle", "gateway", "service", "db", "answered"}

NoCookies == [n \in Name |-> None]

TypeOK ==
    /\ now \in 0 .. Horizon
    /\ jar \in [Name -> Cookie \cup {None}]
    /\ stage \in [Request -> Stage]
    /\ route \in [Request -> Route \cup {None}]
    /\ sent \in [Request -> [Name -> Token \cup {None}]]
    /\ reply \in [Request -> [Name -> Token \cup {None}]]
    /\ \A n \in Name : jar[n] # None => now < jar[n].until

Init ==
    /\ now = 0
    /\ jar = NoCookies
    /\ stage = [r \in Request |-> "idle"]
    /\ route = [r \in Request |-> None]
    /\ sent = [r \in Request |-> NoCookies]
    /\ reply = [r \in Request |-> NoCookies]

-----------------------------------------------------------------------------
\* The cookies that the service behind a route asks for.
Needs(t) ==
    CASE t \in {"chats", "messages", "timer"} -> {"access-token", "identity"}
      [] t = "admin" -> {"access_token", "identity"}
      [] t = "refresh" -> {"access_token", "refresh_token"}
      [] OTHER -> {}

\* What a request carries of the jar: the cookies that the gateway or the service
\* looks at.
Value(c) == IF c = None THEN None ELSE [exp |-> c.exp, end |-> c.end]
Cookies(t) ==
    [n \in Name |-> IF t \notin Open /\ n \in Needs(t) \cup {"access_token"}
                      THEN Value(jar[n]) ELSE None]

\* The gateway accepts a token in the second in which it expires, auth does not.
Passes(token) == token # None /\ now <= token.exp
Valid(token) == token # None /\ now < token.exp

Tick ==
    /\ now < Horizon
    /\ now' = now + 1
    /\ jar' = [n \in Name |->
                  IF jar[n] # None /\ now' >= jar[n].until THEN None ELSE jar[n]]
    /\ UNCHANGED <<stage, route, sent, reply>>

Send(r) ==
    /\ stage[r] = "idle"
    /\ stage' = [stage EXCEPT ![r] = "gateway"]
    /\ \E t \in Route \ {"refreshGet"} :
          /\ route' = [route EXCEPT ![r] = t]
          /\ sent' = [sent EXCEPT ![r] = Cookies(t)]
    /\ UNCHANGED <<now, jar, reply>>

\* A request is over; its answer is of no consequence here, only its cookies are.
Over(r) ==
    /\ stage' = [stage EXCEPT ![r] = "idle"]
    /\ route' = [route EXCEPT ![r] = None]
    /\ sent' = [sent EXCEPT ![r] = NoCookies]
    /\ reply' = [reply EXCEPT ![r] = NoCookies]
Goto(r, s) == stage' = [stage EXCEPT ![r] = s]

-----------------------------------------------------------------------------
(* nginx. *)

GatewayPasses(r) ==
    /\ stage[r] = "gateway"
    /\ route[r] \in Open \/ Passes(sent[r]["access_token"])
    /\ Goto(r, "service")
    /\ UNCHANGED <<now, jar, route, sent, reply>>

GatewayRefuses(r) ==
    /\ stage[r] = "gateway"
    /\ route[r] \notin Open /\ ~ Passes(sent[r]["access_token"])
    /\ route[r] \notin Redirected
    /\ Over(r)
    /\ UNCHANGED <<now, jar>>

\* 307 to /auth/refresh, which keeps the method: the browser sends the cookies
\* that it has by now.
GatewayRedirects(r) ==
    /\ stage[r] = "gateway"
    /\ route[r] \in Redirected /\ ~ Passes(sent[r]["access_token"])
    /\ LET t == IF route[r] = "messages" THEN "refreshGet" ELSE "refresh"
       IN  /\ route' = [route EXCEPT ![r] = t]
           /\ sent' = [sent EXCEPT ![r] = Cookies(t)]
    /\ UNCHANGED <<now, jar, stage, reply>>

-----------------------------------------------------------------------------
(* The services. *)

Complete(r) == \A n \in Needs(route[r]) : sent[r][n] # None

\* A cookie is missing, /auth/refresh is no GET, or something fails: a service
\* that cannot be reached, a refused login, a database error.
ServiceFails(r) ==
    /\ stage[r] \in {"service", "db"}
    /\ Over(r)
    /\ UNCHANGED <<now, jar>>

\* AddCookie.
Answer(r, cookies) ==
    /\ Goto(r, "answered")
    /\ reply' = [reply EXCEPT ![r] = [n \in Name |->
                    IF n \in DOMAIN cookies THEN cookies[n] ELSE None]]
    /\ route' = [route EXCEPT ![r] = None]
    /\ sent' = [sent EXCEPT ![r] = NoCookies]
    /\ UNCHANGED <<now, jar>>

\* JwtGenerator.  The refresh token of a registration is signed as an "access"
\* token.
RefreshLife(t) == IF t = "login" THEN Refresh ELSE Access
Signed(life, end) == [exp |-> now + life, end |-> end]

\* What a login or a registration is answered with once dbservice has named the
\* user.
Grant(r) ==
    LET life == RefreshLife(route[r])
        end == now + life + Access
    IN  /\ stage[r] = "service"
        /\ Answer(r, [n \in {"access_token", "refresh_token", "identity"} |->
               CASE n = "access_token" -> Signed(Access, end)
                 [] n = "refresh_token" -> Signed(life, end)
                 [] OTHER -> [exp |-> 0, end |-> end]])

Login(r) == route[r] = "login" /\ Grant(r)
Register(r) == route[r] = "register" /\ Grant(r)

\* Mutant: the refresh token is read and not validated.
RefreshTokenUnchecked(r) ==
    LET access == sent[r]["access_token"]  refresh == sent[r]["refresh_token"]
    IN  /\ stage[r] = "service" /\ route[r] = "refresh" /\ Complete(r)
        /\ Answer(r, [n \in {"access_token"} |->
               IF Valid(access) THEN access ELSE Signed(Access, refresh.end)])

\* Mutant: the refresh token is set again together with the access token.
RefreshTokenTwice(r) ==
    LET access == sent[r]["access_token"]  refresh == sent[r]["refresh_token"]
    IN  /\ stage[r] = "service" /\ route[r] = "refresh" /\ Complete(r)
        /\ Valid(access) \/ Valid(refresh)
        /\ Answer(r, [n \in {"access_token", "refresh_token"} |->
               CASE n = "refresh_token" -> refresh
                 [] Valid(access) -> access
                 [] OTHER -> Signed(Access, refresh.end)])

\* ValidateAndRefreshToken: a valid access token is answered as it is, an
\* expired one is replaced while the refresh token is valid.
RefreshToken(r) ==
    LET access == sent[r]["access_token"]  refresh == sent[r]["refresh_token"]
    IN  /\ stage[r] = "service" /\ route[r] = "refresh" /\ Complete(r)
        /\ Valid(access) \/ Valid(refresh)
        /\ Answer(r, [n \in {"access_token"} |->
               IF Valid(access) THEN access ELSE Signed(Access, refresh.end)])

CheckAuth(r) ==
    /\ stage[r] = "service" /\ route[r] = "check"
    /\ Over(r)
    /\ UNCHANGED <<now, jar>>

\* AddUsers hands its caller's token on: the call of dbservice goes through the
\* gateway, which looks at it once more.
AddUsers(r) ==
    /\ stage[r] = "service" /\ route[r] = "admin" /\ Complete(r)
    /\ Goto(r, "db")
    /\ UNCHANGED <<now, jar, route, sent, reply>>
CallDb(r) ==
    /\ stage[r] = "db"
    /\ Passes(sent[r]["access_token"])
    /\ Answer(r, [n \in {} |-> None])

-----------------------------------------------------------------------------
\* Mutant: AddCookie with a Max-Age of zero.
ReceiveAgeless(r) ==
    /\ stage[r] = "answered"
    /\ jar' = [n \in Name |->
          LET t == reply[r][n]
          IN  IF t = None THEN jar[n]
              ELSE [exp |-> t.exp, end |-> t.end, until |-> now]]
    /\ Over(r)
    /\ UNCHANGED now

\* The browser keeps the cookies of an answer from its arrival on, ...
Receive(r) ==
    /\ stage[r] = "answered"
    /\ jar' = [n \in Name |->
          LET t == reply[r][n]
          IN  IF t = None THEN jar[n]
              ELSE [exp |-> t.exp, end |-> t.end, until |-> now + MaxAge]]
    /\ Over(r)
    /\ UNCHANGED now

\* ... or the connection breaks.
Lose(r) ==
    /\ stage[r] # "idle"
    /\ Over(r)
    /\ UNCHANGED <<now, jar>>

Step(r) ==
    \/ GatewayPasses(r) \/ GatewayRefuses(r) \/ GatewayRedirects(r)
    \/ Login(r) \/ Register(r) \/ RefreshToken(r) \/ CheckAuth(r)
    \/ AddUsers(r) \/ CallDb(r)
    \/ ServiceFails(r) \/ Receive(r)

Next == Tick \/ \E r \in Request : Send(r) \/ Step(r) \/ Lose(r)

Spec == Init /\ [][Next]_vars

\* Every request that was sent goes on: nginx and the services answer.
Fairness == \A r \in Request : WF_vars(Step(r))
FairSpec == Spec /\ Fairness

-----------------------------------------------------------------------------
Tokens == {jar[n] : n \in Name}
            \cup {sent[r][n] : r \in Request, n \in Name}
            \cup {reply[r][n] : r \in Request, n \in Name}

\* However often it is renewed, a session ends: no token, in the browser or
\* under way, outlives its login by the lives of a refresh and an access token,
\* nor its registration by those of two access tokens.
SessionIsBounded == \A t \in Tokens \ {None} : t.exp < t.end

\* The browser can renew its token exactly as long as the services know who it
\* is: refresh_token and identity come and go together, from the same login,
\* whatever answers overtake each other.
RenewableIsUsable ==
    LET r == jar["refresh_token"]  i == jar["identity"]
    IN  (r = None <=> i = None) /\ (r # None => r.end = i.end /\ r.until = i.until)

\* No request goes round for ever: the location it is redirected to refuses
\* what the first one refused instead of redirecting it again.
RequestsEnd == \A r \in Request : stage[r] # "idle" ~> stage[r] = "idle"

\* README.md:185, of POST /auth/refresh: "Используется для продления сессии без
\* повторного логина" (is used to prolong the session without a new login): the
\* gateway refuses no request for it that carries a valid refresh token.
SessionIsRenewed ==
    [][\A r \in Request : GatewayRefuses(r) /\ route[r] = "refresh"
          => ~ Valid(sent[r]["refresh_token"])]_vars
=============================================================================
