--------------------------- MODULE Session_proofs ----------------------------
(* Proofs about sessions, for any requests, lifetimes and horizon.           *)
EXTENDS Session, TLAPS

-----------------------------------------------------------------------------
(* The inductive invariant, in terms of a set of cookies: the jar's, those of *)
(* a request and those of an answer.                                          *)

\* A renewal adds a life of an access token to a time before the refresh
\* token's end: there is room for it in the session.
Bounded(cookies) ==
    \A n \in Name : cookies[n] # None =>
        /\ cookies[n].exp < cookies[n].end
        /\ n = "refresh_token" => cookies[n].exp + Access <= cookies[n].end

\* A refresh token never comes without the identity of its login.
Paired(cookies) ==
    /\ cookies["refresh_token"] = None <=> cookies["identity"] = None
    /\ cookies["refresh_token"] # None =>
          cookies["refresh_token"].end = cookies["identity"].end

IInv ==
    /\ TypeOK
    /\ Bounded(jar)
    /\ \A r \in Request : Bounded(sent[r]) /\ Bounded(reply[r]) /\ Paired(reply[r])
    /\ RenewableIsUsable

-----------------------------------------------------------------------------
LEMMA NoCookiesSound == Bounded(NoCookies) /\ Paired(NoCookies)
  BY DEF Bounded, Paired, NoCookies, Name

LEMMA InitIInv == Init => IInv
<1> SUFFICES ASSUME Init PROVE IInv
  OBVIOUS
<1>1. TypeOK
  BY SessionAssumption DEF Init, TypeOK, NoCookies, Stage
<1>2. Bounded(jar) /\ Paired(jar)
  BY NoCookiesSound DEF Init
<1>3. \A r \in Request : Bounded(sent[r]) /\ Bounded(reply[r]) /\ Paired(reply[r])
  BY NoCookiesSound DEF Init
<1>4. RenewableIsUsable
  BY DEF Init, RenewableIsUsable, NoCookies, Name
<1> QED
  BY <1>1, <1>2, <1>3, <1>4 DEF IInv

\* What a request takes of the jar is as sound as the jar.
LEMMA CookiesSound ==
    ASSUME TypeOK, Bounded(jar), NEW t
    PROVE  Cookies(t) \in [Name -> Token \cup {None}] /\ Bounded(Cookies(t))
<1>1. \A n \in Name : Value(jar[n]) \in Token \cup {None}
  BY DEF TypeOK, Value, Token, Cookie
<1>2. \A n \in Name : Value(jar[n]) # None =>
          jar[n] # None /\ Value(jar[n]).exp = jar[n].exp /\ Value(jar[n]).end = jar[n].end
  BY DEF Value
<1> QED
  BY <1>1, <1>2 DEF Cookies, Bounded

LEMMA TickIInv == ASSUME IInv, Tick PROVE IInv'
<1>1. now' \in 0 .. Horizon /\ now' = now + 1
  BY SessionAssumption DEF Tick, IInv, TypeOK
<1>2. \A n \in Name : jar'[n] = None \/ (jar'[n] = jar[n] /\ now' < jar[n].until)
  <2> TAKE n \in Name
  <2>1. jar[n] # None => jar[n].until \in Nat
    BY DEF IInv, TypeOK, Cookie
  <2> QED
    BY <1>1, <2>1 DEF Tick, IInv, TypeOK
<1>3. jar' \in [Name -> Cookie \cup {None}]
  BY <1>2 DEF Tick, IInv, TypeOK
<1>4. TypeOK'
  BY <1>1, <1>2, <1>3 DEF Tick, IInv, TypeOK
<1>5. Bounded(jar)'
  BY <1>2 DEF IInv, Bounded
<1>6. RenewableIsUsable'
  BY <1>1 DEF IInv, RenewableIsUsable, Tick, Name
<1> QED
  BY <1>4, <1>5, <1>6 DEF IInv, Tick

\* A step that leaves the time and the jar alone, and changes one request.
LEMMA RequestIInv ==
    ASSUME IInv, NEW r \in Request, UNCHANGED <<now, jar>>,
           NEW s \in Stage, NEW t \in Route \cup {None},
           NEW c \in [Name -> Token \cup {None}], Bounded(c),
           NEW a \in [Name -> Token \cup {None}], Bounded(a), Paired(a),
           stage' = [stage EXCEPT ![r] = s], route' = [route EXCEPT ![r] = t],
           sent' = [sent EXCEPT ![r] = c], reply' = [reply EXCEPT ![r] = a]
    PROVE  IInv'
<1>1. TypeOK'
  BY DEF IInv, TypeOK
<1>2. \A q \in Request : Bounded(sent'[q]) /\ Bounded(reply'[q]) /\ Paired(reply'[q])
  BY DEF IInv, TypeOK
<1>3. Bounded(jar)' /\ RenewableIsUsable'
  BY DEF IInv, RenewableIsUsable, Bounded
<1>4. \A q \in Request : Bounded(sent[q])' /\ Bounded(reply[q])' /\ Paired(reply[q])'
  BY <1>2 DEF Bounded, Paired
<1> QED
  BY <1>1, <1>3, <1>4 DEF IInv

LEMMA OverIInv ==
    ASSUME IInv, NEW r \in Request, Over(r), UNCHANGED <<now, jar>>
    PROVE  IInv'
<1>1. NoCookies \in [Name -> Token \cup {None}]
  BY DEF NoCookies
<1> QED
  BY <1>1, NoCookiesSound, RequestIInv DEF Over, Stage

\* A request that takes a step and keeps its cookies.
LEMMA GotoIInv ==
    ASSUME IInv, NEW r \in Request, NEW s \in Stage, Goto(r, s),
           UNCHANGED <<now, jar, route, sent, reply>>
    PROVE  IInv'
<1>1. /\ route[r] \in Route \cup {None}
      /\ sent[r] \in [Name -> Token \cup {None}] /\ Bounded(sent[r])
      /\ reply[r] \in [Name -> Token \cup {None}] /\ Bounded(reply[r]) /\ Paired(reply[r])
  BY DEF IInv, TypeOK
<1>2. /\ route' = [route EXCEPT ![r] = route[r]]
      /\ sent' = [sent EXCEPT ![r] = sent[r]]
      /\ reply' = [reply EXCEPT ![r] = reply[r]]
  BY DEF IInv, TypeOK
<1> QED
  BY <1>1, <1>2, RequestIInv DEF Goto

\* A request that is sent, or sent again to where it is redirected.
LEMMA SentIInv ==
    ASSUME IInv, NEW r \in Request, NEW t \in Route,
           stage' = [stage EXCEPT ![r] = "gateway"],
           route' = [route EXCEPT ![r] = t], sent' = [sent EXCEPT ![r] = Cookies(t)],
           UNCHANGED <<now, jar, reply>>
    PROVE  IInv'
<1>1. Cookies(t) \in [Name -> Token \cup {None}] /\ Bounded(Cookies(t))
  BY CookiesSound DEF IInv
<1>2. reply[r] \in [Name -> Token \cup {None}] /\ Bounded(reply[r]) /\ Paired(reply[r])
  BY DEF IInv, TypeOK
<1>3. reply' = [reply EXCEPT ![r] = reply[r]]
  BY DEF IInv, TypeOK
<1> QED
  BY <1>1, <1>2, <1>3, RequestIInv DEF Stage

LEMMA SendIInv == ASSUME IInv, NEW r \in Request, Send(r) PROVE IInv'
  BY SentIInv DEF Send

LEMMA RedirectIInv == ASSUME IInv, NEW r \in Request, GatewayRedirects(r) PROVE IInv'
<1> DEFINE t == IF route[r] = "messages" THEN "refreshGet" ELSE "refresh"
<1>1. stage' = [stage EXCEPT ![r] = "gateway"]
  BY DEF GatewayRedirects, IInv, TypeOK
<1>2. t \in Route
  BY DEF Route
<1>3. route' = [route EXCEPT ![r] = t] /\ sent' = [sent EXCEPT ![r] = Cookies(t)]
  BY DEF GatewayRedirects
<1>4. UNCHANGED <<now, jar, reply>>
  BY DEF GatewayRedirects
<1> HIDE DEF t
<1> QED
  BY <1>1, <1>2, <1>3, <1>4, SentIInv

\* An answer is sound when the cookies that it sets are.
Extended(cookies) == [n \in Name |-> IF n \in DOMAIN cookies THEN cookies[n] ELSE None]
LEMMA AnswerIInv ==
    ASSUME IInv, NEW r \in Request, NEW cookies, Answer(r, cookies),
           Extended(cookies) \in [Name -> Token \cup {None}],
           Bounded(Extended(cookies)), Paired(Extended(cookies))
    PROVE  IInv'
<1>1. NoCookies \in [Name -> Token \cup {None}]
  BY DEF NoCookies
<1>2. reply' = [reply EXCEPT ![r] = Extended(cookies)]
  BY DEF Answer, Extended
<1> QED
  BY <1>1, <1>2, NoCookiesSound, RequestIInv DEF Answer, Goto, Stage

\* A new session ends one access token later than its refresh token.
LEMMA GrantIInv == ASSUME IInv, NEW r \in Request, Grant(r) PROVE IInv'
<1> DEFINE life == RefreshLife(route[r])
           end == now + life + Access
           cookies == [n \in {"access_token", "refresh_token", "identity"} |->
               CASE n = "access_token" -> Signed(Access, end)
                 [] n = "refresh_token" -> Signed(life, end)
                 [] OTHER -> [exp |-> 0, end |-> end]]
<1>1. Answer(r, cookies)
  BY DEF Grant
<1>2. now \in Nat /\ life \in Nat \ {0} /\ Access \in Nat \ {0}
  BY SessionAssumption DEF RefreshLife, IInv, TypeOK
<1>3. end \in Nat /\ now + Access < end /\ now + life + Access <= end
  BY <1>2
<1>4. /\ Signed(Access, end) \in Token /\ Signed(life, end) \in Token
      /\ [exp |-> 0, end |-> end] \in Token
  BY <1>2, <1>3 DEF Signed, Token
<1>5. /\ Extended(cookies)["access_token"] = Signed(Access, end)
      /\ Extended(cookies)["refresh_token"] = Signed(life, end)
      /\ Extended(cookies)["identity"] = [exp |-> 0, end |-> end]
      /\ Extended(cookies)["access-token"] = None
  BY DEF Extended, Name
<1>6. Extended(cookies) \in [Name -> Token \cup {None}]
  BY <1>4, <1>5 DEF Extended, Name
<1>7. /\ Signed(Access, end).exp = now + Access /\ Signed(Access, end).end = end
      /\ Signed(life, end).exp = now + life /\ Signed(life, end).end = end
      /\ [exp |-> 0, end |-> end].exp = 0 /\ [exp |-> 0, end |-> end].end = end
  BY DEF Signed
<1> HIDE DEF life, end, cookies
<1>8. Bounded(Extended(cookies))
  BY <1>2, <1>3, <1>5, <1>7 DEF Bounded, Name
<1>9. Paired(Extended(cookies))
  BY <1>4, <1>5, <1>7, NoneAssumption DEF Paired
<1> QED
  BY <1>1, <1>6, <1>8, <1>9, AnswerIInv

\* A renewal needs a valid token, and a refresh token that is valid leaves room
\* for one more access token.
LEMMA RefreshTokenIInv == ASSUME IInv, NEW r \in Request, RefreshToken(r) PROVE IInv'
<1> DEFINE access == sent[r]["access_token"]
           refresh == sent[r]["refresh_token"]
           new == IF Valid(access) THEN access ELSE Signed(Access, refresh.end)
           cookies == [n \in {"access_token"} |-> new]
<1>1. Answer(r, cookies)
  BY DEF RefreshToken
<1>2. /\ now \in Nat /\ Access \in Nat
      /\ access \in Token \cup {None} /\ refresh \in Token \cup {None}
  BY SessionAssumption DEF IInv, TypeOK, Name
<1>3. /\ access # None => access.exp < access.end
      /\ refresh # None => refresh.exp + Access <= refresh.end
  BY DEF IInv, Bounded, Name
<1>4. Valid(access) \/ Valid(refresh)
  BY DEF RefreshToken
<1> HIDE DEF access, refresh
<1>5. new \in Token /\ new.exp < new.end
  <2>1. CASE Valid(access)
    BY <1>2, <1>3, <2>1 DEF Valid
  <2>2. CASE ~ Valid(access)
    <3>1. refresh \in Token /\ now < refresh.exp /\ refresh.exp + Access <= refresh.end
      BY <1>2, <1>3, <1>4, <2>2 DEF Valid
    <3>2. new = [exp |-> now + Access, end |-> refresh.end]
      BY <2>2 DEF Signed
    <3>3. refresh.exp \in Nat /\ refresh.end \in Nat
      BY <3>1 DEF Token
    <3> QED
      BY <1>2, <3>1, <3>2, <3>3 DEF Token
  <2> QED
    BY <2>1, <2>2
<1> HIDE DEF new
<1>6. \A n \in Name : Extended(cookies)[n] = IF n = "access_token" THEN new ELSE None
  BY DEF Extended
<1>7. Extended(cookies) \in [Name -> Token \cup {None}]
  BY <1>5, <1>6 DEF Extended
<1> HIDE DEF cookies
<1>8. Bounded(Extended(cookies)) /\ Paired(Extended(cookies))
  BY <1>5, <1>6 DEF Bounded, Paired, Name
<1> QED
  BY <1>1, <1>7, <1>8, AnswerIInv

LEMMA CallDbIInv == ASSUME IInv, NEW r \in Request, CallDb(r) PROVE IInv'
<1> DEFINE cookies == [n \in {} |-> None]
<1>1. Extended(cookies) = NoCookies
  BY DEF Extended, NoCookies
<1>2. NoCookies \in [Name -> Token \cup {None}]
  BY DEF NoCookies
<1>3. Answer(r, cookies)
  BY DEF CallDb
<1> QED
  BY <1>1, <1>2, <1>3, NoCookiesSound, AnswerIInv

\* The browser takes the cookies of an answer: the pair of a new login, or
\* neither of them.
LEMMA ReceiveIInv == ASSUME IInv, NEW r \in Request, Receive(r) PROVE IInv'
<1>1. /\ now' = now /\ now \in Nat /\ MaxAge \in Nat \ {0} /\ now + MaxAge \in Nat
      /\ now < now + MaxAge
  BY SessionAssumption DEF Receive, IInv, TypeOK
<1>2. \A n \in Name :
          \/ reply[r][n] = None /\ jar'[n] = jar[n]
          \/ /\ reply[r][n] # None /\ reply[r][n] \in Token
             /\ jar'[n] = [exp |-> reply[r][n].exp, end |-> reply[r][n].end,
                           until |-> now + MaxAge]
  BY DEF Receive, IInv, TypeOK
<1>3. \A n \in Name : reply[r][n] # None =>
          /\ jar'[n] \in Cookie /\ jar'[n] # None
          /\ jar'[n].exp = reply[r][n].exp /\ jar'[n].end = reply[r][n].end
          /\ jar'[n].until = now + MaxAge
  <2> SUFFICES ASSUME NEW n \in Name, reply[r][n] # None
               PROVE  /\ jar'[n] \in Cookie /\ jar'[n] # None
                      /\ jar'[n].exp = reply[r][n].exp /\ jar'[n].end = reply[r][n].end
                      /\ jar'[n].until = now + MaxAge
    OBVIOUS
  <2>1. /\ reply[r][n].exp \in Nat /\ reply[r][n].end \in Nat
        /\ jar'[n] = [exp |-> reply[r][n].exp, end |-> reply[r][n].end,
                      until |-> now + MaxAge]
    BY <1>2 DEF Token
  <2>2. jar'[n] \in Cookie
    BY <1>1, <2>1 DEF Cookie
  <2> QED
    BY <2>1, <2>2, NoneAssumption
<1>4. jar' \in [Name -> Cookie \cup {None}]
  BY <1>2, <1>3 DEF Receive, IInv, TypeOK
<1>5. \A n \in Name : jar'[n] # None => now < jar'[n].until
  BY <1>1, <1>2, <1>3 DEF IInv, TypeOK
<1>6. TypeOK'
  BY <1>1, <1>4, <1>5 DEF Receive, Over, IInv, TypeOK, Stage, NoCookies
<1>7. Bounded(jar)'
  BY <1>2, <1>3 DEF IInv, Bounded
<1>8. RenewableIsUsable'
  <2>1. Paired(reply[r]) /\ RenewableIsUsable
    BY DEF IInv
  <2> QED
    BY <1>2, <1>3, <2>1 DEF Paired, RenewableIsUsable, Name
<1>9. \A q \in Request : Bounded(sent[q])' /\ Bounded(reply[q])' /\ Paired(reply[q])'
  <2>1. \A q \in Request : /\ sent'[q] \in {sent[q], NoCookies}
                           /\ reply'[q] \in {reply[q], NoCookies}
    BY DEF Receive, Over, IInv, TypeOK
  <2>2. \A q \in Request : Bounded(sent'[q]) /\ Bounded(reply'[q]) /\ Paired(reply'[q])
    BY <2>1, NoCookiesSound DEF IInv
  <2> QED
    BY <2>2 DEF Bounded, Paired
<1> QED
  BY <1>6, <1>7, <1>8, <1>9 DEF IInv

LEMMA NextIInv == ASSUME IInv, [Next]_vars PROVE IInv'
<1>1. CASE UNCHANGED vars
  BY <1>1 DEF vars, IInv, TypeOK, Bounded, Paired, RenewableIsUsable
<1>2. CASE Tick
  BY <1>2, TickIInv
<1>3. ASSUME NEW r \in Request, Send(r) PROVE IInv'
  BY <1>3, SendIInv
<1>4. ASSUME NEW r \in Request, GatewayPasses(r) \/ AddUsers(r) PROVE IInv'
  BY <1>4, GotoIInv DEF GatewayPasses, AddUsers, Stage
<1>5. ASSUME NEW r \in Request,
             GatewayRefuses(r) \/ ServiceFails(r) \/ CheckAuth(r) \/ Lose(r)
      PROVE  IInv'
  BY <1>5, OverIInv DEF GatewayRefuses, ServiceFails, CheckAuth, Lose
<1>6. ASSUME NEW r \in Request,
             \/ GatewayRedirects(r) \/ Login(r) \/ Register(r) \/ RefreshToken(r)
             \/ CallDb(r) \/ Receive(r)
      PROVE  IInv'
  BY <1>6, RedirectIInv, GrantIInv, RefreshTokenIInv, CallDbIInv, ReceiveIInv
     DEF Login, Register
<1> QED
  BY <1>1, <1>2, <1>3, <1>4, <1>5, <1>6 DEF Next, Step

-----------------------------------------------------------------------------
\* What the browser and the requests carry are cookies of auth, and the browser
\* has none whose Max-Age is over.
THEOREM TypeCorrect == Spec => []TypeOK
<1>1. IInv => TypeOK
  BY DEF IInv
<1> QED
  BY InitIInv, NextIInv, <1>1, PTL DEF Spec

\* ValidateAndRefreshToken cannot prolong a session for ever: no token, wherever
\* it is, outlives the end that its login or registration set.
THEOREM SessionsEnd == Spec => []SessionIsBounded
<1>1. IInv => SessionIsBounded
  BY DEF IInv, Bounded, SessionIsBounded, Tokens
<1> QED
  BY InitIInv, NextIInv, <1>1, PTL DEF Spec

\* Whatever answers overtake each other or are lost, the browser has a refresh
\* token exactly while it has the identity of the same login.
THEOREM RenewableStaysUsable == Spec => []RenewableIsUsable
<1>1. IInv => RenewableIsUsable
  BY DEF IInv
<1> QED
  BY InitIInv, NextIInv, <1>1, PTL DEF Spec

-----------------------------------------------------------------------------
(* What RequestsEnd rests on: each request has a number of steps left that only *)
(* its being sent raises.  A redirected one has its first step over again, but *)
(* never twice, for the location it goes to redirects nothing.                *)

StepsLeft(r) ==
    CASE stage[r] = "gateway" /\ route[r] \in Redirected -> 5
      [] stage[r] = "gateway" /\ route[r] \notin Redirected -> 4
      [] stage[r] = "service" -> 3
      [] stage[r] = "db" -> 2
      [] stage[r] = "answered" -> 1
      [] stage[r] = "idle" -> 0

WindsDown ==
    \A r \in Request :
        /\ Step(r) \/ Lose(r) => StepsLeft(r)' < StepsLeft(r)
        /\ StepsLeft(r)' <= StepsLeft(r) \/ Send(r)

LEMMA StepShortens ==
    ASSUME TypeOK, NEW r \in Request, Step(r) \/ Lose(r)
    PROVE  StepsLeft(r)' < StepsLeft(r)
<1>1. CASE GatewayRefuses(r) \/ CheckAuth(r) \/ ServiceFails(r) \/ Receive(r) \/ Lose(r)
  <2>1. stage[r] \in Stage \ {"idle"} /\ stage'[r] = "idle"
    BY <1>1 DEF GatewayRefuses, CheckAuth, ServiceFails, Receive, Lose, Over,
       TypeOK, Stage
  <2>2. StepsLeft(r) \in 1 .. 5 /\ StepsLeft(r)' = 0
    BY <2>1 DEF StepsLeft, Stage
  <2> QED
    BY <2>2
<1>2. CASE GatewayPasses(r) \/ AddUsers(r)
  <2>1. \/ stage[r] = "gateway" /\ stage'[r] = "service"
        \/ stage[r] = "service" /\ stage'[r] = "db"
    BY <1>2 DEF GatewayPasses, AddUsers, Goto, TypeOK
  <2> QED
    BY <2>1 DEF StepsLeft
<1>3. CASE GatewayRedirects(r)
  <2>1. /\ stage[r] = "gateway" /\ stage'[r] = "gateway"
        /\ route[r] \in Redirected /\ route'[r] \notin Redirected
    BY <1>3 DEF GatewayRedirects, TypeOK, Redirected
  <2> QED
    BY <2>1 DEF StepsLeft
<1>4. CASE Login(r) \/ Register(r) \/ RefreshToken(r) \/ CallDb(r)
  <2>1. stage[r] \in {"service", "db"} /\ stage'[r] = "answered"
    BY <1>4 DEF Login, Register, Grant, RefreshToken, CallDb, Answer, Goto, TypeOK
  <2> QED
    BY <2>1 DEF StepsLeft
<1> QED
  BY <1>1, <1>2, <1>3, <1>4 DEF Step

\* A step of one request is none of another's.
LEMMA OthersUnmoved ==
    ASSUME TypeOK, NEW r \in Request, NEW q \in Request, q # r,
           Send(q) \/ Step(q) \/ Lose(q)
    PROVE  stage'[r] = stage[r] /\ route'[r] = route[r]
<1>1. CASE Send(q) \/ GatewayPasses(q) \/ GatewayRedirects(q) \/ AddUsers(q)
  BY <1>1 DEF Send, GatewayPasses, GatewayRedirects, AddUsers, Goto, TypeOK
<1>2. CASE GatewayRefuses(q) \/ CheckAuth(q) \/ ServiceFails(q) \/ Receive(q) \/ Lose(q)
  BY <1>2 DEF GatewayRefuses, CheckAuth, ServiceFails, Receive, Lose, Over, TypeOK
<1>3. CASE Login(q) \/ Register(q) \/ RefreshToken(q) \/ CallDb(q)
  BY <1>3 DEF Login, Register, Grant, RefreshToken, CallDb, Answer, Goto, TypeOK
<1> QED
  BY <1>1, <1>2, <1>3 DEF Step

\* Once sent, a request only comes nearer to its end: whatever nginx, a service
\* or the connection does with it takes at least one of at most five steps off.
THEOREM RequestsWindDown == Spec => [][WindsDown]_vars
<1>1. ASSUME TypeOK, TypeOK', [Next]_vars, ~ UNCHANGED vars
      PROVE  WindsDown
  <2> SUFFICES ASSUME NEW r \in Request
               PROVE  /\ Step(r) \/ Lose(r) => StepsLeft(r)' < StepsLeft(r)
                      /\ StepsLeft(r)' <= StepsLeft(r) \/ Send(r)
    BY DEF WindsDown
  <2>1. StepsLeft(r) \in 0 .. 5 /\ StepsLeft(r)' \in 0 .. 5
    BY <1>1 DEF StepsLeft, TypeOK, Stage
  <2>2. stage'[r] = stage[r] /\ route'[r] = route[r] => StepsLeft(r)' = StepsLeft(r)
    BY DEF StepsLeft
  <2>3. Step(r) \/ Lose(r) => StepsLeft(r)' < StepsLeft(r)
    BY <1>1, StepShortens
  <2>4. CASE Tick
    BY <2>1, <2>2, <2>3, <2>4 DEF Tick
  <2>5. CASE Step(r) \/ Lose(r) \/ Send(r)
    <3>1. StepsLeft(r)' < StepsLeft(r) => StepsLeft(r)' <= StepsLeft(r)
      BY <2>1
    <3> QED
      BY <2>3, <2>5, <3>1
  <2>6. ASSUME NEW q \in Request, q # r, Send(q) \/ Step(q) \/ Lose(q)
        PROVE  StepsLeft(r)' <= StepsLeft(r)
    BY <1>1, <2>1, <2>2, <2>6, OthersUnmoved
  <2> QED
    BY <1>1, <2>3, <2>4, <2>5, <2>6 DEF Next
<1> QED
  BY <1>1, TypeCorrect, PTL DEF Spec
=============================================================================
