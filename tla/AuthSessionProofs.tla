------------------------- MODULE AuthSessionProofs -------------------------
(***************************************************************************)
(* The safety of signing in, for any number of tabs, environments and      *)
(* accounts, all life times and any number of failures.                    *)
(***************************************************************************)
EXTENDS AuthSession, TLAPS

-----------------------------------------------------------------------------
(* Values                                                                  *)

LEMMA PageTyped ==
  ASSUME NEW page \in Returns \cup {"login", "forbidden"}, NEW returnTo \in Returns,
         NEW header \in BOOLEAN
  PROVE  Page(page, returnTo, header) \in Resting
BY DEF Page, Resting

LEMMA SafeReturns == \A asked : safeReturnTo(asked) \in Returns
BY DEF safeReturnTo, Paths, Returns

LEMMA LoginPageTyped == \A asked, session : LoginPage(asked, session) \in Resting
BY SafeReturns, PageTyped DEF LoginPage

LEMMA CookieTyped == NoCookie \in SessionCookie /\ NoCookie \in TransactionCookie
BY DEF SessionCookie, TransactionCookie, Cookie

(* What a cookie is read as comes from it, and is of its type.             *)
LEMMA TransactionRead ==
  ASSUME TypeOK, readTransaction(jar.transaction, secret, clock) # NoValue
  PROVE  /\ readTransaction(jar.transaction, secret, clock) = jar.transaction.value
         /\ jar.transaction # NoCookie
         /\ readTransaction(jar.transaction, secret, clock) \in Transaction
<1>1. jar.transaction \in TransactionCookie BY DEF TypeOK
<1>2. /\ readTransaction(jar.transaction, secret, clock) = jar.transaction.value
      /\ jar.transaction.value # NoValue
  BY DEF readTransaction, unseal, Live
<1>3. jar.transaction # NoCookie BY <1>2 DEF NoCookie
<1>4. jar.transaction.value \in Transaction
  BY <1>1, <1>3 DEF TransactionCookie, Cookie
<1> QED BY <1>2, <1>3, <1>4

LEMMA SessionRead ==
  ASSUME TypeOK, NEW c \in SessionCookie, readSession(c, secret, clock) # NoValue
  PROVE  /\ readSession(c, secret, clock) = c.value
         /\ c # NoCookie
         /\ readSession(c, secret, clock) \in Session
<1>2. readSession(c, secret, clock) = c.value /\ c.value # NoValue
  BY DEF readSession, unseal, Live
<1>3. c # NoCookie BY <1>2 DEF NoCookie
<1>4. c.value \in Session
  BY <1>3 DEF SessionCookie, Cookie
<1> QED BY <1>2, <1>3, <1>4

LEMMA TabTyped ==
  ASSUME TypeOK, NEW t \in Tabs, NEW v \in TabValue, tab' = [tab EXCEPT ![t] = v]
  PROVE  tab' \in [Tabs -> TabValue]
BY DEF TypeOK

(* An answer is typed when what it sets and where it leads are.             *)
LEMMA AnswersTyped ==
  ASSUME TypeOK, NEW t \in Tabs, tab[t] \in Moving,
         NEW s \in {NoValue} \cup SessionCookie, NEW x \in {NoValue} \cup TransactionCookie,
         NEW next \in Resting \cup Moving, Answers(t, Set(s, x), next)
  PROVE  tab' \in [Tabs -> TabValue]
<1>1. tab[t].url \in Urls BY DEF Moving
<1>2. Answer(tab[t].url, Set(s, x), next) \in Answered
  BY <1>1 DEF Answer, Set, Answered
<1>3. next \in TabValue BY DEF TabValue
<1>4. Answer(tab[t].url, Set(s, x), next) \in TabValue BY <1>2 DEF TabValue
<1> QED BY <1>3, <1>4, TabTyped DEF Answers

LEMMA GoingTyped ==
  ASSUME TypeOK, NEW t \in Tabs, tab[t].at = "going"
  PROVE  tab[t] \in Moving /\ tab[t].url \in Urls
<1>1. tab[t] \in TabValue BY DEF TypeOK
<1>2. tab[t] \in Moving BY <1>1 DEF TabValue, Resting, Rendered, Answered
<1> QED BY <1>2 DEF Moving

LEMMA UrlTyped ==
  /\ \A path \in Paths : PageUrl(path) \in Urls
  /\ \A asked \in Asked : LoginUrl(asked) \in Urls
  /\ \A n \in Logins, kind \in Kinds, code \in BOOLEAN :
        CallbackUrl(n, kind, code) \in Urls
  /\ LogoutUrl \in Urls
BY DEF PageUrl, LoginUrl, CallbackUrl, LogoutUrl, Urls

LEMMA MovingTyped ==
  ASSUME NEW url \in Urls, NEW just \in SessionCookie
  PROVE  Going(url, just) \in Moving
BY DEF Going, Moving

(* Where a login ends.                                                     *)
LEMMA LandingTyped ==
  ASSUME NEW returnTo \in Returns, NEW just \in SessionCookie
  PROVE  Landing(returnTo, just) \in Resting \cup Moving
<1>1. CASE returnTo = "elsewhere"
  BY <1>1, PageTyped DEF Landing, Returns, Paths
<1>2. CASE returnTo # "elsewhere"
  <2>1. PageUrl(returnTo) \in Urls BY <1>2, UrlTyped DEF Returns
  <2> QED BY <1>2, <2>1, MovingTyped DEF Landing
<1> QED BY <1>1, <1>2

LEMMA ProviderTyped ==
  ASSUME NEW n \in Logins, NEW kind \in Kinds
  PROVE  AtProvider(n, kind) \in Resting
BY DEF AtProvider, Resting

-----------------------------------------------------------------------------
(* Type correctness, action by action                                      *)

LEMMA InitTyped == Init => TypeOK
<1> SUFFICES ASSUME Init PROVE TypeOK OBVIOUS
<1>1. tab \in [Tabs -> TabValue] BY LoginPageTyped DEF Init, TabValue
<1>2. jar \in [session: SessionCookie, transaction: TransactionCookie]
  BY CookieTyped DEF Init
<1> QED BY <1>1, <1>2, AuthAssumption DEF Init, TypeOK

LEMMA UserTyped ==
  ASSUME TypeOK, NEW t \in Tabs, User(t)
  PROVE  TypeOK'
<1>0. tab[t] \in TabValue BY DEF TypeOK
<1>1. ASSUME NEW url \in Urls, tab' = [tab EXCEPT ![t] = Going(url, NoCookie)]
      PROVE  tab' \in [Tabs -> TabValue]
  <2>1. Going(url, NoCookie) \in TabValue BY MovingTyped, CookieTyped DEF TabValue
  <2> QED BY <1>1, <2>1, TabTyped
<1>2. ASSUME NEW p \in Wanted, Open(t, p) PROVE TypeOK'
  <2>1. p \in Paths BY AuthAssumption
  <2>2. tab' \in [Tabs -> TabValue] BY <1>1, <1>2, <2>1, UrlTyped DEF Open
  <2> QED BY <1>2, <2>2 DEF Open, TypeOK
<1>9. ASSUME NEW a \in Asked, Follow(t, a) PROVE TypeOK'
  <2>1. \A session : LoginPage(a, session) \in TabValue BY LoginPageTyped DEF TabValue
  <2>2. tab' = [tab EXCEPT ![t] = Going(LoginUrl(a), NoCookie)]
          => tab' \in [Tabs -> TabValue]
    BY <1>1, UrlTyped
  <2>3. tab' \in [Tabs -> TabValue] BY <1>9, <2>1, <2>2, TabTyped DEF Follow
  <2> QED BY <1>9, <2>3 DEF Follow, TypeOK
<1>3. CASE Continue(t)
  <2>1. tab[t].returnTo \in Asked
    BY <1>0, <1>3 DEF Continue, TabValue, Resting, Moving, Rendered, Answered, Returns, Asked
  <2>2. tab' \in [Tabs -> TabValue] BY <1>1, <1>3, <2>1, UrlTyped DEF Continue
  <2> QED BY <1>3, <2>2 DEF Continue, TypeOK
<1>4. CASE SignOut(t)
  <2>1. tab' \in [Tabs -> TabValue] BY <1>1, <1>4, UrlTyped DEF SignOut
  <2> QED BY <1>4, <2>1 DEF SignOut, TypeOK
<1>5. ASSUME tab[t].at = "provider" PROVE tab[t].login \in Logins /\ tab[t].kind \in Kinds
  BY <1>0, <1>5 DEF TabValue, Resting, Moving, Rendered, Answered
<1>6. CASE Authenticate(t)
  <2>1. tab' \in [Tabs -> TabValue] BY <1>1, <1>5, <1>6, UrlTyped DEF Authenticate
  <2> QED BY <1>6, <2>1 DEF Authenticate, TypeOK
<1>7. CASE Refuse(t)
  <2>1. tab' \in [Tabs -> TabValue] BY <1>1, <1>5, <1>7, UrlTyped DEF Refuse
  <2>2. failures' \in 0..MaxFailures /\ secret \in 1..(failures' + 1)
    BY <1>7, AuthAssumption DEF Refuse, Fail, TypeOK
  <2> QED BY <1>7, <2>1, <2>2 DEF Refuse, TypeOK
<1>8. CASE Reload(t)
  <2>1. tab[t].url \in Urls
    BY <1>0, <1>8 DEF Reload, TabValue, Resting, Moving, Rendered, Answered
  <2>2. tab' \in [Tabs -> TabValue] BY <1>1, <1>8, <2>1 DEF Reload
  <2>3. failures' \in 0..MaxFailures /\ secret \in 1..(failures' + 1)
    BY <1>8, AuthAssumption DEF Reload, Fail, TypeOK
  <2> QED BY <1>8, <2>2, <2>3 DEF Reload, TypeOK
<1> QED BY <1>2, <1>3, <1>4, <1>6, <1>7, <1>8, <1>9 DEF User, Opens

LEMMA DiscoveryTyped ==
  ASSUME TypeOK, NEW kind \in Kinds,
         getOidcConfiguration(kind) \/ DiscoveryFails(kind)
  PROVE  /\ discovered' \subseteq Kinds
         /\ failures' \in 0..MaxFailures
         /\ secret \in 1..(failures' + 1)
BY AuthAssumption DEF getOidcConfiguration, DiscoveryFails, Fail, TypeOK

LEMMA ProxyTyped ==
  ASSUME TypeOK, NEW t \in Tabs, proxy(t)
  PROVE  TypeOK'
<1>1. tab[t] \in Moving BY GoingTyped DEF proxy, Asks
<1>2. tab[t].url.path \in Paths
  BY GoingTyped DEF proxy, Asks, Urls, LogoutUrl
<1> DEFINE path    == tab[t].url.path
           session == readSession(jar.session, secret, clock)
<1>3. jar.session \in SessionCookie BY DEF TypeOK
<1>4. CASE tab' = [tab EXCEPT ![t] = Rendering(path, jar.session)]
  <2>1. Rendering(path, jar.session) \in TabValue
    BY <1>2, <1>3 DEF Rendering, Rendered, TabValue
  <2> QED BY <1>4, <2>1, TabTyped DEF proxy, TypeOK
<1>5. CASE Answers(t, Unset, Page("forbidden", "dashboard", session # NoValue))
  <2>1. Page("forbidden", "dashboard", session # NoValue) \in Resting
    BY PageTyped DEF Paths, Returns
  <2>2. tab' \in [Tabs -> TabValue] BY <1>1, <1>5, <2>1, AnswersTyped DEF Unset
  <2> QED BY <2>2 DEF proxy, TypeOK
<1>6. CASE Answers(t, Unset, LoginPage(path, session))
  <2>1. tab' \in [Tabs -> TabValue] BY <1>1, <1>6, LoginPageTyped, AnswersTyped DEF Unset
  <2> QED BY <2>1 DEF proxy, TypeOK
<1>7. CASE Answers(t, IF jar.session = NoCookie THEN Unset ELSE Set(NoCookie, NoValue),
                   LoginPage(path, session))
  <2>1. CASE jar.session = NoCookie BY <1>6, <1>7, <2>1
  <2>2. CASE jar.session # NoCookie
    <3>1. Answers(t, Set(NoCookie, NoValue), LoginPage(path, session)) BY <1>7, <2>2
    <3>2. tab' \in [Tabs -> TabValue]
      BY <1>1, <3>1, CookieTyped, LoginPageTyped, AnswersTyped
    <3> QED BY <3>2 DEF proxy, TypeOK
  <2> QED BY <2>1, <2>2
<1>8. authorizePath(path, session)
        \in {"allowed", "forbidden", "reauthenticate", "unauthenticated"}
  BY DEF authorizePath, isAppMember, hasRole
<1> QED BY <1>4, <1>5, <1>6, <1>7, <1>8 DEF proxy

LEMMA RenderTyped ==
  ASSUME TypeOK, NEW t \in Tabs, Render(t)
  PROVE  TypeOK'
<1> DEFINE session == readSession(tab[t].cookie, secret, clock)
           shown   == IF tab[t].path = "admin" THEN AdminPage(session) ELSE tab[t].path
           next    == IF shown = "login" THEN LoginPage(tab[t].path, session)
                      ELSE Page(shown, "dashboard", session # NoValue)
<1>1. tab[t].path \in Paths
  BY DEF Render, TypeOK, TabValue, Resting, Moving, Rendered, Answered
<1>2. shown \in Returns \cup {"login", "forbidden"}
  BY <1>1 DEF AdminPage, hasRole, Paths, Returns
<1>3. next \in Resting BY <1>2, LoginPageTyped, PageTyped DEF Paths, Returns
<1>4. tab' \in [Tabs -> TabValue]
  <2>1. next \in TabValue BY <1>3 DEF TabValue
  <2>2. tab' = [tab EXCEPT ![t] = next] BY DEF Render
  <2> QED BY <2>1, <2>2, TabTyped
<1> QED BY <1>4 DEF Render, TypeOK

LEMMA SealTyped ==
  ASSUME TypeOK
  PROVE  /\ \A v \in Transaction : seal(v, secret) \in TransactionCookie
         /\ \A v \in Session : seal(v, secret) \in SessionCookie
<1>1. secret \in 1..(MaxFailures + 1) BY AuthAssumption DEF TypeOK
<1> QED BY <1>1 DEF seal, TransactionCookie, SessionCookie, Cookie

LEMMA LoginTyped ==
  ASSUME TypeOK, NEW t \in Tabs, login(t)
  PROVE  TypeOK'
<1> DEFINE returnTo == safeReturnTo(tab[t].url.asked)
           kind     == IF isAdminReturnTo(returnTo) THEN "admin" ELSE "user"
           session  == readSession(jar.session, secret, clock)
<1>1. tab[t] \in Moving BY GoingTyped DEF login, Asks
<1>2. returnTo \in Returns BY SafeReturns
<1>3. kind \in Kinds BY DEF Kinds
<1>4. CASE DiscoveryFails(kind) /\ Answers(t, Unset, LoginPageAfterError(session)) /\ UNCHANGED redeemed
  <2>1. tab' \in [Tabs -> TabValue]
    BY <1>1, <1>4, LoginPageTyped, AnswersTyped DEF Unset, LoginPageAfterError
  <2> QED BY <1>3, <1>4, <2>1, DiscoveryTyped DEF login, TypeOK
<1>5. ASSUME NEW n \in Logins \ InUse,
             getOidcConfiguration(kind), redeemed' = redeemed \ {n},
             Answers(t, Set(NoValue, seal([kind |-> kind, login |-> n,
                              returnTo |-> returnTo,
                              expires |-> clock + TransactionLife], secret)),
                     AtProvider(n, kind))
      PROVE  TypeOK'
  <2> DEFINE v == [kind |-> kind, login |-> n, returnTo |-> returnTo,
                   expires |-> clock + TransactionLife]
  <2>1. clock + TransactionLife \in Times BY AuthAssumption DEF TypeOK, Times
  <2>2. v \in Transaction BY <1>2, <1>3, <2>1 DEF Transaction
  <2>3. seal(v, secret) \in TransactionCookie BY <2>2, SealTyped
  <2>4. AtProvider(n, kind) \in Resting BY <1>3, ProviderTyped
  <2>5. tab' \in [Tabs -> TabValue] BY <1>1, <1>5, <2>3, <2>4, AnswersTyped
  <2> QED BY <1>3, <1>5, <2>5, DiscoveryTyped DEF login, TypeOK
<1> QED BY <1>4, <1>5 DEF login

LEMMA CallbackRefusesTyped ==
  ASSUME TypeOK, NEW t \in Tabs, CallbackRefuses(t)
  PROVE  TypeOK'
<1> DEFINE transaction == readTransaction(jar.transaction, secret, clock)
<1>1. tab[t] \in Moving BY GoingTyped DEF CallbackRefuses, Asks
<1>2. tab' \in [Tabs -> TabValue]
  BY <1>1, CookieTyped, LoginPageTyped, AnswersTyped
  DEF CallbackRefuses, clearAuthCookies, LoginPageAfterError
<1>3. /\ discovered' \subseteq Kinds /\ redeemed' \subseteq Logins
      /\ failures' \in 0..MaxFailures /\ secret \in 1..(failures' + 1)
  <2>1. CASE transaction = NoValue
    BY <2>1 DEF CallbackRefuses, TypeOK
  <2>2. CASE transaction # NoValue
    <3>1. transaction.kind \in Kinds /\ transaction.login \in Logins
      BY <2>2, TransactionRead DEF Transaction
    <3>2. redeemed' \subseteq Logins BY <3>1, <2>2 DEF CallbackRefuses, TypeOK
    <3>3. \/ getOidcConfiguration(transaction.kind) \/ DiscoveryFails(transaction.kind)
          \/ Fail /\ discovered' = discovered \cup {transaction.kind}
      BY <2>2 DEF CallbackRefuses
    <3>4. CASE Fail /\ discovered' = discovered \cup {transaction.kind}
      <4>1. failures' \in 0..MaxFailures /\ secret \in 1..(failures' + 1)
        BY <3>4, AuthAssumption DEF Fail, TypeOK
      <4>2. discovered' \subseteq Kinds BY <3>1, <3>4 DEF TypeOK
      <4> QED BY <3>2, <4>1, <4>2
    <3> QED BY <3>1, <3>2, <3>3, <3>4, DiscoveryTyped
  <2> QED BY <2>1, <2>2
<1> QED BY <1>2, <1>3 DEF CallbackRefuses, TypeOK

(* A token never gives a session more than SessionLife.                    *)
LEMMA ExpiryBounded ==
  ASSUME TypeOK, NEW exp \in {NoValue, clock + SessionLife + 1}
  PROVE  expiresAt(exp) \in Times /\ expiresAt(exp) <= clock + SessionLife
<1>1. clock \in 0..MaxTime BY DEF TypeOK
<1>2. CASE exp = NoValue
  BY <1>1, <1>2, AuthAssumption DEF expiresAt, Times
<1>3. CASE exp # NoValue
  BY <1>1, <1>3, AuthAssumption DEF expiresAt, Times
<1> QED BY <1>2, <1>3

(* What a callback that succeeds hands out.                                *)
Granted(t, exp) ==
  [kind    |-> readTransaction(jar.transaction, secret, clock).kind,
   roles   |-> extractApplicationRoles(claims),
   expires |-> expiresAt(exp),
   token   |-> [kind |-> tab[t].url.kind, scope |-> oidcScopes(env, tab[t].url.kind)]]

LEMMA GrantedTyped ==
  ASSUME TypeOK, NEW t \in Tabs, CallbackAccepts(t),
         NEW exp \in {NoValue, clock + SessionLife + 1}
  PROVE  /\ Granted(t, exp) \in Session
         /\ seal(Granted(t, exp), secret) \in SessionCookie
         /\ readTransaction(jar.transaction, secret, clock).kind \in Kinds
         /\ readTransaction(jar.transaction, secret, clock).returnTo \in Returns
         /\ readTransaction(jar.transaction, secret, clock).login \in Logins
<1> DEFINE transaction == readTransaction(jar.transaction, secret, clock)
<1>1. transaction \in Transaction BY TransactionRead DEF CallbackAccepts
<1>2. /\ transaction.kind \in Kinds /\ transaction.returnTo \in Returns
      /\ transaction.login \in Logins
  BY <1>1 DEF Transaction
<1>3. tab[t].url.kind = transaction.kind
  BY DEF CallbackAccepts, authorizationCodeGrant
<1>4. oidcScopes(env, transaction.kind) \subseteq Scopes
  <2>1. env \in Environment BY AuthAssumption DEF TypeOK
  <2>2. env.scopes[transaction.kind] \subseteq Scopes BY <1>2, <2>1 DEF Environment
  <2>3. requiredScopes(transaction.kind) \subseteq Scopes BY DEF requiredScopes, Scopes
  <2> QED BY <2>2, <2>3 DEF oidcScopes
<1>5. extractApplicationRoles(claims) \subseteq AppRoles BY DEF extractApplicationRoles
<1>6. expiresAt(exp) \in Times BY ExpiryBounded
<1>7. Granted(t, exp) \in Session
  BY <1>2, <1>3, <1>4, <1>5, <1>6 DEF Granted, Session, Token
<1> QED BY <1>2, <1>7, SealTyped

LEMMA AcceptsWhat ==
  ASSUME NEW t \in Tabs, CallbackAccepts(t)
  PROVE  \E exp \in {NoValue, clock + SessionLife + 1} :
           Answers(t, Set(seal(Granted(t, exp), secret), NoCookie),
                   Landing(readTransaction(jar.transaction, secret, clock).returnTo,
                           seal(Granted(t, exp), secret)))
BY DEF CallbackAccepts, acceptedCookies, Granted

LEMMA CallbackAcceptsTyped ==
  ASSUME TypeOK, NEW t \in Tabs, CallbackAccepts(t)
  PROVE  TypeOK'
<1> DEFINE transaction == readTransaction(jar.transaction, secret, clock)
<1>1. tab[t] \in Moving BY GoingTyped DEF CallbackAccepts, Asks
<1>2. PICK exp \in {NoValue, clock + SessionLife + 1} :
        Answers(t, Set(seal(Granted(t, exp), secret), NoCookie),
                Landing(transaction.returnTo, seal(Granted(t, exp), secret)))
  BY AcceptsWhat
<1>3. /\ seal(Granted(t, exp), secret) \in SessionCookie
      /\ transaction.kind \in Kinds /\ transaction.returnTo \in Returns
      /\ transaction.login \in Logins
  BY GrantedTyped
<1>4. Landing(transaction.returnTo, seal(Granted(t, exp), secret)) \in Resting \cup Moving
  BY <1>3, LandingTyped
<1>5. tab' \in [Tabs -> TabValue] BY <1>1, <1>2, <1>3, <1>4, CookieTyped, AnswersTyped
<1>6. /\ discovered' \subseteq Kinds
      /\ failures' \in 0..MaxFailures /\ secret \in 1..(failures' + 1)
  BY <1>3, DiscoveryTyped DEF CallbackAccepts
<1>7. redeemed' \subseteq Logins BY <1>3 DEF CallbackAccepts, TypeOK
<1> QED BY <1>5, <1>6, <1>7 DEF CallbackAccepts, TypeOK

LEMMA LogoutTyped ==
  ASSUME TypeOK, NEW t \in Tabs, logout(t)
  PROVE  TypeOK'
<1> DEFINE session == readSession(jar.session, secret, clock)
<1>1. tab[t] \in Moving BY GoingTyped DEF logout, Asks
<1>2. tab' \in [Tabs -> TabValue]
  BY <1>1, CookieTyped, LoginPageTyped, AnswersTyped DEF logout, clearAuthCookies
<1>3. /\ discovered' \subseteq Kinds
      /\ failures' \in 0..MaxFailures /\ secret \in 1..(failures' + 1)
  <2>1. CASE session = NoValue BY <2>1 DEF logout, TypeOK
  <2>2. CASE session # NoValue
    <3>1. session.kind \in Kinds
      <4>1. jar.session \in SessionCookie BY DEF TypeOK
      <4> QED BY <2>2, <4>1, SessionRead DEF Session
    <3> QED BY <2>2, <3>1, DiscoveryTyped DEF logout
  <2> QED BY <2>1, <2>2
<1> QED BY <1>2, <1>3 DEF logout, TypeOK

LEMMA DeliverTyped ==
  ASSUME TypeOK, NEW t \in Tabs, Deliver(t)
  PROVE  TypeOK'
<1>1. tab[t] \in Answered
  BY DEF Deliver, TypeOK, TabValue, Resting, Moving, Rendered
<1>2. tab[t].next \in TabValue BY <1>1 DEF Answered, TabValue
<1>3. tab' \in [Tabs -> TabValue] BY <1>2, TabTyped DEF Deliver
<1>4. /\ tab[t].set.session \in {NoValue} \cup SessionCookie
      /\ tab[t].set.transaction \in {NoValue} \cup TransactionCookie
  BY <1>1 DEF Answered
<1>5. jar' \in [session: SessionCookie, transaction: TransactionCookie]
  BY <1>4 DEF Deliver, TypeOK
<1> QED BY <1>3, <1>5 DEF Deliver, TypeOK

LEMMA CookieExpiresTyped ==
  ASSUME TypeOK, NEW c \in {"session", "transaction"}, CookieExpires(c)
  PROVE  TypeOK'
<1>1. jar' \in [session: SessionCookie, transaction: TransactionCookie]
  BY CookieTyped DEF CookieExpires, TypeOK
<1> QED BY <1>1 DEF CookieExpires, TypeOK

LEMMA NextTyped == TypeOK /\ [Next]_vars => TypeOK'
<1> SUFFICES ASSUME TypeOK, [Next]_vars PROVE TypeOK' OBVIOUS
<1>1. ASSUME NEW t \in Tabs, Serve(t) PROVE TypeOK'
  BY <1>1, ProxyTyped, RenderTyped, LoginTyped, CallbackRefusesTyped, CallbackAcceptsTyped,
     LogoutTyped, DeliverTyped DEF Serve
<1>2. CASE Restart
  BY <1>2, AuthAssumption DEF Restart, Fail, TypeOK
<1>3. CASE Tick
  BY <1>3, AuthAssumption DEF Tick, TypeOK
<1>4. CASE UNCHANGED vars BY <1>4 DEF vars, TypeOK
<1> QED BY <1>1, <1>2, <1>3, <1>4, UserTyped, CookieExpiresTyped DEF Next

(* TypeOK: cookies, tabs and attempts keep their types, whatever is lost,   *)
(* refused, restarted or expires.                                          *)
THEOREM AuthTypeCorrect == Spec => []TypeOK
<1>1. Init => TypeOK BY InitTyped
<1>2. TypeOK /\ [Next]_vars => TypeOK' BY NextTyped
<1> QED BY <1>1, <1>2, PTL DEF Spec

-----------------------------------------------------------------------------
(* Sessions and transactions belong together                               *)

(* The client login chooses for a return path.                             *)
ClientOf(path) == IF isAdminReturnTo(path) THEN "admin" ELSE "user"

OwnSession(c) ==
  c # NoCookie =>
    /\ c.value.kind = c.value.token.kind
    /\ "securescan:admin" \in c.value.token.scope => c.value.kind = "admin"
    /\ c.value.expires <= clock + SessionLife
OwnTransaction(c) == c # NoCookie => c.value.kind = ClientOf(c.value.returnTo)
OwnGoing(v) ==
  v.at = "going" /\ v.just # NoCookie =>
    v.url.to = "page" /\ v.just.value.kind = ClientOf(v.url.path)
OwnAnswer(v) ==
  v.at = "answer" =>
    /\ OwnGoing(v.next)
    /\ v.set.session # NoValue => OwnSession(v.set.session)
    /\ v.set.transaction # NoValue => OwnTransaction(v.set.transaction)

LoginsOK ==
  /\ OwnSession(jar.session) /\ OwnTransaction(jar.transaction)
  /\ \A t \in Tabs : OwnGoing(tab[t]) /\ OwnAnswer(tab[t])
IInv == TypeOK /\ LoginsOK

LEMMA TabKeeps ==
  ASSUME TypeOK, LoginsOK, NEW t \in Tabs, NEW v, tab' = [tab EXCEPT ![t] = v],
         OwnGoing(v), OwnAnswer(v), UNCHANGED <<jar, clock>>
  PROVE  LoginsOK'
BY DEF TypeOK, LoginsOK, OwnSession, OwnTransaction, OwnGoing, OwnAnswer

LEMMA PlainOwn ==
  /\ \A url : OwnGoing(Going(url, NoCookie)) /\ OwnAnswer(Going(url, NoCookie))
  /\ \A p, r, h : OwnGoing(Page(p, r, h)) /\ OwnAnswer(Page(p, r, h))
  /\ \A r, s : OwnGoing(LoginPage(r, s)) /\ OwnAnswer(LoginPage(r, s))
  /\ \A n, k : OwnGoing(AtProvider(n, k))
  /\ \A p, c : OwnGoing(Rendering(p, c)) /\ OwnAnswer(Rendering(p, c))
  /\ OwnSession(NoCookie) /\ OwnTransaction(NoCookie)
BY DEF OwnGoing, OwnAnswer, Going, Page, LoginPage, AtProvider, Rendering, OwnSession,
       OwnTransaction

LEMMA AnswersKeep ==
  ASSUME TypeOK, LoginsOK, NEW t \in Tabs, NEW s, NEW x, NEW next,
         Answers(t, Set(s, x), next), UNCHANGED <<jar, clock>>,
         s # NoValue => OwnSession(s), x # NoValue => OwnTransaction(x),
         OwnGoing(next), Set(s, x) = Unset => OwnAnswer(next)
  PROVE  LoginsOK'
<1>1. OwnGoing(Answer(tab[t].url, Set(s, x), next)) BY DEF OwnGoing, Answer
<1>2. OwnAnswer(Answer(tab[t].url, Set(s, x), next)) BY DEF OwnAnswer, Answer, Set
<1> QED BY <1>1, <1>2, TabKeeps DEF Answers

LEMMA ServeKeeps ==
  ASSUME TypeOK, LoginsOK, NEW t \in Tabs, Serve(t)
  PROVE  LoginsOK'
<1>1. CASE proxy(t)
  <2> DEFINE path    == tab[t].url.path
             session == readSession(jar.session, secret, clock)
  <2>1. \/ tab' = [tab EXCEPT ![t] = Rendering(path, jar.session)]
        \/ Answers(t, Unset, Page("forbidden", "dashboard", session # NoValue))
        \/ Answers(t, Unset, LoginPage(path, session))
        \/ Answers(t, Set(NoCookie, NoValue), LoginPage(path, session))
    <3>1. authorizePath(path, session)
            \in {"allowed", "forbidden", "reauthenticate", "unauthenticated"}
      BY DEF authorizePath, isAppMember, hasRole
    <3> QED BY <1>1, <3>1 DEF proxy
  <2>2. UNCHANGED <<jar, clock>> BY <1>1 DEF proxy
  <2>3. CASE tab' = [tab EXCEPT ![t] = Rendering(path, jar.session)]
    BY <2>2, <2>3, PlainOwn, TabKeeps
  <2>4. CASE Answers(t, Unset, Page("forbidden", "dashboard", session # NoValue))
    BY <2>2, <2>4, PlainOwn, AnswersKeep DEF Unset
  <2>5. CASE Answers(t, Unset, LoginPage(path, session))
    BY <2>2, <2>5, PlainOwn, AnswersKeep DEF Unset
  <2>6. CASE Answers(t, Set(NoCookie, NoValue), LoginPage(path, session))
    BY <2>2, <2>6, PlainOwn, AnswersKeep
  <2> QED BY <2>1, <2>3, <2>4, <2>5, <2>6
<1>2. CASE Render(t)
  <2>1. PICK v : tab' = [tab EXCEPT ![t] = v] /\ OwnGoing(v) /\ OwnAnswer(v)
    BY <1>2, PlainOwn DEF Render
  <2> QED BY <1>2, <2>1, TabKeeps DEF Render
<1>3. CASE login(t)
  <2> DEFINE returnTo == safeReturnTo(tab[t].url.asked)
             kind     == IF isAdminReturnTo(returnTo) THEN "admin" ELSE "user"
             session  == readSession(jar.session, secret, clock)
             v(n)     == [kind |-> kind, login |-> n, returnTo |-> returnTo,
                          expires |-> clock + TransactionLife]
  <2>1. UNCHANGED <<jar, clock>> BY <1>3 DEF login
  <2>2. CASE Answers(t, Unset, LoginPageAfterError(session))
    BY <2>1, <2>2, PlainOwn, AnswersKeep DEF Unset, LoginPageAfterError
  <2>3. ASSUME NEW n \in Logins, Answers(t, Set(NoValue, seal(v(n), secret)), AtProvider(n, kind))
        PROVE  LoginsOK'
    <3>1. OwnTransaction(seal(v(n), secret)) BY DEF OwnTransaction, seal, ClientOf
    <3>3. OwnAnswer(AtProvider(n, kind)) BY DEF OwnAnswer, AtProvider
    <3> QED BY <2>1, <2>3, <3>1, <3>3, PlainOwn, AnswersKeep
  <2> QED BY <1>3, <2>2, <2>3 DEF login
<1>4. CASE CallbackRefuses(t)
  BY <1>4, PlainOwn, AnswersKeep DEF CallbackRefuses, clearAuthCookies, LoginPageAfterError
<1>5. CASE CallbackAccepts(t)
  <2> DEFINE transaction == readTransaction(jar.transaction, secret, clock)
  <2>1. PICK exp \in {NoValue, clock + SessionLife + 1} :
          Answers(t, Set(seal(Granted(t, exp), secret), NoCookie),
                  Landing(transaction.returnTo, seal(Granted(t, exp), secret)))
    BY <1>5, AcceptsWhat
  <2> DEFINE s == seal(Granted(t, exp), secret)
  <2>2. /\ transaction = jar.transaction.value /\ jar.transaction # NoCookie
        /\ transaction.kind \in Kinds
    BY <1>5, TransactionRead DEF CallbackAccepts, Transaction
  <2>3. transaction.kind = ClientOf(transaction.returnTo)
    BY <2>2 DEF LoginsOK, OwnTransaction
  <2>4. transaction.kind = tab[t].url.kind
    BY <1>5 DEF CallbackAccepts, authorizationCodeGrant
  <2>5. "securescan:admin" \in oidcScopes(env, transaction.kind) => transaction.kind = "admin"
    BY <1>5, <2>2 DEF CallbackAccepts, getOidcConfiguration, loadOidcConfig, Kinds
  <2>6. expiresAt(exp) <= clock + SessionLife BY ExpiryBounded
  <2>7. OwnSession(s)
    BY <2>4, <2>5, <2>6 DEF OwnSession, seal, Granted
  <2>8. OwnGoing(Landing(transaction.returnTo, s))
    <3>1. CASE transaction.returnTo = "elsewhere" BY <3>1, PlainOwn DEF Landing
    <3>2. CASE transaction.returnTo # "elsewhere"
      BY <2>3, <3>2 DEF Landing, OwnGoing, Going, PageUrl, seal, Granted
    <3> QED BY <3>1, <3>2
  <2>9. OwnAnswer(Landing(transaction.returnTo, s)) BY PlainOwn DEF Landing, OwnAnswer, Going
  <2> QED BY <1>5, <2>1, <2>7, <2>8, <2>9, PlainOwn, AnswersKeep DEF CallbackAccepts
<1>6. CASE logout(t)
  BY <1>6, PlainOwn, AnswersKeep DEF logout, clearAuthCookies
<1>7. CASE Deliver(t)
  <2>1. tab[t].at = "answer" /\ OwnAnswer(tab[t]) BY <1>7 DEF Deliver, LoginsOK
  <2>2. tab[t] \in Answered
    BY <2>1 DEF TypeOK, TabValue, Resting, Moving, Rendered
  <2>3. OwnGoing(tab[t].next) BY <2>1 DEF OwnAnswer
  <2>4. OwnAnswer(tab[t].next) BY <2>2 DEF OwnAnswer, Answered, Resting, Moving
  <2>5. \A u \in Tabs : OwnGoing(tab'[u]) /\ OwnAnswer(tab'[u])
    BY <1>7, <2>3, <2>4 DEF Deliver, LoginsOK, TypeOK
  <2>6. OwnSession(jar'.session)
    BY <1>7, <2>1 DEF Deliver, LoginsOK, OwnAnswer
  <2>7. OwnTransaction(jar'.transaction)
    BY <1>7, <2>1 DEF Deliver, LoginsOK, OwnAnswer
  <2>8. clock' = clock BY <1>7 DEF Deliver
  <2> QED BY <2>5, <2>6, <2>7, <2>8 DEF LoginsOK, OwnSession, OwnTransaction, OwnGoing, OwnAnswer
<1> QED BY <1>1, <1>2, <1>3, <1>4, <1>5, <1>6, <1>7 DEF Serve

LEMMA UserKeeps ==
  ASSUME TypeOK, LoginsOK, NEW t \in Tabs, User(t)
  PROVE  LoginsOK'
<1>1. \/ \E url : tab' = [tab EXCEPT ![t] = Going(url, NoCookie)]
      \/ \E asked, session : tab' = [tab EXCEPT ![t] = LoginPage(asked, session)]
  BY DEF User, Opens, Open, Follow, Continue, SignOut, Authenticate, Refuse, Reload
<1>2. UNCHANGED <<jar, clock>>
  BY DEF User, Opens, Open, Follow, Continue, SignOut, Authenticate, Refuse, Reload
<1> QED BY <1>1, <1>2, PlainOwn, TabKeeps

LEMMA TickKeeps == ASSUME TypeOK, LoginsOK, Tick PROVE LoginsOK'
<1>1. clock' = clock + 1 /\ clock \in Nat /\ SessionLife \in Nat
  BY AuthAssumption DEF Tick, TypeOK
<1>2. \A c \in SessionCookie : OwnSession(c) => OwnSession(c)'
  <2> SUFFICES ASSUME NEW c \in SessionCookie, OwnSession(c) PROVE OwnSession(c)' OBVIOUS
  <2>1. CASE c = NoCookie BY <2>1 DEF OwnSession
  <2>2. CASE c # NoCookie
    <3>1. c.value.expires \in Nat
      BY <2>2, AuthAssumption DEF SessionCookie, Cookie, Session, Times
    <3> QED BY <1>1, <2>2, <3>1 DEF OwnSession
  <2> QED BY <2>1, <2>2
<1>3. OwnSession(jar.session)' BY <1>2 DEF Tick, LoginsOK, TypeOK
<1>4. ASSUME NEW u \in Tabs PROVE OwnAnswer(tab[u])'
  <2>1. OwnAnswer(tab[u]) BY DEF LoginsOK
  <2>2. tab[u].at = "answer" => tab[u] \in Answered
    BY DEF TypeOK, TabValue, Resting, Moving, Rendered
  <2>3. tab[u].at = "answer" /\ tab[u].set.session # NoValue
          => OwnSession(tab[u].set.session)'
    BY <1>2, <2>1, <2>2 DEF OwnAnswer, Answered, Tick
  <2> QED BY <2>1, <2>3 DEF OwnAnswer, OwnGoing, OwnTransaction, Tick
<1> QED BY <1>3, <1>4 DEF Tick, LoginsOK, OwnGoing, OwnTransaction

LEMMA InvariantHolds == Spec => []IInv
<1>1. Init => IInv
  <2> SUFFICES ASSUME Init PROVE LoginsOK BY InitTyped DEF IInv
  <2> QED BY PlainOwn DEF Init, LoginsOK
<1>2. IInv /\ [Next]_vars => IInv'
  <2> SUFFICES ASSUME IInv, [Next]_vars PROVE LoginsOK' BY NextTyped DEF IInv
  <2>1. CASE Restart
    BY <2>1, SMTT(20) DEF Restart, IInv, LoginsOK, OwnSession, OwnTransaction, OwnGoing, OwnAnswer
  <2>2. ASSUME NEW c \in {"session", "transaction"}, CookieExpires(c) PROVE LoginsOK'
    BY <2>2, PlainOwn DEF CookieExpires, IInv, TypeOK, LoginsOK, OwnSession, OwnTransaction,
                          OwnGoing, OwnAnswer
  <2>3. CASE UNCHANGED vars
    BY <2>3 DEF vars, IInv, LoginsOK, OwnSession, OwnTransaction, OwnGoing, OwnAnswer
  <2> QED BY <2>1, <2>2, <2>3, UserKeeps, ServeKeeps, TickKeeps DEF Next, IInv
<1> QED BY <1>1, <1>2, PTL DEF Spec

(* SessionFromOwnLogin: no session, in the jar or on its way, is of another *)
(* client than its token, has the administrator's scope without being the   *)
(* administrator's, or outlives SessionLife.                               *)
THEOREM SessionsAreTheirOwn == Spec => []SessionFromOwnLogin
<1>1. IInv => SessionFromOwnLogin
  BY DEF IInv, LoginsOK, OwnAnswer, OwnSession, SessionFromOwnLogin, Circulating
<1> QED BY <1>1, InvariantHolds, PTL

LEMMA GuardAccepts ==
  ASSUME NEW path, NEW s, s # NoValue, s.kind = ClientOf(path)
  PROVE  authorizePath(path, s) \in {"allowed", "forbidden"}
<1>1. CASE ~isAppMember(s) BY <1>1 DEF authorizePath
<1>2. CASE isAppMember(s) /\ ~isAdminReturnTo(path)
  BY <1>2 DEF authorizePath, isAdminReturnTo
<1>3. CASE isAppMember(s) /\ isAdminReturnTo(path)
  BY <1>3 DEF authorizePath, isAdminReturnTo, ClientOf
<1> QED BY <1>1, <1>2, <1>3

(* NoLoginLoop: the guard never sends a tab back to the login with the      *)
(* session it has just been given for that very path.                      *)
THEOREM LoginDoesNotLoop == Spec => []NoLoginLoop
<1>1. IInv => NoLoginLoop
  <2> SUFFICES ASSUME IInv, NEW t \in Tabs, tab[t].at = "going", tab[t].just # NoCookie,
                      tab[t].just = jar.session,
                      readSession(jar.session, secret, clock) # NoValue
               PROVE  authorizePath(tab[t].url.path, readSession(jar.session, secret, clock))
                        \in {"allowed", "forbidden"}
    BY DEF NoLoginLoop
  <2> DEFINE s == readSession(jar.session, secret, clock)
  <2>1. jar.session \in SessionCookie BY DEF IInv, TypeOK
  <2>2. s = jar.session.value BY <2>1, SessionRead DEF IInv
  <2>3. s.kind = ClientOf(tab[t].url.path) BY <2>2 DEF IInv, LoginsOK, OwnGoing
  <2> QED BY <2>3, GuardAccepts
<1> QED BY <1>1, InvariantHolds, PTL
=============================================================================
