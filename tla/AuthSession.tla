---------------------------- MODULE AuthSession ----------------------------
(***************************************************************************)
(* Signing in to the frontend: the tabs of one browser share two cookies,  *)
(* the login's transaction and the session; the routes login, callback and *)
(* logout and the route guard (app/auth, proxy.ts) read and replace them.  *)
(*                                                                         *)
(* A handler works on the cookies its request carried.  Its answer, with   *)
(* the cookies it sets or deletes, reaches the browser later, when other   *)
(* tabs may have changed them.                                             *)
(***************************************************************************)
EXTENDS SessionValues

CONSTANTS
  Tabs,
  Wanted,           \* the pages the user opens
  Linked,           \* the return values of links to the login, and in which tab
  Logins,           \* numbers of login attempts: state, nonce, verifier
  Environments,     \* the process environments to consider
  Accounts,         \* the groups an environment's identity server may tell of the user
  TransactionLife,  \* ten minutes
  DefaultLife,      \* one hour, of a token that does not say
  SessionLife,      \* eight hours
  MaxTime,          \* bound on the clock
  MaxFailures       \* bound on failures, restarts included

ASSUME AuthAssumption ==
  /\ IsFiniteSet(Tabs) /\ Wanted \subseteq Paths /\ Linked \subseteq Tabs \X Asked
  /\ Logins \subseteq Nat /\ IsFiniteSet(Logins)
  /\ Cardinality(Logins) > Cardinality(Tabs)
  /\ Environments \subseteq Environment
  /\ TransactionLife \in Nat \ {0} /\ DefaultLife \in Nat \ {0} /\ SessionLife \in Nat \ {0}
  /\ MaxTime \in Nat /\ MaxFailures \in Nat

VARIABLES
  env,         \* the server's environment variables
  claims,      \* the user's groups at the identity server
  secret,      \* generation of AUTH_SESSION_SECRET
  discovered,  \* the clients whose provider metadata is cached
  jar,         \* the browser's cookies
  tab,         \* where each tab is
  redeemed,    \* attempts, of those still in use, whose code was exchanged
  clock, failures

vars == <<env, claims, secret, discovered, jar, tab, redeemed, clock, failures>>

-----------------------------------------------------------------------------
(* Values                                                                  *)

Times == 0..(MaxTime + TransactionLife + SessionLife)
Transaction == [kind: Kinds, login: Logins, returnTo: Returns, expires: Times]
Token   == [kind: Kinds, scope: SUBSET Scopes]
Session == [kind: Kinds, roles: SUBSET AppRoles, expires: Times, token: Token]
Cookie(values) == {NoCookie} \cup [key: 1..(MaxFailures + 1), value: values]

(* A tab shows a page, is at the identity server, has a request to send, or *)
(* waits for an answer.  header tells whether the page offers to sign out;  *)
(* just is the session the tab has just been given, if it was.              *)
Page(page, returnTo, header) ==
  [at |-> "page", page |-> page, returnTo |-> returnTo, header |-> header]
AtProvider(login, kind) == [at |-> "provider", login |-> login, kind |-> kind]
Going(url, just)  == [at |-> "going", url |-> url, just |-> just]
Answer(url, set, next) == [at |-> "answer", url |-> url, set |-> set, next |-> next]
Rendering(path, cookie) == [at |-> "rendering", path |-> path, cookie |-> cookie]

PageUrl(path)   == [to |-> "page", path |-> path]
LoginUrl(asked) == [to |-> "login", asked |-> asked]
CallbackUrl(login, kind, code) ==
  [to |-> "callback", login |-> login, kind |-> kind, code |-> code]
LogoutUrl == [to |-> "logout"]

(* The login page has the header of every page.  /login?error=... forgets  *)
(* the return path, and the page falls back.                               *)
LoginPage(asked, session) == Page("login", safeReturnTo(asked), session # NoValue)
LoginPageAfterError(session) == LoginPage("none", session)

(* A login ends with a request for its return path, or with another server. *)
Landing(returnTo, session) ==
  IF returnTo = "elsewhere" THEN Page("elsewhere", "dashboard", FALSE)
  ELSE Going(PageUrl(returnTo), session)

(* What an answer sets: NoValue leaves a cookie as it is.                   *)
Set(session, transaction) == [session |-> session, transaction |-> transaction]
Unset            == Set(NoValue, NoValue)
clearAuthCookies == Set(NoCookie, NoCookie)

(* Attempts some part of the system still knows.                           *)
LoginsOf(t) ==
  CASE t.at = "provider" -> {t.login}
    [] t.at = "going"  /\ t.url.to = "callback" -> {t.url.login}
    [] t.at = "answer" /\ t.url.to = "callback" -> {t.url.login}
    [] t.at = "answer" /\ t.next.at = "provider" -> {t.next.login}
    [] OTHER -> {}
InUse == UNION {LoginsOf(tab[t]) : t \in Tabs} \cup
         (IF jar.transaction = NoCookie THEN {} ELSE {jar.transaction.value.login})

Init ==
  /\ env \in {e \in Environments : loadOidcConfig(e, "user")}  \* instrumentation.ts
  /\ claims \in Accounts[env]
  /\ secret = 1
  /\ discovered = {}
  /\ jar = [session |-> NoCookie, transaction |-> NoCookie]
  /\ tab = [t \in Tabs |-> LoginPage("none", NoValue)]
  /\ redeemed = {}
  /\ clock = 0
  /\ failures = 0

Fail == failures < MaxFailures /\ failures' = failures + 1

-----------------------------------------------------------------------------
(* The user                                                                *)

(* A link, or an address typed into the tab.                               *)
Open(t, path) ==
  /\ tab[t].at = "page"
  /\ tab' = [tab EXCEPT ![t] = Going(PageUrl(path), NoCookie)]
  /\ UNCHANGED <<env, claims, secret, discovered, jar, redeemed, clock, failures>>

(* A link to the login page, or to the login itself, with a return value.   *)
Follow(t, asked) ==
  /\ tab[t].at = "page"
  /\ LET session == readSession(jar.session, secret, clock) IN
     \E next \in {LoginPage(asked, session), Going(LoginUrl(asked), NoCookie)} :
       tab' = [tab EXCEPT ![t] = next]
  /\ UNCHANGED <<env, claims, secret, discovered, jar, redeemed, clock, failures>>

Continue(t) ==
  /\ tab[t].at = "page" /\ tab[t].page = "login"
  /\ tab' = [tab EXCEPT ![t] = Going(LoginUrl(tab[t].returnTo), NoCookie)]
  /\ UNCHANGED <<env, claims, secret, discovered, jar, redeemed, clock, failures>>

SignOut(t) ==
  /\ tab[t].at = "page" /\ tab[t].header
  /\ tab' = [tab EXCEPT ![t] = Going(LogoutUrl, NoCookie)]
  /\ UNCHANGED <<env, claims, secret, discovered, jar, redeemed, clock, failures>>

(* The identity server sends the user back with a code.                    *)
Authenticate(t) ==
  /\ tab[t].at = "provider"
  /\ tab' = [tab EXCEPT ![t] =
               Going(CallbackUrl(tab[t].login, tab[t].kind, TRUE), NoCookie)]
  /\ UNCHANGED <<env, claims, secret, discovered, jar, redeemed, clock, failures>>

(* ... or with an error.                                                   *)
Refuse(t) ==
  /\ tab[t].at = "provider"
  /\ Fail
  /\ tab' = [tab EXCEPT ![t] =
               Going(CallbackUrl(tab[t].login, tab[t].kind, FALSE), NoCookie)]
  /\ UNCHANGED <<env, claims, secret, discovered, jar, redeemed, clock>>

(* The answer got lost and the browser, or the user, asks again.           *)
Reload(t) ==
  /\ tab[t].at = "answer"
  /\ Fail
  /\ tab' = [tab EXCEPT ![t] = Going(tab[t].url, NoCookie)]
  /\ UNCHANGED <<env, claims, secret, discovered, jar, redeemed, clock>>

-----------------------------------------------------------------------------
(* The server                                                              *)

(* The provider's metadata is cached, or discovered now and then cached;   *)
(* a failure is not cached.                                                *)
getOidcConfiguration(kind) ==
  /\ loadOidcConfig(env, kind)
  /\ discovered' = discovered \cup {kind}
  /\ UNCHANGED failures
DiscoveryFails(kind) ==
  /\ UNCHANGED discovered
  /\ \/ ~loadOidcConfig(env, kind) /\ UNCHANGED failures
     \/ loadOidcConfig(env, kind) /\ kind \notin discovered /\ Fail

(* An answer that sets no cookie may as well arrive at once.               *)
Answers(t, set, next) ==
  tab' = [tab EXCEPT ![t] = IF set = Unset THEN next ELSE Answer(tab[t].url, set, next)]
Asks(t, route) == tab[t].at = "going" /\ tab[t].url.to = route

(* The guard of the routes, proxy.ts.                                      *)
proxy(t) ==
  /\ Asks(t, "page")
  /\ LET path     == tab[t].url.path
         session  == readSession(jar.session, secret, clock)
         decision == authorizePath(path, session)
     IN CASE decision = "allowed" ->
               tab' = [tab EXCEPT ![t] = Rendering(path, jar.session)]
          [] decision = "forbidden" ->
               Answers(t, Unset, Page("forbidden", "dashboard", session # NoValue))
          [] decision = "reauthenticate" -> Answers(t, Unset, LoginPage(path, session))
          [] decision = "unauthenticated" ->
               Answers(t, IF jar.session = NoCookie THEN Unset ELSE Set(NoCookie, NoValue),
                       LoginPage(path, session))
  /\ UNCHANGED <<env, claims, secret, discovered, jar, redeemed, clock, failures>>

(* The page of an allowed request reads its session once more.             *)
Render(t) ==
  /\ tab[t].at = "rendering"
  /\ LET session == readSession(tab[t].cookie, secret, clock)
         path    == tab[t].path
         shown   == IF path = "admin" THEN AdminPage(session) ELSE path
     IN tab' = [tab EXCEPT ![t] =
                  IF shown = "login" THEN LoginPage(path, session)
                  ELSE Page(shown, "dashboard", session # NoValue)]
  /\ UNCHANGED <<env, claims, secret, discovered, jar, redeemed, clock, failures>>

login(t) ==
  /\ Asks(t, "login")
  /\ LET returnTo == safeReturnTo(tab[t].url.asked)
         kind     == IF isAdminReturnTo(returnTo) THEN "admin" ELSE "user"
         session  == readSession(jar.session, secret, clock)
     IN \/ /\ getOidcConfiguration(kind)
           /\ \E n \in Logins \ InUse :
                /\ \A m \in Logins \ InUse : n <= m
                /\ redeemed' = redeemed \ {n}
                /\ Answers(t, Set(NoValue, seal([kind |-> kind, login |-> n,
                                 returnTo |-> returnTo,
                                 expires |-> clock + TransactionLife], secret)),
                           AtProvider(n, kind))
        \/ /\ DiscoveryFails(kind)
           /\ Answers(t, Unset, LoginPageAfterError(session))
           /\ UNCHANGED redeemed
  /\ UNCHANGED <<env, claims, secret, jar, clock>>

(* The exchange of a code: it was issued to this client, for this state,   *)
(* nonce and verifier, and was not exchanged before.                       *)
authorizationCodeGrant(url, transaction) ==
  /\ url.code
  /\ url.login = transaction.login /\ url.kind = transaction.kind
  /\ url.login \notin redeemed

(* The expiry of the ID token, or none.                                    *)
expiresAt(exp) ==
  LET tokenExpiry == IF exp = NoValue THEN clock + DefaultLife ELSE exp
      bound       == clock + SessionLife
  IN IF tokenExpiry < bound THEN tokenExpiry ELSE bound

CallbackRefuses(t) ==
  /\ Asks(t, "callback")
  /\ LET transaction == readTransaction(jar.transaction, secret, clock) IN
     \/ /\ transaction = NoValue
        /\ UNCHANGED <<discovered, redeemed, failures>>
     \/ /\ transaction # NoValue
        /\ DiscoveryFails(transaction.kind)
        /\ UNCHANGED redeemed
     \/ /\ transaction # NoValue
        /\ ~authorizationCodeGrant(tab[t].url, transaction)
        /\ getOidcConfiguration(transaction.kind)
        /\ UNCHANGED redeemed
     \* the exchange fails after all, or its token has expired
     \/ /\ transaction # NoValue
        /\ authorizationCodeGrant(tab[t].url, transaction)
        /\ loadOidcConfig(env, transaction.kind)
        /\ Fail
        /\ discovered' = discovered \cup {transaction.kind}
        /\ redeemed' \in {redeemed, redeemed \cup {transaction.login}}
  /\ Answers(t, clearAuthCookies, LoginPageAfterError(NoValue))
  /\ UNCHANGED <<env, claims, secret, jar, clock>>

(* The session is set and the transaction deleted, in this order.          *)
acceptedCookiesCleared(session) == clearAuthCookies \* mutant
acceptedCookies(session) == Set(session, NoCookie)

CallbackAccepts(t) ==
  /\ Asks(t, "callback")
  /\ LET transaction == readTransaction(jar.transaction, secret, clock) IN
     /\ transaction # NoValue
     /\ getOidcConfiguration(transaction.kind)
     /\ authorizationCodeGrant(tab[t].url, transaction)
     /\ redeemed' = redeemed \cup {transaction.login}
     /\ \E exp \in {NoValue, clock + SessionLife + 1} :
          LET session == seal([kind    |-> transaction.kind,
                               roles   |-> extractApplicationRoles(claims),
                               expires |-> expiresAt(exp),
                               token   |-> [kind  |-> tab[t].url.kind,
                                            scope |-> oidcScopes(env, tab[t].url.kind)]],
                              secret)
          IN Answers(t, acceptedCookies(session),
                     Landing(transaction.returnTo, session))
  /\ UNCHANGED <<env, claims, secret, jar, clock>>

(* Logging out needs no provider.                                          *)
logout(t) ==
  /\ Asks(t, "logout")
  /\ LET session == readSession(jar.session, secret, clock) IN
     IF session = NoValue THEN UNCHANGED <<discovered, failures>>
     ELSE getOidcConfiguration(session.kind) \/ DiscoveryFails(session.kind)
  /\ Answers(t, clearAuthCookies, LoginPage("none", NoValue))
  /\ UNCHANGED <<env, claims, secret, jar, redeemed, clock>>

(* A new process knows no metadata, and may have a new secret.             *)
Restart ==
  /\ Fail
  /\ discovered' = {}
  /\ secret' \in {secret, secret + 1}
  /\ UNCHANGED <<env, claims, jar, tab, redeemed, clock>>

-----------------------------------------------------------------------------
(* The browser                                                             *)

Deliver(t) ==
  /\ tab[t].at = "answer"
  /\ LET set == tab[t].set IN
     jar' = [session     |-> IF set.session = NoValue THEN jar.session ELSE set.session,
             transaction |-> IF set.transaction = NoValue THEN jar.transaction
                             ELSE set.transaction]
  /\ tab' = [tab EXCEPT ![t] = tab[t].next]
  /\ redeemed' = redeemed \cap InUse'
  /\ UNCHANGED <<env, claims, secret, discovered, clock, failures>>

(* max-age                                                                 *)
CookieExpires(c) ==
  /\ jar[c] # NoCookie /\ jar[c].value.expires <= clock
  /\ jar' = [jar EXCEPT ![c] = NoCookie]
  /\ UNCHANGED <<env, claims, secret, discovered, tab, clock, failures>>
  /\ redeemed' = redeemed \cap InUse'

Tick ==
  /\ clock < MaxTime
  /\ clock' = clock + 1
  /\ UNCHANGED <<env, claims, secret, discovered, jar, tab, redeemed, failures>>

-----------------------------------------------------------------------------

Opens(t) == \/ \E p \in Wanted : Open(t, p)
            \/ \E a \in Asked : <<t, a>> \in Linked /\ Follow(t, a)
User(t) == Opens(t) \/ Continue(t) \/ SignOut(t) \/ Authenticate(t) \/ Refuse(t) \/ Reload(t)
Serve(t) == proxy(t) \/ Render(t) \/ login(t) \/ CallbackRefuses(t) \/ CallbackAccepts(t)
            \/ logout(t) \/ Deliver(t)
Next ==
  \/ \E t \in Tabs : User(t) \/ Serve(t)
  \/ \E c \in {"session", "transaction"} : CookieExpires(c)
  \/ Restart \/ Tick

(* The browser follows redirects and the server answers.                   *)
Spec == Init /\ [][Next]_vars /\ \A t \in Tabs : WF_vars(Serve(t))

-----------------------------------------------------------------------------
(* Properties                                                              *)

Urls == [to: {"page"}, path: Paths] \cup [to: {"login"}, asked: Asked]
        \cup [to: {"callback"}, login: Logins, kind: Kinds, code: BOOLEAN]
        \cup {LogoutUrl}
SessionCookie     == Cookie(Session)
TransactionCookie == Cookie(Transaction)
Resting ==
  [at: {"page"}, page: Returns \cup {"login", "forbidden"}, returnTo: Returns,
   header: BOOLEAN]
  \cup [at: {"provider"}, login: Logins, kind: Kinds]
Moving == [at: {"going"}, url: Urls, just: SessionCookie]
Rendered == [at: {"rendering"}, path: Paths, cookie: SessionCookie]
Answered == [at: {"answer"}, url: Urls, next: Resting \cup Moving,
             set: [session: {NoValue} \cup SessionCookie,
                   transaction: {NoValue} \cup TransactionCookie]]
TabValue == Resting \cup Moving \cup Rendered \cup Answered

TypeOK ==
  /\ env \in Environments /\ claims \in Accounts[env]
  /\ secret \in 1..(failures + 1)
  /\ discovered \subseteq Kinds
  /\ jar \in [session: SessionCookie, transaction: TransactionCookie]
  /\ tab \in [Tabs -> TabValue]
  /\ redeemed \subseteq Logins
  /\ clock \in 0..MaxTime /\ failures \in 0..MaxFailures

(* The sessions there are: in the jar and on their way to it.              *)
Circulating ==
  {jar.session} \cup ({tab[t].set.session : t \in {u \in Tabs : tab[u].at = "answer"}}
                      \ {NoValue})

(* Whatever the tabs do to each other's transactions, a session is of the  *)
(* client its token was issued to, only the administrator's client has a   *)
(* token with the administrator's scope, and no session lives longer than  *)
(* eight hours (callback/route.ts:28-63, config-values.ts:99).             *)
SessionFromOwnLogin ==
  \A c \in Circulating : c # NoCookie =>
    /\ c.value.kind = c.value.token.kind
    /\ "securescan:admin" \in c.value.token.scope => c.value.kind = "admin"
    /\ c.value.expires <= clock + SessionLife

(* A tab that has just been given a session, and finds it in the jar, is   *)
(* not sent to the login again: the client login chose for the return path *)
(* (return-to.ts:19) is the one the guard asks for (authorization.ts:48).  *)
NoLoginLoop ==
  \A t \in Tabs :
    LET s == readSession(jar.session, secret, clock) IN
    tab[t].at = "going" /\ tab[t].just # NoCookie /\ tab[t].just = jar.session
      /\ s # NoValue
    => authorizePath(tab[t].url.path, s) \in {"allowed", "forbidden"}

(* Who wants a page gets one: with the other tabs at rest for ever, and a  *)
(* user who opens no page of their own any more but goes on at the login   *)
(* page and at the identity server, a tab arrives at a page of the         *)
(* application, at the one that says forbidden, or where a link's return    *)
(* value led, whatever failed before and whatever the other tabs left in    *)
(* the jar.                                                                 *)
Arrived(t) == tab[t].at = "page" /\ tab[t].page # "login"
Undisturbed(t) == <>[](\A u \in Tabs \ {t} : tab[u].at \in {"page", "provider"})
Patient(t) ==
  /\ <>[][~Opens(t)]_vars
  /\ SF_vars(Continue(t)) /\ WF_vars(Authenticate(t))
LoginArrives ==
  \A t \in Tabs :
    Undisturbed(t) /\ Patient(t) => (tab[t].at = "going" ~> Arrived(t))

=============================================================================
