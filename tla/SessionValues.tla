--------------------------- MODULE SessionValues ---------------------------
(***************************************************************************)
(* What the frontend's server decides about one request, without any       *)
(* state: its configuration, return paths, sealed cookies, roles, and who  *)
(* may see which route (lib/auth, app/admin/page.tsx, site-header.tsx).    *)
(***************************************************************************)
EXTENDS Naturals, FiniteSets

CONSTANTS
  NoValue  \* null

Kinds    == {"user", "admin"}
AppRoles == {"securescan-user", "securescan-admin"}
Scopes   == {"openid", "securescan:scan", "securescan:admin"}

-----------------------------------------------------------------------------
(* Configuration                                                           *)

(* A setting is unset, an example's placeholder, not of the wanted form    *)
(* (not an http URL without extras, a base URL with a path, a short        *)
(* secret), or good.                                                       *)
Settings == {"unset", "placeholder", "unfit", "good"}

required(v)           == v # "unset"
requiredCredential(v) == required(v) /\ v # "placeholder"
absoluteHttpUrl(v)    == required(v) /\ v = "good"

(* No scopes configured means the defaults.                                *)
requiredScopes(kind) ==
  {"openid", "securescan:scan"} \cup (IF kind = "admin" THEN {"securescan:admin"} ELSE {})
oidcScopes(env, kind) ==
  IF env.scopes[kind] = {} THEN requiredScopes(kind) ELSE env.scopes[kind]

(* The configuration of a client loads, or loadOidcConfig throws.          *)
loadOidcConfigAnyScope(env, kind) == \* mutant
  /\ absoluteHttpUrl(env.base) /\ absoluteHttpUrl(env.issuer)
  /\ requiredCredential(env.secret) /\ env.secret # "unfit"
  /\ requiredScopes(kind) \subseteq oidcScopes(env, kind)
  /\ requiredCredential(env.client[kind])
loadOidcConfig(env, kind) ==
  /\ absoluteHttpUrl(env.base) /\ absoluteHttpUrl(env.issuer)
  /\ requiredCredential(env.secret) /\ env.secret # "unfit"
  /\ requiredScopes(kind) \subseteq oidcScopes(env, kind)
  /\ kind = "user" => "securescan:admin" \notin oidcScopes(env, kind)
  /\ requiredCredential(env.client[kind])

Environment == [base: Settings, issuer: Settings, secret: Settings,
                client: [Kinds -> Settings], scopes: [Kinds -> SUBSET Scopes]]

-----------------------------------------------------------------------------
(* Return paths, by what the code tells apart: "foreign" is everything     *)
(* that does not start with exactly one slash, is too long, or leaves the  *)
(* origin; "auth" the routes of the login itself.  The value as it was      *)
(* given is tested, and what the URL parser makes of it is returned: a      *)
(* "reshaped" value passes the tests and comes out as "elsewhere", an       *)
(* address that is no path of the application, and foreign when asked.      *)

Paths   == {"dashboard", "admin", "adminChild"}
Asked   == Paths \cup {"none", "foreign", "auth", "reshaped", "elsewhere"}
Returns == Paths \cup {"elsewhere"}

safeReturnTo(value) ==
  CASE value \in Paths     -> value
    [] value = "reshaped"  -> "elsewhere"
    [] OTHER               -> "dashboard"

isAdminReturnToChild(returnTo) == returnTo = "adminChild" \* mutant
isAdminReturnTo(returnTo)      == returnTo \in {"admin", "adminChild"}

-----------------------------------------------------------------------------
(* Sealed cookies.  Who has the secret reads what was sealed with it;      *)
(* anything else reads as nothing.                                         *)

NoCookie == [key |-> 0, value |-> NoValue]
seal(value, secret) == [key |-> secret, value |-> value]
unseal(cookie, secret) == IF cookie.key = secret THEN cookie.value ELSE NoValue

(* What callback seals has every field that readSession asks for.          *)
Live(value, now) == value # NoValue /\ value.kind \in Kinds /\ now < value.expires
readTransaction(cookie, secret, now) ==
  LET t == unseal(cookie, secret) IN IF Live(t, now) THEN t ELSE NoValue
readSession(cookie, secret, now) ==
  LET s == unseal(cookie, secret) IN IF Live(s, now) THEN s ELSE NoValue

-----------------------------------------------------------------------------
(* Roles and routes                                                        *)

(* The claims are the groups of all the shapes an identity server uses.    *)
extractApplicationRolesAll(claims) == claims \* mutant
extractApplicationRoles(claims) == claims \cap AppRoles
hasRole(session, role) == session # NoValue /\ role \in session.roles
isAppMember(session)   == \E role \in AppRoles : hasRole(session, role)

authorizePath(path, session) ==
  CASE session = NoValue                                    -> "unauthenticated"
    [] session # NoValue /\ ~isAppMember(session)           -> "forbidden"
    [] isAppMember(session) /\ path \notin {"admin", "adminChild"} -> "allowed"
    [] isAppMember(session) /\ path \in {"admin", "adminChild"} ->
         IF ~hasRole(session, "securescan-admin") THEN "forbidden"
         ELSE IF session.kind = "admin" THEN "allowed" ELSE "reauthenticate"

(* The administration page looks again when it is rendered.                *)
AdminPage(session) ==
  CASE session = NoValue                          -> "login"
    [] session # NoValue /\ ~hasRole(session, "securescan-admin") -> "forbidden"
    [] hasRole(session, "securescan-admin") ->
         IF session.kind = "admin" THEN "admin" ELSE "login"
=============================================================================
