--------------------------- MODULE RequestValues ---------------------------
(***************************************************************************)
(* What is decided about one request of a page, without any state: the     *)
(* form's validation (lib/validation/scan.ts), the configuration of the    *)
(* backend proxy, what the proxy refuses itself and how it relays answers  *)
(* (lib/api/proxy-config.ts, app/backend/[...path]/route.ts).              *)
(***************************************************************************)
EXTENDS SessionValues, Integers

CONSTANTS
  PORT_MAX, MAX_PORTS_PER_SCAN

ASSUME RequestAssumption == PORT_MAX \in Nat /\ MAX_PORTS_PER_SCAN \in Nat

-----------------------------------------------------------------------------
(* The scan form                                                           *)

(* A target by what the schema asks of it: only digits and dots, and then  *)
(* four octets in range without leading zeros; a colon, and then the URL   *)
(* parser's approval; or labels of a hostname.                             *)
Targets == [blank: BOOLEAN, dotted: BOOLEAN, octets: BOOLEAN, colon: BOOLEAN,
            urlParses: BOOLEAN, labels: BOOLEAN]

isIpv4(t)     == t.octets
isIpv6(t)     == t.colon /\ t.urlParses
isHostname(t) == t.labels
isScanTarget(t) == IF t.dotted THEN isIpv4(t) ELSE isIpv6(t) \/ isHostname(t)

(* An empty or unreadable number input is no number.                       *)
NaN == -1
portSchema(p) == p # NaN /\ 1 <= p /\ p <= PORT_MAX

scanFormSchema(values) ==
  /\ ~values.target.blank /\ isScanTarget(values.target)
  /\ portSchema(values.startPort) /\ portSchema(values.endPort)
  /\ values.startPort <= values.endPort
  /\ values.endPort - values.startPort + 1 <= MAX_PORTS_PER_SCAN
  /\ values.authorized

(* The ports of a new rule: both or neither, in order; 0 is an empty input. *)
rulePorts(start, end) ==
  /\ start = 0 <=> end = 0
  /\ start # 0 => start <= end

-----------------------------------------------------------------------------
(* The proxy's configuration                                               *)

(* A limit is unset, within its bounds (so low that every body exceeds it,  *)
(* or not), or anything else.                                              *)
Limits == {"unset", "tiny", "ample", "unfit"}
ProxyEnvironment ==
  [mode: {"unset", "gateway", "direct", "other"},
   url: Settings, directUrl: Settings, gatewaySecret: Settings,
   maxRequestBytes: Limits, timeoutMs: Limits]

boundedPositiveInteger(value) == value # "unfit"
absoluteBaseUrl(value)        == value = "good"

loadApiProxyConfig(e) ==
  /\ boundedPositiveInteger(e.maxRequestBytes) /\ boundedPositiveInteger(e.timeoutMs)
  /\ \/ e.mode \in {"unset", "gateway"} /\ absoluteBaseUrl(e.url)
     \/ /\ e.mode = "direct" /\ absoluteBaseUrl(e.directUrl)
        /\ e.gatewaySecret \in {"good", "placeholder"}  \* long enough

-----------------------------------------------------------------------------
(* One request through the proxy                                           *)

AdminReads == {"usage", "scans", "auditLogs", "allowedTargets"}
AdminOps   == AdminReads \cup {"create", "disable"}
Writes     == {"submit", "create", "disable"}
HasBody    == {"submit", "create"}

None == 0  \* no status
proxyRefusal(e, session, op) ==
  CASE session = NoValue                                   -> 401
    [] session # NoValue /\ ~loadApiProxyConfig(e)         -> 503
    [] session # NoValue /\ loadApiProxyConfig(e) ->
         IF op \in AdminOps
            /\ (session.kind # "admin" \/ ~hasRole(session, "securescan-admin")) THEN 403
         ELSE IF op \in HasBody /\ e.maxRequestBytes = "tiny" THEN 413
         ELSE None

(* What comes back from upstream: an envelope of the API, or an answer of   *)
(* API Manager or of nobody knows whom, that is no envelope.  A redirect is *)
(* relayed, not followed.  An answer whose body does not arrive before the  *)
(* deadline is no envelope either: only waiting for its head times out.     *)
Ok(status)      == 200 <= status /\ status < 300
Refused(status) == 400 <= status /\ status < 500
relay(status, envelope) == IF ~envelope /\ Ok(status) THEN 502 ELSE status
timeoutRefused == 408 \* mutant
timeout == 504
unreachable == 503

(* API Manager refuses with 401, 403 or 429, and the API fails with 500 or  *)
(* 503; they differ in the message only.                                   *)
GatewayRefusals == {403}
GatewayRedirects == {relay(302, FALSE)}
bodyTimeout(status) == relay(status, FALSE)
ApiFailures     == {503}

(* The API knows the caller's roles from the headers, or from the token.    *)
apiAdmits(op, session) ==
  IF op \in AdminOps THEN hasRole(session, "securescan-admin") ELSE isAppMember(session)
=============================================================================
