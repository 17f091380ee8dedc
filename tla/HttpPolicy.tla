----------------------------- MODULE HttpPolicy -----------------------------
(***************************************************************************)
(* What the HTTP transport decides about a request before it runs a tool:  *)
(* src/runtimeConfig.ts (which server a set of settings starts, if any),   *)
(* src/originPolicy.ts, the guard of src/auth2/http/routes.ts, the order   *)
(* of the handlers in src/httpTransport.ts, and src/authAdmissionPolicy.ts,*)
(* which states the admission rules a second time.                         *)
(*                                                                         *)
(* Hosts and the hosts of origins are names: "local" is any loopback name, *)
(* "public" the host of the public URL, the others are other sites. A      *)
(* request is a record [method, path, host, forwarded, origin, bearer,     *)
(* assertion, rpc, session, body]; rpc is the JSON-RPC method, or None for *)
(* a body without one. A server is [auth, deployment, bound, hosts,        *)
(* origins].                                                               *)
(***************************************************************************)
EXTENDS Naturals, Sequences, FiniteSets

CONSTANT None   \* a header, setting or value that is not there

-----------------------------------------------------------------------------
\* Settings: [transport, legacy, deployment, provider, access, origins, hosts, bound].
\* provider says whether every OAuth setting is there, access what is known of the
\* four endpoints of the provider: [site, client] by endpoint, None for a URL that
\* is not one of a Cloudflare Access application.

CoreEndpoints == {"authorization", "issuer", "token"}

Endpoints == CoreEndpoints \cup {"jwks"}

\* validateCloudflareAccessOAuthSettings: all from one Access application, or none;
\* the keys may come from elsewhere.
AccessSettingsValid(access) ==
  \/ \A e \in Endpoints : access[e] = None
  \/ /\ \A e \in CoreEndpoints : access[e] # None /\ access[e].client # None
     /\ Cardinality({access[e] : e \in CoreEndpoints}) = 1
     /\ access["jwks"] \in {None, access["issuer"]}

Deployments == {"authless", "oauth-single-tenant", "oauth-hardened"}

\* Faulty variant: an explicit deployment makes the older setting void.
DeploymentAlone(s) ==
  IF s.deployment # None
  THEN IF s.deployment \in Deployments THEN s.deployment ELSE None
  ELSE IF s.legacy = "oauth" THEN "oauth-single-tenant" ELSE "authless"

\* readLegacyAuthMode, readDeploymentMode: the deployment, or None for settings
\* that are refused.
Deployment(s) ==
  CASE s.legacy \notin {None, "none", "oauth"} -> None
    [] s.legacy \in {None, "none", "oauth"} /\ s.deployment = None ->
         IF s.legacy = "oauth" THEN "oauth-single-tenant" ELSE "authless"
    [] s.legacy \in {None, "none", "oauth"} /\ s.deployment # None ->
         IF \/ s.deployment \notin Deployments
            \/ s.legacy = "oauth" /\ s.deployment = "authless"
            \/ s.legacy = "none" /\ s.deployment # "authless"
         THEN None ELSE s.deployment

WantsOAuth(s) == Deployment(s) \notin {None, "authless"}

\* resolveRuntimeAuthConfig: OAuth needs every setting, of one Access application if any.
AuthAccepted(s) ==
  /\ Deployment(s) # None
  /\ WantsOAuth(s) => s.provider /\ AccessSettingsValid(s.access)

\* resolveRuntimeConfig, parseTransport
SettingsAccepted(s) ==
  /\ s.transport \in {"http", "stdio"}
  /\ AuthAccepted(s)
  /\ WantsOAuth(s) => s.transport = "http"
  /\ Deployment(s) = "oauth-hardened" => s.origins # {}

\* createAllowedOrigins: OAuth adds the origin of the public URL.
ServerOf(s) ==
  [deployment |-> Deployment(s),
   auth    |-> IF WantsOAuth(s) THEN "oauth" ELSE "none",
   bound   |-> s.bound,
   hosts   |-> s.hosts,
   origins |-> s.origins \cup (IF WantsOAuth(s) THEN {"public"} ELSE {})]

-----------------------------------------------------------------------------
\* External: hostHeaderValidation of the SDK. The names that are allowed, loopback
\* names only for a server bound to one, or anything.
HostAccepted(server, r) ==
  IF server.hosts # {} THEN r.host \in server.hosts
  ELSE server.bound = "local" => r.host = "local"

\* getRequestHostName: a forwarded host comes first.
RequestHostName(r) == IF r.forwarded # None THEN r.forwarded ELSE r.host

\* allowsOpaqueNullOrigin
AllowsOpaqueNullOrigin(server, r) ==
  server.auth = "oauth" /\ r.method = "POST" /\ r.path = "consent"

\* Faulty variant: a local page may call any server, any page a local one.
EitherIsLoopback(server, r) ==
  r.origin \in server.origins \/ "local" \in {RequestHostName(r), r.origin}

\* The origins that resolveOriginPolicy takes for a page's: those listed, and
\* loopback pages for a server that is asked for by a loopback name.
OriginListed(server, r) ==
  r.origin \in server.origins \/ {RequestHostName(r), r.origin} = {"local"}

\* resolveOriginPolicy
OriginAccepted(server, r) ==
  CASE r.origin = None -> TRUE
    [] r.origin = "null" -> AllowsOpaqueNullOrigin(server, r)
    [] r.origin = "garbled" -> FALSE
    [] r.origin \notin {None, "null", "garbled"} -> OriginListed(server, r)

-----------------------------------------------------------------------------
\* isPublicMcpBootstrapMethod
Bootstrap == {"initialize", "notifications/initialized", "resources/list", "tools/list"}

IsBearer(r) == r.bearer \in {"live", "dead"}

\* What the guard reads as the JSON-RPC method: that of a POST to the MCP path.
GuardedMethod(r) == IF r.path = "mcp" /\ r.method = "POST" THEN r.rpc ELSE None

\* Faulty variant: an assertion of Cloudflare Access makes no difference.
BootstrapWithAssertion(r) == ~IsBearer(r) /\ GuardedMethod(r) \in Bootstrap

\* The guard of installAuthV2Routes lets these pass without a token.
PassesWithoutToken(r) ==
  ~IsBearer(r) /\ ~r.assertion /\ GuardedMethod(r) \in Bootstrap

\* The guard; "live" stands for a token of the store that has not expired.
GuardPasses(r) ==
  r.path \in {"mcp", "resource"} => PassesWithoutToken(r) \/ r.bearer = "live"

\* decideAuthAdmission, without what its callers say of upstream tokens
Admission(r) ==
  CASE r.path \in {"oauth", "consent"} -> "allow_public"
    [] r.path = "resource" ->
         IF r.assertion THEN "translate_cf_assertion_then_require_bearer"
         ELSE "require_bridge_bearer"
    [] r.path = "other" \/ (r.path = "mcp" /\ r.method # "POST") -> "allow_public"
    [] r.path = "mcp" /\ r.method = "POST" ->
         IF r.assertion THEN "translate_cf_assertion_then_require_bearer"
         ELSE IF r.bearer = None /\ r.rpc \in Bootstrap THEN "allow_public"
         ELSE "require_bridge_bearer"

\* getBodyStringValue: there is no body before a parser has read it.
MethodLogged(r, read) == IF read THEN GuardedMethod(r) ELSE None

\* Faulty variant: a request of no known method needs no token.
ProtectedIfKnown(server, r, method) ==
  server.auth = "oauth"
    /\ (r.path = "resource" \/ (r.path = "mcp" /\ method \notin Bootstrap \cup {None}))

\* getRequestAuthDebugOptions: what a line of the log says of a request.
LoggedAsProtected(server, r, method) ==
  server.auth = "oauth"
    /\ (r.path = "resource" \/ (r.path = "mcp" /\ method \notin Bootstrap))

-----------------------------------------------------------------------------
\* The handlers in the order in which startHttpServer installs them. Each answers
\* with a status or hands on (None); "run" is a request that needs a runtime.

HostStep(server, r) == IF HostAccepted(server, r) THEN None ELSE "403"

OriginStep(server, r) == IF OriginAccepted(server, r) THEN None ELSE "403"

\* The JSON parsers and the error handler.
BodyStep(r) ==
  IF r.path # "mcp" \/ r.method # "POST" THEN None
  ELSE CASE r.body = "broken" -> "400"
         [] r.body = "large" -> "413"
         [] r.body = "ok" -> None

\* installAuthV2Routes up to and after its guard; the routes are those of AuthCore.
OAuthStep(server, r) ==
  IF server.auth # "oauth" THEN None
  ELSE IF ~GuardPasses(r) THEN "401"
  ELSE IF r.path = "oauth" /\ r.method # "OPTIONS" THEN "route" ELSE None

PreflightStep(r) == IF r.method = "OPTIONS" THEN "204" ELSE None

\* The resource documents ("resource" is the path of one that exists), the checks of
\* installMcpPostRoute before it takes a runtime, and the rest.
RouteStep(r) ==
  CASE r.path = "resource" -> IF r.method = "GET" THEN "200" ELSE "404"
    [] r.path = "mcp" ->
         IF r.method # "POST" THEN "405"
         ELSE IF r.session = "bad" THEN "400" ELSE "run"
    [] r.path \notin {"resource", "mcp"} -> "404"

FirstOf(steps) ==
  LET answers == {i \in DOMAIN steps : steps[i] # None}
  IN steps[CHOOSE i \in answers : \A j \in answers : i <= j]

\* What becomes of a request before its body is read, or None.
BeforeBody(server, r) ==
  LET early == <<HostStep(server, r), OriginStep(server, r)>>
      unread == <<OAuthStep(server, r), PreflightStep(r), RouteStep(r)>>
  IN IF r.path = "mcp" /\ r.method = "POST" THEN FirstOf(early \o <<"read">>)
     ELSE FirstOf(early \o unread)

\* Faulty variant: the MCP route is installed before the routes of OAuth.
RouteFirst(server, r) == FirstOf(<<BodyStep(r), RouteStep(r), OAuthStep(server, r)>>)

\* What becomes of it when it is: OAuth reads the body for its guard.
AfterBody(server, r) == FirstOf(<<BodyStep(r), OAuthStep(server, r), RouteStep(r)>>)
=============================================================================
