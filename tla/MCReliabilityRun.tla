--------------------------- MODULE MCReliabilityRun ---------------------------
(* Requests, settings and results for the HTTP server and a reliability run.  *)
EXTENDS ReliabilityRun

NoAccess == [e \in Endpoints |-> None]

MCLocalServer ==
  [transport |-> "http", legacy |-> None, deployment |-> None, provider |-> FALSE,
   access |-> NoAccess, origins |-> {}, hosts |-> {}, bound |-> "local"]

OAuthServer ==
  [MCLocalServer EXCEPT !.legacy = "oauth", !.provider = TRUE, !.bound = "any"]

HardenedServer ==
  [OAuthServer EXCEPT !.legacy = None, !.deployment = "oauth-hardened",
                      !.origins = {"listed"}, !.hosts = {"local", "public"}]

MCRequest ==
  [method |-> "POST", path |-> "mcp", host |-> "local", forwarded |-> None, origin |-> None,
   bearer |-> None, assertion |-> FALSE, rpc |-> "tools/call", session |-> "ok", body |-> "ok"]

-----------------------------------------------------------------------------
\* Every combination of the settings that decide the deployment, for one request.
SettingsCases ==
  {[settings |-> [MCLocalServer EXCEPT !.transport = t, !.legacy = l, !.deployment = d,
                                       !.provider = p, !.origins = o],
    request  |-> MCRequest] :
     t \in {"http", "stdio", "other"}, l \in {None, "none", "oauth", "other"},
     d \in Deployments \cup {None, "other"}, p \in BOOLEAN, o \in {{}, {"listed"}}}

\* Two applications of Cloudflare Access, and a URL that names none.
Applications == {None} \cup [site : {"site"}, client : {None, "one", "two"}]

AccessCases ==
  {[settings |-> [OAuthServer EXCEPT !.access = a], request |-> MCRequest] :
     a \in [Endpoints -> Applications]}

\* Hosts and origins, for the consent page and for a call.
OriginCases ==
  {[settings |-> s,
    request  |-> [MCRequest EXCEPT !.path = p, !.host = h, !.forwarded = f, !.origin = o,
                                   !.bearer = "live"]] :
     s \in {MCLocalServer, [MCLocalServer EXCEPT !.bound = "any"], OAuthServer, HardenedServer},
     p \in {"mcp", "consent"}, h \in {"local", "public", "foreign"},
     f \in {None, "local", "public"},
     o \in {None, "null", "garbled", "local", "public", "listed", "foreign"}}

\* What the guard of OAuth and the routes look at.
GuardCases ==
  {[settings |-> s,
    request  |-> [MCRequest EXCEPT !.method = m, !.path = p, !.bearer = b, !.assertion = a,
                                   !.rpc = r]] :
     s \in {MCLocalServer, OAuthServer}, m \in {"POST", "GET", "OPTIONS"},
     p \in {"mcp", "resource", "consent", "oauth", "other"},
     b \in {None, "basic", "live", "dead"}, a \in BOOLEAN,
     r \in {None, "initialize", "resources/list", "tools/call"}}

\* Calls that are not well-formed.
MalformedCases ==
  {[settings |-> s,
    request  |-> [MCRequest EXCEPT !.bearer = b, !.rpc = r, !.session = i, !.body = y]] :
     s \in {MCLocalServer, OAuthServer}, b \in {None, "live"},
     r \in {"tools/list", "tools/call"}, i \in {"ok", "bad"}, y \in {"ok", "broken", "large"}}

MCPolicyCases ==
  SettingsCases \cup AccessCases \cup OriginCases \cup GuardCases \cup MalformedCases

-----------------------------------------------------------------------------
\* Results of n requests, of which the last k are slow and every f-th fails.
Results(n, k, slow, f) ==
  [i \in 1 .. n |->
     [operation |-> CASE i % 3 = 1 -> "initialize"
                      [] i % 3 = 2 -> "tools/list"
                      [] i % 3 = 0 -> "tools/call",
      ok |-> f = 0 \/ i % f # 0,
      latency |-> IF i > n - k THEN slow ELSE 100 + ((i * 7) % 10)]]

AllFaster(results, by) ==
  [i \in DOMAIN results |-> [results[i] EXCEPT !.latency = AtLeast(@ - by, 0)]]

AllOk(results) == [i \in DOMAIN results |-> [results[i] EXCEPT !.ok = TRUE]]

\* Numbers of results around those at which a percentile moves on by one.
Measurements ==
  {Results(n, k, slow, f) :
     n \in {0, 1, 2, 3, 19, 20, 21, 100, 101}, k \in 0 .. 2, slow \in {250, 251, 501},
     f \in {0, 2, 20}}

MCSamples ==
  UNION {{[results |-> r, better |-> b, baseline |-> c] :
            b \in {AllFaster(r, 1), AllFaster(r, 60), AllOk(r), AllOk(AllFaster(r, 1))},
            c \in {None, Results(Len(r), 0, 0, 0),
                   [i \in DOMAIN r |-> [r[i] EXCEPT !.latency = (@ * 5) \div 4]]}} :
           r \in Measurements}

MCSlots == 1 .. 2

\* Two workers, and more of one of the numbers than of the other.
MCRuns ==
  {[count |-> 0, concurrency |-> 2, closable |-> TRUE],
   [count |-> 1, concurrency |-> 2, closable |-> TRUE],
   [count |-> 2, concurrency |-> 0, closable |-> TRUE],
   [count |-> 2, concurrency |-> 2, closable |-> TRUE],
   [count |-> 3, concurrency |-> 2, closable |-> FALSE]}

\* Three calls, which differ in nothing that matters.
MCTraffic == {[MCRequest EXCEPT !.rpc = r] : r \in {"tools/call", "tools/list", "resources/list"}}
=============================================================================
