------------------------------- MODULE MCEdge -------------------------------
(* The edge of a process: its configuration, and what a request passes       *)
(* before the application sees it: the TLS ingress, the authentication, the  *)
(* limiter and the translation of its body.                                  *)
EXTENDS RateLimiter, JwksCache, PublicIngress, CommandIntake, RuntimeConfiguration, FiniteSetsExt, TLC

CONSTANTS other, mine, theirs, r1, r2, r3

VARIABLE scenario  \* which of the scenarios below the behaviour is of
vars == <<scenario, intakeVars, configurationVars, rateVars, jwksVars, listenerVars>>

(* Intake: every body whose payload differs from a well-formed one in at     *)
(* most two fields (in one where the shape is another type's too), and every *)
(* well-formed one with wrong ids, type or keys.                             *)
WellFormed(f) ==
  CASE f = "description" -> "text" [] f = "amount" -> "digits" [] f = "currency" -> "TRY"
    [] f = "favourOf" -> "payer" [] f \in TimeField -> "time" [] OTHER -> "name"
Base(fields) == [f \in Field |-> IF f \in fields THEN WellFormed(f) ELSE "absent"]
Changed(fields, touched) ==
  LET base == Base(fields) IN {[base EXCEPT ![f] = v] : f \in touched, v \in Value}
Payloads(fields, touched) ==
  LET base == Base(fields) IN
  {wrong @@ base : wrong \in UNION {[two -> Value] : two \in kSubset(2, touched)}}
Plain(route, type, payload) ==
  [route |-> route, extra |-> FALSE, commandId |-> "name", cellId |-> "name", type |-> type, payload |-> payload]
Touched(type) == Required(type) \cup {"arbiter", "currentTime", "amount", "other"}
OneWrong(type) == {Plain("commands", type, p) : p \in Changed(Required(type), Touched(type))}
TwoWrong(type) == {Plain("commands", type, p) : p \in Payloads(Required(type), Touched(type))}
Commands == UNION {OneWrong(type) : type \in CommandType} \cup TwoWrong("CreateCell") \cup TwoWrong("ForceRefund")
Fundings ==
  {Plain("funding-confirmations", "FundCell", p) :
     p \in Payloads(Evidence, Evidence \cup {"opaqueEvidence", "other"})}
Envelopes ==
  {[route |-> route, extra |-> x, commandId |-> v, cellId |-> w, type |-> type,
    payload |-> Base(IF route = "commands" THEN Required("AcceptCell") ELSE Evidence)] :
   route \in {"commands", "funding-confirmations", "prototype-funding"},
   x \in BOOLEAN, v, w \in Value, type \in {"AcceptCell", "other"}}
MCRequests == Commands \cup Fundings \cup Envelopes

(* Limiter: one key's calls and one of another key.                          *)
MCKeyOf(x) == IF x = other THEN theirs ELSE mine

(* Configuration: environments with one variable wrong, every combination of *)
(* the limiter's and of the request's times, and nothing set at all; -1, -2  *)
(* and -3 are an absent, a blank and a non-numeric value.                    *)
Words ==
  [v \in {"PGPASSWORD", "PGSSLMODE"} |-> {"absent", "text"}]
  @@ [v \in {"PGHOST", "PGUSER", "AUTH_TRUSTED_AUDIENCE", "TLS_CERTIFICATE_PATH", "TLS_PRIVATE_KEY_PATH"} |->
       {"text", "absent", "blank"}]
  @@ [v \in {"AUTH_TRUSTED_ISSUER", "AUTH_JWKS_URL"} |-> {"https", "absent", "text"}]
  @@ [PGDATABASE |-> {"zinesh_development", "text", "blank"},
      PG_PASSWORD_FILE |-> {"secret", "absent", "missing", "shared", "lines"},
      PG_TLS_MODE |-> {"verify-full", "absent", "text"},
      PG_TLS_CA_PATH |-> {"certificates", "absent", "missing", "text"},
      AUTH_ALLOWED_ALGORITHM |-> {"RS256", "absent", "text"},
      HTTPS_HOST |-> {"address", "loopback", "text", "absent"},
      HTTP_HOST |-> {"loopback", "address", "absent", "text"},
      TLS_MIN_VERSION |-> {"TLSv1.3", "TLSv1.2", "text"},
      TLS_ALLOWED_HOSTS |-> {"hosts", "host", "wildcard", "blank"},
      TLS_TRUSTED_PROXIES |-> {"NONE", "addresses", "any", "absent"},
      OBSERVABILITY_INSTANCE_ID |-> {"identity", "text", "absent"},
      ZINESH_RUNTIME_ENV |-> {"absent", "production", "development", "text"},
      PROTOTYPE_FUNDING_ENABLED |-> {"absent", "false", "true", "text"},
      ZINESH_DEVELOPMENT_PROVISIONING |-> {"true", "absent"},
      ZINESH_DEVELOPMENT_WEB_ORIGIN |-> {"absent", "loopback", "text"}]
Bounds ==
  [PGPORT |-> <<1, 65535>>, HTTPS_PORT |-> <<1, 65535>>, HTTP_PORT |-> <<1, 65535>>,
   AUTH_CLOCK_SKEW_SECONDS |-> <<0, 300>>, AUTH_JWKS_CACHE_TTL_MS |-> <<1000, 86400000>>,
   AUTH_JWKS_TIMEOUT_MS |-> <<100, 30000>>, HTTP_MAX_BODY_BYTES |-> <<1024, 1048576>>,
   HTTP_MAX_HEADER_BYTES |-> <<1024, 65536>>, HTTP_REQUEST_TIMEOUT_MS |-> <<100, 120000>>,
   HTTP_HEADERS_TIMEOUT_MS |-> <<100, 120000>>, HTTP_MAX_CONCURRENT_REQUESTS |-> <<1, 100000>>,
   RATE_LIMIT_PRE_AUTH_LIMIT |-> <<1, 1000000>>, RATE_LIMIT_PRINCIPAL_LIMIT |-> <<1, 1000000>>,
   RATE_LIMIT_PRE_AUTH_WINDOW_MS |-> <<1000, 86400000>>, RATE_LIMIT_PRINCIPAL_WINDOW_MS |-> <<1000, 86400000>>,
   RATE_LIMIT_RETENTION_MS |-> <<1000, 604800000>>, RATE_LIMIT_STORAGE_TIMEOUT_MS |-> <<50, 30000>>,
   SECURITY_ALERT_WINDOW_MS |-> <<1000, 86400000>>]
  @@ [v \in {"SECURITY_LOG_RETENTION_DAYS", "SECURITY_METRIC_RETENTION_DAYS",
               "SECURITY_AUDIT_RETENTION_DAYS"} |-> <<1, 3650>>]
  @@ [v \in {"SECURITY_ALERT_" \o x : x \in
        {"AUTH_FAILURES", "RATE_LIMIT_REJECTIONS", "AUTH_DEPENDENCY_FAILURES", "AUTHORIZATION_REJECTIONS",
         "DISABLED_PRINCIPAL_ATTEMPTS", "POSTGRES_FAILURES", "FAIL_CLOSED", "TELEMETRY_FAILURES"}} |-> <<1, 1000000>>]
Variables == DOMAIN Words \cup DOMAIN Bounds
Values(v) ==
  IF v \in DOMAIN Words THEN Words[v]
  ELSE LET b == Bounds[v] IN {-1, -2, -3, b[1] - 1, b[1], b[2], b[2] + 1}

MCGood(who, v) ==
  CASE v \in DOMAIN Bounds -> IF v = "RATE_LIMIT_RETENTION_MS" THEN Bounds[v][2] ELSE Bounds[v][1]
    [] v \in {"PGPASSWORD", "PGSSLMODE", "ZINESH_DEVELOPMENT_WEB_ORIGIN"} -> "absent"
    [] v = "ZINESH_RUNTIME_ENV" -> IF who = "main" THEN "production" ELSE "development"
    [] v = "PROTOTYPE_FUNDING_ENABLED" -> IF who = "main" THEN "false" ELSE "true"
    [] v = "AUTH_TRUSTED_ISSUER" \/ v = "AUTH_JWKS_URL" -> "https"
    [] v \in {"PGHOST", "PGUSER", "AUTH_TRUSTED_AUDIENCE", "TLS_CERTIFICATE_PATH", "TLS_PRIVATE_KEY_PATH"} -> "text"
    [] v = "PGDATABASE" -> "zinesh_development"
    [] v = "PG_PASSWORD_FILE" -> "secret" [] v = "PG_TLS_MODE" -> "verify-full"
    [] v = "PG_TLS_CA_PATH" -> "certificates" [] v = "AUTH_ALLOWED_ALGORITHM" -> "RS256"
    [] v = "HTTPS_HOST" -> "address" [] v = "HTTP_HOST" -> "loopback"
    [] v = "TLS_MIN_VERSION" -> "TLSv1.3" [] v = "TLS_ALLOWED_HOSTS" -> "hosts"
    [] v = "TLS_TRUSTED_PROXIES" -> "NONE" [] v = "OBSERVABILITY_INSTANCE_ID" -> "identity"
    [] v = "ZINESH_DEVELOPMENT_PROVISIONING" -> "true"

Standard(who) == [v \in Variables |-> MCGood(who, v)]
Nothing == [v \in Variables |-> IF v \in DOMAIN Words THEN "absent" ELSE -1]
Started(who, envs) == {[entry |-> who, env |-> e] : e \in envs}
Singles(who) == UNION {{[Standard(who) EXCEPT ![v] = x] : x \in Values(v)} : v \in Variables}
Windows ==
  {[Standard("main") EXCEPT !["RATE_LIMIT_PRE_AUTH_WINDOW_MS"] = x, !["RATE_LIMIT_PRINCIPAL_WINDOW_MS"] = y,
                        !["RATE_LIMIT_RETENTION_MS"] = z] :
     x, y \in {999, 1000, 86400000}, z \in {-1, 1000, 86399999, 86400000, 604800001}}
Timeouts(who) ==
  {[Standard(who) EXCEPT !["HTTP_REQUEST_TIMEOUT_MS"] = x, !["HTTP_HEADERS_TIMEOUT_MS"] = y] :
     x, y \in {-1, 99, 100, 5000, 15000, 120000, 120001}}
MCEnvironments ==
  Started("main", Singles("main") \cup Windows \cup Timeouts("main") \cup {Nothing, Standard("launcher")})
  \cup Started("launcher", Singles("launcher") \cup Timeouts("launcher") \cup {Nothing, Standard("main")})

(* Keys: two ids for the timing, every use for the decision.                 *)
RSA(kid) == [kid |-> kid, kty |-> "RSA", alg |-> None, use |-> None, ops |-> None, bits |-> 2048]
MCConfig == [i \in {"i1", "i2"} |->
  [audiences |-> {"zinesh"}, algorithms |-> {"RS256"}, secure |-> TRUE]]
Signed(k) ==
  [wellFormed |-> TRUE, iss |-> "i1", alg |-> "RS256", aud |-> {"zinesh", "other"}, exp |-> 99,
   nbf |-> None, kid |-> k.kid, signer |-> k]
K1 == RSA("k1")
K2 == RSA("k2")
MCTimingKeys == {K1, K2}
MCTimingTokens == {Signed(K1), Signed(K2)}

MCKeys ==
  {K1, [K1 EXCEPT !.use = "enc"], [K1 EXCEPT !.kty = "EC"], [K1 EXCEPT !.ops = {"sign"}],
   [K1 EXCEPT !.ops = {"verify"}, !.use = "sig", !.alg = "RS256"],
   [K1 EXCEPT !.bits = 1024], [K1 EXCEPT !.alg = "RS512"], [K1 EXCEPT !.kid = ""]}
MCTokens ==
  LET t == Signed(K1) IN
  {Signed(k) : k \in MCKeys} \cup
  {[t EXCEPT !.wellFormed = FALSE], [t EXCEPT !.iss = "i2"], [t EXCEPT !.iss = "stranger"],
   [t EXCEPT !.alg = "HS256"], [t EXCEPT !.aud = {"other"}], [t EXCEPT !.exp = 0],
   [t EXCEPT !.nbf = 2]}

AllKeys == MCTimingKeys \cup MCKeys
AllTokens == MCTimingTokens \cup MCTokens

(* Public ingress: two clients, a trusted proxy and another.                 *)
Sound ==
  [readable |-> TRUE, validNow |-> TRUE, keyMatches |-> TRUE, names |-> {"h1", "h2"},
   keyIsFile |-> TRUE, keyPrivate |-> TRUE, minimumVersion |-> TRUE]
MCMaterials ==
  {Sound, [Sound EXCEPT !.names = {"h1"}], [Sound EXCEPT !.validNow = FALSE], [Sound EXCEPT !.keyPrivate = FALSE],
   [Sound EXCEPT !.keyMatches = FALSE], [Sound EXCEPT !.readable = FALSE], [Sound EXCEPT !.keyIsFile = FALSE]}
At(c, s) == [of |-> c, spelling |-> s]
MCSources == {None, Empty, List, At("c2", "upper"), At("nobody", "name")}
Fwd(a, p, h, w) == [for |-> a, proto |-> p, host |-> h, wellFormed |-> w]
Named(h) == [name |-> h, sound |-> TRUE]
MCForwards ==
  {None, Empty, List, Fwd(At("c2", "plain"), "https", None, TRUE), Fwd(At("c1", "quoted"), "https", Named("h2"), TRUE),
   Fwd(At("c1", "plain"), "http", None, TRUE), Fwd(At("c1", "plain"), "https", Named("h3"), TRUE),
   Fwd(None, "https", None, TRUE), Fwd(At("c1", "plain"), "https", None, FALSE)}
MCHosts == {Named("h1"), Named("h2"), Named("h3"), [name |-> "h1", sound |-> FALSE]}
MCSets ==
  {{"forwardedFor", "proto"}, {"forwardedFor", "append"}, {"realIp", "proto"}, {"forwarded"},
   {"forwarded", "append"}, {"proto"}}

(* The timing is checked with two keys of one issuer and three requests, the *)
(* decision with one request and every use of a key.                         *)
Asking == {r \in Request : requests'[r] # Idle}
Rotates ==
  /\ published'["i1"] \subseteq MCTimingKeys /\ published'["i2"] = {}
  /\ \A r \in Asking : requests'[r].token \in MCTimingTokens
OneDecision ==
  /\ now' <= 1 /\ Cardinality(Asking) <= 1
  /\ \A r \in Asking : requests'[r].token \in MCTokens
  /\ published'["i1"] \subseteq MCKeys /\ published'["i2"] \subseteq {K1}

(* The scenarios of the others stay where they begin.                        *)
Init ==
  /\ RateInit /\ JwksInit /\ ListenerInit
  /\ scenario \in {"intake", "configuration", "rate", "rotation", "credentials", "ingress"}
  /\ scenario # "ingress" => material = Sound
  /\ IF scenario = "intake" THEN IntakeInit
     ELSE Receives(Plain("commands", "AcceptCell", Base(Required("AcceptCell"))))
  /\ IF scenario = "configuration" THEN ConfigurationInit
     ELSE StartedIn([entry |-> "main", env |-> Standard("main")])
IntakeStep ==
  /\ scenario = "intake" /\ IntakeNext
  /\ UNCHANGED <<scenario, configurationVars, rateVars, jwksVars, listenerVars>>
ConfigurationStep ==
  /\ scenario = "configuration" /\ ConfigurationNext
  /\ UNCHANGED <<scenario, intakeVars, rateVars, jwksVars, listenerVars>>
RateStep ==
  /\ scenario = "rate" /\ RateNext
  /\ UNCHANGED <<scenario, intakeVars, configurationVars, jwksVars, listenerVars>>
RotationStep ==
  /\ scenario = "rotation" /\ JwksNext /\ Rotates
  /\ UNCHANGED <<scenario, intakeVars, configurationVars, rateVars, listenerVars>>
CredentialsStep ==
  /\ scenario = "credentials" /\ JwksNext /\ OneDecision
  /\ UNCHANGED <<scenario, intakeVars, configurationVars, rateVars, listenerVars>>
IngressStep ==
  /\ scenario = "ingress" /\ ListenerNext
  /\ UNCHANGED <<scenario, intakeVars, configurationVars, rateVars, jwksVars>>
Next == IntakeStep \/ RateStep \/ ConfigurationStep \/ RotationStep \/
        CredentialsStep \/ IngressStep
Spec == Init /\ [][Next]_vars

Symmetry == Permutations({r1, r2, r3})

-----------------------------------------------------------------------------
ASSUME RateAssumption /\ ConfigAssumption /\ IngressAssumption /\ IntakeAssumption /\ ConfigurationAssumption
=============================================================================
