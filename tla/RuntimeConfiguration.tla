------------------------- MODULE RuntimeConfiguration -------------------------
(***************************************************************************)
(* Start of a process up to its composition: the environment is read by one *)
(* loader after the other, each of which refuses the first variable that is *)
(* wrong and names it.  Two entries: main (production) and the development  *)
(* launcher.  The value of a numeric variable is its number, or one of      *)
(* Absent, Blank and Text; of any other, the kind of string it is.          *)
(***************************************************************************)
EXTENDS Integers, Sequences, Optional

CONSTANTS
  Environments,  \* environments a process is started in, with the entry it is started by
  Good(_, _)     \* what an operator sets a variable to who is told that it is wrong

Absent == -1
Blank == -2
Text == -3

VARIABLES
  entry,   \* main or launcher
  env,     \* from variable to value
  step,    \* the loaders still to run
  composition, \* its state: loading, composed, or refused for a variable
  repaired \* the variables an operator has set right
configurationVars == <<entry, env, step, composition, repaired>>

(* Every loader is the sequence of its checks: a variable and whether it is    *)
(* accepted.                                                                 *)
forbidden(e, v) == <<v, e[v] = "absent">>
requiredNonEmpty(e, v) == <<v, e[v] \notin {"absent", "blank"}>>
requiredSecurityValue(e, v, accepted) == <<v, e[v] \in accepted>>
requiredSecurityInteger(e, v, minimum, maximum) == <<v, e[v] \in minimum..maximum>>
requiredPort(e, v) == requiredSecurityInteger(e, v, 1, 65535)
readPasswordFile(e) == <<"PG_PASSWORD_FILE", e["PG_PASSWORD_FILE"] = "secret">>
readCaFile(e) == <<"PG_TLS_CA_PATH", e["PG_TLS_CA_PATH"] = "certificates">>
explicitHosts(e) == <<"TLS_ALLOWED_HOSTS", e["TLS_ALLOWED_HOSTS"] \in {"host", "hosts"}>>
explicitProxyAddresses(e) == <<"TLS_TRUSTED_PROXIES", e["TLS_TRUSTED_PROXIES"] \in {"NONE", "addresses"}>>

loadPostgresConfig(e) ==
  <<forbidden(e, "PGPASSWORD"), forbidden(e, "PGSSLMODE"),
    requiredNonEmpty(e, "PGHOST"), requiredPort(e, "PGPORT"), requiredNonEmpty(e, "PGDATABASE"),
    requiredNonEmpty(e, "PGUSER"), readPasswordFile(e),
    requiredSecurityValue(e, "PG_TLS_MODE", {"verify-full"}), readCaFile(e)>>
Day == 86400000
MaxTimeout == 120000
loadAuthenticationConfig(e) ==
  <<requiredSecurityValue(e, "AUTH_TRUSTED_ISSUER", {"https"}),
    requiredSecurityValue(e, "AUTH_TRUSTED_AUDIENCE", {"text"}),
    requiredSecurityValue(e, "AUTH_JWKS_URL", {"https"}),
    requiredSecurityValue(e, "AUTH_ALLOWED_ALGORITHM", {"RS256"}),
    requiredSecurityInteger(e, "AUTH_CLOCK_SKEW_SECONDS", 0, 300),
    requiredSecurityInteger(e, "AUTH_JWKS_CACHE_TTL_MS", 1000, Day),
    requiredSecurityInteger(e, "AUTH_JWKS_TIMEOUT_MS", 100, 30000)>>
maxBodyBytes(e) == requiredSecurityInteger(e, "HTTP_MAX_BODY_BYTES", 1024, 1048576)
maxHeaderBytes(e) == requiredSecurityInteger(e, "HTTP_MAX_HEADER_BYTES", 1024, 65536)
requestTimeoutMs(e) == requiredSecurityInteger(e, "HTTP_REQUEST_TIMEOUT_MS", 100, MaxTimeout)
headersTimeoutMs(e) == requiredSecurityInteger(e, "HTTP_HEADERS_TIMEOUT_MS", 100, e["HTTP_REQUEST_TIMEOUT_MS"])
maxConcurrentRequests(e) == requiredSecurityInteger(e, "HTTP_MAX_CONCURRENT_REQUESTS", 1, 100000)
loadPublicIngressConfig(e) ==
  <<requiredSecurityValue(e, "HTTPS_HOST", {"loopback", "address"}),
    requiredSecurityInteger(e, "HTTPS_PORT", 1, 65535),
    maxBodyBytes(e), maxHeaderBytes(e), requestTimeoutMs(e), headersTimeoutMs(e), maxConcurrentRequests(e),
    requiredSecurityValue(e, "TLS_CERTIFICATE_PATH", {"text"}),
    requiredSecurityValue(e, "TLS_PRIVATE_KEY_PATH", {"text"}),
    requiredSecurityValue(e, "TLS_MIN_VERSION", {"TLSv1.2", "TLSv1.3"}),
    explicitHosts(e), explicitProxyAddresses(e)>>
loadTransportConfig(e) ==
  <<requiredSecurityValue(e, "HTTP_HOST", {"loopback"}),
    requiredSecurityInteger(e, "HTTP_PORT", 1, 65535),
    maxBodyBytes(e), maxHeaderBytes(e), requestTimeoutMs(e), headersTimeoutMs(e), maxConcurrentRequests(e)>>

Larger(m, n) == IF m >= n THEN m ELSE n
(* Broken: only the window of unauthenticated requests is covered.           *)
CoversOne(e) == e["RATE_LIMIT_RETENTION_MS"] >= e["RATE_LIMIT_PRE_AUTH_WINDOW_MS"]
Covers(e) ==
  e["RATE_LIMIT_RETENTION_MS"]
    >= Larger(e["RATE_LIMIT_PRE_AUTH_WINDOW_MS"], e["RATE_LIMIT_PRINCIPAL_WINDOW_MS"])
retentionCovers(e) == <<"RATE_LIMIT_RETENTION_MS", Covers(e)>>
MaxRetention == 604800000
windowMs(e, v) == requiredSecurityInteger(e, v, 1000, Day)
loadRateLimitingConfig(e) ==
  <<requiredSecurityInteger(e, "RATE_LIMIT_PRE_AUTH_LIMIT", 1, 1000000),
    requiredSecurityInteger(e, "RATE_LIMIT_PRINCIPAL_LIMIT", 1, 1000000),
    windowMs(e, "RATE_LIMIT_PRE_AUTH_WINDOW_MS"),
    windowMs(e, "RATE_LIMIT_PRINCIPAL_WINDOW_MS"),
    requiredSecurityInteger(e, "RATE_LIMIT_RETENTION_MS", 1000, MaxRetention),
    retentionCovers(e),
    requiredSecurityInteger(e, "RATE_LIMIT_STORAGE_TIMEOUT_MS", 50, 30000)>>

retentionDays(e, v) == requiredSecurityInteger(e, v, 1, 3650)
threshold(e, v) == requiredSecurityInteger(e, v, 1, 1000000)
loadSecurityObservabilityConfig(e) ==
  <<requiredSecurityValue(e, "OBSERVABILITY_INSTANCE_ID", {"identity"}),
    retentionDays(e, "SECURITY_LOG_RETENTION_DAYS"), retentionDays(e, "SECURITY_METRIC_RETENTION_DAYS"),
    retentionDays(e, "SECURITY_AUDIT_RETENTION_DAYS"),
    requiredSecurityInteger(e, "SECURITY_ALERT_WINDOW_MS", 1000, Day),
    threshold(e, "SECURITY_ALERT_AUTH_FAILURES"), threshold(e, "SECURITY_ALERT_RATE_LIMIT_REJECTIONS"),
    threshold(e, "SECURITY_ALERT_AUTH_DEPENDENCY_FAILURES"), threshold(e, "SECURITY_ALERT_AUTHORIZATION_REJECTIONS"),
    threshold(e, "SECURITY_ALERT_DISABLED_PRINCIPAL_ATTEMPTS"), threshold(e, "SECURITY_ALERT_POSTGRES_FAILURES"),
    threshold(e, "SECURITY_ALERT_FAIL_CLOSED"), threshold(e, "SECURITY_ALERT_TELEMETRY_FAILURES")>>

Environment(e) == IF e["ZINESH_RUNTIME_ENV"] = "absent" THEN "production" ELSE e["ZINESH_RUNTIME_ENV"]
Enabled(e) == e["PROTOTYPE_FUNDING_ENABLED"] = "true"
environmentOf(e) == <<"ZINESH_RUNTIME_ENV", Environment(e) \in {"development", "production"}>>
onlyInDevelopment(e) == <<"PROTOTYPE_FUNDING_ENABLED", Enabled(e) => Environment(e) = "development">>
disabled(e) == <<"PROTOTYPE_FUNDING_ENABLED", ~Enabled(e)>>
enabledInDevelopment(e) == <<"PROTOTYPE_FUNDING_ENABLED", Environment(e) = "development" /\ Enabled(e)>>
loadPrototypeFundingConfig(e) ==
  <<environmentOf(e), requiredSecurityValue(e, "PROTOTYPE_FUNDING_ENABLED", {"absent", "true", "false"}),
    onlyInDevelopment(e)>>
(* main: prototype funding is not for this program.                          *)
refusePrototypeFunding(e) == <<disabled(e)>>
(* The launcher: it is for nothing else.                                     *)
assertDevelopmentProvisioningEnvironment(e) ==
  <<requiredSecurityValue(e, "ZINESH_RUNTIME_ENV", {"development"}),
    requiredSecurityValue(e, "ZINESH_DEVELOPMENT_PROVISIONING", {"true"}),
    requiredSecurityValue(e, "PGDATABASE", {"zinesh_development"})>>
assertDevelopmentLauncherEnvironment(e) == <<enabledInDevelopment(e)>>
isLoopbackHttpOrigin(e) ==
  <<requiredSecurityValue(e, "ZINESH_DEVELOPMENT_WEB_ORIGIN", {"absent", "loopback"})>>
(* Its transport has defaults.                                               *)
Default == [HTTP_HOST |-> "loopback", HTTP_PORT |-> 8787, HTTP_MAX_BODY_BYTES |-> 65536,
  HTTP_MAX_HEADER_BYTES |-> 16384, HTTP_REQUEST_TIMEOUT_MS |-> 15000, HTTP_HEADERS_TIMEOUT_MS |-> 5000,
  HTTP_MAX_CONCURRENT_REQUESTS |-> 100]
Missing(e, v) == IF v = "HTTP_HOST" THEN e[v] = "absent" ELSE e[v] = Absent
Normalized(e) == [v \in DOMAIN e |-> IF v \in DOMAIN Default /\ Missing(e, v) THEN Default[v] ELSE e[v]]
loadDevelopmentHttpConfig(e) == loadTransportConfig(Normalized(e))

---------------------------------------------------------------------------
(* What the launcher asserts before and after it read the database's          *)
(* configuration is three steps: provisioning, prototype, enabled.           *)
Steps(who) ==
  IF who = "main"
  THEN <<"postgres", "authentication", "ingress", "rate", "observability", "prototype", "refuse">>
  ELSE <<"provisioning", "prototype", "enabled", "postgres", "provisioning", "prototype", "enabled", "http", "origin">>
Checks(s, e) ==
  CASE s = "postgres" -> loadPostgresConfig(e)
    [] s = "authentication" -> loadAuthenticationConfig(e)
    [] s = "ingress" -> loadPublicIngressConfig(e)
    [] s = "rate" -> loadRateLimitingConfig(e)
    [] s = "observability" -> loadSecurityObservabilityConfig(e)
    [] s = "prototype" -> loadPrototypeFundingConfig(e)
    [] s = "refuse" -> refusePrototypeFunding(e)
    [] s = "provisioning" -> assertDevelopmentProvisioningEnvironment(e)
    [] s = "enabled" -> assertDevelopmentLauncherEnvironment(e)
    [] s = "http" -> loadDevelopmentHttpConfig(e)
    [] s = "origin" -> isLoopbackHttpOrigin(e)
Wrong(checks) == {i \in DOMAIN checks : ~checks[i][2]}
FirstWrong(checks) == checks[CHOOSE i \in Wrong(checks) : \A j \in Wrong(checks) : i <= j][1]

(* An environment has a value, if only Absent, of every variable that is       *)
(* looked at; what an operator sets is right where everything is set so, and  *)
(* on the safe side of what is compared with another variable.               *)
LoadersOf(who) == {Steps(who)[i] : i \in DOMAIN Steps(who)}
AllGood(who, e) == [v \in DOMAIN e |-> Good(who, v)]
Complete(who, e) ==
  \A s \in LoadersOf(who) :
    LET checks == Checks(s, e) IN
    /\ \A i \in DOMAIN checks : checks[i][1] \in DOMAIN e
    /\ Wrong(Checks(s, AllGood(who, e))) = {}
ConfigurationAssumption ==
  /\ \A start \in Environments :
       /\ start.entry \in {"main", "launcher"}
       /\ None \notin DOMAIN start.env /\ Complete(start.entry, start.env)
  /\ \A who \in {"main", "launcher"} : Good(who, "HTTP_HEADERS_TIMEOUT_MS") = 100
  /\ Good("main", "RATE_LIMIT_RETENTION_MS") = MaxRetention

Begins == [state |-> "loading", variable |-> None]
StartedIn(start) ==
  /\ entry = start.entry /\ env = start.env
  /\ step = Steps(entry) /\ composition = Begins /\ repaired = {}
ConfigurationInit == \E start \in Environments : StartedIn(start)
Load ==
  LET checks == Checks(Head(step), env) IN
  /\ composition.state = "loading" /\ step # <<>>
  /\ IF Wrong(checks) = {} THEN step' = Tail(step) /\ UNCHANGED composition
     ELSE composition' = [state |-> "refused", variable |-> FirstWrong(checks)] /\ UNCHANGED step
  /\ UNCHANGED <<entry, env, repaired>>
(* composeRuntime repeats the check on prototype funding.                    *)
Compose ==
  /\ composition.state = "loading" /\ step = <<>>
  /\ composition' = IF Enabled(env) /\ Environment(env) # "development"
                THEN [state |-> "refused", variable |-> "PROTOTYPE_FUNDING_ENABLED"]
                ELSE [state |-> "composed", variable |-> None]
  /\ UNCHANGED <<entry, env, step, repaired>>
(* An operator sets the variable that was named, and starts again.           *)
Repair ==
  LET v == composition.variable IN
  /\ composition.state = "refused" /\ v \notin repaired
  /\ env' = [env EXCEPT ![v] = Good(entry, v)]
  /\ repaired' = repaired \cup {v} /\ step' = Steps(entry) /\ composition' = Begins
  /\ UNCHANGED entry
ConfigurationNext == Load \/ Compose \/ Repair
ConfigurationSpec == ConfigurationInit /\ [][ConfigurationNext]_configurationVars

---------------------------------------------------------------------------
(* Every variable has its type, and a refusal names a variable.              *)
ConfigurationTypeOK ==
  /\ entry \in {"main", "launcher"} /\ Len(step) <= 9
  /\ composition.state \in {"loading", "composed", "refused"}
  /\ IF composition.state = "refused" THEN composition.variable \in DOMAIN env ELSE composition.variable = None
  /\ repaired \subseteq DOMAIN env

(* What the components rely on without looking again holds of every           *)
(* environment a process is composed from: the limiter's rows outlive both    *)
(* windows, headers time out before requests, the database's identity is      *)
(* verified.                                                                 *)
ComposedIsSound ==
  composition.state = "composed" =>
    /\ env["PG_TLS_MODE"] = "verify-full" /\ env["PGSSLMODE"] = "absent"
    /\ entry = "main" =>
         /\ env["RATE_LIMIT_RETENTION_MS"] >= env["RATE_LIMIT_PRINCIPAL_WINDOW_MS"]
         /\ env["RATE_LIMIT_RETENTION_MS"] >= env["RATE_LIMIT_PRE_AUTH_WINDOW_MS"]
         /\ env["HTTP_HEADERS_TIMEOUT_MS"] <= env["HTTP_REQUEST_TIMEOUT_MS"]
         /\ env["HTTP_HEADERS_TIMEOUT_MS"] >= 100

(* Prototype funding and a listener without TLS exist only together, in the   *)
(* development program, on a loopback address; never in main.                 *)
PrototypeStaysHome ==
  composition.state = "composed" =>
    /\ (entry = "launcher") = (env["PROTOTYPE_FUNDING_ENABLED"] = "true")
    /\ entry = "launcher" => env["HTTP_HOST"] \in {"absent", "loopback"}

(* Whatever is wrong, the variable that is named can be set right alone: an    *)
(* operator is never told twice that the same one is wrong, so that every     *)
(* environment is repaired one variable after the other.                      *)
NamedOnce == composition.variable \notin repaired

(* However the environment is wrong: what is composed is what the components *)
(* rely on, prototype funding stays out of production, and an operator who   *)
(* sets right the variable that is named never has to set it again.          *)
ConfigurationSound == ConfigurationTypeOK /\ ComposedIsSound /\ PrototypeStaysHome /\ NamedOnce
=============================================================================
