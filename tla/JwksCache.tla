----------------------------- MODULE JwksCache -----------------------------
(***************************************************************************)
(* The authentication of credentials: CachedJwksProvider, which keeps each  *)
(* trusted issuer's key set, and JwtAuthenticationAdapter on top of it.     *)
(* Issuers publish and withdraw keys whenever they like, their answers may  *)
(* be late, unusable or lost, and requests meet in one process.  The abort  *)
(* timer of a fetch is taken to fire on time.                               *)
(***************************************************************************)
EXTENDS Integers, FiniteSets, FiniteSetsExt, Optional

CONSTANTS
  Issuer,           \* the issuers configured
  Config,           \* per issuer, its audiences, algorithms and jwksUrl
  Key,              \* keys an issuer may publish
  Token,            \* credentials requests may carry
  Request,          \* requests
  Ttl,              \* jwksCacheTtlMs
  Timeout,          \* jwksTimeoutMs
  UnknownCooldown,  \* the 5_000 ms between fetches for unknown keys
  ClockSkew,        \* clockSkewSeconds
  MaxKeys,          \* the 32 keys of a set
  MinBits,          \* the 2048 bits of a modulus
  MaxTime,          \* bound on the time
  MaxChanges        \* bound on the issuers' changes

validateConfig ==
  /\ Issuer # {} /\ ClockSkew >= 0 /\ Ttl > 0 /\ Timeout > 0
  /\ \A i \in Issuer : /\ Config[i].audiences # {} /\ Config[i].secure
                       /\ Config[i].algorithms # {} /\ Config[i].algorithms \subseteq {"RS256"}
Refusals ==
  {"MALFORMED_CREDENTIAL", "INVALID_ISSUER", "UNSUPPORTED_ALGORITHM", "INVALID_AUDIENCE",
   "EXPIRED_CREDENTIAL", "CREDENTIAL_NOT_ACTIVE"}
ConfigAssumption ==
  /\ validateConfig
  /\ {Ttl, Timeout, UnknownCooldown, ClockSkew, MaxKeys, MinBits, MaxTime, MaxChanges} \subseteq Nat
  /\ UnknownCooldown > 0 /\ IsFiniteSet(Key)
  /\ \A t \in Token : t.exp \in Int /\ t.nbf \in Int \cup {None}
  /\ None \notin Refusals \cup {"enc"}

VARIABLES
  now,          \* the clock of the process
  published,    \* per issuer, the keys it publishes
  seen,         \* history: per issuer and key it ever published, since and until when
  changes,      \* bound: changes made by issuers
  cache,        \* per issuer, the set kept, and history: of which moment
  flights,      \* per issuer, the fetches under way
  lastUnknown,  \* lastUnknownRefresh
  requests,     \* per request, where it stands
  fetches,      \* history: per issuer, when fetches began under a valid set
  lastFailed    \* history: per issuer, when a fetch last failed
jwksVars == <<now, published, seen, changes, cache, flights, lastUnknown, requests, fetches, lastFailed>>

Never == -(Ttl + Timeout + UnknownCooldown)
Idle == [pc |-> "idle"]
JwksInit ==
  /\ now = 0 /\ changes = 0
  /\ published = [i \in Issuer |-> {}]
  /\ seen = [i \in Issuer |-> [k \in {} |-> None]]
  /\ cache = [i \in Issuer |-> None]
  /\ flights = [i \in Issuer |-> {}]
  /\ lastUnknown = [i \in Issuer |-> Never]
  /\ requests = [r \in Request |-> Idle]
  /\ fetches = [i \in Issuer |-> {}]
  /\ lastFailed = [i \in Issuer |-> Never]

(* Time passes up to the abort timer of the fetch that has been out longest. *)
Tick ==
  /\ now < MaxTime
  /\ \A i \in Issuer : \A f \in flights[i] : now < f.began + Timeout
  /\ now' = now + 1
  /\ seen' = [i \in Issuer |-> [k \in DOMAIN seen[i] |->
                IF k \in published[i] THEN [seen[i][k] EXCEPT !.until = now + 1] ELSE seen[i][k]]]
  /\ UNCHANGED <<published, changes, cache, flights, lastUnknown, requests, fetches, lastFailed>>

(* An issuer publishes a key, or withdraws one.                              *)
Publish(i, k) ==
  /\ changes < MaxChanges /\ changes' = changes + 1
  /\ IF k \in published[i]
     THEN published' = [published EXCEPT ![i] = @ \ {k}] /\ UNCHANGED seen
     ELSE /\ published' = [published EXCEPT ![i] = @ \cup {k}]
          /\ seen' = [seen EXCEPT ![i] = [x \in DOMAIN seen[i] \cup {k} |->
                        IF x = k THEN [since |-> now, until |-> now] ELSE seen[i][x]]]
  /\ UNCHANGED <<now, cache, flights, lastUnknown, requests, fetches, lastFailed>>

---------------------------------------------------------------------------
(* What a credential is refused for before a key is looked up.               *)
ActiveAt(t) ==
  IF now - ClockSkew >= t.exp THEN "EXPIRED_CREDENTIAL"
  ELSE IF t.nbf # None /\ now + ClockSkew < t.nbf THEN "CREDENTIAL_NOT_ACTIVE" ELSE None
audienceMatches(actual, trusted) == actual \cap trusted # {}
Refused(t) ==
  IF ~t.wellFormed THEN "MALFORMED_CREDENTIAL"
  ELSE IF t.iss \notin Issuer THEN "INVALID_ISSUER"
  ELSE IF t.alg \notin Config[t.iss].algorithms THEN "UNSUPPORTED_ALGORITHM"
  ELSE IF ~audienceMatches(t.aud, Config[t.iss].audiences) THEN "INVALID_AUDIENCE"
  ELSE ActiveAt(t)

(* With the key: its uses first, then the signature.                         *)
Verify(t, k) ==
  IF /\ k.kty = "RSA" /\ k.alg \in {None, t.alg} /\ k.use \in {None, "sig"}
     /\ k.ops # None => "verify" \in k.ops
     /\ k.bits >= MinBits /\ t.signer = k
  THEN "OK" ELSE "INVALID_SIGNATURE"
WithSet(t, keys) ==
  LET found == {k \in keys : k.kid = t.kid} IN
  IF found = {} THEN "UNKNOWN_KEY" ELSE Verify(t, CHOOSE k \in found : TRUE)
Done(t, outcome) == [pc |-> "done", token |-> t, outcome |-> outcome, at |-> now]

Current(i) == cache[i] # None /\ cache[i].expiresAt > now
Cooldown == Min({Ttl, UnknownCooldown})
Cooling(i) == now - lastUnknown[i] < Cooldown

(* refresh: a fetch under way is joined.  Broken: each caller has its own.   *)
RefreshAlone(i, r) ==
  flights' = [flights EXCEPT ![i] = @ \cup {[began |-> now, document |-> None, waiting |-> {r}]}]
Refresh(i, r) ==
  flights' = [flights EXCEPT ![i] =
    IF @ = {} THEN {[began |-> now, document |-> None, waiting |-> {r}]}
    ELSE {[f EXCEPT !.waiting = @ \cup {r}] : f \in @}]

Ask(i, r, t) ==
  /\ Refresh(i, r)
  /\ requests' = [requests EXCEPT ![r] = [pc |-> "wait", token |-> t]]
  /\ fetches' = [fetches EXCEPT ![i] = IF Current(i) /\ flights[i] = {} THEN @ \cup {now} ELSE @]
  /\ lastUnknown' = [lastUnknown EXCEPT ![i] = IF Current(i) THEN now ELSE @]

Known(i, t) == \E k \in cache[i].keys : k.kid = t.kid
resolve(i, r, t) ==
  IF Current(i) /\ (Known(i, t) \/ Cooling(i))
  THEN /\ requests' = [requests EXCEPT ![r] = Done(t, WithSet(t, cache[i].keys))]
       /\ UNCHANGED <<flights, lastUnknown, fetches>>
  ELSE Ask(i, r, t)
authenticate(r, t) ==
  /\ requests[r] = Idle
  /\ IF Refused(t) # None
     THEN /\ requests' = [requests EXCEPT ![r] = Done(t, Refused(t))]
          /\ UNCHANGED <<flights, lastUnknown, fetches>>
     ELSE resolve(t.iss, r, t)
  /\ UNCHANGED <<now, published, seen, changes, cache, lastFailed>>

---------------------------------------------------------------------------
(* The issuer answers with what it publishes at that moment.                 *)
Answer(i, f) ==
  /\ f \in flights[i] /\ f.document = None
  /\ flights' = [flights EXCEPT ![i] = (@ \ {f}) \cup {[f EXCEPT !.document = [keys |-> published[i], of |-> now]]}]
  /\ UNCHANGED <<now, published, seen, changes, cache, lastUnknown, requests, fetches, lastFailed>>

(* The waiting callers go on with the answer, in the same turn.              *)
Land(i, f, outcome) ==
  /\ flights' = [flights EXCEPT ![i] = @ \ {f}]
  /\ requests' = [r \in Request |-> IF r \in f.waiting THEN Done(requests[r].token, outcome[requests[r].token])
                                   ELSE requests[r]]
(* Broken: the set kept is used on when it cannot be refreshed.              *)
DroppedExtends(i, f) ==
  /\ Land(i, f, [t \in Token |-> "AUTHENTICATION_DEPENDENCY_FAILURE"])
  /\ lastFailed' = [lastFailed EXCEPT ![i] = now]
  /\ cache' = [cache EXCEPT ![i] = IF @ = None THEN None ELSE [@ EXCEPT !.expiresAt = now + Ttl]]
Dropped(i, f) ==
  /\ Land(i, f, [t \in Token |-> "AUTHENTICATION_DEPENDENCY_FAILURE"])
  /\ lastFailed' = [lastFailed EXCEPT ![i] = now]
  /\ UNCHANGED cache
(* A set of too many keys, or with a key of no or of another's id.           *)
Invalid(keys) ==
  \/ Cardinality(keys) > MaxKeys
  \/ \E k \in keys : k.kid = "" \/ \E other \in keys \ {k} : other.kid = k.kid
Arrive(i, f) ==
  /\ f \in flights[i] /\ f.document # None
  /\ IF Invalid(f.document.keys) THEN Dropped(i, f)
     ELSE /\ cache' = [cache EXCEPT ![i] = [expiresAt |-> now + Ttl, keys |-> f.document.keys,
                                            of |-> f.document.of]]
          /\ Land(i, f, [t \in Token |-> WithSet(t, f.document.keys)])
          /\ UNCHANGED lastFailed
  /\ UNCHANGED <<now, published, seen, changes, lastUnknown, fetches>>
(* The fetch is aborted, fails, or its answer is no key set.                 *)
Fail(i, f) ==
  /\ f \in flights[i]
  /\ Dropped(i, f)
  /\ UNCHANGED <<now, published, seen, changes, lastUnknown, fetches>>

JwksNext ==
  \/ Tick
  \/ \E i \in Issuer : \/ \E k \in Key : Publish(i, k)
                       \/ \E f \in flights[i] : Answer(i, f) \/ Arrive(i, f) \/ Fail(i, f)
  \/ \E r \in Request, t \in Token : authenticate(r, t)
JwksSpec == JwksInit /\ [][JwksNext]_jwksVars

---------------------------------------------------------------------------
(* A kept set has at most MaxKeys keys, one per id, and exactly the waiting  *)
(* requests of an issuer wait for a fetch under way.                         *)
JwksTypeOK ==
  /\ now \in 0..MaxTime /\ changes \in 0..MaxChanges
  /\ \A i \in Issuer :
       /\ cache[i] # None => /\ cache[i].expiresAt \in 1..now + Ttl
                             /\ Cardinality({k.kid : k \in cache[i].keys}) = Cardinality(cache[i].keys)
                             /\ Cardinality(cache[i].keys) <= MaxKeys
       /\ UNION {f.waiting : f \in flights[i]}
            = {r \in Request : requests[r].pc = "wait" /\ requests[r].token.iss = i}

Accepted == {r \in Request : requests[r].pc = "done" /\ requests[r].outcome = "OK"}

(* Withdrawing a key takes hold: a credential is accepted only if the issuer *)
(* it names published the key it is signed with less than a cache time and a *)
(* fetch time ago, however fetches fail, overtake or are shared.             *)
RevocationTakesHold ==
  \A r \in Accepted :
    LET q == requests[r]
        i == q.token.iss
        k == q.token.signer IN
    k \in DOMAIN seen[i] /\ q.at - seen[i][k].until < Ttl + Timeout

(* A new key is found: an id published for a cooldown and a fetch time is    *)
(* answered as unknown only while a fetch that may find it is under way, or  *)
(* within a cooldown of a fetch that failed.                                 *)
FindsNewKey ==
  \A r \in Request :
    requests[r] # requests'[r] /\ requests'[r].pc = "done" /\ requests'[r].outcome = "UNKNOWN_KEY" =>
      LET i == requests'[r].token.iss IN
      \A k \in published[i] :
        \/ k.kid # requests'[r].token.kid
        \/ now - seen[i][k].since < Cooldown + Timeout
        \/ flights'[i] # {}
        \/ now - lastFailed[i] < Cooldown

(* The waiting time of a fetch is all a credential gains: it is accepted at  *)
(* most a skew and a fetch time past its end, never before its beginning,    *)
(* for one of the issuer's audiences, under a key meant for signatures.      *)
AcceptedInTime ==
  \A r \in Accepted :
    LET q == requests[r]
        t == q.token IN
    /\ q.at < t.exp + ClockSkew + Timeout
    /\ t.nbf # None => q.at + ClockSkew >= t.nbf
    /\ t.aud \cap Config[t.iss].audiences # {}
    /\ t.signer.kty = "RSA" /\ t.signer.use # "enc" /\ t.signer.bits >= MinBits

(* Credentials with unknown key ids cannot make the process ask the issuer   *)
(* more often than once per cooldown while it holds a valid set.             *)
FetchesSpread ==
  \A i \in Issuer : \A a, b \in fetches[i] : a < b => b - a >= Cooldown

(* A set is never replaced by an older one.                                  *)
KeepsNewest ==
  \A i \in Issuer : cache[i] # None /\ cache'[i] # None => cache'[i].of >= cache[i].of

(* Issuers rotate keys while fetches are joined, late, unusable or lost: a   *)
(* withdrawn key is trusted no longer than a cache and a fetch time, unknown *)
(* key ids ask the issuer once per cooldown, and a credential is accepted    *)
(* only in its time, for its audience and under a signing key.               *)
KeysSound == JwksTypeOK /\ RevocationTakesHold /\ FetchesSpread /\ AcceptedInTime

(* A key published for a cooldown and a fetch time is found, unless fetches  *)
(* fail, and a set is never replaced by an older one.                        *)
KeysFresh == [][FindsNewKey /\ KeepsNewest]_jwksVars

=============================================================================
