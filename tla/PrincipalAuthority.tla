------------------------- MODULE PrincipalAuthority -------------------------
(***************************************************************************)
(* Principals, their identities and capabilities, and the audit of every    *)
(* change (PostgresPrincipalAuthority over the schema of migrations 2, 3,   *)
(* 10 and 12).  Administrators change a principal from the version they     *)
(* read; a change is one transaction on the principal's row.  Requests      *)
(* resolve an identity with two queries, the row and then its capabilities. *)
(***************************************************************************)
EXTENDS Naturals, Sequences, Optional

CONSTANTS
  Principal, Actor, Identity,
  Administrator,  \* lifecycle callers at work
  Resolution,     \* requests that resolve an identity
  Changes,        \* what administrators may ask for
  MaxVersion      \* bound on the changes of one principal

VersionAssumption == MaxVersion \in Nat \ {0}
PrincipalType == {"ACTOR", "GATEWAY", "SYSTEM"}
Capability ==
  {"ACT_AS_SELF", "CONFIRM_FUNDING", "RESOLVE_FUNDING_NEGATIVE", "MANAGE_ADMISSION_QUARANTINE"}
LifecycleOperation ==
  {"CREATE", "ENABLE", "DISABLE", "ACTOR_MAPPING", "CAPABILITY_ASSIGN", "CAPABILITY_REVOKE",
   "IDENTITY_ATTACH"}
ChangesAssumption ==
  /\ None \notin PrincipalType \cup Capability \cup Actor \cup Principal
  /\ \A q \in Changes :
       /\ q.principal \in Principal /\ q.operation \in LifecycleOperation
       /\ q.operation = "CREATE" => q.type \in PrincipalType /\ q.actor \in Actor \cup {None}
       /\ q.operation \in {"CREATE", "IDENTITY_ATTACH"} => q.identity \in Identity
       /\ q.operation = "ACTOR_MAPPING" => q.actor \in Actor
       /\ q.operation \in {"CAPABILITY_ASSIGN", "CAPABILITY_REVOKE"} => q.capability \in Capability

VARIABLES
  principals,   \* principals: type, actor, enabled, mapping version
  identities,   \* external_identities
  capabilities, \* principal_capabilities
  audit,        \* principal_audit, per principal; holds: history, the
                \* capabilities after the change
  cited,        \* principals whose capability a disposition refers to
  change,       \* per administrator, the call it is in
  resolution,   \* per resolution, what it has read
  confirmed     \* history: changes answered ok, with their version
authorityVars == <<principals, identities, capabilities, audit, cited, change, resolution, confirmed>>

Absent == [type |-> None, actor |-> None, enabled |-> FALSE, version |-> 0]
Exists(p) == principals[p] # Absent
NotAsked == [pc |-> "idle"]

(* enforce_principal_capability, with the check constraint of version 12.    *)
Allowed(type) ==
  CASE type = "ACTOR" -> {"ACT_AS_SELF"}
    [] type = "GATEWAY" -> {"CONFIRM_FUNDING", "RESOLVE_FUNDING_NEGATIVE"}
    [] OTHER -> {"MANAGE_ADMISSION_QUARANTINE"}

AuthorityInit ==
  /\ principals = [p \in Principal |-> Absent] /\ identities = [i \in Identity |-> None]
  /\ capabilities = [p \in Principal |-> {}] /\ audit = [p \in Principal |-> <<>>]
  /\ cited = {} /\ confirmed = {}
  /\ change = [a \in Administrator |-> NotAsked] /\ resolution = [r \in Resolution |-> NotAsked]

(* An administrator reads the principal, then asks for a change of it. *)
Get(a, q) ==
  /\ change[a] = NotAsked
  /\ principals[q.principal].version < MaxVersion
  /\ change' = [change EXCEPT ![a] = [pc |-> "change", request |-> q,
                                      expected |-> principals[q.principal].version]]
  /\ UNCHANGED <<principals, identities, capabilities, audit, cited, resolution, confirmed>>

ValidCreate(q) ==
  /\ q.type = "ACTOR" <=> q.actor # None
  /\ q.capabilities \subseteq Allowed(q.type)
ActorFree(p, actor) == \A other \in Principal \ {p} : principals[other].actor # actor
Creatable(q) ==
  /\ ValidCreate(q) /\ ~Exists(q.principal) /\ identities[q.identity] = None
  /\ q.actor # None => ActorFree(q.principal, q.actor)

(* The rows the UPDATE finds.  Broken: of any version. *)
FindsAnyVersion(q, version) ==
  /\ Exists(q.principal)
  /\ q.operation = "ACTOR_MAPPING" => principals[q.principal].type = "ACTOR"
  /\ q.operation = "CAPABILITY_REVOKE" => q.capability \in capabilities[q.principal]
Finds(q, version) ==
  /\ Exists(q.principal) /\ principals[q.principal].version = version
  /\ q.operation = "ACTOR_MAPPING" => principals[q.principal].type = "ACTOR"
  /\ q.operation = "CAPABILITY_REVOKE" => q.capability \in capabilities[q.principal]
(* The keys and triggers the change meets.                                   *)
Permitted(q) ==
  CASE q.operation = "ACTOR_MAPPING" -> ActorFree(q.principal, q.actor)
    [] q.operation = "CAPABILITY_ASSIGN" ->
         q.capability \in Allowed(principals[q.principal].type) \ capabilities[q.principal]
    [] q.operation = "CAPABILITY_REVOKE" ->
         ~(q.capability = "RESOLVE_FUNDING_NEGATIVE" /\ q.principal \in cited)
    [] q.operation = "IDENTITY_ATTACH" -> identities[q.identity] = None
    [] OTHER -> TRUE

RowAfter(q) ==
  LET row == [principals[q.principal] EXCEPT !.version = @ + 1] IN
  CASE q.operation = "CREATE" ->
         [type |-> q.type, actor |-> q.actor, enabled |-> TRUE, version |-> 1]
    [] q.operation \in {"ENABLE", "DISABLE"} -> [row EXCEPT !.enabled = q.operation = "ENABLE"]
    [] q.operation = "ACTOR_MAPPING" -> [row EXCEPT !.actor = q.actor]
    [] OTHER -> row
CapabilitiesAfter(q) ==
  CASE q.operation = "CREATE" -> q.capabilities
    [] q.operation = "CAPABILITY_ASSIGN" -> capabilities[q.principal] \cup {q.capability}
    [] q.operation = "CAPABILITY_REVOKE" -> capabilities[q.principal] \ {q.capability}
    [] OTHER -> capabilities[q.principal]
AuditRow(q) ==
  [operation |-> q.operation, version |-> RowAfter(q).version, actor |-> RowAfter(q).actor,
   capability |-> IF q.operation \in {"CAPABILITY_ASSIGN", "CAPABILITY_REVOKE"}
                  THEN q.capability ELSE None,
   holds |-> CapabilitiesAfter(q)]

(* One transaction.                                                          *)
CommitChange(a) ==
  LET q == change[a].request IN
  /\ principals' = [principals EXCEPT ![q.principal] = RowAfter(q)]
  /\ capabilities' = [capabilities EXCEPT ![q.principal] = CapabilitiesAfter(q)]
  /\ audit' = [audit EXCEPT ![q.principal] = Append(@, AuditRow(q))]
  /\ identities' = IF q.operation \in {"CREATE", "IDENTITY_ATTACH"}
                   THEN [identities EXCEPT ![q.identity] = q.principal] ELSE identities
  /\ confirmed' \in {confirmed, confirmed \cup   \* the answer may be lost
       {[principal |-> q.principal, version |-> RowAfter(q).version,
         read |-> change[a].expected, by |-> a, request |-> q]}}
CreatePrincipal(a) ==
  LET q == change[a].request IN
  /\ change[a].pc = "change" /\ q.operation = "CREATE"
  /\ IF Creatable(q) THEN CommitChange(a)
     ELSE UNCHANGED <<principals, identities, capabilities, audit, confirmed>>
  /\ change' = [change EXCEPT ![a] = NotAsked]
  /\ UNCHANGED <<cited, resolution>>
Mutate(a) ==
  LET q == change[a].request IN
  /\ change[a].pc = "change" /\ q.operation # "CREATE"
  /\ IF Finds(q, change[a].expected) /\ Permitted(q) THEN CommitChange(a)
     ELSE UNCHANGED <<principals, identities, capabilities, audit, confirmed>>
  /\ change' = [change EXCEPT ![a] = NotAsked]
  /\ UNCHANGED <<cited, resolution>>
(* A statement fails, or the replica dies: rolled back. *)
Abandon(a) ==
  /\ change[a] # NotAsked
  /\ change' = [change EXCEPT ![a] = NotAsked]
  /\ UNCHANGED <<principals, identities, capabilities, audit, cited, resolution, confirmed>>

(* A disposition names its resolver's capability. *)
Cite(p) ==
  /\ "RESOLVE_FUNDING_NEGATIVE" \in capabilities[p]
  /\ cited' = cited \cup {p}
  /\ UNCHANGED <<principals, identities, capabilities, audit, change, resolution, confirmed>>

(* A request was authenticated as an identity and is resolved. *)
Authenticated(r, i) ==
  /\ resolution[r] = NotAsked
  /\ resolution' = [resolution EXCEPT ![r] =
       [pc |-> "row", identity |-> i,
        since |-> IF identities[i] = None THEN 0 ELSE principals[identities[i]].version]]
  /\ UNCHANGED <<principals, identities, capabilities, audit, cited, change, confirmed>>
ResolveRow(r) ==
  LET p == identities[resolution[r].identity] IN
  /\ resolution[r].pc = "row"
  /\ resolution' = [resolution EXCEPT ![r] =
       IF p = None THEN NotAsked
       ELSE [pc |-> "capabilities", principal |-> p, row |-> principals[p], since |-> @.since]]
  /\ UNCHANGED <<principals, identities, capabilities, audit, cited, change, confirmed>>
(* Broken: what a replica read before is used again. *)
ToRecordCached(r) ==
  /\ resolution[r].pc = "capabilities"
  /\ \E v \in 1 .. Len(audit[resolution[r].principal]) :
       resolution' = [resolution EXCEPT ![r] =
         [pc |-> "resolved", principal |-> @.principal, row |-> @.row, since |-> @.since,
          capabilities |-> audit[resolution[r].principal][v].holds]]
  /\ UNCHANGED <<principals, identities, capabilities, audit, cited, change, confirmed>>
ToRecord(r) ==
  /\ resolution[r].pc = "capabilities"
  /\ resolution' = [resolution EXCEPT ![r] =
       [pc |-> "resolved", principal |-> @.principal, row |-> @.row, since |-> @.since,
        capabilities |-> capabilities[resolution[r].principal]]]
  /\ UNCHANGED <<principals, identities, capabilities, audit, cited, change, confirmed>>
Done(r) ==
  /\ resolution[r].pc = "resolved"
  /\ resolution' = [resolution EXCEPT ![r] = NotAsked]
  /\ UNCHANGED <<principals, identities, capabilities, audit, cited, change, confirmed>>

AuthorityNext ==
  \/ \E a \in Administrator :
       (\E q \in Changes : Get(a, q)) \/ CreatePrincipal(a) \/ Mutate(a) \/ Abandon(a)
  \/ \E p \in Principal : Cite(p)
  \/ \E r \in Resolution :
       (\E i \in Identity : Authenticated(r, i)) \/ ResolveRow(r) \/ ToRecord(r) \/ Done(r)
AuthoritySpec == AuthorityInit /\ [][AuthorityNext]_authorityVars

-----------------------------------------------------------------------------
AuthorityTypeOK ==
  /\ \A p \in Principal : Exists(p) =>
       /\ principals[p].type \in PrincipalType
       /\ principals[p].type = "ACTOR" <=> principals[p].actor \in Actor
       /\ principals[p].enabled \in BOOLEAN /\ principals[p].version \in 1 .. MaxVersion
       /\ capabilities[p] \subseteq Allowed(principals[p].type)
       /\ principals[p].type = "GATEWAY" => "ACT_AS_SELF" \notin capabilities[p]
  /\ identities \in [Identity -> Principal \cup {None}]

LastRow(p, operations) ==
  CHOOSE v \in 1 .. Len(audit[p]) :
    /\ audit[p][v].operation \in operations
    /\ \A w \in v + 1 .. Len(audit[p]) : audit[p][w].operation \notin operations
(* The audit explains the principal: one row for each version and no other,  *)
(* and whether it is enabled, whom it acts as and every capability that was  *)
(* ever assigned or revoked follow from the rows, whoever raced or died.     *)
AuditExplains ==
  \A p \in Principal :
    /\ Len(audit[p]) = principals[p].version
    /\ \A v \in 1 .. Len(audit[p]) : audit[p][v].version = v
    /\ Exists(p) =>
         /\ principals[p].enabled <=>
              audit[p][LastRow(p, {"CREATE", "ENABLE", "DISABLE"})].operation # "DISABLE"
         /\ principals[p].actor = audit[p][Len(audit[p])].actor
         /\ \A v \in 1 .. Len(audit[p]) :
              (audit[p][v].capability # None
               /\ \A w \in v + 1 .. Len(audit[p]) : audit[p][w].capability # audit[p][v].capability)
              => (audit[p][v].capability \in capabilities[p]
                  <=> audit[p][v].operation = "CAPABILITY_ASSIGN")

(* Of administrators that change one principal from the same version at most *)
(* one is told it succeeded; the version it was told is the one audited for  *)
(* it and the next after the one it had read.                                *)
NoLostChange ==
  \A c \in confirmed :
    /\ c.version = c.read + 1
    /\ audit[c.principal][c.version].operation = c.request.operation
    /\ \A d \in confirmed : d.principal = c.principal /\ d.version = c.version => d = c

(* No two principals act as one actor, whatever mappings were changed, so    *)
(* that a command has one accountable principal.                             *)
ActorsUnambiguous ==
  \A p, q \in Principal :
    principals[p].actor = principals[q].actor /\ principals[p].actor # None => p = q

(* What administrators who race, die or lose an answer leave: principals of  *)
(* their types, one per actor, no change lost and an audit that explains all.*)
PrincipalsSound == AuthorityTypeOK /\ ActorsUnambiguous /\ NoLostChange /\ AuditExplains

(* What a resolution returns was true after it began: it is not of a version *)
(* before, and each capability was held at that version or later.  (The row  *)
(* and the capabilities may be of two versions.)                             *)
ResolvedFresh ==
  \A r \in Resolution : resolution[r].pc = "resolved" =>
    /\ resolution[r].row.version >= resolution[r].since
    /\ \A c \in resolution[r].capabilities :
         \E v \in 1 .. Len(audit[resolution[r].principal]) :
           v >= resolution[r].since /\ c \in audit[resolution[r].principal][v].holds
=============================================================================
