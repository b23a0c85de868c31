---------------------- MODULE DevelopmentProvisioning ----------------------
(***************************************************************************)
(* The bootstrap of the two development principals                          *)
(* (provision-development-actors.ts), run by the launcher and by hand: two  *)
(* reads, a creation when both found nothing, and two reads more when the   *)
(* creation lost a race.  Operators run at once and may crash; an           *)
(* administrator changes the same principals.  A fixed principal, its       *)
(* identity and its actor have one name here.                               *)
(***************************************************************************)
EXTENDS Naturals, Sequences

CONSTANTS
  Operator,
  SPECS,                 \* the fixed principals, in the order they are made
  Foreign,               \* records an administrator may create
  MaxChanges, MaxRuns    \* bounds: changes by administrators, runs per operator

VARIABLES
  principals,   \* set of records: principal, identity, actor, enabled, capabilities
  operator,     \* per operator, where its run stands
  changes, runs,   \* bounds
  steady,       \* history: per operator, the principal it is at was exact ever since it came to it
  witnessed,    \* history: per operator, the principals that were exact during its run
  reported      \* history: what runs reported
provisioningVars == <<principals, operator, changes, runs, steady, witnessed, reported>>

Fixed(n) == [principal |-> n, identity |-> n, actor |-> n, enabled |-> TRUE,
             capabilities |-> {"ACT_AS_SELF"}]
ByIdentity(n, rows) == {r \in rows : r.identity = n}
ByPrincipal(n, rows) == {r \in rows : r.principal = n}
(* sameExpectedPrincipal does not look at the identity; the lookups do.      *)
SameExpectedPrincipal(r, n) ==
  /\ r.principal = n /\ r.actor = n
  /\ r.enabled /\ r.capabilities = {"ACT_AS_SELF"}
AllSame(rows, n) == rows # {} /\ \A r \in rows : SameExpectedPrincipal(r, n)
Exact(n, rows) == Fixed(n) \in rows

ProvisioningAssumption ==
  /\ SPECS \in Seq({SPECS[i] : i \in DOMAIN SPECS}) /\ SPECS # <<>>
  /\ \A r \in Foreign :
       /\ r.enabled \in BOOLEAN
       /\ r = [principal |-> r.principal, identity |-> r.identity, actor |-> r.actor,
               enabled |-> r.enabled, capabilities |-> r.capabilities]
  /\ MaxChanges \in Nat /\ MaxRuns \in Nat

Idle == [pc |-> "idle", at |-> 1]
ProvisioningInit ==
  /\ principals \in {{}, {Fixed(SPECS[1])}}
  /\ operator = [o \in Operator |-> Idle]
  /\ changes = 0 /\ runs = [o \in Operator |-> 0]
  /\ steady = [o \in Operator |-> FALSE] /\ witnessed = [o \in Operator |-> {}] /\ reported = {}

---------------------------------------------------------------------------
(* Every change of the table is seen by the histories.                       *)
ExactIn(rows) == {n \in {SPECS[i] : i \in DOMAIN SPECS} : Exact(n, rows)}
Store(rows) ==
  /\ principals' = rows
  /\ steady' = [o \in Operator |-> steady[o] /\ SPECS[operator[o].at] \in ExactIn(rows)]
  /\ witnessed' = [o \in Operator |-> witnessed[o] \cup ExactIn(rows)]

(* External: an administrator's calls of the lifecycle authority.            *)
Clash(r, rows) ==
  \E q \in rows : q.principal = r.principal \/ q.identity = r.identity \/ q.actor = r.actor
Administer ==
  /\ changes < MaxChanges /\ changes' = changes + 1
  /\ \/ \E r \in Foreign : ~Clash(r, principals) /\ Store(principals \cup {r})
     \/ \E r \in principals :
          \/ Store((principals \ {r}) \cup {[r EXCEPT !.enabled = ~r.enabled]})
          \/ Store((principals \ {r}) \cup {[r EXCEPT !.capabilities = {"ACT_AS_SELF"} \ r.capabilities]})
  /\ UNCHANGED <<operator, runs, reported>>

---------------------------------------------------------------------------
Current(o) == SPECS[operator[o].at]
Goto(o, next) == operator' = [operator EXCEPT ![o] = next]
Come(o, i) ==
  /\ Goto(o, [pc |-> "resolve", at |-> i])
  /\ steady' = [steady EXCEPT ![o] = Exact(SPECS[i], principals)]
Reading == UNCHANGED <<principals, changes, runs, steady, witnessed, reported>>

Start(o) ==
  /\ operator[o].pc \in {"idle", "conflict", "crashed", "done"} /\ runs[o] < MaxRuns
  /\ runs' = [runs EXCEPT ![o] = @ + 1]
  /\ Come(o, 1)
  /\ witnessed' = [witnessed EXCEPT ![o] = ExactIn(principals)]
  /\ UNCHANGED <<principals, changes, reported>>
Crash(o) ==
  /\ operator[o].pc \in {"resolve", "get", "create", "created", "recheck"}
  /\ Goto(o, [pc |-> "crashed", at |-> 1])
  /\ Reading

ResolveExisting(o) ==
  /\ operator[o].pc = "resolve"
  /\ Goto(o, [pc |-> "get", at |-> operator[o].at, found |-> ByIdentity(Current(o), principals)])
  /\ Reading

(* A principal is reported; the next one follows.                            *)
Report(o, outcome) ==
  LET i == operator[o].at IN
  /\ reported' = reported \cup {[by |-> o, run |-> runs[o], name |-> Current(o), outcome |-> outcome]}
  /\ IF i < Len(SPECS) THEN Come(o, i + 1)
     ELSE Goto(o, [pc |-> "done", at |-> i]) /\ UNCHANGED steady
  /\ UNCHANGED <<principals, changes, runs, witnessed>>
Conflict(o) ==
  /\ Goto(o, [pc |-> "conflict", at |-> operator[o].at, after |-> operator[o].pc])
  /\ Reading

(* What both reads found is compared.                                        *)
GetExisting(o) ==
  LET n == Current(o)
      identity == operator[o].found
      principal == ByPrincipal(n, principals) IN
  /\ operator[o].pc = "get"
  /\ IF identity \cup principal = {} THEN Goto(o, [pc |-> "create", at |-> operator[o].at]) /\ Reading
     ELSE IF AllSame(identity, n) /\ AllSame(principal, n) THEN Report(o, "UNCHANGED")
     ELSE Conflict(o)

(* create: one transaction, then a read of what was created.                 *)
Create(o) ==
  LET n == Current(o) IN
  /\ operator[o].pc = "create"
  /\ IF Clash(Fixed(n), principals)
     THEN Goto(o, [pc |-> "recheck", at |-> operator[o].at, seen |-> [k \in {} |-> {}]]) /\ Reading
     ELSE /\ Goto(o, [pc |-> "created", at |-> operator[o].at])
          /\ Store(principals \cup {Fixed(n)})
          /\ UNCHANGED <<changes, runs, reported>>
ReadCreated(o) ==
  /\ operator[o].pc = "created"
  /\ IF AllSame(ByPrincipal(Current(o), principals), Current(o)) THEN Report(o, "CREATED") ELSE Conflict(o)

(* The race was lost: the two reads again, in either order.  Broken: a lost
   race is a conflict, whatever won it.                                      *)
RecheckNever(o) == operator[o].pc = "recheck" /\ Conflict(o)
Recheck(o) ==
  LET n == Current(o)
      seen == operator[o].seen
      read(k) == IF k = "identity" THEN ByIdentity(n, principals) ELSE ByPrincipal(n, principals) IN
  /\ operator[o].pc = "recheck"
  /\ IF DOMAIN seen = {"identity", "principal"}
     THEN IF \A k \in DOMAIN seen : AllSame(seen[k], n) THEN Report(o, "UNCHANGED") ELSE Conflict(o)
     ELSE /\ \E k \in {"identity", "principal"} \ DOMAIN seen :
               Goto(o, [pc |-> "recheck", at |-> operator[o].at,
                        seen |-> [j \in DOMAIN seen \cup {k} |-> IF j = k THEN read(k) ELSE seen[j]]])
          /\ Reading

ProvisioningNext ==
  \/ Administer
  \/ \E o \in Operator :
       \/ Start(o) \/ Crash(o) \/ ResolveExisting(o) \/ GetExisting(o)
       \/ Create(o) \/ ReadCreated(o) \/ Recheck(o)
ProvisioningSpec == ProvisioningInit /\ [][ProvisioningNext]_provisioningVars

---------------------------------------------------------------------------
ProvisioningTypeOK ==
  /\ \A o \in Operator : operator[o].at \in DOMAIN SPECS /\ runs[o] <= MaxRuns
  /\ \A p, q \in principals : p # q => ~Clash(p, {q})

(* What a run reports was so: the principal it names was mapped as the fixed
   contract says while the run went on, and one run at most created it.      *)
ReportsTrue ==
  /\ \A r \in reported : r.run = runs[r.by] => r.name \in witnessed[r.by]
  /\ \A q, r \in reported : q.outcome = "CREATED" /\ r.outcome = "CREATED" /\ q.name = r.name => q = r

(* An exact mapping is a successful no-op: a run refuses a principal only if
   it was not exact at some time since the run came to it.                   *)
ConflictExplained == \A o \in Operator : operator[o].pc = "conflict" => ~steady[o]

(* The creation that loses the race accepts the mapping that won it, unless
   an administrator came between.                                            *)
LostRaceAccepted ==
  \A o \in Operator : changes = 0 /\ operator[o].pc = "conflict" => operator[o].after = "get"

(* Two operators bootstrap the same principals, may crash, and others change *)
(* them: what an operator reports holds of the database, a conflict has a    *)
(* foreign record behind it, and who lost the race of creation accepts the   *)
(* exact mapping.                                                            *)
ProvisioningSound == ProvisioningTypeOK /\ ReportsTrue /\ ConflictExplained /\ LostRaceAccepted

(* What the code says of a lost race: another operator may have won it, and
   its exact mapping is accepted.  So operators alone never conflict.        *)
RacersAgree == changes = 0 => \A o \in Operator : operator[o].pc # "conflict"
=============================================================================
