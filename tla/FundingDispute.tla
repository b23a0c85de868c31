--------------------------- MODULE FundingDispute ---------------------------
(***************************************************************************)
(* What blocks the settlement of one funded cell, and what lifts the block: *)
(* providers' dispute observations (PostgresFundingDisputeStore), negatives *)
(* and their dispositions (PostgresProviderFoundationStore), written by     *)
(* TrustedNegativeResolutionIngress.  Several resolutions and a settlement  *)
(* run at once.  Every transaction that matters locks the cell's receipt    *)
(* row, so each is one step, except the settlement, which holds the row     *)
(* from its check to its commit.                                            *)
(***************************************************************************)
EXTENDS Naturals, FiniteSets, FiniteSetsExt

CONSTANTS
  Resolver,      \* gateway principals, each with one request in flight
  ReceiptAmount, \* the amount of the cell's funding receipt
  Negatives,     \* negative observations providers may report
  Proofs,        \* what the evidence verifier may return
  Disputes,      \* dispute observations providers may report
  Time,
  MaxRequests,   \* bound: resolutions a resolver starts
  Funded         \* the receipt id negatives carry; another value: none

RequestsAssumption == MaxRequests \in Nat
EvidenceAssumption ==
  /\ \A o \in Disputes : o.version \in Nat
  /\ \A p \in Proofs : p.status \in {"PENDING", "RESOLVED", "CLOSED"}

VARIABLES
  reversals,     \* provider_negative_observations of the cell
  disputes,      \* its dispute observations
  dispositions,  \* provider_negative_dispositions
  capable,       \* principals that hold RESOLVE_FUNDING_NEGATIVE
  request,       \* per resolver, its request
  started,       \* per resolver, how many requests it started
  settlement,    \* "open", "checked" (the row is locked), "settled"
  recorded       \* history: proofs for which RECORDED was answered
disputeVars ==
  <<reversals, disputes, dispositions, capable, request, started, settlement, recorded>>

NoRequest == [pc |-> "idle"]
RowFree == settlement # "checked"
Series(n) == {d \in dispositions : d.negative = n}
LatestVersion(n) == Max({0} \cup {d.version : d \in Series(n)})

HasConsistentLifecycle(o) ==
  IF o.status \in {"OPEN", "UNDER_REVIEW"} THEN o.outcome = "PENDING"
  ELSE o.outcome \in {"FUNDS_RETAINED", "FUNDS_LOST"}
SameBinding(o, p) == o.binding = p.binding
IsBlocking(outcome) == outcome # "FUNDS_RETAINED"
LinkedToReceipt(o) == o.binding.amount <= ReceiptAmount

LatestObservation(d) ==
  CHOOSE o \in {p \in disputes : p.dispute = d} :
    \A p \in disputes : p.dispute = d => p.version <= o.version
Cleared(n) ==
  \E d \in Series(n) : /\ d.version = LatestVersion(n)
                       /\ d.status \in {"RESOLVED", "CLOSED"} /\ d.outcome = "FUNDS_RETAINED"
HasBlockingDispute ==
  \/ \E o \in disputes : IsBlocking(LatestObservation(o.dispute).outcome)
  \/ \E n \in reversals : ~Cleared(n)

RetainsWhole(n, outcome) == outcome = "FUNDS_RETAINED" => n.amount = ReceiptAmount

DisputeInit ==
  /\ reversals = {} /\ disputes = {} /\ dispositions = {} /\ recorded = {}
  /\ capable = Resolver
  /\ request = [r \in Resolver |-> NoRequest] /\ started = [r \in Resolver |-> 0]
  /\ settlement = "open"

(* Unique: observation id, (dispute, version) and (dispute, digest).  A      *)
(* repeated observation is a duplicate, any other clash a conflict: neither  *)
(* writes.  Broken: the receipt row is not locked.                           *)
Collides(o, p) ==
  \/ o.id = p.id
  \/ o.dispute = p.dispute /\ (o.version = p.version \/ o.digest = p.digest)
RecordDisputeUnlocked(o) ==
  /\ HasConsistentLifecycle(o) /\ LinkedToReceipt(o)
  /\ \A p \in disputes : (p.dispute = o.dispute => SameBinding(p, o)) /\ ~Collides(p, o)
  /\ disputes' = disputes \cup {o}
  /\ UNCHANGED <<reversals, dispositions, capable, request, started, settlement, recorded>>
RecordDispute(o) ==
  /\ RowFree
  /\ HasConsistentLifecycle(o) /\ LinkedToReceipt(o)
  /\ \A p \in disputes : (p.dispute = o.dispute => SameBinding(p, o)) /\ ~Collides(p, o)
  /\ disputes' = disputes \cup {o}
  /\ UNCHANGED <<reversals, dispositions, capable, request, started, settlement, recorded>>

AppendNegative(n) ==
  /\ RowFree
  /\ reversals' = reversals \cup {n}
  /\ UNCHANGED <<disputes, dispositions, capable, request, started, settlement, recorded>>

ValidProof(p, n) ==
  /\ p.negative = n /\ p.amount = ReceiptAmount
  /\ p.status # "PENDING" /\ p.outcome # "PENDING"
  /\ <<p.outcome, p.finalState>> \in {<<"FUNDS_RETAINED", "FUNDS_HELD">>,
                                      <<"FUNDS_LOST", "FUNDS_LOST">>}
SameNegativeReceipt(n) == n.receipt = Funded
(* Authenticate, resolve the principal, read source and receipt, verify. *)
Resolve(r, n, p) ==
  /\ request[r] = NoRequest /\ started[r] < MaxRequests
  /\ r \in capable
  /\ SameNegativeReceipt(n) /\ ValidProof(p, n)
  /\ request' = [request EXCEPT ![r] = [pc |-> "prior", negative |-> n, proof |-> p]]
  /\ started' = [started EXCEPT ![r] = @ + 1]
  /\ UNCHANGED <<reversals, disputes, dispositions, capable, settlement, recorded>>

(* The version is chosen from an unlocked read. *)
ListPrior(r) ==
  /\ request[r].pc = "prior"
  /\ \E now \in Time :
       request' = [request EXCEPT ![r] =
         [pc |-> "append", disposition |->
           [id |-> request[r].proof.digest, negative |-> request[r].negative,
            version |-> LatestVersion(request[r].negative) + 1,
            status |-> request[r].proof.status, outcome |-> request[r].proof.outcome,
            digest |-> request[r].proof.digest, recordedAt |-> now, resolver |-> r]]]
  /\ UNCHANGED <<reversals, disputes, dispositions, capable, started, settlement, recorded>>

(* Broken: written as the ingress computed it. *)
AppendableAsComputed(d) == d.resolver \in capable /\ RetainsWhole(d.negative, d.outcome)
Appendable(d) ==
  /\ \A e \in dispositions : e.id # d.id
  /\ \A e \in Series(d.negative) : e.digest # d.digest
  /\ d.version = LatestVersion(d.negative) + 1
  /\ d.status = "PENDING" <=> d.outcome = "PENDING"
  /\ RetainsWhole(d.negative, d.outcome)
  /\ d.resolver \in capable
(* The transaction; its answer reaches the resolver, or is lost. *)
AppendDisposition(r) ==
  LET d == request[r].disposition IN
  /\ request[r].pc = "append" /\ RowFree
  /\ request' = [request EXCEPT ![r] = NoRequest]
  /\ IF Appendable(d)
     THEN /\ dispositions' = dispositions \cup {d}
          /\ recorded' \in {recorded, recorded \cup {d.digest}}
     ELSE UNCHANGED <<dispositions, recorded>>
  /\ UNCHANGED <<reversals, disputes, capable, started, settlement>>

(* A statement fails or the replica dies before the commit. *)
InterruptResolution(r) ==
  /\ request[r] # NoRequest
  /\ request' = [request EXCEPT ![r] = NoRequest]
  /\ UNCHANGED <<reversals, disputes, dispositions, capable, started, settlement, recorded>>

(* ON DELETE RESTRICT: not while a disposition names the resolver. *)
RevokeCapability(r) ==
  /\ \A d \in dispositions : d.resolver # r
  /\ capable' = capable \ {r}
  /\ UNCHANGED <<reversals, disputes, dispositions, request, started, settlement, recorded>>

(* A settlement command: check under the row lock, then commit or roll back. *)
CheckSettlement ==
  /\ settlement = "open"
  /\ settlement' = IF HasBlockingDispute THEN "open" ELSE "checked"
  /\ UNCHANGED <<reversals, disputes, dispositions, capable, request, started, recorded>>
EndSettlement ==
  /\ settlement = "checked"
  /\ settlement' \in {"open", "settled"}
  /\ UNCHANGED <<reversals, disputes, dispositions, capable, request, started, recorded>>

DisputeNext ==
  \/ \E o \in Disputes : RecordDispute(o)
  \/ \E n \in Negatives : AppendNegative(n)
  \/ \E r \in Resolver :
       \/ \E n \in reversals, p \in Proofs : Resolve(r, n, p)
       \/ ListPrior(r) \/ AppendDisposition(r) \/ InterruptResolution(r) \/ RevokeCapability(r)
  \/ CheckSettlement \/ EndSettlement
DisputeSpec == DisputeInit /\ [][DisputeNext]_disputeVars

-----------------------------------------------------------------------------
DisputeTypeOK ==
  /\ reversals \subseteq Negatives /\ disputes \subseteq Disputes /\ capable \subseteq Resolver
  /\ \A r \in Resolver : request[r].pc \in {"idle", "prior", "append"} /\ started[r] <= MaxRequests
  /\ settlement \in {"open", "checked", "settled"}
  /\ \A d \in dispositions :
       /\ d.negative \in reversals /\ d.resolver \in Resolver
       /\ d.status \in {"RESOLVED", "CLOSED"} /\ d.outcome \in {"FUNDS_RETAINED", "FUNDS_LOST"}

(* Resolvers that chose the same version, retried after a lost answer, or    *)
(* sent each other's proof: the series of a negative stays 1, 2, 3, ... and  *)
(* a proof counts once; what was answered RECORDED is there.                 *)
SeriesIntact ==
  /\ \A n \in reversals : {d.version : d \in Series(n)} = 1 .. Cardinality(Series(n))
  /\ \A d, e \in dispositions : d.digest = e.digest => d = e
  /\ \A digest \in recorded : \E d \in dispositions : d.digest = digest

(* Nothing clears a negative but a proof, over the receipt it names, that    *)
(* the whole amount was retained; so one that names no receipt, as the       *)
(* reconciliation service writes them, blocks for ever.                      *)
BlockLiftedByProof ==
  \A n \in reversals : Cleared(n) =>
    /\ n.receipt = Funded /\ n.amount = ReceiptAmount
    /\ \E p \in Proofs, d \in Series(n) :
         p.negative = n /\ p.digest = d.digest /\ p.finalState = "FUNDS_HELD"

(* Whoever resolved a negative holds the capability to, then and ever after, *)
(* although it was checked long before and administrators revoke meanwhile.  *)
ResolversAccountable == \A d \in dispositions : d.resolver \in capable

(* What the evidence of negatives promises: rows of their types, a series    *)
(* without gap or fork, blocks lifted by proofs only, accountable resolvers. *)
ResolutionsSound ==
  DisputeTypeOK /\ SeriesIntact /\ BlockLiftedByProof /\ ResolversAccountable

(* The money is not settled while any provider's last word on a dispute, or  *)
(* a negative, says it may be lost, in whatever order observations arrive.   *)
SettlesUnblocked ==
  settlement' = "settled" /\ settlement # "settled" =>
    /\ \A o \in disputes' : o.outcome # "FUNDS_RETAINED" =>
         \E p \in disputes' : p.dispute = o.dispute /\ p.version > o.version
    /\ \A n \in reversals' : Cleared(n)
SettledUnblocked == [][SettlesUnblocked]_disputeVars
=============================================================================
