----------------------------- MODULE MCExecution -----------------------------
(* Commands executed over PostgreSQL: cells of alice (payer) and bob (payee)  *)
(* with carol as the arbiter; the clock reads 1 or 3, the funding deadline is *)
(* 1, the completion deadline 2.  A scenario bounds what is sent, how often,  *)
(* and what the cells begin with.                                             *)
EXTENDS CommandRefinement, TLC

CONSTANTS alice, bob, carol, k1, k2, p, q, w1, w2
VARIABLE scenario
all == <<vars, scenario>>

MCTime == {1, 3}
MCAmount == {2}
Symmetry == Permutations({w1, w2})

Deal == [payer |-> alice, payee |-> bob, arbiter |-> carol, amount |-> 2,
         fundingDeadline |-> 1, completionDeadline |-> 2]
Agreed == <<CellCreated(Deal, TRUE, 1), SimpleEvent("CellAccepted", bob, 1)>>
Funded == Append(Agreed, CellFunded(alice, 2, 1))
Pending == Append(Funded, SimpleEvent("ReleaseRequested", alice, 1))
Disputed == Append(Pending, SimpleEvent("DisputeOpened", bob, 1))

Req(id, cell, type, by) == [id |-> id, cell |-> cell, command |-> [type |-> type, by |-> by]]
Fund(id, cell, tx) ==
  [id |-> id, cell |-> cell, tx |-> tx,
   command |-> [type |-> "FundCell", by |-> alice, amount |-> 2]]

(* Settlement race: the release alice asked for, a dispute, a refund after   *)
(* the deadline and an award compete for one funded cell; c3 is used twice *)
(* for different commands.                                                   *)
SettlementRequests ==
  {Req("c1", k1, "ApproveRelease", bob),
   Req("c2", k1, "OpenDispute", bob),
   Req("c3", k1, "ForceRefund", alice),
   [id |-> "c3", cell |-> k1,
    command |-> [type |-> "ResolveDispute", by |-> carol, favourOf |-> "payer"]]}

(* Funding race: two provider transactions, two cells.                       *)
FundingRequests ==
  {Fund("c1", k1, p), Fund("c2", k1, q), Fund("c3", k2, p)}

(* Retries: a funding and an expiry, aligned to the clock, sent repeatedly.   *)
RetryRequests == {Fund("c1", k1, p), Req("c2", k1, "ExpireCell", bob)}

MCSent ==
  [settlement |-> SettlementRequests, funding |-> FundingRequests, retries |-> RetryRequests]
MCRequests == UNION {MCSent[s] : s \in DOMAIN MCSent}
MCInitialRows == (k1 :> {Agreed, Pending, Disputed}) @@ (k2 :> {<<>>, Agreed})
Begins ==
  [settlement |-> {Pending, Disputed}, funding |-> {Agreed}, retries |-> {Agreed}]
MCSends == [settlement |-> 1, funding |-> 1, retries |-> 3]

SuiteInit ==
  /\ scenario \in DOMAIN MCSent /\ Init
  /\ rows[k1] \in Begins[scenario]
  /\ (rows[k2] = Agreed) = (scenario = "funding")
Bounded ==
  /\ \A r \in Requests : sent[r] # sent'[r] => r \in MCSent[scenario] /\ sent'[r] <= MCSends[scenario]
  /\ \A c \in Cell : rows[c] = <<>> => negative'[c] = NoNegative
  /\ UNCHANGED scenario
SuiteNext == Next /\ Bounded
SuiteSpec == SuiteInit /\ [][SuiteNext]_all
=============================================================================
