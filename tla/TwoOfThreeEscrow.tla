-------------------------- MODULE TwoOfThreeEscrow --------------------------
(***************************************************************************)
(* What a cell promises about money, without statuses, events or commands:  *)
(* a two-of-three escrow.  Money enters once, after the payee agreed to the *)
(* deal.  It leaves once: to the payee when both parties consent, to the    *)
(* payer when both parties consent, to either when a party called in the    *)
(* arbiter and the arbiter awards it, and back to the payer alone only      *)
(* after the deal's timelock and only while no arbiter is seised of it.     *)
(***************************************************************************)
EXTENDS Integers

CONSTANTS Actor, NoActor, Time

Deal == [payer : Actor, payee : Actor, arbiter : Actor \cup {NoActor}, timelock : Nat]
NoDeal == [payer |-> NoActor, payee |-> NoActor, arbiter |-> NoActor, timelock |-> 0]

VARIABLES
  deal,      \* the terms, once they exist
  agreed,    \* the payee has agreed to them
  holder,    \* who has the money: "payer", "escrow" or "payee"
  closed,    \* nothing can happen any more
  consent,   \* per destination, who asked that the money go there
  seised,    \* a party called in the arbiter
  paidAt     \* when the money left the escrow

vars == <<deal, agreed, holder, closed, consent, seised, paidAt>>

NotPaid == -1

TypeOK ==
  /\ deal \in Deal \cup {NoDeal}
  /\ {agreed, closed, seised} \subseteq BOOLEAN
  /\ holder \in {"payer", "escrow", "payee"}
  /\ consent \in [{"payer", "payee"} -> SUBSET Actor]
  /\ paidAt \in Time \cup {NotPaid}

Parties == {deal.payer, deal.payee}

(* A deal that predates acceptance counts as agreed. *)
Init ==
  /\ deal \in Deal \cup {NoDeal}
  /\ agreed = (deal # NoDeal)
  /\ holder = "payer"
  /\ ~closed
  /\ consent = [d \in {"payer", "payee"} |-> {}]
  /\ ~seised
  /\ paidAt = NotPaid

Strike ==
  /\ deal = NoDeal
  /\ deal' \in Deal
  /\ UNCHANGED <<agreed, holder, closed, consent, seised, paidAt>>

Agree ==
  /\ deal # NoDeal
  /\ ~closed
  /\ holder = "payer"
  /\ agreed' = TRUE
  /\ UNCHANGED <<deal, holder, closed, consent, seised, paidAt>>

Deposit ==
  /\ agreed
  /\ ~closed
  /\ holder = "payer"
  /\ holder' = "escrow"
  /\ UNCHANGED <<deal, agreed, closed, consent, seised, paidAt>>

Lapse ==
  /\ deal # NoDeal
  /\ ~closed
  /\ holder = "payer"
  /\ closed' = TRUE
  /\ UNCHANGED <<deal, agreed, holder, consent, seised, paidAt>>

Ask(destination, party) ==
  /\ holder = "escrow"
  /\ ~seised
  /\ party \in Parties
  /\ consent' = [consent EXCEPT ![destination] = @ \cup {party}]
  /\ UNCHANGED <<deal, agreed, holder, closed, seised, paidAt>>

CallArbiter(party) ==
  /\ holder = "escrow"
  /\ party \in Parties
  /\ deal.arbiter # NoActor
  /\ seised' = TRUE
  /\ UNCHANGED <<deal, agreed, holder, closed, consent, paidAt>>

Pay(destination, now) ==
  /\ holder = "escrow"
  /\ holder' = destination
  /\ closed' = TRUE
  /\ seised' = FALSE
  /\ paidAt' = now
  /\ UNCHANGED <<deal, agreed, consent>>

PayByConsent(destination, party, now) ==
  /\ ~seised
  /\ deal.payer # deal.payee
  /\ consent[destination] # {}
  /\ consent[destination] \cup {party} = Parties
  /\ Pay(destination, now)

PayByAward(destination, now) ==
  /\ seised
  /\ deal.arbiter \in Actor \ Parties
  /\ Pay(destination, now)

PayBack(now) ==
  /\ ~seised
  /\ now > deal.timelock
  /\ Pay("payer", now)

Next ==
  \/ Strike \/ Agree \/ Deposit \/ Lapse
  \/ \E party \in Actor : CallArbiter(party)
  \/ \E destination \in {"payer", "payee"}, party \in Actor : Ask(destination, party)
  \/ \E now \in Time :
       \/ \E destination \in {"payer", "payee"} :
            \/ \E party \in Actor : PayByConsent(destination, party, now)
            \/ PayByAward(destination, now)
       \/ PayBack(now)

Spec == Init /\ [][Next]_vars
=============================================================================
