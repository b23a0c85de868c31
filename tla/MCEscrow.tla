------------------------------ MODULE MCEscrow ------------------------------
(* One cell whose clock reads 0..3, with the funding deadline at 1 and the   *)
(* completion deadline at 2, so that every deadline is met early, on time    *)
(* and late.  The terms on offer are two good ones, with and without an      *)
(* arbiter, and one broken for every check of handleCreateCell.              *)
EXTENDS Escrow

CONSTANTS alice, bob, carol

MCTime == 0 .. 3
MCAmount == 0 .. 2

Good == [payer |-> alice, payee |-> bob, arbiter |-> carol, amount |-> 2,
         fundingDeadline |-> 1, completionDeadline |-> 2]
MCTerms ==
  {Good,
   [Good EXCEPT !.arbiter = NoActor],
   [Good EXCEPT !.amount = 0],
   [Good EXCEPT !.completionDeadline = 1],
   [Good EXCEPT !.payee = alice],
   [Good EXCEPT !.arbiter = alice]}
=============================================================================
