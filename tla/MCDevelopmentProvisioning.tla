--------------------- MODULE MCDevelopmentProvisioning ---------------------
(* The two principals of the bootstrap; foreign records take the identity,
   the principal id or the actor of the first.                               *)
EXTENDS DevelopmentProvisioning

MCSpecs == <<"payer", "payee">>
Row(p, i, a) == [principal |-> p, identity |-> i, actor |-> a, enabled |-> TRUE,
                 capabilities |-> {"ACT_AS_SELF"}]
MCForeign == {Row("x", "payer", "y"), Row("payer", "z", "payer"), Row("x", "z", "payer")}
=============================================================================
