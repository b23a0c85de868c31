--------------------------- MODULE TrustedIngress ---------------------------
(***************************************************************************)
(* The boundary between a credential and the application                    *)
(* (TrustedCommandIngress, with the entry checks of CellApplication).  A    *)
(* request is authenticated, its principal resolved, limited and admitted;  *)
(* a funding request is bound to the cell, its destination, its intent and  *)
(* what the provider verifies.  Every step is an await: the directory, the  *)
(* cells, the destinations and the intents may change in between.           *)
(* Execution itself, retries and receipts are CommandExecution's.           *)
(***************************************************************************)
EXTENDS Naturals, Optional

CONSTANTS
  Request, Cell,
  Sent,          \* per request: kind, identity, and what it asks for
  Terms,         \* per cell: payer, payee, amount, funding deadline
  Records,       \* principal records administrators may write, by identity
  Destination,
  Contexts,      \* what the provider may say it verified
  MaxTime, MaxChanges    \* bounds

IngressAssumption ==
  /\ MaxTime \in Nat /\ MaxChanges \in Nat
  /\ \A c \in Cell : Terms[c].deadline \in Nat
  /\ \A r \in Request :
       /\ Sent[r].identity \in DOMAIN Records
       /\ Sent[r].kind = "command" => Sent[r].command.cell \in Cell
       /\ Sent[r].kind = "provision" => Sent[r].draft.expires \in Nat
       /\ \A x \in Contexts : [request |-> r, context |-> x] # None
  /\ \A x \in Contexts : x.confirmedAt \in Nat

VARIABLES
  now,           \* the server's clock
  directory,     \* per identity, the record resolve returns
  status,        \* per cell: absent, CREATED or FUNDED
  destination,   \* per cell, what the destination resolver answers
  intents,       \* funding_intents
  changes,       \* bound: changes of directory and destinations
  request,       \* per request, where it stands
  seen,          \* history: records of its identity since a request began
  offered,       \* history: destinations of every cell since a request began
  executed,      \* history: commands the application executed
  funded,        \* history: per cell, the context it was funded on
  disclosed      \* history: cells shown, with the query
ingressVars == <<now, directory, status, destination, intents, changes, request, seen, offered,
          executed, funded, disclosed>>
world == <<now, directory, status, destination, intents, changes>>
history == <<seen, offered, executed, funded, disclosed>>

Identities == DOMAIN Records
NotBegun == [pc |-> "idle"]
IngressInit ==
  /\ now = 0 /\ changes = 0
  /\ directory \in [Identities -> UNION {Records[i] : i \in Identities}]
  /\ \A i \in Identities : directory[i] \in Records[i]
  /\ status = [c \in Cell |-> "absent"] /\ intents = {}
  /\ destination \in [Cell -> Destination \cup {None}]
  /\ request = [r \in Request |-> NotBegun]
  /\ seen = [r \in Request |-> {}] /\ offered = [r \in Request |-> {}]
  /\ executed = {} /\ disclosed = {} /\ funded = [c \in Cell |-> None]

---------------------------------------------------------------------------
(* The world around a request. *)
Began(r) == request[r] # NotBegun
Administer(i, record) ==
  /\ changes < MaxChanges /\ record # directory[i]
  /\ directory' = [directory EXCEPT ![i] = record] /\ changes' = changes + 1
  /\ seen' = [r \in Request |-> IF Began(r) /\ Sent[r].identity = i
                                THEN seen[r] \cup {record} ELSE seen[r]]
  /\ UNCHANGED <<now, status, destination, intents, request, offered, executed, funded, disclosed>>
Redirect(c, d) ==
  /\ changes < MaxChanges /\ d # destination[c]
  /\ destination' = [destination EXCEPT ![c] = d] /\ changes' = changes + 1
  /\ offered' = [r \in Request |-> IF Began(r) THEN offered[r] \cup {<<c, d>>} ELSE offered[r]]
  /\ UNCHANGED <<now, directory, status, intents, request, seen, executed, funded, disclosed>>
CreateCell(c) ==
  /\ status[c] = "absent"
  /\ status' = [status EXCEPT ![c] = "CREATED"]
  /\ UNCHANGED <<now, directory, destination, intents, changes, request, history>>
Tick ==
  /\ now < MaxTime
  /\ now' = now + 1
  /\ UNCHANGED <<directory, status, destination, intents, changes, request, history>>

---------------------------------------------------------------------------
Goto(r, next) == request' = [request EXCEPT ![r] = next]
Answer(r, outcome) == Goto(r, [pc |-> "answered", outcome |-> outcome])
Pure == UNCHANGED <<world, history>>

(* Authentication succeeds with the identity or fails. *)
Authenticate(r) ==
  /\ request[r] = NotBegun
  /\ \/ Goto(r, [pc |-> "resolve"])
     \/ Answer(r, "UNAUTHENTICATED")
  /\ seen' = [seen EXCEPT ![r] = {directory[Sent[r].identity]}]
  /\ offered' = [offered EXCEPT ![r] = {<<c, destination[c]>> : c \in Cell}]
  /\ UNCHANGED <<world, executed, funded, disclosed>>

IsGateway(p) == p.type = "GATEWAY" /\ "CONFIRM_FUNDING" \in p.capabilities
IsActor(p) == p.type = "ACTOR" /\ p.actor # None /\ "ACT_AS_SELF" \in p.capabilities

(* The checks of handle on the record.                                       *)
Mapped(p) == p # None /\ (p.type = "ACTOR" => p.actor # None)
ResolvePrincipal(r) ==
  LET p == directory[Sent[r].identity] IN
  /\ request[r].pc = "resolve" /\ Sent[r].kind = "command"
  /\ \/ Answer(r, "INTERNAL_ERROR")
     \/ p = None /\ Answer(r, "PRINCIPAL_NOT_MAPPED")
     \/ p # None /\ ~p.enabled /\ Answer(r, "PRINCIPAL_DISABLED")
     \/ p # None /\ p.enabled /\ ~Mapped(p) /\ Answer(r, "PRINCIPAL_NOT_MAPPED")
     \/ p # None /\ p.enabled /\ Mapped(p) /\ Goto(r, [pc |-> "limit", principal |-> p])
  /\ Pure

ConsumeRate(r) ==
  /\ request[r].pc = "limit"
  /\ \/ Goto(r, [request[r] EXCEPT !.pc = "admit"])
     \/ Answer(r, "RATE_LIMITED") \/ Answer(r, "RATE_LIMIT_UNAVAILABLE")
  /\ Pure

Admit(r) ==
  LET p == request[r].principal
      c == Sent[r].command IN
  /\ request[r].pc = "admit"
  /\ \/ Answer(r, "COMMAND_NOT_PERMITTED")
     \/ c.type # "FundCell" /\ Goto(r, [pc |-> "command", principal |-> p, command |-> c, context |-> None])
     \/ c.type = "FundCell" /\ IsGateway(p) /\ Goto(r, [pc |-> "cell", principal |-> p])
  /\ Pure

ReadCell(r) ==
  LET c == Sent[r].command.cell IN
  /\ request[r].pc = "cell"
  /\ \/ Answer(r, "FUNDING_DEPENDENCY_UNAVAILABLE")
     \/ status[c] = "absent" /\ Answer(r, "CELL_NOT_FOUND")
     \/ status[c] # "absent" /\ Goto(r, [pc |-> "destination", principal |-> request[r].principal])
  /\ Pure
ResolveDestination(r) ==
  LET d == destination[Sent[r].command.cell] IN
  /\ request[r].pc = "destination"
  /\ \/ Answer(r, "FUNDING_DEPENDENCY_UNAVAILABLE")
     \/ d = None /\ Answer(r, "FUNDING_EVIDENCE_INVALID")
     \/ d # None /\ Goto(r, [pc |-> "intent", principal |-> request[r].principal, destination |-> d])
  /\ Pure

(* The command is rebuilt from the cell; what the caller says is dropped.    *)
FundCommand(r) ==
  LET c == Sent[r].command.cell IN
  [type |-> "FundCell", cell |-> c, actor |-> Terms[c].payer, amount |-> Terms[c].amount]
AgreesOrSilent(said, value) == said \in {None, value}
MatchesIntent(intent, evidence, cell, d) ==
  /\ intent.provider = evidence.provider
  /\ AgreesOrSilent(evidence.scope, intent.scope)
  /\ intent.cell = cell /\ intent.payer = Terms[cell].payer /\ intent.payee = Terms[cell].payee
  /\ intent.amount = Terms[cell].amount /\ intent.destination = d
LookupIntent(r) ==
  LET evidence == Sent[r].evidence
      d == request[r].destination
      found == {i \in intents : /\ i.id = evidence.intent
                                /\ MatchesIntent(i, evidence, Sent[r].command.cell, d)} IN
  /\ request[r].pc = "intent"
  /\ \/ Answer(r, "FUNDING_DEPENDENCY_UNAVAILABLE")
     \/ found = {} /\ Answer(r, "FUNDING_EVIDENCE_INVALID")
     \/ \E i \in found :
          Goto(r, [pc |-> "verify", principal |-> request[r].principal, destination |-> d, intent |-> i])
  /\ Pure

(* matchesExpectedBinding.  Broken: the destination is not compared.         *)
MatchesAnyDestination(context, r) ==
  LET i == request[r].intent IN
  /\ context.intent = i.id /\ context.provider = Sent[r].evidence.provider
  /\ AgreesOrSilent(Sent[r].evidence.scope, i.scope) /\ context.scope = i.scope
  /\ context.transaction = Sent[r].evidence.transaction
  /\ context.gateway = request[r].principal.principal
  /\ context.cell = i.cell /\ context.payer = i.payer /\ context.payee = i.payee
  /\ context.amount = i.amount /\ context.finality = "FUNDS_HELD"
MatchesExpectedBinding(context, r) ==
  LET i == request[r].intent IN
  /\ context.intent = i.id /\ context.provider = Sent[r].evidence.provider
  /\ AgreesOrSilent(Sent[r].evidence.scope, i.scope) /\ context.scope = i.scope
  /\ context.transaction = Sent[r].evidence.transaction
  /\ context.gateway = request[r].principal.principal
  /\ context.cell = i.cell /\ context.payer = i.payer /\ context.payee = i.payee
  /\ context.amount = i.amount /\ context.destination = request[r].destination
  /\ context.finality = "FUNDS_HELD"
InWindow(context, intent) ==
  intent.createdAt <= context.confirmedAt /\ context.confirmedAt <= intent.expires
Verify(r) ==
  /\ request[r].pc = "verify"
  /\ \/ \E outcome \in {"FUNDING_DEPENDENCY_UNAVAILABLE", "FUNDING_NOT_FINAL", "FUNDING_EVIDENCE_INVALID"} :
          Answer(r, outcome)
     \/ \E context \in Contexts :
          /\ MatchesExpectedBinding(context, r) /\ InWindow(context, request[r].intent)
          /\ Goto(r, [pc |-> "command", principal |-> request[r].principal,
                      command |-> FundCommand(r), context |-> context])
  /\ Pure

(* CellApplication's own checks.  Broken: the caller need not be the actor.  *)
AuthorizeAnyActor(p, c, context) ==
  \/ c.type # "FundCell" /\ IsActor(p)
  \/ c.type = "FundCell" /\ IsGateway(p) /\ context # None
CallerMatchesCommand(p, c) == p.actor = c.actor
AuthorizePrincipal(p, c, context) ==
  \/ c.type # "FundCell" /\ IsActor(p) /\ CallerMatchesCommand(p, c)
  \/ /\ c.type = "FundCell" /\ IsGateway(p) /\ context # None
     /\ context.gateway = p.principal /\ context.cell = c.cell
     /\ context.payer = c.actor /\ context.amount = c.amount
HandleCommand(r) ==
  LET q == request[r]
      c == q.command
      fits == c.type # "FundCell" \/ status[c.cell] = "CREATED" IN
  /\ q.pc = "command"
  /\ \/ Answer(r, "REJECTED") /\ UNCHANGED <<status, executed, funded>>
     \/ /\ AuthorizePrincipal(q.principal, c, q.context) /\ fits
        /\ Answer(r, "SUCCESS")
        /\ executed' = executed \cup {[request |-> r, command |-> c]}
        /\ IF c.type = "FundCell"
           THEN /\ status' = [status EXCEPT ![c.cell] = "FUNDED"]
                /\ funded' = [funded EXCEPT ![c.cell] = [request |-> r, context |-> q.context]]
           ELSE UNCHANGED <<status, funded>>
  /\ UNCHANGED <<now, directory, destination, intents, changes, seen, offered, disclosed>>

---------------------------------------------------------------------------
(* resolveFundingPrincipal, then createFundingIntent: a read and an insert.  *)
ResolveFundingPrincipal(r) ==
  LET p == directory[Sent[r].identity] IN
  /\ request[r].pc \in {"resolve", "gateway"}
  /\ Sent[r].kind = "provision" \/ request[r].pc = "gateway"
  /\ \/ Answer(r, "INVALID")
     \/ /\ p # None /\ p.enabled /\ IsGateway(p)
        /\ Goto(r, [pc |-> IF Sent[r].kind = "provision" THEN "provision" ELSE "read", principal |-> p])
  /\ Pure
Draft(r) ==
  LET d == Sent[r].draft IN
  [id |-> d.id, provider |-> d.provider, scope |-> d.scope, cell |-> d.cell,
   payer |-> Terms[d.cell].payer, payee |-> Terms[d.cell].payee, amount |-> Terms[d.cell].amount,
   destination |-> d.destination, createdAt |-> now, expires |-> d.expires]
Open(r) ==
  /\ status[Sent[r].draft.cell] = "CREATED"
  /\ Sent[r].draft.expires > now
  /\ Sent[r].draft.expires <= Terms[Sent[r].draft.cell].deadline
CreateFundingIntent(r) ==
  /\ request[r].pc = "provision"
  /\ IF Open(r) THEN Goto(r, [pc |-> "insert", draft |-> Draft(r)]) ELSE Answer(r, "INVALID")
  /\ Pure
InsertIntent(r) ==
  LET i == request[r].draft IN
  /\ request[r].pc = "insert"
  /\ IF \E other \in intents : other.id = i.id
     THEN Answer(r, IF i \in intents THEN "DUPLICATE" ELSE "CONFLICT") /\ UNCHANGED intents
     ELSE Answer(r, "CREATED") /\ intents' = intents \cup {i}
  /\ UNCHANGED <<now, directory, status, destination, changes, history>>

(* Queries: an actor first, then, for receipts, a gateway.                   *)
ResolveActorPrincipal(r) ==
  LET p == directory[Sent[r].identity]
      otherwise == IF Sent[r].kind = "receipt" THEN Goto(r, [pc |-> "gateway"])
                   ELSE Answer(r, "FORBIDDEN") IN
  /\ request[r].pc = "resolve" /\ Sent[r].kind \in {"receipt", "state", "list"}
  /\ \/ otherwise
     \/ p # None /\ p.enabled /\ IsActor(p) /\ Goto(r, [pc |-> "read", principal |-> p])
  /\ Pure
Party(p, c) == p.actor \in {Terms[c].payer, Terms[c].payee}
ListCells(p) == {c \in Cell : status[c] # "absent" /\ Party(p, c)}
GetCellState(p, c) == {c} \cap ListCells(p)
GetFundingReceipt(p, c) ==
  IF p.type = "GATEWAY" THEN {c} \ {d \in Cell : status[d] = "absent"} ELSE {c} \cap ListCells(p)
Shows(r) ==
  LET p == request[r].principal IN
  CASE Sent[r].kind = "list" -> ListCells(p)
    [] Sent[r].kind = "state" -> GetCellState(p, Sent[r].cell)
    [] OTHER -> GetFundingReceipt(p, Sent[r].cell)
Read(r) ==
  /\ request[r].pc = "read"
  /\ \/ Answer(r, "UNAVAILABLE") /\ UNCHANGED disclosed
     \/ Answer(r, "SUCCESS") /\ disclosed' = disclosed \cup ({r} \X Shows(r))
  /\ UNCHANGED <<world, seen, offered, executed, funded>>

IngressNext ==
  \/ Tick
  \/ \E i \in Identities : \E record \in Records[i] : Administer(i, record)
  \/ \E c \in Cell : CreateCell(c) \/ \E d \in Destination \cup {None} : Redirect(c, d)
  \/ \E r \in Request :
       \/ Authenticate(r) \/ ResolvePrincipal(r) \/ ConsumeRate(r) \/ Admit(r)
       \/ ReadCell(r) \/ ResolveDestination(r) \/ LookupIntent(r) \/ Verify(r) \/ HandleCommand(r)
       \/ ResolveFundingPrincipal(r) \/ CreateFundingIntent(r) \/ InsertIntent(r)
       \/ ResolveActorPrincipal(r) \/ Read(r)
IngressSpec == IngressInit /\ [][IngressNext]_ingressVars

---------------------------------------------------------------------------
(* Ids of intents are unique; a cell is funded exactly when it has a context.*)
IngressTypeOK ==
  /\ now \in 0..MaxTime /\ changes \in 0..MaxChanges
  /\ \A i, j \in intents : i.id = j.id => i = j
  /\ \A c \in Cell : status[c] \in {"absent", "CREATED", "FUNDED"}
                     /\ (status[c] = "FUNDED" <=> funded[c] # None)

(* No one acts for another, and a revocation stops what begins after it: a   *)
(* command was executed only for a request whose identity, at some moment    *)
(* since the request began, had an enabled principal of the very actor who   *)
(* acts, with the actor's capability, or of a gateway that may fund.         *)
ActsForItself ==
  \A e \in executed : \E p \in seen[e.request] :
    /\ p # None /\ p.enabled
    /\ IF e.command.type = "FundCell"
       THEN p.type = "GATEWAY" /\ "CONFIRM_FUNDING" \in p.capabilities
       ELSE p.type = "ACTOR" /\ p.actor = e.command.actor /\ "ACT_AS_SELF" \in p.capabilities

(* A cell is funded with the terms its parties agreed on, whatever the       *)
(* caller wrote: funds of the cell's payer, for its amount, held for its     *)
(* payee at a destination the cell had while the request ran, on an intent   *)
(* that existed when the provider confirmed, before the funding deadline.    *)
FundedAsAgreed ==
  /\ IngressTypeOK
  /\ \A c \in Cell : funded[c] # None =>
       LET x == funded[c].context IN
       /\ x.cell = c /\ x.payer = Terms[c].payer /\ x.payee = Terms[c].payee
       /\ x.amount = Terms[c].amount /\ x.finality = "FUNDS_HELD"
       /\ <<c, x.destination>> \in offered[funded[c].request]
       /\ \E i \in intents :
            /\ i.id = x.intent /\ i.cell = c /\ i.scope = x.scope
            /\ i.createdAt <= x.confirmedAt /\ x.confirmedAt <= Terms[c].deadline
       /\ \E e \in executed :
            /\ e.request = funded[c].request
            /\ e.command.amount = Terms[c].amount /\ e.command.actor = Terms[c].payer

(* Only a party of the cell or a gateway is shown a receipt, and only a      *)
(* party the cell, judged by a principal it had since the request began.     *)
OnlyPartiesRead ==
  \A d \in disclosed : \E p \in seen[d[1]] :
    /\ p # None /\ p.enabled
    /\ \/ p.type = "ACTOR" /\ p.actor \in {Terms[d[2]].payer, Terms[d[2]].payee}
       \/ Sent[d[1]].kind = "receipt" /\ p.type = "GATEWAY" /\ "CONFIRM_FUNDING" \in p.capabilities

(* While administrators revoke, disable and remap: a command is executed and *)
(* a cell or receipt shown only for an identity that had, at some moment     *)
(* since the request began, the very actor or gateway the rule asks for.     *)
PartiesOnly == ActsForItself /\ OnlyPartiesRead
=============================================================================
