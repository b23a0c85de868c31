---------------------------- MODULE CommandIntake ----------------------------
(***************************************************************************)
(* What becomes of the body of one request: the transport decodes it        *)
(* (decodeRequest, decodeFundingRequest, decodePrototypeFundingRequest), the *)
(* application checks its shape (validateCommandShape) and sets its time     *)
(* (alignDeadlineCommandTime), the command is executed and its result is     *)
(* mapped to a status (mapResult).  A value of a body is one of the kinds    *)
(* the code tells apart, a payload is a function from every field name.      *)
(***************************************************************************)
EXTENDS Naturals, Functions, Optional

CONSTANTS
  Requests,   \* bodies that are sent
  ServerTime  \* what the clock of the server may read: each delivery reads it anew

(* Kinds of JSON strings by length and content; text is longer than an        *)
(* identity may be (128) and long is longer than any text may be (256).       *)
String == {"empty", "blank", "control", "name", "text", "long", "digits", "TRY", "payer"}
Number == {"negative", "fraction", "time"}
Value == {"absent", "null", "deep"} \cup String \cup Number

Who == [AcceptCell |-> "acceptedBy", RejectCell |-> "rejectedBy", FundCell |-> "funderId",
        RequestRelease |-> "requestedBy", ApproveRelease |-> "approvedBy",
        RequestRefund |-> "requestedBy", ApproveRefund |-> "approvedBy",
        ForceRefund |-> "requestedBy", ExpireCell |-> "triggeredBy",
        OpenDispute |-> "openedBy", ResolveDispute |-> "resolvedBy"]
CommandType == DOMAIN Who \cup {"CreateCell"}
ClockAligned == {"ExpireCell", "ForceRefund", "OpenDispute"}
ActorField == {"payer", "payee", "arbiter"} \cup Range(Who)
TimeField == {"fundingDeadline", "completionDeadline", "currentTime"}
Evidence == {"provider", "providerTransactionId", "intentId"}
Field == ActorField \cup TimeField \cup Evidence
           \cup {"amount", "currency", "description", "favourOf", "opaqueEvidence", "other"}

VARIABLES
  request,    \* the body: route, whether it is JSON, a key too many, the ids, type and payload
  stage,      \* raw, decoded, shaped, executed, done
  command,    \* what the body has become
  outcome,    \* the result of the application
  committed,  \* this delivery of the command changed the store
  recorded,   \* what the store holds for the command id: fingerprint and result
  status      \* the status of the answer
intakeVars == <<request, stage, command, outcome, committed, recorded, status>>

(* What is sent is a body of one of the routes, of a type the code knows or   *)
(* of another.                                                               *)
Body == [route : {"commands", "funding-confirmations", "prototype-funding"}, extra : BOOLEAN,
         commandId : Value, cellId : Value, type : CommandType \cup {"other"}, payload : [Field -> Value]]
IntakeAssumption ==
  /\ Requests \subseteq Body /\ ServerTime \cap (Value \cup {"epoch"}) = {}
  /\ None \notin CommandType /\ None \notin {"SUCCESS", "PERSISTENCE_FAILURE"}

NoCommand == [type |-> None]
NoOutcome == [outcome |-> None]
NoRecord == [fingerprint |-> NoCommand, result |-> NoOutcome]
Receives(r) ==
  /\ request = r
  /\ stage = "raw" /\ command = NoCommand /\ outcome = NoOutcome /\ committed = FALSE
  /\ recorded = NoRecord /\ status = None
IntakeInit == \E r \in Requests : Receives(r)
Refuse(code) ==
  stage' = "done" /\ status' = code /\ UNCHANGED <<request, command, outcome, committed, recorded>>
Goes(to, cmd) ==
  stage' = to /\ command' = cmd /\ UNCHANGED <<request, outcome, committed, recorded, status>>

---------------------------------------------------------------------------
(* The transport.                                                            *)
BoundedString(v, max) == v \in String \ (IF max = 128 THEN {"empty", "text", "long"} ELSE {"empty", "long"})
SafeTree(p) == \A f \in Field : p[f] \notin {"deep", "long"}
DecodeAmount(v) == v \in {"absent", "digits"}
DecodeTime(v) == v \in {"absent", "time"}
DecodeActor(v) == v = "absent" \/ BoundedString(v, 128)
Decodable(type, p) ==
  /\ DecodeAmount(p["amount"])
  /\ \A f \in TimeField : DecodeTime(p[f])
  /\ \A f \in ActorField : DecodeActor(p[f])
  /\ type = "CreateCell" => p["currency"] = "TRY"
DecodePayload(p) ==
  [f \in Field |-> IF f = "amount" /\ p[f] = "digits" THEN "bigint" ELSE p[f]]

Permitted(type) == type # "FundCell"
DecodeRequest ==
  /\ stage = "raw" /\ request.route = "commands"
  /\ IF \/ request.extra \/ ~BoundedString(request.commandId, 128) \/ ~BoundedString(request.cellId, 128)
        \/ request.type \notin CommandType
     THEN Refuse(400)
     ELSE IF ~Permitted(request.type) THEN Refuse(403)
     ELSE IF ~SafeTree(request.payload) \/ ~Decodable(request.type, request.payload) THEN Refuse(400)
     ELSE Goes("decoded", [type |-> request.type, payload |-> DecodePayload(request.payload)])
DecodeFundingRequest ==
  LET p == request.payload IN
  /\ stage = "raw" /\ request.route = "funding-confirmations"
  /\ IF \/ request.extra \/ ~BoundedString(request.commandId, 128) \/ ~BoundedString(request.cellId, 128)
        \/ p["other"] # "absent" \/ ~BoundedString(p["provider"], 128)
        \/ ~BoundedString(p["providerTransactionId"], 256) \/ ~BoundedString(p["intentId"], 128)
        \/ p["opaqueEvidence"] \in {"deep", "long"}
     THEN Refuse(400)
     ELSE Goes("verify", [type |-> "FundCell", payload |-> p])
DecodePrototypeFundingRequest ==
  /\ stage = "raw" /\ request.route = "prototype-funding"
  /\ IF request.extra \/ ~BoundedString(request.commandId, 128) \/ ~BoundedString(request.cellId, 128)
     THEN Refuse(400)
     ELSE Goes("verify", [type |-> "FundCell", payload |-> request.payload])

(* The ingress builds the command of a funding from what was verified.       *)
FundCommand ==
  /\ stage = "verify"
  /\ \/ Goes("decoded", [type |-> "FundCell",
               payload |-> [f \in Field |-> CASE f = "funderId" -> "name" [] f = "amount" -> "bigint"
                                              [] OTHER -> "absent"]])
     \/ Refuse(403)

---------------------------------------------------------------------------
(* The application.                                                          *)
ParseActorId(v) == v \in String \ {"empty"}
ParseCellDescription(v) == v \in String \ {"empty", "blank", "control", "long"}
ParseAmount(v) == v = "bigint"
ParseCurrency(v) == v = "TRY"
ParseTimestamp(v) == v = "time"
ParseOptionalTimestamp(v) == v = "absent" \/ ParseTimestamp(v)

Required(type) ==
  IF type = "CreateCell"
  THEN {"payer", "payee", "description", "amount", "currency", "fundingDeadline", "completionDeadline"}
  ELSE {Who[type]} \cup (CASE type = "FundCell" -> {"amount"} [] type = "ResolveDispute" -> {"favourOf"}
                           [] type \in ClockAligned -> {"currentTime"} [] OTHER -> {})
Takes(f, v) ==
  CASE f = "description" -> ParseCellDescription(v)
    [] f = "amount" -> ParseAmount(v)
    [] f = "currency" -> ParseCurrency(v)
    [] f = "currentTime" -> ParseOptionalTimestamp(v)
    [] f \in TimeField \ {"currentTime"} -> ParseTimestamp(v)
    [] f = "favourOf" -> v = "payer"
    [] OTHER -> ParseActorId(v)
Keeps(type, p) ==
  Required(type) \cup (IF type = "CreateCell" /\ p["arbiter"] # "absent" THEN {"arbiter"} ELSE {})
Valid(type, p) == \A f \in Keeps(type, p) : Takes(f, p[f])
ValidatePayload(type, p) ==
  [f \in Keeps(type, p) |-> IF p[f] = "absent" THEN "epoch" ELSE p[f]]

ValidateCommandShape ==
  /\ stage = "decoded"
  /\ IF Valid(command.type, command.payload)
     THEN Goes("shaped", [type |-> command.type, payload |-> ValidatePayload(command.type, command.payload)])
     ELSE Refuse(400)

AlignDeadlineCommandTime(cmd, now) ==
  IF cmd.type \in ClockAligned
  THEN [type |-> cmd.type, payload |-> [cmd.payload EXCEPT !["currentTime"] = now]] ELSE cmd

Success == [outcome |-> "SUCCESS", code |-> "SUCCESS"]
Conflict == [outcome |-> "APPLICATION_REJECTION", code |-> "IDEMPOTENCY_CONFLICT"]
Failure == [outcome |-> "PERSISTENCE_FAILURE", code |-> "PERSISTENCE_FAILURE"]
(* What is answered before the store is asked for the command id, and what the *)
(* execution of a command returns: the store keeps that, rejections included. *)
Unasked == [outcome : {"APPLICATION_REJECTION"},
            code : {"UNAUTHENTICATED", "INVALID_INPUT", "RATE_LIMITED", "RATE_LIMIT_UNAVAILABLE",
                    "FUNDING_DEPENDENCY_UNAVAILABLE", "CELL_NOT_FOUND", "FUNDING_NOT_FINAL", "COMMAND_NOT_PERMITTED"}]
Results == {Success, Failure}
  \cup [outcome : {"KERNEL_REJECTION"}, code : {"AUTHORIZATION_DENIED", "INVALID_TRANSITION"}]
  \cup [outcome : {"APPLICATION_REJECTION"}, code : {"FUNDING_RECEIPT_CONFLICT", "FUNDING_DISPUTE_BLOCKED"}]
Outcomes == Unasked \cup Results \cup {Conflict}
Fingerprint(cmd) == cmd

(* The store executes a command id once: its result is committed together      *)
(* with what it changed, or nothing is; a later delivery is answered from the  *)
(* record if its fingerprint is the recorded one.  The answer of the store may *)
(* be lost on either way, the one to the COMMIT included.                      *)
ExecuteOnce(cmd) ==
  /\ recorded = NoRecord
  /\ \E result \in Results :
       /\ recorded' = [fingerprint |-> Fingerprint(cmd), result |-> result]
       /\ committed' = (result = Success)
       /\ outcome' \in {result, Failure}
Replay(cmd) ==
  /\ recorded # NoRecord
  /\ outcome' = IF recorded.fingerprint = Fingerprint(cmd) THEN recorded.result ELSE Conflict
  /\ UNCHANGED <<committed, recorded>>
Fails == outcome' = Failure /\ UNCHANGED <<committed, recorded>>
Execute ==
  /\ stage = "shaped" /\ stage' = "executed" /\ UNCHANGED <<request, status>>
  /\ \/ outcome' \in Unasked /\ UNCHANGED <<command, committed, recorded>>
     \/ \E now \in ServerTime :
          LET cmd == AlignDeadlineCommandTime(command, now) IN
          command' = cmd /\ (ExecuteOnce(cmd) \/ Replay(cmd) \/ Fails)

(* Broken: every failure is a refusal.                                       *)
MapFailureForbidden(o) == CASE o.outcome = "SUCCESS" -> 200 [] OTHER -> 403
MapResult(o) ==
  CASE o.outcome = "SUCCESS" -> 200
    [] o.outcome = "KERNEL_REJECTION" -> IF o.code = "AUTHORIZATION_DENIED" THEN 403 ELSE 422
    [] o.code = "UNAUTHENTICATED" -> 401
    [] o.code \in {"IDEMPOTENCY_CONFLICT", "FUNDING_RECEIPT_CONFLICT", "FUNDING_DISPUTE_BLOCKED"} -> 409
    [] o.code = "RATE_LIMITED" -> 429
    [] o.code \in {"RATE_LIMIT_UNAVAILABLE", "FUNDING_DEPENDENCY_UNAVAILABLE"} -> 503
    [] o.code = "CELL_NOT_FOUND" -> 404
    [] o.code = "FUNDING_NOT_FINAL" -> 422
    [] o.code = "INVALID_INPUT" -> 400
    [] OTHER -> IF o.outcome = "PERSISTENCE_FAILURE" THEN 503 ELSE 403
Respond ==
  /\ stage = "executed"
  /\ stage' = "done" /\ status' = MapResult(outcome)
  /\ UNCHANGED <<request, command, outcome, committed, recorded>>

(* The client sends its command again after a 503, with other text around it. *)
Resend ==
  /\ stage = "done" /\ outcome = Failure
  /\ \E v \in {"absent", "name"} : request' = [request EXCEPT !.payload["other"] = v]
  /\ request.route = "commands"
  /\ stage' = "raw" /\ command' = NoCommand /\ outcome' = NoOutcome /\ status' = None
  /\ committed' = FALSE /\ UNCHANGED recorded

IntakeNext == DecodeRequest \/ DecodeFundingRequest \/ DecodePrototypeFundingRequest \/ FundCommand
          \/ ValidateCommandShape \/ Execute \/ Respond \/ Resend
IntakeSpec == IntakeInit /\ [][IntakeNext]_intakeVars

---------------------------------------------------------------------------
(* Every variable has its type.                                              *)
IntakeTypeOK ==
  /\ DOMAIN request.payload = Field
  /\ stage \in {"raw", "verify", "decoded", "shaped", "executed", "done"}
  /\ command = NoCommand \/ command.type \in CommandType
  /\ outcome \in Outcomes \cup {NoOutcome} /\ committed \in BOOLEAN
  /\ status \in {None, 200, 400, 401, 403, 404, 409, 422, 429, 503}

(* What was executed has exactly the fields of its type, and a time the       *)
(* server read where its rule has a deadline, whatever time the client wrote; *)
(* funding is never executed on the word of a client.                         *)
Trustworthy ==
  LET ran == recorded.fingerprint IN
  recorded # NoRecord =>
    /\ DOMAIN ran.payload \in {Required(ran.type), Required(ran.type) \cup {"arbiter"}}
    /\ ran.type \in {"ExpireCell", "ForceRefund", "OpenDispute"} => ran.payload["currentTime"] \in ServerTime
    /\ (ran.type = "FundCell") = (request.route # "commands")

(* What the two layers accept together, said once: a plain command whose      *)
(* fields are all in order is executed, any other is refused with 400, or     *)
(* with 403 if it is a funding whose envelope is good.                        *)
Identity == {"blank", "control", "name", "digits", "TRY", "payer"}
FieldGood(type, f, v) ==
  CASE f = "description" -> v \in (Identity \ {"blank", "control"}) \cup {"text"}
    [] f = "amount" -> v = "digits" \/ (v = "absent" /\ type # "CreateCell")
    [] f = "currency" -> v = "TRY" \/ type # "CreateCell"
    [] f \in TimeField -> v = "time" \/ (v = "absent" /\ (f = "currentTime" \/ type # "CreateCell"))
    [] f = "favourOf" -> v = "payer" \/ type # "ResolveDispute"
    [] f \in ActorField -> v \in Identity \/ (v = "absent" /\ (f = "arbiter" \/ f \notin Required(type)))
    [] OTHER -> TRUE
Enveloped(r) == ~r.extra /\ r.commandId \in Identity /\ r.cellId \in Identity /\ r.type \in CommandType
InOrder(r) ==
  /\ Enveloped(r) /\ r.type # "FundCell"
  /\ \A f \in Field : r.payload[f] \notin {"deep", "long"}
  /\ \A f \in Field : (f = "description" => r.type = "CreateCell") => FieldGood(r.type, f, r.payload[f])
LayersAgree ==
  request.route = "commands" /\ stage \in {"shaped", "executed", "done"} =>
    IF InOrder(request) THEN command # NoCommand /\ (stage = "done" => outcome # NoOutcome)
    ELSE /\ stage = "done" /\ outcome = NoOutcome
         /\ status = IF Enveloped(request) /\ request.type = "FundCell" THEN 403 ELSE 400

(* Once a command has a result, every delivery of it, whatever its client      *)
(* writes around its fields, is answered with that result, with a failure that *)
(* says nothing, or before the store is asked.  The exception: a command that  *)
(* carries the time of the server is another one once the clock has moved, and *)
(* its retry is refused as a conflict (what the run RetryReplays refutes).     *)
RetriesRecognised ==
  recorded # NoRecord /\ outcome # NoOutcome =>
    \/ outcome \in {recorded.result, Failure} \cup Unasked
    \/ /\ outcome = Conflict /\ command.type \in {"ExpireCell", "ForceRefund", "OpenDispute"}
       /\ command.payload["currentTime"] # recorded.fingerprint.payload["currentTime"]

(* An answer that says the request is refused says the truth: this delivery     *)
(* committed nothing.  Success is said of what is committed only.             *)
RefusalsCommitNothing ==
  stage = "done" => /\ status \in 400..499 => ~committed
                    /\ status = 200 => recorded.result = Success

(* Whatever body arrives, at any of the three routes, however often and at    *)
(* whatever time of the server: what is executed is well-formed and has the    *)
(* fields of its type, the layers that translate it agree, a retry gets the    *)
(* recorded result but for the exception above, and what is refused has        *)
(* changed nothing.                                                            *)
IntakeSound ==
  /\ IntakeTypeOK /\ Trustworthy /\ LayersAgree /\ RetriesRecognised /\ RefusalsCommitNothing
=============================================================================
