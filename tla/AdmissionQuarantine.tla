------------------------ MODULE AdmissionQuarantine ------------------------
(***************************************************************************)
(* Durable quarantines and the admission of commands under them             *)
(* (TrustedAdmissionQuarantineLifecycle, PostgresAdmissionQuarantineStore,  *)
(* QuarantineAdmissionPolicy, AdaptiveAdmissionController).  Operators      *)
(* issue and release quarantines, commands of other requests are looked     *)
(* up, each with the clock of the replica it runs on, which is at most Skew *)
(* ahead of real time.  Both tables are append-only.                        *)
(***************************************************************************)
EXTENDS Naturals, Optional

CONSTANTS
  Caller,       \* requests of the lifecycle at work
  Operator,     \* those whose principal may manage quarantines
  Command,      \* command requests at work
  Registered,    \* principals with a row in table principals
  Requests,     \* what callers may ask for
  Candidates,   \* what a candidate policy may decide
  Mode,         \* ENFORCE and SHADOW deployments
  MaxTtl,       \* MAX_QUARANTINE_TTL_MS
  Skew,         \* how far ahead a replica's clock may be
  MaxRealTime,  \* bound on real time
  MaxCalls      \* bound on the lifecycle calls

(* The rows of the two tables. *)
Quarantine ==
  [principal : Registered, issuedAt : Nat, expires : Nat, by : Operator,
   correlation : {q.correlation : q \in Requests}]
QuarantineRelease == [at : Nat, by : Operator, correlation : {q.correlation : q \in Requests}]

QuarantineAssumption ==
  /\ MaxTtl \in Nat \ {0} /\ Skew \in Nat /\ MaxRealTime \in Nat /\ MaxCalls \in Nat
  /\ \A q \in Requests : /\ q.operation \in {"issue", "release"}
                        /\ q.operation = "issue" => q.expires \in Nat
  /\ None \notin Quarantine /\ None \notin QuarantineRelease
  /\ None \notin {"FORBIDDEN", "INVALID"}

VARIABLES
  mode,      \* ENFORCE or SHADOW
  skew,      \* per caller and command, how far its clock is ahead
  time,      \* real time
  issued,    \* admission_quarantines, by id
  released,  \* admission_quarantine_releases, by id
  call,      \* per caller, the call it is in
  calls,     \* bound: lifecycle calls started
  command,   \* per command, where its admission stands
  answers    \* history: the answers of issuing and releasing calls
quarantineVars == <<mode, skew, time, issued, released, call, calls, command, answers>>

Clock(x) == time + skew[x]
NotCalled == [pc |-> "idle"]
Ids == DOMAIN issued

QuarantineInit ==
  /\ mode \in Mode /\ skew \in [Caller \cup Command -> 0..Skew]
  /\ time = 0 /\ calls = 0 /\ answers = {}
  /\ issued = [q \in {r.id : r \in Requests} |-> None]
  /\ released = [q \in {r.id : r \in Requests} |-> None]
  /\ call = [c \in Caller |-> NotCalled] /\ command = [k \in Command |-> NotCalled]

TimePasses ==
  /\ time < MaxRealTime
  /\ time' = time + 1
  /\ UNCHANGED <<mode, skew, issued, released, call, calls, command, answers>>

---------------------------------------------------------------------------
(* A call reads its clock, then the store is asked. *)
Tell(c, q, outcome) ==
  answers' = IF outcome \in {"ISSUED", "DUPLICATE", "CONFLICT"}
             THEN answers \cup {[caller |-> c, request |-> q, outcome |-> outcome, call |-> calls]}
             ELSE answers
ValidQuarantine(q, issuedAt) == q.expires > issuedAt /\ q.expires - issuedAt <= MaxTtl

Refused(c, q) ==
  IF c \notin Operator THEN "FORBIDDEN"
  ELSE IF q.operation = "issue" /\ ~ValidQuarantine(q, Clock(c)) THEN "INVALID"
  ELSE None
Call(c, q) ==
  /\ call[c] = NotCalled /\ calls < MaxCalls
  /\ calls' = calls + 1
  /\ IF Refused(c, q) = None
     THEN /\ call' = [call EXCEPT ![c] = [pc |-> "ask", request |-> q, at |-> Clock(c)]]
          /\ UNCHANGED answers
     ELSE Tell(c, q, Refused(c, q)) /\ UNCHANGED call
  /\ UNCHANGED <<mode, skew, time, issued, released, command>>

IssueRow(c, q) == [principal |-> q.principal, issuedAt |-> call[c].at, expires |-> q.expires,
                   by |-> c, correlation |-> q.correlation]
SameQuarantineIntent(row, c, q) ==
  /\ row # None
  /\ row.principal = q.principal /\ row.expires = q.expires
  /\ row.by = c /\ row.correlation = q.correlation
ReleaseRow(c, q) == [at |-> call[c].at, by |-> c, correlation |-> q.correlation]
SameReleaseIntent(row, c, q) == row # None /\ row.by = c /\ row.correlation = q.correlation

(* The keys of a table.  The answer of a statement may be lost.              *)
Fresh(rows, q) ==
  \A id \in Ids : rows[id] # None => id # q.id /\ rows[id].correlation # q.correlation
Finish(c, outcome) ==
  /\ \E told \in {outcome, "UNAVAILABLE"} : Tell(c, call[c].request, told)
  /\ call' = [call EXCEPT ![c] = NotCalled]

(* issue.                                                                    *)
Issue(c) ==
  LET q == call[c].request IN
  /\ call[c].pc = "ask" /\ q.operation = "issue"
  /\ IF q.principal \in Registered /\ Fresh(issued, q)
     THEN issued' = [issued EXCEPT ![q.id] = IssueRow(c, q)] /\ Finish(c, "ISSUED")
     ELSE /\ Finish(c, IF SameQuarantineIntent(issued[q.id], c, q) THEN "DUPLICATE" ELSE "CONFLICT")
          /\ UNCHANGED issued
  /\ UNCHANGED <<mode, skew, time, released, calls, command>>

(* release, first the issuance, then the row.                                *)
FindIssued(c) ==
  LET q == call[c].request
      row == issued[q.id] IN
  /\ call[c].pc = "ask" /\ q.operation = "release"
  /\ IF row = None THEN Finish(c, "NOT_FOUND")
     ELSE IF call[c].at < row.issuedAt THEN Finish(c, "INVALID")
     ELSE call' = [call EXCEPT ![c].pc = "release"] /\ UNCHANGED answers
  /\ UNCHANGED <<mode, skew, time, issued, released, calls, command>>
Release(c) ==
  LET q == call[c].request IN
  /\ call[c].pc = "release"
  /\ IF Fresh(released, q)
     THEN released' = [released EXCEPT ![q.id] = ReleaseRow(c, q)] /\ Finish(c, "RELEASED")
     ELSE /\ Finish(c, IF SameReleaseIntent(released[q.id], c, q) THEN "DUPLICATE" ELSE "CONFLICT")
          /\ UNCHANGED released
  /\ UNCHANGED <<mode, skew, time, issued, calls, command>>

(* A dependency fails and nothing is written.                                *)
Unavailable(c) ==
  /\ call[c] # NotCalled
  /\ Finish(c, "UNAVAILABLE")
  /\ UNCHANGED <<mode, skew, time, issued, released, calls, command>>

---------------------------------------------------------------------------
(* The admission of a command: a candidate policy decides, or the registry.  *)
Allow == [disposition |-> "ALLOW", reason |-> "BASELINE_ALLOW"]
Quarantined == [disposition |-> "QUARANTINE", reason |-> "PRINCIPAL_QUARANTINED"]
Failure == [disposition |-> "DENY", reason |-> "ADMISSION_POLICY_FAILURE"]
ReasonOf == [ALLOW |-> "BASELINE_ALLOW", LIMIT |-> "RISK_LIMIT",
             CHALLENGE |-> "ADDITIONAL_PROOF_REQUIRED", QUARANTINE |-> "PRINCIPAL_QUARANTINED",
             DENY |-> "POLICY_DENY"]
RetryAfter(d) == IF "retryAfter" \in DOMAIN d THEN d.retryAfter ELSE 0
ValidDecision(d) ==
  /\ d.disposition \in DOMAIN ReasonOf /\ d.reason = ReasonOf[d.disposition]
  /\ RetryAfter(d) \in IF d.disposition = "LIMIT" THEN 1..86400 ELSE {0}
Observed(d) ==
  IF d = Failure \/ ValidDecision(d) THEN d
  ELSE [disposition |-> "DENY", reason |-> "INVALID_ADMISSION_DECISION"]
Effective(d) == IF mode = "SHADOW" \/ d.disposition = "ALLOW" THEN "ALLOW" ELSE "REJECT"

ActiveFromNext(p, at) ==
  {q \in Ids : /\ issued[q] # None /\ released[q] = None
               /\ issued[q].principal = p /\ issued[q].issuedAt < at /\ issued[q].expires > at}
Active(p, at) ==
  {q \in Ids : /\ issued[q] # None /\ released[q] = None
               /\ issued[q].principal = p /\ issued[q].issuedAt <= at /\ issued[q].expires > at}

Started(k, p) ==
  [principal |-> p, at |-> Clock(k), began |-> time,
   issuedBefore |-> {q \in Ids : issued[q] # None},
   releasedBefore |-> {q \in Ids : released[q] # None}]
ReadClock(k, p) ==
  /\ command[k] = NotCalled
  /\ command' = [command EXCEPT ![k] = [pc |-> "find", lookup |-> Started(k, p)]]
  /\ UNCHANGED <<mode, skew, time, issued, released, call, calls, answers>>
Decide(k, d) ==
  command' = [command EXCEPT ![k] =
    [pc |-> "decided", lookup |-> @.lookup, observed |-> Observed(d),
     effective |-> Effective(Observed(d)),
     releasedBy |-> {q \in Ids : released[q] # None}]]
FindActive(k) ==
  LET l == command[k].lookup IN
  /\ command[k].pc = "find"
  /\ Decide(k, IF Active(l.principal, l.at) = {} THEN Allow ELSE Quarantined)
  /\ UNCHANGED <<mode, skew, time, issued, released, call, calls, answers>>
LookupFails(k) ==
  /\ command[k].pc = "find"
  /\ Decide(k, Failure)
  /\ UNCHANGED <<mode, skew, time, issued, released, call, calls, answers>>
(* A deployment with a candidate policy in place of the registry.            *)
Candidate(k, p, d) ==
  /\ command[k] = NotCalled
  /\ command' = [command EXCEPT ![k] =
       [pc |-> "candidate", principal |-> p, candidate |-> d, observed |-> Observed(d),
        effective |-> Effective(Observed(d))]]
  /\ UNCHANGED <<mode, skew, time, issued, released, call, calls, answers>>

QuarantineNext ==
  \/ TimePasses
  \/ \E c \in Caller : \/ \E q \in Requests : Call(c, q)
                       \/ Issue(c) \/ FindIssued(c) \/ Release(c) \/ Unavailable(c)
  \/ \E k \in Command : \/ \E p \in Registered : \/ ReadClock(k, p)
                                                \/ \E d \in Candidates : Candidate(k, p, d)
                        \/ FindActive(k) \/ LookupFails(k)
QuarantineSpec == QuarantineInit /\ [][QuarantineNext]_quarantineVars

---------------------------------------------------------------------------
(* Quarantines keep the bounds of the table, and a release its issuance.     *)
QuarantineTypeOK ==
  /\ time \in 0..MaxRealTime /\ calls \in 0..MaxCalls /\ mode \in Mode
  /\ \A q \in Ids :
       /\ issued[q] # None => /\ issued[q].principal \in Registered
                              /\ issued[q].expires \in issued[q].issuedAt + 1 .. issued[q].issuedAt + MaxTtl
                              /\ issued[q].by \in Operator
       /\ released[q] # None => issued[q] # None /\ released[q].at >= issued[q].issuedAt

(* A quarantine holds on every replica: where the policy is enforced, no     *)
(* command of the principal is let through by a lookup that began after the  *)
(* row was written, unless it was released in between, its time is over, or  *)
(* the lookup falls into the first or the last Skew of it.                   *)
QuarantineEnforced ==
  \A k \in Command :
    command[k].pc = "decided" /\ command[k].effective = "ALLOW" /\ mode = "ENFORCE" =>
      LET l == command[k].lookup IN
      \A q \in l.issuedBefore :
        \/ issued[q].principal # l.principal
        \/ q \in command[k].releasedBy
        \/ issued[q].issuedAt > l.began
        \/ issued[q].expires <= l.began + Skew

(* A quarantine ends by itself: a command is turned away as quarantined only *)
(* while some issuance of its principal runs that was not released before    *)
(* the lookup, at most MaxTtl after it was issued.                           *)
QuarantineEnds ==
  \A k \in Command :
    command[k].pc = "decided" /\ command[k].observed = Quarantined =>
      LET l == command[k].lookup IN
      \E q \in Ids \ l.releasedBefore :
        /\ issued[q] # None /\ issued[q].principal = l.principal
        /\ l.began < issued[q].expires
        /\ l.began < issued[q].issuedAt + MaxTtl

(* Retries are answered by what is stored: an operator told ISSUED or        *)
(* DUPLICATE has its very quarantine on record, only one call is told        *)
(* ISSUED, and no call whose own row is on record is told of a conflict.     *)
RetriesAgree ==
  /\ \A a \in answers : a.request.operation = "issue" =>
       /\ a.outcome \in {"ISSUED", "DUPLICATE"} =>
            SameQuarantineIntent(issued[a.request.id], a.caller, a.request)
       /\ a.outcome = "CONFLICT" => ~SameQuarantineIntent(issued[a.request.id], a.caller, a.request)
  /\ \A a, b \in answers :
       a.outcome = "ISSUED" /\ b.outcome = "ISSUED" /\ a.request.id = b.request.id => a = b

(* On replicas whose clocks differ a quarantine holds from its row to its    *)
(* end or release, ends by itself, and retried requests are answered by the  *)
(* row that is stored.                                                       *)
QuarantineHolds == QuarantineTypeOK /\ QuarantineEnforced /\ QuarantineEnds /\ RetriesAgree
=============================================================================
