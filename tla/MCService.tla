----------------------------- MODULE MCService ------------------------------
(* The serving process around the application: its start, its shutdown and   *)
(* the slots of its requests, the migration of its database, its readiness   *)
(* and its alerts.  In each scenario one of the four runs and the others     *)
(* stay where they began.                                                    *)
EXTENDS Runtime, SchemaMigration, SecurityAlerts, Readiness, TLC

CONSTANTS req1, req2, req3, ask1, ask2, q1, q2, q3

VARIABLE scenario \* which of the scenarios below the behaviour is of
vars == <<scenario, processVars, migrationVars, alertVars, readinessVars>>

(* Migration: databases of every age, with rows of their time.               *)
Paid(id, c) ==
  [id |-> id, cell |-> c, provider |-> "bank", intent |-> None, payee |-> None, finality |-> "SETTLED",
   scope |-> None]
Linked(id, c, i) == [Paid(id, c) EXCEPT !.intent = i, !.payee = "bob", !.finality = "FUNDS_HELD"]
Intended(id, c) == [id |-> id, provider |-> "bank", cell |-> c, payee |-> "bob", scope |-> None]
Route(i, p, s) == [intent |-> i, provider |-> p, scope |-> s]
Deals == [c1 |-> "bob", c2 |-> "bob", c3 |-> "ann"]
Empty ==
  [versions |-> {}, core |-> FALSE, created |-> Deals, receipts |-> {}, intents |-> {}, routes |-> {},
   inbox |-> {}, processing |-> {}]
I1 == <<"intent", "i1">>
I2 == <<"intent", "i2">>
AtNine ==
  [Empty EXCEPT !.versions = 1..9, !.core = TRUE, !.intents = {Intended(I1, "c1"), Intended(I2, "c2")},
                !.receipts = {Linked("r1", "c1", I1)}, !.inbox = {"e1"}, !.processing = {"e1"}]
MCDatabases ==
  {Empty, [Empty EXCEPT !.core = TRUE],
   [Empty EXCEPT !.versions = 1..5, !.core = TRUE, !.receipts = {Paid("r1", "c1"), Paid("r3", "c3")}],
   [Empty EXCEPT !.versions = 1..7, !.core = TRUE, !.intents = {Intended(I1, "c1"), Intended(I2, "c2")},
                 !.receipts = {Linked("r1", "c1", I1)}, !.inbox = {"e1"}],
   AtNine, [AtNine EXCEPT !.routes = {Route(I1, "bank", "s1")}],
   [AtNine EXCEPT !.routes = {Route(I1, "bank", "s1"), Route(I1, "bank", "s2"), Route(I2, "card", "s1")}],
   [AtNine EXCEPT !.routes = {Route(I1, "bank", "s1"), Route(I2, "bank", "s2")}, !.inbox = {"e0", "e1"}]}
MCNewReceipt == {Paid("r2", "c2"), Linked("r2", "c2", I2)}
MCNewEvent == {"e2"}

(* Alerts: events of two signals of different thresholds, one of none.       *)
E(c, o, r) == [category |-> c, outcome |-> o, reason |-> r]
MCInput ==
  {E("PERSISTENCE", "DEPENDENCY_FAILURE", "FAIL_CLOSED"), E("PERSISTENCE", "DEPENDENCY_FAILURE", None),
   E("AUTHENTICATION", "ACCEPTED", None)}
MCThreshold == [postgresFailures |-> 2, failClosedDecisions |-> 1, telemetryFailures |-> 2]

Init ==
  /\ ProcessInit /\ MigrationInit /\ AlertsInit /\ ReadinessInit
  /\ scenario \in {"process", "migration", "alerts", "ready"}
  /\ scenario # "migration" => db = Empty
  /\ scenario # "ready" => database = "up"
ProcessStep ==
  /\ scenario = "process" /\ ProcessNext
  /\ UNCHANGED <<scenario, migrationVars, alertVars, readinessVars>>
MigrationStep ==
  /\ scenario = "migration" /\ MigrationNext
  /\ UNCHANGED <<scenario, processVars, alertVars, readinessVars>>
AlertsStep ==
  /\ scenario = "alerts" /\ AlertsNext
  /\ UNCHANGED <<scenario, processVars, migrationVars, readinessVars>>
ReadinessStep ==
  /\ scenario = "ready" /\ ReadinessNext
  /\ UNCHANGED <<scenario, processVars, migrationVars, alertVars>>
Next == ProcessStep \/ MigrationStep \/ AlertsStep \/ ReadinessStep
Spec == Init /\ [][Next]_vars

Symmetry ==
  Permutations({req1, req2, req3}) \cup Permutations({ask1, ask2}) \cup Permutations({q1, q2, q3})

-----------------------------------------------------------------------------
ASSUME RuntimeAssumption /\ DatabasesAssumption /\ AlertAssumption /\ ReadinessAssumption

(* What a step may never do: begin work or report readiness after a shutdown *)
(* began, lose or change a recorded row by migrating, tell of an alert that  *)
(* is not, be ready again after the adapter was closed.                      *)
StepsSound == [][BeginsNothingNew /\ LosesNothing /\ AlertsTruly /\ StaysUnready]_vars
=============================================================================
