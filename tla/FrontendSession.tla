-------------------------- MODULE FrontendSession --------------------------
(***************************************************************************)
(* The browser's session and its agreement room (frontend/src/api.ts and    *)
(* ui.tsx).  One role is selected and one token held; a role switch, a      *)
(* reload of the room and a click each wait for answers, in any order, and  *)
(* any of them may renew the token.  The server is external.                *)
(* A publication of the role, React's render and the effects it runs are    *)
(* one step: no answer of the network comes between them.                   *)
(***************************************************************************)
EXTENDS Naturals, Optional

CONSTANTS
  Role,
  MaxChoices, MaxClicks, MaxFaults    \* bounds: role switches, clicks, failures

VARIABLES
  role,          \* selectedRole
  session,       \* the role whose token is held and not expired
  shown,         \* the role App renders
  mount,         \* which instance of AgreementRoom is on the page
  requestId, view, busy,   \* its state
  calls,         \* switches, loads and acts that wait for an answer
  version,       \* external: how far the cell has come
  issued, choices, clicks, faults,   \* bounds; issued numbers the calls
  chosen,        \* history: the role the user chose last
  executed,      \* history: the commands the server executed
  newest         \* history: the furthest version the room has shown
client == <<role, session, shown, mount, requestId, view, busy>>
counts == <<choices, clicks, faults>>
history == <<chosen, executed, newest>>
frontendVars == <<client, calls, version, issued, counts, history>>

FrontendAssumption ==
  /\ None \notin Role /\ None # "acted"
  /\ MaxChoices \in Nat /\ MaxClicks \in Nat /\ MaxFaults \in Nat

Blank == [scope |-> None, cell |-> None, by |-> None, loading |-> TRUE]
FrontendInit ==
  /\ role = None /\ session = None /\ shown = None /\ chosen = None
  /\ mount = 0 /\ requestId = 0 /\ view = Blank /\ busy = FALSE
  /\ calls = {} /\ version = 0 /\ executed = {} /\ newest = 0
  /\ issued = 0 /\ choices = 0 /\ clicks = 0 /\ faults = 0

Fault == faults < MaxFaults /\ faults' = faults + 1 /\ UNCHANGED <<choices, clicks>>
NoFault == UNCHANGED counts

---------------------------------------------------------------------------
OnLoad(scope) == [scope |-> scope, cell |-> None, by |-> None, loading |-> TRUE]
OnSuccess(c) == [scope |-> c.scope, cell |-> c.cell, by |-> c.as, loading |-> FALSE]
OnFailure(c) == [scope |-> c.scope, cell |-> None, by |-> None, loading |-> FALSE]
IsLoading == view.loading \/ view.scope # shown
Visible == shown # None /\ ~IsLoading /\ view.cell # None

(* A call of the API: with the token that is held, or with a new one for the
   selected role; without either it is refused at once.                      *)
Api(held, selected) ==
  IF held # None THEN [pc |-> "send", as |-> held] ELSE [pc |-> "token", as |-> selected]
Call(n, kind, api, scope, in, id, payload) ==
  [n |-> n, kind |-> kind, pc |-> api.pc, as |-> api.as, retried |-> FALSE, answer |-> None, cell |-> None,
   scope |-> scope, mount |-> in, id |-> id, payload |-> payload]

(* switchRole *)
SwitchRole(r) ==
  /\ choices < MaxChoices
  /\ choices' = choices + 1 /\ chosen' = r
  /\ session' = None /\ role' = r /\ issued' = issued + 1
  /\ calls' = calls \cup {Call(issued, "switch", Api(None, r), None, 0, 0, None)}
  /\ UNCHANGED <<shown, mount, requestId, view, busy, version, clicks, faults, executed, newest>>

(* publishRole: App renders the role; a room that shows another scope drops  *)
(* the load it waits for and starts one of its own.                          *)
Publish(r, rest) ==
  /\ shown' = r
  /\ IF r = shown \/ r = None
     THEN /\ calls' = rest
          /\ UNCHANGED <<requestId, issued>>
          /\ IF r = shown THEN UNCHANGED <<mount, view, busy>>
             ELSE mount' = mount + 1 /\ view' = Blank /\ busy' = FALSE
     ELSE /\ requestId' = requestId + 1 /\ issued' = issued + 1
          /\ view' = OnLoad(r)
          /\ calls' = rest \cup {Call(issued, "load", Api(r, r), r, mount, requestId', None)}
          /\ UNCHANGED <<mount, busy>>

(* requestRoleToken, answered.  Broken: a refusal leaves the role selected.  *)
Ready(c) == IF c.kind = "switch" THEN {} ELSE {[c EXCEPT !.pc = "send"]}
Granted(c) ==
  /\ session' = c.as /\ role' = c.as
  /\ Publish(c.as, (calls \ {c}) \cup Ready(c)) /\ NoFault
RefusedKeepingRole(c) ==
  /\ session' = None
  /\ Publish(None, calls \ {c}) /\ Fault /\ UNCHANGED role
Refused(c) ==
  /\ session' = None /\ role' = None
  /\ Publish(None, calls \ {c}) /\ Fault
RequestRoleToken(c) ==
  /\ c.pc = "token"
  /\ Granted(c) \/ Refused(c)
  /\ UNCHANGED <<version, history>>

(* External: the token expires; the server does what is asked, and its
   answer may be lost or be a 401.                                           *)
Expire ==
  /\ session # None /\ session' = None /\ Fault
  /\ UNCHANGED <<role, shown, mount, requestId, view, busy, calls, version, issued, history>>
Answered(c, answer) ==
  calls' = (calls \ {c}) \cup {[c EXCEPT !.pc = "answered", !.answer = answer,
                                         !.cell = IF answer = "ok" THEN version ELSE None]}
Execute(c) ==
  /\ version' = version + 1
  /\ executed' = executed \cup {[scope |-> c.scope, as |-> c.as]}
  /\ UNCHANGED <<chosen, newest>>
Serve(c) ==
  /\ c.pc = "send"
  /\ \/ c.kind = "load" /\ Answered(c, "ok") /\ NoFault /\ UNCHANGED <<version, history>>
     \/ c.kind = "act" /\ c.payload = c.as /\ Answered(c, "ok") /\ NoFault /\ Execute(c)
     \/ c.kind = "act" /\ c.payload = c.as /\ Answered(c, "failed") /\ Fault /\ Execute(c)
     \/ c.kind = "act" /\ c.payload # c.as /\ Answered(c, "failed") /\ NoFault /\ UNCHANGED <<version, history>>
     \/ \E a \in {"failed", "401"} : Answered(c, a) /\ Fault /\ UNCHANGED <<version, history>>
  /\ UNCHANGED <<client, issued>>

(* The answer of a call: once, a 401 is followed by a token of the same      *)
(* role.                                                                     *)
Retry(c) ==
  /\ c.pc = "answered" /\ c.answer = "401" /\ ~c.retried
  /\ calls' = (calls \ {c}) \cup {[c EXCEPT !.pc = "token", !.retried = TRUE, !.answer = None]}
  /\ UNCHANGED <<client, version, issued, counts, history>>
Final(c) == c.pc = "answered" /\ (c.answer = "401" => c.retried)
Failed(c) == c.answer \in {"401", "failed"}

(* load: only the latest load of the room is shown.  Broken: any is.         *)
LatestAny(c) == c.mount = mount
Latest(c) == c.mount = mount /\ c.id = requestId
Loaded(c) ==
  /\ Final(c) /\ c.kind = "load"
  /\ view' = IF ~Latest(c) THEN view ELSE IF Failed(c) THEN OnFailure(c) ELSE OnSuccess(c)
  /\ newest' = IF Latest(c) /\ ~Failed(c) /\ c.cell > newest THEN c.cell ELSE newest
  /\ busy' = IF c.payload = "acted" /\ c.mount = mount THEN FALSE ELSE busy
  /\ calls' = calls \ {c}
  /\ UNCHANGED <<role, session, shown, mount, requestId, version, issued, counts, chosen, executed>>

(* act: a click in the room sends a command of the selected role.            *)
Act ==
  /\ clicks < MaxClicks /\ Visible /\ ~busy
  /\ clicks' = clicks + 1 /\ issued' = issued + 1 /\ busy' = TRUE
  /\ calls' = calls \cup {Call(issued, "act", Api(session, role), shown, mount, 0, role)}
  /\ UNCHANGED <<role, session, shown, mount, requestId, view, version, choices, faults, history>>
(* A command that succeeded is followed by a load: that of the click's render. *)
Acted(c) ==
  LET reload == Call(issued, "load", Api(session, role), c.scope, c.mount, requestId + 1, "acted")
      here == c.mount = mount
      sent == role # None IN
  /\ Final(c) /\ c.kind = "act"
  /\ IF Failed(c)
     THEN /\ calls' = calls \ {c} /\ busy' = (busy /\ ~here)
          /\ UNCHANGED <<requestId, view, issued>>
     ELSE /\ calls' = (calls \ {c}) \cup (IF sent THEN {reload} ELSE {})
          /\ issued' = issued + 1
          /\ IF here THEN requestId' = requestId + 1 /\ view' = OnLoad(c.scope)
             ELSE UNCHANGED <<requestId, view>>
          /\ UNCHANGED busy
  /\ UNCHANGED <<role, session, shown, mount, version, counts, history>>

FrontendNext ==
  \/ \E r \in Role : SwitchRole(r)
  \/ Expire \/ Act
  \/ \E c \in calls : RequestRoleToken(c) \/ Serve(c) \/ Retry(c) \/ Loaded(c) \/ Acted(c)
FrontendSpec == FrontendInit /\ [][FrontendNext]_frontendVars
---------------------------------------------------------------------------
FrontendTypeOK ==
  /\ role \in Role \cup {None} /\ session \in Role \cup {None} /\ shown \in Role \cup {None}
  /\ view.scope \in Role \cup {None} /\ view.by \in Role \cup {None} /\ busy \in BOOLEAN
  /\ \A c, d \in calls : c.n = d.n => c = d
  /\ \A c \in calls : c.mount <= mount /\ c.pc \in {"token", "send", "answered"}
Quiet == calls = {}

(* The token that is held is of the selected role and of the role on screen,
   and once nothing is waited for the page shows the selected role, whatever
   switches, renewals and refusals overlapped.                               *)
SessionOfRole ==
  /\ session # None => role = session /\ shown = session
  /\ Quiet => shown = role

(* A cell on screen was fetched with a token of the role on screen: the room
   shows one party nothing the other party's token was answered.             *)
CellOfShownRole == Visible => view.by = shown

(* Overlapping loads of the room may answer in any order: what it shows never
   falls behind what it has shown.                                           *)
NeverOlder == Visible => view.cell = newest

(* The commands of a room follow one another: a second is not sent before the
   first was answered and the room reloaded.                                 *)
InRoom == {c \in calls : c.mount = mount /\ (c.kind = "act" \/ c.payload = "acted")}
OneCommandAtATime == (\A c, d \in InRoom : c = d) /\ (busy <=> InRoom # {})

(* Once nothing is waited for, the room has loaded or failed: it does not show
   its placeholder for ever.                                                 *)
RoomSettled == Quiet /\ shown # None => ~IsLoading

(* In whatever order tokens, loads and commands are answered while switches, *)
(* renewals and refusals overlap (api.ts, ui.tsx): the token held is of the  *)
(* role selected and shown, and a cell on screen was fetched with one of the *)
(* role on screen; what a room shows never goes back, its commands follow    *)
(* one another, and a room nobody has clicked in settles.                    *)
FrontendSound ==
  /\ FrontendTypeOK /\ SessionOfRole /\ CellOfShownRole /\ NeverOlder /\ OneCommandAtATime
  /\ clicks = 0 => RoomSettled
=============================================================================
