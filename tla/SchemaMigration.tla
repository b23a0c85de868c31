-------------------------- MODULE SchemaMigration --------------------------
(***************************************************************************)
(* The schema of the database (PostgresMigrator), the one-shot program that *)
(* applies it (migrateMain) and the servers that verify it when they start. *)
(* Migrators may run at the same time, lose their connection at any point   *)
(* and be started again, while a server of the release that made the        *)
(* database goes on recording receipts and events, until it is replaced,    *)
(* which may be long after the COMMIT.  Of the twelve versions, the sixth,  *)
(* the eighth and the tenth rewrite rows.                                   *)
(***************************************************************************)
EXTENDS Integers, FiniteSets, Optional

CONSTANTS
  Migrator,   \* processes of the migrate command
  Server,     \* servers of this release
  Databases,  \* databases the migrators may find
  NewReceipt, \* receipts the old server still records
  NewEvent,   \* provider events the old server still records
  MaxStarts   \* bound on starts of the migrate command

EXPECTED_SCHEMA_VERSION == 12
Versions == 1..EXPECTED_SCHEMA_VERSION

(* What the keys and triggers of its versions and the servers of its time    *)
(* see to in any database: the versions are a prefix of the twelve, cells of *)
(* receipts were created, and from the sixth version on a receipt is bound   *)
(* to an intent; before the tenth there are no account scopes, and from then *)
(* on one that is missing on either side is not compared.                    *)
Database(d) ==
  /\ DOMAIN d = {"versions", "core", "created", "receipts", "intents", "routes", "inbox", "processing"}
  /\ d = [t \in DOMAIN d |-> d[t]] /\ IsFiniteSet(d.routes)
Receipt(r) ==
  /\ DOMAIN r = {"id", "cell", "provider", "intent", "payee", "finality", "scope"}
  /\ r = [c \in DOMAIN r |-> r[c]]
Intent(i) ==
  /\ DOMAIN i = {"id", "provider", "cell", "payee", "scope"}
  /\ i = [c \in DOMAIN i |-> i[c]]
Prefix(versions) == \A v \in versions : 1..v \subseteq versions
Keyed(rows) == \A r, s \in rows : r.id = s.id => r = s
Created(d, r) == r.cell \in DOMAIN d.created /\ d.created[r.cell] # None
Binds(r, i) ==
  /\ i.id = r.intent /\ i.provider = r.provider /\ i.cell = r.cell
  /\ i.payee = r.payee /\ r.payee # None
  /\ None \notin {i.scope, r.scope} => i.scope = r.scope
RoutesOf(d, i) == {r \in d.routes : r.intent = i.id}
Constrained(d) ==
  /\ Database(d) /\ Keyed(d.receipts) /\ Keyed(d.intents)
  /\ d.versions \subseteq Versions /\ Prefix(d.versions) /\ (1 \in d.versions => d.core)
  /\ \A r \in d.receipts : Receipt(r) /\ Created(d, r)
  /\ \A i \in d.intents : Intent(i)
  /\ 6 \notin d.versions => d.intents = {}
  /\ 6 \in d.versions => \A r \in d.receipts : \E i \in d.intents : Binds(r, i)
  /\ 10 \notin d.versions => \A x \in d.receipts \cup d.intents : x.scope = None

DatabasesAssumption ==
  /\ MaxStarts \in Nat /\ None \notin Migrator
  /\ \A d \in Databases :
       /\ Constrained(d)
       /\ \A r \in NewReceipt : Receipt(r) /\ Created(d, r) /\ r.scope = None

VARIABLES
  db,        \* the committed database
  initial,   \* history: the database found
  late,      \* history: the events and the ids of receipts that were recorded after the
             \* version that completes such rows, by a server of the release before it
  holder,    \* the migrator that holds the advisory lock
  migrator,  \* per migrator, where it stands
  server,    \* per server, what it found
  starts     \* bound: starts so far
migrationVars == <<db, initial, late, holder, migrator, server, starts>>

(* What such servers have left in the database that is found.                 *)
LeftBehind(d) ==
  [inbox |-> IF 8 \in d.versions THEN d.inbox \ d.processing ELSE {},
   receipts |-> {r.id : r \in {r \in d.receipts : \E i \in d.intents : Binds(r, i) /\ r.scope # i.scope}}]
MigrationInit ==
  /\ db \in Databases /\ initial = db /\ late = LeftBehind(db)
  /\ holder = None
  /\ migrator = [m \in Migrator |-> [pc |-> "off"]]
  /\ server = [s \in Server |-> "starting"]
  /\ starts = 0

---------------------------------------------------------------------------
(* The versions that rewrite rows.  Of the sixth: each receipt gets an       *)
(* intent of its own, with the payee of its cell.                            *)
PayeeOf(d, r) == IF Created(d, r) THEN d.created[r.cell] ELSE None
Legacy(r) == <<"legacy", r.id>>
FUNDING_SEMANTICS_SCHEMA(d) ==
  [d EXCEPT
    !.intents = {[id |-> Legacy(r), provider |-> r.provider, cell |-> r.cell, payee |-> PayeeOf(d, r),
                  scope |-> None] : r \in {r \in d.receipts : Created(d, r)}},
    !.receipts = {[r EXCEPT !.intent = Legacy(r), !.payee = PayeeOf(d, r), !.finality = "SETTLED_LEGACY"] :
                    r \in d.receipts}]

(* Of the eighth: each event gets its row of processing.                     *)
FUNDING_FOUNDATION_V8_SCHEMA(d) == [d EXCEPT !.processing = @ \cup d.inbox]

(* Of the tenth: intents get the account scope of their only route, receipts *)
(* that of their intent.                                                     *)
OnlyScope(d, i) ==
  IF Cardinality(RoutesOf(d, i)) = 1 /\ \A r \in RoutesOf(d, i) : r.provider = i.provider
  THEN (CHOOSE r \in RoutesOf(d, i) : TRUE).scope ELSE None
FUNDING_ACCOUNT_SCOPE_V10_SCHEMA(d) ==
  LET scope == [id \in {i.id : i \in d.intents} |->
                  OnlyScope(d, CHOOSE i \in d.intents : i.id = id)] IN
  [d EXCEPT !.intents = {[i EXCEPT !.scope = scope[i.id]] : i \in @},
            !.receipts = {[r EXCEPT !.scope = scope[r.intent]] : r \in @}]

Migrated(d, v) ==
  CASE v = 1 -> [d EXCEPT !.core = TRUE]
    [] v = 6 -> FUNDING_SEMANTICS_SCHEMA(d)
    [] v = 8 -> FUNDING_FOUNDATION_V8_SCHEMA(d)
    [] v = 10 -> FUNDING_ACCOUNT_SCOPE_V10_SCHEMA(d)
    [] OTHER -> d
(* The tables that exist already, and the constraints a version adds.        *)
Refused(d, v) ==
  \/ v = 1 /\ d.core
  \/ v = 6 /\ \E r \in d.receipts : ~Created(d, r)

---------------------------------------------------------------------------
Start(m) ==
  /\ migrator[m].pc \in {"off", "exit1"} /\ starts < MaxStarts
  /\ starts' = starts + 1
  /\ migrator' = [migrator EXCEPT ![m] = [pc |-> "begin"]]
  /\ UNCHANGED <<db, initial, late, holder, server>>

(* BEGIN, the advisory lock, the table of versions, the baseline of a        *)
(* database older than that table, and the versions applied so far.          *)
Baseline(d) == IF d.versions = {} /\ d.core THEN {1} ELSE d.versions
NextVersion(versions) == CHOOSE v \in Versions \ versions : \A w \in Versions \ versions : v <= w
Lock(m) ==
  /\ migrator[m].pc = "begin" /\ holder = None
  /\ holder' = m
  /\ migrator' = [migrator EXCEPT ![m] = [pc |-> "apply", before |-> db.versions,
                                          applied |-> Baseline(db),
                                          work |-> [db EXCEPT !.versions = Baseline(db)]]]
  /\ UNCHANGED <<db, initial, late, server, starts>>

Release(m) == holder' = IF holder = m THEN None ELSE holder
Failed(m, why) ==
  /\ migrator' = [migrator EXCEPT ![m] = [pc |-> "exit1", why |-> why]]
  /\ Release(m)

(* One version: its statements, then its row.  Until it rewrites a table it  *)
(* sees what others commit.  Broken: every version commits for itself.       *)
ApplyAlone(m) ==
  LET w == migrator[m].work
      v == NextVersion(migrator[m].applied) IN
  /\ migrator[m].pc = "apply" /\ migrator[m].applied # Versions
  /\ IF Refused(w, v) THEN Failed(m, "data") /\ UNCHANGED db
     ELSE /\ migrator' = [migrator EXCEPT ![m].applied = @ \cup {v},
                            ![m].work = [Migrated(w, v) EXCEPT !.versions = @ \cup {v}]]
          /\ db' = [Migrated(w, v) EXCEPT !.versions = @ \cup {v}]
          /\ UNCHANGED holder
  /\ UNCHANGED <<initial, late, server, starts>>
Apply(m) ==
  LET w == migrator[m].work
      v == NextVersion(migrator[m].applied) IN
  /\ migrator[m].pc = "apply" /\ migrator[m].applied # Versions
  /\ IF Refused(w, v) THEN Failed(m, "data")
     ELSE /\ migrator' = [migrator EXCEPT ![m].applied = @ \cup {v},
                            ![m].work = [Migrated(w, v) EXCEPT !.versions = @ \cup {v}]]
          /\ UNCHANGED holder
  /\ UNCHANGED <<db, initial, late, server, starts>>

(* COMMIT.  A version another has committed meanwhile is a duplicate row.    *)
Commit(m) ==
  /\ migrator[m].pc = "apply" /\ migrator[m].applied = Versions
  /\ IF db.versions # migrator[m].before THEN Failed(m, "duplicate") /\ UNCHANGED db
     ELSE /\ db' = migrator[m].work
          /\ \/ migrator' = [migrator EXCEPT ![m] = [pc |-> "verify"]]
             \/ migrator' = [migrator EXCEPT ![m] = [pc |-> "exit1", why |-> "connection"]]
          /\ Release(m)
  /\ UNCHANGED <<initial, late, server, starts>>
(* The connection or the process is lost: nothing of the transaction stays.  *)
Lose(m) ==
  /\ migrator[m].pc \in {"begin", "apply", "verify"}
  /\ Failed(m, "connection")
  /\ UNCHANGED <<db, initial, late, server, starts>>

(* All of the versions, and no other.                                        *)
verifyExpectedVersion == db.versions = Versions
Verify(m) ==
  /\ migrator[m].pc = "verify"
  /\ IF verifyExpectedVersion
     THEN migrator' = [migrator EXCEPT ![m] = [pc |-> "exit0"]] /\ UNCHANGED holder
     ELSE Failed(m, "version")
  /\ UNCHANGED <<db, initial, late, server, starts>>

(* A server of this release starts, and is started again if refused.         *)
Serve(s) ==
  /\ server[s] # "serving"
  /\ server' = [server EXCEPT ![s] = IF verifyExpectedVersion THEN "serving" ELSE "refused"]
  /\ UNCHANGED <<db, initial, late, holder, migrator, starts>>

---------------------------------------------------------------------------
(* The old server, of the release that made the database found, records a     *)
(* receipt or an event as that release does.  It waits while a version locks  *)
(* the table and is then accepted if the constraints of the versions that are *)
(* committed by now allow the row.                                            *)
Rewrites(m, versions) ==
  migrator[m].pc = "apply" /\ (migrator[m].applied \ db.versions) \cap versions # {}
Sees(m, change) ==
  [migrator[m].work EXCEPT !.receipts = IF Rewrites(m, {6, 10}) THEN @ ELSE change.receipts,
                           !.inbox = change.inbox,
                           !.processing = IF Rewrites(m, {8}) THEN @ ELSE change.processing]
Seen(change) ==
  /\ db' = change
  /\ migrator' = [m \in Migrator |-> IF migrator[m].pc = "apply"
                                     THEN [migrator[m] EXCEPT !.work = Sees(m, change)]
                                     ELSE migrator[m]]
  /\ UNCHANGED <<initial, holder, server, starts>>

(* Receipts of release 5 have no intent, which the sixth version demands;     *)
(* those of releases 6 to 9 have the only one of their intent and no scope,   *)
(* which the tenth does not ask for.                                          *)
OldReceipt(r) ==
  /\ 5 \in initial.versions /\ 10 \notin initial.versions
  /\ IF 6 \notin initial.versions THEN r.intent = None /\ 6 \notin db.versions
     ELSE \E i \in db.intents : Binds(r, i) /\ \A q \in db.receipts : q.intent # i.id
  /\ \A q \in db.receipts : q.id # r.id
  /\ \A m \in Migrator : ~Rewrites(m, {6, 10})
  /\ Seen([db EXCEPT !.receipts = @ \cup {r}])
  /\ late' = IF 10 \in db.versions THEN [late EXCEPT !.receipts = @ \cup {r.id}] ELSE late

(* Release 7 records the event alone, later ones its row of processing with   *)
(* it; the eighth version has no constraint that refuses an event alone.      *)
OldEvent(e) ==
  /\ 7 \in initial.versions /\ initial.versions # Versions
  /\ e \notin db.inbox
  /\ \A m \in Migrator : ~Rewrites(m, {8})
  /\ IF 8 \in initial.versions
     THEN Seen([db EXCEPT !.inbox = @ \cup {e}, !.processing = @ \cup {e}]) /\ late' = late
     ELSE /\ Seen([db EXCEPT !.inbox = @ \cup {e}])
          /\ late' = IF 8 \in db.versions THEN [late EXCEPT !.inbox = @ \cup {e}] ELSE late

MigrationNext ==
  \/ \E m \in Migrator :
       Start(m) \/ Lock(m) \/ Apply(m) \/ Commit(m) \/ Lose(m) \/ Verify(m)
  \/ \E s \in Server : Serve(s)
  \/ \E r \in NewReceipt : OldReceipt(r)
  \/ \E e \in NewEvent : OldEvent(e)
MigrationSpec == MigrationInit /\ [][MigrationNext]_migrationVars

---------------------------------------------------------------------------
(* The versions applied are always a prefix of the twelve, in the database   *)
(* and in a transaction, and the holder of the lock is applying them.        *)
MigrationTypeOK ==
  /\ Prefix(db.versions) /\ starts \in 0..MaxStarts
  /\ \A m \in Migrator : migrator[m].pc = "apply" => Prefix(migrator[m].applied) /\ holder = m
  /\ holder # None => migrator[holder].pc = "apply"

(* All or nothing: the database is at the versions it was found with or at   *)
(* all of them, wherever migrators are interrupted.                          *)
AllOrNothing == db.versions \in {initial.versions, Versions}

(* What a server is started on, and what a migrator exits 0 on, is complete:  *)
(* every receipt has an intent that agrees with it, its scope included, and   *)
(* every provider event its row of processing, those recorded while the       *)
(* migration ran included.  The exception: what an old server records after   *)
(* the version that completes such rows, which nothing completes any more.    *)
VerifiedIsComplete ==
  (\E s \in Server : server[s] = "serving") \/ (\E m \in Migrator : migrator[m].pc = "exit0") =>
    /\ db.versions = Versions
    /\ db.inbox \subseteq db.processing \cup late.inbox
    /\ \A r \in db.receipts : \E i \in db.intents :
         Binds(r, i) /\ (r.scope = i.scope \/ r.id \in late.receipts)

(* A migration never invents a scope: it gives one to an intent only if      *)
(* every route of the intent names that scope and its provider.              *)
Routed(d, i) ==
  i.scope # None =>
    /\ RoutesOf(d, i) # {}
    /\ \A r \in RoutesOf(d, i) : r.scope = i.scope /\ r.provider = i.provider
ScopesNotInvented == 10 \notin initial.versions => \A i \in db.intents : Routed(db, i)

(* A migrator that fails was cut off: with its connection it succeeds, also  *)
(* beside others and on a database that was only half the way before.        *)
ExitsJustified ==
  \A m \in Migrator : migrator[m].pc = "exit1" => migrator[m].why = "connection"

(* Two migrators, interrupted anywhere, beside a server of the release       *)
(* before: all versions or none, a server starts only on a database whose    *)
(* every row was carried over but for what the old server recorded too late, *)
(* no scope is invented, and a migrator fails only without its connection.   *)
MigrationSound ==
  /\ MigrationTypeOK /\ AllOrNothing /\ VerifiedIsComplete /\ ScopesNotInvented /\ ExitsJustified

(* Nothing recorded is lost or changes what it says.                         *)
LosesNothing ==
  /\ db.inbox \subseteq db'.inbox /\ db.processing \subseteq db'.processing
  /\ \A r \in db.receipts : \E q \in db'.receipts :
       q.id = r.id /\ q.cell = r.cell /\ q.provider = r.provider
  /\ \A i \in db.intents : \E q \in db'.intents :
       q.id = i.id /\ q.provider = i.provider /\ q.cell = i.cell
=============================================================================
