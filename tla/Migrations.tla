------------------------------ MODULE Migrations ------------------------------
(***************************************************************************)
(* The migration runner (apps/api/db/migrate.go), which every instance of  *)
(* the API may call when it starts and cmd/migrate calls from a deployment *)
(* pipeline.                                                               *)
(*                                                                         *)
(* Runners of different builds meet in one database.  A session's advisory *)
(* lock is to keep them apart, each migration commits together with its    *)
(* record, and a checksum tells whether the file that was applied is the   *)
(* one that the build embeds.  A runner makes all its calls on the         *)
(* connection that holds the lock: when the connection or the process dies *)
(* the lock is free and the runner can do nothing any more.                *)
(*                                                                         *)
(* An operator whose comment begins with "Mutant" is no part of the model: *)
(* see module Bookings.                                                    *)
(***************************************************************************)
EXTENDS Integers

CONSTANTS
  Runner,       \* processes that migrate
  Last,         \* the migrations of all builds are 1 .. Last, in filename order
  Checksum,     \* checksums of the contents of migration files
  Fragile,      \* contents whose SQL may fail
  Build,        \* builds of the program ...
  Files,        \* ... and what each embeds: a checksum for some of the migrations
  Blank,        \* the checksum '' of a record older than the column
  None          \* no row, no build, no mode

Version == 1 .. Last

ASSUME MigrationsAssumption ==
  /\ Last \in Nat
  /\ Blank \notin Checksum
  /\ None \notin Checksum \cup {Blank} \cup Build \cup Runner
  /\ \A b \in Build : DOMAIN Files[b] \subseteq Version
                      /\ \A v \in DOMAIN Files[b] : Files[b][v] \in Checksum

VARIABLES
  ran,          \* how often the SQL of a migration has taken effect
  recorded,     \* schema_migrations: the checksum of each version
  failures,     \* schema_migration_failures: the checksum that failed
  holder,       \* the runner whose session holds the advisory lock
  uncleaned,    \* history: the migrations whose cleanup did not take place
  calm,         \* nothing fails but the SQL of fragile migrations
  r             \* what each runner is doing

vars == <<ran, recorded, failures, holder, uncleaned, calm, r>>

PC == {"idle", "lock", "check", "backfill", "apply", "recordFailure", "cleanup", "insert",
       "unlock"}

\* A run has a build and a mode, and is at migration v, 0 before the first one.
Run == [pc : PC, build : Build \cup {None}, mode : {"migrate", "baseline", None},
        v : 0 .. Last]
Idle == [pc |-> "idle", build |-> None, mode |-> None, v |-> 0]

File(p) == Files[r[p].build][r[p].v]

Step(p, pc, v) ==
  r' = [r EXCEPT ![p] = [pc |-> pc, build |-> r[p].build, mode |-> r[p].mode, v |-> v]]
Go(p, pc) == Step(p, pc, r[p].v)

\* The files a run has not looked at yet.
Ahead(p) == {v \in DOMAIN Files[r[p].build] : r[p].v < v}

\* The loop over the embedded files in the order of their names.
Advance(p) ==
  \/ Ahead(p) = {} /\ Go(p, "unlock")
  \/ \E v \in Ahead(p) : (\A w \in Ahead(p) : v <= w) /\ Step(p, "check", v)

-----------------------------------------------------------------------------

\* The README's rules for the operator: migrate no database whose schema was
\* made by hand before it is baselined, and baseline only what is there.  A process
\* migrates once: its name is free for another when its session is gone.
Start(p) ==
  \E b \in Build, mode \in {"migrate", "baseline"} :
    /\ r[p] = Idle /\ holder # p
    /\ mode = "migrate" => \A v \in Version : ran[v] > 0 => recorded[v] # None
    /\ mode = "baseline" => \A v \in DOMAIN Files[b] : ran[v] > 0
    /\ r' = [r EXCEPT ![p] = [pc |-> "lock", build |-> b, mode |-> mode, v |-> 0]]
    /\ UNCHANGED <<ran, recorded, failures, holder, uncleaned, calm>>

\* Mutant (OnlyGenuineFailures): the answer of pg_try_advisory_lock is ignored.
AcquireBusyLock(p) ==
  /\ r[p].pc = "lock"
  /\ holder' = p
  /\ Advance(p)
  /\ UNCHANGED <<ran, recorded, failures, uncleaned, calm>>

\* A poll that finds the lock free.
AcquireLock(p) ==
  /\ r[p].pc = "lock"
  /\ holder = None
  /\ holder' = p
  /\ Advance(p)
  /\ UNCHANGED <<ran, recorded, failures, uncleaned, calm>>

\* Mutant (EveryRunEnds): the deadline is only looked at when the lock is free.
LockTimeoutOfFreeLock(p) ==
  /\ r[p].pc = "lock"
  /\ holder = None
  /\ r' = [r EXCEPT ![p] = Idle]
  /\ UNCHANGED <<ran, recorded, failures, holder, uncleaned, calm>>

LockTimeout(p) ==
  /\ r[p].pc = "lock"
  /\ r' = [r EXCEPT ![p] = Idle]
  /\ UNCHANGED <<ran, recorded, failures, holder, uncleaned, calm>>

\* A migration without a record is applied, or written down as applied.
CheckMissing(p) ==
  /\ r[p].pc = "check"
  /\ recorded[r[p].v] = None
  /\ Go(p, IF r[p].mode = "migrate" THEN "apply" ELSE "insert")
  /\ UNCHANGED <<ran, recorded, failures, holder, uncleaned, calm>>

CheckBlank(p) ==
  /\ r[p].pc = "check"
  /\ recorded[r[p].v] = Blank
  /\ Go(p, "backfill")
  /\ UNCHANGED <<ran, recorded, failures, holder, uncleaned, calm>>

CheckMatch(p) ==
  /\ r[p].pc = "check"
  /\ recorded[r[p].v] = File(p)
  /\ Advance(p)
  /\ UNCHANGED <<ran, recorded, failures, holder, uncleaned, calm>>

\* Mutant (SchemaFits): a different checksum is only logged.
CheckMismatchIgnored(p) ==
  /\ r[p].pc = "check"
  /\ recorded[r[p].v] \notin {None, Blank, File(p)}
  /\ Advance(p)
  /\ UNCHANGED <<ran, recorded, failures, holder, uncleaned, calm>>

\* The file was changed after it was applied: the run ends with an error.
CheckMismatch(p) ==
  /\ r[p].pc = "check"
  /\ recorded[r[p].v] \notin {None, Blank, File(p)}
  /\ Go(p, "unlock")
  /\ UNCHANGED <<ran, recorded, failures, holder, uncleaned, calm>>

Backfill(p) ==
  /\ r[p].pc = "backfill"
  /\ recorded' = [recorded EXCEPT ![r[p].v] = IF @ = Blank THEN File(p) ELSE @]
  /\ Advance(p)
  /\ UNCHANGED <<ran, failures, holder, uncleaned, calm>>

BaselineInsert(p) ==
  /\ r[p].pc = "insert"
  /\ recorded[r[p].v] = None
  /\ recorded' = [recorded EXCEPT ![r[p].v] = File(p)]
  /\ Advance(p)
  /\ UNCHANGED <<ran, failures, holder, uncleaned, calm>>

\* One transaction: the SQL takes effect and is recorded.
Apply(p) ==
  /\ r[p].pc = "apply"
  /\ recorded[r[p].v] = None
  /\ ran' = [ran EXCEPT ![r[p].v] = @ + 1]
  /\ recorded' = [recorded EXCEPT ![r[p].v] = File(p)]
  /\ Go(p, "cleanup")
  /\ UNCHANGED <<failures, holder, uncleaned, calm>>

\* Mutant (AppliedOnce): nothing is rolled back.
ApplyFailsHalfway(p) ==
  /\ r[p].pc = "apply"
  /\ File(p) \in Fragile
  /\ ran' = [ran EXCEPT ![r[p].v] = @ + 1]
  /\ Go(p, "recordFailure")
  /\ UNCHANGED <<recorded, failures, holder, uncleaned, calm>>

\* Mutant (RecordsAreTrue): the record survives the rollback.
ApplyFailsRecorded(p) ==
  /\ r[p].pc = "apply"
  /\ File(p) \in Fragile
  /\ recorded' = [recorded EXCEPT ![r[p].v] = File(p)]
  /\ Go(p, "recordFailure")
  /\ UNCHANGED <<ran, failures, holder, uncleaned, calm>>

\* The SQL, its record (a second row for the version) or the commit fails.
ApplyFails(p) ==
  /\ r[p].pc = "apply"
  /\ File(p) \in Fragile \/ recorded[r[p].v] # None \/ ~calm
  /\ Go(p, "recordFailure")
  /\ UNCHANGED <<ran, recorded, failures, holder, uncleaned, calm>>

RecordFailure(p) ==
  /\ r[p].pc = "recordFailure"
  /\ failures' = [failures EXCEPT ![r[p].v] = File(p)]
  /\ Go(p, "unlock")
  /\ UNCHANGED <<ran, recorded, holder, uncleaned, calm>>

\* Mutant (FailuresArePending): the old failure is kept.
CleanupNothing(p) ==
  /\ r[p].pc = "cleanup"
  /\ Advance(p)
  /\ UNCHANGED <<ran, recorded, failures, holder, uncleaned, calm>>

\* The failure of an earlier attempt is forgotten; an error here is only logged.
Cleanup(p) ==
  /\ r[p].pc = "cleanup"
  /\ \/ /\ failures' = [failures EXCEPT ![r[p].v] = None]
        /\ UNCHANGED uncleaned
     \/ /\ ~calm
        /\ uncleaned' = uncleaned \cup {r[p].v}
        /\ UNCHANGED failures
  /\ Advance(p)
  /\ UNCHANGED <<ran, recorded, holder, calm>>

\* The deferred unlock, also after an error.  When it fails this is only logged:
\* the session, which may live on in the pool of a serving instance, keeps the lock.
Unlock(p) ==
  /\ r[p].pc = "unlock"
  /\ \/ holder' = IF holder = p THEN None ELSE holder
     \/ ~calm /\ UNCHANGED holder
  /\ r' = [r EXCEPT ![p] = Idle]
  /\ UNCHANGED <<ran, recorded, failures, uncleaned, calm>>

\* A statement fails although the connection is alive.
StatementFails(p) ==
  /\ ~calm \/ (r[p].pc = "insert" /\ recorded[r[p].v] # None)
  /\ r[p].pc \in {"check", "backfill", "insert", "recordFailure"}
  /\ Go(p, "unlock")
  /\ UNCHANGED <<ran, recorded, failures, holder, uncleaned, calm>>

\* The connection or the process dies, and with it the session and its lock: in
\* the middle of a run, or later if the session kept the lock.
Disconnect(p) ==
  /\ ~calm
  /\ r[p] # Idle \/ holder = p
  /\ holder' = IF holder = p THEN None ELSE holder
  /\ uncleaned' = uncleaned \cup {v \in Version : r[p].pc = "cleanup" /\ r[p].v = v}
  /\ r' = [r EXCEPT ![p] = Idle]
  /\ UNCHANGED <<ran, recorded, failures, calm>>

-----------------------------------------------------------------------------

\* The schema is that of the first k migrations: applied before checksums were
\* kept, or by hand, before there were records, to be what some build expects.
Init ==
  /\ \E k \in 0 .. Last :
       /\ ran = [v \in Version |-> IF v <= k THEN 1 ELSE 0]
       /\ \/ recorded = [v \in Version |-> IF v <= k THEN Blank ELSE None]
          \/ /\ \E b \in Build : DOMAIN Files[b] \subseteq 1 .. k
             /\ recorded = [v \in Version |-> None]
  /\ failures = [v \in Version |-> None]
  /\ holder = None
  /\ uncleaned = {}
  /\ calm \in BOOLEAN
  /\ r = [p \in Runner |-> Idle]

Migrate(p) ==
  \/ AcquireLock(p) \/ LockTimeout(p)
  \/ CheckMissing(p) \/ CheckBlank(p) \/ CheckMatch(p) \/ CheckMismatch(p)
  \/ Backfill(p) \/ BaselineInsert(p)
  \/ Apply(p) \/ ApplyFails(p) \/ RecordFailure(p) \/ Cleanup(p)
  \/ StatementFails(p) \/ Unlock(p)

Next == \E p \in Runner : Start(p) \/ Migrate(p) \/ Disconnect(p)

Spec == Init /\ [][Next]_vars

\* A run makes its next call, and a lock that is not to be had is given up.
FairSpec == Spec /\ \A p \in Runner : WF_vars(Migrate(p))

-----------------------------------------------------------------------------
(***************************************************************************)
(* Properties                                                              *)
(***************************************************************************)

\* Every variable has its type, and a run that holds the lock is at a file of
\* its build.
TypeOK ==
  /\ ran \in [Version -> Nat]
  /\ recorded \in [Version -> Checksum \cup {Blank, None}]
  /\ failures \in [Version -> Checksum \cup {None}]
  /\ holder \in Runner \cup {None}
  /\ uncleaned \subseteq Version
  /\ calm \in BOOLEAN
  /\ r \in [Runner -> Run]
  /\ \A p \in Runner :
       /\ r[p].pc # "idle" => r[p].build \in Build /\ r[p].mode \in {"migrate", "baseline"}
       /\ r[p].pc = "lock" => r[p].v = 0
       /\ r[p].pc \notin {"idle", "lock", "unlock"} => r[p].v \in DOMAIN Files[r[p].build]

\* No migration takes effect twice, whatever runners race, die or try again.
AppliedOnce == \A v \in Version : ran[v] <= 1

\* A migration that is recorded has taken effect: a failed one is tried again.
RecordsAreTrue == \A v \in Version : recorded[v] # None => ran[v] > 0

\* A runner is about to apply a migration only to a database whose earlier
\* migrations are those its build embeds, to the letter: neither one that
\* failed nor one that was edited since is passed over.
HistoryAgrees ==
  \A p \in Runner : r[p].pc = "apply" =>
    \A w \in DOMAIN Files[r[p].build] : w < r[p].v => recorded[w] = Files[r[p].build][w]

\* The run of p gets to the end of its files: the instance goes on to serve.
Succeeds(p) ==
  /\ AcquireLock(p) \/ CheckMatch(p) \/ Backfill(p) \/ BaselineInsert(p) \/ Cleanup(p)
  /\ r'[p].pc = "unlock"

\* Nothing is applied but on such a history, and an instance starts to serve only
\* on a database that has all the migrations of its build, to the letter, each
\* of them in effect once: whatever the runs before it left behind.
SchemaFits ==
  [][/\ HistoryAgrees
     /\ \A p \in Runner : Succeeds(p) =>
          \A w \in DOMAIN Files[r[p].build] :
            recorded'[w] = Files[r[p].build][w] /\ ran'[w] = 1]_vars

\* The record of a migration is never rewritten, except that a checksum is
\* filled in where there was none.
ChecksumIsFinal ==
  [][\A v \in Version : recorded[v] \in Checksum => recorded'[v] = recorded[v]]_vars

\* Two instances that start together never make each other fail: when nothing
\* else goes wrong, a failure is recorded only for SQL that does not work.
OnlyGenuineFailures ==
  calm => \A v \in Version : failures[v] # None => failures[v] \in Fragile

\* A failure is listed as long as the migration is missing, and not longer,
\* whatever fails, unless it is the cleanup right after the commit that failed, or
\* that the runner did not live to make.
FailuresArePending ==
  \A v \in Version : failures[v] # None /\ recorded[v] # None =>
    \/ v \in uncleaned
    \/ \E p \in Runner : r[p].pc = "cleanup" /\ r[p].v = v

\* An instance that starts does not wait for ever for the others.
EveryRunEnds == \A p \in Runner : r[p].pc # "idle" ~> r[p].pc = "idle"
=============================================================================
