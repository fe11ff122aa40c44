--------------------------- MODULE MigrationsProofs ---------------------------
(***************************************************************************)
(* Theorems about Migrations, for every set of runners, builds and files.  *)
(*                                                                         *)
(* What a runner has read of schema_migrations is only good because nobody *)
(* writes the table while it holds the lock, and a runner that holds it is *)
(* at work on a database that its operator was allowed to migrate: this is *)
(* what RunOK adds to the properties to make them inductive.               *)
(***************************************************************************)
EXTENDS Migrations, WellFoundedInduction, TLAPS

Working(p) == r[p].pc \notin {"idle", "lock"}
AtFile(p) == r[p].pc \notin {"idle", "lock", "unlock"}

\* The operator's rules hold as long as the run lasts.
Founded(p) ==
  /\ r[p].pc # "idle" /\ r[p].mode = "migrate" =>
       \A v \in Version : ran[v] > 0 => recorded[v] # None
  /\ r[p].pc # "idle" /\ r[p].mode = "baseline" =>
       \A v \in DOMAIN Files[r[p].build] : ran[v] > 0

\* The files behind the runner are recorded, to the letter.
Passed(p) ==
  AtFile(p) => \A w \in DOMAIN Files[r[p].build] :
                 w < r[p].v => recorded[w] = Files[r[p].build][w]

\* What the runner has read or written of the file it is at is still there.
Seen(p) ==
  /\ r[p].pc = "backfill" => recorded[r[p].v] = Blank
  /\ r[p].pc = "apply" => recorded[r[p].v] = None /\ r[p].mode = "migrate"
  /\ r[p].pc = "insert" => recorded[r[p].v] = None /\ r[p].mode = "baseline"
  /\ r[p].pc = "cleanup" => recorded[r[p].v] = File(p)
  /\ r[p].pc = "recordFailure" /\ calm => File(p) \in Fragile

RunOK(p) == Founded(p) /\ Passed(p) /\ Seen(p)

LockOK == \A p \in Runner : Working(p) => holder = p

RunsOK == \A p \in Runner : RunOK(p)

DataOK == AppliedOnce /\ RecordsAreTrue /\ OnlyGenuineFailures

IInv == TypeOK /\ LockOK /\ RunsOK /\ DataOK

USE DEF PC, Version

-----------------------------------------------------------------------------
(* What the steps of a runner do to r. *)

LEMMA FileType ==
  ASSUME TypeOK, NEW p \in Runner, AtFile(p)
  PROVE  /\ r[p].build \in Build /\ r[p].v \in DOMAIN Files[r[p].build]
         /\ r[p].v \in Version
         /\ File(p) \in Checksum
         /\ File(p) # Blank /\ File(p) # None
  BY MigrationsAssumption DEF TypeOK, AtFile, File

LEMMA GoEffect ==
  ASSUME TypeOK, NEW p \in Runner, NEW pc \in PC, Go(p, pc)
  PROVE  /\ r' \in [Runner -> Run]
         /\ r'[p].pc = pc /\ r'[p].build = r[p].build
         /\ r'[p].mode = r[p].mode /\ r'[p].v = r[p].v
         /\ \A q \in Runner \ {p} : r'[q] = r[q]
  BY DEF TypeOK, Go, Step, Run

LEMMA IdleEffect ==
  ASSUME TypeOK, NEW p \in Runner, r' = [r EXCEPT ![p] = Idle]
  PROVE  /\ r' \in [Runner -> Run]
         /\ r'[p].pc = "idle"
         /\ \A q \in Runner \ {p} : r'[q] = r[q]
  BY MigrationsAssumption DEF TypeOK, Idle, Run

\* The loop goes on to the next file of the build and skips none.
LEMMA AdvanceEffect ==
  ASSUME TypeOK, NEW p \in Runner, r[p].pc # "idle", Advance(p)
  PROVE  /\ r' \in [Runner -> Run]
         /\ r'[p].build = r[p].build /\ r'[p].mode = r[p].mode
         /\ r'[p].pc \in {"check", "unlock"}
         /\ r'[p].pc = "check" =>
              /\ r'[p].v \in DOMAIN Files[r[p].build]
              /\ \A w \in DOMAIN Files[r[p].build] : w < r'[p].v => w <= r[p].v
         /\ \A q \in Runner \ {p} : r'[q] = r[q]
<1>1. r[p].build \in Build /\ DOMAIN Files[r[p].build] \subseteq Version
  BY MigrationsAssumption DEF TypeOK
<1>2. CASE Ahead(p) = {} /\ Go(p, "unlock")
  BY <1>2, GoEffect
<1>3. CASE \E v \in Ahead(p) : (\A w \in Ahead(p) : v <= w) /\ Step(p, "check", v)
  <2>1. PICK v \in Ahead(p) : (\A w \in Ahead(p) : v <= w) /\ Step(p, "check", v)
    BY <1>3
  <2>2. v \in DOMAIN Files[r[p].build] /\ v \in 0 .. Last
    BY <1>1, MigrationsAssumption DEF Ahead
  <2>3. /\ r' \in [Runner -> Run]
        /\ r'[p].build = r[p].build /\ r'[p].mode = r[p].mode
        /\ r'[p].pc = "check" /\ r'[p].v = v
        /\ \A q \in Runner \ {p} : r'[q] = r[q]
    BY <2>1, <2>2 DEF TypeOK, Step, Run
  <2>4. r[p].v \in Int
    BY MigrationsAssumption DEF TypeOK, Run
  <2>5. \A w \in DOMAIN Files[r[p].build] : w < v => w <= r[p].v
    BY <1>1, <2>1, <2>2, <2>4, MigrationsAssumption DEF Ahead
  <2> QED
    BY <2>2, <2>3, <2>5
<1> QED
  BY <1>2, <1>3 DEF Advance

-----------------------------------------------------------------------------
(* The invariant is inductive. *)

\* The runners that do not move keep what they rely on: a step that writes the
\* records is one of the runner that holds the lock.
LEMMA OthersInv ==
  ASSUME IInv, NEW p \in Runner, NEW q \in Runner \ {p},
         r'[q] = r[q], calm' = calm,
         Working(p) \/ UNCHANGED <<ran, recorded>>,
         \A v \in Version : recorded[v] # None => recorded'[v] # None,
         \A v \in Version : ran'[v] > 0 => ran[v] > 0 \/ recorded'[v] # None,
         \A v \in Version : ran[v] > 0 => ran'[v] > 0
  PROVE  RunOK(q)'
<1>1. Founded(q)'
  <2>1. Founded(q)
    BY DEF IInv, RunsOK, RunOK
  <2>2. r[q].pc # "idle" => DOMAIN Files[r[q].build] \subseteq Version
    BY MigrationsAssumption DEF IInv, TypeOK
  <2> QED
    BY <2>1, <2>2 DEF Founded
<1>2. Passed(q)' /\ Seen(q)'
  <2>1. CASE UNCHANGED <<ran, recorded>>
    BY <2>1 DEF IInv, RunsOK, RunOK, Passed, Seen, AtFile, File
  <2>2. CASE Working(p)
    <3>1. ~Working(q)
      BY <2>2 DEF IInv, LockOK
    <3> QED
      BY <3>1 DEF Working, Passed, Seen, AtFile
  <2> QED
    BY <2>1, <2>2
<1> QED
  BY <1>1, <1>2 DEF RunOK

LEMMA InitInv == Init => IInv
<1> SUFFICES ASSUME Init PROVE IInv
  OBVIOUS
<1>1. Idle \in Run /\ Idle.pc = "idle"
  BY MigrationsAssumption DEF Idle, Run
<1>2. PICK k \in 0 .. Last :
        /\ ran = [v \in Version |-> IF v <= k THEN 1 ELSE 0]
        /\ \/ recorded = [v \in Version |-> IF v <= k THEN Blank ELSE None]
           \/ recorded = [v \in Version |-> None]
  BY DEF Init
<1>3. TypeOK
  BY <1>1, <1>2 DEF Init, TypeOK
<1>4. DataOK
  BY <1>2, MigrationsAssumption
  DEF Init, DataOK, AppliedOnce, RecordsAreTrue, OnlyGenuineFailures
<1>5. LockOK /\ RunsOK
  BY <1>1 DEF Init, LockOK, RunsOK, RunOK, Founded, Passed, Seen, Working, AtFile
<1> QED
  BY <1>3, <1>4, <1>5 DEF IInv

\* A step that writes no record and no failure keeps the invariant if it keeps
\* what it means for the runner that takes it.
LEMMA QuietInv ==
  ASSUME IInv, NEW p \in Runner, UNCHANGED <<ran, recorded, failures, calm>>,
         r' \in [Runner -> Run],
         \A q \in Runner \ {p} : r'[q] = r[q],
         r'[p].pc # "idle" => r'[p].build \in Build /\ r'[p].mode \in {"migrate", "baseline"},
         r'[p].pc = "lock" => r'[p].v = 0,
         AtFile(p)' => r'[p].v \in DOMAIN Files[r'[p].build],
         holder' \in Runner \cup {None}, uncleaned' \subseteq Version,
         Working(p)' => holder' = p,
         \A q \in Runner \ {p} : holder = q => holder' = q,
         RunOK(p)'
  PROVE  IInv'
<1>1. TypeOK'
  BY DEF IInv, TypeOK, AtFile
<1>2. LockOK'
  BY DEF IInv, LockOK, Working
<1>3. \A q \in Runner \ {p} : RunOK(q)'
  BY OthersInv
<1>4. DataOK'
  BY DEF IInv, DataOK, AppliedOnce, RecordsAreTrue, OnlyGenuineFailures
<1> QED
  BY <1>1, <1>2, <1>3, <1>4 DEF IInv, RunsOK

LEMMA StartInv ==
  ASSUME IInv, NEW p \in Runner, Start(p)
  PROVE  IInv'
<1>1. PICK b \in Build, mode \in {"migrate", "baseline"} :
        /\ r[p] = Idle
        /\ mode = "migrate" => \A v \in Version : ran[v] > 0 => recorded[v] # None
        /\ mode = "baseline" => \A v \in DOMAIN Files[b] : ran[v] > 0
        /\ r' = [r EXCEPT ![p] = [pc |-> "lock", build |-> b, mode |-> mode, v |-> 0]]
        /\ UNCHANGED <<ran, recorded, failures, holder, uncleaned, calm>>
  BY DEF Start
<1>2. [pc |-> "lock", build |-> b, mode |-> mode, v |-> 0] \in Run
  BY MigrationsAssumption DEF Run
<1>3. /\ r' \in [Runner -> Run]
      /\ r'[p] = [pc |-> "lock", build |-> b, mode |-> mode, v |-> 0]
      /\ \A q \in Runner \ {p} : r'[q] = r[q]
  BY <1>1, <1>2 DEF IInv, TypeOK
<1> QED
  BY <1>1, <1>3, QuietInv DEF IInv, TypeOK, RunOK, Founded, Passed, Seen, Working, AtFile

\* A call that changes nothing but where the runner is.
LEMMA GoInv ==
  ASSUME IInv, NEW p \in Runner, r[p].pc # "idle", NEW pc \in PC \ {"idle", "lock"}, Go(p, pc),
         UNCHANGED <<ran, recorded, failures, holder, uncleaned, calm>>,
         Working(p), pc # "unlock" => AtFile(p),
         pc = "backfill" => recorded[r[p].v] = Blank,
         pc = "apply" => recorded[r[p].v] = None /\ r[p].mode = "migrate",
         pc = "insert" => recorded[r[p].v] = None /\ r[p].mode = "baseline",
         pc = "cleanup" => recorded[r[p].v] = File(p),
         pc = "recordFailure" /\ calm => File(p) \in Fragile
  PROVE  IInv'
<1>1. /\ r' \in [Runner -> Run]
      /\ r'[p].pc = pc /\ r'[p].build = r[p].build
      /\ r'[p].mode = r[p].mode /\ r'[p].v = r[p].v
      /\ \A q \in Runner \ {p} : r'[q] = r[q]
  BY GoEffect DEF IInv
<1>2. RunOK(p)
  BY DEF IInv, RunsOK
<1>3. RunOK(p)'
  BY <1>1, <1>2 DEF RunOK, Founded, Passed, Seen, AtFile, File
<1>4. holder = p /\ holder \in Runner \cup {None} /\ uncleaned' \subseteq Version
  BY DEF IInv, LockOK, TypeOK
<1>5. AtFile(p)' => r'[p].v \in DOMAIN Files[r'[p].build]
  BY <1>1 DEF IInv, TypeOK, AtFile
<1>6. r[p].build \in Build /\ r[p].mode \in {"migrate", "baseline"}
  BY DEF IInv, TypeOK
<1> QED
  BY <1>1, <1>3, <1>4, <1>5, <1>6, QuietInv

\* A run that leaves the lock, never had it, or ends without giving it back.
LEMMA EndInv ==
  ASSUME IInv, NEW p \in Runner, r' = [r EXCEPT ![p] = Idle],
         UNCHANGED <<ran, recorded, failures, calm>>, uncleaned' \subseteq Version,
         holder' \in {holder, IF holder = p THEN None ELSE holder}
  PROVE  IInv'
<1>1. /\ r' \in [Runner -> Run]
      /\ r'[p].pc = "idle"
      /\ \A q \in Runner \ {p} : r'[q] = r[q]
  BY IdleEffect DEF IInv
<1>2. RunOK(p)' /\ ~Working(p)' /\ ~AtFile(p)'
  BY <1>1 DEF RunOK, Founded, Passed, Seen, AtFile, Working
<1> QED
  BY <1>1, <1>2, QuietInv DEF IInv, TypeOK

\* The runner that has the lock writes the record of the file it is at, and
\* goes on.
LEMMA WriteInv ==
  ASSUME IInv, NEW p \in Runner, AtFile(p), holder' = p, calm' = calm, failures' = failures,
         uncleaned' = uncleaned,
         recorded[r[p].v] \in {None, Blank},
         recorded' = [recorded EXCEPT ![r[p].v] = File(p)],
         ran' \in [Version -> Nat], ran'[r[p].v] = 1,
         \A v \in Version : v # r[p].v => ran'[v] = ran[v],
         r' \in [Runner -> Run],
         \A q \in Runner \ {p} : r'[q] = r[q],
         r'[p].build = r[p].build, r'[p].mode = r[p].mode,
         r'[p].pc \in {"check", "cleanup", "unlock"},
         r'[p].pc = "cleanup" => r'[p].v = r[p].v,
         r'[p].pc # "unlock" =>
           /\ r'[p].v \in DOMAIN Files[r[p].build]
           /\ \A w \in DOMAIN Files[r[p].build] : w < r'[p].v => w <= r[p].v
  PROVE  IInv'
<1>1. /\ r[p].build \in Build /\ r[p].v \in DOMAIN Files[r[p].build]
      /\ r[p].v \in Version
      /\ File(p) \in Checksum /\ File(p) # Blank /\ File(p) # None
  BY FileType DEF IInv
<1>2. /\ ran \in [Version -> Nat] /\ recorded \in [Version -> Checksum \cup {Blank, None}]
      /\ r[p].mode \in {"migrate", "baseline"}
  BY DEF IInv, TypeOK, AtFile
<1>3. TypeOK'
  <2>1. ran' \in [Version -> Nat] /\ recorded' \in [Version -> Checksum \cup {Blank, None}]
    BY <1>1, <1>2
  <2> QED
    BY <1>1, <1>2, <2>1 DEF IInv, TypeOK, AtFile
<1>4. LockOK'
  BY DEF IInv, LockOK, Working, AtFile
<1>5. /\ \A v \in Version : recorded[v] # None => recorded'[v] # None
      /\ \A v \in Version : ran'[v] > 0 => ran[v] > 0 \/ recorded'[v] # None
      /\ \A v \in Version : ran[v] > 0 => ran'[v] > 0
  <2>1. \A v \in Version : recorded'[v] = IF v = r[p].v THEN File(p) ELSE recorded[v]
    BY <1>1, <1>2
  <2> QED
    BY <1>1, <2>1
<1>6. \A q \in Runner \ {p} : RunOK(q)'
  BY <1>5, OthersInv DEF Working, AtFile
<1>7. RunOK(p)'
  <2>1. RunOK(p)
    BY DEF IInv, RunsOK
  <2>2. DOMAIN Files[r[p].build] \subseteq Version
    BY <1>1, MigrationsAssumption
  <2>3. Founded(p)'
    BY <2>1, <2>2, <1>2, <1>5 DEF RunOK, Founded, AtFile
  <2>4. \A w \in DOMAIN Files[r[p].build] : w <= r[p].v => recorded'[w] = Files[r[p].build][w]
    <3>1. \A w \in DOMAIN Files[r[p].build] : w < r[p].v => recorded[w] = Files[r[p].build][w]
      BY <2>1 DEF RunOK, Passed
    <3>2. r[p].v \in Int /\ \A w \in DOMAIN Files[r[p].build] : w \in Int
      BY <1>1, <2>2, MigrationsAssumption
    <3> QED
      BY <3>1, <3>2, <1>1, <1>2, <2>2 DEF File
  <2>5. Passed(p)'
    BY <2>4 DEF Passed, AtFile
  <2>6. Seen(p)'
    BY <1>1, <1>2 DEF Seen, File
  <2> QED
    BY <2>3, <2>5, <2>6 DEF RunOK
<1>8. DataOK'
  <2>1. \A v \in Version : recorded'[v] = IF v = r[p].v THEN File(p) ELSE recorded[v]
    BY <1>1, <1>2
  <2>2. AppliedOnce'
    BY DEF IInv, DataOK, AppliedOnce
  <2>3. RecordsAreTrue'
    BY <1>1, <2>1 DEF IInv, DataOK, RecordsAreTrue
  <2>4. OnlyGenuineFailures'
    BY DEF IInv, DataOK, OnlyGenuineFailures
  <2> QED
    BY <2>2, <2>3, <2>4 DEF DataOK
<1> QED
  BY <1>3, <1>4, <1>6, <1>7, <1>8 DEF IInv, RunsOK

\* Taking the lock: nobody else is at work, and the run is before its first file.
LEMMA AcquireInv ==
  ASSUME IInv, NEW p \in Runner, AcquireLock(p)
  PROVE  IInv'
<1>1. /\ r[p].pc = "lock" /\ holder = None /\ holder' = p
      /\ UNCHANGED <<ran, recorded, failures, calm>> /\ uncleaned' \subseteq Version
  BY DEF AcquireLock, IInv, TypeOK
<1>2. /\ r' \in [Runner -> Run]
      /\ r'[p].build = r[p].build /\ r'[p].mode = r[p].mode
      /\ r'[p].pc \in {"check", "unlock"}
      /\ r'[p].pc = "check" =>
           /\ r'[p].v \in DOMAIN Files[r[p].build]
           /\ \A w \in DOMAIN Files[r[p].build] : w < r'[p].v => w <= r[p].v
      /\ \A q \in Runner \ {p} : r'[q] = r[q]
  BY <1>1, AdvanceEffect DEF IInv, AcquireLock
<1>3. r[p].build \in Build /\ r[p].mode \in {"migrate", "baseline"} /\ r[p].v = 0
  BY <1>1 DEF IInv, TypeOK
<1>4. RunOK(p)'
  <2>1. Founded(p)'
    BY <1>1, <1>2 DEF IInv, RunsOK, RunOK, Founded
  <2>2. \A w \in DOMAIN Files[r[p].build] : ~(w <= r[p].v)
    BY <1>3, MigrationsAssumption
  <2> QED
    BY <1>2, <2>1, <2>2 DEF RunOK, Passed, Seen, AtFile
<1>5. \A q \in Runner \ {p} : holder = q => holder' = q
  BY <1>1, MigrationsAssumption
<1> QED
  BY <1>1, <1>2, <1>3, <1>4, <1>5, QuietInv DEF AtFile

\* The files behind the next one are the file just done with and those before.
LEMMA NextFileInv ==
  ASSUME IInv, NEW p \in Runner, AtFile(p), Advance(p), recorded[r[p].v] = File(p),
         UNCHANGED <<ran, recorded, calm, holder>>, uncleaned' \subseteq Version,
         failures' = failures \/ failures' = [failures EXCEPT ![r[p].v] = None]
  PROVE  IInv'
<1>1. /\ r' \in [Runner -> Run]
      /\ r'[p].build = r[p].build /\ r'[p].mode = r[p].mode
      /\ r'[p].pc \in {"check", "unlock"}
      /\ r'[p].pc = "check" =>
           /\ r'[p].v \in DOMAIN Files[r[p].build]
           /\ \A w \in DOMAIN Files[r[p].build] : w < r'[p].v => w <= r[p].v
      /\ \A q \in Runner \ {p} : r'[q] = r[q]
  BY AdvanceEffect DEF IInv, AtFile
<1>2. /\ r[p].build \in Build /\ r[p].mode \in {"migrate", "baseline"}
      /\ r[p].v \in Version /\ DOMAIN Files[r[p].build] \subseteq Version
  BY FileType, MigrationsAssumption DEF IInv, TypeOK, AtFile
<1>3. RunOK(p)'
  <2>1. RunOK(p)
    BY DEF IInv, RunsOK
  <2>2. Founded(p)'
    BY <1>1, <2>1 DEF RunOK, Founded, AtFile
  <2>3. \A w \in DOMAIN Files[r[p].build] : w <= r[p].v => recorded[w] = Files[r[p].build][w]
    <3>1. r[p].v \in Int /\ \A w \in DOMAIN Files[r[p].build] : w \in Int
      BY <1>2, MigrationsAssumption
    <3> QED
      BY <2>1, <3>1 DEF RunOK, Passed, File
  <2>4. Passed(p)'
    BY <1>1, <2>3 DEF Passed, AtFile
  <2> QED
    BY <1>1, <2>2, <2>4 DEF RunOK, Seen
<1>4. TypeOK'
  <2>1. failures' \in [Version -> Checksum \cup {None}]
    BY <1>2 DEF IInv, TypeOK
  <2> QED
    BY <1>1, <1>2, <2>1 DEF IInv, TypeOK, AtFile
<1>5. LockOK'
  BY <1>1 DEF IInv, LockOK, Working, AtFile
<1>6. \A q \in Runner \ {p} : RunOK(q)'
  BY <1>1, OthersInv
<1>7. DataOK'
  <2>1. \A v \in Version : failures'[v] \in {failures[v], None}
    BY <1>2 DEF IInv, TypeOK
  <2> QED
    BY <2>1 DEF IInv, DataOK, AppliedOnce, RecordsAreTrue, OnlyGenuineFailures
<1> QED
  BY <1>3, <1>4, <1>5, <1>6, <1>7 DEF IInv, RunsOK

LEMMA BackfillInv ==
  ASSUME IInv, NEW p \in Runner, Backfill(p)
  PROVE  IInv'
<1>1. /\ AtFile(p) /\ holder = p
      /\ recorded[r[p].v] = Blank /\ recorded' = [recorded EXCEPT ![r[p].v] = File(p)]
      /\ UNCHANGED <<ran, failures, holder, uncleaned, calm>>
  BY DEF Backfill, IInv, RunsOK, RunOK, Seen, AtFile, LockOK, Working, TypeOK
<1>2. r[p].v \in Version
  BY <1>1, FileType DEF IInv
<1>3. ran \in [Version -> Nat] /\ ran[r[p].v] = 1
  BY <1>1, <1>2, MigrationsAssumption
  DEF IInv, TypeOK, DataOK, AppliedOnce, RecordsAreTrue
<1>4. /\ r' \in [Runner -> Run]
      /\ r'[p].build = r[p].build /\ r'[p].mode = r[p].mode
      /\ r'[p].pc \in {"check", "unlock"}
      /\ r'[p].pc = "check" =>
           /\ r'[p].v \in DOMAIN Files[r[p].build]
           /\ \A w \in DOMAIN Files[r[p].build] : w < r'[p].v => w <= r[p].v
      /\ \A q \in Runner \ {p} : r'[q] = r[q]
  BY <1>1, AdvanceEffect DEF IInv, AtFile, Backfill
<1>5. /\ ran' \in [Version -> Nat] /\ ran'[r[p].v] = 1
      /\ \A v \in Version : v # r[p].v => ran'[v] = ran[v]
  BY <1>1, <1>3
<1>6. r'[p].pc # "unlock" =>
        /\ r'[p].v \in DOMAIN Files[r[p].build]
        /\ \A w \in DOMAIN Files[r[p].build] : w < r'[p].v => w <= r[p].v
  BY <1>4
<1>7. /\ holder' = p /\ calm' = calm /\ failures' = failures /\ uncleaned' = uncleaned
      /\ recorded[r[p].v] \in {None, Blank}
  BY <1>1
<1>8. AtFile(p) /\ recorded' = [recorded EXCEPT ![r[p].v] = File(p)]
  BY <1>1
<1>9. /\ r' \in [Runner -> Run] /\ r'[p].build = r[p].build /\ r'[p].mode = r[p].mode
      /\ r'[p].pc \in {"check", "unlock"}
      /\ \A q \in Runner \ {p} : r'[q] = r[q]
  BY <1>4
<1> QED
  BY <1>5, <1>6, <1>7, <1>8, <1>9, WriteInv

LEMMA BaselineInsertInv ==
  ASSUME IInv, NEW p \in Runner, BaselineInsert(p)
  PROVE  IInv'
<1>1. /\ AtFile(p) /\ holder = p
      /\ recorded[r[p].v] = None /\ recorded' = [recorded EXCEPT ![r[p].v] = File(p)]
      /\ r[p].mode = "baseline"
      /\ UNCHANGED <<ran, failures, holder, uncleaned, calm>>
  BY DEF BaselineInsert, IInv, RunsOK, RunOK, Seen, AtFile, LockOK, Working
<1>2. r[p].v \in Version /\ r[p].v \in DOMAIN Files[r[p].build]
  BY <1>1, FileType DEF IInv
<1>3. ran \in [Version -> Nat] /\ ran[r[p].v] = 1
  <2>1. ran[r[p].v] > 0
    BY <1>1, <1>2 DEF IInv, RunsOK, RunOK, Founded, AtFile
  <2> QED
    BY <1>2, <2>1 DEF IInv, TypeOK, DataOK, AppliedOnce
<1>4. /\ r' \in [Runner -> Run]
      /\ r'[p].build = r[p].build /\ r'[p].mode = r[p].mode
      /\ r'[p].pc \in {"check", "unlock"}
      /\ r'[p].pc = "check" =>
           /\ r'[p].v \in DOMAIN Files[r[p].build]
           /\ \A w \in DOMAIN Files[r[p].build] : w < r'[p].v => w <= r[p].v
      /\ \A q \in Runner \ {p} : r'[q] = r[q]
  BY <1>1, AdvanceEffect DEF IInv, AtFile, BaselineInsert
<1>5. /\ ran' \in [Version -> Nat] /\ ran'[r[p].v] = 1
      /\ \A v \in Version : v # r[p].v => ran'[v] = ran[v]
  BY <1>1, <1>3
<1>6. r'[p].pc # "unlock" =>
        /\ r'[p].v \in DOMAIN Files[r[p].build]
        /\ \A w \in DOMAIN Files[r[p].build] : w < r'[p].v => w <= r[p].v
  BY <1>4
<1>7. /\ holder' = p /\ calm' = calm /\ failures' = failures /\ uncleaned' = uncleaned
      /\ recorded[r[p].v] \in {None, Blank}
  BY <1>1
<1>8. AtFile(p) /\ recorded' = [recorded EXCEPT ![r[p].v] = File(p)]
  BY <1>1
<1>9. /\ r' \in [Runner -> Run] /\ r'[p].build = r[p].build /\ r'[p].mode = r[p].mode
      /\ r'[p].pc \in {"check", "unlock"}
      /\ \A q \in Runner \ {p} : r'[q] = r[q]
  BY <1>4
<1> QED
  BY <1>5, <1>6, <1>7, <1>8, <1>9, WriteInv

LEMMA ApplyInv ==
  ASSUME IInv, NEW p \in Runner, Apply(p)
  PROVE  IInv'
<1>1. /\ AtFile(p) /\ holder = p
      /\ recorded[r[p].v] = None /\ recorded' = [recorded EXCEPT ![r[p].v] = File(p)]
      /\ r[p].mode = "migrate"
      /\ ran' = [ran EXCEPT ![r[p].v] = @ + 1]
      /\ Go(p, "cleanup")
      /\ UNCHANGED <<failures, holder, uncleaned, calm>>
  BY DEF Apply, IInv, RunsOK, RunOK, Seen, AtFile, LockOK, Working
<1>2. r[p].v \in Version /\ r[p].v \in DOMAIN Files[r[p].build]
  BY <1>1, FileType DEF IInv
<1>3. ran[r[p].v] = 0
  <2>1. ~(ran[r[p].v] > 0)
    BY <1>1, <1>2 DEF IInv, RunsOK, RunOK, Founded, AtFile
  <2> QED
    BY <1>2, <2>1 DEF IInv, TypeOK
<1>4. /\ ran' \in [Version -> Nat] /\ ran'[r[p].v] = 1
      /\ \A v \in Version : v # r[p].v => ran'[v] = ran[v]
  BY <1>1, <1>2, <1>3 DEF IInv, TypeOK
<1>5. /\ r' \in [Runner -> Run]
      /\ r'[p].pc = "cleanup" /\ r'[p].build = r[p].build
      /\ r'[p].mode = r[p].mode /\ r'[p].v = r[p].v
      /\ \A q \in Runner \ {p} : r'[q] = r[q]
  BY <1>1, GoEffect DEF IInv
<1>6. \A w \in DOMAIN Files[r[p].build] : w < r'[p].v => w <= r[p].v
  <2>1. r[p].build \in Build
    BY <1>1, FileType DEF IInv
  <2> QED
    BY <1>2, <1>5, <2>1, MigrationsAssumption
<1> QED
  BY <1>1, <1>2, <1>4, <1>5, <1>6, WriteInv

LEMMA RecordFailureInv ==
  ASSUME IInv, NEW p \in Runner, RecordFailure(p)
  PROVE  IInv'
<1>1. /\ AtFile(p) /\ Working(p) /\ failures' = [failures EXCEPT ![r[p].v] = File(p)]
      /\ Go(p, "unlock") /\ UNCHANGED <<ran, recorded, holder, uncleaned, calm>>
      /\ calm => File(p) \in Fragile
  BY DEF RecordFailure, AtFile, Working, IInv, RunsOK, RunOK, Seen
<1>2. /\ r' \in [Runner -> Run]
      /\ r'[p].pc = "unlock" /\ r'[p].build = r[p].build
      /\ r'[p].mode = r[p].mode /\ r'[p].v = r[p].v
      /\ \A q \in Runner \ {p} : r'[q] = r[q]
  BY <1>1, GoEffect DEF IInv
<1>3. r[p].v \in Version /\ File(p) \in Checksum
  BY <1>1, FileType DEF IInv
<1>4. TypeOK'
  BY <1>1, <1>2, <1>3 DEF IInv, TypeOK, AtFile
<1>5. LockOK'
  BY <1>1, <1>2 DEF IInv, LockOK, Working
<1>6. \A q \in Runner \ {p} : RunOK(q)'
  BY <1>1, <1>2, OthersInv
<1>7. RunOK(p)'
  BY <1>1, <1>2 DEF IInv, RunsOK, RunOK, Founded, Passed, Seen, AtFile
<1>8. DataOK'
  BY <1>1, <1>3 DEF IInv, DataOK, AppliedOnce, RecordsAreTrue, OnlyGenuineFailures, TypeOK
<1> QED
  BY <1>4, <1>5, <1>6, <1>7, <1>8 DEF IInv, RunsOK

\* The checks, and the calls that fail.
LEMMA CheckInv ==
  ASSUME IInv, NEW p \in Runner,
         CheckMissing(p) \/ CheckBlank(p) \/ CheckMatch(p) \/ CheckMismatch(p)
           \/ ApplyFails(p) \/ StatementFails(p)
  PROVE  IInv'
<1>1. r[p].mode \in {"migrate", "baseline"} \/ r[p].pc = "idle"
  BY DEF IInv, TypeOK
<1>2. CASE CheckMissing(p)
  BY <1>1, <1>2, GoInv DEF CheckMissing, Working, AtFile
<1>3. CASE CheckBlank(p)
  BY <1>3, GoInv DEF CheckBlank, Working, AtFile
<1>4. CASE CheckMatch(p)
  BY <1>4, NextFileInv DEF CheckMatch, AtFile, IInv, TypeOK
<1>5. CASE CheckMismatch(p)
  BY <1>5, GoInv DEF CheckMismatch, Working, AtFile
<1>6. CASE ApplyFails(p)
  <2>1. recorded[r[p].v] = None
    BY <1>6 DEF ApplyFails, IInv, RunsOK, RunOK, Seen
  <2> QED
    BY <1>6, <2>1, GoInv DEF ApplyFails, Working, AtFile
<1>7. CASE StatementFails(p)
  BY <1>7, GoInv DEF StatementFails, Working, AtFile
<1> QED
  BY <1>2, <1>3, <1>4, <1>5, <1>6, <1>7

LEMMA StepInv == IInv /\ [Next]_vars => IInv'
<1> SUFFICES ASSUME IInv, [Next]_vars PROVE IInv'
  OBVIOUS
<1>1. CASE UNCHANGED vars
  BY <1>1 DEF vars, IInv, TypeOK, LockOK, RunsOK, RunOK, Founded, Passed, Seen, DataOK,
              AppliedOnce, RecordsAreTrue, OnlyGenuineFailures, Working, AtFile, File
<1>2. CASE Next
  <2>1. PICK p \in Runner : Start(p) \/ Migrate(p) \/ Disconnect(p)
    BY <1>2 DEF Next
  <2>2. CASE Start(p)
    BY <2>2, StartInv
  <2>3. CASE LockTimeout(p) \/ Unlock(p) \/ Disconnect(p)
    <3>1. uncleaned' \subseteq Version
      BY <2>3 DEF LockTimeout, Unlock, Disconnect, IInv, TypeOK
    <3> QED
      BY <2>3, <3>1, EndInv DEF LockTimeout, Unlock, Disconnect
  <2>4. CASE Cleanup(p)
    <3>1. AtFile(p) /\ recorded[r[p].v] = File(p)
      BY <2>4 DEF Cleanup, AtFile, IInv, RunsOK, RunOK, Seen
    <3>2. uncleaned' \subseteq Version
      BY <2>4, <3>1, FileType DEF Cleanup, IInv, TypeOK
    <3> QED
      BY <2>4, <3>1, <3>2, NextFileInv DEF Cleanup
  <2> QED
    BY <2>1, <2>2, <2>3, <2>4, AcquireInv, BackfillInv, BaselineInsertInv, ApplyInv,
       RecordFailureInv, CheckInv DEF Migrate
<1> QED
  BY <1>1, <1>2

\* The inductive invariant holds: the lock keeps the records still under the
\* runner that read them.
THEOREM MigrationsInvariance == Spec => []IInv
  BY InitInv, StepInv, PTL DEF Spec

\* Every variable has its type, and a run that holds the lock is at a file of
\* its build (TypeOK).
THEOREM MigrationsTypeCorrect == Spec => []TypeOK
  BY MigrationsInvariance, PTL DEF IInv

\* No migration takes effect twice, however runners race, die and retry
\* (AppliedOnce): SQL and record are one transaction of applyMigration.
THEOREM EffectOnce == Spec => []AppliedOnce
  BY MigrationsInvariance, PTL DEF IInv, DataOK

\* What schema_migrations says was applied has taken effect (RecordsAreTrue).
THEOREM RecordsHold == Spec => []RecordsAreTrue
  BY MigrationsInvariance, PTL DEF IInv, DataOK

\* Instances that start together do not make each other fail
\* (OnlyGenuineFailures): the advisory lock is held from the check to the record.
THEOREM FailuresAreGenuine == Spec => []OnlyGenuineFailures
  BY MigrationsInvariance, PTL DEF IInv, DataOK

\* applyMigration is only called on a database that has, of the earlier files
\* of the build, exactly the contents that the build embeds (HistoryAgrees).
THEOREM HistoryHolds == Spec => []HistoryAgrees
<1>1. IInv => HistoryAgrees
  BY DEF IInv, RunsOK, RunOK, Passed, AtFile, HistoryAgrees
<1> QED
  BY <1>1, MigrationsInvariance, PTL

\* The steps that go on to the next file are taken at a file whose record is, or
\* is now written as, what the build embeds.
LEMMA DoneWithFile ==
  ASSUME IInv, NEW p \in Runner, Succeeds(p)
  PROVE  /\ r[p].pc # "idle" /\ r[p].build \in Build /\ Ahead(p) = {}
         /\ r[p].pc = "lock" => UNCHANGED recorded
         /\ r[p].pc # "lock" =>
              /\ AtFile(p)
              /\ recorded' = [recorded EXCEPT ![r[p].v] = File(p)]
<1>1. Advance(p) /\ r[p].pc \in {"lock", "check", "backfill", "insert", "cleanup"}
  BY DEF Succeeds, AcquireLock, CheckMatch, Backfill, BaselineInsert, Cleanup
<1>2. r[p].build \in Build
  BY <1>1 DEF IInv, TypeOK
<1>3. Ahead(p) = {}
  <2>1. ASSUME NEW v, Step(p, "check", v) PROVE r'[p].pc # "unlock"
    BY <2>1 DEF Step, IInv, TypeOK
  <2> QED
    BY <1>1, <2>1 DEF Succeeds, Advance
<1>4. r[p].pc = "lock" => UNCHANGED recorded
  BY DEF Succeeds, AcquireLock, CheckMatch, Backfill, BaselineInsert, Cleanup
<1>5. ASSUME r[p].pc # "lock"
      PROVE  AtFile(p) /\ recorded' = [recorded EXCEPT ![r[p].v] = File(p)]
  <2>1. AtFile(p) /\ r[p].v \in Version
    BY <1>1, <1>5, FileType DEF AtFile, IInv
  <2>2. CASE CheckMatch(p) \/ Cleanup(p)
    <3>1. recorded[r[p].v] = File(p) /\ recorded' = recorded
      BY <2>2 DEF CheckMatch, Cleanup, IInv, RunsOK, RunOK, Seen
    <3> QED
      BY <2>1, <3>1 DEF IInv, TypeOK
  <2>3. CASE Backfill(p)
    <3>1. recorded[r[p].v] = Blank
      BY <2>3 DEF Backfill, IInv, RunsOK, RunOK, Seen
    <3> QED
      BY <2>1, <2>3, <3>1 DEF Backfill
  <2>4. CASE BaselineInsert(p)
    BY <2>1, <2>4 DEF BaselineInsert
  <2> QED
    BY <1>5, <2>2, <2>3, <2>4 DEF Succeeds, AcquireLock
<1> QED
  BY <1>1, <1>2, <1>3, <1>4, <1>5

\* RunMigrations and BaselineMigrations return without an error only when every
\* file of the build is recorded as it is and has taken effect once, and
\* applyMigration is called only on the history of the build (SchemaFits).
THEOREM ServesItsSchema == Spec => SchemaFits
<1> DEFINE Fits ==
  /\ HistoryAgrees
  /\ \A p \in Runner : Succeeds(p) =>
       \A w \in DOMAIN Files[r[p].build] :
         recorded'[w] = Files[r[p].build][w] /\ ran'[w] = 1
<1>1. IInv => HistoryAgrees
  BY DEF IInv, RunsOK, RunOK, Passed, AtFile, HistoryAgrees
<1>2. ASSUME IInv, Next, NEW p \in Runner, Succeeds(p), NEW w \in DOMAIN Files[r[p].build]
      PROVE  recorded'[w] = Files[r[p].build][w] /\ ran'[w] = 1
  <2>1. /\ r[p].build \in Build /\ w \in Version /\ Files[r[p].build][w] # None
        /\ w <= r[p].v
    <3>1. r[p].build \in Build /\ w \in Version /\ Files[r[p].build][w] # None
      BY <1>2, DoneWithFile, MigrationsAssumption
    <3>2. r[p].v \in Int /\ w \in Int /\ ~(r[p].v < w)
      BY <1>2, <3>1, DoneWithFile, MigrationsAssumption DEF Ahead, IInv, TypeOK, Run
    <3> QED
      BY <3>1, <3>2
  <2>2. CASE r[p].pc = "lock"
    <3>1. r[p].v = 0
      BY <1>2, <2>2 DEF IInv, TypeOK
    <3> QED
      BY <2>1, <3>1, MigrationsAssumption
  <2>3. CASE r[p].pc # "lock"
    <3>1. AtFile(p) /\ recorded' = [recorded EXCEPT ![r[p].v] = File(p)]
      BY <1>2, <2>3, DoneWithFile
    <3>2. w < r[p].v => recorded[w] = Files[r[p].build][w]
      BY <1>2, <3>1 DEF IInv, RunsOK, RunOK, Passed
    <3>3. w < r[p].v \/ w = r[p].v
      BY <1>2, <2>1, MigrationsAssumption DEF IInv, TypeOK, Run
    <3>4. recorded'[w] = Files[r[p].build][w]
      BY <1>2, <2>1, <3>1, <3>2, <3>3 DEF File, IInv, TypeOK
    <3>5. IInv'
      BY <1>2, StepInv
    <3>6. ran'[w] > 0 /\ ran'[w] <= 1 /\ ran'[w] \in Nat
      BY <1>2, <2>1, <3>4, <3>5 DEF IInv, DataOK, AppliedOnce, RecordsAreTrue, TypeOK
    <3> QED
      BY <3>4, <3>6
  <2> QED
    BY <2>2, <2>3
<1>3. IInv /\ [Next]_vars => [Fits]_vars
  BY <1>1, <1>2
<1>4. Spec => [][Fits]_vars
  BY <1>3, MigrationsInvariance, PTL DEF Spec
<1> QED
  BY <1>4 DEF SchemaFits

\* A recorded checksum is never rewritten, by a run or a baseline
\* (ChecksumIsFinal).
THEOREM ChecksumsStand == Spec => ChecksumIsFinal
<1>1. IInv /\ [Next]_vars =>
        [\A v \in Version : recorded[v] \in Checksum => recorded'[v] = recorded[v]]_vars
  <2> SUFFICES ASSUME IInv, Next, NEW v \in Version, recorded[v] \in Checksum
               PROVE  recorded'[v] = recorded[v]
    OBVIOUS
  <2>1. PICK p \in Runner : Start(p) \/ Migrate(p) \/ Disconnect(p)
    BY DEF Next
  <2>2. CASE Backfill(p) \/ BaselineInsert(p) \/ Apply(p)
    BY <2>2, MigrationsAssumption DEF Backfill, BaselineInsert, Apply, IInv, TypeOK
  <2>3. CASE ~(Backfill(p) \/ BaselineInsert(p) \/ Apply(p))
    BY <2>1, <2>3 DEF Migrate, Start, Disconnect, AcquireLock, LockTimeout, CheckMissing,
       CheckBlank, CheckMatch, CheckMismatch, ApplyFails, RecordFailure, Cleanup, StatementFails, Unlock
  <2> QED
    BY <2>2, <2>3
<1> QED
  BY <1>1, MigrationsInvariance, PTL DEF Spec, ChecksumIsFinal

-----------------------------------------------------------------------------
(* Failures.  A migration whose failure is listed has not taken effect or is  *)
(* recorded, so that a baseline never records a failed one; and the runner    *)
(* that is about to list a failure is at a missing migration.                 *)

FailedIsMissing ==
  \A v \in Version : failures[v] # None => ran[v] = 0 \/ recorded[v] # None

RolledBack(p) ==
  r[p].pc = "recordFailure" => recorded[r[p].v] = None /\ ran[r[p].v] = 0

Pending == FailedIsMissing /\ (\A p \in Runner : RolledBack(p)) /\ FailuresArePending

\* Steps of runners that write neither records nor failures, and leave no cleanup
\* without a trace.
LEMMA QuietPending ==
  ASSUME IInv, Pending, NEW p \in Runner, UNCHANGED <<ran, recorded, failures>>,
         uncleaned \subseteq uncleaned',
         r[p].pc = "cleanup" => r[p].v \in uncleaned',
         \A q \in Runner \ {p} : r'[q] = r[q], RolledBack(p)'
  PROVE  Pending'
<1>1. FailedIsMissing' /\ \A q \in Runner : RolledBack(q)'
  BY DEF Pending, FailedIsMissing, RolledBack
<1>2. FailuresArePending'
  BY DEF Pending, FailuresArePending
<1> QED
  BY <1>1, <1>2 DEF Pending

\* The holder of the lock writes the record of a file without a listed failure,
\* or of one whose cleanup was missed before.
LEMMA RecordPending ==
  ASSUME IInv, Pending, NEW p \in Runner, Backfill(p) \/ BaselineInsert(p)
  PROVE  Pending'
<1>1. /\ AtFile(p) /\ Working(p) /\ r[p].pc \in {"backfill", "insert"}
      /\ r[p].v \in Version /\ r[p].v \in DOMAIN Files[r[p].build]
      /\ UNCHANGED <<ran, failures, uncleaned>>
  BY FileType DEF Backfill, BaselineInsert, AtFile, Working, IInv
<1>2. \A v \in Version : v # r[p].v => recorded'[v] = recorded[v]
  BY DEF Backfill, BaselineInsert, IInv, TypeOK
<1>3. /\ \A q \in Runner \ {p} : r'[q] = r[q] /\ ~Working(q)
      /\ r'[p].pc \in {"check", "unlock"}
  BY <1>1, AdvanceEffect DEF Backfill, BaselineInsert, IInv, LockOK
<1>4. failures[r[p].v] = None \/ r[p].v \in uncleaned
  <2>1. CASE Backfill(p)
    <3>1. recorded[r[p].v] # None
      BY <2>1, MigrationsAssumption DEF Backfill, IInv, RunsOK, RunOK, Seen
    <3>2. ~ \E q \in Runner : r[q].pc = "cleanup"
      BY <1>1, <1>3 DEF Working
    <3> QED
      BY <1>1, <3>1, <3>2 DEF Pending, FailuresArePending
  <2>2. CASE BaselineInsert(p)
    <3>1. recorded[r[p].v] = None /\ ran[r[p].v] > 0
      BY <1>1, <2>2 DEF BaselineInsert, IInv, RunsOK, RunOK, Seen, Founded
    <3> QED
      BY <1>1, <3>1 DEF Pending, FailedIsMissing
  <2> QED
    BY <2>1, <2>2
<1>5. FailedIsMissing'
  <2>1. recorded'[r[p].v] # None
    <3>1. recorded' = [recorded EXCEPT ![r[p].v] = File(p)]
      BY DEF Backfill, BaselineInsert, IInv, RunsOK, RunOK, Seen
    <3> QED
      BY <1>1, <3>1, FileType DEF IInv, TypeOK
  <2> QED
    BY <1>1, <1>2, <2>1 DEF Pending, FailedIsMissing
<1>6. \A q \in Runner : RolledBack(q)'
  BY <1>3 DEF RolledBack, Working
<1>7. FailuresArePending'
  BY <1>1, <1>2, <1>3, <1>4 DEF Pending, FailuresArePending, Working
<1> QED
  BY <1>5, <1>6, <1>7 DEF Pending

\* A migration that is applied is cleaned up next.
LEMMA ApplyPending ==
  ASSUME IInv, Pending, NEW p \in Runner, Apply(p)
  PROVE  Pending'
<1>1. /\ AtFile(p) /\ Working(p) /\ r[p].pc = "apply" /\ r[p].v \in Version
      /\ File(p) # None
      /\ UNCHANGED <<failures, uncleaned>>
  BY FileType DEF Apply, AtFile, Working, IInv
<1>2. /\ recorded'[r[p].v] = File(p)
      /\ \A v \in Version : v # r[p].v => recorded'[v] = recorded[v] /\ ran'[v] = ran[v]
  BY <1>1 DEF Apply, IInv, TypeOK
<1>3. /\ r'[p].pc = "cleanup" /\ r'[p].v = r[p].v
      /\ \A q \in Runner \ {p} : r'[q] = r[q] /\ ~Working(q)
  BY <1>1, GoEffect DEF Apply, IInv, LockOK
<1>4. FailedIsMissing'
  BY <1>1, <1>2 DEF Pending, FailedIsMissing
<1>5. \A q \in Runner : RolledBack(q)'
  BY <1>3 DEF RolledBack, Working
<1>6. FailuresArePending'
  BY <1>1, <1>2, <1>3 DEF Pending, FailuresArePending, Working
<1> QED
  BY <1>4, <1>5, <1>6 DEF Pending

\* A failure is listed for a missing migration, and cleaned up with its record.
LEMMA ListPending ==
  ASSUME IInv, Pending, NEW p \in Runner, RecordFailure(p) \/ Cleanup(p)
  PROVE  Pending'
<1>1. /\ AtFile(p) /\ r[p].v \in Version /\ r[p].pc \in {"recordFailure", "cleanup"}
      /\ UNCHANGED <<ran, recorded>> /\ uncleaned \subseteq uncleaned'
  BY FileType DEF RecordFailure, Cleanup, AtFile, IInv
<1>2. /\ \A q \in Runner \ {p} : r'[q] = r[q]
      /\ r'[p].pc \in {"check", "unlock"}
  BY <1>1, GoEffect, AdvanceEffect DEF RecordFailure, Cleanup, IInv
<1>3. /\ \/ failures'[r[p].v] = None
         \/ recorded[r[p].v] = None /\ ran[r[p].v] = 0
         \/ failures'[r[p].v] = failures[r[p].v] /\ r[p].v \in uncleaned'
      /\ \A v \in Version : v # r[p].v => failures'[v] = failures[v]
  <2>1. failures \in [Version -> Checksum \cup {None}]
    BY DEF IInv, TypeOK
  <2>2. CASE RecordFailure(p)
    <3>1. failures' = [failures EXCEPT ![r[p].v] = File(p)] /\ r[p].pc = "recordFailure"
      BY <2>2 DEF RecordFailure
    <3>2. RolledBack(p)
      BY DEF Pending
    <3> QED
      BY <2>1, <3>1, <3>2 DEF RolledBack
  <2>3. CASE Cleanup(p) /\ failures' = [failures EXCEPT ![r[p].v] = None]
    BY <1>1, <2>1, <2>3
  <2>4. CASE Cleanup(p) /\ failures' = failures /\ r[p].v \in uncleaned'
    BY <2>4
  <2> QED
    BY <2>2, <2>3, <2>4 DEF Cleanup
<1>4. FailedIsMissing' /\ \A q \in Runner : RolledBack(q)'
  BY <1>1, <1>2, <1>3 DEF Pending, FailedIsMissing, RolledBack
<1>5. FailuresArePending'
  BY <1>1, <1>2, <1>3 DEF Pending, FailuresArePending
<1> QED
  BY <1>4, <1>5 DEF Pending

LEMMA ApplyFailsPending ==
  ASSUME IInv, Pending, NEW p \in Runner, ApplyFails(p)
  PROVE  Pending'
<1>1. /\ AtFile(p) /\ r[p].pc = "apply" /\ r[p].v \in Version
      /\ UNCHANGED <<ran, recorded, failures, uncleaned>>
  BY FileType DEF ApplyFails, AtFile, IInv
<1>2. recorded[r[p].v] = None /\ ran[r[p].v] = 0
  <2>1. recorded[r[p].v] = None /\ ~(ran[r[p].v] > 0)
    BY <1>1 DEF IInv, RunsOK, RunOK, Seen, Founded
  <2> QED
    BY <1>1, <2>1 DEF IInv, TypeOK
<1>3. r'[p].v = r[p].v /\ \A q \in Runner \ {p} : r'[q] = r[q]
  BY GoEffect DEF ApplyFails, IInv
<1> QED
  BY <1>1, <1>2, <1>3, QuietPending DEF RolledBack

LEMMA StepPending == IInv /\ Pending /\ [Next]_vars => Pending'
<1> SUFFICES ASSUME IInv, Pending, [Next]_vars PROVE Pending'
  OBVIOUS
<1>1. CASE UNCHANGED vars
  BY <1>1 DEF vars, Pending, FailedIsMissing, RolledBack, FailuresArePending
<1>2. CASE Next
  <2>1. PICK p \in Runner : Start(p) \/ Migrate(p) \/ Disconnect(p)
    BY <1>2 DEF Next
  <2>2. CASE Start(p)
    <3>1. r[p].pc = "idle" /\ r'[p].pc = "lock" /\ \A q \in Runner \ {p} : r'[q] = r[q]
      BY <2>2 DEF Start, Idle, IInv, TypeOK
    <3> QED
      BY <2>2, <3>1, QuietPending DEF Start, RolledBack
  <2>3. CASE LockTimeout(p) \/ Unlock(p)
    <3>1. r'[p].pc = "idle" /\ \A q \in Runner \ {p} : r'[q] = r[q]
      BY <2>3, IdleEffect DEF LockTimeout, Unlock, IInv
    <3> QED
      BY <2>3, <3>1, QuietPending DEF LockTimeout, Unlock, RolledBack
  <2>4. CASE Disconnect(p)
    <3>1. r'[p].pc = "idle" /\ \A q \in Runner \ {p} : r'[q] = r[q]
      BY <2>4, IdleEffect DEF Disconnect, IInv
    <3>2. uncleaned \subseteq uncleaned' /\ (r[p].pc = "cleanup" => r[p].v \in uncleaned')
      BY <2>4, FileType DEF Disconnect, AtFile, IInv
    <3> QED
      BY <2>4, <3>1, <3>2, QuietPending DEF Disconnect, RolledBack
  <2>5. CASE AcquireLock(p) \/ CheckMatch(p)
    <3>1. r'[p].pc \in {"check", "unlock"} /\ \A q \in Runner \ {p} : r'[q] = r[q]
      BY <2>5, AdvanceEffect DEF AcquireLock, CheckMatch, IInv
    <3> QED
      BY <2>5, <3>1, QuietPending DEF AcquireLock, CheckMatch, RolledBack
  <2>6. CASE CheckMissing(p) \/ CheckBlank(p) \/ CheckMismatch(p) \/ StatementFails(p)
    <3>1. /\ r'[p].pc \in {"apply", "insert", "backfill", "unlock"}
          /\ \A q \in Runner \ {p} : r'[q] = r[q]
      BY <2>6, GoEffect DEF CheckMissing, CheckBlank, CheckMismatch, StatementFails, IInv
    <3> QED
      BY <2>6, <3>1, QuietPending
      DEF CheckMissing, CheckBlank, CheckMismatch, StatementFails, RolledBack
  <2> QED
    BY <2>1, <2>2, <2>3, <2>4, <2>5, <2>6, RecordPending, ApplyPending, ListPending,
       ApplyFailsPending DEF Migrate
<1> QED
  BY <1>1, <1>2

\* A listed failure is of a migration that is missing, or is about to be removed
\* by the cleanup of applyMigration, or that cleanup failed or was cut off
\* (FailuresArePending): no baseline and no back-filled checksum leaves one behind.
THEOREM FailuresStayPending == Spec => []FailuresArePending
<1>1. Init => Pending
  <2> SUFFICES ASSUME Init PROVE Pending
    OBVIOUS
  <2>1. \A p \in Runner : r[p].pc = "idle"
    BY DEF Init, Idle
  <2> QED
    BY <2>1 DEF Init, Pending, FailedIsMissing, RolledBack, FailuresArePending
<1>2. Pending => FailuresArePending
  BY DEF Pending
<1> QED
  BY <1>1, <1>2, StepPending, MigrationsInvariance, PTL DEF Spec

-----------------------------------------------------------------------------
(* Progress.  What a run still has to do, counted in calls: no step of another *)
(* runner adds to it, so that a run that goes on making calls comes to an end. *)

Left(p) ==
  CASE r[p].pc = "idle" -> 0
    [] r[p].pc = "unlock" -> 1
    [] r[p].pc = "lock" -> 4 * Last + 5
    [] r[p].pc = "check" -> 4 * (Last - r[p].v) + 4
    [] r[p].pc = "apply" -> 4 * (Last - r[p].v) + 3
    [] OTHER -> 4 * (Last - r[p].v) + 2

\* The value of Left at every place of a run.
LEMMA LeftValue ==
  ASSUME IInv, NEW p \in Runner
  PROVE  /\ Left(p) \in Nat /\ Left(p) <= 4 * Last + 5
         /\ r[p].v \in Int /\ r[p].v <= Last
         /\ r[p].pc = "idle" <=> Left(p) = 0
         /\ r[p].pc = "unlock" => Left(p) = 1
         /\ r[p].pc = "lock" => Left(p) = 4 * Last + 5 /\ r[p].v = 0
         /\ r[p].pc = "check" => Left(p) = 4 * (Last - r[p].v) + 4
         /\ r[p].pc = "apply" => Left(p) = 4 * (Last - r[p].v) + 3
         /\ r[p].pc \in {"backfill", "recordFailure", "cleanup", "insert"} =>
              Left(p) = 4 * (Last - r[p].v) + 2
         /\ AtFile(p) => r[p].v \in Version
<1>1. r[p].pc \in PC /\ r[p].v \in 0 .. Last /\ Last \in Nat
  BY MigrationsAssumption DEF IInv, TypeOK, Run
<1>2. r[p].pc = "lock" => r[p].v = 0
  BY DEF IInv, TypeOK
<1>3. AtFile(p) => r[p].v \in Version
  BY FileType DEF IInv
<1> QED
  BY <1>1, <1>2, <1>3 DEF Left

\* The next file is a later one, and there are no more than Last of them.
LEMMA AdvanceLowers ==
  ASSUME IInv, IInv', NEW p \in Runner, r[p].pc \notin {"idle", "unlock"}, Advance(p)
  PROVE  Left(p)' < Left(p)
<1>1. /\ r[p].build \in Build /\ DOMAIN Files[r[p].build] \subseteq Version
      /\ r[p].v \in 0 .. Last /\ r[p].pc \in PC /\ Last \in Nat
  BY MigrationsAssumption DEF IInv, TypeOK, Run
<1>2. Left(p) >= 4 * (Last - r[p].v) + 2
  BY <1>1, LeftValue
<1>3. CASE Ahead(p) = {} /\ Go(p, "unlock")
  <2>1. r'[p].pc = "unlock"
    BY <1>3, GoEffect DEF IInv
  <2>2. Left(p)' = 1
    BY <2>1 DEF Left
  <2> QED
    BY <1>1, <1>2, <2>2, LeftValue
<1>4. CASE \E v \in Ahead(p) : (\A w \in Ahead(p) : v <= w) /\ Step(p, "check", v)
  <2>1. PICK v \in Ahead(p) : Step(p, "check", v)
    BY <1>4
  <2>2. r'[p].pc = "check" /\ r'[p].v = v
    BY <2>1 DEF Step, IInv, TypeOK
  <2>3. v \in Version /\ r[p].v < v
    BY <1>1, <2>1 DEF Ahead
  <2>4. Left(p)' = 4 * (Last - v) + 4
    BY <2>2 DEF Left
  <2> QED
    BY <1>1, <1>2, <2>3, <2>4, LeftValue
<1> QED
  BY <1>3, <1>4 DEF Advance

\* Every call of a run leaves it less to do.
LEMMA MigrateLowers ==
  ASSUME IInv, IInv', NEW p \in Runner, Migrate(p)
  PROVE  /\ Left(p)' < Left(p)
         /\ \A q \in Runner \ {p} : r'[q] = r[q]
<1>1. CASE \/ AcquireLock(p) \/ CheckMatch(p) \/ Backfill(p) \/ BaselineInsert(p)
           \/ Cleanup(p)
  <2>1. Advance(p) /\ r[p].pc \notin {"idle", "unlock"}
    BY <1>1 DEF AcquireLock, CheckMatch, Backfill, BaselineInsert, Cleanup
  <2> QED
    BY <2>1, AdvanceLowers, AdvanceEffect DEF IInv
<1>2. CASE LockTimeout(p) \/ Unlock(p)
  <2>1. r[p].pc \in {"lock", "unlock"} /\ r' = [r EXCEPT ![p] = Idle]
    BY <1>2 DEF LockTimeout, Unlock
  <2>2. r'[p].pc = "idle" /\ \A q \in Runner \ {p} : r'[q] = r[q]
    BY <2>1, IdleEffect DEF IInv
  <2>3. Left(p)' = 0 /\ Left(p) # 0
    BY <2>1, <2>2, LeftValue DEF Left
  <2> QED
    BY <2>2, <2>3, LeftValue
<1>3. CASE \/ CheckMissing(p) \/ CheckBlank(p) \/ CheckMismatch(p) \/ Apply(p)
           \/ ApplyFails(p) \/ RecordFailure(p) \/ StatementFails(p)
  <2>1. PICK pc \in PC :
          /\ Go(p, pc)
          /\ \/ r[p].pc = "check" /\ pc \in {"apply", "insert", "backfill", "unlock"}
             \/ r[p].pc = "apply" /\ pc \in {"cleanup", "recordFailure"}
             \/ r[p].pc \in {"backfill", "insert", "recordFailure"} /\ pc = "unlock"
    BY <1>3 DEF CheckMissing, CheckBlank, CheckMismatch, Apply, ApplyFails, RecordFailure,
                StatementFails
  <2>2. /\ r'[p].pc = pc /\ r'[p].v = r[p].v
        /\ \A q \in Runner \ {p} : r'[q] = r[q]
    BY <2>1, GoEffect DEF IInv
  <2>3. Left(p)' = IF pc = "unlock" THEN 1
                   ELSE IF pc = "apply" THEN 4 * (Last - r[p].v) + 3
                   ELSE 4 * (Last - r[p].v) + 2
    BY <2>1, <2>2 DEF Left
  <2>4. AtFile(p) /\ r[p].v <= Last /\ r[p].v \in Int /\ Last \in Nat
    BY <2>1, LeftValue, MigrationsAssumption DEF AtFile
  <2> QED
    BY <2>1, <2>2, <2>3, <2>4, LeftValue
<1> QED
  BY <1>1, <1>2, <1>3 DEF Migrate

\* A run of RunMigrations or BaselineMigrations makes at most 4 * Last + 5 calls:
\* each of its steps leaves it less to do and no step of another runner adds to
\* that, so no runners keep each other going round (what EveryRunEnds rests on).
THEOREM RunsAdvance ==
  Spec => [][\A p \in Runner :
              /\ Left(p) \in 0 .. 4 * Last + 5
              /\ Left(p) = 0 <=> r[p].pc = "idle"
              /\ Migrate(p) => Left(p)' < Left(p)
              /\ Start(p) \/ Left(p)' <= Left(p)]_vars
<1> DEFINE Advances(p) ==
  /\ Left(p) \in 0 .. 4 * Last + 5
  /\ Left(p) = 0 <=> r[p].pc = "idle"
  /\ Migrate(p) => Left(p)' < Left(p)
  /\ Start(p) \/ Left(p)' <= Left(p)
<1>1. ASSUME IInv, Next, NEW p \in Runner
      PROVE  Advances(p)
  <2>1. IInv'
    BY <1>1, StepInv
  <2>2. /\ Left(p) \in 0 .. 4 * Last + 5
        /\ Left(p) = 0 <=> r[p].pc = "idle"
        /\ Left(p) \in Nat /\ Left(p)' \in Nat
    <3>1. Left(p) \in Nat /\ Left(p) <= 4 * Last + 5 /\ (r[p].pc = "idle" <=> Left(p) = 0)
      BY <1>1, LeftValue
    <3>2. Left(p)' \in Nat
      BY <1>1, <2>1, MigrationsAssumption DEF Left, IInv, TypeOK, Run
    <3> QED
      BY <3>1, <3>2, MigrationsAssumption
  <2>3. Migrate(p) => Left(p)' < Left(p)
    BY <1>1, <2>1, MigrateLowers
  <2>4. Start(p) \/ Left(p)' <= Left(p)
    <3>1. PICK q \in Runner : Start(q) \/ Migrate(q) \/ Disconnect(q)
      BY <1>1 DEF Next
    <3>2. CASE q = p
      <4>1. Disconnect(p) => Left(p)' = 0
        BY <1>1, IdleEffect DEF Disconnect, Left, IInv
      <4> QED
        BY <2>2, <2>3, <3>1, <3>2, <4>1
    <3>3. CASE q # p
      <4>1. r'[p] = r[p]
        <5>1. CASE Start(q)
          BY <1>1, <3>3, <5>1 DEF Start, IInv, TypeOK
        <5>2. CASE Migrate(q)
          BY <1>1, <2>1, <3>3, <5>2, MigrateLowers
        <5>3. CASE Disconnect(q)
          BY <1>1, <3>3, <5>3 DEF Disconnect, IInv, TypeOK
        <5> QED
          BY <3>1, <5>1, <5>2, <5>3
      <4>2. Left(p)' = Left(p)
        BY <4>1 DEF Left
      <4> QED
        BY <2>2, <4>2
    <3> QED
      BY <3>2, <3>3
  <2> QED
    BY <2>2, <2>3, <2>4
<1>2. IInv /\ [Next]_vars => [\A p \in Runner : Advances(p)]_vars
  BY <1>1
<1>3. Spec => [][\A p \in Runner : Advances(p)]_vars
  BY <1>2, MigrationsInvariance, PTL DEF Spec
<1> QED
  BY <1>3

\* Where the loop goes on to, and what a next call of a run does when nothing
\* fails but what has to.
Placed(p, pc, v) ==
  [r EXCEPT ![p] = [pc |-> pc, build |-> r[p].build, mode |-> r[p].mode, v |-> v]]
Here(p, pc) == Placed(p, pc, r[p].v)
First(p) == CHOOSE v \in Ahead(p) : \A w \in Ahead(p) : v <= w
Further(p) == IF Ahead(p) = {} THEN Here(p, "unlock") ELSE Placed(p, "check", First(p))

AfterCheck(p) ==
  CASE recorded[r[p].v] = None -> Here(p, IF r[p].mode = "migrate" THEN "apply" ELSE "insert")
    [] recorded[r[p].v] = Blank -> Here(p, "backfill")
    [] recorded[r[p].v] = File(p) -> Further(p)
    [] OTHER -> Here(p, "unlock")

Onward(p) ==
  CASE r[p].pc = "lock" ->
         <<ran, recorded, failures, holder, uncleaned, calm, [r EXCEPT ![p] = Idle]>>
    [] r[p].pc = "check" -> <<ran, recorded, failures, holder, uncleaned, calm, AfterCheck(p)>>
    [] r[p].pc \in {"backfill", "insert"} ->
         <<ran, [recorded EXCEPT ![r[p].v] = File(p)], failures, holder, uncleaned, calm,
           Further(p)>>
    [] r[p].pc = "apply" ->
         <<[ran EXCEPT ![r[p].v] = @ + 1], [recorded EXCEPT ![r[p].v] = File(p)],
           failures, holder, uncleaned, calm, Here(p, "cleanup")>>
    [] r[p].pc = "recordFailure" ->
         <<ran, recorded, [failures EXCEPT ![r[p].v] = File(p)], holder, uncleaned, calm,
           Here(p, "unlock")>>
    [] r[p].pc = "cleanup" ->
         <<ran, recorded, [failures EXCEPT ![r[p].v] = None], holder, uncleaned, calm, Further(p)>>
    [] r[p].pc = "unlock" ->
         <<ran, recorded, failures, IF holder = p THEN None ELSE holder, uncleaned, calm,
           [r EXCEPT ![p] = Idle]>>

LEMMA LeastNumber ==
  ASSUME NEW S, S \subseteq Nat, S # {}
  PROVE  \E m \in S : \A n \in S : m <= n
<1>1. \E m \in S : \A n \in S : ~(<<n, m>> \in OpToRel(<, Nat))
  BY WFMin, NatLessThanWellFounded
<1>2. ASSUME NEW m \in Nat, NEW n \in Nat, n < m PROVE <<n, m>> \in OpToRel(<, Nat)
  BY <1>2 DEF OpToRel
<1>3. PICK m \in S : \A n \in S : ~(<<n, m>> \in OpToRel(<, Nat))
  BY <1>1
<1>4. ASSUME NEW n \in S PROVE m <= n
  <2>1. m \in Nat /\ n \in Nat /\ ~(n < m)
    BY <1>2, <1>3, <1>4
  <2> QED
    BY <2>1
<1> QED
  BY <1>4

\* The files of a build come one after the other: there is a next one or none.
LEMMA FurtherAdvances ==
  ASSUME IInv, NEW p \in Runner, r[p].pc # "idle", r' = Further(p)
  PROVE  Advance(p)
<1>1. Ahead(p) \subseteq Nat
  BY MigrationsAssumption DEF IInv, TypeOK, Ahead
<1>2. CASE Ahead(p) = {}
  BY <1>2 DEF Further, Here, Placed, Advance, Go, Step
<1>3. CASE Ahead(p) # {}
  <2>1. \E v \in Ahead(p) : \A w \in Ahead(p) : v <= w
    BY <1>1, <1>3, LeastNumber
  <2>2. First(p) \in Ahead(p) /\ \A w \in Ahead(p) : First(p) <= w
    BY <2>1 DEF First
  <2>3. Step(p, "check", First(p))
    BY <1>3 DEF Further, Placed, Step
  <2> QED
    BY <2>2, <2>3 DEF Advance
<1> QED
  BY <1>2, <1>3

\* A run never waits for another: wherever it is, a call of it can be made, even
\* while the lock is taken and whatever the other runs have left behind.  With
\* RunsAdvance, a run of a runner that goes on making calls ends (EveryRunEnds).
THEOREM RunsGoOn ==
  ASSUME IInv, NEW p \in Runner, r[p].pc # "idle", vars' = Onward(p)
  PROVE  Migrate(p)
<1>1. r[p].pc \in PC /\ r[p].mode \in {"migrate", "baseline"}
  BY DEF IInv, TypeOK, Run
<1>2. Seen(p)
  BY DEF IInv, RunsOK, RunOK
<1>3. r' = Further(p) => Advance(p)
  BY FurtherAdvances
<1>4. CASE r[p].pc = "lock"
  <2>1. LockTimeout(p)
    BY <1>4 DEF vars, Onward, LockTimeout
  <2> QED
    BY <2>1 DEF Migrate
<1>5. CASE r[p].pc = "check"
  <2>1. r' = AfterCheck(p) /\ UNCHANGED <<ran, recorded, failures, holder, uncleaned, calm>>
    BY <1>5 DEF vars, Onward
  <2>2. File(p) # None /\ File(p) # Blank /\ None # Blank
    BY <1>5, FileType, MigrationsAssumption DEF AtFile, IInv
  <2>3. CASE recorded[r[p].v] = None
    <3> DEFINE pc == IF r[p].mode = "migrate" THEN "apply" ELSE "insert"
    <3>1. r' = Here(p, pc)
      BY <2>1, <2>2, <2>3 DEF AfterCheck
    <3>2. Go(p, pc)
      BY <3>1 DEF Here, Placed, Go, Step
    <3>3. CheckMissing(p)
      BY <1>5, <2>1, <2>3, <3>2 DEF CheckMissing
    <3> QED
      BY <3>3 DEF Migrate
  <2>4. CASE recorded[r[p].v] # None /\ recorded[r[p].v] = Blank
    <3>1. r' = Here(p, "backfill")
      BY <2>1, <2>2, <2>4 DEF AfterCheck
    <3>2. Go(p, "backfill")
      BY <3>1 DEF Here, Placed, Go, Step
    <3>3. CheckBlank(p)
      BY <1>5, <2>1, <2>4, <3>2 DEF CheckBlank
    <3> QED
      BY <3>3 DEF Migrate
  <2>5. CASE recorded[r[p].v] \notin {None, Blank} /\ recorded[r[p].v] = File(p)
    <3>1. CheckMatch(p)
      BY <1>3, <1>5, <2>1, <2>5 DEF AfterCheck, CheckMatch
    <3> QED
      BY <3>1 DEF Migrate
  <2>6. CASE recorded[r[p].v] \notin {None, Blank, File(p)}
    <3>1. CheckMismatch(p)
      BY <1>5, <2>1, <2>6 DEF AfterCheck, Here, Placed, CheckMismatch, Go, Step
    <3> QED
      BY <3>1 DEF Migrate
  <2> QED
    BY <2>3, <2>4, <2>5, <2>6
<1>6. CASE r[p].pc = "backfill"
  <2>1. Backfill(p)
    BY <1>2, <1>3, <1>6 DEF vars, Onward, Backfill, Seen
  <2> QED
    BY <2>1 DEF Migrate
<1>7. CASE r[p].pc = "insert"
  <2>1. BaselineInsert(p)
    BY <1>2, <1>3, <1>7 DEF vars, Onward, BaselineInsert, Seen
  <2> QED
    BY <2>1 DEF Migrate
<1>8. CASE r[p].pc = "apply"
  <2>1. Apply(p)
    BY <1>2, <1>8 DEF vars, Onward, Apply, Seen, Here, Placed, Go, Step
  <2> QED
    BY <2>1 DEF Migrate
<1>9. CASE r[p].pc = "recordFailure"
  <2>1. RecordFailure(p)
    BY <1>9 DEF vars, Onward, RecordFailure, Here, Placed, Go, Step
  <2> QED
    BY <2>1 DEF Migrate
<1>10. CASE r[p].pc = "cleanup"
  <2>1. Cleanup(p)
    BY <1>3, <1>10 DEF vars, Onward, Cleanup
  <2> QED
    BY <2>1 DEF Migrate
<1>11. CASE r[p].pc = "unlock"
  <2>1. Unlock(p)
    BY <1>11 DEF vars, Onward, Unlock
  <2> QED
    BY <2>1 DEF Migrate
<1> QED
  BY <1>1, <1>4, <1>5, <1>6, <1>7, <1>8, <1>9, <1>10, <1>11
=============================================================================
