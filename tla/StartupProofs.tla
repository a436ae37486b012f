----------------------------- MODULE StartupProofs -----------------------------
(***************************************************************************)
(* Theorems about Startup, for every number of processes, of migrations,   *)
(* of tokens, of requests and of failures, and every mixture of versions   *)
(* and ways to start.                                                      *)
(***************************************************************************)
EXTENDS Startup, TLAPS

-----------------------------------------------------------------------------
(* The inductive invariant.                                                *)

Early == {"down", "check", "ensure", "read"}

\* A process that looks at schema_migrations, or runs migrations, finds it.
LedgerIsThere ==
  \A p \in Process : proc[p].pc \in {"read", "run"} => ledger # None

\* What a process has found pending is a final part of its migrations that begins
\* no later than where the schema ends: others may have gone on meanwhile.
PendingIsRest ==
  \A p \in Process : proc[p].pc = "run" =>
    \E k \in 0..Len(schema) : proc[p].pending = k + 1..proc[p].files

CheckedIsMigrated ==
  \A p \in Process : proc[p].checked =>
    /\ proc[p].pc \notin Early
    /\ proc[p].pc # "run" => proc[p].files <= Len(schema)

FreshRows == \A a \in App : a >= next => apps[a] = None

\* The bound on the records: without a default app, as many records were created
\* as requests were served; another one was seeded if there is one.
RowsAreBounded ==
  /\ next <= requests + 2
  /\ DefaultRows = {} => next <= requests + 1

IInv ==
  /\ TypeOK
  /\ SchemaIsWhole
  /\ LedgerIsThere
  /\ PendingIsRest
  /\ CheckedIsMigrated
  /\ FreshRows
  /\ RowsAreBounded
  /\ SeededOnce
  /\ TokensNameApps

-----------------------------------------------------------------------------
(* Types of the parts.                                                     *)

LEMMA Bounds ==
  /\ Files \in Nat /\ OldFiles \in 1..Files /\ AppsFile \in 1..OldFiles
  /\ MaxRequests \in Nat /\ MaxFailures \in Nat
  BY FilesAssumption, BoundAssumption

LEMMA NoneIsNoApp == None \notin App /\ Unassigned \notin App /\ None # Unassigned
  BY NoneAssumption

LEMMA DownType ==
  ASSUME NEW n \in OldFiles..Files
  PROVE  Down(n) \in ProcessType
  BY Bounds DEF Down, ProcessType, State

LEMMA AtType ==
  ASSUME TypeOK, NEW p \in Process
  PROVE  proc[p] \in ProcessType
  BY DEF TypeOK

LEMMA PcType ==
  ASSUME NEW s \in ProcessType, NEW pc \in State
  PROVE  [s EXCEPT !.pc = pc] \in ProcessType
  BY DEF ProcessType

LEMMA GotoType ==
  ASSUME TypeOK, NEW p \in Process, NEW s \in ProcessType, Goto(p, s)
  PROVE  proc' \in [Process -> ProcessType]
  BY DEF TypeOK, Goto

LEMMA ExitType ==
  ASSUME TypeOK, NEW p \in Process, Exit(p)
  PROVE  proc' \in [Process -> ProcessType]
  <1>1. proc[p].files \in OldFiles..Files
    BY AtType DEF ProcessType
  <1>2. Down(proc[p].files) \in ProcessType
    BY <1>1, DownType
  <1>3. QED
    BY <1>2, GotoType DEF Exit

LEMMA StepType ==
  ASSUME TypeOK, NEW p \in Process, NEW pc \in State, Step(p, pc)
  PROVE  proc' \in [Process -> ProcessType]
  <1>1. [proc[p] EXCEPT !.pc = pc] \in ProcessType
    BY AtType, PcType
  <1>2. QED
    BY <1>1, GotoType DEF Step

\* Two default apps are never there, so that the largest is the only one.
LEMMA DefaultType ==
  ASSUME SeededOnce
  PROVE  (IF DefaultRows = {} THEN None ELSE Max(DefaultRows)) \in App \cup {None}
  <1>1. CASE DefaultRows = {}
    BY <1>1
  <1>2. CASE DefaultRows # {}
    <2>1. PICK d \in DefaultRows : DefaultRows = {d}
      BY <1>2 DEF SeededOnce
    <2>2. d \in App /\ d \in Nat
      BY <2>1, Bounds DEF DefaultRows, Present, App
    <2>3. Max(DefaultRows) \in DefaultRows
      BY <2>1, <2>2 DEF Max
    <2>4. QED
      BY <1>2, <2>1, <2>2, <2>3
  <1>3. QED
    BY <1>1, <1>2

LEMMA LoadedType ==
  ASSUME SeededOnce, NEW s \in ProcessType
  PROVE  /\ Loaded(s) \in ProcessType
         /\ Loaded(s).pc = s.pc
         /\ Loaded(s).files = s.files
         /\ Loaded(s).checked = s.checked
  <1>1. Present \subseteq App
    BY DEF Present
  <1>2. QED
    BY <1>1, DefaultType DEF Loaded, ProcessType

LEMMA WiredType ==
  ASSUME TypeOK, NEW s \in ProcessType
  PROVE  /\ Wired(s) \in ProcessType
         /\ Wired(s).pc = s.pc
         /\ Wired(s).files = s.files
         /\ Wired(s).checked = s.checked
  <1> DEFINE w == IF s.providers = {} THEN Fallback ELSE "registry"
             l == w = "config" \/ DefaultOrOnly(s) # None
  <1>1. config \in {"none", "keyless", "full"}
    BY ConfigAssumption DEF TypeOK
  <1>2. w \in {"registry", "config", "nothing"} /\ l \in BOOLEAN
    BY <1>1 DEF Fallback
  <1>3. Wired(s) = [s EXCEPT !.wired = w, !.legacy = l]
    BY DEF Wired
  <1> HIDE DEF w, l
  <1>4. QED
    BY <1>2, <1>3 DEF ProcessType

LEMMA LoadFailedType ==
  ASSUME NEW s \in ProcessType
  PROVE  LoadFailed(s) \in ProcessType
  BY DEF LoadFailed, ProcessType, State

LEMMA AfterMissType ==
  ASSUME NEW s \in ProcessType, NEW t \in s.todo
  PROVE  AfterMiss(s, t) \in ProcessType
  BY DEF AfterMiss, ProcessType

\* The first of the pending migrations is the one after the part that is done.
LEMMA NextMigration ==
  ASSUME NEW k \in Nat, NEW f \in Nat, k + 1..f # {}
  PROVE  Min(k + 1..f) = k + 1 /\ k + 1 <= f /\ (k + 1..f) \ {k + 1} = k + 2..f
  <1>1. k + 1 \in k + 1..f /\ \A y \in k + 1..f : k + 1 <= y
    OBVIOUS
  <1>2. \A x \in k + 1..f : (\A y \in k + 1..f : x <= y) => x = k + 1
    BY <1>1
  <1>3. Min(k + 1..f) = k + 1
    BY <1>1, <1>2 DEF Min
  <1>4. QED
    BY <1>1, <1>3

LEMMA InitIInv == Init => IInv
  <1> SUFFICES ASSUME Init
               PROVE  IInv
    OBVIOUS
  <1>1. \A n \in OldFiles..Files :
          /\ Down(n) \in ProcessType
          /\ Down(n).pc = "down"
          /\ ~Down(n).checked
    BY DownType DEF Down
  <1>2. \A p \in Process : \E n \in OldFiles..Files : proc[p] = Down(n)
    BY DEF Init
  <1>3. \A p \in Process : /\ proc[p] \in ProcessType
                           /\ proc[p].pc = "down"
                           /\ ~proc[p].checked
    BY <1>1, <1>2
  <1>4. PICK n \in 0..AppsFile - 1 :
          /\ schema = [m \in 1..n |-> m]
          /\ ledger = IF n = 0 THEN None ELSE 1..n
          /\ tokens = [t \in Token |-> IF n > 0 /\ t \in OldToken THEN Unassigned ELSE None]
    BY DEF Init
  <1>5. n \in Nat /\ 1..n \subseteq 1..Files
    BY Bounds
  <1>6. schema \in Seq(1..Files) /\ Len(schema) = n /\ DOMAIN schema = 1..n
    BY <1>4, <1>5
  <1>7. TypeOK
    <2>1. proc \in [Process -> ProcessType]
      <3>1. proc \in [Process -> {Down(m) : m \in OldFiles..Files}]
        BY DEF Init
      <3>2. QED
        BY <1>1, <3>1
    <2>2. ledger \in {None} \cup SUBSET (1..Files)
      BY <1>4, <1>5
    <2>3. tokens \in [Token -> App \cup {Unassigned, None}]
      BY <1>4
    <2>4. apps \in [App -> {"plain", "default", None}]
      BY DEF Init
    <2>5. /\ config \in Config /\ mode \in [Process -> Mode]
          /\ next \in 1..MaxRequests + 2
          /\ requests \in 0..MaxRequests /\ failures \in 0..MaxFailures
      BY Bounds DEF Init
    <2>6. QED
      BY <1>6, <2>1, <2>2, <2>3, <2>4, <2>5 DEF TypeOK
  <1>8. SchemaIsWhole
    <2>1. schema = [m \in 1..Len(schema) |-> m]
      BY <1>4, <1>6
    <2>2. ledger # None => ledger = 1..Len(schema)
      BY <1>4, <1>6
    <2>3. ledger = None => n = 0
      BY <1>4, <1>5, NoneAssumption
    <2>4. n = 0 => schema = <<>>
      BY <1>4
    <2>5. QED
      BY <2>1, <2>2, <2>3, <2>4 DEF SchemaIsWhole
  <1>9. LedgerIsThere /\ PendingIsRest /\ CheckedIsMigrated
    BY <1>3 DEF LedgerIsThere, PendingIsRest, CheckedIsMigrated
  <1>10. \A a \in App : apps[a] = None
    BY DEF Init
  <1>11. Present = {} /\ DefaultRows = {}
    BY <1>10 DEF Present, DefaultRows
  <1>12. FreshRows
    BY <1>10 DEF FreshRows
  <1>13. RowsAreBounded
    BY <1>11 DEF RowsAreBounded, Init
  <1>14. SeededOnce
    BY <1>11 DEF SeededOnce
  <1>15. TokensNameApps
    BY <1>4, NoneIsNoApp DEF TokensNameApps
  <1>16. QED
    BY <1>7, <1>8, <1>9, <1>12, <1>13, <1>14, <1>15 DEF IInv

-----------------------------------------------------------------------------
(* Types are preserved.                                                    *)

Unchanged == UNCHANGED <<config, mode, schema, ledger, apps, next, tokens, requests, failures>>

LEMMA OnlyProc ==
  ASSUME TypeOK, proc' \in [Process -> ProcessType],
         Unchanged
  PROVE  TypeOK'
  BY DEF TypeOK, Unchanged

LEMMA BootTypeOK ==
  ASSUME IInv, NEW p \in Process, Boot(p)
  PROVE  TypeOK'
  <1> USE DEF database, bounds
  <1>0. TypeOK /\ SeededOnce /\ proc[p] \in ProcessType
    BY AtType DEF IInv
  <1>1. CASE EnsureTable(p)
    <2>1. proc' \in [Process -> ProcessType]
      BY <1>0, <1>1, StepType DEF EnsureTable, State
    <2>2. ledger' \in {None} \cup SUBSET (1..Files)
      BY <1>0, <1>1 DEF EnsureTable, TypeOK
    <2>3. QED
      BY <1>0, <1>1, <2>1, <2>2 DEF EnsureTable, TypeOK
  <1>2. CASE ReadPending(p)
    <2> DEFINE s == [proc[p] EXCEPT !.pc = "run", !.pending = Pending(proc[p].files),
                                    !.checked = TRUE]
    <2>1. Pending(proc[p].files) \subseteq 1..Files
      BY <1>0, Bounds DEF Pending, ProcessType
    <2>2. s \in ProcessType
      BY <1>0, <2>1 DEF ProcessType, State
    <2>3. proc' \in [Process -> ProcessType]
      BY <1>0, <1>2, <2>2, GotoType DEF ReadPending
    <2>4. QED
      BY <1>0, <1>2, <2>3, OnlyProc DEF ReadPending, Unchanged
  <1>3. CASE RunMigration(p)
    <2> DEFINE m == Min(proc[p].pending)
               s == [proc[p] EXCEPT !.pending = @ \ {m}]
    <2>1. PICK k \in 0..Len(schema) : proc[p].pending = k + 1..proc[p].files
      BY <1>3 DEF IInv, PendingIsRest, RunMigration
    <2>2. k \in Nat /\ proc[p].files \in Nat /\ proc[p].files <= Files
      BY <1>0, Bounds DEF TypeOK, ProcessType
    <2> DEFINE f == proc[p].files
    <2>11. k + 1..f # {}
      BY <1>3, <2>1 DEF RunMigration
    <2>12. Min(k + 1..f) = k + 1 /\ k + 1 <= f
      <3> HIDE DEF f
      <3>1. f \in Nat
        BY <2>2 DEF f
      <3>2. QED
        BY <2>2, <2>11, <3>1, NextMigration
    <2>3. m = k + 1 /\ m \in 1..Files
      <3>1. m = k + 1
        BY <2>1, <2>12
      <3>2. QED
        BY <2>2, <2>12, <3>1, Bounds
    <2>4. s \in ProcessType
      BY <1>0 DEF ProcessType
    <2>5. CASE ~Recorded(m)
      <3>1. /\ schema' = Append(schema, m)
            /\ ledger' = ledger \cup {m}
            /\ Goto(p, s)
            /\ UNCHANGED <<config, mode, apps, next, tokens, bounds>>
        BY <1>3, <2>5 DEF RunMigration
      <3>2. proc' \in [Process -> ProcessType]
        BY <1>0, <2>4, <3>1, GotoType
      <3>3. schema' \in Seq(1..Files)
        BY <1>0, <2>3, <3>1 DEF TypeOK
      <3>4. ledger # None
        BY <1>3 DEF IInv, LedgerIsThere, RunMigration
      <3>5. ledger' \in SUBSET (1..Files)
        BY <1>0, <2>3, <3>1, <3>4 DEF TypeOK
      <3>6. QED
        BY <1>0, <3>1, <3>2, <3>3, <3>5 DEF TypeOK
    <2>6. CASE Recorded(m)
      <3>1. Exit(p) /\ Unchanged
        BY <1>3, <2>6 DEF RunMigration, Refuse, Unchanged
      <3>2. QED
        BY <1>0, <3>1, ExitType, OnlyProc
    <2>7. QED
      BY <2>5, <2>6
  <1>4. CASE Migrated(p)
    <2>1. Exit(p) \/ Step(p, "seed")
      BY <1>4 DEF Migrated
    <2>2. proc' \in [Process -> ProcessType]
      BY <1>0, <2>1, ExitType, StepType DEF State
    <2>3. QED
      BY <1>0, <1>4, <2>2, OnlyProc DEF Migrated, Unchanged
  <1>5. CASE CheckPending(p)
    <2> DEFINE s == [proc[p] EXCEPT !.pc = "seed", !.checked = TRUE]
    <2>1. Exit(p) \/ Step(p, "seed") \/ Goto(p, s)
      BY <1>5 DEF CheckPending
    <2>2. s \in ProcessType
      BY <1>0 DEF ProcessType, State
    <2>3. proc' \in [Process -> ProcessType]
      BY <1>0, <2>1, <2>2, ExitType, StepType, GotoType DEF State
    <2>4. QED
      BY <1>0, <1>5, <2>3, OnlyProc DEF CheckPending, Unchanged
  <1>6. CASE SeedList(p)
    <2> DEFINE s == [proc[p] EXCEPT !.pc = "load", !.clean = FALSE]
    <2>1. Goto(p, s) \/ Step(p, "create") \/ Step(p, "load")
      BY <1>6 DEF SeedList
    <2>2. s \in ProcessType
      BY <1>0 DEF ProcessType, State
    <2>3. proc' \in [Process -> ProcessType]
      BY <1>0, <2>1, <2>2, StepType, GotoType DEF State
    <2>4. QED
      BY <1>0, <1>6, <2>3, OnlyProc DEF SeedList, Unchanged
  <1>7. CASE SeedCreate(p)
    <2>1. CASE ~Conflict("default")
      <3> DEFINE s == [proc[p] EXCEPT !.pc = "tokens", !.seeded = next]
      <3>1. /\ apps' = [apps EXCEPT ![next] = "default"]
            /\ next' = next + 1
            /\ Goto(p, s)
            /\ UNCHANGED <<config, mode, schema, ledger, tokens, bounds>>
        BY <1>7, <2>1 DEF SeedCreate
      <3>2. DefaultRows = {}
        BY <2>1 DEF Conflict
      <3>3. next \in 1..MaxRequests + 1
        BY <1>0, <3>2, Bounds DEF IInv, RowsAreBounded, TypeOK
      <3>4. s \in ProcessType
        BY <1>0, <3>3 DEF ProcessType, State, App
      <3>5. proc' \in [Process -> ProcessType]
        BY <1>0, <3>1, <3>4, GotoType
      <3>6. next' \in 1..MaxRequests + 2
        BY <3>1, <3>3, Bounds
      <3>7. apps' \in [App -> {"plain", "default", None}]
        BY <1>0, <3>1 DEF TypeOK
      <3>8. QED
        BY <1>0, <3>1, <3>5, <3>6, <3>7 DEF TypeOK
    <2>2. CASE Conflict("default")
      <3>1. Step(p, "load") /\ Unchanged
        BY <1>7, <2>2 DEF SeedCreate, AfterRefusal, Step, Unchanged
      <3>2. QED
        BY <1>0, <3>1, StepType, OnlyProc DEF State
    <2>3. QED
      BY <2>1, <2>2
  <1>8. CASE ListTokens(p)
    <2> DEFINE s == [proc[p] EXCEPT !.pc = "backfill",
                                    !.todo = {t \in Token : tokens[t] = Unassigned}]
    <2>1. s \in ProcessType
      BY <1>0 DEF ProcessType, State
    <2>2. proc' \in [Process -> ProcessType]
      BY <1>0, <1>8, <2>1, GotoType DEF ListTokens
    <2>3. QED
      BY <1>0, <1>8, <2>2, OnlyProc DEF ListTokens, Unchanged
  <1>9. CASE BackfillToken(p)
    <2> DEFINE s == proc[p]
    <2>1. PICK t \in s.todo :
            \/ /\ tokens[t] # None /\ References(s.seeded)
               /\ tokens' = [tokens EXCEPT ![t] = s.seeded]
               /\ Goto(p, [s EXCEPT !.todo = @ \ {t}])
            \/ /\ ~(tokens[t] # None /\ References(s.seeded))
               /\ Goto(p, AfterMiss(s, t))
               /\ UNCHANGED tokens
      BY <1>9 DEF BackfillToken
    <2>2. AfterMiss(s, t) = [s EXCEPT !.todo = @ \ {t}] /\ AfterMiss(s, t) \in ProcessType
      BY <1>0, AfterMissType DEF AfterMiss
    <2>3. Goto(p, AfterMiss(s, t))
      BY <2>1, <2>2
    <2>4. proc' \in [Process -> ProcessType]
      BY <1>0, <2>2, <2>3, GotoType
    <2>5. t \in Token
      BY <1>0 DEF ProcessType
    <2>6. References(s.seeded) => s.seeded \in App \cup {Unassigned}
      BY DEF References, Present
    <2>7. tokens' \in [Token -> App \cup {Unassigned, None}]
      BY <1>0, <2>1, <2>5, <2>6 DEF TypeOK
    <2>8. QED
      BY <1>0, <1>9, <2>4, <2>7 DEF BackfillToken, TypeOK
  <1>10. CASE Backfilled(p)
    BY <1>0, <1>10, StepType, OnlyProc DEF Backfilled, Unchanged, State
  <1>11. CASE Load(p)
    <2> DEFINE s == proc[p]
               u == Wired(Loaded(s))
    <2>1. Loaded(s) \in ProcessType
      BY <1>0, LoadedType
    <2>2. u \in ProcessType
      BY <1>0, <2>1, WiredType
    <2>3. [u EXCEPT !.pc = "up"] \in ProcessType
      BY <2>2, PcType DEF State
    <2>4. LoadFailed(s) \in ProcessType
      BY <1>0, LoadFailedType
    <2>5. Goto(p, [u EXCEPT !.pc = "up"]) \/ Goto(p, LoadFailed(s))
      BY <1>11 DEF Load
    <2>6. proc' \in [Process -> ProcessType]
      <3> HIDE DEF u
      <3>1. QED
        BY <1>0, <2>3, <2>4, <2>5, GotoType
    <2>7. QED
      BY <1>0, <1>11, <2>6, OnlyProc DEF Load, Unchanged
  <1>12. QED
    BY <1>1, <1>2, <1>3, <1>4, <1>5, <1>6, <1>7, <1>8, <1>9, <1>10, <1>11 DEF Boot

LEMMA FaultTypeOK ==
  ASSUME IInv, NEW p \in Process, Fault(p)
  PROVE  TypeOK' /\ proc' \in [Process -> ProcessType]
  <1> DEFINE s == [proc[p] EXCEPT !.clean = FALSE]
  <1>0. TypeOK /\ SeededOnce /\ s \in ProcessType
    BY AtType DEF IInv, ProcessType
  <1>1. failures' \in 0..MaxFailures
    BY <1>0, Bounds DEF Fault, TypeOK
  <1>2. proc' \in [Process -> ProcessType]
    <2>1. PICK pc \in State, t \in Token \cup {None} :
            \/ Exit(p)
            \/ Goto(p, [s EXCEPT !.pc = pc])
            \/ t \in s.todo /\ Goto(p, AfterMiss(s, t))
            \/ Goto(p, LoadFailed(s))
            \/ Goto(p, [s EXCEPT !.reload = FALSE])
      <3>1. "seed" \in State /\ "load" \in State
        BY DEF State
      <3>2. s.todo \subseteq Token
        BY <1>0 DEF ProcessType
      <3>3. \/ Exit(p)
            \/ Goto(p, [s EXCEPT !.pc = "seed"])
            \/ Goto(p, [s EXCEPT !.pc = "load"])
            \/ \E t \in s.todo : Goto(p, AfterMiss(s, t))
            \/ Goto(p, LoadFailed(s))
            \/ Goto(p, [s EXCEPT !.reload = FALSE])
        <4> HIDE DEF s
        <4>1. QED
          BY DEF Fault, s
      <3> HIDE DEF s
      <3>4. CASE \E t \in s.todo : Goto(p, AfterMiss(s, t))
        BY <3>1, <3>2, <3>4
      <3>5. CASE ~\E t \in s.todo : Goto(p, AfterMiss(s, t))
        BY <3>1, <3>3, <3>5
      <3>6. QED
        BY <3>4, <3>5
    <2>2. [s EXCEPT !.pc = pc] \in ProcessType
      BY <1>0, PcType
    <2>3. [s EXCEPT !.reload = FALSE] \in ProcessType
      BY <1>0 DEF ProcessType
    <2>4. LoadFailed(s) \in ProcessType
      BY <1>0, LoadFailedType
    <2>5. t \in s.todo => AfterMiss(s, t) \in ProcessType
      BY <1>0, AfterMissType
    <2> HIDE DEF s
    <2>6. QED
      BY <1>0, <2>1, <2>2, <2>3, <2>4, <2>5, ExitType, GotoType
  <1>3. QED
    BY <1>0, <1>1, <1>2 DEF Fault, TypeOK, database

LEMMA ServeTypeOK ==
  ASSUME IInv, NEW p \in Process, Serve(p)
  PROVE  TypeOK'
  <1> USE DEF database, bounds
  <1>0. TypeOK /\ SeededOnce /\ proc[p] \in ProcessType
    BY AtType DEF IInv
  <1>1. CASE CreateApp(p)
    <2> DEFINE s == [proc[p] EXCEPT !.reload = TRUE]
    <2>1. s \in ProcessType
      BY <1>0 DEF ProcessType
    <2>2. proc' \in [Process -> ProcessType]
      BY <1>0, <1>1, <2>1, GotoType DEF CreateApp
    <2>3. requests' \in 0..MaxRequests /\ requests < MaxRequests
      BY <1>0, <1>1, Bounds DEF CreateApp, Admin, TypeOK
    <2>4. next' \in 1..MaxRequests + 2
      BY <1>0, <1>1, <2>3, Bounds DEF CreateApp, TypeOK, IInv, RowsAreBounded
    <2>5. apps' \in [App -> {"plain", "default", None}]
      BY <1>0, <1>1 DEF CreateApp, TypeOK
    <2>6. QED
      BY <1>0, <1>1, <2>2, <2>3, <2>4, <2>5 DEF CreateApp, TypeOK
  <1>2. CASE DeleteApp(p)
    <2>1. requests' \in 0..MaxRequests
      <3>1. requests < MaxRequests /\ requests' = requests + 1
        BY <1>2 DEF DeleteApp, Admin
      <3>2. requests \in 0..MaxRequests
        BY <1>0 DEF TypeOK
      <3>3. QED
        BY <3>1, <3>2, Bounds
    <2>2. \A q \in Process :
            [proc[q] EXCEPT !.clean = FALSE, !.reload = @ \/ q = p] \in ProcessType
      <3> SUFFICES ASSUME NEW q \in Process
                   PROVE  [proc[q] EXCEPT !.clean = FALSE, !.reload = @ \/ q = p]
                            \in ProcessType
        OBVIOUS
      <3> DEFINE b == proc[q].reload \/ q = p
      <3>1. proc[q] \in ProcessType
        BY <1>0, AtType
      <3>2. b \in BOOLEAN
        OBVIOUS
      <3>3. [proc[q] EXCEPT !.clean = FALSE, !.reload = b] \in ProcessType
        <4> HIDE DEF b
        <4>1. QED
          BY <3>1, <3>2 DEF ProcessType
      <3>4. QED
        BY <3>3
    <2>3. proc' \in [Process -> ProcessType]
      <3>1. proc' = [q \in Process |-> [proc[q] EXCEPT !.clean = FALSE,
                                                       !.reload = @ \/ q = p]]
        BY <1>2 DEF DeleteApp
      <3>2. QED
        BY <2>2, <3>1
    <2>4. apps' \in [App -> {"plain", "default", None}]
      BY <1>0, <1>2 DEF DeleteApp, TypeOK
    <2>5. tokens' \in [Token -> App \cup {Unassigned, None}]
      BY <1>0, <1>2 DEF DeleteApp, TypeOK
    <2>6. UNCHANGED <<config, mode, schema, ledger, next, failures>>
      BY <1>2 DEF DeleteApp
    <2>7. QED
      BY <1>0, <2>1, <2>3, <2>4, <2>5, <2>6 DEF TypeOK
  <1>3. CASE Reload(p)
    <2> DEFINE u == Loaded(proc[p])
    <2>1. u \in ProcessType
      BY <1>0, LoadedType
    <2>2. [u EXCEPT !.reload = FALSE] \in ProcessType
      <3> HIDE DEF u
      <3>1. QED
        BY <2>1 DEF ProcessType
    <2>3. Goto(p, [u EXCEPT !.reload = FALSE])
      BY <1>3 DEF Reload
    <2>4. proc' \in [Process -> ProcessType]
      <3> HIDE DEF u
      <3>1. QED
        BY <1>0, <2>2, <2>3, GotoType
    <2>5. QED
      BY <1>0, <1>3, <2>4, OnlyProc DEF Reload, Unchanged
  <1>4. CASE \E t \in Token : CreateToken(p, t)
    <2>1. PICK t \in Token : CreateToken(p, t)
      BY <1>4
    <2>2. PICK a : References(a) /\ tokens' = [tokens EXCEPT ![t] = a]
      BY <2>1 DEF CreateToken
    <2>3. a \in App \cup {Unassigned}
      BY <2>2 DEF References, Present
    <2>4. tokens' \in [Token -> App \cup {Unassigned, None}]
      BY <1>0, <2>2, <2>3 DEF TypeOK
    <2>5. QED
      BY <1>0, <2>1, <2>4 DEF CreateToken, TypeOK
  <1>5. CASE Purge(p)
    <2>1. tokens' \in [Token -> App \cup {Unassigned, None}]
      BY <1>0, <1>5 DEF Purge, TypeOK
    <2>2. QED
      BY <1>0, <1>5, <2>1 DEF Purge, TypeOK
  <1>6. QED
    BY <1>1, <1>2, <1>3, <1>4, <1>5 DEF Serve

LEMMA NextTypeOK == IInv /\ [Next]_vars => TypeOK'
  <1> SUFFICES ASSUME IInv, [Next]_vars
               PROVE  TypeOK'
    OBVIOUS
  <1>0. TypeOK
    BY DEF IInv
  <1>1. ASSUME NEW p \in Process, Start(p)
        PROVE  TypeOK'
    <2>1. PICK n \in proc[p].files..Files :
            Goto(p, [Down(n) EXCEPT !.pc = IF mode[p] = "serve" THEN "check" ELSE "ensure"])
      BY <1>1 DEF Start
    <2>2. n \in OldFiles..Files
      BY <1>0, AtType, Bounds DEF ProcessType
    <2>3. [Down(n) EXCEPT !.pc = IF mode[p] = "serve" THEN "check" ELSE "ensure"]
            \in ProcessType
      BY <2>2, DownType, PcType DEF State
    <2>4. proc' \in [Process -> ProcessType]
      BY <1>0, <2>1, <2>3, GotoType
    <2>5. QED
      BY <1>0, <1>1, <2>4, OnlyProc DEF Start, Unchanged, database, bounds
  <1>2. ASSUME NEW p \in Process, Stop(p)
        PROVE  TypeOK'
    <2>1. proc' \in [Process -> ProcessType]
      BY <1>0, <1>2, ExitType DEF Stop
    <2>2. failures' \in 0..MaxFailures
      BY <1>0, <1>2, Bounds DEF Stop, TypeOK
    <2>3. QED
      BY <1>0, <1>2, <2>1, <2>2 DEF Stop, TypeOK, database
  <1>3. CASE UNCHANGED vars
    BY <1>0, <1>3 DEF vars, TypeOK
  <1>4. QED
    BY <1>1, <1>2, <1>3, BootTypeOK, FaultTypeOK, ServeTypeOK DEF Next

-----------------------------------------------------------------------------
(* The migrations.                                                         *)

Migrations == SchemaIsWhole /\ LedgerIsThere /\ PendingIsRest /\ CheckedIsMigrated

Late == {"seed", "create", "tokens", "backfill", "load", "up"}

\* What a step does to the fields that the migrations are about: nothing, or the
\* process is beyond its migrations, or it does not rely on them, or may do so.
Keeps(s, u) ==
  \/ u.pc = s.pc /\ u.files = s.files /\ u.checked = s.checked /\ u.pending = s.pending
  \/ /\ s.pc \in Late /\ u.pc \in Late
     /\ u.files = s.files /\ u.checked = s.checked
  \/ /\ u.pc \notin {"read", "run"}
     /\ u.checked => u.pc \in Late /\ u.files <= Len(schema)

LEMMA Keeping ==
  ASSUME IInv, UNCHANGED <<schema, ledger>>, \A q \in Process : Keeps(proc[q], proc'[q])
  PROVE  Migrations'
  <1>1. SchemaIsWhole'
    BY DEF IInv, SchemaIsWhole
  <1>2. LedgerIsThere'
    <2> SUFFICES ASSUME NEW q \in Process, proc'[q].pc \in {"read", "run"}
                 PROVE  ledger # None
      BY DEF LedgerIsThere
    <2>1. proc[q].pc = proc'[q].pc
      BY DEF Keeps, Late
    <2>2. QED
      BY <2>1 DEF IInv, LedgerIsThere
  <1>3. PendingIsRest'
    <2> SUFFICES ASSUME NEW q \in Process, proc'[q].pc = "run"
                 PROVE  \E k \in 0..Len(schema) : proc'[q].pending = k + 1..proc'[q].files
      BY DEF PendingIsRest
    <2>1. /\ proc[q].pc = "run"
          /\ proc'[q].pending = proc[q].pending
          /\ proc'[q].files = proc[q].files
      BY DEF Keeps, Late
    <2>2. QED
      BY <2>1 DEF IInv, PendingIsRest
  <1>4. CheckedIsMigrated'
    <2> SUFFICES ASSUME NEW q \in Process, proc'[q].checked
                 PROVE  /\ proc'[q].pc \notin Early
                        /\ proc'[q].pc # "run" => proc'[q].files <= Len(schema)
      BY DEF CheckedIsMigrated
    <2>1. Keeps(proc[q], proc'[q])
      OBVIOUS
    <2>2. CASE proc'[q].pc \in Late /\ proc'[q].files <= Len(schema)
      BY <2>2 DEF Early, Late
    <2>3. CASE ~(proc'[q].pc \in Late /\ proc'[q].files <= Len(schema))
      <3>1. /\ proc[q].checked
            /\ proc'[q].files = proc[q].files
            /\ proc'[q].pc = proc[q].pc \/ (proc[q].pc \in Late /\ proc'[q].pc \in Late)
        BY <2>1, <2>3 DEF Keeps
      <3>2. /\ proc[q].pc \notin Early
            /\ proc[q].pc # "run" => proc[q].files <= Len(schema)
        BY <3>1 DEF IInv, CheckedIsMigrated
      <3>3. QED
        BY <3>1, <3>2 DEF Early, Late
    <2>4. QED
      BY <2>2, <2>3
  <1>5. QED
    BY <1>1, <1>2, <1>3, <1>4 DEF Migrations

LEMMA GotoKeeps ==
  ASSUME TypeOK, UNCHANGED <<schema, ledger>>, IInv,
         NEW p \in Process, NEW s, Keeps(proc[p], s), Goto(p, s)
  PROVE  Migrations'
  <1>1. ASSUME NEW q \in Process
        PROVE  Keeps(proc[q], proc'[q])
    <2>1. CASE q = p
      BY <2>1 DEF Goto, TypeOK
    <2>2. CASE q # p
      <3>1. proc'[q] = proc[q]
        BY <2>2 DEF Goto, TypeOK
      <3>2. QED
        BY <3>1 DEF Keeps
    <2>3. QED
      BY <2>1, <2>2
  <1>2. QED
    BY <1>1, Keeping

LEMMA ExitKeeps ==
  ASSUME IInv, UNCHANGED <<schema, ledger>>, NEW p \in Process, Exit(p)
  PROVE  Migrations'
  <1>1. Keeps(proc[p], Down(proc[p].files))
    BY DEF Keeps, Down
  <1>2. QED
    BY <1>1, GotoKeeps DEF Exit, IInv

\* A step that leaves the ledger and the schema alone, seen at one process.
LEMMA StepKeeps ==
  ASSUME IInv, UNCHANGED <<schema, ledger>>, NEW p \in Process, NEW pc \in Late,
         proc[p].pc \in Late, Step(p, pc)
  PROVE  Migrations'
  <1>1. [proc[p] EXCEPT !.pc = pc].pc = pc
    BY AtType DEF IInv, ProcessType
  <1>2. Keeps(proc[p], [proc[p] EXCEPT !.pc = pc])
    BY <1>1, AtType DEF IInv, Keeps, ProcessType
  <1>3. QED
    BY <1>2, GotoKeeps DEF Step, IInv

\* The fields of a process after a step that sets some others.
LEMMA Fields ==
  ASSUME NEW s \in ProcessType
  PROVE  /\ \A pc : [s EXCEPT !.pc = pc].pc = pc
         /\ s.checked \in BOOLEAN /\ s.clean \in BOOLEAN
         /\ s.files \in OldFiles..Files
         /\ s.pc \in State
  BY DEF ProcessType

\* What a process without a ledger has to do next is to create it; with one, what
\* it finds pending begins where the schema ends.
LEMMA PendingFromSchema ==
  ASSUME IInv, NEW f \in OldFiles..Files, ledger # None
  PROVE  Pending(f) = Len(schema) + 1..f /\ Len(schema) \in Nat
  <1>1. ledger = 1..Len(schema) /\ Len(schema) \in Nat
    BY DEF IInv, TypeOK, SchemaIsWhole
  <1>2. f \in Nat
    BY Bounds
  <1>3. QED
    BY <1>1, <1>2 DEF Pending

LEMMA EnsureTableMigrations ==
  ASSUME IInv, NEW p \in Process, EnsureTable(p)
  PROVE  Migrations'
  <1> DEFINE s == [proc[p] EXCEPT !.pc = "read"]
  <1>0. TypeOK /\ proc[p] \in ProcessType
    BY AtType DEF IInv
  <1>1. /\ proc' = [proc EXCEPT ![p] = s]
        /\ schema' = schema
        /\ ledger' = IF ledger = None THEN {} ELSE ledger
        /\ proc[p].pc = "ensure"
    BY DEF EnsureTable, Step, Goto
  <1>2. /\ s.pc = "read" /\ s.checked = proc[p].checked
        /\ proc'[p] = s
        /\ \A q \in Process : q # p => proc'[q] = proc[q]
    BY <1>0, <1>1 DEF TypeOK, ProcessType
  <1>3. ~proc[p].checked
    BY <1>1 DEF IInv, CheckedIsMigrated, Early
  <1>4. SchemaIsWhole'
    <2>1. ledger = None => schema = <<>> /\ Len(schema) = 0
      BY DEF IInv, SchemaIsWhole
    <2>2. ledger' # None
      BY <1>1, NoneAssumption
    <2>3. ledger' = 1..Len(schema)
      BY <1>1, <2>1 DEF IInv, SchemaIsWhole
    <2>4. QED
      BY <1>1, <2>2, <2>3 DEF IInv, SchemaIsWhole
  <1>5. LedgerIsThere'
    <2>1. ledger' # None
      BY <1>1, NoneAssumption
    <2>2. QED
      BY <2>1 DEF LedgerIsThere
  <1>6. PendingIsRest'
    <2> SUFFICES ASSUME NEW q \in Process, proc'[q].pc = "run"
                 PROVE  \E k \in 0..Len(schema) : proc'[q].pending = k + 1..proc'[q].files
      BY <1>1 DEF PendingIsRest
    <2>1. q # p
      BY <1>2
    <2>2. QED
      BY <1>2, <2>1 DEF IInv, PendingIsRest
  <1>7. CheckedIsMigrated'
    <2> SUFFICES ASSUME NEW q \in Process, proc'[q].checked
                 PROVE  /\ proc'[q].pc \notin Early
                        /\ proc'[q].pc # "run" => proc'[q].files <= Len(schema)
      BY <1>1 DEF CheckedIsMigrated
    <2>1. q # p
      BY <1>2, <1>3
    <2>2. QED
      BY <1>2, <2>1 DEF IInv, CheckedIsMigrated
  <1>8. QED
    BY <1>4, <1>5, <1>6, <1>7 DEF Migrations

LEMMA ReadPendingMigrations ==
  ASSUME IInv, NEW p \in Process, ReadPending(p)
  PROVE  Migrations'
  <1> DEFINE s == [proc[p] EXCEPT !.pc = "run", !.pending = Pending(proc[p].files),
                                  !.checked = TRUE]
  <1>0. TypeOK /\ proc[p] \in ProcessType
    BY AtType DEF IInv
  <1>1. /\ proc' = [proc EXCEPT ![p] = s]
        /\ schema' = schema /\ ledger' = ledger
        /\ proc[p].pc = "read"
    BY DEF ReadPending, Goto, database
  <1>2. /\ s.pc = "run" /\ s.files = proc[p].files
        /\ s.pending = Pending(proc[p].files)
        /\ proc'[p] = s
        /\ \A q \in Process : q # p => proc'[q] = proc[q]
    BY <1>0, <1>1 DEF TypeOK, ProcessType
  <1>3. ledger # None
    BY <1>1 DEF IInv, LedgerIsThere
  <1>4. s.pending = Len(schema) + 1..s.files /\ Len(schema) \in 0..Len(schema)
    BY <1>0, <1>2, <1>3, PendingFromSchema, Fields
  <1> HIDE DEF s
  <1>5. SchemaIsWhole' /\ LedgerIsThere'
    BY <1>1, <1>3 DEF IInv, SchemaIsWhole, LedgerIsThere
  <1>6. PendingIsRest'
    <2> SUFFICES ASSUME NEW q \in Process, proc'[q].pc = "run"
                 PROVE  \E k \in 0..Len(schema) : proc'[q].pending = k + 1..proc'[q].files
      BY <1>1 DEF PendingIsRest
    <2>1. CASE q = p
      BY <1>2, <1>4, <2>1
    <2>2. CASE q # p
      BY <1>2, <2>2 DEF IInv, PendingIsRest
    <2>3. QED
      BY <2>1, <2>2
  <1>7. CheckedIsMigrated'
    <2> SUFFICES ASSUME NEW q \in Process, proc'[q].checked
                 PROVE  /\ proc'[q].pc \notin Early
                        /\ proc'[q].pc # "run" => proc'[q].files <= Len(schema)
      BY <1>1 DEF CheckedIsMigrated
    <2>1. CASE q = p
      BY <1>2, <2>1 DEF Early
    <2>2. CASE q # p
      BY <1>2, <2>2 DEF IInv, CheckedIsMigrated
    <2>3. QED
      BY <2>1, <2>2
  <1>8. QED
    BY <1>5, <1>6, <1>7 DEF Migrations

\* One migration is done: it is the one after those of the schema.
LEMMA CommitMigrations ==
  ASSUME IInv, NEW p \in Process, RunMigration(p), ~Recorded(Min(proc[p].pending))
  PROVE  Migrations'
  <1> DEFINE f == proc[p].files
             m == Min(proc[p].pending)
             s == [proc[p] EXCEPT !.pending = @ \ {m}]
  <1>0. TypeOK /\ proc[p] \in ProcessType /\ proc[p].pc = "run" /\ proc[p].pending # {}
    BY AtType DEF IInv, RunMigration
  <1>1. /\ proc' = [proc EXCEPT ![p] = s]
        /\ schema' = Append(schema, m) /\ ledger' = ledger \cup {m}
    BY DEF RunMigration, Goto
  <1>2. /\ s.pc = "run" /\ s.files = f /\ s.pending = proc[p].pending \ {m}
        /\ s.checked = proc[p].checked
        /\ proc'[p] = s
        /\ \A q \in Process : q # p => proc'[q] = proc[q]
    BY <1>0, <1>1 DEF TypeOK, ProcessType
  <1>3. PICK k \in 0..Len(schema) : proc[p].pending = k + 1..f
    BY <1>0 DEF IInv, PendingIsRest
  <1>4. k \in Nat /\ f \in Nat /\ Len(schema) \in Nat
    BY <1>0, <1>3, Fields, Bounds DEF TypeOK
  <1>5. m = k + 1 /\ proc[p].pending \ {m} = k + 2..f
    <2> HIDE DEF f
    <2>1. QED
      BY <1>0, <1>3, <1>4, NextMigration
  <1>6. ledger # None /\ ledger = 1..Len(schema) /\ schema = [i \in 1..Len(schema) |-> i]
    BY <1>0 DEF IInv, LedgerIsThere, SchemaIsWhole
  <1>7. k = Len(schema) /\ m = Len(schema) + 1
    <2>1. m \notin 1..Len(schema)
      BY <1>6 DEF Recorded
    <2>2. QED
      BY <1>3, <1>4, <1>5, <2>1
  <1>8. /\ Len(schema') = Len(schema) + 1
        /\ schema' = [i \in 1..Len(schema') |-> i]
    <2>1. schema \in Seq(1..Files)
      BY <1>0 DEF TypeOK
    <2>2. schema' = Append(schema, Len(schema) + 1)
      BY <1>1, <1>7
    <2>3. Len(schema') = Len(schema) + 1 /\ DOMAIN schema' = 1..Len(schema) + 1
      BY <2>1, <2>2
    <2>4. \A i \in 1..Len(schema) + 1 : schema'[i] = i
      BY <1>6, <2>1, <2>2
    <2>5. schema' = [i \in DOMAIN schema' |-> schema'[i]]
      BY <2>1, <2>2
    <2>6. QED
      BY <2>3, <2>4, <2>5
  <1>9. ledger' = 1..Len(schema') /\ ledger' # None
    <2>1. ledger' = 1..Len(schema) \cup {Len(schema) + 1}
      BY <1>1, <1>6, <1>7
    <2>2. ledger' = 1..Len(schema) + 1
      BY <1>4, <2>1
    <2>3. Len(schema) + 1 <= Files
      BY <1>0, <1>3, <1>4, <1>5, <1>7, Fields, Bounds
    <2>4. ledger' \in SUBSET (1..Files)
      BY <1>4, <2>2, <2>3, Bounds
    <2>5. QED
      BY <1>8, <2>2, <2>4, NoneAssumption
  <1>10. s.pending = Len(schema') + 1..s.files
    BY <1>2, <1>4, <1>5, <1>7, <1>8
  <1> HIDE DEF s, m, f
  <1>11. SchemaIsWhole' /\ LedgerIsThere'
    BY <1>8, <1>9 DEF SchemaIsWhole, LedgerIsThere
  <1>12. PendingIsRest'
    <2> SUFFICES ASSUME NEW q \in Process, proc'[q].pc = "run"
                 PROVE  \E n \in 0..Len(schema') : proc'[q].pending = n + 1..proc'[q].files
      BY DEF PendingIsRest
    <2>1. CASE q = p
      BY <1>2, <1>4, <1>8, <1>10, <2>1
    <2>2. CASE q # p
      <3>1. PICK n \in 0..Len(schema) : proc[q].pending = n + 1..proc[q].files
        BY <1>2, <2>2 DEF IInv, PendingIsRest
      <3>2. n \in 0..Len(schema')
        BY <1>4, <1>8
      <3>3. QED
        BY <1>2, <2>2, <3>1, <3>2
    <2>3. QED
      BY <2>1, <2>2
  <1>13. CheckedIsMigrated'
    <2> SUFFICES ASSUME NEW q \in Process, proc'[q].checked
                 PROVE  /\ proc'[q].pc \notin Early
                        /\ proc'[q].pc # "run" => proc'[q].files <= Len(schema')
      BY DEF CheckedIsMigrated
    <2>1. CASE q = p
      BY <1>2, <2>1 DEF Early
    <2>2. CASE q # p
      <3>1. /\ proc[q].pc \notin Early
            /\ proc[q].pc # "run" => proc[q].files <= Len(schema)
        BY <1>2, <2>2 DEF IInv, CheckedIsMigrated
      <3>2. proc[q].files \in Nat
        BY <1>0, AtType, Fields, Bounds
      <3>3. QED
        BY <1>2, <1>4, <1>8, <2>2, <3>1, <3>2
    <2>3. QED
      BY <2>1, <2>2
  <1>14. QED
    BY <1>11, <1>12, <1>13 DEF Migrations

LEMMA LateKeeps ==
  ASSUME IInv, UNCHANGED <<schema, ledger>>, NEW p \in Process, NEW u, Goto(p, u),
         proc[p].pc \in Late, u.pc \in Late,
         u.files = proc[p].files, u.checked = proc[p].checked
  PROVE  Migrations'
  BY GotoKeeps DEF Keeps, IInv

\* A process that does not rely on the schema may go anywhere past the migrations.
LEMMA UncheckedKeeps ==
  ASSUME IInv, UNCHANGED <<schema, ledger>>, NEW p \in Process, NEW u, Goto(p, u),
         u.pc \notin {"read", "run"}, ~u.checked
  PROVE  Migrations'
  BY GotoKeeps DEF Keeps, IInv

LEMMA BootMigrations ==
  ASSUME IInv, NEW p \in Process, Boot(p)
  PROVE  Migrations'
  <1> USE DEF database, bounds
  <1>0. TypeOK /\ SeededOnce /\ proc[p] \in ProcessType
    BY AtType DEF IInv
  <1>1. CASE EnsureTable(p)
    BY <1>1, EnsureTableMigrations
  <1>2. CASE ReadPending(p)
    BY <1>2, ReadPendingMigrations
  <1>3. CASE RunMigration(p)
    <2>1. CASE ~Recorded(Min(proc[p].pending))
      BY <1>3, <2>1, CommitMigrations
    <2>2. CASE Recorded(Min(proc[p].pending))
      BY <1>3, <2>2, ExitKeeps DEF RunMigration, Refuse
    <2>3. QED
      BY <2>1, <2>2
  <1>4. CASE Migrated(p)
    <2>1. UNCHANGED <<schema, ledger>>
      BY <1>4 DEF Migrated
    <2>2. CASE Exit(p)
      BY <2>1, <2>2, ExitKeeps
    <2>3. CASE Step(p, "seed")
      <3> DEFINE s == [proc[p] EXCEPT !.pc = "seed"]
      <3>1. proc[p].pc = "run" /\ proc[p].pending = {}
        BY <1>4 DEF Migrated
      <3>2. PICK k \in 0..Len(schema) : proc[p].pending = k + 1..proc[p].files
        BY <3>1 DEF IInv, PendingIsRest
      <3>3. Len(schema) \in Nat /\ proc[p].files \in Nat
        BY <1>0, Fields, Bounds DEF TypeOK
      <3>4. proc[p].files <= Len(schema)
        <4>1. k + 1 \notin k + 1..proc[p].files
          BY <3>1, <3>2
        <4>2. k \in Nat /\ k <= Len(schema)
          BY <3>3
        <4>3. QED
          BY <3>3, <4>1, <4>2
      <3>5. s.pc = "seed" /\ s.files = proc[p].files
        BY <1>0 DEF ProcessType
      <3>6. Keeps(proc[p], s)
        BY <3>4, <3>5 DEF Keeps, Late
      <3>7. Goto(p, s)
        BY <2>3 DEF Step
      <3> HIDE DEF s
      <3>8. QED
        BY <1>0, <2>1, <3>6, <3>7, GotoKeeps
    <2>4. QED
      BY <1>4, <2>2, <2>3 DEF Migrated
  <1>5. CASE CheckPending(p)
    <2>1. UNCHANGED <<schema, ledger>> /\ proc[p].pc = "check"
      BY <1>5 DEF CheckPending
    <2>2. ~proc[p].checked
      BY <2>1 DEF IInv, CheckedIsMigrated, Early
    <2>3. CASE ledger = None
      <3> DEFINE s == [proc[p] EXCEPT !.pc = "seed"]
      <3>1. s.pc = "seed" /\ ~s.checked
        BY <1>0, <2>2 DEF ProcessType
      <3>2. Goto(p, s)
        BY <1>5, <2>3 DEF CheckPending, Step
      <3> HIDE DEF s
      <3>3. QED
        BY <2>1, <3>1, <3>2, UncheckedKeeps
    <2>4. CASE ledger # None /\ Pending(proc[p].files) = {}
      <3> DEFINE s == [proc[p] EXCEPT !.pc = "seed", !.checked = TRUE]
      <3>1. s.pc = "seed" /\ s.files = proc[p].files
        BY <1>0 DEF ProcessType
      <3>2. Len(schema) + 1..proc[p].files = {} /\ Len(schema) \in Nat
        BY <1>0, <2>4, PendingFromSchema, Fields
      <3>3. proc[p].files \in Nat
        BY <1>0, Fields, Bounds
      <3>4. proc[p].files <= Len(schema)
        BY <3>2, <3>3
      <3>5. Keeps(proc[p], s)
        BY <3>1, <3>4 DEF Keeps, Late
      <3>6. Goto(p, s)
        BY <1>5, <2>4 DEF CheckPending
      <3> HIDE DEF s
      <3>7. QED
        BY <1>0, <2>1, <3>5, <3>6, GotoKeeps
    <2>5. CASE ledger # None /\ Pending(proc[p].files) # {}
      BY <1>5, <2>1, <2>5, ExitKeeps DEF CheckPending
    <2>6. QED
      BY <2>3, <2>4, <2>5
  <1>6. CASE SeedList(p)
    <2> DEFINE s == [proc[p] EXCEPT !.pc = "load", !.clean = FALSE]
    <2>1. UNCHANGED <<schema, ledger>> /\ proc[p].pc \in Late
      BY <1>6 DEF SeedList, Late
    <2>2. Goto(p, s) \/ Step(p, "create") \/ Step(p, "load")
      BY <1>6 DEF SeedList
    <2>3. s.pc = "load" /\ s.files = proc[p].files /\ s.checked = proc[p].checked
      BY <1>0 DEF ProcessType
    <2> HIDE DEF s
    <2>4. QED
      BY <2>1, <2>2, <2>3, LateKeeps, StepKeeps DEF Late
  <1>7. CASE SeedCreate(p)
    <2> DEFINE s == [proc[p] EXCEPT !.pc = "tokens", !.seeded = next]
    <2>1. UNCHANGED <<schema, ledger>> /\ proc[p].pc \in Late
      BY <1>7 DEF SeedCreate, Late
    <2>2. Goto(p, s) \/ Step(p, "load")
      BY <1>7 DEF SeedCreate, AfterRefusal, Step
    <2>3. s.pc = "tokens" /\ s.files = proc[p].files /\ s.checked = proc[p].checked
      BY <1>0 DEF ProcessType
    <2> HIDE DEF s
    <2>4. QED
      BY <2>1, <2>2, <2>3, LateKeeps, StepKeeps DEF Late
  <1>8. CASE ListTokens(p)
    <2> DEFINE s == [proc[p] EXCEPT !.pc = "backfill",
                                    !.todo = {t \in Token : tokens[t] = Unassigned}]
    <2>1. UNCHANGED <<schema, ledger>> /\ proc[p].pc \in Late
      BY <1>8 DEF ListTokens, Late
    <2>2. Goto(p, s)
      BY <1>8 DEF ListTokens
    <2>3. s.pc = "backfill" /\ s.files = proc[p].files /\ s.checked = proc[p].checked
      BY <1>0 DEF ProcessType
    <2> HIDE DEF s
    <2>4. QED
      BY <2>1, <2>2, <2>3, LateKeeps DEF Late
  <1>9. CASE BackfillToken(p)
    <2>1. UNCHANGED <<schema, ledger>> /\ proc[p].pc = "backfill"
      BY <1>9 DEF BackfillToken
    <2>2. PICK t \in Token : Goto(p, [proc[p] EXCEPT !.todo = @ \ {t}])
      BY <1>0, <1>9 DEF BackfillToken, AfterMiss, ProcessType
    <2> DEFINE s == [proc[p] EXCEPT !.todo = @ \ {t}]
    <2>3. s.pc = proc[p].pc /\ s.files = proc[p].files /\ s.checked = proc[p].checked
      BY <1>0 DEF ProcessType
    <2> HIDE DEF s
    <2>4. QED
      BY <2>1, <2>2, <2>3, LateKeeps DEF Late, s
  <1>10. CASE Backfilled(p)
    BY <1>10, StepKeeps DEF Backfilled, Late
  <1>11. CASE Load(p)
    <2> DEFINE s == Wired(Loaded(proc[p]))
               u == [s EXCEPT !.pc = "up"]
               v == LoadFailed(proc[p])
    <2>1. UNCHANGED <<schema, ledger>> /\ proc[p].pc \in Late
      BY <1>11 DEF Load, Late
    <2>2. s \in ProcessType /\ s.files = proc[p].files /\ s.checked = proc[p].checked
      BY <1>0, LoadedType, WiredType
    <2>3. u.pc = "up" /\ u.files = proc[p].files /\ u.checked = proc[p].checked
      <3> HIDE DEF s
      <3>1. QED
        BY <2>2 DEF ProcessType
    <2>4. v.pc = "up" /\ v.files = proc[p].files /\ v.checked = proc[p].checked
      BY <1>0 DEF LoadFailed, ProcessType
    <2>5. Goto(p, u) \/ Goto(p, v)
      BY <1>11 DEF Load
    <2> HIDE DEF u, v
    <2>6. QED
      BY <2>1, <2>3, <2>4, <2>5, LateKeeps DEF Late
  <1>12. QED
    BY <1>1, <1>2, <1>3, <1>4, <1>5, <1>6, <1>7, <1>8, <1>9, <1>10, <1>11 DEF Boot

LEMMA FaultMigrations ==
  ASSUME IInv, NEW p \in Process, Fault(p)
  PROVE  Migrations'
  <1> DEFINE s == [proc[p] EXCEPT !.clean = FALSE]
             v == LoadFailed(s)
             w == [s EXCEPT !.reload = FALSE]
  <1>0. TypeOK /\ proc[p] \in ProcessType
    BY AtType DEF IInv
  <1>1. UNCHANGED <<schema, ledger>>
    BY DEF Fault, database
  <1>2. /\ s \in ProcessType /\ s.pc = proc[p].pc
        /\ s.files = proc[p].files /\ s.checked = proc[p].checked
    BY <1>0 DEF ProcessType
  <1>3. \A pc \in State : LET u == [s EXCEPT !.pc = pc]
                         IN  u.pc = pc /\ u.files = s.files /\ u.checked = s.checked
    <2> HIDE DEF s
    <2>1. QED
      BY <1>2 DEF ProcessType
  <1>4. v.pc = "up" /\ v.files = s.files /\ v.checked = s.checked
    <2> HIDE DEF s
    <2>1. QED
      BY <1>2 DEF LoadFailed, ProcessType
  <1>5. \A t : LET u == AfterMiss(s, t)
              IN  u.pc = s.pc /\ u.files = s.files /\ u.checked = s.checked
    <2> HIDE DEF s
    <2>1. QED
      BY <1>2 DEF AfterMiss, ProcessType
  <1>6. w.pc = s.pc /\ w.files = s.files /\ w.checked = s.checked
    <2> HIDE DEF s
    <2>1. QED
      BY <1>2 DEF ProcessType
  <1>7. \/ Exit(p)
        \/ s.pc = "check" /\ Goto(p, [s EXCEPT !.pc = "seed"])
        \/ s.pc \in Late /\ Goto(p, [s EXCEPT !.pc = "load"])
        \/ s.pc \in Late /\ \E t \in s.todo : Goto(p, AfterMiss(s, t))
        \/ s.pc \in Late /\ Goto(p, v)
        \/ s.pc \in Late /\ Goto(p, w)
    <2> HIDE DEF s
    <2>1. QED
      BY DEF Fault, Late, s
  <1>8. proc[p].pc = "check" => ~proc[p].checked
    BY DEF IInv, CheckedIsMigrated, Early
  <1> HIDE DEF s, v, w
  <1>9. CASE Exit(p)
    BY <1>1, <1>9, ExitKeeps
  <1>10. CASE s.pc = "check" /\ Goto(p, [s EXCEPT !.pc = "seed"])
    BY <1>1, <1>2, <1>3, <1>8, <1>10, UncheckedKeeps DEF State
  <1>11. CASE s.pc \in Late /\ Goto(p, [s EXCEPT !.pc = "load"])
    BY <1>1, <1>2, <1>3, <1>11, LateKeeps DEF State, Late
  <1>12. CASE s.pc \in Late /\ \E t \in s.todo : Goto(p, AfterMiss(s, t))
    BY <1>1, <1>2, <1>5, <1>12, LateKeeps
  <1>13. CASE s.pc \in Late /\ Goto(p, v)
    BY <1>1, <1>2, <1>4, <1>13, LateKeeps DEF Late
  <1>14. CASE s.pc \in Late /\ Goto(p, w)
    BY <1>1, <1>2, <1>6, <1>14, LateKeeps
  <1>15. QED
    BY <1>7, <1>9, <1>10, <1>11, <1>12, <1>13, <1>14

LEMMA ServeMigrations ==
  ASSUME IInv, NEW p \in Process, Serve(p)
  PROVE  Migrations'
  <1> USE DEF database, bounds
  <1>0. TypeOK /\ SeededOnce /\ proc[p] \in ProcessType
    BY AtType DEF IInv
  <1>1. CASE CreateApp(p)
    <2> DEFINE u == [proc[p] EXCEPT !.reload = TRUE]
    <2>1. u.pc = proc[p].pc /\ u.files = proc[p].files /\ u.checked = proc[p].checked
      BY <1>0 DEF ProcessType
    <2>2. UNCHANGED <<schema, ledger>> /\ Goto(p, u) /\ proc[p].pc \in Late
      BY <1>1 DEF CreateApp, Admin, Late
    <2> HIDE DEF u
    <2>3. QED
      BY <2>1, <2>2, LateKeeps
  <1>2. CASE DeleteApp(p)
    <2>1. UNCHANGED <<schema, ledger>>
      BY <1>2 DEF DeleteApp
    <2>2. ASSUME NEW q \in Process
          PROVE  Keeps(proc[q], proc'[q])
      <3> DEFINE b == proc[q].reload \/ q = p
      <3>1. proc'[q] = [proc[q] EXCEPT !.clean = FALSE, !.reload = b]
        BY <1>2 DEF DeleteApp
      <3> HIDE DEF b
      <3>2. proc[q] \in ProcessType
        BY <1>0, AtType
      <3>3. QED
        BY <3>1, <3>2 DEF Keeps, ProcessType
    <2>3. QED
      BY <2>1, <2>2, Keeping
  <1>3. CASE Reload(p)
    <2> DEFINE s == Loaded(proc[p])
               u == [s EXCEPT !.reload = FALSE]
    <2>1. /\ s \in ProcessType /\ s.pc = proc[p].pc
          /\ s.files = proc[p].files /\ s.checked = proc[p].checked
          /\ s.pending = proc[p].pending
      BY <1>0, LoadedType DEF Loaded, ProcessType
    <2>2. UNCHANGED <<schema, ledger>> /\ Goto(p, u)
      BY <1>3 DEF Reload
    <2>3. Keeps(proc[p], u)
      <3> HIDE DEF s
      <3>1. QED
        BY <2>1 DEF Keeps, ProcessType
    <2> HIDE DEF u
    <2>4. QED
      BY <1>0, <2>2, <2>3, GotoKeeps
  <1>4. ASSUME UNCHANGED <<schema, ledger, proc>>
        PROVE  Migrations'
    BY <1>4 DEF IInv, Migrations, SchemaIsWhole, LedgerIsThere, PendingIsRest,
                CheckedIsMigrated
  <1>5. QED
    BY <1>1, <1>2, <1>3, <1>4 DEF Serve, CreateToken, Purge

LEMMA NextMigrations == IInv /\ [Next]_vars => Migrations'
  <1> SUFFICES ASSUME IInv, [Next]_vars
               PROVE  Migrations'
    OBVIOUS
  <1>0. TypeOK
    BY DEF IInv
  <1>1. ASSUME NEW p \in Process, Start(p)
        PROVE  Migrations'
    <2> DEFINE first == IF mode[p] = "serve" THEN "check" ELSE "ensure"
    <2>1. PICK n \in proc[p].files..Files : Goto(p, [Down(n) EXCEPT !.pc = first])
      BY <1>1 DEF Start
    <2>2. UNCHANGED <<schema, ledger>>
      BY <1>1 DEF Start, database
    <2> DEFINE u == [Down(n) EXCEPT !.pc = first]
    <2>3. u.pc \in {"check", "ensure"} /\ ~u.checked
      BY DEF Down
    <2>4. Goto(p, u)
      BY <2>1
    <2> HIDE DEF u
    <2>5. QED
      BY <2>2, <2>3, <2>4, UncheckedKeeps
  <1>2. ASSUME NEW p \in Process, Stop(p)
        PROVE  Migrations'
    BY <1>2, ExitKeeps DEF Stop, database
  <1>3. CASE UNCHANGED vars
    BY <1>3 DEF vars, IInv, Migrations, SchemaIsWhole, LedgerIsThere, PendingIsRest,
                CheckedIsMigrated
  <1>4. QED
    BY <1>1, <1>2, <1>3, BootMigrations, FaultMigrations, ServeMigrations DEF Next

-----------------------------------------------------------------------------
(* The apps and the tokens.                                                *)

Rows == FreshRows /\ RowsAreBounded /\ SeededOnce /\ TokensNameApps

LEMMA SameRows ==
  ASSUME IInv, UNCHANGED <<apps, next, tokens, requests>>
  PROVE  Rows'
  BY DEF IInv, Rows, FreshRows, RowsAreBounded, SeededOnce, TokensNameApps,
         DefaultRows, Present

\* The next record is free, and only it changes.
LEMMA NewRow ==
  ASSUME IInv, NEW row \in {"plain", "default"}, next \in App,
         apps' = [apps EXCEPT ![next] = row], next' = next + 1
  PROVE  /\ Present' = Present \cup {next}
         /\ DefaultRows' = IF row = "default" THEN DefaultRows \cup {next} ELSE DefaultRows
         /\ FreshRows'
  <1>1. TypeOK /\ FreshRows /\ next \in Nat
    BY DEF IInv, TypeOK
  <1>2. apps[next] = None /\ row # None
    <2>1. next >= next
      BY <1>1
    <2>2. QED
      BY <1>1, <2>1, NoneAssumption DEF FreshRows
  <1>3. \A a \in App : apps'[a] = IF a = next THEN row ELSE apps[a]
    BY <1>1 DEF TypeOK
  <1>4. Present' = Present \cup {next}
    BY <1>2, <1>3 DEF Present
  <1>5. next \notin Present
    BY <1>2 DEF Present
  <1>6. ASSUME NEW a
        PROVE  a \in DefaultRows' <=> a \in DefaultRows \/ (a = next /\ row = "default")
    BY <1>3, <1>4, <1>5 DEF DefaultRows, Present
  <1>7. FreshRows'
    <2>1. \A a \in App : a >= next + 1 => a # next /\ a >= next
      BY <1>1, Bounds DEF App
    <2>2. QED
      BY <1>1, <1>3, <2>1 DEF FreshRows
  <1>8. QED
    BY <1>4, <1>6, <1>7

LEMMA SeedCreateRows ==
  ASSUME IInv, NEW p \in Process, SeedCreate(p)
  PROVE  Rows'
  <1>1. TypeOK
    BY DEF IInv
  <1>2. CASE Conflict("default")
    BY <1>2, SameRows DEF SeedCreate, bounds
  <1>3. CASE ~Conflict("default")
    <2>1. DefaultRows = {}
      BY <1>3 DEF Conflict
    <2>2. /\ next \in 1..MaxRequests + 2 /\ next <= requests + 1
          /\ requests \in 0..MaxRequests
      BY <1>1, <2>1 DEF IInv, RowsAreBounded, TypeOK
    <2>3. next \in App
      BY <2>2, Bounds DEF App
    <2>4. /\ apps' = [apps EXCEPT ![next] = "default"]
          /\ next' = next + 1
          /\ UNCHANGED <<tokens, requests>>
      BY <1>3 DEF SeedCreate, bounds
    <2>5. Present' = Present \cup {next} /\ DefaultRows' = {next} /\ FreshRows'
      BY <2>1, <2>3, <2>4, NewRow
    <2>6. RowsAreBounded'
      BY <2>2, <2>4, <2>5, Bounds DEF RowsAreBounded
    <2>7. SeededOnce'
      BY <2>5 DEF SeededOnce
    <2>8. TokensNameApps'
      BY <2>4, <2>5 DEF IInv, TokensNameApps
    <2>9. QED
      BY <2>5, <2>6, <2>7, <2>8 DEF Rows
  <1>4. QED
    BY <1>2, <1>3

\* A token whose row is written names an app that is there.
LEMMA WriteToken ==
  ASSUME IInv, UNCHANGED <<apps, next, requests>>, NEW t, NEW a,
         a = None \/ References(a), tokens' = [tokens EXCEPT ![t] = a]
  PROVE  Rows'
  <1>1. a \in App => a \in Present
    BY NoneIsNoApp DEF References, Present
  <1>2. \A u \in Token : tokens'[u] \in {tokens[u], a}
    BY DEF IInv, TypeOK
  <1>3. Present' = Present /\ DefaultRows' = DefaultRows
    BY DEF Present, DefaultRows
  <1>4. TokensNameApps'
    BY <1>1, <1>2, <1>3 DEF IInv, TokensNameApps
  <1>5. QED
    BY <1>3, <1>4 DEF IInv, Rows, FreshRows, RowsAreBounded, SeededOnce

LEMMA CreateAppRows ==
  ASSUME IInv, NEW p \in Process, CreateApp(p)
  PROVE  Rows'
  <1>1. /\ requests < MaxRequests /\ requests' = requests + 1
        /\ apps' = [apps EXCEPT ![next] = "plain"]
        /\ next' = next + 1 /\ tokens' = tokens
    BY DEF CreateApp, Admin
  <1>2. /\ next \in Nat /\ 1 <= next /\ requests \in Nat
        /\ next <= requests + 2
        /\ DefaultRows = {} => next <= requests + 1
    BY Bounds DEF IInv, TypeOK, RowsAreBounded
  <1>3. next \in App
    BY <1>1, <1>2, Bounds DEF App
  <1>4. Present' = Present \cup {next} /\ DefaultRows' = DefaultRows /\ FreshRows'
    BY <1>1, <1>3, NewRow
  <1>5. RowsAreBounded'
    BY <1>1, <1>2, <1>4 DEF RowsAreBounded
  <1>6. SeededOnce' /\ TokensNameApps'
    BY <1>1, <1>4 DEF IInv, SeededOnce, TokensNameApps
  <1>7. QED
    BY <1>4, <1>5, <1>6 DEF Rows

LEMMA DeleteAppRows ==
  ASSUME IInv, NEW p \in Process, DeleteApp(p)
  PROVE  Rows'
  <1>1. requests' = requests + 1 /\ next' = next
    BY DEF DeleteApp, Admin
  <1>2. PICK a \in Present :
          /\ apps' = [apps EXCEPT ![a] = None]
          /\ tokens' = [t \in Token |-> IF tokens[t] = a THEN Unassigned ELSE tokens[t]]
    BY DEF DeleteApp
  <1>3. \A b \in App : apps'[b] = IF b = a THEN None ELSE apps[b]
    BY <1>2 DEF IInv, TypeOK
  <1>4. Present' = Present \ {a}
    BY <1>3 DEF Present
  <1>5. DefaultRows' \subseteq DefaultRows
    BY <1>3, <1>4, NoneAssumption DEF DefaultRows, Present
  <1>6. FreshRows'
    BY <1>1, <1>3 DEF IInv, FreshRows
  <1>7. RowsAreBounded'
    <2>1. next \in Nat /\ requests \in Nat /\ next <= requests + 2
      BY Bounds DEF IInv, TypeOK, RowsAreBounded
    <2>2. QED
      BY <1>1, <2>1 DEF RowsAreBounded
  <1>8. SeededOnce'
    BY <1>5 DEF IInv, SeededOnce
  <1>9. TokensNameApps'
    <2> SUFFICES ASSUME NEW t \in Token, tokens'[t] \in App
                 PROVE  tokens'[t] \in Present'
      BY DEF TokensNameApps
    <2>1. tokens'[t] = tokens[t] /\ tokens[t] # a
      BY <1>2, NoneIsNoApp
    <2>2. QED
      BY <1>4, <2>1 DEF IInv, TokensNameApps
  <1>10. QED
    BY <1>6, <1>7, <1>8, <1>9 DEF Rows

LEMMA NextRows == IInv /\ [Next]_vars => Rows'
  <1> SUFFICES ASSUME IInv, [Next]_vars
               PROVE  Rows'
    OBVIOUS
  <1>1. ASSUME NEW p \in Process, BackfillToken(p)
        PROVE  Rows'
    <2>1. UNCHANGED <<apps, next, requests>>
      BY <1>1 DEF BackfillToken, bounds
    <2>2. UNCHANGED tokens
          \/ \E t, a : References(a) /\ tokens' = [tokens EXCEPT ![t] = a]
      BY <1>1 DEF BackfillToken
    <2>3. QED
      BY <2>1, <2>2, SameRows, WriteToken
  <1>2. ASSUME NEW p \in Process, NEW t \in Token, CreateToken(p, t)
        PROVE  Rows'
    BY <1>2, WriteToken DEF CreateToken, bounds
  <1>3. ASSUME NEW p \in Process, Purge(p)
        PROVE  Rows'
    BY <1>3, WriteToken DEF Purge, bounds
  <1>4. ASSUME NEW p \in Process,
               \/ Start(p) \/ EnsureTable(p) \/ ReadPending(p) \/ RunMigration(p)
               \/ Migrated(p) \/ CheckPending(p) \/ SeedList(p) \/ ListTokens(p)
               \/ Backfilled(p) \/ Load(p) \/ Fault(p) \/ Stop(p) \/ Reload(p)
        PROVE  Rows'
    <2>1. UNCHANGED <<apps, next, tokens, requests>>
      BY <1>4 DEF Start, EnsureTable, ReadPending, RunMigration, Migrated, CheckPending,
                  SeedList, ListTokens, Backfilled, Load, Fault, Stop, Reload,
                  database, bounds
    <2>2. QED
      BY <2>1, SameRows
  <1>5. CASE UNCHANGED vars
    BY <1>5, SameRows DEF vars
  <1>6. QED
    BY <1>1, <1>2, <1>3, <1>4, <1>5, SeedCreateRows, CreateAppRows, DeleteAppRows
       DEF Next, Boot, Serve

-----------------------------------------------------------------------------
(* Clean starts.                                                           *)

\* What a start in which nothing has failed, and during which no app was deleted,
\* can rely on: that there is an app when it comes to the load; that the app it
\* seeded is there when it comes to assign tokens to it; and that the tokens it
\* has still to go through are all that are left without an app.
CleanStart(p) ==
  proc[p].clean =>
    /\ proc[p].pc = "load" /\ config = "full" => Present # {}
    /\ proc[p].pc \in {"tokens", "backfill"} => proc[p].seeded \in Present
    /\ proc[p].pc = "backfill" =>
         \A t \in OldToken : tokens[t] = Unassigned => t \in proc[p].todo

CleanStarts == \A p \in Process : CleanStart(p)

\* No app goes away, and no token of the old ones loses its app.
NothingLost ==
  /\ config' = config
  /\ Present \subseteq Present'
  /\ \A t \in OldToken : tokens'[t] = Unassigned => tokens[t] = Unassigned

LEMMA InitClean == Init => CleanStarts
  <1> SUFFICES ASSUME Init, NEW p \in Process
               PROVE  CleanStart(p)
    BY DEF CleanStarts
  <1>1. PICK n : proc[p] = Down(n)
    BY DEF Init
  <1>2. proc[p].pc = "down"
    BY <1>1 DEF Down
  <1>3. QED
    BY <1>2 DEF CleanStart

\* What others do does not spoil the start of a process, and what the process
\* itself does has to be looked at.
LEMMA OthersKeepClean ==
  ASSUME IInv, CleanStarts, NothingLost, NEW p \in Process,
         \A q \in Process \ {p} : proc'[q] = proc[q],
         CleanStart(p)'
  PROVE  CleanStarts'
  <1> SUFFICES ASSUME NEW q \in Process, q # p
               PROVE  CleanStart(q)'
    BY DEF CleanStarts
  <1>1. CleanStart(q) /\ proc'[q] = proc[q]
    BY DEF CleanStarts
  <1>2. QED
    BY <1>1 DEF CleanStart, NothingLost

\* A process that goes where nothing is asked of it.
LEMMA GotoClean ==
  ASSUME IInv, CleanStarts, NothingLost, NEW p \in Process, NEW s, Goto(p, s),
         s.clean => s.pc \notin {"load", "tokens", "backfill"}
  PROVE  CleanStarts'
  <1>1. proc'[p] = s /\ \A q \in Process \ {p} : proc'[q] = proc[q]
    BY DEF Goto, IInv, TypeOK
  <1>2. CleanStart(p)'
    BY <1>1 DEF CleanStart
  <1>3. QED
    BY <1>1, <1>2, OthersKeepClean

LEMMA SameTables ==
  ASSUME UNCHANGED <<config, apps, tokens>>
  PROVE  NothingLost /\ Present' = Present /\ DefaultRows' = DefaultRows
  BY DEF NothingLost, Present, DefaultRows

LEMMA SeedListClean ==
  ASSUME IInv, CleanStarts, NEW p \in Process, SeedList(p)
  PROVE  CleanStarts'
  <1>1. /\ proc[p] \in ProcessType /\ NothingLost /\ Present' = Present /\ config' = config
        /\ config \in {"none", "keyless", "full"}
    BY AtType, SameTables, ConfigAssumption DEF IInv, TypeOK, SeedList, database
  <1>2. CASE Goto(p, [proc[p] EXCEPT !.pc = "load", !.clean = FALSE])
    <2> DEFINE s == [proc[p] EXCEPT !.pc = "load", !.clean = FALSE]
    <2>1. s.clean = FALSE
      BY <1>1 DEF ProcessType
    <2> HIDE DEF s
    <2>2. QED
      BY <1>1, <1>2, <2>1, GotoClean DEF s
  <1>3. CASE Step(p, "create")
    <2> DEFINE s == [proc[p] EXCEPT !.pc = "create"]
    <2>1. s.pc = "create"
      BY <1>1 DEF ProcessType
    <2>2. QED
      BY <1>1, <1>3, <2>1, GotoClean DEF Step
  <1>4. CASE Step(p, "load") /\ (config = "full" => Present # {})
    <2>1. proc'[p].pc = "load" /\ \A q \in Process \ {p} : proc'[q] = proc[q]
      BY <1>1, <1>4 DEF Step, Goto, IInv, TypeOK, ProcessType
    <2>2. CleanStart(p)'
      BY <1>1, <1>4, <2>1 DEF CleanStart
    <2>3. QED
      BY <1>1, <2>1, <2>2, OthersKeepClean
  <1>5. QED
    BY <1>1, <1>2, <1>3, <1>4 DEF SeedList

LEMMA SeedCreateClean ==
  ASSUME IInv, CleanStarts, NEW p \in Process, SeedCreate(p)
  PROVE  CleanStarts'
  <1>1. proc[p] \in ProcessType /\ TypeOK
    BY AtType DEF IInv
  <1>2. CASE Conflict("default")
    <2>1. /\ NothingLost /\ Present' = Present /\ Present # {}
          /\ Goto(p, [proc[p] EXCEPT !.pc = "load"])
      BY <1>2, SameTables DEF SeedCreate, AfterRefusal, Conflict, DefaultRows
    <2>2. proc'[p].pc = "load" /\ \A q \in Process \ {p} : proc'[q] = proc[q]
      BY <1>1, <2>1 DEF Goto, TypeOK, ProcessType
    <2>3. CleanStart(p)'
      BY <2>1, <2>2 DEF CleanStart
    <2>4. QED
      BY <2>1, <2>2, <2>3, OthersKeepClean
  <1>3. CASE ~Conflict("default")
    <2>1. DefaultRows = {}
      BY <1>3 DEF Conflict
    <2>2. next \in App
      BY <1>1, <2>1, Bounds DEF IInv, RowsAreBounded, TypeOK, App
    <2>3. /\ apps' = [apps EXCEPT ![next] = "default"]
          /\ next' = next + 1
          /\ Goto(p, [proc[p] EXCEPT !.pc = "tokens", !.seeded = next])
          /\ UNCHANGED <<config, tokens>>
      BY <1>3 DEF SeedCreate
    <2>4. Present' = Present \cup {next}
      BY <2>2, <2>3, NewRow
    <2>5. /\ proc'[p].pc = "tokens" /\ proc'[p].seeded = next
          /\ \A q \in Process \ {p} : proc'[q] = proc[q]
      BY <1>1, <2>3 DEF Goto, TypeOK, ProcessType
    <2>6. CleanStart(p)'
      BY <2>4, <2>5 DEF CleanStart
    <2>7. QED
      BY <2>3, <2>4, <2>5, <2>6, OthersKeepClean DEF NothingLost
  <1>4. QED
    BY <1>2, <1>3

LEMMA ListTokensClean ==
  ASSUME IInv, CleanStarts, NEW p \in Process, ListTokens(p)
  PROVE  CleanStarts'
  <1>1. /\ proc[p] \in ProcessType /\ NothingLost /\ Present' = Present
        /\ proc[p].pc = "tokens" /\ tokens' = tokens
    BY AtType, SameTables DEF IInv, ListTokens, database
  <1>2. /\ proc'[p].pc = "backfill" /\ proc'[p].todo = {t \in Token : tokens[t] = Unassigned}
        /\ proc'[p].clean = proc[p].clean /\ proc'[p].seeded = proc[p].seeded
        /\ \A q \in Process \ {p} : proc'[q] = proc[q]
    BY <1>1 DEF ListTokens, Goto, IInv, TypeOK, ProcessType
  <1>3. CleanStart(p)'
    BY <1>1, <1>2, TokenAssumption DEF CleanStarts, CleanStart
  <1>4. QED
    BY <1>1, <1>2, <1>3, OthersKeepClean

\* A token of which the loop has made sure is one that is gone or has an app.
LEMMA BackfillTokenClean ==
  ASSUME IInv, CleanStarts, NEW p \in Process, BackfillToken(p)
  PROVE  CleanStarts'
  <1> DEFINE s == proc[p]
  <1>1. /\ s \in ProcessType /\ TypeOK /\ s.pc = "backfill" /\ UNCHANGED <<config, apps>>
        /\ Present' = Present
    BY AtType DEF IInv, BackfillToken, Present
  <1>2. PICK t \in s.todo :
          /\ \/ /\ tokens[t] # None /\ References(s.seeded)
                /\ tokens' = [tokens EXCEPT ![t] = s.seeded]
             \/ /\ ~(tokens[t] # None /\ References(s.seeded))
                /\ UNCHANGED tokens
          /\ Goto(p, [s EXCEPT !.todo = @ \ {t}])
    BY DEF BackfillToken, AfterMiss
  <1>3. /\ proc'[p].pc = "backfill" /\ proc'[p].clean = s.clean /\ proc'[p].seeded = s.seeded
        /\ proc'[p].todo = s.todo \ {t}
        /\ \A q \in Process \ {p} : proc'[q] = proc[q]
    BY <1>1, <1>2 DEF Goto, TypeOK, ProcessType
  <1>4. t \in Token /\ s.seeded \in App \cup {None} /\ s.seeded # Unassigned
    BY <1>1, NoneIsNoApp DEF ProcessType
  <1>5. \A u \in Token : tokens'[u] = Unassigned => tokens[u] = Unassigned
    BY <1>1, <1>2, <1>4 DEF TypeOK
  <1>6. NothingLost
    BY <1>1, <1>5, TokenAssumption DEF NothingLost
  <1>7. s.seeded \in Present => tokens'[t] # Unassigned
    BY <1>1, <1>2, <1>4, NoneIsNoApp DEF References, TypeOK
  <1>8. CleanStart(p)'
    BY <1>1, <1>3, <1>5, <1>7, TokenAssumption DEF CleanStarts, CleanStart
  <1>9. QED
    BY <1>3, <1>6, <1>8, OthersKeepClean

LEMMA BackfilledClean ==
  ASSUME IInv, CleanStarts, NEW p \in Process, Backfilled(p)
  PROVE  CleanStarts'
  <1>1. /\ proc[p] \in ProcessType /\ NothingLost /\ Present' = Present
        /\ proc[p].pc = "backfill"
    BY AtType, SameTables DEF IInv, Backfilled, database
  <1>2. /\ proc'[p].pc = "load" /\ proc'[p].clean = proc[p].clean
        /\ \A q \in Process \ {p} : proc'[q] = proc[q]
    BY <1>1 DEF Backfilled, Step, Goto, IInv, TypeOK, ProcessType
  <1>3. CleanStart(p)'
    BY <1>1, <1>2 DEF CleanStarts, CleanStart
  <1>4. QED
    BY <1>1, <1>2, <1>3, OthersKeepClean

\* Where the process goes while it migrates, and once it serves, or when it fails.
LEMMA ExitClean ==
  ASSUME IInv, CleanStarts, NothingLost, NEW p \in Process, Exit(p)
  PROVE  CleanStarts'
  <1>1. Down(proc[p].files).pc = "down"
    BY DEF Down
  <1>2. QED
    BY <1>1, GotoClean DEF Exit

LEMMA StepClean ==
  ASSUME IInv, CleanStarts, NothingLost, NEW p \in Process,
         NEW pc \in State \ {"load", "tokens", "backfill"}, Step(p, pc)
  PROVE  CleanStarts'
  <1>1. [proc[p] EXCEPT !.pc = pc].pc = pc
    BY AtType DEF IInv, ProcessType
  <1>2. QED
    BY <1>1, GotoClean DEF Step

LEMMA BootClean ==
  ASSUME IInv, CleanStarts, NEW p \in Process, Boot(p)
  PROVE  CleanStarts'
  <1> USE DEF database, bounds
  <1>0. TypeOK /\ SeededOnce /\ proc[p] \in ProcessType
    BY AtType DEF IInv
  <1>1. CASE EnsureTable(p)
    BY <1>1, SameTables, StepClean DEF EnsureTable, State
  <1>2. CASE ReadPending(p)
    <2> DEFINE s == [proc[p] EXCEPT !.pc = "run", !.pending = Pending(proc[p].files),
                                    !.checked = TRUE]
    <2>1. s.pc = "run"
      BY <1>0 DEF ProcessType
    <2>2. Goto(p, s) /\ NothingLost
      BY <1>2, SameTables DEF ReadPending
    <2> HIDE DEF s
    <2>3. QED
      BY <2>1, <2>2, GotoClean
  <1>3. CASE RunMigration(p)
    <2> DEFINE s == [proc[p] EXCEPT !.pending = @ \ {Min(proc[p].pending)}]
    <2>1. s.pc = "run"
      BY <1>0, <1>3 DEF ProcessType, RunMigration
    <2>2. (Goto(p, s) \/ Exit(p)) /\ NothingLost
      BY <1>3, SameTables DEF RunMigration, Refuse
    <2> HIDE DEF s
    <2>3. QED
      BY <2>1, <2>2, GotoClean, ExitClean
  <1>4. CASE Migrated(p)
    BY <1>4, SameTables, StepClean, ExitClean DEF Migrated, State
  <1>5. CASE CheckPending(p)
    <2> DEFINE s == [proc[p] EXCEPT !.pc = "seed", !.checked = TRUE]
    <2>1. s.pc = "seed"
      BY <1>0 DEF ProcessType
    <2>2. (Goto(p, s) \/ Step(p, "seed") \/ Exit(p)) /\ NothingLost
      BY <1>5, SameTables DEF CheckPending
    <2> HIDE DEF s
    <2>3. QED
      BY <2>1, <2>2, GotoClean, StepClean, ExitClean DEF State
  <1>6. CASE Load(p)
    <2> DEFINE u == [Wired(Loaded(proc[p])) EXCEPT !.pc = "up"]
               v == LoadFailed(proc[p])
    <2>1. Wired(Loaded(proc[p])) \in ProcessType
      BY <1>0, LoadedType, WiredType
    <2>2. u.pc = "up" /\ v.pc = "up"
      BY <1>0, <2>1 DEF ProcessType, LoadFailed
    <2>3. (Goto(p, u) \/ Goto(p, v)) /\ NothingLost
      BY <1>6, SameTables DEF Load
    <2> HIDE DEF u, v
    <2>4. QED
      BY <2>2, <2>3, GotoClean
  <1>7. QED
    BY <1>1, <1>2, <1>3, <1>4, <1>5, <1>6, SeedListClean, SeedCreateClean, ListTokensClean,
       BackfillTokenClean, BackfilledClean DEF Boot

LEMMA FaultClean ==
  ASSUME IInv, CleanStarts, NEW p \in Process, Fault(p)
  PROVE  CleanStarts'
  <1> DEFINE s == [proc[p] EXCEPT !.clean = FALSE]
  <1>1. s \in ProcessType /\ s.clean = FALSE /\ NothingLost
    BY AtType, SameTables DEF IInv, ProcessType, Fault, database
  <1>2. Exit(p) \/ \E u : Goto(p, u) /\ u.clean = FALSE
    <2>1. \A pc : [s EXCEPT !.pc = pc].clean = FALSE
      BY <1>1 DEF ProcessType
    <2>2. \A t : AfterMiss(s, t).clean = FALSE
      BY <1>1 DEF ProcessType, AfterMiss
    <2>3. LoadFailed(s).clean = FALSE /\ [s EXCEPT !.reload = FALSE].clean = FALSE
      BY <1>1 DEF ProcessType, LoadFailed
    <2> DEFINE u(pc) == [s EXCEPT !.pc = pc]
               v == LoadFailed(s)
               w == [s EXCEPT !.reload = FALSE]
    <2>4. \/ Exit(p) \/ Goto(p, u("seed")) \/ Goto(p, u("load"))
          \/ \E t \in s.todo : Goto(p, AfterMiss(s, t))
          \/ Goto(p, v) \/ Goto(p, w)
      BY DEF Fault
    <2>5. u("seed").clean = FALSE /\ u("load").clean = FALSE /\ v.clean = FALSE /\ w.clean = FALSE
      BY <2>1, <2>3
    <2> HIDE DEF s, u, v, w
    <2>6. QED
      BY <2>2, <2>4, <2>5
  <1>3. QED
    BY <1>1, <1>2, ExitClean, GotoClean

LEMMA ServeClean ==
  ASSUME IInv, CleanStarts, NEW p \in Process, Serve(p)
  PROVE  CleanStarts'
  <1> USE DEF database, bounds
  <1>0. TypeOK /\ SeededOnce /\ proc[p] \in ProcessType
    BY AtType DEF IInv
  <1>1. CASE CreateApp(p)
    <2>1. /\ requests < MaxRequests /\ UNCHANGED <<config, tokens>> /\ proc[p].pc = "up"
          /\ apps' = [apps EXCEPT ![next] = "plain"] /\ next' = next + 1
          /\ Goto(p, [proc[p] EXCEPT !.reload = TRUE])
      BY <1>1 DEF CreateApp, Admin
    <2>2. next \in App
      BY <1>0, <2>1, Bounds DEF IInv, RowsAreBounded, TypeOK, App
    <2>3. Present' = Present \cup {next}
      BY <2>1, <2>2, NewRow
    <2>4. NothingLost
      BY <2>1, <2>3 DEF NothingLost
    <2>5. [proc[p] EXCEPT !.reload = TRUE].pc = "up"
      BY <1>0, <2>1 DEF ProcessType
    <2>6. QED
      BY <2>1, <2>4, <2>5, GotoClean
  <1>2. CASE DeleteApp(p)
    <2>1. \A q \in Process : proc'[q].clean = FALSE
      <3> SUFFICES ASSUME NEW q \in Process
                   PROVE  proc'[q].clean = FALSE
        OBVIOUS
      <3>1. proc[q] \in ProcessType
        BY <1>0, AtType
      <3>2. proc'[q] = [proc[q] EXCEPT !.clean = FALSE, !.reload = @ \/ q = p]
        BY <1>2 DEF DeleteApp
      <3>3. QED
        BY <3>1, <3>2 DEF ProcessType
    <2>2. QED
      BY <2>1 DEF CleanStarts, CleanStart
  <1>3. CASE Reload(p)
    <2> DEFINE u == [Loaded(proc[p]) EXCEPT !.reload = FALSE]
    <2>1. Loaded(proc[p]) \in ProcessType /\ Loaded(proc[p]).pc = proc[p].pc
      BY <1>0, LoadedType
    <2>2. /\ u.pc = proc[p].pc /\ u.clean = proc[p].clean /\ u.seeded = proc[p].seeded
          /\ u.todo = proc[p].todo
      BY <1>0, <2>1 DEF ProcessType, Loaded
    <2>3. Goto(p, u) /\ NothingLost /\ Present' = Present /\ UNCHANGED <<config, tokens>>
      BY <1>3, SameTables DEF Reload
    <2> HIDE DEF u
    <2>4. proc'[p] = u /\ \A q \in Process \ {p} : proc'[q] = proc[q]
      BY <1>0, <2>3 DEF Goto, TypeOK
    <2>5. CleanStart(p)'
      BY <2>2, <2>3, <2>4 DEF CleanStarts, CleanStart
    <2>6. QED
      BY <2>3, <2>4, <2>5, OthersKeepClean
  <1>4. ASSUME UNCHANGED <<config, apps, proc>>,
               \A t \in OldToken : tokens'[t] = Unassigned => tokens[t] = Unassigned
        PROVE  CleanStarts'
    BY <1>4 DEF CleanStarts, CleanStart, Present
  <1>5. ASSUME NEW t \in Token, CreateToken(p, t)
        PROVE  CleanStarts'
    <2>1. t \notin OldToken /\ \A u \in OldToken : tokens'[u] = tokens[u]
      BY <1>0, <1>5, TokenAssumption DEF CreateToken, TypeOK
    <2>2. QED
      BY <1>4, <1>5, <2>1 DEF CreateToken
  <1>6. CASE Purge(p)
    <2>1. \A u \in OldToken : tokens'[u] = Unassigned => tokens[u] = Unassigned
      BY <1>0, <1>6, TokenAssumption, NoneIsNoApp DEF Purge, TypeOK
    <2>2. QED
      BY <1>4, <1>6, <2>1 DEF Purge
  <1>7. QED
    BY <1>1, <1>2, <1>3, <1>5, <1>6 DEF Serve

LEMMA NextClean == IInv /\ CleanStarts /\ [Next]_vars => CleanStarts'
  <1> SUFFICES ASSUME IInv, CleanStarts, [Next]_vars
               PROVE  CleanStarts'
    OBVIOUS
  <1>1. ASSUME NEW p \in Process, Start(p)
        PROVE  CleanStarts'
    <2>1. PICK n \in proc[p].files..Files :
            Goto(p, [Down(n) EXCEPT !.pc = IF mode[p] = "serve" THEN "check" ELSE "ensure"])
      BY <1>1 DEF Start
    <2> DEFINE s == [Down(n) EXCEPT !.pc = IF mode[p] = "serve" THEN "check" ELSE "ensure"]
    <2>2. s.pc \in {"check", "ensure"}
      BY DEF Down
    <2>3. NothingLost
      BY <1>1, SameTables DEF Start, database
    <2> HIDE DEF s
    <2>4. Goto(p, s)
      BY <2>1 DEF s
    <2>5. QED
      BY <2>2, <2>3, <2>4, GotoClean
  <1>2. ASSUME NEW p \in Process, Stop(p)
        PROVE  CleanStarts'
    BY <1>2, SameTables, ExitClean DEF Stop, database
  <1>3. CASE UNCHANGED vars
    BY <1>3 DEF vars, CleanStarts, CleanStart, Present
  <1>4. QED
    BY <1>1, <1>2, <1>3, BootClean, FaultClean, ServeClean DEF Next

\* Only its own steps, and the deletion of an app, move a process.
LEMMA ProcMoves ==
  ASSUME IInv, [Next]_vars, NEW p \in Process
  PROVE  \/ proc'[p] = proc[p]
         \/ /\ proc'[p].pc = proc[p].pc
            /\ proc'[p].clean = FALSE
         \/ Start(p) \/ Boot(p) \/ Fault(p) \/ Stop(p) \/ Serve(p)
  <1>1. TypeOK
    BY DEF IInv
  <1>2. ASSUME NEW q \in Process, NEW s, Goto(q, s), q # p
        PROVE  proc'[p] = proc[p]
    BY <1>1, <1>2 DEF Goto, TypeOK
  <1>3. ASSUME NEW q \in Process, q # p,
               Start(q) \/ Boot(q) \/ Fault(q) \/ Stop(q) \/ CreateApp(q) \/ Reload(q)
        PROVE  proc'[p] = proc[p]
    <2>1. ASSUME Start(q) \/ Stop(q) \/ CreateApp(q) \/ Reload(q)
          PROVE  \E s : Goto(q, s)
      BY <2>1 DEF Start, Stop, Exit, CreateApp, Reload
    <2>2. ASSUME Boot(q)
          PROVE  \E s : Goto(q, s)
      BY <2>2 DEF Boot, EnsureTable, ReadPending, RunMigration, Refuse, Migrated, CheckPending,
                  SeedList, SeedCreate, ListTokens, BackfillToken, Backfilled, Load, Step, Exit
    <2>3. ASSUME Fault(q)
          PROVE  \E s : Goto(q, s)
      BY <2>3 DEF Fault, Exit
    <2>4. QED
      BY <1>2, <1>3, <2>1, <2>2, <2>3
  <1>4. ASSUME NEW q \in Process, DeleteApp(q)
        PROVE  proc'[p].pc = proc[p].pc /\ proc'[p].clean = FALSE
    <2>1. proc'[p] = [proc[p] EXCEPT !.clean = FALSE, !.reload = @ \/ p = q]
      BY <1>4 DEF DeleteApp
    <2>2. QED
      BY <1>1, <2>1, AtType DEF ProcessType
  <1>5. ASSUME NEW q \in Process, Serve(q)
        PROVE  \/ proc'[p] = proc[p]
               \/ proc'[p].pc = proc[p].pc /\ proc'[p].clean = FALSE
               \/ Serve(p)
    <2>1. CASE q = p
      BY <1>5, <2>1
    <2>2. CASE CreateApp(q) \/ Reload(q)
      BY <1>3, <2>1, <2>2 DEF Serve
    <2>3. CASE Purge(q) \/ \E t \in Token : CreateToken(q, t)
      BY <2>3 DEF Purge, CreateToken
    <2>4. QED
      BY <1>4, <1>5, <2>1, <2>2, <2>3 DEF Serve
  <1>6. CASE UNCHANGED vars
    BY <1>6 DEF vars
  <1>7. QED
    BY <1>3, <1>5, <1>6 DEF Next

\* Where the steps of the start-up lead.
LEMMA BootGoes ==
  ASSUME IInv, NEW p \in Process, Boot(p)
  PROVE  /\ proc'[p].pc = "up" => Load(p)
         /\ proc[p].pc = "backfill" /\ proc'[p].pc = "load" => Backfilled(p)
  <1>0. TypeOK /\ proc[p] \in ProcessType
    BY AtType DEF IInv
  <1>1. ASSUME NEW s, Goto(p, s)
        PROVE  proc'[p] = s
    BY <1>0, <1>1 DEF Goto, TypeOK
  <1>2. ASSUME NEW pc, Step(p, pc)
        PROVE  proc'[p].pc = pc
    BY <1>0, <1>1, <1>2 DEF Step, ProcessType
  <1>3. ASSUME Exit(p)
        PROVE  proc'[p].pc = "down"
    BY <1>1, <1>3 DEF Exit, Down
  <1>4. CASE EnsureTable(p) \/ Migrated(p)
    BY <1>2, <1>3, <1>4 DEF EnsureTable, Migrated
  <1>5. CASE ReadPending(p)
    <2>1. proc'[p] = [proc[p] EXCEPT !.pc = "run", !.pending = Pending(proc[p].files),
                                     !.checked = TRUE]
      BY <1>1, <1>5 DEF ReadPending
    <2>2. proc'[p].pc = "run"
      BY <1>0, <2>1 DEF ProcessType
    <2>3. QED
      BY <2>2
  <1>6. CASE RunMigration(p)
    <2>1. proc[p].pc = "run"
          /\ (Exit(p) \/ Goto(p, [proc[p] EXCEPT !.pending = @ \ {Min(proc[p].pending)}]))
      BY <1>6 DEF RunMigration, Refuse
    <2>2. proc'[p].pc \in {"down", "run"}
      BY <1>0, <1>1, <1>3, <2>1 DEF ProcessType
    <2>3. QED
      BY <2>1, <2>2
  <1>7. CASE CheckPending(p)
    <2>1. proc[p].pc = "check"
          /\ (Exit(p) \/ Step(p, "seed")
                \/ Goto(p, [proc[p] EXCEPT !.pc = "seed", !.checked = TRUE]))
      BY <1>7 DEF CheckPending
    <2>2. [proc[p] EXCEPT !.pc = "seed", !.checked = TRUE].pc = "seed"
      BY <1>0 DEF ProcessType
    <2>3. QED
      BY <1>1, <1>2, <1>3, <2>1, <2>2
  <1>8. CASE SeedList(p)
    <2>1. [proc[p] EXCEPT !.pc = "load", !.clean = FALSE].pc = "load"
      BY <1>0 DEF ProcessType
    <2>2. QED
      BY <1>1, <1>2, <1>8, <2>1 DEF SeedList
  <1>9. CASE SeedCreate(p)
    <2>1. /\ [proc[p] EXCEPT !.pc = "tokens", !.seeded = next].pc = "tokens"
          /\ AfterRefusal(proc[p]).pc = "load"
      BY <1>0 DEF ProcessType, AfterRefusal
    <2>2. QED
      BY <1>1, <1>9, <2>1 DEF SeedCreate
  <1>10. CASE ListTokens(p)
    <2> DEFINE s == [proc[p] EXCEPT !.pc = "backfill",
                                    !.todo = {t \in Token : tokens[t] = Unassigned}]
    <2>1. s.pc = "backfill"
      BY <1>0 DEF ProcessType
    <2>2. QED
      BY <1>1, <1>10, <2>1 DEF ListTokens
  <1>11. CASE BackfillToken(p)
    <2>1. PICK t : proc'[p] = [proc[p] EXCEPT !.todo = @ \ {t}]
      BY <1>1, <1>11 DEF BackfillToken, AfterMiss
    <2>2. proc'[p].pc = proc[p].pc /\ proc[p].pc = "backfill"
      BY <1>0, <1>11, <2>1 DEF ProcessType, BackfillToken
    <2>3. QED
      BY <2>2
  <1>12. CASE Backfilled(p)
    BY <1>2, <1>12 DEF Backfilled
  <1>13. CASE Load(p)
    BY <1>13 DEF Load
  <1>14. QED
    BY <1>4, <1>5, <1>6, <1>7, <1>8, <1>9, <1>10, <1>11, <1>12, <1>13 DEF Boot

\* A fault leaves its mark, or ends the process; and it does not end the backfill.
LEMMA FaultGoes ==
  ASSUME IInv, NEW p \in Process, Fault(p)
  PROVE  /\ proc'[p].pc = "down" \/ proc'[p].clean = FALSE
         /\ proc[p].pc = "backfill" => proc'[p].pc # "load"
  <1> DEFINE s == [proc[p] EXCEPT !.clean = FALSE]
  <1>0. TypeOK /\ proc[p] \in ProcessType
    BY AtType DEF IInv
  <1>1. s \in ProcessType /\ s.clean = FALSE /\ s.pc = proc[p].pc
    BY <1>0 DEF ProcessType
  <1> HIDE DEF s
  <1>2. ASSUME NEW u, Goto(p, u)
        PROVE  proc'[p] = u
    BY <1>0, <1>2 DEF Goto, TypeOK
  <1>3. \/ s.pc \in {"ensure", "read", "run"} /\ Exit(p)
        \/ s.pc = "check" /\ Goto(p, [s EXCEPT !.pc = "seed"])
        \/ s.pc \in {"seed", "create", "tokens"} /\ Goto(p, [s EXCEPT !.pc = "load"])
        \/ s.pc = "backfill" /\ \E t \in s.todo : Goto(p, [s EXCEPT !.todo = @ \ {t}])
        \/ s.pc = "load" /\ Goto(p, LoadFailed(s))
        \/ s.pc = "up" /\ Goto(p, [s EXCEPT !.reload = FALSE])
    BY DEF Fault, AfterMiss, s
  <1>4. CASE s.pc \in {"ensure", "read", "run"} /\ Exit(p)
    BY <1>1, <1>2, <1>4 DEF Exit, Down
  <1>5. ASSUME NEW pc, Goto(p, [s EXCEPT !.pc = pc])
        PROVE  proc'[p].clean = FALSE
    BY <1>1, <1>2, <1>5 DEF ProcessType
  <1>6. ASSUME s.pc = "backfill", NEW t \in s.todo, Goto(p, [s EXCEPT !.todo = @ \ {t}])
        PROVE  proc'[p].clean = FALSE /\ proc'[p].pc = "backfill"
    BY <1>1, <1>2, <1>6 DEF ProcessType
  <1>7. CASE s.pc = "load" /\ Goto(p, LoadFailed(s))
    BY <1>1, <1>2, <1>7 DEF ProcessType, LoadFailed
  <1>8. CASE s.pc = "up" /\ Goto(p, [s EXCEPT !.reload = FALSE])
    BY <1>1, <1>2, <1>8 DEF ProcessType
  <1>9. QED
    BY <1>1, <1>3, <1>4, <1>5, <1>6, <1>7, <1>8

LEMMA CleanlyUp ==
  ASSUME IInv, [Next]_vars, NEW p \in Process,
         proc[p].pc # "up", proc'[p].pc = "up", proc'[p].clean
  PROVE  Load(p)
  <1>0. TypeOK
    BY DEF IInv
  <1>1. CASE Start(p)
    <2>1. proc'[p].pc \in {"check", "ensure"}
      BY <1>0, <1>1 DEF Start, Goto, Down, TypeOK
    <2>2. QED
      BY <2>1
  <1>2. CASE Stop(p)
    <2>1. proc'[p].pc = "down"
      BY <1>0, <1>2 DEF Stop, Exit, Goto, Down, TypeOK
    <2>2. QED
      BY <2>1
  <1>3. CASE Boot(p)
    BY <1>3, BootGoes
  <1>4. CASE Fault(p)
    BY <1>4, FaultGoes
  <1>5. CASE Serve(p)
    <2>1. CASE Reload(p)
      <3>1. proc'[p] = [Loaded(proc[p]) EXCEPT !.reload = FALSE] /\ proc[p] \in ProcessType
        BY <1>0, <2>1, AtType DEF Reload, Goto, TypeOK
      <3>2. Loaded(proc[p]) \in ProcessType /\ Loaded(proc[p]).pc = proc[p].pc
        BY <3>1, LoadedType DEF IInv
      <3>3. proc'[p].pc = proc[p].pc
        BY <3>1, <3>2 DEF ProcessType
      <3>4. QED
        BY <3>3
    <2>2. CASE CreateApp(p) \/ DeleteApp(p) \/ Purge(p) \/ \E t \in Token : CreateToken(p, t)
      BY <2>2 DEF CreateApp, DeleteApp, Admin, Purge, CreateToken
    <2>3. QED
      BY <1>5, <2>1, <2>2 DEF Serve
  <1>6. QED
    BY <1>1, <1>2, <1>3, <1>4, <1>5, ProcMoves

\* Nothing but the end of the list takes a process from the backfill to the load.
LEMMA BackfillEnds ==
  ASSUME IInv, [Next]_vars, NEW p \in Process,
         proc[p].pc = "backfill", proc'[p].pc = "load"
  PROVE  Backfilled(p)
  <1>0. TypeOK
    BY DEF IInv
  <1>1. CASE Start(p)
    BY <1>1 DEF Start
  <1>2. CASE Stop(p)
    <2>1. proc'[p].pc = "down"
      BY <1>0, <1>2 DEF Stop, Exit, Goto, Down, TypeOK
    <2>2. QED
      BY <2>1
  <1>3. CASE Boot(p)
    BY <1>3, BootGoes
  <1>4. CASE Fault(p)
    BY <1>4, FaultGoes
  <1>5. CASE Serve(p)
    <2>1. CASE Reload(p)
      <3>1. proc'[p] = [Loaded(proc[p]) EXCEPT !.reload = FALSE] /\ proc[p] \in ProcessType
        BY <1>0, <2>1, AtType DEF Reload, Goto, TypeOK
      <3>2. Loaded(proc[p]) \in ProcessType /\ Loaded(proc[p]).pc = proc[p].pc
        BY <3>1, LoadedType DEF IInv
      <3>3. proc'[p].pc = proc[p].pc
        BY <3>1, <3>2 DEF ProcessType
      <3>4. QED
        BY <3>3
    <2>2. CASE CreateApp(p) \/ DeleteApp(p) \/ Purge(p) \/ \E t \in Token : CreateToken(p, t)
      BY <2>2 DEF CreateApp, DeleteApp, Admin, Purge, CreateToken
    <2>3. QED
      BY <1>5, <2>1, <2>2 DEF Serve
  <1>6. QED
    BY <1>1, <1>2, <1>3, <1>4, <1>5, ProcMoves

\* The load of a clean start.
LEMMA CleanLoad ==
  ASSUME IInv, CleanStarts, NEW p \in Process, Load(p), proc'[p].clean, config = "full"
  PROVE  /\ proc'[p].wired = "registry"
         /\ proc'[p].providers = Present
         /\ Present # {}
  <1> DEFINE s == Loaded(proc[p])
  <1>0. TypeOK /\ proc[p] \in ProcessType /\ s \in ProcessType
    BY AtType, LoadedType DEF IInv
  <1>1. proc'[p] = IF HasApps THEN [Wired(s) EXCEPT !.pc = "up"] ELSE LoadFailed(proc[p])
    BY <1>0 DEF Load, Goto, TypeOK
  <1>2. LoadFailed(proc[p]).clean = FALSE
    BY <1>0 DEF LoadFailed, ProcessType
  <1>3. proc'[p] = [Wired(s) EXCEPT !.pc = "up"]
    BY <1>1, <1>2
  <1>4. s.providers = Present /\ s.clean = proc[p].clean
    BY <1>0 DEF Loaded, ProcessType
  <1> DEFINE w == IF s.providers = {} THEN Fallback ELSE "registry"
             l == w = "config" \/ DefaultOrOnly(s) # None
  <1>5. Wired(s) = [s EXCEPT !.wired = w, !.legacy = l]
    BY DEF Wired
  <1> HIDE DEF s, w, l
  <1>6. /\ proc'[p].wired = w /\ proc'[p].providers = s.providers /\ proc'[p].clean = s.clean
    BY <1>0, <1>3, <1>5 DEF ProcessType
  <1>7. proc[p].pc = "load" /\ proc[p].clean
    BY <1>4, <1>6 DEF Load
  <1>8. Present # {}
    BY <1>7 DEF CleanStarts, CleanStart
  <1>9. QED
    BY <1>4, <1>6, <1>8 DEF w

-----------------------------------------------------------------------------
(* The theorems.                                                           *)

LEMMA Invariance == Spec => []IInv
  <1>1. IInv /\ [Next]_vars => IInv'
    BY NextTypeOK, NextMigrations, NextRows DEF IInv, Migrations, Rows
  <1>2. QED
    BY InitIInv, <1>1, PTL DEF Spec

\* Whatever the processes do at once, fail at and are stopped in, every variable
\* keeps its type: in particular the records of apps suffice.
THEOREM TypeCorrect == Spec => []TypeOK
  <1>1. IInv => TypeOK
    BY DEF IInv
  <1>2. QED
    BY Invariance, <1>1, PTL

\* RunMigration by any number of processes of any versions: every migration is
\* executed once and in order, and schema_migrations says exactly which.
THEOREM SchemaStaysWhole == Spec => []SchemaIsWhole
  <1>1. IInv => SchemaIsWhole
    BY DEF IInv
  <1>2. QED
    BY Invariance, <1>1, PTL

\* A process that could read what is pending serves only on a schema that has
\* all migrations of its own version.
THEOREM ServingIsMigrated == Spec => []ServesOnItsSchema
  <1>1. IInv => ServesOnItsSchema
    BY DEF IInv, CheckedIsMigrated, ServesOnItsSchema
  <1>2. QED
    BY Invariance, <1>1, PTL

\* seedDefaultApp by any number of processes at once leaves one default app.
THEOREM OneSeededDefault == Spec => []SeededOnce
  <1>1. IInv => SeededOnce
    BY DEF IInv
  <1>2. QED
    BY Invariance, <1>1, PTL

\* The backfill, the creation of tokens and the deletion of apps, in any order
\* and from processes with stale registries: no token names an app that is gone.
THEOREM TokensKeepApps == Spec => []TokensNameApps
  <1>1. IInv => TokensNameApps
    BY DEF IInv
  <1>2. QED
    BY Invariance, <1>1, PTL

LEMMA CleanInvariance == Spec => []CleanStarts
  BY Invariance, InitClean, NextClean, PTL DEF Spec

\* A start in which no call failed and during which no app was deleted ends with a
\* registry that has the app of every token that names one, although others seed,
\* create apps and tokens and purge at the same time.
THEOREM CleanStartsServe == Spec => CleanStartServes
  <1> DEFINE Serves(p) ==
        proc[p].pc # "up" /\ proc'[p].pc = "up" /\ proc'[p].clean /\ config = "full" =>
          /\ proc'[p].wired = "registry"
          /\ proc'[p].providers # {}
          /\ \A t \in Token : tokens[t] \in App => tokens[t] \in proc'[p].providers
  <1>1. IInv /\ CleanStarts /\ [Next]_vars => [\A p \in Process : Serves(p)]_vars
    BY CleanlyUp, CleanLoad DEF IInv, TokensNameApps
  <1>2. QED
    BY <1>1, Invariance, CleanInvariance, PTL DEF Spec, CleanStartServes

\* A clean start that seeds the default app leaves no older token without an app.
THEOREM BackfillsAreWhole == Spec => BackfillIsWhole
  <1> DEFINE Whole(p) ==
        proc[p].pc = "backfill" /\ proc'[p].pc = "load" /\ proc[p].clean =>
          \A t \in OldToken : tokens[t] # Unassigned
  <1>1. IInv /\ CleanStarts /\ [Next]_vars => [\A p \in Process : Whole(p)]_vars
    BY BackfillEnds DEF Backfilled, CleanStarts, CleanStart
  <1>2. QED
    BY <1>1, Invariance, CleanInvariance, PTL DEF Spec, BackfillIsWhole

=============================================================================
