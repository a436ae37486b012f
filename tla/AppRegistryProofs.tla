-------------------------- MODULE AppRegistryProofs --------------------------
(***************************************************************************)
(* Theorems about AppRegistry, for both stores, every configuration, every *)
(* number of administrators, records and requests and every set of keys.   *)
(***************************************************************************)
EXTENDS AppRegistry, TLAPS, WellFoundedInduction

-----------------------------------------------------------------------------
(* The operators of the registry.                                          *)

\* A set of natural numbers below a bound has a largest element.
LEMMA MaxInSet ==
  ASSUME NEW D, NEW n \in Nat, D \subseteq 1..n, D # {}
  PROVE  Max(D) \in D
  <1> DEFINE R == {ss \in Nat \X Nat : ss[1] < ss[2]}
             T == {n - x : x \in D}
  <1>1. IsWellFoundedOn(R, Nat)
    BY NatLessThanWellFounded DEF OpToRel
  <1>2. T \subseteq Nat /\ T # {}
    <2>1. \A x \in D : n - x \in Nat
      OBVIOUS
    <2>2. QED
      BY <2>1
  <1>3. PICK m \in T : \A y \in T : <<y, m>> \notin R
    <2> HIDE DEF R, T
    <2>1. QED
      BY <1>1, <1>2, WFMin
  <1>4. PICK x \in D : m = n - x
    OBVIOUS
  <1>5. \A y \in D : x >= y
    <2> SUFFICES ASSUME NEW y \in D
                 PROVE  x >= y
      OBVIOUS
    <2>1. <<n - y, m>> \notin R
      BY <1>3
    <2>2. ~(n - y < m)
      BY <1>2, <1>3, <2>1
    <2>3. QED
      BY <1>4, <2>2
  <1>6. QED
    BY <1>5 DEF Max

LEMMA NoneIsNoApp == None \notin App
  BY NoneAssumption, BoundAssumption DEF App

\* The default of a listing is one of its records that can be loaded and has the
\* flag, if there is one.
LEMMA DefaultOfListing ==
  ASSUME NEW t \in Table
  PROVE  /\ DefaultOf(t) \in App \cup {None}
         /\ DefaultOf(t) # None => DefaultOf(t) \in Loaded(t) /\ t[DefaultOf(t)].def
         /\ DefaultOf(t) = None <=> ~\E a \in Loaded(t) : t[a].def
  <1> DEFINE D == {a \in Loaded(t) : t[a].def}
  <1>1. D \subseteq 1..MaxApps
    BY DEF Loaded, Present, App
  <1>2. CASE D = {}
    BY <1>2 DEF DefaultOf
  <1>3. CASE D # {}
    <2>1. Max(D) \in D
      BY <1>1, <1>3, MaxInSet, BoundAssumption
    <2>2. DefaultOf(t) = Max(D)
      BY <1>3 DEF DefaultOf
    <2>3. D \subseteq App
      BY DEF Loaded, Present
    <2>4. QED
      BY <2>1, <2>2, <2>3, NoneIsNoApp
  <1>4. QED
    BY <1>2, <1>3

\* The providers built from a listing.
LEMMA RebuiltFromListing ==
  ASSUME NEW t \in Table, NEW old
  PROVE  /\ Rebuilt(old, t) \in [App -> Key \cup {None}]
         /\ \A a \in App : Rebuilt(old, t)[a] # None <=> a \in Loaded(t)
         /\ \A a \in Loaded(t) : Rebuilt(old, t)[a] = t[a].key
  BY NoneAssumption DEF Rebuilt, Loaded, Present, Table, Row

-----------------------------------------------------------------------------
(* Type correctness.                                                       *)

LEMMA TableType ==
  /\ Table = [App -> Row \cup {None}]
  /\ NoRows \in Table
  /\ NoProviders \in [App -> Key \cup {None}]
  BY DEF Table, NoRows, NoProviders

LEMMA InitTypeOK == Init => TypeOK
  <1> SUFFICES ASSUME Init
               PROVE  TypeOK
    OBVIOUS
  <1>1. rows \in Table /\ providers \in [App -> Key \cup {None}]
    BY TableType DEF Init
  <1>2. next \in 1..MaxApps + 1 /\ begun \in 0..MaxRequests
    BY BoundAssumption DEF Init
  <1>3. req \in [Admin -> Request \cup {Idle}]
    BY DEF Init
  <1>4. QED
    BY <1>1, <1>2, <1>3 DEF Init, TypeOK

\* A request that is under way.
LEMMA Busy ==
  ASSUME TypeOK, NEW r \in Admin, req[r] # Idle
  PROVE  req[r] \in Request /\ req[r].pc # "idle"
  BY DEF TypeOK, Request, Fields

LEMMA BusyAt ==
  ASSUME TypeOK, NEW r \in Admin, req[r].pc # "idle"
  PROVE  req[r] \in Request
  BY DEF TypeOK, Idle

LEMMA ToReloadType ==
  ASSUME NEW q \in Request
  PROVE  ToReload(q) \in Request
  BY TableType DEF ToReload, Request, Fields

LEMMA UpdatedType ==
  ASSUME NEW q \in Request
  PROVE  Updated(q) \in Request
  <1>1. [q EXCEPT !.pc = "promote", !.copy = None] \in Request
    BY DEF Request, Fields
  <1>2. QED
    BY <1>1, ToReloadType DEF Updated

LEMMA BeginType ==
  ASSUME TypeOK, NEW r \in Admin, NEW first \in Request, Begin(r, first)
  PROVE  /\ req' \in [Admin -> Request \cup {Idle}]
         /\ settled' \in BOOLEAN
         /\ begun' \in 0..MaxRequests
  <1>1. \A b \in BOOLEAN : [first EXCEPT !.alone = b] \in Request
    BY DEF Request, Fields
  <1>2. \A q \in Admin : req[q] # Idle => [req[q] EXCEPT !.alone = FALSE] \in Request
    BY DEF Request, Fields, TypeOK
  <1>3. begun' \in 0..MaxRequests
    BY BoundAssumption DEF Begin, TypeOK
  <1>4. settled' \in BOOLEAN
    BY DEF Begin
  <1>5. QED
    <2> DEFINE none == {q \in Admin \ {r} : req[q] # Idle} = {}
    <2>1. [first EXCEPT !.alone = none] \in Request
      BY <1>1
    <2>2. req' \in [Admin -> Request \cup {Idle}]
      BY <1>2, <2>1 DEF Begin, TypeOK
    <2>3. QED
      BY <1>3, <1>4, <2>2
\* A step of a request that changes the table only.
LEMMA GotoType ==
  ASSUME TypeOK, NEW r \in Admin, NEW q \in Request \cup {Idle}, Goto(r, q)
  PROVE  req' \in [Admin -> Request \cup {Idle}]
  BY DEF Goto, TypeOK

LEMMA RowType ==
  ASSUME NEW row \in Row, NEW b \in BOOLEAN
  PROVE  [row EXCEPT !.def = b] \in Row
  BY DEF Row

LEMMA PresentType ==
  ASSUME NEW t \in Table
  PROVE  \A a \in Present(t) : t[a] \in Row /\ a \in App
  BY TableType DEF Present

LEMMA ServeTypeOK ==
  ASSUME TypeOK, NEW r \in Admin, Serve(r)
  PROVE  TypeOK'
  <1> USE DEF TypeOK, instanceVars
  <1> DEFINE q == req[r]
  <1>1. ASSUME NEW key \in Key, NEW def \in BOOLEAN, Create(r, key, def)
        PROVE  TypeOK'
    <2> DEFINE first == [Idle EXCEPT !.app = next,
                                     !.def = IF def THEN "true" ELSE "false",
                                     !.pc = IF def THEN "promote" ELSE "list"]
    <2>1. first \in Request
      BY <1>1, TableType DEF Create, Idle, Request, Fields
    <2>2. Begin(r, first)
      BY <1>1 DEF Create
    <2>3. /\ req' \in [Admin -> Request \cup {Idle}]
          /\ settled' \in BOOLEAN
          /\ begun' \in 0..MaxRequests
      BY <2>1, <2>2, BeginType
    <2>4. [key |-> key, def |-> FALSE] \in Row
      BY DEF Row
    <2>5. rows' \in Table
      BY <1>1, <2>4, TableType DEF Create
    <2>6. next' \in 1..MaxApps + 1
      BY <1>1, BoundAssumption DEF Create, App
    <2>7. QED
      BY <1>1, <2>3, <2>5, <2>6 DEF Create
  <1>2. ASSUME NEW a \in App, NEW key \in Key \cup {None},
               NEW def \in {"true", "false", "omitted"}, UpdateRead(r, a, key, def)
        PROVE  TypeOK'
    <2> DEFINE copy == Merge(rows[a], key, def)
               first == [Idle EXCEPT !.pc = "update", !.app = a, !.def = def, !.copy = copy]
    <2>1. rows[a] \in Row
      BY <1>2, TableType DEF UpdateRead
    <2>2. copy \in Row
      BY <2>1 DEF Merge, Row
    <2>3. first \in Request
      <3> HIDE DEF copy
      <3>1. copy \in Row \cup {None} /\ copy # None
        BY <2>2, NoneAssumption
      <3>2. first \in Fields
        BY <3>1, TableType DEF Idle, Fields
      <3>3. first.copy = copy
        BY DEF Idle
      <3>4. QED
        BY <3>1, <3>2, <3>3 DEF Request
    <2>4. Begin(r, first)
      BY <1>2 DEF UpdateRead
    <2>5. /\ req' \in [Admin -> Request \cup {Idle}]
          /\ settled' \in BOOLEAN
          /\ begun' \in 0..MaxRequests
      <3> HIDE DEF first
      <3>1. QED
        BY <2>3, <2>4, BeginType
    <2>6. QED
      BY <1>2, <2>5 DEF UpdateRead
  <1>3. ASSUME NEW a \in App, DeleteStart(r, a)
        PROVE  TypeOK'
    <2> DEFINE first == [Idle EXCEPT !.pc = "delete", !.app = a]
    <2>1. first \in Request
      BY TableType DEF Idle, Request, Fields
    <2>2. Begin(r, first)
      BY <1>3 DEF DeleteStart
    <2>3. /\ req' \in [Admin -> Request \cup {Idle}]
          /\ settled' \in BOOLEAN
          /\ begun' \in 0..MaxRequests
      <3> HIDE DEF first
      <3>1. QED
        BY <2>1, <2>2, BeginType
    <2>4. QED
      BY <1>3, <2>3 DEF DeleteStart
  <1>4. CASE SqlUpdate(r)
    <2>1. q \in Request
      BY <1>4, BusyAt DEF SqlUpdate
    <2>2. CASE rows' = [rows EXCEPT ![q.app] = q.copy] /\ Goto(r, Updated(q))
      <3>1. req' \in [Admin -> Request \cup {Idle}]
        BY <2>1, <2>2, UpdatedType, GotoType
      <3>2. q.copy \in Row \cup {None}
        BY <2>1 DEF Request, Fields
      <3>3. rows' \in Table
        BY <2>2, <3>2, TableType
      <3>4. QED
        BY <1>4, <3>1, <3>3 DEF SqlUpdate
    <2>3. CASE UNCHANGED rows /\ Goto(r, [q EXCEPT !.pc = "refused"])
      <3>1. [q EXCEPT !.pc = "refused"] \in Request
        BY <2>1 DEF Request, Fields
      <3>2. req' \in [Admin -> Request \cup {Idle}]
        BY <2>3, <3>1, GotoType
      <3>3. QED
        BY <1>4, <2>3, <3>2 DEF SqlUpdate
    <2>4. QED
      BY <1>4, <2>2, <2>3 DEF SqlUpdate
  <1>5. CASE SqlPromote(r)
    <2>1. q \in Request
      BY <1>5, BusyAt DEF SqlPromote
    <2>2. req' \in [Admin -> Request \cup {Idle}]
      BY <1>5, <2>1, ToReloadType, GotoType DEF SqlPromote
    <2>3. \A a \in App : rows[a] # None => [rows[a] EXCEPT !.def = (a = q.app)] \in Row
      BY RowType, TableType
    <2>4. rows' \in Table
      BY <1>5, <2>3, TableType DEF SqlPromote
    <2>5. QED
      BY <1>5, <2>2, <2>4 DEF SqlPromote
  <1>6. CASE SqlList(r)
    <2>1. [q EXCEPT !.pc = "apply", !.listed = rows] \in Request
      BY <1>6, BusyAt DEF SqlList, Request, Fields
    <2>2. req' \in [Admin -> Request \cup {Idle}]
      BY <1>6, <2>1, GotoType DEF SqlList
    <2>3. QED
      BY <1>6, <2>2 DEF SqlList
  <1>7. CASE SqlDelete(r)
    <2>1. req' \in [Admin -> Request \cup {Idle}]
      BY <1>7, BusyAt, ToReloadType, GotoType DEF SqlDelete
    <2>2. rows' \in Table
      BY <1>7, TableType DEF SqlDelete
    <2>3. QED
      BY <1>7, <2>1, <2>2 DEF SqlDelete
  <1>8. CASE VaultUpdateCheck(r)
    <2>1. [q EXCEPT !.pc = "write"] \in Request
      BY <1>8, BusyAt DEF VaultUpdateCheck, Request, Fields
    <2>2. req' \in [Admin -> Request \cup {Idle}]
      BY <1>8, <2>1, GotoType DEF VaultUpdateCheck
    <2>3. QED
      BY <1>8, <2>2 DEF VaultUpdateCheck
  <1>9. CASE VaultUpdateWrite(r)
    <2>1. q \in Request
      BY <1>9, BusyAt DEF VaultUpdateWrite
    <2>2. req' \in [Admin -> Request \cup {Idle}]
      BY <1>9, <2>1, UpdatedType, GotoType DEF VaultUpdateWrite
    <2>3. q.copy \in Row \cup {None}
      BY <2>1 DEF Request, Fields
    <2>4. rows' \in Table
      BY <1>9, <2>3, TableType DEF VaultUpdateWrite
    <2>5. QED
      BY <1>9, <2>2, <2>4 DEF VaultUpdateWrite
  <1>10. CASE VaultPromoteRead(r)
    <2>1. q \in Request /\ rows[q.app] \in Row \cup {None}
      BY <1>10, BusyAt, TableType DEF VaultPromoteRead, Request, Fields
    <2>2. rows[q.app] \in Row \cup {None} /\ rows[q.app] # None
      BY <1>10, <2>1 DEF VaultPromoteRead
    <2> DEFINE copy == rows[q.app]
    <2>3. [q EXCEPT !.pc = "set", !.copy = copy] \in Request
      <3> HIDE DEF copy
      <3>1. QED
        BY <2>1, <2>2 DEF Request, Fields, copy
    <2>4. req' \in [Admin -> Request \cup {Idle}]
      BY <1>10, <2>3, GotoType DEF VaultPromoteRead
    <2>5. QED
      BY <1>10, <2>4 DEF VaultPromoteRead
  <1>11. CASE VaultPromoteSet(r)
    <2>1. q \in Request
      BY <1>11, BusyAt DEF VaultPromoteSet
    <2>2. [q EXCEPT !.pc = "list", !.for = "clear", !.copy = None] \in Request
      BY <2>1 DEF Request, Fields
    <2>3. req' \in [Admin -> Request \cup {Idle}]
      BY <1>11, <2>2, GotoType DEF VaultPromoteSet
    <2>4. q.copy \in Row
      BY <1>11, <2>1 DEF VaultPromoteSet, Request, Fields
    <2>5. rows' \in Table
      BY <1>11, <2>4, RowType, TableType DEF VaultPromoteSet
    <2>6. QED
      BY <1>11, <2>3, <2>5 DEF VaultPromoteSet
  <1>12. CASE VaultClear(r)
    <2>1. q \in Request
      BY <1>12, BusyAt DEF VaultClear
    <2>2. ASSUME NEW a \in ToClear(q),
                 rows' = [rows EXCEPT ![a] = [q.listed[a] EXCEPT !.def = FALSE]],
                 Goto(r, [q EXCEPT !.listed[a] = None])
          PROVE  TypeOK'
      <3>1. a \in App /\ q.listed \in Table /\ q.listed[a] \in Row
        BY <2>1, TableType DEF ToClear, Present, Request, Fields
      <3>2. rows' \in Table
        BY <2>2, <3>1, RowType, TableType
      <3>3. [q.listed EXCEPT ![a] = None] \in Table
        BY <3>1, TableType
      <3>4. [q EXCEPT !.listed[a] = None] \in Request
        BY <2>1, <3>3 DEF Request, Fields
      <3>5. req' \in [Admin -> Request \cup {Idle}]
        BY <2>2, <3>4, GotoType
      <3>6. QED
        BY <1>12, <3>2, <3>5 DEF VaultClear
    <2>3. CASE UNCHANGED rows /\ Goto(r, ToReload(q))
      <3>1. req' \in [Admin -> Request \cup {Idle}]
        BY <2>1, <2>3, ToReloadType, GotoType
      <3>2. QED
        BY <1>12, <2>3, <3>1 DEF VaultClear
    <2>4. QED
      BY <1>12, <2>2, <2>3 DEF VaultClear
  <1>13. CASE VaultList(r)
    <2>1. [q EXCEPT !.pc = "get", !.todo = Present(rows), !.listed = NoRows] \in Request
      <3>1. q \in Request
        BY <1>13, BusyAt DEF VaultList
      <3>2. Present(rows) \subseteq App
        BY DEF Present
      <3> DEFINE keys == Present(rows)
      <3> HIDE DEF keys
      <3>3. [q EXCEPT !.pc = "get", !.todo = keys, !.listed = NoRows] \in Request
        BY <3>1, <3>2, TableType DEF Request, Fields, keys
      <3>4. QED
        BY <3>3 DEF keys
    <2>2. req' \in [Admin -> Request \cup {Idle}]
      BY <1>13, <2>1, GotoType DEF VaultList
    <2>3. QED
      BY <1>13, <2>2 DEF VaultList
  <1>14. CASE VaultGet(r)
    <2>1. q \in Request
      BY <1>14, BusyAt DEF VaultGet
    <2>2. ASSUME NEW a \in q.todo, Goto(r, [q EXCEPT !.todo = @ \ {a}, !.listed[a] = rows[a]])
          PROVE  TypeOK'
      <3>1. a \in App /\ q.listed \in Table
        BY <2>1 DEF Request, Fields
      <3>2. [q.listed EXCEPT ![a] = rows[a]] \in Table
        BY <3>1, TableType
      <3>3. [q EXCEPT !.todo = @ \ {a}, !.listed[a] = rows[a]] \in Request
        BY <2>1, <3>2 DEF Request, Fields
      <3>4. req' \in [Admin -> Request \cup {Idle}]
        BY <2>2, <3>3, GotoType
      <3>5. QED
        BY <1>14, <3>4 DEF VaultGet
    <2>3. CASE Goto(r, [q EXCEPT !.pc = q.for])
      <3>1. [q EXCEPT !.pc = q.for] \in Request
        BY <2>1 DEF Request, Fields
      <3>2. req' \in [Admin -> Request \cup {Idle}]
        BY <2>3, <3>1, GotoType
      <3>3. QED
        BY <1>14, <3>2 DEF VaultGet
    <2>4. QED
      BY <1>14, <2>2, <2>3 DEF VaultGet
  <1>15. CASE VaultDeleteCheck(r)
    <2>1. [q EXCEPT !.pc = "remove"] \in Request
      BY <1>15, BusyAt DEF VaultDeleteCheck, Request, Fields
    <2>2. req' \in [Admin -> Request \cup {Idle}]
      BY <1>15, <2>1, GotoType DEF VaultDeleteCheck
    <2>3. QED
      BY <1>15, <2>2 DEF VaultDeleteCheck
  <1>16. CASE VaultDelete(r)
    <2>1. req' \in [Admin -> Request \cup {Idle}]
      BY <1>16, BusyAt, ToReloadType, GotoType DEF VaultDelete
    <2>2. rows' \in Table
      BY <1>16, TableType DEF VaultDelete
    <2>3. QED
      BY <1>16, <2>1, <2>2 DEF VaultDelete
  <1>17. CASE Apply(r)
    <2>1. q \in Request
      BY <1>17, BusyAt DEF Apply
    <2>2. q.listed \in Table /\ q.alone \in BOOLEAN
      BY <2>1 DEF Request, Fields
    <2>3. Rebuilt(providers, q.listed) \in [App -> Key \cup {None}]
      BY <2>2, RebuiltFromListing
    <2>4. DefaultOf(q.listed) \in App \cup {None}
      BY <2>2, DefaultOfListing
    <2>5. req' \in [Admin -> Request \cup {Idle}]
      BY <1>17, GotoType DEF Apply
    <2>6. QED
      BY <1>17, <2>2, <2>3, <2>4, <2>5 DEF Apply
  <1>18. CASE GiveUp(r)
    <2>1. req' \in [Admin -> Request \cup {Idle}]
      BY <1>18, GotoType DEF GiveUp
    <2>2. QED
      BY <1>18, <2>1 DEF GiveUp
  <1>19. QED
    BY <1>1, <1>2, <1>3, <1>4, <1>5, <1>6, <1>7, <1>8, <1>9, <1>10, <1>11, <1>12,
       <1>13, <1>14, <1>15, <1>16, <1>17, <1>18 DEF Serve

LEMMA NextTypeOK == TypeOK /\ [Next]_vars => TypeOK'
  <1> SUFFICES ASSUME TypeOK, [Next]_vars
               PROVE  TypeOK'
    OBVIOUS
  <1>1. CASE Seed
    <2>1. [key |-> ConfigKey, def |-> TRUE] \in Row
      BY KeyAssumption DEF Row
    <2>2. rows' \in Table
      BY <1>1, <2>1, TableType, ZenonT(40)
         DEF Seed, TypeOK
    <2>3. next' \in 1..MaxApps + 1
      BY <1>1, BoundAssumption DEF Seed, TypeOK, App
    <2>4. QED
      BY <1>1, <2>2, <2>3 DEF Seed, TypeOK
  <1>2. CASE LoadAll
    <2>1. /\ Rebuilt(NoProviders, rows) \in [App -> Key \cup {None}]
          /\ DefaultOf(rows) \in App \cup {None}
      BY RebuiltFromListing, DefaultOfListing DEF TypeOK
    <2>2. Fallback \in {"registry", "config", "nothing"}
      BY ConfigAssumption DEF TypeOK, Fallback
    <2>3. QED
      BY <1>2, <2>1, <2>2 DEF LoadAll, TypeOK
  <1>3. CASE Crash
    BY <1>3, TableType DEF Crash, TypeOK
  <1>4. ASSUME NEW r \in Admin, Serve(r)
        PROVE  TypeOK'
    BY <1>4, ServeTypeOK
  <1>5. CASE UNCHANGED vars
    BY <1>5 DEF vars, TypeOK
  <1>6. QED
    BY <1>1, <1>2, <1>3, <1>4, <1>5 DEF Next

\* Type correctness: the state of the table, of the registry and of every
\* request is what the code's declarations say, however requests interleave.
THEOREM TypeCorrect == Spec => []TypeOK
  BY InitTypeOK, NextTypeOK, PTL DEF Spec

-----------------------------------------------------------------------------
(* The inductive invariant.                                                *)

\* Records that have not been created are not in the table, and no request is
\* about one of them or has listed one.
Fresh ==
  /\ \A a \in App : a >= next => rows[a] = None
  /\ \A r \in Admin : req[r] # Idle =>
       /\ req[r].app < next
       /\ \A a \in App : a >= next => req[r].listed[a] = None

\* Requests are served by an instance that is up; steps that only Vault takes
\* are not taken on a SQL store; a listing goes where it is meant to go; a
\* deletion says nothing about the flag.
Shape ==
  /\ state # "up" => \A r \in Admin : req[r] = Idle
  /\ \A r \in Admin :
       /\ backend = "sql" => /\ req[r].pc \notin {"write", "set", "get", "clear", "remove"}
                             /\ req[r].for = "apply"
       /\ req[r].pc = "clear" => req[r].for = "clear"
       /\ req[r].pc = "apply" => req[r].for = "apply"
       /\ req[r].pc \in {"delete", "remove"} => req[r].def = "omitted" /\ req[r].for = "apply"

\* A request that has met no other one is the only one.
OneAlone ==
  \A q, r \in Admin : req[q].alone /\ r # q => req[r] = Idle

\* What such a request knows of the table t: what it is going to write, and what
\* it has listed, is what the table holds.
Knows(q, t) ==
  /\ q.pc \in {"update", "write"} =>
       /\ t[q.app] # None
       /\ q.def = "omitted" => q.copy.def = t[q.app].def
       /\ q.def = "true" => q.copy.def
  /\ q.pc = "get" => \A a \in App : a \notin q.todo => q.listed[a] = t[a]
  /\ q.pc = "clear" => \A a \in App : a # q.app /\ t[a] # None /\ t[a].def => q.listed[a] = t[a]
  /\ q.pc = "apply" => \A a \in App : q.listed[a] = t[a]
  /\ q.pc \in {"list", "get", "clear"} /\ q.for = "clear" => t[q.app] # None /\ t[q.app].def
  /\ q.pc \in {"list", "get", "apply"} /\ q.for = "apply" /\ q.def = "true" =>
       /\ t[q.app] # None /\ t[q.app].def
       /\ \A a \in App : a # q.app /\ t[a] # None => ~t[a].def

AloneKnows == \A r \in Admin : req[r].alone => Knows(req[r], rows)

\* When the registry has settled nothing is under way, and it is current.
Settled ==
  settled => state = "up" /\ \A r \in Admin : req[r] = Idle

Strong ==
  /\ TypeOK
  /\ Fresh
  /\ Shape
  /\ OneAlone
  /\ AloneKnows
  /\ Settled

IInv ==
  /\ Strong
  /\ SqlSingleDefault
  /\ DefaultIsLoaded
  /\ QuietReloadIsCurrent

LEMMA IdleFields == Idle.pc = "idle" /\ Idle.for = "apply" /\ ~Idle.alone
  BY DEF Idle

LEMMA InitIInv == Init => IInv
  <1> SUFFICES ASSUME Init
               PROVE  IInv
    OBVIOUS
  <1>1. TypeOK
    BY InitTypeOK
  <1>2. Fresh
    BY DEF Init, Fresh, NoRows
  <1>3. \A r \in Admin : req[r] = Idle
    BY DEF Init
  <1>4. Shape /\ OneAlone /\ AloneKnows
    BY <1>3, IdleFields DEF Shape, OneAlone, AloneKnows
  <1>5. Settled /\ QuietReloadIsCurrent
    BY DEF Init, Settled, QuietReloadIsCurrent
  <1>6. SqlSingleDefault
    BY DEF Init, SqlSingleDefault, Default, Present, NoRows
  <1>7. DefaultIsLoaded
    BY DEF Init, DefaultIsLoaded
  <1>8. QED
    BY <1>1, <1>2, <1>4, <1>5, <1>6, <1>7 DEF IInv, Strong

\* A request that begins: the others are not alone any more.
LEMMA BeginAlone ==
  ASSUME TypeOK, NEW r \in Admin, NEW first, NEW t, Begin(r, first), rows' = t,
         Knows([first EXCEPT !.alone = TRUE], t),
         first \in Request
  PROVE  OneAlone' /\ AloneKnows'
  <1> DEFINE others == {q \in Admin \ {r} : req[q] # Idle}
  <1>1. \A q \in others : ~req'[q].alone
    BY DEF Begin, TypeOK, Request, Fields
  <1>2. \A q \in Admin \ {r} : q \notin others => req'[q] = Idle
    BY DEF Begin
  <1>3. req'[r] = [first EXCEPT !.alone = (others = {})]
    BY DEF Begin
  <1>4. others = {} => \A q \in Admin \ {r} : req'[q] = Idle
    BY <1>2
  <1>5. req'[r].alone <=> others = {}
    BY <1>3 DEF Request, Fields
  <1>6. ~Idle.alone
    BY DEF Idle
  <1> HIDE DEF others
  <1>7. \A q \in Admin \ {r} : ~req'[q].alone
    BY <1>1, <1>2, <1>6
  <1>8. OneAlone'
    BY <1>4, <1>5, <1>7 DEF OneAlone
  <1>9. req'[r].alone => Knows(req'[r], t)
    BY <1>3, <1>5
  <1>10. AloneKnows'
    BY <1>7, <1>9 DEF AloneKnows, Knows
  <1>11. QED
    BY <1>8, <1>10

\* A step of one request while others may be under way.
LEMMA StepAlone ==
  ASSUME TypeOK, OneAlone, NEW r \in Admin, req[r] # Idle,
         NEW q, NEW t, Goto(r, q), rows' = t,
         q.alone => req[r].alone /\ Knows(q, t)
  PROVE  OneAlone' /\ AloneKnows'
  <1>1. req'[r] = q /\ \A o \in Admin \ {r} : req'[o] = req[o]
    BY DEF Goto, TypeOK
  <1>2. \A o \in Admin \ {r} : ~req[o].alone
    BY DEF OneAlone
  <1>3. OneAlone'
    BY <1>1, <1>2 DEF OneAlone
  <1>4. AloneKnows'
    BY <1>1, <1>2 DEF AloneKnows, Knows
  <1>5. QED
    BY <1>3, <1>4

LEMMA ToReloadFields ==
  ASSUME NEW q \in Request
  PROVE  LET n == ToReload(q)
         IN  /\ n.pc = "list" /\ n.for = "apply" /\ n.app = q.app
             /\ n.def = q.def /\ n.alone = q.alone
  BY DEF ToReload, Request, Fields

\* Going on to Reload: if the request has promoted its app, the app is the only
\* default.
LEMMA ToReloadKnows ==
  ASSUME NEW q \in Request, NEW t,
         q.def = "true" => /\ t[q.app] # None /\ t[q.app].def
                           /\ \A a \in App : a # q.app /\ t[a] # None => ~t[a].def
  PROVE  Knows(ToReload(q), t)
  <1> DEFINE n == ToReload(q)
  <1>1. /\ n.pc = "list" /\ n.for = "apply" /\ n.app = q.app
        /\ n.def = q.def
    BY ToReloadFields
  <1> HIDE DEF n
  <1>2. Knows(n, t)
    BY <1>1 DEF Knows
  <1>3. QED
    BY <1>2 DEF n

\* After UpdateApp.
LEMMA UpdatedKnows ==
  ASSUME NEW q \in Request, NEW t, q.def = "true" => q.copy.def
  PROVE  Knows(Updated(q), t)
  <1>1. CASE q.copy.def
    <2> DEFINE n == [q EXCEPT !.pc = "promote", !.copy = None]
    <2>1. n.pc = "promote" /\ n.alone = q.alone
      BY DEF Request, Fields
    <2> HIDE DEF n
    <2>2. Knows(n, t)
      BY <2>1 DEF Knows
    <2>3. QED
      BY <1>1, <2>1, <2>2 DEF Updated, n
  <1>2. CASE ~q.copy.def
    BY <1>2, ToReloadKnows, ToReloadFields DEF Updated
  <1>3. QED
    BY <1>1, <1>2

LEMMA UpdatedAlone ==
  ASSUME NEW q \in Request
  PROVE  Updated(q).alone = q.alone
  <1>1. [q EXCEPT !.pc = "promote", !.copy = None].alone = q.alone
    BY DEF Request, Fields
  <1>2. QED
    BY <1>1, ToReloadFields DEF Updated

LEMMA ServeAlone ==
  ASSUME Strong, NEW r \in Admin, Serve(r)
  PROVE  OneAlone' /\ AloneKnows'
  <1> DEFINE q == req[r]
  <1>0. TypeOK /\ OneAlone /\ (q.alone => Knows(q, rows)) /\ Shape /\ Fresh
    BY DEF Strong, AloneKnows
  <1>a. ASSUME q.pc # "idle"
        PROVE  q \in Request /\ q # Idle
    BY <1>0, <1>a, BusyAt, IdleFields
  <1>1. ASSUME NEW key \in Key, NEW def \in BOOLEAN, Create(r, key, def)
        PROVE  OneAlone' /\ AloneKnows'
    <2> DEFINE first == [Idle EXCEPT !.app = next,
                                     !.def = IF def THEN "true" ELSE "false",
                                     !.pc = IF def THEN "promote" ELSE "list"]
               alone == [first EXCEPT !.alone = TRUE]
    <2>1. first \in Request
      BY <1>0, <1>1, TableType DEF Create, Idle, Request, Fields, TypeOK
    <2>2. Begin(r, first)
      BY <1>1 DEF Create
    <2>3. /\ alone.pc = IF def THEN "promote" ELSE "list"
          /\ alone.def = IF def THEN "true" ELSE "false"
          /\ alone.for = "apply"
      BY DEF Idle
    <2> HIDE DEF first, alone
    <2>4. Knows(alone, rows')
      BY <2>3 DEF Knows
    <2>5. QED
      BY <1>0, <2>1, <2>2, <2>4, BeginAlone DEF alone
  <1>2. ASSUME NEW a \in App, NEW key \in Key \cup {None},
               NEW def \in {"true", "false", "omitted"}, UpdateRead(r, a, key, def)
        PROVE  OneAlone' /\ AloneKnows'
    <2> DEFINE copy == Merge(rows[a], key, def)
               first == [Idle EXCEPT !.pc = "update", !.app = a, !.def = def, !.copy = copy]
               alone == [first EXCEPT !.alone = TRUE]
    <2>1. rows[a] \in Row /\ rows[a] # None
      BY <1>0, <1>2, TableType DEF UpdateRead, TypeOK
    <2>2. /\ copy \in Row /\ copy # None
          /\ copy.def = IF def = "omitted" THEN rows[a].def ELSE def = "true"
      <3>1. copy \in Row
        BY <2>1 DEF Merge, Row
      <3>2. copy.def = IF def = "omitted" THEN rows[a].def ELSE def = "true"
        BY DEF Merge
      <3>3. QED
        BY <3>1, <3>2, NoneAssumption
    <2>3. Begin(r, first) /\ rows' = rows
      BY <1>2 DEF UpdateRead
    <2> HIDE DEF copy
    <2>4. first \in Fields /\ first.copy = copy
      BY <2>2, TableType DEF Idle, Fields
    <2>5. first \in Request
      BY <2>2, <2>4 DEF Request
    <2>6. alone.pc = "update" /\ alone.app = a /\ alone.def = def /\ alone.copy = copy
      BY DEF Idle
    <2> HIDE DEF first, alone
    <2>7. Knows(alone, rows)
      BY <2>1, <2>2, <2>6 DEF Knows
    <2>8. QED
      BY <1>0, <2>3, <2>5, <2>7, BeginAlone DEF alone
  <1>3. ASSUME NEW a \in App, DeleteStart(r, a)
        PROVE  OneAlone' /\ AloneKnows'
    <2> DEFINE first == [Idle EXCEPT !.pc = "delete", !.app = a]
               alone == [first EXCEPT !.alone = TRUE]
    <2>1. first \in Request
      BY TableType DEF Idle, Request, Fields
    <2>2. Begin(r, first)
      BY <1>3 DEF DeleteStart
    <2>3. alone.pc = "delete"
      BY DEF Idle
    <2> HIDE DEF first, alone
    <2>4. Knows(alone, rows')
      BY <2>3 DEF Knows
    <2>5. QED
      BY <1>0, <2>1, <2>2, <2>4, BeginAlone DEF alone
  \* It is enough that the request knows what it should after its step.
  <1>4. ASSUME NEW n, NEW t, q.pc # "idle", Goto(r, n), rows' = t,
               n.alone => q.alone /\ Knows(n, t)
        PROVE  OneAlone' /\ AloneKnows'
    BY <1>0, <1>a, <1>4, StepAlone
  <1>5. CASE SqlUpdate(r)
    <2>1. q.pc = "update" /\ q \in Request
      BY <1>5, <1>a DEF SqlUpdate
    <2>2. q.alone /\ q.def = "true" => q.copy.def
      BY <1>0, <2>1 DEF Knows
    <2>3. CASE Goto(r, Updated(q))
      <3>1. Updated(q).alone => q.alone /\ Knows(Updated(q), rows')
        BY <2>1, <2>2, UpdatedKnows, UpdatedAlone
      <3>2. QED
        BY <1>4, <2>1, <2>3, <3>1
    <2>4. CASE Goto(r, [q EXCEPT !.pc = "refused"])
      <3> DEFINE n == [q EXCEPT !.pc = "refused"]
      <3>1. n.pc = "refused" /\ n.alone = q.alone
        BY <2>1 DEF Request, Fields
      <3> HIDE DEF n
      <3>2. Knows(n, rows')
        BY <3>1 DEF Knows
      <3>3. QED
        BY <1>4, <2>1, <2>4, <3>1, <3>2 DEF n
    <2>5. QED
      BY <1>5, <2>3, <2>4 DEF SqlUpdate
  <1>6. CASE SqlPromote(r)
    <2>1. q.pc = "promote" /\ q \in Request
      BY <1>6, <1>a DEF SqlPromote
    <2>2. q.app \in App
      BY <2>1 DEF Request, Fields
    <2>3. \A a \in App : /\ rows[a] = None => rows'[a] = None
                         /\ rows[a] # None => rows'[a] \in Row /\ rows'[a] # None
                                              /\ (rows'[a].def <=> a = q.app)
      <3> SUFFICES ASSUME NEW a \in App
                   PROVE  /\ rows[a] = None => rows'[a] = None
                          /\ rows[a] # None => rows'[a] \in Row /\ rows'[a] # None
                                               /\ (rows'[a].def <=> a = q.app)
        OBVIOUS
      <3>1. rows'[a] = IF rows[a] = None THEN None ELSE [rows[a] EXCEPT !.def = (a = q.app)]
        BY <1>6 DEF SqlPromote
      <3>2. CASE rows[a] # None
        <4>1. rows[a] \in Row
          BY <1>0, <3>2, TableType DEF TypeOK
        <4> DEFINE flag == (a = q.app)
        <4>2. flag \in BOOLEAN
          OBVIOUS
        <4>3. rows'[a] = [rows[a] EXCEPT !.def = flag]
          BY <3>1, <3>2
        <4> HIDE DEF flag
        <4>4. rows'[a] \in Row /\ rows'[a].def = flag
          BY <4>1, <4>2, <4>3 DEF Row
        <4>5. QED
          BY <3>2, <4>4, NoneAssumption DEF flag
      <3>3. QED
        BY <3>1, <3>2
    <2>4. rows[q.app] # None /\ Goto(r, ToReload(q))
      BY <1>6 DEF SqlPromote
    <2>5. /\ rows'[q.app] # None /\ rows'[q.app].def
          /\ \A a \in App : a # q.app /\ rows'[a] # None => ~rows'[a].def
      BY <2>2, <2>3, <2>4
    <2>6. Knows(ToReload(q), rows')
      BY <2>1, <2>5, ToReloadKnows
    <2>7. ToReload(q).alone = q.alone
      BY <2>1, ToReloadFields
    <2>8. QED
      BY <1>4, <2>1, <2>4, <2>6, <2>7
  <1>7. CASE SqlList(r)
    <2>1. q.pc = "list" /\ q \in Request
      BY <1>7, <1>a DEF SqlList
    <2> DEFINE n == [q EXCEPT !.pc = "apply", !.listed = rows]
    <2>3. n.pc = "apply" /\ n.for = q.for /\ n.listed = rows /\ n.def = q.def /\ n.app = q.app /\ n.alone = q.alone
      BY <2>1 DEF Request, Fields
    <2>4. Goto(r, n)
      BY <1>7 DEF SqlList
    <2> HIDE DEF n
    <2>5. n.alone => q.alone /\ Knows(n, rows)
      BY <1>0, <1>7, <2>1, <2>3 DEF Knows, SqlList
    <2>6. QED
      BY <1>4, <1>7, <2>1, <2>4, <2>5 DEF SqlList
  <1>8. CASE SqlDelete(r)
    <2>1. q.pc = "delete" /\ q \in Request
      BY <1>8, <1>a DEF SqlDelete
    <2>2. q.def = "omitted"
      BY <1>0, <2>1 DEF Shape
    <2>3. Knows(ToReload(q), rows')
      BY <2>1, <2>2, ToReloadKnows
    <2>4. Goto(r, ToReload(q)) /\ ToReload(q).alone = q.alone
      BY <1>8, <2>1, ToReloadFields DEF SqlDelete
    <2>5. QED
      BY <1>4, <2>1, <2>3, <2>4
  <1>9. CASE VaultUpdateCheck(r)
    <2>1. q.pc = "update" /\ q \in Request
      BY <1>9, <1>a DEF VaultUpdateCheck
    <2> DEFINE n == [q EXCEPT !.pc = "write"]
    <2>3. n.pc = "write" /\ n.copy = q.copy /\ n.def = q.def /\ n.app = q.app /\ n.alone = q.alone
      BY <2>1 DEF Request, Fields
    <2>4. Goto(r, n)
      BY <1>9 DEF VaultUpdateCheck
    <2> HIDE DEF n
    <2>5. n.alone => q.alone /\ Knows(n, rows)
      BY <1>0, <1>9, <2>1, <2>3 DEF Knows, VaultUpdateCheck
    <2>6. QED
      BY <1>4, <1>9, <2>1, <2>4, <2>5 DEF VaultUpdateCheck
  <1>10. CASE VaultUpdateWrite(r)
    <2>1. q.pc = "write" /\ q \in Request
      BY <1>10, <1>a DEF VaultUpdateWrite
    <2>2. q.alone /\ q.def = "true" => q.copy.def
      BY <1>0, <2>1 DEF Knows
    <2>3. Updated(q).alone => q.alone /\ Knows(Updated(q), rows')
      BY <2>1, <2>2, UpdatedKnows, UpdatedAlone
    <2>4. Goto(r, Updated(q))
      BY <1>10 DEF VaultUpdateWrite
    <2>5. QED
      BY <1>4, <2>1, <2>3, <2>4
  <1>11. CASE VaultPromoteRead(r)
    <2>1. q.pc = "promote" /\ q \in Request
      BY <1>11, <1>a DEF VaultPromoteRead
    <2> DEFINE copy == rows[q.app]
               n == [q EXCEPT !.pc = "set", !.copy = copy]
    <2>2. n.pc = "set" /\ n.alone = q.alone
      <3> HIDE DEF copy
      <3>1. QED
        BY <2>1 DEF Request, Fields
    <2>3. Goto(r, n)
      BY <1>11 DEF VaultPromoteRead
    <2> HIDE DEF n
    <2>4. n.alone => q.alone /\ Knows(n, rows')
      BY <2>2 DEF Knows
    <2>5. QED
      BY <1>4, <2>1, <2>3, <2>4
  <1>12. CASE VaultPromoteSet(r)
    <2>1. q.pc = "set" /\ q \in Request
      BY <1>12, <1>a DEF VaultPromoteSet
    <2>2. q.app \in App /\ q.copy \in Row
      BY <2>1 DEF Request, Fields
    <2>3. rows'[q.app] # None /\ rows'[q.app].def
      <3>1. [q.copy EXCEPT !.def = TRUE] \in Row /\ [q.copy EXCEPT !.def = TRUE].def
        BY <2>2 DEF Row
      <3>2. QED
        BY <1>0, <1>12, <2>2, <3>1, NoneAssumption, TableType DEF VaultPromoteSet, TypeOK
    <2> DEFINE n == [q EXCEPT !.pc = "list", !.for = "clear", !.copy = None]
    <2>4. /\ n.pc = "list" /\ n.for = "clear" /\ n.app = q.app
          /\ n.listed = q.listed /\ n.alone = q.alone
      BY <2>1 DEF Request, Fields
    <2>5. Goto(r, n)
      BY <1>12 DEF VaultPromoteSet
    <2> HIDE DEF n
    <2>6. n.alone => q.alone /\ Knows(n, rows')
      BY <1>0, <2>1, <2>3, <2>4 DEF Knows
    <2>7. QED
      BY <1>4, <2>1, <2>5, <2>6
  <1>13. CASE VaultClear(r)
    <2>1. q.pc = "clear" /\ q \in Request /\ q.for = "clear"
      BY <1>0, <1>13, <1>a DEF VaultClear, Shape
    <2>2. q.listed \in Table /\ q.app \in App
      BY <2>1 DEF Request, Fields
    <2>3. q.alone => /\ rows[q.app] # None /\ rows[q.app].def
                     /\ \A b \in App : b # q.app /\ rows[b] # None /\ rows[b].def
                                         => q.listed[b] = rows[b]
      BY <1>0, <2>1 DEF Knows
    <2>4. ASSUME NEW a \in ToClear(q),
                 rows' = [rows EXCEPT ![a] = [q.listed[a] EXCEPT !.def = FALSE]],
                 Goto(r, [q EXCEPT !.listed[a] = None])
          PROVE  OneAlone' /\ AloneKnows'
      <3>1. a \in App /\ a # q.app /\ q.listed[a] \in Row
        BY <2>2, TableType DEF ToClear, Present
      <3>2. [q.listed[a] EXCEPT !.def = FALSE] \in Row /\ ~[q.listed[a] EXCEPT !.def = FALSE].def
        BY <3>1 DEF Row
      <3>3. /\ rows'[a] # None /\ ~rows'[a].def
            /\ \A b \in App \ {a} : rows'[b] = rows[b]
        BY <1>0, <2>4, <3>1, <3>2, NoneAssumption, TableType DEF TypeOK
      <3> DEFINE n == [q EXCEPT !.listed[a] = None]
      <3>4. /\ n.pc = q.pc /\ n.for = q.for /\ n.app = q.app /\ n.alone = q.alone
            /\ \A b \in App \ {a} : n.listed[b] = q.listed[b]
        BY <2>1, <3>1 DEF Request, Fields, Table
      <3>5. Goto(r, n)
        BY <2>4
      <3> HIDE DEF n
      <3>6. n.alone => q.alone /\ Knows(n, rows')
        BY <2>1, <2>2, <2>3, <3>1, <3>3, <3>4 DEF Knows
      <3>7. QED
        BY <1>4, <2>1, <3>5, <3>6
    <2>5. CASE ToClear(q) = {} /\ UNCHANGED rows /\ Goto(r, ToReload(q))
      <3>1. q.alone => \A b \in App : b # q.app /\ rows[b] # None => ~rows[b].def
        BY <2>2, <2>3, <2>5 DEF ToClear, Present
      <3>2. q.alone => Knows(ToReload(q), rows)
        BY <2>1, <2>3, <3>1, ToReloadKnows
      <3>3. QED
        BY <1>4, <2>1, <2>5, <3>2, ToReloadFields
    <2>6. QED
      BY <1>13, <2>4, <2>5 DEF VaultClear
  <1>14. CASE VaultList(r)
    <2>1. q.pc = "list" /\ q \in Request
      BY <1>14, <1>a DEF VaultList
    <2> DEFINE n == [q EXCEPT !.pc = "get", !.todo = Present(rows), !.listed = NoRows]
    <2>3. n.pc = "get" /\ n.for = q.for /\ n.listed = NoRows /\ n.todo = Present(rows) /\ n.def = q.def /\ n.app = q.app /\ n.alone = q.alone
      BY <2>1 DEF Request, Fields
    <2>4. Goto(r, n)
      BY <1>14 DEF VaultList
    <2> HIDE DEF n
    <2>5. n.alone => q.alone /\ Knows(n, rows)
      BY <1>0, <1>14, <2>1, <2>3 DEF Knows, VaultList, Present, NoRows
    <2>6. QED
      BY <1>4, <1>14, <2>1, <2>4, <2>5 DEF VaultList
  <1>15. CASE VaultGet(r)
    <2>1. q.pc = "get" /\ q \in Request /\ rows' = rows
      BY <1>15, <1>a DEF VaultGet
    <2>2. q.todo \subseteq App /\ q.listed \in Table /\ q.for \in {"clear", "apply"}
      BY <2>1 DEF Request, Fields
    <2>3. ASSUME NEW a \in q.todo, Goto(r, [q EXCEPT !.todo = @ \ {a}, !.listed[a] = rows[a]])
          PROVE  OneAlone' /\ AloneKnows'
      <3> DEFINE n == [q EXCEPT !.todo = @ \ {a}, !.listed[a] = rows[a]]
      <3>1. /\ n.pc = q.pc /\ n.for = q.for /\ n.app = q.app /\ n.def = q.def
            /\ n.alone = q.alone /\ n.todo = q.todo \ {a}
        BY <2>1 DEF Request, Fields
      <3>2. n.listed = [q.listed EXCEPT ![a] = rows[a]]
        BY <2>1 DEF Request, Fields
      <3>3. n.listed[a] = rows[a] /\ \A b \in App \ {a} : n.listed[b] = q.listed[b]
        BY <2>2, <3>2 DEF Table
      <3>4. Goto(r, n)
        BY <2>3
      <3> HIDE DEF n
      <3>5. n.alone => q.alone /\ Knows(n, rows)
        BY <1>0, <2>1, <2>2, <3>1, <3>3 DEF Knows
      <3>6. QED
        BY <1>4, <2>1, <3>4, <3>5
    <2>4. CASE q.todo = {} /\ Goto(r, [q EXCEPT !.pc = q.for])
      <3> DEFINE n == [q EXCEPT !.pc = q.for]
      <3>1. /\ n.pc = q.for /\ n.for = q.for /\ n.app = q.app /\ n.def = q.def
            /\ n.alone = q.alone /\ n.listed = q.listed
        BY <2>1 DEF Request, Fields
      <3>2. Goto(r, n)
        BY <2>4
      <3> HIDE DEF n
      <3>3. n.alone => q.alone /\ Knows(n, rows)
        BY <1>0, <2>1, <2>2, <2>4, <3>1 DEF Knows
      <3>4. QED
        BY <1>4, <2>1, <3>2, <3>3
    <2>5. QED
      BY <1>15, <2>3, <2>4 DEF VaultGet
  <1>16. CASE VaultDeleteCheck(r)
    <2>1. q.pc = "delete" /\ q \in Request
      BY <1>16, <1>a DEF VaultDeleteCheck
    <2> DEFINE n == [q EXCEPT !.pc = "remove"]
    <2>3. n.pc = "remove" /\ n.def = q.def /\ n.app = q.app /\ n.alone = q.alone
      BY <2>1 DEF Request, Fields
    <2>4. Goto(r, n)
      BY <1>16 DEF VaultDeleteCheck
    <2> HIDE DEF n
    <2>5. n.alone => q.alone /\ Knows(n, rows)
      BY <1>0, <1>16, <2>1, <2>3 DEF Knows, VaultDeleteCheck
    <2>6. QED
      BY <1>4, <1>16, <2>1, <2>4, <2>5 DEF VaultDeleteCheck
  <1>17. CASE VaultDelete(r)
    <2>1. q.pc = "remove" /\ q \in Request
      BY <1>17, <1>a DEF VaultDelete
    <2>2. q.def = "omitted"
      BY <1>0, <2>1 DEF Shape
    <2>3. Knows(ToReload(q), rows')
      BY <2>1, <2>2, ToReloadKnows
    <2>4. Goto(r, ToReload(q)) /\ ToReload(q).alone = q.alone
      BY <1>17, <2>1, ToReloadFields DEF VaultDelete
    <2>5. QED
      BY <1>4, <2>1, <2>3, <2>4
  <1>18. CASE Apply(r) \/ GiveUp(r)
    <2>1. Goto(r, Idle) /\ rows' = rows /\ q # Idle
      BY <1>18, IdleFields DEF Apply, GiveUp
    <2>2. QED
      BY <1>0, <2>1, IdleFields, StepAlone
  <1>19. QED
    BY <1>1, <1>2, <1>3, <1>5, <1>6, <1>7, <1>8, <1>9, <1>10, <1>11, <1>12,
       <1>13, <1>14, <1>15, <1>16, <1>17, <1>18 DEF Serve

\* What the steps of a request leave alone.
LEMMA ServeFrame ==
  ASSUME NEW r \in Admin, Serve(r)
  PROVE  /\ UNCHANGED <<backend, config, state, wired>>
         /\ Apply(r) \/ UNCHANGED <<providers, defaultID>>
         /\ settled' => Apply(r) \/ settled
  <1> USE DEF instanceVars
  <1> DEFINE Claim == /\ UNCHANGED <<backend, config, state, wired>>
                      /\ Apply(r) \/ UNCHANGED <<providers, defaultID>>
                      /\ settled' => Apply(r) \/ settled
  <1>1. ASSUME NEW key \in Key, NEW def \in BOOLEAN, Create(r, key, def)
        PROVE  Claim
    BY <1>1 DEF Create, Begin
  <1>2. ASSUME NEW a \in App, NEW key \in Key \cup {None},
               NEW def \in {"true", "false", "omitted"}, UpdateRead(r, a, key, def)
        PROVE  Claim
    BY <1>2 DEF UpdateRead, Begin
  <1>3. ASSUME NEW a \in App, DeleteStart(r, a)
        PROVE  Claim
    BY <1>3 DEF DeleteStart, Begin
  <1>4. CASE SqlUpdate(r) \/ SqlPromote(r) \/ SqlList(r) \/ SqlDelete(r)
    BY <1>4 DEF SqlUpdate, SqlPromote, SqlList, SqlDelete
  <1>5. CASE \/ VaultUpdateCheck(r) \/ VaultUpdateWrite(r) \/ VaultPromoteRead(r)
             \/ VaultPromoteSet(r) \/ VaultClear(r)
    <2>1. CASE VaultUpdateCheck(r) \/ VaultUpdateWrite(r)
      BY <2>1 DEF VaultUpdateCheck, VaultUpdateWrite
    <2>2. CASE VaultPromoteRead(r) \/ VaultPromoteSet(r)
      BY <2>2 DEF VaultPromoteRead, VaultPromoteSet
    <2>3. CASE VaultClear(r)
      BY <2>3 DEF VaultClear
    <2>4. QED
      BY <1>5, <2>1, <2>2, <2>3
  <1>6. CASE VaultList(r) \/ VaultGet(r) \/ VaultDeleteCheck(r) \/ VaultDelete(r)
    <2>1. CASE VaultList(r)
      BY <2>1 DEF VaultList
    <2>2. CASE VaultGet(r)
      BY <2>2 DEF VaultGet
    <2>3. CASE VaultDeleteCheck(r)
      BY <2>3 DEF VaultDeleteCheck
    <2>4. CASE VaultDelete(r)
      BY <2>4 DEF VaultDelete
    <2>5. QED
      BY <1>6, <2>1, <2>2, <2>3, <2>4
  <1>7. CASE GiveUp(r)
    BY <1>7 DEF GiveUp
  <1>8. CASE Apply(r)
    <2>1. UNCHANGED <<backend, config, state, wired>>
      BY <1>8 DEF Apply
    <2>2. QED
      BY <1>8, <2>1
  <1>9. QED
    BY <1>1, <1>2, <1>3, <1>4, <1>5, <1>6, <1>7, <1>8 DEF Serve

\* A request, on its way or beginning, is about a record below the next one.
LEMMA StepFresh ==
  ASSUME Strong, NEW r \in Admin, req[r] # Idle, NEW q, Goto(r, q), next' = next,
         q # Idle => q.app = req[r].app /\ \A a \in App : a >= next => q.listed[a] = None,
         \A a \in App : a >= next => rows'[a] = None
  PROVE  Fresh'
  <1>1. req'[r] = q /\ \A o \in Admin \ {r} : req'[o] = req[o]
    BY DEF Goto, Strong, TypeOK
  <1>2. QED
    BY <1>1 DEF Fresh, Strong

LEMMA BeginFresh ==
  ASSUME Strong, NEW r \in Admin, NEW first \in Request, Begin(r, first),
         next' \in Nat, next <= next', first.app < next',
         \A a \in App : a >= next' => rows'[a] = None /\ first.listed[a] = None
  PROVE  Fresh'
  <1> DEFINE none == {q \in Admin \ {r} : req[q] # Idle} = {}
  <1>0. TypeOK /\ Fresh /\ next \in Nat /\ App \subseteq Nat
    BY BoundAssumption DEF Strong, TypeOK, App
  <1>1. req'[r].app = first.app /\ req'[r].listed = first.listed
    <2>1. req'[r] = [first EXCEPT !.alone = none]
      BY DEF Begin
    <2> HIDE DEF none
    <2>2. QED
      BY <2>1 DEF Request, Fields
  <1>2. ASSUME NEW o \in Admin \ {r}, req[o] # Idle
        PROVE  req'[o].app = req[o].app /\ req'[o].listed = req[o].listed
    <2>1. req'[o] = [req[o] EXCEPT !.alone = FALSE] /\ req[o] \in Request
      BY <1>0, <1>2, Busy DEF Begin
    <2>2. QED
      BY <2>1 DEF Request, Fields
  <1>3. \A o \in Admin \ {r} : req[o] # Idle => req[o].app \in Nat
    BY <1>0, Busy DEF Request, Fields
  <1>4. \A o \in Admin \ {r} : req[o] = Idle => req'[o] = Idle
    BY DEF Begin
  <1>5. QED
    BY <1>0, <1>1, <1>2, <1>3, <1>4 DEF Fresh

LEMMA ServeFresh ==
  ASSUME Strong, NEW r \in Admin, Serve(r)
  PROVE  Fresh'
  <1> DEFINE q == req[r]
  <1>0. /\ TypeOK /\ Fresh /\ rows \in Table /\ next \in Nat
        /\ App \subseteq Nat
        /\ \A a \in App : a >= next => rows[a] = None
        /\ q # Idle => q.app < next /\ \A a \in App : a >= next => q.listed[a] = None
    BY BoundAssumption DEF Strong, TypeOK, App, Fresh
  <1>a. ASSUME q.pc # "idle"
        PROVE  q \in Request /\ q # Idle
    BY <1>0, <1>a, BusyAt, IdleFields
  <1>1. ASSUME NEW key \in Key, NEW def \in BOOLEAN, Create(r, key, def)
        PROVE  Fresh'
    <2> DEFINE first == [Idle EXCEPT !.app = next,
                                     !.def = IF def THEN "true" ELSE "false",
                                     !.pc = IF def THEN "promote" ELSE "list"]
    <2>1. first \in Request
      BY <1>0, <1>1, TableType DEF Create, Idle, Request, Fields, TypeOK
    <2>2. Begin(r, first) /\ next' = next + 1
      BY <1>1 DEF Create
    <2>3. first.app = next /\ \A a \in App : first.listed[a] = None
      BY DEF Idle, NoRows
    <2>4. \A a \in App : a >= next' => rows'[a] = None
      BY <1>0, <1>1, <2>2 DEF Create, Table
    <2> HIDE DEF first
    <2>5. QED
      BY <1>0, <2>1, <2>2, <2>3, <2>4, BeginFresh
  <1>2. ASSUME NEW a \in App, NEW key \in Key \cup {None},
               NEW def \in {"true", "false", "omitted"}, UpdateRead(r, a, key, def)
        PROVE  Fresh'
    <2> DEFINE copy == Merge(rows[a], key, def)
               first == [Idle EXCEPT !.pc = "update", !.app = a, !.def = def, !.copy = copy]
    <2>1. rows[a] \in Row /\ a < next
      BY <1>0, <1>2, TableType DEF UpdateRead
    <2>2. copy \in Row
      BY <2>1 DEF Merge, Row
    <2>3. Begin(r, first) /\ rows' = rows /\ next' = next
      BY <1>2 DEF UpdateRead
    <2> HIDE DEF copy
    <2>4. /\ first \in Fields /\ first.copy = copy /\ first.app = a
          /\ \A b \in App : first.listed[b] = None
      BY <2>2, TableType DEF Idle, Fields, NoRows
    <2>5. first \in Request
      BY <2>2, <2>4, NoneAssumption DEF Request
    <2> HIDE DEF first
    <2>6. QED
      BY <1>0, <2>1, <2>3, <2>4, <2>5, BeginFresh
  <1>3. ASSUME NEW a \in App, DeleteStart(r, a)
        PROVE  Fresh'
    <2> DEFINE first == [Idle EXCEPT !.pc = "delete", !.app = a]
    <2>1. first \in Request
      BY TableType DEF Idle, Request, Fields
    <2>2. Begin(r, first) /\ rows' = rows /\ next' = next /\ a < next
      BY <1>3 DEF DeleteStart
    <2>3. first.app = a /\ \A b \in App : first.listed[b] = None
      BY DEF Idle, NoRows
    <2> HIDE DEF first
    <2>4. QED
      BY <1>0, <2>1, <2>2, <2>3, BeginFresh
  \* What is left are the steps of a request on its way.
  <1>4. ASSUME NEW n, q.pc # "idle", Goto(r, n), next' = next,
               n.app = q.app,
               \A a \in App : a >= next => n.listed[a] = None,
               \A a \in App : rows'[a] = None \/ rows[a] # None \/ a = q.app \/ q.listed[a] # None
        PROVE  Fresh'
    <2>1. q \in Request /\ q # Idle
      BY <1>4, <1>a
    <2>2. q.app \in App
      BY <2>1 DEF Request, Fields
    <2>3. \A a \in App : a >= next => rows'[a] = None
      BY <1>0, <1>4, <2>1, <2>2
    <2>4. QED
      BY <1>4, <2>1, <2>3, StepFresh
  <1>b. ASSUME q \in Request
        PROVE  \A a \in App : ToReload(q).listed[a] = None
    BY <1>b DEF ToReload, Request, Fields, NoRows
  <1>c. ASSUME q \in Request, q # Idle
        PROVE  /\ Updated(q).app = q.app
               /\ \A a \in App : a >= next => Updated(q).listed[a] = None
    <2>1. [q EXCEPT !.pc = "promote", !.copy = None].app = q.app
      BY <1>c DEF Request, Fields
    <2>2. [q EXCEPT !.pc = "promote", !.copy = None].listed = q.listed
      BY <1>c DEF Request, Fields
    <2>3. QED
      BY <1>0, <1>b, <1>c, <2>1, <2>2, ToReloadFields DEF Updated
  <1>5. CASE SqlUpdate(r)
    <2>1. q.pc = "update" /\ q \in Request /\ q # Idle /\ next' = next
      BY <1>5, <1>a DEF SqlUpdate
    <2>2. \A a \in App : rows'[a] = None \/ rows[a] # None \/ a = q.app
      BY <1>0, <1>5 DEF SqlUpdate, Table
    <2>3. CASE Goto(r, Updated(q))
      BY <1>4, <1>c, <2>1, <2>2, <2>3
    <2>4. CASE Goto(r, [q EXCEPT !.pc = "refused"])
      <3> DEFINE n == [q EXCEPT !.pc = "refused"]
      <3>1. n.app = q.app /\ n.listed = q.listed /\ Goto(r, n)
        BY <2>1, <2>4 DEF Request, Fields
      <3> HIDE DEF n
      <3>2. QED
        BY <1>0, <1>4, <2>1, <2>2, <3>1
    <2>5. QED
      BY <1>5, <2>3, <2>4 DEF SqlUpdate
  <1>6. CASE SqlPromote(r)
    <2>1. q.pc = "promote" /\ q \in Request /\ q # Idle /\ next' = next
      BY <1>6, <1>a DEF SqlPromote
    <2>2. \A a \in App : rows'[a] = None \/ rows[a] # None
      BY <1>0, <1>6 DEF SqlPromote, Table
    <2>3. Goto(r, ToReload(q)) /\ ToReload(q).app = q.app
      BY <1>6, <2>1, ToReloadFields DEF SqlPromote
    <2>4. QED
      BY <1>4, <1>b, <2>1, <2>2, <2>3
  <1>7. CASE SqlList(r)
    <2>1. q.pc = "list" /\ q \in Request /\ q # Idle /\ next' = next
      BY <1>7, <1>a DEF SqlList
    <2>2. \A a \in App : rows'[a] = None \/ rows[a] # None \/ a = q.app
      BY <1>0, <1>7 DEF SqlList, Table
    <2> DEFINE n == [q EXCEPT !.pc = "apply", !.listed = rows]
    <2>3. n.app = q.app /\ n.listed = rows
      BY <2>1 DEF Request, Fields
    <2>4. Goto(r, n)
      BY <1>7 DEF SqlList
    <2> HIDE DEF n
    <2>5. QED
      BY <1>0, <1>4, <2>1, <2>2, <2>3, <2>4
  <1>8. CASE SqlDelete(r)
    <2>1. q.pc = "delete" /\ q \in Request /\ q # Idle /\ next' = next
      BY <1>8, <1>a DEF SqlDelete
    <2>2. \A a \in App : rows'[a] = None \/ rows[a] # None
      BY <1>0, <1>8 DEF SqlDelete, Table
    <2>3. Goto(r, ToReload(q)) /\ ToReload(q).app = q.app
      BY <1>8, <2>1, ToReloadFields DEF SqlDelete
    <2>4. QED
      BY <1>4, <1>b, <2>1, <2>2, <2>3
  <1>9. CASE VaultUpdateCheck(r)
    <2>1. q.pc = "update" /\ q \in Request /\ q # Idle /\ next' = next
      BY <1>9, <1>a DEF VaultUpdateCheck
    <2>2. \A a \in App : rows'[a] = None \/ rows[a] # None \/ a = q.app
      BY <1>0, <1>9 DEF VaultUpdateCheck, Table
    <2> DEFINE n == [q EXCEPT !.pc = "write"]
    <2>3. n.app = q.app /\ n.listed = q.listed
      BY <2>1 DEF Request, Fields
    <2>4. Goto(r, n)
      BY <1>9 DEF VaultUpdateCheck
    <2> HIDE DEF n
    <2>5. QED
      BY <1>0, <1>4, <2>1, <2>2, <2>3, <2>4
  <1>10. CASE VaultUpdateWrite(r)
    <2>1. q.pc = "write" /\ q \in Request /\ q # Idle /\ next' = next
      BY <1>10, <1>a DEF VaultUpdateWrite
    <2>2. \A a \in App : rows'[a] = None \/ rows[a] # None \/ a = q.app
      BY <1>0, <1>10 DEF VaultUpdateWrite, Table
    <2>3. Goto(r, Updated(q))
      BY <1>10 DEF VaultUpdateWrite
    <2>4. QED
      BY <1>4, <1>c, <2>1, <2>2, <2>3
  <1>11. CASE VaultPromoteRead(r)
    <2>1. q.pc = "promote" /\ q \in Request /\ q # Idle /\ next' = next
      BY <1>11, <1>a DEF VaultPromoteRead
    <2>2. \A a \in App : rows'[a] = None \/ rows[a] # None \/ a = q.app
      BY <1>0, <1>11 DEF VaultPromoteRead, Table
    <2> DEFINE n == [q EXCEPT !.pc = "set", !.copy = rows[q.app]]
    <2>3. n.app = q.app /\ n.listed = q.listed
      BY <2>1 DEF Request, Fields
    <2>4. Goto(r, n)
      BY <1>11 DEF VaultPromoteRead
    <2> HIDE DEF n
    <2>5. QED
      BY <1>0, <1>4, <2>1, <2>2, <2>3, <2>4
  <1>12. CASE VaultPromoteSet(r)
    <2>1. q.pc = "set" /\ q \in Request /\ q # Idle /\ next' = next
      BY <1>12, <1>a DEF VaultPromoteSet
    <2>2. \A a \in App : rows'[a] = None \/ rows[a] # None \/ a = q.app
      BY <1>0, <1>12 DEF VaultPromoteSet, Table
    <2> DEFINE n == [q EXCEPT !.pc = "list", !.for = "clear", !.copy = None]
    <2>3. n.app = q.app /\ n.listed = q.listed
      BY <2>1 DEF Request, Fields
    <2>4. Goto(r, n)
      BY <1>12 DEF VaultPromoteSet
    <2> HIDE DEF n
    <2>5. QED
      BY <1>0, <1>4, <2>1, <2>2, <2>3, <2>4
  <1>13. CASE VaultClear(r)
    <2>1. q.pc = "clear" /\ q \in Request /\ q # Idle /\ next' = next
      BY <1>13, <1>a DEF VaultClear
    <2>2. q.listed \in Table
      BY <2>1 DEF Request, Fields
    <2>3. ASSUME NEW a \in ToClear(q),
                 rows' = [rows EXCEPT ![a] = [q.listed[a] EXCEPT !.def = FALSE]],
                 Goto(r, [q EXCEPT !.listed[a] = None])
          PROVE  Fresh'
      <3>1. a \in App /\ q.listed[a] # None
        BY DEF ToClear, Present
      <3>2. \A b \in App : rows'[b] = None \/ rows[b] # None \/ q.listed[b] # None
        BY <1>0, <2>3, <3>1 DEF Table
      <3> DEFINE n == [q EXCEPT !.listed[a] = None]
      <3>3. n.app = q.app /\ n.listed = [q.listed EXCEPT ![a] = None] /\ Goto(r, n)
        BY <2>1, <2>3 DEF Request, Fields
      <3> HIDE DEF n
      <3>4. \A b \in App : b >= next => n.listed[b] = None
        BY <1>0, <2>1, <2>2, <3>3 DEF Table
      <3>5. QED
        BY <1>4, <2>1, <3>2, <3>3, <3>4
    <2>4. CASE UNCHANGED rows /\ Goto(r, ToReload(q))
      <3>1. ToReload(q).app = q.app
        BY <2>1, ToReloadFields
      <3>2. \A a \in App : rows'[a] = None \/ rows[a] # None
        BY <2>4
      <3>3. QED
        BY <1>4, <1>b, <2>1, <2>4, <3>1, <3>2
    <2>5. QED
      BY <1>13, <2>3, <2>4 DEF VaultClear
  <1>14. CASE VaultList(r)
    <2>1. q.pc = "list" /\ q \in Request /\ q # Idle /\ next' = next
      BY <1>14, <1>a DEF VaultList
    <2>2. \A a \in App : rows'[a] = None \/ rows[a] # None \/ a = q.app
      BY <1>0, <1>14 DEF VaultList, Table
    <2> DEFINE n == [q EXCEPT !.pc = "get", !.todo = Present(rows), !.listed = NoRows]
    <2>3. n.app = q.app /\ n.listed = NoRows
      BY <2>1 DEF Request, Fields
    <2>4. Goto(r, n)
      BY <1>14 DEF VaultList
    <2> HIDE DEF n
    <2>5. QED
      BY <1>0, <1>4, <2>1, <2>2, <2>3, <2>4 DEF NoRows
  <1>15. CASE VaultGet(r)
    <2>1. q.pc = "get" /\ q \in Request /\ q # Idle /\ next' = next /\ rows' = rows
      BY <1>15, <1>a DEF VaultGet
    <2>2. q.todo \subseteq App /\ q.listed \in Table
      BY <2>1 DEF Request, Fields
    <2>3. ASSUME NEW a \in q.todo, Goto(r, [q EXCEPT !.todo = @ \ {a}, !.listed[a] = rows[a]])
          PROVE  Fresh'
      <3> DEFINE n == [q EXCEPT !.todo = @ \ {a}, !.listed[a] = rows[a]]
      <3>1. n.app = q.app /\ n.listed = [q.listed EXCEPT ![a] = rows[a]]
        BY <2>1 DEF Request, Fields
      <3>2. Goto(r, n)
        BY <2>3
      <3> HIDE DEF n
      <3>3. \A b \in App : b >= next => n.listed[b] = None
        BY <1>0, <2>1, <2>2, <3>1 DEF Table
      <3>4. QED
        BY <1>4, <2>1, <3>1, <3>2, <3>3
    <2>4. CASE Goto(r, [q EXCEPT !.pc = q.for])
      <3> DEFINE n == [q EXCEPT !.pc = q.for]
      <3>1. n.app = q.app /\ n.listed = q.listed
        BY <2>1 DEF Request, Fields
      <3>2. Goto(r, n)
        BY <2>4
      <3> HIDE DEF n
      <3>3. QED
        BY <1>0, <1>4, <2>1, <3>1, <3>2
    <2>5. QED
      BY <1>15, <2>3, <2>4 DEF VaultGet
  <1>16. CASE VaultDeleteCheck(r)
    <2>1. q.pc = "delete" /\ q \in Request /\ q # Idle /\ next' = next
      BY <1>16, <1>a DEF VaultDeleteCheck
    <2>2. \A a \in App : rows'[a] = None \/ rows[a] # None \/ a = q.app
      BY <1>0, <1>16 DEF VaultDeleteCheck, Table
    <2> DEFINE n == [q EXCEPT !.pc = "remove"]
    <2>3. n.app = q.app /\ n.listed = q.listed
      BY <2>1 DEF Request, Fields
    <2>4. Goto(r, n)
      BY <1>16 DEF VaultDeleteCheck
    <2> HIDE DEF n
    <2>5. QED
      BY <1>0, <1>4, <2>1, <2>2, <2>3, <2>4
  <1>17. CASE VaultDelete(r)
    <2>1. q.pc = "remove" /\ q \in Request /\ q # Idle /\ next' = next
      BY <1>17, <1>a DEF VaultDelete
    <2>2. \A a \in App : rows'[a] = None \/ rows[a] # None
      BY <1>0, <1>17 DEF VaultDelete, Table
    <2>3. Goto(r, ToReload(q)) /\ ToReload(q).app = q.app
      BY <1>17, <2>1, ToReloadFields DEF VaultDelete
    <2>4. QED
      BY <1>4, <1>b, <2>1, <2>2, <2>3
  <1>18. CASE Apply(r) \/ GiveUp(r)
    <2>1. Goto(r, Idle) /\ rows' = rows /\ next' = next /\ q # Idle
      BY <1>18, IdleFields DEF Apply, GiveUp
    <2>2. QED
      BY <1>0, <2>1, StepFresh
  <1>19. QED
    BY <1>1, <1>2, <1>3, <1>5, <1>6, <1>7, <1>8, <1>9, <1>10, <1>11, <1>12,
       <1>13, <1>14, <1>15, <1>16, <1>17, <1>18 DEF Serve

LEMMA ServeShape ==
  ASSUME Strong, NEW r \in Admin, Serve(r)
  PROVE  Shape'
  <1> DEFINE q == req[r]
             Good(n) == /\ backend = "sql" =>
                             /\ n.pc \notin {"write", "set", "get", "clear", "remove"}
                             /\ n.for = "apply"
                        /\ n.pc = "clear" => n.for = "clear"
                        /\ n.pc = "apply" => n.for = "apply"
                        /\ n.pc \in {"delete", "remove"} => n.def = "omitted" /\ n.for = "apply"
  <1>0. /\ TypeOK /\ Shape /\ backend' = backend /\ state' = state
        /\ \A o \in Admin : Good(req[o])
    BY ServeFrame DEF Strong, Shape
  <1>a. ASSUME q.pc # "idle"
        PROVE  q \in Request /\ q # Idle
    BY <1>0, <1>a, BusyAt, IdleFields
  <1>b. ASSUME q # Idle
        PROVE  state = "up"
    BY <1>0, <1>b DEF Shape
  <1>1. ASSUME NEW first \in Request, Begin(r, first), Good(first)
        PROVE  Shape'
    <2>1. req'[r].pc = first.pc /\ req'[r].for = first.for /\ req'[r].def = first.def
      <3> DEFINE none == {o \in Admin \ {r} : req[o] # Idle} = {}
      <3>1. req'[r] = [first EXCEPT !.alone = none]
        BY <1>1 DEF Begin
      <3> HIDE DEF none
      <3>2. QED
        BY <3>1 DEF Request, Fields
    <2>2. ASSUME NEW o \in Admin \ {r}
          PROVE  req'[o].pc = req[o].pc /\ req'[o].for = req[o].for /\ req'[o].def = req[o].def
      <3>1. CASE req[o] = Idle
        BY <1>1, <3>1 DEF Begin
      <3>2. CASE req[o] # Idle
        <4>1. req'[o] = [req[o] EXCEPT !.alone = FALSE] /\ req[o] \in Request
          BY <1>0, <1>1, <3>2, Busy DEF Begin
        <4>2. QED
          BY <4>1 DEF Request, Fields
      <3>3. QED
        BY <3>1, <3>2
    <2>3. \A o \in Admin : Good(req'[o])
      BY <1>0, <1>1, <2>1, <2>2
    <2>4. state = "up"
      BY <1>1 DEF Begin
    <2>5. QED
      BY <1>0, <2>3, <2>4 DEF Shape
  <1>2. ASSUME NEW n, q # Idle, Goto(r, n), Good(n)
        PROVE  Shape'
    <2>1. req'[r] = n /\ \A o \in Admin \ {r} : req'[o] = req[o]
      BY <1>0, <1>2 DEF Goto, TypeOK
    <2>2. \A o \in Admin : Good(req'[o])
      BY <1>0, <1>2, <2>1
    <2>3. QED
      BY <1>0, <1>b, <1>2, <2>2 DEF Shape
  <1>c. ASSUME q \in Request
        PROVE  Good(ToReload(q))
    BY <1>c, ToReloadFields
  <1>d. ASSUME q \in Request
        PROVE  Good(Updated(q))
    <2>1. CASE q.copy.def
      <3> DEFINE n == [q EXCEPT !.pc = "promote", !.copy = None]
      <3>1. n.pc = "promote" /\ n.for = q.for
        BY <1>d DEF Request, Fields
      <3>2. Updated(q) = n
        BY <2>1 DEF Updated
      <3> HIDE DEF n
      <3>3. QED
        BY <1>0, <3>1, <3>2
    <2>2. CASE ~q.copy.def
      BY <1>c, <1>d, <2>2 DEF Updated
    <2>3. QED
      BY <2>1, <2>2
  <1>3. ASSUME NEW key \in Key, NEW def \in BOOLEAN, Create(r, key, def)
        PROVE  Shape'
    <2> DEFINE first == [Idle EXCEPT !.app = next,
                                     !.def = IF def THEN "true" ELSE "false",
                                     !.pc = IF def THEN "promote" ELSE "list"]
    <2>1. first \in Request
      BY <1>0, <1>3, TableType, ZenonT(40)
         DEF Create, Idle, Request, Fields, TypeOK
    <2>2. Begin(r, first)
      BY <1>3 DEF Create
    <2>3. first.pc \in {"promote", "list"} /\ first.for = "apply"
      BY DEF Idle
    <2> HIDE DEF first
    <2>4. QED
      BY <1>1, <2>1, <2>2, <2>3
  <1>4. ASSUME NEW a \in App, NEW key \in Key \cup {None},
               NEW def \in {"true", "false", "omitted"}, UpdateRead(r, a, key, def)
        PROVE  Shape'
    <2> DEFINE copy == Merge(rows[a], key, def)
               first == [Idle EXCEPT !.pc = "update", !.app = a, !.def = def, !.copy = copy]
    <2>1. rows[a] \in Row
      BY <1>0, <1>4, TableType DEF UpdateRead, TypeOK
    <2>2. copy \in Row
      BY <2>1 DEF Merge, Row
    <2>3. Begin(r, first)
      BY <1>4 DEF UpdateRead
    <2> HIDE DEF copy
    <2>4. first \in Fields /\ first.copy = copy /\ first.pc = "update" /\ first.for = "apply"
      BY <2>2, TableType DEF Idle, Fields
    <2>5. first \in Request
      BY <2>2, <2>4, NoneAssumption DEF Request
    <2> HIDE DEF first
    <2>6. QED
      BY <1>1, <2>3, <2>4, <2>5
  <1>5. ASSUME NEW a \in App, DeleteStart(r, a)
        PROVE  Shape'
    <2> DEFINE first == [Idle EXCEPT !.pc = "delete", !.app = a]
    <2>1. first \in Request
      BY TableType DEF Idle, Request, Fields
    <2>2. Begin(r, first)
      BY <1>5 DEF DeleteStart
    <2>3. first.pc = "delete" /\ first.def = "omitted" /\ first.for = "apply"
      BY DEF Idle
    <2> HIDE DEF first
    <2>4. QED
      BY <1>1, <2>1, <2>2, <2>3
  <1>6. CASE SqlUpdate(r)
    <2>1. q.pc = "update" /\ q \in Request /\ q # Idle
      BY <1>6, <1>a DEF SqlUpdate
    <2> DEFINE n == [q EXCEPT !.pc = "refused"]
    <2>2. n.pc = "refused" /\ n.for = q.for
      BY <2>1 DEF Request, Fields
    <2>3. Goto(r, Updated(q)) \/ Goto(r, n)
      BY <1>6 DEF SqlUpdate
    <2> HIDE DEF n
    <2>4. QED
      BY <1>0, <1>2, <1>d, <2>1, <2>2, <2>3
  <1>7. CASE SqlPromote(r) \/ SqlDelete(r) \/ VaultDelete(r)
    <2>1. q.pc # "idle" /\ Goto(r, ToReload(q))
      BY <1>7 DEF SqlPromote, SqlDelete, VaultDelete
    <2>2. QED
      BY <1>2, <1>a, <1>c, <2>1
  <1>8. CASE VaultUpdateWrite(r)
    <2>1. q.pc # "idle" /\ Goto(r, Updated(q))
      BY <1>8 DEF VaultUpdateWrite
    <2>2. QED
      BY <1>2, <1>a, <1>d, <2>1
  <1>9. CASE SqlList(r)
    <2>1. q.pc = "list" /\ q \in Request /\ q # Idle /\ backend = "sql"
      BY <1>9, <1>a DEF SqlList
    <2> DEFINE n == [q EXCEPT !.pc = "apply", !.listed = rows]
    <2>2. n.pc = "apply" /\ n.for = q.for
      BY <2>1 DEF Request, Fields
    <2>3. Goto(r, n)
      BY <1>9 DEF SqlList
    <2> HIDE DEF n
    <2>4. QED
      BY <1>0, <1>2, <2>1, <2>2, <2>3
  <1>10. CASE VaultUpdateCheck(r)
    <2>1. q.pc = "update" /\ q \in Request /\ q # Idle
      BY <1>10, <1>a DEF VaultUpdateCheck
    <2> DEFINE n == [q EXCEPT !.pc = "write"]
    <2>2. n.pc = "write" /\ n.for = q.for /\ n.def = q.def
      BY <2>1 DEF Request, Fields
    <2>3. Goto(r, n)
      BY <1>10 DEF VaultUpdateCheck
    <2> HIDE DEF n
    <2>4. QED
      BY <1>0, <1>2, <1>10, <2>1, <2>2, <2>3 DEF VaultUpdateCheck
  <1>11. CASE VaultPromoteRead(r)
    <2>1. q.pc = "promote" /\ q \in Request /\ q # Idle
      BY <1>11, <1>a DEF VaultPromoteRead
    <2> DEFINE n == [q EXCEPT !.pc = "set", !.copy = rows[q.app]]
    <2>2. n.pc = "set" /\ n.for = q.for /\ n.def = q.def
      BY <2>1 DEF Request, Fields
    <2>3. Goto(r, n)
      BY <1>11 DEF VaultPromoteRead
    <2> HIDE DEF n
    <2>4. QED
      BY <1>0, <1>2, <1>11, <2>1, <2>2, <2>3 DEF VaultPromoteRead
  <1>12. CASE VaultPromoteSet(r)
    <2>1. q.pc = "set" /\ q \in Request /\ q # Idle
      BY <1>12, <1>a DEF VaultPromoteSet
    <2> DEFINE n == [q EXCEPT !.pc = "list", !.for = "clear", !.copy = None]
    <2>2. n.pc = "list" /\ n.for = "clear" /\ n.def = q.def
      BY <2>1 DEF Request, Fields
    <2>3. Goto(r, n)
      BY <1>12 DEF VaultPromoteSet
    <2> HIDE DEF n
    <2>4. QED
      BY <1>0, <1>2, <1>12, <2>1, <2>2, <2>3 DEF VaultPromoteSet
  <1>13. CASE VaultClear(r)
    <2>1. q.pc = "clear" /\ q \in Request /\ q # Idle
      BY <1>13, <1>a DEF VaultClear
    <2>2. ASSUME NEW a \in ToClear(q), Goto(r, [q EXCEPT !.listed[a] = None])
          PROVE  Shape'
      <3> DEFINE n == [q EXCEPT !.listed[a] = None]
      <3>1. n.pc = q.pc /\ n.for = q.for /\ n.def = q.def /\ Goto(r, n)
        BY <2>1, <2>2 DEF Request, Fields
      <3> HIDE DEF n
      <3>2. QED
        BY <1>0, <1>2, <2>1, <3>1
    <2>3. CASE Goto(r, ToReload(q))
      BY <1>2, <1>c, <2>1, <2>3
    <2>4. QED
      BY <1>13, <2>2, <2>3 DEF VaultClear
  <1>14. CASE VaultList(r)
    <2>1. q.pc = "list" /\ q \in Request /\ q # Idle
      BY <1>14, <1>a DEF VaultList
    <2> DEFINE n == [q EXCEPT !.pc = "get", !.todo = Present(rows), !.listed = NoRows]
    <2>2. n.pc = "get" /\ n.for = q.for /\ n.def = q.def
      BY <2>1 DEF Request, Fields
    <2>3. Goto(r, n)
      BY <1>14 DEF VaultList
    <2> HIDE DEF n
    <2>4. QED
      BY <1>0, <1>2, <1>14, <2>1, <2>2, <2>3 DEF VaultList
  <1>15. CASE VaultGet(r)
    <2>1. q.pc = "get" /\ q \in Request /\ q # Idle
      BY <1>15, <1>a DEF VaultGet
    <2>2. ASSUME NEW a \in q.todo, Goto(r, [q EXCEPT !.todo = @ \ {a}, !.listed[a] = rows[a]])
          PROVE  Shape'
      <3> DEFINE n == [q EXCEPT !.todo = @ \ {a}, !.listed[a] = rows[a]]
      <3>1. n.pc = q.pc /\ n.for = q.for /\ n.def = q.def
        BY <2>1 DEF Request, Fields
      <3>2. Goto(r, n)
        BY <2>2
      <3> HIDE DEF n
      <3>3. QED
        BY <1>0, <1>2, <2>1, <3>1, <3>2
    <2>3. CASE Goto(r, [q EXCEPT !.pc = q.for])
      <3> DEFINE n == [q EXCEPT !.pc = q.for]
      <3>1. n.pc = q.for /\ n.for = q.for /\ q.for \in {"clear", "apply"}
        BY <2>1 DEF Request, Fields
      <3>2. Goto(r, n)
        BY <2>3
      <3> HIDE DEF n
      <3>3. QED
        BY <1>0, <1>2, <2>1, <3>1, <3>2
    <2>4. QED
      BY <1>15, <2>2, <2>3 DEF VaultGet
  <1>16. CASE VaultDeleteCheck(r)
    <2>1. q.pc = "delete" /\ q \in Request /\ q # Idle
      BY <1>16, <1>a DEF VaultDeleteCheck
    <2> DEFINE n == [q EXCEPT !.pc = "remove"]
    <2>2. n.pc = "remove" /\ n.for = q.for /\ n.def = q.def
      BY <2>1 DEF Request, Fields
    <2>3. Goto(r, n)
      BY <1>16 DEF VaultDeleteCheck
    <2> HIDE DEF n
    <2>4. QED
      BY <1>0, <1>2, <1>16, <2>1, <2>2, <2>3 DEF VaultDeleteCheck
  <1>17. CASE Apply(r) \/ GiveUp(r)
    <2>1. Goto(r, Idle) /\ q # Idle
      BY <1>17, IdleFields DEF Apply, GiveUp
    <2>2. QED
      BY <1>2, <2>1, IdleFields
  <1>18. QED
    BY <1>3, <1>4, <1>5, <1>6, <1>7, <1>8, <1>9, <1>10, <1>11, <1>12, <1>13,
       <1>14, <1>15, <1>16, <1>17 DEF Serve

\* A step that begins no request is a step of one under way.
LEMMA ServeBegins ==
  ASSUME NEW r \in Admin, Serve(r), req[r].pc = "idle", req[r] = Idle
  PROVE  \E first : Begin(r, first)
  <1>1. CASE \E key \in Key, def \in BOOLEAN : Create(r, key, def)
    BY <1>1 DEF Create
  <1>2. CASE \E a \in App, key \in Key \cup {None}, def \in {"true", "false", "omitted"} :
               UpdateRead(r, a, key, def)
    BY <1>2 DEF UpdateRead
  <1>3. CASE \E a \in App : DeleteStart(r, a)
    BY <1>3 DEF DeleteStart
  <1>4. CASE SqlUpdate(r) \/ SqlPromote(r) \/ SqlList(r) \/ SqlDelete(r)
    BY <1>4 DEF SqlUpdate, SqlPromote, SqlList, SqlDelete
  <1>5. CASE VaultUpdateCheck(r) \/ VaultUpdateWrite(r) \/ VaultPromoteRead(r)
    BY <1>5 DEF VaultUpdateCheck, VaultUpdateWrite, VaultPromoteRead
  <1>6. CASE VaultPromoteSet(r) \/ VaultClear(r) \/ VaultList(r) \/ VaultGet(r)
    BY <1>6 DEF VaultPromoteSet, VaultClear, VaultList, VaultGet
  <1>7. CASE VaultDeleteCheck(r) \/ VaultDelete(r) \/ Apply(r) \/ GiveUp(r)
    BY <1>7 DEF VaultDeleteCheck, VaultDelete, Apply, GiveUp
  <1>8. QED
    BY <1>1, <1>2, <1>3, <1>4, <1>5, <1>6, <1>7 DEF Serve

\* Requests that begin end the calm; only a start-up or an Apply restores it.
LEMMA ServeSettled ==
  ASSUME Strong, QuietReloadIsCurrent, NEW r \in Admin, Serve(r)
  PROVE  Settled' /\ QuietReloadIsCurrent'
  <1> DEFINE q == req[r]
  <1>0. /\ TypeOK /\ Shape /\ OneAlone /\ state' = state
        /\ q.alone => Knows(q, rows)
        /\ settled => q = Idle
    BY ServeFrame DEF Strong, AloneKnows, Settled
  <1>1. CASE Apply(r)
    <2>1. q.pc = "apply" /\ q \in Request /\ q # Idle /\ rows' = rows
      BY <1>0, <1>1, BusyAt, IdleFields DEF Apply
    <2>2. req'[r] = Idle /\ \A o \in Admin \ {r} : req'[o] = req[o]
      BY <1>0, <1>1 DEF Apply, Goto, TypeOK
    <2>3. Settled'
      <3>1. state = "up"
        BY <1>0, <2>1 DEF Shape
      <3>2. settled' => \A o \in Admin : req'[o] = Idle
        BY <1>0, <1>1, <2>2 DEF Apply, OneAlone
      <3>3. QED
        BY <1>0, <3>1, <3>2 DEF Settled
    <2>4. ASSUME settled'
          PROVE  QuietReloadIsCurrent'
      <3>1. q.listed \in Table /\ rows \in Table
        BY <1>0, <2>1 DEF Request, Fields, TypeOK
      <3>2. q.listed = rows
        <4>1. \A a \in App : q.listed[a] = rows[a]
          BY <1>0, <1>1, <2>1, <2>4 DEF Apply, Knows
        <4>2. QED
          BY <3>1, <4>1 DEF Table
      <3>3. providers' = Rebuilt(providers, rows) /\ defaultID' = DefaultOf(rows)
        BY <1>1, <3>2 DEF Apply
      <3>4. /\ \A a \in App : providers'[a] # None <=> a \in Loaded(rows)
            /\ \A a \in Loaded(rows) : providers'[a] = rows[a].key
        BY <3>1, <3>3, RebuiltFromListing
      <3>5. /\ defaultID' # None => defaultID' \in Loaded(rows) /\ rows[defaultID'].def
            /\ defaultID' = None <=> ~\E a \in Loaded(rows) : rows[a].def
        BY <3>1, <3>3, DefaultOfListing
      <3>6. \A a \in App : a \in Loaded(rows) <=> rows[a] # None /\ rows[a].key \notin BadKey
        BY DEF Loaded, Present, Loadable
      <3>7. QED
        BY <2>1, <3>4, <3>5, <3>6 DEF QuietReloadIsCurrent, Loaded, Present
    <2>5. QED
      BY <2>3, <2>4 DEF QuietReloadIsCurrent
  <1>2. CASE ~Apply(r)
    <2>1. ~settled'
      <3>1. ASSUME settled
            PROVE  ~settled'
        <4>1. q = Idle
          BY <1>0, <3>1
        <4>2. q.pc = "idle"
          BY <4>1, IdleFields
        <4>3. CASE \E first : Begin(r, first)
          BY <4>3 DEF Begin
        <4>4. CASE ~\E first : Begin(r, first)
          BY <1>2, <4>1, <4>2, <4>4, ServeBegins
        <4>5. QED
          BY <4>3, <4>4
      <3>2. QED
        BY <1>2, <3>1, ServeFrame
    <2>2. QED
      BY <2>1 DEF Settled, QuietReloadIsCurrent
  <1>3. QED
    BY <1>1, <1>2

\* On a SQL store a record gets the flag where no other record has it, or the
\* same transaction takes it from the others.
LEMMA ServeSqlSingleDefault ==
  ASSUME Strong, SqlSingleDefault, NEW r \in Admin, Serve(r)
  PROVE  SqlSingleDefault'
  <1> SUFFICES ASSUME backend = "sql"
               PROVE  \A a, b \in Default(rows)' : a = b
    BY ServeFrame DEF SqlSingleDefault
  <1> DEFINE q == req[r]
  <1>0. /\ TypeOK /\ Shape /\ rows \in Table
        /\ \A a, b \in App :
             rows[a] # None /\ rows[a].def /\ rows[b] # None /\ rows[b].def => a = b
    BY DEF Strong, TypeOK, SqlSingleDefault, Default, Present
  <1>1. ASSUME NEW c \in App,
               \A a \in App : rows'[a] # None /\ rows'[a].def =>
                              a = c \/ (rows[a] # None /\ rows[a].def),
               rows'[c] # None /\ rows'[c].def =>
                 \A a \in App \ {c} : rows'[a] = None \/ ~rows'[a].def
        PROVE  \A a, b \in Default(rows)' : a = b
    BY <1>0, <1>1 DEF Default, Present
  <1>2. ASSUME \A a \in App : rows'[a] # None /\ rows'[a].def => rows[a] # None /\ rows[a].def
        PROVE  \A a, b \in Default(rows)' : a = b
    BY <1>0, <1>2 DEF Default, Present
  <1>3. ASSUME NEW key \in Key, NEW def \in BOOLEAN, Create(r, key, def)
        PROVE  \A a, b \in Default(rows)' : a = b
    <2>1. rows' = [rows EXCEPT ![next] = [key |-> key, def |-> FALSE]]
      BY <1>3 DEF Create
    <2>2. \A a \in App : rows'[a] # None /\ rows'[a].def => rows[a] # None /\ rows[a].def
      BY <1>0, <2>1 DEF Table
    <2>3. QED
      BY <1>2, <2>2
  <1>4. CASE SqlUpdate(r)
    <2>1. q.app \in App
      BY <1>0, <1>4, BusyAt DEF SqlUpdate, Request, Fields
    <2>2. CASE ~Conflict(q.app, q.copy) /\ rows' = [rows EXCEPT ![q.app] = q.copy]
      <3>1. /\ rows'[q.app] = q.copy
            /\ \A a \in App \ {q.app} : rows'[a] = rows[a]
        BY <1>0, <2>1, <2>2 DEF Table
      <3>2. q.copy.def => \A a \in App \ {q.app} : rows[a] = None \/ ~rows[a].def
        BY <2>2 DEF Conflict, Present
      <3>3. QED
        BY <1>1, <2>1, <3>1, <3>2
    <2>3. CASE UNCHANGED rows
      BY <1>2, <2>3
    <2>4. QED
      BY <1>4, <2>2, <2>3 DEF SqlUpdate
  <1>5. CASE SqlPromote(r)
    <2>1. q.app \in App
      BY <1>0, <1>5, BusyAt DEF SqlPromote, Request, Fields
    <2>2. ASSUME NEW a \in App, a # q.app, rows'[a] # None
          PROVE  ~rows'[a].def
      <3>1. rows[a] \in Row
        BY <1>0, <1>5, <2>2, TableType DEF SqlPromote
      <3>2. rows'[a] = [rows[a] EXCEPT !.def = FALSE]
        BY <1>5, <2>2 DEF SqlPromote
      <3>3. QED
        BY <3>1, <3>2 DEF Row
    <2>3. QED
      BY <1>1, <2>1, <2>2
  <1>6. CASE SqlDelete(r)
    <2>1. rows' = [rows EXCEPT ![q.app] = None]
      BY <1>6 DEF SqlDelete
    <2>2. QED
      BY <1>0, <1>2, <2>1 DEF Table
  <1>7. CASE UNCHANGED rows
    BY <1>2, <1>7
  <1>8. ASSUME NEW a \in App, NEW key \in Key \cup {None},
               NEW def \in {"true", "false", "omitted"}, UpdateRead(r, a, key, def)
        PROVE  UNCHANGED rows
    BY <1>8 DEF UpdateRead
  <1>9. ASSUME NEW a \in App, DeleteStart(r, a)
        PROVE  UNCHANGED rows
    BY <1>9 DEF DeleteStart
  <1>10. ASSUME \/ SqlList(r) \/ VaultUpdateCheck(r) \/ VaultPromoteRead(r) \/ VaultList(r)
               \/ VaultGet(r) \/ VaultDeleteCheck(r) \/ Apply(r) \/ GiveUp(r)
         PROVE  UNCHANGED rows
    BY <1>10 DEF SqlList, VaultUpdateCheck, VaultPromoteRead, VaultList, VaultGet,
                 VaultDeleteCheck, Apply, GiveUp
  <1>11. ~(VaultUpdateWrite(r) \/ VaultPromoteSet(r) \/ VaultClear(r) \/ VaultDelete(r))
    BY <1>0 DEF Shape, VaultUpdateWrite, VaultPromoteSet, VaultClear, VaultDelete
  <1>12. QED
    BY <1>3, <1>4, <1>5, <1>6, <1>7, <1>8, <1>9, <1>10, <1>11 DEF Serve

\* Apply takes the default from the records it has loaded.
LEMMA ServeDefaultIsLoaded ==
  ASSUME TypeOK, DefaultIsLoaded, NEW r \in Admin, Serve(r)
  PROVE  DefaultIsLoaded'
  <1>1. CASE Apply(r)
    <2> DEFINE t == req[r].listed
    <2>1. t \in Table
      BY <1>1, BusyAt DEF Apply, Request, Fields
    <2>2. providers' = Rebuilt(providers, t) /\ defaultID' = DefaultOf(t)
      BY <1>1 DEF Apply
    <2>3. QED
      BY <2>1, <2>2, RebuiltFromListing, DefaultOfListing DEF DefaultIsLoaded, Loaded, Present
  <1>2. CASE UNCHANGED <<providers, defaultID>>
    BY <1>2 DEF DefaultIsLoaded
  <1>3. QED
    BY <1>1, <1>2, ServeFrame

LEMMA NextIInv == IInv /\ [Next]_vars => IInv'
  <1> SUFFICES ASSUME IInv, [Next]_vars
               PROVE  IInv'
    OBVIOUS
  <1>0. TypeOK /\ Strong /\ TypeOK'
    BY NextTypeOK DEF IInv, Strong
  <1>1. CASE Seed
    <2>1. \A r \in Admin : req[r] = Idle /\ req'[r] = Idle
      BY <1>0, <1>1 DEF Seed, Strong, Shape
    <2>2. ~settled /\ ~settled'
      BY <1>0, <1>1 DEF Seed, Strong, Settled
    <2>3. Shape' /\ OneAlone' /\ AloneKnows'
      BY <2>1, IdleFields DEF Shape, OneAlone, AloneKnows
    <2>4. Settled' /\ QuietReloadIsCurrent'
      BY <2>2 DEF Settled, QuietReloadIsCurrent
    <2>5. DefaultIsLoaded'
      BY <1>1 DEF Seed, IInv, DefaultIsLoaded
    <2>6. CASE UNCHANGED <<rows, next>>
      <3>1. Fresh'
        BY <1>0, <2>1, <2>6 DEF Fresh, Strong
      <3>2. SqlSingleDefault'
        BY <1>1, <2>6 DEF Seed, IInv, SqlSingleDefault, Default, Present
      <3>3. QED
        BY <1>0, <2>3, <2>4, <2>5, <3>1, <3>2 DEF IInv, Strong
    <2>7. CASE /\ rows = NoRows /\ next \in App /\ next' = next + 1
               /\ rows' = [rows EXCEPT ![next] = [key |-> ConfigKey, def |-> TRUE]]
      <3>1. \A a \in App \ {next} : rows'[a] = None
        BY <2>7 DEF NoRows
      <3>2. App \subseteq Nat
        BY DEF App
      <3>3. Fresh'
        <4>1. \A a \in App : a >= next' => a # next
          BY <2>7, <3>2
        <4>2. \A a \in App : a >= next' => rows'[a] = None
          BY <3>1, <4>1
        <4>3. \A r \in Admin : req'[r] = Idle
          BY <2>1
        <4>4. QED
          BY <4>2, <4>3 DEF Fresh
      <3>4. SqlSingleDefault'
        BY <3>1 DEF SqlSingleDefault, Default, Present
      <3>5. QED
        BY <1>0, <2>3, <2>4, <2>5, <3>3, <3>4 DEF IInv, Strong
    <2>8. QED
      BY <1>1, <2>6, <2>7 DEF Seed
  <1>2. CASE LoadAll
    <2>1. \A r \in Admin : req[r] = Idle /\ req'[r] = Idle
      BY <1>0, <1>2 DEF LoadAll, Strong, Shape
    <2>2. ~settled /\ rows \in Table
      BY <1>0, <1>2 DEF LoadAll, Strong, Settled, TypeOK
    <2>3. Shape' /\ OneAlone' /\ AloneKnows' /\ Settled'
      BY <1>2, <2>1, IdleFields DEF LoadAll, Shape, OneAlone, AloneKnows, Settled
    <2>4. Fresh' /\ SqlSingleDefault'
      BY <1>0, <1>2, <2>1 DEF LoadAll, Fresh, Strong, IInv, SqlSingleDefault, Default, Present
    <2>5. CASE providers' = Rebuilt(NoProviders, rows) /\ defaultID' = DefaultOf(rows)
      <3>1. /\ \A a \in App : providers'[a] # None <=> a \in Loaded(rows)
            /\ \A a \in Loaded(rows) : providers'[a] = rows[a].key
        BY <2>2, <2>5, RebuiltFromListing
      <3>2. /\ defaultID' # None => defaultID' \in Loaded(rows) /\ rows[defaultID'].def
            /\ defaultID' = None <=> ~\E a \in Loaded(rows) : rows[a].def
        BY <2>2, <2>5, DefaultOfListing
      <3>3. \A a \in App : a \in Loaded(rows) <=> rows[a] # None /\ rows[a].key \notin BadKey
        BY DEF Loaded, Present, Loadable
      <3>4. DefaultIsLoaded'
        BY <3>1, <3>2 DEF DefaultIsLoaded, Loaded, Present
      <3>5. rows' = rows
        BY <1>2 DEF LoadAll
      <3>6. QuietReloadIsCurrent'
        BY <3>1, <3>2, <3>3, <3>5 DEF QuietReloadIsCurrent, Loaded, Present
      <3>7. QED
        BY <1>0, <2>3, <2>4, <3>4, <3>6 DEF IInv, Strong
    <2>6. CASE UNCHANGED <<providers, defaultID, settled>>
      <3>1. DefaultIsLoaded' /\ QuietReloadIsCurrent'
        BY <2>2, <2>6 DEF IInv, DefaultIsLoaded, QuietReloadIsCurrent
      <3>2. QED
        BY <1>0, <2>3, <2>4, <3>1 DEF IInv, Strong
    <2>7. QED
      BY <1>2, <2>5, <2>6 DEF LoadAll
  <1>3. CASE Crash
    <2>1. \A r \in Admin : req'[r] = Idle
      BY <1>3 DEF Crash
    <2>2. Shape' /\ OneAlone' /\ AloneKnows'
      BY <2>1, IdleFields DEF Shape, OneAlone, AloneKnows
    <2>3. Settled' /\ QuietReloadIsCurrent' /\ DefaultIsLoaded'
      BY <1>3 DEF Crash, Settled, QuietReloadIsCurrent, DefaultIsLoaded
    <2>4. Fresh' /\ SqlSingleDefault'
      BY <1>0, <1>3, <2>1 DEF Crash, Fresh, Strong, IInv, SqlSingleDefault, Default, Present
    <2>5. QED
      BY <1>0, <2>2, <2>3, <2>4 DEF IInv, Strong
  <1>4. ASSUME NEW r \in Admin, Serve(r)
        PROVE  IInv'
    BY <1>0, <1>4, ServeAlone, ServeFresh, ServeShape, ServeSettled,
       ServeSqlSingleDefault, ServeDefaultIsLoaded DEF IInv, Strong
  <1>5. CASE UNCHANGED vars
    BY <1>5 DEF vars, IInv, Strong, TypeOK, Fresh, Shape, OneAlone, AloneKnows, Knows,
                Settled, SqlSingleDefault, Default, Present, DefaultIsLoaded,
                QuietReloadIsCurrent
  <1>6. QED
    BY <1>1, <1>2, <1>3, <1>4, <1>5 DEF Next

LEMMA Invariance == Spec => []IInv
  BY InitIInv, NextIInv, PTL DEF Spec

\* At most one default app on a SQL store: the default flag stays single although
\* updates write back records they read before another one was promoted.
THEOREM OneDefaultOnSql == Spec => []SqlSingleDefault
  BY Invariance, PTL DEF IInv

\* The default app always has a provider, so GetDefault never fails to find it.
THEOREM DefaultHasProvider == Spec => []DefaultIsLoaded
  BY Invariance, PTL DEF IInv

\* Whatever overlapping, failed and crashed requests have left in the table and
\* in the registry, one request that runs alone, or one start-up, makes the
\* registry what the table says.
THEOREM QuietReload == Spec => []QuietReloadIsCurrent
  BY Invariance, PTL DEF IInv

\* A step after which a default record is still one.
LEMMA StillDefault ==
  ASSUME NEW a \in App, rows'[a] # None, rows'[a].def
  PROVE  Default(rows') # {}
  <1>1. a \in Default(rows')
    BY DEF Default, Present
  <1>2. QED
    BY <1>1

\* A lone request leaves the table without a default only where its body says
\* so, or where it deletes a record.
LEMMA NextKeepsDefault ==
  ASSUME IInv, Next, Alone, Default(rows) # {}, Default(rows') = {}
  PROVE  \E r \in Admin : \/ req[r].pc \in {"update", "write"} /\ req[r].def = "false"
                          \/ req[r].pc \in {"delete", "remove"}
  <1> DEFINE Goal == \E r \in Admin : \/ req[r].pc \in {"update", "write"} /\ req[r].def = "false"
                                      \/ req[r].pc \in {"delete", "remove"}
  <1>0. TypeOK /\ Fresh /\ AloneKnows /\ rows \in Table
    BY DEF IInv, Strong, TypeOK
  <1>1. PICK d \in App : rows[d] # None /\ rows[d].def
    BY DEF Default, Present
  <1>2. rows'[d] # rows[d]
    BY <1>1, StillDefault
  <1>3. CASE Seed
    <2>1. rows # NoRows
      BY <1>1 DEF NoRows
    <2>2. QED
      BY <1>2, <1>3, <2>1 DEF Seed
  <1>4. CASE LoadAll \/ Crash
    <2>1. CASE LoadAll
      BY <1>2, <2>1 DEF LoadAll
    <2>2. CASE Crash
      BY <1>2, <2>2 DEF Crash
    <2>3. QED
      BY <1>4, <2>1, <2>2
  <1>5. ASSUME NEW r \in Admin, Serve(r)
        PROVE  Goal
    <2> DEFINE q == req[r]
    <2>0. ASSUME q.pc # "idle"
          PROVE  q \in Request /\ q.app \in App /\ Knows(q, rows)
      <3>1. q \in Request /\ q # Idle
        BY <1>0, <2>0, BusyAt, IdleFields
      <3>2. q.app \in App
        BY <3>1 DEF Request, Fields
      <3>3. q.alone
        BY <3>1 DEF Alone
      <3>4. QED
        BY <1>0, <3>1, <3>2, <3>3 DEF AloneKnows
    <2>1. ASSUME NEW key \in Key, NEW def \in BOOLEAN, Create(r, key, def)
          PROVE  FALSE
      <3>1. next # d
        BY <1>0, <1>1, <2>1 DEF Fresh, Create, App, TypeOK
      <3>2. QED
        BY <1>0, <1>2, <2>1, <3>1 DEF Create, Table
    <2>2. ASSUME NEW a \in App, NEW key \in Key \cup {None},
                 NEW def \in {"true", "false", "omitted"}, UpdateRead(r, a, key, def)
          PROVE  FALSE
      BY <1>2, <2>2 DEF UpdateRead
    <2>3. ASSUME NEW a \in App, DeleteStart(r, a)
          PROVE  FALSE
      BY <1>2, <2>3 DEF DeleteStart
    <2>4. ASSUME q.pc \in {"update", "write"}, rows' = [rows EXCEPT ![q.app] = q.copy]
          PROVE  Goal
      <3>1. q \in Request /\ q.app \in App /\ Knows(q, rows)
        BY <2>0, <2>4
      <3>2. q.def \in {"true", "false", "omitted"} /\ q.copy # None
        BY <2>4, <3>1 DEF Request, Fields
      <3>3. rows'[q.app] = q.copy
        BY <1>0, <2>4, <3>1 DEF Table
      <3>4. q.app = d
        BY <1>0, <1>2, <2>4, <3>1 DEF Table
      <3>5. CASE q.def = "false"
        BY <2>4, <3>5
      <3>6. CASE q.def # "false"
        <4>1. q.copy.def
          BY <1>1, <2>4, <3>1, <3>2, <3>4, <3>6 DEF Knows
        <4>2. QED
          BY <3>1, <3>2, <3>3, <4>1, StillDefault
      <3>7. QED
        BY <3>5, <3>6
    <2>5. CASE SqlUpdate(r)
      <3>1. q.pc = "update" /\ (UNCHANGED rows \/ rows' = [rows EXCEPT ![q.app] = q.copy])
        BY <2>5 DEF SqlUpdate
      <3>2. QED
        BY <1>2, <2>4, <3>1
    <2>6. CASE VaultUpdateWrite(r)
      <3>1. q.pc = "write" /\ rows' = [rows EXCEPT ![q.app] = q.copy]
        BY <2>6 DEF VaultUpdateWrite
      <3>2. QED
        BY <2>4, <3>1
    <2>7. CASE SqlPromote(r)
      <3>1. q.app \in App /\ rows[q.app] # None
        BY <2>0, <2>7 DEF SqlPromote
      <3>2. rows[q.app] \in Row
        BY <1>0, <3>1, TableType
      <3>3. rows'[q.app] = [rows[q.app] EXCEPT !.def = TRUE]
        BY <2>7, <3>1 DEF SqlPromote
      <3>4. rows'[q.app] \in Row /\ rows'[q.app].def
        BY <3>2, <3>3 DEF Row
      <3>5. QED
        BY <3>1, <3>4, NoneAssumption, StillDefault
    <2>8. CASE VaultPromoteSet(r)
      <3>1. q \in Request /\ q.app \in App /\ q.pc = "set"
        BY <2>0, <2>8 DEF VaultPromoteSet
      <3>2. q.copy \in Row
        BY <3>1 DEF Request, Fields
      <3>3. rows'[q.app] = [q.copy EXCEPT !.def = TRUE]
        BY <1>0, <2>8, <3>1 DEF VaultPromoteSet, Table
      <3>4. rows'[q.app] \in Row /\ rows'[q.app].def
        BY <3>2, <3>3 DEF Row
      <3>5. QED
        BY <3>1, <3>4, NoneAssumption, StillDefault
    <2>9. CASE VaultClear(r)
      <3>1. q \in Request /\ q.app \in App /\ Knows(q, rows) /\ q.pc = "clear"
        BY <2>0, <2>9 DEF VaultClear
      <3>2. q.for = "clear"
        BY <3>1 DEF IInv, Strong, Shape
      <3>3. rows[q.app] # None /\ rows[q.app].def
        BY <3>1, <3>2 DEF Knows
      <3>4. PICK a \in ToClear(q) : rows' = [rows EXCEPT ![a] = [q.listed[a] EXCEPT !.def = FALSE]]
        BY <1>2, <2>9 DEF VaultClear
      <3>5. a # q.app
        BY DEF ToClear
      <3>6. rows'[q.app] = rows[q.app]
        BY <1>0, <3>1, <3>4, <3>5 DEF Table
      <3>7. QED
        BY <3>1, <3>3, <3>6, StillDefault
    <2>10. CASE SqlDelete(r) \/ VaultDelete(r)
      BY <2>10 DEF SqlDelete, VaultDelete
    <2>11. CASE SqlList(r) \/ VaultUpdateCheck(r) \/ VaultPromoteRead(r) \/ VaultList(r)
      BY <1>2, <2>11 DEF SqlList, VaultUpdateCheck, VaultPromoteRead, VaultList
    <2>12. CASE VaultGet(r) \/ VaultDeleteCheck(r) \/ Apply(r) \/ GiveUp(r)
      BY <1>2, <2>12 DEF VaultGet, VaultDeleteCheck, Apply, GiveUp
    <2>13. QED
      BY <1>5, <2>1, <2>2, <2>3, <2>5, <2>6, <2>7, <2>8, <2>9, <2>10, <2>11, <2>12 DEF Serve
  <1>6. QED
    BY <1>3, <1>4, <1>5 DEF Next

\* Requests that do not overlap lose the default app only if they are meant to.
THEOREM DefaultSurvives == Spec => DefaultIsNotLost
  <1>1. IInv /\ [Next]_vars =>
          [Alone /\ Default(rows) # {} /\ Default(rows') = {}
             => \E r \in Admin : \/ req[r].pc \in {"update", "write"} /\ req[r].def = "false"
                                 \/ req[r].pc \in {"delete", "remove"}]_vars
    BY NextKeepsDefault
  <1>2. QED
    BY <1>1, Invariance, PTL DEF Spec, DefaultIsNotLost

\* A lone promotion that runs to its end leaves its app as the only default.
THEOREM LonePromotionWins == Spec => PromotionWins
  <1>1. ASSUME IInv, NEW r \in Admin, req[r].pc = "apply", req[r].alone, req[r].def = "true"
        PROVE  Default(rows) = {req[r].app}
    <2>1. req[r].app \in App
      BY <1>1, BusyAt DEF IInv, Strong, Request, Fields
    <2>2. Knows(req[r], rows) /\ req[r].for = "apply"
      BY <1>1 DEF IInv, Strong, AloneKnows, Shape
    <2>3. /\ rows[req[r].app] # None /\ rows[req[r].app].def
          /\ \A a \in App : a # req[r].app /\ rows[a] # None => ~rows[a].def
      BY <1>1, <2>2 DEF Knows
    <2>4. QED
      BY <2>1, <2>3 DEF Default, Present
  <1>2. IInv /\ [Next]_vars =>
          [\A r \in Admin :
             req[r].pc = "apply" /\ req[r].alone /\ req[r].def = "true" /\ settled'
               => Default(rows) = {req[r].app}]_vars
    BY <1>1
  <1>3. QED
    BY <1>2, Invariance, PTL DEF Spec, PromotionWins
=============================================================================
