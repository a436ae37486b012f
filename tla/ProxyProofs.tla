----------------------------- MODULE ProxyProofs -----------------------------
(***************************************************************************)
(* Theorems about the modules of internal/proxy that decide on a request:  *)
(* EnterpriseAccess, and below it ProxyRequest, for every configuration,   *)
(* every set of goroutines, requests and rows, and all lifetimes and       *)
(* bounds that their assumptions admit.                                    *)
(***************************************************************************)
EXTENDS EnterpriseAccess, ProxyRequest, SequenceTheorems, WellFoundedInduction, TLAPS

-----------------------------------------------------------------------------
(* The inductive invariant.                                                *)

Leading == {"ask", "store", "delete"}
Asking  == {"lookup", "join", "wait", "answered"} \cup Leading

\* A flight is led by one goroutine, it is open until that has closed it, and then it
\* holds what that has found out.  Who waits without an answer waits for an open one.
FlightsAreLed ==
  /\ \A k \in Question : flight[k] # Absent => \E p \in Process : pc[p] \in Leading /\ key[p] = k
  /\ \A p, q \in Process : pc[p] \in Leading /\ pc[q] \in Leading /\ key[p] = key[q] => p = q
  /\ \A p \in Process, k \in Question : pc[p] \in Leading /\ key[p] = k =>
       /\ flight[k] # Absent
       /\ flight[k].open <=> pc[p] # "delete"
       /\ pc[p] = "delete" => (flight[k].yes <=> verdict[p] = "yes")
  /\ \A p \in Process, k \in Question : pc[p] = "wait" /\ verdict[p] = "none" /\ key[p] = k =>
       flight[k] # Absent /\ flight[k].open

\* The history says what GitHub answers now, and when it last answered what is cached
\* or is going to be stored.
AnswersAreTrue ==
  /\ \A k \in Question :
       /\ lastYes[k] <= clock /\ lastNo[k] <= clock
       /\ IF truth[k] THEN lastYes[k] = clock ELSE lastNo[k] = clock
       /\ cache[k] # Absent =>
            /\ cache[k].at <= clock
            /\ k = "user" => cache[k].yes
            /\ IF cache[k].yes THEN lastYes[k] >= cache[k].at - MaxFlight
                               ELSE lastNo[k] >= cache[k].at - MaxFlight
  /\ \A p \in Process, k \in Question : pc[p] \in {"store", "delete"} /\ key[p] = k =>
       /\ asked[p] <= clock /\ clock <= asked[p] + MaxFlight
       /\ \/ verdict[p] = "yes" /\ lastYes[k] >= asked[p]
          \/ verdict[p] = "no" /\ lastNo[k] >= asked[p]

\* What a request has found out by the time it is decided.
Justified(r, t) ==
  /\ outcome[r] \in {"omitted", "substituted"} =>
       LET e == Exception(t) IN
       /\ Matching(t) # {}
       /\ e.teams # <<>> => req[r].login /\ \E k \in Range(e.teams) : RecentYes(r, k)
       /\ e.identity <=> outcome[r] = "substituted"
       /\ e.identity => req[r].login
  /\ outcome[r] = "kept" /\ req[r].login /\ ~req[r].gone /\ Matching(t) # {} /\ ~Exception(t).identity =>
       \A k \in Range(Exception(t).teams) : RecentNo(r, k)

\* What it knows while it asks about its user or about the first of the teams that are
\* left: the others have said no.
Informed(r, t, k) ==
  /\ Matching(t) # {}
  /\ k = "user" => ~req[r].login
  /\ k # "user" =>
       /\ req[r].login /\ req[r].teams # <<>> /\ k = Head(req[r].teams)
       /\ \A team \in Range(req[r].teams) : team \in Range(Exception(t).teams)
       /\ \A team \in Range(Exception(t).teams) :
            team \in Range(req[r].teams) \/ RecentNo(r, team) \/ req[r].gone
  /\ k = "user" => req[r].teams = Exception(t).teams
  /\ pc[r] \in {"lookup", "join", "ask"} => verdict[r] = "none"
  /\ pc[r] \in {"store", "delete", "answered"} => verdict[r] # "none"
  /\ verdict[r] = "yes" => RecentYes(r, k)
  /\ verdict[r] = "no" => RecentNo(r, k) \/ req[r].gone

RequestIsTrue(r) ==
  /\ outcome[r] # "none" <=> pc[r] = "done"
  /\ pc[r] # "idle" => /\ req[r].target \in Target
                       /\ started[r] <= clock
                       /\ req[r].login => RecentYes(r, "user")
  /\ \A t \in Target, k \in Question : req[r].target = t /\ key[r] = k =>
       /\ pc[r] \in Asking => Informed(r, t, k)
       /\ pc[r] = "done" => Justified(r, t)

RequestsAreTrue == \A r \in Request : RequestIsTrue(r)

\* Who looks a user up in the background asks nothing else, and never waits.
BackgroundIsSimple ==
  \A b \in Background : key[b] = "user" /\ pc[b] \in {"idle"} \cup Leading

IInv ==
  /\ TypeOK
  /\ FlightsAreLed
  /\ AnswersAreTrue
  /\ RequestsAreTrue
  /\ BackgroundIsSimple

-----------------------------------------------------------------------------
(* The policy.                                                             *)

LEMMA LeastElement ==
  ASSUME NEW S, S \subseteq Nat, S # {}
  PROVE  \E i \in S : \A j \in S : i <= j
  <1>1. PICK i \in S : \A j \in S : <<j, i>> \notin OpToRel(<, Nat)
    BY NatLessThanWellFounded, WFMin
  <1>2. ASSUME NEW j \in S, j < i
        PROVE  FALSE
    <2>1. i \in Nat /\ j \in Nat
      BY <1>1
    <2>2. <<j, i>> \in OpToRel(<, Nat)
      BY <1>2, <2>1 DEF OpToRel
    <2>3. QED
      BY <1>1, <2>2
  <1>3. \A j \in S : i \in Nat /\ j \in Nat
    BY <1>1
  <1>4. \A j \in S : i <= j
    BY <1>2, <1>3
  <1>5. QED
    BY <1>4, Zenon

LEMMA AddressedType ==
  ASSUME NEW t \in Target
  PROVE  /\ Addressed(t) \in Seq(STRING) /\ Len(Addressed(t)) \in 0..2
         /\ Addressed(t) # <<>> => Len(<<Addressed(t)[1]>>) = 1
  <1>1. t.path \in Seq(STRING) /\ t.path # <<>> /\ Len(t.path) \in Nat
    BY PolicyAssumption
  <1>2. ASSUME NEW m \in 1..2, NEW n \in 2..3, m <= n, n <= Len(t.path)
        PROVE  SubSeq(t.path, m, n) \in Seq(STRING) /\ Len(SubSeq(t.path, m, n)) = n - m + 1
    <2>1. \A i \in m..n : t.path[i] \in STRING
      BY <1>1, <1>2
    <2>2. SubSeq(t.path, m, n) \in Seq(STRING)
          /\ Len(SubSeq(t.path, m, n)) = IF m <= n THEN n - m + 1 ELSE 0
      BY <2>1, SubSeqProperties
    <2>3. QED
      BY <1>2, <2>2
  <1>3. APITarget(t.path) \in Seq(STRING) /\ Len(APITarget(t.path)) \in 0..2
    <2>1. Len(t.path) >= 3 => SubSeq(t.path, 2, 3) \in Seq(STRING) /\ Len(SubSeq(t.path, 2, 3)) = 2
      BY <1>1, <1>2
    <2>2. Len(t.path) >= 2 => SubSeq(t.path, 2, 2) \in Seq(STRING) /\ Len(SubSeq(t.path, 2, 2)) = 1
      BY <1>1, <1>2
    <2>3. \/ APITarget(t.path) = <<>>
          \/ Len(t.path) >= 3 /\ APITarget(t.path) = SubSeq(t.path, 2, 3)
          \/ Len(t.path) >= 2 /\ APITarget(t.path) = SubSeq(t.path, 2, 2)
      BY DEF APITarget
    <2>4. CASE APITarget(t.path) = <<>>
      <3>1. <<>> \in Seq(STRING) /\ Len(<<>>) = 0
        OBVIOUS
      <3>2. QED
        BY <2>4, <3>1
    <2>5. CASE Len(t.path) >= 3 /\ APITarget(t.path) = SubSeq(t.path, 2, 3)
      BY <2>1, <2>5
    <2>6. CASE Len(t.path) >= 2 /\ APITarget(t.path) = SubSeq(t.path, 2, 2)
      BY <2>2, <2>6
    <2>7. QED
      BY <2>3, <2>4, <2>5, <2>6
  <1>4. WebTarget(t.path) \in Seq(STRING) /\ Len(WebTarget(t.path)) \in 0..2
    <2>1. Len(t.path) >= 2 => SubSeq(t.path, 1, 2) \in Seq(STRING) /\ Len(SubSeq(t.path, 1, 2)) = 2
      BY <1>1, <1>2
    <2>2. CASE Len(t.path) < 2
      <3>1. WebTarget(t.path) = t.path
        BY <2>2 DEF WebTarget
      <3>2. \A n \in Nat : n < 2 => n \in 0..2
        OBVIOUS
      <3>3. Len(t.path) \in 0..2
        BY <1>1, <2>2, <3>2, Zenon
      <3>4. QED
        BY <1>1, <3>1, <3>3, Zenon
    <2>3. CASE Len(t.path) >= 2
      <3>1. WebTarget(t.path) = SubSeq(t.path, 1, 2)
        BY <1>1, <2>3 DEF WebTarget
      <3>2. QED
        BY <2>1, <2>3, <3>1
    <2>4. QED
      BY <1>1, <2>2, <2>3
  <1>5. Addressed(t) \in Seq(STRING) /\ Len(Addressed(t)) \in 0..2
    BY <1>3, <1>4 DEF Addressed
  <1>6. QED
    BY <1>5

LEMMA NamingIsConfigured ==
  ASSUME NEW n, Len(n) \in {1, 2}
  PROVE  Naming(n) = {i \in Configured(n) : Gated(i)}
  <1>1. ASSUME NEW i \in DOMAIN Exceptions
        PROVE  i \in Naming(n) <=> n \in Exceptions[i].names /\ Gated(i)
    <2>1. n \in Names(Exceptions[i]) <=> n \in Exceptions[i].names
      BY DEF Names
    <2>2. n \in Names(Exceptions[i]) => (Usable(Exceptions[i]) <=> Gated(i))
      BY Zenon DEF Usable, Gated
    <2>3. QED
      BY <2>1, <2>2 DEF Naming, Compiled
  <1>2. Naming(n) \subseteq DOMAIN Exceptions
    BY DEF Naming, Compiled
  <1>3. QED
    BY <1>1, <1>2 DEF Configured

\* The exception that is found is the first of those about the target that have a gate
\* whenever the configuration gives them one.
LEMMA ExceptionIsAbout ==
  ASSUME NEW t \in Target, Matching(t) # {}
  PROVE  \E i \in About(t) :
           /\ i \in DOMAIN Exceptions /\ Exceptions[i] = Exception(t) /\ Gated(i)
           /\ \A j \in About(t) : j < i => Exceptions[j].badTeams
  <1> DEFINE a == Addressed(t)
  <1>1. a # <<>> /\ Len(a) \in {1, 2} /\ Len(<<a[1]>>) \in {1, 2}
    <2>1. a # <<>>
      BY DEF Matching
    <2>2. QED
      BY <2>1, AddressedType
  <1>2. Naming(a) = {i \in Configured(a) : Gated(i)}
        /\ Naming(<<a[1]>>) = {i \in Configured(<<a[1]>>) : Gated(i)}
    BY <1>1, NamingIsConfigured
  <1>3. Matching(t) = {i \in About(t) : Gated(i)}
    <2>1. CASE Naming(a) # {}
      BY <1>1, <1>2, <2>1 DEF Matching, About
    <2>2. CASE Naming(a) = {}
      BY <1>1, <1>2, <2>2 DEF Matching, About
    <2>3. QED
      BY <2>1, <2>2
  <1>4. About(t) \subseteq DOMAIN Exceptions /\ DOMAIN Exceptions \subseteq Nat
    BY PolicyAssumption DEF About, Configured
  <1>5. PICK i \in Matching(t) : \A j \in Matching(t) : i <= j
    BY <1>3, <1>4, LeastElement
  <1>6. \A k \in Matching(t) : (\A j \in Matching(t) : k <= j) => k = i
    BY <1>3, <1>4, <1>5
  <1>7. (CHOOSE k \in Matching(t) : \A j \in Matching(t) : k <= j) = i
    BY <1>5, <1>6
  <1>8. Exception(t) = Exceptions[i]
    BY <1>7 DEF Exception
  <1>9. \A j \in About(t) : j < i => ~Gated(j)
    BY <1>3, <1>4, <1>5
  <1>10. QED
    BY <1>3, <1>4, <1>5, <1>8, <1>9 DEF Gated

LEMMA ExceptionType ==
  ASSUME NEW t \in Target, Matching(t) # {}
  PROVE  Exception(t).teams \in Seq(Team) /\ Exception(t).identity \in BOOLEAN
         /\ Exception(t).badTeams \in BOOLEAN
  <1>1. PICK i \in DOMAIN Exceptions : Exceptions[i] = Exception(t)
    BY ExceptionIsAbout
  <1> DEFINE Exc == [names : SUBSET Seq(STRING), teams : Seq(Team), badTeams : BOOLEAN,
                     identity : BOOLEAN]
  <1>2. Exceptions \in Seq(Exc)
    BY PolicyAssumption
  <1>3. Exceptions[i] \in Exc
    <2> HIDE DEF Exc
    <2>1. QED
      BY <1>2
  <1>4. QED
    BY <1>1, <1>3

-----------------------------------------------------------------------------
(* Types.                                                                  *)

LEMMA AbsentIsOther ==
  /\ \A c \in [yes : BOOLEAN, at : Nat] : c # Absent
  /\ \A f \in [open : BOOLEAN, yes : BOOLEAN] : f # Absent
  /\ Absent \notin Target
  BY PolicyAssumption DEF Absent

\* The steps.
LEMMA StepCases ==
  ASSUME [Next]_vars
  PROVE  \/ Tick \/ UNCHANGED vars
         \/ \E k \in Question : Change(k)
         \/ \E p \in Process : \/ Lookup(p) \/ Join(p) \/ Ask(p) \/ Store(p) \/ Delete(p) \/ Wake(p)
         \/ \E r \in Request : Start(r) \/ Cancel(r) \/ Match(r) \/ Answered(r)
  BY DEF Next, Progress

LEMMA ConstantTypes ==
  /\ UserTTL \in Nat /\ TeamTTL \in Nat /\ MaxFlight \in Nat /\ MaxClock \in Nat /\ MaxFaults \in Nat
  /\ \A k \in Question : TTL(k) \in Nat
  /\ Request \subseteq Process /\ Background \subseteq Process /\ "user" \in Question
  /\ Team \subseteq Question
  BY TimeAssumption DEF TTL, Process, Question

LEMMA StateTypes ==
  ASSUME TypeOK
  PROVE  /\ clock \in Nat
         /\ \A k \in Question : truth[k] \in BOOLEAN /\ lastYes[k] \in Int /\ lastNo[k] \in Int
         /\ \A k \in Question : cache[k] # Absent => cache[k].yes \in BOOLEAN /\ cache[k].at \in Nat
         /\ \A k \in Question : flight[k] # Absent => flight[k].open \in BOOLEAN /\ flight[k].yes \in BOOLEAN
         /\ \A p \in Process : key[p] \in Question /\ asked[p] \in Nat
         /\ \A r \in Request : started[r] \in Nat /\ req[r].teams \in Seq(Team)
         /\ \A r \in Request : req[r].login \in BOOLEAN /\ req[r].gone \in BOOLEAN
  <1> USE DEF TypeOK
  <1>1. clock \in Nat
    BY ConstantTypes
  <1>2. \A k \in Question : truth[k] \in BOOLEAN /\ lastYes[k] \in Int /\ lastNo[k] \in Int
    OBVIOUS
  <1>3. \A k \in Question : cache[k] # Absent => cache[k].yes \in BOOLEAN /\ cache[k].at \in Nat
    OBVIOUS
  <1>4. \A k \in Question : flight[k] # Absent => flight[k].open \in BOOLEAN /\ flight[k].yes \in BOOLEAN
    OBVIOUS
  <1>5. \A p \in Process : key[p] \in Question /\ asked[p] \in Nat
    OBVIOUS
  <1>6. \A r \in Request : started[r] \in Nat /\ req[r].teams \in Seq(Team)
    OBVIOUS
  <1>7. \A r \in Request : req[r].login \in BOOLEAN /\ req[r].gone \in BOOLEAN
    OBVIOUS
  <1>8. QED
    BY <1>1, <1>2, <1>3, <1>4, <1>5, <1>6, <1>7

RequestType == [target : Target \cup {Absent}, login : BOOLEAN, gone : BOOLEAN, teams : Seq(Team)]

LEMMA RequestFields ==
  ASSUME NEW q \in RequestType
  PROVE  /\ [q EXCEPT !.gone = TRUE] \in RequestType
         /\ \A b \in BOOLEAN : [q EXCEPT !.login = b] \in RequestType
         /\ \A s \in Seq(Team) : [q EXCEPT !.teams = s] \in RequestType
         /\ \A t \in Target, b \in BOOLEAN :
              [target |-> t, gone |-> FALSE, teams |-> <<>>, login |-> b] \in RequestType
  <1>1. [q EXCEPT !.gone = TRUE] \in RequestType
    BY DEF RequestType
  <1>2. ASSUME NEW b \in BOOLEAN
        PROVE  [q EXCEPT !.login = b] \in RequestType
    BY DEF RequestType
  <1>3. ASSUME NEW s \in Seq(Team)
        PROVE  [q EXCEPT !.teams = s] \in RequestType
    BY DEF RequestType
  <1>4. ASSUME NEW t \in Target, NEW b \in BOOLEAN
        PROVE  [target |-> t, gone |-> FALSE, teams |-> <<>>, login |-> b] \in RequestType
    BY DEF RequestType
  <1>5. QED
    BY <1>1, <1>2, <1>3, <1>4

LEMMA TickTypes ==
  ASSUME TypeOK, Tick
  PROVE  TypeOK'
  <1>1. clock' \in 0..MaxClock
    BY ConstantTypes DEF TypeOK, Tick
  <1>2. lastYes' \in [Question -> Int] /\ lastNo' \in [Question -> Int]
    BY <1>1 DEF TypeOK, Tick
  <1>3. QED
    BY <1>1, <1>2 DEF TypeOK, Tick, shared

LEMMA FaultTypes ==
  ASSUME TypeOK, Fault
  PROVE  faults' \in 0..MaxFaults
  BY ConstantTypes DEF TypeOK, Fault

LEMMA ChangeTypes ==
  ASSUME TypeOK, NEW k \in Question, Change(k)
  PROVE  TypeOK'
  <1>1. truth' \in [Question -> BOOLEAN]
    BY DEF TypeOK, Change
  <1>2. clock \in Int
    BY DEF TypeOK
  <1>3. lastYes' \in [Question -> Int] /\ lastNo' \in [Question -> Int]
    BY <1>2 DEF TypeOK, Change
  <1>4. QED
    BY <1>1, <1>3, FaultTypes DEF TypeOK, Change, shared

LEMMA LookupTypes ==
  ASSUME TypeOK, NEW p \in Process, Lookup(p)
  PROVE  TypeOK'
  BY DEF TypeOK, Lookup, GoTo, github, shared

LEMMA JoinTypes ==
  ASSUME TypeOK, NEW p \in Process, Join(p)
  PROVE  TypeOK'
  <1>1. key[p] \in Question
    BY StateTypes
  <1>2. flight' \in [Question -> [open : BOOLEAN, yes : BOOLEAN] \cup {Absent}]
    <2>1. [open |-> TRUE, yes |-> FALSE] \in [open : BOOLEAN, yes : BOOLEAN]
      OBVIOUS
    <2>2. flight' = flight \/ flight' = [flight EXCEPT ![key[p]] = [open |-> TRUE, yes |-> FALSE]]
      BY DEF Join
    <2>3. QED
      BY <1>1, <2>1, <2>2 DEF TypeOK
  <1>3. pc' \in [Process -> {"idle", "match", "lookup", "join", "wait",
                            "ask", "store", "delete", "answered", "done"}]
        /\ verdict' \in [Process -> {"none", "yes", "no"}]
    BY DEF TypeOK, Join, GoTo
  <1>4. QED
    BY <1>2, <1>3 DEF TypeOK, Join, github

LEMMA AskTypes ==
  ASSUME TypeOK, NEW p \in Process, Ask(p)
  PROVE  TypeOK'
  <1>1. clock \in Nat /\ key[p] \in Question
    BY StateTypes
  <1>2. verdict' \in [Process -> {"none", "yes", "no"}] /\ asked' \in [Process -> Nat]
    BY <1>1 DEF TypeOK, Ask
  <1>3. faults' \in 0..MaxFaults
    BY FaultTypes DEF TypeOK, Ask
  <1>4. lastNo' \in [Question -> Int]
    BY <1>1 DEF TypeOK, Ask
  <1>5. pc' \in [Process -> {"idle", "match", "lookup", "join", "wait",
                            "ask", "store", "delete", "answered", "done"}]
    BY DEF TypeOK, Ask, GoTo
  <1>6. QED
    BY <1>2, <1>3, <1>4, <1>5 DEF TypeOK, Ask, shared

LEMMA StoreTypes ==
  ASSUME TypeOK, NEW p \in Process, Store(p)
  PROVE  TypeOK'
  <1>1. clock \in Nat /\ key[p] \in Question
    BY StateTypes
  <1>2. cache' \in [Question -> [yes : BOOLEAN, at : Nat] \cup {Absent}]
    BY <1>1 DEF TypeOK, Store
  <1>3. flight' \in [Question -> [open : BOOLEAN, yes : BOOLEAN] \cup {Absent}]
    BY <1>1 DEF TypeOK, Store
  <1>4. verdict' \in [Process -> {"none", "yes", "no"}]
    BY DEF TypeOK, Store, Delivered
  <1>5. pc' \in [Process -> {"idle", "match", "lookup", "join", "wait",
                            "ask", "store", "delete", "answered", "done"}]
    BY DEF TypeOK, Store, GoTo
  <1>6. QED
    BY <1>2, <1>3, <1>4, <1>5 DEF TypeOK, Store, github

LEMMA DeleteTypes ==
  ASSUME TypeOK, NEW p \in Process, Delete(p)
  PROVE  TypeOK'
  <1>1. key[p] \in Question
    BY StateTypes
  <1>2. flight' \in [Question -> [open : BOOLEAN, yes : BOOLEAN] \cup {Absent}]
    BY <1>1 DEF TypeOK, Delete
  <1>3. pc' \in [Process -> {"idle", "match", "lookup", "join", "wait",
                            "ask", "store", "delete", "answered", "done"}]
    BY DEF TypeOK, Delete, GoTo
  <1>4. QED
    BY <1>2, <1>3 DEF TypeOK, Delete, github

LEMMA WakeTypes ==
  ASSUME TypeOK, NEW p \in Process, Wake(p)
  PROVE  TypeOK'
  BY DEF TypeOK, Wake, GoTo, github, shared

LEMMA CancelTypes ==
  ASSUME TypeOK, NEW r \in Request, Cancel(r)
  PROVE  TypeOK'
  <1>1. req' \in [Request -> RequestType]
    <2>1. req \in [Request -> RequestType]
      BY DEF TypeOK, RequestType
    <2>2. [req[r] EXCEPT !.gone = TRUE] \in RequestType
      BY <2>1, RequestFields
    <2>3. QED
      BY <2>1, <2>2 DEF Cancel
  <1>2. pc' \in [Process -> {"idle", "match", "lookup", "join", "wait",
                            "ask", "store", "delete", "answered", "done"}]
        /\ verdict' \in [Process -> {"none", "yes", "no"}]
    BY DEF TypeOK, Cancel, GoTo
  <1>3. QED
    BY <1>1, <1>2, FaultTypes DEF TypeOK, Cancel, RequestType, shared

\* What a request decides, or whom it asks about, once it knows whether it is let through.
Decided(e, login, o) ==
  \/ o = "kept" /\ (e.identity \/ (e.teams # <<>> /\ ~login))
  \/ o = "omitted" /\ ~e.identity /\ e.teams = <<>>
  \/ o = "substituted" /\ e.identity /\ e.teams = <<>> /\ login

LEMMA GateCases ==
  ASSUME NEW r, NEW e, NEW login, Gate(r, e, login)
  PROVE  \/ \E o \in {"kept", "omitted", "substituted"} : Decide(r, o) /\ Decided(e, login, o)
         \/ e.teams # <<>> /\ login /\ AskAbout(r, Head(e.teams))
  <1>1. CASE e.teams = <<>>
    BY <1>1, Zenon DEF Gate, Lift, Decided
  <1>2. CASE e.teams # <<>> /\ login
    BY <1>2, Zenon DEF Gate
  <1>3. CASE e.teams # <<>> /\ ~login
    BY <1>3, Zenon DEF Gate, Decided
  <1>4. QED
    BY <1>1, <1>2, <1>3

\* A request whose exception is known only moves on to a question or to its end.
LEMMA MatchCases ==
  ASSUME NEW r, Match(r)
  PROVE  \/ Matching(req[r].target) = {} /\ Decide(r, "kept") /\ req' = req
         \/ LET e == Exception(req[r].target) IN
            /\ Matching(req[r].target) # {}
            /\ req' = [req EXCEPT ![r].teams = e.teams]
            /\ \/ ~req[r].login /\ AskAbout(r, "user")
               \/ \E o \in {"kept", "omitted", "substituted"} :
                    Decide(r, o) /\ Decided(e, req[r].login, o)
               \/ e.teams # <<>> /\ req[r].login /\ AskAbout(r, Head(e.teams))
  <1> DEFINE e == Exception(req[r].target)
  <1>1. CASE Matching(req[r].target) = {}
    BY <1>1 DEF Match
  <1>2. CASE Matching(req[r].target) # {}
    <2>1. req' = [req EXCEPT ![r].teams = e.teams]
      BY <1>2 DEF Match
    <2>2. \/ ~req[r].login /\ AskAbout(r, "user")
          \/ Gate(r, e, req[r].login)
      BY <1>2 DEF Match
    <2>3. QED
      BY <1>2, <2>1, <2>2, GateCases
  <1>3. QED
    BY <1>1, <1>2

LEMMA AnsweredCases ==
  ASSUME NEW r, Answered(r)
  PROVE  LET e    == Exception(req[r].target)
             yes  == verdict[r] = "yes"
             rest == Tail(req[r].teams)
         IN
         \/ /\ key[r] = "user"
            /\ req' = [req EXCEPT ![r].login = yes]
            /\ \/ \E o \in {"kept", "omitted", "substituted"} : Decide(r, o) /\ Decided(e, yes, o)
               \/ e.teams # <<>> /\ yes /\ AskAbout(r, Head(e.teams))
         \/ /\ key[r] # "user"
            /\ req' = [req EXCEPT ![r].teams = rest]
            /\ \/ yes /\ e.identity /\ Decide(r, "kept")
               \/ yes /\ e.identity /\ Decide(r, "substituted")
               \/ yes /\ ~e.identity /\ Decide(r, "omitted")
               \/ ~yes /\ rest = <<>> /\ Decide(r, "kept")
               \/ ~yes /\ rest # <<>> /\ AskAbout(r, Head(rest))
  <1> DEFINE e    == Exception(req[r].target)
             yes  == verdict[r] = "yes"
             rest == Tail(req[r].teams)
  <1>1. CASE key[r] = "user"
    <2>1. req' = [req EXCEPT ![r].login = yes] /\ Gate(r, e, yes)
      BY <1>1 DEF Answered
    <2> HIDE DEF e, yes
    <2>2. \/ \E o \in {"kept", "omitted", "substituted"} : Decide(r, o) /\ Decided(e, yes, o)
          \/ e.teams # <<>> /\ yes /\ AskAbout(r, Head(e.teams))
      BY <2>1, GateCases
    <2>3. QED
      BY <1>1, <2>1, <2>2 DEF e, yes
  <1>2. CASE key[r] # "user"
    <2>1. req' = [req EXCEPT ![r].teams = rest]
      BY <1>2 DEF Answered
    <2>2. \/ yes /\ Lift(r, e, TRUE)
          \/ ~yes /\ rest = <<>> /\ Decide(r, "kept")
          \/ ~yes /\ rest # <<>> /\ AskAbout(r, Head(rest))
      BY <1>2 DEF Answered
    <2>3. Lift(r, e, TRUE) => \/ e.identity /\ Decide(r, "kept")
                              \/ e.identity /\ Decide(r, "substituted")
                              \/ ~e.identity /\ Decide(r, "omitted")
      BY Zenon DEF Lift
    <2>4. QED
      BY <1>2, <2>1, <2>2, <2>3
  <1>3. QED
    BY <1>1, <1>2

\* The steps in which a request moves on.
LEMMA DecideTypes ==
  ASSUME TypeOK, NEW r \in Request, NEW o \in {"kept", "omitted", "substituted"}, Decide(r, o)
  PROVE  /\ pc' \in [Process -> {"idle", "match", "lookup", "join", "wait",
                                "ask", "store", "delete", "answered", "done"}]
         /\ key' \in [Process -> Question] /\ verdict' \in [Process -> {"none", "yes", "no"}]
         /\ outcome' \in [Request -> {"none", "kept", "omitted", "substituted"}]
  BY DEF TypeOK, Decide, GoTo

LEMMA AskAboutTypes ==
  ASSUME TypeOK, NEW r \in Request, NEW k \in Question, AskAbout(r, k)
  PROVE  /\ pc' \in [Process -> {"idle", "match", "lookup", "join", "wait",
                                "ask", "store", "delete", "answered", "done"}]
         /\ key' \in [Process -> Question] /\ verdict' \in [Process -> {"none", "yes", "no"}]
         /\ outcome' \in [Request -> {"none", "kept", "omitted", "substituted"}]
  BY DEF TypeOK, AskAbout, GoTo

LEMMA HeadAndTail ==
  ASSUME NEW s \in Seq(Team), s # <<>>
  PROVE  /\ Head(s) \in Team /\ Head(s) \in Range(s)
         /\ Tail(s) \in Seq(Team)
         /\ \A k : k \in Range(s) <=> k = Head(s) \/ k \in Range(Tail(s))
  <1>1. Head(s) \in Team /\ Tail(s) \in Seq(Team) /\ Len(s) \in Nat /\ Len(s) >= 1
    BY HeadTailProperties
  <1>2. DOMAIN s = 1..Len(s) /\ Len(Tail(s)) = Len(s) - 1 /\ DOMAIN Tail(s) = 1..(Len(s) - 1)
    BY HeadTailProperties
  <1>3. \A i \in 1..(Len(s) - 1) : Tail(s)[i] = s[i + 1]
    BY HeadTailProperties
  <1>4. Head(s) = s[1]
    OBVIOUS
  <1>5. Head(s) \in Range(s)
    BY <1>1, <1>2, <1>4 DEF Range
  <1>6. ASSUME NEW k \in Range(s), k # Head(s)
        PROVE  k \in Range(Tail(s))
    <2>1. PICK i \in 1..Len(s) : s[i] = k
      BY <1>2 DEF Range
    <2>2. i - 1 \in 1..(Len(s) - 1) /\ Tail(s)[i - 1] = k
      BY <1>1, <1>3, <1>4, <1>6, <2>1
    <2>3. QED
      BY <1>2, <2>2 DEF Range
  <1>7. ASSUME NEW k \in Range(Tail(s))
        PROVE  k \in Range(s)
    <2>1. PICK i \in 1..(Len(s) - 1) : Tail(s)[i] = k
      BY <1>2 DEF Range
    <2>2. i + 1 \in 1..Len(s) /\ s[i + 1] = k
      BY <1>1, <1>3, <2>1
    <2>3. QED
      BY <1>2, <2>2 DEF Range
  <1>8. QED
    BY <1>1, <1>5, <1>6, <1>7

LEMMA SubjectIsTarget ==
  ASSUME TypeOK, NEW r \in Request, RequestIsTrue(r), pc[r] # "idle", Matching(req[r].target) # {}
  PROVE  /\ req[r].target \in Target
         /\ Exception(req[r].target).teams \in Seq(Team)
         /\ Exception(req[r].target).identity \in BOOLEAN
  BY ExceptionType DEF RequestIsTrue

LEMMA MatchTypes ==
  ASSUME TypeOK, NEW r \in Request, RequestIsTrue(r), Match(r)
  PROVE  TypeOK'
  <1> DEFINE t == req[r].target
  <1>1. req \in [Request -> RequestType]
    BY DEF TypeOK, RequestType
  <1>2. UNCHANGED <<github, shared, asked, started>> /\ pc[r] = "match"
    BY DEF Match, At
  <1>3. CASE Matching(t) = {} /\ Decide(r, "kept") /\ req' = req
    BY <1>2, <1>3, DecideTypes DEF TypeOK, github, shared
  <1>4. CASE Matching(t) # {}
    <2>1. Exception(t).teams \in Seq(Team)
      BY <1>2, <1>4, SubjectIsTarget
    <2>2. req' = [req EXCEPT ![r].teams = Exception(t).teams]
      BY <1>4 DEF Match
    <2>3. [req[r] EXCEPT !.teams = Exception(t).teams] \in RequestType
      BY <1>1, <2>1, RequestFields
    <2>4. req' \in [Request -> RequestType]
      BY <1>1, <2>2, <2>3
    <2>5. \/ AskAbout(r, "user")
          \/ \E o \in {"kept", "omitted", "substituted"} : Decide(r, o)
          \/ Exception(t).teams # <<>> /\ AskAbout(r, Head(Exception(t).teams))
      BY <1>4, MatchCases
    <2>6. Exception(t).teams # <<>> => Head(Exception(t).teams) \in Question
      BY <2>1, HeadAndTail, ConstantTypes
    <2>7. /\ pc' \in [Process -> {"idle", "match", "lookup", "join", "wait",
                                "ask", "store", "delete", "answered", "done"}]
          /\ key' \in [Process -> Question] /\ verdict' \in [Process -> {"none", "yes", "no"}]
          /\ outcome' \in [Request -> {"none", "kept", "omitted", "substituted"}]
      BY <2>5, <2>6, DecideTypes, AskAboutTypes, ConstantTypes
    <2>8. QED
      BY <1>2, <2>4, <2>7 DEF TypeOK, RequestType, github, shared
  <1>5. QED
    BY <1>3, <1>4, MatchCases

LEMMA AnsweredTypes ==
  ASSUME TypeOK, NEW r \in Request, RequestIsTrue(r), Answered(r)
  PROVE  TypeOK'
  <1> DEFINE t == req[r].target
             rest == Tail(req[r].teams)
  <1>1. req \in [Request -> RequestType]
    BY DEF TypeOK, RequestType
  <1>2. UNCHANGED <<github, shared, asked, started>> /\ pc[r] = "answered"
    BY DEF Answered, At
  <1>3. /\ key[r] \in Question /\ t \in Target /\ Informed(r, t, key[r])
    BY <1>2, StateTypes, ConstantTypes DEF RequestIsTrue, Asking
  <1>4. Matching(t) # {} /\ Exception(t).teams \in Seq(Team)
        /\ (key[r] # "user" => req[r].teams # <<>>)
    BY <1>3, ExceptionType DEF Informed
  <1>5. Exception(t).teams # <<>> => Head(Exception(t).teams) \in Question
    BY <1>4, HeadAndTail, ConstantTypes
  <1>6. CASE key[r] = "user"
    <2>1. [req[r] EXCEPT !.login = (verdict[r] = "yes")] \in RequestType
      BY <1>1, RequestFields
    <2>2. req' = [req EXCEPT ![r].login = (verdict[r] = "yes")]
      BY <1>6, AnsweredCases
    <2>3. req' \in [Request -> RequestType]
      BY <1>1, <2>1, <2>2
    <2>4. \/ \E o \in {"kept", "omitted", "substituted"} : Decide(r, o)
          \/ Exception(t).teams # <<>> /\ AskAbout(r, Head(Exception(t).teams))
      BY <1>6, AnsweredCases
    <2>5. /\ pc' \in [Process -> {"idle", "match", "lookup", "join", "wait",
                                "ask", "store", "delete", "answered", "done"}]
          /\ key' \in [Process -> Question] /\ verdict' \in [Process -> {"none", "yes", "no"}]
          /\ outcome' \in [Request -> {"none", "kept", "omitted", "substituted"}]
      BY <1>5, <2>4, DecideTypes, AskAboutTypes
    <2>6. QED
      BY <1>2, <2>3, <2>5 DEF TypeOK, RequestType, github, shared
  <1>7. CASE key[r] # "user"
    <2>1. rest \in Seq(Team) /\ (rest # <<>> => Head(rest) \in Question)
      BY <1>4, <1>7, StateTypes, HeadAndTail, ConstantTypes
    <2>2. [req[r] EXCEPT !.teams = rest] \in RequestType
      BY <1>1, <2>1, RequestFields
    <2>3. req' = [req EXCEPT ![r].teams = rest]
      BY <1>7, AnsweredCases
    <2>4. req' \in [Request -> RequestType]
      BY <1>1, <2>2, <2>3
    <2>5. \/ \E o \in {"kept", "omitted", "substituted"} : Decide(r, o)
          \/ rest # <<>> /\ AskAbout(r, Head(rest))
      BY <1>7, AnsweredCases
    <2>6. /\ pc' \in [Process -> {"idle", "match", "lookup", "join", "wait",
                                "ask", "store", "delete", "answered", "done"}]
          /\ key' \in [Process -> Question] /\ verdict' \in [Process -> {"none", "yes", "no"}]
          /\ outcome' \in [Request -> {"none", "kept", "omitted", "substituted"}]
      BY <2>1, <2>5, DecideTypes, AskAboutTypes
    <2>7. QED
      BY <1>2, <2>4, <2>6 DEF TypeOK, RequestType, github, shared
  <1>8. QED
    BY <1>6, <1>7

\* A request that arrives either looks its user up in the background or it does not.
LEMMA StartCases ==
  ASSUME NEW r, Start(r)
  PROVE  /\ pc[r] = "idle" /\ started' = [started EXCEPT ![r] = clock]
         /\ UNCHANGED <<github, cache, verdict, asked, outcome>>
         /\ \E t \in Target, login \in BOOLEAN :
              /\ req' = [req EXCEPT ![r] = [target |-> t, gone |-> FALSE, teams |-> <<>>, login |-> login]]
              /\ login => Fresh("user")
         /\ \/ pc' = [pc EXCEPT ![r] = "match"] /\ UNCHANGED <<key, flight>>
            \/ \E b \in Background :
                 /\ flight["user"] = Absent /\ pc[b] = "idle"
                 /\ pc' = [pc EXCEPT ![r] = "match", ![b] = "ask"]
                 /\ key' = [key EXCEPT ![b] = "user"]
                 /\ flight' = [flight EXCEPT !["user"] = [open |-> TRUE, yes |-> FALSE]]
  <1>1. /\ pc[r] = "idle" /\ started' = [started EXCEPT ![r] = clock]
        /\ UNCHANGED <<github, cache, verdict, asked, outcome>>
    BY DEF Start, At
  <1>2. PICK t \in Target :
          LET login == ~t.anonymous /\ Fresh("user") IN
          /\ req' = [req EXCEPT ![r] = [target |-> t, gone |-> FALSE, teams |-> <<>>, login |-> login]]
          /\ \/ pc' = [pc EXCEPT ![r] = "match"] /\ UNCHANGED <<key, flight>>
             \/ \E b \in Background :
                  /\ flight["user"] = Absent /\ pc[b] = "idle"
                  /\ pc' = [pc EXCEPT ![r] = "match", ![b] = "ask"]
                  /\ key' = [key EXCEPT ![b] = "user"]
                  /\ flight' = [flight EXCEPT !["user"] = [open |-> TRUE, yes |-> FALSE]]
    BY DEF Start, GoTo
  <1> DEFINE login == ~t.anonymous /\ Fresh("user")
  <1>3. login \in BOOLEAN /\ (login => Fresh("user"))
    BY Zenon
  <1>4. \E u \in Target, l \in BOOLEAN :
          /\ req' = [req EXCEPT ![r] = [target |-> u, gone |-> FALSE, teams |-> <<>>, login |-> l]]
          /\ l => Fresh("user")
    <2>1. req' = [req EXCEPT ![r] = [target |-> t, gone |-> FALSE, teams |-> <<>>, login |-> login]]
      BY <1>2
    <2> HIDE DEF login
    <2>2. QED
      BY <1>3, <2>1
  <1>5. QED
    BY <1>1, <1>2, <1>4

LEMMA StartTypes ==
  ASSUME TypeOK, NEW r \in Request, Start(r)
  PROVE  TypeOK'
  <1>1. req' \in [Request -> RequestType]
    <2>1. req \in [Request -> RequestType]
      BY DEF TypeOK, RequestType
    <2>2. PICK t \in Target, login \in BOOLEAN :
            req' = [req EXCEPT ![r] = [target |-> t, gone |-> FALSE, teams |-> <<>>, login |-> login]]
      BY StartCases
    <2>3. [target |-> t, gone |-> FALSE, teams |-> <<>>, login |-> login] \in RequestType
      BY <2>1, RequestFields
    <2>4. QED
      BY <2>1, <2>2, <2>3
  <1>2. started' \in [Request -> Nat]
    BY StartCases, StateTypes DEF TypeOK
  <1>3. \/ pc' = [pc EXCEPT ![r] = "match"] /\ UNCHANGED <<key, flight>>
        \/ \E b \in Background :
             /\ pc' = [pc EXCEPT ![r] = "match", ![b] = "ask"]
             /\ key' = [key EXCEPT ![b] = "user"]
             /\ flight' = [flight EXCEPT !["user"] = [open |-> TRUE, yes |-> FALSE]]
    BY StartCases
  <1>4. key' \in [Process -> Question] /\ pc' \in [Process -> {"idle", "match", "lookup", "join", "wait",
                            "ask", "store", "delete", "answered", "done"}]
    <2>1. CASE pc' = [pc EXCEPT ![r] = "match"] /\ UNCHANGED <<key, flight>>
      BY <2>1 DEF TypeOK
    <2>2. ASSUME NEW b \in Background, pc' = [pc EXCEPT ![r] = "match", ![b] = "ask"],
                 key' = [key EXCEPT ![b] = "user"]
          PROVE  key' \in [Process -> Question] /\ pc' \in [Process -> {"idle", "match", "lookup", "join", "wait",
                            "ask", "store", "delete", "answered", "done"}]
      BY <2>2, ConstantTypes DEF TypeOK
    <2>3. QED
      BY <1>3, <2>1, <2>2
  <1>5. flight' \in [Question -> [open : BOOLEAN, yes : BOOLEAN] \cup {Absent}]
    <2>1. [open |-> TRUE, yes |-> FALSE] \in [open : BOOLEAN, yes : BOOLEAN]
      OBVIOUS
    <2>2. flight' = flight \/ flight' = [flight EXCEPT !["user"] = [open |-> TRUE, yes |-> FALSE]]
      BY <1>3
    <2>3. QED
      BY <2>1, <2>2, ConstantTypes DEF TypeOK
  <1>6. UNCHANGED <<github, cache, verdict, asked, outcome>>
    BY StartCases
  <1>7. QED
    BY <1>1, <1>2, <1>4, <1>5, <1>6 DEF TypeOK, RequestType, github

LEMMA TypeKept ==
  ASSUME TypeOK, RequestsAreTrue, [Next]_vars
  PROVE  TypeOK'
  <1>1. CASE UNCHANGED vars
    BY <1>1 DEF vars, TypeOK
  <1>2. ASSUME NEW r \in Request, Start(r) \/ Cancel(r) \/ Match(r) \/ Answered(r)
        PROVE  TypeOK'
    <2>1. RequestIsTrue(r)
      BY DEF RequestsAreTrue
    <2>2. QED
      BY <1>2, <2>1, StartTypes, CancelTypes, MatchTypes, AnsweredTypes
  <1>3. ASSUME NEW p \in Process,
               Lookup(p) \/ Join(p) \/ Ask(p) \/ Store(p) \/ Delete(p) \/ Wake(p)
        PROVE  TypeOK'
    BY <1>3, LookupTypes, JoinTypes, AskTypes, StoreTypes, DeleteTypes, WakeTypes
  <1>4. QED
    BY <1>1, <1>2, <1>3, TickTypes, ChangeTypes, StepCases

-----------------------------------------------------------------------------
(* Who leads a flight.                                                     *)

\* Whoever neither leads a flight nor starts to wait for one does not matter to it.
LEMMA FlightsStay ==
  ASSUME FlightsAreLed, UNCHANGED flight,
         \A q \in Process :
           \/ pc'[q] = pc[q] /\ key'[q] = key[q] /\ verdict'[q] = verdict[q]
           \/ pc[q] \notin Leading /\ pc'[q] \notin Leading /\ (pc'[q] = "wait" => verdict'[q] # "none")
  PROVE  FlightsAreLed'
  <1>1. ASSUME NEW k \in Question, flight'[k] # Absent
        PROVE  \E p \in Process : pc'[p] \in Leading /\ key'[p] = k
    BY <1>1 DEF FlightsAreLed
  <1>2. ASSUME NEW p \in Process, NEW q \in Process,
               pc'[p] \in Leading, pc'[q] \in Leading, key'[p] = key'[q]
        PROVE  p = q
    BY <1>2 DEF FlightsAreLed
  <1>3. ASSUME NEW p \in Process, NEW k \in Question, pc'[p] \in Leading, key'[p] = k
        PROVE  /\ flight'[k] # Absent
               /\ flight'[k].open <=> pc'[p] # "delete"
               /\ pc'[p] = "delete" => (flight'[k].yes <=> verdict'[p] = "yes")
    BY <1>3 DEF FlightsAreLed
  <1>4. ASSUME NEW p \in Process, NEW k \in Question, pc'[p] = "wait", verdict'[p] = "none", key'[p] = k
        PROVE  flight'[k] # Absent /\ flight'[k].open
    BY <1>4 DEF FlightsAreLed
  <1>5. QED
    BY <1>1, <1>2, <1>3, <1>4 DEF FlightsAreLed

\* A flight that is opened has a leader that led none before.
LEMMA FlightOpens ==
  ASSUME FlightsAreLed, TypeOK, NEW l \in Process, NEW k \in Question, flight[k] = Absent,
         pc[l] \notin Leading, pc'[l] = "ask", key'[l] = k,
         flight' = [flight EXCEPT ![k] = [open |-> TRUE, yes |-> FALSE]],
         \A q \in Process \ {l} :
           \/ pc'[q] = pc[q] /\ key'[q] = key[q] /\ verdict'[q] = verdict[q]
           \/ pc[q] \notin Leading /\ pc'[q] \notin Leading /\ (pc'[q] = "wait" => verdict'[q] # "none")
  PROVE  FlightsAreLed'
  <1>1. /\ flight'[k] # Absent /\ flight'[k].open
        /\ \A j \in Question \ {k} : flight'[j] = flight[j]
    BY AbsentIsOther DEF TypeOK
  <1>2. \A q \in Process : pc[q] \in Leading => key[q] # k
    BY DEF FlightsAreLed
  <1>3. \A q \in Process : pc[q] = "wait" /\ verdict[q] = "none" => key[q] # k
    BY DEF FlightsAreLed
  <1>4. ASSUME NEW j \in Question, flight'[j] # Absent
        PROVE  \E p \in Process : pc'[p] \in Leading /\ key'[p] = j
    <2>1. CASE j = k
      BY <2>1 DEF Leading
    <2>2. CASE j # k
      <3>1. PICK p \in Process : pc[p] \in Leading /\ key[p] = j
        BY <1>1, <1>4, <2>2 DEF FlightsAreLed
      <3>2. QED
        BY <3>1
    <2>3. QED
      BY <2>1, <2>2
  <1>5. ASSUME NEW p \in Process, NEW q \in Process,
               pc'[p] \in Leading, pc'[q] \in Leading, key'[p] = key'[q]
        PROVE  p = q
    BY <1>2, <1>5 DEF FlightsAreLed
  <1>6. ASSUME NEW p \in Process, NEW j \in Question, pc'[p] \in Leading, key'[p] = j
        PROVE  /\ flight'[j] # Absent
               /\ flight'[j].open <=> pc'[p] # "delete"
               /\ pc'[p] = "delete" => (flight'[j].yes <=> verdict'[p] = "yes")
    <2>1. CASE p = l
      BY <1>1, <1>6, <2>1
    <2>2. CASE p # l
      <3>1. pc'[p] = pc[p] /\ key'[p] = key[p] /\ verdict'[p] = verdict[p]
        BY <1>6, <2>2
      <3>2. j # k /\ flight'[j] = flight[j]
        BY <1>1, <1>2, <1>6, <3>1
      <3>3. QED
        BY <1>6, <3>1, <3>2 DEF FlightsAreLed
    <2>3. QED
      BY <2>1, <2>2
  <1>7. ASSUME NEW p \in Process, NEW j \in Question, pc'[p] = "wait", verdict'[p] = "none", key'[p] = j
        PROVE  flight'[j] # Absent /\ flight'[j].open
    <2>1. p # l /\ pc'[p] = pc[p] /\ key'[p] = key[p] /\ verdict'[p] = verdict[p]
      BY <1>7
    <2>2. j # k /\ flight'[j] = flight[j]
      BY <1>1, <1>3, <1>7, <2>1
    <2>3. QED
      BY <1>7, <2>1, <2>2 DEF FlightsAreLed
  <1>8. QED
    BY <1>4, <1>5, <1>6, <1>7 DEF FlightsAreLed

LEMMA LookupFlights ==
  ASSUME TypeOK, FlightsAreLed, NEW p \in Process, Lookup(p)
  PROVE  FlightsAreLed'
  <1>1. UNCHANGED flight /\ UNCHANGED key /\ pc[p] = "lookup" /\ pc'[p] \in {"answered", "join"}
    BY DEF TypeOK, Lookup, At, GoTo, shared
  <1>2. \A q \in Process \ {p} : pc'[q] = pc[q] /\ verdict'[q] = verdict[q]
    BY DEF TypeOK, Lookup, GoTo
  <1>3. QED
    BY <1>1, <1>2, FlightsStay DEF Leading

LEMMA JoinFlights ==
  ASSUME TypeOK, FlightsAreLed, NEW p \in Process, Join(p)
  PROVE  FlightsAreLed'
  <1> DEFINE k == key[p]
  <1>1. k \in Question /\ UNCHANGED key /\ pc[p] = "join"
    BY StateTypes DEF Join, At
  <1>2. \A q \in Process \ {p} : pc'[q] = pc[q] /\ verdict'[q] = verdict[q]
    BY DEF TypeOK, Join, GoTo
  <1>3. CASE flight[k] = Absent
    <2>1. pc'[p] = "ask" /\ flight' = [flight EXCEPT ![k] = [open |-> TRUE, yes |-> FALSE]]
      BY <1>3 DEF TypeOK, Join, GoTo
    <2>2. QED
      BY <1>1, <1>2, <1>3, <2>1, FlightOpens DEF Leading
  <1>4. CASE flight[k] # Absent /\ ~flight[k].open
    <2>1. UNCHANGED flight /\ pc'[p] = "wait" /\ verdict'[p] # "none"
      BY <1>4 DEF TypeOK, Join, GoTo
    <2>2. QED
      BY <1>1, <1>2, <2>1, FlightsStay DEF Leading
  <1>5. CASE flight[k] # Absent /\ flight[k].open
    <2>1. UNCHANGED flight /\ pc'[p] = "wait"
      BY <1>5 DEF TypeOK, Join, GoTo
    <2>2. ASSUME NEW j \in Question, flight'[j] # Absent
          PROVE  \E q \in Process : pc'[q] \in Leading /\ key'[q] = j
      <3>1. PICK q \in Process : pc[q] \in Leading /\ key[q] = j
        BY <2>1, <2>2 DEF FlightsAreLed
      <3>2. QED
        BY <1>1, <1>2, <3>1 DEF Leading
    <2>3. ASSUME NEW q \in Process, NEW s \in Process,
                 pc'[q] \in Leading, pc'[s] \in Leading, key'[q] = key'[s]
          PROVE  q = s
      <3>1. q # p /\ s # p
        BY <2>1, <2>3 DEF Leading
      <3>2. QED
        BY <1>1, <1>2, <2>3, <3>1 DEF FlightsAreLed
    <2>4. ASSUME NEW q \in Process, NEW j \in Question, pc'[q] \in Leading, key'[q] = j
          PROVE  /\ flight'[j] # Absent
                 /\ flight'[j].open <=> pc'[q] # "delete"
                 /\ pc'[q] = "delete" => (flight'[j].yes <=> verdict'[q] = "yes")
      <3>1. q # p
        BY <2>1, <2>4 DEF Leading
      <3>2. QED
        BY <1>1, <1>2, <2>1, <2>4, <3>1 DEF FlightsAreLed
    <2>5. ASSUME NEW q \in Process, NEW j \in Question, pc'[q] = "wait", verdict'[q] = "none", key'[q] = j
          PROVE  flight'[j] # Absent /\ flight'[j].open
      <3>1. CASE q = p
        BY <1>1, <1>5, <2>1, <2>5, <3>1
      <3>2. CASE q # p
        BY <1>1, <1>2, <2>1, <2>5, <3>2 DEF FlightsAreLed
      <3>3. QED
        BY <3>1, <3>2
    <2>6. QED
      BY <2>2, <2>3, <2>4, <2>5 DEF FlightsAreLed
  <1>6. QED
    BY <1>3, <1>4, <1>5

LEMMA AskFlights ==
  ASSUME TypeOK, FlightsAreLed, NEW p \in Process, Ask(p)
  PROVE  FlightsAreLed'
  <1>1. UNCHANGED flight /\ UNCHANGED key /\ pc[p] = "ask" /\ pc'[p] = "store"
    BY DEF TypeOK, Ask, At, GoTo, shared
  <1>2. \A q \in Process \ {p} : pc'[q] = pc[q] /\ verdict'[q] = verdict[q]
    BY DEF TypeOK, Ask, GoTo
  <1>3. ASSUME NEW j \in Question, flight'[j] # Absent
        PROVE  \E q \in Process : pc'[q] \in Leading /\ key'[q] = j
    <2>1. PICK q \in Process : pc[q] \in Leading /\ key[q] = j
      BY <1>1, <1>3 DEF FlightsAreLed
    <2>2. QED
      BY <1>1, <1>2, <2>1 DEF Leading
  <1>4. \A q \in Process : pc'[q] \in Leading => pc[q] \in Leading /\ (pc'[q] = "delete" <=> pc[q] = "delete")
    BY <1>1, <1>2 DEF Leading
  <1>5. ASSUME NEW q \in Process, NEW s \in Process,
               pc'[q] \in Leading, pc'[s] \in Leading, key'[q] = key'[s]
        PROVE  q = s
    BY <1>1, <1>4, <1>5 DEF FlightsAreLed
  <1>6. ASSUME NEW q \in Process, NEW j \in Question, pc'[q] \in Leading, key'[q] = j
        PROVE  /\ flight'[j] # Absent
               /\ flight'[j].open <=> pc'[q] # "delete"
               /\ pc'[q] = "delete" => (flight'[j].yes <=> verdict'[q] = "yes")
    <2>1. pc'[q] = "delete" => verdict'[q] = verdict[q]
      BY <1>1, <1>2
    <2>2. QED
      BY <1>1, <1>4, <1>6, <2>1 DEF FlightsAreLed
  <1>7. ASSUME NEW q \in Process, NEW j \in Question, pc'[q] = "wait", verdict'[q] = "none", key'[q] = j
        PROVE  flight'[j] # Absent /\ flight'[j].open
    <2>1. q # p
      BY <1>1, <1>7
    <2>2. QED
      BY <1>1, <1>2, <1>7, <2>1 DEF FlightsAreLed
  <1>8. QED
    BY <1>3, <1>5, <1>6, <1>7 DEF FlightsAreLed

LEMMA StoreFlights ==
  ASSUME TypeOK, FlightsAreLed, AnswersAreTrue, NEW p \in Process, Store(p)
  PROVE  FlightsAreLed'
  <1> DEFINE k == key[p]
  <1>1. k \in Question /\ UNCHANGED key /\ pc[p] = "store" /\ pc'[p] = "delete"
        /\ \A q \in Process \ {p} : pc'[q] = pc[q]
    BY StateTypes DEF TypeOK, Store, At, GoTo
  <1>2. verdict[p] # "none"
    BY <1>1 DEF AnswersAreTrue
  <1>3. \A q \in Process : IF pc[q] = "wait" /\ key[q] = k /\ verdict[q] = "none"
                            THEN verdict'[q] = verdict[p] ELSE verdict'[q] = verdict[q]
    BY DEF Store, Delivered
  <1>4. /\ flight'[k] # Absent /\ ~flight'[k].open /\ (flight'[k].yes <=> verdict[p] = "yes")
        /\ \A j \in Question \ {k} : flight'[j] = flight[j]
    <2>1. flight' = [flight EXCEPT ![k] = [open |-> FALSE, yes |-> verdict[p] = "yes"]]
      BY DEF Store
    <2>2. [open |-> FALSE, yes |-> verdict[p] = "yes"] \in [open : BOOLEAN, yes : BOOLEAN]
      OBVIOUS
    <2>3. flight'[k] = [open |-> FALSE, yes |-> verdict[p] = "yes"]
          /\ \A j \in Question \ {k} : flight'[j] = flight[j]
      BY <1>1, <2>1 DEF TypeOK
    <2>4. QED
      BY <2>2, <2>3, AbsentIsOther
  <1>5. \A q \in Process : pc'[q] \in Leading <=> pc[q] \in Leading
    BY <1>1 DEF Leading
  <1>6. \A q \in Process \ {p} : pc[q] \in Leading => key[q] # k
    BY <1>1 DEF FlightsAreLed, Leading
  <1>7. ASSUME NEW j \in Question, flight'[j] # Absent
        PROVE  \E q \in Process : pc'[q] \in Leading /\ key'[q] = j
    <2>1. CASE j = k
      BY <1>1, <2>1 DEF Leading
    <2>2. CASE j # k
      <3>1. PICK q \in Process : pc[q] \in Leading /\ key[q] = j
        BY <1>4, <1>7, <2>2 DEF FlightsAreLed
      <3>2. QED
        BY <1>1, <1>5, <3>1
    <2>3. QED
      BY <2>1, <2>2
  <1>8. ASSUME NEW q \in Process, NEW s \in Process,
               pc'[q] \in Leading, pc'[s] \in Leading, key'[q] = key'[s]
        PROVE  q = s
    BY <1>1, <1>5, <1>8 DEF FlightsAreLed
  <1>9. ASSUME NEW q \in Process, NEW j \in Question, pc'[q] \in Leading, key'[q] = j
        PROVE  /\ flight'[j] # Absent
               /\ flight'[j].open <=> pc'[q] # "delete"
               /\ pc'[q] = "delete" => (flight'[j].yes <=> verdict'[q] = "yes")
    <2>1. CASE q = p
      <3>1. verdict'[p] = verdict[p]
        BY <1>1, <1>3
      <3>2. QED
        BY <1>1, <1>4, <1>9, <2>1, <3>1
    <2>2. CASE q # p
      <3>1. pc'[q] = pc[q] /\ key'[q] = key[q] /\ pc[q] \in Leading
        BY <1>1, <1>9, <2>2
      <3>2. verdict'[q] = verdict[q]
        BY <1>3, <3>1 DEF Leading
      <3>3. j # k /\ flight'[j] = flight[j]
        BY <1>4, <1>6, <1>9, <2>2, <3>1
      <3>4. QED
        BY <1>9, <3>1, <3>2, <3>3 DEF FlightsAreLed
    <2>3. QED
      BY <2>1, <2>2
  <1>10. ASSUME NEW q \in Process, NEW j \in Question, pc'[q] = "wait", verdict'[q] = "none", key'[q] = j
         PROVE  flight'[j] # Absent /\ flight'[j].open
    <2>1. pc[q] = "wait" /\ key[q] = j
      BY <1>1, <1>10
    <2>2. verdict[q] = "none" /\ j # k
      BY <1>2, <1>3, <1>10, <2>1
    <2>3. QED
      BY <1>4, <2>1, <2>2 DEF FlightsAreLed
  <1>11. QED
    BY <1>7, <1>8, <1>9, <1>10 DEF FlightsAreLed

LEMMA DeleteFlights ==
  ASSUME TypeOK, FlightsAreLed, NEW p \in Process, Delete(p)
  PROVE  FlightsAreLed'
  <1> DEFINE k == key[p]
  <1>1. k \in Question /\ UNCHANGED <<key, verdict>> /\ pc[p] = "delete" /\ pc'[p] \in {"idle", "answered"}
        /\ \A q \in Process \ {p} : pc'[q] = pc[q]
    BY StateTypes DEF TypeOK, Delete, At, GoTo
  <1>2. flight'[k] = Absent /\ \A j \in Question \ {k} : flight'[j] = flight[j]
    BY <1>1 DEF TypeOK, Delete
  <1>3. \A q \in Process \ {p} : pc[q] \in Leading => key[q] # k
    BY <1>1 DEF FlightsAreLed, Leading
  <1>4. \A q \in Process : pc[q] = "wait" /\ verdict[q] = "none" => key[q] # k
    <2>1. ~flight[k].open
      BY <1>1 DEF FlightsAreLed, Leading
    <2>2. QED
      BY <1>1, <2>1 DEF FlightsAreLed
  <1>5. ASSUME NEW j \in Question, flight'[j] # Absent
        PROVE  \E q \in Process : pc'[q] \in Leading /\ key'[q] = j
    <2>1. j # k /\ flight[j] # Absent
      BY <1>2, <1>5
    <2>2. PICK q \in Process : pc[q] \in Leading /\ key[q] = j
      BY <2>1 DEF FlightsAreLed
    <2>3. QED
      BY <1>1, <2>1, <2>2
  <1>6. \A q \in Process : pc'[q] \in Leading => q # p /\ pc[q] \in Leading
    BY <1>1 DEF Leading
  <1>7. ASSUME NEW q \in Process, NEW s \in Process,
               pc'[q] \in Leading, pc'[s] \in Leading, key'[q] = key'[s]
        PROVE  q = s
    BY <1>1, <1>6, <1>7 DEF FlightsAreLed
  <1>8. ASSUME NEW q \in Process, NEW j \in Question, pc'[q] \in Leading, key'[q] = j
        PROVE  /\ flight'[j] # Absent
               /\ flight'[j].open <=> pc'[q] # "delete"
               /\ pc'[q] = "delete" => (flight'[j].yes <=> verdict'[q] = "yes")
    <2>1. j # k /\ flight'[j] = flight[j]
      BY <1>1, <1>2, <1>3, <1>6, <1>8
    <2>2. pc'[q] = pc[q] /\ key'[q] = key[q] /\ verdict'[q] = verdict[q]
      BY <1>1, <1>6, <1>8
    <2>3. QED
      BY <1>8, <2>1, <2>2 DEF FlightsAreLed
  <1>9. ASSUME NEW q \in Process, NEW j \in Question, pc'[q] = "wait", verdict'[q] = "none", key'[q] = j
        PROVE  flight'[j] # Absent /\ flight'[j].open
    <2>1. pc[q] = "wait" /\ key[q] = j /\ verdict[q] = "none"
      BY <1>1, <1>9
    <2>2. j # k /\ flight'[j] = flight[j]
      BY <1>2, <1>4, <2>1
    <2>3. QED
      BY <2>1, <2>2 DEF FlightsAreLed
  <1>10. QED
    BY <1>5, <1>7, <1>8, <1>9 DEF FlightsAreLed

\* A request that decides or asks leaves everybody else alone.
LEMMA MovesAlone ==
  ASSUME TypeOK, NEW r \in Request, Match(r) \/ Answered(r)
  PROVE  /\ UNCHANGED <<github, shared, asked, started>>
         /\ pc[r] \in {"match", "answered"} /\ pc'[r] \in {"lookup", "done"}
         /\ \A q \in Process \ {r} : pc'[q] = pc[q] /\ key'[q] = key[q] /\ verdict'[q] = verdict[q]
         /\ \A q \in Request \ {r} : req'[q] = req[q] /\ outcome'[q] = outcome[q]
  <1>1. UNCHANGED <<github, shared, asked, started>> /\ pc[r] \in {"match", "answered"}
    BY DEF Match, Answered, At
  <1>2. \A q \in Request \ {r} : req'[q] = req[q]
    <2>1. CASE Match(r)
      BY <2>1 DEF Match, TypeOK
    <2>2. CASE Answered(r)
      BY <2>2 DEF Answered, TypeOK
    <2>3. QED
      BY <2>1, <2>2
  <1>3. (\E o : Decide(r, o)) \/ (\E k : AskAbout(r, k))
    <2>1. CASE Match(r)
      BY <2>1, MatchCases
    <2>2. CASE Answered(r)
      BY <2>2, AnsweredCases
    <2>3. QED
      BY <2>1, <2>2
  <1>4. ASSUME NEW o, Decide(r, o)
        PROVE  /\ pc'[r] \in {"lookup", "done"}
               /\ \A q \in Process \ {r} : pc'[q] = pc[q] /\ key'[q] = key[q] /\ verdict'[q] = verdict[q]
               /\ \A q \in Request \ {r} : outcome'[q] = outcome[q]
    BY <1>4, ConstantTypes DEF Decide, GoTo, TypeOK
  <1>5. ASSUME NEW k, AskAbout(r, k)
        PROVE  /\ pc'[r] \in {"lookup", "done"}
               /\ \A q \in Process \ {r} : pc'[q] = pc[q] /\ key'[q] = key[q] /\ verdict'[q] = verdict[q]
               /\ \A q \in Request \ {r} : outcome'[q] = outcome[q]
    BY <1>5, ConstantTypes DEF AskAbout, GoTo, TypeOK
  <1>6. QED
    BY <1>1, <1>2, <1>3, <1>4, <1>5

LEMMA WakeFlights ==
  ASSUME TypeOK, FlightsAreLed, NEW p \in Process, Wake(p)
  PROVE  FlightsAreLed'
  <1>1. UNCHANGED flight /\ UNCHANGED <<key, verdict>> /\ pc[p] = "wait" /\ pc'[p] = "answered"
        /\ \A q \in Process \ {p} : pc'[q] = pc[q]
    BY DEF TypeOK, Wake, At, GoTo, shared
  <1>2. QED
    BY <1>1, FlightsStay DEF Leading

LEMMA CancelFlights ==
  ASSUME TypeOK, FlightsAreLed, NEW r \in Request, Cancel(r)
  PROVE  FlightsAreLed'
  <1>1. CASE pc[r] = "wait"
    <2>1. UNCHANGED flight /\ UNCHANGED key /\ pc'[r] = "answered"
          /\ \A q \in Process \ {r} : pc'[q] = pc[q] /\ verdict'[q] = verdict[q]
      BY <1>1, ConstantTypes DEF TypeOK, Cancel, GoTo, shared
    <2>2. QED
      BY <1>1, <2>1, FlightsStay DEF Leading
  <1>2. CASE pc[r] # "wait"
    <2>1. UNCHANGED flight /\ UNCHANGED <<key, pc, verdict>>
      BY <1>2 DEF Cancel, shared
    <2>2. QED
      BY <2>1, FlightsStay
  <1>3. QED
    BY <1>1, <1>2

LEMMA StartFlights ==
  ASSUME TypeOK, FlightsAreLed, BackgroundIsSimple, NEW r \in Request, Start(r)
  PROVE  FlightsAreLed'
  <1>1. pc[r] = "idle" /\ UNCHANGED verdict
    BY StartCases
  <1>2. CASE pc' = [pc EXCEPT ![r] = "match"] /\ UNCHANGED <<key, flight>>
    <2>1. pc'[r] = "match" /\ \A q \in Process \ {r} : pc'[q] = pc[q]
      BY <1>2, ConstantTypes DEF TypeOK
    <2>2. QED
      BY <1>1, <1>2, <2>1, FlightsStay DEF Leading
  <1>3. ASSUME NEW b \in Background, flight["user"] = Absent, pc[b] = "idle",
               pc' = [pc EXCEPT ![r] = "match", ![b] = "ask"],
               key' = [key EXCEPT ![b] = "user"],
               flight' = [flight EXCEPT !["user"] = [open |-> TRUE, yes |-> FALSE]]
        PROVE  FlightsAreLed'
    <2>1. r # b
      BY ProcessAssumption
    <2>2. /\ pc'[r] = "match" /\ pc'[b] = "ask" /\ key'[b] = "user"
          /\ \A q \in Process \ {r, b} : pc'[q] = pc[q]
          /\ \A q \in Process \ {b} : key'[q] = key[q]
      BY <1>3, <2>1, ConstantTypes DEF TypeOK
    <2>3. \A q \in Process \ {b} :
            \/ pc'[q] = pc[q] /\ key'[q] = key[q] /\ verdict'[q] = verdict[q]
            \/ pc[q] \notin Leading /\ pc'[q] \notin Leading /\ (pc'[q] = "wait" => verdict'[q] # "none")
      BY <1>1, <2>2 DEF Leading
    <2>4. b \in Process /\ "user" \in Question /\ pc[b] \notin Leading
      BY <1>3, ConstantTypes DEF Leading
    <2>5. QED
      BY <1>3, <2>2, <2>3, <2>4, FlightOpens
  <1>4. QED
    BY <1>2, <1>3, StartCases

LEMMA FlightsKept ==
  ASSUME TypeOK, FlightsAreLed, AnswersAreTrue, BackgroundIsSimple, [Next]_vars
  PROVE  FlightsAreLed'
  <1>1. CASE UNCHANGED vars
    BY <1>1, FlightsStay DEF vars
  <1>2. CASE Tick
    BY <1>2, FlightsStay DEF Tick, shared
  <1>3. ASSUME NEW k \in Question, Change(k)
        PROVE  FlightsAreLed'
    BY <1>3, FlightsStay DEF Change, shared
  <1>4. ASSUME NEW r \in Request, Match(r) \/ Answered(r)
        PROVE  FlightsAreLed'
    <2>1. UNCHANGED flight
      BY <1>4, MovesAlone DEF shared
    <2>2. QED
      BY <1>4, <2>1, MovesAlone, FlightsStay DEF Leading
  <1>5. ASSUME NEW r \in Request, Start(r) \/ Cancel(r)
        PROVE  FlightsAreLed'
    BY <1>5, StartFlights, CancelFlights
  <1>6. ASSUME NEW p \in Process,
               Lookup(p) \/ Join(p) \/ Ask(p) \/ Store(p) \/ Delete(p) \/ Wake(p)
        PROVE  FlightsAreLed'
    BY <1>6, LookupFlights, JoinFlights, AskFlights, StoreFlights, DeleteFlights, WakeFlights
  <1>7. QED
    BY <1>1, <1>2, <1>3, <1>4, <1>5, <1>6, StepCases

LEMMA BackgroundKept ==
  ASSUME TypeOK, BackgroundIsSimple, [Next]_vars
  PROVE  BackgroundIsSimple'
  <1>1. CASE UNCHANGED vars \/ Tick \/ \E k \in Question : Change(k)
    BY <1>1 DEF vars, Tick, Change, BackgroundIsSimple
  <1>2. ASSUME NEW r \in Request, Match(r) \/ Answered(r)
        PROVE  BackgroundIsSimple'
    <2>1. \A b \in Background : b # r
      BY ProcessAssumption
    <2>2. QED
      BY <1>2, <2>1, MovesAlone, ConstantTypes DEF BackgroundIsSimple
  <1>3. ASSUME NEW r \in Request, Cancel(r)
        PROVE  BackgroundIsSimple'
    <2>1. UNCHANGED key /\ \A q \in Process \ {r} : pc'[q] = pc[q]
      BY <1>3 DEF Cancel, GoTo, TypeOK
    <2>2. QED
      BY <2>1, ProcessAssumption, ConstantTypes DEF BackgroundIsSimple
  <1>4. ASSUME NEW r \in Request, Start(r)
        PROVE  BackgroundIsSimple'
    <2>1. ASSUME NEW b \in Background
          PROVE  key'[b] = "user" /\ pc'[b] \in {"idle"} \cup Leading
      <3>1. b # r /\ key[b] = "user" /\ pc[b] \in {"idle"} \cup Leading
        BY ProcessAssumption DEF BackgroundIsSimple
      <3>2. key'[b] \in {key[b], "user"} /\ pc'[b] \in {pc[b], "ask"}
        <4>1. CASE pc' = [pc EXCEPT ![r] = "match"] /\ UNCHANGED <<key, flight>>
          BY <3>1, <4>1, ConstantTypes DEF TypeOK
        <4>2. ASSUME NEW c \in Background, pc' = [pc EXCEPT ![r] = "match", ![c] = "ask"],
                     key' = [key EXCEPT ![c] = "user"]
              PROVE  key'[b] \in {key[b], "user"} /\ pc'[b] \in {pc[b], "ask"}
          BY <3>1, <4>2, ConstantTypes DEF TypeOK
        <4>3. QED
          BY <1>4, <4>1, <4>2, StartCases
      <3>3. QED
        BY <3>1, <3>2 DEF Leading
    <2>2. QED
      BY <2>1 DEF BackgroundIsSimple
  <1>5. ASSUME NEW p \in Process, Lookup(p) \/ Join(p) \/ Wake(p)
        PROVE  BackgroundIsSimple'
    <2>1. UNCHANGED key /\ pc[p] \notin {"idle"} \cup Leading /\ \A q \in Process \ {p} : pc'[q] = pc[q]
      BY <1>5 DEF Lookup, Join, Wake, At, GoTo, TypeOK, Leading
    <2>2. QED
      BY <2>1, ConstantTypes DEF BackgroundIsSimple
  <1>6. ASSUME NEW p \in Process, Ask(p) \/ Store(p)
        PROVE  BackgroundIsSimple'
    <2>1. UNCHANGED key /\ pc'[p] \in Leading /\ \A q \in Process \ {p} : pc'[q] = pc[q]
      BY <1>6 DEF Ask, Store, At, GoTo, TypeOK, Leading
    <2>2. QED
      BY <2>1, ConstantTypes DEF BackgroundIsSimple
  <1>7. ASSUME NEW p \in Process, Delete(p)
        PROVE  BackgroundIsSimple'
    <2>1. UNCHANGED key /\ (p \in Background => pc'[p] = "idle")
          /\ \A q \in Process \ {p} : pc'[q] = pc[q]
      BY <1>7 DEF Delete, GoTo, TypeOK
    <2>2. QED
      BY <2>1, ConstantTypes DEF BackgroundIsSimple
  <1>8. QED
    BY <1>1, <1>2, <1>3, <1>4, <1>5, <1>6, <1>7, StepCases

-----------------------------------------------------------------------------
(* What GitHub has answered.                                               *)

\* Time goes on, and so does what is known about it.
HistoryGoesOn ==
  /\ clock <= clock'
  /\ \A k \in Question : lastYes[k] <= lastYes'[k] /\ lastNo[k] <= lastNo'[k]

LEMMA HistoryKept ==
  ASSUME TypeOK, AnswersAreTrue, [Next]_vars
  PROVE  HistoryGoesOn
  <1>1. CASE Tick
    <2>1. clock' = clock + 1
          /\ \A k \in Question : /\ lastYes'[k] = IF truth[k] THEN clock + 1 ELSE lastYes[k]
                                 /\ lastNo'[k] = IF truth[k] THEN lastNo[k] ELSE clock + 1
      BY <1>1 DEF Tick
    <2>2. QED
      BY <2>1, StateTypes DEF HistoryGoesOn, AnswersAreTrue
  <1>2. ASSUME NEW k \in Question, Change(k)
        PROVE  HistoryGoesOn
    <2>1. UNCHANGED clock
          /\ \A j \in Question : lastYes'[j] \in {clock, lastYes[j]} /\ lastNo'[j] \in {clock, lastNo[j]}
      BY <1>2 DEF Change, TypeOK
    <2>2. QED
      BY <2>1, StateTypes DEF HistoryGoesOn, AnswersAreTrue
  <1>3. ASSUME NEW p \in Process, Ask(p)
        PROVE  HistoryGoesOn
    <2>1. UNCHANGED <<clock, lastYes>> /\ \A j \in Question : lastNo'[j] \in {clock, lastNo[j]}
      BY <1>3 DEF Ask, TypeOK
    <2>2. QED
      BY <2>1, StateTypes DEF HistoryGoesOn, AnswersAreTrue
  <1>4. ASSUME UNCHANGED <<clock, lastYes, lastNo>>
        PROVE  HistoryGoesOn
    BY <1>4, StateTypes DEF HistoryGoesOn
  <1>5. CASE UNCHANGED vars
    BY <1>4, <1>5 DEF vars
  <1>6. ASSUME NEW p \in Process, Lookup(p) \/ Join(p) \/ Store(p) \/ Delete(p) \/ Wake(p)
        PROVE  HistoryGoesOn
    <2>1. UNCHANGED <<clock, lastYes, lastNo>>
      BY <1>6 DEF Lookup, Join, Store, Delete, Wake, github
    <2>2. QED
      BY <1>4, <2>1
  <1>7. ASSUME NEW r \in Request, Start(r) \/ Cancel(r) \/ Match(r) \/ Answered(r)
        PROVE  HistoryGoesOn
    <2>1. UNCHANGED <<clock, lastYes, lastNo>>
      BY <1>7 DEF Start, Cancel, Match, Answered, github
    <2>2. QED
      BY <1>4, <2>1
  <1>8. QED
    BY <1>1, <1>2, <1>3, <1>5, <1>6, <1>7, StepCases

\* Nobody who has not just heard from GitHub has anything new to store.
LEMMA AnswersStay ==
  ASSUME AnswersAreTrue, UNCHANGED <<clock, truth, lastYes, lastNo, cache>>,
         \A q \in Process :
           \/ pc'[q] = pc[q] /\ key'[q] = key[q] /\ verdict'[q] = verdict[q] /\ asked'[q] = asked[q]
           \/ pc'[q] \notin {"store", "delete"}
  PROVE  AnswersAreTrue'
  <1>1. ASSUME NEW k \in Question
        PROVE  /\ lastYes'[k] <= clock' /\ lastNo'[k] <= clock'
               /\ IF truth'[k] THEN lastYes'[k] = clock' ELSE lastNo'[k] = clock'
               /\ cache'[k] # Absent =>
                    /\ cache'[k].at <= clock'
                    /\ k = "user" => cache'[k].yes
                    /\ IF cache'[k].yes THEN lastYes'[k] >= cache'[k].at - MaxFlight
                                        ELSE lastNo'[k] >= cache'[k].at - MaxFlight
    BY DEF AnswersAreTrue
  <1>2. ASSUME NEW p \in Process, NEW k \in Question, pc'[p] \in {"store", "delete"}, key'[p] = k
        PROVE  /\ asked'[p] <= clock' /\ clock' <= asked'[p] + MaxFlight
               /\ \/ verdict'[p] = "yes" /\ lastYes'[k] >= asked'[p]
                  \/ verdict'[p] = "no" /\ lastNo'[k] >= asked'[p]
    BY <1>2 DEF AnswersAreTrue
  <1>3. QED
    BY <1>1, <1>2 DEF AnswersAreTrue

LEMMA TickAnswers ==
  ASSUME TypeOK, AnswersAreTrue, Tick
  PROVE  AnswersAreTrue'
  <1>1. /\ clock' = clock + 1 /\ UNCHANGED <<truth, cache, pc, key, verdict, asked>>
        /\ \A k \in Question : /\ lastYes'[k] = IF truth[k] THEN clock + 1 ELSE lastYes[k]
                               /\ lastNo'[k] = IF truth[k] THEN lastNo[k] ELSE clock + 1
        /\ \A p \in Process : pc[p] \in {"store", "delete"} => clock < asked[p] + MaxFlight
    BY DEF Tick, shared
  <1>2. HistoryGoesOn
    BY HistoryKept DEF Next
  <1>3. ASSUME NEW k \in Question
        PROVE  /\ lastYes'[k] <= clock' /\ lastNo'[k] <= clock'
               /\ IF truth'[k] THEN lastYes'[k] = clock' ELSE lastNo'[k] = clock'
               /\ cache'[k] # Absent =>
                    /\ cache'[k].at <= clock'
                    /\ k = "user" => cache'[k].yes
                    /\ IF cache'[k].yes THEN lastYes'[k] >= cache'[k].at - MaxFlight
                                        ELSE lastNo'[k] >= cache'[k].at - MaxFlight
    <2>1. /\ clock \in Nat /\ lastYes[k] \in Int /\ lastNo[k] \in Int /\ MaxFlight \in Nat
          /\ lastYes'[k] \in Int /\ lastNo'[k] \in Int
          /\ lastYes[k] <= lastYes'[k] /\ lastNo[k] <= lastNo'[k]
      BY <1>1, <1>2, StateTypes, ConstantTypes DEF HistoryGoesOn
    <2>2. cache[k] # Absent => cache[k].at \in Nat
      BY StateTypes
    <2>3. QED
      BY <1>1, <2>1, <2>2 DEF AnswersAreTrue
  <1>4. ASSUME NEW p \in Process, NEW k \in Question, pc'[p] \in {"store", "delete"}, key'[p] = k
        PROVE  /\ asked'[p] <= clock' /\ clock' <= asked'[p] + MaxFlight
               /\ \/ verdict'[p] = "yes" /\ lastYes'[k] >= asked'[p]
                  \/ verdict'[p] = "no" /\ lastNo'[k] >= asked'[p]
    <2>1. /\ clock \in Nat /\ lastYes[k] \in Int /\ lastNo[k] \in Int /\ MaxFlight \in Nat /\ asked[p] \in Nat
          /\ lastYes'[k] \in Int /\ lastNo'[k] \in Int
          /\ lastYes[k] <= lastYes'[k] /\ lastNo[k] <= lastNo'[k]
      BY <1>1, <1>2, StateTypes, ConstantTypes DEF HistoryGoesOn
    <2>2. /\ asked[p] <= clock /\ clock < asked[p] + MaxFlight
          /\ \/ verdict[p] = "yes" /\ lastYes[k] >= asked[p]
             \/ verdict[p] = "no" /\ lastNo[k] >= asked[p]
      BY <1>1, <1>4 DEF AnswersAreTrue
    <2>3. QED
      BY <1>1, <2>1, <2>2
  <1>5. QED
    BY <1>3, <1>4 DEF AnswersAreTrue

LEMMA ChangeAnswers ==
  ASSUME TypeOK, AnswersAreTrue, NEW k \in Question, Change(k)
  PROVE  AnswersAreTrue'
  <1>1. /\ UNCHANGED <<clock, cache, pc, key, verdict, asked>>
        /\ truth' = [truth EXCEPT ![k] = ~@]
        /\ lastYes' = [lastYes EXCEPT ![k] = clock] /\ lastNo' = [lastNo EXCEPT ![k] = clock]
    BY DEF Change, shared
  <1>2. HistoryGoesOn
    BY HistoryKept DEF Next
  <1>3. ASSUME NEW j \in Question
        PROVE  /\ lastYes'[j] <= clock' /\ lastNo'[j] <= clock'
               /\ IF truth'[j] THEN lastYes'[j] = clock' ELSE lastNo'[j] = clock'
               /\ cache'[j] # Absent =>
                    /\ cache'[j].at <= clock'
                    /\ j = "user" => cache'[j].yes
                    /\ IF cache'[j].yes THEN lastYes'[j] >= cache'[j].at - MaxFlight
                                        ELSE lastNo'[j] >= cache'[j].at - MaxFlight
    <2>1. CASE j = k
      <3>1. lastYes'[j] = clock /\ lastNo'[j] = clock /\ clock \in Nat /\ MaxFlight \in Nat
        BY <1>1, <2>1, StateTypes, ConstantTypes DEF TypeOK
      <3>2. cache[j] # Absent => cache[j].at \in Nat
        BY StateTypes
      <3>3. QED
        BY <1>1, <3>1, <3>2 DEF AnswersAreTrue
    <2>2. CASE j # k
      <3>1. lastYes'[j] = lastYes[j] /\ lastNo'[j] = lastNo[j] /\ truth'[j] = truth[j]
        BY <1>1, <2>2 DEF TypeOK
      <3>2. QED
        BY <1>1, <3>1 DEF AnswersAreTrue
    <2>3. QED
      BY <2>1, <2>2
  <1>4. ASSUME NEW p \in Process, NEW j \in Question, pc'[p] \in {"store", "delete"}, key'[p] = j
        PROVE  /\ asked'[p] <= clock' /\ clock' <= asked'[p] + MaxFlight
               /\ \/ verdict'[p] = "yes" /\ lastYes'[j] >= asked'[p]
                  \/ verdict'[p] = "no" /\ lastNo'[j] >= asked'[p]
    <2>1. /\ lastYes[j] \in Int /\ lastNo[j] \in Int /\ asked[p] \in Nat /\ clock \in Nat
          /\ lastYes'[j] \in {clock, lastYes[j]} /\ lastNo'[j] \in {clock, lastNo[j]}
      BY <1>1, StateTypes DEF TypeOK
    <2>2. lastYes[j] <= lastYes'[j] /\ lastNo[j] <= lastNo'[j]
      BY <1>2 DEF HistoryGoesOn
    <2>3. /\ asked[p] <= clock /\ clock <= asked[p] + MaxFlight
          /\ \/ verdict[p] = "yes" /\ lastYes[j] >= asked[p]
             \/ verdict[p] = "no" /\ lastNo[j] >= asked[p]
      BY <1>1, <1>4 DEF AnswersAreTrue
    <2>4. QED
      BY <1>1, <2>1, <2>2, <2>3
  <1>5. QED
    BY <1>3, <1>4 DEF AnswersAreTrue

LEMMA AskAnswers ==
  ASSUME TypeOK, AnswersAreTrue, NEW p \in Process, Ask(p)
  PROVE  AnswersAreTrue'
  <1> DEFINE k == key[p]
  <1>1. /\ UNCHANGED <<clock, truth, lastYes, cache, key>> /\ k \in Question
        /\ \A q \in Process \ {p} : pc'[q] = pc[q] /\ verdict'[q] = verdict[q] /\ asked'[q] = asked[q]
        /\ asked'[p] = clock
    BY StateTypes DEF Ask, GoTo, TypeOK, shared
  <1>2. \A j \in Question : lastNo'[j] = lastNo[j] \/ (j = k /\ lastNo'[j] = clock)
    BY <1>1 DEF Ask, TypeOK
  <1>3. \/ verdict'[p] = "yes" /\ truth[k]
        \/ verdict'[p] = "no" /\ ~truth[k] /\ UNCHANGED lastNo
        \/ verdict'[p] = "no" /\ lastNo'[k] = clock
    BY <1>1 DEF Ask, TypeOK
  <1>4. ASSUME NEW j \in Question
        PROVE  /\ lastYes'[j] <= clock' /\ lastNo'[j] <= clock'
               /\ IF truth'[j] THEN lastYes'[j] = clock' ELSE lastNo'[j] = clock'
               /\ cache'[j] # Absent =>
                    /\ cache'[j].at <= clock'
                    /\ j = "user" => cache'[j].yes
                    /\ IF cache'[j].yes THEN lastYes'[j] >= cache'[j].at - MaxFlight
                                        ELSE lastNo'[j] >= cache'[j].at - MaxFlight
    <2>1. clock \in Nat /\ lastNo[j] \in Int /\ MaxFlight \in Nat
      BY StateTypes, ConstantTypes
    <2>2. cache[j] # Absent => cache[j].at \in Nat
      BY StateTypes
    <2>3. QED
      BY <1>1, <1>2, <2>1, <2>2 DEF AnswersAreTrue
  <1>5. ASSUME NEW q \in Process, NEW j \in Question, pc'[q] \in {"store", "delete"}, key'[q] = j
        PROVE  /\ asked'[q] <= clock' /\ clock' <= asked'[q] + MaxFlight
               /\ \/ verdict'[q] = "yes" /\ lastYes'[j] >= asked'[q]
                  \/ verdict'[q] = "no" /\ lastNo'[j] >= asked'[q]
    <2>1. CASE q = p
      <3>1. j = k /\ clock \in Nat /\ MaxFlight \in Nat /\ lastYes[k] \in Int /\ lastNo[k] \in Int
        BY <1>1, <1>5, <2>1, StateTypes, ConstantTypes
      <3>2. IF truth[k] THEN lastYes[k] = clock ELSE lastNo[k] = clock
        BY <1>1 DEF AnswersAreTrue
      <3>3. QED
        BY <1>1, <1>3, <2>1, <3>1, <3>2
    <2>2. CASE q # p
      <3>1. /\ asked[q] <= clock /\ clock <= asked[q] + MaxFlight
            /\ \/ verdict[q] = "yes" /\ lastYes[j] >= asked[q]
               \/ verdict[q] = "no" /\ lastNo[j] >= asked[q]
        BY <1>1, <1>5, <2>2 DEF AnswersAreTrue
      <3>2. asked[q] \in Nat /\ lastNo[j] \in Int /\ clock \in Nat
        BY StateTypes
      <3>3. QED
        BY <1>1, <1>2, <2>2, <3>1, <3>2
    <2>3. QED
      BY <2>1, <2>2
  <1>6. QED
    BY <1>4, <1>5 DEF AnswersAreTrue

LEMMA StoreAnswers ==
  ASSUME TypeOK, AnswersAreTrue, NEW p \in Process, Store(p)
  PROVE  AnswersAreTrue'
  <1> DEFINE k == key[p]
             yes == verdict[p] = "yes"
  <1>1. /\ UNCHANGED <<clock, truth, lastYes, lastNo, key, asked>> /\ k \in Question /\ pc[p] = "store"
        /\ \A q \in Process \ {p} : pc'[q] = pc[q]
    BY StateTypes DEF Store, At, GoTo, TypeOK, github
  <1>2. /\ asked[p] <= clock /\ clock <= asked[p] + MaxFlight
        /\ \/ verdict[p] = "yes" /\ lastYes[k] >= asked[p]
           \/ verdict[p] = "no" /\ lastNo[k] >= asked[p]
    BY <1>1 DEF AnswersAreTrue
  <1>3. \A j \in Question : j # k => cache'[j] = cache[j]
    BY DEF Store, TypeOK
  <1>4. cache'[k] = cache[k] \/ (cache'[k] = [yes |-> yes, at |-> clock] /\ (k = "user" => yes))
    <2>1. cache' = IF k = "user" /\ ~yes THEN cache ELSE [cache EXCEPT ![k] = [yes |-> yes, at |-> clock]]
      BY DEF Store
    <2> HIDE DEF yes
    <2>2. QED
      BY <1>1, <2>1 DEF TypeOK
  <1>5. ASSUME NEW j \in Question
        PROVE  cache'[j] # Absent =>
                 /\ cache'[j].at <= clock
                 /\ j = "user" => cache'[j].yes
                 /\ IF cache'[j].yes THEN lastYes[j] >= cache'[j].at - MaxFlight
                                     ELSE lastNo[j] >= cache'[j].at - MaxFlight
    <2>1. CASE cache'[j] = cache[j]
      BY <2>1 DEF AnswersAreTrue
    <2>2. CASE cache'[j] # cache[j]
      <3>1. j = k /\ cache'[j].yes = yes /\ cache'[j].at = clock /\ (k = "user" => yes)
        BY <1>3, <1>4, <2>2
      <3>2. /\ clock \in Nat /\ MaxFlight \in Nat /\ asked[p] \in Nat
            /\ lastYes[k] \in Int /\ lastNo[k] \in Int
        BY <1>1, StateTypes, ConstantTypes
      <3>3. clock <= clock
        BY <3>2
      <3>4. IF yes THEN lastYes[k] >= clock - MaxFlight ELSE lastNo[k] >= clock - MaxFlight
        BY <1>2, <3>2
      <3>5. QED
        BY <3>1, <3>3, <3>4, Zenon
    <2>3. QED
      BY <2>1, <2>2
  <1>6. ASSUME NEW q \in Process, NEW j \in Question, pc'[q] \in {"store", "delete"}, key'[q] = j
        PROVE  /\ asked'[q] <= clock' /\ clock' <= asked'[q] + MaxFlight
               /\ \/ verdict'[q] = "yes" /\ lastYes'[j] >= asked'[q]
                  \/ verdict'[q] = "no" /\ lastNo'[j] >= asked'[q]
    <2>1. pc[q] \in {"store", "delete"}
      BY <1>1, <1>6
    <2>2. verdict'[q] = verdict[q]
      BY <2>1 DEF Store, Delivered
    <2>3. QED
      BY <1>1, <1>6, <2>1, <2>2 DEF AnswersAreTrue
  <1>7. QED
    BY <1>1, <1>5, <1>6 DEF AnswersAreTrue

LEMMA AnswersKept ==
  ASSUME TypeOK, AnswersAreTrue, [Next]_vars
  PROVE  AnswersAreTrue'
  <1>1. CASE UNCHANGED vars
    BY <1>1, AnswersStay DEF vars
  <1>2. ASSUME NEW p \in Process, Lookup(p) \/ Join(p) \/ Delete(p) \/ Wake(p)
        PROVE  AnswersAreTrue'
    <2>1. UNCHANGED <<clock, truth, lastYes, lastNo, cache, key>>
      BY <1>2 DEF Lookup, Join, Delete, Wake, github, shared
    <2>2. pc'[p] \notin {"store", "delete"}
      BY <1>2 DEF Lookup, Join, Delete, Wake, GoTo, TypeOK
    <2>3. \A q \in Process \ {p} : pc'[q] = pc[q] /\ verdict'[q] = verdict[q] /\ asked'[q] = asked[q]
      BY <1>2 DEF Lookup, Join, Delete, Wake, GoTo, TypeOK
    <2>4. QED
      BY <2>1, <2>2, <2>3, AnswersStay
  <1>3. ASSUME NEW r \in Request, Match(r) \/ Answered(r)
        PROVE  AnswersAreTrue'
    <2>1. UNCHANGED <<clock, truth, lastYes, lastNo, cache, asked>>
      BY <1>3, MovesAlone DEF github, shared
    <2>2. QED
      BY <1>3, <2>1, MovesAlone, AnswersStay
  <1>4. ASSUME NEW r \in Request, Cancel(r)
        PROVE  AnswersAreTrue'
    <2>1. UNCHANGED <<clock, truth, lastYes, lastNo, cache, asked, key>>
      BY <1>4 DEF Cancel, shared
    <2>2. \A q \in Process \ {r} : pc'[q] = pc[q] /\ verdict'[q] = verdict[q]
      BY <1>4, ConstantTypes DEF Cancel, GoTo, TypeOK
    <2>3. pc'[r] \notin {"store", "delete"}
      BY <1>4, ConstantTypes DEF Cancel, GoTo, TypeOK
    <2>4. QED
      BY <2>1, <2>2, <2>3, AnswersStay
  <1>5. ASSUME NEW r \in Request, Start(r)
        PROVE  AnswersAreTrue'
    <2>1. UNCHANGED <<clock, truth, lastYes, lastNo, cache, asked, verdict>>
      BY <1>5, StartCases DEF github
    <2>2. ASSUME NEW q \in Process
          PROVE  (pc'[q] = pc[q] /\ key'[q] = key[q]) \/ pc'[q] \notin {"store", "delete"}
      <3>1. CASE pc' = [pc EXCEPT ![r] = "match"] /\ UNCHANGED <<key, flight>>
        BY <3>1 DEF TypeOK
      <3>2. ASSUME NEW b \in Background, pc' = [pc EXCEPT ![r] = "match", ![b] = "ask"],
                   key' = [key EXCEPT ![b] = "user"]
            PROVE  (pc'[q] = pc[q] /\ key'[q] = key[q]) \/ pc'[q] \notin {"store", "delete"}
        BY <3>2 DEF TypeOK
      <3>3. QED
        BY <1>5, <3>1, <3>2, StartCases
    <2>3. QED
      BY <2>1, <2>2, AnswersStay
  <1>6. QED
    BY <1>1, <1>2, <1>3, <1>4, <1>5, TickAnswers, ChangeAnswers, AskAnswers, StoreAnswers, StepCases

\* What is in the cache, or has just been found out, is recent for a request that has begun.
LEMMA FreshIsRecent ==
  ASSUME TypeOK, AnswersAreTrue, NEW k \in Question, Fresh(k), NEW s \in Nat, s <= clock
  PROVE  IF cache[k].yes THEN lastYes[k] >= s - TTL(k) - MaxFlight
                         ELSE lastNo[k] >= s - TTL(k) - MaxFlight
  <1>1. /\ clock \in Nat /\ cache[k].at \in Nat /\ lastYes[k] \in Int /\ lastNo[k] \in Int
        /\ TTL(k) \in Nat /\ MaxFlight \in Nat
    BY StateTypes, ConstantTypes DEF Fresh
  <1>2. clock < cache[k].at + TTL(k)
    BY DEF Fresh
  <1>3. IF cache[k].yes THEN lastYes[k] >= cache[k].at - MaxFlight ELSE lastNo[k] >= cache[k].at - MaxFlight
    BY DEF Fresh, AnswersAreTrue
  <1>4. QED
    BY <1>1, <1>2, <1>3

LEMMA StoredIsRecent ==
  ASSUME TypeOK, AnswersAreTrue, NEW p \in Process, NEW k \in Question,
         pc[p] \in {"store", "delete"}, key[p] = k, NEW s \in Nat, s <= clock
  PROVE  /\ verdict[p] \in {"yes", "no"}
         /\ verdict[p] = "yes" => lastYes[k] >= s - TTL(k) - MaxFlight
         /\ verdict[p] = "no" => lastNo[k] >= s - TTL(k) - MaxFlight
  <1>1. /\ clock \in Nat /\ asked[p] \in Nat /\ lastYes[k] \in Int /\ lastNo[k] \in Int
        /\ TTL(k) \in Nat /\ MaxFlight \in Nat
    BY StateTypes, ConstantTypes
  <1>2. /\ clock <= asked[p] + MaxFlight
        /\ \/ verdict[p] = "yes" /\ lastYes[k] >= asked[p]
           \/ verdict[p] = "no" /\ lastNo[k] >= asked[p]
    BY DEF AnswersAreTrue
  <1>3. QED
    BY <1>1, <1>2

LEMMA RecentStays ==
  ASSUME TypeOK, TypeOK', HistoryGoesOn, NEW r \in Request, started'[r] = started[r], NEW k \in Question
  PROVE  /\ RecentYes(r, k) => RecentYes(r, k)'
         /\ RecentNo(r, k) => RecentNo(r, k)'
  <1>1. /\ started[r] \in Nat /\ lastYes[k] \in Int /\ lastNo[k] \in Int
        /\ TTL(k) \in Nat /\ MaxFlight \in Nat
    BY StateTypes, ConstantTypes
  <1>2. lastYes'[k] \in Int /\ lastNo'[k] \in Int /\ lastYes[k] <= lastYes'[k] /\ lastNo[k] <= lastNo'[k]
    BY DEF HistoryGoesOn, TypeOK
  <1>3. QED
    BY <1>1, <1>2 DEF RecentYes, RecentNo

-----------------------------------------------------------------------------
(* What a request knows.                                                   *)

LEMMA TeamsOfException ==
  ASSUME NEW t \in Target, Matching(t) # {}
  PROVE  \A k \in Range(Exception(t).teams) : k \in Team /\ k \in Question /\ k # "user"
  <1>1. Exception(t).teams \in Seq(Team)
    BY ExceptionType
  <1>2. Range(Exception(t).teams) \subseteq Team
    BY <1>1, RangeOfSeq
  <1>3. QED
    BY <1>2, ConstantTypes, PolicyAssumption

LEMMA JustifiedStays ==
  ASSUME TypeOK, TypeOK', HistoryGoesOn, NEW r \in Request, NEW t \in Target, Justified(r, t),
         started'[r] = started[r], req'[r] = req[r], outcome'[r] = outcome[r]
  PROVE  Justified(r, t)'
  <1>1. ASSUME Matching(t) # {}, NEW k \in Range(Exception(t).teams)
        PROVE  (RecentYes(r, k) => RecentYes(r, k)') /\ (RecentNo(r, k) => RecentNo(r, k)')
    BY <1>1, TeamsOfException, RecentStays
  <1>2. QED
    BY <1>1 DEF Justified

\* Whoever is not touched by a step knows what it has known.
LEMMA UntouchedRequest ==
  ASSUME TypeOK, TypeOK', HistoryGoesOn, NEW r \in Request, RequestIsTrue(r),
         pc'[r] = pc[r], key'[r] = key[r], verdict'[r] = verdict[r],
         req'[r] = req[r], outcome'[r] = outcome[r], started'[r] = started[r]
  PROVE  RequestIsTrue(r)'
  <1>1. outcome'[r] # "none" <=> pc'[r] = "done"
    BY DEF RequestIsTrue
  <1>2. pc'[r] # "idle" => /\ req'[r].target \in Target
                           /\ started'[r] <= clock'
                           /\ req'[r].login => RecentYes(r, "user")'
    <2>1. RecentYes(r, "user") => RecentYes(r, "user")'
      BY RecentStays, ConstantTypes
    <2>2. clock <= clock' /\ clock \in Nat /\ clock' \in Int /\ started[r] \in Nat
      BY StateTypes DEF HistoryGoesOn, TypeOK
    <2>3. QED
      BY <2>1, <2>2 DEF RequestIsTrue
  <1>3. ASSUME NEW t \in Target, NEW k \in Question, req'[r].target = t, key'[r] = k, pc'[r] \in Asking
        PROVE  Informed(r, t, k)'
    <2>1. Informed(r, t, k)
      BY <1>3 DEF RequestIsTrue
    <2>2. (RecentYes(r, k) => RecentYes(r, k)') /\ (RecentNo(r, k) => RecentNo(r, k)')
      BY RecentStays
    <2>3. \A team \in Range(Exception(t).teams) : RecentNo(r, team) => RecentNo(r, team)'
      BY <2>1, TeamsOfException, RecentStays DEF Informed
    <2>4. QED
      BY <2>1, <2>2, <2>3 DEF Informed
  <1>4. ASSUME NEW t \in Target, NEW k \in Question, req'[r].target = t, key'[r] = k, pc'[r] = "done"
        PROVE  Justified(r, t)'
    <2>1. Justified(r, t)
      BY <1>4 DEF RequestIsTrue
    <2>2. QED
      BY <2>1, JustifiedStays
  <1>5. QED
    BY <1>1, <1>2, <1>3, <1>4 DEF RequestIsTrue

\* Whoever goes on asking knows what it has known, and the answer if it has one now.
LEMMA StillInformed ==
  ASSUME TypeOK, TypeOK', HistoryGoesOn, NEW r \in Request, RequestIsTrue(r),
         pc[r] \in Asking, pc'[r] \in Asking, key'[r] = key[r], req'[r] = req[r],
         outcome'[r] = outcome[r], started'[r] = started[r],
         pc'[r] \in {"lookup", "join", "ask"} => verdict'[r] = "none",
         pc'[r] \in {"store", "delete", "answered"} => verdict'[r] # "none",
         \A k \in Question : key[r] = k => /\ verdict'[r] = "yes" => RecentYes(r, k)'
                                           /\ verdict'[r] = "no" => RecentNo(r, k)' \/ req[r].gone
  PROVE  RequestIsTrue(r)'
  <1>1. outcome'[r] = "none" /\ pc'[r] # "done" /\ pc[r] # "idle"
    BY DEF RequestIsTrue, Asking, Leading
  <1>2. req'[r].target \in Target /\ started'[r] <= clock' /\ (req'[r].login => RecentYes(r, "user")')
    <2>1. RecentYes(r, "user") => RecentYes(r, "user")'
      BY RecentStays, ConstantTypes
    <2>2. clock <= clock' /\ clock \in Nat /\ clock' \in Int /\ started[r] \in Nat
      BY StateTypes DEF HistoryGoesOn, TypeOK
    <2>3. QED
      BY <1>1, <2>1, <2>2 DEF RequestIsTrue
  <1>3. ASSUME NEW t \in Target, NEW k \in Question, req'[r].target = t, key'[r] = k
        PROVE  Informed(r, t, k)'
    <2>1. Informed(r, t, k)
      BY <1>3 DEF RequestIsTrue
    <2>2. /\ verdict'[r] = "yes" => RecentYes(r, k)'
          /\ verdict'[r] = "no" => RecentNo(r, k)' \/ req'[r].gone
      BY <1>3
    <2>3. \A team \in Range(Exception(t).teams) : RecentNo(r, team) => RecentNo(r, team)'
      BY <2>1, TeamsOfException, RecentStays DEF Informed
    <2>4. QED
      BY <2>1, <2>2, <2>3 DEF Informed
  <1>4. QED
    BY <1>1, <1>2, <1>3 DEF RequestIsTrue

\* The steps of a request that asks.
LEMMA OthersUntouched ==
  ASSUME TypeOK, NEW p \in Process, Lookup(p) \/ Join(p) \/ Ask(p) \/ Delete(p) \/ Wake(p), NEW q \in Process \ {p}
  PROVE  pc'[q] = pc[q] /\ key'[q] = key[q] /\ verdict'[q] = verdict[q]
  BY DEF TypeOK, Lookup, Join, Ask, Delete, Wake, GoTo

LEMMA AskingKeeps ==
  ASSUME NEW p \in Process,
         Lookup(p) \/ Join(p) \/ Ask(p) \/ Store(p) \/ Delete(p) \/ Wake(p)
  PROVE  UNCHANGED <<key, req, outcome, started>>
  BY DEF Lookup, Join, Ask, Store, Delete, Wake

LEMMA LookupRequest ==
  ASSUME TypeOK, TypeOK', HistoryGoesOn, AnswersAreTrue, NEW r \in Request, RequestIsTrue(r), Lookup(r)
  PROVE  RequestIsTrue(r)'
  <1> DEFINE k == key[r]
  <1>1. r \in Process /\ k \in Question /\ pc[r] = "lookup" /\ started[r] \in Nat /\ started[r] <= clock
        /\ UNCHANGED <<key, req, outcome, started, lastYes, lastNo>>
    BY StateTypes, ConstantTypes DEF Lookup, At, RequestIsTrue, github
  <1>2. verdict[r] = "none"
    <2>1. req[r].target \in Target /\ Informed(r, req[r].target, k)
      BY <1>1 DEF RequestIsTrue, Asking
    <2>2. QED
      BY <1>1, <2>1 DEF Informed
  <1>3. CASE Fresh(k)
    <2>1. pc'[r] = "answered" /\ verdict'[r] = IF cache[k].yes THEN "yes" ELSE "no"
      BY <1>1, <1>3 DEF Lookup, GoTo, TypeOK
    <2>2. IF cache[k].yes THEN RecentYes(r, k) ELSE RecentNo(r, k)
      BY <1>1, <1>3, FreshIsRecent DEF RecentYes, RecentNo
    <2>3. (verdict'[r] = "yes" => RecentYes(r, k)) /\ (verdict'[r] = "no" => RecentNo(r, k))
      BY <2>1, <2>2
    <2>4. \A j \in Question : key[r] = j => /\ verdict'[r] = "yes" => RecentYes(r, j)'
                                            /\ verdict'[r] = "no" => RecentNo(r, j)'
      BY <1>1, <2>3, RecentStays
    <2>5. QED
      BY <1>1, <2>1, <2>4, StillInformed DEF Asking
  <1>4. CASE ~Fresh(k)
    <2>1. pc'[r] = "join" /\ verdict'[r] = "none"
      BY <1>1, <1>2, <1>4 DEF Lookup, GoTo, TypeOK
    <2>2. QED
      BY <1>1, <2>1, StillInformed DEF Asking
  <1>5. QED
    BY <1>3, <1>4

LEMMA JoinRequest ==
  ASSUME TypeOK, TypeOK', HistoryGoesOn, AnswersAreTrue, FlightsAreLed,
         NEW r \in Request, RequestIsTrue(r), Join(r)
  PROVE  RequestIsTrue(r)'
  <1> DEFINE k == key[r]
  <1>1. r \in Process /\ k \in Question /\ pc[r] = "join" /\ started[r] \in Nat /\ started[r] <= clock
        /\ UNCHANGED <<key, req, outcome, started, lastYes, lastNo>>
    BY StateTypes, ConstantTypes DEF Join, At, RequestIsTrue, github
  <1>2. verdict[r] = "none"
    <2>1. req[r].target \in Target /\ Informed(r, req[r].target, k)
      BY <1>1 DEF RequestIsTrue, Asking
    <2>2. QED
      BY <1>1, <2>1 DEF Informed
  <1>3. CASE flight[k] = Absent
    <2>1. pc'[r] = "ask" /\ verdict'[r] = "none"
      BY <1>1, <1>2, <1>3 DEF Join, GoTo, TypeOK
    <2>2. QED
      BY <1>1, <2>1, StillInformed DEF Asking, Leading
  <1>4. CASE flight[k] # Absent
    <2>1. pc'[r] = "wait" /\ verdict'[r] = IF flight[k].open THEN "none"
                                           ELSE IF flight[k].yes THEN "yes" ELSE "no"
      BY <1>1, <1>4 DEF Join, GoTo, TypeOK
    <2>2. ASSUME ~flight[k].open
          PROVE  IF flight[k].yes THEN RecentYes(r, k) ELSE RecentNo(r, k)
      <3>1. PICK l \in Process : pc[l] \in Leading /\ key[l] = k
        BY <1>1, <1>4 DEF FlightsAreLed
      <3>2. pc[l] = "delete" /\ (flight[k].yes <=> verdict[l] = "yes")
        BY <1>1, <2>2, <3>1 DEF FlightsAreLed
      <3>3. /\ verdict[l] \in {"yes", "no"}
            /\ verdict[l] = "yes" => RecentYes(r, k)
            /\ verdict[l] = "no" => RecentNo(r, k)
        BY <1>1, <3>1, <3>2, StoredIsRecent DEF RecentYes, RecentNo
      <3>4. QED
        BY <3>2, <3>3
    <2>3. (verdict'[r] = "yes" => RecentYes(r, k)) /\ (verdict'[r] = "no" => RecentNo(r, k))
      BY <2>1, <2>2
    <2>4. \A j \in Question : key[r] = j => /\ verdict'[r] = "yes" => RecentYes(r, j)'
                                            /\ verdict'[r] = "no" => RecentNo(r, j)'
      BY <1>1, <2>3, RecentStays
    <2>5. QED
      BY <1>1, <2>1, <2>4, StillInformed DEF Asking
  <1>5. QED
    BY <1>3, <1>4

LEMMA AskRequest ==
  ASSUME TypeOK, TypeOK', HistoryGoesOn, AnswersAreTrue, NEW r \in Request, RequestIsTrue(r), Ask(r)
  PROVE  RequestIsTrue(r)'
  <1> DEFINE k == key[r]
  <1>1. r \in Process /\ k \in Question /\ pc[r] = "ask" /\ started[r] \in Nat /\ started[r] <= clock
        /\ UNCHANGED <<key, req, outcome, started, lastYes>>
    BY StateTypes, ConstantTypes DEF Ask, At, RequestIsTrue
  <1>2. pc'[r] = "store"
    BY <1>1 DEF Ask, GoTo, TypeOK
  <1>3. \/ verdict'[r] = "yes" /\ truth[k]
        \/ verdict'[r] = "no" /\ ~truth[k] /\ UNCHANGED lastNo
        \/ verdict'[r] = "no" /\ lastNo'[k] = clock
    BY <1>1 DEF Ask, TypeOK
  <1>4. /\ clock \in Nat /\ TTL(k) \in Nat /\ MaxFlight \in Nat
        /\ IF truth[k] THEN lastYes[k] = clock ELSE lastNo[k] = clock
    BY <1>1, StateTypes, ConstantTypes DEF AnswersAreTrue
  <1>5. /\ verdict'[r] # "none"
        /\ verdict'[r] = "yes" => lastYes'[k] = clock
        /\ verdict'[r] = "no" => lastNo'[k] = clock
    BY <1>1, <1>3, <1>4
  <1>6. \A j \in Question : key[r] = j => /\ verdict'[r] = "yes" => RecentYes(r, j)'
                                          /\ verdict'[r] = "no" => RecentNo(r, j)'
    BY <1>1, <1>4, <1>5 DEF RecentYes, RecentNo
  <1>7. QED
    BY <1>1, <1>2, <1>5, <1>6, StillInformed DEF Asking, Leading

LEMMA StoreRequest ==
  ASSUME TypeOK, TypeOK', HistoryGoesOn, AnswersAreTrue, NEW r \in Request, RequestIsTrue(r),
         NEW p \in Process, Store(p)
  PROVE  RequestIsTrue(r)'
  <1> DEFINE k == key[p]
  <1>1. /\ r \in Process /\ k \in Question /\ pc[p] = "store" /\ started[r] \in Nat
        /\ UNCHANGED <<key, req, outcome, started, lastYes, lastNo>>
        /\ pc'[p] = "delete" /\ \A q \in Process \ {p} : pc'[q] = pc[q]
    BY StateTypes, ConstantTypes DEF Store, At, GoTo, TypeOK, github
  <1>2. verdict'[r] = IF pc[r] = "wait" /\ key[r] = k /\ verdict[r] = "none" THEN verdict[p] ELSE verdict[r]
    BY <1>1 DEF Store, Delivered
  <1>3. CASE r = p
    <2>1. verdict'[r] = verdict[r] /\ key[r] = k /\ pc[r] # "idle"
      BY <1>1, <1>2, <1>3
    <2>2. req[r].target \in Target /\ Informed(r, req[r].target, k)
      BY <1>1, <1>3 DEF RequestIsTrue, Asking, Leading
    <2>3. /\ verdict[r] # "none"
          /\ verdict[r] = "yes" => RecentYes(r, k)
          /\ verdict[r] = "no" => RecentNo(r, k) \/ req[r].gone
      BY <1>1, <1>3, <2>2 DEF Informed
    <2>4. \A j \in Question : key[r] = j => /\ verdict'[r] = "yes" => RecentYes(r, j)'
                                            /\ verdict'[r] = "no" => RecentNo(r, j)' \/ req[r].gone
      BY <1>1, <2>1, <2>3, RecentStays
    <2>5. QED
      BY <1>1, <1>3, <2>1, <2>3, <2>4, StillInformed DEF Asking, Leading
  <1>4. CASE r # p /\ pc[r] = "wait" /\ key[r] = k /\ verdict[r] = "none"
    <2>1. pc'[r] = "wait" /\ verdict'[r] = verdict[p]
      BY <1>1, <1>2, <1>4
    <2>2. started[r] <= clock
      BY <1>4 DEF RequestIsTrue
    <2>3. (verdict[p] = "yes" => RecentYes(r, k)) /\ (verdict[p] = "no" => RecentNo(r, k))
      BY <1>1, <2>2, StoredIsRecent DEF RecentYes, RecentNo
    <2>4. \A j \in Question : key[r] = j => /\ verdict'[r] = "yes" => RecentYes(r, j)'
                                            /\ verdict'[r] = "no" => RecentNo(r, j)'
      BY <1>1, <1>4, <2>1, <2>3, RecentStays
    <2>5. QED
      BY <1>1, <1>4, <2>1, <2>4, StillInformed DEF Asking
  <1>5. CASE r # p /\ ~(pc[r] = "wait" /\ key[r] = k /\ verdict[r] = "none")
    <2>1. pc'[r] = pc[r] /\ verdict'[r] = verdict[r]
      BY <1>1, <1>2, <1>5
    <2>2. QED
      BY <1>1, <2>1, UntouchedRequest
  <1>6. QED
    BY <1>3, <1>4, <1>5

\* An answer that is there stays one when the flight is over or the request is woken.
LEMMA AnswerTaken ==
  ASSUME TypeOK, TypeOK', HistoryGoesOn, NEW r \in Request, RequestIsTrue(r),
         pc[r] \in {"delete", "wait"}, verdict[r] # "none", pc'[r] = "answered", key'[r] = key[r],
         verdict'[r] = verdict[r], req'[r] = req[r], outcome'[r] = outcome[r], started'[r] = started[r]
  PROVE  RequestIsTrue(r)'
  <1>1. ASSUME NEW k \in Question, key[r] = k
        PROVE  /\ verdict'[r] = "yes" => RecentYes(r, k)'
               /\ verdict'[r] = "no" => RecentNo(r, k)' \/ req[r].gone
    <2>1. req[r].target \in Target /\ Informed(r, req[r].target, k)
      BY <1>1 DEF RequestIsTrue, Asking, Leading
    <2>2. QED
      BY <2>1, RecentStays DEF Informed
  <1>2. QED
    BY <1>1, StillInformed DEF Asking, Leading

LEMMA DeleteRequest ==
  ASSUME TypeOK, TypeOK', HistoryGoesOn, NEW r \in Request, RequestIsTrue(r), Delete(r)
  PROVE  RequestIsTrue(r)'
  <1>1. r \in Process /\ r \notin Background
    BY ConstantTypes, ProcessAssumption
  <1>2. pc[r] = "delete" /\ pc'[r] = "answered" /\ UNCHANGED <<key, verdict, req, outcome, started>>
    BY <1>1 DEF Delete, At, GoTo, TypeOK
  <1>3. verdict[r] # "none"
    <2>1. req[r].target \in Target /\ key[r] \in Question /\ Informed(r, req[r].target, key[r])
      BY <1>1, <1>2, StateTypes DEF RequestIsTrue, Asking, Leading
    <2>2. QED
      BY <1>2, <2>1 DEF Informed
  <1>4. QED
    BY <1>2, <1>3, AnswerTaken

LEMMA WakeRequest ==
  ASSUME TypeOK, TypeOK', HistoryGoesOn, NEW r \in Request, RequestIsTrue(r), Wake(r)
  PROVE  RequestIsTrue(r)'
  <1>1. r \in Process
    BY ConstantTypes
  <1>2. pc[r] = "wait" /\ verdict[r] # "none" /\ pc'[r] = "answered"
        /\ UNCHANGED <<key, verdict, req, outcome, started>>
    BY <1>1 DEF Wake, At, GoTo, TypeOK
  <1>3. QED
    BY <1>2, AnswerTaken

LEMMA CancelRequest ==
  ASSUME TypeOK, TypeOK', HistoryGoesOn, NEW r \in Request, RequestIsTrue(r), Cancel(r)
  PROVE  RequestIsTrue(r)'
  <1>1. /\ r \in Process /\ pc[r] \in {"wait", "ask"} /\ UNCHANGED <<key, outcome, started>>
        /\ req'[r] = [req[r] EXCEPT !.gone = TRUE]
    BY ConstantTypes DEF Cancel, TypeOK
  <1>2. \/ pc'[r] = "answered" /\ verdict'[r] = "no"
        \/ pc[r] = "ask" /\ pc'[r] = "ask" /\ verdict'[r] = verdict[r]
    BY <1>1 DEF Cancel, GoTo, TypeOK
  <1>3. /\ req'[r].target = req[r].target /\ req'[r].login = req[r].login
        /\ req'[r].teams = req[r].teams /\ req'[r].gone
    BY <1>1 DEF TypeOK
  <1>4. outcome'[r] = "none" /\ pc'[r] # "done" /\ pc[r] # "idle"
    BY <1>1, <1>2 DEF RequestIsTrue
  <1>5. req'[r].target \in Target /\ started'[r] <= clock' /\ (req'[r].login => RecentYes(r, "user")')
    <2>1. RecentYes(r, "user") => RecentYes(r, "user")'
      BY <1>1, RecentStays, ConstantTypes
    <2>2. clock <= clock' /\ clock \in Nat /\ clock' \in Int /\ started[r] \in Nat
      BY StateTypes DEF HistoryGoesOn, TypeOK
    <2>3. QED
      BY <1>1, <1>3, <1>4, <2>1, <2>2 DEF RequestIsTrue
  <1>6. ASSUME NEW t \in Target, NEW k \in Question, req'[r].target = t, key'[r] = k
        PROVE  Informed(r, t, k)'
    <2>1. Informed(r, t, k)
      BY <1>1, <1>3, <1>6 DEF RequestIsTrue, Asking, Leading
    <2>2. verdict'[r] # "yes" /\ (pc'[r] = "ask" => verdict'[r] = "none")
      BY <1>2, <2>1 DEF Informed
    <2>3. QED
      BY <1>2, <1>3, <2>1, <2>2 DEF Informed
  <1>7. QED
    BY <1>2, <1>4, <1>5, <1>6 DEF RequestIsTrue

\* The steps in which a request moves on.
LEMMA AsksAbout ==
  ASSUME TypeOK, NEW r \in Request, NEW k \in Question, AskAbout(r, k)
  PROVE  pc'[r] = "lookup" /\ key'[r] = k /\ verdict'[r] = "none" /\ UNCHANGED outcome
  BY ConstantTypes DEF AskAbout, GoTo, TypeOK

LEMMA Decides ==
  ASSUME TypeOK, NEW r \in Request, NEW o, Decide(r, o)
  PROVE  pc'[r] = "done" /\ outcome'[r] = o /\ UNCHANGED key
  BY ConstantTypes DEF Decide, GoTo, TypeOK

\* What a request needs to be true after a step in which it moves on.
LEMMA MovedOn ==
  ASSUME TypeOK, TypeOK', NEW r \in Request, RequestIsTrue(r), pc[r] \in {"match", "answered"},
         Match(r) \/ Answered(r), NEW t \in Target, req[r].target = t, req'[r].target = t,
         req'[r].login => RecentYes(r, "user"),
         \/ \E k \in Question : AskAbout(r, k) /\ Informed(r, t, k)'
         \/ \E o \in {"kept", "omitted", "substituted"} : Decide(r, o) /\ Justified(r, t)'
  PROVE  RequestIsTrue(r)'
  <1>1. UNCHANGED <<clock, started, lastYes>>
    BY MovesAlone DEF github
  <1>2. started'[r] <= clock' /\ (req'[r].login => RecentYes(r, "user")')
    <2>1. started[r] <= clock
      BY DEF RequestIsTrue
    <2>2. QED
      BY <1>1, <2>1 DEF RecentYes
  <1>3. outcome[r] = "none"
    BY DEF RequestIsTrue
  <1>4. ASSUME NEW k \in Question, AskAbout(r, k), Informed(r, t, k)'
        PROVE  RequestIsTrue(r)'
    <2>1. pc'[r] = "lookup" /\ key'[r] = k /\ outcome'[r] = "none"
      BY <1>3, <1>4, AsksAbout
    <2>2. QED
      BY <1>2, <1>4, <2>1 DEF RequestIsTrue
  <1>5. ASSUME NEW o \in {"kept", "omitted", "substituted"}, Decide(r, o), Justified(r, t)'
        PROVE  RequestIsTrue(r)'
    <2>1. pc'[r] = "done" /\ outcome'[r] = o
      BY <1>5, Decides
    <2>2. QED
      BY <1>2, <1>5, <2>1 DEF RequestIsTrue, Asking, Leading
  <1>6. QED
    BY <1>4, <1>5

\* A request that may pass, and one that may not, is told what it may be told.
LEMMA GateIsJustified ==
  ASSUME NEW r \in Request, NEW t \in Target, Matching(t) # {},
         NEW login \in BOOLEAN, req'[r].login = login,
         NEW o, outcome'[r] = o, Decided(Exception(t), login, o)
  PROVE  Justified(r, t)'
  <1> DEFINE e == Exception(t)
  <1>1. e.identity \in BOOLEAN
    BY ExceptionType
  <1>2. CASE o = "kept" /\ (e.identity \/ (e.teams # <<>> /\ ~login))
    BY <1>1, <1>2 DEF Justified
  <1>3. CASE o = "omitted" /\ ~e.identity /\ e.teams = <<>>
    BY <1>1, <1>3 DEF Justified
  <1>4. CASE o = "substituted" /\ e.identity /\ e.teams = <<>> /\ login
    BY <1>1, <1>4 DEF Justified
  <1>5. QED
    BY <1>2, <1>3, <1>4 DEF Decided

LEMMA AsksTheFirst ==
  ASSUME TypeOK, NEW r \in Request, NEW t \in Target, Matching(t) # {}, Exception(t).teams # <<>>,
         AskAbout(r, Head(Exception(t).teams)), req'[r].login, req'[r].teams = Exception(t).teams
  PROVE  Head(Exception(t).teams) \in Question /\ Informed(r, t, Head(Exception(t).teams))'
  <1> DEFINE k == Head(Exception(t).teams)
  <1>1. k \in Range(Exception(t).teams)
    BY ExceptionType, HeadAndTail
  <1>2. k \in Question /\ k # "user"
    BY <1>1, TeamsOfException
  <1>3. pc'[r] = "lookup" /\ verdict'[r] = "none"
    BY <1>2, AsksAbout
  <1>4. QED
    BY <1>2, <1>3 DEF Informed

LEMMA MatchRequest ==
  ASSUME TypeOK, TypeOK', NEW r \in Request, RequestIsTrue(r), Match(r)
  PROVE  RequestIsTrue(r)'
  <1>1. PICK t \in Target : req[r].target = t /\ pc[r] = "match"
                            /\ (req[r].login => RecentYes(r, "user"))
    BY DEF Match, At, RequestIsTrue
  <1>2. CASE Matching(t) = {}
    <2>1. Decide(r, "kept") /\ req' = req
      BY <1>1, <1>2, MatchCases
    <2>2. Justified(r, t)'
      BY <1>2, <2>1, Decides DEF Justified
    <2>3. QED
      BY <1>1, <2>1, <2>2, MovedOn
  <1>3. CASE Matching(t) # {}
    <2>1. req'[r] = [req[r] EXCEPT !.teams = Exception(t).teams]
      <3>1. req' = [req EXCEPT ![r].teams = Exception(t).teams]
        BY <1>1, <1>3, MatchCases
      <3>2. QED
        BY <3>1 DEF TypeOK
    <2>2. /\ req'[r].target = t /\ req'[r].login = req[r].login
          /\ req'[r].teams = Exception(t).teams /\ req[r].login \in BOOLEAN
      BY <1>1, <2>1 DEF TypeOK
    <2>3. CASE ~req[r].login /\ AskAbout(r, "user")
      <3>1. pc'[r] = "lookup" /\ verdict'[r] = "none"
        BY <2>3, AsksAbout, ConstantTypes
      <3>2. Informed(r, t, "user")'
        BY <1>3, <2>2, <2>3, <3>1 DEF Informed
      <3>3. QED
        BY <1>1, <2>2, <2>3, <3>2, MovedOn, ConstantTypes
    <2>4. ASSUME NEW o \in {"kept", "omitted", "substituted"}, Decide(r, o),
                 Decided(Exception(t), req[r].login, o)
          PROVE  RequestIsTrue(r)'
      <3>1. Justified(r, t)'
        BY <1>3, <2>2, <2>4, Decides, GateIsJustified
      <3>2. QED
        BY <1>1, <2>2, <2>4, <3>1, MovedOn
    <2>5. CASE Exception(t).teams # <<>> /\ req[r].login /\ AskAbout(r, Head(Exception(t).teams))
      <3>1. Head(Exception(t).teams) \in Question /\ Informed(r, t, Head(Exception(t).teams))'
        BY <1>3, <2>2, <2>5, AsksTheFirst
      <3>2. QED
        BY <1>1, <2>2, <2>5, <3>1, MovedOn
    <2>6. QED
      BY <1>1, <1>3, <2>3, <2>4, <2>5, MatchCases
  <1>4. QED
    BY <1>2, <1>3

LEMMA AnsweredRequest ==
  ASSUME TypeOK, TypeOK', NEW r \in Request, RequestIsTrue(r), Answered(r)
  PROVE  RequestIsTrue(r)'
  <1>1. PICK t \in Target : req[r].target = t /\ pc[r] = "answered"
                            /\ (req[r].login => RecentYes(r, "user"))
    BY DEF Answered, At, RequestIsTrue
  <1>2. PICK k \in Question : key[r] = k
    BY StateTypes, ConstantTypes
  <1>3. Informed(r, t, k)
    BY <1>1, <1>2 DEF RequestIsTrue, Asking
  <1>4. Matching(t) # {} /\ verdict[r] # "none" /\ req[r].login \in BOOLEAN
    BY <1>1, <1>3, StateTypes DEF Informed
  <1>5. UNCHANGED <<started, lastYes, lastNo>>
    BY MovesAlone DEF github
  <1> DEFINE yes == verdict[r] = "yes"
  <1>6. yes \in BOOLEAN
    OBVIOUS
  <1>7. CASE k = "user"
    <2>1. req'[r] = [req[r] EXCEPT !.login = yes]
      BY <1>2, <1>7, AnsweredCases DEF TypeOK
    <2>2. /\ req'[r].target = t /\ (req'[r].login <=> yes) /\ req'[r].login = yes
          /\ req'[r].teams = Exception(t).teams
      BY <1>1, <1>3, <1>7, <2>1 DEF TypeOK, Informed
    <2>3. req'[r].login => RecentYes(r, "user")
      BY <1>3, <1>7, <2>2 DEF Informed
    <2>4. ASSUME NEW o \in {"kept", "omitted", "substituted"}, Decide(r, o),
                 Decided(Exception(t), yes, o)
          PROVE  RequestIsTrue(r)'
      <3>1. outcome'[r] = o
        BY <2>4, Decides
      <3> HIDE DEF yes
      <3>2. Justified(r, t)'
        BY <1>4, <1>6, <2>2, <2>4, <3>1, GateIsJustified
      <3>3. QED
        BY <1>1, <2>2, <2>3, <2>4, <3>2, MovedOn
    <2>5. CASE Exception(t).teams # <<>> /\ yes /\ AskAbout(r, Head(Exception(t).teams))
      <3>1. Head(Exception(t).teams) \in Question /\ Informed(r, t, Head(Exception(t).teams))'
        BY <1>4, <2>2, <2>5, AsksTheFirst
      <3>2. QED
        BY <1>1, <2>2, <2>3, <2>5, <3>1, MovedOn
    <2>6. QED
      BY <1>1, <1>2, <1>7, <2>4, <2>5, AnsweredCases
  <1>8. CASE k # "user"
    <2> DEFINE rest == Tail(req[r].teams)
    <2>1. req'[r] = [req[r] EXCEPT !.teams = rest]
      BY <1>2, <1>8, AnsweredCases DEF TypeOK
    <2>2. req'[r].target = t /\ req'[r].login = req[r].login /\ req'[r].teams = rest
          /\ req'[r].gone = req[r].gone
      BY <1>1, <2>1 DEF TypeOK
    <2>3. /\ req[r].login /\ req[r].teams # <<>> /\ k = Head(req[r].teams)
          /\ \A team \in Range(req[r].teams) : team \in Range(Exception(t).teams)
          /\ \A team \in Range(Exception(t).teams) :
               team \in Range(req[r].teams) \/ RecentNo(r, team) \/ req[r].gone
      BY <1>3, <1>8 DEF Informed
    <2>4. /\ rest \in Seq(Team) /\ k \in Range(req[r].teams)
          /\ \A team : team \in Range(req[r].teams) <=> team = k \/ team \in Range(rest)
      BY <2>3, StateTypes, HeadAndTail
    <2>5. req'[r].login => RecentYes(r, "user")
      BY <1>1, <2>2
    <2>6. (yes => RecentYes(r, k)) /\ (~yes => RecentNo(r, k) \/ req[r].gone)
      <3>1. verdict[r] \in {"none", "yes", "no"}
        BY ConstantTypes DEF TypeOK
      <3>2. QED
        BY <1>3, <1>4, <3>1 DEF Informed
    <2>7. CASE yes /\ \E o \in {"kept", "omitted", "substituted"} :
                        /\ Decide(r, o)
                        /\ o = "omitted" => ~Exception(t).identity
                        /\ o # "omitted" => Exception(t).identity
      <3>1. PICK o \in {"kept", "omitted", "substituted"} :
                        /\ Decide(r, o)
                        /\ o = "omitted" => ~Exception(t).identity
                        /\ o # "omitted" => Exception(t).identity
        BY <2>7
      <3>2. outcome'[r] = o
        BY <3>1, Decides
      <3>3. k \in Range(Exception(t).teams) /\ RecentYes(r, k)'
        BY <1>5, <2>3, <2>4, <2>6, <2>7 DEF RecentYes
      <3>4. Exception(t).identity \in BOOLEAN
        BY <1>4, ExceptionType
      <3>5. o \in {"omitted", "substituted"} => (Exception(t).identity <=> o = "substituted")
        BY <3>1
      <3>6. o = "kept" => Exception(t).identity
        BY <3>1
      <3>7. Justified(r, t)'
        BY <1>4, <2>2, <2>3, <3>2, <3>3, <3>5, <3>6 DEF Justified
      <3>8. QED
        BY <1>1, <2>2, <2>5, <3>1, <3>7, MovedOn
    <2>8. CASE ~yes /\ rest = <<>> /\ Decide(r, "kept")
      <3>1. ~req[r].gone => \A team \in Range(Exception(t).teams) : RecentNo(r, team)
        <4>1. \A team : team \notin Range(rest)
          BY <2>8, RangeOfSeq DEF Range
        <4>2. QED
          BY <2>3, <2>4, <2>6, <2>8, <4>1
      <3>2. outcome'[r] = "kept"
        BY <2>8, Decides
      <3>3. Justified(r, t)'
        BY <1>5, <2>2, <3>1, <3>2 DEF Justified, RecentNo
      <3>4. QED
        BY <1>1, <2>2, <2>5, <2>8, <3>3, MovedOn
    <2>9. CASE ~yes /\ rest # <<>> /\ AskAbout(r, Head(rest))
      <3>1. PICK n \in Question : n = Head(rest) /\ n # "user"
        BY <2>4, <2>9, HeadAndTail, ConstantTypes, PolicyAssumption
      <3>2. AskAbout(r, n) /\ pc'[r] = "lookup" /\ verdict'[r] = "none"
        BY <2>9, <3>1, AsksAbout
      <3>3. n = Head(req'[r].teams) /\ req'[r].teams # <<>>
        BY <2>2, <2>9, <3>1
      <3>4. \A team \in Range(req'[r].teams) : team \in Range(Exception(t).teams)
        BY <2>2, <2>3, <2>4
      <3>5. \A team \in Range(Exception(t).teams) :
              team \in Range(req'[r].teams) \/ RecentNo(r, team)' \/ req'[r].gone
        BY <1>5, <2>2, <2>3, <2>4, <2>6, <2>9 DEF RecentNo
      <3>6. Informed(r, t, n)'
        BY <1>4, <2>2, <2>3, <3>1, <3>2, <3>3, <3>4, <3>5 DEF Informed
      <3>7. QED
        BY <1>1, <2>2, <2>5, <3>2, <3>6, MovedOn
    <2>10. QED
      <3>1. \/ yes /\ Exception(t).identity /\ Decide(r, "kept")
            \/ yes /\ Exception(t).identity /\ Decide(r, "substituted")
            \/ yes /\ ~Exception(t).identity /\ Decide(r, "omitted")
            \/ ~yes /\ rest = <<>> /\ Decide(r, "kept")
            \/ ~yes /\ rest # <<>> /\ AskAbout(r, Head(rest))
        BY <1>1, <1>2, <1>8, AnsweredCases
      <3>2. QED
        BY <2>7, <2>8, <2>9, <3>1
  <1>9. QED
    BY <1>7, <1>8

LEMMA StartRequest ==
  ASSUME TypeOK, TypeOK', AnswersAreTrue, NEW r \in Request, RequestIsTrue(r), Start(r)
  PROVE  RequestIsTrue(r)'
  <1>1. r \in Process /\ pc[r] = "idle" /\ started'[r] = clock
        /\ UNCHANGED <<clock, lastYes, lastNo, cache, outcome>>
    BY StartCases, ConstantTypes DEF TypeOK, github
  <1>2. PICK t \in Target, login \in BOOLEAN :
          /\ req'[r] = [target |-> t, gone |-> FALSE, teams |-> <<>>, login |-> login]
          /\ login => Fresh("user")
    BY StartCases DEF TypeOK
  <1>3. req'[r].target = t /\ req'[r].login = login
    BY <1>2
  <1>4. login => RecentYes(r, "user")'
    <2>1. ASSUME login
          PROVE  lastYes["user"] >= clock - TTL("user") - MaxFlight
      <3>1. Fresh("user") /\ cache["user"].yes /\ clock \in Nat /\ clock <= clock
        BY <1>2, <2>1, StateTypes, ConstantTypes DEF AnswersAreTrue, Fresh
      <3>2. QED
        BY <3>1, FreshIsRecent, ConstantTypes
    <2>2. QED
      BY <1>1, <2>1 DEF RecentYes
  <1>5. pc'[r] = "match"
    <2>1. CASE pc' = [pc EXCEPT ![r] = "match"]
      BY <1>1, <2>1 DEF TypeOK
    <2>2. ASSUME NEW b \in Background, pc' = [pc EXCEPT ![r] = "match", ![b] = "ask"]
          PROVE  pc'[r] = "match"
      BY <1>1, <2>2, ProcessAssumption DEF TypeOK
    <2>3. QED
      BY <2>1, <2>2, StartCases
  <1>6. outcome'[r] = "none" /\ started'[r] <= clock'
    BY <1>1, StateTypes DEF RequestIsTrue
  <1>7. QED
    BY <1>3, <1>4, <1>5, <1>6 DEF RequestIsTrue, Asking, Leading

LEMMA RequestsKept ==
  ASSUME TypeOK, TypeOK', HistoryGoesOn, AnswersAreTrue, FlightsAreLed, RequestsAreTrue, [Next]_vars
  PROVE  RequestsAreTrue'
  <1> SUFFICES ASSUME NEW r \in Request
               PROVE  RequestIsTrue(r)'
    BY DEF RequestsAreTrue
  <1>1. RequestIsTrue(r) /\ r \in Process
    BY ConstantTypes DEF RequestsAreTrue
  <1>2. CASE UNCHANGED vars \/ Tick \/ \E k \in Question : Change(k)
    <2>1. UNCHANGED <<pc, key, verdict, req, outcome, started>>
      BY <1>2 DEF vars, Tick, Change
    <2>2. QED
      BY <1>1, <2>1, UntouchedRequest
  <1>3. ASSUME NEW p \in Process, Lookup(p) \/ Join(p) \/ Ask(p) \/ Delete(p) \/ Wake(p)
        PROVE  RequestIsTrue(r)'
    <2>1. CASE p = r
      BY <1>1, <1>3, <2>1, LookupRequest, JoinRequest, AskRequest, DeleteRequest, WakeRequest
    <2>2. CASE p # r
      <3>1. pc'[r] = pc[r] /\ key'[r] = key[r] /\ verdict'[r] = verdict[r]
        BY <1>1, <1>3, <2>2, OthersUntouched
      <3>2. UNCHANGED <<req, outcome, started>>
        BY <1>3, AskingKeeps
      <3>3. QED
        BY <1>1, <3>1, <3>2, UntouchedRequest
    <2>3. QED
      BY <2>1, <2>2
  <1>4. ASSUME NEW p \in Process, Store(p)
        PROVE  RequestIsTrue(r)'
    BY <1>1, <1>4, StoreRequest
  <1>5. ASSUME NEW s \in Request, Match(s) \/ Answered(s)
        PROVE  RequestIsTrue(r)'
    <2>1. CASE s = r
      BY <1>1, <1>5, <2>1, MatchRequest, AnsweredRequest
    <2>2. CASE s # r
      <3>1. pc'[r] = pc[r] /\ key'[r] = key[r] /\ verdict'[r] = verdict[r]
            /\ req'[r] = req[r] /\ outcome'[r] = outcome[r] /\ started'[r] = started[r]
        BY <1>1, <1>5, <2>2, MovesAlone
      <3>2. QED
        BY <1>1, <3>1, UntouchedRequest
    <2>3. QED
      BY <2>1, <2>2
  <1>6. ASSUME NEW s \in Request, Cancel(s)
        PROVE  RequestIsTrue(r)'
    <2>1. CASE s = r
      BY <1>1, <1>6, <2>1, CancelRequest
    <2>2. CASE s # r
      <3>1. pc'[r] = pc[r] /\ key'[r] = key[r] /\ verdict'[r] = verdict[r]
            /\ req'[r] = req[r] /\ outcome'[r] = outcome[r] /\ started'[r] = started[r]
        BY <1>1, <1>6, <2>2 DEF Cancel, GoTo, TypeOK
      <3>2. QED
        BY <1>1, <3>1, UntouchedRequest
    <2>3. QED
      BY <2>1, <2>2
  <1>7. ASSUME NEW s \in Request, Start(s)
        PROVE  RequestIsTrue(r)'
    <2>1. CASE s = r
      BY <1>1, <1>7, <2>1, StartRequest
    <2>2. CASE s # r
      <3>1. UNCHANGED <<verdict, outcome>> /\ started'[r] = started[r] /\ req'[r] = req[r]
        BY <1>7, <2>2, StartCases DEF TypeOK
      <3>2. pc'[r] = pc[r] /\ key'[r] = key[r]
        <4>1. CASE pc' = [pc EXCEPT ![s] = "match"] /\ UNCHANGED <<key, flight>>
          BY <1>1, <2>2, <4>1 DEF TypeOK
        <4>2. ASSUME NEW b \in Background, pc' = [pc EXCEPT ![s] = "match", ![b] = "ask"],
                     key' = [key EXCEPT ![b] = "user"]
              PROVE  pc'[r] = pc[r] /\ key'[r] = key[r]
          BY <1>1, <2>2, <4>2, ProcessAssumption DEF TypeOK
        <4>3. QED
          BY <1>7, <4>1, <4>2, StartCases
      <3>3. QED
        BY <1>1, <3>1, <3>2, UntouchedRequest
    <2>3. QED
      BY <2>1, <2>2
  <1>8. QED
    BY <1>2, <1>3, <1>4, <1>5, <1>6, <1>7, StepCases

-----------------------------------------------------------------------------
(* The theorems.                                                           *)

LEMMA IInvInit ==
  ASSUME Init
  PROVE  IInv
  <1> USE ConstantTypes
  <1>1. TypeOK
    <2>1. clock \in 0..MaxClock /\ faults \in 0..MaxFaults /\ truth \in [Question -> BOOLEAN]
      BY DEF Init
    <2>2. cache \in [Question -> [yes : BOOLEAN, at : Nat] \cup {Absent}]
          /\ flight \in [Question -> [open : BOOLEAN, yes : BOOLEAN] \cup {Absent}]
      BY DEF Init
    <2>3. pc \in [Process -> {"idle", "match", "lookup", "join", "wait",
                            "ask", "store", "delete", "answered", "done"}]
          /\ key \in [Process -> Question] /\ verdict \in [Process -> {"none", "yes", "no"}]
          /\ asked \in [Process -> Nat]
      BY DEF Init
    <2>4. req \in [Request -> [target : Target \cup {Absent}, login : BOOLEAN, gone : BOOLEAN,
                               teams : Seq(Team)]]
      <3>1. NoRequest \in [target : Target \cup {Absent}, login : BOOLEAN, gone : BOOLEAN,
                           teams : Seq(Team)]
        BY DEF NoRequest
      <3>2. QED
        BY <3>1 DEF Init
    <2>5. outcome \in [Request -> {"none", "kept", "omitted", "substituted"}]
          /\ started \in [Request -> Nat]
      BY DEF Init
    <2>6. Never \in Int
      BY DEF Never
    <2>7. lastYes \in [Question -> Int] /\ lastNo \in [Question -> Int]
      BY <2>6 DEF Init
    <2>8. QED
      BY <2>1, <2>2, <2>3, <2>4, <2>5, <2>7 DEF TypeOK
  <1>2. FlightsAreLed
    BY DEF Init, FlightsAreLed, Leading
  <1>3. AnswersAreTrue
    <2>1. Never \in Int /\ Never <= 0
      BY DEF Never
    <2>2. QED
      BY <2>1 DEF Init, AnswersAreTrue
  <1>4. RequestsAreTrue
    BY DEF Init, RequestsAreTrue, RequestIsTrue, Asking, Leading
  <1>5. BackgroundIsSimple
    BY DEF Init, BackgroundIsSimple
  <1>6. QED
    BY <1>1, <1>2, <1>3, <1>4, <1>5 DEF IInv

LEMMA IInvNext ==
  ASSUME IInv, [Next]_vars
  PROVE  IInv'
  <1>1. TypeOK /\ FlightsAreLed /\ AnswersAreTrue /\ RequestsAreTrue /\ BackgroundIsSimple
    BY DEF IInv
  <1>2. TypeOK' /\ HistoryGoesOn
    BY <1>1, TypeKept, HistoryKept
  <1>3. FlightsAreLed' /\ AnswersAreTrue' /\ BackgroundIsSimple'
    BY <1>1, FlightsKept, AnswersKept, BackgroundKept
  <1>4. RequestsAreTrue'
    BY <1>1, <1>2, RequestsKept
  <1>5. QED
    BY <1>2, <1>3, <1>4 DEF IInv

LEMMA IInvHolds == Spec => []IInv
  BY IInvInit, IInvNext, PTL DEF Spec

\* Every variable has its type: a request never asks who is in a team that is not one.
THEOREM TypeCorrect == Spec => []TypeOK
  <1>1. IInv => TypeOK
    BY DEF IInv
  <1>2. QED
    BY <1>1, IInvHolds, PTL

\* evaluate lifts the restriction only by the first usable exception about the target,
\* and past its team gate only for a caller that GitHub has recognised and called a
\* member within the life of a cache entry, whoever of the waiting goroutines asked.
THEOREM OnlyMembersAreLifted == Spec => []LiftedForMembers
  <1>1. ASSUME IInv, NEW r \in Request, outcome[r] \in {"omitted", "substituted"}
        PROVE  \E i \in About(req[r].target) :
                 LET e == Exceptions[i] IN
                 /\ \A j \in About(req[r].target) : j < i => Exceptions[j].badTeams
                 /\ e.badTeams => e.teams # <<>>
                 /\ e.teams # <<>> => /\ \E k \in Range(e.teams) : RecentYes(r, k)
                                      /\ RecentYes(r, "user")
                 /\ e.identity = (outcome[r] = "substituted")
                 /\ e.identity => RecentYes(r, "user")
    <2>1. RequestIsTrue(r) /\ key[r] \in Question
      BY <1>1, StateTypes, ConstantTypes DEF IInv, RequestsAreTrue
    <2>2. pc[r] = "done" /\ req[r].target \in Target /\ (req[r].login => RecentYes(r, "user"))
      BY <1>1, <2>1 DEF RequestIsTrue
    <2>3. PICK t \in Target : req[r].target = t
      BY <2>2
    <2>4. Justified(r, t)
      BY <2>1, <2>2, <2>3 DEF RequestIsTrue
    <2>5. /\ Matching(t) # {}
          /\ Exception(t).teams # <<>> => req[r].login /\ \E k \in Range(Exception(t).teams) : RecentYes(r, k)
          /\ Exception(t).identity <=> outcome[r] = "substituted"
          /\ Exception(t).identity => req[r].login
      BY <1>1, <2>4, Zenon DEF Justified
    <2>6. PICK i \in About(t) : /\ Exceptions[i] = Exception(t) /\ Gated(i)
                                /\ \A j \in About(t) : j < i => Exceptions[j].badTeams
      BY <2>5, ExceptionIsAbout
    <2>7. Exception(t).identity \in BOOLEAN
      BY <2>5, ExceptionType
    <2>8. Exception(t).identity = (outcome[r] = "substituted")
      BY <2>5, <2>7
    <2>9. Exceptions[i].badTeams => Exceptions[i].teams # <<>>
      BY <2>6 DEF Gated
    <2>10. QED
      BY <2>2, <2>3, <2>5, <2>6, <2>8, <2>9, Zenon
  <1>2. IInv => LiftedForMembers
    BY <1>1, Zenon DEF LiftedForMembers
  <1>3. QED
    BY <1>2, IInvHolds, PTL

\* A caller that is known is only kept restricted by a team gate when every team of it
\* has recently said no, or a lookup for it has failed, unless its client is gone.
THEOREM OnlyNonMembersAreKept == Spec => []KeptForNonMembers
  <1>1. ASSUME IInv, NEW r \in Request, outcome[r] = "kept", req[r].login, ~req[r].gone,
               Matching(req[r].target) # {}, ~Exception(req[r].target).identity
        PROVE  \A k \in Range(Exception(req[r].target).teams) : RecentNo(r, k)
    <2>1. RequestIsTrue(r) /\ key[r] \in Question
      BY <1>1, StateTypes, ConstantTypes DEF IInv, RequestsAreTrue
    <2>2. pc[r] = "done" /\ req[r].target \in Target
      BY <1>1, <2>1 DEF RequestIsTrue
    <2>3. Justified(r, req[r].target)
      BY <2>1, <2>2 DEF RequestIsTrue
    <2>4. QED
      BY <1>1, <2>3 DEF Justified
  <1>2. IInv => KeptForNonMembers
    BY <1>1, Zenon DEF KeptForNonMembers
  <1>3. QED
    BY <1>2, IInvHolds, PTL

\* Whoever waits for the answer of somebody else's lookup waits for a goroutine that is
\* asking GitHub or about to close the flight: no waiter has missed the close.
THEOREM NobodyWaitsInVain == Spec => []WaitersHaveALeader
  <1>1. ASSUME IInv, NEW p \in Process, pc[p] = "wait", verdict[p] = "none"
        PROVE  \E q \in Process : key[q] = key[p] /\ pc[q] \in {"ask", "store"}
    <2>1. PICK k \in Question : key[p] = k
      BY <1>1, StateTypes DEF IInv
    <2>2. flight[k] # Absent /\ flight[k].open
      BY <1>1, <2>1 DEF IInv, FlightsAreLed
    <2>3. PICK q \in Process : pc[q] \in Leading /\ key[q] = k
      BY <1>1, <2>2 DEF IInv, FlightsAreLed
    <2>4. pc[q] # "delete"
      BY <1>1, <2>2, <2>3 DEF IInv, FlightsAreLed
    <2>5. QED
      BY <2>1, <2>3, <2>4 DEF Leading
  <1>2. IInv => WaitersHaveALeader
    BY <1>1 DEF WaitersHaveALeader
  <1>3. QED
    BY <1>2, IInvHolds, PTL

-----------------------------------------------------------------------------
(* Proxied requests (ProxyRequest).                                        *)

\* Before and after the client token is looked at, and on the way to an archive.
Unresolved == {"release", "allow", "border"}
Resolving  == {"resolve", "check", "mint", "resolve again"}
Archiving  == {"base", "lock", "archive"}

\* The request goes upstream, or has gone.
Sending(h) == stage[h] = "forward" \/ answer[h].as = "forwarded"

\* A handler that serves a request has seen the row and the configuration in force.
HasSeen(h) ==
  Busy(h) =>
    /\ row \in rowsSeen[h]
    /\ conf \in confsSeen[h]
    /\ reloading # Nothing => reloading \in confsSeen[h]

RequestIsTyped(h) ==
  /\ stage[h] # "idle" => request[h] \in Load[scenario][h]
  /\ answer[h].as \in Answers
  /\ (answer[h].as # "none") <=> (stage[h] = "done")
  /\ rowsSeen[h] \subseteq Rows[scenario]
  /\ confsSeen[h] \subseteq Confs[scenario]

\* Where requests of a kind or with a credential get to.
PlaceIsRight(h) ==
  /\ stage[h] \in Archiving => request[h].kind = "archive"
  /\ stage[h] \in Unresolved \cup Resolving \cup {"forward"} => request[h].kind # "archive"
  /\ stage[h] \in Resolving => request[h].cred = "client"

\* What the analysis has said so far, it said of a live row that was in force.
WasPassed(h, q) == \E r \in rowsSeen[h] : r.live /\ Passes(q, r)

AnalysisIsTrue(h) ==
  /\ stage[h] = "check" =>
       seen[h] \in rowsSeen[h] /\ seen[h].live /\ ~Unscoped(request[h])
  /\ stage[h] = "mint" =>
       seen[h] \in rowsSeen[h] /\ seen[h].live /\ Passes(request[h], seen[h])
  /\ stage[h] = "resolve again" => Unscoped(request[h]) \/ WasPassed(h, request[h])
  /\ Sending(h) /\ request[h].cred = "client" => WasPassed(h, request[h])
  /\ answer[h].as = "denied" =>
       \E r \in rowsSeen[h] : r.live /\ ~Passes(request[h], r)

\* And so is the restriction that is sent upstream.
RestrictionIsTrue(h) ==
  Sending(h) /\ request[h].cred = "client" /\ IsAgent[scenario] =>
    \E r \in rowsSeen[h] : r.live /\ sent[h] = Restriction(r)

\* The configurations that let a request pass, or named the base of an archive.
PolicyIsTrue(h) ==
  /\ Sending(h) /\ request[h].cred = "raw" => \E c \in confsSeen[h] : ~c.raw
  /\ Sending(h) /\ request[h].cred = "anonymous git" => \E c \in confsSeen[h] : ~c.anonymous
  /\ stage[h] = "lock" => \E c \in confsSeen[h] : c.archiveTo = seen[h]
  /\ stage[h] = "archive" => seen[h] = "" \/ \E c \in confsSeen[h] : c.archiveTo = seen[h]
  /\ answer[h].as = "redirected" /\ request[h].kind = "archive" =>
       /\ \E c \in confsSeen[h] : c.archiveTo = answer[h].to
       /\ \E c \in confsSeen[h] : request[h].repo \notin c.archiveAllow

RequestIsRight(h) ==
  /\ RequestIsTyped(h)
  /\ HasSeen(h)
  /\ PlaceIsRight(h)
  /\ AnalysisIsTrue(h)
  /\ RestrictionIsTrue(h)
  /\ PolicyIsTrue(h)

\* The cached base is what redirect_to came to when it was looked at.
BaseIsCached == cachedTo \in {"", cachedIn}

\* Tables and caches.
TablesAreTyped ==
  /\ scenario \in Scenario
  /\ row \in Rows[scenario]
  /\ conf \in Confs[scenario]
  /\ reloading \in Confs[scenario] \cup {Nothing}
  /\ updates \in 0..MaxUpdates[scenario]
  /\ BaseIsCached

HandlersAreTyped ==
  /\ stage \in [Handler -> {"idle", "done", "forward"} \cup Unresolved \cup Resolving \cup Archiving]
  /\ DOMAIN request = Handler /\ DOMAIN seen = Handler /\ DOMAIN sent = Handler
  /\ DOMAIN answer = Handler /\ DOMAIN rowsSeen = Handler /\ DOMAIN confsSeen = Handler

ProxyInv ==
  /\ TablesAreTyped
  /\ HandlersAreTyped
  /\ \A h \in Handler : RequestIsRight(h)

LEMMA ProxyStarts == ASSUME ProxyInit PROVE ProxyInv
  <1>1. TablesAreTyped
    <2>1. /\ scenario \in Scenario /\ row \in Rows[scenario] /\ conf \in Confs[scenario]
          /\ reloading = Nothing /\ updates = 0
      BY DEF ProxyInit
    <2>2. BaseIsCached
      BY DEF ProxyInit, BaseIsCached
    <2>3. MaxUpdates[scenario] \in Nat
      BY <2>1, ProxyAssumption
    <2>4. updates \in 0..MaxUpdates[scenario]
      BY <2>1, <2>3
    <2>5. QED
      BY <2>1, <2>2, <2>4 DEF TablesAreTyped
  <1>2. HandlersAreTyped
    BY DEF ProxyInit, HandlersAreTyped
  <1>3. ASSUME NEW h \in Handler PROVE RequestIsRight(h)
    <2>1. /\ stage[h] = "idle" /\ answer[h].as = "none" /\ rowsSeen[h] = {} /\ confsSeen[h] = {}
      BY DEF ProxyInit
    <2>2. QED
      BY <2>1 DEF RequestIsRight, RequestIsTyped, HasSeen, PlaceIsRight, AnalysisIsTrue,
        RestrictionIsTrue, PolicyIsTrue, Sending, Busy, Answers,
        Unresolved, Resolving, Archiving
  <1>4. QED
    BY <1>1, <1>2, <1>3 DEF ProxyInv

\* Who is not concerned by a step stays right.
Keeps(h) ==
  /\ stage'[h] = stage[h] /\ request'[h] = request[h] /\ seen'[h] = seen[h]
  /\ sent'[h] = sent[h] /\ answer'[h] = answer[h]

LEMMA OthersStayRight ==
  ASSUME ProxyInv, NEW h \in Handler, Keeps(h), scenario' = scenario,
         rowsSeen[h] \subseteq rowsSeen'[h], confsSeen[h] \subseteq confsSeen'[h],
         rowsSeen'[h] \subseteq Rows[scenario], confsSeen'[h] \subseteq Confs[scenario],
         HasSeen(h)'
  PROVE  RequestIsRight(h)'
  <1>1. RequestIsRight(h)
    BY DEF ProxyInv
  <1>2. RequestIsTyped(h)' /\ PlaceIsRight(h)'
    BY <1>1 DEF RequestIsRight, RequestIsTyped, PlaceIsRight, Keeps
  <1>3. AnalysisIsTrue(h)'
    <2>1. AnalysisIsTrue(h)
      BY <1>1 DEF RequestIsRight
    <2>2. QED
      BY <2>1 DEF AnalysisIsTrue, WasPassed, Sending, Keeps
  <1>4. RestrictionIsTrue(h)'
    BY <1>1 DEF RequestIsRight, RestrictionIsTrue, Sending, Keeps
  <1>5. PolicyIsTrue(h)'
    BY <1>1 DEF RequestIsRight, PolicyIsTrue, Sending, Keeps
  <1>6. QED
    BY <1>2, <1>3, <1>4, <1>5 DEF RequestIsRight

\* One handler moves and the tables stay.
Places == {"idle", "done", "forward"} \cup Unresolved \cup Resolving \cup Archiving

OnlyHandler(h) ==
  /\ UNCHANGED <<scenario, row, conf, reloading, updates, base>>
  /\ stage' \in [Handler -> Places]
  /\ DOMAIN request' = Handler /\ DOMAIN seen' = Handler /\ DOMAIN sent' = Handler
  /\ DOMAIN answer' = Handler /\ DOMAIN rowsSeen' = Handler /\ DOMAIN confsSeen' = Handler
  /\ \A g \in Handler \ {h} :
       Keeps(g) /\ rowsSeen'[g] = rowsSeen[g] /\ confsSeen'[g] = confsSeen[g]

LEMMA OneMoves ==
  ASSUME ProxyInv, NEW h \in Handler, OnlyHandler(h), BaseIsCached',
         RequestIsRight(h)'
  PROVE  ProxyInv'
  <1>1. TablesAreTyped'
    BY DEF ProxyInv, TablesAreTyped, OnlyHandler
  <1>2. HandlersAreTyped'
    BY DEF HandlersAreTyped, OnlyHandler, Places
  <1>3. ASSUME NEW g \in Handler, g # h PROVE RequestIsRight(g)'
    <2>1. /\ Keeps(g) /\ rowsSeen'[g] = rowsSeen[g] /\ confsSeen'[g] = confsSeen[g]
          /\ scenario' = scenario /\ row' = row /\ conf' = conf /\ reloading' = reloading
      BY <1>3 DEF OnlyHandler
    <2>2. HasSeen(g) /\ rowsSeen[g] \subseteq Rows[scenario] /\ confsSeen[g] \subseteq Confs[scenario]
      BY DEF ProxyInv, RequestIsRight, RequestIsTyped
    <2>3. HasSeen(g)'
      BY <2>1, <2>2 DEF HasSeen, Keeps, Busy
    <2>4. QED
      BY <2>1, <2>2, <2>3, OthersStayRight
  <1>4. QED
    BY <1>1, <1>2, <1>3 DEF ProxyInv

\* What a handler keeps while it moves from one stage to the next.
Goes(h, here, there) ==
  /\ stage[h] = here /\ stage'[h] = there
  /\ request'[h] = request[h] /\ rowsSeen'[h] = rowsSeen[h] /\ confsSeen'[h] = confsSeen[h]
  /\ OnlyHandler(h)
  /\ BaseIsCached'

LEMMA OneGoesOn ==
  ASSUME ProxyInv, NEW h \in Handler, NEW here, NEW there, Goes(h, here, there),
         here \notin {"idle", "done"}, there # "idle",
         answer'[h].as \in Answers, (answer'[h].as # "none") <=> (there = "done"),
         PlaceIsRight(h)', AnalysisIsTrue(h)', RestrictionIsTrue(h)', PolicyIsTrue(h)'
  PROVE  ProxyInv'
  <1>1. RequestIsTyped(h) /\ HasSeen(h)
    BY DEF ProxyInv, RequestIsRight
  <1>2. UNCHANGED <<scenario, row, conf, reloading>>
    BY DEF Goes, OnlyHandler
  <1>3. RequestIsTyped(h)' /\ HasSeen(h)'
    BY <1>1, <1>2 DEF Goes, RequestIsTyped, HasSeen, Busy
  <1>4. RequestIsRight(h)'
    BY <1>3 DEF RequestIsRight
  <1>5. QED
    BY <1>4, OneMoves DEF Goes

\* The common part of the steps of a handler: it goes from here to there, or answers.
LEMMA StepGoes ==
  ASSUME ProxyInv, NEW h \in Handler, NEW here, Step(h, here),
         NEW there \in Places, stage' = [stage EXCEPT ![h] = there],
         \A g \in Handler \ {h} :
           seen'[g] = seen[g] /\ sent'[g] = sent[g] /\ answer'[g] = answer[g],
         DOMAIN seen' = Handler, DOMAIN sent' = Handler, DOMAIN answer' = Handler,
         BaseIsCached'
  PROVE  Goes(h, here, there)
  <1>1. HandlersAreTyped /\ TablesAreTyped
    BY DEF ProxyInv
  <1>2. /\ UNCHANGED <<scenario, row, conf, reloading, updates, base, request, rowsSeen, confsSeen>>
        /\ stage[h] = here
    BY DEF Step, environment, history
  <1>3. /\ stage' \in [Handler -> Places] /\ stage'[h] = there
        /\ \A g \in Handler \ {h} : stage'[g] = stage[g]
    BY <1>1 DEF HandlersAreTyped, Places
  <1>4. OnlyHandler(h)
    BY <1>1, <1>2, <1>3 DEF HandlersAreTyped, OnlyHandler, Keeps
  <1>5. QED
    BY <1>2, <1>3, <1>4 DEF Goes

\* The same with the answers of the code.
LEMMA GoToGoes ==
  ASSUME ProxyInv, NEW h \in Handler, NEW here, Step(h, here),
         NEW there \in Places, MoveTo(h, there),
         \A g \in Handler \ {h} : seen'[g] = seen[g] /\ sent'[g] = sent[g],
         DOMAIN seen' = Handler, DOMAIN sent' = Handler, BaseIsCached'
  PROVE  Goes(h, here, there) /\ answer'[h] = answer[h]
  <1>1. stage' = [stage EXCEPT ![h] = there] /\ answer' = answer /\ DOMAIN answer = Handler
    BY DEF MoveTo, ProxyInv, HandlersAreTyped
  <1>2. QED
    BY <1>1, StepGoes

LEMMA AnswerGoes ==
  ASSUME ProxyInv, NEW h \in Handler, NEW here, Step(h, here),
         NEW a, stage' = [stage EXCEPT ![h] = "done"], answer' = [answer EXCEPT ![h] = a],
         \A g \in Handler \ {h} : seen'[g] = seen[g] /\ sent'[g] = sent[g],
         DOMAIN seen' = Handler, DOMAIN sent' = Handler, BaseIsCached'
  PROVE  Goes(h, here, "done") /\ answer'[h] = a
  <1>1. DOMAIN answer = Handler
    BY DEF ProxyInv, HandlersAreTyped
  <1>2. /\ answer'[h] = a /\ DOMAIN answer' = Handler
        /\ \A g \in Handler \ {h} : answer'[g] = answer[g]
    BY <1>1
  <1>3. "done" \in Places
    BY DEF Places
  <1>4. QED
    BY <1>2, <1>3, StepGoes

\* A stage at which nothing has to hold but that the request may be there.
LEMMA GoesFreely ==
  ASSUME ProxyInv, NEW h \in Handler, NEW here, NEW there, Goes(h, here, there),
         here \notin {"idle", "done"},
         there \in Unresolved \cup {"resolve"}, answer'[h] = answer[h],
         request[h].kind # "archive", there = "resolve" => request[h].cred = "client"
  PROVE  ProxyInv'
  <1>1. RequestIsTyped(h)
    BY DEF ProxyInv, RequestIsRight
  <1>2. answer[h].as = "none"
    BY <1>1 DEF RequestIsTyped, Goes
  <1>3. /\ answer'[h].as = "none" /\ stage'[h] = there /\ request'[h] = request[h]
        /\ there \notin {"forward", "done", "idle", "check", "mint", "resolve again"} \cup Archiving
    BY <1>2 DEF Goes, Unresolved, Archiving
  <1>4. PlaceIsRight(h)'
    BY <1>3 DEF PlaceIsRight, Unresolved, Resolving
  <1>5. AnalysisIsTrue(h)' /\ RestrictionIsTrue(h)' /\ PolicyIsTrue(h)'
    BY <1>3 DEF AnalysisIsTrue, RestrictionIsTrue, PolicyIsTrue, Sending, Archiving
  <1>6. QED
    BY <1>3, <1>4, <1>5, OneGoesOn DEF Answers

\* An answer that says nothing about what the token grants.
LEMMA AnswersFreely ==
  ASSUME ProxyInv, NEW h \in Handler, NEW here, Goes(h, here, "done"),
         here \notin {"idle", "done"},
         \/ answer'[h].as \in {"unauthorized", "blocked", "invalid", "failed", "not found"}
         \/ answer'[h].as = "redirected" /\ request[h].kind # "archive"
  PROVE  ProxyInv'
  <1>1. /\ answer'[h].as \in Answers \ {"none", "forwarded", "denied"}
        /\ stage'[h] = "done" /\ request'[h] = request[h]
        /\ answer'[h].as = "redirected" => request[h].kind # "archive"
    BY DEF Answers, Goes
  <1>2. PlaceIsRight(h)'
    BY <1>1 DEF PlaceIsRight, Unresolved, Resolving, Archiving
  <1>3. AnalysisIsTrue(h)' /\ RestrictionIsTrue(h)' /\ PolicyIsTrue(h)'
    BY <1>1 DEF AnalysisIsTrue, RestrictionIsTrue, PolicyIsTrue, Sending
  <1>4. QED
    BY <1>1, <1>2, <1>3, OneGoesOn

\* The environment adds to what the handlers have seen.
LEMMA TablesMove ==
  ASSUME ProxyInv, TablesAreTyped', scenario' = scenario,
         UNCHANGED <<stage, request, seen, sent, answer>>,
         DOMAIN rowsSeen' = Handler, DOMAIN confsSeen' = Handler,
         \A h \in Handler :
           /\ rowsSeen[h] \subseteq rowsSeen'[h] /\ rowsSeen'[h] \subseteq Rows[scenario]
           /\ confsSeen[h] \subseteq confsSeen'[h] /\ confsSeen'[h] \subseteq Confs[scenario]
           /\ HasSeen(h)'
  PROVE  ProxyInv'
  <1>1. HandlersAreTyped'
    BY DEF ProxyInv, HandlersAreTyped
  <1>2. ASSUME NEW h \in Handler PROVE RequestIsRight(h)'
    <2>1. Keeps(h)
      BY DEF Keeps
    <2>2. QED
      BY <2>1, OthersStayRight
  <1>3. QED
    BY <1>1, <1>2 DEF ProxyInv

LEMMA ChangeTokenRight ==
  ASSUME ProxyInv, ChangeToken
  PROVE  ProxyInv'
  <1>1. TablesAreTyped /\ HandlersAreTyped
    BY DEF ProxyInv
  <1>2. /\ UNCHANGED <<scenario, conf, reloading, base, cachedIn, cachedTo>>
        /\ UNCHANGED <<stage, request, seen, sent, answer, confsSeen>>
        /\ updates < MaxUpdates[scenario] /\ updates' = updates + 1
        /\ row' \in Rows[scenario]
        /\ rowsSeen' = [h \in Handler |-> IF Busy(h) THEN rowsSeen[h] \cup {row'} ELSE rowsSeen[h]]
    BY DEF ChangeToken, codeload
  <1>3. updates' \in 0..MaxUpdates[scenario]
    <2>1. MaxUpdates[scenario] \in Nat /\ updates \in 0..MaxUpdates[scenario]
      BY <1>1, ProxyAssumption DEF TablesAreTyped
    <2>2. QED
      BY <1>2, <2>1
  <1>4. TablesAreTyped'
    BY <1>1, <1>2, <1>3 DEF TablesAreTyped, BaseIsCached
  <1>5. ASSUME NEW h \in Handler
        PROVE  /\ rowsSeen[h] \subseteq rowsSeen'[h] /\ rowsSeen'[h] \subseteq Rows[scenario]
               /\ confsSeen[h] \subseteq confsSeen'[h] /\ confsSeen'[h] \subseteq Confs[scenario]
               /\ HasSeen(h)'
    <2>1. HasSeen(h) /\ rowsSeen[h] \subseteq Rows[scenario] /\ confsSeen[h] \subseteq Confs[scenario]
      BY DEF ProxyInv, RequestIsRight, RequestIsTyped
    <2>2. rowsSeen'[h] = IF Busy(h) THEN rowsSeen[h] \cup {row'} ELSE rowsSeen[h]
      BY <1>2
    <2>3. QED
      BY <1>2, <2>1, <2>2 DEF HasSeen, Busy
  <1>6. DOMAIN rowsSeen' = Handler /\ DOMAIN confsSeen' = Handler
    BY <1>1, <1>2 DEF HandlersAreTyped
  <1>7. QED
    BY <1>2, <1>4, <1>5, <1>6, TablesMove

LEMMA BeginReloadRight ==
  ASSUME ProxyInv, BeginReload
  PROVE  ProxyInv'
  <1>1. TablesAreTyped /\ HandlersAreTyped
    BY DEF ProxyInv
  <1>2. /\ UNCHANGED <<scenario, row, conf, base, cachedIn, cachedTo>>
        /\ UNCHANGED <<stage, request, seen, sent, answer, rowsSeen>>
        /\ updates < MaxUpdates[scenario] /\ updates' = updates + 1
        /\ reloading' \in Confs[scenario]
        /\ confsSeen' = [h \in Handler |->
                           IF Busy(h) THEN confsSeen[h] \cup {reloading'} ELSE confsSeen[h]]
    BY DEF BeginReload, codeload
  <1>3. updates' \in 0..MaxUpdates[scenario]
    <2>1. MaxUpdates[scenario] \in Nat /\ updates \in 0..MaxUpdates[scenario]
      BY <1>1, ProxyAssumption DEF TablesAreTyped
    <2>2. QED
      BY <1>2, <2>1
  <1>4. TablesAreTyped'
    BY <1>1, <1>2, <1>3 DEF TablesAreTyped, BaseIsCached
  <1>5. ASSUME NEW h \in Handler
        PROVE  /\ rowsSeen[h] \subseteq rowsSeen'[h] /\ rowsSeen'[h] \subseteq Rows[scenario]
               /\ confsSeen[h] \subseteq confsSeen'[h] /\ confsSeen'[h] \subseteq Confs[scenario]
               /\ HasSeen(h)'
    <2>1. HasSeen(h) /\ rowsSeen[h] \subseteq Rows[scenario] /\ confsSeen[h] \subseteq Confs[scenario]
      BY DEF ProxyInv, RequestIsRight, RequestIsTyped
    <2>2. confsSeen'[h] = IF Busy(h) THEN confsSeen[h] \cup {reloading'} ELSE confsSeen[h]
      BY <1>2
    <2>3. QED
      BY <1>2, <2>1, <2>2 DEF HasSeen, Busy
  <1>6. DOMAIN rowsSeen' = Handler /\ DOMAIN confsSeen' = Handler
    BY <1>1, <1>2 DEF HandlersAreTyped
  <1>7. QED
    BY <1>2, <1>4, <1>5, <1>6, TablesMove

LEMMA EndReloadRight ==
  ASSUME ProxyInv, EndReload
  PROVE  ProxyInv'
  <1>1. TablesAreTyped /\ HandlersAreTyped
    BY DEF ProxyInv
  <1>2. /\ UNCHANGED <<scenario, row, updates, base, cachedIn, cachedTo>>
        /\ UNCHANGED <<stage, request, seen, sent, answer, rowsSeen, confsSeen>>
        /\ reloading # Nothing /\ conf' = reloading /\ reloading' = Nothing
    BY DEF EndReload, codeload, history
  <1>3. TablesAreTyped'
    BY <1>1, <1>2 DEF TablesAreTyped, BaseIsCached
  <1>4. ASSUME NEW h \in Handler
        PROVE  /\ rowsSeen[h] \subseteq Rows[scenario] /\ confsSeen[h] \subseteq Confs[scenario]
               /\ HasSeen(h)'
    <2>1. HasSeen(h) /\ rowsSeen[h] \subseteq Rows[scenario] /\ confsSeen[h] \subseteq Confs[scenario]
      BY DEF ProxyInv, RequestIsRight, RequestIsTyped
    <2>2. QED
      BY <1>2, <2>1 DEF HasSeen, Busy
  <1>5. DOMAIN rowsSeen' = Handler /\ DOMAIN confsSeen' = Handler
    BY <1>1, <1>2 DEF HandlersAreTyped
  <1>6. QED
    BY <1>2, <1>3, <1>4, <1>5, TablesMove

LEMMA ArriveRight ==
  ASSUME ProxyInv, NEW h \in Handler, Arrive(h)
  PROVE  ProxyInv'
  <1>1. TablesAreTyped /\ HandlersAreTyped /\ RequestIsTyped(h)
    BY DEF ProxyInv, RequestIsRight
  <1>2. PICK q \in Load[scenario][h] :
          /\ request' = [request EXCEPT ![h] = q]
          /\ stage' = [stage EXCEPT ![h] = CASE q.kind \in {"rest", "graphql"} -> "border"
                                              [] q.kind \in {"git", "web", "release"} -> "release"
                                              [] q.kind = "archive" -> "base"]
    BY DEF Arrive
  <1>3. /\ UNCHANGED <<scenario, row, conf, reloading, updates, base, cachedIn, cachedTo, seen, sent, answer>>
        /\ rowsSeen' = [rowsSeen EXCEPT ![h] = {row}]
        /\ confsSeen' = [confsSeen EXCEPT ![h] = {conf} \cup ({reloading} \ {Nothing})]
        /\ stage[h] = "idle"
    BY DEF Arrive, environment, codeload
  <1>4. q.kind \in {"rest", "graphql", "git", "web", "release", "archive"}
    BY <1>1, ProxyAssumption DEF TablesAreTyped
  <1> DEFINE there == CASE q.kind \in {"rest", "graphql"} -> "border"
                        [] q.kind \in {"git", "web", "release"} -> "release"
                        [] q.kind = "archive" -> "base"
  <1>5. /\ there \in {"border", "release", "base"}
        /\ there = "base" <=> q.kind = "archive"
    <2>1. CASE q.kind \in {"rest", "graphql"}
      BY <2>1
    <2>2. CASE q.kind \in {"git", "web", "release"}
      BY <2>2
    <2>3. CASE q.kind = "archive"
      BY <2>3
    <2>4. QED
      BY <1>4, <2>1, <2>2, <2>3
  <1>6. /\ stage' = [stage EXCEPT ![h] = there] /\ there \in Places
    BY <1>2, <1>5 DEF Places, Unresolved, Archiving
  <1> HIDE DEF there
  <1>7. /\ stage'[h] = there /\ request'[h] = q /\ rowsSeen'[h] = {row}
        /\ confsSeen'[h] = {conf} \cup ({reloading} \ {Nothing})
        /\ answer'[h] = answer[h] /\ answer[h].as = "none"
    BY <1>1, <1>2, <1>3, <1>6 DEF HandlersAreTyped, RequestIsTyped
  <1>8. OnlyHandler(h)
    BY <1>1, <1>2, <1>3, <1>6 DEF OnlyHandler, HandlersAreTyped, Keeps, Places
  <1>9. RequestIsTyped(h)' /\ HasSeen(h)'
    BY <1>1, <1>3, <1>5, <1>7 DEF RequestIsTyped, HasSeen, TablesAreTyped, Answers
  <1>10. PlaceIsRight(h)'
    BY <1>5, <1>7 DEF PlaceIsRight, Archiving, Unresolved, Resolving
  <1>11. AnalysisIsTrue(h)' /\ RestrictionIsTrue(h)' /\ PolicyIsTrue(h)'
    BY <1>5, <1>7 DEF AnalysisIsTrue, RestrictionIsTrue, PolicyIsTrue, Sending
  <1>12. BaseIsCached'
    BY <1>1, <1>3 DEF TablesAreTyped, BaseIsCached
  <1>13. QED
    BY <1>8, <1>9, <1>10, <1>11, <1>12, OneMoves DEF RequestIsRight

LEMMA FinishRight ==
  ASSUME ProxyInv, NEW h \in Handler, Finish(h)
  PROVE  ProxyInv'
  <1>1. TablesAreTyped /\ HandlersAreTyped
    BY DEF ProxyInv
  <1>2. /\ UNCHANGED <<scenario, row, conf, reloading, updates, base, cachedIn, cachedTo>>
        /\ stage' = [stage EXCEPT ![h] = "idle"]
        /\ request' = [request EXCEPT ![h] = Nothing]
        /\ seen' = [seen EXCEPT ![h] = Nothing]
        /\ sent' = [sent EXCEPT ![h] = Nothing]
        /\ answer' = [answer EXCEPT ![h] = [as |-> "none"]]
        /\ rowsSeen' = [rowsSeen EXCEPT ![h] = {}]
        /\ confsSeen' = [confsSeen EXCEPT ![h] = {}]
    BY DEF Finish, environment, codeload
  <1>3. /\ stage'[h] = "idle" /\ answer'[h].as = "none" /\ rowsSeen'[h] = {} /\ confsSeen'[h] = {}
    BY <1>1, <1>2 DEF HandlersAreTyped
  <1>4. OnlyHandler(h)
    BY <1>1, <1>2 DEF OnlyHandler, HandlersAreTyped, Keeps, Places
  <1>5. RequestIsRight(h)'
    BY <1>3 DEF RequestIsRight, RequestIsTyped, HasSeen, PlaceIsRight, AnalysisIsTrue,
        RestrictionIsTrue, PolicyIsTrue, Sending, Busy, Answers,
        Unresolved, Resolving, Archiving
  <1>6. BaseIsCached'
    BY <1>1, <1>2 DEF TablesAreTyped, BaseIsCached
  <1>7. QED
    BY <1>4, <1>5, <1>6, OneMoves

\* What a step that leaves seen, sent or the cached base alone need not show.
LEMMA Untouched ==
  ASSUME ProxyInv
  PROVE  /\ DOMAIN seen = Handler /\ DOMAIN sent = Handler
         /\ UNCHANGED codeload => BaseIsCached'
  BY DEF ProxyInv, HandlersAreTyped, TablesAreTyped, BaseIsCached, codeload

\* What is known of a request by the stage it is at.
LEMMA AtPlace ==
  ASSUME ProxyInv, NEW h \in Handler, stage[h] # "idle"
  PROVE  /\ HasSeen(h) /\ PlaceIsRight(h) /\ AnalysisIsTrue(h) /\ RestrictionIsTrue(h)
         /\ PolicyIsTrue(h) /\ request[h] \in Load[scenario][h] /\ scenario \in Scenario
         /\ stage[h] # "done" =>
              /\ answer[h].as = "none"
              /\ row \in rowsSeen[h] /\ conf \in confsSeen[h]
              /\ reloading # Nothing => reloading \in confsSeen[h]
  BY DEF ProxyInv, RequestIsRight, RequestIsTyped, HasSeen, Busy, TablesAreTyped

LEMMA ReadModeRight ==
  ASSUME ProxyInv, NEW h \in Handler, ReadMode(h)
  PROVE  ProxyInv'
  <1>1. /\ Step(h, "release") /\ stage[h] = "release" /\ BaseIsCached'
        /\ sent' = sent /\ DOMAIN seen = Handler /\ DOMAIN sent = Handler
    BY Untouched DEF ReadMode, Step
  <1>2. request[h].kind # "archive"
    BY <1>1, AtPlace DEF PlaceIsRight, Unresolved
  <1>3. PICK there \in {"border", "allow"} :
          /\ MoveTo(h, there)
          /\ seen' = seen \/ \E s : seen' = [seen EXCEPT ![h] = s]
    BY DEF ReadMode
  <1>4. /\ \A g \in Handler \ {h} : seen'[g] = seen[g] /\ sent'[g] = sent[g]
        /\ DOMAIN seen' = Handler /\ DOMAIN sent' = Handler
    BY <1>1, <1>3
  <1>5. there \in Places /\ there \in Unresolved
    BY DEF Places, Unresolved
  <1>6. Goes(h, "release", there) /\ answer'[h] = answer[h]
    BY <1>1, <1>3, <1>4, <1>5, GoToGoes
  <1>7. QED
    BY <1>2, <1>5, <1>6, GoesFreely

LEMMA ApplyReleasePolicyRight ==
  ASSUME ProxyInv, NEW h \in Handler, ApplyReleasePolicy(h)
  PROVE  ProxyInv'
  <1>1. /\ Step(h, "allow") /\ stage[h] = "allow" /\ BaseIsCached'
        /\ \A g \in Handler \ {h} : seen'[g] = seen[g] /\ sent'[g] = sent[g]
        /\ DOMAIN seen' = Handler /\ DOMAIN sent' = Handler
    BY Untouched DEF ApplyReleasePolicy, Step
  <1>2. request[h].kind # "archive"
    BY <1>1, AtPlace DEF PlaceIsRight, Unresolved
  <1>3. CASE MoveTo(h, "border")
    <2>1. Goes(h, "allow", "border") /\ answer'[h] = answer[h]
      BY <1>1, <1>3, GoToGoes DEF Places, Unresolved
    <2>2. QED
      BY <1>2, <2>1, GoesFreely DEF Unresolved
  <1>4. ASSUME NEW a, stage' = [stage EXCEPT ![h] = "done"], answer' = [answer EXCEPT ![h] = a],
               a.as \in {"blocked", "failed", "not found", "redirected"}
        PROVE  ProxyInv'
    <2>1. Goes(h, "allow", "done") /\ answer'[h] = a
      BY <1>1, <1>4, AnswerGoes
    <2>2. QED
      BY <1>2, <1>4, <2>1, AnswersFreely
  <1>5. ASSUME NEW x \in {"blocked", "failed", "not found"}, AnswerTo(h, x)
        PROVE  ProxyInv'
    <2> DEFINE a == [as |-> x]
    <2>1. a.as = x /\ stage' = [stage EXCEPT ![h] = "done"] /\ answer' = [answer EXCEPT ![h] = a]
      BY <1>5 DEF AnswerTo
    <2> HIDE DEF a
    <2>2. QED
      BY <1>4, <2>1
  <1>6. CASE request[h].repo \in conf.allow \/ seen[h] = "torn"
    <2>1. MoveTo(h, "border")
      BY <1>6 DEF ApplyReleasePolicy
    <2>2. QED
      BY <1>3, <2>1
  <1>7. CASE request[h].repo \notin conf.allow /\ seen[h] = "block"
    <2>1. AnswerTo(h, "blocked")
      BY <1>7 DEF ApplyReleasePolicy
    <2>2. QED
      BY <1>5, <2>1
  <1>8. CASE ~(request[h].repo \in conf.allow \/ seen[h] = "torn") /\ seen[h] # "block"
    <2>1. \/ AnswerTo(h, "failed")
          \/ AnswerTo(h, "not found")
          \/ /\ stage' = [stage EXCEPT ![h] = "done"]
             /\ answer' = [answer EXCEPT ![h] = [as |-> "redirected", to |-> base]]
      BY <1>8 DEF ApplyReleasePolicy
    <2>2. [as |-> "redirected", to |-> base].as = "redirected"
      OBVIOUS
    <2>3. QED
      BY <1>4, <1>5, <2>1, <2>2
  <1>9. QED
    BY <1>6, <1>7, <1>8

\* A request that is sent upstream without the client token.
LEMMA GoesUpstream ==
  ASSUME ProxyInv, NEW h \in Handler, Goes(h, "border", "forward"), answer'[h] = answer[h],
         request[h].cred # "client",
         request[h].cred = "raw" => \E c \in confsSeen[h] : ~c.raw,
         request[h].cred = "anonymous git" => \E c \in confsSeen[h] : ~c.anonymous
  PROVE  ProxyInv'
  <1>1. /\ stage[h] = "border" /\ stage'[h] = "forward" /\ request'[h] = request[h]
        /\ confsSeen'[h] = confsSeen[h]
    BY DEF Goes
  <1>2. answer'[h].as = "none" /\ request[h].kind # "archive"
    BY <1>1, AtPlace DEF PlaceIsRight, Unresolved
  <1>3. PlaceIsRight(h)'
    BY <1>1, <1>2 DEF PlaceIsRight, Archiving, Resolving
  <1>4. AnalysisIsTrue(h)' /\ RestrictionIsTrue(h)'
    BY <1>1, <1>2 DEF AnalysisIsTrue, RestrictionIsTrue, Sending
  <1>5. PolicyIsTrue(h)'
    BY <1>1, <1>2 DEF PolicyIsTrue, Sending
  <1>6. QED
    BY <1>1, <1>2, <1>3, <1>4, <1>5, OneGoesOn DEF Answers

LEMMA BorderRight ==
  ASSUME ProxyInv, NEW h \in Handler, Border(h)
  PROVE  ProxyInv'
  <1>1. /\ Step(h, "border") /\ stage[h] = "border" /\ BaseIsCached'
        /\ \A g \in Handler \ {h} : seen'[g] = seen[g] /\ sent'[g] = sent[g]
        /\ DOMAIN seen' = Handler /\ DOMAIN sent' = Handler
    BY Untouched DEF Border, Step
  <1>2. /\ request[h].kind # "archive" /\ conf \in confsSeen[h]
        /\ reloading # Nothing => reloading \in confsSeen[h]
    BY <1>1, AtPlace DEF PlaceIsRight, Unresolved
  <1>3. CASE request[h].cred = "client"
    <2>1. MoveTo(h, "resolve")
      BY <1>3 DEF Border
    <2>2. Goes(h, "border", "resolve") /\ answer'[h] = answer[h]
      BY <1>1, <2>1, GoToGoes DEF Places, Resolving
    <2>3. QED
      BY <1>2, <1>3, <2>2, GoesFreely
  <1>4. ASSUME MoveTo(h, "forward"), request[h].cred # "client",
               request[h].cred = "raw" => \E c \in confsSeen[h] : ~c.raw,
               request[h].cred = "anonymous git" => \E c \in confsSeen[h] : ~c.anonymous
        PROVE  ProxyInv'
    <2>1. Goes(h, "border", "forward") /\ answer'[h] = answer[h]
      BY <1>1, <1>4, GoToGoes DEF Places
    <2>2. QED
      BY <1>4, <2>1, GoesUpstream
  <1>5. ASSUME NEW a \in {"unauthorized", "blocked"}, AnswerTo(h, a)
        PROVE  ProxyInv'
    <2>1. Goes(h, "border", "done") /\ answer'[h] = [as |-> a]
      BY <1>1, <1>5, AnswerGoes DEF AnswerTo
    <2>2. answer'[h].as \in {"unauthorized", "blocked"}
      BY <2>1
    <2>3. QED
      BY <2>1, <2>2, AnswersFreely
  <1>6. CASE request[h].cred = "anonymous git"
    <2>1. PICK blocked \in FieldValues("anonymous") :
            IF blocked THEN AnswerTo(h, "unauthorized") ELSE MoveTo(h, "forward")
      BY <1>6 DEF Border
    <2>2. CASE blocked
      BY <1>5, <2>1, <2>2
    <2>3. CASE ~blocked
      <3>1. \E c \in confsSeen[h] : ~c.anonymous
        BY <1>2, <2>3 DEF FieldValues
      <3>2. QED
        BY <1>4, <1>6, <2>1, <2>3, <3>1
    <2>4. QED
      BY <2>2, <2>3
  <1>7. CASE request[h].cred = "raw"
    <2>1. IF conf.raw THEN AnswerTo(h, "blocked") ELSE MoveTo(h, "forward")
      BY <1>7 DEF Border
    <2>2. CASE conf.raw
      BY <1>5, <2>1, <2>2
    <2>3. CASE ~conf.raw
      BY <1>2, <1>4, <1>7, <2>1, <2>3
    <2>4. QED
      BY <2>2, <2>3
  <1>8. CASE request[h].cred \notin {"client", "anonymous git", "raw"}
    <2>1. MoveTo(h, "forward")
      BY <1>8 DEF Border
    <2>2. QED
      BY <1>4, <1>8, <2>1
  <1>9. QED
    BY <1>3, <1>6, <1>7, <1>8

LEMMA ResolveRight ==
  ASSUME ProxyInv, NEW h \in Handler, Resolve(h)
  PROVE  ProxyInv'
  <1>1. /\ Step(h, "resolve") /\ stage[h] = "resolve" /\ BaseIsCached'
        /\ sent' = sent /\ DOMAIN seen = Handler /\ DOMAIN sent = Handler
    BY Untouched DEF Resolve, Step
  <1>2. /\ request[h].kind # "archive" /\ request[h].cred = "client" /\ row \in rowsSeen[h]
        /\ answer[h].as = "none"
    BY <1>1, AtPlace DEF PlaceIsRight, Resolving
  <1>3. CASE Unscoped(request[h])
    <2>1. MoveTo(h, "resolve again") /\ seen' = seen
      BY <1>3 DEF Resolve
    <2>2. Goes(h, "resolve", "resolve again") /\ answer'[h] = answer[h]
      BY <1>1, <2>1, GoToGoes DEF Places, Resolving
    <2>3. /\ stage'[h] = "resolve again" /\ request'[h] = request[h]
          /\ answer'[h].as = "none"
      BY <1>2, <2>2 DEF Goes
    <2>4. PlaceIsRight(h)'
      BY <1>2, <2>3 DEF PlaceIsRight, Archiving
    <2>5. AnalysisIsTrue(h)' /\ RestrictionIsTrue(h)' /\ PolicyIsTrue(h)'
      BY <1>3, <2>3 DEF AnalysisIsTrue, RestrictionIsTrue, PolicyIsTrue, Sending, Unscoped
    <2>6. QED
      BY <2>2, <2>3, <2>4, <2>5, OneGoesOn DEF Answers
  <1>4. CASE ~Unscoped(request[h])
    <2>1. /\ seen' = [seen EXCEPT ![h] = row]
          /\ \/ \E a \in {"unauthorized", "failed"} : AnswerTo(h, a)
             \/ row.live /\ MoveTo(h, "check")
      BY <1>4 DEF Resolve
    <2>2. /\ seen'[h] = row /\ DOMAIN seen' = Handler /\ DOMAIN sent' = Handler
          /\ \A g \in Handler \ {h} : seen'[g] = seen[g] /\ sent'[g] = sent[g]
      BY <1>1, <2>1
    <2>3. ASSUME NEW a \in {"unauthorized", "failed"}, AnswerTo(h, a)
          PROVE  ProxyInv'
      <3>1. Goes(h, "resolve", "done") /\ answer'[h] = [as |-> a]
        BY <1>1, <2>2, <2>3, AnswerGoes DEF AnswerTo
      <3>2. answer'[h].as \in {"unauthorized", "failed"}
        BY <3>1
      <3>3. QED
        BY <3>1, <3>2, AnswersFreely
    <2>4. CASE row.live /\ MoveTo(h, "check")
      <3>1. Goes(h, "resolve", "check") /\ answer'[h] = answer[h]
        BY <1>1, <2>2, <2>4, GoToGoes DEF Places, Resolving
      <3>2. /\ stage'[h] = "check" /\ request'[h] = request[h] /\ rowsSeen'[h] = rowsSeen[h]
            /\ answer'[h].as = "none"
        BY <1>2, <3>1 DEF Goes
      <3>3. PlaceIsRight(h)'
        BY <1>2, <3>2 DEF PlaceIsRight, Archiving
      <3>4. ~Unscoped(request[h])'
        BY <1>4, <3>2 DEF Unscoped
      <3>5. AnalysisIsTrue(h)' /\ RestrictionIsTrue(h)' /\ PolicyIsTrue(h)'
        BY <1>2, <2>2, <2>4, <3>2, <3>4 DEF AnalysisIsTrue, RestrictionIsTrue, PolicyIsTrue, Sending
      <3>6. QED
        BY <3>1, <3>2, <3>3, <3>5, OneGoesOn DEF Answers
    <2>5. QED
      BY <2>1, <2>3, <2>4
  <1>5. QED
    BY <1>3, <1>4

\* Check lets pass what the analysis lets pass, and denies the rest.
LEMMA CheckDecides ==
  ASSUME NEW h \in Handler, Check(h), ~Unscoped(request[h])
  PROVE  \/ AnswerTo(h, "invalid")
         \/ AnswerTo(h, "denied") /\ ~Passes(request[h], seen[h])
         \/ /\ MoveTo(h, "mint") \/ MoveTo(h, "resolve again")
            /\ Passes(request[h], seen[h])
  <1> DEFINE q == request[h]
             bad == GraphQLInvalid(q, seen[h])
             pass == OpenScoped(seen[h]) \/ Permitted(q, seen[h])
  <1>1. Passes(q, seen[h]) <=> (q.kind = "graphql" => ~bad) /\ pass
    BY DEF Passes
  <1>2. CASE q.kind = "graphql" /\ bad
    BY <1>2 DEF Check
  <1>3. CASE q.kind = "graphql" /\ ~bad
    <2>1. IF pass THEN MoveTo(h, "mint") ELSE AnswerTo(h, "denied")
      BY <1>3 DEF Check
    <2>2. QED
      BY <1>1, <1>3, <2>1
  <1>4. CASE q.kind # "graphql"
    <2>1. IF pass
          THEN MoveTo(h, IF q.kind = "git" THEN "resolve again" ELSE "mint")
          ELSE AnswerTo(h, "denied")
      BY <1>4 DEF Check
    <2>2. QED
      BY <1>1, <1>4, <2>1
  <1>5. QED
    BY <1>2, <1>3, <1>4

LEMMA CheckRight ==
  ASSUME ProxyInv, NEW h \in Handler, Check(h)
  PROVE  ProxyInv'
  <1>1. /\ Step(h, "check") /\ stage[h] = "check" /\ BaseIsCached'
        /\ \A g \in Handler \ {h} : seen'[g] = seen[g] /\ sent'[g] = sent[g]
        /\ seen' = seen /\ DOMAIN seen' = Handler /\ DOMAIN sent' = Handler
    BY Untouched DEF Check, Step
  <1>2. /\ request[h].kind # "archive" /\ request[h].cred = "client" /\ answer[h].as = "none"
        /\ seen[h] \in rowsSeen[h] /\ seen[h].live /\ ~Unscoped(request[h])
    BY <1>1, AtPlace DEF PlaceIsRight, AnalysisIsTrue, Resolving
  <1>3. CASE AnswerTo(h, "invalid")
    <2>1. Goes(h, "check", "done") /\ answer'[h] = [as |-> "invalid"]
      BY <1>1, <1>3, AnswerGoes DEF AnswerTo
    <2>2. answer'[h].as = "invalid"
      BY <2>1
    <2>3. QED
      BY <2>1, <2>2, AnswersFreely
  <1>4. CASE AnswerTo(h, "denied") /\ ~Passes(request[h], seen[h])
    <2>1. Goes(h, "check", "done") /\ answer'[h] = [as |-> "denied"]
      BY <1>1, <1>4, AnswerGoes DEF AnswerTo
    <2>2. /\ answer'[h].as = "denied" /\ stage'[h] = "done" /\ request'[h] = request[h]
          /\ rowsSeen'[h] = rowsSeen[h]
      BY <2>1 DEF Goes
    <2>3. PlaceIsRight(h)'
      BY <2>2 DEF PlaceIsRight, Archiving, Unresolved, Resolving
    <2>4. AnalysisIsTrue(h)' /\ RestrictionIsTrue(h)' /\ PolicyIsTrue(h)'
      BY <1>2, <1>4, <2>2 DEF AnalysisIsTrue, RestrictionIsTrue, PolicyIsTrue, Sending
    <2>5. QED
      BY <2>1, <2>2, <2>3, <2>4, OneGoesOn DEF Answers
  <1>5. ASSUME NEW there \in {"mint", "resolve again"}, MoveTo(h, there),
               Passes(request[h], seen[h])
        PROVE  ProxyInv'
    <2>1. there \in Places
      BY DEF Places, Resolving
    <2>2. Goes(h, "check", there) /\ answer'[h] = answer[h]
      BY <1>1, <1>5, <2>1, GoToGoes
    <2>3. /\ stage'[h] = there /\ request'[h] = request[h] /\ rowsSeen'[h] = rowsSeen[h]
          /\ answer'[h].as = "none"
      BY <1>2, <2>2 DEF Goes
    <2>4. PlaceIsRight(h)'
      BY <1>2, <2>3 DEF PlaceIsRight, Archiving
    <2>5. WasPassed(h, request[h])'
      BY <1>1, <1>2, <1>5, <2>3 DEF WasPassed
    <2>6. AnalysisIsTrue(h)' /\ RestrictionIsTrue(h)' /\ PolicyIsTrue(h)'
      BY <1>1, <1>2, <1>5, <2>3, <2>5 DEF AnalysisIsTrue, RestrictionIsTrue, PolicyIsTrue, Sending
    <2>7. /\ there # "idle" /\ answer'[h].as \in Answers
          /\ (answer'[h].as # "none") <=> (there = "done")
      BY <2>3 DEF Answers
    <2>8. QED
      BY <2>2, <2>4, <2>6, <2>7, OneGoesOn
  <1>6. QED
    BY <1>2, <1>3, <1>4, <1>5, CheckDecides

\* A request that is sent upstream in the name of the client token.
LEMMA GoesUpstreamAs ==
  ASSUME ProxyInv, NEW h \in Handler, NEW here \in {"mint", "resolve again"},
         Goes(h, here, "forward"), answer'[h] = answer[h],
         WasPassed(h, request[h]),
         IsAgent[scenario] =>
           \E r \in rowsSeen[h] : r.live /\ sent'[h] = Restriction(r)
  PROVE  ProxyInv'
  <1>1. /\ stage[h] = here /\ stage'[h] = "forward" /\ request'[h] = request[h]
        /\ rowsSeen'[h] = rowsSeen[h] /\ scenario' = scenario
    BY DEF Goes, OnlyHandler
  <1>2. /\ answer'[h].as = "none" /\ request[h].kind # "archive" /\ request[h].cred = "client"
    BY <1>1, AtPlace DEF PlaceIsRight, Resolving
  <1>3. PlaceIsRight(h)'
    BY <1>1, <1>2 DEF PlaceIsRight, Archiving, Resolving
  <1>4. WasPassed(h, request[h])'
    BY <1>1 DEF WasPassed
  <1>5. AnalysisIsTrue(h)'
    BY <1>1, <1>2, <1>4 DEF AnalysisIsTrue
  <1>6. RestrictionIsTrue(h)'
    BY <1>1 DEF RestrictionIsTrue
  <1>7. PolicyIsTrue(h)'
    BY <1>1, <1>2 DEF PolicyIsTrue
  <1>8. QED
    BY <1>1, <1>2, <1>3, <1>5, <1>6, <1>7, OneGoesOn DEF Answers

LEMMA MintRight ==
  ASSUME ProxyInv, NEW h \in Handler, Mint(h)
  PROVE  ProxyInv'
  <1>1. /\ Step(h, "mint") /\ stage[h] = "mint" /\ BaseIsCached'
        /\ seen' = seen /\ DOMAIN seen = Handler /\ DOMAIN sent = Handler
    BY Untouched DEF Mint, Step
  <1>2. seen[h] \in rowsSeen[h] /\ seen[h].live /\ Passes(request[h], seen[h])
    BY <1>1, AtPlace DEF AnalysisIsTrue
  <1> DEFINE n == IF IsAgent[scenario] THEN Restriction(seen[h]) ELSE Nothing
  <1>3. CASE sent' = [sent EXCEPT ![h] = n] /\ MoveTo(h, "forward")
    <2>1. IsAgent[scenario] => sent'[h] = Restriction(seen[h])
      BY <1>1, <1>3
    <2> HIDE DEF n
    <2>2. /\ \A g \in Handler \ {h} : seen'[g] = seen[g] /\ sent'[g] = sent[g]
          /\ DOMAIN seen' = Handler /\ DOMAIN sent' = Handler
      BY <1>1, <1>3
    <2>3. Goes(h, "mint", "forward") /\ answer'[h] = answer[h]
      BY <1>1, <1>3, <2>2, GoToGoes DEF Places
    <2>4. WasPassed(h, request[h])
      BY <1>2 DEF WasPassed
    <2>5. QED
      BY <1>2, <2>1, <2>3, <2>4, GoesUpstreamAs
  <1>4. CASE UNCHANGED sent /\ AnswerTo(h, "failed")
    <2>1. Goes(h, "mint", "done") /\ answer'[h] = [as |-> "failed"]
      BY <1>1, <1>4, AnswerGoes DEF AnswerTo
    <2>2. answer'[h].as = "failed"
      BY <2>1
    <2>3. QED
      BY <2>1, <2>2, AnswersFreely
  <1>5. QED
    BY <1>3, <1>4 DEF Mint

LEMMA ResolveAgainRight ==
  ASSUME ProxyInv, NEW h \in Handler, ResolveAgain(h)
  PROVE  ProxyInv'
  <1>1. /\ Step(h, "resolve again") /\ stage[h] = "resolve again" /\ BaseIsCached'
        /\ seen' = seen /\ DOMAIN seen = Handler /\ DOMAIN sent = Handler
    BY Untouched DEF ResolveAgain, Step
  <1>2. row \in rowsSeen[h] /\ (Unscoped(request[h]) \/ WasPassed(h, request[h]))
    BY <1>1, AtPlace DEF AnalysisIsTrue
  <1> DEFINE n == IF IsAgent[scenario] THEN Restriction(row) ELSE Nothing
  <1>3. CASE row.live /\ sent' = [sent EXCEPT ![h] = n] /\ MoveTo(h, "forward")
    <2>1. IsAgent[scenario] => sent'[h] = Restriction(row)
      BY <1>1, <1>3
    <2> HIDE DEF n
    <2>2. /\ \A g \in Handler \ {h} : seen'[g] = seen[g] /\ sent'[g] = sent[g]
          /\ DOMAIN seen' = Handler /\ DOMAIN sent' = Handler
      BY <1>1, <1>3
    <2>3. Goes(h, "resolve again", "forward") /\ answer'[h] = answer[h]
      BY <1>1, <1>3, <2>2, GoToGoes DEF Places
    <2>4. WasPassed(h, request[h])
      BY <1>2, <1>3 DEF WasPassed, Passes
    <2>5. QED
      BY <1>2, <1>3, <2>1, <2>3, <2>4, GoesUpstreamAs
  <1>4. CASE UNCHANGED sent /\ AnswerTo(h, "unauthorized")
    <2>1. Goes(h, "resolve again", "done") /\ answer'[h] = [as |-> "unauthorized"]
      BY <1>1, <1>4, AnswerGoes DEF AnswerTo
    <2>2. answer'[h] = [as |-> "unauthorized"]
      BY <2>1
    <2>3. answer'[h].as = "unauthorized"
      BY <2>2
    <2>4. QED
      BY <2>1, <2>3, AnswersFreely
  <1>5. QED
    BY <1>3, <1>4 DEF ResolveAgain

LEMMA ForwardRight ==
  ASSUME ProxyInv, NEW h \in Handler, Forward(h)
  PROVE  ProxyInv'
  <1>1. /\ Step(h, "forward") /\ stage[h] = "forward" /\ BaseIsCached'
        /\ seen' = seen /\ sent' = sent /\ AnswerTo(h, "forwarded")
        /\ DOMAIN seen = Handler /\ DOMAIN sent = Handler
    BY Untouched DEF Forward, Step
  <1>2. Goes(h, "forward", "done") /\ answer'[h] = [as |-> "forwarded"]
    BY <1>1, AnswerGoes DEF AnswerTo
  <1>3. /\ answer'[h].as = "forwarded" /\ stage'[h] = "done" /\ request'[h] = request[h]
        /\ rowsSeen'[h] = rowsSeen[h] /\ confsSeen'[h] = confsSeen[h] /\ scenario' = scenario
    BY <1>2 DEF Goes, OnlyHandler
  <1>4. AnalysisIsTrue(h) /\ RestrictionIsTrue(h) /\ PolicyIsTrue(h)
    BY <1>1, AtPlace
  <1>5. PlaceIsRight(h)'
    BY <1>3 DEF PlaceIsRight, Archiving, Unresolved, Resolving
  <1>6. AnalysisIsTrue(h)'
    <2>1. request[h].cred = "client" => WasPassed(h, request[h])
      BY <1>1, <1>4 DEF AnalysisIsTrue, Sending
    <2>2. request'[h].cred = "client" => WasPassed(h, request[h])'
      BY <1>3, <2>1 DEF WasPassed
    <2>3. QED
      BY <1>3, <2>2 DEF AnalysisIsTrue
  <1>7. RestrictionIsTrue(h)'
    BY <1>1, <1>3, <1>4 DEF RestrictionIsTrue, Sending
  <1>8. PolicyIsTrue(h)'
    BY <1>1, <1>3, <1>4 DEF PolicyIsTrue, Sending
  <1>9. QED
    BY <1>2, <1>3, <1>5, <1>6, <1>7, <1>8, OneGoesOn DEF Answers

\* A handler on its way to an archive has found in seen what it is to find there.
LEMMA GoesToArchive ==
  ASSUME ProxyInv, NEW h \in Handler, NEW here \in Archiving, NEW there \in Archiving,
         Goes(h, here, there), answer'[h] = answer[h], PolicyIsTrue(h)'
  PROVE  ProxyInv'
  <1>1. /\ stage[h] = here /\ stage'[h] = there /\ request'[h] = request[h]
        /\ here \notin {"idle", "done"} /\ there \notin {"idle", "done", "forward"}
        /\ there \notin Unresolved \cup Resolving
    BY DEF Goes, Archiving, Unresolved, Resolving
  <1>2. answer'[h].as = "none" /\ request[h].kind = "archive"
    BY <1>1, AtPlace DEF PlaceIsRight
  <1>3. PlaceIsRight(h)'
    BY <1>1, <1>2 DEF PlaceIsRight
  <1>4. AnalysisIsTrue(h)' /\ RestrictionIsTrue(h)'
    BY <1>1, <1>2 DEF AnalysisIsTrue, RestrictionIsTrue, Sending, Resolving
  <1>5. answer'[h].as \in Answers
    BY <1>2 DEF Answers
  <1>6. (answer'[h].as # "none") <=> (there = "done")
    BY <1>1, <1>2
  <1>7. here \notin {"idle", "done"} /\ there # "idle"
    BY <1>1
  <1>8. QED
    BY <1>3, <1>4, <1>5, <1>6, <1>7, OneGoesOn

LEMMA ReadArchiveBaseRight ==
  ASSUME ProxyInv, NEW h \in Handler, ReadArchiveBase(h)
  PROVE  ProxyInv'
  <1>1. /\ Step(h, "base") /\ stage[h] = "base" /\ BaseIsCached' /\ BaseIsCached
        /\ sent' = sent /\ DOMAIN seen = Handler /\ DOMAIN sent = Handler
    BY Untouched DEF ReadArchiveBase, Step, ProxyInv, TablesAreTyped
  <1>2. conf \in confsSeen[h] /\ answer[h].as = "none"
    BY <1>1, AtPlace
  <1>3. CASE conf.archiveTo = cachedIn
    <2>1. seen' = [seen EXCEPT ![h] = cachedTo] /\ MoveTo(h, "archive")
      BY <1>3 DEF ReadArchiveBase
    <2>2. /\ seen'[h] = cachedTo /\ DOMAIN seen' = Handler /\ DOMAIN sent' = Handler
          /\ \A g \in Handler \ {h} : seen'[g] = seen[g] /\ sent'[g] = sent[g]
      BY <1>1, <2>1
    <2>3. Goes(h, "base", "archive") /\ answer'[h] = answer[h]
      BY <1>1, <2>1, <2>2, GoToGoes DEF Places, Archiving
    <2>4. /\ stage'[h] = "archive" /\ answer'[h].as = "none" /\ confsSeen'[h] = confsSeen[h]
      BY <1>2, <2>3 DEF Goes
    <2>5. PolicyIsTrue(h)'
      BY <1>1, <1>2, <1>3, <2>2, <2>4 DEF PolicyIsTrue, Sending, BaseIsCached
    <2>6. QED
      BY <2>3, <2>5, GoesToArchive DEF Archiving
  <1>4. CASE conf.archiveTo # cachedIn
    <2>1. seen' = [seen EXCEPT ![h] = conf.archiveTo] /\ MoveTo(h, "lock")
      BY <1>4 DEF ReadArchiveBase
    <2>2. /\ seen'[h] = conf.archiveTo /\ DOMAIN seen' = Handler /\ DOMAIN sent' = Handler
          /\ \A g \in Handler \ {h} : seen'[g] = seen[g] /\ sent'[g] = sent[g]
      BY <1>1, <2>1
    <2>3. Goes(h, "base", "lock") /\ answer'[h] = answer[h]
      BY <1>1, <2>1, <2>2, GoToGoes DEF Places, Archiving
    <2>4. /\ stage'[h] = "lock" /\ answer'[h].as = "none" /\ confsSeen'[h] = confsSeen[h]
      BY <1>2, <2>3 DEF Goes
    <2>5. PolicyIsTrue(h)'
      BY <1>2, <2>2, <2>4 DEF PolicyIsTrue, Sending
    <2>6. QED
      BY <2>3, <2>5, GoesToArchive DEF Archiving
  <1>5. QED
    BY <1>3, <1>4

LEMMA ResolveArchiveBaseRight ==
  ASSUME ProxyInv, NEW h \in Handler, ResolveArchiveBase(h)
  PROVE  ProxyInv'
  <1>1. /\ Step(h, "lock") /\ stage[h] = "lock" /\ BaseIsCached
        /\ sent' = sent /\ DOMAIN seen = Handler /\ DOMAIN sent = Handler
        /\ MoveTo(h, "archive")
    BY Untouched DEF ResolveArchiveBase, Step, ProxyInv, TablesAreTyped
  <1>2. (\E c \in confsSeen[h] : c.archiveTo = seen[h]) /\ answer[h].as = "none"
    BY <1>1, AtPlace DEF PolicyIsTrue
  <1>3. /\ BaseIsCached' /\ cachedTo' \in {"", seen[h]}
        /\ seen' = [seen EXCEPT ![h] = cachedTo']
    <2>1. CASE seen[h] = cachedIn
      BY <1>1, <2>1 DEF ResolveArchiveBase, codeload, BaseIsCached
    <2>2. CASE seen[h] # cachedIn
      BY <2>2 DEF ResolveArchiveBase, BaseIsCached
    <2>3. QED
      BY <2>1, <2>2
  <1>4. /\ seen'[h] = cachedTo' /\ DOMAIN seen' = Handler /\ DOMAIN sent' = Handler
        /\ \A g \in Handler \ {h} : seen'[g] = seen[g] /\ sent'[g] = sent[g]
    BY <1>1, <1>3
  <1>5. Goes(h, "lock", "archive") /\ answer'[h] = answer[h]
    BY <1>1, <1>3, <1>4, GoToGoes DEF Places, Archiving
  <1>6. /\ stage'[h] = "archive" /\ answer'[h].as = "none" /\ confsSeen'[h] = confsSeen[h]
    BY <1>2, <1>5 DEF Goes
  <1>7. PolicyIsTrue(h)'
    BY <1>2, <1>3, <1>4, <1>6 DEF PolicyIsTrue, Sending
  <1>8. QED
    BY <1>5, <1>7, GoesToArchive DEF Archiving

LEMMA AnswerArchiveRight ==
  ASSUME ProxyInv, NEW h \in Handler, AnswerArchive(h)
  PROVE  ProxyInv'
  <1>1. /\ Step(h, "archive") /\ stage[h] = "archive" /\ BaseIsCached'
        /\ \A g \in Handler \ {h} : seen'[g] = seen[g] /\ sent'[g] = sent[g]
        /\ DOMAIN seen' = Handler /\ DOMAIN sent' = Handler
    BY Untouched DEF AnswerArchive, Step
  <1>2. /\ conf \in confsSeen[h] /\ request[h].kind = "archive" /\ request[h].cred = "none"
        /\ seen[h] = "" \/ \E c \in confsSeen[h] : c.archiveTo = seen[h]
    <2>1. /\ conf \in confsSeen[h] /\ request[h].kind = "archive"
          /\ request[h] \in Load[scenario][h] /\ scenario \in Scenario
          /\ seen[h] = "" \/ \E c \in confsSeen[h] : c.archiveTo = seen[h]
      BY <1>1, AtPlace DEF PlaceIsRight, PolicyIsTrue, Archiving
    <2>2. QED
      BY <2>1, ProxyAssumption
  <1>3. ASSUME NEW a, stage' = [stage EXCEPT ![h] = "done"], answer' = [answer EXCEPT ![h] = a],
               \/ a.as = "forwarded"
               \/ /\ a.as = "redirected" /\ \E c \in confsSeen[h] : c.archiveTo = a.to
                  /\ \E c \in confsSeen[h] : request[h].repo \notin c.archiveAllow
        PROVE  ProxyInv'
    <2>1. Goes(h, "archive", "done") /\ answer'[h] = a
      BY <1>1, <1>3, AnswerGoes
    <2>2. /\ stage'[h] = "done" /\ request'[h] = request[h] /\ confsSeen'[h] = confsSeen[h]
      BY <2>1 DEF Goes
    <2>3. PlaceIsRight(h)'
      BY <2>2 DEF PlaceIsRight, Archiving, Unresolved, Resolving
    <2>4. AnalysisIsTrue(h)' /\ RestrictionIsTrue(h)'
      BY <1>2, <1>3, <2>1, <2>2 DEF AnalysisIsTrue, RestrictionIsTrue
    <2>5. PolicyIsTrue(h)'
      BY <1>2, <1>3, <2>1, <2>2 DEF PolicyIsTrue
    <2>6. answer'[h].as \in Answers \ {"none"}
      BY <1>3, <2>1 DEF Answers
    <2>7. QED
      BY <2>1, <2>3, <2>4, <2>5, <2>6, OneGoesOn
  <1>4. CASE AnswerTo(h, "forwarded")
    <2> DEFINE a == [as |-> "forwarded"]
    <2>1. a.as = "forwarded" /\ stage' = [stage EXCEPT ![h] = "done"] /\ answer' = [answer EXCEPT ![h] = a]
      BY <1>4 DEF AnswerTo
    <2> HIDE DEF a
    <2>2. QED
      BY <1>3, <2>1
  <1>5. CASE /\ seen[h] # "" /\ request[h].repo \notin conf.archiveAllow
             /\ stage' = [stage EXCEPT ![h] = "done"]
             /\ answer' = [answer EXCEPT ![h] = [as |-> "redirected", to |-> seen[h]]]
    <2> DEFINE a == [as |-> "redirected", to |-> seen[h]]
    <2>1. a.as = "redirected" /\ a.to = seen[h] /\ answer' = [answer EXCEPT ![h] = a]
      BY <1>5
    <2> HIDE DEF a
    <2>2. /\ \E c \in confsSeen[h] : c.archiveTo = a.to
          /\ \E c \in confsSeen[h] : request[h].repo \notin c.archiveAllow
      BY <1>2, <1>5, <2>1
    <2>3. QED
      BY <1>3, <1>5, <2>1, <2>2
  <1>6. QED
    BY <1>4, <1>5 DEF AnswerArchive

LEMMA ProxyStutters ==
  ASSUME ProxyInv, UNCHANGED proxyVars
  PROVE  ProxyInv'
  <1>1. /\ UNCHANGED <<scenario, row, conf, reloading, updates, base, cachedIn, cachedTo>>
        /\ UNCHANGED <<stage, request, seen, sent, answer, rowsSeen, confsSeen>>
    BY DEF proxyVars
  <1>2. TablesAreTyped' /\ DOMAIN rowsSeen' = Handler /\ DOMAIN confsSeen' = Handler
    BY <1>1 DEF ProxyInv, TablesAreTyped, BaseIsCached, HandlersAreTyped
  <1>3. ASSUME NEW h \in Handler
        PROVE  /\ rowsSeen[h] \subseteq Rows[scenario] /\ confsSeen[h] \subseteq Confs[scenario]
               /\ HasSeen(h)'
    BY <1>1 DEF ProxyInv, RequestIsRight, RequestIsTyped, HasSeen, Busy
  <1>4. QED
    BY <1>1, <1>2, <1>3, TablesMove

LEMMA ProxySteps ==
  ASSUME ProxyInv, [ProxyNext]_proxyVars
  PROVE  ProxyInv'
  <1>1. ASSUME NEW h \in Handler, Serve(h)
        PROVE  ProxyInv'
    BY <1>1, ArriveRight, FinishRight, ReadModeRight, ApplyReleasePolicyRight, BorderRight,
       ResolveRight, CheckRight, ResolveAgainRight, MintRight, ForwardRight,
       ReadArchiveBaseRight, ResolveArchiveBaseRight, AnswerArchiveRight DEF Serve
  <1>2. QED
    BY <1>1, ChangeTokenRight, BeginReloadRight, EndReloadRight, ProxyStutters DEF ProxyNext

\* ProxyInv is inductive: it holds initially and no step of Serve, ChangeToken, BeginReload
\* or EndReload breaks it.
THEOREM ProxyInvariance == ProxySpec => []ProxyInv
  <1>1. ProxyInit => ProxyInv
    BY ProxyStarts
  <1>2. ProxyInv /\ [ProxyNext]_proxyVars => ProxyInv'
    BY ProxySteps
  <1>3. QED
    BY <1>1, <1>2, PTL DEF ProxySpec

\* Every variable of the request handlers has its type.
THEOREM RequestsTypeCorrect == ProxySpec => []ProxyTypeOK
  <1>1. ASSUME ProxyInv PROVE ProxyTypeOK
    <2>1. TablesAreTyped /\ HandlersAreTyped /\ \A h \in Handler : RequestIsTyped(h)
      BY <1>1 DEF ProxyInv, RequestIsRight
    <2>2. stage \in [Handler -> {"idle", "release", "allow", "border", "resolve", "check", "mint",
                          "resolve again", "forward", "base", "lock", "archive", "done"}]
      BY <2>1 DEF HandlersAreTyped, Unresolved, Resolving, Archiving
    <2>3. QED
      BY <2>1, <2>2 DEF ProxyTypeOK, TablesAreTyped, RequestIsTyped
  <1>2. QED
    BY <1>1, ProxyInvariance, PTL

\* The installation token that goes upstream carries the restriction of a row that was
\* live while the request was served (Mint, ResolveAgain), whatever changes meanwhile.
THEOREM RestrictionsAreCurrent == ProxySpec => []MintedIsCurrent
  <1>1. ASSUME ProxyInv PROVE MintedIsCurrent
    <2> SUFFICES ASSUME NEW h \in Handler, ForwardedFor(h), IsAgent[scenario]
                 PROVE  \E r \in rowsSeen[h] : r.live /\ sent[h] = Restriction(r)
      BY DEF MintedIsCurrent
    <2>1. RestrictionIsTrue(h)
      BY <1>1 DEF ProxyInv, RequestIsRight
    <2>2. QED
      BY <2>1 DEF RestrictionIsTrue, Sending, ForwardedFor
  <1>2. QED
    BY <1>1, ProxyInvariance, PTL

\* The border policy and the redirect base of a request are those of configurations that
\* were in force while it was served (Border, AnswerArchive), however reloads interleave.
THEOREM PoliciesAreCurrent == ProxySpec => []PolicyIsCurrent
  <1>1. ASSUME ProxyInv PROVE PolicyIsCurrent
    <2>1. \A h \in Handler : PolicyIsTrue(h)
      BY <1>1 DEF ProxyInv, RequestIsRight
    <2>2. BorderIsCurrent
      BY <2>1 DEF PolicyIsTrue, Sending, BorderIsCurrent
    <2>3. ArchiveTargetIsCurrent
      BY <2>1 DEF PolicyIsTrue, ArchiveTargetIsCurrent
    <2>4. QED
      BY <2>2, <2>3 DEF PolicyIsCurrent
  <1>2. QED
    BY <1>1, ProxyInvariance, PTL

\* If the rules let through only what a row grants, as far as they classify a request,
\* for every request and row by itself, then whatever is forwarded was granted in that
\* sense, although rows change and git looks them up twice (Check, ResolveAgain).
THEOREM ForwardedRequestsWereGranted ==
  ASSUME PassedIsGranted
  PROVE  ProxySpec => []ForwardedWasGranted
  <1>1. ASSUME ProxyInv PROVE ForwardedWasGranted
    <2> SUFFICES ASSUME NEW h \in Handler, ForwardedFor(h)
                 PROVE  \E r \in rowsSeen[h] : GrantsKnown(r, request[h])
      BY DEF ForwardedWasGranted
    <2>1. AnalysisIsTrue(h) /\ RequestIsTyped(h) /\ scenario \in Scenario
      BY <1>1 DEF ProxyInv, RequestIsRight, TablesAreTyped
    <2>2. /\ request[h] \in Load[scenario][h] /\ rowsSeen[h] \subseteq Rows[scenario]
          /\ request[h].cred = "client" /\ WasPassed(h, request[h])
      BY <2>1 DEF AnalysisIsTrue, RequestIsTyped, Sending, ForwardedFor
    <2>3. QED
      BY <2>1, <2>2 DEF WasPassed, PassedIsGranted
  <1>2. QED
    BY <1>1, ProxyInvariance, PTL

\* And whatever is denied for its scope was not granted.
THEOREM DeniedRequestsWereNotGranted ==
  ASSUME DeniedIsNotGranted
  PROVE  ProxySpec => []DeniedWasNotGranted
  <1>1. ASSUME ProxyInv PROVE DeniedWasNotGranted
    <2> SUFFICES ASSUME NEW h \in Handler, answer[h].as = "denied", request[h].kind # "graphql"
                 PROVE  \E r \in rowsSeen[h] : ~Grants(r, request[h])
      BY DEF DeniedWasNotGranted
    <2>1. AnalysisIsTrue(h) /\ RequestIsTyped(h) /\ scenario \in Scenario
      BY <1>1 DEF ProxyInv, RequestIsRight, TablesAreTyped
    <2>2. /\ request[h] \in Load[scenario][h] /\ rowsSeen[h] \subseteq Rows[scenario]
          /\ \E r \in rowsSeen[h] : r.live /\ ~Passes(request[h], r)
      BY <2>1 DEF AnalysisIsTrue, RequestIsTyped
    <2>3. QED
      BY <2>1, <2>2 DEF DeniedIsNotGranted
  <1>2. QED
    BY <1>1, ProxyInvariance, PTL

=============================================================================
