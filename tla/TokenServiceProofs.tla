------------------------- MODULE TokenServiceProofs -------------------------
(***************************************************************************)
(* Theorems about TokenService, for every number of instances, tokens,     *)
(* requests and callers and every value of its bounds.                     *)
(***************************************************************************)
EXTENDS TokenService, TLAPS

-----------------------------------------------------------------------------
(* Type correctness.                                                       *)

LEMMA BlankIsRecord == Blank \in Record
  BY MaxVersionAssumption DEF Blank, Record, Version, Nil

LEMMA InitTypeOK == Init => TypeOK
  <1> SUFFICES ASSUME Init PROVE TypeOK
    OBVIOUS
  <1> USE BlankIsRecord DEF Init, StoreInit
  <1>1. StoreTypeOK
    BY DEF StoreTypeOK
  <1>2. boot \in [Instance -> Booting]
    BY DEF Boot, Booting, NoCopies
  <1>3. QED
    BY <1>1, <1>2 DEF TypeOK

\* What each operation on the table does to the table's types.
LEMMA StoreTypes ==
  ASSUME StoreTypeOK,
         \/ UNCHANGED storeVars
         \/ Tick
         \/ DeleteExpiredProxyTokens
         \/ \E t \in Token : \/ \E exp \in ExpiryChoices : CreateProxyToken(t, exp)
                             \/ RevokeProxyToken(t)
                             \/ UpdateProxyTokenScopes(t)
  PROVE  StoreTypeOK'
  <1> USE DEF StoreTypeOK
  <1>1. CASE UNCHANGED storeVars
    BY <1>1 DEF storeVars
  <1>2. CASE Tick
    BY <1>2 DEF Tick
  <1>3. CASE DeleteExpiredProxyTokens
    BY <1>3 DEF DeleteExpiredProxyTokens
  <1>4. ASSUME NEW t \in Token, NEW exp \in ExpiryChoices, CreateProxyToken(t, exp)
        PROVE  StoreTypeOK'
    <2>1. exp \in Nat \cup {Nil}
      BY MaxDurationAssumption DEF ExpiryChoices
    <2>2. [exp |-> exp, revokedAt |-> Nil, ver |-> 0] \in Record
      BY <2>1, MaxVersionAssumption DEF Record, Version
    <2>3. QED
      BY <1>4, <2>2 DEF CreateProxyToken
  <1>5. ASSUME NEW t \in Token, RevokeProxyToken(t)
        PROVE  StoreTypeOK'
    <2>1. [rec[t] EXCEPT !.revokedAt = clock] \in Record
      BY DEF Record
    <2>2. QED
      BY <1>5, <2>1 DEF RevokeProxyToken
  <1>6. ASSUME NEW t \in Token, UpdateProxyTokenScopes(t)
        PROVE  StoreTypeOK'
    <2>1. rec[t].ver \in Version /\ rec[t].ver + 1 \in Version
      BY <1>6, MaxVersionAssumption DEF UpdateProxyTokenScopes, Record, Version
    <2>2. [rec[t] EXCEPT !.ver = @ + 1] \in Record
      BY <2>1 DEF Record
    <2>3. QED
      BY <1>6, <2>1, <2>2 DEF UpdateProxyTokenScopes
  <1>7. QED
    BY <1>1, <1>2, <1>3, <1>4, <1>5, <1>6

\* A call that is under way is at some instance and about some token.
LEMMA BusyResolver ==
  ASSUME TypeOK, NEW r \in Resolver, resolve[r].pc # "idle"
  PROVE  resolve[r] \in Resolving
  BY DEF TypeOK, NotResolving

LEMMA BusyCaller ==
  ASSUME TypeOK, NEW c \in Caller, call[c].pc # "idle"
  PROVE  call[c] \in Calling
  BY DEF TypeOK, NotCalling

LEMMA NextTypeOK == TypeOK /\ [Next]_vars => TypeOK'
  <1> SUFFICES ASSUME TypeOK, [Next]_vars
               PROVE  TypeOK'
    OBVIOUS
  <1> USE DEF TypeOK, historyVars
  <1>1. CASE Time
    BY <1>1, StoreTypes DEF Time
  <1>2. CASE Cleanup
    BY <1>2, StoreTypes DEF Cleanup
  <1>3. ASSUME NEW t \in Token, Create(t)
        PROVE  TypeOK'
    BY <1>3, StoreTypes DEF Create
  <1>4. ASSUME NEW r \in Resolver, ResolveStep(r)
        PROVE  TypeOK'
    <2> USE BusyResolver DEF InFlight, Answered
    <2>1. ASSUME NEW i \in Instance, NEW t \in Token, ResolveStart(r, i, t)
          PROVE  TypeOK'
      BY <2>1, BlankIsRecord, StoreTypes DEF ResolveStart, Resolving, StoreTypeOK
    <2>2. CASE ResolveLookup(r)
      <3> DEFINE e == cache[resolve[r].on][resolve[r].tok]
      <3>1. resolve[r] \in Resolving /\ StoreTypeOK'
        BY <2>2, StoreTypes DEF ResolveLookup
      <3>2. e \in Entry \cup {None}
        BY <3>1 DEF Resolving
      <3>3. ASSUME NEW p \in {"read", "evict", "refused"},
                   resolve' = [resolve EXCEPT ![r].pc = p]
            PROVE  TypeOK'
        <4>1. resolve' \in [Resolver -> Resolving \cup {NotResolving}]
          BY <3>1, <3>3 DEF Resolving
        <4>2. QED
          BY <2>2, <3>1, <4>1 DEF ResolveLookup
      <3>4. CASE /\ e # None
                 /\ resolve' = [resolve EXCEPT ![r].pc = "granted", ![r].copy = e.rec,
                                               ![r].readAt = e.readAt]
        <4>1. e.rec \in Record /\ e.readAt \in Nat
          BY <3>2, <3>4 DEF Entry
        <4> HIDE DEF e
        <4>2. resolve' \in [Resolver -> Resolving \cup {NotResolving}]
          BY <3>1, <3>4, <4>1 DEF Resolving
        <4>3. QED
          BY <2>2, <3>1, <4>2 DEF ResolveLookup
      <3>5. QED
        BY <2>2, <3>3, <3>4 DEF ResolveLookup
    <2>3. CASE ResolveEvict(r)
      BY <2>3, StoreTypes DEF ResolveEvict, Resolving
    <2>4. CASE ResolveRead(r)
      <3>1. resolve[r] \in Resolving /\ StoreTypeOK'
        BY <2>4, StoreTypes DEF ResolveRead
      <3>2. rec[resolve[r].tok] \in Record /\ clock \in Nat
        BY <3>1 DEF Resolving, StoreTypeOK
      <3>3. resolve' \in [Resolver -> Resolving \cup {NotResolving}]
        BY <2>4, <3>1, <3>2 DEF ResolveRead, Resolving
      <3>4. QED
        BY <2>4, <3>1, <3>3 DEF ResolveRead
    <2>5. CASE ResolveStore(r)
      BY <2>5, StoreTypes, ZenonT(40)
         DEF ResolveStore, Resolving, Entry, StoreTypeOK
    <2>6. CASE ResolveIndex(r)
      BY <2>6, StoreTypes DEF ResolveIndex, Resolving
    <2>7. CASE ResolveDone(r)
      BY <2>7, StoreTypes DEF ResolveDone
    <2>8. QED
      BY <1>4, <2>1, <2>2, <2>3, <2>4, <2>5, <2>6, <2>7 DEF ResolveStep
  <1>5. ASSUME NEW c \in Caller, CallStep(c)
        PROVE  TypeOK'
    <2> USE BusyCaller DEF Settle
    <2>1. ASSUME NEW i \in Instance, NEW t \in Token, NEW op \in {"revoke", "update"},
                 CallStart(c, i, t, op)
          PROVE  TypeOK'
      BY <2>1, StoreTypes DEF CallStart, Calling
    <2>2. CASE CallRevoke(c)
      BY <2>2, StoreTypes DEF CallRevoke, Calling
    <2>3. CASE CallUpdate(c)
      BY <2>3, StoreTypes DEF CallUpdate, Calling
    <2>4. CASE CallError(c)
      BY <2>4, StoreTypes DEF CallError
    <2>5. CASE CallFind(c)
      <3>1. call[c] \in Calling /\ StoreTypeOK'
        BY <2>5, StoreTypes DEF CallFind
      <3>2. settled' \in [Instance -> SUBSET Token]
        <4>1. settled' = settled \/ settled' = [settled EXCEPT ![call[c].on] = @ \cup {call[c].tok}]
          BY <2>5 DEF CallFind
        <4>2. QED
          BY <3>1, <4>1 DEF Calling
      <3>3. call' \in [Caller -> Calling \cup {NotCalling}]
        <4>1. \/ call' = [call EXCEPT ![c] = [@ EXCEPT !.pc = "evict"]]
              \/ call' = [call EXCEPT ![c] = NotCalling]
          BY <2>5 DEF CallFind
        <4>2. [call[c] EXCEPT !.pc = "evict"] \in Calling
          BY <3>1 DEF Calling
        <4>3. call \in [Caller -> Calling \cup {NotCalling}]
          OBVIOUS
        <4>4. QED
          BY <4>1, <4>2, <4>3
      <3>4. QED
        BY <2>5, <3>1, <3>2, <3>3 DEF CallFind, Calling
    <2>6. CASE CallEvict(c)
      BY <2>6, StoreTypes DEF CallEvict, Calling
    <2>7. QED
      BY <1>5, <2>1, <2>2, <2>3, <2>4, <2>5, <2>6 DEF CallStep
  <1>6. ASSUME NEW i \in Instance, BootStep(i)
        PROVE  TypeOK'
    <2> USE BlankIsRecord DEF Boot, Booting, NoCopies, StoreTypeOK
    <2>1. CASE BootList(i)
      <3>1. StoreTypeOK'
        BY <2>1, StoreTypes DEF BootList
      <3>2. /\ Active \subseteq Token
            /\ [t \in Token |-> IF t \in Active THEN rec[t] ELSE Blank] \in [Token -> Record]
        BY DEF Active
      <3>3. boot' \in [Instance -> Booting]
        <4>1. \E b \in Booting : boot' = [boot EXCEPT ![i] = b]
          <5>1. CASE boot' = [boot EXCEPT ![i] = Boot("up", {}, NoCopies, 0)]
            BY <5>1
          <5>2. CASE boot' = [boot EXCEPT ![i] = Boot("warming", Active,
                       [t \in Token |-> IF t \in Active THEN rec[t] ELSE Blank], clock)]
            BY <3>2, <5>2
          <5>3. QED
            BY <2>1, <5>1, <5>2 DEF BootList
        <4>2. QED
          BY <4>1
      <3>4. QED
        BY <2>1, <3>1, <3>3 DEF BootList
    <2>2. ASSUME NEW t \in Token, BootCache(i, t)
          PROVE  TypeOK'
      <3>1. StoreTypeOK'
        BY <2>2, StoreTypes DEF BootCache
      <3>2. boot' \in [Instance -> Booting]
        <4>1. boot[i] \in Booting /\ boot[i].copies \in [Token -> Record]
          OBVIOUS
        <4>2. [boot[i].copies EXCEPT ![t] = Blank] \in [Token -> Record]
          BY <4>1
        <4>3. boot'[i] = [boot[i] EXCEPT !.todo = @ \ {t},
                                         !.copies = [boot[i].copies EXCEPT ![t] = Blank]]
          BY <2>2, <4>1 DEF BootCache
        <4>4. QED
          BY <2>2, <4>1, <4>2, <4>3 DEF BootCache
      <3>3. cache' \in [Instance -> [Token -> Entry \cup {None}]]
        BY <2>2 DEF BootCache, Entry
      <3>4. QED
        BY <2>2, <3>1, <3>2, <3>3 DEF BootCache
    <2>3. CASE BootServe(i)
      BY <2>3, StoreTypes DEF BootServe
    <2>4. CASE Crash(i)
      BY <2>4, StoreTypes DEF Crash
    <2>5. QED
      BY <1>6, <2>1, <2>2, <2>3, <2>4 DEF BootStep
  <1>7. CASE UNCHANGED vars
    BY <1>7, StoreTypes DEF vars
  <1>8. QED
    BY <1>1, <1>2, <1>3, <1>4, <1>5, <1>6, <1>7 DEF Next

\* Every variable of TokenService keeps its type: the store's rows are never
\* half-written records, a call that is under way names an instance and a token.
THEOREM TypeCorrect == Spec => []TypeOK
  <1>1. Init => TypeOK
    BY InitTypeOK
  <1>2. TypeOK /\ [Next]_vars => TypeOK'
    BY NextTypeOK
  <1>3. QED
    BY <1>1, <1>2, PTL DEF Spec

-----------------------------------------------------------------------------
(* What a step of one call leaves alone.                                   *)

LEMMA ResolveAdvances ==
  ASSUME TypeOK, NEW r \in Resolver, resolve[r].pc # "idle", NEW p,
         resolve' = [resolve EXCEPT ![r].pc = p]
  PROVE  /\ resolve'[r] = [resolve[r] EXCEPT !.pc = p]
         /\ resolve[r] \in Resolving
         /\ resolve'[r].pc = p
         /\ resolve'[r].on = resolve[r].on
         /\ resolve'[r].tok = resolve[r].tok
         /\ \A q \in Resolver \ {r} : resolve'[q] = resolve[q]
  <1>1. resolve[r] \in Resolving
    BY BusyResolver
  <1>2. resolve'[r] = [resolve[r] EXCEPT !.pc = p]
    BY DEF TypeOK
  <1>3. \A q \in Resolver \ {r} : resolve'[q] = resolve[q]
    BY DEF TypeOK
  <1>4. QED
    BY <1>1, <1>2, <1>3 DEF Resolving

LEMMA CallAdvances ==
  ASSUME TypeOK, NEW c \in Caller, call[c].pc # "idle", NEW p,
         call' = [call EXCEPT ![c].pc = p]
  PROVE  /\ call[c] \in Calling
         /\ call'[c].pc = p
         /\ call'[c].op = call[c].op
         /\ call'[c].on = call[c].on
         /\ call'[c].tok = call[c].tok
         /\ \A d \in Caller \ {c} : call'[d] = call[d]
  <1>1. call[c] \in Calling
    BY BusyCaller
  <1>2. call'[c] = [call[c] EXCEPT !.pc = p]
    BY DEF TypeOK
  <1>3. \A d \in Caller \ {c} : call'[d] = call[d]
    BY DEF TypeOK
  <1>4. QED
    BY <1>1, <1>2, <1>3 DEF Calling

-----------------------------------------------------------------------------
(* The index covers the cache.                                             *)

\* An entry nobody can find by id is one somebody is about to index or delete.
THEOREM IndexCovers == Spec => []IndexCoversCache
  <1>1. Init => IndexCoversCache
    BY DEF Init, IndexCoversCache, Cached
  <1>2. TypeOK /\ IndexCoversCache /\ [Next]_vars => IndexCoversCache'
    <2> SUFFICES ASSUME TypeOK, IndexCoversCache, [Next]_vars,
                        NEW i \in Instance, NEW t \in Token, Cached(i, t)'
                 PROVE  Findable(i, t)'
      BY DEF IndexCoversCache
    <2>1. Cached(i, t) => Findable(i, t)
      BY DEF IndexCoversCache
    <2>2. ASSUME UNCHANGED <<cache, index, resolve, call>>
          PROVE  Findable(i, t)'
      BY <2>1, <2>2 DEF Cached, Findable, Indexing, Deleting
    <2>3. ASSUME NEW r \in Resolver, ResolveStep(r)
          PROVE  Findable(i, t)'
      <3>1. call' = call
        BY <2>3 DEF ResolveStep, ResolveStart, ResolveLookup, ResolveEvict, ResolveRead,
                    ResolveStore, ResolveIndex, ResolveDone
      <3>2. CASE ResolveStore(r)
        <4>1. /\ resolve[r] \in Resolving /\ resolve'[r].pc = "index"
              /\ resolve'[r].on = resolve[r].on /\ resolve'[r].tok = resolve[r].tok
              /\ \A q \in Resolver \ {r} : resolve'[q] = resolve[q]
              /\ resolve[r].pc # "index" /\ index' = index
          BY <3>2, ResolveAdvances DEF ResolveStore
        <4>2. i # resolve[r].on \/ t # resolve[r].tok => cache'[i][t] = cache[i][t]
          BY <3>2, <4>1 DEF ResolveStore, TypeOK, Resolving
        <4>3. CASE i = resolve[r].on /\ t = resolve[r].tok
          BY <4>1, <4>3 DEF Findable, Indexing
        <4>4. CASE i # resolve[r].on \/ t # resolve[r].tok
          <5>1. Findable(i, t)
            BY <2>1, <4>2, <4>4 DEF Cached
          <5>2. QED
            BY <3>1, <4>1, <5>1 DEF Findable, Indexing, Deleting
        <4>5. QED
          BY <4>3, <4>4
      <3>3. CASE ResolveIndex(r)
        <4>1. /\ resolve[r] \in Resolving /\ cache' = cache
              /\ \A q \in Resolver \ {r} : resolve'[q] = resolve[q]
          BY <3>3, ResolveAdvances DEF ResolveIndex
        <4>2. index[i] \subseteq index'[i]
          BY <3>3 DEF ResolveIndex, TypeOK
        <4>3. resolve[r].on = i => resolve[r].tok \in index'[i]
          BY <3>3 DEF ResolveIndex, TypeOK
        <4>4. QED
          BY <2>1, <3>1, <4>1, <4>2, <4>3 DEF Cached, Findable, Indexing, Deleting
      <3>4. ASSUME index' = index, Cached(i, t), ~Indexing(r, i, t),
                   \A q \in Resolver \ {r} : resolve'[q] = resolve[q]
            PROVE  Findable(i, t)'
        BY <2>1, <3>1, <3>4 DEF Findable, Indexing, Deleting
      <3>5. CASE ResolveEvict(r)
        <4>1. Cached(i, t)
          BY <3>5, BusyResolver DEF ResolveEvict, Cached, TypeOK, Resolving
        <4>2. QED
          BY <3>4, <3>5, <4>1, ResolveAdvances DEF ResolveEvict, Indexing
      <3>6. CASE \E j \in Instance, u \in Token : ResolveStart(r, j, u)
        BY <3>4, <3>6 DEF ResolveStart, Cached, Indexing, TypeOK
      <3>7. CASE ResolveLookup(r)
        BY <3>4, <3>7 DEF ResolveLookup, Cached, Indexing, TypeOK
      <3>8. CASE ResolveRead(r)
        BY <3>4, <3>8 DEF ResolveRead, Cached, Indexing, TypeOK
      <3>9. CASE ResolveDone(r)
        BY <3>4, <3>9 DEF ResolveDone, Cached, Indexing, TypeOK, Answered
      <3>10. QED
        BY <2>3, <3>2, <3>3, <3>5, <3>6, <3>7, <3>8, <3>9 DEF ResolveStep
    <2>4. ASSUME NEW c \in Caller, CallStep(c)
          PROVE  Findable(i, t)'
      <3>1. resolve' = resolve
        BY <2>4 DEF CallStep, CallStart, CallRevoke, CallUpdate, CallError, CallFind, CallEvict
      <3>2. \A d \in Caller \ {c} : call'[d] = call[d]
        BY <2>4 DEF CallStep, CallStart, CallRevoke, CallUpdate, CallError, CallFind,
                    CallEvict, TypeOK
      <3>3. CASE CallFind(c)
        <4>1. /\ call[c] \in Calling /\ cache' = cache
              /\ call[c].tok \in index[call[c].on] =>
                   call'[c].pc = "evict" /\ call'[c].on = call[c].on /\ call'[c].tok = call[c].tok
              /\ ~Deleting(c, i, t)
          BY <3>3, BusyCaller, CallAdvances DEF CallFind, Deleting
        <4>2. t \in index[i] => t \in index'[i] \/ (i = call[c].on /\ t = call[c].tok)
          BY <3>3, <4>1 DEF CallFind, TypeOK, Calling
        <4>3. Findable(i, t)
          BY <2>1, <4>1 DEF Cached
        <4>4. CASE t \in index[i]
          BY <4>1, <4>2, <4>4 DEF Findable, Deleting
        <4>5. CASE \E r \in Resolver : Indexing(r, i, t)
          BY <3>1, <4>5 DEF Findable, Indexing
        <4>6. CASE \E d \in Caller : Deleting(d, i, t)
          BY <3>2, <4>1, <4>6 DEF Findable, Deleting
        <4>7. QED
          BY <4>3, <4>4, <4>5, <4>6 DEF Findable
      <3>4. CASE CallEvict(c)
        <4>1. call[c] \in Calling /\ index' = index
          BY <3>4, BusyCaller DEF CallEvict
        <4>2. Cached(i, t) /\ ~Deleting(c, i, t)
          BY <3>4, <4>1 DEF CallEvict, Cached, Deleting, TypeOK, Calling
        <4>3. QED
          BY <2>1, <3>1, <3>2, <4>1, <4>2 DEF Findable, Indexing, Deleting
      <3>5. ASSUME UNCHANGED <<cache, index>>, call[c].pc # "evict"
            PROVE  Findable(i, t)'
        BY <2>1, <3>1, <3>2, <3>5 DEF Cached, Findable, Indexing, Deleting
      <3>6. QED
        BY <2>4, <3>3, <3>4, <3>5 DEF CallStep, CallStart, CallRevoke, CallUpdate, CallError
    <2>5. ASSUME NEW j \in Instance, BootStep(j)
          PROVE  Findable(i, t)'
      <3>1. CASE BootList(j) \/ BootServe(j)
        BY <2>2, <3>1 DEF BootList, BootServe
      <3>2. ASSUME NEW u \in Token, BootCache(j, u)
            PROVE  Findable(i, t)'
        <4>1. resolve' = resolve /\ call' = call
          BY <3>2 DEF BootCache
        <4>2. index[i] \subseteq index'[i] /\ (i = j /\ t = u => t \in index'[i])
          BY <3>2 DEF BootCache, TypeOK
        <4>3. i # j \/ t # u => cache'[i][t] = cache[i][t]
          BY <3>2 DEF BootCache, TypeOK
        <4>4. QED
          BY <2>1, <4>1, <4>2, <4>3 DEF Cached, Findable, Indexing, Deleting
      <3>3. CASE Crash(j)
        <4>1. i # j /\ Cached(i, t) /\ index'[i] = index[i]
          BY <3>3 DEF Crash, Cached, TypeOK
        <4>2. /\ \A q \in Resolver : resolve[q].on = i => resolve'[q] = resolve[q]
              /\ \A d \in Caller : call[d].on = i => call'[d] = call[d]
          BY <3>3, <4>1 DEF Crash
        <4>3. QED
          BY <2>1, <4>1, <4>2 DEF Findable, Indexing, Deleting
      <3>4. QED
        BY <2>5, <3>1, <3>2, <3>3 DEF BootStep
    <2>6. QED
      BY <2>2, <2>3, <2>4, <2>5 DEF Next, vars, Time, Cleanup, Create
  <1>3. QED
    BY <1>1, <1>2, TypeCorrect, PTL DEF Spec

-----------------------------------------------------------------------------
(* Copies of rows are true, and grants are recent.                         *)

\* What any step does to the table.
LEMMA StoreMoves ==
  ASSUME TypeOK, [Next]_vars
  PROVE  \/ UNCHANGED storeVars
         \/ Tick
         \/ DeleteExpiredProxyTokens
         \/ \E t \in Token : \/ \E exp \in ExpiryChoices : CreateProxyToken(t, exp)
                             \/ RevokeProxyToken(t)
                             \/ UpdateProxyTokenScopes(t)
  <1>1. CASE Time \/ Cleanup \/ UNCHANGED vars
    BY <1>1 DEF Time, Cleanup, vars
  <1>2. CASE \E t \in Token : Create(t)
    BY <1>2 DEF Create
  <1>3. CASE \E r \in Resolver : ResolveStep(r)
    BY <1>3 DEF ResolveStep, ResolveStart, ResolveLookup, ResolveEvict, ResolveRead,
                ResolveStore, ResolveIndex, ResolveDone
  <1>4. ASSUME NEW c \in Caller, CallStep(c)
        PROVE  \/ UNCHANGED storeVars
               \/ \E t \in Token : RevokeProxyToken(t) \/ UpdateProxyTokenScopes(t)
    <2>1. CASE CallRevoke(c) \/ CallUpdate(c)
      BY <2>1, BusyCaller DEF CallRevoke, CallUpdate, Calling
    <2>2. QED
      BY <1>4, <2>1 DEF CallStep, CallStart, CallError, CallFind, CallEvict
  <1>5. CASE \E i \in Instance : BootStep(i)
    BY <1>5 DEF BootStep, BootList, BootCache, BootServe, Crash
  <1>6. QED
    BY <1>1, <1>2, <1>3, <1>4, <1>5 DEF Next

\* A copy of the row just read is true.
LEMMA FreshCopy ==
  ASSUME TypeOK, NEW t \in stored, ~Revoked(rec[t])
  PROVE  CopyOf(t, rec[t], clock)
  BY DEF CopyOf, TypeOK, StoreTypeOK

\* A true copy stays true whatever happens to the row: a revocation or an update
\* is stamped with a later time.
LEMMA CopyKept ==
  ASSUME TypeOK, [Next]_vars, NEW t \in Token, NEW c \in Record, NEW at \in Nat,
         CopyOf(t, c, at)
  PROVE  CopyOf(t, c, at)'
  <1> USE DEF CopyOf, Revoked, TypeOK, StoreTypeOK, Record, Version, Nil
  <1>1. CASE UNCHANGED storeVars
    BY <1>1 DEF storeVars
  <1>2. CASE Tick
    BY <1>2 DEF Tick
  <1>3. CASE DeleteExpiredProxyTokens
    BY <1>3 DEF DeleteExpiredProxyTokens
  <1>4. ASSUME NEW u \in Token, NEW exp, CreateProxyToken(u, exp)
        PROVE  CopyOf(t, c, at)'
    BY <1>4 DEF CreateProxyToken
  <1>5. ASSUME NEW u \in Token, RevokeProxyToken(u)
        PROVE  CopyOf(t, c, at)'
    <2>1. CASE u = t
      BY <1>5, <2>1 DEF RevokeProxyToken, CanRevoke
    <2>2. CASE u # t
      BY <1>5, <2>2 DEF RevokeProxyToken
    <2>3. QED
      BY <2>1, <2>2
  <1>6. ASSUME NEW u \in Token, UpdateProxyTokenScopes(u)
        PROVE  CopyOf(t, c, at)'
    <2>1. CASE u = t
      BY <1>6, <2>1, MaxVersionAssumption DEF UpdateProxyTokenScopes
    <2>2. CASE u # t
      BY <1>6, <2>2 DEF UpdateProxyTokenScopes
    <2>3. QED
      BY <2>1, <2>2
  <1>7. QED
    BY <1>1, <1>2, <1>3, <1>4, <1>5, <1>6, StoreMoves

\* Time passes only in Time, which waits for the fills that are due.
LEMMA ClockMoves ==
  ASSUME TypeOK, [Next]_vars
  PROVE  \/ clock' = clock
         \/ MayTick /\ clock' = clock + 1 /\ UNCHANGED <<cache, resolve, boot>>
  <1>1. CASE Time
    BY <1>1 DEF Time, Tick
  <1>2. CASE Cleanup \/ UNCHANGED vars
    BY <1>2 DEF Cleanup, DeleteExpiredProxyTokens, vars, storeVars
  <1>3. CASE \E t \in Token : Create(t)
    BY <1>3 DEF Create, CreateProxyToken
  <1>4. CASE \E r \in Resolver : ResolveStep(r)
    BY <1>4 DEF ResolveStep, ResolveStart, ResolveLookup, ResolveEvict, ResolveRead,
                ResolveStore, ResolveIndex, ResolveDone, storeVars
  <1>5. CASE \E c \in Caller : CallStep(c)
    BY <1>5 DEF CallStep, CallStart, CallRevoke, CallUpdate, CallError, CallFind, CallEvict,
                RevokeProxyToken, UpdateProxyTokenScopes, storeVars
  <1>6. CASE \E i \in Instance : BootStep(i)
    BY <1>6 DEF BootStep, BootList, BootCache, BootServe, Crash, storeVars
  <1>7. QED
    BY <1>1, <1>2, <1>3, <1>4, <1>5, <1>6 DEF Next

\* Which steps write an entry, and which entry.
LEMMA EntryMoves ==
  ASSUME TypeOK, [Next]_vars, NEW i \in Instance, NEW t \in Token, Cached(i, t)'
  PROVE  \/ Cached(i, t) /\ cache'[i][t] = cache[i][t]
         \/ \E r \in Resolver : ResolveStore(r) /\ resolve[r].on = i /\ resolve[r].tok = t
         \/ BootCache(i, t)
  <1> USE DEF Cached
  <1>1. CASE UNCHANGED cache
    BY <1>1
  <1>2. ASSUME NEW r \in Resolver, ResolveEvict(r) \/ ResolveStore(r)
        PROVE  \/ Cached(i, t) /\ cache'[i][t] = cache[i][t]
               \/ ResolveStore(r) /\ resolve[r].on = i /\ resolve[r].tok = t
    BY <1>2, BusyResolver DEF ResolveEvict, ResolveStore, TypeOK, Resolving
  <1>3. ASSUME NEW c \in Caller, CallEvict(c)
        PROVE  Cached(i, t) /\ cache'[i][t] = cache[i][t]
    BY <1>3, BusyCaller DEF CallEvict, TypeOK, Calling
  <1>4. ASSUME NEW j \in Instance, NEW u \in Token, BootCache(j, u)
        PROVE  \/ Cached(i, t) /\ cache'[i][t] = cache[i][t]
               \/ BootCache(i, t)
    BY <1>4 DEF BootCache, TypeOK
  <1>5. ASSUME NEW j \in Instance, Crash(j)
        PROVE  Cached(i, t) /\ cache'[i][t] = cache[i][t]
    BY <1>5 DEF Crash, TypeOK
  <1>6. QED
    BY <1>1, <1>2, <1>3, <1>4, <1>5
       DEF Next, vars, Time, Cleanup, Create, ResolveStep, ResolveStart, ResolveLookup,
           ResolveRead, ResolveIndex, ResolveDone, CallStep, CallStart, CallRevoke,
           CallUpdate, CallError, CallFind, BootStep, BootList, BootServe

\* Which steps move a Resolve call, or end it.
LEMMA ResolveMoves ==
  ASSUME TypeOK, [Next]_vars, NEW r \in Resolver
  PROVE  \/ resolve'[r] = resolve[r]
         \/ resolve'[r] = NotResolving
         \/ ResolveStep(r)
  <1>1. CASE UNCHANGED resolve
    BY <1>1
  <1>2. ASSUME NEW q \in Resolver, ResolveStep(q), q # r
        PROVE  resolve'[r] = resolve[r]
    BY <1>2 DEF ResolveStep, ResolveStart, ResolveLookup, ResolveEvict, ResolveRead,
                ResolveStore, ResolveIndex, ResolveDone, TypeOK
  <1>3. ASSUME NEW j \in Instance, Crash(j)
        PROVE  resolve'[r] = resolve[r] \/ resolve'[r] = NotResolving
    BY <1>3 DEF Crash
  <1>4. QED
    BY <1>1, <1>2, <1>3
       DEF Next, vars, Time, Cleanup, Create, CallStep, CallStart, CallRevoke, CallUpdate,
           CallError, CallFind, CallEvict, BootStep, BootList, BootCache, BootServe

\* An entry is a true copy, cached no later than MaxFlight after it was read.
LEMMA EntriesStayTrue ==
  ASSUME TypeOK, CopiesAreTrue, [Next]_vars
  PROVE  EntriesAreTrue'
  <1> SUFFICES ASSUME NEW i \in Instance, NEW t \in Token, Cached(i, t)'
               PROVE  /\ CopyOf(t, cache[i][t].rec, cache[i][t].readAt)'
                      /\ (cache[i][t].cachedAt <= cache[i][t].readAt + MaxFlight)'
    BY DEF EntriesAreTrue
  <1>1. CASE Cached(i, t) /\ cache'[i][t] = cache[i][t]
    <2>1. cache[i][t].rec \in Record /\ cache[i][t].readAt \in Nat
      BY <1>1 DEF TypeOK, Cached, Entry
    <2>2. /\ CopyOf(t, cache[i][t].rec, cache[i][t].readAt)
          /\ cache[i][t].cachedAt <= cache[i][t].readAt + MaxFlight
      BY <1>1 DEF CopiesAreTrue, EntriesAreTrue
    <2>3. CopyOf(t, cache[i][t].rec, cache[i][t].readAt)'
      BY <1>1, <2>1, <2>2, CopyKept DEF CopyOf
    <2>4. QED
      BY <1>1, <2>2, <2>3
  <1>2. ASSUME NEW r \in Resolver, ResolveStore(r), resolve[r].on = i, resolve[r].tok = t
        PROVE  /\ CopyOf(t, cache[i][t].rec, cache[i][t].readAt)'
               /\ (cache[i][t].cachedAt <= cache[i][t].readAt + MaxFlight)'
    <2>1. resolve[r] \in Resolving /\ resolve[r].pc = "store"
      BY <1>2, BusyResolver DEF ResolveStore
    <2>2. cache'[i][t] = [rec |-> resolve[r].copy, cachedAt |-> clock,
                          readAt |-> resolve[r].readAt]
      BY <1>2 DEF ResolveStore, TypeOK
    <2>3. /\ CopyOf(t, resolve[r].copy, resolve[r].readAt)
          /\ clock <= resolve[r].start + MaxFlight /\ resolve[r].start <= resolve[r].readAt
      BY <1>2, <2>1 DEF CopiesAreTrue, FillsAreTrue, InFlight
    <2>4. clock <= resolve[r].readAt + MaxFlight
      BY <2>1, <2>3, MaxFlightAssumption DEF TypeOK, StoreTypeOK, Resolving
    <2>5. CopyOf(t, cache[i][t].rec, cache[i][t].readAt)'
      BY <2>1, <2>2, <2>3, CopyKept DEF CopyOf, Resolving
    <2>6. QED
      BY <2>2, <2>4, <2>5
  <1>3. CASE BootCache(i, t)
    <2>1. boot[i].copies[t] \in Record /\ boot[i].readAt \in Nat
      BY DEF TypeOK, Booting
    <2>2. cache'[i][t] = [rec |-> boot[i].copies[t], cachedAt |-> clock,
                          readAt |-> boot[i].readAt]
      BY <1>3 DEF BootCache, TypeOK
    <2>3. /\ CopyOf(t, boot[i].copies[t], boot[i].readAt)
          /\ clock <= boot[i].readAt + MaxFlight
      BY <1>3 DEF BootCache, CopiesAreTrue, WarmUpsAreTrue
    <2>4. CopyOf(t, cache[i][t].rec, cache[i][t].readAt)'
      BY <2>1, <2>2, <2>3, CopyKept DEF CopyOf
    <2>5. QED
      BY <2>2, <2>3, <2>4
  <1>4. QED
    BY <1>1, <1>2, <1>3, EntryMoves

\* What a Resolve call carries is a true copy read after the call began.
LEMMA FillsStayTrue ==
  ASSUME TypeOK, CopiesAreTrue, [Next]_vars
  PROVE  FillsAreTrue'
  <1> SUFFICES ASSUME NEW r \in Resolver
               PROVE  /\ (resolve[r].pc # "idle" => resolve[r].start <= clock)'
                      /\ (resolve[r].pc \in InFlight => clock <= resolve[r].start + MaxFlight)'
                      /\ (resolve[r].pc \in {"store", "index"} =>
                            /\ CopyOf(resolve[r].tok, resolve[r].copy, resolve[r].readAt)
                            /\ resolve[r].start <= resolve[r].readAt
                            /\ ~Expired(resolve[r].copy, resolve[r].start))'
    BY DEF FillsAreTrue
  <1> DEFINE q == resolve[r]
  <1>1. /\ q.pc # "idle" => q.start <= clock
        /\ q.pc \in InFlight => clock <= q.start + MaxFlight
        /\ q.pc \in {"store", "index"} => /\ CopyOf(q.tok, q.copy, q.readAt)
                                         /\ q.start <= q.readAt
                                         /\ ~Expired(q.copy, q.start)
    BY DEF CopiesAreTrue, FillsAreTrue
  <1>2. clock \in Nat
    BY DEF TypeOK, StoreTypeOK
  <1>3. CASE q.pc = "idle" /\ resolve'[r] = q
    BY <1>3 DEF InFlight
  <1>4. CASE resolve'[r] = NotResolving
    BY <1>4 DEF NotResolving, InFlight
  <1>5. ASSUME q \in Resolving, q.pc \in {"store", "index"}, resolve'[r].tok = q.tok,
               resolve'[r].copy = q.copy, resolve'[r].readAt = q.readAt
        PROVE  CopyOf(resolve[r].tok, resolve[r].copy, resolve[r].readAt)'
    BY <1>1, <1>5, CopyKept DEF CopyOf, Resolving
  <1>6. CASE q.pc # "idle" /\ resolve'[r] = q
    <2>1. q \in Resolving
      BY <1>6, BusyResolver
    <2>2. q.start \in Nat /\ (q.pc # "idle" => q.start <= clock')
      BY <1>1, <1>2, <2>1, ClockMoves DEF Resolving
    <2>3. q.pc \in InFlight => clock' <= q.start + MaxFlight
      BY <1>1, <1>2, <2>2, ClockMoves, MaxFlightAssumption DEF MayTick
    <2>4. QED
      BY <1>1, <1>5, <1>6, <2>1, <2>2, <2>3
  <1>7. CASE ResolveStep(r)
    <2>1. clock' = clock /\ resolve \in [Resolver -> Resolving \cup {NotResolving}]
      BY <1>7 DEF ResolveStep, ResolveStart, ResolveLookup, ResolveEvict, ResolveRead,
                  ResolveStore, ResolveIndex, ResolveDone, storeVars, TypeOK
    <2>2. ASSUME NEW i \in Instance, NEW t \in Token, ResolveStart(r, i, t)
          PROVE  /\ resolve'[r].start = clock /\ resolve'[r].pc = "lookup"
      BY <2>1, <2>2 DEF ResolveStart
    <2>3. ASSUME q.pc \in InFlight, q \in Resolving, resolve'[r].start = q.start,
                 resolve'[r].pc \notin {"store", "index"}
          PROVE  /\ (resolve[r].pc # "idle" => resolve[r].start <= clock)'
                 /\ (resolve[r].pc \in InFlight => clock <= resolve[r].start + MaxFlight)'
                 /\ ~(resolve[r].pc \in {"store", "index"})'
      BY <1>1, <2>1, <2>3 DEF InFlight
    <2>4. CASE ResolveLookup(r) \/ ResolveEvict(r) \/ ResolveIndex(r)
      <3>1. q \in Resolving /\ q.pc \in InFlight
        BY <2>4, BusyResolver DEF ResolveLookup, ResolveEvict, ResolveIndex, InFlight
      <3>2. resolve'[r].start = q.start /\ resolve'[r].pc \notin {"store", "index"}
        BY <2>1, <2>4, <3>1 DEF ResolveLookup, ResolveEvict, ResolveIndex, Resolving
      <3>3. QED
        BY <2>3, <3>1, <3>2
    <2>5. CASE ResolveRead(r)
      <3>1. q \in Resolving /\ q.pc \in InFlight
        BY <2>5, BusyResolver DEF ResolveRead, InFlight
      <3>2. CASE resolve'[r].pc \in {"failed", "refused"} /\ resolve'[r].start = q.start
        BY <2>3, <3>1, <3>2
      <3>3. CASE /\ q.tok \in stored /\ ~Rejected(rec[q.tok], q.start)
                 /\ resolve' = [resolve EXCEPT ![r].pc = "store", ![r].copy = rec[q.tok],
                                               ![r].readAt = clock]
        <4>1. /\ resolve'[r].pc = "store" /\ resolve'[r].start = q.start
              /\ resolve'[r].tok = q.tok /\ resolve'[r].copy = rec[q.tok]
              /\ resolve'[r].readAt = clock
          BY <2>1, <3>1, <3>3 DEF Resolving
        <4>2. CopyOf(q.tok, rec[q.tok], clock) /\ ~Expired(rec[q.tok], q.start)
          BY <3>3, FreshCopy DEF Rejected
        <4>3. q.tok \in Token /\ rec[q.tok] \in Record
          BY <3>1 DEF Resolving, TypeOK, StoreTypeOK
        <4>4. CopyOf(resolve[r].tok, resolve[r].copy, resolve[r].readAt)'
          BY <1>2, <4>1, <4>2, <4>3, CopyKept DEF CopyOf
        <4>5. QED
          BY <1>1, <2>1, <3>1, <4>1, <4>2, <4>4 DEF InFlight, Expired
      <3>4. QED
        BY <2>1, <2>5, <3>1, <3>2, <3>3 DEF ResolveRead, Resolving
    <2>6. CASE ResolveStore(r)
      <3>1. q \in Resolving /\ q.pc = "store"
        BY <2>6, BusyResolver DEF ResolveStore
      <3>2. /\ resolve'[r].pc = "index" /\ resolve'[r].start = q.start
            /\ resolve'[r].tok = q.tok /\ resolve'[r].copy = q.copy
            /\ resolve'[r].readAt = q.readAt
        BY <2>1, <2>6, <3>1 DEF ResolveStore, Resolving
      <3>3. QED
        BY <1>1, <1>5, <2>1, <3>1, <3>2 DEF InFlight, Expired
    <2>7. CASE ResolveDone(r)
      BY <1>4, <2>1, <2>7 DEF ResolveDone
    <2>8. QED
      BY <1>2, <1>7, <2>1, <2>2, <2>4, <2>5, <2>6, <2>7, MaxFlightAssumption DEF ResolveStep
  <1>8. QED
    BY <1>3, <1>4, <1>6, <1>7, ResolveMoves

\* What a warm-up has still to cache is what it listed.
LEMMA WarmUpsStayTrue ==
  ASSUME TypeOK, CopiesAreTrue, [Next]_vars
  PROVE  WarmUpsAreTrue'
  <1> SUFFICES ASSUME NEW i \in Instance, boot'[i].st = "warming"
               PROVE  /\ (clock <= boot[i].readAt + MaxFlight)'
                      /\ \A t \in boot'[i].todo : CopyOf(t, boot[i].copies[t], boot[i].readAt)'
    BY DEF WarmUpsAreTrue
  <1>1. clock \in Nat /\ boot[i] \in Booting
    BY DEF TypeOK, StoreTypeOK
  <1>2. ASSUME boot[i].st = "warming", boot'[i].readAt = boot[i].readAt, NEW t \in boot[i].todo,
               boot'[i].copies[t] = boot[i].copies[t]
        PROVE  CopyOf(t, boot[i].copies[t], boot[i].readAt)'
    <2>1. CopyOf(t, boot[i].copies[t], boot[i].readAt)
      BY <1>2 DEF CopiesAreTrue, WarmUpsAreTrue
    <2>2. t \in Token /\ boot[i].copies[t] \in Record /\ boot[i].readAt \in Nat
      BY <1>1, <1>2 DEF Booting
    <2>3. QED
      BY <1>2, <2>1, <2>2, CopyKept DEF CopyOf
  <1>3. CASE boot'[i] = boot[i]
    <2>1. clock <= boot[i].readAt + MaxFlight
      BY <1>3 DEF CopiesAreTrue, WarmUpsAreTrue
    <2>2. (clock <= boot[i].readAt + MaxFlight)'
      BY <1>1, <1>3, <2>1, ClockMoves, MaxFlightAssumption DEF MayTick, Booting
    <2>3. QED
      BY <1>2, <1>3, <2>2
  <1>4. CASE BootList(i)
    <2>1. /\ boot'[i] = Boot("warming", Active,
                          [t \in Token |-> IF t \in Active THEN rec[t] ELSE Blank], clock)
          /\ clock' = clock
      BY <1>4 DEF BootList, Boot, TypeOK, storeVars
    <2>2. ASSUME NEW t \in Active
          PROVE  CopyOf(t, boot[i].copies[t], boot[i].readAt)'
      <3>1. CopyOf(t, rec[t], clock)
        BY FreshCopy DEF Active
      <3>2. t \in Token /\ rec[t] \in Record
        BY DEF Active, TypeOK, StoreTypeOK
      <3>3. boot'[i].copies[t] = rec[t] /\ boot'[i].readAt = clock
        BY <2>1, <3>2 DEF Boot
      <3>4. QED
        BY <1>1, <3>1, <3>2, <3>3, CopyKept DEF CopyOf
    <2>3. QED
      BY <1>1, <2>1, <2>2, MaxFlightAssumption DEF Boot
  <1>5. ASSUME NEW u \in Token, BootCache(i, u)
        PROVE  /\ (clock <= boot[i].readAt + MaxFlight)'
               /\ \A t \in boot'[i].todo : CopyOf(t, boot[i].copies[t], boot[i].readAt)'
    <2>1. /\ boot[i].st = "warming" /\ clock' = clock
          /\ boot'[i].readAt = boot[i].readAt
          /\ boot'[i].todo = boot[i].todo \ {u}
          /\ \A t \in Token \ {u} : boot'[i].copies[t] = boot[i].copies[t]
      BY <1>1, <1>5 DEF BootCache, TypeOK, Booting, storeVars
    <2>2. QED
      BY <1>1, <1>2, <2>1 DEF Booting, CopiesAreTrue, WarmUpsAreTrue
  <1>6. CASE BootServe(i) \/ Crash(i)
    BY <1>6 DEF BootServe, Crash, Boot, TypeOK
  <1>7. ASSUME NEW j \in Instance, BootStep(j), j # i
        PROVE  boot'[i] = boot[i]
    BY <1>7 DEF BootStep, BootList, BootCache, BootServe, Crash, TypeOK
  <1>8. QED
    BY <1>3, <1>4, <1>5, <1>6, <1>7
       DEF Next, vars, Time, Cleanup, Create, ResolveStep, ResolveStart, ResolveLookup,
           ResolveEvict, ResolveRead, ResolveStore, ResolveIndex, ResolveDone, CallStep,
           CallStart, CallRevoke, CallUpdate, CallError, CallFind, CallEvict, BootStep

\* Every copy of a row held by a cache, by a Resolve call or by a warm-up is the
\* row as the store had it when it was read, and is cached within MaxFlight.
THEOREM Copies == Spec => []CopiesAreTrue
  <1>1. Init => CopiesAreTrue
    BY DEF Init, CopiesAreTrue, EntriesAreTrue, FillsAreTrue, WarmUpsAreTrue, Cached, Boot,
           NotResolving, InFlight
  <1>2. TypeOK /\ CopiesAreTrue /\ [Next]_vars => CopiesAreTrue'
    BY EntriesStayTrue, FillsStayTrue, WarmUpsStayTrue DEF CopiesAreTrue
  <1>3. QED
    BY <1>1, <1>2, TypeCorrect, PTL DEF Spec

-----------------------------------------------------------------------------
(* Grants.                                                                 *)

\* A true copy that is fresh enough allows a grant.
LEMMA CopyAllowsGrant ==
  ASSUME TypeOK, NEW t \in Token, NEW c \in Record, NEW at \in Nat, NEW time \in Nat,
         CopyOf(t, c, at), ~Expired(c, time), time < at + Staleness
  PROVE  Authority!RecentlyUsable(t, c.ver, time)
  <1>1. Staleness \in Nat
    BY TTLAssumption, MaxFlightAssumption DEF Staleness
  <1>2. rec[t] \in Record /\ c.ver \in Version /\ endedAt[t] \in [Version -> Nat \cup {Nil}]
    BY DEF TypeOK, StoreTypeOK, Record
  <1>3. Revoked(rec[t]) => time < rec[t].revokedAt + Staleness
    BY <1>1, <1>2 DEF CopyOf, Record, Nil
  <1>4. c.ver < rec[t].ver /\ at <= endedAt[t][c.ver] => time < endedAt[t][c.ver] + Staleness
    BY <1>1, <1>2 DEF Nil
  <1>5. QED
    BY <1>3, <1>4 DEF Authority!RecentlyUsable, Authority!Expired, Authority!Revoked,
                      Authority!Nil, CopyOf, Expired, Revoked, Nil

\* A grant stays recent: whatever happens to the token later is stamped with a
\* time no earlier than the arrival of the request.
LEMMA GrantKept ==
  ASSUME TypeOK, [Next]_vars, NEW t \in Token, NEW v \in Version, NEW time \in Nat,
         time <= clock, Authority!RecentlyUsable(t, v, time)
  PROVE  Authority!RecentlyUsable(t, v, time)'
  <1>1. Staleness \in Nat \ {0}
    BY TTLAssumption, MaxFlightAssumption DEF Staleness
  <1> USE DEF Authority!RecentlyUsable, Authority!Expired, Authority!Revoked, Authority!Nil,
              Revoked, TypeOK, StoreTypeOK, Record, Version, Nil
  <1>2. CASE UNCHANGED <<issued, rec, endedAt>>
    BY <1>2
  <1>3. ASSUME NEW u \in Token, NEW exp, CreateProxyToken(u, exp)
        PROVE  Authority!RecentlyUsable(t, v, time)'
    BY <1>3 DEF CreateProxyToken
  <1>4. ASSUME NEW u \in Token, RevokeProxyToken(u)
        PROVE  Authority!RecentlyUsable(t, v, time)'
    <2>1. CASE u = t
      BY <1>1, <1>4, <2>1 DEF RevokeProxyToken, CanRevoke
    <2>2. CASE u # t
      BY <1>4, <2>2 DEF RevokeProxyToken
    <2>3. QED
      BY <2>1, <2>2
  <1>5. ASSUME NEW u \in Token, UpdateProxyTokenScopes(u)
        PROVE  Authority!RecentlyUsable(t, v, time)'
    <2>1. CASE u = t
      BY <1>1, <1>5, <2>1, MaxVersionAssumption DEF UpdateProxyTokenScopes
    <2>2. CASE u # t
      BY <1>5, <2>2 DEF UpdateProxyTokenScopes
    <2>3. QED
      BY <2>1, <2>2
  <1>6. QED
    BY <1>2, <1>3, <1>4, <1>5, StoreMoves DEF storeVars, Tick, DeleteExpiredProxyTokens

\* The step that answers with a grant answers with a recent one.
LEMMA GrantGiven ==
  ASSUME TypeOK, CopiesAreTrue, NEW r \in Resolver, resolve[r].pc # "granted",
         ResolveLookup(r) \/ ResolveIndex(r), resolve'[r].pc = "granted"
  PROVE  /\ resolve'[r].tok = resolve[r].tok
         /\ resolve'[r].start = resolve[r].start
         /\ resolve'[r].copy \in Record
         /\ Authority!RecentlyUsable(resolve[r].tok, resolve'[r].copy.ver, resolve[r].start)
  <1> DEFINE q == resolve[r]
             e == cache[q.on][q.tok]
  <1>1. /\ q \in Resolving /\ q.on \in Instance /\ q.tok \in Token /\ q.start \in Nat
        /\ q.copy \in Record /\ q.readAt \in Nat
    BY BusyResolver DEF ResolveLookup, ResolveIndex, Resolving
  <1>2. TTL \in Nat \ {0} /\ MaxFlight \in Nat /\ Staleness = TTL + MaxFlight
    BY TTLAssumption, MaxFlightAssumption DEF Staleness
  <1>3. CASE ResolveIndex(r)
    <2>1. /\ resolve'[r].tok = q.tok /\ resolve'[r].start = q.start
          /\ resolve'[r].copy = q.copy /\ q.pc = "index"
      BY <1>1, <1>3 DEF ResolveIndex, TypeOK, Resolving
    <2>2. CopyOf(q.tok, q.copy, q.readAt) /\ q.start <= q.readAt /\ ~Expired(q.copy, q.start)
      BY <2>1 DEF CopiesAreTrue, FillsAreTrue
    <2>3. q.start < q.readAt + Staleness
      BY <1>1, <1>2, <2>2
    <2>4. QED
      BY <1>1, <2>1, <2>2, <2>3, CopyAllowsGrant
  <1>4. CASE ResolveLookup(r)
    <2>1. e # None /\ Fresh(e, q.start) /\ ~Rejected(e.rec, q.start)
      BY <1>1, <1>4, ZenonT(40)
         DEF ResolveLookup, TypeOK, Resolving
    <2>2. e \in Entry
      BY <1>1, <2>1 DEF TypeOK
    <2>3. resolve'[r].tok = q.tok /\ resolve'[r].start = q.start /\ resolve'[r].copy = e.rec
      <3>1. resolve' = [resolve EXCEPT ![r].pc = "granted", ![r].copy = e.rec,
                                       ![r].readAt = e.readAt]
        <4>1. \A p : p # "granted" => resolve' # [resolve EXCEPT ![r].pc = p]
          BY <1>1 DEF TypeOK, Resolving
        <4>2. QED
          BY <1>4, <4>1 DEF ResolveLookup
      <3> HIDE DEF e
      <3>2. QED
        BY <1>1, <3>1 DEF TypeOK, Resolving
    <2>4. CopyOf(q.tok, e.rec, e.readAt) /\ e.cachedAt <= e.readAt + MaxFlight
      BY <1>1, <2>1 DEF CopiesAreTrue, EntriesAreTrue, Cached
    <2>5. q.start < e.readAt + Staleness
      BY <1>1, <1>2, <2>1, <2>2, <2>4 DEF Fresh, Entry
    <2>6. e.rec \in Record /\ e.readAt \in Nat /\ ~Expired(e.rec, q.start)
      BY <2>1, <2>2 DEF Entry, Rejected
    <2>7. QED
      BY <1>1, <2>3, <2>4, <2>5, <2>6, CopyAllowsGrant, ZenonT(40)
  <1>5. QED
    BY <1>3, <1>4

\* Only these two steps answer with a grant.
LEMMA GrantSteps ==
  ASSUME TypeOK, NEW r \in Resolver, ResolveStep(r), resolve'[r].pc = "granted"
  PROVE  resolve[r].pc # "granted" /\ (ResolveLookup(r) \/ ResolveIndex(r))
  <1>1. CASE ResolveLookup(r) \/ ResolveIndex(r)
    BY <1>1 DEF ResolveLookup, ResolveIndex
  <1>2. CASE \E i \in Instance, t \in Token : ResolveStart(r, i, t)
    BY <1>2 DEF ResolveStart, TypeOK
  <1>3. CASE ResolveEvict(r) \/ ResolveStore(r)
    BY <1>3, BusyResolver DEF ResolveEvict, ResolveStore, TypeOK, Resolving
  <1>4. CASE ResolveRead(r)
    <2>1. resolve[r] \in Resolving
      BY <1>4, BusyResolver DEF ResolveRead
    <2>2. resolve'[r].pc \in {"failed", "refused", "store"}
      BY <1>4, <2>1 DEF ResolveRead, TypeOK, Resolving
    <2>3. QED
      BY <2>2
  <1>5. CASE ResolveDone(r)
    BY <1>5 DEF ResolveDone, NotResolving, TypeOK
  <1>6. QED
    BY <1>1, <1>2, <1>3, <1>4, <1>5 DEF ResolveStep

\* Bounded staleness: on every instance, a request is granted a version of the
\* scopes of a token that had not expired when the request arrived and that was
\* not revoked, nor the version replaced, TTL + MaxFlight or more before that.
THEOREM BoundedStaleness == Spec => []GrantsAreRecent
  <1>1. Init => GrantsAreRecent
    BY DEF Init, GrantsAreRecent, NotResolving
  <1>2. TypeOK /\ TypeOK' /\ CopiesAreTrue /\ GrantsAreRecent /\ [Next]_vars => GrantsAreRecent'
    <2> SUFFICES ASSUME TypeOK, TypeOK', CopiesAreTrue, GrantsAreRecent, [Next]_vars,
                        NEW r \in Resolver, resolve'[r].pc = "granted"
                 PROVE  Authority!RecentlyUsable(resolve[r].tok, resolve[r].copy.ver,
                                                 resolve[r].start)'
      BY DEF GrantsAreRecent
    <2> DEFINE q == resolve[r]
    <2>1. ASSUME q \in Resolving, NEW v \in Version, resolve'[r].tok = q.tok,
                 resolve'[r].start = q.start, resolve'[r].copy.ver = v,
                 Authority!RecentlyUsable(q.tok, v, q.start)
          PROVE  Authority!RecentlyUsable(resolve[r].tok, resolve[r].copy.ver,
                                          resolve[r].start)'
      <3>1. q.tok \in Token /\ q.start \in Nat /\ q.start <= clock
        BY <2>1 DEF Resolving, CopiesAreTrue, FillsAreTrue, InFlight, Answered
      <3>2. QED
        BY <2>1, <3>1, GrantKept DEF Authority!RecentlyUsable
    <2>2. CASE resolve'[r] = q
      <3>1. q \in Resolving /\ q.copy.ver \in Version
        BY <2>2, BusyResolver DEF Resolving, Record
      <3>2. QED
        BY <2>1, <2>2, <3>1 DEF GrantsAreRecent
    <2>3. CASE ResolveStep(r)
      <3>1. q.pc # "granted" /\ (ResolveLookup(r) \/ ResolveIndex(r))
        BY <2>3, GrantSteps
      <3>2. q \in Resolving /\ resolve'[r].copy \in Record
        BY <3>1, BusyResolver, GrantGiven DEF ResolveLookup, ResolveIndex
      <3>3. QED
        BY <2>1, <3>1, <3>2, GrantGiven DEF Record
    <2>4. QED
      BY <2>2, <2>3, ResolveMoves DEF NotResolving
  <1>3. QED
    BY <1>1, <1>2, TypeCorrect, Copies, PTL DEF Spec

-----------------------------------------------------------------------------
(* The service implements the authority.                                   *)

\* What the authority sees of the Resolve calls.
Asking == [r \in Resolver |-> Asked(r)]

\* What is asked by a call that is under way, and by one that is not.
LEMMA AskedIs ==
  ASSUME TypeOK, NEW r \in Resolver
  PROVE  /\ Asking[r] = Asked(r)
         /\ resolve[r].pc \in InFlight =>
              Asked(r) = [st |-> "asked", tok |-> resolve[r].tok,
                          start |-> resolve[r].start, ver |-> 0]
         /\ resolve[r] = NotResolving => Asked(r) = Authority!NoAsk
  <1>1. Asking[r] = Asked(r)
    BY DEF Asking
  <1>2. ASSUME resolve[r].pc \in InFlight
        PROVE  Asked(r) = [st |-> "asked", tok |-> resolve[r].tok,
                           start |-> resolve[r].start, ver |-> 0]
    BY <1>2 DEF Asked, InFlight
  <1>3. ASSUME resolve[r] = NotResolving
        PROVE  Asked(r) = Authority!NoAsk
    BY <1>3 DEF Asked, InFlight, NotResolving, Authority!NoAsk, Authority!Nil, Nil
  <1>4. QED
    BY <1>1, <1>2, <1>3

\* A step that moves one call changes what that request asks and nothing else.
LEMMA OneAsks ==
  ASSUME NEW r \in Resolver, NEW a, Asked(r)' = a,
         \A q \in Resolver \ {r} : resolve'[q] = resolve[q]
  PROVE  Asking' = [Asking EXCEPT ![r] = a]
  <1>1. \A q \in Resolver \ {r} : Asked(q)' = Asked(q)
    BY DEF Asked
  <1>2. QED
    BY <1>1 DEF Asking

LEMMA NobodyAsks ==
  ASSUME UNCHANGED resolve
  PROVE  Asking' = Asking
  BY DEF Asking, Asked

\* A token that a true copy of its row, or the row itself, rules out can really
\* not be used.
LEMMA RejectedIsUnusable ==
  ASSUME TypeOK, NEW t \in Token, NEW time \in Nat, time <= clock,
         \/ t \notin stored \/ Rejected(rec[t], time)
         \/ \E c \in Record, at \in Nat : CopyOf(t, c, at) /\ Rejected(c, time)
  PROVE  ~Authority!Usable(t)
  <1> USE DEF Authority!Usable, Authority!Expired, Authority!Revoked, Authority!Nil,
              Rejected, Expired, Revoked, Nil
  <1>1. rec[t] \in Record /\ clock \in Nat
    BY DEF TypeOK, StoreTypeOK
  <1>2. CASE t \notin stored \/ Rejected(rec[t], time)
    BY <1>1, <1>2 DEF Record
  <1>3. ASSUME NEW c \in Record, NEW at \in Nat, CopyOf(t, c, at), Rejected(c, time)
        PROVE  ~Authority!Usable(t)
    <2>1. c.exp = rec[t].exp /\ c.exp # Nil /\ time > c.exp
      BY <1>3 DEF CopyOf
    <2>2. QED
      BY <1>1, <2>1 DEF Record
  <1>4. QED
    BY <1>2, <1>3

\* A call that only moves on keeps its token and the time of its arrival.
LEMMA CallKeeps ==
  ASSUME TypeOK, NEW r \in Resolver, resolve[r].pc \in InFlight, NEW p,
         resolve' = [resolve EXCEPT ![r].pc = p]
  PROVE  /\ resolve'[r].pc = p
         /\ resolve'[r].tok = resolve[r].tok
         /\ resolve'[r].start = resolve[r].start
         /\ \A q \in Resolver \ {r} : resolve'[q] = resolve[q]
  <1>1. resolve[r].pc # "idle"
    BY DEF InFlight
  <1>2. /\ resolve[r] \in Resolving
        /\ resolve'[r] = [resolve[r] EXCEPT !.pc = p]
        /\ \A q \in Resolver \ {r} : resolve'[q] = resolve[q]
    BY <1>1, ResolveAdvances
  <1>3. QED
    BY <1>2 DEF Resolving

\* The three ways in which a call answers.
LEMMA CallRefused ==
  ASSUME TypeOK, NEW r \in Resolver, resolve[r].pc \in InFlight,
         resolve' = [resolve EXCEPT ![r].pc = "refused"], UNCHANGED storeVars,
         ~Authority!Usable(resolve[r].tok)
  PROVE  Authority!Refuse(r)
  <1>1. /\ resolve'[r].pc = "refused"
        /\ resolve'[r].tok = resolve[r].tok /\ resolve'[r].start = resolve[r].start
        /\ \A q \in Resolver \ {r} : resolve'[q] = resolve[q]
    BY CallKeeps
  <1>2. Asked(r)' = [Asking[r] EXCEPT !.st = "refused"]
    <2>1. Asked(r)' = [st |-> "refused", tok |-> resolve[r].tok,
                       start |-> resolve[r].start, ver |-> 0]
      BY <1>1 DEF Asked, InFlight
    <2>2. Asking[r] = [st |-> "asked", tok |-> resolve[r].tok,
                       start |-> resolve[r].start, ver |-> 0]
      BY AskedIs
    <2>3. QED
      BY <2>1, <2>2
  <1>3. Asking' = [Asking EXCEPT ![r].st = "refused"]
    BY <1>1, <1>2, OneAsks
  <1>4. Asking[r].st = "asked" /\ Asking[r].tok = resolve[r].tok
    BY AskedIs
  <1>5. QED
    BY <1>3, <1>4 DEF Authority!Refuse, Authority!storeVars, storeVars, Asking

LEMMA CallFailed ==
  ASSUME TypeOK, NEW r \in Resolver, resolve[r].pc \in InFlight,
         resolve' = [resolve EXCEPT ![r].pc = "failed"], UNCHANGED storeVars
  PROVE  Authority!Fail(r)
  <1>1. /\ resolve'[r].pc = "failed"
        /\ resolve'[r].tok = resolve[r].tok /\ resolve'[r].start = resolve[r].start
        /\ \A q \in Resolver \ {r} : resolve'[q] = resolve[q]
    BY CallKeeps
  <1>2. Asked(r)' = [Asking[r] EXCEPT !.st = "failed"]
    <2>1. Asked(r)' = [st |-> "failed", tok |-> resolve[r].tok,
                       start |-> resolve[r].start, ver |-> 0]
      BY <1>1 DEF Asked, InFlight
    <2>2. Asking[r] = [st |-> "asked", tok |-> resolve[r].tok,
                       start |-> resolve[r].start, ver |-> 0]
      BY AskedIs
    <2>3. QED
      BY <2>1, <2>2
  <1>3. Asking' = [Asking EXCEPT ![r].st = "failed"]
    BY <1>1, <1>2, OneAsks
  <1>4. Asking[r].st = "asked"
    BY AskedIs
  <1>5. QED
    BY <1>3, <1>4 DEF Authority!Fail, Authority!storeVars, storeVars, Asking

LEMMA CallGranted ==
  ASSUME TypeOK, NEW r \in Resolver, NEW v \in Version, resolve[r].pc \in InFlight,
         resolve'[r].pc = "granted", resolve'[r].tok = resolve[r].tok,
         resolve'[r].start = resolve[r].start, resolve'[r].copy.ver = v,
         \A q \in Resolver \ {r} : resolve'[q] = resolve[q], UNCHANGED storeVars,
         Authority!RecentlyUsable(resolve[r].tok, v, resolve[r].start)
  PROVE  Authority!Grant(r, v)
  <1> DEFINE a == [st |-> "granted", tok |-> resolve[r].tok,
                   start |-> resolve[r].start, ver |-> v]
  <1>1. Asked(r)' = a
    BY DEF Asked, InFlight
  <1>2. Asking' = [Asking EXCEPT ![r] = a]
    BY <1>1, OneAsks
  <1>3. /\ Asking[r].st = "asked" /\ Asking[r].tok = resolve[r].tok
        /\ Asking[r].start = resolve[r].start
        /\ Asking[r] = [st |-> "asked", tok |-> resolve[r].tok,
                        start |-> resolve[r].start, ver |-> 0]
    BY AskedIs
  <1>4. Asking' = [Asking EXCEPT ![r].st = "granted", ![r].ver = v]
    BY <1>2, <1>3 DEF Asking
  <1>5. QED
    BY <1>3, <1>4 DEF Authority!Grant, Authority!storeVars, storeVars, Asking

\* A step that takes a call from one of its unanswered states to another.
LEMMA CallGoesOn ==
  ASSUME TypeOK, NEW r \in Resolver, resolve[r].pc \in InFlight, resolve'[r].pc \in InFlight,
         resolve'[r].tok = resolve[r].tok, resolve'[r].start = resolve[r].start,
         \A q \in Resolver \ {r} : resolve'[q] = resolve[q], UNCHANGED storeVars
  PROVE  UNCHANGED Authority!authorityVars
  <1>1. Asked(r)' = Asked(r)
    BY DEF Asked, InFlight
  <1>2. Asking' = Asking
    BY <1>1, OneAsks DEF Asking
  <1>3. QED
    BY <1>2 DEF Authority!authorityVars, storeVars, Asking

\* Every step of a Resolve call is a step of the authority, or is invisible to it.
LEMMA ResolveRefines ==
  ASSUME TypeOK, TypeOK', CopiesAreTrue, NEW r \in Resolver, ResolveStep(r)
  PROVE  Authority!AuthorityNext \/ UNCHANGED Authority!authorityVars
  <1>1. ASSUME NEW i \in Instance, NEW t \in Token, ResolveStart(r, i, t)
        PROVE  Authority!Ask(r, t)
    <2>1. /\ resolve'[r] = [pc |-> "lookup", on |-> i, tok |-> t, start |-> clock,
                            copy |-> Blank, readAt |-> 0]
          /\ \A q \in Resolver \ {r} : resolve'[q] = resolve[q]
          /\ resolve[r] = NotResolving
          /\ UNCHANGED storeVars
      BY <1>1 DEF ResolveStart, TypeOK, Resolving, InFlight, Answered
    <2>2. Asked(r)' = [st |-> "asked", tok |-> t, start |-> clock, ver |-> 0]
      BY <2>1 DEF Asked, InFlight
    <2>3. Asking' = [Asking EXCEPT ![r] = [st |-> "asked", tok |-> t, start |-> clock,
                                           ver |-> 0]]
      BY <2>1, <2>2, OneAsks
    <2>4. Asking[r].st = "idle"
      BY <2>1, AskedIs DEF Authority!NoAsk
    <2>5. QED
      BY <2>1, <2>3, <2>4 DEF Authority!Ask, Authority!storeVars, storeVars, Asking
  <1>2. CASE ResolveLookup(r)
    <2> DEFINE q == resolve[r]
               e == cache[q.on][q.tok]
    <2>1. /\ q \in Resolving /\ q.on \in Instance /\ q.tok \in Token /\ q.start \in Nat
          /\ q.start <= clock /\ q.pc = "lookup" /\ q.pc \in InFlight
      BY <1>2, BusyResolver DEF ResolveLookup, Resolving, InFlight, CopiesAreTrue, FillsAreTrue
    <2>2. UNCHANGED storeVars
      BY <1>2 DEF ResolveLookup
    <2>3. ASSUME NEW p \in {"read", "evict"}, resolve' = [resolve EXCEPT ![r].pc = p]
          PROVE  UNCHANGED Authority!authorityVars
      <3>1. /\ resolve'[r].pc = p /\ resolve'[r].tok = q.tok /\ resolve'[r].start = q.start
            /\ \A s \in Resolver \ {r} : resolve'[s] = resolve[s]
        BY <2>1, <2>3, CallKeeps
      <3>2. QED
        BY <2>1, <2>2, <3>1, CallGoesOn DEF InFlight
    <2>4. ASSUME e # None, Rejected(e.rec, q.start),
                 resolve' = [resolve EXCEPT ![r].pc = "refused"]
          PROVE  Authority!Refuse(r)
      <3>1. e \in Entry
        BY <2>1, <2>4 DEF TypeOK
      <3>2. CopyOf(q.tok, e.rec, e.readAt)
        BY <2>1, <2>4 DEF CopiesAreTrue, EntriesAreTrue, Cached
      <3>3. ~Authority!Usable(q.tok)
        BY <2>1, <2>4, <3>1, <3>2, RejectedIsUnusable DEF Entry
      <3>4. QED
        BY <2>1, <2>2, <2>4, <3>3, CallRefused
    <2>5. CASE resolve' = [resolve EXCEPT ![r].pc = "granted", ![r].copy = e.rec,
                                          ![r].readAt = e.readAt]
      <3>1. resolve'[r].pc = "granted" /\ \A s \in Resolver \ {r} : resolve'[s] = resolve[s]
        <4> HIDE DEF e
        <4>1. QED
          BY <2>1, <2>5 DEF TypeOK, Resolving
      <3>2. /\ resolve'[r].tok = q.tok /\ resolve'[r].start = q.start
            /\ resolve'[r].copy \in Record
            /\ Authority!RecentlyUsable(q.tok, resolve'[r].copy.ver, q.start)
        BY <1>2, <2>1, <3>1, GrantGiven DEF InFlight
      <3>3. PICK v \in Version : resolve'[r].copy.ver = v
        BY <3>2 DEF Record
      <3>4. Authority!Grant(r, v)
        BY <2>1, <2>2, <3>1, <3>2, <3>3, CallGranted
      <3>5. QED
        BY <3>4 DEF Authority!AuthorityNext, Authority!Version, Version
    <2>6. QED
      BY <1>2, <2>3, <2>4, <2>5 DEF ResolveLookup, Authority!AuthorityNext
  <1>3. CASE ResolveEvict(r) \/ ResolveStore(r)
    <2>1. PICK p \in {"read", "index"} : resolve' = [resolve EXCEPT ![r].pc = p]
      BY <1>3 DEF ResolveEvict, ResolveStore
    <2>2. resolve[r].pc \in {"evict", "store"} /\ UNCHANGED storeVars
      BY <1>3 DEF ResolveEvict, ResolveStore
    <2>3. /\ resolve'[r].pc = p /\ resolve'[r].tok = resolve[r].tok
          /\ resolve'[r].start = resolve[r].start
          /\ \A s \in Resolver \ {r} : resolve'[s] = resolve[s]
      BY <2>1, <2>2, CallKeeps DEF InFlight
    <2>4. QED
      BY <2>2, <2>3, CallGoesOn DEF InFlight
  <1>4. CASE ResolveRead(r)
    <2> DEFINE q == resolve[r]
    <2>1. /\ q \in Resolving /\ q.tok \in Token /\ q.start \in Nat
          /\ q.start <= clock /\ q.pc = "read" /\ q.pc \in InFlight
      BY <1>4, BusyResolver DEF ResolveRead, Resolving, InFlight, CopiesAreTrue, FillsAreTrue
    <2>2. UNCHANGED storeVars
      BY <1>4 DEF ResolveRead
    <2>3. ASSUME resolve' = [resolve EXCEPT ![r].pc = "failed"]
          PROVE  Authority!Fail(r)
      BY <2>1, <2>2, <2>3, CallFailed
    <2>4. ASSUME q.tok \notin stored \/ Rejected(rec[q.tok], q.start),
                 resolve' = [resolve EXCEPT ![r].pc = "refused"]
          PROVE  Authority!Refuse(r)
      <3>1. ~Authority!Usable(q.tok)
        BY <2>1, <2>4, RejectedIsUnusable
      <3>2. QED
        BY <2>1, <2>2, <2>4, <3>1, CallRefused
    <2>5. ASSUME resolve' = [resolve EXCEPT ![r].pc = "store", ![r].copy = rec[q.tok],
                                            ![r].readAt = clock]
          PROVE  UNCHANGED Authority!authorityVars
      <3>1. /\ resolve'[r].pc = "store" /\ resolve'[r].tok = q.tok
            /\ resolve'[r].start = q.start
            /\ \A s \in Resolver \ {r} : resolve'[s] = resolve[s]
        BY <2>1, <2>5 DEF TypeOK, Resolving
      <3>2. QED
        BY <2>1, <2>2, <3>1, CallGoesOn DEF InFlight
    <2>6. QED
      BY <1>4, <2>3, <2>4, <2>5 DEF ResolveRead, Authority!AuthorityNext
  <1>5. CASE ResolveIndex(r)
    <2>1. /\ resolve[r].pc = "index" /\ resolve' = [resolve EXCEPT ![r].pc = "granted"]
          /\ UNCHANGED storeVars
      BY <1>5 DEF ResolveIndex
    <2>2. resolve'[r].pc = "granted" /\ \A s \in Resolver \ {r} : resolve'[s] = resolve[s]
      BY <2>1, ResolveAdvances
    <2>3. /\ resolve'[r].tok = resolve[r].tok /\ resolve'[r].start = resolve[r].start
          /\ resolve'[r].copy \in Record
          /\ Authority!RecentlyUsable(resolve[r].tok, resolve'[r].copy.ver, resolve[r].start)
      BY <1>5, <2>1, <2>2, GrantGiven
    <2>4. PICK v \in Version : resolve'[r].copy.ver = v
      BY <2>3 DEF Record
    <2>5. Authority!Grant(r, v)
      BY <2>1, <2>2, <2>3, <2>4, CallGranted DEF InFlight
    <2>6. QED
      BY <2>5 DEF Authority!AuthorityNext, Authority!Version, Version
  <1>6. CASE ResolveDone(r)
    <2>1. /\ resolve'[r] = NotResolving /\ UNCHANGED storeVars
          /\ \A q \in Resolver \ {r} : resolve'[q] = resolve[q]
      BY <1>6 DEF ResolveDone, TypeOK
    <2>2. Asking' = [q \in Resolver |-> IF q \in {r} THEN Authority!NoAsk ELSE Asking[q]]
      <3>1. Asked(r)' = Authority!NoAsk
        BY <2>1 DEF Asked, InFlight, NotResolving, Authority!NoAsk, Authority!Nil, Nil
      <3>2. Asking' = [Asking EXCEPT ![r] = Authority!NoAsk]
        BY <2>1, <3>1, OneAsks
      <3>3. QED
        BY <3>2 DEF Asking
    <2>3. Authority!Drop({r})
      BY <2>1, <2>2 DEF Authority!Drop, Authority!storeVars, storeVars, Asking
    <2>4. QED
      BY <2>3 DEF Authority!AuthorityNext
  <1>7. QED
    <2>1. CASE \E i \in Instance, t \in Token : ResolveStart(r, i, t)
      BY <1>1, <2>1 DEF Authority!AuthorityNext
    <2>2. QED
      BY <1>2, <1>3, <1>4, <1>5, <1>6, <2>1 DEF ResolveStep

\* The operations on the table are the authority's own.
LEMMA TableRefines ==
  ASSUME UNCHANGED resolve,
         \/ UNCHANGED storeVars
         \/ Tick
         \/ DeleteExpiredProxyTokens
         \/ \E t \in Token : \/ \E exp \in ExpiryChoices : CreateProxyToken(t, exp)
                             \/ RevokeProxyToken(t)
                             \/ UpdateProxyTokenScopes(t)
  PROVE  Authority!AuthorityNext \/ UNCHANGED Authority!authorityVars
  <1>1. UNCHANGED Asking
    BY NobodyAsks
  <1>2. CASE UNCHANGED storeVars
    BY <1>1, <1>2 DEF storeVars, Authority!authorityVars, Asking
  <1>3. CASE Tick
    BY <1>1, <1>3 DEF Tick, Authority!Tick, Authority!AuthorityNext, Asking
  <1>4. CASE DeleteExpiredProxyTokens
    BY <1>1, <1>4
       DEF DeleteExpiredProxyTokens, Authority!DeleteExpiredProxyTokens, Purgeable,
           Authority!Purgeable, Revoked, Authority!Revoked, Nil, Authority!Nil,
           Authority!AuthorityNext, Asking
  <1>5. ASSUME NEW t \in Token, NEW exp \in ExpiryChoices, CreateProxyToken(t, exp)
        PROVE  Authority!AuthorityNext
    <2>1. exp \in Authority!ExpiryChoices
      BY DEF ExpiryChoices, Authority!ExpiryChoices, Nil, Authority!Nil
    <2>2. Authority!CreateProxyToken(t, exp)
      BY <1>5 DEF CreateProxyToken, Authority!CreateProxyToken, Nil, Authority!Nil
    <2>3. QED
      BY <1>1, <2>1, <2>2 DEF Authority!AuthorityNext, Asking
  <1>6. ASSUME NEW t \in Token, RevokeProxyToken(t)
        PROVE  Authority!AuthorityNext
    <2>1. Authority!RevokeProxyToken(t)
      BY <1>6 DEF RevokeProxyToken, Authority!RevokeProxyToken, CanRevoke,
                  Authority!CanRevoke, Revoked, Authority!Revoked, Nil, Authority!Nil
    <2>2. QED
      BY <1>1, <2>1 DEF Authority!AuthorityNext, Asking
  <1>7. ASSUME NEW t \in Token, UpdateProxyTokenScopes(t)
        PROVE  Authority!AuthorityNext
    <2>1. Authority!UpdateProxyTokenScopes(t)
      BY <1>7 DEF UpdateProxyTokenScopes, Authority!UpdateProxyTokenScopes
    <2>2. QED
      BY <1>1, <2>1 DEF Authority!AuthorityNext, Asking
  <1>8. QED
    BY <1>2, <1>3, <1>4, <1>5, <1>6, <1>7

\* A crash loses the requests of its instance.
LEMMA CrashRefines ==
  ASSUME NEW i \in Instance, Crash(i)
  PROVE  Authority!AuthorityNext
  <1> DEFINE lost == {r \in Resolver : resolve[r].on = i}
  <1>1. \A r \in Resolver : Asked(r)' = IF r \in lost THEN Authority!NoAsk ELSE Asked(r)
    <2>1. ASSUME NEW r \in Resolver, resolve'[r] = NotResolving
          PROVE  Asked(r)' = Authority!NoAsk
      BY <2>1 DEF Asked, InFlight, NotResolving, Authority!NoAsk, Authority!Nil, Nil
    <2>2. ASSUME NEW r \in Resolver, resolve'[r] = resolve[r]
          PROVE  Asked(r)' = Asked(r)
      BY <2>2 DEF Asked
    <2>3. QED
      BY <2>1, <2>2 DEF Crash
  <1>2. Asking' = [r \in Resolver |-> IF r \in lost THEN Authority!NoAsk ELSE Asking[r]]
    BY <1>1 DEF Asking
  <1>3. Authority!Drop(lost)
    BY <1>2 DEF Crash, Authority!Drop, Authority!storeVars, storeVars, Asking
  <1>4. QED
    BY <1>3 DEF Authority!AuthorityNext

\* The token service implements the authority: with its caches, its warm-ups, its
\* crashes and its races it answers every request as a service without a cache
\* could have answered it Staleness earlier, and refuses only what is unusable.
THEOREM Refinement == Spec => ImplementsAuthority
  <1>1. Init => Authority!AuthorityInit
    <2> SUFFICES ASSUME Init PROVE Authority!AuthorityInit
      OBVIOUS
    <2>1. Authority!StoreInit
      BY DEF Init, StoreInit, Authority!StoreInit, Blank, Authority!Blank, Nil, Authority!Nil,
             Version, Authority!Version
    <2>2. \A r \in Resolver : Asked(r) = Authority!NoAsk
      BY DEF Init, Asked, InFlight, NotResolving, Authority!NoAsk, Authority!Nil, Nil
    <2>3. QED
      BY <2>1, <2>2 DEF Authority!AuthorityInit
  <1>2. TypeOK /\ TypeOK' /\ CopiesAreTrue /\ [Next]_vars
          => [Authority!AuthorityNext]_Authority!authorityVars
    <2> SUFFICES ASSUME TypeOK, TypeOK', CopiesAreTrue, [Next]_vars
                 PROVE  Authority!AuthorityNext \/ UNCHANGED Authority!authorityVars
      OBVIOUS
    <2>1. CASE UNCHANGED resolve
      BY <2>1, StoreMoves, TableRefines
    <2>2. CASE \E r \in Resolver : ResolveStep(r)
      BY <2>2, ResolveRefines
    <2>3. CASE \E i \in Instance : Crash(i)
      BY <2>3, CrashRefines
    <2>4. QED
      BY <2>1, <2>2, <2>3
         DEF Next, vars, Time, Cleanup, Create, CallStep, CallStart, CallRevoke, CallUpdate,
             CallError, CallFind, CallEvict, BootStep, BootList, BootCache, BootServe
  <1>3. QED
    BY <1>1, <1>2, TypeCorrect, Copies, PTL DEF Spec, ImplementsAuthority,
       Authority!AuthoritySpec

-----------------------------------------------------------------------------
(* Revocation empties the cache.                                           *)

LEMMA RevokedKept ==
  ASSUME TypeOK, [Next]_vars, NEW t \in issued, Revoked(rec[t])
  PROVE  t \in issued' /\ Revoked(rec[t])'
  <1> USE DEF Revoked, TypeOK, StoreTypeOK, Record
  <1>1. CASE UNCHANGED storeVars \/ Tick \/ DeleteExpiredProxyTokens
    BY <1>1 DEF storeVars, Tick, DeleteExpiredProxyTokens
  <1>2. ASSUME NEW u \in Token, NEW exp, CreateProxyToken(u, exp)
        PROVE  t \in issued' /\ Revoked(rec[t])'
    BY <1>2 DEF CreateProxyToken
  <1>3. ASSUME NEW u \in Token, RevokeProxyToken(u)
        PROVE  t \in issued' /\ Revoked(rec[t])'
    BY <1>3 DEF RevokeProxyToken, CanRevoke
  <1>4. ASSUME NEW u \in Token, UpdateProxyTokenScopes(u)
        PROVE  t \in issued' /\ Revoked(rec[t])'
    BY <1>4 DEF UpdateProxyTokenScopes
  <1>5. QED
    BY <1>1, <1>2, <1>3, <1>4, StoreMoves

\* A revoked token is not read into a fill any more.
LEMMA FillMoves ==
  ASSUME TypeOK, [Next]_vars, NEW r \in Resolver, NEW i \in Instance, NEW t \in Token,
         Revoked(rec[t]), HoldsCopy(r, i, t)'
  PROVE  HoldsCopy(r, i, t)
  <1> USE DEF HoldsCopy
  <1>1. CASE resolve'[r] = resolve[r]
    BY <1>1
  <1>2. CASE resolve'[r] = NotResolving
    BY <1>2 DEF NotResolving
  <1>3. CASE ResolveStep(r)
    <2>1. CASE \E j \in Instance, u \in Token : ResolveStart(r, j, u)
      BY <2>1 DEF ResolveStart, TypeOK
    <2>2. CASE ResolveLookup(r)
      <3>1. resolve[r] \in Resolving
        BY <2>2, BusyResolver DEF ResolveLookup
      <3>2. resolve'[r].pc \in {"read", "evict", "refused", "granted"}
        BY <2>2, <3>1 DEF ResolveLookup, TypeOK, Resolving
      <3>3. QED
        BY <3>2
    <2>3. CASE ResolveEvict(r) \/ ResolveStore(r) \/ ResolveIndex(r)
      BY <2>3, BusyResolver DEF ResolveEvict, ResolveStore, ResolveIndex, TypeOK, Resolving
    <2>4. CASE ResolveRead(r)
      <3>1. resolve[r] \in Resolving
        BY <2>4, BusyResolver DEF ResolveRead
      <3>2. resolve'[r].pc \in {"failed", "refused"} \/ ~Revoked(rec[resolve[r].tok])
        BY <2>4, <3>1 DEF ResolveRead, Rejected, TypeOK, Resolving
      <3>3. resolve'[r].tok = resolve[r].tok
        BY <2>4, <3>1 DEF ResolveRead, TypeOK, Resolving
      <3>4. QED
        BY <3>2, <3>3
    <2>5. CASE ResolveDone(r)
      BY <1>2, <2>5 DEF ResolveDone, TypeOK
    <2>6. QED
      BY <1>3, <2>1, <2>2, <2>3, <2>4, <2>5 DEF ResolveStep
  <1>4. QED
    BY <1>1, <1>2, <1>3, ResolveMoves

\* Nor listed by a warm-up.
LEMMA WarmMoves ==
  ASSUME TypeOK, [Next]_vars, NEW i \in Instance, NEW t \in Token, Revoked(rec[t]),
         boot'[i].st = "warming", t \in boot'[i].todo
  PROVE  boot[i].st = "warming" /\ t \in boot[i].todo
  <1>1. CASE boot'[i] = boot[i]
    BY <1>1
  <1>2. CASE BootList(i)
    BY <1>2 DEF BootList, Boot, Active, TypeOK
  <1>3. CASE \E u \in Token : BootCache(i, u)
    BY <1>3 DEF BootCache, TypeOK, Booting
  <1>4. CASE BootServe(i) \/ Crash(i)
    BY <1>4 DEF BootServe, Crash, Boot, TypeOK
  <1>5. ASSUME NEW j \in Instance, BootStep(j), j # i
        PROVE  boot'[i] = boot[i]
    BY <1>5 DEF BootStep, BootList, BootCache, BootServe, Crash, TypeOK
  <1>6. QED
    BY <1>1, <1>2, <1>3, <1>4, <1>5
       DEF Next, vars, Time, Cleanup, Create, ResolveStep, ResolveStart, ResolveLookup,
           ResolveEvict, ResolveRead, ResolveStore, ResolveIndex, ResolveDone, CallStep,
           CallStart, CallRevoke, CallUpdate, CallError, CallFind, CallEvict, BootStep

\* A token stops being raced only when its instance crashes.
LEMMA RacedMoves ==
  ASSUME TypeOK, [Next]_vars, NEW i \in Instance
  PROVE  raced[i] \subseteq raced'[i] \/ Crash(i)
  <1>1. ASSUME NEW c \in Caller, CallRevoke(c)
        PROVE  raced[i] \subseteq raced'[i]
    BY <1>1, BusyCaller DEF CallRevoke, TypeOK, Calling
  <1>2. ASSUME NEW j \in Instance, Crash(j)
        PROVE  raced[i] \subseteq raced'[i] \/ Crash(i)
    BY <1>2 DEF Crash, TypeOK
  <1>3. QED
    BY <1>1, <1>2, ZenonT(40)
       DEF Next, vars, Time, Cleanup, Create, historyVars, ResolveStep, ResolveStart,
           ResolveLookup, ResolveEvict, ResolveRead, ResolveStore, ResolveIndex, ResolveDone,
           CallStep, CallStart, CallUpdate, CallError, CallFind, CallEvict, BootStep,
           BootList, BootCache, BootServe

\* What enters the index comes from a fill.
LEMMA IndexMoves ==
  ASSUME TypeOK, [Next]_vars, NEW i \in Instance, NEW t \in Token, t \in index'[i]
  PROVE  \/ t \in index[i]
         \/ \E r \in Resolver : HoldsCopy(r, i, t)
         \/ boot[i].st = "warming" /\ t \in boot[i].todo
  <1>1. ASSUME NEW r \in Resolver, ResolveIndex(r)
        PROVE  t \in index[i] \/ HoldsCopy(r, i, t)
    BY <1>1, BusyResolver DEF ResolveIndex, HoldsCopy, TypeOK, Resolving
  <1>2. ASSUME NEW j \in Instance, NEW u \in Token, BootCache(j, u)
        PROVE  t \in index[i] \/ (boot[i].st = "warming" /\ t \in boot[i].todo)
    BY <1>2 DEF BootCache, TypeOK
  <1>3. ASSUME NEW j \in Instance, Crash(j)
        PROVE  t \in index[i]
    BY <1>3 DEF Crash, TypeOK
  <1>4. ASSUME NEW c \in Caller, CallFind(c)
        PROVE  t \in index[i]
    BY <1>4, BusyCaller DEF CallFind, TypeOK, Calling
  <1>5. QED
    BY <1>1, <1>2, <1>3, <1>4, ZenonT(40)
       DEF Next, vars, Time, Cleanup, Create, ResolveStep, ResolveStart, ResolveLookup,
           ResolveEvict, ResolveRead, ResolveStore, ResolveDone, CallStep, CallStart,
           CallRevoke, CallUpdate, CallError, CallEvict, BootStep, BootList, BootServe

LEMMA ClearKept ==
  ASSUME TypeOK, [Next]_vars, NEW i \in Instance, NEW t \in Token, Clear(i, t)
  PROVE  Clear(i, t)'
  <1>1. t \in issued' /\ Revoked(rec[t])'
    BY RevokedKept DEF Clear
  <1>2. CASE raced[i] \subseteq raced'[i]
    BY <1>1, <1>2, FillMoves, WarmMoves DEF Clear
  <1>3. CASE Crash(i)
    BY <1>1, <1>3 DEF Clear, Crash, Boot, HoldsCopy, NotResolving, TypeOK
  <1>4. QED
    BY <1>2, <1>3, RacedMoves

LEMMA GoneKept ==
  ASSUME TypeOK, [Next]_vars, NEW i \in Instance, NEW t \in Token, Gone(i, t)
  PROVE  Gone(i, t)'
  <1>1. Clear(i, t)'
    BY ClearKept DEF Gone
  <1>2. CASE raced[i] \subseteq raced'[i]
    BY <1>1, <1>2, IndexMoves DEF Gone, Clear
  <1>3. CASE Crash(i)
    BY <1>1, <1>3 DEF Gone, Crash, TypeOK
  <1>4. QED
    BY <1>2, <1>3, RacedMoves

\* Which steps move an invalidating call.
LEMMA CallMoves ==
  ASSUME TypeOK, [Next]_vars, NEW c \in Caller
  PROVE  \/ call'[c] = call[c] /\ ~CallStep(c)
         \/ call'[c] = NotCalling /\ ~CallStep(c)
         \/ CallStep(c)
  <1>1. CASE UNCHANGED call
    BY <1>1
  <1>2. ASSUME NEW d \in Caller, CallStep(d), d # c
        PROVE  call'[c] = call[c]
    BY <1>2 DEF CallStep, CallStart, CallRevoke, CallUpdate, CallError, CallFind, CallEvict,
                TypeOK
  <1>3. ASSUME NEW j \in Instance, Crash(j)
        PROVE  call'[c] = call[c] \/ call'[c] = NotCalling
    BY <1>3 DEF Crash
  <1>4. QED
    BY <1>1, <1>2, <1>3
       DEF Next, vars, Time, Cleanup, Create, ResolveStep, ResolveStart, ResolveLookup,
           ResolveEvict, ResolveRead, ResolveStore, ResolveIndex, ResolveDone, BootStep,
           BootList, BootCache, BootServe

\* The step of Revoke that commits makes the token Clear on its instance.
LEMMA RevokeClears ==
  ASSUME TypeOK, RevokesProgress, NEW c \in Caller, CallRevoke(c),
         NEW i \in Instance, NEW t \in Token, call[c].on = i, call[c].tok = t
  PROVE  Clear(i, t)'
  <1>1. t \in issued' /\ Revoked(rec[t])'
    BY DEF CallRevoke, RevokeProxyToken, CanRevoke, Revoked, TypeOK, StoreTypeOK, Record, Nil
  <1>2. boot[i].st = "up" /\ boot' = boot /\ resolve' = resolve
    BY DEF RevokesProgress, CallRevoke
  <1>3. t \notin raced'[i] => \A r \in Resolver : ~HoldsCopy(r, i, t)
    BY DEF CallRevoke, TypeOK
  <1>4. QED
    BY <1>1, <1>2, <1>3 DEF Clear, HoldsCopy

\* The steps of an invalidating call: what they leave in its record, and what
\* they record as settled.
LEMMA CallStepMoves ==
  ASSUME TypeOK, [Next]_vars, NEW c \in Caller, CallStep(c)
  PROVE  \/ /\ call[c].pc = "idle"
            /\ call'[c].pc = "write" /\ boot'[call'[c].on].st = "up"
            /\ settled' = settled
         \/ /\ call[c] \in Calling /\ boot' = boot
            /\ \/ call'[c] = NotCalling
               \/ /\ call'[c].on = call[c].on /\ call'[c].tok = call[c].tok
                  /\ call'[c].op = call[c].op
                  /\ \/ call'[c].pc = "find" /\ CallRevoke(c)
                     \/ call'[c].pc = "find" /\ call[c].op = "update"
                     \/ call'[c].pc = "evict" /\ call[c].pc = "find"
            /\ call[c].pc = "find" => call[c].tok \notin index'[call[c].on]
            /\ \/ settled' = settled
               \/ /\ settled' = [settled EXCEPT ![call[c].on] = @ \cup {call[c].tok}]
                  /\ call[c].pc \in {"find", "evict"} /\ call[c].op = "revoke"
  <1> USE DEF TypeOK, Settle
  <1>1. ASSUME NEW i \in Instance, NEW t \in Token, NEW op \in {"revoke", "update"},
               CallStart(c, i, t, op)
        PROVE  /\ call[c].pc = "idle" /\ call'[c].pc = "write"
               /\ boot'[call'[c].on].st = "up" /\ settled' = settled
    BY <1>1 DEF CallStart, historyVars
  <1>2. ASSUME NEW p \in {"find", "evict"}, call[c] \in Calling,
               call' = [call EXCEPT ![c].pc = p]
        PROVE  /\ call'[c].on = call[c].on /\ call'[c].tok = call[c].tok
               /\ call'[c].op = call[c].op /\ call'[c].pc = p
    BY <1>2 DEF Calling
  <1>3. CASE CallRevoke(c)
    <2>1. call[c] \in Calling
      BY <1>3, BusyCaller DEF CallRevoke
    <2>2. call' = [call EXCEPT ![c].pc = "find"] /\ call[c].pc = "write"
          /\ boot' = boot /\ settled' = settled
      BY <1>3 DEF CallRevoke
    <2>3. QED
      BY <1>2, <1>3, <2>1, <2>2
  <1>4. CASE CallUpdate(c)
    <2>1. call[c] \in Calling
      BY <1>4, BusyCaller DEF CallUpdate
    <2>2. call' = [call EXCEPT ![c].pc = "find"] /\ call[c].pc = "write"
          /\ call[c].op = "update" /\ boot' = boot /\ settled' = settled
      BY <1>4 DEF CallUpdate, historyVars
    <2>3. QED
      BY <1>2, <2>1, <2>2
  <1>5. CASE CallError(c)
    BY <1>5, BusyCaller DEF CallError, historyVars
  <1>6. CASE CallFind(c)
    <2>1. call[c] \in Calling /\ boot' = boot /\ call[c].pc = "find"
      BY <1>6, BusyCaller DEF CallFind
    <2>2. call[c].tok \notin index'[call[c].on]
      BY <1>6, <2>1 DEF CallFind, Calling
    <2>3. \/ call'[c] = NotCalling
          \/ call' = [call EXCEPT ![c].pc = "evict"]
      BY <1>6, <2>1 DEF CallFind
    <2>4. \/ settled' = settled
          \/ /\ settled' = [settled EXCEPT ![call[c].on] = @ \cup {call[c].tok}]
             /\ call[c].op = "revoke"
      BY <1>6, <2>1 DEF CallFind
    <2>5. QED
      BY <1>2, <2>1, <2>2, <2>3, <2>4
  <1>7. CASE CallEvict(c)
    BY <1>7, BusyCaller DEF CallEvict
  <1>8. QED
    BY <1>1, <1>3, <1>4, <1>5, <1>6, <1>7 DEF CallStep

\* A token becomes settled by the last step of its Revoke.
LEMMA SettledMoves ==
  ASSUME TypeOK, [Next]_vars, NEW i \in Instance, NEW t \in Token, t \in settled'[i]
  PROVE  \/ t \in settled[i]
         \/ \E c \in Caller : /\ CallStep(c) /\ call[c] \in Calling
                              /\ call[c].pc \in {"find", "evict"} /\ call[c].op = "revoke"
                              /\ call[c].on = i /\ call[c].tok = t
  <1>1. ASSUME NEW c \in Caller, CallStep(c), t \notin settled[i]
        PROVE  /\ call[c] \in Calling
               /\ call[c].pc \in {"find", "evict"} /\ call[c].op = "revoke"
               /\ call[c].on = i /\ call[c].tok = t
    <2>1. /\ settled' = [settled EXCEPT ![call[c].on] = @ \cup {call[c].tok}]
          /\ call[c] \in Calling
          /\ call[c].pc \in {"find", "evict"} /\ call[c].op = "revoke"
      BY <1>1, CallStepMoves
    <2>2. call[c].on \in Instance /\ call[c].tok \in Token
      BY <2>1 DEF Calling
    <2>3. call[c].on = i /\ call[c].tok = t
      BY <1>1, <2>1, <2>2 DEF TypeOK
    <2>4. QED
      BY <2>1, <2>3
  <1>2. (\E c \in Caller : CallStep(c)) \/ settled' = settled
    BY ZenonT(40) DEF Next, vars, Time, Cleanup, Create, historyVars, ResolveStep, ResolveStart,
           ResolveLookup, ResolveEvict, ResolveRead, ResolveStore, ResolveIndex,
           ResolveDone, BootStep, BootList, BootCache, BootServe, Crash
  <1>3. QED
    BY <1>1, <1>2

\* An instance that a call runs on stays up, or takes the call down with it.
LEMMA HostStaysUp ==
  ASSUME TypeOK, [Next]_vars, NEW i \in Instance, boot[i].st = "up"
  PROVE  boot'[i].st = "up" \/ Crash(i)
  <1>1. ASSUME NEW j \in Instance, BootStep(j), j # i
        PROVE  boot'[i] = boot[i]
    BY <1>1 DEF BootStep, BootList, BootCache, BootServe, Crash, TypeOK
  <1>2. BootStep(i) => Crash(i)
    BY DEF BootStep, BootList, BootCache, BootServe
  <1>3. (\E j \in Instance : BootStep(j)) \/ boot' = boot
    BY DEF Next, vars, Time, Cleanup, Create, ResolveStep, ResolveStart, ResolveLookup,
           ResolveEvict, ResolveRead, ResolveStore, ResolveIndex, ResolveDone, CallStep,
           CallStart, CallRevoke, CallUpdate, CallError, CallFind, CallEvict
  <1>4. QED
    BY <1>1, <1>2, <1>3

\* What Revoke knows at each of its steps stays true.
LEMMA RevokesProgressKept ==
  ASSUME TypeOK, RevokesProgress, [Next]_vars
  PROVE  RevokesProgress'
  <1>1. ASSUME NEW c \in Caller, call[c].op = "revoke", call[c] \in Calling,
               NEW i \in Instance, NEW t \in Token, call[c].on = i, call[c].tok = t
        PROVE  /\ call[c].pc = "find" => Clear(i, t)
               /\ call[c].pc = "evict" => Gone(i, t)
    BY <1>1 DEF RevokesProgress
  <1>2. ASSUME NEW i \in Instance, NEW t \in settled'[i]
        PROVE  Gone(i, t)'
    <2>1. t \in Token
      BY <1>2, NextTypeOK DEF TypeOK
    <2>2. CASE t \in settled[i]
      BY <2>1, <2>2, GoneKept DEF RevokesProgress
    <2>3. ASSUME NEW c \in Caller, CallStep(c), call[c] \in Calling,
                 call[c].pc \in {"find", "evict"}, call[c].op = "revoke",
                 call[c].on = i, call[c].tok = t
          PROVE  Gone(i, t)'
      <3>1. CASE call[c].pc = "evict"
        BY <1>1, <2>1, <2>3, <3>1, GoneKept
      <3>2. CASE call[c].pc = "find"
        <4>1. t \notin index'[i]
          BY <2>3, <3>2, CallStepMoves
        <4>2. Clear(i, t)'
          BY <1>1, <2>1, <2>3, <3>2, ClearKept
        <4>3. QED
          BY <4>1, <4>2 DEF Gone
      <3>3. QED
        BY <2>3, <3>1, <3>2
    <2>4. QED
      BY <1>2, <2>1, <2>2, <2>3, SettledMoves
  <1>3. ASSUME NEW c \in Caller, call'[c].pc # "idle"
        PROVE  boot'[call'[c].on].st = "up"
    <2>1. CASE call'[c] = call[c]
      <3>1. call[c] \in Calling /\ boot[call[c].on].st = "up"
        BY <1>3, <2>1, BusyCaller DEF RevokesProgress
      <3>2. PICK i \in Instance : call[c].on = i
        BY <3>1 DEF Calling
      <3>3. ~Crash(i)
        BY <1>3, <2>1, <3>2 DEF Crash, NotCalling
      <3>4. QED
        BY <2>1, <3>1, <3>2, <3>3, HostStaysUp
    <2>2. CASE CallStep(c)
      BY <1>3, <2>2, CallStepMoves DEF RevokesProgress, Calling, NotCalling
    <2>3. QED
      BY <1>3, <2>1, <2>2, CallMoves DEF NotCalling
  <1>4. ASSUME NEW c \in Caller, call'[c].op = "revoke", call'[c].pc \in {"find", "evict"},
               NEW i \in Instance, NEW t \in Token, call'[c].on = i, call'[c].tok = t
        PROVE  /\ call'[c].pc = "find" => Clear(i, t)'
               /\ call'[c].pc = "evict" => Gone(i, t)'
    <2>1. CASE call'[c] = call[c]
      <3>1. call[c] \in Calling
        BY <1>4, <2>1, BusyCaller
      <3>2. QED
        BY <1>1, <1>4, <2>1, <3>1, ClearKept, GoneKept
    <2>2. CASE CallStep(c)
      <3>1. /\ call[c] \in Calling
            /\ call[c].on = i /\ call[c].tok = t /\ call[c].op = "revoke"
            /\ \/ call'[c].pc = "find" /\ CallRevoke(c)
               \/ /\ call'[c].pc = "evict" /\ call[c].pc = "find"
                  /\ t \notin index'[i]
        BY <1>4, <2>2, CallStepMoves DEF NotCalling
      <3>2. CASE call'[c].pc = "find" /\ CallRevoke(c)
        BY <3>1, <3>2, RevokeClears
      <3>3. CASE call'[c].pc = "evict" /\ call[c].pc = "find" /\ t \notin index'[i]
        <4>1. Clear(i, t)'
          BY <1>1, <3>1, <3>3, ClearKept
        <4>2. QED
          BY <3>3, <4>1 DEF Gone
      <3>4. QED
        BY <3>1, <3>2, <3>3
    <2>3. QED
      BY <1>4, <2>1, <2>2, CallMoves DEF NotCalling
  <1>5. ASSUME NEW c \in Caller, call'[c].op = "revoke"
        PROVE  /\ call'[c].pc = "find" => Clear(call[c].on, call[c].tok)'
               /\ call'[c].pc = "evict" => Gone(call[c].on, call[c].tok)'
    <2>1. CASE call'[c].pc \in {"find", "evict"}
      <3>1. PICK i \in Instance, t \in Token : call'[c].on = i /\ call'[c].tok = t
        <4>1. call'[c] \in Calling
          BY <2>1, NextTypeOK DEF TypeOK, NotCalling
        <4>2. QED
          BY <4>1 DEF Calling
      <3>2. /\ call'[c].pc = "find" => Clear(i, t)'
            /\ call'[c].pc = "evict" => Gone(i, t)'
        BY <1>4, <1>5, <2>1, <3>1
      <3>3. QED
        BY <3>1, <3>2 DEF Clear, Gone, HoldsCopy
    <2>2. QED
      BY <2>1
  <1>6. QED
    BY <1>2, <1>3, <1>5 DEF RevokesProgress

\* A token whose Revoke has returned is in no cache entry of that instance,
\* unless a Resolve was caching it when it was revoked (raced) or a scope update
\* that ran at the same time is just about to delete the entry.
THEOREM RevocationEmptiesCache == Spec => []RevokedLeavesCache
  <1>1. Init => RevokesProgress
    BY DEF Init, RevokesProgress, NotCalling
  <1>2. TypeOK /\ RevokesProgress /\ [Next]_vars => RevokesProgress'
    BY RevokesProgressKept
  <1>3. TypeOK /\ RevokesProgress /\ IndexCoversCache => RevokedLeavesCache
    BY DEF RevokesProgress, IndexCoversCache, RevokedLeavesCache, Gone, Clear, Findable,
           Indexing, HoldsCopy, TypeOK
  <1>4. QED
    BY <1>1, <1>2, <1>3, TypeCorrect, IndexCovers, PTL DEF Spec
=============================================================================
