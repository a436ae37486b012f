----------------------- MODULE GitHubCredentialsProofs -----------------------
(***************************************************************************)
(* Theorems about GitHubCredentials, for all numbers of processes, logins  *)
(* and refreshes and all durations that CredentialAssumption admits.       *)
(***************************************************************************)
EXTENDS GitHubCredentials, TLAPS

LEMMA Numbers ==
  /\ Life \in Nat /\ Skew \in Nat /\ CacheTTL \in Nat /\ InstallLife \in Nat /\ InstallTTL \in Nat
  /\ MaxFlight \in Nat /\ MaxClock \in Nat /\ MaxLogins \in Nat /\ MaxRefreshes \in Nat
  BY CredentialAssumption

LEMMA FirstIsPair == First \in Pair
  BY Numbers, CredentialAssumption DEF First, Pair, Chain

-----------------------------------------------------------------------------
(* Type correctness.                                                       *)

LEMMA InitTypeOK == Init => TypeOK
  <1> SUFFICES ASSUME Init PROVE TypeOK
    OBVIOUS
  <1>1. clock \in 0..MaxClock /\ lost \subseteq Chain
    BY Numbers DEF Init
  <1>2. issued \in [Chain -> Seq(Nat)] /\ \A c \in Chain : Len(issued[c]) <= MaxRefreshes
    <2>1. <<0>> \in Seq(Nat) /\ Len(<<0>>) = 1 /\ <<>> \in Seq(Nat) /\ Len(<<>>) = 0
      OBVIOUS
    <2>2. QED
      BY <2>1, Numbers, CredentialAssumption DEF Init
  <1>3. Known(First)
    <2>1. 1 \in Chain
      BY Numbers, CredentialAssumption DEF Chain
    <2>2. issued[1] = <<0>>
      BY <2>1 DEF Init
    <2>3. QED
      BY <2>2, FirstIsPair DEF Known, First
  <1>4. row \in [pair : Pair, exp : Nat] /\ Known(row.pair)
    BY <1>3, FirstIsPair, Numbers DEF Init
  <1>5. got \in [Process -> [pair : Pair, exp : Nat]] /\ fresh \in [Process -> Pair]
    BY FirstIsPair DEF Init
  <1>6. \A p \in Process : Known(got[p].pair) /\ Known(fresh[p])
    BY <1>3 DEF Init
  <1>7. handed \in [Process -> Handed] /\ asked \in [Process -> Nat] /\ pc \in [Process -> Place]
    BY DEF Init, Handed, Place
  <1>8. DOMAIN inRow \subseteq Pair /\ \A q \in DOMAIN inRow : inRow[q] \in Nat
    BY FirstIsPair DEF Init
  <1>9. credCache = Nothing /\ tokenCache = Nothing
    BY DEF Init
  <1>10. QED
    BY <1>1, <1>2, <1>3, <1>4, <1>5, <1>6, <1>7, <1>8, <1>9 DEF TypeOK

LEMMA IssuedSteps ==
  ASSUME [Next]_vars
  PROVE  UNCHANGED issued \/ \E p \in Process : Rotated(p) \/ Exchange(p)
  BY DEF Next, vars, Tick, Read, Hand, NotRotated, Persist, Login, Lookup, ReadRow, Store, Cached,
         Mint, Keep, Finish

\* Pairs are never taken back.
LEMMA Grow ==
  ASSUME TypeOK, [Next]_vars, NEW c \in Chain
  PROVE  /\ issued' \in [Chain -> Seq(Nat)] /\ Len(issued'[c]) <= MaxRefreshes
         /\ Len(issued[c]) <= Len(issued'[c])
         /\ \A i \in 1..Len(issued[c]) : issued'[c][i] = issued[c][i]
  <1>1. CASE UNCHANGED issued
    BY <1>1 DEF TypeOK
  <1>2. ASSUME NEW p \in Process, Rotated(p)
        PROVE  /\ issued' \in [Chain -> Seq(Nat)] /\ Len(issued'[c]) <= MaxRefreshes
               /\ Len(issued[c]) <= Len(issued'[c])
               /\ \A i \in 1..Len(issued[c]) : issued'[c][i] = issued[c][i]
    <2>1. PICK k \in Chain : k = got[p].pair.chain
      BY DEF TypeOK, Known, Pair
    <2>2. issued' = [issued EXCEPT ![k] = Append(issued[k], clock)] /\ Len(issued[k]) < MaxRefreshes
      BY <1>2, <2>1 DEF Rotated
    <2>3. clock \in Nat /\ issued[k] \in Seq(Nat)
      BY Numbers DEF TypeOK
    <2>4. /\ Append(issued[k], clock) \in Seq(Nat)
          /\ Len(Append(issued[k], clock)) = Len(issued[k]) + 1
          /\ \A i \in 1..Len(issued[k]) : Append(issued[k], clock)[i] = issued[k][i]
      BY <2>3
    <2>5. issued \in [Chain -> Seq(Nat)] /\ \A d \in Chain : Len(issued[d]) <= MaxRefreshes
      BY DEF TypeOK
    <2>6. issued' \in [Chain -> Seq(Nat)]
      BY <2>2, <2>4, <2>5
    <2>7. Len(issued[k]) + 1 <= MaxRefreshes /\ Len(issued[k]) <= Len(issued[k]) + 1
      BY <2>2, <2>3, Numbers
    <2>8. CASE c = k
      <3>1. issued'[c] = Append(issued[k], clock)
        BY <2>2, <2>5, <2>8
      <3>2. QED
        BY <2>4, <2>6, <2>7, <2>8, <3>1
    <2>9. CASE c # k
      <3>1. issued'[c] = issued[c] /\ Len(issued[c]) \in Nat
        BY <2>2, <2>5, <2>9
      <3>2. QED
        BY <2>5, <2>6, <3>1
    <2>10. QED
      BY <2>8, <2>9
  <1>3. ASSUME NEW p \in Process, Exchange(p)
        PROVE  /\ issued' \in [Chain -> Seq(Nat)] /\ Len(issued'[c]) <= MaxRefreshes
               /\ Len(issued[c]) <= Len(issued'[c])
               /\ \A i \in 1..Len(issued[c]) : issued'[c][i] = issued[c][i]
    <2>1. PICK k \in Chain \ Logins : issued' = [issued EXCEPT ![k] = <<clock>>]
      BY <1>3 DEF Exchange
    <2>2. clock \in Nat /\ issued[k] = <<>>
      BY <2>1, Numbers DEF TypeOK, Logins
    <2>3. <<clock>> \in Seq(Nat) /\ Len(<<clock>>) = 1 /\ Len(issued[k]) = 0 /\ 1 <= MaxRefreshes
      BY <2>2, Numbers, CredentialAssumption
    <2>4. issued \in [Chain -> Seq(Nat)] /\ \A d \in Chain : Len(issued[d]) <= MaxRefreshes
      BY DEF TypeOK
    <2>5. issued' \in [Chain -> Seq(Nat)]
      BY <2>1, <2>3, <2>4
    <2>6. CASE c = k
      <3>1. issued'[c] = <<clock>>
        BY <2>1, <2>4, <2>6
      <3>2. 1..Len(issued[k]) = {}
        BY <2>3
      <3>3. QED
        BY <2>3, <2>5, <2>6, <3>1, <3>2
    <2>7. CASE c # k
      <3>1. issued'[c] = issued[c] /\ Len(issued[c]) \in Nat
        BY <2>1, <2>4, <2>7
      <3>2. QED
        BY <2>4, <2>5, <3>1
    <2>8. QED
      BY <2>6, <2>7
  <1>4. QED
    BY <1>1, <1>2, <1>3, IssuedSteps

LEMMA KnownKept ==
  ASSUME TypeOK, [Next]_vars, NEW q \in Pair, q.gen <= Len(issued[q.chain])
  PROVE  /\ q.gen <= Len(issued'[q.chain])
         /\ issued'[q.chain][q.gen] = issued[q.chain][q.gen]
  <1>1. q.chain \in Chain /\ q.gen \in Nat /\ q.gen >= 1
    BY Numbers DEF Pair
  <1>2. /\ Len(issued[q.chain]) <= Len(issued'[q.chain])
        /\ \A i \in 1..Len(issued[q.chain]) : issued'[q.chain][i] = issued[q.chain][i]
        /\ issued' \in [Chain -> Seq(Nat)]
    BY <1>1, Grow
  <1>3. Len(issued[q.chain]) \in Nat /\ Len(issued'[q.chain]) \in Nat
    BY <1>1, <1>2 DEF TypeOK
  <1>4. QED
    BY <1>1, <1>2, <1>3

\* What Hand leaves.
LEMMA HandTypes ==
  ASSUME TypeOK, NEW p \in Process, NEW q \in Pair, NEW failed \in BOOLEAN, Hand(p, q, failed)
  PROVE  handed' \in [Process -> Handed] /\ pc' \in [Process -> Place]
  <1>1. clock \in Nat
    BY Numbers DEF TypeOK
  <1>2. [pair |-> q, at |-> clock, failed |-> failed] \in Handed
    BY <1>1 DEF Handed
  <1>3. QED
    BY <1>2 DEF Hand, GoTo, Place, TypeOK

LEMMA GoToType ==
  ASSUME TypeOK, NEW p \in Process, NEW there \in Place, GoTo(p, there)
  PROVE  pc' \in [Process -> Place]
  BY DEF GoTo, TypeOK

\* Who writes the row, and what with.
LEMMA RowSteps ==
  ASSUME [Next]_vars
  PROVE  \/ UNCHANGED <<row, inRow>>
         \/ Tick /\ UNCHANGED row
         \/ \E p \in Process : (Persist(p) \/ Login(p)) /\ Write(fresh[p])
  BY DEF Next, vars, Tick, Read, Hand, Rotated, NotRotated, Persist, Exchange, Login, Lookup,
         ReadRow, Store, Cached, Mint, Keep, Finish

LEMMA GotSteps ==
  ASSUME TypeOK, [Next]_vars
  PROVE  \/ UNCHANGED got
         \/ \E p \in Process : (Read(p) \/ ReadRow(p)) /\ got' = [got EXCEPT ![p] = row]
         \/ \E p \in Process : Finish(p) /\ got' = [got EXCEPT ![p] = [pair |-> First, exp |-> 0]]
  BY DEF Next, vars, Tick, Read, Hand, Rotated, NotRotated, Persist, Exchange, Login, Lookup,
         ReadRow, Store, Cached, Mint, Keep, Finish

LEMMA FreshSteps ==
  ASSUME TypeOK, [Next]_vars
  PROVE  \/ UNCHANGED fresh
         \/ \E p \in Process : Rotated(p) \/ Exchange(p)
         \/ \E p \in Process : Finish(p) /\ fresh' = [fresh EXCEPT ![p] = First]
  BY DEF Next, vars, Tick, Read, Hand, Rotated, NotRotated, Persist, Exchange, Login, Lookup,
         ReadRow, Store, Cached, Mint, Keep, Finish

\* A refresh issues the next pair of its authorization.
LEMMA Rotation ==
  ASSUME TypeOK, NEW p \in Process, Rotated(p)
  PROVE  \E k \in Chain, n \in 1..MaxRefreshes :
           /\ got[p].pair = [chain |-> k, gen |-> n - 1] /\ n = Len(issued[k]) + 1
           /\ Len(issued'[k]) = n /\ issued'[k][n] = clock
           /\ \A c \in Chain \ {k} : issued'[c] = issued[c]
           /\ [chain |-> k, gen |-> n] \in Pair
           /\ \/ /\ fresh' = [fresh EXCEPT ![p] = [chain |-> k, gen |-> n]]
                 /\ pc' = [pc EXCEPT ![p] = "persist"] /\ UNCHANGED lost
              \/ /\ fresh' = fresh /\ lost' = lost \cup {k}
                 /\ pc' = [pc EXCEPT ![p] = "done"]
  <1>1. got[p].pair \in Pair /\ got[p].pair.gen <= Len(issued[got[p].pair.chain])
    BY DEF TypeOK, Known
  <1>2. PICK k \in Chain, m \in 1..MaxRefreshes : got[p].pair = [chain |-> k, gen |-> m]
    BY <1>1 DEF Pair
  <1>3. m <= Len(issued[k]) /\ ~(m < Len(issued[k])) /\ Len(issued[k]) < MaxRefreshes
    BY <1>1, <1>2 DEF Rotated, Superseded
  <1>4. issued[k] \in Seq(Nat) /\ clock \in Nat /\ Len(issued[k]) \in Nat
    BY Numbers DEF TypeOK
  <1>5. m = Len(issued[k]) /\ m + 1 \in 1..MaxRefreshes
    BY <1>3, <1>4, Numbers
  <1>6. issued' = [issued EXCEPT ![k] = Append(issued[k], clock)]
    BY <1>2 DEF Rotated
  <1>7. Len(Append(issued[k], clock)) = m + 1 /\ Append(issued[k], clock)[m + 1] = clock
    BY <1>4, <1>5
  <1>8. issued'[k] = Append(issued[k], clock) /\ \A c \in Chain \ {k} : issued'[c] = issued[c]
    BY <1>6 DEF TypeOK
  <1>9. [chain |-> k, gen |-> m + 1] \in Pair
    BY <1>5 DEF Pair
  <1>10. \/ /\ fresh' = [fresh EXCEPT ![p] = [chain |-> k, gen |-> m + 1]]
            /\ pc' = [pc EXCEPT ![p] = "persist"] /\ UNCHANGED lost
         \/ /\ fresh' = fresh /\ lost' = lost \cup {k}
            /\ pc' = [pc EXCEPT ![p] = "done"]
    BY <1>2 DEF Rotated, GoTo, Hand
  <1>11. (m + 1) - 1 = m
    BY <1>5
  <1>12. QED
    BY <1>2, <1>5, <1>7, <1>8, <1>9, <1>10, <1>11

\* A login starts an authorization.
LEMMA Beginning ==
  ASSUME TypeOK, NEW p \in Process, Exchange(p)
  PROVE  \E k \in Chain :
           /\ Len(issued[k]) = 0 /\ Len(issued'[k]) = 1 /\ issued'[k][1] = clock
           /\ \A c \in Chain \ {k} : issued'[c] = issued[c]
           /\ [chain |-> k, gen |-> 1] \in Pair
           /\ fresh' = [fresh EXCEPT ![p] = [chain |-> k, gen |-> 1]]
           /\ pc' = [pc EXCEPT ![p] = "persist"]
  <1>1. PICK k \in Chain \ Logins : /\ issued' = [issued EXCEPT ![k] = <<clock>>]
                                    /\ fresh' = [fresh EXCEPT ![p] = [chain |-> k, gen |-> 1]]
    BY DEF Exchange
  <1>2. issued[k] = <<>> /\ issued'[k] = <<clock>> /\ \A c \in Chain \ {k} : issued'[c] = issued[c]
    BY <1>1 DEF Logins, TypeOK
  <1>3. [chain |-> k, gen |-> 1] \in Pair
    BY <1>1, Numbers, CredentialAssumption DEF Pair
  <1>4. Len(<<>>) = 0 /\ Len(<<clock>>) = 1 /\ <<clock>>[1] = clock
    OBVIOUS
  <1>5. pc' = [pc EXCEPT ![p] = "persist"]
    BY DEF Exchange, GoTo
  <1>6. Len(issued[k]) = 0 /\ Len(issued'[k]) = 1 /\ issued'[k][1] = clock
    BY <1>2, <1>4
  <1>7. QED
    BY <1>1, <1>2, <1>3, <1>5, <1>6

\* What a process reads or is given is a pair that GitHub has handed out, and is so
\* for good.
LEMMA PairsKnown ==
  ASSUME TypeOK, [Next]_vars
  PROVE  /\ row' \in [pair : Pair, exp : Nat] /\ Known(row.pair)' /\ Known(First)'
         /\ got' \in [Process -> [pair : Pair, exp : Nat]]
         /\ fresh' \in [Process -> Pair]
         /\ \A p \in Process : Known(got[p].pair)' /\ Known(fresh[p])'
  <1> DEFINE Goes(q) == q \in Pair /\ q.gen <= Len(issued'[q.chain])
  <1>1. ASSUME NEW q, Known(q)
        PROVE  Goes(q)
    BY <1>1, KnownKept DEF Known
  <1>2. /\ Goes(row.pair) /\ Goes(First) /\ \A p \in Process : Goes(got[p].pair) /\ Goes(fresh[p])
    BY <1>1 DEF TypeOK
  <1>3. row' \in [pair : Pair, exp : Nat] /\ Goes(row'.pair)
    <2>1. CASE UNCHANGED row
      BY <1>2, <2>1 DEF TypeOK
    <2>2. ASSUME NEW p \in Process, Write(fresh[p])
          PROVE  row' \in [pair : Pair, exp : Nat] /\ Goes(row'.pair)
      <3>1. row' = [pair |-> fresh[p], exp |-> clock + Life] /\ clock + Life \in Nat /\ fresh[p] \in Pair
        BY <2>2, Numbers DEF Write, TypeOK
      <3>2. QED
        BY <1>2, <3>1
    <2>3. QED
      BY <2>1, <2>2, RowSteps
  <1>4. got' \in [Process -> [pair : Pair, exp : Nat]] /\ \A p \in Process : Goes(got'[p].pair)
    <2>1. got \in [Process -> [pair : Pair, exp : Nat]] /\ row \in [pair : Pair, exp : Nat]
      BY DEF TypeOK
    <2>2. [pair |-> First, exp |-> 0] \in [pair : Pair, exp : Nat]
      BY FirstIsPair
    <2>3. CASE UNCHANGED got
      BY <1>2, <2>1, <2>3
    <2>4. ASSUME NEW p \in Process, NEW g \in [pair : Pair, exp : Nat], Goes(g.pair),
                 got' = [got EXCEPT ![p] = g]
          PROVE  got' \in [Process -> [pair : Pair, exp : Nat]] /\ \A q \in Process : Goes(got'[q].pair)
      BY <1>2, <2>1, <2>4
    <2>5. QED
      BY <1>2, <2>1, <2>2, <2>3, <2>4, GotSteps
  <1>5. fresh' \in [Process -> Pair] /\ \A p \in Process : Goes(fresh'[p])
    <2>1. fresh \in [Process -> Pair]
      BY DEF TypeOK
    <2>2. CASE UNCHANGED fresh
      BY <1>2, <2>1, <2>2
    <2>3. ASSUME NEW p \in Process, NEW q \in Pair, Goes(q), fresh' = [fresh EXCEPT ![p] = q]
          PROVE  fresh' \in [Process -> Pair] /\ \A r \in Process : Goes(fresh'[r])
      BY <1>2, <2>1, <2>3
    <2>4. ASSUME NEW p \in Process, Rotated(p)
          PROVE  fresh' \in [Process -> Pair] /\ \A r \in Process : Goes(fresh'[r])
      <3>1. PICK k \in Chain, n \in 1..MaxRefreshes :
              /\ got[p].pair = [chain |-> k, gen |-> n - 1] /\ n = Len(issued[k]) + 1
              /\ Len(issued'[k]) = n /\ issued'[k][n] = clock
              /\ \A c \in Chain \ {k} : issued'[c] = issued[c]
              /\ [chain |-> k, gen |-> n] \in Pair
              /\ \/ /\ fresh' = [fresh EXCEPT ![p] = [chain |-> k, gen |-> n]]
                    /\ pc' = [pc EXCEPT ![p] = "persist"] /\ UNCHANGED lost
                 \/ /\ fresh' = fresh /\ lost' = lost \cup {k}
                    /\ pc' = [pc EXCEPT ![p] = "done"]
        BY <2>4, Rotation
      <3>2. Goes([chain |-> k, gen |-> n])
        BY <3>1, Numbers
      <3>3. QED
        BY <2>2, <2>3, <3>1, <3>2
    <2>5. ASSUME NEW p \in Process, Exchange(p)
          PROVE  fresh' \in [Process -> Pair] /\ \A r \in Process : Goes(fresh'[r])
      <3>1. PICK k \in Chain :
              /\ Len(issued'[k]) = 1 /\ [chain |-> k, gen |-> 1] \in Pair
              /\ fresh' = [fresh EXCEPT ![p] = [chain |-> k, gen |-> 1]]
        BY <2>5, Beginning
      <3>2. Goes([chain |-> k, gen |-> 1])
        BY <3>1
      <3>3. QED
        BY <2>3, <3>1, <3>2
    <2>6. QED
      BY <1>2, <2>2, <2>3, <2>4, <2>5, FreshSteps, FirstIsPair
  <1>6. QED
    BY <1>2, <1>3, <1>4, <1>5 DEF Known

\* The other variables of a process.
LEMMA ProcessTypes ==
  ASSUME TypeOK, [Next]_vars
  PROVE  /\ pc' \in [Process -> Place]
         /\ asked' \in [Process -> Nat]
         /\ handed' \in [Process -> Handed]
         /\ credCache' \in [pair : Pair, at : Nat] \cup {Nothing}
         /\ tokenCache' \in [minted : Nat, at : Nat] \cup {Nothing}
  <1> DEFINE Types == /\ pc' \in [Process -> Place]
                      /\ asked' \in [Process -> Nat]
                      /\ handed' \in [Process -> Handed]
                      /\ credCache' \in [pair : Pair, at : Nat] \cup {Nothing}
                      /\ tokenCache' \in [minted : Nat, at : Nat] \cup {Nothing}
  <1>1. clock \in Nat /\ row.pair \in Pair /\ \A p \in Process : got[p].pair \in Pair
    BY Numbers DEF TypeOK, Known
  <1>2. CASE Tick \/ UNCHANGED vars
    BY <1>2 DEF Tick, vars, TypeOK
  <1>3. ASSUME NEW p \in Process, Read(p) \/ Rotated(p) \/ NotRotated(p) \/ Persist(p)
        PROVE  Types
    <2>1. UNCHANGED <<credCache, tokenCache>> /\ asked' \in [Process -> Nat]
      BY <1>1, <1>3 DEF Read, Rotated, NotRotated, Persist, TypeOK
    <2>2. \/ UNCHANGED handed /\ \E there \in {"refresh", "persist"} : GoTo(p, there)
          \/ \E q \in Pair, failed \in BOOLEAN : Hand(p, q, failed)
      BY <1>1, <1>3 DEF Read, Rotated, NotRotated, Persist, TypeOK
    <2>3. QED
      BY <2>1, <2>2, HandTypes, GoToType DEF TypeOK, Place
  <1>4. ASSUME NEW p \in Process, Exchange(p) \/ Login(p) \/ Finish(p) \/ Mint(p) \/ ReadRow(p)
        PROVE  Types
    <2>1. UNCHANGED <<credCache, tokenCache>> /\ asked' \in [Process -> Nat]
      BY <1>1, <1>4 DEF Exchange, Login, Finish, Mint, ReadRow, TypeOK
    <2>2. \E there \in {"persist", "idle", "keep", "store"} : GoTo(p, there)
      BY <1>4 DEF Exchange, Login, Finish, Mint, ReadRow
    <2>3. handed' \in [Process -> Handed]
      BY <1>4 DEF Exchange, Login, Finish, Mint, ReadRow, TypeOK, Handed
    <2>4. QED
      BY <2>1, <2>2, <2>3, GoToType DEF TypeOK, Place
  <1>5. ASSUME NEW p \in Process, Lookup(p) \/ Store(p)
        PROVE  Types
    <2>1. UNCHANGED <<asked, tokenCache>>
      BY <1>5 DEF Lookup, Store
    <2>2. credCache' \in [pair : Pair, at : Nat] \cup {Nothing}
      <3>1. CASE Lookup(p)
        BY <3>1 DEF Lookup, TypeOK
      <3>2. CASE Store(p)
        <4>1. [pair |-> got[p].pair, at |-> clock] \in [pair : Pair, at : Nat]
          BY <1>1
        <4>2. QED
          BY <3>2, <4>1 DEF Store
      <3>3. QED
        BY <1>5, <3>1, <3>2
    <2>3. \/ UNCHANGED handed /\ GoTo(p, "read")
          \/ \E q \in Pair : Hand(p, q, FALSE)
      BY <1>1, <1>5 DEF Lookup, Store, TypeOK
    <2>4. QED
      BY <2>1, <2>2, <2>3, HandTypes, GoToType DEF TypeOK, Place
  <1>6. ASSUME NEW p \in Process, Cached(p) \/ Keep(p)
        PROVE  Types
    <2>1. UNCHANGED <<asked, credCache>> /\ asked[p] \in Nat
      BY <1>6 DEF Cached, Keep, TypeOK
    <2>2. tokenCache' \in [minted : Nat, at : Nat] \cup {Nothing}
      BY <1>1, <1>6, <2>1 DEF Cached, Keep, TypeOK
    <2>3. \/ UNCHANGED handed /\ GoTo(p, "mint")
          \/ \E minted \in Nat : HandMinted(p, minted)
      BY <1>6, <2>1 DEF Cached, Keep, TypeOK
    <2>4. ASSUME NEW minted \in Nat, HandMinted(p, minted)
          PROVE  handed' \in [Process -> Handed] /\ pc' \in [Process -> Place]
      <3>1. [minted |-> minted, at |-> clock] \in Handed
        BY <1>1 DEF Handed
      <3>2. QED
        BY <2>4, <3>1 DEF HandMinted, GoTo, TypeOK, Place
    <2>5. QED
      BY <2>1, <2>2, <2>3, <2>4, GoToType DEF TypeOK, Place
  <1>7. QED
    BY <1>2, <1>3, <1>4, <1>5, <1>6 DEF Next

LEMMA NextTypeOK == TypeOK /\ [Next]_vars => TypeOK'
  <1> SUFFICES ASSUME TypeOK, [Next]_vars
               PROVE  TypeOK'
    OBVIOUS
  <1>1. clock' \in 0..MaxClock
    <2>1. clock' = clock \/ (clock < MaxClock /\ clock' = clock + 1)
      BY DEF Next, vars, Tick, Read, Rotated, NotRotated, Persist, Exchange, Login, Lookup,
             ReadRow, Store, Cached, Mint, Keep, Finish
    <2>2. QED
      BY <2>1, Numbers DEF TypeOK
  <1>2. issued' \in [Chain -> Seq(Nat)] /\ \A c \in Chain : Len(issued'[c]) <= MaxRefreshes
    <2>1. 1 \in Chain
      BY Numbers, CredentialAssumption DEF Chain
    <2>2. QED
      BY <2>1, Grow
  <1>3. lost' \subseteq Chain
    <2>1. \/ lost' = lost
          \/ \E p \in Process : lost' = lost \cup {got[p].pair.chain} \/ lost' = lost \cup {fresh[p].chain}
      BY DEF Next, vars, Tick, Read, Rotated, NotRotated, Persist, Exchange, Login, Lookup,
             ReadRow, Store, Cached, Mint, Keep, Finish
    <2>2. \A p \in Process : got[p].pair.chain \in Chain /\ fresh[p].chain \in Chain
      BY DEF TypeOK, Known, Pair
    <2>3. lost \subseteq Chain
      BY DEF TypeOK
    <2>4. QED
      BY <2>1, <2>2, <2>3
  <1>4. DOMAIN inRow' \subseteq Pair /\ \A q \in DOMAIN inRow' : inRow'[q] \in Nat
    <2>1. clock \in Nat /\ row.pair \in Pair /\ \A p \in Process : fresh[p] \in Pair
      BY Numbers DEF TypeOK, Known
    <2>2. CASE UNCHANGED inRow
      BY <2>2 DEF TypeOK
    <2>3. CASE Tick
      BY <2>1, <2>3 DEF Tick, TypeOK
    <2>4. ASSUME NEW p \in Process, Write(fresh[p])
          PROVE  DOMAIN inRow' \subseteq Pair /\ \A q \in DOMAIN inRow' : inRow'[q] \in Nat
      BY <2>1, <2>4 DEF Write, TypeOK
    <2>5. QED
      BY <2>2, <2>3, <2>4, RowSteps
  <1>5. QED
    BY <1>1, <1>2, <1>3, <1>4, PairsKnown, ProcessTypes DEF TypeOK

\* Every variable keeps its type, and every pair in use is one that GitHub has issued.
THEOREM TypeCorrect == Spec => []TypeOK
  BY InitTypeOK, NextTypeOK, PTL DEF Spec

-----------------------------------------------------------------------------
(* The row.                                                                *)

\* Those who are about to write the row.
Writer == {p \in Api \cup Browser : pc[p] = "persist"}

\* A pair on its way to the row is the last of its authorization, and nobody else
\* has it: no other writer, not the row, and no refresh that is going to use it up.
Exclusive ==
  \A p \in Writer :
    /\ fresh[p].gen = Len(issued[fresh[p].chain])
    /\ fresh[p] # row.pair
    /\ \A q \in Api : pc[q] = "refresh" => got[q].pair # fresh[p]
    /\ \A q \in Writer \ {p} : fresh[q] # fresh[p]

AliveInv == TypeOK /\ Exclusive /\ RowIsAlive

LEMMA InitAlive == Init => AliveInv
  <1> SUFFICES ASSUME Init PROVE AliveInv
    OBVIOUS
  <1>1. \A p \in Process : pc[p] # "persist"
    BY DEF Init
  <1>2. Exclusive
    BY <1>1 DEF Exclusive, Writer, Process
  <1>3. RowIsAlive
    <2>1. 1 \in Chain
      BY Numbers, CredentialAssumption DEF Chain
    <2>2. issued[1] = <<0>> /\ row.pair = First
      BY <2>1 DEF Init
    <2>3. Len(<<0>>) = 1
      OBVIOUS
    <2>4. row.pair.gen = 1 /\ Len(issued[row.pair.chain]) = 1
      BY <2>2, <2>3 DEF First
    <2>5. QED
      BY <2>4 DEF RowIsAlive, Superseded
  <1>4. QED
    BY <1>2, <1>3, InitTypeOK DEF AliveInv

\* Steps that neither issue nor write a pair, and those that end a write.
Quiet ==
  /\ UNCHANGED <<issued, lost, row>>
  /\ \A q \in Process : /\ pc'[q] = "persist" <=> pc[q] = "persist"
                        /\ pc[q] = "persist" => fresh'[q] = fresh[q]
                        /\ pc'[q] = "refresh" => \/ pc[q] = "refresh" /\ got'[q] = got[q]
                                                 \/ got'[q] = row

Ends(p) ==
  /\ pc[p] = "persist" /\ pc'[p] # "persist" /\ pc'[p] # "refresh"
  /\ \A q \in Process \ {p} : pc'[q] = pc[q]
  /\ UNCHANGED <<issued, fresh, got>>
  /\ \/ Write(fresh[p]) /\ UNCHANGED lost
     \/ row' = row /\ lost' = lost \cup {fresh[p].chain}
     \/ p \in Browser /\ UNCHANGED <<row, lost>>

LEMMA QuietSteps ==
  ASSUME TypeOK, [Next]_vars
  PROVE  \/ Quiet
         \/ \E p \in Process : Rotated(p) \/ Exchange(p)
         \/ \E p \in Api \cup Browser : Ends(p)
  <1>1. pc \in [Process -> Place] /\ got \in [Process -> [pair : Pair, exp : Nat]] /\ fresh \in [Process -> Pair]
    BY DEF TypeOK
  <1>2. CASE Tick \/ UNCHANGED vars
    BY <1>2 DEF Tick, vars, Quiet
  <1>3. ASSUME NEW p \in Process, Read(p)
        PROVE  Quiet
    <2>1. pc[p] = "idle" /\ pc'[p] \in {"refresh", "done"} /\ \A q \in Process \ {p} : pc'[q] = pc[q]
      BY <1>1, <1>3 DEF Read, At, GoTo, Hand
    <2>2. got'[p] = row /\ \A q \in Process \ {p} : got'[q] = got[q]
      BY <1>1, <1>3 DEF Read
    <2>3. UNCHANGED <<issued, lost, row, fresh>>
      BY <1>3 DEF Read
    <2>4. QED
      BY <2>1, <2>2, <2>3 DEF Quiet
  <1>4. ASSUME NEW p \in Process, NotRotated(p) \/ Lookup(p) \/ Store(p) \/ Cached(p) \/ Mint(p) \/ Keep(p)
        PROVE  Quiet
    <2>1. UNCHANGED <<issued, lost, row, fresh, got>>
      BY <1>4 DEF NotRotated, Lookup, Store, Cached, Mint, Keep
    <2>2. /\ pc[p] # "persist" /\ pc'[p] \notin {"persist", "refresh"}
          /\ \A q \in Process \ {p} : pc'[q] = pc[q]
      BY <1>1, <1>4 DEF NotRotated, Lookup, Store, Cached, Mint, Keep, At, GoTo, Hand, HandMinted
    <2>3. QED
      BY <2>1, <2>2 DEF Quiet
  <1>5. ASSUME NEW p \in Process, ReadRow(p) \/ Finish(p)
        PROVE  Quiet
    <2>1. UNCHANGED <<issued, lost, row>>
      BY <1>5 DEF ReadRow, Finish
    <2>2. /\ pc[p] # "persist" /\ pc'[p] \notin {"persist", "refresh"}
          /\ \A q \in Process \ {p} : pc'[q] = pc[q]
      BY <1>1, <1>5 DEF ReadRow, Finish, At, GoTo
    <2>3. \A q \in Process \ {p} : got'[q] = got[q] /\ fresh'[q] = fresh[q]
      BY <1>1, <1>5 DEF ReadRow, Finish
    <2>4. QED
      BY <2>1, <2>2, <2>3 DEF Quiet
  <1>6. ASSUME NEW p \in Process, Persist(p) \/ Login(p)
        PROVE  p \in Api \cup Browser /\ Ends(p)
    <2>1. p \in Api \cup Browser /\ pc[p] = "persist" /\ UNCHANGED <<issued, fresh, got>>
      BY <1>6 DEF Persist, Login, At
    <2>2. pc'[p] \in {"idle", "done"} /\ \A q \in Process \ {p} : pc'[q] = pc[q]
      BY <1>1, <1>6 DEF Persist, Login, GoTo, Hand
    <2>3. \/ Write(fresh[p]) /\ UNCHANGED lost
          \/ row' = row /\ lost' = lost \cup {fresh[p].chain}
          \/ p \in Browser /\ UNCHANGED <<row, lost>>
      BY <1>6 DEF Persist, Login
    <2>4. QED
      BY <2>1, <2>2, <2>3 DEF Ends
  <1>7. QED
    BY <1>2, <1>3, <1>4, <1>5, <1>6 DEF Next

LEMMA RotatedAlive ==
  ASSUME AliveInv, NEW p \in Process, Rotated(p)
  PROVE  Exclusive' /\ RowIsAlive'
  <1>1. PICK k \in Chain, n \in 1..MaxRefreshes :
          /\ got[p].pair = [chain |-> k, gen |-> n - 1] /\ n = Len(issued[k]) + 1
          /\ Len(issued'[k]) = n /\ issued'[k][n] = clock
          /\ \A c \in Chain \ {k} : issued'[c] = issued[c]
          /\ [chain |-> k, gen |-> n] \in Pair
          /\ \/ /\ fresh' = [fresh EXCEPT ![p] = [chain |-> k, gen |-> n]]
                /\ pc' = [pc EXCEPT ![p] = "persist"] /\ UNCHANGED lost
             \/ /\ fresh' = fresh /\ lost' = lost \cup {k}
                /\ pc' = [pc EXCEPT ![p] = "done"]
    BY Rotation DEF AliveInv
  <1>2. p \in Api /\ pc[p] = "refresh" /\ UNCHANGED <<row, got>>
    BY DEF Rotated, At
  <1>3. n \in Nat /\ Len(issued[k]) = n - 1 /\ Len(issued[k]) \in Nat
    <2>1. issued[k] \in Seq(Nat)
      BY DEF AliveInv, TypeOK
    <2>2. QED
      BY <1>1, <2>1
  \* What others hold of this authorization is older, and no writer has its last pair.
  <1>5. ASSUME NEW q \in Pair, Known(q)
        PROVE  q # [chain |-> k, gen |-> n]
    <2>1. q.chain = k => q.gen <= n - 1
      BY <1>3, <1>5 DEF Known
    <2>2. QED
      BY <1>3, <2>1
  <1>6. ASSUME NEW q \in Writer
        PROVE  q # p /\ fresh[q] \in Pair /\ fresh[q].chain # k
    <2>1. q # p /\ fresh[q] \in Pair
      BY <1>2, <1>6 DEF Writer, AliveInv, TypeOK, Process
    <2>2. fresh[q].gen = Len(issued[fresh[q].chain]) /\ got[p].pair # fresh[q]
      BY <1>2, <1>6 DEF AliveInv, Exclusive
    <2>3. fresh[q].chain = k => fresh[q] = [chain |-> k, gen |-> n - 1]
      BY <1>3, <2>1, <2>2 DEF Pair
    <2>4. QED
      BY <1>1, <2>1, <2>2, <2>3
  <1>7. \A q \in Process \ {p} : pc'[q] = pc[q] /\ fresh'[q] = fresh[q]
    BY <1>1 DEF AliveInv, TypeOK
  <1>8. row.pair \in Pair /\ Known(row.pair)
    BY DEF AliveInv, TypeOK, Known
  <1>9. \A q \in Api : got[q].pair \in Pair /\ Known(got[q].pair)
    BY DEF AliveInv, TypeOK, Known, Process
  <1>10. ASSUME Superseded(row.pair)'
         PROVE  \/ row'.pair.chain = k
                \/ row'.pair.chain \in lost'
                \/ \E q \in Api : pc'[q] = "persist" /\ fresh'[q].chain = row'.pair.chain
    <2>1. CASE row.pair.chain = k
      BY <1>2, <2>1
    <2>2. CASE row.pair.chain # k
      <3>1. Superseded(row.pair)
        BY <1>1, <1>2, <1>8, <1>10, <2>2 DEF Superseded, Pair
      <3>2. row.pair.chain \in lost \/ \E q \in Api : pc[q] = "persist" /\ fresh[q].chain = row.pair.chain
        BY <3>1 DEF AliveInv, RowIsAlive
      <3>3. lost \subseteq lost'
        BY <1>1
      <3>4. \A q \in Api : pc[q] = "persist" => pc'[q] = "persist" /\ fresh'[q] = fresh[q]
        BY <1>2, <1>7 DEF Process
      <3>5. QED
        BY <1>2, <3>2, <3>3, <3>4
    <2>3. QED
      BY <2>1, <2>2
  <1>11. CASE /\ fresh' = [fresh EXCEPT ![p] = [chain |-> k, gen |-> n]]
              /\ pc' = [pc EXCEPT ![p] = "persist"] /\ UNCHANGED lost
    <2>1. fresh'[p] = [chain |-> k, gen |-> n] /\ pc'[p] = "persist"
      BY <1>11 DEF AliveInv, TypeOK
    <2>2. Writer' = Writer \cup {p}
      BY <1>2, <1>7, <2>1 DEF Writer, Process
    <2>3. ASSUME NEW q \in Writer
          PROVE  /\ fresh'[q] = fresh[q] /\ fresh[q].gen = Len(issued'[fresh[q].chain])
                 /\ fresh[q] # row'.pair
                 /\ \A r \in Api : pc'[r] = "refresh" => got'[r].pair # fresh[q]
                 /\ \A r \in Writer \ {q} : fresh[r] # fresh[q]
                 /\ fresh'[p] # fresh[q]
      <3>1. q # p /\ q \in Process /\ fresh[q].chain \in Chain \ {k}
        BY <1>6 DEF Writer, Process, Pair
      <3>2. /\ fresh[q].gen = Len(issued[fresh[q].chain]) /\ fresh[q] # row.pair
            /\ \A r \in Api : pc[r] = "refresh" => got[r].pair # fresh[q]
            /\ \A r \in Writer \ {q} : fresh[r] # fresh[q]
        BY DEF AliveInv, Exclusive
      <3>3. \A r \in Api : pc'[r] = "refresh" => pc[r] = "refresh"
        BY <1>7, <2>1 DEF Process
      <3>4. fresh'[p] # fresh[q]
        BY <2>1, <3>1
      <3>5. QED
        BY <1>1, <1>2, <1>7, <3>1, <3>2, <3>3, <3>4
    <2>4. /\ fresh'[p].gen = Len(issued'[fresh'[p].chain]) /\ fresh'[p] # row'.pair
          /\ \A r \in Api : pc'[r] = "refresh" => got'[r].pair # fresh'[p]
      BY <1>1, <1>2, <1>5, <1>8, <1>9, <2>1
    <2>5. Exclusive'
      <3>1. \A q \in Writer : q # p
        BY <1>6
      <3>2. QED
        BY <2>2, <2>3, <2>4, <3>1 DEF Exclusive
    <2>6. RowIsAlive'
      BY <1>10, <1>11, <2>1, <1>2 DEF RowIsAlive
    <2>7. QED
      BY <2>5, <2>6
  <1>12. CASE /\ fresh' = fresh /\ lost' = lost \cup {k}
              /\ pc' = [pc EXCEPT ![p] = "done"]
    <2>1. pc'[p] = "done"
      BY <1>12, <1>2 DEF AliveInv, TypeOK
    <2>2. Writer' = Writer
      BY <1>2, <1>7, <2>1 DEF Writer, Process
    <2>3. \A r \in Api : pc'[r] = "refresh" => pc[r] = "refresh"
      BY <1>7, <2>1 DEF Process
    <2>4. ASSUME NEW q \in Writer
          PROVE  issued'[fresh[q].chain] = issued[fresh[q].chain]
      BY <1>1, <1>6 DEF Pair
    <2>5. Exclusive'
      BY <1>2, <1>12, <2>2, <2>3, <2>4 DEF AliveInv, Exclusive
    <2>6. RowIsAlive'
      BY <1>10, <1>12 DEF RowIsAlive
    <2>7. QED
      BY <2>5, <2>6
  <1>13. QED
    BY <1>1, <1>11, <1>12

LEMMA ExchangeAlive ==
  ASSUME AliveInv, NEW p \in Process, Exchange(p)
  PROVE  Exclusive' /\ RowIsAlive'
  <1>1. PICK k \in Chain :
          /\ Len(issued[k]) = 0 /\ Len(issued'[k]) = 1 /\ issued'[k][1] = clock
          /\ \A c \in Chain \ {k} : issued'[c] = issued[c]
          /\ [chain |-> k, gen |-> 1] \in Pair
          /\ fresh' = [fresh EXCEPT ![p] = [chain |-> k, gen |-> 1]]
          /\ pc' = [pc EXCEPT ![p] = "persist"]
    BY Beginning DEF AliveInv
  <1>2. p \in Browser /\ pc[p] = "idle" /\ UNCHANGED <<row, got, lost>>
    BY DEF Exchange, At
  \* Nobody has a pair of this authorization.
  <1>3. ASSUME NEW q \in Pair, Known(q)
        PROVE  q.chain \in Chain \ {k}
    <2>1. q.gen >= 1 /\ q.chain \in Chain
      BY Numbers DEF Pair
    <2>2. q.gen <= Len(issued[q.chain])
      BY <1>3 DEF Known
    <2>3. QED
      BY <1>1, <2>1, <2>2, Numbers DEF Pair
  <1>4. /\ row.pair \in Pair /\ Known(row.pair)
        /\ \A q \in Process : /\ got[q].pair \in Pair /\ Known(got[q].pair)
                              /\ fresh[q] \in Pair /\ Known(fresh[q])
    BY DEF AliveInv, TypeOK, Known
  <1>5. /\ fresh'[p] = [chain |-> k, gen |-> 1] /\ pc'[p] = "persist"
        /\ \A q \in Process \ {p} : pc'[q] = pc[q] /\ fresh'[q] = fresh[q]
    BY <1>1 DEF AliveInv, TypeOK
  <1>6. Writer' = Writer \cup {p} /\ p \notin Writer
    BY <1>2, <1>5 DEF Writer, Process
  <1>7. ASSUME NEW q \in Writer
        PROVE  /\ fresh'[q] = fresh[q] /\ fresh[q].gen = Len(issued'[fresh[q].chain])
               /\ fresh[q] # row'.pair
               /\ \A r \in Api : pc'[r] = "refresh" => got'[r].pair # fresh[q]
               /\ \A r \in Writer \ {q} : fresh[r] # fresh[q]
               /\ fresh'[p] # fresh[q]
    <2>1. q # p /\ q \in Process
      BY <1>6 DEF Writer, Process
    <2>2. fresh[q].chain \in Chain \ {k}
      BY <1>3, <1>4, <2>1
    <2>3. /\ fresh[q].gen = Len(issued[fresh[q].chain]) /\ fresh[q] # row.pair
          /\ \A r \in Api : pc[r] = "refresh" => got[r].pair # fresh[q]
          /\ \A r \in Writer \ {q} : fresh[r] # fresh[q]
      BY DEF AliveInv, Exclusive
    <2>4. \A r \in Api : pc'[r] = "refresh" => pc[r] = "refresh"
      BY <1>5 DEF Process
    <2>5. fresh'[p] # fresh[q]
      BY <1>5, <2>2
    <2>6. QED
      BY <1>1, <1>2, <1>5, <2>1, <2>2, <2>3, <2>4, <2>5
  <1>8. /\ fresh'[p].gen = Len(issued'[fresh'[p].chain]) /\ fresh'[p] # row'.pair
        /\ \A r \in Api : pc'[r] = "refresh" => got'[r].pair # fresh'[p]
    <2>1. row.pair.chain # k /\ \A r \in Api : got[r].pair.chain # k
      BY <1>3, <1>4 DEF Process
    <2>2. fresh'[p].gen = 1 /\ fresh'[p].chain = k
      BY <1>5
    <2>3. QED
      BY <1>1, <1>2, <2>1, <2>2
  <1>9. Exclusive'
    BY <1>6, <1>7, <1>8 DEF Exclusive
  <1>10. RowIsAlive'
    <2>1. issued'[row.pair.chain] = issued[row.pair.chain]
      BY <1>1, <1>3, <1>4
    <2>2. Superseded(row.pair)' => Superseded(row.pair)
      BY <1>2, <2>1 DEF Superseded
    <2>3. \A q \in Api : pc[q] = "persist" => pc'[q] = "persist" /\ fresh'[q] = fresh[q]
      BY <1>2, <1>5 DEF Process
    <2>4. QED
      BY <1>2, <2>2, <2>3 DEF AliveInv, RowIsAlive
  <1>11. QED
    BY <1>9, <1>10

LEMMA EndsAlive ==
  ASSUME AliveInv, NEW p \in Api \cup Browser, Ends(p)
  PROVE  Exclusive' /\ RowIsAlive'
  <1>1. p \in Writer /\ p \in Process
    BY DEF Ends, Writer, Process
  <1>2. /\ Writer' = Writer \ {p} /\ UNCHANGED <<issued, fresh, got>>
        /\ \A q \in Api : /\ pc'[q] = "refresh" => pc[q] = "refresh"
                          /\ pc[q] = "persist" /\ q # p => pc'[q] = "persist"
    BY DEF Ends, Writer, Process
  <1>3. CASE Write(fresh[p]) /\ UNCHANGED lost
    <2>1. row'.pair = fresh[p]
      BY <1>3 DEF Write
    <2>2. Exclusive'
      BY <1>1, <1>2, <2>1 DEF AliveInv, Exclusive
    <2>3. fresh[p].gen = Len(issued[fresh[p].chain])
      BY <1>1 DEF AliveInv, Exclusive
    <2>4. issued[fresh[p].chain] \in Seq(Nat)
      <3>1. fresh[p] \in Pair /\ issued \in [Chain -> Seq(Nat)]
        BY <1>1 DEF AliveInv, TypeOK
      <3>2. QED
        BY <3>1 DEF Pair
    <2>5. ~Superseded(row.pair)'
      BY <1>2, <2>1, <2>3, <2>4 DEF Superseded
    <2>6. QED
      BY <2>2, <2>5 DEF RowIsAlive
  <1>4. CASE row' = row /\ (lost' = lost \cup {fresh[p].chain} \/ (p \in Browser /\ lost' = lost))
    <2>1. Exclusive'
      BY <1>2, <1>4 DEF AliveInv, Exclusive
    <2>2. Superseded(row.pair)' => Superseded(row.pair)
      BY <1>2, <1>4 DEF Superseded
    <2>3. p \in Browser => p \notin Api
      BY RoleAssumption
    <2>4. QED
      BY <1>2, <1>4, <2>1, <2>2, <2>3 DEF AliveInv, RowIsAlive
  <1>5. QED
    BY <1>3, <1>4 DEF Ends

LEMMA QuietAlive ==
  ASSUME AliveInv, Quiet
  PROVE  Exclusive' /\ RowIsAlive'
  <1>1. Writer' = Writer /\ UNCHANGED <<issued, lost, row>>
    BY DEF Quiet, Writer, Process
  <1>2. \A q \in Writer : q \in Process /\ fresh'[q] = fresh[q]
    BY DEF Quiet, Writer, Process
  <1>3. ASSUME NEW q \in Writer, NEW r \in Api, pc'[r] = "refresh"
        PROVE  got'[r].pair # fresh[q]
    <2>1. (pc[r] = "refresh" /\ got'[r] = got[r]) \/ got'[r] = row
      BY <1>3 DEF Quiet, Process
    <2>2. QED
      BY <2>1 DEF AliveInv, Exclusive
  <1>4. Exclusive'
    BY <1>1, <1>2, <1>3 DEF AliveInv, Exclusive
  <1>5. \A q \in Api : pc[q] = "persist" => pc'[q] = "persist" /\ fresh'[q] = fresh[q]
    BY DEF Quiet, Process
  <1>6. Superseded(row.pair)' => Superseded(row.pair)
    BY <1>1 DEF Superseded
  <1>7. RowIsAlive'
    BY <1>1, <1>5, <1>6 DEF AliveInv, RowIsAlive
  <1>8. QED
    BY <1>4, <1>7

LEMMA NextAlive == AliveInv /\ [Next]_vars => AliveInv'
  BY NextTypeOK, QuietSteps, RotatedAlive, ExchangeAlive, EndsAlive, QuietAlive DEF AliveInv

\* However refreshes and logins overlap, the row never keeps a pair that GitHub has
\* replaced unless its successor got lost, or is on its way to the row.
THEOREM RowStaysAlive == Spec => []RowIsAlive
  <1>1. AliveInv => RowIsAlive
    BY DEF AliveInv
  <1>2. QED
    BY <1>1, InitAlive, NextAlive, PTL DEF Spec

-----------------------------------------------------------------------------
(* What requests go out with.                                              *)

InFlight(p) == pc[p] \in {"refresh", "persist", "store", "keep"}

\* Nothing is stored later than MaxFlight after it was asked for.
Timely == \A p \in Process : InFlight(p) => asked[p] <= clock /\ clock <= asked[p] + MaxFlight

LEMMA NextTimely ==
  ASSUME TypeOK, Timely, [Next]_vars
  PROVE  Timely'
  <1>1. clock \in Nat /\ asked \in [Process -> Nat] /\ pc \in [Process -> Place]
    BY Numbers DEF TypeOK
  <1>2. CASE Tick
    <2>1. clock' = clock + 1 /\ UNCHANGED <<pc, asked>>
      BY <1>2 DEF Tick
    <2>2. \A p \in Process : InFlight(p) => clock < asked[p] + MaxFlight
      BY <1>2 DEF Tick, InFlight
    <2>3. QED
      BY <1>1, <2>1, <2>2, Numbers DEF Timely, InFlight
  <1>3. ASSUME clock' = clock,
               \A p \in Process : pc'[p] \in {"refresh", "persist", "store", "keep"} =>
                 (InFlight(p) /\ asked'[p] = asked[p]) \/ asked'[p] = clock
        PROVE  Timely'
    BY <1>1, <1>3, Numbers DEF Timely, InFlight
  <1>4. ASSUME NEW p \in Process, Read(p) \/ ReadRow(p) \/ Exchange(p) \/ Mint(p)
        PROVE  Timely'
    <2>1. clock' = clock /\ asked' = [asked EXCEPT ![p] = clock]
      BY <1>4 DEF Read, ReadRow, Exchange, Mint
    <2>2. \A q \in Process \ {p} : pc'[q] = pc[q]
      BY <1>1, <1>4 DEF Read, ReadRow, Exchange, Mint, GoTo, Hand
    <2>3. QED
      BY <1>1, <1>3, <2>1, <2>2 DEF InFlight
  <1>5. ASSUME NEW p \in Process,
               NotRotated(p) \/ Persist(p) \/ Login(p) \/ Lookup(p) \/ Store(p) \/ Cached(p) \/ Keep(p)
        PROVE  Timely'
    <2>1. UNCHANGED <<clock, asked>>
      BY <1>5 DEF NotRotated, Persist, Login, Lookup, Store, Cached, Keep
    <2>2. pc'[p] \in {"idle", "read", "mint", "done"} /\ \A q \in Process \ {p} : pc'[q] = pc[q]
      BY <1>1, <1>5 DEF NotRotated, Persist, Login, Lookup, Store, Cached, Keep, GoTo, Hand, HandMinted
    <2>3. QED
      BY <1>3, <2>1, <2>2 DEF InFlight
  <1>6. ASSUME NEW p \in Process, Rotated(p)
        PROVE  Timely'
    <2>1. clock' = clock /\ \A q \in Process \ {p} : pc'[q] = pc[q] /\ asked'[q] = asked[q]
      BY <1>1, <1>6 DEF Rotated, GoTo, Hand
    <2>2. asked'[p] = clock \/ pc'[p] = "done"
      BY <1>1, <1>6 DEF Rotated, Hand, GoTo
    <2>3. QED
      BY <1>3, <2>1, <2>2 DEF InFlight
  <1>7. ASSUME NEW p \in Process, Finish(p)
        PROVE  Timely'
    <2>1. /\ clock' = clock /\ pc'[p] = "idle"
          /\ \A q \in Process \ {p} : pc'[q] = pc[q] /\ asked'[q] = asked[q]
      BY <1>1, <1>7 DEF Finish, GoTo
    <2>2. QED
      BY <1>3, <2>1 DEF InFlight
  <1>8. CASE UNCHANGED vars
    BY <1>8 DEF vars, Timely, InFlight
  <1>9. QED
    BY <1>2, <1>4, <1>5, <1>6, <1>7, <1>8 DEF Next

LEMMA HandFields ==
  ASSUME TypeOK, NEW p \in Process, NEW q, NEW failed, Hand(p, q, failed)
  PROVE  /\ handed'[p] = [pair |-> q, at |-> clock, failed |-> failed] /\ pc'[p] = "done"
         /\ \A r \in Process \ {p} : handed'[r] = handed[r] /\ pc'[r] = pc[r]
  BY DEF Hand, GoTo, TypeOK

\* The pair was in the row at some time since t.
Since(q, t) == q \in DOMAIN inRow /\ inRow[q] >= t

\* What the resolver has read, cached or handed out was in the row recently.
RecentInv ==
  /\ row.pair \in DOMAIN inRow /\ inRow[row.pair] = clock
  /\ \A q \in DOMAIN inRow : inRow[q] <= clock
  /\ \A p \in Git : pc[p] = "store" => Since(got[p].pair, asked[p])
  /\ credCache # Nothing => Since(credCache.pair, credCache.at - MaxFlight)
  /\ \A p \in Git : pc[p] = "done" => /\ handed[p].at \in Nat
                                      /\ Since(handed[p].pair, handed[p].at - CacheTTL - MaxFlight)

LEMMA InitRecent == Init => Timely /\ RecentInv
  <1> SUFFICES ASSUME Init PROVE Timely /\ RecentInv
    OBVIOUS
  <1>1. \A p \in Process : pc[p] \in {"idle", "off"}
    BY DEF Init
  <1>2. row.pair = First /\ inRow = [q \in {First} |-> 0] /\ clock = 0 /\ credCache = Nothing
    BY DEF Init
  <1>3. Git \subseteq Process
    BY DEF Process
  <1>4. Timely
    BY <1>1 DEF Timely, InFlight
  <1>5. row.pair \in DOMAIN inRow /\ inRow[row.pair] = clock /\ \A q \in DOMAIN inRow : inRow[q] <= clock
    BY <1>2
  <1>6. QED
    BY <1>1, <1>2, <1>3, <1>4, <1>5 DEF RecentInv

\* The history of the row only grows, and always has the pair of the row in it.
LEMMA HistoryGrows ==
  ASSUME TypeOK, RecentInv, [Next]_vars
  PROVE  /\ row'.pair \in DOMAIN inRow' /\ inRow'[row'.pair] = clock'
         /\ \A q \in DOMAIN inRow' : inRow'[q] <= clock'
         /\ \A q \in DOMAIN inRow : q \in DOMAIN inRow' /\ inRow[q] <= inRow'[q]
  <1>1. /\ clock \in Nat /\ \A q \in DOMAIN inRow : inRow[q] \in Nat
        /\ row.pair \in DOMAIN inRow /\ inRow[row.pair] = clock
        /\ \A q \in DOMAIN inRow : inRow[q] <= clock
    BY Numbers DEF TypeOK, RecentInv
  <1>2. CASE Tick
    <2>1. clock' = clock + 1 /\ row' = row
      BY <1>2 DEF Tick
    <2>2. /\ DOMAIN inRow' = DOMAIN inRow
          /\ \A q \in DOMAIN inRow : inRow'[q] = IF q = row.pair THEN clock + 1 ELSE inRow[q]
      BY <1>2, <2>1 DEF Tick
    <2>3. QED
      BY <1>1, <2>1, <2>2
  <1>3. CASE UNCHANGED <<row, inRow, clock>>
    BY <1>1, <1>3
  <1>4. ASSUME NEW p \in Process, Write(fresh[p]), clock' = clock
        PROVE  /\ row'.pair \in DOMAIN inRow' /\ inRow'[row'.pair] = clock'
               /\ \A q \in DOMAIN inRow' : inRow'[q] <= clock'
               /\ \A q \in DOMAIN inRow : q \in DOMAIN inRow' /\ inRow[q] <= inRow'[q]
    <2>1. row'.pair = fresh[p]
      BY <1>4 DEF Write
    <2>2. /\ DOMAIN inRow' = DOMAIN inRow \cup {fresh[p], row.pair}
          /\ \A q \in DOMAIN inRow' : inRow'[q] = IF q \in {fresh[p], row.pair} THEN clock ELSE inRow[q]
      BY <1>4 DEF Write
    <2>3. QED
      BY <1>1, <1>4, <2>1, <2>2
  <1>5. clock' = clock \/ Tick
    BY DEF Next, vars, Read, Rotated, NotRotated, Persist, Exchange, Login, Lookup, ReadRow, Store,
           Cached, Mint, Keep, Finish
  <1>6. QED
    BY <1>2, <1>3, <1>4, <1>5, RowSteps

LEMMA HandedPair ==
  ASSUME TypeOK, NEW p \in Git, NEW q, Hand(p, q, FALSE)
  PROVE  handed'[p].pair = q /\ handed'[p].at = clock
  <1>1. p \in Process
    BY DEF Process
  <1>2. handed'[p] = [pair |-> q, at |-> clock, failed |-> FALSE]
    BY <1>1 DEF Hand, TypeOK
  <1>3. QED
    BY <1>2

LEMMA NextRecent ==
  ASSUME TypeOK, Timely, RecentInv, [Next]_vars
  PROVE  RecentInv'
  <1>1. /\ clock \in Nat /\ \A p \in Process : asked[p] \in Nat
        /\ \A q \in DOMAIN inRow : inRow[q] \in Nat
        /\ \A q \in DOMAIN inRow' : inRow'[q] \in Nat
    BY Numbers, NextTypeOK DEF TypeOK
  <1>2. ASSUME NEW q, NEW t \in Int, Since(q, t)
        PROVE  q \in DOMAIN inRow' /\ inRow'[q] >= t
    BY <1>1, <1>2, HistoryGrows DEF Since
  <1>3. Git \subseteq Process /\ \A p \in Git : p \notin Api /\ p \notin Agent /\ p \notin Browser
    BY RoleAssumption DEF Process
  \* What can happen to a resolving request.
  <1>4. ASSUME NEW p \in Git
        PROVE  \/ pc'[p] \notin {"store", "done"}
               \/ pc'[p] = pc[p] /\ got'[p] = got[p] /\ asked'[p] = asked[p] /\ handed'[p] = handed[p]
               \/ pc'[p] = "store" /\ got'[p] = row /\ asked'[p] = clock
               \/ Lookup(p) \/ Store(p)
    <2> DEFINE Rests == pc'[p] = pc[p] /\ got'[p] = got[p] /\ asked'[p] = asked[p] /\ handed'[p] = handed[p]
    <2>1. p \in Process /\ p \notin Api /\ p \notin Agent /\ p \notin Browser
      BY <1>3
    <2>2. CASE Tick \/ UNCHANGED vars
      BY <2>2 DEF Tick, vars
    <2>3. ASSUME NEW q \in Process, q # p, Rotated(q) \/ Exchange(q)
          PROVE  Rests
      BY <2>1, <2>3 DEF Rotated, Exchange, Hand, GoTo, TypeOK
    <2>4. ASSUME NEW q \in Process, q # p,
                 Read(q) \/ NotRotated(q) \/ Persist(q) \/ Login(q) \/ Lookup(q)
          PROVE  Rests
      BY <2>1, <2>4 DEF Read, NotRotated, Persist, Login, Lookup, Hand, GoTo, TypeOK
    <2>5. ASSUME NEW q \in Process, q # p,
                 ReadRow(q) \/ Store(q) \/ Cached(q) \/ Mint(q) \/ Keep(q) \/ Finish(q)
          PROVE  Rests
      BY <2>1, <2>5 DEF ReadRow, Store, Cached, Mint, Keep, Finish, Hand, HandMinted, GoTo, TypeOK
    <2>6. CASE ReadRow(p)
      BY <2>1, <2>6 DEF ReadRow, GoTo, TypeOK
    <2>7. CASE Finish(p)
      <3>1. pc'[p] = "idle"
        BY <2>1, <2>7 DEF Finish, GoTo, TypeOK
      <3>2. QED
        BY <3>1
    <2>8. ~Read(p) /\ ~Rotated(p) /\ ~NotRotated(p) /\ ~Persist(p) /\ ~Exchange(p) /\ ~Login(p)
          /\ ~Cached(p) /\ ~Mint(p) /\ ~Keep(p)
      <3>1. ~Persist(p) /\ ~Login(p) /\ ~Exchange(p) /\ ~Rotated(p)
        BY <2>1 DEF Persist, Login, Exchange, Rotated
      <3>2. QED
        BY <2>1, <3>1 DEF Read, NotRotated, Cached, Mint, Keep
    <2>9. QED
      BY <2>2, <2>3, <2>4, <2>5, <2>6, <2>7, <2>8 DEF Next
  \* A request that stores, and what it then leaves in the cache and goes out with.
  <1>5. ASSUME NEW p \in Git, Store(p)
        PROVE  /\ credCache' = [pair |-> got[p].pair, at |-> clock]
               /\ handed'[p].pair = got[p].pair /\ handed'[p].at = clock
               /\ got[p].pair \in DOMAIN inRow' /\ inRow'[got[p].pair] >= clock - MaxFlight
    <2>1. Hand(p, got[p].pair, FALSE) /\ credCache' = [pair |-> got[p].pair, at |-> clock]
      BY <1>5 DEF Store
    <2>2. handed'[p].pair = got[p].pair /\ handed'[p].at = clock
      BY <2>1, HandedPair
    <2>3. pc[p] = "store" /\ clock <= asked[p] + MaxFlight
      BY <1>3, <1>5 DEF Store, At, Timely, InFlight
    <2>4. asked[p] \in Int
      BY <1>1, <1>3
    <2>5. got[p].pair \in DOMAIN inRow' /\ inRow'[got[p].pair] >= asked[p]
      BY <1>2, <2>3, <2>4 DEF RecentInv
    <2>6. QED
      BY <1>1, <2>1, <2>2, <2>3, <2>4, <2>5, Numbers
  <1>6. credCache' = credCache \/ credCache' = Nothing \/ \E p \in Git : Store(p)
    BY DEF Next, vars, Tick, Read, Rotated, NotRotated, Persist, Exchange, Login, Lookup, ReadRow,
           Store, Cached, Mint, Keep, Finish
  <1>7. credCache # Nothing => credCache.at \in Nat
    BY DEF TypeOK
  <1>8. credCache' # Nothing => Since(credCache.pair, credCache.at - MaxFlight)'
    <2>1. CASE credCache' = credCache /\ credCache # Nothing
      <3>1. credCache.at - MaxFlight \in Int
        BY <1>7, <2>1, Numbers
      <3>2. Since(credCache.pair, credCache.at - MaxFlight)
        BY <2>1 DEF RecentInv
      <3>3. QED
        BY <1>2, <2>1, <3>1, <3>2 DEF Since
    <2>2. ASSUME NEW p \in Git, Store(p)
          PROVE  Since(credCache.pair, credCache.at - MaxFlight)'
      <3>1. credCache'.pair = got[p].pair /\ credCache'.at = clock
        BY <1>5, <2>2
      <3>2. QED
        BY <1>5, <2>2, <3>1 DEF Since
    <2>3. QED
      BY <1>6, <2>1, <2>2
  <1>9. ASSUME NEW p \in Git, pc'[p] = "store"
        PROVE  Since(got[p].pair, asked[p])'
    <2>1. pc'[p] # "done"
      BY <1>9
    <2>2. ~Lookup(p) /\ ~Store(p)
      BY <1>3, <1>9 DEF Lookup, Store, Hand, GoTo, TypeOK
    <2>3. CASE pc'[p] = pc[p] /\ got'[p] = got[p] /\ asked'[p] = asked[p]
      <3>1. Since(got[p].pair, asked[p]) /\ asked[p] \in Int
        BY <1>1, <1>3, <1>9, <2>3 DEF RecentInv
      <3>2. QED
        BY <1>2, <2>3, <3>1 DEF Since
    <2>4. CASE got'[p] = row /\ asked'[p] = clock
      <3>1. Since(row.pair, clock) /\ clock \in Int
        BY <1>1 DEF RecentInv, Since
      <3>2. QED
        BY <1>2, <2>4, <3>1 DEF Since
    <2>5. QED
      BY <1>4, <1>9, <2>2, <2>3, <2>4
  <1>10. ASSUME NEW p \in Git, pc'[p] = "done"
         PROVE  (handed[p].at \in Nat /\ Since(handed[p].pair, handed[p].at - CacheTTL - MaxFlight))'
    <2>1. CASE pc[p] = "done" /\ handed'[p] = handed[p]
      <3>1. handed[p].at \in Nat /\ Since(handed[p].pair, handed[p].at - CacheTTL - MaxFlight)
        BY <2>1 DEF RecentInv
      <3>2. handed[p].at - CacheTTL - MaxFlight \in Int
        BY <3>1, Numbers
      <3>3. QED
        BY <1>2, <2>1, <3>1, <3>2 DEF Since
    <2>2. CASE Lookup(p)
      <3>1. credCache # Nothing /\ clock - credCache.at < CacheTTL /\ Hand(p, credCache.pair, FALSE)
        BY <1>3, <1>10, <2>2 DEF Lookup, GoTo, TypeOK
      <3>2. handed'[p].pair = credCache.pair /\ handed'[p].at = clock
        BY <3>1, HandedPair
      <3>3. credCache.at - MaxFlight \in Int /\ Since(credCache.pair, credCache.at - MaxFlight)
        BY <1>7, <3>1, Numbers DEF RecentInv
      <3>4. credCache.pair \in DOMAIN inRow' /\ inRow'[credCache.pair] >= credCache.at - MaxFlight
        BY <1>2, <3>3
      <3>5. inRow'[credCache.pair] \in Nat
        BY <1>1, <3>4
      <3>6. inRow'[credCache.pair] >= clock - CacheTTL - MaxFlight
        BY <1>1, <1>7, <3>1, <3>4, <3>5, Numbers
      <3>7. QED
        BY <1>1, <3>2, <3>4, <3>6 DEF Since
    <2>3. CASE Store(p)
      <3>1. /\ handed'[p].pair = got[p].pair /\ handed'[p].at = clock
            /\ got[p].pair \in DOMAIN inRow' /\ inRow'[got[p].pair] >= clock - MaxFlight
        BY <1>5, <2>3
      <3>2. inRow'[got[p].pair] >= clock - CacheTTL - MaxFlight
        BY <1>1, <3>1, Numbers
      <3>3. QED
        BY <1>1, <3>1, <3>2 DEF Since
    <2>4. QED
      BY <1>4, <1>10, <2>1, <2>2, <2>3
  <1>11. QED
    BY <1>8, <1>9, <1>10, HistoryGrows DEF RecentInv

\* What the resolver hands out was in the row not longer ago than its cache may keep
\* it and its own handling may take.
THEOREM ResolvedStaysRecent == Spec => []ResolvedIsRecent
  <1> DEFINE Inv == TypeOK /\ Timely /\ RecentInv
  <1>1. Init => Inv
    BY InitTypeOK, InitRecent
  <1>2. Inv /\ [Next]_vars => Inv'
    BY NextTypeOK, NextTimely, NextRecent
  <1>3. Inv => ResolvedIsRecent
    BY DEF RecentInv, Since, ResolvedIsRecent
  <1>4. QED
    BY <1>1, <1>2, <1>3, PTL DEF Spec

-----------------------------------------------------------------------------
(* ... and that it has not expired.                                        *)

\* GitHub issued the pair at t.
IssuedAt(q, t) == Known(q) /\ issued[q.chain][q.gen] = t

\* The database takes a token for younger than it is by no more than MaxFlight, and
\* a token outlives every request that goes out with it.
FreshInv ==
  /\ row.exp <= Expiry(row.pair) + MaxFlight
  /\ \A p \in Api \cup Browser : pc[p] = "persist" => IssuedAt(fresh[p], asked[p])
  /\ \A p \in Api : pc[p] = "done" /\ ~handed[p].failed =>
       /\ handed[p].at \in Nat /\ Known(handed[p].pair)
       /\ handed[p].at < Expiry(handed[p].pair)

\* The same of installation tokens.
MintInv ==
  /\ tokenCache # Nothing => tokenCache.at <= tokenCache.minted + MaxFlight
  /\ \A p \in Agent : pc[p] = "done" =>
       /\ handed[p].at \in Nat /\ handed[p].minted \in Nat
       /\ handed[p].at < handed[p].minted + InstallLife

LEMMA InitFresh == Init => FreshInv /\ MintInv
  <1> SUFFICES ASSUME Init PROVE FreshInv /\ MintInv
    OBVIOUS
  <1>1. \A p \in Process : pc[p] \in {"idle", "off"}
    BY DEF Init
  <1>2. Api \cup Browser \subseteq Process /\ Agent \subseteq Process
    BY DEF Process
  <1>3. row.exp <= Expiry(row.pair) + MaxFlight
    <2>1. issued[1] = <<0>> /\ row = [pair |-> First, exp |-> Life]
      BY Numbers, CredentialAssumption DEF Init, Chain
    <2>2. Expiry(row.pair) = 0 + Life
      BY <2>1 DEF Expiry, First
    <2>3. row.exp = Life
      BY <2>1
    <2>4. QED
      BY <2>2, <2>3, Numbers
  <1>4. tokenCache = Nothing
    BY DEF Init
  <1>5. FreshInv
    BY <1>1, <1>2, <1>3 DEF FreshInv
  <1>6. QED
    BY <1>1, <1>2, <1>4, <1>5 DEF MintInv

\* What can happen to an agent's request.
LEMMA AgentSteps ==
  ASSUME TypeOK, [Next]_vars, NEW p \in Agent, pc'[p] = "done"
  PROVE  (pc[p] = "done" /\ handed'[p] = handed[p]) \/ Cached(p) \/ Keep(p)
  <1> DEFINE Rests == pc'[p] = pc[p] /\ handed'[p] = handed[p]
  <1>1. p \in Process /\ p \notin Api /\ p \notin Git /\ p \notin Browser
    BY RoleAssumption DEF Process
  <1>2. CASE Tick \/ UNCHANGED vars
    BY <1>2 DEF Tick, vars
  <1>3. ASSUME NEW q \in Process, q # p, Rotated(q) \/ Exchange(q)
        PROVE  Rests
    BY <1>1, <1>3 DEF Rotated, Exchange, Hand, GoTo, TypeOK
  <1>4. ASSUME NEW q \in Process, q # p,
               Read(q) \/ NotRotated(q) \/ Persist(q) \/ Login(q) \/ Lookup(q)
        PROVE  Rests
    BY <1>1, <1>4 DEF Read, NotRotated, Persist, Login, Lookup, Hand, GoTo, TypeOK
  <1>5. ASSUME NEW q \in Process, q # p,
               ReadRow(q) \/ Store(q) \/ Cached(q) \/ Mint(q) \/ Keep(q) \/ Finish(q)
        PROVE  Rests
    BY <1>1, <1>5 DEF ReadRow, Store, Cached, Mint, Keep, Finish, Hand, HandMinted, GoTo, TypeOK
  <1>6. ~Mint(p) /\ ~Finish(p)
    BY <1>1 DEF Mint, Finish, GoTo, TypeOK
  <1>7. ~Persist(p) /\ ~Login(p) /\ ~Exchange(p) /\ ~Rotated(p)
    BY <1>1 DEF Persist, Login, Exchange, Rotated
  <1>8. ~Read(p) /\ ~NotRotated(p) /\ ~Lookup(p) /\ ~ReadRow(p) /\ ~Store(p)
    BY <1>1 DEF Read, NotRotated, Lookup, ReadRow, Store
  <1>9. QED
    BY <1>2, <1>3, <1>4, <1>5, <1>6, <1>7, <1>8 DEF Next

LEMMA HandedMinted ==
  ASSUME TypeOK, NEW p \in Agent, NEW minted, HandMinted(p, minted)
  PROVE  handed'[p].minted = minted /\ handed'[p].at = clock
  <1>1. p \in Process
    BY DEF Process
  <1>2. handed'[p] = [minted |-> minted, at |-> clock]
    BY <1>1 DEF HandMinted, TypeOK
  <1>3. QED
    BY <1>2

LEMMA NextMint ==
  ASSUME TypeOK, Timely, MintInv, [Next]_vars
  PROVE  MintInv'
  <1>1. /\ clock \in Nat /\ \A p \in Process : asked[p] \in Nat
        /\ tokenCache # Nothing => tokenCache.at \in Nat /\ tokenCache.minted \in Nat
    BY Numbers DEF TypeOK
  <1>2. Agent \subseteq Process
    BY DEF Process
  <1>3. InstallTTL > 0 /\ InstallTTL + MaxFlight <= InstallLife
    BY CredentialAssumption
  <1>4. ASSUME NEW p \in Agent, Keep(p)
        PROVE  /\ tokenCache' = [minted |-> asked[p], at |-> clock] /\ HandMinted(p, asked[p])
               /\ asked[p] \in Nat /\ clock <= asked[p] + MaxFlight
    <2>1. pc[p] = "keep"
      BY <1>4 DEF Keep, At
    <2>2. asked[p] \in Nat /\ clock <= asked[p] + MaxFlight
      BY <1>1, <1>2, <2>1 DEF Timely, InFlight
    <2>3. QED
      BY <1>4, <2>2 DEF Keep
  <1>5. tokenCache' = tokenCache \/ \E p \in Agent : Keep(p)
    BY DEF Next, vars, Tick, Read, Rotated, NotRotated, Persist, Exchange, Login, Lookup, ReadRow,
           Store, Cached, Mint, Keep, Finish
  <1>6. tokenCache' # Nothing => tokenCache'.at <= tokenCache'.minted + MaxFlight
    <2>1. CASE tokenCache' = tokenCache
      BY <2>1 DEF MintInv
    <2>2. ASSUME NEW p \in Agent, Keep(p)
          PROVE  tokenCache'.at <= tokenCache'.minted + MaxFlight
      <3>1. tokenCache'.minted = asked[p] /\ tokenCache'.at = clock
        BY <1>4, <2>2
      <3>2. QED
        BY <1>4, <2>2, <3>1
    <2>3. QED
      BY <1>5, <2>1, <2>2
  <1>7. ASSUME NEW p \in Agent, pc'[p] = "done"
        PROVE  /\ handed'[p].at \in Nat /\ handed'[p].minted \in Nat
               /\ handed'[p].at < handed'[p].minted + InstallLife
    <2>1. CASE pc[p] = "done" /\ handed'[p] = handed[p]
      BY <2>1 DEF MintInv
    <2>2. CASE Cached(p)
      <3>1. /\ tokenCache # Nothing /\ clock < tokenCache.at + InstallTTL
            /\ HandMinted(p, tokenCache.minted)
        BY <1>2, <1>7, <2>2 DEF Cached, GoTo, TypeOK
      <3>2. handed'[p].minted = tokenCache.minted /\ handed'[p].at = clock
        BY <3>1, HandedMinted
      <3>3. tokenCache.at <= tokenCache.minted + MaxFlight
        BY <3>1 DEF MintInv
      <3>4. clock < tokenCache.minted + InstallLife
        BY <1>1, <1>3, <3>1, <3>3, Numbers
      <3>5. QED
        BY <1>1, <3>1, <3>2, <3>4
    <2>3. CASE Keep(p)
      <3>1. handed'[p].minted = asked[p] /\ handed'[p].at = clock
        BY <1>4, <2>3, HandedMinted
      <3>2. clock < asked[p] + InstallLife
        BY <1>1, <1>3, <1>4, <2>3, Numbers
      <3>3. QED
        BY <1>1, <1>2, <3>1, <3>2
    <2>4. QED
      BY <1>7, <2>1, <2>2, <2>3, AgentSteps
  <1>8. QED
    BY <1>6, <1>7 DEF MintInv

\* What has been issued stays known, with the time it was issued at.
LEMMA IssuedKept ==
  ASSUME TypeOK, [Next]_vars, NEW q, Known(q)
  PROVE  Known(q)' /\ Expiry(q)' = Expiry(q) /\ Expiry(q) \in Nat
         /\ issued'[q.chain][q.gen] = issued[q.chain][q.gen] /\ issued[q.chain][q.gen] \in Nat
  <1>1. q \in Pair /\ q.gen <= Len(issued[q.chain])
    BY DEF Known
  <1>2. /\ q.gen <= Len(issued'[q.chain])
        /\ issued'[q.chain][q.gen] = issued[q.chain][q.gen]
    BY <1>1, KnownKept
  <1>3. q.chain \in Chain /\ q.gen \in Nat /\ q.gen >= 1
    BY <1>1, Numbers DEF Pair
  <1>4. issued[q.chain] \in Seq(Nat)
    BY <1>3 DEF TypeOK
  <1>5. q.gen \in 1..Len(issued[q.chain])
    BY <1>1, <1>3, <1>4
  <1>6. issued[q.chain][q.gen] \in Nat
    BY <1>4, <1>5
  <1>7. Expiry(q)' = Expiry(q) /\ Expiry(q) \in Nat
    BY <1>2, <1>6, Numbers DEF Expiry
  <1>8. QED
    BY <1>1, <1>2, <1>6, <1>7 DEF Known

\* What can happen to a request for the API.
LEMMA ApiSteps ==
  ASSUME TypeOK, [Next]_vars, NEW p \in Api, pc'[p] = "done"
  PROVE  (pc[p] = "done" /\ handed'[p] = handed[p]) \/ Read(p) \/ Rotated(p) \/ NotRotated(p) \/ Persist(p)
  <1> DEFINE Rests == pc'[p] = pc[p] /\ handed'[p] = handed[p]
  <1>1. p \in Process /\ p \notin Agent /\ p \notin Git /\ p \notin Browser
    BY RoleAssumption DEF Process
  <1>2. CASE Tick \/ UNCHANGED vars
    BY <1>2 DEF Tick, vars
  <1>3. ASSUME NEW q \in Process, q # p, Rotated(q) \/ Exchange(q)
        PROVE  Rests
    BY <1>1, <1>3 DEF Rotated, Exchange, Hand, GoTo, TypeOK
  <1>4. ASSUME NEW q \in Process, q # p,
               Read(q) \/ NotRotated(q) \/ Persist(q) \/ Login(q) \/ Lookup(q)
        PROVE  Rests
    BY <1>1, <1>4 DEF Read, NotRotated, Persist, Login, Lookup, Hand, GoTo, TypeOK
  <1>5. ASSUME NEW q \in Process, q # p,
               ReadRow(q) \/ Store(q) \/ Cached(q) \/ Mint(q) \/ Keep(q) \/ Finish(q)
        PROVE  Rests
    BY <1>1, <1>5 DEF ReadRow, Store, Cached, Mint, Keep, Finish, Hand, HandMinted, GoTo, TypeOK
  <1>6. ~Finish(p)
    BY <1>1 DEF Finish, GoTo, TypeOK
  <1>7. ~Login(p) /\ ~Exchange(p) /\ ~Mint(p) /\ ~Cached(p) /\ ~Keep(p)
    BY <1>1 DEF Login, Exchange, Mint, Cached, Keep
  <1>8. ~Lookup(p) /\ ~ReadRow(p) /\ ~Store(p)
    BY <1>1 DEF Lookup, ReadRow, Store
  <1>9. QED
    BY <1>2, <1>3, <1>4, <1>5, <1>6, <1>7, <1>8 DEF Next

\* A pair that is to be stored, by whoever got it.
LEMMA WriterSteps ==
  ASSUME TypeOK, [Next]_vars, NEW p \in Api \cup Browser, pc'[p] = "persist"
  PROVE  \/ pc[p] = "persist" /\ fresh'[p] = fresh[p] /\ asked'[p] = asked[p]
         \/ /\ fresh'[p] \in Pair /\ asked'[p] = clock
            /\ issued'[fresh'[p].chain][fresh'[p].gen] = clock
  <1> DEFINE Rests == pc'[p] = pc[p] /\ fresh'[p] = fresh[p] /\ asked'[p] = asked[p]
  <1>1. p \in Process /\ p \notin Agent /\ p \notin Git
    BY RoleAssumption DEF Process
  <1>2. CASE Tick \/ UNCHANGED vars
    BY <1>2 DEF Tick, vars
  <1>3. ASSUME NEW q \in Process, q # p, Rotated(q) \/ Exchange(q)
        PROVE  Rests
    BY <1>1, <1>3 DEF Rotated, Exchange, Hand, GoTo, TypeOK
  <1>4. ASSUME NEW q \in Process, q # p,
               Read(q) \/ NotRotated(q) \/ Persist(q) \/ Login(q) \/ Lookup(q)
        PROVE  Rests
    BY <1>1, <1>4 DEF Read, NotRotated, Persist, Login, Lookup, Hand, GoTo, TypeOK
  <1>5. ASSUME NEW q \in Process, q # p,
               ReadRow(q) \/ Store(q) \/ Cached(q) \/ Mint(q) \/ Keep(q) \/ Finish(q)
        PROVE  Rests
    BY <1>1, <1>5 DEF ReadRow, Store, Cached, Mint, Keep, Finish, Hand, HandMinted, GoTo, TypeOK
  <1>6. CASE Rotated(p)
    <2>1. PICK k \in Chain, n \in 1..MaxRefreshes :
            /\ issued'[k][n] = clock /\ [chain |-> k, gen |-> n] \in Pair
            /\ \/ fresh' = [fresh EXCEPT ![p] = [chain |-> k, gen |-> n]]
               \/ pc' = [pc EXCEPT ![p] = "done"]
      BY <1>1, <1>6, Rotation
    <2>2. fresh' = [fresh EXCEPT ![p] = [chain |-> k, gen |-> n]]
      BY <1>1, <2>1 DEF TypeOK
    <2>3. fresh'[p] = [chain |-> k, gen |-> n]
      BY <1>1, <2>2 DEF TypeOK
    <2>4. asked'[p] = clock
      BY <1>1, <1>6 DEF Rotated, Hand, GoTo, TypeOK
    <2>5. QED
      BY <2>1, <2>3, <2>4
  <1>7. CASE Exchange(p)
    <2>1. PICK k \in Chain : /\ issued'[k][1] = clock /\ [chain |-> k, gen |-> 1] \in Pair
                             /\ fresh' = [fresh EXCEPT ![p] = [chain |-> k, gen |-> 1]]
      BY <1>1, <1>7, Beginning
    <2>2. fresh'[p] = [chain |-> k, gen |-> 1]
      BY <1>1, <2>1 DEF TypeOK
    <2>3. asked'[p] = clock
      BY <1>1, <1>7 DEF Exchange, TypeOK
    <2>4. QED
      BY <2>1, <2>2, <2>3
  <1>8. ~Finish(p) /\ ~Persist(p) /\ ~Login(p)
    BY <1>1 DEF Finish, Persist, Login, Hand, GoTo, TypeOK
  <1>9. ~Read(p) /\ ~NotRotated(p)
    BY <1>1 DEF Read, NotRotated, Hand, GoTo, TypeOK
  <1>10. ~Lookup(p) /\ ~ReadRow(p) /\ ~Store(p) /\ ~Mint(p) /\ ~Cached(p) /\ ~Keep(p)
    BY <1>1 DEF Lookup, ReadRow, Store, Mint, Cached, Keep
  <1>11. QED
    BY <1>2, <1>3, <1>4, <1>5, <1>6, <1>7, <1>8, <1>9, <1>10 DEF Next

LEMMA HandedApi ==
  ASSUME TypeOK, NEW p \in Api, NEW q, NEW failed, Hand(p, q, failed)
  PROVE  handed'[p].pair = q /\ handed'[p].at = clock /\ handed'[p].failed = failed
  <1>1. p \in Process
    BY DEF Process
  <1>2. handed'[p] = [pair |-> q, at |-> clock, failed |-> failed]
    BY <1>1 DEF Hand, TypeOK
  <1>3. QED
    BY <1>2

LEMMA NextFresh ==
  ASSUME TypeOK, Timely, FreshInv, [Next]_vars
  PROVE  FreshInv'
  <1>1. /\ clock \in Nat /\ \A p \in Process : asked[p] \in Nat
        /\ row.exp \in Nat /\ Known(row.pair)
        /\ \A p \in Process : Known(fresh[p])
    BY Numbers DEF TypeOK
  <1>2. Api \cup Browser \subseteq Process
    BY DEF Process
  \* A pair that is about to be stored has just been issued.
  <1>3. ASSUME NEW p \in Api \cup Browser, pc[p] = "persist"
        PROVE  /\ Expiry(fresh[p]) = asked[p] + Life /\ clock <= asked[p] + MaxFlight
               /\ asked[p] \in Nat
    <2>1. issued[fresh[p].chain][fresh[p].gen] = asked[p]
      BY <1>3 DEF FreshInv, IssuedAt
    <2>2. clock <= asked[p] + MaxFlight
      BY <1>2, <1>3 DEF Timely, InFlight
    <2>3. QED
      BY <1>1, <1>2, <2>1, <2>2 DEF Expiry
  <1>4. (row.exp <= Expiry(row.pair) + MaxFlight)'
    <2>1. CASE UNCHANGED row
      <3>1. issued'[row.pair.chain][row.pair.gen] = issued[row.pair.chain][row.pair.gen]
        BY <1>1, IssuedKept
      <3>2. QED
        BY <2>1, <3>1 DEF FreshInv, Expiry
    <2>2. ASSUME NEW p \in Process, Persist(p) \/ Login(p), Write(fresh[p])
          PROVE  (row.exp <= Expiry(row.pair) + MaxFlight)'
      <3>1. p \in Api \cup Browser /\ pc[p] = "persist"
        BY <2>2 DEF Persist, Login, At
      <3>2. row'.pair = fresh[p] /\ row'.exp = clock + Life
        BY <2>2 DEF Write
      <3>3. issued'[fresh[p].chain][fresh[p].gen] = issued[fresh[p].chain][fresh[p].gen]
        BY <1>1, <1>2, <3>1, IssuedKept
      <3>4. issued'[fresh[p].chain][fresh[p].gen] + Life = asked[p] + Life
        BY <1>3, <3>1, <3>3 DEF Expiry
      <3>5. clock + Life <= asked[p] + Life + MaxFlight
        BY <1>1, <1>3, <3>1, Numbers
      <3>6. QED
        BY <3>2, <3>4, <3>5 DEF Expiry
    <2>3. QED
      BY <2>1, <2>2, RowSteps
  <1>5. ASSUME NEW p \in Api \cup Browser, pc'[p] = "persist"
        PROVE  IssuedAt(fresh[p], asked[p])'
    <2>1. p \in Process /\ Known(fresh[p])'
      BY <1>2, PairsKnown
    <2>2. CASE pc[p] = "persist" /\ fresh'[p] = fresh[p] /\ asked'[p] = asked[p]
      <3>1. issued[fresh[p].chain][fresh[p].gen] = asked[p]
        BY <2>2 DEF FreshInv, IssuedAt
      <3>2. issued'[fresh[p].chain][fresh[p].gen] = issued[fresh[p].chain][fresh[p].gen]
        BY <1>1, <2>1, IssuedKept
      <3>3. QED
        BY <2>1, <2>2, <3>1, <3>2 DEF IssuedAt
    <2>3. CASE asked'[p] = clock /\ issued'[fresh'[p].chain][fresh'[p].gen] = clock
      BY <2>1, <2>3 DEF IssuedAt
    <2>4. QED
      BY <1>5, <2>2, <2>3, WriterSteps
  <1>6. ASSUME NEW p \in Api, pc'[p] = "done", ~handed'[p].failed
        PROVE  /\ handed'[p].at \in Nat /\ Known(handed[p].pair)'
               /\ handed'[p].at < Expiry(handed[p].pair)'
    <2>0. p \in Process
      BY <1>2
    \* A pair that is known, and good now, stays so.
    <2>1. ASSUME NEW q, Known(q), NEW t \in Nat, t < Expiry(q), handed'[p].pair = q, handed'[p].at = t
          PROVE  /\ handed'[p].at \in Nat /\ Known(handed[p].pair)'
                 /\ handed'[p].at < Expiry(handed[p].pair)'
      <3>1. Known(q)' /\ issued'[q.chain][q.gen] = issued[q.chain][q.gen]
        BY <2>1, IssuedKept
      <3>2. QED
        BY <2>1, <3>1 DEF Known, Expiry
    <2>2. CASE pc[p] = "done" /\ handed'[p] = handed[p]
      <3>1. handed[p].at \in Nat /\ Known(handed[p].pair) /\ handed[p].at < Expiry(handed[p].pair)
        BY <1>6, <2>2 DEF FreshInv
      <3>2. QED
        BY <2>1, <2>2, <3>1
    <2>3. CASE Read(p)
      <3>1. row.exp - clock >= Skew /\ Hand(p, row.pair, FALSE)
        <4>1. ~(row.exp - clock < Skew)
          <5>1. row.exp - clock < Skew => GoTo(p, "refresh")
            BY <2>3 DEF Read
          <5>2. ~GoTo(p, "refresh")
            BY <1>6, <2>0 DEF GoTo, TypeOK
          <5>3. QED
            BY <5>1, <5>2
        <4>2. Hand(p, row.pair, FALSE)
          BY <2>3, <4>1 DEF Read
        <4>3. row.exp - clock >= Skew
          BY <1>1, <4>1, Numbers
        <4>4. QED
          BY <4>2, <4>3
      <3>2. handed'[p].pair = row.pair /\ handed'[p].at = clock
        BY <3>1, HandedApi
      <3>3. row.exp <= Expiry(row.pair) + MaxFlight /\ Expiry(row.pair) \in Nat
        BY <1>1, IssuedKept DEF FreshInv
      <3>4. clock < Expiry(row.pair)
        BY <1>1, <3>1, <3>3, Numbers, CredentialAssumption
      <3>5. QED
        BY <1>1, <2>1, <3>2, <3>4
    <2>4. CASE Persist(p)
      <3>1. Hand(p, fresh[p], FALSE) /\ pc[p] = "persist"
        BY <2>4 DEF Persist, At
      <3>2. handed'[p].pair = fresh[p] /\ handed'[p].at = clock
        BY <3>1, HandedApi
      <3>3. clock < Expiry(fresh[p])
        BY <1>1, <1>3, <3>1, Numbers, CredentialAssumption
      <3>4. QED
        BY <1>1, <2>0, <2>1, <3>2, <3>3
    <2>5. ~Rotated(p)
      <3>1. SUFFICES ASSUME Rotated(p) PROVE FALSE
        OBVIOUS
      <3>2. Hand(p, got[p].pair, TRUE)
        BY <1>6, <2>0, <3>1 DEF Rotated, GoTo, TypeOK
      <3>3. QED
        BY <1>6, <3>2, HandedApi
    <2>6. ~NotRotated(p)
      <3>1. SUFFICES ASSUME NotRotated(p) PROVE FALSE
        OBVIOUS
      <3>2. Hand(p, got[p].pair, TRUE)
        BY <3>1 DEF NotRotated
      <3>3. QED
        BY <1>6, <3>2, HandedApi
    <2>7. QED
      BY <1>6, <2>2, <2>3, <2>4, <2>5, <2>6, ApiSteps
  <1>7. QED
    BY <1>4, <1>5, <1>6 DEF FreshInv

\* A request goes out with a token that has not expired, unless GitHub was asked for
\* another and none arrived.
THEOREM HandedStaysAlive == Spec => []HandedIsAlive
  <1> DEFINE Inv == TypeOK /\ Timely /\ FreshInv /\ MintInv
  <1>1. Init => Inv
    BY InitTypeOK, InitRecent, InitFresh
  <1>2. Inv /\ [Next]_vars => Inv'
    BY NextTypeOK, NextTimely, NextFresh, NextMint
  <1>3. Inv => HandedIsAlive
    BY DEF FreshInv, MintInv, HandedIsAlive
  <1>4. QED
    BY <1>1, <1>2, <1>3, PTL DEF Spec

=============================================================================
