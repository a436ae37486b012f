---------------------------- MODULE TokenService ----------------------------
(***************************************************************************)
(* token.Service (internal/token/token.go) on several ghp instances that   *)
(* share one SQL store.  Each instance has two lock-free maps: tokenCache  *)
(* (hash -> copy of the row and the time it was cached) and idToHash (the  *)
(* index Revoke and InvalidateByID use to find the entry).  Resolve, the   *)
(* two API handlers that invalidate, and the start-up warming are split    *)
(* where another goroutine or another instance can run in between.         *)
(***************************************************************************)
EXTENDS TokenStore

CONSTANTS
  Instance,     \* ghp processes
  Resolver,     \* goroutines serving proxied requests
  Caller,       \* goroutines serving PATCH or DELETE /api/tokens/{id}
  TTL,          \* tokenCacheTTL, in clock units
  MaxFlight,    \* bound: clock units between the arrival of a request (or the
                \* listing of a warm-up) and its last write to the cache; the
                \* code sets none, so the guarantees are stated in terms of it
  None          \* an absent token, instance or cache entry

ASSUME TTLAssumption       == TTL \in Nat \ {0}
ASSUME MaxFlightAssumption == MaxFlight \in Nat
ASSUME NoneAssumption      == None \notin Token /\ None \notin Instance

VARIABLES
  cache,     \* tokenCache of each instance
  index,     \* idToHash of each instance: the ids it can find
  resolve,   \* progress of each Resolve call
  call,      \* progress of each invalidating API call
  boot,      \* instance life cycle: down, warming its cache, up
  settled,   \* history: tokens whose Revoke call has returned on an instance
  raced      \* history: tokens revoked on an instance while one of its Resolve
             \* calls held a copy it had read before

vars == <<storeVars, cache, index, resolve, call, boot, settled, raced>>

\* cachedToken; readAt is history (when the copy was read from the store).
Entry == [rec : Record, cachedAt : Nat, readAt : Nat]

\* Resolve calls: waiting for an answer, or answered.
InFlight == {"lookup", "evict", "read", "store", "index"}
Answered == {"granted", "refused", "failed"}

NotResolving == [pc |-> "idle", on |-> None, tok |-> None, start |-> 0,
                 copy |-> Blank, readAt |-> 0]

Resolving == [pc : InFlight \cup Answered, on : Instance, tok : Token,
              start : Nat, copy : Record, readAt : Nat]

NotCalling == [pc |-> "idle", op |-> "revoke", on |-> None, tok |-> None]

Calling == [pc : {"write", "find", "evict"}, op : {"revoke", "update"},
            on : Instance, tok : Token]

Booting == [st : {"down", "warming", "up"}, todo : SUBSET Token,
            copies : [Token -> Record], readAt : Nat]

Boot(st, todo, copies, readAt) ==
  [st |-> st, todo |-> todo, copies |-> copies, readAt |-> readAt]

NoCopies == [t \in Token |-> Blank]

Cached(i, t) == cache[i][t] # None

TypeOK ==
  /\ StoreTypeOK
  /\ cache \in [Instance -> [Token -> Entry \cup {None}]]
  /\ index \in [Instance -> SUBSET Token]
  /\ resolve \in [Resolver -> Resolving \cup {NotResolving}]
  /\ call \in [Caller -> Calling \cup {NotCalling}]
  /\ boot \in [Instance -> Booting]
  /\ settled \in [Instance -> SUBSET Token]
  /\ raced \in [Instance -> SUBSET Token]

Init ==
  /\ StoreInit
  /\ cache = [i \in Instance |-> [t \in Token |-> None]]
  /\ index = [i \in Instance |-> {}]
  /\ resolve = [r \in Resolver |-> NotResolving]
  /\ call = [c \in Caller |-> NotCalling]
  /\ boot = [i \in Instance |-> Boot("down", {}, NoCopies, 0)]
  /\ settled = [i \in Instance |-> {}]
  /\ raced = [i \in Instance |-> {}]

historyVars == <<settled, raced>>

-----------------------------------------------------------------------------
(* Time, and the operations on the table that touch no cache.              *)

\* MaxFlight is assumed by not letting time pass for a fill that is due.
MayTick ==
  /\ \A r \in Resolver : resolve[r].pc \in InFlight => clock < resolve[r].start + MaxFlight
  /\ \A i \in Instance : boot[i].st = "warming" => clock < boot[i].readAt + MaxFlight

Time ==
  /\ MayTick
  /\ Tick
  /\ UNCHANGED <<cache, index, resolve, call, boot, historyVars>>

Create(t) ==
  /\ \E i \in Instance : boot[i].st = "up"
  /\ \E exp \in ExpiryChoices : CreateProxyToken(t, exp)
  /\ UNCHANGED <<cache, index, resolve, call, boot, historyVars>>

Cleanup ==
  /\ \E i \in Instance : boot[i].st = "up"
  /\ DeleteExpiredProxyTokens
  /\ UNCHANGED <<cache, index, resolve, call, boot, historyVars>>

-----------------------------------------------------------------------------
(* Resolve.                                                                *)

\* now := s.nowFunc()
ResolveStart(r, i, t) ==
  /\ resolve[r].pc = "idle"
  /\ boot[i].st = "up"
  /\ resolve' = [resolve EXCEPT ![r] =
                   [pc |-> "lookup", on |-> i, tok |-> t, start |-> clock,
                    copy |-> Blank, readAt |-> 0]]
  /\ UNCHANGED <<storeVars, cache, index, call, boot, historyVars>>

\* Mutant of Fresh: `>=` in the age test became `>`.
FreshAtTTL(e, time) == time - e.cachedAt <= TTL

Fresh(e, time) == time - e.cachedAt < TTL

\* Mutant of Rejected: the test of the expiry is lost.
RejectedIfRevoked(c, time) == Revoked(c)

Rejected(c, time) == Revoked(c) \/ Expired(c, time)

\* tokenCache.Load, and what follows from it without touching anything shared.
ResolveLookup(r) ==
  LET e == cache[resolve[r].on][resolve[r].tok]
  IN  /\ resolve[r].pc = "lookup"
      /\ \/ /\ e = None
            /\ resolve' = [resolve EXCEPT ![r].pc = "read"]
         \/ /\ e # None
            /\ ~Fresh(e, resolve[r].start)
            /\ resolve' = [resolve EXCEPT ![r].pc = "evict"]
         \/ /\ e # None
            /\ Fresh(e, resolve[r].start)
            /\ Rejected(e.rec, resolve[r].start)
            /\ resolve' = [resolve EXCEPT ![r].pc = "refused"]
         \/ /\ e # None
            /\ Fresh(e, resolve[r].start)
            /\ ~Rejected(e.rec, resolve[r].start)
            /\ resolve' = [resolve EXCEPT ![r].pc = "granted", ![r].copy = e.rec,
                                          ![r].readAt = e.readAt]
      /\ UNCHANGED <<storeVars, cache, index, call, boot, historyVars>>

\* tokenCache.Delete(hash): whatever entry is there by now; the index stays.
ResolveEvict(r) ==
  /\ resolve[r].pc = "evict"
  /\ cache' = [cache EXCEPT ![resolve[r].on][resolve[r].tok] = None]
  /\ resolve' = [resolve EXCEPT ![r].pc = "read"]
  /\ UNCHANGED <<storeVars, index, call, boot, historyVars>>

\* GetProxyTokenByHash and the checks on the row it returns.
ResolveRead(r) ==
  LET t == resolve[r].tok
      unusable == t \notin stored \/ Rejected(rec[t], resolve[r].start)
  IN  /\ resolve[r].pc = "read"
      /\ \/ resolve' = [resolve EXCEPT ![r].pc = "failed"]
         \/ /\ unusable
            /\ resolve' = [resolve EXCEPT ![r].pc = "refused"]
         \/ /\ ~unusable
            /\ resolve' = [resolve EXCEPT ![r].pc = "store", ![r].copy = rec[t],
                                          ![r].readAt = clock]
      /\ UNCHANGED <<storeVars, cache, index, call, boot, historyVars>>

\* cacheToken, first half: the entry is stamped when it is stored.
ResolveStore(r) ==
  /\ resolve[r].pc = "store"
  /\ cache' = [cache EXCEPT ![resolve[r].on][resolve[r].tok] =
                 [rec |-> resolve[r].copy, cachedAt |-> clock, readAt |-> resolve[r].readAt]]
  /\ resolve' = [resolve EXCEPT ![r].pc = "index"]
  /\ UNCHANGED <<storeVars, index, call, boot, historyVars>>

\* Mutant of ResolveIndex: the entry is not added to idToHash.
ResolveIndexLost(r) ==
  /\ resolve[r].pc = "index"
  /\ resolve' = [resolve EXCEPT ![r].pc = "granted"]
  /\ UNCHANGED <<storeVars, cache, index, call, boot, historyVars>>

\* cacheToken, second half; then Resolve returns the row.
ResolveIndex(r) ==
  /\ resolve[r].pc = "index"
  /\ index' = [index EXCEPT ![resolve[r].on] = @ \cup {resolve[r].tok}]
  /\ resolve' = [resolve EXCEPT ![r].pc = "granted"]
  /\ UNCHANGED <<storeVars, cache, call, boot, historyVars>>

ResolveDone(r) ==
  /\ resolve[r].pc \in Answered
  /\ resolve' = [resolve EXCEPT ![r] = NotResolving]
  /\ UNCHANGED <<storeVars, cache, index, call, boot, historyVars>>

-----------------------------------------------------------------------------
(* handleRevokeToken with Revoke, handleUpdateTokenScopes with             *)
(* InvalidateByID.                                                         *)

\* GetProxyTokenByID: 404 without a row, 409 for an update of a revoked token.
CallStart(c, i, t, op) ==
  /\ call[c].pc = "idle"
  /\ boot[i].st = "up"
  /\ t \in stored
  /\ op = "update" => ~Revoked(rec[t])
  /\ call' = [call EXCEPT ![c] = [pc |-> "write", op |-> op, on |-> i, tok |-> t]]
  /\ UNCHANGED <<storeVars, cache, index, resolve, boot, historyVars>>

\* A Resolve on i that has read t and not finished caching it.
HoldsCopy(r, i, t) ==
  /\ resolve[r].on = i
  /\ resolve[r].tok = t
  /\ resolve[r].pc \in {"store", "index"}

\* RevokeProxyToken commits.
CallRevoke(c) ==
  LET i == call[c].on
      t == call[c].tok
  IN  /\ call[c].pc = "write"
      /\ call[c].op = "revoke"
      /\ RevokeProxyToken(t)
      /\ call' = [call EXCEPT ![c].pc = "find"]
      /\ raced' = IF \E r \in Resolver : HoldsCopy(r, i, t)
                  THEN [raced EXCEPT ![i] = @ \cup {t}] ELSE raced
      /\ UNCHANGED <<cache, index, resolve, boot, settled>>

\* UpdateProxyTokenScopes commits.
CallUpdate(c) ==
  /\ call[c].pc = "write"
  /\ call[c].op = "update"
  /\ UpdateProxyTokenScopes(call[c].tok)
  /\ call' = [call EXCEPT ![c].pc = "find"]
  /\ UNCHANGED <<cache, index, resolve, boot, historyVars>>

\* The store refuses (no such row, already revoked) or fails: the handler
\* returns the error and the cache is left alone.
CallError(c) ==
  /\ call[c].pc = "write"
  /\ call' = [call EXCEPT ![c] = NotCalling]
  /\ UNCHANGED <<storeVars, cache, index, resolve, boot, historyVars>>

\* A Revoke that returns to its handler.
Settle(c) ==
  settled' = IF call[c].op = "revoke"
             THEN [settled EXCEPT ![call[c].on] = @ \cup {call[c].tok}] ELSE settled

\* idToHash.LoadAndDelete(id).
CallFind(c) ==
  LET i == call[c].on
      t == call[c].tok
  IN  /\ call[c].pc = "find"
      /\ index' = [index EXCEPT ![i] = @ \ {t}]
      /\ \/ /\ t \in index[i]
            /\ call' = [call EXCEPT ![c].pc = "evict"]
            /\ UNCHANGED settled
         \/ /\ t \notin index[i]
            /\ call' = [call EXCEPT ![c] = NotCalling]
            /\ Settle(c)
      /\ UNCHANGED <<storeVars, cache, resolve, boot, raced>>

\* Mutant of CallEvict: the index is cleared and the entry kept.
CallEvictNothing(c) ==
  /\ call[c].pc = "evict"
  /\ call' = [call EXCEPT ![c] = NotCalling]
  /\ Settle(c)
  /\ UNCHANGED <<storeVars, cache, index, resolve, boot, raced>>

\* tokenCache.Delete(hash).
CallEvict(c) ==
  /\ call[c].pc = "evict"
  /\ cache' = [cache EXCEPT ![call[c].on][call[c].tok] = None]
  /\ call' = [call EXCEPT ![c] = NotCalling]
  /\ Settle(c)
  /\ UNCHANGED <<storeVars, index, resolve, boot, raced>>

-----------------------------------------------------------------------------
(* Start, WarmTokenCache and crash of an instance.                         *)

\* ListActiveProxyTokens; a failure leaves the cache cold.
BootList(i) ==
  /\ boot[i].st = "down"
  /\ \/ boot' = [boot EXCEPT ![i] = Boot("up", {}, NoCopies, 0)]
     \/ boot' = [boot EXCEPT ![i] = Boot("warming", Active,
                   [t \in Token |-> IF t \in Active THEN rec[t] ELSE Blank], clock)]
  /\ UNCHANGED <<storeVars, cache, index, resolve, call, historyVars>>

\* cacheToken for one listed row.  The instance serves nothing yet, so nobody
\* sees the two maps between the two stores.
BootCache(i, t) ==
  /\ boot[i].st = "warming"
  /\ t \in boot[i].todo
  /\ cache' = [cache EXCEPT ![i][t] = [rec |-> boot[i].copies[t], cachedAt |-> clock,
                                       readAt |-> boot[i].readAt]]
  /\ index' = [index EXCEPT ![i] = @ \cup {t}]
  /\ boot' = [boot EXCEPT ![i].todo = @ \ {t}, ![i].copies[t] = Blank]
  /\ UNCHANGED <<storeVars, resolve, call, historyVars>>

BootServe(i) ==
  /\ boot[i].st = "warming"
  /\ boot[i].todo = {}
  /\ boot' = [boot EXCEPT ![i] = Boot("up", {}, NoCopies, 0)]
  /\ UNCHANGED <<storeVars, cache, index, resolve, call, historyVars>>

\* The process dies with its maps and its goroutines.
Crash(i) ==
  /\ boot[i].st # "down"
  /\ boot' = [boot EXCEPT ![i] = Boot("down", {}, NoCopies, 0)]
  /\ cache' = [cache EXCEPT ![i] = [t \in Token |-> None]]
  /\ index' = [index EXCEPT ![i] = {}]
  /\ resolve' = [r \in Resolver |-> IF resolve[r].on = i THEN NotResolving ELSE resolve[r]]
  /\ call' = [c \in Caller |-> IF call[c].on = i THEN NotCalling ELSE call[c]]
  /\ raced' = [raced EXCEPT ![i] = {}]
  /\ UNCHANGED <<storeVars, settled>>

-----------------------------------------------------------------------------
ResolveStep(r) ==
  \/ \E i \in Instance, t \in Token : ResolveStart(r, i, t)
  \/ ResolveLookup(r)
  \/ ResolveEvict(r)
  \/ ResolveRead(r)
  \/ ResolveStore(r)
  \/ ResolveIndex(r)
  \/ ResolveDone(r)

CallStep(c) ==
  \/ \E i \in Instance, t \in Token, op \in {"revoke", "update"} : CallStart(c, i, t, op)
  \/ CallRevoke(c)
  \/ CallUpdate(c)
  \/ CallError(c)
  \/ CallFind(c)
  \/ CallEvict(c)

BootStep(i) ==
  \/ BootList(i)
  \/ \E t \in Token : BootCache(i, t)
  \/ BootServe(i)
  \/ Crash(i)

Next ==
  \/ Time
  \/ Cleanup
  \/ \E t \in Token : Create(t)
  \/ \E r \in Resolver : ResolveStep(r)
  \/ \E c \in Caller : CallStep(c)
  \/ \E i \in Instance : BootStep(i)

Spec == Init /\ [][Next]_vars

-----------------------------------------------------------------------------
(* Properties.                                                             *)

\* A Resolve on i that has cached t and is about to put it in the index.
Indexing(r, i, t) ==
  resolve[r].pc = "index" /\ resolve[r].on = i /\ resolve[r].tok = t

\* An invalidation on i that found t in the index and is about to delete the
\* entry.
Deleting(c, i, t) ==
  call[c].pc = "evict" /\ call[c].on = i /\ call[c].tok = t

\* Revoke finds an entry to delete only through idToHash.  Every cached entry
\* is in the index, or a Resolve is about to add it, or an invalidation that
\* took it out of the index is about to delete the entry.
Findable(i, t) ==
  \/ t \in index[i]
  \/ \E r \in Resolver : Indexing(r, i, t)
  \/ \E c \in Caller : Deleting(c, i, t)

IndexCoversCache ==
  \A i \in Instance, t \in Token : Cached(i, t) => Findable(i, t)

\* What Revoke's invalidation achieves: once it has returned, this instance
\* holds no entry of the token, unless a Resolve was caching it while it was
\* revoked, or an overlapping scope update is just about to delete the entry.
RevokedLeavesCache ==
  \A i \in Instance : \A t \in settled[i] \ raced[i] :
    Cached(i, t) => \E c \in Caller : Deleting(c, i, t)

\* Why: since its revocation committed, no fill on i carries t, or it is raced;
\* and once Revoke has looked in the index, the index no longer has it either.
Clear(i, t) ==
  /\ t \in issued
  /\ Revoked(rec[t])
  /\ t \notin raced[i] => /\ \A r \in Resolver : ~HoldsCopy(r, i, t)
                          /\ ~(boot[i].st = "warming" /\ t \in boot[i].todo)

Gone(i, t) == Clear(i, t) /\ (t \notin raced[i] => t \notin index[i])

RevokesProgress ==
  /\ \A i \in Instance : \A t \in settled[i] : Gone(i, t)
  /\ \A c \in Caller :
       /\ call[c].pc # "idle" => boot[call[c].on].st = "up"
       /\ call[c].op = "revoke" =>
            /\ call[c].pc = "find" => Clear(call[c].on, call[c].tok)
            /\ call[c].pc = "evict" => Gone(call[c].on, call[c].tok)

\* c is the row of t as the store had it at time `at`: nothing of it had been
\* revoked or replaced by then.
CopyOf(t, c, at) ==
  /\ t \in issued
  /\ at <= clock
  /\ c.exp = rec[t].exp
  /\ ~Revoked(c)
  /\ Revoked(rec[t]) => at <= rec[t].revokedAt
  /\ \/ c.ver = rec[t].ver
     \/ c.ver < rec[t].ver /\ at <= endedAt[t][c.ver]

\* Cached entries, copies that Resolve calls carry and copies that a warm-up
\* holds are rows the store had when they were read, and the time stamp that
\* the TTL counts from is no later than MaxFlight after that.
EntriesAreTrue ==
  \A i \in Instance, t \in Token : Cached(i, t) =>
    LET e == cache[i][t]
    IN  CopyOf(t, e.rec, e.readAt) /\ e.cachedAt <= e.readAt + MaxFlight

FillsAreTrue ==
  \A r \in Resolver :
    LET q == resolve[r]
    IN  /\ q.pc # "idle" => q.start <= clock
        /\ q.pc \in InFlight => clock <= q.start + MaxFlight
        /\ q.pc \in {"store", "index"} => /\ CopyOf(q.tok, q.copy, q.readAt)
                                         /\ q.start <= q.readAt
                                         /\ ~Expired(q.copy, q.start)

WarmUpsAreTrue ==
  \A i \in Instance : boot[i].st = "warming" =>
    /\ clock <= boot[i].readAt + MaxFlight
    /\ \A t \in boot[i].todo : CopyOf(t, boot[i].copies[t], boot[i].readAt)

CopiesAreTrue == EntriesAreTrue /\ FillsAreTrue /\ WarmUpsAreTrue

\* How old what a grant rests on can be: the TTL counts from the caching of the
\* entry and the entry was read up to MaxFlight before.
Staleness == TTL + MaxFlight

\* Resolve's answers, against the record of the token: a grant means that the
\* token had not expired and was not revoked, or its scopes replaced, more than
\* Staleness before the request arrived, on whichever instance; a refusal means
\* that the token can really not be used.
Asked(r) ==
  [st    |-> IF resolve[r].pc \in InFlight THEN "asked" ELSE resolve[r].pc,
   tok   |-> IF resolve[r].pc = "idle" THEN Nil ELSE resolve[r].tok,
   start |-> resolve[r].start,
   ver   |-> IF resolve[r].pc = "granted" THEN resolve[r].copy.ver ELSE 0]

Authority == INSTANCE TokenAuthority WITH ask <- [r \in Resolver |-> Asked(r)]

ImplementsAuthority == Authority!AuthoritySpec

\* The same bound as an invariant: whoever holds a grant was given a version of
\* the scopes of a token that had not expired when the request arrived, and
\* that was not revoked, nor that version replaced, Staleness or more before.
GrantsAreRecent ==
  \A r \in Resolver : resolve[r].pc = "granted" =>
    Authority!RecentlyUsable(resolve[r].tok, resolve[r].copy.ver, resolve[r].start)

=============================================================================
