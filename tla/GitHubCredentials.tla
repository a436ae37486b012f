-------------------------- MODULE GitHubCredentials --------------------------
(***************************************************************************)
(* The GitHub credentials that requests are forwarded with.                *)
(*                                                                         *)
(*  - A user's access token, stored with its refresh token in one row of   *)
(*    the database.  The proxy's API handler refreshes it shortly before   *)
(*    it expires (internal/proxy/proxy.go); the resolver that serves git   *)
(*    and web requests keeps it in a cache and never refreshes it          *)
(*    (internal/proxy/resolver.go); a login replaces it (internal/auth).   *)
(*  - An installation token of the GitHub App, minted when needed and      *)
(*    cached for less than its life (internal/github/app.go).              *)
(*                                                                         *)
(* GitHub accepts a refresh token once: with it, it replaces the access    *)
(* token too.  An authorization (one per login) thus has generations of    *)
(* pairs, of which the last one is alive.                                  *)
(***************************************************************************)
EXTENDS Integers, Sequences

CONSTANTS
  Api, Git, Agent,     \* goroutines serving requests, by where the credential comes from
  Browser,             \* goroutines serving OAuth callbacks
  Together,            \* which of them exist in a behaviour: a set of sets, so that what
                       \* shares no state need not be interleaved
  Life,                \* of an access token
  Skew,                \* tokenRefreshSkew
  CacheTTL,            \* credentialCacheTTL
  InstallLife,         \* of an installation token
  InstallTTL,          \* installationTokenTTL
  MaxFlight,           \* bound: time from GitHub's answer until it is stored
  MaxClock,            \* bound: time
  MaxLogins,           \* bound: authorizations
  MaxRefreshes         \* bound: pairs of one authorization

\* "we evict cached entries 5 minutes early" (app.go), and a roundtrip takes less
\* than the skew of five minutes, and less than a token lives.
ASSUME CredentialAssumption ==
  /\ \A n \in {Life, Skew, CacheTTL, InstallLife, InstallTTL, MaxFlight, MaxClock, MaxLogins, MaxRefreshes} : n \in Nat
  /\ MaxFlight < Skew /\ MaxFlight < Life
  /\ InstallTTL > 0 /\ InstallTTL + MaxFlight <= InstallLife
  /\ MaxLogins > 0 /\ MaxRefreshes > 0

\* A goroutine serves one kind of request.
ASSUME RoleAssumption ==
  /\ Api \cap (Git \cup Agent \cup Browser) = {} /\ Git \cap (Agent \cup Browser) = {}
  /\ Agent \cap Browser = {}

Process == Api \cup Git \cup Agent \cup Browser

VARIABLES
  clock,
  issued,      \* of GitHub: per authorization, when each of its pairs was issued
  lost,        \* of GitHub: authorizations whose last pair never reached the database
  row,         \* github_tokens of the user: [pair, exp]
  credCache,   \* of the resolver: [pair, at]
  tokenCache,  \* of the app: [minted, at]
  pc,
  got,         \* of a process: the row it read, or the cached pair
  fresh,       \* the pair GitHub gave it
  asked,       \* when GitHub, or the database, answered it
  handed,      \* [pair or minted, at, failed]: what its request goes out with, and
               \* whether GitHub did not refresh it
  inRow        \* history: when a pair was last in the row

vars == <<clock, issued, lost, row, credCache, tokenCache, pc, got, fresh, asked, handed, inRow>>

Chain == 1..MaxLogins
Pair == [chain : Chain, gen : 1..MaxRefreshes]
First == [chain |-> 1, gen |-> 1]
Nothing == [at |-> -1]

Logins == {c \in Chain : issued[c] # <<>>}
Superseded(p) == p.gen < Len(issued[p.chain])
Expiry(p) == issued[p.chain][p.gen] + Life

\* A pair that GitHub has handed out.
Known(q) == q \in Pair /\ q.gen <= Len(issued[q.chain])

Place == {"off", "idle", "read", "refresh", "persist", "store", "mint", "keep", "done"}
Handed == {Nothing} \cup [pair : Pair, at : Nat, failed : BOOLEAN] \cup [minted : Nat, at : Nat]

TypeOK ==
  /\ clock \in 0..MaxClock
  /\ issued \in [Chain -> Seq(Nat)]
  /\ \A c \in Chain : Len(issued[c]) <= MaxRefreshes
  /\ lost \subseteq Chain
  /\ row \in [pair : Pair, exp : Nat] /\ Known(row.pair)
  /\ credCache \in [pair : Pair, at : Nat] \cup {Nothing}
  /\ tokenCache \in [minted : Nat, at : Nat] \cup {Nothing}
  /\ pc \in [Process -> Place]
  /\ got \in [Process -> [pair : Pair, exp : Nat]]
  /\ fresh \in [Process -> Pair]
  /\ Known(First) /\ \A p \in Process : Known(got[p].pair) /\ Known(fresh[p])
  /\ asked \in [Process -> Nat]
  /\ handed \in [Process -> Handed]
  /\ DOMAIN inRow \subseteq Pair /\ \A q \in DOMAIN inRow : inRow[q] \in Nat

Init ==
  /\ clock = 0
  /\ issued = [c \in Chain |-> IF c = 1 THEN <<0>> ELSE <<>>]
  /\ lost = {}
  /\ row = [pair |-> First, exp |-> Life]
  /\ credCache = Nothing
  /\ tokenCache = Nothing
  /\ \E S \in Together : pc = [p \in Process |-> IF p \in S THEN "idle" ELSE "off"]
  /\ got = [p \in Process |-> [pair |-> First, exp |-> 0]]
  /\ fresh = [p \in Process |-> First]
  /\ asked = [p \in Process |-> 0]
  /\ handed = [p \in Process |-> Nothing]
  /\ inRow = [q \in {First} |-> 0]

At(p, here) == pc[p] = here
GoTo(p, there) == pc' = [pc EXCEPT ![p] = there]

Tick ==
  /\ clock < MaxClock
  /\ \A p \in Process : pc[p] \in {"refresh", "persist", "store", "keep"} => clock < asked[p] + MaxFlight
  /\ clock' = clock + 1
  /\ inRow' = [q \in DOMAIN inRow |-> IF q = row.pair THEN clock' ELSE inRow[q]]
  /\ UNCHANGED <<issued, lost, row, credCache, tokenCache, pc, got, fresh, asked, handed>>

\* The request goes out with this credential.
Hand(p, pair, failed) ==
  /\ handed' = [handed EXCEPT ![p] = [pair |-> pair, at |-> clock, failed |-> failed]]
  /\ GoTo(p, "done")

-----------------------------------------------------------------------------
(* getProxyGitHubToken.                                                    *)

\* Mutant of Read: a token is good until it expires.
ReadNoSkew(p) ==
  /\ p \in Api /\ At(p, "idle")
  /\ got' = [got EXCEPT ![p] = row]
  /\ asked' = [asked EXCEPT ![p] = clock]
  /\ IF row.exp - clock <= 0 THEN GoTo(p, "refresh") /\ UNCHANGED handed
     ELSE Hand(p, row.pair, FALSE)
  /\ UNCHANGED <<clock, issued, lost, row, credCache, tokenCache, fresh, inRow>>

Read(p) ==
  /\ p \in Api /\ At(p, "idle")
  /\ got' = [got EXCEPT ![p] = row]
  /\ asked' = [asked EXCEPT ![p] = clock]
  /\ IF row.exp - clock < Skew THEN GoTo(p, "refresh") /\ UNCHANGED handed
     ELSE Hand(p, row.pair, FALSE)
  /\ UNCHANGED <<clock, issued, lost, row, credCache, tokenCache, fresh, inRow>>

\* GitHub replaces the pair, and its answer arrives or does not.
Rotated(p) ==
  LET c == got[p].pair.chain IN
  /\ p \in Api /\ At(p, "refresh")
  /\ ~Superseded(got[p].pair)
  /\ Len(issued[c]) < MaxRefreshes
  /\ issued' = [issued EXCEPT ![c] = Append(@, clock)]
  /\ \/ /\ fresh' = [fresh EXCEPT ![p] = [chain |-> c, gen |-> got[p].pair.gen + 1]]
        /\ asked' = [asked EXCEPT ![p] = clock]
        /\ GoTo(p, "persist")
        /\ UNCHANGED <<lost, handed>>
     \/ /\ lost' = lost \cup {c}
        /\ Hand(p, got[p].pair, TRUE)
        /\ UNCHANGED <<fresh, asked>>
  /\ UNCHANGED <<clock, row, credCache, tokenCache, got, inRow>>

\* GitHub refuses, or was never reached: the token that was read has to do.
NotRotated(p) ==
  /\ p \in Api /\ At(p, "refresh")
  /\ Hand(p, got[p].pair, TRUE)
  /\ UNCHANGED <<clock, issued, lost, row, credCache, tokenCache, got, fresh, asked, inRow>>

Write(pair) ==
  /\ row' = [pair |-> pair, exp |-> clock + Life]
  /\ inRow' = [q \in DOMAIN inRow \cup {pair, row.pair} |->
                 IF q \in {pair, row.pair} THEN clock ELSE inRow[q]]

\* Mutant of Persist: only the access token is replaced, and the row goes on to
\* hold the refresh token that has been used.
PersistOld(p) ==
  /\ p \in Api /\ At(p, "persist")
  /\ \/ Write(got[p].pair) /\ Hand(p, fresh[p], FALSE) /\ UNCHANGED lost
     \/ /\ lost' = lost \cup {fresh[p].chain}
        /\ Hand(p, fresh[p], FALSE)
        /\ UNCHANGED <<row, inRow>>
  /\ UNCHANGED <<clock, issued, credCache, tokenCache, got, fresh, asked>>

\* UpsertGitHubToken, with the context of the request: it fails when the client is
\* gone as well as when the database is.  The record that was read holds the new
\* pair by then, so the request goes out with it all the same.
Persist(p) ==
  /\ p \in Api /\ At(p, "persist")
  /\ \/ Write(fresh[p]) /\ Hand(p, fresh[p], FALSE) /\ UNCHANGED lost
     \/ /\ lost' = lost \cup {fresh[p].chain}
        /\ Hand(p, fresh[p], FALSE)
        /\ UNCHANGED <<row, inRow>>
  /\ UNCHANGED <<clock, issued, credCache, tokenCache, got, fresh, asked>>

-----------------------------------------------------------------------------
(* handleGitHubCallback, as far as the credential goes.                    *)

Exchange(p) ==
  /\ p \in Browser /\ At(p, "idle")
  /\ \E c \in Chain \ Logins :
       /\ \A d \in Chain \ Logins : c <= d
       /\ issued' = [issued EXCEPT ![c] = <<clock>>]
       /\ fresh' = [fresh EXCEPT ![p] = [chain |-> c, gen |-> 1]]
  /\ asked' = [asked EXCEPT ![p] = clock]
  /\ GoTo(p, "persist")
  /\ UNCHANGED <<clock, lost, row, credCache, tokenCache, got, handed, inRow>>

\* The upsert may fail; the user then tries again.
Login(p) ==
  /\ p \in Browser /\ At(p, "persist")
  /\ Write(fresh[p]) \/ UNCHANGED <<row, inRow>>
  /\ GoTo(p, "idle")
  /\ UNCHANGED <<clock, issued, lost, credCache, tokenCache, got, fresh, asked, handed>>

-----------------------------------------------------------------------------
(* resolveProxyToken.                                                      *)

\* Mutant of Lookup: an entry lives from its last use.
LookupTouches(p) ==
  /\ p \in Git /\ At(p, "idle")
  /\ IF credCache # Nothing /\ clock - credCache.at < CacheTTL
     THEN Hand(p, credCache.pair, FALSE) /\ credCache' = [credCache EXCEPT !.at = clock]
     ELSE GoTo(p, "read") /\ credCache' = Nothing /\ UNCHANGED handed
  /\ UNCHANGED <<clock, issued, lost, row, tokenCache, got, fresh, asked, inRow>>

Lookup(p) ==
  /\ p \in Git /\ At(p, "idle")
  /\ IF credCache # Nothing /\ clock - credCache.at < CacheTTL
     THEN Hand(p, credCache.pair, FALSE) /\ UNCHANGED credCache
     ELSE GoTo(p, "read") /\ credCache' = Nothing /\ UNCHANGED handed
  /\ UNCHANGED <<clock, issued, lost, row, tokenCache, got, fresh, asked, inRow>>

ReadRow(p) ==
  /\ p \in Git /\ At(p, "read")
  /\ got' = [got EXCEPT ![p] = row]
  /\ asked' = [asked EXCEPT ![p] = clock]
  /\ GoTo(p, "store")
  /\ UNCHANGED <<clock, issued, lost, row, credCache, tokenCache, fresh, handed, inRow>>

Store(p) ==
  /\ p \in Git /\ At(p, "store")
  /\ credCache' = [pair |-> got[p].pair, at |-> clock]
  /\ Hand(p, got[p].pair, FALSE)
  /\ UNCHANGED <<clock, issued, lost, row, tokenCache, got, fresh, asked, inRow>>

-----------------------------------------------------------------------------
(* GetInstallationToken, for one installation, selection and permissions.  *)

HandMinted(p, minted) ==
  /\ handed' = [handed EXCEPT ![p] = [minted |-> minted, at |-> clock]]
  /\ GoTo(p, "done")

Cached(p) ==
  /\ p \in Agent /\ At(p, "idle")
  /\ IF tokenCache # Nothing /\ clock < tokenCache.at + InstallTTL
     THEN HandMinted(p, tokenCache.minted)
     ELSE GoTo(p, "mint") /\ UNCHANGED handed
  /\ UNCHANGED <<clock, issued, lost, row, credCache, tokenCache, got, fresh, asked, inRow>>

\* Concurrent misses each mint a token; a failure ends the request.
Mint(p) ==
  /\ p \in Agent /\ At(p, "mint")
  /\ asked' = [asked EXCEPT ![p] = clock]
  /\ GoTo(p, "keep") \/ GoTo(p, "idle")
  /\ UNCHANGED <<clock, issued, lost, row, credCache, tokenCache, got, fresh, handed, inRow>>

Keep(p) ==
  /\ p \in Agent /\ At(p, "keep")
  /\ tokenCache' = [minted |-> asked[p], at |-> clock]
  /\ HandMinted(p, asked[p])
  /\ UNCHANGED <<clock, issued, lost, row, credCache, got, fresh, asked, inRow>>

Finish(p) ==
  /\ At(p, "done")
  /\ GoTo(p, "idle")
  /\ handed' = [handed EXCEPT ![p] = Nothing]
  /\ got' = [got EXCEPT ![p] = [pair |-> First, exp |-> 0]]
  /\ fresh' = [fresh EXCEPT ![p] = First]
  /\ asked' = [asked EXCEPT ![p] = 0]
  /\ UNCHANGED <<clock, issued, lost, row, credCache, tokenCache, inRow>>

Next ==
  \/ Tick
  \/ \E p \in Process :
       \/ Read(p) \/ Rotated(p) \/ NotRotated(p) \/ Persist(p) \/ Exchange(p) \/ Login(p)
       \/ Lookup(p) \/ ReadRow(p) \/ Store(p) \/ Cached(p) \/ Mint(p) \/ Keep(p) \/ Finish(p)

Spec == Init /\ [][Next]_vars

-----------------------------------------------------------------------------
(* Properties.                                                             *)

\* However refreshes and logins overlap, the row never keeps a pair that GitHub
\* has replaced: unless the successor got lost on its way, somebody is about to
\* write it.
RowIsAlive ==
  Superseded(row.pair) =>
    \/ row.pair.chain \in lost
    \/ \E p \in Api : pc[p] = "persist" /\ fresh[p].chain = row.pair.chain

\* A request goes out with a GitHub token that has not expired: with the user's,
\* unless GitHub was asked for another and none arrived, and for an agent with an
\* installation token out of the cache.
HandedIsAlive ==
  /\ \A p \in Api : pc[p] = "done" /\ ~handed[p].failed => handed[p].at < Expiry(handed[p].pair)
  /\ \A p \in Agent : pc[p] = "done" => handed[p].at < handed[p].minted + InstallLife

\* What the resolver hands out was in the row not longer ago than its cache may
\* keep it, whatever was refreshed in between.
ResolvedIsRecent ==
  \A p \in Git : pc[p] = "done" => inRow[handed[p].pair] >= handed[p].at - CacheTTL - MaxFlight

=============================================================================
