--------------------------- MODULE TokenAuthority ---------------------------
(***************************************************************************)
(* What the token service promises to the proxy, with no cache in sight:   *)
(* a request that asks about a token is granted a version of its scopes    *)
(* only if the token had not been revoked, and the version had not been    *)
(* replaced, Staleness units before the request arrived; and it is refused *)
(* only if the token really cannot be used.                                *)
(***************************************************************************)
EXTENDS TokenStore

CONSTANTS
  Resolver,   \* concurrent proxied requests
  Staleness   \* how old the information behind a grant may be

VARIABLE ask  \* each request: its progress, token, arrival time and answer

authorityVars == <<clock, issued, stored, rec, endedAt, ask>>

NoAsk == [st |-> "idle", tok |-> Nil, start |-> 0, ver |-> 0]

AuthorityInit ==
  /\ StoreInit
  /\ ask = [r \in Resolver |-> NoAsk]

\* The token could be used, with version v of its scopes, at some instant no
\* more than Staleness before time.
RecentlyUsable(t, v, time) ==
  /\ t \in issued
  /\ ~Expired(rec[t], time)
  /\ Revoked(rec[t]) => time < rec[t].revokedAt + Staleness
  /\ \/ v = rec[t].ver
     \/ v < rec[t].ver /\ time < endedAt[t][v] + Staleness

Usable(t) == t \in stored /\ ~Revoked(rec[t]) /\ ~Expired(rec[t], clock)

Ask(r, t) ==
  /\ ask[r].st = "idle"
  /\ ask' = [ask EXCEPT ![r] = [st |-> "asked", tok |-> t, start |-> clock, ver |-> 0]]
  /\ UNCHANGED storeVars

Grant(r, v) ==
  /\ ask[r].st = "asked"
  /\ RecentlyUsable(ask[r].tok, v, ask[r].start)
  /\ ask' = [ask EXCEPT ![r].st = "granted", ![r].ver = v]
  /\ UNCHANGED storeVars

Refuse(r) ==
  /\ ask[r].st = "asked"
  /\ ~Usable(ask[r].tok)
  /\ ask' = [ask EXCEPT ![r].st = "refused"]
  /\ UNCHANGED storeVars

\* The store could not be read: neither granted nor refused.
Fail(r) ==
  /\ ask[r].st = "asked"
  /\ ask' = [ask EXCEPT ![r].st = "failed"]
  /\ UNCHANGED storeVars

\* Requests end: answered, or lost with the instance that served them.
Drop(S) ==
  /\ UNCHANGED storeVars
  /\ ask' = [r \in Resolver |-> IF r \in S THEN NoAsk ELSE ask[r]]

AuthorityNext ==
  \/ \E S \in SUBSET Resolver : Drop(S)
  \/ Tick /\ UNCHANGED ask
  \/ DeleteExpiredProxyTokens /\ UNCHANGED ask
  \/ \E t \in Token :
       /\ \/ \E exp \in ExpiryChoices : CreateProxyToken(t, exp)
          \/ RevokeProxyToken(t)
          \/ UpdateProxyTokenScopes(t)
       /\ UNCHANGED ask
  \/ \E r \in Resolver :
       \/ \E t \in Token : Ask(r, t)
       \/ \E v \in Version : Grant(r, v)
       \/ Refuse(r)
       \/ Fail(r)

AuthoritySpec == AuthorityInit /\ [][AuthorityNext]_authorityVars
=============================================================================
