----------------------------- MODULE TokenStore -----------------------------
(***************************************************************************)
(* The proxy_tokens table of a SQL store (internal/database/sqlite.go; the *)
(* PostgreSQL store has the same statements) and the clock its rows are    *)
(* stamped with.  Every operation is one SQL statement, hence one atomic   *)
(* step; a component that uses the table conjoins these formulas with what *)
(* it does to its own state.                                               *)
(*                                                                         *)
(* A token's id, its hash and its plaintext determine each other, so one   *)
(* name t \in Token stands for all three.  What a token allows             *)
(* (repositories and scopes) is a version number: each update installs the *)
(* next one.                                                               *)
(***************************************************************************)
EXTENDS Integers

CONSTANTS
  Token,          \* tokens that may be issued; random, so never issued twice
  MaxDuration,    \* Service.maxDuration, in clock units
  AllowNoExpiry,  \* Service.allowNoExpiry
  Retention,      \* tokens.expired_token_retention_period, in clock units
  MaxVersion,     \* bound: scope updates of one token
  MaxClock        \* bound: clock ticks

ASSUME MaxDurationAssumption   == MaxDuration \in Nat \ {0}
ASSUME AllowNoExpiryAssumption == AllowNoExpiry \in BOOLEAN
ASSUME RetentionAssumption     == Retention \in Nat \ {0}
ASSUME MaxVersionAssumption    == MaxVersion \in Nat
ASSUME MaxClockAssumption      == MaxClock \in Nat

VARIABLES
  clock,    \* time.Now()
  issued,   \* tokens that have been created
  stored,   \* tokens whose row is in the table
  rec,      \* each token's row; kept after the row is deleted, for properties
  endedAt   \* history: when each version of a token's scopes was replaced

storeVars == <<clock, issued, stored, rec, endedAt>>

Nil == -1   \* a nil *time.Time

Version == 0..MaxVersion

Record == [exp : Nat \cup {Nil}, revokedAt : Nat \cup {Nil}, ver : Version]

Blank == [exp |-> Nil, revokedAt |-> Nil, ver |-> 0]

\* The two rejections of Resolve, for a copy c of a row and a caller's time.
Revoked(c) == c.revokedAt # Nil
Expired(c, time) == c.exp # Nil /\ time > c.exp

StoreInit ==
  /\ clock = 0
  /\ issued = {}
  /\ stored = {}
  /\ rec = [t \in Token |-> Blank]
  /\ endedAt = [t \in Token |-> [v \in Version |-> Nil]]

StoreTypeOK ==
  /\ clock \in Nat
  /\ issued \subseteq Token
  /\ stored \subseteq issued
  /\ rec \in [Token -> Record]
  /\ endedAt \in [Token -> [Version -> Nat \cup {Nil}]]

\* Expiry times Create accepts: 0 < duration <= maxDuration, or none when the
\* configuration allows it.
ExpiryChoices ==
  {clock + d : d \in 1..MaxDuration} \cup (IF AllowNoExpiry THEN {Nil} ELSE {})

CreateProxyToken(t, exp) ==
  /\ t \notin issued
  /\ issued' = issued \cup {t}
  /\ stored' = stored \cup {t}
  /\ rec' = [rec EXCEPT ![t] = [exp |-> exp, revokedAt |-> Nil, ver |-> 0]]
  /\ UNCHANGED <<clock, endedAt>>

\* UPDATE ... SET revoked_at = now WHERE id = t AND revoked_at IS NULL, when it
\* finds a row; "not found or already revoked" otherwise, which changes nothing.
CanRevoke(t) == t \in stored /\ ~Revoked(rec[t])

RevokeProxyToken(t) ==
  /\ CanRevoke(t)
  /\ rec' = [rec EXCEPT ![t].revokedAt = clock]
  /\ UNCHANGED <<clock, issued, stored, endedAt>>

\* UPDATE ... SET repositories, scopes WHERE id = t: no look at revoked_at.
UpdateProxyTokenScopes(t) ==
  /\ t \in stored
  /\ rec[t].ver < MaxVersion
  /\ rec' = [rec EXCEPT ![t].ver = @ + 1]
  /\ endedAt' = [endedAt EXCEPT ![t][rec[t].ver] = clock]
  /\ UNCHANGED <<clock, issued, stored>>

\* Rows that a cleanup cycle deletes: revoked or expired before the cutoff.
Purgeable(t) ==
  /\ t \in stored
  /\ \/ Revoked(rec[t]) /\ rec[t].revokedAt < clock - Retention
     \/ rec[t].exp # Nil /\ rec[t].exp < clock - Retention

DeleteExpiredProxyTokens ==
  /\ \E t \in Token : Purgeable(t)
  /\ stored' = {t \in stored : ~Purgeable(t)}
  /\ UNCHANGED <<clock, issued, rec, endedAt>>

\* Rows ListActiveProxyTokens returns.
Active == {t \in stored : ~Revoked(rec[t])
                          /\ (rec[t].exp = Nil \/ rec[t].exp > clock)}

Tick ==
  /\ clock < MaxClock
  /\ clock' = clock + 1
  /\ UNCHANGED <<issued, stored, rec, endedAt>>
=============================================================================
