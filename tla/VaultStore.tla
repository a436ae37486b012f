----------------------------- MODULE VaultStore -----------------------------
(***************************************************************************)
(* The Vault backend of the Store (internal/database/vault.go).            *)
(*                                                                         *)
(* KV v2 offers single-key calls only: read, write, create (check-and-set  *)
(* against version 0), delete, list.  A Store method, and a handler around *)
(* it, is a program of such calls; other programs run between any two of   *)
(* them, and any call may fail and end the method there.  Each program     *)
(* below is the sequence of calls of one operation; Stops says after which *)
(* answers it returns early, and Value what it writes.                     *)
(*                                                                         *)
(* The six kinds of records share no key, so a behaviour has one of them.  *)
(***************************************************************************)
EXTENDS Integers, Sequences

CONSTANTS
  Caller,      \* goroutines of all instances that run Store methods
  Cleaner,     \* their cleanup loops
  Kind,        \* the kinds of records to consider
  Id(_),       \* bound: of each kind, the identifiers generated; all are different
  MaxFaults    \* bound: failing calls, counting those of a crash

ASSUME VaultAssumption ==
  /\ Kind \subseteq {"token", "state", "device", "user", "session", "repo"}
  /\ MaxFaults \in Nat

Process == Caller \cup Cleaner

VARIABLES
  kind,        \* what this behaviour is about
  kv,          \* Vault: a function from the keys that are there to their values
  old,         \* identifiers whose expiry (or retention) is over
  used,        \* identifiers that were generated
  run,         \* of a process: the operation, the call it makes next, the values it
               \* read (at first, and most recently, by key), or Idle
  done,        \* history: the operations that succeeded, of those in Recorded
  clobbered,   \* history: keys written by a process whose copy was not current
  faults

vaultVars == <<kind, kv, old, used, run, done, clobbered, faults>>

Absent == [missing |-> TRUE]
Idle == [op |-> "none"]
Peek(k) == IF k \in DOMAIN kv THEN kv[k] ELSE Absent
Op(name, id) == [name |-> name, id |-> id]
\* f, but v for k.
With(f, k, v) == [x \in DOMAIN f \cup {k} |-> IF x = k THEN v ELSE f[x]]

-----------------------------------------------------------------------------
(* The programs.                                                           *)

Read(k)   == [call |-> "read", key |-> k]
Glance(k) == [call |-> "glance", key |-> k]   \* a read whose failure is ignored
Put(k)    == [call |-> "put", key |-> k]
Create(k) == [call |-> "create", key |-> k]
Drop(k)   == [call |-> "drop", key |-> k]
Try(k)    == [call |-> "try", key |-> k]      \* a delete whose failure is ignored

CreateProxyToken(t) == <<Put(<<"token", t>>), Put(<<"by-hash", t>>), Put(<<"by-user", t>>)>>
RevokeProxyToken(t) == <<Read(<<"token", t>>), Put(<<"token", t>>)>>

\* handleUpdateTokenScopes reads the token to complete what the client sent, and
\* UpdateProxyTokenScopes reads it again.
UpdateProxyTokenScopes(t) == <<Read(<<"token", t>>), Read(<<"token", t>>), Put(<<"token", t>>)>>
\* The App of a token is no part of its record here, but its other fields are written.
UpdateProxyTokenAppID(t) == <<Read(<<"token", t>>), Put(<<"token", t>>)>>

\* Mutant of DeleteExpiredProxyToken: the record goes first.
DeleteRecordFirst(t) ==
  <<Read(<<"token", t>>), Drop(<<"token", t>>), Drop(<<"by-hash", t>>), Drop(<<"by-user", t>>)>>

\* DeleteExpiredProxyTokens, for one token of the list: "Remove index entries before
\* the main record".
DeleteExpiredProxyToken(t) ==
  <<Read(<<"token", t>>), Drop(<<"by-hash", t>>), Drop(<<"by-user", t>>), Drop(<<"token", t>>)>>

CreateOAuthState(s) == <<Create(<<"state", s>>)>>

\* Mutant of ConsumeOAuthState: the delete is left to the cleanup.
ConsumeOAuthStateOnly(s) == <<Read(<<"state", s>>)>>
ConsumeOAuthState(s) == <<Read(<<"state", s>>), Drop(<<"state", s>>)>>

\* The third call is made when the second is refused or fails.
CreateDeviceAuth(d) == <<Create(<<"device", d>>), Create(<<"code", d>>), Try(<<"device", d>>)>>
\* The handlers read the record, and UpdateDeviceAuth looks whether it exists.  A
\* poll too soon after the last one (slow_down) writes a decided record too.
PollUndecided(d) == <<Read(<<"device", d>>), Read(<<"device", d>>), Put(<<"device", d>>)>>
Decide(d) ==
  <<Read(<<"code", d>>), Read(<<"device", d>>), Read(<<"device", d>>), Put(<<"device", d>>)>>
\* The poll that finds an approval or a denial: DeleteDeviceAuth; then the answer.
PollDecided(d) ==
  <<Read(<<"device", d>>), Glance(<<"device", d>>), Try(<<"code", d>>), Try(<<"device", d>>)>>
\* DeleteExpiredDeviceAuths: one record, then one entry of the index.
DeleteExpiredDeviceAuth(d) == <<Read(<<"device", d>>), Try(<<"code", d>>), Drop(<<"device", d>>)>>

\* Mutant of PruneUserCode: the record is not looked for.
PruneUserCodeBlindly(d) == <<Read(<<"code", d>>), Try(<<"code", d>>)>>
PruneUserCode(d) == <<Read(<<"code", d>>), Read(<<"device", d>>), Try(<<"code", d>>)>>

\* UpsertUser by GitHub ID and UpsertGitHubToken by user: the index says under
\* which identifier the record is; without one, u is the new identifier.
Upsert(u) ==
  <<Read(<<"by-github-id">>), Read(<<"user", u>>), Put(<<"user", u>>), Put(<<"by-github-id">>)>>

CreateSession(s) == <<Create(<<"session", s>>)>>
GetSession(s) == <<Read(<<"session", s>>)>>
DeleteSession(s) == <<Drop(<<"session", s>>)>>
\* DeleteExpiredSessions, for one session of the list.
DeleteExpiredSession(s) == <<Read(<<"session", s>>), Drop(<<"session", s>>)>>

\* Cached repositories, all of one owner and name.  (The look-up by name with which
\* the handler begins stops it earlier and does nothing else.)
CreateCachedRepository(r) == <<Read(<<"by-name">>), Put(<<"repo", r>>), Put(<<"by-name">>)>>
\* handleUpdateCachedRepo reads the record, and UpdateCachedRepository reads it again;
\* no handler changes owner or name.
UpdateCachedRepository(r) == <<Read(<<"repo", r>>), Read(<<"repo", r>>), Put(<<"repo", r>>)>>
DeleteCachedRepository(r) == <<Read(<<"repo", r>>), Try(<<"by-name">>), Drop(<<"repo", r>>)>>

Program(o) ==
  CASE o.name = "create"  -> CreateProxyToken(o.id)
    [] o.name = "revoke"  -> RevokeProxyToken(o.id)
    [] o.name \in {"repos", "scopes"} -> UpdateProxyTokenScopes(o.id)
    [] o.name = "app"     -> UpdateProxyTokenAppID(o.id)
    [] o.name = "sweep"   -> DeleteExpiredProxyToken(o.id)
    [] o.name = "state"   -> CreateOAuthState(o.id)
    [] o.name = "consume" -> ConsumeOAuthState(o.id)
    [] o.name = "start"   -> CreateDeviceAuth(o.id)
    [] o.name = "poll"    -> PollUndecided(o.id)
    [] o.name = "decide" -> Decide(o.id)
    [] o.name = "redeem"  -> PollDecided(o.id)
    [] o.name = "purge"   -> DeleteExpiredDeviceAuth(o.id)
    [] o.name = "prune"   -> PruneUserCode(o.id)
    [] o.name = "login"   -> Upsert(o.id)
    [] o.name = "session" -> CreateSession(o.id)
    [] o.name = "use"     -> GetSession(o.id)
    [] o.name = "logout"  -> DeleteSession(o.id)
    [] o.name = "expire"  -> DeleteExpiredSession(o.id)
    [] o.name = "add"     -> CreateCachedRepository(o.id)
    [] o.name \in {"enabled", "limit"} -> UpdateCachedRepository(o.id)
    [] o.name = "remove"  -> DeleteCachedRepository(o.id)

\* What is there to do with a kind of records, and by whom.
Requests ==
  CASE kind = "token"  -> {"revoke", "repos", "scopes", "app"}
    [] kind = "state"  -> {"consume"}
    [] kind = "device" -> {"poll", "decide", "redeem"}
    [] kind = "user"   -> {}
    [] kind = "session" -> {"use", "logout"}
    [] kind = "repo"   -> {"enabled", "limit", "remove"}
Creation ==
  CASE kind = "token"  -> "create"
    [] kind = "state"  -> "state"
    [] kind = "device" -> "start"
    [] kind = "user"   -> "login"
    [] kind = "session" -> "session"
    [] kind = "repo"   -> "add"
Cleanup ==
  CASE kind = "token"  -> {"sweep"}
    [] kind = "device" -> {"purge", "prune"}
    [] kind = "session" -> {"expire"}
    [] OTHER -> {}

\* Having read v in its i-th call, the operation returns.
Stops(o, i, v) ==
  CASE o.name = "app"                  -> v = Absent
    [] o.name = "revoke"                 -> v = Absent \/ v.revoked
    [] o.name \in {"repos", "scopes"}    -> v = Absent \/ (i = 1 /\ v.revoked)
    [] o.name \in {"sweep", "purge", "expire"} -> v = Absent \/ o.id \notin old
    [] o.name = "use"                    -> v = Absent \/ o.id \in old
    [] o.name \in {"consume", "enabled", "limit", "remove"} -> v = Absent
    [] o.name = "add"                    -> v # Absent
    [] o.name = "poll"                   -> v = Absent \/ (i = 1 /\ (o.id \in old \/ (v.decided /\ ~v.polled)))
    [] o.name = "redeem"                 -> i = 1 /\ (v = Absent \/ o.id \in old \/ ~v.decided)
    [] o.name = "decide"                 -> v = Absent \/ (i = 2 /\ (o.id \in old \/ v.decided))
    [] o.name = "prune"                  -> (v = Absent) = (i = 1)
    [] OTHER                             -> FALSE

Revoked(v) == [v EXCEPT !.revoked = TRUE]

\* Mutant of WithRepos: what the client did not send is reset.
WithReposReset(v, read) == [v EXCEPT !.repos = 1, !.scopes = 0]
WithRepos(v, read) == [v EXCEPT !.repos = 1, !.scopes = read.scopes]
WithScopes(v, read) == [v EXCEPT !.scopes = 1, !.repos = read.repos]

\* What the operation writes under a key.
Value(o, k, f, l) ==
  CASE o.name = "create" /\ k[1] = "token" -> [revoked |-> FALSE, repos |-> 0, scopes |-> 0]
    [] o.name = "revoke"  -> Revoked(l[k])
    [] o.name = "repos"   -> WithRepos(l[k], f[k])
    [] o.name = "scopes"  -> WithScopes(l[k], f[k])
    [] o.name = "app"     -> l[k]
    [] o.name = "start" /\ k[1] = "device" -> [decided |-> FALSE, polled |-> FALSE]
    [] o.name = "poll"    -> [f[k] EXCEPT !.polled = TRUE]
    [] o.name = "decide" -> [f[k] EXCEPT !.decided = TRUE]
    [] o.name = "add" /\ k[1] = "repo" -> [enabled |-> 0, limit |-> 0]
    [] o.name = "enabled" -> [f[k] EXCEPT !.enabled = 1]
    [] o.name = "limit"   -> [f[k] EXCEPT !.limit = 1]
    [] OTHER              -> [id |-> o.id]

-----------------------------------------------------------------------------

VaultTypeOK ==
  /\ kind \in Kind
  /\ \A k \in DOMAIN kv : k[1] = "token" => kv[k] \in [revoked : BOOLEAN, repos : 0..1, scopes : 0..1]
  /\ \A k \in DOMAIN kv : k[1] = "device" => kv[k] \in [decided : BOOLEAN, polled : BOOLEAN]
  /\ \A k \in DOMAIN kv : k[1] = "repo" => kv[k] \in [enabled : 0..1, limit : 0..1]
  /\ old \subseteq used /\ used \subseteq Id(kind)
  /\ \A p \in Process : run[p] # Idle => run[p].at \in 1..Len(Program(run[p].op))
  /\ faults \in 0..MaxFaults

VaultInit ==
  /\ kind \in Kind
  /\ kv = << >>
  /\ old = {} /\ used = {}
  /\ run = [p \in Process |-> Idle]
  /\ done = {} /\ clobbered = {}
  /\ faults = 0

Recorded == {"create", "revoke", "repos", "scopes", "state", "consume", "start", "login",
             "session", "logout", "add", "enabled", "limit"}

\* The operation after which one like o has nothing to find any more.
Ending(o) == Op(IF o.name = "use" THEN "logout" ELSE o.name, o.id)

\* new: the identifier a login generates; again: whether there is nothing to find.
Begin(p, o) ==
  /\ run[p] = Idle
  /\ run' = [run EXCEPT ![p] =
       [op |-> o, at |-> 1, first |-> << >>, last |-> << >>, new |-> o.id,
        again |-> o.name \in {"consume", "use"} /\ Ending(o) \in done]]
  /\ UNCHANGED <<kind, kv, old, done, clobbered, faults>>

Generate(p) ==
  /\ p \in Caller
  /\ \E i \in Id(kind) \ used : Begin(p, Op(Creation, i)) /\ used' = used \cup {i}

\* Identifiers are known from the answer to their creation.
Request(p) ==
  /\ p \in Caller
  /\ \E n \in Requests, i \in used :
       Op(Creation, i) \in done /\ Begin(p, Op(n, i)) /\ UNCHANGED used

CleanUp(p) ==
  /\ p \in Cleaner
  /\ \E n \in Cleanup, i \in used : Begin(p, Op(n, i)) /\ UNCHANGED used

\* An identifier lives far longer than the call that creates it.
Age(i) ==
  /\ kind \in {"token", "device", "session"} /\ i \notin old
  /\ \A p \in Process : run[p] # Idle => run[p].op # Op(Creation, i)
  /\ old' = old \cup {i}
  /\ UNCHANGED <<kind, kv, used, run, done, clobbered, faults>>

-----------------------------------------------------------------------------
(* One call of an operation.                                               *)

Calls(p, call) == run[p] # Idle /\ Program(run[p].op)[run[p].at].call \in call
Key(p) == Program(run[p].op)[run[p].at].key

Return(p) == run' = [run EXCEPT ![p] = Idle]

\* On to the next call; after the last one the operation has succeeded.
Proceed(p, r) ==
  IF r.at = Len(Program(r.op)) \/ (r.op.name = "start" /\ r.at = 2)
  THEN Return(p) /\ done' = done \cup ({r.op} \cap [name : Recorded, id : used])
  ELSE run' = [run EXCEPT ![p] = [r EXCEPT !.at = @ + 1]] /\ UNCHANGED done

\* A login goes on under the identifier of the index if that has a record, and
\* under the one it generated if not.
Identify(r, v) ==
  CASE r.op.name = "login" /\ r.at = 1 /\ v # Absent -> [r EXCEPT !.op.id = v.id]
    [] r.op.name = "login" /\ r.at = 2 /\ v = Absent -> [r EXCEPT !.op.id = r.new]
    [] OTHER -> r

Reads(p) ==
  LET r == run[p]
      v == Peek(Key(p))
      s == [r EXCEPT !.first = IF Key(p) \in DOMAIN @ THEN @ ELSE With(@, Key(p), v),
                     !.last = With(@, Key(p), v)]
  IN
  /\ Calls(p, {"read", "glance"})
  /\ IF Stops(r.op, r.at, v) THEN Return(p) /\ UNCHANGED done ELSE Proceed(p, Identify(s, v))
  /\ UNCHANGED <<kind, kv, old, used, clobbered, faults>>

Write(p) == kv' = With(kv, Key(p), Value(run[p].op, Key(p), run[p].first, run[p].last))

\* The copy a value is made from is not what the key holds any more.
Stale(p) == Key(p) \in DOMAIN run[p].first /\ Peek(Key(p)) # run[p].first[Key(p)]

Puts(p) ==
  /\ Calls(p, {"put"})
  /\ Write(p)
  /\ clobbered' = IF Stale(p) THEN clobbered \cup {Key(p)} ELSE clobbered
  /\ Proceed(p, run[p])
  /\ UNCHANGED <<kind, old, used, faults>>

\* The end of an operation one of whose calls was refused or failed; only the
\* second call of CreateDeviceAuth has something to undo.
GiveUp(p) ==
  /\ IF run[p].op.name = "start" /\ run[p].at = 2
     THEN run' = [run EXCEPT ![p].at = 3]
     ELSE Return(p)
  /\ UNCHANGED <<kind, old, used, done, clobbered>>

\* Check-and-set; a create that is refused, since the key is there, fails.
Creates(p) ==
  /\ Calls(p, {"create"})
  /\ Key(p) \notin DOMAIN kv
  /\ Write(p)
  /\ Proceed(p, run[p])
  /\ UNCHANGED <<kind, old, used, clobbered, faults>>

Drops(p) ==
  /\ Calls(p, {"drop", "try"})
  /\ kv' = [k \in DOMAIN kv \ {Key(p)} |-> kv[k]]
  /\ IF run[p].op.name = "start" THEN Return(p) /\ UNCHANGED done ELSE Proceed(p, run[p])
  /\ UNCHANGED <<kind, old, used, clobbered, faults>>

\* A call fails with nothing done, and a failure may be ignored.  (An expired Vault
\* token is none: withRelogin logs in again and repeats the call.)
Fails(p) ==
  /\ run[p] # Idle /\ faults < MaxFaults /\ faults' = faults + 1
  /\ IF Calls(p, {"try", "glance"}) /\ run[p].op.name # "start"
     THEN Proceed(p, [run[p] EXCEPT !.at = IF Calls(p, {"glance"}) THEN @ + 1 ELSE @])
          /\ UNCHANGED <<kind, old, used, clobbered>>
     ELSE GiveUp(p)
  /\ UNCHANGED kv

\* The instance crashes.
Crash(p) ==
  /\ run[p] # Idle /\ faults < MaxFaults /\ faults' = faults + 1
  /\ Return(p)
  /\ UNCHANGED <<kind, kv, old, used, done, clobbered>>

Step(p) == Reads(p) \/ Puts(p) \/ Creates(p) \/ Drops(p)

VaultNext ==
  \/ \E p \in Process : Generate(p) \/ Request(p) \/ CleanUp(p) \/ Step(p) \/ Fails(p) \/ Crash(p)
  \/ \E i \in used : Age(i)

VaultSpec == VaultInit /\ [][VaultNext]_vaultVars

-----------------------------------------------------------------------------
(* Properties.                                                             *)

Has(k) == k \in DOMAIN kv

\* Whatever fails or overlaps, an index of tokens or users never names a record
\* that is not there (DeleteExpiredProxyTokens: "so a failure cannot leave orphaned
\* indexes pointing at a deleted record").  The cleanup lists records: what an
\* earlier attempt left over, a later one can still find.  The index of cached
\* repositories is as good only while no call fails: DeleteCachedRepository goes on
\* to the record when the index entry could not be deleted.
IndexNamesRecord ==
  /\ \A i \in Id(kind) : Has(<<"by-hash", i>>) \/ Has(<<"by-user", i>>) => Has(<<"token", i>>)
  /\ Has(<<"by-github-id">>) => Has(<<"user", kv[<<"by-github-id">>].id>>)
  /\ Has(<<"by-name">>) /\ faults = 0 => Has(<<"repo", kv[<<"by-name">>].id>>)

\* A revocation that was reported, and a change of one field of a token or of a
\* cached repository, is only undone by somebody who wrote back an older copy.
ReportedChangesStay ==
  \A i \in Id(kind) :
    LET k == <<"token", i>>
        c == <<"repo", i>>
    IN
    /\ Has(k) /\ k \notin clobbered =>
      /\ Op("revoke", i) \in done => kv[k].revoked
      /\ Op("repos", i) \in done => kv[k].repos = 1
      /\ Op("scopes", i) \in done => kv[k].scopes = 1
    /\ Has(c) /\ c \notin clobbered =>
      /\ Op("enabled", i) \in done => kv[c].enabled = 1
      /\ Op("limit", i) \in done => kv[c].limit = 1

\* A state that a callback has consumed is not found by one that comes later: two
\* only succeed when they overlap.  Nor is a session found after a logout.
ConsumedOnce ==
  [][\A p \in Process :
       run[p] # Idle /\ run[p].again /\ run'[p] = Idle /\ faults' = faults
         => run[p].at = 1 /\ Peek(Key(p)) = Absent]_vaultVars

\* The user code of an authorization that was handed out leads to its record as
\* long as that waits for a decision: neither the cleanup nor a retry takes it away.
UserCodeWorks ==
  \A i \in Id(kind) :
    LET k == <<"device", i>> IN
    Op("start", i) \in done /\ i \notin old /\ Has(k) /\ k \notin clobbered
      => Has(<<"code", i>>) \/ kv[k].decided

=============================================================================
