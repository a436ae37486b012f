------------------------------ MODULE GitCache ------------------------------
(***************************************************************************)
(* The git response cache (internal/gitcache): the middleware that looks a *)
(* repository up, the protocol v2 handler, which keeps complete upstream   *)
(* answers to fetch commands as files, the cleanup loop that enforces the  *)
(* size limit of a repository, and the administration of its settings.     *)
(*                                                                         *)
(* The name of a file is the hash of the repository and of the command, so *)
(* a file is named here by both.  All files have one size, and a command   *)
(* is either LsRefs or a fetch, told apart by what it wants.  Handlers run *)
(* file operations between which others, and the cleanup, run theirs.      *)
(***************************************************************************)
EXTENDS Integers, Sequences, FiniteSets

CONSTANTS
  Repo,
  Want,          \* the distinct fetch commands
  LsRefs,        \* the other command
  Request,       \* the requests: sequences of commands
  Handler,       \* goroutines that serve requests
  Admin,         \* goroutines that serve requests of administrators
  Limit,         \* the possible size limits; None where there is none, or none that is positive
  None,
  MaxClock, MaxRequests, MaxChanges, MaxCrashes   \* bounds

\* A request without commands is answered by nothing.
ASSUME CacheAssumption ==
  /\ LsRefs \notin Want
  /\ Limit \subseteq (Nat \ {0}) \cup {None}
  /\ \A q \in Request : q \in Seq(Want \cup {LsRefs}) /\ q # <<>>
  /\ IsFiniteSet(Handler)

ASSUME NoneAssumption ==
  None \notin [name : Repo \X Want, whole : BOOLEAN, mtime : Nat, used : Nat]

ASSUME BoundAssumption == MaxClock \in Nat

VARIABLES
  clock,
  rows,          \* the table cached_repositories: the settings of a repository
  ids,           \* number of rows inserted so far: the id of the latest one
  edit,          \* of an administrator: the row read by a PATCH under way, or None
  opened,        \* the registry: the repositories whose mirror has been opened
  access,        \* GitHub: the repositories that the callers may read
  files,         \* the complete responses under their final names
  temp,          \* the .tmp- file of a handler
  orphans,       \* .tmp- files whose handler is gone
  h,             \* the requests being served
  cleaner,       \* the cleanup loop
  enforced,      \* history: the limit that a cleanup has established since the last store;
                 \* another one is the last use of a file, its field used
  requests, changes, crashes     \* what the bounds count

tables  == <<rows, ids, edit>>
counts  == <<requests, changes, crashes>>
vars    == <<clock, tables, opened, access, files, temp, orphans, h, cleaner, enforced, counts>>

Idle == [pc |-> "idle"]
Rest == [pc |-> "rest"]

Name == Repo \X Want
Path(p) == <<h[p].repo, h[p].cmds[h[p].pos]>>
Current(p) == h[p].cmds[h[p].pos]
Bundled(q) == \E i \in 1..Len(q) : q[i] = LsRefs
\* History: no other hit of the same file is about to mark it.
Alone(p) == \A q \in Handler \ {p} : h[q].pc = "touch" => Path(q) # Path(p)
Present(r) == {n \in Name : n[1] = r /\ files[n] # None}

-----------------------------------------------------------------------------
(* Serving.                                                                *)

\* An error ends the request; what was sent before it was counted then.
Finish(p) == h' = [h EXCEPT ![p] = Idle]

Advance(p, more) ==
  LET s == h[p] IN
  h' = [h EXCEPT ![p] =
          [s EXCEPT !.pos = s.pos + 1, !.out = s.out \cup more, !.body = None, !.since = 0,
                    !.pc = IF s.pos = Len(s.cmds) THEN "done" ELSE "next"]]

Goto(p, pc) == h' = [h EXCEPT ![p] = [@ EXCEPT !.pc = pc]]

\* CacheLookup asks the store for every request.  When the repository is not listed or
\* disabled, or the store fails, the request passes to GitHub as it is.
Arrive(p) ==
  /\ h[p].pc \in {"idle", "done"}
  /\ requests < MaxRequests /\ requests' = requests + 1
  /\ \E r \in Repo, q \in Request :
       \/ h' = [h EXCEPT ![p] = Idle]
       \/ /\ rows[r] # None /\ rows[r].enabled
          /\ h' = [h EXCEPT ![p] =
                     [pc |-> "get", repo |-> r, cmds |-> q, pos |-> 1, verified |-> FALSE,
                      body |-> None, since |-> 0, out |-> {}, allowed |-> r \in access]]
  /\ UNCHANGED <<clock, tables, opened, access, files, temp, orphans, cleaner, enforced, changes, crashes>>

\* registry.Get opens the mirror of a repository once.
Get(p) ==
  /\ h[p].pc = "get"
  /\ \/ opened' = opened \cup {h[p].repo} /\ Goto(p, "next")
     \/ h[p].repo \notin opened /\ Finish(p) /\ UNCHANGED opened
  /\ UNCHANGED <<clock, tables, access, files, temp, orphans, cleaner, enforced, counts>>

\* ls-refs always goes upstream.  No service token is configured, so nothing is warmed.
HandleLsRefs(p) ==
  /\ h[p].pc = "next" /\ Current(p) = LsRefs
  /\ \/ /\ h[p].repo \in access
        /\ h' = [h EXCEPT ![p] = IF h[p].pos = Len(h[p].cmds) THEN Idle
                                ELSE [@ EXCEPT !.verified = TRUE, !.pos = h[p].pos + 1, !.pc = "next"]]
     \/ Finish(p)
  /\ UNCHANGED <<clock, tables, opened, access, files, temp, orphans, cleaner, enforced, counts>>

\* Mutant of Refused: a fetch of a bundled request is served whatever ls-refs said.
NeverRefused(p) == FALSE

\* "ls-refs hasn't succeeded yet -- reject"
Refused(p) == Bundled(h[p].cmds) /\ ~h[p].verified

Refuse(p) ==
  /\ h[p].pc = "next" /\ Current(p) # LsRefs /\ Refused(p) /\ Finish(p)
  /\ UNCHANGED <<clock, tables, opened, access, files, temp, orphans, cleaner, enforced, counts>>

\* handleFetch opens the file of the command: the file opened stays readable even when
\* another one takes its name or the cleanup removes the name.
OpenResponse(p) ==
  /\ h[p].pc = "next" /\ Current(p) # LsRefs /\ ~Refused(p)
  /\ LET f == files[Path(p)] IN
     IF f = None
     THEN Goto(p, "ask")
     ELSE h' = [h EXCEPT ![p] = [@ EXCEPT !.pc = "touch", !.since = clock,
                                          !.body = [name |-> f.name, whole |-> f.whole]]]
  /\ UNCHANGED <<clock, tables, opened, access, files, temp, orphans, cleaner, enforced, counts>>

\* Mutant of Touched: the modification time stays.
Untouched(f, p, now) == [f EXCEPT !.used = IF Alone(p) THEN now ELSE @]

Touched(f, p, now) == [f EXCEPT !.mtime = now, !.used = IF Alone(p) THEN now ELSE @]

\* The time is read after the file was opened, and may be older than the one that another
\* request has set by now.  Chtimes goes by name, too; its failure is only logged.
Touch(p) ==
  /\ h[p].pc = "touch"
  /\ \/ UNCHANGED files
     \/ \E now \in h[p].since..clock :
          /\ files[Path(p)] # None
          /\ files' = [files EXCEPT ![Path(p)] = Touched(@, p, now)]
  /\ h' = [h EXCEPT ![p] = [@ EXCEPT !.pc = "send", !.since = 0]]
  /\ UNCHANGED <<clock, tables, opened, access, temp, orphans, cleaner, enforced, counts>>

Answer(p) == [want |-> Path(p), body |-> h[p].body]

\* From the file opened, or, when no file could be made, from upstream: the copy may stop
\* half-way, and then the request ends.
Send(p) ==
  /\ h[p].pc \in {"send", "relay"}
  /\ Advance(p, {Answer(p)}) \/ Finish(p)
  /\ UNCHANGED <<clock, tables, opened, access, files, temp, orphans, cleaner, enforced, counts>>

\* An ERR packet comes with status 200 as well, and is kept like any other response.
Ask(p) ==
  /\ h[p].pc = "ask"
  /\ \/ /\ h[p].repo \in access
        /\ h' = [h EXCEPT ![p] = [@ EXCEPT !.pc = "create", !.body = [name |-> Path(p), whole |-> TRUE]]]
     \/ Finish(p)
  /\ UNCHANGED <<clock, tables, opened, access, files, temp, orphans, cleaner, enforced, counts>>

NewFile(p, whole) ==
  [name |-> Path(p), whole |-> whole, mtime |-> clock, used |-> clock]

\* Mutant of CreateTemp: the response is written under its final name.
CreateInPlace(p) ==
  /\ h[p].pc = "create"
  /\ Goto(p, "stream")
  /\ temp' = [temp EXCEPT ![p] = NewFile(p, FALSE)]
  /\ files' = [files EXCEPT ![Path(p)] = NewFile(p, FALSE)]
  /\ UNCHANGED <<clock, tables, opened, access, orphans, cleaner, enforced, counts>>

CreateTemp(p) ==
  /\ h[p].pc = "create"
  /\ \/ Goto(p, "stream") /\ temp' = [temp EXCEPT ![p] = NewFile(p, FALSE)]
     \/ Goto(p, "relay") /\ UNCHANGED temp
  /\ UNCHANGED <<clock, tables, opened, access, files, orphans, cleaner, enforced, counts>>

\* The client and the file get the same bytes; a failure of either, of GitHub, or the
\* timeout of the repository ends the request and removes the file.
Stream(p) ==
  /\ h[p].pc = "stream"
  /\ \/ temp' = [temp EXCEPT ![p] = NewFile(p, TRUE)] /\ Goto(p, "rename")
     \/ temp' = [temp EXCEPT ![p] = None] /\ Finish(p)
  /\ UNCHANGED <<clock, tables, opened, access, files, orphans, cleaner, enforced, counts>>

\* A request that opened the file replaced may still mark the new one.
Stored(p) == [temp[p] EXCEPT !.used = IF Alone(p) THEN @ ELSE 0]

\* The file keeps the modification time of its last write.
Rename(p) ==
  /\ h[p].pc = "rename"
  /\ \/ /\ files' = [files EXCEPT ![Path(p)] = Stored(p)]
        /\ enforced' = [enforced EXCEPT ![h[p].repo] = None]
        /\ cleaner' = IF cleaner.pc = "evict" /\ cleaner.repo = h[p].repo
                      THEN [cleaner EXCEPT !.met = TRUE] ELSE cleaner
     \/ UNCHANGED <<files, enforced, cleaner>>
  /\ temp' = [temp EXCEPT ![p] = None]
  /\ Advance(p, {Answer(p)})
  /\ UNCHANGED <<clock, tables, opened, access, orphans, counts>>

-----------------------------------------------------------------------------
(* The cleanup loop.                                                       *)

\* ListCachedRepositories: disabled repositories are cleaned up as well.
BeginCycle ==
  /\ cleaner.pc = "rest"
  /\ \E r \in Repo : rows[r] # None
  /\ cleaner' = [pc |-> "scan", todo |-> {<<r, rows[r].limit>> : r \in {r \in Repo : rows[r] # None}}]
  /\ UNCHANGED <<clock, tables, opened, access, files, temp, orphans, h, enforced, counts>>

NextRepo(r) ==
  IF cleaner.todo = {r} THEN Rest ELSE [pc |-> "scan", todo |-> cleaner.todo \ {r}]

\* scanCacheDir skips the .tmp- files and remembers size and modification time of the others.
Found(r) == {[name |-> n, mtime |-> files[n].mtime, used |-> files[n].used] : n \in Present(r)}

\* A directory that cannot be read is left alone until the next cycle; a file of which
\* nothing can be read is neither counted nor removed.
Scan ==
  /\ cleaner.pc = "scan"
  /\ \E t \in cleaner.todo :
       \/ cleaner' = NextRepo(t) /\ UNCHANGED enforced
       \/ \E S \in SUBSET Found(t[1]) :
            IF t[2] = None \/ Cardinality(S) <= t[2]
            THEN /\ cleaner' = NextRepo(t)
                 /\ enforced' = IF S = Found(t[1]) THEN [enforced EXCEPT ![t[1]] = t[2]] ELSE enforced
            ELSE /\ cleaner' = [pc |-> "evict", todo |-> cleaner.todo, repo |-> t[1], limit |-> t[2],
                                left |-> S, gone |-> {}, total |-> Cardinality(S),
                                met |-> S # Found(t[1])]
                 /\ UNCHANGED enforced
  /\ UNCHANGED <<clock, tables, opened, access, files, temp, orphans, h, counts>>

\* Mutant of Settle: a file that could not be removed counts as removed.
SettleAnyhow(f, removed) ==
  cleaner' = [cleaner EXCEPT !.left = @ \ {f}, !.total = @ - 1, !.gone = IF removed THEN @ \cup {f} ELSE @]

Settle(f, removed) ==
  cleaner' = [cleaner EXCEPT !.left = @ \ {f},
                             !.total = IF removed THEN @ - 1 ELSE @,
                             !.gone = IF removed THEN @ \cup {f} ELSE @]

\* The files are sorted once, by the modification times of the scan, and removed from the
\* oldest on until the total fits; a removal that fails is passed over.
Evict ==
  /\ cleaner.pc = "evict" /\ cleaner.total > cleaner.limit
  /\ \E f \in cleaner.left :
       /\ \A g \in cleaner.left : f.mtime <= g.mtime
       /\ \/ files' = [files EXCEPT ![f.name] = None] /\ Settle(f, TRUE)
          \/ UNCHANGED files /\ Settle(f, FALSE)
  /\ UNCHANGED <<clock, tables, opened, access, temp, orphans, h, enforced, counts>>

EndRepo ==
  /\ cleaner.pc = "evict"
  /\ cleaner.total <= cleaner.limit \/ cleaner.left = {}
  /\ cleaner' = NextRepo(<<cleaner.repo, cleaner.limit>>)
  /\ enforced' = [enforced EXCEPT ![cleaner.repo] =
                    IF cleaner.met \/ cleaner.total > cleaner.limit THEN None ELSE cleaner.limit]
  /\ UNCHANGED <<clock, tables, opened, access, files, temp, orphans, h, counts>>

-----------------------------------------------------------------------------
(* Administration: rows of the SQL stores.                                 *)

Changed == changes < MaxChanges /\ changes' = changes + 1
AdminOnly == UNCHANGED <<clock, opened, access, files, temp, orphans, h, cleaner, enforced, requests, crashes>>

\* "Check for duplicates": the unique index rejects those that two requests both let pass.
CreateCachedRepo ==
  /\ Changed
  /\ \E r \in Repo, on \in BOOLEAN, limit \in Limit :
       /\ rows[r] = None
       /\ rows' = [rows EXCEPT ![r] = [id |-> ids + 1, enabled |-> on, limit |-> limit]]
  /\ ids' = ids + 1
  /\ UNCHANGED edit /\ AdminOnly

\* A PATCH reads the row and sets what the client sent.
BeginUpdate(a) ==
  /\ Changed
  /\ edit[a] = None
  /\ \E r \in Repo :
       /\ rows[r] # None
       /\ \/ \E on \in BOOLEAN : edit' = [edit EXCEPT ![a] = <<r, [rows[r] EXCEPT !.enabled = on]>>]
          \/ \E limit \in Limit : edit' = [edit EXCEPT ![a] = <<r, [rows[r] EXCEPT !.limit = limit]>>]
  /\ UNCHANGED <<rows, ids>> /\ AdminOnly

\* UpdateCachedRepository writes all columns of the row with this id, if there is one.
UpdateCachedRepo(a) ==
  /\ edit[a] # None
  /\ LET r == edit[a][1]  new == edit[a][2] IN
     rows' = IF rows[r] # None /\ rows[r].id = new.id THEN [rows EXCEPT ![r] = new] ELSE rows
  /\ edit' = [edit EXCEPT ![a] = None]
  /\ UNCHANGED <<ids, changes>> /\ AdminOnly

\* The row goes; the mirror, the responses and the entry of the registry stay.
DeleteCachedRepo ==
  /\ Changed
  /\ \E r \in Repo : rows[r] # None /\ rows' = [rows EXCEPT ![r] = None]
  /\ UNCHANGED <<ids, edit>> /\ AdminOnly

-----------------------------------------------------------------------------
(* The environment.                                                        *)

\* GitHub gives or takes access.
ChangeAccess ==
  /\ Changed
  /\ \E r \in Repo :
       /\ access' = IF r \in access THEN access \ {r} ELSE access \cup {r}
       /\ h' = [p \in Handler |->
                  IF h[p].pc # "idle" /\ h[p].repo = r /\ r \notin access
                  THEN [h[p] EXCEPT !.allowed = TRUE] ELSE h[p]]
  /\ UNCHANGED <<clock, tables, opened, files, temp, orphans, cleaner, enforced, requests, crashes>>

Tick ==
  /\ clock < MaxClock /\ clock' = clock + 1
  /\ UNCHANGED <<tables, opened, access, files, temp, orphans, h, cleaner, enforced, counts>>

\* Nothing removes the .tmp- files that a crash leaves behind.
Crash ==
  /\ crashes < MaxCrashes /\ crashes' = crashes + 1
  /\ orphans' = orphans + Cardinality({p \in Handler : temp[p] # None})
  /\ temp' = [p \in Handler |-> None]
  /\ h' = [p \in Handler |-> Idle]
  /\ edit' = [a \in Admin |-> None]
  /\ cleaner' = Rest /\ opened' = {}
  /\ UNCHANGED <<clock, rows, ids, access, files, enforced, requests, changes>>

-----------------------------------------------------------------------------
Init ==
  /\ clock = 0
  /\ rows \in [Repo -> {None} \cup [id : {0}, enabled : {TRUE}, limit : Limit]]
  /\ ids = 0
  /\ edit = [a \in Admin |-> None]
  /\ opened = {} /\ access = Repo
  /\ files = [n \in Name |-> None]
  /\ temp = [p \in Handler |-> None]
  /\ orphans = 0
  /\ h = [p \in Handler |-> Idle]
  /\ cleaner = Rest
  /\ enforced = [r \in Repo |-> None]
  /\ requests = 0 /\ changes = 0 /\ crashes = 0

Serve(p) ==
  \/ Arrive(p) \/ Get(p) \/ HandleLsRefs(p) \/ Refuse(p) \/ OpenResponse(p) \/ Touch(p)
  \/ Send(p) \/ Ask(p) \/ CreateTemp(p) \/ Stream(p) \/ Rename(p)

Cleanup == BeginCycle \/ Scan \/ Evict \/ EndRepo

Administer ==
  CreateCachedRepo \/ DeleteCachedRepo \/ \E a \in Admin : BeginUpdate(a) \/ UpdateCachedRepo(a)

Next == (\E p \in Handler : Serve(p)) \/ Cleanup \/ Administer \/ ChangeAccess \/ Tick \/ Crash

Spec == Init /\ [][Next]_vars

-----------------------------------------------------------------------------
(* Properties.                                                             *)

Row  == [id : Nat, enabled : BOOLEAN, limit : Limit]
Body == [name : Name, whole : BOOLEAN]
File == [name : Name, whole : BOOLEAN, mtime : Nat, used : Nat]

\* A fetch under way: its file is opened, sent, or made from the answer of GitHub.
Fetching == {"touch", "send", "ask", "create", "relay", "stream", "rename"}

Serving ==
  [pc : {"get", "next", "done"} \cup Fetching, repo : Repo, cmds : Request, pos : Nat,
   verified : BOOLEAN, body : Body \cup {None}, since : Nat,
   out : SUBSET [want : Name, body : Body], allowed : BOOLEAN]

Seen     == [name : Name, mtime : Nat, used : Nat]
Todo     == SUBSET (Repo \X Limit)
Scanning == [pc : {"scan"}, todo : Todo]
Evicting == [pc : {"evict"}, todo : Todo, repo : Repo, limit : Nat, left : SUBSET Seen,
             gone : SUBSET Seen, total : Int, met : BOOLEAN]

TypeOK ==
  /\ clock \in 0..MaxClock /\ ids \in Nat /\ orphans \in Nat
  /\ rows \in [Repo -> Row \cup {None}]
  /\ edit \in [Admin -> (Repo \X Row) \cup {None}]
  /\ opened \subseteq Repo /\ access \subseteq Repo
  /\ files \in [Name -> File \cup {None}]
  /\ temp \in [Handler -> File \cup {None}]
  /\ h \in [Handler -> Serving \cup {Idle}]
  /\ cleaner \in {Rest} \cup Scanning \cup Evicting
  /\ enforced \in [Repo -> Nat \cup {None}]

\* A fetch that the handler reports as served was answered with one complete response
\* of GitHub to the same command for the same repository, whether it was sent from a
\* file or while one was written: never with a file that another request had begun.
ServedIsWhole ==
  \A p \in Handler :
    h[p].pc # "idle" => \A a \in h[p].out : a.body.whole /\ a.body.name = a.want

\* "no cached data exposed": a request that bundles ls-refs and fetch is sent nothing,
\* from a file or from GitHub, unless its caller had access to the repository at some
\* time while it was served.
BundledNeedsAccess ==
  \A p \in Handler :
    h[p].pc # "idle" /\ Bundled(h[p].cmds) /\ h[p].out # {} => h[p].allowed

\* "Touch mtime so the size-limit cleanup evicts least-recently-used files first": of
\* the files that the scan saw, one is removed for the limit only when each one that is
\* kept was written or marked no earlier than the removed one had last been used.  The
\* last use of a file is when it was written, or the time of a later hit.  Such a use
\* does not count when marking the file failed ("LRU eviction may evict hot entries"),
\* or while another request that had opened the file was about to mark it with a time
\* it may have read before.  A file that replaces another was used when it was written.
EvictsTheLeastRecent ==
  cleaner.pc = "evict" => \A f \in cleaner.gone, g \in cleaner.left : f.used <= g.mtime

\* When the cleanup of a repository could look at all files and is content, its responses
\* fit the limit, also after removals that failed, until another response is stored.
EnforcedLimitHolds ==
  \A r \in Repo : enforced[r] # None => Cardinality(Present(r)) <= enforced[r]

=============================================================================
