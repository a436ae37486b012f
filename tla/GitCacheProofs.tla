---------------------------- MODULE GitCacheProofs ----------------------------
(***************************************************************************)
(* Theorems about GitCache, for all repositories, commands, handlers,      *)
(* limits and bounds that its assumptions admit.                           *)
(***************************************************************************)
EXTENDS GitCache, FiniteSetTheorems, TLAPS

-----------------------------------------------------------------------------
(* The inductive invariant.                                                *)

\* What a request that is served is: it stands at one of its commands, which is a
\* fetch if one is under way; what it holds is the whole answer to that fetch; what
\* it sent was whole; and the access that ls-refs found is remembered.
Good(s) ==
  /\ s.pc # "done" => s.pos \in 1..Len(s.cmds)
  /\ s.pc \in Fetching => s.cmds[s.pos] \in Want
  /\ s.pc \in Fetching \ {"ask"} => s.body = [name |-> <<s.repo, s.cmds[s.pos]>>, whole |-> TRUE]
  /\ \A a \in s.out : a.body.whole /\ a.body.name = a.want
  /\ s.verified => s.allowed
  /\ Bundled(s.cmds) /\ (s.pc \in Fetching \/ s.out # {}) => s.verified

RequestsAreGood ==
  \A p \in Handler, s \in Serving : h[p] = s =>
    Good(s) /\ s.since <= clock /\ (s.repo \in access => s.allowed)

\* A file under its final name is the whole answer to the command that names it, and
\* its modification time is no earlier than when it was last served.
FilesAreTrue ==
  \A n \in Name, f \in File : files[n] = f =>
    f.whole /\ f.name = n /\ f.used <= f.mtime /\ f.mtime <= clock

\* The same of a file that is being written, except that it is whole at the end.
TempsAreTrue ==
  \A p \in Handler, s \in Serving : h[p] = s /\ s.pc \in {"stream", "rename"} =>
    /\ temp[p] \in File
    /\ temp[p].name = <<s.repo, s.cmds[s.pos]>>
    /\ temp[p].used <= temp[p].mtime /\ temp[p].mtime <= clock
    /\ s.pc = "rename" => temp[p].whole

\* A request that is about to mark a file does so with a time no earlier than the last
\* use of that file: one that comes in between does not count.
MarksAreLater ==
  \A p \in Handler, n \in Name, f \in File :
    h[p].pc = "touch" /\ Path(p) = n /\ files[n] = f => f.used <= h[p].since

FilesAreFinite == \A r \in Repo : IsFiniteSet(Present(r))

\* What the cleanup has still to look at are different files that are there, none was
\* removed that was served after one of them, and its sum covers the files that are
\* present unless a response was stored since the scan.
Sound(c, present) ==
  /\ \A f \in c.left : f.used <= f.mtime /\ f.name \in present
  /\ \A f, g \in c.left : f.name = g.name => f = g
  /\ \A f \in c.gone, g \in c.left : f.used <= g.mtime
  /\ ~c.met => Cardinality(present) <= c.total

CleanerIsTrue ==
  \A c \in Evicting, present \in SUBSET Name :
    cleaner = c /\ Present(c.repo) = present => Sound(c, present)

IInv ==
  /\ TypeOK
  /\ RequestsAreGood
  /\ FilesAreTrue
  /\ TempsAreTrue
  /\ MarksAreLater
  /\ FilesAreFinite
  /\ CleanerIsTrue
  /\ EnforcedLimitHolds

-----------------------------------------------------------------------------
(* Types.                                                                  *)

LEMMA FileIsSomething == ASSUME NEW f \in File PROVE f # None
  BY NoneAssumption DEF File, Name

LEMMA IdleIsNotServing == Idle.pc = "idle" /\ \A s \in Serving : s # Idle /\ s.pc # "idle"
  BY DEF Idle, Serving, Fetching

LEMMA CleanerCases ==
  ASSUME TypeOK
  PROVE  /\ cleaner.pc = "rest" => cleaner = Rest
         /\ cleaner.pc = "scan" => cleaner \in Scanning
         /\ cleaner.pc = "evict" => cleaner \in Evicting
  BY DEF TypeOK, Rest, Scanning, Evicting

LEMMA ServingHandler ==
  ASSUME TypeOK, RequestsAreGood, NEW p \in Handler, h[p].pc # "idle"
  PROVE  /\ h[p] \in Serving
         /\ Good(h[p])
         /\ h[p].since <= clock
         /\ h[p].repo \in access => h[p].allowed
         /\ h[p].repo \in Repo
         /\ h[p].cmds \in Request /\ h[p].cmds \in Seq(Want \cup {LsRefs}) /\ h[p].pos \in Nat
         /\ clock \in Nat
  <1>1. h[p] \in Serving
    BY IdleIsNotServing DEF TypeOK
  <1>2. h[p].repo \in Repo /\ h[p].cmds \in Request /\ h[p].pos \in Nat
    BY <1>1 DEF Serving
  <1>3. clock \in Nat
    BY BoundAssumption DEF TypeOK
  <1>4. QED
    BY <1>1, <1>2, <1>3, CacheAssumption DEF RequestsAreGood

\* The command that is served, and the file of a fetch.
LEMMA AtCommand ==
  ASSUME TypeOK, RequestsAreGood, NEW p \in Handler, h[p].pc \in {"get", "next"} \cup Fetching
  PROVE  /\ h[p] \in Serving
         /\ h[p].pos \in 1..Len(h[p].cmds)
         /\ Current(p) \in Want \cup {LsRefs}
         /\ Current(p) # LsRefs => Path(p) \in Name
         /\ h[p].pc \in Fetching => Current(p) \in Want /\ Path(p) \in Name
  <1>1. h[p].pc # "idle" /\ h[p].pc # "done"
    BY DEF Fetching
  <1>2. /\ h[p] \in Serving /\ Good(h[p]) /\ h[p].repo \in Repo
        /\ h[p].cmds \in Seq(Want \cup {LsRefs})
    BY <1>1, ServingHandler
  <1>3. h[p].pos \in 1..Len(h[p].cmds)
    BY <1>1, <1>2 DEF Good
  <1>4. Current(p) \in Want \cup {LsRefs}
    BY <1>2, <1>3 DEF Current
  <1>5. h[p].pc \in Fetching => Current(p) \in Want
    BY <1>2 DEF Good, Current
  <1>6. QED
    BY <1>2, <1>3, <1>4, <1>5 DEF Path, Name, Current

LEMMA NewFileIsTrue ==
  ASSUME TypeOK, RequestsAreGood, NEW p \in Handler, h[p].pc \in Fetching, NEW whole \in BOOLEAN
  PROVE  /\ NewFile(p, whole) \in File
         /\ NewFile(p, whole).name = Path(p) /\ NewFile(p, whole).whole = whole
         /\ NewFile(p, whole).used <= NewFile(p, whole).mtime
         /\ NewFile(p, whole).mtime <= clock
  <1>1. Path(p) \in Name
    BY AtCommand
  <1>2. clock \in Nat
    BY BoundAssumption DEF TypeOK
  <1>3. QED
    BY <1>1, <1>2 DEF NewFile, File

-----------------------------------------------------------------------------
(* Requests.                                                               *)

\* A step that replaces the record of one request by a good one.
LEMMA RequestStep ==
  ASSUME TypeOK, RequestsAreGood, NEW p \in Handler, NEW s \in Serving \cup {Idle},
         h' = [h EXCEPT ![p] = s], UNCHANGED <<clock, access>>,
         s # Idle => Good(s) /\ s.since <= clock /\ (s.repo \in access => s.allowed)
  PROVE  h' \in [Handler -> Serving \cup {Idle}] /\ RequestsAreGood'
  <1>1. h' \in [Handler -> Serving \cup {Idle}]
    BY DEF TypeOK
  <1>2. ASSUME NEW q \in Handler, NEW t \in Serving, h'[q] = t
        PROVE  Good(t) /\ t.since <= clock' /\ (t.repo \in access' => t.allowed)
    <2>1. CASE q = p
      <3>1. t = s
        BY <1>2, <2>1 DEF TypeOK
      <3>2. s # Idle
        BY <3>1, IdleIsNotServing
      <3>3. QED
        BY <3>1, <3>2
    <2>2. CASE q # p
      <3>1. h[q] = t
        BY <1>2, <2>2 DEF TypeOK
      <3>2. QED
        BY <3>1 DEF RequestsAreGood
    <2>3. QED
      BY <2>1, <2>2
  <1>3. QED
    BY <1>1, <1>2 DEF RequestsAreGood

LEMMA FinishStep ==
  ASSUME TypeOK, RequestsAreGood, NEW p \in Handler, Finish(p), UNCHANGED <<clock, access>>
  PROVE  h' \in [Handler -> Serving \cup {Idle}] /\ RequestsAreGood' /\ h'[p] = Idle
  BY RequestStep DEF Finish, TypeOK

\* A request that moves on within a command keeps what it knows.
LEMMA GotoStep ==
  ASSUME TypeOK, RequestsAreGood, NEW p \in Handler, NEW pc,
         Goto(p, pc), UNCHANGED <<clock, access>>,
         \/ h[p].pc = "get" /\ pc = "next"
         \/ h[p].pc = "next" /\ Current(p) # LsRefs /\ ~Refused(p) /\ pc = "ask"
         \/ h[p].pc \in Fetching \ {"ask"} /\ pc \in Fetching
  PROVE  h' \in [Handler -> Serving \cup {Idle}] /\ RequestsAreGood'
         /\ h'[p] = [h[p] EXCEPT !.pc = pc]
  <1> DEFINE s == [h[p] EXCEPT !.pc = pc]
  <1>1. h[p].pc \in {"get", "next"} \cup Fetching /\ h[p].pc # "idle"
    BY DEF Fetching
  <1>2. /\ h[p] \in Serving /\ Good(h[p]) /\ h[p].since <= clock
        /\ (h[p].repo \in access => h[p].allowed)
        /\ h[p].pos \in 1..Len(h[p].cmds) /\ Current(p) \in Want \cup {LsRefs}
    BY <1>1, ServingHandler, AtCommand
  <1>3. pc \in {"next"} \cup Fetching
    BY DEF Fetching
  <1>4. s \in Serving
    BY <1>2, <1>3 DEF Serving
  <1>5. /\ s.pc = pc /\ s.cmds = h[p].cmds /\ s.pos = h[p].pos /\ s.body = h[p].body
        /\ s.repo = h[p].repo /\ s.out = h[p].out /\ s.verified = h[p].verified
        /\ s.allowed = h[p].allowed /\ s.since = h[p].since
    BY <1>2 DEF Serving
  <1>6. Good(s)
    <2>1. s.pc \in Fetching => s.cmds[s.pos] \in Want
      BY <1>2, <1>5 DEF Good, Current, Fetching
    <2>2. s.pc \in Fetching \ {"ask"} =>
            s.body = [name |-> <<s.repo, s.cmds[s.pos]>>, whole |-> TRUE]
      BY <1>2, <1>5 DEF Good, Fetching
    <2>3. Bundled(s.cmds) /\ (s.pc \in Fetching \/ s.out # {}) => s.verified
      BY <1>2, <1>5 DEF Good, Fetching, Refused
    <2>4. QED
      BY <1>2, <1>5, <2>1, <2>2, <2>3 DEF Good
  <1>7. h' = [h EXCEPT ![p] = s]
    BY DEF Goto
  <1>8. h'[p] = s
    BY <1>7 DEF TypeOK
  <1> HIDE DEF s
  <1>9. h' \in [Handler -> Serving \cup {Idle}] /\ RequestsAreGood'
    BY <1>2, <1>4, <1>5, <1>6, <1>7, RequestStep
  <1>10. QED
    BY <1>8, <1>9 DEF s

LEMMA AdvanceStep ==
  ASSUME TypeOK, RequestsAreGood, NEW p \in Handler,
         h[p].pc \in Fetching \ {"ask"}, Advance(p, {Answer(p)}), UNCHANGED <<clock, access>>
  PROVE  h' \in [Handler -> Serving \cup {Idle}] /\ RequestsAreGood'
         /\ h'[p].pc \in {"next", "done"}
  <1> DEFINE pc == IF h[p].pos = Len(h[p].cmds) THEN "done" ELSE "next"
             s  == [h[p] EXCEPT !.pos = h[p].pos + 1, !.out = h[p].out \cup {Answer(p)},
                                !.body = None, !.since = 0, !.pc = pc]
  <1>1. h[p].pc \in {"get", "next"} \cup Fetching /\ h[p].pc # "idle"
    BY DEF Fetching
  <1>2. /\ h[p] \in Serving /\ Good(h[p]) /\ clock \in Nat
        /\ (h[p].repo \in access => h[p].allowed) /\ h[p].cmds \in Seq(Want \cup {LsRefs})
        /\ h[p].pos \in 1..Len(h[p].cmds) /\ Current(p) \in Want /\ Path(p) \in Name
    BY <1>1, ServingHandler, AtCommand
  <1>3. Len(h[p].cmds) \in Nat
    BY <1>2
  <1>4. h[p].body = [name |-> Path(p), whole |-> TRUE]
    BY <1>2 DEF Good, Path
  <1>5. Answer(p) \in [want : Name, body : Body] /\ Answer(p).body.whole
        /\ Answer(p).body.name = Answer(p).want
    BY <1>2, <1>4 DEF Answer, Body
  <1>6. h[p].out \cup {Answer(p)} \in SUBSET [want : Name, body : Body]
    BY <1>2, <1>5 DEF Serving
  <1>7. s \in Serving
    <2>1. h[p].pos + 1 \in Nat /\ pc \in {"next", "done"}
      BY <1>2, <1>3
    <2> HIDE DEF pc
    <2>2. QED
      BY <1>2, <1>6, <2>1 DEF Serving
  <1>8. /\ s.pc = pc /\ s.cmds = h[p].cmds /\ s.pos = h[p].pos + 1
        /\ s.repo = h[p].repo /\ s.out = h[p].out \cup {Answer(p)} /\ s.verified = h[p].verified
        /\ s.allowed = h[p].allowed /\ s.since = 0
    BY <1>2 DEF Serving
  <1>9. Good(s)
    <2>1. s.pc \in {"next", "done"} /\ s.pc \notin Fetching
      BY <1>8 DEF Fetching
    <2>2. s.pc # "done" => s.pos \in 1..Len(s.cmds)
      BY <1>2, <1>3, <1>8
    <2>3. \A a \in s.out : a.body.whole /\ a.body.name = a.want
      BY <1>2, <1>5, <1>8 DEF Good
    <2>4. (s.verified => s.allowed) /\ (Bundled(s.cmds) => s.verified)
      BY <1>2, <1>8 DEF Good
    <2>5. QED
      BY <2>1, <2>2, <2>3, <2>4 DEF Good
  <1>10. h' = [h EXCEPT ![p] = s]
    BY DEF Advance
  <1>11. h'[p] = s /\ s.pc \in {"next", "done"}
    BY <1>8, <1>10 DEF TypeOK
  <1> HIDE DEF s, pc
  <1>12. s.since <= clock /\ (s.repo \in access => s.allowed)
    BY <1>2, <1>8
  <1>13. h' \in [Handler -> Serving \cup {Idle}] /\ RequestsAreGood'
    BY <1>7, <1>9, <1>10, <1>12, RequestStep
  <1>14. QED
    BY <1>11, <1>13
LEMMA ArriveRequests ==
  ASSUME TypeOK, RequestsAreGood, NEW p \in Handler, Arrive(p)
  PROVE  h' \in [Handler -> Serving \cup {Idle}] /\ RequestsAreGood'
         /\ h'[p].pc \in {"idle", "get"}
  <1>1. CASE h' = [h EXCEPT ![p] = Idle]
    BY <1>1, FinishStep DEF Arrive, Finish, Idle
  <1>2. ASSUME NEW r \in Repo, NEW q \in Request,
               h' = [h EXCEPT ![p] =
                      [pc |-> "get", repo |-> r, cmds |-> q, pos |-> 1, verified |-> FALSE,
                       body |-> None, since |-> 0, out |-> {}, allowed |-> r \in access]]
        PROVE  h' \in [Handler -> Serving \cup {Idle}] /\ RequestsAreGood' /\ h'[p].pc = "get"
    <2> DEFINE s == [pc |-> "get", repo |-> r, cmds |-> q, pos |-> 1, verified |-> FALSE,
                     body |-> None, since |-> 0, out |-> {}, allowed |-> r \in access]
    <2>1. q \in Seq(Want \cup {LsRefs}) /\ q # <<>>
      BY CacheAssumption
    <2>2. 1 \in 1..Len(q)
      BY <2>1
    <2>3. s \in Serving
      BY DEF Serving
    <2>4. Good(s)
      BY <2>2 DEF Good, Fetching
    <2>5. s.since <= clock /\ (s.repo \in access => s.allowed)
      <3>1. s.since = 0 /\ clock \in Nat
        BY BoundAssumption DEF TypeOK
      <3>2. s.repo \in access => s.allowed
        OBVIOUS
      <3> HIDE DEF s
      <3>3. QED
        BY <3>1, <3>2
    <2>6. h' = [h EXCEPT ![p] = s] /\ s.pc = "get"
      BY <1>2
    <2> HIDE DEF s
    <2>7. h'[p] = s
      BY <2>6 DEF TypeOK
    <2>8. QED
      BY <2>3, <2>4, <2>5, <2>6, <2>7, RequestStep DEF Arrive
  <1>3. QED
    BY <1>1, <1>2 DEF Arrive

LEMMA LsRefsRequests ==
  ASSUME TypeOK, RequestsAreGood, NEW p \in Handler, HandleLsRefs(p)
  PROVE  h' \in [Handler -> Serving \cup {Idle}] /\ RequestsAreGood'
         /\ h'[p].pc \in {"idle", "next"}
  <1>1. CASE Finish(p) \/ h' = [h EXCEPT ![p] = Idle]
    BY <1>1, FinishStep DEF HandleLsRefs, Finish, Idle
  <1>2. ASSUME h[p].repo \in access, h[p].pos # Len(h[p].cmds),
               h' = [h EXCEPT ![p] = [h[p] EXCEPT !.verified = TRUE, !.pos = h[p].pos + 1,
                                                  !.pc = "next"]]
        PROVE  h' \in [Handler -> Serving \cup {Idle}] /\ RequestsAreGood' /\ h'[p].pc = "next"
    <2> DEFINE s == [h[p] EXCEPT !.verified = TRUE, !.pos = h[p].pos + 1, !.pc = "next"]
    <2>1. /\ h[p] \in Serving /\ Good(h[p]) /\ h[p].since <= clock
          /\ (h[p].repo \in access => h[p].allowed)
          /\ h[p].pos \in 1..Len(h[p].cmds) /\ h[p].cmds \in Seq(Want \cup {LsRefs})
      BY ServingHandler, AtCommand DEF HandleLsRefs
    <2>2. h[p].pos + 1 \in 1..Len(h[p].cmds) /\ h[p].pos + 1 \in Nat
      BY <1>2, <2>1
    <2>3. s \in Serving
      BY <2>1, <2>2 DEF Serving
    <2>4. /\ s.pc = "next" /\ s.cmds = h[p].cmds /\ s.pos = h[p].pos + 1 /\ s.repo = h[p].repo
          /\ s.out = h[p].out /\ s.verified /\ s.allowed = h[p].allowed /\ s.since = h[p].since
      BY <2>1 DEF Serving
    <2>5. Good(s)
      BY <1>2, <2>1, <2>2, <2>4 DEF Good, Fetching
    <2>6. h' = [h EXCEPT ![p] = s] /\ h'[p] = s
      BY <1>2 DEF TypeOK
    <2> HIDE DEF s
    <2>7. QED
      BY <2>1, <2>3, <2>4, <2>5, <2>6, RequestStep DEF HandleLsRefs
  <1>3. QED
    BY <1>1, <1>2 DEF HandleLsRefs

LEMMA OpenRequests ==
  ASSUME TypeOK, RequestsAreGood, FilesAreTrue, NEW p \in Handler, OpenResponse(p)
  PROVE  /\ h' \in [Handler -> Serving \cup {Idle}] /\ RequestsAreGood'
         /\ h'[p].pc \in {"ask", "touch"}
         /\ h'[p].pc = "touch" =>
              /\ h'[p].since = clock /\ h'[p].repo = h[p].repo
              /\ h'[p].cmds = h[p].cmds /\ h'[p].pos = h[p].pos
  <1>1. /\ h[p] \in Serving /\ Good(h[p]) /\ h[p].since <= clock /\ clock \in Nat
        /\ (h[p].repo \in access => h[p].allowed)
        /\ h[p].pos \in 1..Len(h[p].cmds) /\ Current(p) \in Want /\ Path(p) \in Name
    BY ServingHandler, AtCommand DEF OpenResponse
  <1>2. CASE files[Path(p)] = None
    <2>1. Goto(p, "ask") /\ UNCHANGED <<clock, access>>
      BY <1>2 DEF OpenResponse
    <2>2. h'[p] = [h[p] EXCEPT !.pc = "ask"] /\ RequestsAreGood'
          /\ h' \in [Handler -> Serving \cup {Idle}]
      BY <2>1, GotoStep DEF OpenResponse
    <2>3. QED
      BY <1>1, <2>2 DEF Serving
  <1>3. CASE files[Path(p)] # None
    <2> DEFINE f == files[Path(p)]
               b == [name |-> f.name, whole |-> f.whole]
               s == [h[p] EXCEPT !.pc = "touch", !.since = clock, !.body = b]
    <2>1. f \in File
      BY <1>1, <1>3 DEF TypeOK
    <2>2. f.whole /\ f.name = Path(p)
      BY <1>1, <2>1 DEF FilesAreTrue
    <2>3. b = [name |-> Path(p), whole |-> TRUE] /\ b \in Body
      BY <1>1, <2>1, <2>2 DEF File, Body
    <2>4. h' = [h EXCEPT ![p] = s]
      BY <1>3 DEF OpenResponse
    <2> HIDE DEF b
    <2>5. s \in Serving
      BY <1>1, <2>3 DEF Serving, Fetching
    <2>6. /\ s.pc = "touch" /\ s.cmds = h[p].cmds /\ s.pos = h[p].pos /\ s.repo = h[p].repo
          /\ s.out = h[p].out /\ s.verified = h[p].verified /\ s.allowed = h[p].allowed
          /\ s.since = clock /\ s.body = b
      BY <1>1 DEF Serving
    <2>7. Good(s)
      <3>1. Bundled(s.cmds) => s.verified
        BY <2>6 DEF OpenResponse, Refused
      <3>2. s.cmds[s.pos] \in Want /\ s.body = [name |-> <<s.repo, s.cmds[s.pos]>>, whole |-> TRUE]
        BY <1>1, <2>3, <2>6 DEF Current, Path
      <3>3. QED
        BY <1>1, <2>6, <3>1, <3>2 DEF Good
    <2>8. h'[p] = s
      BY <2>4 DEF TypeOK
    <2> HIDE DEF s
    <2>9. s.since <= clock /\ (s.repo \in access => s.allowed)
      BY <1>1, <2>6
    <2>10. UNCHANGED <<clock, access>>
      BY DEF OpenResponse
    <2>11. QED
      BY <2>4, <2>5, <2>6, <2>7, <2>8, <2>9, <2>10, RequestStep
  <1>4. QED
    BY <1>2, <1>3

LEMMA TouchRequests ==
  ASSUME TypeOK, RequestsAreGood, NEW p \in Handler, Touch(p)
  PROVE  h' \in [Handler -> Serving \cup {Idle}] /\ RequestsAreGood' /\ h'[p].pc = "send"
  <1> DEFINE s == [h[p] EXCEPT !.pc = "send", !.since = 0]
  <1>1. /\ h[p] \in Serving /\ Good(h[p]) /\ clock \in Nat /\ h[p].pc \in Fetching
        /\ (h[p].repo \in access => h[p].allowed)
    BY ServingHandler DEF Touch, Fetching
  <1>2. s \in Serving
    BY <1>1 DEF Serving, Fetching
  <1>3. /\ s.pc = "send" /\ s.cmds = h[p].cmds /\ s.pos = h[p].pos /\ s.repo = h[p].repo
        /\ s.out = h[p].out /\ s.verified = h[p].verified /\ s.allowed = h[p].allowed
        /\ s.since = 0 /\ s.body = h[p].body
    BY <1>1 DEF Serving
  <1>4. Good(s)
    BY <1>1, <1>3 DEF Good, Fetching, Touch
  <1>5. h' = [h EXCEPT ![p] = s] /\ h'[p] = s
    BY DEF Touch, TypeOK
  <1> HIDE DEF s
  <1>6. s.since <= clock /\ (s.repo \in access => s.allowed)
    BY <1>1, <1>3
  <1>7. UNCHANGED <<clock, access>>
    BY DEF Touch
  <1>8. QED
    BY <1>2, <1>3, <1>4, <1>5, <1>6, <1>7, RequestStep

LEMMA AskRequests ==
  ASSUME TypeOK, RequestsAreGood, NEW p \in Handler, Ask(p)
  PROVE  h' \in [Handler -> Serving \cup {Idle}] /\ RequestsAreGood'
         /\ h'[p].pc \in {"create", "idle"}
  <1>1. CASE Finish(p)
    BY <1>1, FinishStep DEF Ask, Idle
  <1>2. CASE ~Finish(p)
    <2> DEFINE b == [name |-> Path(p), whole |-> TRUE]
               s == [h[p] EXCEPT !.pc = "create", !.body = b]
    <2>1. /\ h[p] \in Serving /\ Good(h[p]) /\ h[p].since <= clock /\ h[p].pc \in Fetching
          /\ (h[p].repo \in access => h[p].allowed) /\ Path(p) \in Name
      BY ServingHandler, AtCommand DEF Ask, Fetching
    <2>2. b \in Body
      BY <2>1 DEF Body
    <2>3. h' = [h EXCEPT ![p] = s] /\ h'[p] = s
      BY <1>2 DEF Ask, TypeOK
    <2>4. b = [name |-> <<h[p].repo, h[p].cmds[h[p].pos]>>, whole |-> TRUE]
      BY DEF Path
    <2> HIDE DEF b
    <2>5. s \in Serving
      BY <2>1, <2>2 DEF Serving, Fetching
    <2>6. /\ s.pc = "create" /\ s.cmds = h[p].cmds /\ s.pos = h[p].pos /\ s.repo = h[p].repo
          /\ s.out = h[p].out /\ s.verified = h[p].verified /\ s.allowed = h[p].allowed
          /\ s.since = h[p].since /\ s.body = b
      BY <2>1 DEF Serving
    <2>7. Good(s)
      BY <2>1, <2>4, <2>6 DEF Good, Fetching
    <2> HIDE DEF s
    <2>8. QED
      BY <2>1, <2>3, <2>5, <2>6, <2>7, RequestStep DEF Ask
  <1>3. QED
    BY <1>1, <1>2

\* What a step does to the request that makes it.
LEMMA ServeRequests ==
  ASSUME TypeOK, RequestsAreGood, FilesAreTrue, NEW p \in Handler, Serve(p)
  PROVE  /\ h' \in [Handler -> Serving \cup {Idle}] /\ RequestsAreGood'
         /\ \A q \in Handler \ {p} : h'[q] = h[q]
         /\ h'[p].pc = "touch" =>
              /\ OpenResponse(p) /\ h'[p].since = clock /\ h'[p].repo = h[p].repo
              /\ h'[p].cmds = h[p].cmds /\ h'[p].pos = h[p].pos
         /\ h'[p].pc = "stream" => CreateTemp(p) /\ h'[p] = [h[p] EXCEPT !.pc = "stream"]
         /\ h'[p].pc = "rename" => Stream(p) /\ h'[p] = [h[p] EXCEPT !.pc = "rename"]
  <1>1. \A q \in Handler \ {p} : h'[q] = h[q]
    BY DEF Serve, Arrive, Get, HandleLsRefs, Refuse, OpenResponse, Touch, Send, Ask, CreateTemp,
           Stream, Rename, Finish, Advance, Goto, TypeOK
  <1>2. CASE Arrive(p)
    BY <1>1, <1>2, ArriveRequests
  <1>3. CASE Get(p)
    <2>1. CASE Finish(p)
      BY <1>1, <1>3, <2>1, FinishStep DEF Get, Idle
    <2>2. CASE Goto(p, "next")
      <3>1. h'[p] = [h[p] EXCEPT !.pc = "next"] /\ RequestsAreGood'
            /\ h' \in [Handler -> Serving \cup {Idle}]
        BY <1>3, <2>2, GotoStep DEF Get
      <3>2. h[p] \in Serving
        BY <1>3, ServingHandler DEF Get
      <3>3. h'[p].pc = "next"
        BY <3>1, <3>2 DEF Serving
      <3>4. QED
        BY <1>1, <3>1, <3>3
    <2>3. QED
      BY <1>3, <2>1, <2>2 DEF Get
  <1>4. CASE HandleLsRefs(p)
    BY <1>1, <1>4, LsRefsRequests
  <1>5. CASE Refuse(p)
    BY <1>1, <1>5, FinishStep DEF Refuse, Idle
  <1>6. CASE OpenResponse(p)
    <2>1. /\ h' \in [Handler -> Serving \cup {Idle}] /\ RequestsAreGood'
          /\ h'[p].pc \in {"ask", "touch"}
          /\ h'[p].pc = "touch" =>
               /\ h'[p].since = clock /\ h'[p].repo = h[p].repo
               /\ h'[p].cmds = h[p].cmds /\ h'[p].pos = h[p].pos
      BY <1>6, OpenRequests
    <2>2. h'[p].pc # "stream" /\ h'[p].pc # "rename"
      BY <2>1
    <2>3. QED
      BY <1>1, <1>6, <2>1, <2>2
  <1>7. CASE Touch(p)
    BY <1>1, <1>7, TouchRequests
  <1>8. CASE Send(p)
    <2>1. CASE Finish(p)
      BY <1>1, <1>8, <2>1, FinishStep DEF Send, Idle
    <2>2. CASE Advance(p, {Answer(p)})
      BY <1>1, <1>8, <2>2, AdvanceStep DEF Send, Fetching
    <2>3. QED
      BY <1>8, <2>1, <2>2 DEF Send
  <1>9. CASE Ask(p)
    BY <1>1, <1>9, AskRequests
  <1>10. CASE CreateTemp(p)
    <2>1. h[p] \in Serving
      BY <1>10, ServingHandler DEF CreateTemp
    <2>2. CASE Goto(p, "stream")
      <3>1. h'[p] = [h[p] EXCEPT !.pc = "stream"] /\ RequestsAreGood'
            /\ h' \in [Handler -> Serving \cup {Idle}]
        BY <1>10, <2>2, GotoStep DEF CreateTemp, Fetching
      <3>2. h'[p].pc = "stream"
        BY <2>1, <3>1 DEF Serving
      <3>3. QED
        BY <1>1, <1>10, <3>1, <3>2
    <2>3. CASE Goto(p, "relay")
      <3>1. h'[p] = [h[p] EXCEPT !.pc = "relay"] /\ RequestsAreGood'
            /\ h' \in [Handler -> Serving \cup {Idle}]
        BY <1>10, <2>3, GotoStep DEF CreateTemp, Fetching
      <3>2. h'[p].pc = "relay"
        BY <2>1, <3>1 DEF Serving
      <3>3. QED
        BY <1>1, <3>1, <3>2
    <2>4. QED
      BY <1>10, <2>2, <2>3 DEF CreateTemp
  <1>11. CASE Stream(p)
    <2>1. CASE Finish(p)
      <3>1. UNCHANGED <<clock, access>>
        BY <1>11 DEF Stream
      <3>2. h' \in [Handler -> Serving \cup {Idle}] /\ RequestsAreGood' /\ h'[p].pc = "idle"
        BY <2>1, <3>1, FinishStep DEF Idle
      <3>3. QED
        BY <1>1, <3>2
    <2>2. CASE Goto(p, "rename")
      <3>1. h'[p] = [h[p] EXCEPT !.pc = "rename"] /\ RequestsAreGood'
            /\ h' \in [Handler -> Serving \cup {Idle}]
        BY <1>11, <2>2, GotoStep DEF Stream, Fetching
      <3>2. h[p] \in Serving
        BY <1>11, ServingHandler DEF Stream
      <3>3. h'[p].pc = "rename"
        BY <3>1, <3>2 DEF Serving
      <3>4. QED
        BY <1>1, <1>11, <3>1, <3>3
    <2>3. QED
      BY <1>11, <2>1, <2>2 DEF Stream
  <1>12. CASE Rename(p)
    BY <1>1, <1>12, AdvanceStep DEF Rename, Fetching
  <1>13. QED
    BY <1>2, <1>3, <1>4, <1>5, <1>6, <1>7, <1>8, <1>9, <1>10, <1>11, <1>12 DEF Serve
LEMMA AccessRequests ==
  ASSUME TypeOK, RequestsAreGood, ChangeAccess
  PROVE  /\ h' \in [Handler -> Serving \cup {Idle}] /\ RequestsAreGood'
         /\ \A p \in Handler : \/ h'[p] = h[p]
                               \/ h[p] \in Serving /\ h'[p] = [h[p] EXCEPT !.allowed = TRUE]
  <1>1. PICK r \in Repo :
          /\ access' = IF r \in access THEN access \ {r} ELSE access \cup {r}
          /\ h' = [p \in Handler |->
                    IF h[p].pc # "idle" /\ h[p].repo = r /\ r \notin access
                    THEN [h[p] EXCEPT !.allowed = TRUE] ELSE h[p]]
    BY DEF ChangeAccess
  <1>2. ASSUME NEW p \in Handler
        PROVE  /\ h'[p] \in Serving \cup {Idle}
               /\ \/ h'[p] = h[p]
                  \/ h[p] \in Serving /\ h'[p] = [h[p] EXCEPT !.allowed = TRUE]
               /\ \A s \in Serving : h'[p] = s =>
                    Good(s) /\ s.since <= clock /\ (s.repo \in access' => s.allowed)
    <2>1. CASE h[p].pc # "idle" /\ h[p].repo = r /\ r \notin access
      <3> DEFINE s == [h[p] EXCEPT !.allowed = TRUE]
      <3>1. h[p] \in Serving /\ Good(h[p]) /\ h[p].since <= clock
        BY <2>1, ServingHandler
      <3>2. s \in Serving
        BY <3>1 DEF Serving
      <3>3. /\ s.pc = h[p].pc /\ s.cmds = h[p].cmds /\ s.pos = h[p].pos /\ s.repo = h[p].repo
            /\ s.out = h[p].out /\ s.verified = h[p].verified /\ s.allowed
            /\ s.since = h[p].since /\ s.body = h[p].body
        BY <3>1 DEF Serving
      <3>4. Good(s)
        BY <3>1, <3>3 DEF Good
      <3>5. h'[p] = s
        BY <1>1, <2>1
      <3> HIDE DEF s
      <3>6. QED
        BY <3>1, <3>2, <3>3, <3>4, <3>5 DEF s
    <2>2. CASE ~(h[p].pc # "idle" /\ h[p].repo = r /\ r \notin access)
      <3>1. h'[p] = h[p] /\ h[p] \in Serving \cup {Idle}
        BY <1>1, <2>2 DEF TypeOK
      <3>2. ASSUME NEW s \in Serving, h'[p] = s
            PROVE  Good(s) /\ s.since <= clock /\ (s.repo \in access' => s.allowed)
        <4>1. Good(s) /\ s.since <= clock /\ (s.repo \in access => s.allowed) /\ h[p] = s
          BY <3>1, <3>2 DEF RequestsAreGood
        <4>2. s.pc # "idle"
          BY IdleIsNotServing
        <4>3. s.repo \in access' => s.repo \in access
          BY <1>1, <2>2, <4>1, <4>2
        <4>4. QED
          BY <4>1, <4>3
      <3>3. QED
        BY <3>1, <3>2
    <2>3. QED
      BY <2>1, <2>2
  <1>3. clock' = clock
    BY DEF ChangeAccess
  <1>4. h' \in [Handler -> Serving \cup {Idle}]
    BY <1>1, <1>2
  <1>5. RequestsAreGood'
    BY <1>2, <1>3 DEF RequestsAreGood
  <1>6. QED
    BY <1>2, <1>4, <1>5

LEMMA TickRequests ==
  ASSUME TypeOK, RequestsAreGood, Tick
  PROVE  RequestsAreGood'
  <1> SUFFICES ASSUME NEW p \in Handler, NEW s \in Serving, h[p] = s
               PROVE  Good(s) /\ s.since <= clock' /\ (s.repo \in access => s.allowed)
    BY DEF Tick, RequestsAreGood
  <1>1. Good(s) /\ s.since <= clock /\ (s.repo \in access => s.allowed)
    BY DEF RequestsAreGood
  <1>2. s.since \in Nat /\ clock \in Nat /\ clock' = clock + 1
    BY BoundAssumption DEF Serving, TypeOK, Tick
  <1>3. QED
    BY <1>1, <1>2

LEMMA RequestsKept ==
  ASSUME TypeOK, RequestsAreGood, FilesAreTrue, [Next]_vars
  PROVE  h' \in [Handler -> Serving \cup {Idle}] /\ RequestsAreGood'
  <1>1. ASSUME UNCHANGED <<h, clock, access>>
        PROVE  h' \in [Handler -> Serving \cup {Idle}] /\ RequestsAreGood'
    BY <1>1 DEF TypeOK, RequestsAreGood
  <1>2. CASE \E p \in Handler : Serve(p)
    BY <1>2, ServeRequests
  <1>3. CASE Cleanup
    BY <1>1, <1>3 DEF Cleanup, BeginCycle, Scan, Evict, EndRepo
  <1>4. CASE Administer
    BY <1>1, <1>4 DEF Administer, AdminOnly, CreateCachedRepo, DeleteCachedRepo, BeginUpdate,
                      UpdateCachedRepo
  <1>5. CASE ChangeAccess
    BY <1>5, AccessRequests
  <1>6. CASE Tick
    BY <1>6, TickRequests DEF Tick, TypeOK
  <1>7. CASE Crash
    <2>1. h' = [p \in Handler |-> Idle]
      BY <1>7 DEF Crash
    <2>2. QED
      BY <2>1, IdleIsNotServing DEF RequestsAreGood
  <1>8. CASE UNCHANGED vars
    BY <1>1, <1>8 DEF vars
  <1>9. QED
    BY <1>2, <1>3, <1>4, <1>5, <1>6, <1>7, <1>8 DEF Next

-----------------------------------------------------------------------------
(* Files.                                                                  *)

LEMMA FileSteps ==
  ASSUME [Next]_vars
  PROVE  UNCHANGED files \/ Evict \/ \E p \in Handler : Touch(p) \/ Rename(p)
  BY DEF Next, vars, Serve, Arrive, Get, HandleLsRefs, Refuse, OpenResponse, Send, Ask, CreateTemp,
         Stream, Cleanup, BeginCycle, Scan, EndRepo, Administer, AdminOnly, CreateCachedRepo,
         DeleteCachedRepo, BeginUpdate, UpdateCachedRepo, ChangeAccess, Tick, Crash

LEMMA ClockSteps ==
  ASSUME TypeOK, [Next]_vars
  PROVE  /\ clock' \in 0..MaxClock /\ clock \in Nat /\ clock <= clock'
         /\ ~Tick => clock' = clock
  <1>1. clock \in 0..MaxClock /\ clock \in Nat /\ MaxClock \in Nat
    BY BoundAssumption DEF TypeOK
  <1>2. CASE Tick
    BY <1>1, <1>2 DEF Tick
  <1>3. CASE ~Tick
    <2>1. clock' = clock
      BY <1>3 DEF Next, vars, Serve, Arrive, Get, HandleLsRefs, Refuse, OpenResponse, Touch, Send,
             Ask, CreateTemp, Stream, Rename, Cleanup, BeginCycle, Scan, Evict, EndRepo, Administer,
             AdminOnly, CreateCachedRepo, DeleteCachedRepo, BeginUpdate, UpdateCachedRepo,
             ChangeAccess, Crash
    <2>2. QED
      BY <1>1, <1>3, <2>1
  <1>4. QED
    BY <1>2, <1>3

\* A step that replaces one file by a true one, or by none.
LEMMA FileStep ==
  ASSUME TypeOK, FilesAreTrue, NEW n \in Name, NEW f \in File \cup {None},
         files' = [files EXCEPT ![n] = f], clock' = clock,
         f # None => f.whole /\ f.name = n /\ f.used <= f.mtime /\ f.mtime <= clock
  PROVE  files' \in [Name -> File \cup {None}] /\ FilesAreTrue'
  <1>1. files' \in [Name -> File \cup {None}]
    BY DEF TypeOK
  <1>2. ASSUME NEW m \in Name, NEW g \in File, files'[m] = g
        PROVE  g.whole /\ g.name = m /\ g.used <= g.mtime /\ g.mtime <= clock'
    <2>1. CASE m = n
      BY <1>2, <2>1, FileIsSomething DEF TypeOK
    <2>2. CASE m # n
      BY <1>2, <2>2 DEF TypeOK, FilesAreTrue
    <2>3. QED
      BY <2>1, <2>2
  <1>3. QED
    BY <1>1, <1>2 DEF FilesAreTrue

\* What a mark makes of a file.
LEMMA TouchedIsTrue ==
  ASSUME TypeOK, RequestsAreGood, FilesAreTrue, MarksAreLater, NEW p \in Handler,
         h[p].pc = "touch", files[Path(p)] # None, NEW now \in h[p].since..clock
  PROVE  /\ Touched(files[Path(p)], p, now) \in File
         /\ Touched(files[Path(p)], p, now).whole
         /\ Touched(files[Path(p)], p, now).name = Path(p)
         /\ Touched(files[Path(p)], p, now).used <= Touched(files[Path(p)], p, now).mtime
         /\ Touched(files[Path(p)], p, now).mtime <= clock
         /\ ~Alone(p) => Touched(files[Path(p)], p, now).used = files[Path(p)].used
  <1> DEFINE g == files[Path(p)]
             u == IF Alone(p) THEN now ELSE g.used
             t == [g EXCEPT !.mtime = now, !.used = u]
  <1>1. h[p] \in Serving /\ h[p].since <= clock /\ clock \in Nat /\ Path(p) \in Name
    BY ServingHandler, AtCommand DEF Fetching
  <1>2. g \in File /\ g.whole /\ g.name = Path(p)
    BY <1>1 DEF TypeOK, FilesAreTrue
  <1>3. g.used <= h[p].since
    BY <1>1, <1>2 DEF MarksAreLater
  <1>4. g.used \in Nat /\ h[p].since \in Nat
    BY <1>1, <1>2 DEF File, Serving
  <1> HIDE DEF g
  <1>5. now \in Nat /\ h[p].since <= now /\ now <= clock
    BY <1>1, <1>4
  <1>6. u \in Nat /\ u <= now /\ (~Alone(p) => u = g.used)
    BY <1>3, <1>4, <1>5
  <1>7. Touched(g, p, now) = t
    BY DEF Touched
  <1> HIDE DEF u
  <1>8. t \in File /\ t.whole /\ t.name = Path(p) /\ t.used = u /\ t.mtime = now
    BY <1>2, <1>5, <1>6 DEF File
  <1>9. Touched(files[Path(p)], p, now) = t
    BY <1>7 DEF g
  <1> HIDE DEF t
  <1>10. QED
    BY <1>5, <1>6, <1>8, <1>9 DEF g

\* Marking leaves all files as they are, or marks one.
LEMMA TouchSteps ==
  ASSUME NEW p \in Handler, Touch(p)
  PROVE  \/ UNCHANGED files
         \/ \E now \in h[p].since..clock :
              /\ files[Path(p)] # None
              /\ files' = [files EXCEPT ![Path(p)] = Touched(files[Path(p)], p, now)]
  BY DEF Touch

\* What is stored when a response takes its final name.
LEMMA RenamedIsTrue ==
  ASSUME TypeOK, RequestsAreGood, TempsAreTrue, NEW p \in Handler, Rename(p)
  PROVE  /\ Stored(p) \in File /\ Stored(p).whole /\ Stored(p).name = Path(p) /\ Path(p) \in Name
         /\ Stored(p).used <= Stored(p).mtime /\ Stored(p).mtime <= clock
         /\ ~Alone(p) => Stored(p).used = 0
  <1> DEFINE u == IF Alone(p) THEN temp[p].used ELSE 0
  <1>1. h[p] \in Serving /\ Path(p) \in Name
    BY ServingHandler, AtCommand DEF Rename, Fetching
  <1>2. /\ temp[p] \in File /\ temp[p].whole /\ temp[p].name = Path(p)
        /\ temp[p].used <= temp[p].mtime /\ temp[p].mtime <= clock
    BY <1>1 DEF Rename, TempsAreTrue, Path
  <1>3. temp[p].used \in Nat /\ temp[p].mtime \in Nat
    BY <1>2 DEF File
  <1>4. u \in Nat /\ u <= temp[p].mtime /\ (~Alone(p) => u = 0)
    BY <1>2, <1>3
  <1>5. Stored(p) = [temp[p] EXCEPT !.used = u]
    BY DEF Stored
  <1> HIDE DEF u
  <1>6. /\ Stored(p) \in File /\ Stored(p).whole = temp[p].whole /\ Stored(p).name = temp[p].name
        /\ Stored(p).used = u /\ Stored(p).mtime = temp[p].mtime
    BY <1>2, <1>4, <1>5 DEF File
  <1>7. QED
    BY <1>1, <1>2, <1>4, <1>6

LEMMA FilesKept ==
  ASSUME TypeOK, RequestsAreGood, FilesAreTrue, TempsAreTrue, MarksAreLater, [Next]_vars
  PROVE  files' \in [Name -> File \cup {None}] /\ FilesAreTrue'
  <1>1. CASE UNCHANGED files
    <2>1. files' \in [Name -> File \cup {None}]
      BY <1>1 DEF TypeOK
    <2>2. ASSUME NEW n \in Name, NEW f \in File, files[n] = f
          PROVE  f.whole /\ f.name = n /\ f.used <= f.mtime /\ f.mtime <= clock'
      <3>1. f.whole /\ f.name = n /\ f.used <= f.mtime /\ f.mtime <= clock
        BY <2>2 DEF FilesAreTrue
      <3>2. f.mtime \in Nat /\ clock \in Nat /\ clock' \in Nat /\ clock <= clock'
        BY ClockSteps, BoundAssumption DEF File
      <3>3. QED
        BY <3>1, <3>2
    <2>3. QED
      BY <1>1, <2>1, <2>2 DEF FilesAreTrue
  <1>2. CASE Evict
    <2>1. PICK f \in cleaner.left : files' = [files EXCEPT ![f.name] = None] \/ UNCHANGED files
      BY <1>2 DEF Evict
    <2>2. CASE UNCHANGED files
      BY <1>1, <2>2
    <2>3. CASE files' = [files EXCEPT ![f.name] = None]
      <3>1. f.name \in Name
        BY <1>2, CleanerCases DEF Evict, Evicting, Seen
      <3>2. clock' = clock
        BY <1>2 DEF Evict
      <3>3. QED
        BY <2>3, <3>1, <3>2, FileStep
    <2>4. QED
      BY <2>1, <2>2, <2>3
  <1>3. ASSUME NEW p \in Handler, Touch(p)
        PROVE  files' \in [Name -> File \cup {None}] /\ FilesAreTrue'
    <2>1. Path(p) \in Name /\ clock' = clock
      BY <1>3, AtCommand DEF Touch, Fetching
    <2>2. CASE UNCHANGED files
      BY <1>1, <2>2
    <2>3. ASSUME NEW now \in h[p].since..clock, files[Path(p)] # None,
                 files' = [files EXCEPT ![Path(p)] = Touched(files[Path(p)], p, now)]
          PROVE  files' \in [Name -> File \cup {None}] /\ FilesAreTrue'
      <3>1. h[p].pc = "touch"
        BY <1>3 DEF Touch
      <3>2. QED
        BY <2>1, <2>3, <3>1, TouchedIsTrue, FileStep
    <2>4. QED
      BY <1>3, <2>2, <2>3, TouchSteps
  <1>4. ASSUME NEW p \in Handler, Rename(p)
        PROVE  files' \in [Name -> File \cup {None}] /\ FilesAreTrue'
    <2>1. CASE UNCHANGED files
      BY <1>1, <2>1
    <2>2. CASE files' = [files EXCEPT ![Path(p)] = Stored(p)]
      <3>1. clock' = clock
        BY <1>4 DEF Rename
      <3>2. QED
        BY <1>4, <2>2, <3>1, RenamedIsTrue, FileStep
    <2>3. QED
      BY <1>4, <2>1, <2>2 DEF Rename
  <1>5. QED
    BY <1>1, <1>2, <1>3, <1>4, FileSteps

\* A request that is about to mark a file has just opened it, or was about to before.
LEMMA Marking ==
  ASSUME TypeOK, RequestsAreGood, FilesAreTrue, [Next]_vars, NEW q \in Handler, h'[q].pc = "touch"
  PROVE  /\ Path(q)' = Path(q)
         /\ \/ OpenResponse(q) /\ h'[q].since = clock
            \/ h[q].pc = "touch" /\ h'[q].since = h[q].since
  <1>1. ASSUME h'[q] = h[q]
        PROVE  Path(q)' = Path(q) /\ h[q].pc = "touch" /\ h'[q].since = h[q].since
    BY <1>1 DEF Path
  <1>2. CASE UNCHANGED h
    BY <1>1, <1>2
  <1>3. ASSUME NEW p \in Handler, Serve(p)
        PROVE  h'[q] = h[q] \/ (OpenResponse(q) /\ h'[q].since = clock /\ Path(q)' = Path(q))
    <2>1. \/ h'[q] = h[q]
          \/ /\ OpenResponse(q) /\ h'[q].since = clock /\ h'[q].repo = h[q].repo
             /\ h'[q].cmds = h[q].cmds /\ h'[q].pos = h[q].pos
      BY <1>3, ServeRequests
    <2>2. QED
      BY <2>1 DEF Path
  <1>4. CASE ChangeAccess
    <2>1. h'[q] = h[q] \/ (h[q] \in Serving /\ h'[q] = [h[q] EXCEPT !.allowed = TRUE])
      BY <1>4, AccessRequests
    <2>2. CASE h[q] \in Serving /\ h'[q] = [h[q] EXCEPT !.allowed = TRUE]
      <3>1. /\ h'[q].pc = h[q].pc /\ h'[q].since = h[q].since /\ h'[q].repo = h[q].repo
            /\ h'[q].cmds = h[q].cmds /\ h'[q].pos = h[q].pos
        BY <2>2 DEF Serving
      <3>2. QED
        BY <3>1 DEF Path
    <2>3. QED
      BY <1>1, <2>1, <2>2
  <1>5. CASE Crash
    BY <1>5, IdleIsNotServing DEF Crash
  <1>6. UNCHANGED h \/ (\E p \in Handler : Serve(p)) \/ ChangeAccess \/ Crash
    BY DEF Next, vars, Cleanup, BeginCycle, Scan, Evict, EndRepo, Administer, AdminOnly,
           CreateCachedRepo, DeleteCachedRepo, BeginUpdate, UpdateCachedRepo, Tick
  <1>7. QED
    BY <1>1, <1>2, <1>3, <1>4, <1>5, <1>6

LEMMA MarksKept ==
  ASSUME TypeOK, RequestsAreGood, FilesAreTrue, TempsAreTrue, MarksAreLater, [Next]_vars
  PROVE  MarksAreLater'
  <1> SUFFICES ASSUME NEW q \in Handler, NEW n \in Name, NEW f \in File,
                      h'[q].pc = "touch", Path(q)' = n, files'[n] = f
               PROVE  f.used <= h'[q].since
    BY DEF MarksAreLater
  <1>1. f # None /\ f.used \in Nat /\ f.mtime \in Nat
    BY FileIsSomething DEF File
  <1>2. CASE OpenResponse(q) /\ h'[q].since = clock
    <2>1. files[n] = f /\ clock \in Nat
      BY <1>2, BoundAssumption DEF OpenResponse, TypeOK
    <2>2. f.used <= f.mtime /\ f.mtime <= clock
      BY <2>1 DEF FilesAreTrue
    <2>3. QED
      BY <1>1, <1>2, <2>1, <2>2
  <1>3. CASE h[q].pc = "touch" /\ h'[q].since = h[q].since
    <2>1. Path(q) = n /\ h[q].since \in Nat
      <3>1. h[q] \in Serving
        BY <1>3, ServingHandler
      <3>2. QED
        BY <3>1, Marking DEF Serving
    <2>2. CASE files[n] = f
      BY <1>3, <2>1, <2>2 DEF MarksAreLater
    <2>3. ASSUME NEW p \in Handler, p # q, Path(p) = n PROVE ~Alone(p)
      BY <1>3, <2>1, <2>3 DEF Alone
    <2>4. ASSUME NEW p \in Handler, Touch(p) \/ Rename(p) PROVE p # q
      <3>1. CASE Touch(p)
        BY <3>1, TouchRequests
      <3>2. CASE Rename(p)
        BY <1>3, <3>2 DEF Rename
      <3>3. QED
        BY <2>4, <3>1, <3>2
    <2>5. ASSUME NEW p \in Handler, Touch(p), files[n] # f PROVE f.used <= h'[q].since
      <3>1. PICK now \in h[p].since..clock :
              /\ files[Path(p)] # None
              /\ files' = [files EXCEPT ![Path(p)] = Touched(files[Path(p)], p, now)]
        BY <2>5, TouchSteps
      <3>2. Path(p) = n /\ f = Touched(files[n], p, now)
        BY <2>5, <3>1 DEF TypeOK
      <3>3. h[p].pc = "touch" /\ ~Alone(p)
        BY <2>3, <2>4, <2>5, <3>2 DEF Touch
      <3>4. files[n] \in File /\ f.used = files[n].used
        BY <3>1, <3>2, <3>3, TouchedIsTrue DEF TypeOK
      <3>5. files[n].used <= h[q].since
        BY <1>3, <2>1, <3>4 DEF MarksAreLater
      <3>6. QED
        BY <1>3, <3>4, <3>5
    <2>6. ASSUME NEW p \in Handler, Rename(p), files[n] # f PROVE f.used <= h'[q].since
      <3>1. files' = [files EXCEPT ![Path(p)] = Stored(p)]
        BY <2>6 DEF Rename
      <3>2. Path(p) = n /\ f = Stored(p)
        BY <2>6, <3>1 DEF TypeOK
      <3>3. f.used = 0
        BY <2>3, <2>4, <2>6, <3>2, RenamedIsTrue
      <3>4. QED
        BY <1>3, <2>1, <3>3
    <2>7. CASE Evict
      <3>1. PICK g \in cleaner.left : files' = [files EXCEPT ![g.name] = None] \/ UNCHANGED files
        BY <2>7 DEF Evict
      <3>2. files[n] = f
        BY <1>1, <3>1 DEF TypeOK
      <3>3. QED
        BY <2>2, <3>2
    <2>8. QED
      BY <2>2, <2>5, <2>6, <2>7, FileSteps
  <1>4. QED
    BY <1>2, <1>3, Marking

\* The files that are being written.
LEMMA TempsKept ==
  ASSUME TypeOK, RequestsAreGood, FilesAreTrue, TempsAreTrue, [Next]_vars
  PROVE  temp' \in [Handler -> File \cup {None}] /\ TempsAreTrue'
  <1>1. clock \in Nat /\ clock' \in Nat /\ clock <= clock' /\ (~Tick => clock' = clock)
    BY ClockSteps, BoundAssumption
  <1>2. ASSUME NEW q \in Handler, NEW s \in Serving, s.pc \in {"stream", "rename"},
               temp'[q] = temp[q], h'[q] = s,
               h[q] = s \/ (h[q] \in Serving /\ s = [h[q] EXCEPT !.allowed = TRUE])
        PROVE  /\ temp'[q] \in File /\ temp'[q].name = <<s.repo, s.cmds[s.pos]>>
               /\ temp'[q].used <= temp'[q].mtime /\ temp'[q].mtime <= clock'
               /\ s.pc = "rename" => temp'[q].whole
    <2>1. h[q] \in Serving /\ h[q].pc = s.pc /\ h[q].repo = s.repo /\ h[q].cmds = s.cmds
          /\ h[q].pos = s.pos
      BY <1>2 DEF Serving
    <2>2. /\ temp[q] \in File /\ temp[q].name = <<s.repo, s.cmds[s.pos]>>
          /\ temp[q].used <= temp[q].mtime /\ temp[q].mtime <= clock
          /\ s.pc = "rename" => temp[q].whole
      BY <1>2, <2>1 DEF TempsAreTrue
    <2>3. temp[q].mtime \in Nat
      BY <2>2 DEF File
    <2>4. QED
      BY <1>1, <1>2, <2>2, <2>3
  <1>3. ASSUME UNCHANGED temp,
               \A p \in Handler : \/ h'[p] = h[p]
                                  \/ h[p] \in Serving /\ h'[p] = [h[p] EXCEPT !.allowed = TRUE]
        PROVE  temp' \in [Handler -> File \cup {None}] /\ TempsAreTrue'
    <2>1. temp' \in [Handler -> File \cup {None}]
      BY <1>3 DEF TypeOK
    <2>2. ASSUME NEW q \in Handler, NEW s \in Serving, h'[q] = s, s.pc \in {"stream", "rename"}
          PROVE  /\ temp'[q] \in File /\ temp'[q].name = <<s.repo, s.cmds[s.pos]>>
                 /\ temp'[q].used <= temp'[q].mtime /\ temp'[q].mtime <= clock'
                 /\ s.pc = "rename" => temp'[q].whole
      <3>1. h[q] = s \/ (h[q] \in Serving /\ s = [h[q] EXCEPT !.allowed = TRUE])
        BY <1>3, <2>2
      <3>2. temp'[q] = temp[q]
        BY <1>3
      <3>3. QED
        BY <1>2, <2>2, <3>1, <3>2
    <2>3. QED
      BY <2>1, <2>2 DEF TempsAreTrue
  <1>4. ASSUME NEW p \in Handler, Serve(p)
        PROVE  temp' \in [Handler -> File \cup {None}] /\ TempsAreTrue'
    <2>1. UNCHANGED temp \/ CreateTemp(p) \/ Stream(p) \/ Rename(p)
      BY <1>4 DEF Serve, Arrive, Get, HandleLsRefs, Refuse, OpenResponse, Touch, Send, Ask
    <2>2. /\ \A q \in Handler \ {p} : h'[q] = h[q]
          /\ h'[p].pc = "stream" => CreateTemp(p) /\ h'[p] = [h[p] EXCEPT !.pc = "stream"]
          /\ h'[p].pc = "rename" => Stream(p) /\ h'[p] = [h[p] EXCEPT !.pc = "rename"]
      BY <1>4, ServeRequests
    <2>3. \E f \in File \cup {None} : temp' = [temp EXCEPT ![p] = f]
      <3>1. CASE UNCHANGED temp
        <4>1. temp' = [temp EXCEPT ![p] = temp[p]]
          BY <3>1 DEF TypeOK
        <4>2. QED
          BY <4>1 DEF TypeOK
      <3>2. CASE CreateTemp(p) /\ ~UNCHANGED temp
        BY <3>2, NewFileIsTrue DEF CreateTemp, Fetching
      <3>3. CASE Stream(p)
        BY <3>3, NewFileIsTrue DEF Stream, Fetching
      <3>4. CASE Rename(p)
        BY <3>4 DEF Rename
      <3>5. QED
        BY <2>1, <3>1, <3>2, <3>3, <3>4
    <2>4. temp' \in [Handler -> File \cup {None}] /\ \A q \in Handler \ {p} : temp'[q] = temp[q]
      BY <2>3 DEF TypeOK
    <2>5. ASSUME NEW q \in Handler, NEW s \in Serving, h'[q] = s, s.pc \in {"stream", "rename"}
          PROVE  /\ temp'[q] \in File /\ temp'[q].name = <<s.repo, s.cmds[s.pos]>>
                 /\ temp'[q].used <= temp'[q].mtime /\ temp'[q].mtime <= clock'
                 /\ s.pc = "rename" => temp'[q].whole
      <3>1. CASE q # p
        <4>1. h[q] = s /\ temp'[q] = temp[q]
          BY <2>2, <2>4, <2>5, <3>1
        <4>2. QED
          BY <1>2, <2>5, <4>1
      <3>2. ASSUME q = p, NEW whole \in BOOLEAN, h[p].pc \in Fetching,
                   temp' = [temp EXCEPT ![p] = NewFile(p, whole)], clock' = clock,
                   h[p] \in Serving, h'[p] = [h[p] EXCEPT !.pc = s.pc],
                   s.pc = "rename" => whole
            PROVE  /\ temp'[q] \in File /\ temp'[q].name = <<s.repo, s.cmds[s.pos]>>
                   /\ temp'[q].used <= temp'[q].mtime /\ temp'[q].mtime <= clock'
                   /\ s.pc = "rename" => temp'[q].whole
        <4>1. temp'[q] = NewFile(p, whole)
          BY <3>2 DEF TypeOK
        <4>2. s.repo = h[p].repo /\ s.cmds = h[p].cmds /\ s.pos = h[p].pos
          BY <2>5, <3>2 DEF Serving
        <4>3. Path(p) = <<s.repo, s.cmds[s.pos]>>
          BY <4>2 DEF Path
        <4>4. QED
          BY <3>2, <4>1, <4>3, NewFileIsTrue
      <3>3. CASE q = p /\ s.pc = "stream"
        <4>1. CreateTemp(p) /\ h'[p] = [h[p] EXCEPT !.pc = "stream"]
          BY <2>2, <2>5, <3>3
        <4>2. h[p] \in Serving
          BY <4>1, ServingHandler DEF CreateTemp
        <4>3. h'[p].pc # "relay"
          BY <2>5, <3>3
        <4>4. ~Goto(p, "relay")
          BY <4>2, <4>3 DEF Goto, TypeOK, Serving
        <4>5. temp' = [temp EXCEPT ![p] = NewFile(p, FALSE)] /\ clock' = clock
              /\ h[p].pc \in Fetching
          BY <4>1, <4>4 DEF CreateTemp, Fetching
        <4>6. QED
          BY <3>2, <3>3, <4>1, <4>2, <4>5
      <3>4. CASE q = p /\ s.pc = "rename"
        <4>1. Stream(p) /\ h'[p] = [h[p] EXCEPT !.pc = "rename"]
          BY <2>2, <2>5, <3>4
        <4>2. h[p] \in Serving
          BY <4>1, ServingHandler DEF Stream
        <4>3. h'[p] # Idle
          BY <2>5, <3>4, IdleIsNotServing
        <4>4. ~Finish(p)
          BY <4>3 DEF Finish, TypeOK
        <4>5. temp' = [temp EXCEPT ![p] = NewFile(p, TRUE)] /\ clock' = clock
              /\ h[p].pc \in Fetching
          BY <4>1, <4>4 DEF Stream, Fetching
        <4>6. QED
          BY <3>2, <3>4, <4>1, <4>2, <4>5
      <3>5. QED
        BY <2>5, <3>1, <3>3, <3>4
    <2>6. QED
      BY <2>4, <2>5 DEF TempsAreTrue
  <1>5. CASE Cleanup
    BY <1>3, <1>5 DEF Cleanup, BeginCycle, Scan, Evict, EndRepo
  <1>6. CASE Administer
    BY <1>3, <1>6 DEF Administer, AdminOnly, CreateCachedRepo, DeleteCachedRepo, BeginUpdate,
                      UpdateCachedRepo
  <1>7. CASE ChangeAccess
    <2>1. UNCHANGED temp
      BY <1>7 DEF ChangeAccess
    <2>2. QED
      BY <1>3, <1>7, <2>1, AccessRequests
  <1>8. CASE Tick
    BY <1>3, <1>8 DEF Tick
  <1>9. CASE Crash
    <2>1. h' = [p \in Handler |-> Idle] /\ temp' = [p \in Handler |-> None]
      BY <1>9 DEF Crash
    <2>2. QED
      BY <2>1, IdleIsNotServing DEF TempsAreTrue
  <1>10. CASE UNCHANGED vars
    BY <1>3, <1>10 DEF vars
  <1>11. QED
    BY <1>4, <1>5, <1>6, <1>7, <1>8, <1>9, <1>10 DEF Next

-----------------------------------------------------------------------------
(* The names that are present.                                             *)

LEMMA PresentAfter ==
  ASSUME TypeOK, NEW n \in Name, NEW f, files' = [files EXCEPT ![n] = f], NEW r \in Repo
  PROVE  /\ n[1] = r /\ f # None => Present(r)' = Present(r) \cup {n}
         /\ ~(n[1] = r /\ f # None) => Present(r)' = Present(r) \ {n}
  <1>1. \A m \in Name : files'[m] = IF m = n THEN f ELSE files[m]
    BY DEF TypeOK
  <1>2. CASE n[1] = r /\ f # None
    BY <1>1, <1>2 DEF Present
  <1>3. CASE ~(n[1] = r /\ f # None)
    BY <1>1, <1>3 DEF Present
  <1>4. QED
    BY <1>2, <1>3

LEMMA TouchKeepsNames ==
  ASSUME TypeOK, RequestsAreGood, FilesAreTrue, MarksAreLater, NEW p \in Handler, Touch(p),
         NEW r \in Repo
  PROVE  Present(r)' = Present(r)
  <1>1. Path(p) \in Name
    BY AtCommand DEF Touch, Fetching
  <1>2. \A n \in Name : files'[n] = None <=> files[n] = None
    <2>1. ASSUME NEW now \in h[p].since..clock, files[Path(p)] # None,
                 files' = [files EXCEPT ![Path(p)] = Touched(files[Path(p)], p, now)]
          PROVE  \A n \in Name : files'[n] = None <=> files[n] = None
      <3>1. Touched(files[Path(p)], p, now) # None
        BY <2>1, TouchedIsTrue, FileIsSomething DEF Touch
      <3>2. QED
        BY <1>1, <2>1, <3>1 DEF TypeOK
    <2>2. QED
      BY <2>1, TouchSteps
  <1>3. QED
    BY <1>2 DEF Present

\* A response that is stored adds a name, and takes back what was established.
LEMMA RenameAddsName ==
  ASSUME TypeOK, RequestsAreGood, TempsAreTrue, NEW p \in Handler, Rename(p), NEW r \in Repo
  PROVE  \/ /\ Present(r)' = Present(r)
            /\ enforced' = enforced \/ enforced' = [enforced EXCEPT ![h[p].repo] = None]
            /\ \/ cleaner' = cleaner
               \/ cleaner.pc = "evict" /\ cleaner' = [cleaner EXCEPT !.met = TRUE]
         \/ /\ Present(r)' = Present(r) \cup {Path(p)} /\ r = h[p].repo
            /\ enforced' = [enforced EXCEPT ![r] = None]
            /\ cleaner' = IF cleaner.pc = "evict" /\ cleaner.repo = r
                          THEN [cleaner EXCEPT !.met = TRUE] ELSE cleaner
  <1>1. Stored(p) \in File /\ Path(p) \in Name /\ Stored(p) # None
    BY RenamedIsTrue, FileIsSomething
  <1>2. CASE UNCHANGED <<files, enforced, cleaner>>
    BY <1>2 DEF Present
  <1>3. CASE ~UNCHANGED <<files, enforced, cleaner>>
    <2>1. /\ files' = [files EXCEPT ![Path(p)] = Stored(p)]
          /\ enforced' = [enforced EXCEPT ![h[p].repo] = None]
          /\ cleaner' = IF cleaner.pc = "evict" /\ cleaner.repo = h[p].repo
                        THEN [cleaner EXCEPT !.met = TRUE] ELSE cleaner
      BY <1>3 DEF Rename
    <2>2. Path(p)[1] = h[p].repo
      BY DEF Path
    <2>3. CASE r = h[p].repo
      BY <1>1, <2>1, <2>2, <2>3, PresentAfter
    <2>4. CASE r # h[p].repo
      <3>1. Present(r)' = Present(r) \ {Path(p)} /\ Path(p) \notin Present(r)
        BY <1>1, <2>1, <2>2, <2>4, PresentAfter DEF Present
      <3>2. Present(r)' = Present(r)
        BY <3>1
      <3>3. QED
        BY <2>1, <3>2
    <2>5. QED
      BY <2>3, <2>4
  <1>4. QED
    BY <1>2, <1>3

LEMMA EvictRemovesName ==
  ASSUME TypeOK, Evict
  PROVE  \E f \in cleaner.left :
           /\ f.name \in Name
           /\ \A g \in cleaner.left : f.mtime <= g.mtime
           /\ \/ Settle(f, TRUE) /\ \A r \in Repo : Present(r)' = Present(r) \ {f.name}
              \/ Settle(f, FALSE) /\ \A r \in Repo : Present(r)' = Present(r)
  <1>1. PICK f \in cleaner.left :
          /\ \A g \in cleaner.left : f.mtime <= g.mtime
          /\ \/ files' = [files EXCEPT ![f.name] = None] /\ Settle(f, TRUE)
             \/ UNCHANGED files /\ Settle(f, FALSE)
    BY DEF Evict
  <1>2. f.name \in Name
    BY CleanerCases DEF Evict, Evicting, Seen
  <1>3. CASE files' = [files EXCEPT ![f.name] = None] /\ Settle(f, TRUE)
    BY <1>1, <1>2, <1>3, PresentAfter
  <1>4. CASE UNCHANGED files /\ Settle(f, FALSE)
    BY <1>1, <1>2, <1>4 DEF Present
  <1>5. QED
    BY <1>1, <1>3, <1>4

LEMMA NamesStayFinite ==
  ASSUME TypeOK, RequestsAreGood, FilesAreTrue, TempsAreTrue, MarksAreLater, FilesAreFinite,
         [Next]_vars
  PROVE  FilesAreFinite'
  <1> SUFFICES ASSUME NEW r \in Repo PROVE IsFiniteSet(Present(r)')
    BY DEF FilesAreFinite
  <1>1. IsFiniteSet(Present(r))
    BY DEF FilesAreFinite
  <1>2. CASE UNCHANGED files
    BY <1>1, <1>2 DEF Present
  <1>3. CASE Evict
    <2>1. PICK f \in cleaner.left : Present(r)' = Present(r) \ {f.name} \/ Present(r)' = Present(r)
      BY <1>3, EvictRemovesName
    <2>2. QED
      BY <1>1, <2>1, FS_RemoveElement
  <1>4. ASSUME NEW p \in Handler, Touch(p) PROVE IsFiniteSet(Present(r)')
    BY <1>1, <1>4, TouchKeepsNames
  <1>5. ASSUME NEW p \in Handler, Rename(p) PROVE IsFiniteSet(Present(r)')
    <2>1. Present(r)' = Present(r) \/ Present(r)' = Present(r) \cup {Path(p)}
      BY <1>5, RenameAddsName
    <2>2. QED
      BY <1>1, <2>1, FS_AddElement
  <1>6. QED
    BY <1>2, <1>3, <1>4, <1>5, FileSteps

-----------------------------------------------------------------------------
(* The cleanup.                                                            *)

\* A scan finds each file once.
LEMMA FoundOnce ==
  ASSUME TypeOK, FilesAreTrue, FilesAreFinite, NEW r \in Repo
  PROVE  /\ Found(r) \subseteq Seen /\ IsFiniteSet(Found(r)) /\ Cardinality(Found(r)) \in Nat
         /\ Cardinality(Present(r)) <= Cardinality(Found(r))
         /\ \A f \in Found(r) : f.used <= f.mtime /\ f.name \in Present(r)
         /\ \A f, g \in Found(r) : f.name = g.name => f = g
  <1> DEFINE seen(n) == [name |-> n, mtime |-> files[n].mtime, used |-> files[n].used]
  <1>1. ASSUME NEW n \in Present(r)
        PROVE  n \in Name /\ files[n] \in File /\ files[n].used <= files[n].mtime
    BY DEF Present, TypeOK, FilesAreTrue
  <1>2. \A f \in Found(r) : f.name \in Present(r) /\ f = seen(f.name)
    BY DEF Found
  <1>3. \A n \in Present(r) : seen(n) \in Seen /\ seen(n).used <= seen(n).mtime /\ seen(n).name = n
    BY <1>1 DEF Seen, File
  <1>4. \A n \in Present(r) : seen(n) \in Found(r)
    BY DEF Found
  <1> HIDE DEF seen
  <1>5. IsFiniteSet(Found(r))
    <2>1. [n \in Present(r) |-> seen(n)] \in Surjection(Present(r), Found(r))
      BY <1>2, <1>4 DEF Surjection
    <2>2. QED
      BY <2>1, FS_Surjection DEF FilesAreFinite
  <1>6. Cardinality(Present(r)) <= Cardinality(Found(r))
    <2>1. [f \in Found(r) |-> f.name] \in Surjection(Found(r), Present(r))
      BY <1>2, <1>3, <1>4 DEF Surjection
    <2>2. QED
      BY <1>5, <2>1, FS_Surjection
  <1>7. Cardinality(Found(r)) \in Nat
    BY <1>5, FS_CardinalityType
  <1>8. \A f \in Found(r) : f \in Seen /\ f.used <= f.mtime
    BY <1>2, <1>3
  <1>9. QED
    BY <1>2, <1>5, <1>6, <1>7, <1>8

LEMMA CleanerSteps ==
  ASSUME [Next]_vars
  PROVE  \/ UNCHANGED <<files, cleaner, enforced>>
         \/ UNCHANGED <<cleaner, enforced>> /\ \E p \in Handler : Touch(p)
         \/ \E p \in Handler : Rename(p)
         \/ Crash /\ UNCHANGED <<files, enforced>> /\ cleaner' = Rest
         \/ Cleanup
  BY DEF Next, vars, Serve, Arrive, Get, HandleLsRefs, Refuse, OpenResponse, Touch, Send, Ask,
         CreateTemp, Stream, Administer, AdminOnly, CreateCachedRepo, DeleteCachedRepo, BeginUpdate,
         UpdateCachedRepo, ChangeAccess, Tick, Crash

LEMMA NextRepoType ==
  ASSUME TypeOK, cleaner.pc \in {"scan", "evict"}, NEW t
  PROVE  NextRepo(t) \in {Rest} \cup Scanning
  <1>1. cleaner.todo \in Todo
    BY CleanerCases DEF Scanning, Evicting
  <1>2. QED
    BY <1>1 DEF NextRepo, Scanning, Todo

LEMMA ToScan ==
  ASSUME TypeOK, cleaner.pc = "scan", NEW t \in cleaner.todo
  PROVE  t \in Repo \X Limit /\ t[1] \in Repo /\ t[2] \in (Nat \ {0}) \cup {None}
         /\ cleaner.todo \in Todo
  <1>1. cleaner.todo \in Todo
    BY CleanerCases DEF Scanning
  <1>2. QED
    BY <1>1, CacheAssumption DEF Todo

LEMMA NotEvicting ==
  ASSUME cleaner' \in {Rest} \cup Scanning
  PROVE  CleanerIsTrue'
  BY DEF CleanerIsTrue, Rest, Scanning, Evicting

LEMMA EvictingIsSound ==
  ASSUME TypeOK, FilesAreFinite, CleanerIsTrue, cleaner \in Evicting, NEW r \in Repo, cleaner.repo = r
  PROVE  /\ Sound(cleaner, Present(r)) /\ IsFiniteSet(Present(r)) /\ Cardinality(Present(r)) \in Nat
         /\ cleaner.total \in Int /\ cleaner.limit \in Nat
         /\ cleaner.left \subseteq Seen /\ cleaner.gone \subseteq Seen
  <1>1. Present(r) \in SUBSET Name
    BY DEF Present
  <1>2. Sound(cleaner, Present(r))
    BY <1>1 DEF CleanerIsTrue
  <1>3. IsFiniteSet(Present(r))
    BY DEF FilesAreFinite
  <1>4. QED
    BY <1>2, <1>3, FS_CardinalityType DEF Evicting

\* The three steps after which it is evicting.
LEMMA ScanIsSound ==
  ASSUME TypeOK, FilesAreTrue, FilesAreFinite, Scan
  PROVE  cleaner' \in {Rest} \cup Scanning \cup Evicting /\ CleanerIsTrue'
  <1>1. PICK t \in cleaner.todo :
          \/ cleaner' = NextRepo(t)
          \/ \E S \in SUBSET Found(t[1]) :
               /\ t[2] # None
               /\ cleaner' = [pc |-> "evict", todo |-> cleaner.todo, repo |-> t[1], limit |-> t[2],
                              left |-> S, gone |-> {}, total |-> Cardinality(S),
                              met |-> S # Found(t[1])]
    BY DEF Scan
  <1>2. CASE cleaner' = NextRepo(t)
    BY <1>2, NextRepoType, NotEvicting DEF Scan
  <1>3. CASE cleaner' # NextRepo(t)
    <2>1. PICK r \in Repo, limit \in Nat : t[1] = r /\ t[2] = limit
      BY <1>1, <1>3, ToScan DEF Scan
    <2>2. PICK S \in SUBSET Found(r) :
            cleaner' = [pc |-> "evict", todo |-> cleaner.todo, repo |-> r, limit |-> limit,
                        left |-> S, gone |-> {}, total |-> Cardinality(S), met |-> S # Found(r)]
      BY <1>1, <1>3, <2>1
    <2>3. /\ S \subseteq Seen /\ Cardinality(S) \in Nat
          /\ S = Found(r) => Cardinality(Present(r)) <= Cardinality(S)
          /\ \A f \in S : f.used <= f.mtime /\ f.name \in Present(r)
          /\ \A f, g \in S : f.name = g.name => f = g
      <3>1. IsFiniteSet(S)
        BY FoundOnce, FS_Subset
      <3>2. QED
        BY <3>1, FoundOnce, FS_CardinalityType
    <2>4. cleaner' \in Evicting
      BY <2>2, <2>3, ToScan DEF Scan, Evicting
    <2>5. Present(r)' = Present(r)
      BY DEF Scan, Present
    <2>6. cleaner'.repo = r /\ cleaner'.left = S /\ cleaner'.gone = {}
          /\ cleaner'.total = Cardinality(S) /\ cleaner'.met = (S # Found(r))
      BY <2>2
    <2>7. Sound(cleaner', Present(r))
      BY <2>3, <2>6 DEF Sound
    <2>8. QED
      BY <2>4, <2>5, <2>6, <2>7 DEF CleanerIsTrue
  <1>4. QED
    BY <1>2, <1>3

LEMMA EvictIsSound ==
  ASSUME TypeOK, FilesAreFinite, CleanerIsTrue, Evict
  PROVE  cleaner' \in Evicting /\ CleanerIsTrue'
  <1>1. cleaner \in Evicting
    BY CleanerCases DEF Evict
  <1>2. PICK r \in Repo : cleaner.repo = r
    BY <1>1 DEF Evicting
  <1>3. /\ Sound(cleaner, Present(r)) /\ IsFiniteSet(Present(r)) /\ Cardinality(Present(r)) \in Nat
        /\ cleaner.total \in Int /\ cleaner.left \subseteq Seen /\ cleaner.gone \subseteq Seen
    BY <1>1, <1>2, EvictingIsSound
  <1>4. PICK f \in cleaner.left :
          /\ f.name \in Name
          /\ \A g \in cleaner.left : f.mtime <= g.mtime
          /\ \/ Settle(f, TRUE) /\ Present(r)' = Present(r) \ {f.name}
             \/ Settle(f, FALSE) /\ Present(r)' = Present(r)
    BY EvictRemovesName
  <1>5. f \in Seen /\ f.used \in Nat /\ f.mtime \in Nat /\ f.used <= f.mtime
        /\ f.name \in Present(r)
    BY <1>3 DEF Sound, Seen
  <1>6. ASSUME NEW g \in cleaner.left PROVE g.mtime \in Nat /\ f.used <= g.mtime
    BY <1>3, <1>4, <1>5 DEF Seen
  <1>7. ASSUME NEW g \in cleaner.left \ {f} PROVE g.name # f.name
    BY <1>3 DEF Sound
  <1>8. CASE Settle(f, TRUE) /\ Present(r)' = Present(r) \ {f.name}
    <2>1. cleaner' = [cleaner EXCEPT !.left = cleaner.left \ {f}, !.total = cleaner.total - 1,
                                     !.gone = cleaner.gone \cup {f}]
      BY <1>8 DEF Settle
    <2>2. cleaner' \in Evicting
      <3>1. /\ cleaner.left \ {f} \in SUBSET Seen /\ cleaner.gone \cup {f} \in SUBSET Seen
            /\ cleaner.total - 1 \in Int
        BY <1>3, <1>5
      <3>2. QED
        BY <1>1, <2>1, <3>1 DEF Evicting
    <2>3. /\ cleaner'.left = cleaner.left \ {f} /\ cleaner'.total = cleaner.total - 1
          /\ cleaner'.gone = cleaner.gone \cup {f} /\ cleaner'.met = cleaner.met
          /\ cleaner'.repo = r
      BY <1>1, <1>2, <2>1 DEF Evicting
    <2>4. Cardinality(Present(r) \ {f.name}) = Cardinality(Present(r)) - 1
      BY <1>3, <1>5, FS_RemoveElement
    <2>5. Sound(cleaner', Present(r) \ {f.name})
      <3>1. \A g \in cleaner'.left : g.used <= g.mtime /\ g.name \in Present(r) \ {f.name}
        BY <1>3, <1>7, <2>3 DEF Sound
      <3>2. \A g, k \in cleaner'.left : g.name = k.name => g = k
        BY <1>3, <2>3 DEF Sound
      <3>3. \A k \in cleaner'.gone, g \in cleaner'.left : k.used <= g.mtime
        BY <1>3, <1>6, <2>3 DEF Sound
      <3>4. ~cleaner'.met => Cardinality(Present(r) \ {f.name}) <= cleaner'.total
        BY <1>3, <2>3, <2>4 DEF Sound
      <3>5. QED
        BY <3>1, <3>2, <3>3, <3>4 DEF Sound
    <2>6. QED
      BY <1>8, <2>2, <2>3, <2>5 DEF CleanerIsTrue
  <1>9. CASE Settle(f, FALSE) /\ Present(r)' = Present(r)
    <2>1. cleaner' = [cleaner EXCEPT !.left = cleaner.left \ {f}, !.total = cleaner.total,
                                     !.gone = cleaner.gone]
      BY <1>9 DEF Settle
    <2>2. cleaner' \in Evicting
      BY <1>1, <1>3, <2>1 DEF Evicting
    <2>3. /\ cleaner'.left = cleaner.left \ {f} /\ cleaner'.total = cleaner.total
          /\ cleaner'.gone = cleaner.gone /\ cleaner'.met = cleaner.met /\ cleaner'.repo = r
      BY <1>1, <1>2, <2>1 DEF Evicting
    <2>4. Sound(cleaner', Present(r))
      BY <1>3, <2>3 DEF Sound
    <2>5. QED
      BY <1>9, <2>2, <2>3, <2>4 DEF CleanerIsTrue
  <1>10. QED
    BY <1>4, <1>8, <1>9

LEMMA RenameIsSound ==
  ASSUME TypeOK, RequestsAreGood, TempsAreTrue, FilesAreFinite, CleanerIsTrue,
         NEW p \in Handler, Rename(p)
  PROVE  cleaner' \in {Rest} \cup Scanning \cup Evicting /\ CleanerIsTrue'
  <1>1. CASE cleaner.pc # "evict"
    <2>1. cleaner' = cleaner
      BY <1>1 DEF Rename
    <2>2. cleaner' \in {Rest} \cup Scanning
      BY <1>1, <2>1 DEF TypeOK, Evicting
    <2>3. QED
      BY <2>2, NotEvicting
  <1>2. CASE cleaner.pc = "evict"
    <2>1. cleaner \in Evicting
      BY <1>2, CleanerCases
    <2>2. PICK r \in Repo : cleaner.repo = r
      BY <2>1 DEF Evicting
    <2>3. Sound(cleaner, Present(r))
      BY <2>1, <2>2, EvictingIsSound
    <2>4. \/ Present(r)' = Present(r) /\ cleaner' = cleaner
          \/ Present(r) \subseteq Present(r)' /\ cleaner' = [cleaner EXCEPT !.met = TRUE]
      BY <1>2, <2>2, RenameAddsName
    <2>5. CASE Present(r)' = Present(r) /\ cleaner' = cleaner
      BY <2>1, <2>2, <2>3, <2>5 DEF CleanerIsTrue
    <2>6. CASE Present(r) \subseteq Present(r)' /\ cleaner' = [cleaner EXCEPT !.met = TRUE]
      <3>1. cleaner' \in Evicting
        BY <2>1, <2>6 DEF Evicting
      <3>2. /\ cleaner'.left = cleaner.left /\ cleaner'.gone = cleaner.gone
            /\ cleaner'.repo = r /\ cleaner'.met
        BY <2>1, <2>2, <2>6 DEF Evicting
      <3>3. Sound(cleaner', Present(r)')
        BY <2>3, <2>6, <3>2 DEF Sound
      <3>4. QED
        BY <3>1, <3>2, <3>3 DEF CleanerIsTrue
    <2>7. QED
      BY <2>4, <2>5, <2>6
  <1>3. QED
    BY <1>1, <1>2

LEMMA CleanerKept ==
  ASSUME TypeOK, RequestsAreGood, FilesAreTrue, TempsAreTrue, MarksAreLater, FilesAreFinite,
         CleanerIsTrue, [Next]_vars
  PROVE  cleaner' \in {Rest} \cup Scanning \cup Evicting /\ CleanerIsTrue'
  <1>1. ASSUME cleaner' = cleaner, \A r \in Repo : Present(r)' = Present(r)
        PROVE  cleaner' \in {Rest} \cup Scanning \cup Evicting /\ CleanerIsTrue'
    <2>1. cleaner' \in {Rest} \cup Scanning \cup Evicting
      BY <1>1 DEF TypeOK
    <2>2. ASSUME NEW c \in Evicting, NEW present \in SUBSET Name,
                 cleaner' = c, Present(c.repo)' = present
          PROVE  Sound(c, present)
      <3>1. PICK r \in Repo : c.repo = r
        BY DEF Evicting
      <3>2. Present(c.repo)' = Present(c.repo)
        BY <1>1, <3>1
      <3>3. QED
        BY <1>1, <2>2, <3>2 DEF CleanerIsTrue
    <2>3. QED
      BY <2>1, <2>2 DEF CleanerIsTrue
  <1>2. CASE UNCHANGED <<files, cleaner, enforced>>
    BY <1>1, <1>2 DEF Present
  <1>3. ASSUME UNCHANGED <<cleaner, enforced>>, NEW p \in Handler, Touch(p)
        PROVE  cleaner' \in {Rest} \cup Scanning \cup Evicting /\ CleanerIsTrue'
    BY <1>1, <1>3, TouchKeepsNames
  <1>4. ASSUME NEW p \in Handler, Rename(p)
        PROVE  cleaner' \in {Rest} \cup Scanning \cup Evicting /\ CleanerIsTrue'
    BY <1>4, RenameIsSound
  <1>5. CASE cleaner' = Rest
    BY <1>5, NotEvicting
  <1>6. CASE BeginCycle
    <2>1. cleaner' = [pc |-> "scan", todo |-> {<<r, rows[r].limit>> : r \in {r \in Repo : rows[r] # None}}]
      BY <1>6 DEF BeginCycle
    <2>2. \A r \in {r \in Repo : rows[r] # None} : <<r, rows[r].limit>> \in Repo \X Limit
      BY DEF TypeOK, Row
    <2>3. cleaner' \in Scanning
      BY <2>1, <2>2 DEF Scanning, Todo
    <2>4. QED
      BY <2>3, NotEvicting
  <1>7. CASE Scan
    BY <1>7, ScanIsSound
  <1>8. CASE Evict
    BY <1>8, EvictIsSound
  <1>9. CASE EndRepo
    BY <1>9, NextRepoType, NotEvicting DEF EndRepo
  <1>10. QED
    BY <1>2, <1>3, <1>4, <1>5, <1>6, <1>7, <1>8, <1>9, CleanerSteps DEF Cleanup

\* The limit that was established.
LEMMA LimitKept ==
  ASSUME TypeOK, RequestsAreGood, FilesAreTrue, TempsAreTrue, MarksAreLater, FilesAreFinite,
         CleanerIsTrue, EnforcedLimitHolds, [Next]_vars
  PROVE  enforced' \in [Repo -> Nat \cup {None}] /\ EnforcedLimitHolds'
  <1>1. ASSUME NEW r \in Repo
        PROVE  Cardinality(Present(r)) \in Nat /\ IsFiniteSet(Present(r))
    BY FS_CardinalityType DEF FilesAreFinite
  <1>2. ASSUME enforced' = enforced, \A r \in Repo : Present(r)' = Present(r)
        PROVE  enforced' \in [Repo -> Nat \cup {None}] /\ EnforcedLimitHolds'
    BY <1>2 DEF TypeOK, EnforcedLimitHolds
  <1>3. CASE UNCHANGED <<files, cleaner, enforced>> \/ BeginCycle \/ Crash
    BY <1>2, <1>3 DEF Present, BeginCycle, Crash
  <1>4. ASSUME UNCHANGED <<cleaner, enforced>>, NEW p \in Handler, Touch(p)
        PROVE  enforced' \in [Repo -> Nat \cup {None}] /\ EnforcedLimitHolds'
    BY <1>2, <1>4, TouchKeepsNames
  <1>5. ASSUME NEW p \in Handler, Rename(p)
        PROVE  enforced' \in [Repo -> Nat \cup {None}] /\ EnforcedLimitHolds'
    <2>1. h[p].repo \in Repo
      BY <1>5, ServingHandler DEF Rename
    <2>2. enforced' = enforced \/ enforced' = [enforced EXCEPT ![h[p].repo] = None]
      BY <1>5 DEF Rename
    <2>3. enforced' \in [Repo -> Nat \cup {None}]
      BY <2>2 DEF TypeOK
    <2>4. ASSUME NEW r \in Repo, enforced'[r] # None
          PROVE  Cardinality(Present(r)') <= enforced'[r]
      <3>1. enforced'[r] = enforced[r]
        BY <2>1, <2>2, <2>4 DEF TypeOK
      <3>2. Present(r)' = Present(r)
        BY <1>5, <2>4, RenameAddsName DEF TypeOK
      <3>3. QED
        BY <2>4, <3>1, <3>2 DEF EnforcedLimitHolds
    <2>5. QED
      BY <2>3, <2>4 DEF EnforcedLimitHolds
  <1>6. ASSUME NEW r \in Repo, NEW limit \in Nat \cup {None},
               limit # None => Cardinality(Present(r)) <= limit,
               enforced' = [enforced EXCEPT ![r] = limit], UNCHANGED files
        PROVE  enforced' \in [Repo -> Nat \cup {None}] /\ EnforcedLimitHolds'
    <2>1. enforced' \in [Repo -> Nat \cup {None}]
      BY <1>6 DEF TypeOK
    <2>2. ASSUME NEW s \in Repo, enforced'[s] # None
          PROVE  Cardinality(Present(s)') <= enforced'[s]
      <3>1. Present(s)' = Present(s)
        BY <1>6 DEF Present
      <3>2. CASE s = r
        BY <1>6, <2>2, <3>1, <3>2 DEF TypeOK
      <3>3. CASE s # r
        BY <1>6, <2>2, <3>1, <3>3 DEF TypeOK, EnforcedLimitHolds
      <3>4. QED
        BY <3>2, <3>3
    <2>3. QED
      BY <2>1, <2>2 DEF EnforcedLimitHolds
  <1>7. CASE Scan
    <2>1. PICK t \in cleaner.todo :
            \/ UNCHANGED enforced
            \/ /\ t[2] = None \/ Cardinality(Found(t[1])) <= t[2]
               /\ enforced' = [enforced EXCEPT ![t[1]] = t[2]]
      BY <1>7 DEF Scan
    <2>2. UNCHANGED files
      BY <1>7 DEF Scan
    <2>3. PICK r \in Repo, limit \in Nat \cup {None} : t[1] = r /\ t[2] = limit
      BY <1>7, ToScan DEF Scan
    <2>4. CASE UNCHANGED enforced
      BY <1>2, <2>2, <2>4 DEF Present
    <2>5. CASE ~UNCHANGED enforced
      <3>1. limit = None \/ Cardinality(Found(r)) <= limit
        BY <2>1, <2>3, <2>5
      <3>2. Cardinality(Present(r)) <= Cardinality(Found(r)) /\ Cardinality(Found(r)) \in Nat
        BY FoundOnce
      <3>3. limit # None => Cardinality(Present(r)) <= limit
        BY <1>1, <3>1, <3>2
      <3>4. enforced' = [enforced EXCEPT ![r] = limit]
        BY <2>1, <2>3, <2>5
      <3>5. QED
        BY <1>6, <2>2, <3>3, <3>4
    <2>6. QED
      BY <2>4, <2>5
  <1>8. CASE Evict
    <2>1. UNCHANGED enforced
      BY <1>8 DEF Evict
    <2>2. ASSUME NEW r \in Repo
          PROVE  Cardinality(Present(r)') <= Cardinality(Present(r)) /\ Cardinality(Present(r)') \in Nat
      <3>1. Present(r)' \subseteq Present(r)
        BY <1>8, EvictRemovesName
      <3>2. QED
        BY <1>1, <3>1, FS_Subset, FS_CardinalityType
    <2>3. ASSUME NEW r \in Repo, enforced'[r] # None
          PROVE  Cardinality(Present(r)') <= enforced'[r]
      <3>1. enforced'[r] \in Nat /\ Cardinality(Present(r)) <= enforced'[r]
        BY <2>1, <2>3 DEF TypeOK, EnforcedLimitHolds
      <3>2. QED
        BY <1>1, <2>2, <3>1
    <2>4. QED
      BY <2>1, <2>3 DEF TypeOK, EnforcedLimitHolds
  <1>9. CASE EndRepo
    <2>1. cleaner \in Evicting
      BY <1>9, CleanerCases DEF EndRepo
    <2>2. PICK r \in Repo : cleaner.repo = r
      BY <2>1 DEF Evicting
    <2>3. Sound(cleaner, Present(r)) /\ cleaner.total \in Int /\ cleaner.limit \in Nat
      BY <2>1, <2>2, EvictingIsSound
    <2>4. PICK limit \in Nat \cup {None} :
            limit = IF cleaner.met \/ cleaner.total > cleaner.limit THEN None ELSE cleaner.limit
      BY <2>3
    <2>5. limit # None => Cardinality(Present(r)) <= limit
      BY <1>1, <2>3, <2>4 DEF Sound
    <2>6. enforced' = [enforced EXCEPT ![r] = limit] /\ UNCHANGED files
      BY <1>9, <2>2, <2>4 DEF EndRepo
    <2>7. QED
      BY <1>6, <2>5, <2>6
  <1>10. QED
    BY <1>3, <1>4, <1>5, <1>7, <1>8, <1>9, CleanerSteps DEF Cleanup

-----------------------------------------------------------------------------
(* The other variables.                                                    *)

LEMMA RowsKept ==
  ASSUME TypeOK, [Next]_vars
  PROVE  rows' \in [Repo -> Row \cup {None}] /\ ids' \in Nat
         /\ edit' \in [Admin -> (Repo \X Row) \cup {None}]
  <1> USE DEF TypeOK
  <1>1. CASE UNCHANGED <<rows, ids, edit>>
    BY <1>1
  <1>2. CASE CreateCachedRepo
    <2>1. PICK r \in Repo, on \in BOOLEAN, limit \in Limit :
            rows' = [rows EXCEPT ![r] = [id |-> ids + 1, enabled |-> on, limit |-> limit]]
      BY <1>2 DEF CreateCachedRepo
    <2>2. [id |-> ids + 1, enabled |-> on, limit |-> limit] \in Row
      BY DEF Row
    <2>3. QED
      BY <1>2, <2>1, <2>2 DEF CreateCachedRepo
  <1>3. CASE DeleteCachedRepo
    BY <1>3 DEF DeleteCachedRepo
  <1>4. ASSUME NEW a \in Admin, BeginUpdate(a)
        PROVE  rows' \in [Repo -> Row \cup {None}] /\ ids' \in Nat
               /\ edit' \in [Admin -> (Repo \X Row) \cup {None}]
    <2>1. PICK r \in Repo :
            /\ rows[r] # None
            /\ \/ \E on \in BOOLEAN : edit' = [edit EXCEPT ![a] = <<r, [rows[r] EXCEPT !.enabled = on]>>]
               \/ \E limit \in Limit : edit' = [edit EXCEPT ![a] = <<r, [rows[r] EXCEPT !.limit = limit]>>]
      BY <1>4 DEF BeginUpdate
    <2>2. rows[r] \in Row
      BY <2>1
    <2>3. \E new \in Row : edit' = [edit EXCEPT ![a] = <<r, new>>]
      <3>1. \A on \in BOOLEAN : [rows[r] EXCEPT !.enabled = on] \in Row
        BY <2>2 DEF Row
      <3>2. \A limit \in Limit : [rows[r] EXCEPT !.limit = limit] \in Row
        BY <2>2 DEF Row
      <3>3. QED
        BY <2>1, <3>1, <3>2
    <2>4. QED
      BY <1>4, <2>3 DEF BeginUpdate
  <1>5. ASSUME NEW a \in Admin, UpdateCachedRepo(a)
        PROVE  rows' \in [Repo -> Row \cup {None}] /\ ids' \in Nat
               /\ edit' \in [Admin -> (Repo \X Row) \cup {None}]
    <2>1. edit[a] \in Repo \X Row
      BY <1>5 DEF UpdateCachedRepo
    <2>2. PICK r \in Repo, new \in Row : edit[a][1] = r /\ edit[a][2] = new
      BY <2>1
    <2>3. rows' = IF rows[r] # None /\ rows[r].id = new.id THEN [rows EXCEPT ![r] = new] ELSE rows
      BY <1>5, <2>2 DEF UpdateCachedRepo
    <2>4. QED
      BY <1>5, <2>3 DEF UpdateCachedRepo
  <1>6. CASE Crash
    BY <1>6 DEF Crash
  <1>7. QED
    BY <1>1, <1>2, <1>3, <1>4, <1>5, <1>6
    DEF Next, vars, tables, Serve, Arrive, Get, HandleLsRefs, Refuse, OpenResponse, Touch, Send, Ask,
        CreateTemp, Stream, Rename, Cleanup, BeginCycle, Scan, Evict, EndRepo, Administer,
        ChangeAccess, Tick

LEMMA OthersKept ==
  ASSUME TypeOK, RequestsAreGood, [Next]_vars
  PROVE  opened' \subseteq Repo /\ access' \subseteq Repo /\ orphans' \in Nat
  <1>1. access' \subseteq Repo
    <2>1. UNCHANGED access \/ ChangeAccess
      BY DEF Next, vars, Serve, Arrive, Get, HandleLsRefs, Refuse, OpenResponse, Touch, Send, Ask,
             CreateTemp, Stream, Rename, Cleanup, BeginCycle, Scan, Evict, EndRepo, Administer,
             AdminOnly, CreateCachedRepo, DeleteCachedRepo, BeginUpdate, UpdateCachedRepo, Tick, Crash
    <2>2. QED
      BY <2>1 DEF TypeOK, ChangeAccess
  <1>2. opened' \subseteq Repo
    <2>1. UNCHANGED opened \/ Crash \/ \E p \in Handler : Get(p)
      BY DEF Next, vars, Serve, Arrive, HandleLsRefs, Refuse, OpenResponse, Touch, Send, Ask,
             CreateTemp, Stream, Rename, Cleanup, BeginCycle, Scan, Evict, EndRepo, Administer,
             AdminOnly, CreateCachedRepo, DeleteCachedRepo, BeginUpdate, UpdateCachedRepo,
             ChangeAccess, Tick
    <2>2. ASSUME NEW p \in Handler, Get(p) PROVE opened' \subseteq Repo
      <3>1. h[p].repo \in Repo
        BY <2>2, ServingHandler DEF Get
      <3>2. QED
        BY <2>2, <3>1 DEF Get, TypeOK
    <2>3. QED
      BY <2>1, <2>2 DEF TypeOK, Crash
  <1>3. orphans' \in Nat
    <2>1. UNCHANGED orphans \/ Crash
      BY DEF Next, vars, Serve, Arrive, Get, HandleLsRefs, Refuse, OpenResponse, Touch, Send, Ask,
             CreateTemp, Stream, Rename, Cleanup, BeginCycle, Scan, Evict, EndRepo, Administer,
             AdminOnly, CreateCachedRepo, DeleteCachedRepo, BeginUpdate, UpdateCachedRepo,
             ChangeAccess, Tick
    <2>2. {p \in Handler : temp[p] # None} \in SUBSET Handler
      OBVIOUS
    <2>3. Cardinality({p \in Handler : temp[p] # None}) \in Nat
      BY <2>2, CacheAssumption, FS_Subset, FS_CardinalityType
    <2>4. QED
      BY <2>1, <2>3 DEF TypeOK, Crash
  <1>4. QED
    BY <1>1, <1>2, <1>3

-----------------------------------------------------------------------------
(* The theorems.                                                           *)

LEMMA InitIInv == Init => IInv
  <1> SUFFICES ASSUME Init PROVE IInv
    OBVIOUS
  <1>1. TypeOK
    <2>1. ASSUME NEW row \in [id : {0}, enabled : {TRUE}, limit : Limit] PROVE row \in Row
      <3>1. row = [id |-> row.id, enabled |-> row.enabled, limit |-> row.limit]
            /\ row.id \in {0} /\ row.enabled \in {TRUE} /\ row.limit \in Limit
        OBVIOUS
      <3>2. row.enabled \in BOOLEAN
        BY <3>1, Zenon
      <3>3. row.id \in Nat
        BY <3>1
      <3>4. QED
        BY <3>1, <3>2, <3>3 DEF Row
    <2>2. rows \in [Repo -> Row \cup {None}]
      BY <2>1 DEF Init
    <2>3. QED
      BY <2>2, BoundAssumption DEF Init, TypeOK
  <1>2. RequestsAreGood /\ TempsAreTrue
    BY IdleIsNotServing DEF Init, RequestsAreGood, TempsAreTrue
  <1>3. FilesAreTrue
    BY FileIsSomething DEF Init, FilesAreTrue
  <1>4. MarksAreLater /\ FilesAreFinite
    <2>1. MarksAreLater
      BY FileIsSomething DEF Init, MarksAreLater
    <2>2. \A r \in Repo : Present(r) = {}
      BY DEF Init, Present
    <2>3. QED
      BY <2>1, <2>2, FS_EmptySet DEF FilesAreFinite
  <1>5. CleanerIsTrue
    BY DEF Init, CleanerIsTrue, Rest, Evicting
  <1>6. EnforcedLimitHolds
    BY DEF Init, EnforcedLimitHolds
  <1>7. QED
    BY <1>1, <1>2, <1>3, <1>4, <1>5, <1>6 DEF IInv

LEMMA NextIInv == IInv /\ [Next]_vars => IInv'
  <1> SUFFICES ASSUME IInv, [Next]_vars PROVE IInv'
    OBVIOUS
  <1>1. /\ TypeOK /\ RequestsAreGood /\ FilesAreTrue /\ TempsAreTrue /\ MarksAreLater
        /\ FilesAreFinite /\ CleanerIsTrue /\ EnforcedLimitHolds
    BY DEF IInv
  <1>2. h' \in [Handler -> Serving \cup {Idle}] /\ RequestsAreGood'
    BY <1>1, RequestsKept
  <1>3. files' \in [Name -> File \cup {None}] /\ FilesAreTrue'
    BY <1>1, FilesKept
  <1>4. temp' \in [Handler -> File \cup {None}] /\ TempsAreTrue'
    BY <1>1, TempsKept
  <1>5. MarksAreLater' /\ FilesAreFinite'
    BY <1>1, MarksKept, NamesStayFinite
  <1>6. cleaner' \in {Rest} \cup Scanning \cup Evicting /\ CleanerIsTrue'
    BY <1>1, CleanerKept
  <1>7. enforced' \in [Repo -> Nat \cup {None}] /\ EnforcedLimitHolds'
    BY <1>1, LimitKept
  <1>8. TypeOK'
    BY <1>1, <1>2, <1>3, <1>4, <1>6, <1>7, ClockSteps, RowsKept, OthersKept DEF TypeOK
  <1>9. QED
    BY <1>2, <1>3, <1>4, <1>5, <1>6, <1>7, <1>8 DEF IInv

\* Every state satisfies the inductive invariant.
THEOREM Invariance == Spec => []IInv
  BY InitIInv, NextIInv, PTL DEF Spec

\* Every variable has its type: in particular a file that is moved to its final name is
\* one that its handler had made, and the record of a request has all its fields.
THEOREM TypeCorrect == Spec => []TypeOK
  <1>1. IInv => TypeOK
    BY DEF IInv
  <1>2. QED
    BY <1>1, Invariance, PTL

\* What handleFetch reports as served is one complete response of GitHub to the same
\* command for the same repository, however requests, cleanups, crashes and settings
\* interleave.
THEOREM ServedResponsesAreWhole == Spec => []ServedIsWhole
  <1>1. IInv => ServedIsWhole
    <2> SUFFICES ASSUME IInv, NEW p \in Handler, h[p].pc # "idle"
                 PROVE  \A a \in h[p].out : a.body.whole /\ a.body.name = a.want
      BY DEF ServedIsWhole
    <2>1. Good(h[p])
      BY ServingHandler DEF IInv
    <2>2. QED
      BY <2>1 DEF Good
  <1>2. QED
    BY <1>1, Invariance, PTL

\* ServeUploadPack sends nothing to a request that bundles ls-refs and fetch, unless its
\* caller could read the repository at some time since the request arrived.
THEOREM NoCachedDataExposed == Spec => []BundledNeedsAccess
  <1>1. IInv => BundledNeedsAccess
    <2> SUFFICES ASSUME IInv, NEW p \in Handler, h[p].pc # "idle", Bundled(h[p].cmds), h[p].out # {}
                 PROVE  h[p].allowed
      BY DEF BundledNeedsAccess
    <2>1. Good(h[p])
      BY ServingHandler DEF IInv
    <2>2. QED
      BY <2>1 DEF Good
  <1>2. QED
    BY <1>1, Invariance, PTL

\* enforceRepoSizeLimit removes a file only when each one that it keeps, of those it saw,
\* was written or marked no earlier than the last use of the removed one that counts:
\* not one whose mark failed, and not one during which another request that had opened
\* the same file could still mark it with a time read before.
THEOREM LeastRecentlyUsedGoFirst == Spec => []EvictsTheLeastRecent
  <1>1. IInv => EvictsTheLeastRecent
    <2> SUFFICES ASSUME IInv, cleaner.pc = "evict", NEW f \in cleaner.gone, NEW g \in cleaner.left
                 PROVE  f.used <= g.mtime
      BY DEF EvictsTheLeastRecent
    <2>1. cleaner \in Evicting
      BY CleanerCases DEF IInv
    <2>2. PICK r \in Repo : cleaner.repo = r
      BY <2>1 DEF Evicting
    <2>3. Sound(cleaner, Present(r))
      BY <2>1, <2>2, EvictingIsSound DEF IInv
    <2>4. QED
      BY <2>3 DEF Sound
  <1>2. QED
    BY <1>1, Invariance, PTL

\* After a cleanup that reached the limit of a repository, its responses fit that limit
\* until another one is stored, whatever removals failed.
THEOREM LimitIsEnforced == Spec => []EnforcedLimitHolds
  <1>1. IInv => EnforcedLimitHolds
    BY DEF IInv
  <1>2. QED
    BY <1>1, Invariance, PTL
=============================================================================
