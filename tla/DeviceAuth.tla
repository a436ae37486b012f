----------------------------- MODULE DeviceAuth -----------------------------
(***************************************************************************)
(* The CLI device-authorization flow (internal/auth/device.go) over the    *)
(* cli_device_authorizations and sessions tables of a SQL store.  The CLI  *)
(* polls with a device code, a browser user approves or denies by user     *)
(* code; requests are served by any instance, and every handler is split   *)
(* at its statements, between which any other request can run.             *)
(*                                                                         *)
(* A device code and its user code name the same row, so one name c stands *)
(* for both.  Session tokens are random and never issued twice.            *)
(***************************************************************************)
EXTENDS Integers

CONSTANTS
  Code,        \* device-authorization requests
  Session,     \* session tokens that can be minted for a CLI
  User,        \* users signed in to the browser
  Poller,      \* concurrent POST /cli/auth/device/token requests
  Decider,     \* concurrent POST /cli/auth/decision requests
  TTL,         \* deviceRequestTTL, in clock units
  Interval,    \* devicePollMinInterval, in clock units
  MaxClock,    \* bound: clock ticks
  None         \* an absent row, token, code or user

ASSUME TTLAssumption      == TTL \in Nat \ {0}
ASSUME IntervalAssumption == Interval \in Nat
ASSUME ClockAssumption    == MaxClock \in Nat
ASSUME NoneAssumption     == None \notin Code \cup Session \cup User

VARIABLES
  clock,     \* time.Now()
  issued,    \* codes handed to a CLI
  row,       \* cli_device_authorizations
  live,      \* session tokens in the sessions table
  owner,     \* each minted session: the code and user it was minted for
  poll,      \* progress of each poll
  decide     \* progress of each decision

vars == <<clock, issued, row, live, owner, poll, decide>>

Nil == -1   \* a nil *time.Time

Row == [status : {"pending", "approved", "denied"}, token : Session \cup {None},
        user : User \cup {None}, polledAt : Nat \cup {Nil}, exp : Nat]

Owner == [code : Code, user : User]

\* The answers of handleDevicePoll.
Answer == {"authorization_pending", "slow_down", "access_denied", "token"}

NotPolling == [pc |-> "idle", code |-> None, copy |-> None, ans |-> None]

Polling == [pc : {"write", "delete", "answered"}, code : Code, copy : Row, ans : Answer]

NotDeciding == [pc |-> "idle", code |-> None, user |-> None, copy |-> None, token |-> None]

Deciding == [pc : {"deny", "mint", "approve", "undo", "denied", "approved"},
             code : Code, user : User, copy : Row, token : Session \cup {None}]

ASSUME AbsentAssumption == None \notin Row \cup Owner \cup Answer

TypeOK ==
  /\ clock \in 0..MaxClock
  /\ issued \subseteq Code
  /\ row \in [Code -> Row \cup {None}]
  /\ live \subseteq Session
  /\ owner \in [Session -> Owner \cup {None}]
  /\ poll \in [Poller -> Polling \cup {NotPolling}]
  /\ decide \in [Decider -> Deciding \cup {NotDeciding}]

Init ==
  /\ clock = 0
  /\ issued = {}
  /\ row = [c \in Code |-> None]
  /\ live = {}
  /\ owner = [s \in Session |-> None]
  /\ poll = [p \in Poller |-> NotPolling]
  /\ decide = [d \in Decider |-> NotDeciding]

-----------------------------------------------------------------------------
(* Statements of the store.                                                *)

\* scanDeviceAuth finds the row: it is there and has not expired.
Found(c) == row[c] # None /\ clock <= row[c].exp

\* Mutant of UpdateDeviceAuth: a row that is gone is written again.
UpsertDeviceAuth(c, new) == row' = [row EXCEPT ![c] = new]

\* UPDATE ... WHERE device_code = c: every column is written, whatever the row
\* holds by now; no row, no change (ErrNotFound).
UpdateDeviceAuth(c, new) ==
  /\ row[c] # None
  /\ row' = [row EXCEPT ![c] = new]

DeleteDeviceAuth(c) == row' = [row EXCEPT ![c] = None]

\* Mutant of DeleteExpiredDeviceAuths: requests that were decided are kept.
DeleteExpiredPending ==
  LET Purgeable(c) == row[c] # None /\ row[c].exp < clock /\ row[c].status = "pending"
  IN  /\ \E c \in Code : Purgeable(c)
      /\ row' = [c \in Code |-> IF Purgeable(c) THEN None ELSE row[c]]
      /\ UNCHANGED <<clock, issued, live, owner, poll, decide>>

DeleteExpiredDeviceAuths ==
  /\ \E c \in Code : row[c] # None /\ row[c].exp < clock
  /\ row' = [c \in Code |-> IF row[c] # None /\ row[c].exp < clock THEN None ELSE row[c]]
  /\ UNCHANGED <<clock, issued, live, owner, poll, decide>>

Tick ==
  /\ clock < MaxClock
  /\ clock' = clock + 1
  /\ UNCHANGED <<issued, row, live, owner, poll, decide>>

-----------------------------------------------------------------------------
(* handleDeviceStart: attempts that the store refuses leave nothing behind. *)

\* The model has clock units enough for the request to expire and be purged.
Start(c) ==
  /\ c \notin issued
  /\ clock + TTL < MaxClock
  /\ issued' = issued \cup {c}
  /\ row' = [row EXCEPT ![c] = [status |-> "pending", token |-> None, user |-> None,
                                polledAt |-> Nil, exp |-> clock + TTL]]
  /\ UNCHANGED <<clock, live, owner, poll, decide>>

-----------------------------------------------------------------------------
(* handleDevicePoll.                                                       *)

TooSoon(da) == da.polledAt # Nil /\ clock - da.polledAt < Interval

\* GetDeviceAuthByDeviceCode and the branch it decides.  A code that is not
\* found (expired_token) or cannot be read ends the request at once.
PollRead(p, c) ==
  LET da == row[c]
      Next(pc, copy, ans) ==
        poll' = [poll EXCEPT ![p] = [pc |-> pc, code |-> c, copy |-> copy, ans |-> ans]]
  IN  /\ poll[p].pc = "idle"
      /\ c \in issued
      /\ Found(c)
      /\ \/ /\ TooSoon(da)
            /\ Next("write", [da EXCEPT !.polledAt = clock], "slow_down")
         \/ /\ ~TooSoon(da)
            /\ \/ /\ da.status = "pending"
                  /\ Next("write", [da EXCEPT !.polledAt = clock], "authorization_pending")
               \/ /\ da.status = "denied"
                  /\ Next("delete", da, "access_denied")
               \/ /\ da.status = "approved"
                  /\ Next("delete", da, "token")
      /\ UNCHANGED <<clock, issued, row, live, owner, decide>>

\* The poll time is recorded by writing back the row that was read; a failure
\* is logged and the answer given all the same.
PollWrite(p) ==
  /\ poll[p].pc = "write"
  /\ \/ UpdateDeviceAuth(poll[p].code, poll[p].copy)
     \/ UNCHANGED row
  /\ poll' = [poll EXCEPT ![p].pc = "answered"]
  /\ UNCHANGED <<clock, issued, live, owner, decide>>

\* A decided request is removed, then answered; again a failure is only logged.
PollDelete(p) ==
  /\ poll[p].pc = "delete"
  /\ \/ DeleteDeviceAuth(poll[p].code)
     \/ UNCHANGED row
  /\ poll' = [poll EXCEPT ![p].pc = "answered"]
  /\ UNCHANGED <<clock, issued, live, owner, decide>>

\* The answer has been read, or the request dies with its instance on the way.
PollEnd(p) ==
  /\ poll[p].pc # "idle"
  /\ poll' = [poll EXCEPT ![p] = NotPolling]
  /\ UNCHANGED <<clock, issued, row, live, owner, decide>>

-----------------------------------------------------------------------------
(* handleDeviceDecision, for a user who is signed in.                      *)

\* GetDeviceAuthByUserCode; only a pending request can be decided.
DecideRead(d, c, u, action) ==
  /\ decide[d].pc = "idle"
  /\ c \in issued
  /\ Found(c)
  /\ row[c].status = "pending"
  /\ decide' = [decide EXCEPT ![d] =
                  [pc |-> action, code |-> c, user |-> u, copy |-> row[c], token |-> None]]
  /\ UNCHANGED <<clock, issued, row, live, owner, poll>>

DecideDeny(d) ==
  LET q == decide[d]
  IN  /\ q.pc = "deny"
      /\ \/ /\ UpdateDeviceAuth(q.code, [q.copy EXCEPT !.status = "denied"])
            /\ decide' = [decide EXCEPT ![d].pc = "denied"]
         \/ /\ UNCHANGED row
            /\ decide' = [decide EXCEPT ![d] = NotDeciding]
      /\ UNCHANGED <<clock, issued, live, owner, poll>>

\* createSession for the user.
DecideMint(d, s) ==
  /\ decide[d].pc = "mint"
  /\ owner[s] = None
  /\ owner' = [owner EXCEPT ![s] = [code |-> decide[d].code, user |-> decide[d].user]]
  /\ live' = live \cup {s}
  /\ decide' = [decide EXCEPT ![d].pc = "approve", ![d].token = s]
  /\ UNCHANGED <<clock, issued, row, poll>>

\* Mutants of DecideApprove: the user name is not written; the session is taken
\* back even when the approval was written.
DecideApproveNoUser(d) ==
  LET q == decide[d]
  IN  /\ q.pc = "approve"
      /\ UpdateDeviceAuth(q.code, [q.copy EXCEPT !.status = "approved", !.token = q.token])
      /\ decide' = [decide EXCEPT ![d].pc = "approved"]
      /\ UNCHANGED <<clock, issued, live, owner, poll>>

DecideApproveAndUndo(d) ==
  LET q == decide[d]
  IN  /\ q.pc = "approve"
      /\ UpdateDeviceAuth(q.code, [q.copy EXCEPT !.status = "approved",
                                     !.token = q.token, !.user = q.user])
      /\ decide' = [decide EXCEPT ![d].pc = "undo"]
      /\ UNCHANGED <<clock, issued, live, owner, poll>>

\* The approval is written; when the row is gone or the store fails, the session
\* is to be taken back.
DecideApprove(d) ==
  LET q == decide[d]
  IN  /\ q.pc = "approve"
      /\ \/ /\ UpdateDeviceAuth(q.code, [q.copy EXCEPT !.status = "approved",
                                           !.token = q.token, !.user = q.user])
            /\ decide' = [decide EXCEPT ![d].pc = "approved"]
         \/ /\ UNCHANGED row
            /\ decide' = [decide EXCEPT ![d].pc = "undo"]
      /\ UNCHANGED <<clock, issued, live, owner, poll>>

\* deleteSession, best effort.
DecideUndo(d) ==
  /\ decide[d].pc = "undo"
  /\ live' \in {live, live \ {decide[d].token}}
  /\ decide' = [decide EXCEPT ![d] = NotDeciding]
  /\ UNCHANGED <<clock, issued, row, owner, poll>>

\* The page has been seen, or the request dies with its instance on the way
\* (createSession failing ends it too).
DecideEnd(d) ==
  /\ decide[d].pc # "idle"
  /\ decide' = [decide EXCEPT ![d] = NotDeciding]
  /\ UNCHANGED <<clock, issued, row, live, owner, poll>>

-----------------------------------------------------------------------------
PollStep(p) ==
  \/ \E c \in Code : PollRead(p, c)
  \/ PollWrite(p)
  \/ PollDelete(p)
  \/ PollEnd(p)

DecideStep(d) ==
  \/ \E c \in Code, u \in User, action \in {"deny", "mint"} : DecideRead(d, c, u, action)
  \/ DecideDeny(d)
  \/ \E s \in Session : DecideMint(d, s)
  \/ DecideApprove(d)
  \/ DecideUndo(d)
  \/ DecideEnd(d)

Next ==
  \/ Tick
  \/ DeleteExpiredDeviceAuths
  \/ \E c \in Code : Start(c)
  \/ \E p \in Poller : PollStep(p)
  \/ \E d \in Decider : DecideStep(d)

Spec == Init /\ [][Next]_vars

\* Time passes and every instance runs cleanupLoop.
FairSpec == Spec /\ WF_vars(Tick) /\ WF_vars(DeleteExpiredDeviceAuths)

-----------------------------------------------------------------------------
(* Properties.                                                             *)

\* A CLI that is given a token: the session was minted by a decision to approve
\* this very request, it belongs to the user whose name comes with it, and it
\* can be used.  The poll that answers read the row long after the decision was
\* taken, and other decisions and polls may have rewritten it in between.
TokensAreApproved ==
  \A p \in Poller : poll[p].ans = "token" =>
    LET s == poll[p].copy.token
    IN  /\ s \in live
        /\ owner[s] = [code |-> poll[p].code, user |-> poll[p].copy.user]

\* Rows, and the copies that requests are going to write back, are consistent:
\* a token appears with the approval it belongs to and in no other status, and
\* no session that appears in one can still be taken back.
Consistent(c, da) ==
  /\ da.status = "approved" => /\ da.token \in live
                               /\ owner[da.token] = [code |-> c, user |-> da.user]
                               /\ \A d \in Decider : decide[d].pc \in {"approve", "undo"}
                                                       => decide[d].token # da.token
  /\ da.status # "approved" => da.token = None /\ da.user = None

RowsAreConsistent ==
  /\ \A c \in Code : row[c] # None => Consistent(c, row[c])
  /\ \A p \in Poller : poll[p].pc # "idle" => Consistent(poll[p].code, poll[p].copy)

\* A request that has been removed, because it was answered or because it
\* expired, never comes back, whatever late writers still hold of it.
RemovedForGood ==
  [][\A c \in issued : row[c] = None => row'[c] = None]_vars

\* Every request is removed from the table in the end, answered or not: late
\* writes cannot keep it.
RequestsAreRemoved ==
  \A c \in Code : c \in issued ~> row[c] = None

\* The page that a user sees who has approved: "Approved. ... the CLI will pick
\* up the new credentials within a few seconds."  The request is not waiting
\* for a decision any more.
ApprovalIsKept ==
  \A d \in Decider : decide[d].pc = "approved" =>
    LET da == row[decide[d].code] IN da = None \/ da.status # "pending"
=============================================================================
