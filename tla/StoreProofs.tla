----------------------------- MODULE StoreProofs -----------------------------
(***************************************************************************)
(* Theorems about the modules of what is kept beyond a request:            *)
(* DeviceAuth, for every number of requests, sessions, users, polls and    *)
(* decisions, and VaultStore, for every number of processes, identifiers   *)
(* and failures.                                                           *)
(***************************************************************************)
EXTENDS DeviceAuth, VaultStore, TLAPS

-----------------------------------------------------------------------------
(* DeviceAuth: type correctness.                                           *)

LEMMA BusyPoller ==
  ASSUME TypeOK, NEW p \in Poller, poll[p].pc # "idle"
  PROVE  poll[p] \in Polling
  BY DEF TypeOK, NotPolling

LEMMA BusyDecider ==
  ASSUME TypeOK, NEW d \in Decider, decide[d].pc # "idle"
  PROVE  decide[d] \in Deciding
  BY DEF TypeOK, NotDeciding

LEMMA InitTypeOK == Init => TypeOK
  BY ClockAssumption DEF Init, TypeOK

LEMMA PollTypeOK ==
  ASSUME TypeOK, NEW p \in Poller, PollStep(p)
  PROVE  TypeOK'
  <1>1. ASSUME NEW c \in Code, PollRead(p, c)
        PROVE  TypeOK'
    <2>1. row[c] \in Row /\ clock \in Nat
      BY <1>1, ClockAssumption DEF PollRead, Found, TypeOK
    <2>2. [row[c] EXCEPT !.polledAt = clock] \in Row
      BY <2>1 DEF Row
    <2>3. \E q \in Polling : poll' = [poll EXCEPT ![p] = q]
      <3>1. ASSUME NEW pc \in {"write", "delete"}, NEW copy \in Row, NEW ans \in Answer
            PROVE  [pc |-> pc, code |-> c, copy |-> copy, ans |-> ans] \in Polling
        BY DEF Polling
      <3>2. QED
        BY <1>1, <2>1, <2>2, <3>1 DEF PollRead, Answer
    <2>4. QED
      BY <1>1, <2>3 DEF PollRead, TypeOK
  <1>2. CASE PollWrite(p)
    <2>1. poll[p] \in Polling
      BY <1>2, BusyPoller DEF PollWrite
    <2>2. [poll[p] EXCEPT !.pc = "answered"] \in Polling /\ poll[p].copy \in Row /\ poll[p].code \in Code
      BY <2>1 DEF Polling
    <2>3. row' \in [Code -> Row \cup {None}]
      BY <1>2, <2>2 DEF PollWrite, UpdateDeviceAuth, TypeOK
    <2>4. poll' = [poll EXCEPT ![p] = [poll[p] EXCEPT !.pc = "answered"]]
      BY <1>2 DEF PollWrite
    <2>5. QED
      BY <1>2, <2>2, <2>3, <2>4 DEF PollWrite, TypeOK
  <1>3. CASE PollDelete(p)
    <2>1. poll[p] \in Polling
      BY <1>3, BusyPoller DEF PollDelete
    <2>2. [poll[p] EXCEPT !.pc = "answered"] \in Polling /\ poll[p].code \in Code
      BY <2>1 DEF Polling
    <2>3. row' \in [Code -> Row \cup {None}]
      BY <1>3, <2>2 DEF PollDelete, DeleteDeviceAuth, TypeOK
    <2>4. poll' = [poll EXCEPT ![p] = [poll[p] EXCEPT !.pc = "answered"]]
      BY <1>3 DEF PollDelete
    <2>5. QED
      BY <1>3, <2>2, <2>3, <2>4 DEF PollDelete, TypeOK
  <1>4. CASE PollEnd(p)
    BY <1>4 DEF PollEnd, TypeOK
  <1>5. QED
    BY <1>1, <1>2, <1>3, <1>4 DEF PollStep

LEMMA DecideTypeOK ==
  ASSUME TypeOK, NEW d \in Decider, DecideStep(d)
  PROVE  TypeOK'
  <1>1. ASSUME NEW c \in Code, NEW u \in User, NEW action \in {"deny", "mint"},
               DecideRead(d, c, u, action)
        PROVE  TypeOK'
    <2>1. row[c] \in Row
      BY <1>1 DEF DecideRead, Found, TypeOK
    <2>2. [pc |-> action, code |-> c, user |-> u, copy |-> row[c], token |-> None] \in Deciding
      BY <2>1 DEF Deciding
    <2>3. QED
      BY <1>1, <2>2 DEF DecideRead, TypeOK
  <1>2. ASSUME decide[d].pc # "idle",
               \/ UNCHANGED row
               \/ \E new \in Row : UpdateDeviceAuth(decide[d].code, new),
               \/ decide' = [decide EXCEPT ![d] = NotDeciding]
               \/ \E pc \in {"denied", "approved", "undo"} : decide' = [decide EXCEPT ![d].pc = pc],
               live' \subseteq live, UNCHANGED <<clock, issued, owner, poll>>
        PROVE  TypeOK'
    <2>1. decide[d] \in Deciding
      BY <1>2, BusyDecider
    <2>2. row' \in [Code -> Row \cup {None}]
      BY <1>2 DEF UpdateDeviceAuth, TypeOK
    <2>3. decide' \in [Decider -> Deciding \cup {NotDeciding}]
      <3>1. CASE decide' = [decide EXCEPT ![d] = NotDeciding]
        BY <3>1 DEF TypeOK
      <3>2. ASSUME NEW pc \in {"denied", "approved", "undo"}, decide' = [decide EXCEPT ![d].pc = pc]
            PROVE  decide' \in [Decider -> Deciding \cup {NotDeciding}]
        <4>1. [decide[d] EXCEPT !.pc = pc] \in Deciding
          BY <2>1 DEF Deciding
        <4>2. decide' = [decide EXCEPT ![d] = [decide[d] EXCEPT !.pc = pc]]
          BY <3>2
        <4>3. QED
          BY <4>1, <4>2 DEF TypeOK
      <3>3. QED
        BY <1>2, <3>1, <3>2
    <2>4. QED
      BY <1>2, <2>2, <2>3 DEF TypeOK
  <1>3. CASE DecideDeny(d)
    <2>1. decide[d] \in Deciding
      BY <1>3, BusyDecider DEF DecideDeny
    <2>2. [decide[d].copy EXCEPT !.status = "denied"] \in Row
      BY <2>1 DEF Deciding, Row
    <2>3. QED
      BY <1>2, <1>3, <2>2 DEF DecideDeny
  <1>4. ASSUME NEW s \in Session, DecideMint(d, s)
        PROVE  TypeOK'
    <2>1. decide[d] \in Deciding
      BY <1>4, BusyDecider DEF DecideMint
    <2>2. [decide[d] EXCEPT !.pc = "approve", !.token = s] \in Deciding
      BY <2>1 DEF Deciding
    <2>3. decide' = [decide EXCEPT ![d] = [decide[d] EXCEPT !.pc = "approve", !.token = s]]
      BY <1>4 DEF DecideMint
    <2>4. decide[d].code \in Code /\ decide[d].user \in User
      BY <2>1 DEF Deciding
    <2>5. [code |-> decide[d].code, user |-> decide[d].user] \in Owner
      BY <2>4 DEF Owner
    <2>6. QED
      BY <1>4, <2>2, <2>3, <2>5 DEF DecideMint, TypeOK
  <1>5. CASE DecideApprove(d)
    <2>1. decide[d] \in Deciding
      BY <1>5, BusyDecider DEF DecideApprove
    <2>2. [decide[d].copy EXCEPT !.status = "approved", !.token = decide[d].token,
                                 !.user = decide[d].user] \in Row
      BY <2>1 DEF Deciding, Row
    <2>3. QED
      BY <1>2, <1>5, <2>2 DEF DecideApprove
  <1>6. CASE DecideUndo(d)
    BY <1>2, <1>6 DEF DecideUndo
  <1>7. CASE DecideEnd(d)
    BY <1>2, <1>7 DEF DecideEnd
  <1>8. QED
    BY <1>1, <1>3, <1>4, <1>5, <1>6, <1>7 DEF DecideStep

LEMMA NextTypeOK == TypeOK /\ [Next]_vars => TypeOK'
  <1> SUFFICES ASSUME TypeOK, [Next]_vars
               PROVE  TypeOK'
    OBVIOUS
  <1>1. CASE Tick
    BY <1>1, ClockAssumption DEF Tick, TypeOK
  <1>2. CASE DeleteExpiredDeviceAuths
    BY <1>2 DEF DeleteExpiredDeviceAuths, TypeOK
  <1>3. ASSUME NEW c \in Code, Start(c)
        PROVE  TypeOK'
    <2>1. [status |-> "pending", token |-> None, user |-> None, polledAt |-> Nil,
           exp |-> clock + TTL] \in Row
      BY TTLAssumption, ClockAssumption DEF Row, TypeOK
    <2>2. QED
      BY <1>3, <2>1 DEF Start, TypeOK
  <1>4. CASE UNCHANGED vars
    BY <1>4 DEF vars, TypeOK
  <1>5. QED
    BY <1>1, <1>2, <1>3, <1>4, PollTypeOK, DecideTypeOK DEF Next

\* Every variable keeps its type.
THEOREM TypeCorrect == Spec => []TypeOK
  BY InitTypeOK, NextTypeOK, PTL DEF Spec

-----------------------------------------------------------------------------
(* DeviceAuth: rows and copies.                                            *)

\* The session of a decision that is not over yet.
Minting(d) == decide[d].pc \in {"approve", "undo"}

\* A decision goes on from a row that was pending, with a session of its own, which
\* is alive and minted for the request and the user.
DecisionsAreTrue ==
  \A d \in Decider :
    /\ decide[d].pc \in {"deny", "mint", "approve"} =>
         /\ decide[d].copy.status = "pending"
         /\ decide[d].copy.token = None /\ decide[d].copy.user = None
    /\ Minting(d) =>
         /\ decide[d].token \in live
         /\ owner[decide[d].token] = [code |-> decide[d].code, user |-> decide[d].user]
         /\ \A e \in Decider \ {d} : Minting(e) => decide[e].token # decide[d].token

TokenAnswersAreApproved ==
  \A p \in Poller : poll[p].ans = "token" => poll[p].pc # "idle" /\ poll[p].copy.status = "approved"

LiveIsOwned == \A s \in live : owner[s] # None

IInv == TypeOK /\ LiveIsOwned /\ RowsAreConsistent /\ DecisionsAreTrue /\ TokenAnswersAreApproved

\* A session that nobody can take back any more.
Safe(s) == s \in live /\ \A d \in Decider : Minting(d) => decide[d].token # s

LEMMA InitIInv == Init => IInv
  <1> SUFFICES ASSUME Init PROVE IInv
    OBVIOUS
  <1>1. TypeOK /\ LiveIsOwned
    BY InitTypeOK DEF Init, LiveIsOwned
  <1>2. RowsAreConsistent /\ DecisionsAreTrue
    BY DEF Init, RowsAreConsistent, DecisionsAreTrue, NotPolling, NotDeciding, Minting
  <1>3. TokenAnswersAreApproved
    BY AbsentAssumption DEF Init, TokenAnswersAreApproved, NotPolling, Answer
  <1>4. QED
    BY <1>1, <1>2, <1>3 DEF IInv

\* No step makes a safe session unsafe.
LEMMA SafeKept ==
  ASSUME IInv, [Next]_vars, NEW s \in Session, Safe(s)
  PROVE  Safe(s)' /\ owner'[s] = owner[s]
  <1> USE DEF IInv, Safe, Minting
  <1>1. CASE UNCHANGED <<live, owner, decide>>
    BY <1>1
  <1>2. ASSUME NEW d \in Decider, DecideStep(d)
        PROVE  Safe(s)' /\ owner'[s] = owner[s]
    <2>1. ASSUME NEW c \in Code, NEW u \in User, NEW action \in {"deny", "mint"},
                 DecideRead(d, c, u, action)
          PROVE  Safe(s)' /\ owner'[s] = owner[s]
      BY <2>1 DEF DecideRead, TypeOK
    <2>2. CASE DecideDeny(d)
      <3>1. decide'[d].pc \notin {"approve", "undo"} /\ \A e \in Decider \ {d} : decide'[e] = decide[e]
        <4>1. decide[d] \in Deciding
          BY <2>2, BusyDecider DEF DecideDeny
        <4>2. QED
          BY <2>2, <4>1 DEF DecideDeny, TypeOK, NotDeciding, Deciding
      <3>2. QED
        BY <2>2, <3>1 DEF DecideDeny
    <2>3. ASSUME NEW t \in Session, DecideMint(d, t)
          PROVE  Safe(s)' /\ owner'[s] = owner[s]
      <3>1. s # t
        BY <2>3 DEF DecideMint, LiveIsOwned
      <3>2. decide'[d].token = t /\ \A e \in Decider \ {d} : decide'[e] = decide[e]
        BY <2>3, BusyDecider DEF DecideMint, TypeOK, Deciding
      <3>3. QED
        BY <2>3, <3>1, <3>2 DEF DecideMint, TypeOK
    <2>4. CASE DecideApprove(d)
      <3>1. decide[d].token # s
        BY <2>4 DEF DecideApprove
      <3>2. decide'[d].token = decide[d].token /\ \A e \in Decider \ {d} : decide'[e] = decide[e]
        BY <2>4, BusyDecider DEF DecideApprove, TypeOK, Deciding
      <3>3. QED
        BY <2>4, <3>1, <3>2 DEF DecideApprove
    <2>5. CASE DecideUndo(d)
      <3>1. decide[d].token # s
        BY <2>5 DEF DecideUndo
      <3>2. QED
        BY <2>5, <3>1 DEF DecideUndo, TypeOK, NotDeciding
    <2>6. CASE DecideEnd(d)
      BY <2>6 DEF DecideEnd, TypeOK, NotDeciding
    <2>7. QED
      BY <1>2, <2>1, <2>2, <2>3, <2>4, <2>5, <2>6 DEF DecideStep
  <1>3. QED
    BY <1>1, <1>2
       DEF Next, vars, Tick, DeleteExpiredDeviceAuths, Start, PollStep, PollRead, PollWrite,
           PollDelete, PollEnd

LEMMA ConsistentKept ==
  ASSUME IInv, [Next]_vars, NEW c \in Code, NEW da \in Row, Consistent(c, da)
  PROVE  Consistent(c, da)'
  <1>1. CASE da.status # "approved"
    BY <1>1 DEF Consistent
  <1>2. CASE da.status = "approved"
    <2>1. Safe(da.token) /\ owner[da.token] = [code |-> c, user |-> da.user]
      BY <1>2 DEF Consistent, Safe, Minting
    <2>2. da.token \in Session
      BY <2>1 DEF Safe, IInv, TypeOK
    <2>3. Safe(da.token)' /\ owner'[da.token] = owner[da.token]
      BY <2>1, <2>2, SafeKept
    <2>4. QED
      BY <1>2, <2>1, <2>3 DEF Consistent, Safe, Minting
  <1>3. QED
    BY <1>1, <1>2

\* What is in a row, or is a copy of it, is what was there before, or is consistent now.
LEMMA RowsKept ==
  ASSUME IInv, [Next]_vars,
         \A c \in Code : \/ row'[c] \in {None, row[c]}
                         \/ \E da \in Row : row'[c] = da /\ Consistent(c, da)',
         \A p \in Poller : \/ poll'[p].pc = "idle"
                           \/ /\ poll[p].pc # "idle"
                              /\ poll'[p].code = poll[p].code /\ poll'[p].copy = poll[p].copy
                           \/ \E c \in Code, da \in Row :
                                poll'[p].code = c /\ poll'[p].copy = da /\ Consistent(c, da)
  PROVE  RowsAreConsistent'
  <1>1. ASSUME NEW c \in Code, row'[c] # None
        PROVE  \E da \in Row : row'[c] = da /\ Consistent(c, da)'
    <2>1. CASE row'[c] = row[c]
      <3>1. row[c] \in Row /\ Consistent(c, row[c])
        BY <1>1, <2>1 DEF IInv, TypeOK, RowsAreConsistent
      <3>2. PICK da \in Row : da = row[c]
        BY <3>1
      <3>3. Consistent(c, da)'
        BY <3>1, <3>2, ConsistentKept
      <3>4. QED
        BY <2>1, <3>2, <3>3
    <2>2. QED
      BY <1>1, <2>1
  <1>2. ASSUME NEW p \in Poller, poll'[p].pc # "idle"
        PROVE  \E c \in Code, da \in Row :
                 poll'[p].code = c /\ poll'[p].copy = da /\ Consistent(c, da)'
    <2>1. PICK c \in Code, da \in Row :
            poll'[p].code = c /\ poll'[p].copy = da /\ Consistent(c, da)
      <3>1. CASE /\ poll[p].pc # "idle"
                 /\ poll'[p].code = poll[p].code /\ poll'[p].copy = poll[p].copy
        <4>1. poll[p].code \in Code /\ poll[p].copy \in Row
          BY <3>1, BusyPoller DEF IInv, Polling
        <4>2. Consistent(poll[p].code, poll[p].copy)
          BY <3>1 DEF IInv, RowsAreConsistent
        <4>3. QED
          BY <3>1, <4>1, <4>2
      <3>2. QED
        BY <1>2, <3>1
    <2>2. Consistent(c, da)'
      BY <2>1, ConsistentKept
    <2>3. QED
      BY <2>1, <2>2
  <1>3. ASSUME NEW c \in Code, row'[c] # None
        PROVE  Consistent(c, row[c])'
    <2>1. PICK da \in Row : row'[c] = da /\ Consistent(c, da)'
      BY <1>1, <1>3
    <2>2. QED
      BY <2>1 DEF Consistent
  <1>4. ASSUME NEW p \in Poller, poll'[p].pc # "idle"
        PROVE  Consistent(poll[p].code, poll[p].copy)'
    <2>1. PICK c \in Code, da \in Row :
            poll'[p].code = c /\ poll'[p].copy = da /\ Consistent(c, da)'
      BY <1>2, <1>4
    <2>2. QED
      BY <2>1 DEF Consistent
  <1>5. QED
    BY <1>3, <1>4 DEF RowsAreConsistent

\* A step of a decision.
LEMMA DecideRows ==
  ASSUME IInv, [Next]_vars, NEW d \in Decider, DecideStep(d)
  PROVE  RowsAreConsistent'
  <1>1. CASE row' = row /\ poll' = poll
    BY <1>1, RowsKept
  <1>2. ASSUME NEW k \in Code, k = decide[d].code, poll' = poll,
               NEW da \in Row, Consistent(k, da)', UpdateDeviceAuth(k, da)
        PROVE  RowsAreConsistent'
    <2>1. \A c \in Code : IF c = k THEN row'[c] = da ELSE row'[c] = row[c]
      BY <1>2 DEF UpdateDeviceAuth, IInv, TypeOK
    <2>2. QED
      BY <1>2, <2>1, RowsKept
  <1>3. CASE DecideDeny(d)
    <2>1. decide[d] \in Deciding
      BY <1>3, BusyDecider DEF DecideDeny, IInv
    <2>2. [decide[d].copy EXCEPT !.status = "denied"] \in Row
      BY <2>1 DEF Deciding, Row
    <2>3. decide[d].copy.token = None /\ decide[d].copy.user = None /\ decide[d].copy \in Row
      BY <1>3, <2>1 DEF DecideDeny, IInv, DecisionsAreTrue, Deciding
    <2>4. PICK da \in Row : da = [decide[d].copy EXCEPT !.status = "denied"]
      BY <2>2
    <2>5. da.status = "denied" /\ da.token = None /\ da.user = None
      BY <2>3, <2>4 DEF Row
    <2>6. PICK k \in Code : k = decide[d].code
      BY <2>1 DEF Deciding
    <2>7. Consistent(k, da)'
      BY <2>5 DEF Consistent
    <2>8. QED
      BY <1>1, <1>2, <1>3, <2>4, <2>6, <2>7 DEF DecideDeny
  <1>4. CASE DecideApprove(d)
    <2>1. decide[d] \in Deciding
      BY <1>4, BusyDecider DEF DecideApprove, IInv
    <2>2. PICK da \in Row : da = [decide[d].copy EXCEPT !.status = "approved",
                                     !.token = decide[d].token, !.user = decide[d].user]
      BY <2>1 DEF Deciding, Row
    <2>3. da.status = "approved" /\ da.token = decide[d].token /\ da.user = decide[d].user
      BY <2>1, <2>2 DEF Deciding, Row
    <2>4. ASSUME UpdateDeviceAuth(decide[d].code, da), decide' = [decide EXCEPT ![d].pc = "approved"]
          PROVE  RowsAreConsistent'
      <3>1. /\ da.token \in live
            /\ owner[da.token] = [code |-> decide[d].code, user |-> da.user]
            /\ \A e \in Decider \ {d} : Minting(e) => decide[e].token # da.token
        BY <1>4, <2>3 DEF DecideApprove, IInv, DecisionsAreTrue, Minting
      <3>2. decide'[d].pc = "approved" /\ \A e \in Decider \ {d} : decide'[e] = decide[e]
        BY <2>1, <2>4 DEF IInv, TypeOK, Deciding
      <3>3. UNCHANGED <<clock, issued, live, owner, poll>>
        BY <1>4 DEF DecideApprove
      <3>5. PICK k \in Code : k = decide[d].code
        BY <2>1 DEF Deciding
      <3>6. Consistent(k, da)'
        BY <2>3, <3>1, <3>2, <3>3, <3>5 DEF Consistent, Minting
      <3>7. QED
        BY <1>2, <2>4, <3>3, <3>5, <3>6
    <2>5. QED
      BY <1>1, <1>4, <2>2, <2>4 DEF DecideApprove
  <1>5. QED
    BY <1>1, <1>3, <1>4 DEF DecideStep, DecideRead, DecideMint, DecideUndo, DecideEnd

\* A step of a poll: what it reads and writes back was consistent when it was read.
LEMMA PollRows ==
  ASSUME IInv, [Next]_vars, NEW p \in Poller, PollStep(p)
  PROVE  RowsAreConsistent' /\ TokenAnswersAreApproved'
  <1>1. ASSUME NEW c \in Code, PollRead(p, c)
        PROVE  RowsAreConsistent' /\ TokenAnswersAreApproved'
    <2>1. row[c] \in Row /\ Consistent(c, row[c]) /\ row' = row
      BY <1>1 DEF PollRead, Found, IInv, TypeOK, RowsAreConsistent
    <2>2. \E da \in Row, pc \in {"write", "delete"}, ans \in Answer :
            /\ poll' = [poll EXCEPT ![p] = [pc |-> pc, code |-> c, copy |-> da, ans |-> ans]]
            /\ Consistent(c, da)
            /\ ans = "token" => da.status = "approved"
      <3>1. CASE \/ poll' = [poll EXCEPT ![p] = [pc |-> "delete", code |-> c, copy |-> row[c],
                                                 ans |-> "access_denied"]]
                 \/ /\ poll' = [poll EXCEPT ![p] = [pc |-> "delete", code |-> c, copy |-> row[c],
                                                    ans |-> "token"]]
                    /\ row[c].status = "approved"
        BY <2>1, <3>1 DEF Answer
      <3>2. ASSUME NEW ans \in {"slow_down", "authorization_pending"},
                   poll' = [poll EXCEPT ![p] = [pc |-> "write", code |-> c,
                             copy |-> [row[c] EXCEPT !.polledAt = clock], ans |-> ans]]
            PROVE  \E da \in Row :
                     /\ poll' = [poll EXCEPT ![p] = [pc |-> "write", code |-> c, copy |-> da,
                                                     ans |-> ans]]
                     /\ Consistent(c, da)
        <4>0. clock \in Nat
          BY ClockAssumption DEF IInv, TypeOK
        <4>1. PICK da \in Row : da = [row[c] EXCEPT !.polledAt = clock]
          <5>1. [row[c] EXCEPT !.polledAt = clock] \in Row
            BY <2>1, <4>0 DEF Row
          <5>2. QED
            BY <5>1
        <4>2. da.status = row[c].status /\ da.token = row[c].token /\ da.user = row[c].user
          BY <2>1, <4>1 DEF Row
        <4>3. Consistent(c, da)
          BY <2>1, <4>2 DEF Consistent
        <4>4. QED
          BY <3>2, <4>1, <4>3
      <3>3. QED
        BY <1>1, <3>1, <3>2 DEF PollRead, Answer
    <2>3. PICK da \in Row, pc \in {"write", "delete"}, ans \in Answer :
            /\ poll' = [poll EXCEPT ![p] = [pc |-> pc, code |-> c, copy |-> da, ans |-> ans]]
            /\ Consistent(c, da)
            /\ ans = "token" => da.status = "approved"
      BY <2>2
    <2>4. /\ poll'[p].pc = pc /\ poll'[p].ans = ans /\ poll'[p].code = c /\ poll'[p].copy = da
          /\ \A q \in Poller \ {p} : poll'[q] = poll[q]
      BY <2>3 DEF IInv, TypeOK
    <2>5. RowsAreConsistent'
      <3>1. ASSUME NEW q \in Poller
            PROVE  \/ poll'[q].pc = "idle"
                   \/ /\ poll[q].pc # "idle"
                      /\ poll'[q].code = poll[q].code /\ poll'[q].copy = poll[q].copy
                   \/ \E k \in Code, db \in Row :
                        poll'[q].code = k /\ poll'[q].copy = db /\ Consistent(k, db)
        BY <2>3, <2>4
      <3>2. QED
        BY <2>1, <3>1, RowsKept
    <2>6. QED
      BY <2>3, <2>4, <2>5 DEF IInv, TokenAnswersAreApproved
  <1>2. ASSUME poll[p] \in Polling, poll' = [poll EXCEPT ![p].pc = "answered"],
               NEW k \in Code, k = poll[p].code,
               row'  \in {row, [row EXCEPT ![k] = None], [row EXCEPT ![k] = poll[p].copy]}
        PROVE  RowsAreConsistent' /\ TokenAnswersAreApproved'
    <2>1. PICK da \in Row : da = poll[p].copy
      BY <1>2 DEF Polling
    <2>2. Consistent(k, da)
      BY <1>2, <2>1 DEF IInv, RowsAreConsistent, Polling
    <2>3. Consistent(k, da)'
      BY <2>2, ConsistentKept
    <2>4. /\ poll'[p].code = poll[p].code /\ poll'[p].copy = poll[p].copy
          /\ poll'[p].ans = poll[p].ans /\ poll'[p].pc = "answered" /\ poll[p].pc # "idle"
          /\ \A q \in Poller \ {p} : poll'[q] = poll[q]
      BY <1>2 DEF Polling, IInv, TypeOK
    <2>5. \A c \in Code : row'[c] \in {None, row[c]} \/ (c = k /\ row'[c] = da)
      BY <1>2, <2>1 DEF IInv, TypeOK
    <2>6. RowsAreConsistent'
      BY <2>3, <2>4, <2>5, RowsKept
    <2>7. QED
      BY <2>4, <2>6 DEF IInv, TokenAnswersAreApproved
  <1>3. CASE PollWrite(p)
    <2>1. poll[p] \in Polling
      BY <1>3, BusyPoller DEF PollWrite, IInv
    <2>2. PICK k \in Code : k = poll[p].code
      BY <2>1 DEF Polling
    <2>3. QED
      BY <1>2, <1>3, <2>1, <2>2 DEF PollWrite, UpdateDeviceAuth
  <1>4. CASE PollDelete(p)
    <2>1. poll[p] \in Polling
      BY <1>4, BusyPoller DEF PollDelete, IInv
    <2>2. PICK k \in Code : k = poll[p].code
      BY <2>1 DEF Polling
    <2>3. QED
      BY <1>2, <1>4, <2>1, <2>2 DEF PollDelete, DeleteDeviceAuth
  <1>5. CASE PollEnd(p)
    <2>1. poll'[p].pc = "idle" /\ poll'[p].ans = None /\ \A q \in Poller \ {p} : poll'[q] = poll[q]
      BY <1>5 DEF PollEnd, NotPolling, IInv, TypeOK
    <2>2. RowsAreConsistent'
      BY <1>5, <2>1, RowsKept DEF PollEnd
    <2>3. QED
      BY <2>1, <2>2, AbsentAssumption DEF IInv, TokenAnswersAreApproved, Answer
  <1>6. QED
    BY <1>1, <1>3, <1>4, <1>5 DEF PollStep

\* What a decision works with.
LEMMA DecisionsKept ==
  ASSUME IInv, [Next]_vars, NEW d \in Decider, DecideStep(d)
  PROVE  DecisionsAreTrue' /\ LiveIsOwned'
  <1> USE DEF IInv, DecisionsAreTrue, LiveIsOwned, Minting
  <1>1. ASSUME NEW c \in Code, NEW u \in User, NEW action \in {"deny", "mint"},
               DecideRead(d, c, u, action)
        PROVE  DecisionsAreTrue' /\ LiveIsOwned'
    <2>1. Consistent(c, row[c]) /\ row[c].status = "pending"
      BY <1>1 DEF DecideRead, Found, RowsAreConsistent
    <2>2. row[c].token = None /\ row[c].user = None
      BY <2>1 DEF Consistent
    <2>3. /\ decide'[d].pc = action /\ decide'[d].copy = row[c]
          /\ \A e \in Decider \ {d} : decide'[e] = decide[e]
      BY <1>1 DEF DecideRead, TypeOK
    <2>4. QED
      BY <1>1, <2>1, <2>2, <2>3 DEF DecideRead
  <1>2. ASSUME UNCHANGED <<live, owner>>, decide'[d].pc \notin {"deny", "mint", "approve", "undo"},
               \A e \in Decider \ {d} : decide'[e] = decide[e]
        PROVE  DecisionsAreTrue' /\ LiveIsOwned'
    BY <1>2
  <1>3. CASE DecideDeny(d) \/ DecideEnd(d)
    <2>1. decide[d] \in Deciding
      BY <1>3, BusyDecider DEF DecideDeny, DecideEnd
    <2>2. /\ decide'[d].pc \in {"denied", "idle"}
          /\ \A e \in Decider \ {d} : decide'[e] = decide[e]
      BY <1>3, <2>1 DEF DecideDeny, DecideEnd, NotDeciding, TypeOK, Deciding
    <2>3. QED
      BY <1>2, <1>3, <2>2 DEF DecideDeny, DecideEnd
  <1>4. ASSUME NEW s \in Session, DecideMint(d, s)
        PROVE  DecisionsAreTrue' /\ LiveIsOwned'
    <2>1. decide[d] \in Deciding
      BY <1>4, BusyDecider DEF DecideMint
    <2>2. /\ decide'[d].pc = "approve" /\ decide'[d].token = s /\ decide'[d].copy = decide[d].copy
          /\ decide'[d].code = decide[d].code /\ decide'[d].user = decide[d].user
          /\ \A e \in Decider \ {d} : decide'[e] = decide[e]
      BY <1>4, <2>1 DEF DecideMint, TypeOK, Deciding
    <2>3. s \notin live /\ \A e \in Decider : Minting(e) => decide[e].token # s
      BY <1>4 DEF DecideMint
    <2>4. /\ owner'[s] = [code |-> decide[d].code, user |-> decide[d].user]
          /\ \A t \in Session \ {s} : owner'[t] = owner[t]
          /\ live' = live \cup {s} /\ live \subseteq Session
      BY <1>4 DEF DecideMint, TypeOK
    <2>5. owner'[s] \in Owner
      BY <2>1, <2>4 DEF Deciding, Owner
    <2>6. owner'[s] # None
      BY <2>5, AbsentAssumption
    <2>7. decide[d].pc = "mint"
      BY <1>4 DEF DecideMint
    <2>8. ASSUME NEW e \in Decider, decide'[e].pc \in {"deny", "mint", "approve"}
          PROVE  /\ decide'[e].copy.status = "pending"
                 /\ decide'[e].copy.token = None /\ decide'[e].copy.user = None
      <3>1. CASE e = d
        BY <2>2, <2>7, <3>1
      <3>2. CASE e # d
        <4>1. decide'[e] = decide[e] /\ decide[e].pc \in {"deny", "mint", "approve"}
          BY <2>2, <2>8, <3>2
        <4>2. QED
          BY <4>1
      <3>3. QED
        BY <3>1, <3>2
    <2>9. ASSUME NEW e \in Decider, decide'[e].pc \in {"approve", "undo"}
          PROVE  /\ decide'[e].token \in live'
                 /\ owner'[decide'[e].token] = [code |-> decide'[e].code, user |-> decide'[e].user]
                 /\ \A f \in Decider \ {e} : decide'[f].pc \in {"approve", "undo"}
                                               => decide'[f].token # decide'[e].token
      <3>1. CASE e = d
        BY <2>2, <2>3, <2>4, <3>1
      <3>2. CASE e # d
        <4>1. /\ decide[e].token \in live /\ decide[e].token # s
              /\ owner[decide[e].token] = [code |-> decide[e].code, user |-> decide[e].user]
          BY <2>2, <2>3, <2>9, <3>2
        <4>2. QED
          BY <2>2, <2>4, <2>9, <3>2, <4>1
      <3>3. QED
        BY <3>1, <3>2
    <2>10. QED
      BY <2>4, <2>6, <2>8, <2>9
  <1>5. CASE DecideApprove(d)
    <2>1. decide[d] \in Deciding
      BY <1>5, BusyDecider DEF DecideApprove
    <2>2. /\ decide'[d].pc \in {"approved", "undo"} /\ decide'[d].token = decide[d].token
          /\ decide'[d].code = decide[d].code /\ decide'[d].user = decide[d].user
          /\ \A e \in Decider \ {d} : decide'[e] = decide[e]
      BY <1>5, <2>1 DEF DecideApprove, TypeOK, Deciding
    <2>3. QED
      BY <1>5, <2>2 DEF DecideApprove
  <1>6. CASE DecideUndo(d)
    <2>1. /\ decide'[d].pc = "idle" /\ \A e \in Decider \ {d} : decide'[e] = decide[e]
          /\ live \ {decide[d].token} \subseteq live' /\ live' \subseteq live /\ owner' = owner
      BY <1>6 DEF DecideUndo, NotDeciding, TypeOK
    <2>2. \A e \in Decider \ {d} : Minting(e) => decide[e].token # decide[d].token
      BY <1>6 DEF DecideUndo
    <2>3. QED
      BY <2>1, <2>2
  <1>7. QED
    BY <1>1, <1>3, <1>4, <1>5, <1>6 DEF DecideStep

LEMMA NextIInv == IInv /\ [Next]_vars => IInv'
  <1> SUFFICES ASSUME IInv, [Next]_vars
               PROVE  IInv'
    OBVIOUS
  <1>1. TypeOK'
    BY NextTypeOK DEF IInv
  <1>2. ASSUME UNCHANGED <<live, owner, decide>>
        PROVE  DecisionsAreTrue' /\ LiveIsOwned'
    BY <1>2 DEF IInv, DecisionsAreTrue, LiveIsOwned, Minting
  <1>3. ASSUME UNCHANGED poll
        PROVE  TokenAnswersAreApproved'
    BY <1>3 DEF IInv, TokenAnswersAreApproved
  <1>4. CASE Tick \/ DeleteExpiredDeviceAuths \/ UNCHANGED vars
    <2>1. \A c \in Code : row'[c] \in {None, row[c]}
      BY <1>4 DEF Tick, DeleteExpiredDeviceAuths, vars
    <2>2. UNCHANGED <<live, owner, poll, decide>>
      BY <1>4 DEF Tick, DeleteExpiredDeviceAuths, vars
    <2>3. RowsAreConsistent'
      BY <2>1, <2>2, RowsKept
    <2>4. QED
      BY <1>1, <1>2, <1>3, <2>2, <2>3 DEF IInv
  <1>5. ASSUME NEW k \in Code, Start(k)
        PROVE  IInv'
    <2>1. PICK da \in Row : da = [status |-> "pending", token |-> None, user |-> None,
                                  polledAt |-> Nil, exp |-> clock + TTL]
      <3>1. clock + TTL \in Nat
        BY TTLAssumption, ClockAssumption DEF IInv, TypeOK
      <3>2. [status |-> "pending", token |-> None, user |-> None,
             polledAt |-> Nil, exp |-> clock + TTL] \in Row
        BY <3>1 DEF Row
      <3>3. QED
        BY <3>2
    <2>2. da.status = "pending" /\ da.token = None /\ da.user = None
      BY <2>1
    <2>3. Consistent(k, da)'
      BY <2>2 DEF Consistent
    <2>4. row' = [row EXCEPT ![k] = da] /\ UNCHANGED <<live, owner, poll, decide>>
      BY <1>5, <2>1 DEF Start
    <2>5. \A c \in Code : row'[c] = row[c] \/ (c = k /\ row'[c] = da)
      BY <2>4 DEF IInv, TypeOK
    <2>6. RowsAreConsistent'
      BY <2>3, <2>4, <2>5, RowsKept
    <2>7. QED
      BY <1>1, <1>2, <1>3, <2>4, <2>6 DEF IInv
  <1>6. ASSUME NEW p \in Poller, PollStep(p)
        PROVE  IInv'
    <2>1. UNCHANGED <<live, owner, decide>>
      BY <1>6 DEF PollStep, PollRead, PollWrite, PollDelete, PollEnd
    <2>2. RowsAreConsistent' /\ TokenAnswersAreApproved'
      BY <1>6, PollRows
    <2>3. QED
      BY <1>1, <1>2, <2>1, <2>2 DEF IInv
  <1>7. ASSUME NEW d \in Decider, DecideStep(d)
        PROVE  IInv'
    <2>1. UNCHANGED poll
      BY <1>7 DEF DecideStep, DecideRead, DecideDeny, DecideMint, DecideApprove, DecideUndo, DecideEnd
    <2>2. RowsAreConsistent'
      BY <1>7, DecideRows
    <2>3. DecisionsAreTrue' /\ LiveIsOwned'
      BY <1>7, DecisionsKept
    <2>4. QED
      BY <1>1, <1>3, <2>1, <2>2, <2>3 DEF IInv
  <1>8. QED
    BY <1>4, <1>5, <1>6, <1>7 DEF Next

LEMMA Inductive == Spec => []IInv
  BY InitIInv, NextIInv, PTL DEF Spec

\* The rows of the table, and the copies that late writers hold of them, carry a
\* token exactly when they are approved: a live session of the user they name.
THEOREM ConsistentRows == Spec => []RowsAreConsistent
  <1>1. IInv => RowsAreConsistent
    BY DEF IInv
  <1>2. QED
    BY <1>1, Inductive, PTL

\* A CLI is only ever answered with a token that is alive and was minted by the
\* approval of its own request, for the user it is told.
THEOREM ApprovedTokens == Spec => []TokensAreApproved
  <1>1. IInv => TokensAreApproved
    BY DEF IInv, TokensAreApproved, TokenAnswersAreApproved, RowsAreConsistent, Consistent
  <1>2. QED
    BY <1>1, Inductive, PTL

\* No handler writes back a request that has been removed from the table, whatever
\* copy of it the handler still holds.
THEOREM RemovedStays == Spec => RemovedForGood
  <1>1. ASSUME TypeOK, [Next]_vars, NEW c \in issued, row[c] = None
        PROVE  row'[c] = None
    <2>1. c \in Code /\ row \in [Code -> Row \cup {None}]
      BY <1>1 DEF TypeOK
    <2>2. ASSUME NEW k, NEW new, UpdateDeviceAuth(k, new)
          PROVE  row'[c] = None
      BY <1>1, <2>1, <2>2 DEF UpdateDeviceAuth
    <2>3. ASSUME NEW k, DeleteDeviceAuth(k)
          PROVE  row'[c] = None
      BY <1>1, <2>1, <2>3 DEF DeleteDeviceAuth
    <2>4. ASSUME NEW p \in Poller, PollStep(p)
          PROVE  row'[c] = None
      BY <1>1, <2>2, <2>3, <2>4 DEF PollStep, PollRead, PollWrite, PollDelete, PollEnd
    <2>5. ASSUME NEW d \in Decider, DecideStep(d)
          PROVE  row'[c] = None
      BY <1>1, <2>2, <2>5
         DEF DecideStep, DecideRead, DecideDeny, DecideMint, DecideApprove, DecideUndo, DecideEnd
    <2>6. ASSUME NEW k \in Code, Start(k)
          PROVE  row'[c] = None
      BY <1>1, <2>1, <2>6 DEF Start
    <2>7. CASE Tick \/ DeleteExpiredDeviceAuths \/ UNCHANGED vars
      BY <1>1, <2>1, <2>7 DEF Tick, DeleteExpiredDeviceAuths, vars
    <2>8. QED
      BY <1>1, <2>4, <2>5, <2>6, <2>7 DEF Next
  <1>2. TypeOK /\ [Next]_vars => [\A c \in issued : row[c] = None => row'[c] = None]_vars
    BY <1>1
  <1>3. QED
    BY <1>2, TypeCorrect, PTL DEF Spec, RemovedForGood

-----------------------------------------------------------------------------
(* The Vault store: the inductive invariant.                               *)

TokenRecord  == [revoked : BOOLEAN, repos : 0..1, scopes : 0..1]
DeviceRecord == [decided : BOOLEAN, polled : BOOLEAN]
RepoRecord   == [enabled : 0..1, limit : 0..1]

\* The operations that create a record under a new identifier.
Creations == {"create", "state", "start", "session", "add"}

\* What p is at: one of these calls of an operation of this name; and for what.
At(p, name, calls) == run[p] # Idle /\ run[p].op.name = name /\ run[p].at \in calls
For(p) == run[p].op.id

Makes(p, i) == run[p] # Idle /\ run[p].op.name \in Creations /\ For(p) = i
Unmade(i) == \A p \in Process : ~Makes(p, i)

RunIsTyped(p) ==
  run[p] # Idle =>
    LET r == run[p] IN
    /\ r = [op |-> r.op, at |-> r.at, first |-> r.first, last |-> r.last, new |-> r.new, again |-> r.again]
    /\ r.op = Op(r.op.name, r.op.id)
    /\ r.op.name \in {Creation} \cup Requests \cup Cleanup
    /\ r.op.id \in used /\ r.new \in used
    /\ r.at \in 1..Len(Program(r.op))

RecordsAreTyped ==
  /\ \A i \in Id(kind) :
       /\ Has(<<"token", i>>) => kv[<<"token", i>>] \in TokenRecord
       /\ Has(<<"device", i>>) => kv[<<"device", i>>] \in DeviceRecord
       /\ Has(<<"repo", i>>) => kv[<<"repo", i>>] \in RepoRecord
  /\ Has(<<"by-github-id">>) => kv[<<"by-github-id">>].id \in used
  /\ Has(<<"by-name">>) => kv[<<"by-name">>].id \in used

\* Identifiers are made by one operation, which nothing else knows before it is done.
OperationsAreTrue ==
  /\ \A o \in done : o.id \in used /\ Unmade(o.id)
  /\ \A i \in old : Unmade(i)
  /\ \A p, q \in Process : Makes(p, For(p)) /\ Makes(q, For(p)) => p = q
  /\ \A p \in Process : run[p] # Idle /\ run[p].op.name \in Requests => Op(Creation, For(p)) \in done

\* The copies an operation has read are there, and are records.
CopiedFirst(p, k, S) == k \in DOMAIN run[p].first /\ run[p].first[k] \in S
CopiedLast(p, k, S)  == k \in DOMAIN run[p].last /\ run[p].last[k] \in S

CopiesAreTrue(p) ==
  LET t == <<"token", For(p)>>
      d == <<"device", For(p)>>
      c == <<"repo", For(p)>>
  IN
  /\ run[p] # Idle /\ run[p].at = 1 => DOMAIN run[p].first = {}
  /\ At(p, "decide", {2}) => d \notin DOMAIN run[p].first
  /\ At(p, "revoke", {2}) \/ At(p, "app", {2}) =>
       CopiedFirst(p, t, TokenRecord) /\ CopiedLast(p, t, {run[p].first[t]})
  /\ At(p, "repos", {2, 3}) \/ At(p, "scopes", {2, 3}) =>
       CopiedFirst(p, t, TokenRecord) /\ ~run[p].first[t].revoked
  /\ At(p, "repos", {3}) \/ At(p, "scopes", {3}) => CopiedLast(p, t, TokenRecord)
  /\ At(p, "poll", {2, 3}) \/ At(p, "decide", {3, 4}) => CopiedFirst(p, d, DeviceRecord)
  /\ At(p, "enabled", {2, 3}) \/ At(p, "limit", {2, 3}) => CopiedFirst(p, c, RepoRecord)

\* A record is there before an index names it, and after it.
IndexIsTrue(p) ==
  /\ At(p, "create", {2, 3}) => Has(<<"token", For(p)>>)
  /\ At(p, "sweep", {2, 3, 4}) => For(p) \in old
  /\ At(p, "sweep", {3, 4}) => ~Has(<<"by-hash", For(p)>>)
  /\ At(p, "sweep", {4}) => ~Has(<<"by-user", For(p)>>)
  /\ At(p, "login", {4}) => Has(<<"user", For(p)>>)
  /\ At(p, "add", {3}) => Has(<<"repo", For(p)>>)
  /\ At(p, "remove", {3}) /\ Has(<<"by-name">>) /\ faults = 0 => kv[<<"by-name">>].id # For(p)

\* What was consumed is not there any more.
ConsumedIsGone ==
  /\ \A i \in Id(kind) : Op("consume", i) \in done => ~Has(<<"state", i>>)
  /\ \A i \in Id(kind) : Op("logout", i) \in done => ~Has(<<"session", i>>)

LateIsFirst(p) ==
  run[p] # Idle /\ run[p].again =>
    run[p].op.name \in {"consume", "use"} /\ run[p].at = 1 /\ Ending(run[p].op) \in done

\* No decision is awaited under this identifier, or only on an outdated copy.
Gone(i)    == ~Has(<<"device", i>>) \/ <<"device", i>> \in clobbered
Settled(i) == Gone(i) \/ kv[<<"device", i>>].decided

CodesAreMade == \A i \in Id(kind) : Has(<<"code", i>>) => i \in used /\ Unmade(i)

CodeIsTrue(p) ==
  /\ At(p, "redeem", {2, 3, 4}) => Settled(For(p))
  /\ At(p, "purge", {2, 3}) => For(p) \in old
  /\ At(p, "prune", {2, 3}) => Unmade(For(p))
  /\ At(p, "prune", {3}) => Gone(For(p))

VaultTypes ==
  /\ kind \in Kind /\ faults \in 0..MaxFaults
  /\ old \subseteq used /\ used \subseteq Id(kind)
  /\ run = [p \in Process |-> run[p]]
  /\ \A p \in Process : RunIsTyped(p)

VaultInv ==
  /\ VaultTypes
  /\ RecordsAreTyped
  /\ OperationsAreTrue
  /\ \A p \in Process : CopiesAreTrue(p)
  /\ \A p \in Process : IndexIsTrue(p)
  /\ ConsumedIsGone
  /\ \A p \in Process : LateIsFirst(p)
  /\ CodesAreMade
  /\ \A p \in Process : CodeIsTrue(p)
  /\ IndexNamesRecord
  /\ ReportedChangesStay
  /\ UserCodeWorks
-----------------------------------------------------------------------------
(* The calls of each operation, and the operations that make each call.    *)

\* The j-th call of an operation.
CallIs(o, j, call, key) == Program(o)[j].call = call /\ Program(o)[j].key = key

\* What an operation of each name calls, in order.
LEMMA RowsOfCreateProxyToken ==
  ASSUME NEW o, o.name = "create"
  PROVE  /\ Len(Program(o)) = 3
         /\ CallIs(o, 1, "put", <<"token", o.id>>)
         /\ CallIs(o, 2, "put", <<"by-hash", o.id>>)
         /\ CallIs(o, 3, "put", <<"by-user", o.id>>)
  <1>1. Program(o) = CreateProxyToken(o.id)
    BY DEF Program
  <1>2. QED
    BY <1>1 DEF CreateProxyToken, CallIs, Put

LEMMA RowsOfRevokeProxyToken ==
  ASSUME NEW o, o.name = "revoke"
  PROVE  /\ Len(Program(o)) = 2
         /\ CallIs(o, 1, "read", <<"token", o.id>>)
         /\ CallIs(o, 2, "put", <<"token", o.id>>)
  <1>1. Program(o) = RevokeProxyToken(o.id)
    BY DEF Program
  <1>2. QED
    BY <1>1 DEF RevokeProxyToken, CallIs, Put, Read

LEMMA RowsOfUpdateProxyTokenScopes ==
  ASSUME NEW o, o.name = "repos" \/ o.name = "scopes"
  PROVE  /\ Len(Program(o)) = 3
         /\ CallIs(o, 1, "read", <<"token", o.id>>)
         /\ CallIs(o, 2, "read", <<"token", o.id>>)
         /\ CallIs(o, 3, "put", <<"token", o.id>>)
  <1>1. Program(o) = UpdateProxyTokenScopes(o.id)
    BY DEF Program
  <1>2. QED
    BY <1>1 DEF UpdateProxyTokenScopes, CallIs, Put, Read

LEMMA RowsOfUpdateProxyTokenAppID ==
  ASSUME NEW o, o.name = "app"
  PROVE  /\ Len(Program(o)) = 2
         /\ CallIs(o, 1, "read", <<"token", o.id>>)
         /\ CallIs(o, 2, "put", <<"token", o.id>>)
  <1>1. Program(o) = UpdateProxyTokenAppID(o.id)
    BY DEF Program
  <1>2. QED
    BY <1>1 DEF UpdateProxyTokenAppID, CallIs, Put, Read

LEMMA RowsOfDeleteExpiredProxyToken ==
  ASSUME NEW o, o.name = "sweep"
  PROVE  /\ Len(Program(o)) = 4
         /\ CallIs(o, 1, "read", <<"token", o.id>>)
         /\ CallIs(o, 2, "drop", <<"by-hash", o.id>>)
         /\ CallIs(o, 3, "drop", <<"by-user", o.id>>)
         /\ CallIs(o, 4, "drop", <<"token", o.id>>)
  <1>1. Program(o) = DeleteExpiredProxyToken(o.id)
    BY DEF Program
  <1>2. QED
    BY <1>1 DEF DeleteExpiredProxyToken, CallIs, Drop, Read

LEMMA RowsOfCreateOAuthState ==
  ASSUME NEW o, o.name = "state"
  PROVE  /\ Len(Program(o)) = 1
         /\ CallIs(o, 1, "create", <<"state", o.id>>)
  <1>1. Program(o) = CreateOAuthState(o.id)
    BY DEF Program
  <1>2. QED
    BY <1>1 DEF CreateOAuthState, CallIs, Create

LEMMA RowsOfConsumeOAuthState ==
  ASSUME NEW o, o.name = "consume"
  PROVE  /\ Len(Program(o)) = 2
         /\ CallIs(o, 1, "read", <<"state", o.id>>)
         /\ CallIs(o, 2, "drop", <<"state", o.id>>)
  <1>1. Program(o) = ConsumeOAuthState(o.id)
    BY DEF Program
  <1>2. QED
    BY <1>1 DEF ConsumeOAuthState, CallIs, Drop, Read

LEMMA RowsOfCreateDeviceAuth ==
  ASSUME NEW o, o.name = "start"
  PROVE  /\ Len(Program(o)) = 3
         /\ CallIs(o, 1, "create", <<"device", o.id>>)
         /\ CallIs(o, 2, "create", <<"code", o.id>>)
         /\ CallIs(o, 3, "try", <<"device", o.id>>)
  <1>1. Program(o) = CreateDeviceAuth(o.id)
    BY DEF Program
  <1>2. QED
    BY <1>1 DEF CreateDeviceAuth, CallIs, Create, Try

LEMMA RowsOfPollUndecided ==
  ASSUME NEW o, o.name = "poll"
  PROVE  /\ Len(Program(o)) = 3
         /\ CallIs(o, 1, "read", <<"device", o.id>>)
         /\ CallIs(o, 2, "read", <<"device", o.id>>)
         /\ CallIs(o, 3, "put", <<"device", o.id>>)
  <1>1. Program(o) = PollUndecided(o.id)
    BY DEF Program
  <1>2. QED
    BY <1>1 DEF PollUndecided, CallIs, Put, Read

LEMMA RowsOfDecide ==
  ASSUME NEW o, o.name = "decide"
  PROVE  /\ Len(Program(o)) = 4
         /\ CallIs(o, 1, "read", <<"code", o.id>>)
         /\ CallIs(o, 2, "read", <<"device", o.id>>)
         /\ CallIs(o, 3, "read", <<"device", o.id>>)
         /\ CallIs(o, 4, "put", <<"device", o.id>>)
  <1>1. Program(o) = Decide(o.id)
    BY DEF Program
  <1>2. QED
    BY <1>1 DEF Decide, CallIs, Put, Read

LEMMA RowsOfPollDecided ==
  ASSUME NEW o, o.name = "redeem"
  PROVE  /\ Len(Program(o)) = 4
         /\ CallIs(o, 1, "read", <<"device", o.id>>)
         /\ CallIs(o, 2, "glance", <<"device", o.id>>)
         /\ CallIs(o, 3, "try", <<"code", o.id>>)
         /\ CallIs(o, 4, "try", <<"device", o.id>>)
  <1>1. Program(o) = PollDecided(o.id)
    BY DEF Program
  <1>2. QED
    BY <1>1 DEF PollDecided, CallIs, Glance, Read, Try

LEMMA RowsOfDeleteExpiredDeviceAuth ==
  ASSUME NEW o, o.name = "purge"
  PROVE  /\ Len(Program(o)) = 3
         /\ CallIs(o, 1, "read", <<"device", o.id>>)
         /\ CallIs(o, 2, "try", <<"code", o.id>>)
         /\ CallIs(o, 3, "drop", <<"device", o.id>>)
  <1>1. Program(o) = DeleteExpiredDeviceAuth(o.id)
    BY DEF Program
  <1>2. QED
    BY <1>1 DEF DeleteExpiredDeviceAuth, CallIs, Drop, Read, Try

LEMMA RowsOfPruneUserCode ==
  ASSUME NEW o, o.name = "prune"
  PROVE  /\ Len(Program(o)) = 3
         /\ CallIs(o, 1, "read", <<"code", o.id>>)
         /\ CallIs(o, 2, "read", <<"device", o.id>>)
         /\ CallIs(o, 3, "try", <<"code", o.id>>)
  <1>1. Program(o) = PruneUserCode(o.id)
    BY DEF Program
  <1>2. QED
    BY <1>1 DEF PruneUserCode, CallIs, Read, Try

LEMMA RowsOfUpsert ==
  ASSUME NEW o, o.name = "login"
  PROVE  /\ Len(Program(o)) = 4
         /\ CallIs(o, 1, "read", <<"by-github-id">>)
         /\ CallIs(o, 2, "read", <<"user", o.id>>)
         /\ CallIs(o, 3, "put", <<"user", o.id>>)
         /\ CallIs(o, 4, "put", <<"by-github-id">>)
  <1>1. Program(o) = Upsert(o.id)
    BY DEF Program
  <1>2. QED
    BY <1>1 DEF Upsert, CallIs, Put, Read

LEMMA RowsOfCreateSession ==
  ASSUME NEW o, o.name = "session"
  PROVE  /\ Len(Program(o)) = 1
         /\ CallIs(o, 1, "create", <<"session", o.id>>)
  <1>1. Program(o) = CreateSession(o.id)
    BY DEF Program
  <1>2. QED
    BY <1>1 DEF CreateSession, CallIs, Create

LEMMA RowsOfGetSession ==
  ASSUME NEW o, o.name = "use"
  PROVE  /\ Len(Program(o)) = 1
         /\ CallIs(o, 1, "read", <<"session", o.id>>)
  <1>1. Program(o) = GetSession(o.id)
    BY DEF Program
  <1>2. QED
    BY <1>1 DEF GetSession, CallIs, Read

LEMMA RowsOfDeleteSession ==
  ASSUME NEW o, o.name = "logout"
  PROVE  /\ Len(Program(o)) = 1
         /\ CallIs(o, 1, "drop", <<"session", o.id>>)
  <1>1. Program(o) = DeleteSession(o.id)
    BY DEF Program
  <1>2. QED
    BY <1>1 DEF DeleteSession, CallIs, Drop

LEMMA RowsOfDeleteExpiredSession ==
  ASSUME NEW o, o.name = "expire"
  PROVE  /\ Len(Program(o)) = 2
         /\ CallIs(o, 1, "read", <<"session", o.id>>)
         /\ CallIs(o, 2, "drop", <<"session", o.id>>)
  <1>1. Program(o) = DeleteExpiredSession(o.id)
    BY DEF Program
  <1>2. QED
    BY <1>1 DEF DeleteExpiredSession, CallIs, Drop, Read

LEMMA RowsOfCreateCachedRepository ==
  ASSUME NEW o, o.name = "add"
  PROVE  /\ Len(Program(o)) = 3
         /\ CallIs(o, 1, "read", <<"by-name">>)
         /\ CallIs(o, 2, "put", <<"repo", o.id>>)
         /\ CallIs(o, 3, "put", <<"by-name">>)
  <1>1. Program(o) = CreateCachedRepository(o.id)
    BY DEF Program
  <1>2. QED
    BY <1>1 DEF CreateCachedRepository, CallIs, Put, Read

LEMMA RowsOfUpdateCachedRepository ==
  ASSUME NEW o, o.name = "enabled" \/ o.name = "limit"
  PROVE  /\ Len(Program(o)) = 3
         /\ CallIs(o, 1, "read", <<"repo", o.id>>)
         /\ CallIs(o, 2, "read", <<"repo", o.id>>)
         /\ CallIs(o, 3, "put", <<"repo", o.id>>)
  <1>1. Program(o) = UpdateCachedRepository(o.id)
    BY DEF Program
  <1>2. QED
    BY <1>1 DEF UpdateCachedRepository, CallIs, Put, Read

LEMMA RowsOfDeleteCachedRepository ==
  ASSUME NEW o, o.name = "remove"
  PROVE  /\ Len(Program(o)) = 3
         /\ CallIs(o, 1, "read", <<"repo", o.id>>)
         /\ CallIs(o, 2, "try", <<"by-name">>)
         /\ CallIs(o, 3, "drop", <<"repo", o.id>>)
  <1>1. Program(o) = DeleteCachedRepository(o.id)
    BY DEF Program
  <1>2. QED
    BY <1>1 DEF DeleteCachedRepository, CallIs, Drop, Read, Try

\* The names of all operations.
Operations ==
  {"create", "revoke", "repos", "scopes", "app", "sweep", "state", "consume",
   "start", "poll", "decide", "redeem", "purge", "prune", "login", "session",
   "use", "logout", "expire", "add", "enabled", "limit", "remove"}

\* The operations of every kind are among these.
LEMMA NamesOfKinds ==
  ASSUME kind \in Kind
  PROVE  {Creation} \cup Requests \cup Cleanup \subseteq Operations
  <1>1. kind \in {"token", "state", "device", "user", "session", "repo"}
    BY VaultAssumption
  <1>2. CASE kind = "token"
    BY <1>2 DEF Creation, Requests, Cleanup, Operations
  <1>3. CASE kind = "state"
    BY <1>3 DEF Creation, Requests, Cleanup, Operations
  <1>4. CASE kind = "device"
    BY <1>4 DEF Creation, Requests, Cleanup, Operations
  <1>5. CASE kind = "user"
    BY <1>5 DEF Creation, Requests, Cleanup, Operations
  <1>6. CASE kind = "session"
    BY <1>6 DEF Creation, Requests, Cleanup, Operations
  <1>7. CASE kind = "repo"
    BY <1>7 DEF Creation, Requests, Cleanup, Operations
  <1>8. QED
    BY <1>1, <1>2, <1>3, <1>4, <1>5, <1>6, <1>7

\* An operation under way is one of these.
LEMMA NamesOfOperations ==
  ASSUME VaultTypes, NEW p \in Process, run[p] # Idle
  PROVE  run[p].op.name \in Operations
  BY NamesOfKinds DEF VaultTypes, RunIsTyped

\* The calls that read, each with its key.
ReadsAt(p) ==
  \/ At(p, "revoke", {1}) /\ Key(p) = <<"token", For(p)>>
  \/ At(p, "repos", {1, 2}) /\ Key(p) = <<"token", For(p)>>
  \/ At(p, "scopes", {1, 2}) /\ Key(p) = <<"token", For(p)>>
  \/ At(p, "app", {1}) /\ Key(p) = <<"token", For(p)>>
  \/ At(p, "sweep", {1}) /\ Key(p) = <<"token", For(p)>>
  \/ At(p, "consume", {1}) /\ Key(p) = <<"state", For(p)>>
  \/ At(p, "poll", {1, 2}) /\ Key(p) = <<"device", For(p)>>
  \/ At(p, "decide", {1}) /\ Key(p) = <<"code", For(p)>>
  \/ At(p, "decide", {2, 3}) /\ Key(p) = <<"device", For(p)>>
  \/ At(p, "redeem", {1, 2}) /\ Key(p) = <<"device", For(p)>>
  \/ At(p, "purge", {1}) /\ Key(p) = <<"device", For(p)>>
  \/ At(p, "prune", {1}) /\ Key(p) = <<"code", For(p)>>
  \/ At(p, "prune", {2}) /\ Key(p) = <<"device", For(p)>>
  \/ At(p, "login", {1}) /\ Key(p) = <<"by-github-id">>
  \/ At(p, "login", {2}) /\ Key(p) = <<"user", For(p)>>
  \/ At(p, "use", {1}) /\ Key(p) = <<"session", For(p)>>
  \/ At(p, "expire", {1}) /\ Key(p) = <<"session", For(p)>>
  \/ At(p, "add", {1}) /\ Key(p) = <<"by-name">>
  \/ At(p, "enabled", {1, 2}) /\ Key(p) = <<"repo", For(p)>>
  \/ At(p, "limit", {1, 2}) /\ Key(p) = <<"repo", For(p)>>
  \/ At(p, "remove", {1}) /\ Key(p) = <<"repo", For(p)>>

LEMMA ReadsOf ==
  ASSUME VaultTypes, NEW p \in Process, Calls(p, {"read", "glance"})
  PROVE  ReadsAt(p)
  <1> DEFINE o == run[p].op
  <1>1. /\ run[p] # Idle /\ run[p].at \in 1..Len(Program(o))
        /\ Program(o)[run[p].at].call \in {"read", "glance"}
    BY DEF Calls, VaultTypes, RunIsTyped
  <1>2. CASE o.name = "create"
    BY <1>1, <1>2, RowsOfCreateProxyToken DEF ReadsAt, CallIs, Key, At, For
  <1>3. CASE o.name = "revoke"
    BY <1>1, <1>3, RowsOfRevokeProxyToken DEF ReadsAt, CallIs, Key, At, For
  <1>4. CASE o.name = "repos" \/ o.name = "scopes"
    <2>1. CASE o.name = "repos"
      BY <1>1, <2>1, RowsOfUpdateProxyTokenScopes DEF ReadsAt, CallIs, Key, At, For
    <2>2. CASE o.name = "scopes"
      BY <1>1, <2>2, RowsOfUpdateProxyTokenScopes DEF ReadsAt, CallIs, Key, At, For
    <2>3. QED
      BY <1>4, <2>1, <2>2
  <1>5. CASE o.name = "app"
    BY <1>1, <1>5, RowsOfUpdateProxyTokenAppID DEF ReadsAt, CallIs, Key, At, For
  <1>6. CASE o.name = "sweep"
    BY <1>1, <1>6, RowsOfDeleteExpiredProxyToken DEF ReadsAt, CallIs, Key, At, For
  <1>7. CASE o.name = "state"
    BY <1>1, <1>7, RowsOfCreateOAuthState DEF ReadsAt, CallIs, Key, At, For
  <1>8. CASE o.name = "consume"
    BY <1>1, <1>8, RowsOfConsumeOAuthState DEF ReadsAt, CallIs, Key, At, For
  <1>9. CASE o.name = "start"
    BY <1>1, <1>9, RowsOfCreateDeviceAuth DEF ReadsAt, CallIs, Key, At, For
  <1>10. CASE o.name = "poll"
    BY <1>1, <1>10, RowsOfPollUndecided DEF ReadsAt, CallIs, Key, At, For
  <1>11. CASE o.name = "decide"
    BY <1>1, <1>11, RowsOfDecide DEF ReadsAt, CallIs, Key, At, For
  <1>12. CASE o.name = "redeem"
    BY <1>1, <1>12, RowsOfPollDecided DEF ReadsAt, CallIs, Key, At, For
  <1>13. CASE o.name = "purge"
    BY <1>1, <1>13, RowsOfDeleteExpiredDeviceAuth DEF ReadsAt, CallIs, Key, At, For
  <1>14. CASE o.name = "prune"
    BY <1>1, <1>14, RowsOfPruneUserCode DEF ReadsAt, CallIs, Key, At, For
  <1>15. CASE o.name = "login"
    BY <1>1, <1>15, RowsOfUpsert DEF ReadsAt, CallIs, Key, At, For
  <1>16. CASE o.name = "session"
    BY <1>1, <1>16, RowsOfCreateSession DEF ReadsAt, CallIs, Key, At, For
  <1>17. CASE o.name = "use"
    BY <1>1, <1>17, RowsOfGetSession DEF ReadsAt, CallIs, Key, At, For
  <1>18. CASE o.name = "logout"
    BY <1>1, <1>18, RowsOfDeleteSession DEF ReadsAt, CallIs, Key, At, For
  <1>19. CASE o.name = "expire"
    BY <1>1, <1>19, RowsOfDeleteExpiredSession DEF ReadsAt, CallIs, Key, At, For
  <1>20. CASE o.name = "add"
    BY <1>1, <1>20, RowsOfCreateCachedRepository DEF ReadsAt, CallIs, Key, At, For
  <1>21. CASE o.name = "enabled" \/ o.name = "limit"
    <2>1. CASE o.name = "enabled"
      BY <1>1, <2>1, RowsOfUpdateCachedRepository DEF ReadsAt, CallIs, Key, At, For
    <2>2. CASE o.name = "limit"
      BY <1>1, <2>2, RowsOfUpdateCachedRepository DEF ReadsAt, CallIs, Key, At, For
    <2>3. QED
      BY <1>21, <2>1, <2>2
  <1>22. CASE o.name = "remove"
    BY <1>1, <1>22, RowsOfDeleteCachedRepository DEF ReadsAt, CallIs, Key, At, For
  <1>23. QED
    BY <1>1, <1>2, <1>3, <1>4, <1>5, <1>6, <1>7, <1>8, <1>9, <1>10, <1>11, <1>12, <1>13,
      <1>14, <1>15, <1>16, <1>17, <1>18, <1>19, <1>20, <1>21, <1>22, NamesOfOperations DEF
      Operations

\* The calls that write a key as it is.
PutsAt(p) ==
  \/ At(p, "create", {1}) /\ Key(p) = <<"token", For(p)>>
  \/ At(p, "create", {2}) /\ Key(p) = <<"by-hash", For(p)>>
  \/ At(p, "create", {3}) /\ Key(p) = <<"by-user", For(p)>>
  \/ At(p, "revoke", {2}) /\ Key(p) = <<"token", For(p)>>
  \/ At(p, "repos", {3}) /\ Key(p) = <<"token", For(p)>>
  \/ At(p, "scopes", {3}) /\ Key(p) = <<"token", For(p)>>
  \/ At(p, "app", {2}) /\ Key(p) = <<"token", For(p)>>
  \/ At(p, "poll", {3}) /\ Key(p) = <<"device", For(p)>>
  \/ At(p, "decide", {4}) /\ Key(p) = <<"device", For(p)>>
  \/ At(p, "login", {3}) /\ Key(p) = <<"user", For(p)>>
  \/ At(p, "login", {4}) /\ Key(p) = <<"by-github-id">>
  \/ At(p, "add", {2}) /\ Key(p) = <<"repo", For(p)>>
  \/ At(p, "add", {3}) /\ Key(p) = <<"by-name">>
  \/ At(p, "enabled", {3}) /\ Key(p) = <<"repo", For(p)>>
  \/ At(p, "limit", {3}) /\ Key(p) = <<"repo", For(p)>>

LEMMA PutsOf ==
  ASSUME VaultTypes, NEW p \in Process, Calls(p, {"put"})
  PROVE  PutsAt(p)
  <1> DEFINE o == run[p].op
  <1>1. /\ run[p] # Idle /\ run[p].at \in 1..Len(Program(o))
        /\ Program(o)[run[p].at].call \in {"put"}
    BY DEF Calls, VaultTypes, RunIsTyped
  <1>2. CASE o.name = "create"
    BY <1>1, <1>2, RowsOfCreateProxyToken DEF PutsAt, CallIs, Key, At, For
  <1>3. CASE o.name = "revoke"
    BY <1>1, <1>3, RowsOfRevokeProxyToken DEF PutsAt, CallIs, Key, At, For
  <1>4. CASE o.name = "repos" \/ o.name = "scopes"
    <2>1. CASE o.name = "repos"
      BY <1>1, <2>1, RowsOfUpdateProxyTokenScopes DEF PutsAt, CallIs, Key, At, For
    <2>2. CASE o.name = "scopes"
      BY <1>1, <2>2, RowsOfUpdateProxyTokenScopes DEF PutsAt, CallIs, Key, At, For
    <2>3. QED
      BY <1>4, <2>1, <2>2
  <1>5. CASE o.name = "app"
    BY <1>1, <1>5, RowsOfUpdateProxyTokenAppID DEF PutsAt, CallIs, Key, At, For
  <1>6. CASE o.name = "sweep"
    BY <1>1, <1>6, RowsOfDeleteExpiredProxyToken DEF PutsAt, CallIs, Key, At, For
  <1>7. CASE o.name = "state"
    BY <1>1, <1>7, RowsOfCreateOAuthState DEF PutsAt, CallIs, Key, At, For
  <1>8. CASE o.name = "consume"
    BY <1>1, <1>8, RowsOfConsumeOAuthState DEF PutsAt, CallIs, Key, At, For
  <1>9. CASE o.name = "start"
    BY <1>1, <1>9, RowsOfCreateDeviceAuth DEF PutsAt, CallIs, Key, At, For
  <1>10. CASE o.name = "poll"
    BY <1>1, <1>10, RowsOfPollUndecided DEF PutsAt, CallIs, Key, At, For
  <1>11. CASE o.name = "decide"
    BY <1>1, <1>11, RowsOfDecide DEF PutsAt, CallIs, Key, At, For
  <1>12. CASE o.name = "redeem"
    BY <1>1, <1>12, RowsOfPollDecided DEF PutsAt, CallIs, Key, At, For
  <1>13. CASE o.name = "purge"
    BY <1>1, <1>13, RowsOfDeleteExpiredDeviceAuth DEF PutsAt, CallIs, Key, At, For
  <1>14. CASE o.name = "prune"
    BY <1>1, <1>14, RowsOfPruneUserCode DEF PutsAt, CallIs, Key, At, For
  <1>15. CASE o.name = "login"
    BY <1>1, <1>15, RowsOfUpsert DEF PutsAt, CallIs, Key, At, For
  <1>16. CASE o.name = "session"
    BY <1>1, <1>16, RowsOfCreateSession DEF PutsAt, CallIs, Key, At, For
  <1>17. CASE o.name = "use"
    BY <1>1, <1>17, RowsOfGetSession DEF PutsAt, CallIs, Key, At, For
  <1>18. CASE o.name = "logout"
    BY <1>1, <1>18, RowsOfDeleteSession DEF PutsAt, CallIs, Key, At, For
  <1>19. CASE o.name = "expire"
    BY <1>1, <1>19, RowsOfDeleteExpiredSession DEF PutsAt, CallIs, Key, At, For
  <1>20. CASE o.name = "add"
    BY <1>1, <1>20, RowsOfCreateCachedRepository DEF PutsAt, CallIs, Key, At, For
  <1>21. CASE o.name = "enabled" \/ o.name = "limit"
    <2>1. CASE o.name = "enabled"
      BY <1>1, <2>1, RowsOfUpdateCachedRepository DEF PutsAt, CallIs, Key, At, For
    <2>2. CASE o.name = "limit"
      BY <1>1, <2>2, RowsOfUpdateCachedRepository DEF PutsAt, CallIs, Key, At, For
    <2>3. QED
      BY <1>21, <2>1, <2>2
  <1>22. CASE o.name = "remove"
    BY <1>1, <1>22, RowsOfDeleteCachedRepository DEF PutsAt, CallIs, Key, At, For
  <1>23. QED
    BY <1>1, <1>2, <1>3, <1>4, <1>5, <1>6, <1>7, <1>8, <1>9, <1>10, <1>11, <1>12, <1>13,
      <1>14, <1>15, <1>16, <1>17, <1>18, <1>19, <1>20, <1>21, <1>22, NamesOfOperations DEF
      Operations

\* The calls that write a key that must not be there.
CreatesAt(p) ==
  \/ At(p, "state", {1}) /\ Key(p) = <<"state", For(p)>>
  \/ At(p, "start", {1}) /\ Key(p) = <<"device", For(p)>>
  \/ At(p, "start", {2}) /\ Key(p) = <<"code", For(p)>>
  \/ At(p, "session", {1}) /\ Key(p) = <<"session", For(p)>>

LEMMA CreatesOf ==
  ASSUME VaultTypes, NEW p \in Process, Calls(p, {"create"})
  PROVE  CreatesAt(p)
  <1> DEFINE o == run[p].op
  <1>1. /\ run[p] # Idle /\ run[p].at \in 1..Len(Program(o))
        /\ Program(o)[run[p].at].call \in {"create"}
    BY DEF Calls, VaultTypes, RunIsTyped
  <1>2. CASE o.name = "create"
    BY <1>1, <1>2, RowsOfCreateProxyToken DEF CreatesAt, CallIs, Key, At, For
  <1>3. CASE o.name = "revoke"
    BY <1>1, <1>3, RowsOfRevokeProxyToken DEF CreatesAt, CallIs, Key, At, For
  <1>4. CASE o.name = "repos" \/ o.name = "scopes"
    <2>1. CASE o.name = "repos"
      BY <1>1, <2>1, RowsOfUpdateProxyTokenScopes DEF CreatesAt, CallIs, Key, At, For
    <2>2. CASE o.name = "scopes"
      BY <1>1, <2>2, RowsOfUpdateProxyTokenScopes DEF CreatesAt, CallIs, Key, At, For
    <2>3. QED
      BY <1>4, <2>1, <2>2
  <1>5. CASE o.name = "app"
    BY <1>1, <1>5, RowsOfUpdateProxyTokenAppID DEF CreatesAt, CallIs, Key, At, For
  <1>6. CASE o.name = "sweep"
    BY <1>1, <1>6, RowsOfDeleteExpiredProxyToken DEF CreatesAt, CallIs, Key, At, For
  <1>7. CASE o.name = "state"
    BY <1>1, <1>7, RowsOfCreateOAuthState DEF CreatesAt, CallIs, Key, At, For
  <1>8. CASE o.name = "consume"
    BY <1>1, <1>8, RowsOfConsumeOAuthState DEF CreatesAt, CallIs, Key, At, For
  <1>9. CASE o.name = "start"
    BY <1>1, <1>9, RowsOfCreateDeviceAuth DEF CreatesAt, CallIs, Key, At, For
  <1>10. CASE o.name = "poll"
    BY <1>1, <1>10, RowsOfPollUndecided DEF CreatesAt, CallIs, Key, At, For
  <1>11. CASE o.name = "decide"
    BY <1>1, <1>11, RowsOfDecide DEF CreatesAt, CallIs, Key, At, For
  <1>12. CASE o.name = "redeem"
    BY <1>1, <1>12, RowsOfPollDecided DEF CreatesAt, CallIs, Key, At, For
  <1>13. CASE o.name = "purge"
    BY <1>1, <1>13, RowsOfDeleteExpiredDeviceAuth DEF CreatesAt, CallIs, Key, At, For
  <1>14. CASE o.name = "prune"
    BY <1>1, <1>14, RowsOfPruneUserCode DEF CreatesAt, CallIs, Key, At, For
  <1>15. CASE o.name = "login"
    BY <1>1, <1>15, RowsOfUpsert DEF CreatesAt, CallIs, Key, At, For
  <1>16. CASE o.name = "session"
    BY <1>1, <1>16, RowsOfCreateSession DEF CreatesAt, CallIs, Key, At, For
  <1>17. CASE o.name = "use"
    BY <1>1, <1>17, RowsOfGetSession DEF CreatesAt, CallIs, Key, At, For
  <1>18. CASE o.name = "logout"
    BY <1>1, <1>18, RowsOfDeleteSession DEF CreatesAt, CallIs, Key, At, For
  <1>19. CASE o.name = "expire"
    BY <1>1, <1>19, RowsOfDeleteExpiredSession DEF CreatesAt, CallIs, Key, At, For
  <1>20. CASE o.name = "add"
    BY <1>1, <1>20, RowsOfCreateCachedRepository DEF CreatesAt, CallIs, Key, At, For
  <1>21. CASE o.name = "enabled" \/ o.name = "limit"
    <2>1. CASE o.name = "enabled"
      BY <1>1, <2>1, RowsOfUpdateCachedRepository DEF CreatesAt, CallIs, Key, At, For
    <2>2. CASE o.name = "limit"
      BY <1>1, <2>2, RowsOfUpdateCachedRepository DEF CreatesAt, CallIs, Key, At, For
    <2>3. QED
      BY <1>21, <2>1, <2>2
  <1>22. CASE o.name = "remove"
    BY <1>1, <1>22, RowsOfDeleteCachedRepository DEF CreatesAt, CallIs, Key, At, For
  <1>23. QED
    BY <1>1, <1>2, <1>3, <1>4, <1>5, <1>6, <1>7, <1>8, <1>9, <1>10, <1>11, <1>12, <1>13,
      <1>14, <1>15, <1>16, <1>17, <1>18, <1>19, <1>20, <1>21, <1>22, NamesOfOperations DEF
      Operations

\* The calls that delete.
DropsAt(p) ==
  \/ At(p, "sweep", {2}) /\ Key(p) = <<"by-hash", For(p)>>
  \/ At(p, "sweep", {3}) /\ Key(p) = <<"by-user", For(p)>>
  \/ At(p, "sweep", {4}) /\ Key(p) = <<"token", For(p)>>
  \/ At(p, "consume", {2}) /\ Key(p) = <<"state", For(p)>>
  \/ At(p, "start", {3}) /\ Key(p) = <<"device", For(p)>>
  \/ At(p, "redeem", {3}) /\ Key(p) = <<"code", For(p)>>
  \/ At(p, "redeem", {4}) /\ Key(p) = <<"device", For(p)>>
  \/ At(p, "purge", {2}) /\ Key(p) = <<"code", For(p)>>
  \/ At(p, "purge", {3}) /\ Key(p) = <<"device", For(p)>>
  \/ At(p, "prune", {3}) /\ Key(p) = <<"code", For(p)>>
  \/ At(p, "logout", {1}) /\ Key(p) = <<"session", For(p)>>
  \/ At(p, "expire", {2}) /\ Key(p) = <<"session", For(p)>>
  \/ At(p, "remove", {2}) /\ Key(p) = <<"by-name">>
  \/ At(p, "remove", {3}) /\ Key(p) = <<"repo", For(p)>>

LEMMA DropsOf ==
  ASSUME VaultTypes, NEW p \in Process, Calls(p, {"drop", "try"})
  PROVE  DropsAt(p)
  <1> DEFINE o == run[p].op
  <1>1. /\ run[p] # Idle /\ run[p].at \in 1..Len(Program(o))
        /\ Program(o)[run[p].at].call \in {"drop", "try"}
    BY DEF Calls, VaultTypes, RunIsTyped
  <1>2. CASE o.name = "create"
    BY <1>1, <1>2, RowsOfCreateProxyToken DEF DropsAt, CallIs, Key, At, For
  <1>3. CASE o.name = "revoke"
    BY <1>1, <1>3, RowsOfRevokeProxyToken DEF DropsAt, CallIs, Key, At, For
  <1>4. CASE o.name = "repos" \/ o.name = "scopes"
    <2>1. CASE o.name = "repos"
      BY <1>1, <2>1, RowsOfUpdateProxyTokenScopes DEF DropsAt, CallIs, Key, At, For
    <2>2. CASE o.name = "scopes"
      BY <1>1, <2>2, RowsOfUpdateProxyTokenScopes DEF DropsAt, CallIs, Key, At, For
    <2>3. QED
      BY <1>4, <2>1, <2>2
  <1>5. CASE o.name = "app"
    BY <1>1, <1>5, RowsOfUpdateProxyTokenAppID DEF DropsAt, CallIs, Key, At, For
  <1>6. CASE o.name = "sweep"
    BY <1>1, <1>6, RowsOfDeleteExpiredProxyToken DEF DropsAt, CallIs, Key, At, For
  <1>7. CASE o.name = "state"
    BY <1>1, <1>7, RowsOfCreateOAuthState DEF DropsAt, CallIs, Key, At, For
  <1>8. CASE o.name = "consume"
    BY <1>1, <1>8, RowsOfConsumeOAuthState DEF DropsAt, CallIs, Key, At, For
  <1>9. CASE o.name = "start"
    BY <1>1, <1>9, RowsOfCreateDeviceAuth DEF DropsAt, CallIs, Key, At, For
  <1>10. CASE o.name = "poll"
    BY <1>1, <1>10, RowsOfPollUndecided DEF DropsAt, CallIs, Key, At, For
  <1>11. CASE o.name = "decide"
    BY <1>1, <1>11, RowsOfDecide DEF DropsAt, CallIs, Key, At, For
  <1>12. CASE o.name = "redeem"
    BY <1>1, <1>12, RowsOfPollDecided DEF DropsAt, CallIs, Key, At, For
  <1>13. CASE o.name = "purge"
    BY <1>1, <1>13, RowsOfDeleteExpiredDeviceAuth DEF DropsAt, CallIs, Key, At, For
  <1>14. CASE o.name = "prune"
    BY <1>1, <1>14, RowsOfPruneUserCode DEF DropsAt, CallIs, Key, At, For
  <1>15. CASE o.name = "login"
    BY <1>1, <1>15, RowsOfUpsert DEF DropsAt, CallIs, Key, At, For
  <1>16. CASE o.name = "session"
    BY <1>1, <1>16, RowsOfCreateSession DEF DropsAt, CallIs, Key, At, For
  <1>17. CASE o.name = "use"
    BY <1>1, <1>17, RowsOfGetSession DEF DropsAt, CallIs, Key, At, For
  <1>18. CASE o.name = "logout"
    BY <1>1, <1>18, RowsOfDeleteSession DEF DropsAt, CallIs, Key, At, For
  <1>19. CASE o.name = "expire"
    BY <1>1, <1>19, RowsOfDeleteExpiredSession DEF DropsAt, CallIs, Key, At, For
  <1>20. CASE o.name = "add"
    BY <1>1, <1>20, RowsOfCreateCachedRepository DEF DropsAt, CallIs, Key, At, For
  <1>21. CASE o.name = "enabled" \/ o.name = "limit"
    <2>1. CASE o.name = "enabled"
      BY <1>1, <2>1, RowsOfUpdateCachedRepository DEF DropsAt, CallIs, Key, At, For
    <2>2. CASE o.name = "limit"
      BY <1>1, <2>2, RowsOfUpdateCachedRepository DEF DropsAt, CallIs, Key, At, For
    <2>3. QED
      BY <1>21, <2>1, <2>2
  <1>22. CASE o.name = "remove"
    BY <1>1, <1>22, RowsOfDeleteCachedRepository DEF DropsAt, CallIs, Key, At, For
  <1>23. QED
    BY <1>1, <1>2, <1>3, <1>4, <1>5, <1>6, <1>7, <1>8, <1>9, <1>10, <1>11, <1>12, <1>13,
      <1>14, <1>15, <1>16, <1>17, <1>18, <1>19, <1>20, <1>21, <1>22, NamesOfOperations DEF
      Operations

\* The calls whose failure is ignored.
TriesAt(p) ==
  \/ At(p, "start", {3}) /\ Key(p) = <<"device", For(p)>>
  \/ At(p, "redeem", {2, 4}) /\ Key(p) = <<"device", For(p)>>
  \/ At(p, "redeem", {3}) /\ Key(p) = <<"code", For(p)>>
  \/ At(p, "purge", {2}) /\ Key(p) = <<"code", For(p)>>
  \/ At(p, "prune", {3}) /\ Key(p) = <<"code", For(p)>>
  \/ At(p, "remove", {2}) /\ Key(p) = <<"by-name">>

LEMMA TriesOf ==
  ASSUME VaultTypes, NEW p \in Process, Calls(p, {"glance", "try"})
  PROVE  TriesAt(p)
  <1> DEFINE o == run[p].op
  <1>1. /\ run[p] # Idle /\ run[p].at \in 1..Len(Program(o))
        /\ Program(o)[run[p].at].call \in {"glance", "try"}
    BY DEF Calls, VaultTypes, RunIsTyped
  <1>2. CASE o.name = "create"
    BY <1>1, <1>2, RowsOfCreateProxyToken DEF TriesAt, CallIs, Key, At, For
  <1>3. CASE o.name = "revoke"
    BY <1>1, <1>3, RowsOfRevokeProxyToken DEF TriesAt, CallIs, Key, At, For
  <1>4. CASE o.name = "repos" \/ o.name = "scopes"
    <2>1. CASE o.name = "repos"
      BY <1>1, <2>1, RowsOfUpdateProxyTokenScopes DEF TriesAt, CallIs, Key, At, For
    <2>2. CASE o.name = "scopes"
      BY <1>1, <2>2, RowsOfUpdateProxyTokenScopes DEF TriesAt, CallIs, Key, At, For
    <2>3. QED
      BY <1>4, <2>1, <2>2
  <1>5. CASE o.name = "app"
    BY <1>1, <1>5, RowsOfUpdateProxyTokenAppID DEF TriesAt, CallIs, Key, At, For
  <1>6. CASE o.name = "sweep"
    BY <1>1, <1>6, RowsOfDeleteExpiredProxyToken DEF TriesAt, CallIs, Key, At, For
  <1>7. CASE o.name = "state"
    BY <1>1, <1>7, RowsOfCreateOAuthState DEF TriesAt, CallIs, Key, At, For
  <1>8. CASE o.name = "consume"
    BY <1>1, <1>8, RowsOfConsumeOAuthState DEF TriesAt, CallIs, Key, At, For
  <1>9. CASE o.name = "start"
    BY <1>1, <1>9, RowsOfCreateDeviceAuth DEF TriesAt, CallIs, Key, At, For
  <1>10. CASE o.name = "poll"
    BY <1>1, <1>10, RowsOfPollUndecided DEF TriesAt, CallIs, Key, At, For
  <1>11. CASE o.name = "decide"
    BY <1>1, <1>11, RowsOfDecide DEF TriesAt, CallIs, Key, At, For
  <1>12. CASE o.name = "redeem"
    BY <1>1, <1>12, RowsOfPollDecided DEF TriesAt, CallIs, Key, At, For
  <1>13. CASE o.name = "purge"
    BY <1>1, <1>13, RowsOfDeleteExpiredDeviceAuth DEF TriesAt, CallIs, Key, At, For
  <1>14. CASE o.name = "prune"
    BY <1>1, <1>14, RowsOfPruneUserCode DEF TriesAt, CallIs, Key, At, For
  <1>15. CASE o.name = "login"
    BY <1>1, <1>15, RowsOfUpsert DEF TriesAt, CallIs, Key, At, For
  <1>16. CASE o.name = "session"
    BY <1>1, <1>16, RowsOfCreateSession DEF TriesAt, CallIs, Key, At, For
  <1>17. CASE o.name = "use"
    BY <1>1, <1>17, RowsOfGetSession DEF TriesAt, CallIs, Key, At, For
  <1>18. CASE o.name = "logout"
    BY <1>1, <1>18, RowsOfDeleteSession DEF TriesAt, CallIs, Key, At, For
  <1>19. CASE o.name = "expire"
    BY <1>1, <1>19, RowsOfDeleteExpiredSession DEF TriesAt, CallIs, Key, At, For
  <1>20. CASE o.name = "add"
    BY <1>1, <1>20, RowsOfCreateCachedRepository DEF TriesAt, CallIs, Key, At, For
  <1>21. CASE o.name = "enabled" \/ o.name = "limit"
    <2>1. CASE o.name = "enabled"
      BY <1>1, <2>1, RowsOfUpdateCachedRepository DEF TriesAt, CallIs, Key, At, For
    <2>2. CASE o.name = "limit"
      BY <1>1, <2>2, RowsOfUpdateCachedRepository DEF TriesAt, CallIs, Key, At, For
    <2>3. QED
      BY <1>21, <2>1, <2>2
  <1>22. CASE o.name = "remove"
    BY <1>1, <1>22, RowsOfDeleteCachedRepository DEF TriesAt, CallIs, Key, At, For
  <1>23. QED
    BY <1>1, <1>2, <1>3, <1>4, <1>5, <1>6, <1>7, <1>8, <1>9, <1>10, <1>11, <1>12, <1>13,
      <1>14, <1>15, <1>16, <1>17, <1>18, <1>19, <1>20, <1>21, <1>22, NamesOfOperations DEF
      Operations

\* How many calls an operation makes.
HasLength(o) ==
  \/ o.name \in {"state", "session", "use", "logout"} /\ Len(Program(o)) = 1
  \/ o.name \in {"revoke", "app", "consume", "expire"} /\ Len(Program(o)) = 2
  \/ o.name \in {"create", "repos", "scopes", "start", "poll", "purge", "prune", "add", "enabled", "limit", "remove"}
         /\ Len(Program(o)) = 3
  \/ o.name \in {"sweep", "decide", "redeem", "login"} /\ Len(Program(o)) = 4

LEMMA Lengths ==
  ASSUME NEW o, o.name \in Operations
  PROVE  HasLength(o)
  <1>1. CASE o.name = "create"
    BY <1>1, RowsOfCreateProxyToken DEF HasLength
  <1>2. CASE o.name = "revoke"
    BY <1>2, RowsOfRevokeProxyToken DEF HasLength
  <1>3. CASE o.name = "repos" \/ o.name = "scopes"
    BY <1>3, RowsOfUpdateProxyTokenScopes DEF HasLength
  <1>4. CASE o.name = "app"
    BY <1>4, RowsOfUpdateProxyTokenAppID DEF HasLength
  <1>5. CASE o.name = "sweep"
    BY <1>5, RowsOfDeleteExpiredProxyToken DEF HasLength
  <1>6. CASE o.name = "state"
    BY <1>6, RowsOfCreateOAuthState DEF HasLength
  <1>7. CASE o.name = "consume"
    BY <1>7, RowsOfConsumeOAuthState DEF HasLength
  <1>8. CASE o.name = "start"
    BY <1>8, RowsOfCreateDeviceAuth DEF HasLength
  <1>9. CASE o.name = "poll"
    BY <1>9, RowsOfPollUndecided DEF HasLength
  <1>10. CASE o.name = "decide"
    BY <1>10, RowsOfDecide DEF HasLength
  <1>11. CASE o.name = "redeem"
    BY <1>11, RowsOfPollDecided DEF HasLength
  <1>12. CASE o.name = "purge"
    BY <1>12, RowsOfDeleteExpiredDeviceAuth DEF HasLength
  <1>13. CASE o.name = "prune"
    BY <1>13, RowsOfPruneUserCode DEF HasLength
  <1>14. CASE o.name = "login"
    BY <1>14, RowsOfUpsert DEF HasLength
  <1>15. CASE o.name = "session"
    BY <1>15, RowsOfCreateSession DEF HasLength
  <1>16. CASE o.name = "use"
    BY <1>16, RowsOfGetSession DEF HasLength
  <1>17. CASE o.name = "logout"
    BY <1>17, RowsOfDeleteSession DEF HasLength
  <1>18. CASE o.name = "expire"
    BY <1>18, RowsOfDeleteExpiredSession DEF HasLength
  <1>19. CASE o.name = "add"
    BY <1>19, RowsOfCreateCachedRepository DEF HasLength
  <1>20. CASE o.name = "enabled" \/ o.name = "limit"
    BY <1>20, RowsOfUpdateCachedRepository DEF HasLength
  <1>21. CASE o.name = "remove"
    BY <1>21, RowsOfDeleteCachedRepository DEF HasLength
  <1>22. QED
    BY <1>1, <1>2, <1>3, <1>4, <1>5, <1>6, <1>7, <1>8, <1>9, <1>10, <1>11, <1>12, <1>13,
      <1>14, <1>15, <1>16, <1>17, <1>18, <1>19, <1>20, <1>21 DEF Operations

\* Every operation has a first call.
LEMMA FirstCallIsThere ==
  ASSUME NEW o, o.name \in Operations
  PROVE  1 \in 1..Len(Program(o))
  <1>1. HasLength(o)
    BY Lengths
  <1>2. \/ Len(Program(o)) = 1 \/ Len(Program(o)) = 2
        \/ Len(Program(o)) = 3 \/ Len(Program(o)) = 4
    BY <1>1, Zenon DEF HasLength
  <1>3. \A n : n = 1 \/ n = 2 \/ n = 3 \/ n = 4 => 1 \in 1..n
    OBVIOUS
  <1>4. QED
    BY <1>2, <1>3, Zenon

-----------------------------------------------------------------------------
(* What a call does to the keys.                                           *)

\* What writing one key does to the others.
LEMMA Written ==
  ASSUME NEW k, NEW v, kv' = With(kv, k, v)
  PROVE  /\ \A j : Has(j)' <=> Has(j) \/ j = k
         /\ \A j : Has(j) /\ j # k => kv'[j] = kv[j]
         /\ kv'[k] = v
  BY DEF With, Has

\* Keys are there after the step that were not before, and the other way round.
Appears(k)  == ~Has(k) /\ Has(k)'
Vanishes(k) == Has(k) /\ ~Has(k)'

\* The operation of p is at one of these calls and about i.
IsAt(p, name, calls, i) == At(p, name, calls) /\ For(p) = i

\* Which call makes a key appear or vanish.
Presence(p) ==
  \A i \in Id(kind) :
    /\ Vanishes(<<"token", i>>) => IsAt(p, "sweep", {4}, i)
    /\ Vanishes(<<"repo", i>>) => IsAt(p, "remove", {3}, i)
    /\ ~Vanishes(<<"user", i>>)
    /\ Appears(<<"by-hash", i>>) => IsAt(p, "create", {2}, i)
    /\ Appears(<<"by-user", i>>) => IsAt(p, "create", {3}, i)
    /\ Appears(<<"state", i>>) => IsAt(p, "state", {1}, i)
    /\ Appears(<<"session", i>>) => IsAt(p, "session", {1}, i)
    /\ Appears(<<"code", i>>) => IsAt(p, "start", {2}, i)
    /\ Vanishes(<<"code", i>>) =>
         IsAt(p, "redeem", {3}, i) \/ IsAt(p, "purge", {2}, i) \/ IsAt(p, "prune", {3}, i)

\* The indexes of which there is one name what they named, or what they were given.
Pointers(p) ==
  /\ Has(<<"by-github-id">>)' =>
       \/ Has(<<"by-github-id">>) /\ kv'[<<"by-github-id">>] = kv[<<"by-github-id">>]
       \/ At(p, "login", {4}) /\ kv'[<<"by-github-id">>].id = For(p)
  /\ Has(<<"by-name">>)' =>
       \/ Has(<<"by-name">>) /\ kv'[<<"by-name">>] = kv[<<"by-name">>]
       \/ At(p, "add", {3}) /\ kv'[<<"by-name">>].id = For(p)

\* A record that is not written from an outdated copy goes on as it was, but for what
\* the operation is to change.
TokenGoesOn(i) ==
  LET t == <<"token", i>> IN
  /\ Has(t)
  /\ kv[t].revoked => kv'[t].revoked
  /\ kv[t].repos = 1 => kv'[t].repos = 1
  /\ kv[t].scopes = 1 => kv'[t].scopes = 1
RepoGoesOn(i) ==
  LET c == <<"repo", i>> IN
  /\ Has(c)
  /\ kv[c].enabled = 1 => kv'[c].enabled = 1
  /\ kv[c].limit = 1 => kv'[c].limit = 1
DeviceGoesOn(i) ==
  LET d == <<"device", i>> IN Has(d) /\ (kv[d].decided => kv'[d].decided)

Kept(p) ==
  /\ clobbered \subseteq clobbered'
  /\ \A i \in Id(kind) :
       /\ Has(<<"token", i>>)' /\ <<"token", i>> \notin clobbered' =>
            IsAt(p, "create", {1}, i) \/ TokenGoesOn(i)
       /\ Has(<<"repo", i>>)' /\ <<"repo", i>> \notin clobbered' =>
            IsAt(p, "add", {2}, i) \/ RepoGoesOn(i)
       /\ Has(<<"device", i>>)' /\ <<"device", i>> \notin clobbered' =>
            IsAt(p, "start", {1}, i) \/ DeviceGoesOn(i)

\* All that a call does to the keys.
Effects(p) == Presence(p) /\ Pointers(p) /\ Kept(p) /\ RecordsAreTyped'

\* A step that writes no key has all of that.
LEMMA NothingHappens ==
  ASSUME NEW p \in Process, RecordsAreTyped, kv' = kv, clobbered' = clobbered, kind' = kind,
         used \subseteq used'
  PROVE  Effects(p)
  BY DEF Effects, Presence, Appears, Vanishes, Has, Pointers, Kept, TokenGoesOn, RepoGoesOn,
    DeviceGoesOn, RecordsAreTyped

\* A delete.
LEMMA DropsEffects ==
  ASSUME VaultTypes, RecordsAreTyped, NEW p \in Process, Drops(p)
  PROVE  Effects(p)
  <1>1. /\ Calls(p, {"drop", "try"})
        /\ kv' = [k \in DOMAIN kv \ {Key(p)} |-> kv[k]]
        /\ clobbered' = clobbered /\ kind' = kind /\ used' = used
    BY DEF Drops
  <1>2. \A k : /\ Has(k)' <=> Has(k) /\ k # Key(p)
               /\ Has(k)' => kv'[k] = kv[k]
    BY <1>1 DEF Has
  <1>3. Presence(p)
    <2> SUFFICES ASSUME NEW i \in Id(kind)
                 PROVE  /\ <<"token", i>> = Key(p) => IsAt(p, "sweep", {4}, i)
                        /\ <<"repo", i>> = Key(p) => IsAt(p, "remove", {3}, i)
                        /\ <<"user", i>> # Key(p)
                        /\ <<"code", i>> = Key(p) =>
                             IsAt(p, "redeem", {3}, i) \/ IsAt(p, "purge", {2}, i) \/ IsAt(p, "prune", {3}, i)
      BY <1>2 DEF Presence, Appears, Vanishes
    <2>1. QED
      BY <1>1, DropsOf DEF IsAt, DropsAt
  <1>4. Pointers(p)
    BY <1>2 DEF Pointers
  <1>5. Kept(p)
    BY <1>1, <1>2 DEF Kept, TokenGoesOn, RepoGoesOn, DeviceGoesOn
  <1>6. RecordsAreTyped'
    BY <1>1, <1>2 DEF RecordsAreTyped, Has
  <1>7. QED
    BY <1>3, <1>4, <1>5, <1>6 DEF Effects

\* A check-and-set.
LEMMA CreatesEffects ==
  ASSUME VaultTypes, RecordsAreTyped, NEW p \in Process, Creates(p)
  PROVE  Effects(p)
  <1> DEFINE v == Value(run[p].op, Key(p), run[p].first, run[p].last)
  <1>1. /\ Calls(p, {"create"}) /\ ~Has(Key(p))
        /\ kv' = With(kv, Key(p), v)
        /\ clobbered' = clobbered /\ kind' = kind /\ used' = used
    BY DEF Creates, Write, Has
  <1> HIDE DEF v
  <1>2. \A k : /\ Has(k)' <=> Has(k) \/ k = Key(p)
               /\ Has(k) => kv'[k] = kv[k]
    BY <1>1, Written
  <1>3. kv'[Key(p)] = v
    BY <1>1, Written
  <1>4. /\ \/ At(p, "state", {1}) /\ Key(p) = <<"state", For(p)>>
           \/ At(p, "start", {1}) /\ Key(p) = <<"device", For(p)>>
           \/ At(p, "start", {2}) /\ Key(p) = <<"code", For(p)>>
           \/ At(p, "session", {1}) /\ Key(p) = <<"session", For(p)>>
    BY <1>1, CreatesOf DEF CreatesAt
  <1>5. Presence(p)
    BY <1>2, <1>4 DEF Presence, Appears, Vanishes, IsAt
  <1>6. Pointers(p)
    BY <1>2, <1>4 DEF Pointers
  <1>7. Kept(p)
    BY <1>1, <1>2, <1>4 DEF Kept, TokenGoesOn, RepoGoesOn, DeviceGoesOn, IsAt
  <1>8. Key(p)[1] = "device" => v \in DeviceRecord
    <2> SUFFICES ASSUME Key(p)[1] = "device" PROVE v \in DeviceRecord
      OBVIOUS
    <2>1. At(p, "start", {1})
      BY <1>4
    <2>2. v = [decided |-> FALSE, polled |-> FALSE]
      BY <2>1 DEF v, Value, At
    <2>3. QED
      BY <2>2 DEF DeviceRecord
  <1>9. RecordsAreTyped'
    BY <1>1, <1>2, <1>3, <1>4, <1>8 DEF RecordsAreTyped
  <1>10. QED
    BY <1>5, <1>6, <1>7, <1>9 DEF Effects

\* Whoever does not clobber a key finds there what it has read at first.
LEMMA FreshPut ==
  ASSUME NEW p \in Process, Puts(p), Key(p) \notin clobbered',
         Key(p) \in DOMAIN run[p].first, run[p].first[Key(p)] # Absent
  PROVE  Has(Key(p)) /\ kv[Key(p)] = run[p].first[Key(p)]
  BY DEF Puts, Stale, Peek, Has

\* A record is not mistaken for a missing one.
LEMMA RecordsAreThere ==
  /\ Absent \notin TokenRecord /\ Absent \notin DeviceRecord /\ Absent \notin RepoRecord
  <1>1. DOMAIN Absent = {"missing"}
    BY DEF Absent
  <1>2. \A r \in TokenRecord : "revoked" \in DOMAIN r
    BY DEF TokenRecord
  <1>3. \A r \in DeviceRecord : "decided" \in DOMAIN r
    BY DEF DeviceRecord
  <1>4. \A r \in RepoRecord : "enabled" \in DOMAIN r
    BY DEF RepoRecord
  <1>5. QED
    BY <1>1, <1>2, <1>3, <1>4

\* What the values of the operations on tokens keep and change.
LEMMA Revisions ==
  ASSUME NEW l \in TokenRecord, NEW f \in TokenRecord
  PROVE  /\ Revoked(l) \in TokenRecord /\ Revoked(l).revoked
         /\ Revoked(l).repos = l.repos /\ Revoked(l).scopes = l.scopes
         /\ WithRepos(l, f) \in TokenRecord /\ WithRepos(l, f).repos = 1
         /\ WithRepos(l, f).scopes = f.scopes
         /\ WithScopes(l, f) \in TokenRecord /\ WithScopes(l, f).scopes = 1
         /\ WithScopes(l, f).repos = f.repos
  <1>1. f.repos \in 0..1 /\ f.scopes \in 0..1
    BY DEF TokenRecord
  <1>4. /\ Revoked(l) \in TokenRecord /\ Revoked(l).revoked
        /\ Revoked(l).repos = l.repos /\ Revoked(l).scopes = l.scopes
    BY DEF TokenRecord, Revoked
  <1>5. /\ WithRepos(l, f) \in TokenRecord /\ WithRepos(l, f).repos = 1
        /\ WithRepos(l, f).scopes = f.scopes
    <2> DEFINE m == [l EXCEPT !.repos = 1]
    <2>1. m \in TokenRecord /\ m.repos = 1
      BY DEF TokenRecord
    <2>2. WithRepos(l, f) = [m EXCEPT !.scopes = f.scopes]
      BY DEF WithRepos
    <2> HIDE DEF m
    <2>3. QED
      BY <1>1, <2>1, <2>2 DEF TokenRecord
  <1>6. /\ WithScopes(l, f) \in TokenRecord /\ WithScopes(l, f).scopes = 1
        /\ WithScopes(l, f).repos = f.repos
    <2> DEFINE m == [l EXCEPT !.scopes = 1]
    <2>1. m \in TokenRecord /\ m.scopes = 1
      BY DEF TokenRecord
    <2>2. WithScopes(l, f) = [m EXCEPT !.repos = f.repos]
      BY DEF WithScopes
    <2> HIDE DEF m
    <2>3. QED
      BY <1>1, <2>1, <2>2 DEF TokenRecord
  <1>7. QED
    BY <1>4, <1>5, <1>6

\* What an operation writes.
NewValue(p) == Value(run[p].op, Key(p), run[p].first, run[p].last)

\* A token is written back as a token, with what the operation is to change.
LEMMA TokenPut ==
  ASSUME NEW p \in Process, CopiesAreTrue(p), Puts(p), Key(p) = <<"token", For(p)>>,
         At(p, "revoke", {2}) \/ At(p, "app", {2}) \/ At(p, "repos", {3}) \/ At(p, "scopes", {3})
  PROVE  LET t == Key(p)
             v == NewValue(p)
         IN
         /\ v \in TokenRecord
         /\ t \notin clobbered' =>
              /\ Has(t)
              /\ kv[t].revoked => v.revoked
              /\ kv[t].repos = 1 => v.repos = 1
              /\ kv[t].scopes = 1 => v.scopes = 1
         /\ At(p, "revoke", {2}) => v.revoked
         /\ At(p, "repos", {3}) => v.repos = 1
         /\ At(p, "scopes", {3}) => v.scopes = 1
  <1> DEFINE t == Key(p)
             v == NewValue(p)
             f == run[p].first[t]
             l == run[p].last[t]
  <1>1. f \in TokenRecord /\ l \in TokenRecord /\ t \in DOMAIN run[p].first
    BY DEF CopiesAreTrue, CopiedFirst, CopiedLast, At
  <1>2. t \notin clobbered' => Has(t) /\ kv[t] = f
    BY <1>1, FreshPut, RecordsAreThere
  <1>3. CASE At(p, "revoke", {2})
    <2>1. f = l
      BY <1>3 DEF CopiesAreTrue, CopiedLast
    <2>2. v = Revoked(l)
      BY <1>3 DEF NewValue, Value, At
    <2>3. v \in TokenRecord /\ v.revoked /\ v.repos = f.repos /\ v.scopes = f.scopes
      BY <1>1, <2>1, <2>2, Revisions
    <2>4. QED
      BY <1>2, <1>3, <2>1, <2>3 DEF At
  <1>4. CASE At(p, "app", {2})
    <2>1. f = l
      BY <1>4 DEF CopiesAreTrue, CopiedLast
    <2>2. v = l
      BY <1>4 DEF NewValue, Value, At
    <2>3. QED
      BY <1>1, <1>2, <1>4, <2>1, <2>2 DEF At
  <1>5. CASE At(p, "repos", {3})
    <2>1. ~f.revoked
      BY <1>5 DEF CopiesAreTrue, At
    <2>2. v = WithRepos(l, f)
      BY <1>5 DEF NewValue, Value, At
    <2>3. v \in TokenRecord /\ v.repos = 1 /\ v.scopes = f.scopes
      BY <1>1, <2>1, <2>2, Revisions
    <2>4. QED
      BY <1>2, <1>5, <2>1, <2>3 DEF At
  <1>6. CASE At(p, "scopes", {3})
    <2>1. ~f.revoked
      BY <1>6 DEF CopiesAreTrue, At
    <2>2. v = WithScopes(l, f)
      BY <1>6 DEF NewValue, Value, At
    <2>3. v \in TokenRecord /\ v.scopes = 1 /\ v.repos = f.repos
      BY <1>1, <2>1, <2>2, Revisions
    <2>4. QED
      BY <1>2, <1>6, <2>1, <2>3 DEF At
  <1>7. QED
    BY <1>3, <1>4, <1>5, <1>6

\* An authorization is written back decided if it was.
LEMMA DevicePut ==
  ASSUME NEW p \in Process, CopiesAreTrue(p), Puts(p), Key(p) = <<"device", For(p)>>,
         At(p, "poll", {3}) \/ At(p, "decide", {4})
  PROVE  /\ NewValue(p) \in DeviceRecord
         /\ Key(p) \notin clobbered' =>
              Has(Key(p)) /\ (kv[Key(p)].decided => NewValue(p).decided)
  <1> DEFINE f == run[p].first[Key(p)]
  <1>1. f \in DeviceRecord /\ Key(p) \in DOMAIN run[p].first
    BY DEF CopiesAreTrue, CopiedFirst, At
  <1>2. Key(p) \notin clobbered' => Has(Key(p)) /\ kv[Key(p)] = f
    BY <1>1, FreshPut, RecordsAreThere
  <1>3. CASE At(p, "poll", {3})
    <2>1. NewValue(p) = [f EXCEPT !.polled = TRUE]
      BY <1>3 DEF NewValue, Value, At
    <2>2. QED
      BY <1>1, <1>2, <2>1 DEF DeviceRecord
  <1>4. CASE At(p, "decide", {4})
    <2>1. NewValue(p) = [f EXCEPT !.decided = TRUE]
      BY <1>4 DEF NewValue, Value, At
    <2>2. QED
      BY <1>1, <1>2, <2>1 DEF DeviceRecord
  <1>5. QED
    BY <1>3, <1>4

\* A cached repository is written back with what the operation is to change.
LEMMA RepoPut ==
  ASSUME NEW p \in Process, CopiesAreTrue(p), Puts(p), Key(p) = <<"repo", For(p)>>,
         At(p, "enabled", {3}) \/ At(p, "limit", {3})
  PROVE  LET c == Key(p)
             v == NewValue(p)
         IN
         /\ v \in RepoRecord
         /\ c \notin clobbered' =>
              /\ Has(c)
              /\ kv[c].enabled = 1 => v.enabled = 1
              /\ kv[c].limit = 1 => v.limit = 1
         /\ At(p, "enabled", {3}) => v.enabled = 1
         /\ At(p, "limit", {3}) => v.limit = 1
  <1> DEFINE f == run[p].first[Key(p)]
  <1>1. f \in RepoRecord /\ Key(p) \in DOMAIN run[p].first
    BY DEF CopiesAreTrue, CopiedFirst, At
  <1>2. Key(p) \notin clobbered' => Has(Key(p)) /\ kv[Key(p)] = f
    BY <1>1, FreshPut, RecordsAreThere
  <1>3. CASE At(p, "enabled", {3})
    <2>1. NewValue(p) = [f EXCEPT !.enabled = 1]
      BY <1>3 DEF NewValue, Value, At
    <2>2. QED
      BY <1>1, <1>2, <1>3, <2>1 DEF RepoRecord, At
  <1>4. CASE At(p, "limit", {3})
    <2>1. NewValue(p) = [f EXCEPT !.limit = 1]
      BY <1>4 DEF NewValue, Value, At
    <2>2. QED
      BY <1>1, <1>2, <1>4, <2>1 DEF RepoRecord, At
  <1>5. QED
    BY <1>3, <1>4

\* A write of a key as it is: one step per kind of record.
LEMMA PutsEffects ==
  ASSUME VaultTypes, RecordsAreTyped, NEW p \in Process, Puts(p), CopiesAreTrue(p)
  PROVE  Effects(p)
  <1> DEFINE v == NewValue(p)
  <1>1. /\ Calls(p, {"put"})
        /\ kv' = With(kv, Key(p), v)
        /\ clobbered \subseteq clobbered' /\ kind' = kind /\ used' = used
    BY DEF Puts, Write, NewValue
  <1> HIDE DEF v
  <1>2. \A k : Has(k)' <=> Has(k) \/ k = Key(p)
    BY <1>1, Written
  <1>3. \A k : Has(k) /\ k # Key(p) => kv'[k] = kv[k]
    BY <1>1, Written
  <1>4. kv'[Key(p)] = v
    BY <1>1, Written
  <1>5. For(p) \in used
    BY <1>1 DEF Calls, VaultTypes, RunIsTyped, For
  <1>6. Presence(p)
    <2>1. \A k : ~Vanishes(k) /\ (Appears(k) => k = Key(p))
      BY <1>2 DEF Appears, Vanishes
    <2> SUFFICES ASSUME NEW i \in Id(kind)
                 PROVE  /\ <<"by-hash", i>> = Key(p) => IsAt(p, "create", {2}, i)
                        /\ <<"by-user", i>> = Key(p) => IsAt(p, "create", {3}, i)
                        /\ <<"state", i>> # Key(p)
                        /\ <<"session", i>> # Key(p)
                        /\ <<"code", i>> # Key(p)
      BY <2>1 DEF Presence
    <2>2. QED
      BY <1>1, PutsOf DEF IsAt, PutsAt
  <1>7. Key(p) = <<"by-github-id">> => At(p, "login", {4}) /\ v.id = For(p)
    <2> SUFFICES ASSUME Key(p) = <<"by-github-id">> PROVE At(p, "login", {4}) /\ v.id = For(p)
      OBVIOUS
    <2>1. At(p, "login", {4})
      BY <1>1, PutsOf DEF PutsAt
    <2>2. v = [id |-> For(p)]
      BY <2>1 DEF v, NewValue, Value, At, For
    <2>3. QED
      BY <2>1, <2>2
  <1>8. Key(p) = <<"by-name">> => At(p, "add", {3}) /\ v.id = For(p)
    <2> SUFFICES ASSUME Key(p) = <<"by-name">> PROVE At(p, "add", {3}) /\ v.id = For(p)
      OBVIOUS
    <2>1. At(p, "add", {3})
      BY <1>1, PutsOf DEF PutsAt
    <2>2. v = [id |-> For(p)]
      BY <2>1 DEF v, NewValue, Value, At, For
    <2>3. QED
      BY <2>1, <2>2
  <1>9. Pointers(p)
    BY <1>2, <1>3, <1>4, <1>7, <1>8 DEF Pointers
  <1>10. ASSUME NEW i, Key(p) = <<"token", i>>
         PROVE  /\ v \in TokenRecord
                /\ i = For(p)
                /\ \/ IsAt(p, "create", {1}, i)
                   \/ Key(p) \notin clobbered' =>
                        /\ Has(Key(p))
                        /\ kv[Key(p)].revoked => v.revoked
                        /\ kv[Key(p)].repos = 1 => v.repos = 1
                        /\ kv[Key(p)].scopes = 1 => v.scopes = 1
    <2>1. /\ i = For(p)
          /\ \/ At(p, "create", {1})
             \/ At(p, "revoke", {2}) \/ At(p, "app", {2}) \/ At(p, "repos", {3}) \/ At(p, "scopes", {3})
      BY <1>1, <1>10, PutsOf DEF PutsAt
    <2>2. CASE At(p, "create", {1})
      <3>1. v = [revoked |-> FALSE, repos |-> 0, scopes |-> 0]
        BY <1>10, <2>2 DEF v, NewValue, Value, At
      <3>2. QED
        BY <2>1, <2>2, <3>1 DEF TokenRecord, IsAt
    <2>3. CASE At(p, "revoke", {2}) \/ At(p, "app", {2}) \/ At(p, "repos", {3}) \/ At(p, "scopes", {3})
      BY <1>10, <2>1, <2>3, TokenPut DEF v
    <2>4. QED
      BY <2>1, <2>2, <2>3
  <1>11. ASSUME NEW i, Key(p) = <<"device", i>>
         PROVE  /\ v \in DeviceRecord
                /\ Key(p) \notin clobbered' => Has(Key(p)) /\ (kv[Key(p)].decided => v.decided)
    <2>1. i = For(p) /\ (At(p, "poll", {3}) \/ At(p, "decide", {4}))
      BY <1>1, <1>11, PutsOf DEF PutsAt
    <2>2. QED
      BY <1>11, <2>1, DevicePut DEF v
  <1>12. ASSUME NEW i, Key(p) = <<"repo", i>>
         PROVE  /\ v \in RepoRecord
                /\ \/ IsAt(p, "add", {2}, i)
                   \/ Key(p) \notin clobbered' =>
                        /\ Has(Key(p))
                        /\ kv[Key(p)].enabled = 1 => v.enabled = 1
                        /\ kv[Key(p)].limit = 1 => v.limit = 1
    <2>1. /\ i = For(p)
          /\ At(p, "add", {2}) \/ At(p, "enabled", {3}) \/ At(p, "limit", {3})
      BY <1>1, <1>12, PutsOf DEF PutsAt
    <2>2. CASE At(p, "add", {2})
      <3>1. v = [enabled |-> 0, limit |-> 0]
        BY <1>12, <2>2 DEF v, NewValue, Value, At
      <3>2. QED
        BY <2>1, <2>2, <3>1 DEF RepoRecord, IsAt
    <2>3. CASE At(p, "enabled", {3}) \/ At(p, "limit", {3})
      BY <1>12, <2>1, <2>3, RepoPut DEF v
    <2>4. QED
      BY <2>1, <2>2, <2>3
  <1>13. Kept(p)
    <2> SUFFICES ASSUME NEW i \in Id(kind)
                 PROVE
       /\ Has(<<"token", i>>)' /\ <<"token", i>> \notin clobbered' =>
            IsAt(p, "create", {1}, i) \/ TokenGoesOn(i)
       /\ Has(<<"repo", i>>)' /\ <<"repo", i>> \notin clobbered' =>
            IsAt(p, "add", {2}, i) \/ RepoGoesOn(i)
       /\ Has(<<"device", i>>)' /\ <<"device", i>> \notin clobbered' => DeviceGoesOn(i)
      BY <1>1 DEF Kept
    <2>1. ASSUME Has(<<"token", i>>)', <<"token", i>> \notin clobbered'
          PROVE  IsAt(p, "create", {1}, i) \/ TokenGoesOn(i)
      BY <1>2, <1>3, <1>4, <1>10, <2>1 DEF TokenGoesOn
    <2>2. ASSUME Has(<<"repo", i>>)', <<"repo", i>> \notin clobbered'
          PROVE  IsAt(p, "add", {2}, i) \/ RepoGoesOn(i)
      BY <1>2, <1>3, <1>4, <1>12, <2>2 DEF RepoGoesOn
    <2>3. ASSUME Has(<<"device", i>>)', <<"device", i>> \notin clobbered'
          PROVE  DeviceGoesOn(i)
      BY <1>2, <1>3, <1>4, <1>11, <2>3 DEF DeviceGoesOn
    <2>4. QED
      BY <2>1, <2>2, <2>3
  <1>14. RecordsAreTyped'
    <2>1. ASSUME NEW i \in Id(kind)
          PROVE  /\ Has(<<"token", i>>)' => kv'[<<"token", i>>] \in TokenRecord
                 /\ Has(<<"device", i>>)' => kv'[<<"device", i>>] \in DeviceRecord
                 /\ Has(<<"repo", i>>)' => kv'[<<"repo", i>>] \in RepoRecord
      BY <1>2, <1>3, <1>4, <1>10, <1>11, <1>12 DEF RecordsAreTyped
    <2>2. Has(<<"by-github-id">>)' => kv'[<<"by-github-id">>].id \in used
      BY <1>2, <1>3, <1>4, <1>5, <1>7 DEF RecordsAreTyped
    <2>3. Has(<<"by-name">>)' => kv'[<<"by-name">>].id \in used
      BY <1>2, <1>3, <1>4, <1>5, <1>8 DEF RecordsAreTyped
    <2>4. QED
      BY <1>1, <2>1, <2>2, <2>3 DEF RecordsAreTyped
  <1>15. QED
    BY <1>6, <1>9, <1>13, <1>14 DEF Effects

-----------------------------------------------------------------------------
(* How a process moves.                                                    *)

\* The other processes stay where they are.
Others(p) == run' = [q \in Process |-> IF q = p THEN run'[p] ELSE run[q]]

\* On to a call of the same operation.
Continues(p, j) ==
  /\ run'[p] = [op |-> run[p].op, at |-> j, first |-> run[p].first, last |-> run[p].last,
                new |-> run[p].new, again |-> run[p].again]
  /\ done' = done

\* On to the next call.
GoesOn(p) == run[p].at # Len(Program(run[p].op)) /\ Continues(p, run[p].at + 1)

\* What is reported when the operation of p has succeeded.
Reported(p) == {run[p].op} \cap [name : Recorded, id : used]

\* The operation has made its last call.
Succeeds(p) ==
  /\ run'[p] = Idle
  /\ run[p].at = Len(Program(run[p].op)) \/ At(p, "start", {2})
  /\ done' = done \cup Reported(p)

\* It has ended with nothing reported.
GivesUp(p) == run'[p] = Idle /\ done' = done

\* An operation under way is not mistaken for none.
LEMMA NotIdle ==
  ASSUME NEW o, NEW j, NEW f, NEW l, NEW n, NEW a
  PROVE  [op |-> o, at |-> j, first |-> f, last |-> l, new |-> n, again |-> a] # Idle
  BY DEF Idle

\* Proceed without copies read in the same step.
LEMMA ProceedIs ==
  ASSUME VaultTypes, NEW p \in Process, run[p] # Idle, Proceed(p, run[p])
  PROVE  Others(p) /\ (Succeeds(p) \/ (GoesOn(p) /\ ~At(p, "start", {2})))
  <1> DEFINE r == run[p]
  <1>1. /\ r = [op |-> r.op, at |-> r.at, first |-> r.first, last |-> r.last, new |-> r.new, again |-> r.again]
        /\ r.at \in 1..Len(Program(r.op))
        /\ run = [q \in Process |-> run[q]]
    BY DEF VaultTypes, RunIsTyped
  <1>2. CASE r.at = Len(Program(r.op)) \/ (r.op.name = "start" /\ r.at = 2)
    <2>1. run' = [run EXCEPT ![p] = Idle] /\ done' = done \cup Reported(p)
      BY <1>2 DEF Proceed, Return, Reported
    <2>2. run'[p] = Idle
      BY <1>1, <2>1
    <2>3. Others(p)
      BY <1>1, <2>1 DEF Others
    <2>4. QED
      BY <1>2, <2>1, <2>2, <2>3 DEF Succeeds, At
  <1>3. CASE ~(r.at = Len(Program(r.op)) \/ (r.op.name = "start" /\ r.at = 2))
    <2>1. run' = [run EXCEPT ![p] = [r EXCEPT !.at = r.at + 1]] /\ done' = done
      BY <1>3 DEF Proceed
    <2>2. run'[p] = [r EXCEPT !.at = r.at + 1]
      BY <1>1, <2>1
    <2>3. [r EXCEPT !.at = r.at + 1] =
            [op |-> r.op, at |-> r.at + 1, first |-> r.first, last |-> r.last, new |-> r.new, again |-> r.again]
      BY <1>1
    <2>4. Others(p)
      BY <1>1, <2>1 DEF Others
    <2>5. Len(Program(r.op)) \in Nat
      BY NamesOfOperations, Lengths DEF HasLength
    <2>6. QED
      BY <1>1, <1>3, <2>1, <2>2, <2>3, <2>4, <2>5 DEF GoesOn, Continues, At
  <1>4. QED
    BY <1>2, <1>3

\* The copies after a read, and where an operation goes on with them.
FirstCopies(p) ==
  IF Key(p) \in DOMAIN run[p].first THEN run[p].first ELSE With(run[p].first, Key(p), Peek(Key(p)))
LastCopies(p) == With(run[p].last, Key(p), Peek(Key(p)))
WithCopies(r, f, l) == [r EXCEPT !.first = f, !.last = l]
Identified(p) == Identify(WithCopies(run[p], FirstCopies(p), LastCopies(p)), Peek(Key(p)))

\* On to the next call with what was read.
Learns(p) ==
  LET r == run[p]
      s == run'[p]
  IN
  /\ Calls(p, {"read", "glance"})
  /\ ~Stops(r.op, r.at, Peek(Key(p)))
  /\ r.at < Len(Program(r.op))
  /\ s = [op |-> s.op, at |-> r.at + 1, first |-> FirstCopies(p), last |-> LastCopies(p),
          new |-> r.new, again |-> r.again]
  /\ s.op = Op(r.op.name, s.op.id)
  /\ s.op.id \in used
  /\ r.op.name # "login" => s.op = r.op

\* An operation that ends with a read reports nothing.
LEMMA ReadsReportNothing ==
  ASSUME VaultTypes, NEW p \in Process, Calls(p, {"read", "glance"}), run[p].at = Len(Program(run[p].op))
  PROVE  run[p].op.name = "use" /\ Reported(p) = {}
  <1>1. run[p] # Idle /\ run[p].op = Op(run[p].op.name, run[p].op.id)
    BY DEF Calls, VaultTypes, RunIsTyped
  <1> DEFINE o == run[p].op
             rows == \/ At(p, "login", {1, 2}) \/ At(p, "use", {1})
                     \/ At(p, "revoke", {1}) \/ At(p, "app", {1}) \/ At(p, "consume", {1})
                     \/ At(p, "expire", {1}) \/ At(p, "add", {1}) \/ At(p, "remove", {1})
                     \/ At(p, "repos", {1, 2}) \/ At(p, "scopes", {1, 2}) \/ At(p, "poll", {1, 2})
                     \/ At(p, "enabled", {1, 2}) \/ At(p, "limit", {1, 2})
                     \/ At(p, "prune", {1, 2}) \/ At(p, "purge", {1})
                     \/ At(p, "sweep", {1}) \/ At(p, "decide", {1, 2, 3}) \/ At(p, "redeem", {1, 2})
  <1>2. rows
    BY ReadsOf DEF At, ReadsAt
  <1>3. /\ o.name \in {"revoke", "app", "consume", "expire"} => Len(Program(o)) = 2
        /\ o.name \in {"repos", "scopes", "poll", "purge", "prune", "add", "enabled", "limit", "remove"}
             => Len(Program(o)) = 3
        /\ o.name \in {"sweep", "decide", "redeem", "login"} => Len(Program(o)) = 4
    BY <1>1, NamesOfOperations, Lengths DEF HasLength
  <1>4. run[p].op.name = "use"
    BY <1>2, <1>3 DEF At
  <1>5. run[p].op.name \notin Recorded
    BY <1>4 DEF Recorded
  <1>6. QED
    BY <1>4, <1>5 DEF Reported

\* The state of an operation with other copies.
LEMMA CopiedIs ==
  ASSUME NEW r, NEW f, NEW l,
         r = [op |-> r.op, at |-> r.at, first |-> r.first, last |-> r.last, new |-> r.new, again |-> r.again]
  PROVE  WithCopies(r, f, l) =
           [op |-> r.op, at |-> r.at, first |-> f, last |-> l, new |-> r.new, again |-> r.again]
  <1> DEFINE m == [r EXCEPT !.first = f]
  <1>1. m = [op |-> r.op, at |-> r.at, first |-> f, last |-> r.last, new |-> r.new, again |-> r.again]
    OBVIOUS
  <1>2. WithCopies(r, f, l) = [m EXCEPT !.last = l]
    BY DEF WithCopies
  <1> HIDE DEF m
  <1>3. QED
    BY <1>1, <1>2

\* After a read an operation is about the same record, but for a login.
LEMMA IdentifyIs ==
  ASSUME VaultTypes, RecordsAreTyped, NEW p \in Process, Calls(p, {"read", "glance"})
  PROVE  LET r == run[p]
             t == Identified(p)
         IN  /\ t = [op |-> t.op, at |-> r.at, first |-> FirstCopies(p), last |-> LastCopies(p),
                     new |-> r.new, again |-> r.again]
             /\ t.op = Op(r.op.name, t.op.id)
             /\ t.op.id \in used
             /\ r.op.name # "login" => t.op = r.op
  <1> DEFINE r == run[p]
             v == Peek(Key(p))
             f == FirstCopies(p)
             l == LastCopies(p)
             s == WithCopies(r, f, l)
             t == Identified(p)
  <1>1. /\ r = [op |-> r.op, at |-> r.at, first |-> r.first, last |-> r.last, new |-> r.new, again |-> r.again]
        /\ r.op = [name |-> r.op.name, id |-> r.op.id]
        /\ r.op.id \in used /\ r.new \in used /\ r # Idle
    BY DEF Calls, VaultTypes, RunIsTyped, Op
  <1>2. t = Identify(s, v)
    BY DEF Identified
  <1> HIDE DEF f, l
  <1>3. s = [op |-> r.op, at |-> r.at, first |-> f, last |-> l, new |-> r.new, again |-> r.again]
    BY <1>1, CopiedIs
  <1>4. s = [op |-> [name |-> r.op.name, id |-> r.op.id], at |-> r.at, first |-> f, last |-> l,
             new |-> r.new, again |-> r.again]
    BY <1>1, <1>3
  <1> HIDE DEF s, t
  <1>5. s.op.name = r.op.name /\ s.at = r.at /\ s.new = r.new
    BY <1>4
  <1>6. CASE r.op.name = "login" /\ r.at = 1 /\ v # Absent
    <2>1. t = [s EXCEPT !.op.id = v.id]
      BY <1>2, <1>5, <1>6 DEF Identify
    <2>2. t = [op |-> [name |-> r.op.name, id |-> v.id], at |-> r.at, first |-> f, last |-> l,
               new |-> r.new, again |-> r.again]
      BY <1>4, <2>1
    <2>3. Key(p) = <<"by-github-id">>
      BY <1>1, <1>6, RowsOfUpsert DEF Key, CallIs
    <2>4. v.id \in used
      BY <1>6, <2>3 DEF Peek, RecordsAreTyped, Has
    <2>5. QED
      BY <1>6, <2>2, <2>4 DEF Op, f, l, t, At
  <1>7. CASE r.op.name = "login" /\ r.at = 2 /\ v = Absent
    <2>1. t = [s EXCEPT !.op.id = r.new]
      BY <1>2, <1>5, <1>7 DEF Identify
    <2>2. t = [op |-> [name |-> r.op.name, id |-> r.new], at |-> r.at, first |-> f, last |-> l,
               new |-> r.new, again |-> r.again]
      BY <1>4, <2>1
    <2>3. t.op = Op(r.op.name, r.new)
      BY <2>2 DEF Op
    <2>4. QED
      BY <1>1, <1>7, <2>2, <2>3 DEF Op, f, l, t
  <1>8. CASE ~(r.op.name = "login" /\ r.at = 1 /\ v # Absent) /\ ~(r.op.name = "login" /\ r.at = 2 /\ v = Absent)
    <2>1. t = s
      BY <1>2, <1>5, <1>8 DEF Identify
    <2>2. t.op = Op(r.op.name, r.op.id) /\ t.op = r.op
      BY <1>1, <1>3, <2>1 DEF Op
    <2>3. QED
      BY <1>1, <1>3, <2>1, <2>2 DEF Op, f, l, t, s
  <1>9. QED
    BY <1>6, <1>7, <1>8

\* A read ends the operation or takes it to its next call.
LEMMA ReadsMove ==
  ASSUME VaultTypes, RecordsAreTyped, NEW p \in Process, Reads(p)
  PROVE  Others(p) /\ done' = done /\ (run'[p] = Idle \/ Learns(p))
  <1> DEFINE r == run[p]
             t == Identified(p)
  <1>1. /\ Calls(p, {"read", "glance"}) /\ r # Idle
        /\ run = [q \in Process |-> run[q]]
        /\ r.at \in 1..Len(Program(r.op))
    BY DEF Reads, Calls, VaultTypes, RunIsTyped
  <1>2. /\ t = [op |-> t.op, at |-> r.at, first |-> FirstCopies(p), last |-> LastCopies(p),
                new |-> r.new, again |-> r.again]
        /\ t.op = Op(r.op.name, t.op.id)
        /\ t.op.id \in used
        /\ r.op.name # "login" => t.op = r.op
    BY <1>1, IdentifyIs
  <1>3. \/ Return(p) /\ done' = done
        \/ ~Stops(r.op, r.at, Peek(Key(p))) /\ Proceed(p, t)
    BY DEF Reads, Identified, WithCopies, FirstCopies, LastCopies
  <1> HIDE DEF t
  <1>4. CASE Return(p) /\ done' = done
    BY <1>1, <1>4 DEF Return, Others
  <1>5. CASE ~Stops(r.op, r.at, Peek(Key(p))) /\ Proceed(p, t)
    <2>1. t.op.name = r.op.name /\ t.at = r.at
      BY <1>2 DEF Op
    <2>2. Len(Program(t.op)) = Len(Program(r.op)) /\ Len(Program(r.op)) \in Nat
      <3>1. Len(Program(r.op)) \in Nat
        BY <1>1, NamesOfOperations, Lengths DEF HasLength
      <3>2. r.op.name = "login" => Len(Program(r.op)) = 4 /\ Len(Program(t.op)) = 4
        BY <2>1, RowsOfUpsert
      <3>3. QED
        BY <1>2, <3>1, <3>2
    <2>3. r.op.name # "start"
      BY <1>1, ReadsOf DEF At, ReadsAt
    <2>4. CASE r.at = Len(Program(r.op))
      <3>1. r.op.name = "use" /\ Reported(p) = {}
        BY <1>1, <2>4, ReadsReportNothing
      <3>2. t.op = r.op
        BY <1>2, <3>1
      <3>3. Return(p) /\ done' = done \cup Reported(p)
        BY <1>5, <2>1, <2>2, <2>4, <3>2 DEF Proceed, Reported
      <3>4. QED
        BY <1>1, <3>1, <3>3 DEF Return, Others
    <2>5. CASE r.at # Len(Program(r.op))
      <3>1. run' = [run EXCEPT ![p] = [t EXCEPT !.at = t.at + 1]] /\ done' = done
        BY <1>5, <2>1, <2>2, <2>3, <2>5 DEF Proceed
      <3>2. run'[p] = [t EXCEPT !.at = t.at + 1]
        BY <1>1, <3>1
      <3>3. [t EXCEPT !.at = t.at + 1] =
              [op |-> t.op, at |-> r.at + 1, first |-> FirstCopies(p), last |-> LastCopies(p),
               new |-> r.new, again |-> r.again]
        BY <1>2
      <3>4. r.at < Len(Program(r.op))
        BY <1>1, <2>2, <2>5
      <3>5. Others(p)
        BY <1>1, <3>1 DEF Others
      <3>6. run'[p] = [op |-> run'[p].op, at |-> r.at + 1, first |-> FirstCopies(p), last |-> LastCopies(p),
                       new |-> r.new, again |-> r.again] /\ run'[p].op = t.op
        BY <3>2, <3>3
      <3>7. Learns(p)
        BY <1>1, <1>2, <1>5, <3>4, <3>6 DEF Learns
      <3>8. QED
        BY <3>1, <3>5, <3>7
    <2>6. QED
      BY <2>4, <2>5
  <1>6. QED
    BY <1>3, <1>4, <1>5

-----------------------------------------------------------------------------
(* The outcome of a step of a process that is in an operation.             *)

\* The fields of an operation that goes on.
LEMMA ContinuesIs ==
  ASSUME NEW p \in Process, NEW j, Continues(p, j)
  PROVE  /\ run'[p] # Idle /\ run'[p].op = run[p].op /\ run'[p].at = j
         /\ run'[p].first = run[p].first /\ run'[p].last = run[p].last
         /\ run'[p].new = run[p].new /\ run'[p].again = run[p].again
         /\ run'[p] = [op |-> run'[p].op, at |-> run'[p].at, first |-> run'[p].first,
                       last |-> run'[p].last, new |-> run'[p].new, again |-> run'[p].again]
  BY NotIdle DEF Continues

\* The fields of an operation that goes on after a read.
LEMMA LearnsIs ==
  ASSUME NEW p \in Process, Learns(p)
  PROVE  /\ run'[p] # Idle /\ run'[p].at = run[p].at + 1
         /\ run'[p].first = FirstCopies(p) /\ run'[p].last = LastCopies(p)
         /\ run'[p].new = run[p].new /\ run'[p].again = run[p].again
         /\ run'[p].op.name = run[p].op.name
         /\ run[p].op.name # "login" => run'[p].op = run[p].op
         /\ run'[p] = [op |-> run'[p].op, at |-> run'[p].at, first |-> run'[p].first,
                       last |-> run'[p].last, new |-> run'[p].new, again |-> run'[p].again]
  BY NotIdle DEF Learns, Op

\* k is there after the step.
Gets(k) == k \in DOMAIN kv'

\* What holds when an operation that succeeds is reported.
Proves(p) ==
  LET name == run[p].op.name
      t == <<"token", For(p)>>
      c == <<"repo", For(p)>>
  IN
  /\ name = "consume" => ~Gets(<<"state", For(p)>>)
  /\ name = "logout" => ~Gets(<<"session", For(p)>>)
  /\ name = "start" => Gets(<<"code", For(p)>>)
  /\ name = "revoke" => kv'[t].revoked
  /\ name = "repos" => kv'[t].repos = 1
  /\ name = "scopes" => kv'[t].scopes = 1
  /\ name = "enabled" => kv'[c].enabled = 1
  /\ name = "limit" => kv'[c].limit = 1

\* What holds when an operation goes on after a call that is not a read.
Arrives(p) ==
  \/ At(p, "create", {1}) /\ Continues(p, 2) /\ Gets(<<"token", For(p)>>)
  \/ At(p, "create", {2}) /\ Continues(p, 3)
  \/ At(p, "sweep", {2}) /\ Continues(p, 3) /\ ~Gets(<<"by-hash", For(p)>>)
  \/ At(p, "sweep", {3}) /\ Continues(p, 4) /\ ~Gets(<<"by-user", For(p)>>)
  \/ At(p, "start", {1}) /\ Continues(p, 2)
  \/ At(p, "start", {2}) /\ Continues(p, 3) /\ kv' = kv
  \/ At(p, "redeem", {2}) /\ Continues(p, 4)
  \/ At(p, "redeem", {3}) /\ Continues(p, 4)
  \/ At(p, "purge", {2}) /\ Continues(p, 3)
  \/ At(p, "login", {3}) /\ Continues(p, 4) /\ Gets(<<"user", For(p)>>)
  \/ At(p, "add", {2}) /\ Continues(p, 3) /\ Gets(<<"repo", For(p)>>)
  \/ At(p, "remove", {2}) /\ Continues(p, 3) /\ (~Gets(<<"by-name">>) \/ faults' # 0)

Outcome(p) ==
  /\ Others(p)
  /\ \/ GivesUp(p)
     \/ Succeeds(p) /\ Proves(p)
     \/ Learns(p) /\ kv' = kv /\ done' = done
     \/ Arrives(p)

\* Where a process is after a write.
LEMMA PutsOutcome ==
  ASSUME VaultTypes, RecordsAreTyped, NEW p \in Process, Puts(p), CopiesAreTrue(p)
  PROVE  Outcome(p)
  <1> DEFINE o == run[p].op
  <1>1. /\ Calls(p, {"put"}) /\ run[p] # Idle
        /\ kv' = With(kv, Key(p), NewValue(p))
        /\ Proceed(p, run[p])
    BY DEF Puts, Write, NewValue, Calls
  <1>2. Gets(Key(p)) /\ kv'[Key(p)] = NewValue(p)
    BY <1>1, Written DEF Has, Gets
  <1>3. Others(p) /\ (Succeeds(p) \/ GoesOn(p))
    BY <1>1, ProceedIs
  <1>4. /\ o.name \in {"revoke", "app"} => Len(Program(o)) = 2
        /\ o.name \in {"create", "repos", "scopes", "poll", "add", "enabled", "limit"} => Len(Program(o)) = 3
        /\ o.name \in {"decide", "login"} => Len(Program(o)) = 4
    BY <1>1, NamesOfOperations, Lengths DEF HasLength
  <1>5. GoesOn(p) => Arrives(p)
    <2> SUFFICES ASSUME GoesOn(p) PROVE Arrives(p)
      OBVIOUS
    <2>1. \/ At(p, "create", {1}) /\ Key(p) = <<"token", For(p)>>
          \/ At(p, "create", {2})
          \/ At(p, "login", {3}) /\ Key(p) = <<"user", For(p)>>
          \/ At(p, "add", {2}) /\ Key(p) = <<"repo", For(p)>>
      <3>1. /\ ~At(p, "create", {3}) /\ ~At(p, "revoke", {2}) /\ ~At(p, "repos", {3})
            /\ ~At(p, "scopes", {3}) /\ ~At(p, "app", {2}) /\ ~At(p, "poll", {3})
            /\ ~At(p, "decide", {4}) /\ ~At(p, "login", {4}) /\ ~At(p, "add", {3})
            /\ ~At(p, "enabled", {3}) /\ ~At(p, "limit", {3})
        BY <1>4 DEF GoesOn, At
      <3>2. QED
        BY <1>1, <3>1, PutsOf DEF PutsAt
    <2>2. /\ At(p, "create", {1}) => Continues(p, 2)
          /\ At(p, "create", {2}) => Continues(p, 3)
          /\ At(p, "login", {3}) => Continues(p, 4)
          /\ At(p, "add", {2}) => Continues(p, 3)
      BY DEF GoesOn, At
    <2>3. QED
      BY <1>2, <2>1, <2>2 DEF Arrives
  <1>6. Succeeds(p) => Proves(p)
    <2> SUFFICES ASSUME Succeeds(p) PROVE Proves(p)
      OBVIOUS
    <2>1. ~At(p, "start", {2})
      BY <1>1, PutsOf DEF At, PutsAt
    <2>2. run[p].at = Len(Program(o))
      BY <2>1 DEF Succeeds
    <2>3. \/ At(p, "revoke", {2}) /\ Key(p) = <<"token", For(p)>>
          \/ At(p, "repos", {3}) /\ Key(p) = <<"token", For(p)>>
          \/ At(p, "scopes", {3}) /\ Key(p) = <<"token", For(p)>>
          \/ At(p, "enabled", {3}) /\ Key(p) = <<"repo", For(p)>>
          \/ At(p, "limit", {3}) /\ Key(p) = <<"repo", For(p)>>
          \/ o.name \in {"create", "app", "poll", "decide", "login", "add"}
      BY <1>1, PutsOf DEF At, PutsAt
    <2>4. CASE At(p, "revoke", {2}) /\ Key(p) = <<"token", For(p)>>
      <3>1. NewValue(p).revoked
        BY <2>4, TokenPut
      <3>2. QED
        BY <1>2, <2>4, <3>1 DEF Proves, At
    <2>5. CASE At(p, "repos", {3}) /\ Key(p) = <<"token", For(p)>>
      <3>1. NewValue(p).repos = 1
        BY <2>5, TokenPut
      <3>2. QED
        BY <1>2, <2>5, <3>1 DEF Proves, At
    <2>6. CASE At(p, "scopes", {3}) /\ Key(p) = <<"token", For(p)>>
      <3>1. NewValue(p).scopes = 1
        BY <2>6, TokenPut
      <3>2. QED
        BY <1>2, <2>6, <3>1 DEF Proves, At
    <2>7. CASE At(p, "enabled", {3}) /\ Key(p) = <<"repo", For(p)>>
      <3>1. NewValue(p).enabled = 1
        BY <2>7, RepoPut
      <3>2. QED
        BY <1>2, <2>7, <3>1 DEF Proves, At
    <2>8. CASE At(p, "limit", {3}) /\ Key(p) = <<"repo", For(p)>>
      <3>1. NewValue(p).limit = 1
        BY <2>8, RepoPut
      <3>2. QED
        BY <1>2, <2>8, <3>1 DEF Proves, At
    <2>9. CASE o.name \in {"create", "app", "poll", "decide", "login", "add"}
      BY <2>9 DEF Proves
    <2>10. QED
      BY <2>3, <2>4, <2>5, <2>6, <2>7, <2>8, <2>9
  <1>7. QED
    BY <1>3, <1>5, <1>6 DEF Outcome

\* Where a process is after a check-and-set.
LEMMA CreatesOutcome ==
  ASSUME VaultTypes, RecordsAreTyped, NEW p \in Process, Creates(p)
  PROVE  Outcome(p)
  <1> DEFINE o == run[p].op
  <1>1. /\ Calls(p, {"create"}) /\ run[p] # Idle
        /\ kv' = With(kv, Key(p), NewValue(p))
        /\ Proceed(p, run[p])
    BY DEF Creates, Write, NewValue, Calls
  <1>2. Gets(Key(p))
    BY <1>1, Written DEF Has, Gets
  <1>3. Others(p) /\ (Succeeds(p) \/ (GoesOn(p) /\ ~At(p, "start", {2})))
    BY <1>1, ProceedIs
  <1>4. /\ o.name \in {"state", "session"} => Len(Program(o)) = 1
        /\ o.name = "start" => Len(Program(o)) = 3
    BY <1>1, NamesOfOperations, Lengths DEF HasLength
  <1>5. GoesOn(p) /\ ~At(p, "start", {2}) => Arrives(p)
    <2> SUFFICES ASSUME GoesOn(p), ~At(p, "start", {2}) PROVE Arrives(p)
      OBVIOUS
    <2>1. At(p, "start", {1})
      <3>1. ~At(p, "state", {1}) /\ ~At(p, "session", {1})
        BY <1>4 DEF GoesOn, At
      <3>2. QED
        BY <1>1, <3>1, CreatesOf DEF CreatesAt
    <2>2. Continues(p, 2)
      BY <2>1 DEF GoesOn, At
    <2>3. QED
      BY <2>1, <2>2 DEF Arrives
  <1>6. Succeeds(p) => Proves(p)
    <2> SUFFICES ASSUME Succeeds(p) PROVE Proves(p)
      OBVIOUS
    <2>1. \/ o.name \in {"state", "session"}
          \/ o.name = "start" /\ Key(p) = <<"code", For(p)>>
      BY <1>1, <1>4, CreatesOf DEF Succeeds, At, CreatesAt
    <2>2. QED
      BY <1>2, <2>1 DEF Proves
  <1>7. QED
    BY <1>3, <1>5, <1>6 DEF Outcome

\* Where a process is after a delete.
LEMMA DropsOutcome ==
  ASSUME VaultTypes, RecordsAreTyped, NEW p \in Process, Drops(p)
  PROVE  Outcome(p)
  <1> DEFINE o == run[p].op
  <1>1. /\ Calls(p, {"drop", "try"}) /\ run[p] # Idle
        /\ kv' = [k \in DOMAIN kv \ {Key(p)} |-> kv[k]]
        /\ \/ o.name = "start" /\ Return(p) /\ done' = done
           \/ o.name # "start" /\ Proceed(p, run[p])
        /\ run = [q \in Process |-> run[q]]
    BY DEF Drops, Calls, VaultTypes
  <1>2. ~Gets(Key(p))
    BY <1>1 DEF Gets
  <1>3. CASE o.name = "start" /\ Return(p) /\ done' = done
    BY <1>1, <1>3 DEF Outcome, Others, GivesUp, Return
  <1>4. CASE o.name # "start" /\ Proceed(p, run[p])
    <2>1. Others(p) /\ (Succeeds(p) \/ GoesOn(p))
      BY <1>1, <1>4, ProceedIs
    <2>2. /\ o.name = "logout" => Len(Program(o)) = 1
          /\ o.name \in {"consume", "expire"} => Len(Program(o)) = 2
          /\ o.name \in {"purge", "prune", "remove"} => Len(Program(o)) = 3
          /\ o.name \in {"sweep", "redeem"} => Len(Program(o)) = 4
      BY <1>1, NamesOfOperations, Lengths DEF HasLength
    <2>3. GoesOn(p) => Arrives(p)
      <3> SUFFICES ASSUME GoesOn(p) PROVE Arrives(p)
        OBVIOUS
      <3>1. \/ At(p, "sweep", {2}) /\ Key(p) = <<"by-hash", For(p)>>
            \/ At(p, "sweep", {3}) /\ Key(p) = <<"by-user", For(p)>>
            \/ At(p, "redeem", {3}) \/ At(p, "purge", {2})
            \/ At(p, "remove", {2}) /\ Key(p) = <<"by-name">>
        <4>1. /\ ~At(p, "logout", {1}) /\ ~At(p, "consume", {2}) /\ ~At(p, "expire", {2})
              /\ ~At(p, "purge", {3}) /\ ~At(p, "prune", {3}) /\ ~At(p, "remove", {3})
              /\ ~At(p, "sweep", {4}) /\ ~At(p, "redeem", {4}) /\ ~At(p, "start", {3})
          BY <1>4, <2>2 DEF GoesOn, At
        <4>2. QED
          BY <1>1, <4>1, DropsOf DEF DropsAt
      <3>2. /\ At(p, "sweep", {2}) => Continues(p, 3)
            /\ At(p, "sweep", {3}) => Continues(p, 4)
            /\ At(p, "redeem", {3}) => Continues(p, 4)
            /\ At(p, "purge", {2}) => Continues(p, 3)
            /\ At(p, "remove", {2}) => Continues(p, 3)
        BY DEF GoesOn, At
      <3>3. QED
        BY <1>2, <3>1, <3>2 DEF Arrives
    <2>4. Succeeds(p) => Proves(p)
      <3> SUFFICES ASSUME Succeeds(p) PROVE Proves(p)
        OBVIOUS
      <3>1. \/ o.name = "consume" /\ Key(p) = <<"state", For(p)>>
            \/ o.name = "logout" /\ Key(p) = <<"session", For(p)>>
            \/ o.name \in {"sweep", "redeem", "purge", "prune", "expire", "remove"}
        BY <1>1, <1>4, DropsOf DEF At, DropsAt
      <3>2. QED
        BY <1>2, <3>1 DEF Proves
    <2>5. QED
      BY <2>1, <2>3, <2>4 DEF Outcome
  <1>5. QED
    BY <1>1, <1>3, <1>4

\* PollDecided goes past the delete of the code when its look for it fails.
LEMMA SkipIs ==
  ASSUME VaultTypes, NEW p \in Process, At(p, "redeem", {2}), Proceed(p, [run[p] EXCEPT !.at = run[p].at + 1])
  PROVE  Others(p) /\ Continues(p, 4)
  <1> DEFINE r == run[p]
             s == [r EXCEPT !.at = r.at + 1]
  <1>1. /\ r = [op |-> r.op, at |-> r.at, first |-> r.first, last |-> r.last, new |-> r.new, again |-> r.again]
        /\ r.at = 2 /\ r.op.name = "redeem"
        /\ run = [q \in Process |-> run[q]]
    BY DEF VaultTypes, RunIsTyped, At
  <1>2. s = [op |-> r.op, at |-> 3, first |-> r.first, last |-> r.last, new |-> r.new, again |-> r.again]
    BY <1>1
  <1>3. Proceed(p, s)
    OBVIOUS
  <1> HIDE DEF s
  <1>4. Len(Program(r.op)) = 4
    BY <1>1, RowsOfPollDecided
  <1>5. run' = [run EXCEPT ![p] = [s EXCEPT !.at = s.at + 1]] /\ done' = done
    BY <1>1, <1>2, <1>3, <1>4 DEF Proceed
  <1>6. run'[p] = [s EXCEPT !.at = s.at + 1]
    BY <1>1, <1>5
  <1>7. [s EXCEPT !.at = s.at + 1] =
          [op |-> r.op, at |-> 4, first |-> r.first, last |-> r.last, new |-> r.new, again |-> r.again]
    BY <1>2
  <1>8. Others(p)
    BY <1>1, <1>5 DEF Others
  <1>9. QED
    BY <1>5, <1>6, <1>7, <1>8 DEF Continues

\* Writing back what is there changes nothing.
LEMMA StayIs ==
  ASSUME VaultTypes, NEW p \in Process, run[p] # Idle
  PROVE  [run[p] EXCEPT !.at = run[p].at] = run[p]
  BY DEF VaultTypes, RunIsTyped

\* An operation that gives up ends, or undoes what CreateDeviceAuth began.
LEMMA GiveUpOutcome ==
  ASSUME VaultTypes, NEW p \in Process, run[p] # Idle, GiveUp(p), kv' = kv
  PROVE  Others(p) /\ (GivesUp(p) \/ Arrives(p))
  <1> DEFINE r == run[p]
  <1>1. /\ r = [op |-> r.op, at |-> r.at, first |-> r.first, last |-> r.last, new |-> r.new, again |-> r.again]
        /\ run = [q \in Process |-> run[q]]
        /\ done' = done
    BY DEF VaultTypes, RunIsTyped, GiveUp
  <1>2. CASE r.op.name = "start" /\ r.at = 2
    <2>1. run' = [run EXCEPT ![p].at = 3]
      BY <1>2 DEF GiveUp
    <2>2. run'[p] = [r EXCEPT !.at = 3]
      BY <1>1, <2>1
    <2>3. [r EXCEPT !.at = 3] =
            [op |-> r.op, at |-> 3, first |-> r.first, last |-> r.last, new |-> r.new, again |-> r.again]
      BY <1>1
    <2>4. Others(p)
      BY <1>1, <2>1 DEF Others
    <2>5. Continues(p, 3)
      BY <1>1, <2>2, <2>3 DEF Continues
    <2>6. QED
      BY <1>2, <2>4, <2>5 DEF Arrives, At
  <1>3. CASE ~(r.op.name = "start" /\ r.at = 2)
    <2>1. run' = [run EXCEPT ![p] = Idle]
      BY <1>3 DEF GiveUp, Return
    <2>2. QED
      BY <1>1, <2>1 DEF Others, GivesUp
  <1>4. QED
    BY <1>2, <1>3

\* A call that fails ends its operation, or is ignored.
LEMMA FailsOutcome ==
  ASSUME VaultTypes, NEW p \in Process, Fails(p)
  PROVE  Outcome(p)
  <1> DEFINE o == run[p].op
             r == run[p]
  <1>1. r # Idle /\ faults' = faults + 1 /\ faults \in Nat /\ kv' = kv
    BY VaultAssumption DEF Fails, VaultTypes
  <1>2. CASE ~(Calls(p, {"try", "glance"}) /\ o.name # "start")
    <2>1. GiveUp(p)
      BY <1>2 DEF Fails
    <2>2. QED
      BY <1>1, <2>1, GiveUpOutcome DEF Outcome
  <1>3. CASE Calls(p, {"glance"}) /\ o.name # "start"
    <2>1. At(p, "redeem", {2})
      <3>1. Calls(p, {"glance", "try"}) /\ Calls(p, {"read", "glance"})
        BY <1>3 DEF Calls
      <3>2. ~At(p, "redeem", {3}) /\ ~At(p, "redeem", {4}) /\ ~At(p, "purge", {2}) /\ ~At(p, "prune", {3})
              /\ ~At(p, "remove", {2}) /\ ~At(p, "start", {3})
        BY <3>1, ReadsOf DEF At, ReadsAt
      <3>3. QED
        BY <3>1, <3>2, TriesOf DEF TriesAt, At
    <2>2. Proceed(p, [r EXCEPT !.at = r.at + 1])
      BY <1>3 DEF Fails, Calls
    <2>3. QED
      BY <2>1, <2>2, SkipIs DEF Outcome, Arrives
  <1>4. CASE Calls(p, {"try", "glance"}) /\ ~Calls(p, {"glance"}) /\ o.name # "start"
    <2>1. Proceed(p, [r EXCEPT !.at = r.at])
      BY <1>4 DEF Fails
    <2>2. Proceed(p, r)
      BY <1>1, <2>1, StayIs
    <2>3. Others(p) /\ (Succeeds(p) \/ GoesOn(p))
      BY <1>1, <2>2, ProceedIs
    <2>4. /\ o.name \in {"purge", "prune", "remove"} => Len(Program(o)) = 3
          /\ o.name = "redeem" => Len(Program(o)) = 4
      BY <1>1, NamesOfOperations, Lengths DEF HasLength
    <2>5. Calls(p, {"glance", "try"})
      BY <1>4 DEF Calls
    <2>6. GoesOn(p) => Arrives(p)
      <3> SUFFICES ASSUME GoesOn(p) PROVE Arrives(p)
        OBVIOUS
      <3>1. At(p, "redeem", {2}) \/ At(p, "redeem", {3}) \/ At(p, "purge", {2}) \/ At(p, "remove", {2})
        <4>1. ~At(p, "prune", {3}) /\ ~At(p, "redeem", {4}) /\ ~At(p, "start", {3})
          BY <1>4, <2>4 DEF GoesOn, At
        <4>2. QED
          BY <2>5, <4>1, TriesOf DEF TriesAt, At
      <3>2. ~At(p, "redeem", {2})
        <4>1. At(p, "redeem", {2}) => Program(o)[r.at].call = "glance"
          BY RowsOfPollDecided DEF At, CallIs, Glance
        <4>2. QED
          BY <1>1, <1>4, <4>1 DEF Calls
      <3>3. /\ At(p, "redeem", {3}) => Continues(p, 4)
            /\ At(p, "purge", {2}) => Continues(p, 3)
            /\ At(p, "remove", {2}) => Continues(p, 3)
        BY DEF GoesOn, At
      <3>4. faults' # 0
        BY <1>1
      <3>5. QED
        BY <3>1, <3>2, <3>3, <3>4 DEF Arrives
    <2>7. Succeeds(p) => Proves(p)
      <3> SUFFICES ASSUME Succeeds(p) PROVE Proves(p)
        OBVIOUS
      <3>1. o.name \in {"redeem", "purge", "prune", "remove"}
        BY <1>4, <2>5, TriesOf DEF At, TriesAt
      <3>2. QED
        BY <3>1 DEF Proves
    <2>8. QED
      BY <2>3, <2>6, <2>7 DEF Outcome
  <1>5. QED
    BY <1>2, <1>3, <1>4

\* What a step of p leaves alone.
Framed ==
  /\ kind' = kind /\ old' = old /\ used' = used
  /\ faults' \in 0..MaxFaults /\ (faults' = 0 => faults = 0)

Acts(p) == Step(p) \/ Fails(p) \/ Crash(p)

\* What every call, failure and crash does to the keys and to its process.
LEMMA ActsOutcome ==
  ASSUME VaultTypes, RecordsAreTyped, NEW p \in Process, CopiesAreTrue(p), Acts(p)
  PROVE  run[p] # Idle /\ Framed /\ Effects(p) /\ Outcome(p)
  <1>0. MaxFaults \in Nat /\ faults \in 0..MaxFaults /\ run = [q \in Process |-> run[q]]
    BY VaultAssumption DEF VaultTypes
  <1>1. CASE Reads(p)
    <2>1. Framed /\ kv' = kv /\ clobbered' = clobbered /\ run[p] # Idle
      BY <1>0, <1>1 DEF Reads, Framed, Calls
    <2>2. Effects(p)
      BY <2>1, NothingHappens DEF Framed
    <2>3. Outcome(p)
      BY <1>1, <2>1, ReadsMove DEF Outcome, GivesUp
    <2>4. QED
      BY <2>1, <2>2, <2>3
  <1>2. CASE Puts(p)
    <2>1. Framed /\ run[p] # Idle
      BY <1>0, <1>2 DEF Puts, Framed, Calls
    <2>2. QED
      BY <1>2, <2>1, PutsEffects, PutsOutcome
  <1>3. CASE Creates(p)
    <2>1. Framed /\ run[p] # Idle
      BY <1>0, <1>3 DEF Creates, Framed, Calls
    <2>2. QED
      BY <1>3, <2>1, CreatesEffects, CreatesOutcome
  <1>4. CASE Drops(p)
    <2>1. Framed /\ run[p] # Idle
      BY <1>0, <1>4 DEF Drops, Framed, Calls
    <2>2. QED
      BY <1>4, <2>1, DropsEffects, DropsOutcome
  <1>5. CASE Fails(p)
    <2>1. Framed /\ kv' = kv /\ clobbered' = clobbered /\ run[p] # Idle
      BY <1>0, <1>5 DEF Fails, GiveUp, Framed
    <2>2. Effects(p)
      BY <2>1, NothingHappens DEF Framed
    <2>3. QED
      BY <1>5, <2>1, <2>2, FailsOutcome
  <1>6. CASE Crash(p)
    <2>1. Framed /\ kv' = kv /\ clobbered' = clobbered /\ run[p] # Idle
      BY <1>0, <1>6 DEF Crash, Framed
    <2>2. Effects(p)
      BY <2>1, NothingHappens DEF Framed
    <2>3. Outcome(p)
      BY <1>0, <1>6 DEF Crash, Return, Outcome, Others, GivesUp
    <2>4. QED
      BY <2>1, <2>2, <2>3
  <1>7. QED
    BY <1>1, <1>2, <1>3, <1>4, <1>5, <1>6 DEF Acts, Step

\* A process begins an operation.
Starts(p) ==
  LET s == run'[p] IN
  /\ run[p] = Idle
  /\ Others(p)
  /\ s = [op |-> s.op, at |-> 1, first |-> << >>, last |-> << >>, new |-> s.new, again |-> s.again]
  /\ s.op = Op(s.op.name, s.op.id)
  /\ s.new = s.op.id
  /\ s.again => s.op.name \in {"consume", "use"} /\ Ending(s.op) \in done
  /\ \/ s.op.name = Creation /\ s.op.id \in Id(kind) \ used /\ used' = used \cup {s.op.id}
     \/ s.op.name \in Requests /\ s.op.id \in used /\ used' = used /\ Op(Creation, s.op.id) \in done
     \/ s.op.name \in Cleanup /\ s.op.id \in used /\ used' = used
  /\ UNCHANGED <<kind, kv, old, done, clobbered, faults>>

\* The actions that begin an operation.
LEMMA BeginStarts ==
  ASSUME VaultTypes, NEW p \in Process, Generate(p) \/ Request(p) \/ CleanUp(p)
  PROVE  Starts(p)
  <1>1. PICK n, i :
          /\ Begin(p, Op(n, i))
          /\ \/ n = Creation /\ i \in Id(kind) \ used /\ used' = used \cup {i}
             \/ n \in Requests /\ i \in used /\ used' = used /\ Op(Creation, i) \in done
             \/ n \in Cleanup /\ i \in used /\ used' = used
    BY DEF Generate, Request, CleanUp
  <1> DEFINE o == Op(n, i)
             a == o.name \in {"consume", "use"} /\ Ending(o) \in done
             s == [op |-> o, at |-> 1, first |-> << >>, last |-> << >>, new |-> o.id, again |-> a]
  <1>2. o.name = n /\ o.id = i
    BY DEF Op
  <1>3. run[p] = Idle /\ run' = [run EXCEPT ![p] = s] /\ UNCHANGED <<kind, kv, old, done, clobbered, faults>>
    BY <1>1 DEF Begin
  <1> HIDE DEF o, a
  <1>4. run'[p] = s /\ Others(p)
    BY <1>3 DEF VaultTypes, Others
  <1>5. /\ run'[p].op = o /\ run'[p].new = o.id /\ run'[p].again = a
        /\ run'[p] = [op |-> o, at |-> 1, first |-> << >>, last |-> << >>, new |-> o.id, again |-> a]
    BY <1>4
  <1>6. o = Op(n, i)
    BY DEF o
  <1>7. QED
    BY <1>1, <1>2, <1>3, <1>4, <1>5, <1>6 DEF Starts, a

AllRequests ==
  {"revoke", "repos", "scopes", "app", "consume", "poll", "decide", "redeem", "use", "logout",
   "enabled", "limit", "remove"}

\* Which of the operations of a kind create, and which are asked for.
LEMMA NamesByKind ==
  ASSUME kind \in Kind, NEW n \in {Creation} \cup Requests \cup Cleanup
  PROVE  /\ n \in Creations => n = Creation
         /\ n \in AllRequests => n \in Requests
         /\ n \in Requests => n \notin Creations
         /\ n \in Recorded => n = Creation \/ n \in Requests
         /\ n = "login" => Creation = "login"
         /\ Creation = "login" => n \notin Creations
  <1>1. kind \in {"token", "state", "device", "user", "session", "repo"}
    BY VaultAssumption
  <1>2. CASE kind = "token"
    BY <1>2 DEF Creation, Requests, Cleanup, Creations, AllRequests, Recorded
  <1>3. CASE kind = "state"
    BY <1>3 DEF Creation, Requests, Cleanup, Creations, AllRequests, Recorded
  <1>4. CASE kind = "device"
    BY <1>4 DEF Creation, Requests, Cleanup, Creations, AllRequests, Recorded
  <1>5. CASE kind = "user"
    BY <1>5 DEF Creation, Requests, Cleanup, Creations, AllRequests, Recorded
  <1>6. CASE kind = "session"
    BY <1>6 DEF Creation, Requests, Cleanup, Creations, AllRequests, Recorded
  <1>7. CASE kind = "repo"
    BY <1>7 DEF Creation, Requests, Cleanup, Creations, AllRequests, Recorded
  <1>8. QED
    BY <1>1, <1>2, <1>3, <1>4, <1>5, <1>6, <1>7
-----------------------------------------------------------------------------
(* Types.                                                                  *)

\* What an outcome says of the other processes, the operation and what is done.
LEMMA OutcomeIs ==
  ASSUME VaultTypes, NEW p \in Process, run[p] # Idle, Outcome(p)
  PROVE  /\ \A q \in Process : q # p => run'[q] = run[q]
         /\ run'[p] # Idle =>
              /\ run'[p].op.name = run[p].op.name
              /\ run'[p].op.name # "login" => run'[p].op = run[p].op
              /\ run'[p].again = run[p].again
              /\ run'[p].at \in Nat \ {1}
         /\ done \subseteq done'
         /\ \A o \in done' \ done : o = run[p].op /\ o.name \in Recorded /\ Succeeds(p) /\ Proves(p)
  <1>1. \A q \in Process : q # p => run'[q] = run[q]
    BY DEF Outcome, Others
  <1>2. run[p].at \in Nat \ {0}
    <2>1. run[p].at \in 1..Len(Program(run[p].op)) /\ Len(Program(run[p].op)) \in Nat
      BY NamesOfOperations, Lengths DEF VaultTypes, RunIsTyped, HasLength
    <2>2. QED
      BY <2>1
  <1>3. CASE GivesUp(p)
    BY <1>1, <1>3 DEF GivesUp
  <1>4. CASE Succeeds(p) /\ Proves(p)
    BY <1>1, <1>4 DEF Succeeds, Reported
  <1>5. CASE Learns(p) /\ done' = done
    <2>1. run'[p].at = run[p].at + 1
      BY <1>5, LearnsIs
    <2>2. run'[p].at \in Nat \ {1}
      BY <1>2, <2>1
    <2>3. QED
      BY <1>1, <1>5, <2>2, LearnsIs
  <1>6. CASE Arrives(p)
    <2>1. PICK j \in {2, 3, 4} : Continues(p, j)
      BY <1>6 DEF Arrives
    <2>2. done' = done
      BY <2>1 DEF Continues
    <2>3. run'[p].op = run[p].op /\ run'[p].at = j /\ run'[p].again = run[p].again
      BY <2>1, ContinuesIs
    <2>4. QED
      BY <1>1, <2>2, <2>3
  <1>7. QED
    BY <1>3, <1>4, <1>5, <1>6 DEF Outcome

\* The operations depend on the kind only.
LEMMA SameNames ==
  ASSUME kind' = kind
  PROVE  Creation' = Creation /\ Requests' = Requests /\ Cleanup' = Cleanup
  BY DEF Creation, Requests, Cleanup

\* VaultTypes after a call.
LEMMA ActsTypes ==
  ASSUME VaultTypes, NEW p \in Process, run[p] # Idle, Framed, Outcome(p)
  PROVE  VaultTypes'
  <1>1. /\ kind' = kind /\ old' = old /\ used' = used
        /\ faults' \in 0..MaxFaults
        /\ Creation' = Creation /\ Requests' = Requests /\ Cleanup' = Cleanup
    BY SameNames DEF Framed
  <1>2. run' = [q \in Process |-> run'[q]]
    BY DEF Outcome, Others
  <1>3. ASSUME NEW q \in Process, q # p
        PROVE  RunIsTyped(q)'
    BY <1>1, <1>3, OutcomeIs DEF VaultTypes, RunIsTyped
  <1>4. RunIsTyped(p)
    BY DEF VaultTypes
  <1>5. RunIsTyped(p)'
    <2>1. CASE run'[p] = Idle
      BY <2>1 DEF RunIsTyped
    <2>2. CASE Learns(p)
      <3> DEFINE s == run'[p]
                 r == run[p]
      <3>1. /\ s = [op |-> s.op, at |-> s.at, first |-> s.first, last |-> s.last,
                    new |-> s.new, again |-> s.again]
            /\ s.op.name = r.op.name /\ s.new = r.new /\ s.at = r.at + 1
            /\ r.op.name # "login" => s.op = r.op
        BY <2>2, LearnsIs
      <3>2. /\ s.op = Op(s.op.name, s.op.id) /\ s.op.id \in used
            /\ r.at < Len(Program(r.op))
        BY <2>2, <3>1 DEF Learns
      <3>3. /\ r.op.name \in {Creation} \cup Requests \cup Cleanup
            /\ r.new \in used /\ r.at \in 1..Len(Program(r.op))
        BY <1>4 DEF RunIsTyped
      <3>4. Len(Program(s.op)) = Len(Program(r.op)) /\ Len(Program(r.op)) \in Nat
        <4>1. r.op.name = "login" => Len(Program(s.op)) = 4 /\ Len(Program(r.op)) = 4
          BY <3>1, RowsOfUpsert
        <4>2. Len(Program(r.op)) \in Nat
          BY NamesOfOperations, Lengths DEF HasLength
        <4>3. QED
          BY <3>1, <4>1, <4>2
      <3>5. s.at \in 1..Len(Program(s.op))
        BY <3>1, <3>2, <3>3, <3>4
      <3>6. QED
        BY <1>1, <3>1, <3>2, <3>3, <3>5 DEF RunIsTyped
    <2>3. CASE Arrives(p)
      <3> DEFINE s == run'[p]
                 r == run[p]
      <3>1. PICK j \in {2, 3, 4} :
              /\ Continues(p, j)
              /\ j = 2 => r.op.name \in {"create", "start"}
              /\ j = 3 => r.op.name \in {"create", "sweep", "start", "purge", "add", "remove"}
              /\ j = 4 => r.op.name \in {"sweep", "redeem", "login"}
        BY <2>3 DEF Arrives, At
      <3>2. /\ s.op = r.op /\ s.at = j /\ s.new = r.new
            /\ s = [op |-> s.op, at |-> s.at, first |-> s.first, last |-> s.last,
                    new |-> s.new, again |-> s.again]
        BY <3>1, ContinuesIs
      <3>3. /\ r.op.name \in {"create", "start", "purge", "add", "remove"} => Len(Program(r.op)) = 3
            /\ r.op.name \in {"sweep", "redeem", "login"} => Len(Program(r.op)) = 4
        BY NamesOfOperations, Lengths DEF HasLength
      <3>4. j \in 1..Len(Program(r.op))
        BY <3>1, <3>3
      <3>5. QED
        BY <1>1, <1>4, <3>2, <3>4 DEF RunIsTyped
    <2>4. QED
      BY <2>1, <2>2, <2>3 DEF Outcome, GivesUp, Succeeds
  <1>6. QED
    BY <1>1, <1>2, <1>3, <1>5 DEF VaultTypes

\* VaultTypes after the beginning of an operation.
LEMMA StartsTypes ==
  ASSUME VaultTypes, NEW p \in Process, Starts(p)
  PROVE  VaultTypes'
  <1>1. /\ kind' = kind /\ old' = old /\ faults' = faults
        /\ Creation' = Creation /\ Requests' = Requests /\ Cleanup' = Cleanup
    BY SameNames DEF Starts
  <1>2. used \subseteq used' /\ used' \subseteq Id(kind) /\ run'[p].op.id \in used'
    BY DEF Starts, VaultTypes
  <1>3. run' = [q \in Process |-> run'[q]] /\ \A q \in Process : q # p => run'[q] = run[q]
    BY DEF Starts, Others
  <1>4. ASSUME NEW q \in Process, q # p
        PROVE  RunIsTyped(q)'
    BY <1>1, <1>2, <1>3, <1>4 DEF VaultTypes, RunIsTyped
  <1>5. RunIsTyped(p)'
    <2> DEFINE s == run'[p]
    <2>1. s.op.name \in {Creation} \cup Requests \cup Cleanup
      BY DEF Starts
    <2>2. 1 \in 1..Len(Program(s.op))
      <3>1. s.op.name \in Operations
        BY <2>1, NamesOfKinds DEF VaultTypes
      <3>2. QED
        BY <3>1, FirstCallIsThere
    <2>3. /\ s = [op |-> s.op, at |-> 1, first |-> << >>, last |-> << >>, new |-> s.new, again |-> s.again]
          /\ s.op = Op(s.op.name, s.op.id) /\ s.new = s.op.id
      BY DEF Starts
    <2>4. /\ s = [op |-> s.op, at |-> s.at, first |-> s.first, last |-> s.last,
                  new |-> s.new, again |-> s.again]
          /\ s.at = 1
      BY <2>3
    <2>5. QED
      BY <1>1, <1>2, <2>1, <2>2, <2>3, <2>4 DEF RunIsTyped
  <1>6. QED
    BY <1>1, <1>2, <1>3, <1>4, <1>5 DEF VaultTypes

\* An identifier ages, or nothing happens.
Ages ==
  /\ UNCHANGED <<kind, kv, used, run, done, clobbered, faults>>
  /\ old \subseteq old' /\ old' \subseteq used
  /\ \A i \in old' : Unmade(i)

\* VaultTypes after an identifier has aged.
LEMMA AgesTypes ==
  ASSUME VaultTypes, Ages
  PROVE  VaultTypes'
  <1>1. /\ UNCHANGED <<kind, used, run, faults>> /\ old' \subseteq used
        /\ Creation' = Creation /\ Requests' = Requests /\ Cleanup' = Cleanup
    BY SameNames DEF Ages
  <1>2. \A p \in Process : RunIsTyped(p)'
    BY <1>1 DEF VaultTypes, RunIsTyped
  <1>3. QED
    BY <1>1, <1>2 DEF VaultTypes

\* An identifier that ages has been made.
LEMMA AgeAges ==
  ASSUME VaultTypes, OperationsAreTrue, NEW i \in used, Age(i)
  PROVE  Ages
  <1>1. Unmade(i)
    <2> SUFFICES ASSUME NEW p \in Process, Makes(p, i) PROVE FALSE
      BY DEF Unmade
    <2>1. run[p].op.name = Creation
      BY NamesByKind DEF VaultTypes, RunIsTyped, Makes
    <2>2. run[p].op = Op(Creation, i) /\ run[p] # Idle
      BY <2>1 DEF Makes, VaultTypes, RunIsTyped, For
    <2>3. QED
      BY <2>2 DEF Age
  <1>2. QED
    BY <1>1 DEF Age, Ages, OperationsAreTrue, VaultTypes

-----------------------------------------------------------------------------
(* Who makes what.                                                         *)

\* An operation under way that is asked for is about what was made.
LEMMA RequestedIsMade ==
  ASSUME VaultTypes, OperationsAreTrue, NEW p \in Process, run[p] # Idle, run[p].op.name \in AllRequests
  PROVE  Op(Creation, For(p)) \in done /\ Unmade(For(p))
  <1>1. run[p].op.name \in Requests
    BY NamesByKind DEF VaultTypes, RunIsTyped
  <1>2. Op(Creation, For(p)) \in done
    BY <1>1 DEF OperationsAreTrue
  <1>3. Op(Creation, For(p)).id = For(p)
    BY DEF Op
  <1>4. QED
    BY <1>2, <1>3 DEF OperationsAreTrue

\* A call does not make anybody a creator.
LEMMA ActsMake ==
  ASSUME VaultTypes, NEW p \in Process, run[p] # Idle, Outcome(p), NEW q \in Process, NEW i, Makes(q, i)'
  PROVE  Makes(q, i) /\ run'[q].op = run[q].op
  <1>1. CASE q # p
    BY <1>1, OutcomeIs DEF Makes, For
  <1>2. CASE q = p
    <2>1. run'[p] # Idle /\ run'[p].op.name # "login"
      BY <1>2 DEF Makes, Creations
    <2>2. run'[p].op = run[p].op
      BY <2>1, OutcomeIs
    <2>3. QED
      BY <1>2, <2>2 DEF Makes, For
  <1>3. QED
    BY <1>1, <1>2

\* Who begins to create does so under a new identifier.
LEMMA StartsMake ==
  ASSUME VaultTypes, NEW p \in Process, Starts(p), NEW q \in Process, NEW i, Makes(q, i)'
  PROVE  Makes(q, i) \/ (q = p /\ i \notin used /\ i \in used')
  <1>1. CASE q # p
    BY <1>1 DEF Makes, For, Starts, Others
  <1>2. CASE q = p
    <2>1. run'[p].op.name \in Creations /\ run'[p].op.id = i
      BY <1>2 DEF Makes, For
    <2>2. kind \in Kind
      BY DEF VaultTypes
    <2>3. run'[p].op.name \notin Requests /\ (run'[p].op.name \in Cleanup => run'[p].op.name = Creation)
      BY <2>1, <2>2, NamesByKind
    <2>4. Creation \notin Cleanup
      BY <2>2, VaultAssumption DEF Creation, Cleanup
    <2>5. QED
      BY <1>2, <2>1, <2>3, <2>4 DEF Starts
  <1>3. QED
    BY <1>1, <1>2

\* OperationsAreTrue after a call.
LEMMA ActsOperations ==
  ASSUME VaultTypes, OperationsAreTrue, NEW p \in Process, run[p] # Idle, Framed, Outcome(p)
  PROVE  OperationsAreTrue'
  <1>1. /\ kind' = kind /\ old' = old /\ used' = used
        /\ Creation' = Creation /\ Requests' = Requests
    BY SameNames DEF Framed
  <1>2. \A i : Unmade(i) => Unmade(i)'
    BY ActsMake DEF Unmade
  <1>3. ASSUME NEW o \in done'
        PROVE  o.id \in used' /\ Unmade(o.id)'
    <2>1. CASE o \in done
      BY <1>1, <1>2, <2>1 DEF OperationsAreTrue
    <2>2. CASE o \notin done
      <3>1. o = run[p].op /\ o.name \in Recorded /\ Succeeds(p)
        BY <2>2, OutcomeIs
      <3>2. o.id \in used /\ o.name \in {Creation} \cup Requests \cup Cleanup /\ For(p) = o.id
        BY <3>1 DEF VaultTypes, RunIsTyped, For
      <3>3. o.name = Creation \/ o.name \in Requests
        BY <3>1, <3>2, NamesByKind DEF VaultTypes
      <3>4. CASE o.name \in Requests
        <4>1. Op(Creation, o.id) \in done
          BY <3>1, <3>2, <3>4 DEF OperationsAreTrue
        <4>2. Op(Creation, o.id).id = o.id
          BY DEF Op
        <4>3. Unmade(o.id)
          BY <4>1, <4>2 DEF OperationsAreTrue
        <4>4. QED
          BY <1>1, <1>2, <3>2, <4>3
      <3>5. CASE o.name = Creation /\ Creation # "login"
        <4>1. Makes(p, o.id)
          BY <3>1, <3>2, <3>5, VaultAssumption DEF Makes, Creation, Creations, VaultTypes
        <4>2. ASSUME NEW q \in Process, Makes(q, o.id)'
              PROVE  FALSE
          <5>1. Makes(q, o.id)
            BY <4>2, ActsMake
          <5>2. q = p
            BY <3>2, <4>1, <5>1 DEF OperationsAreTrue
          <5>3. run'[q] = Idle
            BY <3>1, <5>2 DEF Succeeds
          <5>4. QED
            BY <4>2, <5>3 DEF Makes
        <4>3. QED
          BY <1>1, <3>2, <4>2 DEF Unmade
      <3>6. CASE Creation = "login"
        <4>1. ASSUME NEW q \in Process, Makes(q, o.id)'
              PROVE  FALSE
          <5>1. Makes(q, o.id)
            BY <4>1, ActsMake
          <5>2. QED
            BY <3>6, <5>1, NamesByKind DEF Makes, VaultTypes, RunIsTyped
        <4>2. QED
          BY <1>1, <3>2, <4>1 DEF Unmade
      <3>7. QED
        BY <3>3, <3>4, <3>5, <3>6
    <2>3. QED
      BY <2>1, <2>2
  <1>4. \A i \in old' : Unmade(i)'
    BY <1>1, <1>2 DEF OperationsAreTrue
  <1>5. ASSUME NEW q \in Process, NEW w \in Process, Makes(q, For(q))', Makes(w, For(q))'
        PROVE  q = w
    <2>0. PICK i : i = run'[q].op.id
      OBVIOUS
    <2>1. Makes(q, i)' /\ Makes(w, i)'
      BY <1>5, <2>0 DEF For, Makes
    <2>2. Makes(q, i) /\ Makes(w, i)
      BY <2>1, ActsMake
    <2>3. For(q) = i
      BY <2>2 DEF Makes
    <2>4. QED
      BY <2>2, <2>3 DEF OperationsAreTrue
  <1>6. ASSUME NEW q \in Process, run'[q] # Idle, run'[q].op.name \in Requests
        PROVE  Op(Creation, run'[q].op.id) \in done'
    <2>1. run[q] # Idle /\ run'[q].op = run[q].op
      <3>1. CASE q # p
        BY <1>6, <3>1, OutcomeIs
      <3>2. CASE q = p
        <4>1. run'[p].op.name = run[p].op.name
          BY <1>6, <3>2, OutcomeIs
        <4>2. "login" \notin Requests
          BY VaultAssumption DEF Requests, VaultTypes
        <4>3. QED
          BY <1>6, <3>2, <4>1, <4>2, OutcomeIs
      <3>3. QED
        BY <3>1, <3>2
    <2>2. Op(Creation, run[q].op.id) \in done
      BY <1>6, <2>1 DEF OperationsAreTrue, For
    <2>3. QED
      BY <2>1, <2>2, OutcomeIs
  <1>7. QED
    BY <1>1, <1>3, <1>4, <1>5, <1>6 DEF OperationsAreTrue, For

\* OperationsAreTrue after the beginning of an operation.
LEMMA StartsOperations ==
  ASSUME VaultTypes, OperationsAreTrue, NEW p \in Process, Starts(p)
  PROVE  OperationsAreTrue'
  <1>1. /\ kind' = kind /\ old' = old /\ done' = done /\ used \subseteq used'
        /\ Creation' = Creation /\ Requests' = Requests
        /\ run[p] = Idle /\ \A q \in Process : q # p => run'[q] = run[q]
    BY SameNames DEF Starts, Others
  <1>2. \A i \in used : Unmade(i) => Unmade(i)'
    BY StartsMake DEF Unmade
  <1>3. \A o \in done' : o.id \in used' /\ Unmade(o.id)'
    BY <1>1, <1>2 DEF OperationsAreTrue
  <1>4. \A i \in old' : Unmade(i)'
    BY <1>1, <1>2 DEF OperationsAreTrue, VaultTypes
  <1>5. ASSUME NEW q \in Process, NEW w \in Process, Makes(q, For(q))', Makes(w, For(q))'
        PROVE  q = w
    <2>0. PICK i : i = run'[q].op.id
      OBVIOUS
    <2>1. Makes(q, i)' /\ Makes(w, i)'
      BY <1>5, <2>0 DEF For, Makes
    <2>2. /\ Makes(q, i) \/ (q = p /\ i \notin used)
          /\ Makes(w, i) \/ (w = p /\ i \notin used)
      BY <2>1, StartsMake
    <2>3. Makes(q, i) /\ Makes(w, i) => q = w
      BY DEF OperationsAreTrue, Makes
    <2>4. \A x \in Process : Makes(x, i) => i \in used
      BY DEF Makes, For, VaultTypes, RunIsTyped
    <2>5. QED
      BY <2>2, <2>3, <2>4
  <1>6. ASSUME NEW q \in Process, run'[q] # Idle, run'[q].op.name \in Requests
        PROVE  Op(Creation, run'[q].op.id) \in done'
    <2>1. CASE q # p
      BY <1>1, <1>6, <2>1 DEF OperationsAreTrue, For
    <2>2. CASE q = p
      <3>1. Creation \notin Requests /\ Requests \cap Cleanup = {}
        BY VaultAssumption DEF VaultTypes, Creation, Requests, Cleanup
      <3>2. QED
        BY <1>1, <1>6, <2>2, <3>1 DEF Starts
    <2>3. QED
      BY <2>1, <2>2
  <1>7. QED
    BY <1>1, <1>3, <1>4, <1>5, <1>6 DEF OperationsAreTrue, For

\* OperationsAreTrue after an identifier has aged.
LEMMA AgesOperations ==
  ASSUME VaultTypes, OperationsAreTrue, Ages
  PROVE  OperationsAreTrue'
  <1>1. /\ UNCHANGED <<kind, used, run, done>> /\ \A i \in old' : Unmade(i)
        /\ Creation' = Creation /\ Requests' = Requests
    BY SameNames DEF Ages
  <1>2. \A i : Unmade(i)' <=> Unmade(i)
    BY <1>1 DEF Unmade, Makes, For
  <1>3. QED
    BY <1>1, <1>2 DEF OperationsAreTrue, Makes, For

-----------------------------------------------------------------------------
(* The copies an operation reads.                                          *)

\* The copies after a read.
LEMMA Copied ==
  ASSUME NEW p \in Process
  PROVE  LET k == Key(p)
             f == run[p].first
         IN
         /\ k \in DOMAIN LastCopies(p) /\ LastCopies(p)[k] = Peek(k)
         /\ k \in DOMAIN FirstCopies(p)
         /\ k \notin DOMAIN f => FirstCopies(p)[k] = Peek(k)
         /\ \A j \in DOMAIN f : j \in DOMAIN FirstCopies(p) /\ FirstCopies(p)[j] = f[j]
         /\ \A j \in DOMAIN FirstCopies(p) : j \in DOMAIN f \/ j = k
  BY DEF FirstCopies, LastCopies, With

\* What is read of a record is absent or a record.
LEMMA PeekIs ==
  ASSUME VaultTypes, RecordsAreTyped, NEW i \in used
  PROVE  /\ Peek(<<"token", i>>) # Absent =>
              Has(<<"token", i>>) /\ Peek(<<"token", i>>) = kv[<<"token", i>>]
              /\ Peek(<<"token", i>>) \in TokenRecord
         /\ Peek(<<"device", i>>) # Absent =>
              Has(<<"device", i>>) /\ Peek(<<"device", i>>) = kv[<<"device", i>>]
              /\ Peek(<<"device", i>>) \in DeviceRecord
         /\ Peek(<<"device", i>>) = Absent => ~Has(<<"device", i>>)
         /\ Peek(<<"repo", i>>) # Absent =>
              Has(<<"repo", i>>) /\ Peek(<<"repo", i>>) \in RepoRecord
  <1>1. i \in Id(kind)
    BY DEF VaultTypes
  <1>2. QED
    BY <1>1, RecordsAreThere DEF Peek, Has, RecordsAreTyped

\* Where an operation is after a call that is not a read.
LEMMA ArrivesAt ==
  ASSUME VaultTypes, NEW p \in Process, Arrives(p)
  PROVE  /\ run'[p] # Idle /\ run'[p].op = run[p].op /\ run'[p].at \in {2, 3, 4}
         /\ run'[p].op.name \in {"create", "sweep", "start", "redeem", "purge", "login", "add", "remove"}
         /\ done' = done
  <1>1. PICK j \in {2, 3, 4} : Continues(p, j)
    BY DEF Arrives
  <1>2. run[p].op.name \in {"create", "sweep", "start", "redeem", "purge", "login", "add", "remove"}
    BY DEF Arrives, At
  <1>3. run'[p] # Idle /\ run'[p].op = run[p].op /\ run'[p].at = j
    BY <1>1, ContinuesIs
  <1>4. done' = done
    BY <1>1 DEF Continues
  <1>5. QED
    BY <1>2, <1>3, <1>4

\* CopiesAreTrue of the process that has read: one step per operation that copies.
LEMMA LearnsCopies ==
  ASSUME VaultTypes, RecordsAreTyped, NEW p \in Process, CopiesAreTrue(p), Learns(p)
  PROVE  CopiesAreTrue(p)'
  <1> DEFINE r == run[p]
             s == run'[p]
             i == For(p)
             t == <<"token", i>>
             d == <<"device", i>>
             c == <<"repo", i>>
             n == r.op.name
             F == FirstCopies(p)
             L == LastCopies(p)
             v == Peek(Key(p))
             first(k, S) == k \in DOMAIN s.first /\ s.first[k] \in S
             last(k, S) == k \in DOMAIN s.last /\ s.last[k] \in S
  <1>1. /\ s # Idle /\ s.at = r.at + 1 /\ s.first = F /\ s.last = L
        /\ s.op.name = n /\ (n # "login" => s.op = r.op)
        /\ r # Idle /\ Calls(p, {"read", "glance"}) /\ ~Stops(r.op, r.at, v)
    BY LearnsIs DEF Learns, Calls
  <1>2. r.at \in Nat \ {0} /\ i \in used
    <2>1. r.at \in 1..Len(Program(r.op)) /\ Len(Program(r.op)) \in Nat
      BY <1>1, NamesOfOperations, Lengths DEF VaultTypes, RunIsTyped, HasLength
    <2>2. QED
      BY <1>1, <2>1 DEF VaultTypes, RunIsTyped, For
  <1>3. s.at # 1
    BY <1>1, <1>2
  <1>4. s.at = 2 <=> r.at = 1
    BY <1>1, <1>2
  <1>5. s.at = 3 <=> r.at = 2
    BY <1>1, <1>2
  <1>6. s.at = 4 <=> r.at = 3
    BY <1>1, <1>2
  <1>7. r.at = 1 => DOMAIN r.first = {}
    BY <1>1 DEF CopiesAreTrue
  <1> HIDE DEF F, L, v
  <1>8. ASSUME n = "revoke" \/ n = "app", s.at = 2
        PROVE  first(t, TokenRecord) /\ last(t, {s.first[t]})
    <2>1. Key(p) = t
      BY <1>1, <1>4, <1>8, ReadsOf DEF At, ReadsAt
    <2>2. v # Absent
      BY <1>1, <1>8 DEF Stops
    <2>3. v \in TokenRecord
      BY <1>2, <2>1, <2>2, PeekIs DEF v
    <2>4. t \in DOMAIN F /\ F[t] = v /\ t \in DOMAIN L /\ L[t] = v
      BY <1>4, <1>7, <1>8, <2>1, Copied DEF F, L, v
    <2>5. QED
      BY <1>1, <2>3, <2>4
  <1>9. ASSUME n = "repos" \/ n = "scopes", s.at = 2 \/ s.at = 3
        PROVE  /\ first(t, TokenRecord) /\ ~s.first[t].revoked
               /\ s.at = 3 => last(t, TokenRecord)
    <2>1. Key(p) = t
      BY <1>1, <1>4, <1>5, <1>9, ReadsOf DEF At, ReadsAt
    <2>2. v # Absent /\ (r.at = 1 => ~v.revoked)
      BY <1>1, <1>9 DEF Stops
    <2>3. v \in TokenRecord
      BY <1>2, <2>1, <2>2, PeekIs DEF v
    <2>4. t \in DOMAIN L /\ L[t] = v
      BY <2>1, Copied DEF L, v
    <2>5. CASE s.at = 2
      <3>1. t \in DOMAIN F /\ F[t] = v
        BY <1>4, <1>7, <2>1, <2>5, Copied DEF F, v
      <3>2. QED
        BY <1>1, <1>4, <2>2, <2>3, <2>5, <3>1
    <2>6. CASE s.at = 3
      <3>1. CopiedFirst(p, t, TokenRecord) /\ ~r.first[t].revoked
        BY <1>1, <1>5, <1>9, <2>6 DEF CopiesAreTrue, At
      <3>2. t \in DOMAIN F /\ F[t] = r.first[t]
        BY <3>1, Copied DEF F, CopiedFirst
      <3>3. QED
        BY <1>1, <2>3, <2>4, <3>1, <3>2 DEF CopiedFirst
    <2>7. QED
      BY <1>9, <2>5, <2>6
  <1>10. ASSUME n = "poll", s.at = 2 \/ s.at = 3
         PROVE  first(d, DeviceRecord)
    <2>1. Key(p) = d
      BY <1>1, <1>4, <1>5, <1>10, ReadsOf DEF At, ReadsAt
    <2>2. CASE s.at = 2
      <3>1. v # Absent
        BY <1>1, <1>10 DEF Stops
      <3>2. v \in DeviceRecord
        BY <1>2, <2>1, <3>1, PeekIs DEF v
      <3>3. d \in DOMAIN F /\ F[d] = v
        BY <1>4, <1>7, <2>1, <2>2, Copied DEF F, v
      <3>4. QED
        BY <1>1, <3>2, <3>3
    <2>3. CASE s.at = 3
      <3>1. CopiedFirst(p, d, DeviceRecord)
        BY <1>1, <1>5, <1>10, <2>3 DEF CopiesAreTrue, At
      <3>2. QED
        BY <1>1, <3>1, Copied DEF F, CopiedFirst
    <2>4. QED
      BY <1>10, <2>2, <2>3
  <1>11. ASSUME n = "decide"
         PROVE  /\ s.at = 2 => d \notin DOMAIN s.first
                /\ s.at = 3 \/ s.at = 4 => first(d, DeviceRecord)
    <2>1. CASE s.at = 2
      <3>1. Key(p) # d
        BY <1>1, <1>4, <1>11, <2>1, ReadsOf DEF At, ReadsAt
      <3>2. QED
        BY <1>1, <1>4, <1>7, <2>1, <3>1, Copied DEF F
    <2>2. CASE s.at = 3
      <3>1. Key(p) = d
        BY <1>1, <1>5, <1>11, <2>2, ReadsOf DEF At, ReadsAt
      <3>2. v # Absent
        BY <1>1, <1>11 DEF Stops
      <3>3. v \in DeviceRecord
        BY <1>2, <3>1, <3>2, PeekIs DEF v
      <3>4. d \notin DOMAIN r.first
        BY <1>1, <1>5, <1>11, <2>2 DEF CopiesAreTrue, At
      <3>5. d \in DOMAIN F /\ F[d] = v
        BY <3>1, <3>4, Copied DEF F, v
      <3>6. QED
        BY <1>1, <2>2, <3>3, <3>5
    <2>3. CASE s.at = 4
      <3>1. CopiedFirst(p, d, DeviceRecord)
        BY <1>1, <1>6, <1>11, <2>3 DEF CopiesAreTrue, At
      <3>2. QED
        BY <1>1, <2>3, <3>1, Copied DEF F, CopiedFirst
    <2>4. QED
      BY <2>1, <2>2, <2>3
  <1>12. ASSUME n = "enabled" \/ n = "limit", s.at = 2 \/ s.at = 3
         PROVE  first(c, RepoRecord)
    <2>1. Key(p) = c
      BY <1>1, <1>4, <1>5, <1>12, ReadsOf DEF At, ReadsAt
    <2>2. CASE s.at = 2
      <3>1. v # Absent
        BY <1>1, <1>12 DEF Stops
      <3>2. v \in RepoRecord
        BY <1>2, <2>1, <3>1, PeekIs DEF v
      <3>3. c \in DOMAIN F /\ F[c] = v
        BY <1>4, <1>7, <2>1, <2>2, Copied DEF F, v
      <3>4. QED
        BY <1>1, <3>2, <3>3
    <2>3. CASE s.at = 3
      <3>1. CopiedFirst(p, c, RepoRecord)
        BY <1>1, <1>5, <1>12, <2>3 DEF CopiesAreTrue, At
      <3>2. QED
        BY <1>1, <3>1, Copied DEF F, CopiedFirst
    <2>4. QED
      BY <1>12, <2>2, <2>3
  <1>13. n # "login" => s.op.id = i
    BY <1>1 DEF For
  <1>14. QED
    BY <1>1, <1>3, <1>8, <1>9, <1>10, <1>11, <1>12, <1>13 DEF CopiesAreTrue, At, For,
      CopiedFirst, CopiedLast

\* CopiesAreTrue after a call of any process.
LEMMA ActsCopies ==
  ASSUME VaultTypes, RecordsAreTyped, NEW p \in Process, run[p] # Idle, Outcome(p),
         \A q \in Process : CopiesAreTrue(q), NEW q \in Process
  PROVE  CopiesAreTrue(q)'
  <1>1. CASE q # p
    <2>1. run'[q] = run[q]
      BY <1>1, OutcomeIs
    <2>2. CopiesAreTrue(q)
      OBVIOUS
    <2>3. QED
      BY <2>1, <2>2 DEF CopiesAreTrue, At, For, CopiedFirst, CopiedLast
  <1>2. CASE q = p
    <2>1. CASE run'[p] = Idle
      BY <1>2, <2>1 DEF CopiesAreTrue, At
    <2>2. CASE Learns(p)
      BY <1>2, <2>2, LearnsCopies
    <2>3. CASE Arrives(p)
      BY <1>2, <2>3, ArrivesAt DEF CopiesAreTrue, At
    <2>4. QED
      BY <2>1, <2>2, <2>3 DEF Outcome, GivesUp, Succeeds
  <1>3. QED
    BY <1>1, <1>2

\* CopiesAreTrue after the beginning of an operation.
LEMMA StartsCopies ==
  ASSUME NEW p \in Process, Starts(p), \A q \in Process : CopiesAreTrue(q), NEW q \in Process
  PROVE  CopiesAreTrue(q)'
  <1>1. CASE q # p
    <2>1. run'[q] = run[q]
      BY <1>1 DEF Starts, Others
    <2>2. CopiesAreTrue(q)
      OBVIOUS
    <2>3. QED
      BY <2>1, <2>2 DEF CopiesAreTrue, At, For, CopiedFirst, CopiedLast
  <1>2. CASE q = p
    <2>1. run'[p].at = 1 /\ run'[p].first = << >>
      BY DEF Starts
    <2>2. DOMAIN run'[p].first = {}
      BY <2>1
    <2>3. QED
      BY <1>2, <2>1, <2>2 DEF CopiesAreTrue, At
  <1>3. QED
    BY <1>1, <1>2

-----------------------------------------------------------------------------
(* The indexes.                                                            *)

\* What all lemmas below start from.
Assumed ==
  /\ VaultTypes /\ RecordsAreTyped /\ OperationsAreTrue
  /\ \A p \in Process : CopiesAreTrue(p)
  /\ \A p \in Process : IndexIsTrue(p)
  /\ \A p \in Process : CodeIsTrue(p)

\* The identifiers operations are about are identifiers.
LEMMA ForIsUsed ==
  ASSUME VaultTypes, NEW q \in Process, run[q] # Idle
  PROVE  For(q) \in used /\ For(q) \in Id(kind)
  BY DEF VaultTypes, RunIsTyped, For

\* IndexIsTrue of the others: nobody else creates or deletes what they are about.
LEMMA OthersIndex ==
  ASSUME Assumed, NEW p \in Process, Framed, Effects(p), NEW q \in Process, run'[q] = run[q]
  PROVE  IndexIsTrue(q)'
  <1> DEFINE i == For(q)
  <1>1. IndexIsTrue(q) /\ IndexIsTrue(p) /\ VaultTypes /\ OperationsAreTrue
    BY DEF Assumed
  <1>2. /\ \A name, calls : At(q, name, calls)' <=> At(q, name, calls)
        /\ For(q)' = i
    BY DEF At, For
  <1>3. /\ old' = old /\ kind' = kind /\ (faults' = 0 => faults = 0)
        /\ Presence(p) /\ Pointers(p)
    BY DEF Framed, Effects
  <1> SUFFICES ASSUME run[q] # Idle
               PROVE  IndexIsTrue(q)'
    BY DEF IndexIsTrue, At
  <1>4. i \in Id(kind)
    BY <1>1, ForIsUsed
  <1>5. /\ At(p, "sweep", {4}) => For(p) \in old
        /\ \A j \in old : Unmade(j)
    BY <1>1 DEF IndexIsTrue, OperationsAreTrue, At
  <1>6. At(q, "create", {2, 3}) => Gets(<<"token", i>>)
    <2> SUFFICES ASSUME At(q, "create", {2, 3}) PROVE Gets(<<"token", i>>)
      OBVIOUS
    <2>1. Has(<<"token", i>>) /\ ~Unmade(i)
      BY <1>1 DEF IndexIsTrue, Unmade, Makes, At, Creations
    <2>2. ~IsAt(p, "sweep", {4}, i)
      BY <1>5, <2>1 DEF IsAt
    <2>3. QED
      BY <1>3, <1>4, <2>1, <2>2 DEF Presence, Vanishes, Has, Gets
  <1>7. At(q, "sweep", {2, 3, 4}) => i \in old
    BY <1>1 DEF IndexIsTrue
  <1>8. At(q, "sweep", {3, 4}) => ~Gets(<<"by-hash", i>>)
    <2> SUFFICES ASSUME At(q, "sweep", {3, 4}) PROVE ~Gets(<<"by-hash", i>>)
      OBVIOUS
    <2>1. ~Has(<<"by-hash", i>>) /\ i \in old
      BY <1>1 DEF IndexIsTrue, At
    <2>2. ~IsAt(p, "create", {2}, i)
      BY <1>5, <2>1 DEF IsAt, At, Unmade, Makes, Creations
    <2>3. QED
      BY <1>3, <1>4, <2>1, <2>2 DEF Presence, Appears, Has, Gets
  <1>9. At(q, "sweep", {4}) => ~Gets(<<"by-user", i>>)
    <2> SUFFICES ASSUME At(q, "sweep", {4}) PROVE ~Gets(<<"by-user", i>>)
      OBVIOUS
    <2>1. ~Has(<<"by-user", i>>) /\ i \in old
      BY <1>1 DEF IndexIsTrue, At
    <2>2. ~IsAt(p, "create", {3}, i)
      BY <1>5, <2>1 DEF IsAt, At, Unmade, Makes, Creations
    <2>3. QED
      BY <1>3, <1>4, <2>1, <2>2 DEF Presence, Appears, Has, Gets
  <1>10. At(q, "login", {4}) => Gets(<<"user", i>>)
    BY <1>1, <1>3, <1>4 DEF IndexIsTrue, Presence, Vanishes, Has, Gets
  <1>11. At(q, "add", {3}) => Gets(<<"repo", i>>)
    <2> SUFFICES ASSUME At(q, "add", {3}) PROVE Gets(<<"repo", i>>)
      OBVIOUS
    <2>1. Has(<<"repo", i>>) /\ ~Unmade(i)
      BY <1>1 DEF IndexIsTrue, Unmade, Makes, At, Creations
    <2>2. ~IsAt(p, "remove", {3}, i)
      <3> SUFFICES ASSUME IsAt(p, "remove", {3}, i) PROVE FALSE
        OBVIOUS
      <3>1. Unmade(For(p)) /\ For(p) = i
        BY <1>1, RequestedIsMade DEF IsAt, At, AllRequests
      <3>2. QED
        BY <2>1, <3>1
    <2>3. QED
      BY <1>3, <1>4, <2>1, <2>2 DEF Presence, Vanishes, Has, Gets
  <1>12. At(q, "remove", {3}) /\ Gets(<<"by-name">>) /\ faults' = 0 => kv'[<<"by-name">>].id # i
    <2> SUFFICES ASSUME At(q, "remove", {3}), Gets(<<"by-name">>), faults' = 0
                 PROVE  kv'[<<"by-name">>].id # i
      OBVIOUS
    <2>1. Unmade(i)
      BY <1>1, RequestedIsMade DEF At, AllRequests
    <2>2. At(p, "add", {3}) => For(p) # i
      BY <2>1 DEF At, Unmade, Makes, Creations
    <2>3. Has(<<"by-name">>) => kv[<<"by-name">>].id # i
      BY <1>1, <1>3 DEF IndexIsTrue
    <2>4. \/ Has(<<"by-name">>) /\ kv'[<<"by-name">>] = kv[<<"by-name">>]
          \/ At(p, "add", {3}) /\ kv'[<<"by-name">>].id = For(p)
      BY <1>3 DEF Pointers, Has, Gets
    <2>5. QED
      BY <2>2, <2>3, <2>4
  <1>13. QED
    BY <1>2, <1>3, <1>6, <1>7, <1>8, <1>9, <1>10, <1>11, <1>12 DEF IndexIsTrue, Has, Gets

\* IndexIsTrue of the process that made the call.
LEMMA OwnIndex ==
  ASSUME Assumed, NEW p \in Process, run[p] # Idle, Framed, Effects(p), Outcome(p)
  PROVE  IndexIsTrue(p)'
  <1> DEFINE i == For(p)
             s == run'[p]
  <1>1. IndexIsTrue(p) /\ VaultTypes /\ RecordsAreTyped /\ OperationsAreTrue /\ i \in Id(kind) /\ i \in used
    BY ForIsUsed DEF Assumed
  <1>2. old' = old /\ kind' = kind /\ (faults' = 0 => faults = 0) /\ Presence(p)
    BY DEF Framed, Effects
  <1>3. CASE s = Idle
    BY <1>3 DEF IndexIsTrue, At
  <1>4. CASE Arrives(p)
    <2>1. s # Idle /\ s.op = run[p].op
      BY <1>1, <1>4, ArrivesAt
    <2>2. /\ \A j : Continues(p, j) => s.at = j
      BY ContinuesIs
    <2>3. s.op.name = "create" => Gets(<<"token", i>>)
      <3>1. CASE At(p, "create", {1})
        BY <1>4, <3>1 DEF Arrives, At
      <3>2. CASE At(p, "create", {2})
        <4>1. Has(<<"token", i>>)
          BY <1>1, <3>2 DEF IndexIsTrue, At
        <4>2. ~IsAt(p, "sweep", {4}, i)
          BY <3>2 DEF At, IsAt
        <4>3. QED
          BY <1>1, <1>2, <4>1, <4>2 DEF Presence, Vanishes, Has, Gets
      <3>3. QED
        BY <1>4, <2>1, <3>1, <3>2 DEF Arrives, At
    <2>4. /\ s.op.name = "sweep" => i \in old
          /\ s.op.name = "sweep" /\ s.at \in {3, 4} => ~Gets(<<"by-hash", i>>)
          /\ s.op.name = "sweep" /\ s.at = 4 => ~Gets(<<"by-user", i>>)
      <3>1. CASE At(p, "sweep", {2})
        <4>1. Continues(p, 3) /\ ~Gets(<<"by-hash", i>>)
          BY <1>4, <3>1 DEF Arrives, At
        <4>2. QED
          BY <1>1, <2>2, <3>1, <4>1 DEF IndexIsTrue, At
      <3>2. CASE At(p, "sweep", {3})
        <4>1. ~Gets(<<"by-user", i>>)
          BY <1>4, <3>2 DEF Arrives, At
        <4>2. ~Has(<<"by-hash", i>>) /\ i \in old
          BY <1>1, <3>2 DEF IndexIsTrue, At
        <4>3. ~IsAt(p, "create", {2}, i)
          BY <3>2 DEF At, IsAt
        <4>4. ~Gets(<<"by-hash", i>>)
          BY <1>1, <1>2, <4>2, <4>3 DEF Presence, Appears, Has, Gets
        <4>5. QED
          BY <4>1, <4>2, <4>4
      <3>3. QED
        BY <1>4, <2>1, <3>1, <3>2 DEF Arrives, At
    <2>5. /\ s.op.name = "login" => Gets(<<"user", i>>)
          /\ s.op.name = "add" => Gets(<<"repo", i>>)
          /\ s.op.name = "remove" => ~Gets(<<"by-name">>) \/ faults' # 0
      BY <1>4, <2>1 DEF Arrives, At
    <2>6. s.op.id = i
      BY <2>1 DEF For
    <2>7. QED
      BY <1>2, <2>1, <2>3, <2>4, <2>5, <2>6 DEF IndexIsTrue, At, For, Has, Gets
  <1>5. CASE Learns(p)
    <2>1. s # Idle /\ s.op.name = run[p].op.name /\ s.at = run[p].at + 1 /\ (s.op.name # "login" => s.op = run[p].op)
      BY <1>5, LearnsIs
    <2>2. /\ At(p, "sweep", {1}) \/ At(p, "add", {1}) \/ At(p, "remove", {1}) \/ At(p, "login", {1, 2})
             \/ s.op.name \notin {"create", "sweep", "login", "add", "remove"}
      <3>1. Calls(p, {"read", "glance"})
        BY <1>5 DEF Learns
      <3>2. QED
        BY <1>1, <2>1, <3>1, ReadsOf DEF At, ReadsAt
    <2>3. s.op.name = "sweep" => i \in old /\ s.op.id = i
      BY <1>5, <2>1 DEF Learns, Stops, For
    <2>4. /\ s.op.name \in {"sweep", "add", "remove"} => s.at = 2
          /\ s.op.name = "login" => s.at # 4
      BY <2>1, <2>2 DEF At
    <2>5. s.op.name # "create"
      BY <2>1, <2>2 DEF At
    <2>6. QED
      BY <1>2, <2>1, <2>3, <2>4, <2>5 DEF IndexIsTrue, At, For
  <1>6. QED
    BY <1>3, <1>4, <1>5 DEF Outcome, GivesUp, Succeeds

\* IndexIsTrue after a call of any process.
LEMMA ActsIndex ==
  ASSUME Assumed, NEW p \in Process, run[p] # Idle, Framed, Effects(p), Outcome(p), NEW q \in Process
  PROVE  IndexIsTrue(q)'
  <1>1. CASE q = p
    BY <1>1, OwnIndex
  <1>2. CASE q # p
    <2>1. run'[q] = run[q]
      BY <1>2, OutcomeIs DEF Assumed
    <2>2. QED
      BY <2>1, OthersIndex
  <1>3. QED
    BY <1>1, <1>2

\* IndexNamesRecord after a call: the record comes first and goes last.
LEMMA ActsIndexNames ==
  ASSUME Assumed, IndexNamesRecord, NEW p \in Process, Framed, Effects(p)
  PROVE  IndexNamesRecord'
  <1>1. /\ IndexIsTrue(p) /\ VaultTypes /\ RecordsAreTyped
        /\ kind' = kind /\ (faults' = 0 => faults = 0) /\ Presence(p) /\ Pointers(p)
    BY DEF Assumed, Framed, Effects
  <1>2. ASSUME NEW i \in Id(kind), Gets(<<"by-hash", i>>) \/ Gets(<<"by-user", i>>)
        PROVE  Gets(<<"token", i>>)
    <2>1. \/ Has(<<"by-hash", i>>) \/ Has(<<"by-user", i>>)
          \/ IsAt(p, "create", {2}, i) \/ IsAt(p, "create", {3}, i)
      BY <1>1, <1>2 DEF Presence, Appears, Has, Gets
    <2>2. Has(<<"token", i>>)
      BY <1>1, <2>1 DEF IndexNamesRecord, IndexIsTrue, IsAt, At
    <2>3. ~IsAt(p, "sweep", {4}, i)
      <3> SUFFICES ASSUME IsAt(p, "sweep", {4}, i) PROVE FALSE
        OBVIOUS
      <3>1. ~Has(<<"by-hash", i>>) /\ ~Has(<<"by-user", i>>)
        BY <1>1 DEF IndexIsTrue, IsAt, At
      <3>2. QED
        BY <2>1, <3>1 DEF IsAt, At
    <2>4. QED
      BY <1>1, <2>2, <2>3 DEF Presence, Vanishes, Has, Gets
  <1>3. ASSUME Gets(<<"by-github-id">>)
        PROVE  Gets(<<"user", kv'[<<"by-github-id">>].id>>)
    <2> DEFINE i == kv'[<<"by-github-id">>].id
    <2>1. \/ Has(<<"by-github-id">>) /\ i = kv[<<"by-github-id">>].id
          \/ At(p, "login", {4}) /\ i = For(p)
      BY <1>1, <1>3 DEF Pointers, Has, Gets
    <2> HIDE DEF i
    <2>2. Has(<<"user", i>>)
      BY <1>1, <2>1 DEF IndexNamesRecord, IndexIsTrue
    <2>3. i \in Id(kind)
      BY <1>1, <2>1, ForIsUsed DEF RecordsAreTyped, VaultTypes, At
    <2>4. Gets(<<"user", i>>)
      BY <1>1, <2>2, <2>3 DEF Presence, Vanishes, Has, Gets
    <2>5. QED
      BY <2>4 DEF i
  <1>4. ASSUME Gets(<<"by-name">>), faults' = 0
        PROVE  Gets(<<"repo", kv'[<<"by-name">>].id>>)
    <2> DEFINE i == kv'[<<"by-name">>].id
    <2>1. \/ Has(<<"by-name">>) /\ i = kv[<<"by-name">>].id
          \/ At(p, "add", {3}) /\ i = For(p)
      BY <1>1, <1>4 DEF Pointers, Has, Gets
    <2> HIDE DEF i
    <2>2. Has(<<"repo", i>>)
      BY <1>1, <1>4, <2>1 DEF IndexNamesRecord, IndexIsTrue
    <2>3. i \in Id(kind)
      BY <1>1, <2>1, ForIsUsed DEF RecordsAreTyped, VaultTypes, At
    <2>4. ~IsAt(p, "remove", {3}, i)
      <3> SUFFICES ASSUME IsAt(p, "remove", {3}, i) PROVE FALSE
        OBVIOUS
      <3>1. ~Has(<<"by-name">>) \/ kv[<<"by-name">>].id # i
        BY <1>1, <1>4 DEF IndexIsTrue, IsAt
      <3>2. QED
        BY <2>1, <3>1 DEF IsAt, At
    <2>5. Gets(<<"repo", i>>)
      BY <1>1, <2>2, <2>3, <2>4 DEF Presence, Vanishes, Has, Gets
    <2>6. QED
      BY <2>5 DEF i
  <1>5. QED
    BY <1>1, <1>2, <1>3, <1>4 DEF IndexNamesRecord, Has, Gets

-----------------------------------------------------------------------------
(* What was consumed.                                                      *)

\* ConsumedIsGone after a call: a state or a session is created once.
LEMMA ActsConsumed ==
  ASSUME Assumed, ConsumedIsGone, NEW p \in Process, run[p] # Idle, Framed, Effects(p), Outcome(p)
  PROVE  ConsumedIsGone'
  <1>1. /\ kind' = kind /\ Presence(p) /\ VaultTypes /\ OperationsAreTrue
    BY DEF Assumed, Framed, Effects
  <1>2. ASSUME NEW i \in Id(kind), Op("consume", i) \in done'
        PROVE  ~Gets(<<"state", i>>)
    <2> DEFINE o == Op("consume", i)
    <2>1. o.name = "consume" /\ o.id = i
      BY DEF Op
    <2> HIDE DEF o
    <2>2. CASE o \in done
      <3>1. ~Has(<<"state", i>>) /\ Unmade(i)
        BY <1>1, <2>1, <2>2 DEF ConsumedIsGone, OperationsAreTrue, o
      <3>2. ~IsAt(p, "state", {1}, i)
        BY <3>1 DEF IsAt, At, Unmade, Makes, Creations
      <3>3. QED
        BY <1>1, <3>1, <3>2 DEF Presence, Appears, Has, Gets
    <2>3. CASE o \notin done
      <3>1. o = run[p].op /\ Proves(p)
        BY <1>1, <1>2, <2>3, OutcomeIs DEF o
      <3>2. QED
        BY <2>1, <3>1 DEF Proves, For
    <2>4. QED
      BY <2>2, <2>3
  <1>3. ASSUME NEW i \in Id(kind), Op("logout", i) \in done'
        PROVE  ~Gets(<<"session", i>>)
    <2> DEFINE o == Op("logout", i)
    <2>1. o.name = "logout" /\ o.id = i
      BY DEF Op
    <2> HIDE DEF o
    <2>2. CASE o \in done
      <3>1. ~Has(<<"session", i>>) /\ Unmade(i)
        BY <1>1, <2>1, <2>2 DEF ConsumedIsGone, OperationsAreTrue, o
      <3>2. ~IsAt(p, "session", {1}, i)
        BY <3>1 DEF IsAt, At, Unmade, Makes, Creations
      <3>3. QED
        BY <1>1, <3>1, <3>2 DEF Presence, Appears, Has, Gets
    <2>3. CASE o \notin done
      <3>1. o = run[p].op /\ Proves(p)
        BY <1>1, <1>3, <2>3, OutcomeIs DEF o
      <3>2. QED
        BY <2>1, <3>1 DEF Proves, For
    <2>4. QED
      BY <2>2, <2>3
  <1>4. QED
    BY <1>1, <1>2, <1>3 DEF ConsumedIsGone, Has, Gets

\* LateIsFirst after a call: whoever comes late never gets past the first one.
LEMMA ActsLate ==
  ASSUME Assumed, ConsumedIsGone, NEW p \in Process, run[p] # Idle, Outcome(p),
         \A q \in Process : LateIsFirst(q), NEW q \in Process
  PROVE  LateIsFirst(q)'
  <1>0. VaultTypes /\ done \subseteq done'
    BY OutcomeIs DEF Assumed
  <1>1. CASE q # p
    <2>1. run'[q] = run[q] /\ LateIsFirst(q)
      BY <1>0, <1>1, OutcomeIs
    <2>2. QED
      BY <1>0, <2>1 DEF LateIsFirst
  <1>2. CASE q = p
    <2> SUFFICES ASSUME run'[p] # Idle, run'[p].again PROVE FALSE
      BY <1>2 DEF LateIsFirst
    <2>1. /\ run[p].op.name = "consume" \/ run[p].op.name = "use"
          /\ run[p].again /\ run[p].at = 1 /\ Ending(run[p].op) \in done
      BY <1>0, OutcomeIs DEF LateIsFirst
    <2>2. ~Arrives(p)
      BY <2>1 DEF Arrives, At
    <2>3. Learns(p)
      BY <2>2 DEF Outcome, GivesUp, Succeeds
    <2>4. CASE run[p].op.name = "consume"
      <3>1. Ending(run[p].op) = Op("consume", For(p))
        BY <2>4 DEF Ending, For
      <3>2. ~Has(<<"state", For(p)>>)
        BY <1>0, <2>1, <3>1, ForIsUsed DEF ConsumedIsGone
      <3>3. Key(p) = <<"state", For(p)>>
        BY <2>1, <2>4, RowsOfConsumeOAuthState DEF Key, CallIs, For
      <3>4. Peek(Key(p)) = Absent
        BY <3>2, <3>3 DEF Peek, Has
      <3>5. QED
        BY <2>3, <2>4, <3>4 DEF Learns, Stops
    <2>5. CASE run[p].op.name = "use"
      <3>1. Len(Program(run[p].op)) = 1
        BY <2>5, RowsOfGetSession
      <3>2. QED
        BY <2>1, <2>3, <3>1 DEF Learns
    <2>6. QED
      BY <2>1, <2>4, <2>5
  <1>3. QED
    BY <1>1, <1>2

\* LateIsFirst after the beginning of an operation.
LEMMA StartsLate ==
  ASSUME NEW p \in Process, Starts(p), \A q \in Process : LateIsFirst(q), NEW q \in Process
  PROVE  LateIsFirst(q)'
  <1>1. CASE q # p
    <2>1. run'[q] = run[q] /\ LateIsFirst(q) /\ done' = done
      BY <1>1 DEF Starts, Others
    <2>2. QED
      BY <2>1 DEF LateIsFirst
  <1>2. CASE q = p
    <2>1. /\ run'[p].again => run'[p].op.name \in {"consume", "use"} /\ Ending(run'[p].op) \in done
          /\ run'[p].at = 1 /\ done' = done
      BY DEF Starts
    <2>2. QED
      BY <1>2, <2>1 DEF LateIsFirst
  <1>3. QED
    BY <1>1, <1>2

-----------------------------------------------------------------------------
(* User codes.                                                             *)

\* What nobody is making stays so during a call.
LEMMA ActsUnmade ==
  ASSUME VaultTypes, NEW p \in Process, run[p] # Idle, Outcome(p), NEW i, Unmade(i)
  PROVE  Unmade(i)'
  BY ActsMake DEF Unmade

\* CodesAreMade after a call.
LEMMA ActsCodes ==
  ASSUME Assumed, CodesAreMade, NEW p \in Process, run[p] # Idle, Framed, Effects(p), Outcome(p)
  PROVE  CodesAreMade'
  <1>1. /\ kind' = kind /\ used' = used /\ Presence(p) /\ VaultTypes /\ OperationsAreTrue
    BY DEF Assumed, Framed, Effects
  <1>2. ASSUME NEW i \in Id(kind), Gets(<<"code", i>>)
        PROVE  i \in used /\ Unmade(i)'
    <2>1. CASE Has(<<"code", i>>)
      BY <1>1, <2>1, ActsUnmade DEF CodesAreMade
    <2>2. CASE ~Has(<<"code", i>>)
      <3>1. At(p, "start", {2}) /\ For(p) = i
        BY <1>1, <1>2, <2>2 DEF Presence, Appears, Has, Gets, IsAt
      <3>2. i \in used /\ Makes(p, i)
        BY <1>1, <3>1, ForIsUsed DEF At, Makes, Creations
      <3>3. run'[p] = Idle
        <4>1. ~Arrives(p)
          BY <1>2, <2>2, <3>1 DEF Arrives, At, Has, Gets
        <4>2. ~Learns(p)
          BY <1>1, <3>1, ReadsOf DEF Learns, At, ReadsAt
        <4>3. QED
          BY <4>1, <4>2 DEF Outcome, GivesUp, Succeeds
      <3>4. ASSUME NEW q \in Process, Makes(q, i)'
            PROVE  FALSE
        <4>1. Makes(q, i)
          BY <1>1, <3>4, ActsMake
        <4>2. q = p
          BY <1>1, <3>1, <3>2, <4>1 DEF OperationsAreTrue
        <4>3. QED
          BY <3>3, <3>4, <4>2 DEF Makes
      <3>5. QED
        BY <3>2, <3>4 DEF Unmade
    <2>3. QED
      BY <2>1, <2>2
  <1>3. QED
    BY <1>1, <1>2 DEF CodesAreMade, Has, Gets

\* Nobody awaits a decision under i, and that stays so.
LEMMA GoneStays ==
  ASSUME Assumed, NEW p \in Process, Framed, Effects(p), NEW i \in Id(kind), Unmade(i)
  PROVE  /\ Gone(i) => Gone(i)'
         /\ Settled(i) => Settled(i)'
  <1>1. kind' = kind /\ Kept(p)
    BY DEF Framed, Effects
  <1>2. ~IsAt(p, "start", {1}, i)
    BY DEF IsAt, At, Unmade, Makes, Creations
  <1>3. /\ clobbered \subseteq clobbered'
        /\ Has(<<"device", i>>)' /\ <<"device", i>> \notin clobbered' => DeviceGoesOn(i)
    BY <1>1, <1>2 DEF Kept
  <1>4. QED
    BY <1>3 DEF Gone, Settled, DeviceGoesOn

\* CodeIsTrue of the others.
LEMMA OthersCode ==
  ASSUME Assumed, NEW p \in Process, run[p] # Idle, Framed, Effects(p), Outcome(p),
         NEW q \in Process, run'[q] = run[q]
  PROVE  CodeIsTrue(q)'
  <1> DEFINE i == For(q)
  <1>1. CodeIsTrue(q) /\ VaultTypes /\ OperationsAreTrue /\ old' = old
    BY DEF Assumed, Framed
  <1>2. /\ \A name, calls : At(q, name, calls)' <=> At(q, name, calls)
        /\ For(q)' = i
    BY DEF At, For
  <1> SUFFICES ASSUME run[q] # Idle
               PROVE  CodeIsTrue(q)'
    BY DEF CodeIsTrue, At
  <1>3. i \in Id(kind)
    BY <1>1, ForIsUsed
  <1>4. PICK j \in Id(kind) : j = i
    BY <1>3
  <1>5. Unmade(j) => Unmade(j)' /\ (Gone(j) => Gone(j)') /\ (Settled(j) => Settled(j)')
    BY <1>1, ActsUnmade, GoneStays
  <1>6. At(q, "redeem", {2, 3, 4}) => Settled(j)'
    <2> SUFFICES ASSUME At(q, "redeem", {2, 3, 4}) PROVE Settled(j)'
      OBVIOUS
    <2>1. Unmade(j) /\ Settled(j)
      BY <1>1, <1>4, RequestedIsMade DEF At, AllRequests, CodeIsTrue
    <2>2. QED
      BY <1>5, <2>1
  <1>7. At(q, "purge", {2, 3}) => i \in old
    BY <1>1 DEF CodeIsTrue
  <1>8. At(q, "prune", {2, 3}) => Unmade(j)'
    BY <1>1, <1>4, <1>5 DEF CodeIsTrue
  <1>9. At(q, "prune", {3}) => Gone(j)'
    <2> SUFFICES ASSUME At(q, "prune", {3}) PROVE Gone(j)'
      OBVIOUS
    <2>1. Unmade(j) /\ Gone(j)
      BY <1>1, <1>4 DEF CodeIsTrue, At
    <2>2. QED
      BY <1>5, <2>1
  <1>10. For(q)' = j
    BY <1>2, <1>4
  <1>11. QED
    BY <1>1, <1>2, <1>4, <1>6, <1>7, <1>8, <1>9, <1>10 DEF CodeIsTrue

\* CodeIsTrue of the process that made the call.
LEMMA OwnCode ==
  ASSUME Assumed, CodesAreMade, NEW p \in Process, run[p] # Idle, Framed, Effects(p), Outcome(p)
  PROVE  CodeIsTrue(p)'
  <1> DEFINE i == For(p)
             s == run'[p]
  <1>1. /\ CodeIsTrue(p) /\ VaultTypes /\ OperationsAreTrue /\ RecordsAreTyped /\ old' = old /\ kind' = kind
        /\ i \in used /\ i \in Id(kind)
    BY ForIsUsed DEF Assumed, Framed
  <1>2. PICK j \in Id(kind) : j = i
    BY <1>1
  <1>3. Unmade(j) => Unmade(j)' /\ (Gone(j) => Gone(j)') /\ (Settled(j) => Settled(j)')
    BY <1>1, ActsUnmade, GoneStays
  <1>4. run[p].op.name = "redeem" => Unmade(j)
    BY <1>1, <1>2, RequestedIsMade DEF AllRequests
  <1>5. CASE s = Idle
    BY <1>5 DEF CodeIsTrue, At
  <1>6. CASE Arrives(p)
    <2>1. s # Idle /\ s.op = run[p].op
      BY <1>1, <1>6, ArrivesAt
    <2>2. /\ s.op.name = "redeem" => At(p, "redeem", {2, 3})
          /\ s.op.name = "purge" => At(p, "purge", {2})
          /\ s.op.name # "prune"
      BY <1>6, <2>1 DEF Arrives, At
    <2>3. s.op.name = "redeem" => Settled(j)'
      BY <1>1, <1>2, <1>3, <1>4, <2>1, <2>2 DEF CodeIsTrue, At
    <2>4. s.op.name = "purge" => i \in old
      BY <1>1, <2>2 DEF CodeIsTrue, At
    <2>5. For(p)' = j /\ For(p)' = i
      BY <1>2, <2>1 DEF For
    <2>6. QED
      BY <1>1, <2>2, <2>3, <2>4, <2>5 DEF CodeIsTrue, At
  <1>7. CASE Learns(p) /\ kv' = kv
    <2>1. s # Idle /\ s.op.name = run[p].op.name /\ s.at = run[p].at + 1 /\ (s.op.name # "login" => s.op = run[p].op)
      BY <1>7, LearnsIs
    <2>2. Calls(p, {"read", "glance"}) /\ ~Stops(run[p].op, run[p].at, Peek(Key(p)))
      BY <1>7 DEF Learns
    <2>3. CASE s.op.name = "redeem"
      <3>1. At(p, "redeem", {1}) \/ At(p, "redeem", {2})
        BY <1>1, <2>1, <2>2, <2>3, ReadsOf DEF At, ReadsAt
      <3>2. CASE At(p, "redeem", {1})
        <4>1. Key(p) = <<"device", i>>
          BY <1>1, <2>2, <3>2, ReadsOf DEF At, ReadsAt
        <4>2. Peek(Key(p)) # Absent /\ Peek(Key(p)).decided
          BY <2>2, <3>2 DEF Stops, At
        <4>3. kv[<<"device", i>>].decided
          BY <1>1, <4>1, <4>2, PeekIs
        <4>4. Settled(j)
          BY <1>2, <4>3 DEF Settled
        <4>5. QED
          BY <1>2, <1>3, <1>4, <2>1, <2>3, <4>4 DEF CodeIsTrue, At, For
      <3>3. CASE At(p, "redeem", {2})
        <4>1. Settled(j)
          BY <1>1, <1>2, <3>3 DEF CodeIsTrue, At
        <4>2. QED
          BY <1>2, <1>3, <1>4, <2>1, <2>3, <4>1 DEF CodeIsTrue, At, For
      <3>4. QED
        BY <3>1, <3>2, <3>3
    <2>4. CASE s.op.name = "purge"
      <3>1. i \in old
        BY <2>1, <2>2, <2>4 DEF Stops, For
      <3>2. QED
        BY <1>1, <2>1, <2>4, <3>1 DEF CodeIsTrue, At, For
    <2>5. CASE s.op.name = "prune"
      <3>1. At(p, "prune", {1}) \/ At(p, "prune", {2})
        BY <1>1, <2>1, <2>2, <2>5, ReadsOf DEF At, ReadsAt
      <3>2. CASE At(p, "prune", {1})
        <4>1. Key(p) = <<"code", i>>
          BY <1>1, <2>2, <3>2, ReadsOf DEF At, ReadsAt
        <4>2. Peek(Key(p)) # Absent
          BY <2>2, <3>2 DEF Stops, At
        <4>3. Unmade(j)
          BY <1>1, <1>2, <4>1, <4>2 DEF CodesAreMade, Peek, Has
        <4>4. s.at = 2
          BY <2>1, <3>2 DEF At
        <4>5. QED
          BY <1>2, <1>3, <2>1, <2>5, <4>3, <4>4 DEF CodeIsTrue, At, For
      <3>3. CASE At(p, "prune", {2})
        <4>1. Key(p) = <<"device", i>>
          BY <1>1, <2>2, <3>3, ReadsOf DEF At, ReadsAt
        <4>2. Peek(Key(p)) = Absent
          BY <2>2, <3>3 DEF Stops, At
        <4>3. Gone(j)
          BY <1>1, <1>2, <4>1, <4>2, PeekIs DEF Gone
        <4>4. Unmade(j)
          BY <1>1, <1>2, <3>3 DEF CodeIsTrue, At
        <4>5. QED
          BY <1>2, <1>3, <2>1, <2>5, <4>3, <4>4 DEF CodeIsTrue, At, For
      <3>4. QED
        BY <3>1, <3>2, <3>3
    <2>6. CASE s.op.name \notin {"redeem", "purge", "prune"}
      BY <2>6 DEF CodeIsTrue, At
    <2>7. QED
      BY <2>3, <2>4, <2>5, <2>6
  <1>8. QED
    BY <1>5, <1>6, <1>7 DEF Outcome, GivesUp, Succeeds

\* UserCodeWorks after a call: a code only goes when nobody waits under it.
LEMMA ActsUserCode ==
  ASSUME Assumed, CodesAreMade, UserCodeWorks, NEW p \in Process, run[p] # Idle, Framed, Effects(p), Outcome(p)
  PROVE  UserCodeWorks'
  <1>1. /\ VaultTypes /\ OperationsAreTrue /\ CodeIsTrue(p)
        /\ kind' = kind /\ old' = old /\ Presence(p) /\ Kept(p)
    BY DEF Assumed, Framed, Effects
  <1>2. ASSUME NEW i \in Id(kind), Op("start", i) \in done', i \notin old,
               Gets(<<"device", i>>), <<"device", i>> \notin clobbered'
        PROVE  Gets(<<"code", i>>) \/ kv'[<<"device", i>>].decided
    <2> DEFINE o == Op("start", i)
    <2>1. o.name = "start" /\ o.id = i
      BY DEF Op
    <2> HIDE DEF o
    <2>2. CASE o \notin done
      <3>1. o = run[p].op /\ Proves(p)
        BY <1>1, <1>2, <2>2, OutcomeIs DEF o
      <3>2. QED
        BY <2>1, <3>1 DEF Proves, For
    <2>3. CASE o \in done
      <3>1. Unmade(i)
        BY <1>1, <2>1, <2>3 DEF OperationsAreTrue
      <3>2. ~IsAt(p, "start", {1}, i)
        BY <3>1 DEF IsAt, At, Unmade, Makes, Creations
      <3>3. DeviceGoesOn(i) /\ <<"device", i>> \notin clobbered
        BY <1>1, <1>2, <3>2 DEF Kept, Has, Gets
      <3>4. Has(<<"code", i>>) \/ kv[<<"device", i>>].decided
        BY <1>2, <2>3, <3>3 DEF UserCodeWorks, DeviceGoesOn, o
      <3>5. CASE kv[<<"device", i>>].decided
        BY <3>3, <3>5 DEF DeviceGoesOn
      <3>6. CASE Has(<<"code", i>>) /\ ~Gets(<<"code", i>>)
        <4>1. IsAt(p, "redeem", {3}, i) \/ IsAt(p, "purge", {2}, i) \/ IsAt(p, "prune", {3}, i)
          BY <1>1, <3>6 DEF Presence, Vanishes, Has, Gets
        <4>2. ~IsAt(p, "purge", {2}, i)
          BY <1>1, <1>2 DEF CodeIsTrue, IsAt, At
        <4>3. ~Gone(i)
          BY <3>3 DEF Gone, DeviceGoesOn
        <4>4. ~IsAt(p, "prune", {3}, i)
          BY <1>1, <4>3 DEF CodeIsTrue, IsAt
        <4>5. Settled(i)
          BY <1>1, <4>1, <4>2, <4>4 DEF CodeIsTrue, IsAt, At
        <4>6. QED
          BY <3>5, <4>3, <4>5 DEF Settled
      <3>7. QED
        BY <3>4, <3>5, <3>6
    <2>4. QED
      BY <2>2, <2>3
  <1>3. QED
    BY <1>1, <1>2 DEF UserCodeWorks, Has, Gets

-----------------------------------------------------------------------------
(* Reported changes.                                                       *)

\* An operation on i that was reported is either reported by this step, or was
\* when i was there and nobody was making it.
LEMMA ReportedBefore ==
  ASSUME Assumed, NEW p \in Process, run[p] # Idle, Outcome(p), NEW n, NEW i, Op(n, i) \in done'
  PROVE  \/ run[p].op.name = n /\ For(p) = i /\ Proves(p)
         \/ Op(n, i) \in done /\ Unmade(i)
  <1> DEFINE o == Op(n, i)
  <1>1. o.name = n /\ o.id = i
    BY DEF Op
  <1>2. VaultTypes /\ OperationsAreTrue
    BY DEF Assumed
  <1> HIDE DEF o
  <1>3. CASE o \in done
    BY <1>1, <1>2, <1>3 DEF OperationsAreTrue, o
  <1>4. CASE o \notin done
    <2>1. o = run[p].op /\ Proves(p)
      BY <1>2, <1>4, OutcomeIs DEF o
    <2>2. QED
      BY <1>1, <2>1 DEF For
  <1>5. QED
    BY <1>3, <1>4

\* ReportedChangesStay after a call: what is not clobbered goes on as it was.
LEMMA ActsReported ==
  ASSUME Assumed, ReportedChangesStay, NEW p \in Process, run[p] # Idle, Framed, Effects(p), Outcome(p)
  PROVE  ReportedChangesStay'
  <1>1. kind' = kind /\ Kept(p)
    BY DEF Framed, Effects
  <1>2. ASSUME NEW i \in Id(kind), Gets(<<"token", i>>), <<"token", i>> \notin clobbered'
        PROVE  /\ Op("revoke", i) \in done' => kv'[<<"token", i>>].revoked
               /\ Op("repos", i) \in done' => kv'[<<"token", i>>].repos = 1
               /\ Op("scopes", i) \in done' => kv'[<<"token", i>>].scopes = 1
    <2>1. <<"token", i>> \notin clobbered /\ (Unmade(i) => TokenGoesOn(i))
      BY <1>1, <1>2 DEF Kept, Has, Gets, IsAt, At, Unmade, Makes, Creations
    <2>2. ASSUME Op("revoke", i) \in done'
          PROVE  kv'[<<"token", i>>].revoked
      <3>1. CASE run[p].op.name = "revoke" /\ For(p) = i /\ Proves(p)
        BY <3>1 DEF Proves
      <3>2. CASE Op("revoke", i) \in done /\ Unmade(i)
        BY <2>1, <3>2 DEF TokenGoesOn, ReportedChangesStay
      <3>3. QED
        BY <2>2, <3>1, <3>2, ReportedBefore
    <2>3. ASSUME Op("repos", i) \in done'
          PROVE  kv'[<<"token", i>>].repos = 1
      <3>1. CASE run[p].op.name = "repos" /\ For(p) = i /\ Proves(p)
        BY <3>1 DEF Proves
      <3>2. CASE Op("repos", i) \in done /\ Unmade(i)
        BY <2>1, <3>2 DEF TokenGoesOn, ReportedChangesStay
      <3>3. QED
        BY <2>3, <3>1, <3>2, ReportedBefore
    <2>4. ASSUME Op("scopes", i) \in done'
          PROVE  kv'[<<"token", i>>].scopes = 1
      <3>1. CASE run[p].op.name = "scopes" /\ For(p) = i /\ Proves(p)
        BY <3>1 DEF Proves
      <3>2. CASE Op("scopes", i) \in done /\ Unmade(i)
        BY <2>1, <3>2 DEF TokenGoesOn, ReportedChangesStay
      <3>3. QED
        BY <2>4, <3>1, <3>2, ReportedBefore
    <2>5. QED
      BY <2>2, <2>3, <2>4
  <1>3. ASSUME NEW i \in Id(kind), Gets(<<"repo", i>>), <<"repo", i>> \notin clobbered'
        PROVE  /\ Op("enabled", i) \in done' => kv'[<<"repo", i>>].enabled = 1
               /\ Op("limit", i) \in done' => kv'[<<"repo", i>>].limit = 1
    <2>1. <<"repo", i>> \notin clobbered /\ (Unmade(i) => RepoGoesOn(i))
      BY <1>1, <1>3 DEF Kept, Has, Gets, IsAt, At, Unmade, Makes, Creations
    <2>2. ASSUME Op("enabled", i) \in done'
          PROVE  kv'[<<"repo", i>>].enabled = 1
      <3>1. CASE run[p].op.name = "enabled" /\ For(p) = i /\ Proves(p)
        BY <3>1 DEF Proves
      <3>2. CASE Op("enabled", i) \in done /\ Unmade(i)
        BY <2>1, <3>2 DEF RepoGoesOn, ReportedChangesStay
      <3>3. QED
        BY <2>2, <3>1, <3>2, ReportedBefore
    <2>3. ASSUME Op("limit", i) \in done'
          PROVE  kv'[<<"repo", i>>].limit = 1
      <3>1. CASE run[p].op.name = "limit" /\ For(p) = i /\ Proves(p)
        BY <3>1 DEF Proves
      <3>2. CASE Op("limit", i) \in done /\ Unmade(i)
        BY <2>1, <3>2 DEF RepoGoesOn, ReportedChangesStay
      <3>3. QED
        BY <2>3, <3>1, <3>2, ReportedBefore
    <2>4. QED
      BY <2>2, <2>3
  <1>4. QED
    BY <1>1, <1>2, <1>3 DEF ReportedChangesStay, Has, Gets

-----------------------------------------------------------------------------
(* The invariant.                                                          *)

\* It holds at first.
LEMMA VaultInit_Inv == VaultInit => VaultInv
  <1> SUFFICES ASSUME VaultInit PROVE VaultInv
    OBVIOUS
  <1>1. /\ kind \in Kind /\ DOMAIN kv = {} /\ old = {} /\ used = {} /\ done = {} /\ faults = 0
        /\ run = [p \in Process |-> Idle]
    BY DEF VaultInit
  <1>2. \A p \in Process : run[p] = Idle
    BY <1>1
  <1>3. VaultTypes
    BY <1>1, <1>2, VaultAssumption DEF VaultTypes, RunIsTyped
  <1>4. RecordsAreTyped /\ CodesAreMade /\ IndexNamesRecord
    BY <1>1 DEF RecordsAreTyped, CodesAreMade, IndexNamesRecord, Has
  <1>5. OperationsAreTrue
    BY <1>1, <1>2 DEF OperationsAreTrue, Makes
  <1>6. \A p \in Process : CopiesAreTrue(p) /\ IndexIsTrue(p) /\ LateIsFirst(p) /\ CodeIsTrue(p)
    BY <1>2 DEF CopiesAreTrue, IndexIsTrue, LateIsFirst, CodeIsTrue, At
  <1>7. ConsumedIsGone /\ ReportedChangesStay /\ UserCodeWorks
    BY <1>1 DEF ConsumedIsGone, ReportedChangesStay, UserCodeWorks, Has
  <1>8. QED
    BY <1>3, <1>4, <1>5, <1>6, <1>7 DEF VaultInv

\* A step at which no key is written and no operation ends.
Quiet ==
  /\ UNCHANGED <<kind, kv, done, clobbered, faults>>
  /\ old \subseteq old' /\ used \subseteq used'

\* The parts about keys and what is done hold on after a quiet step.
LEMMA QuietKeeps ==
  ASSUME Quiet
  PROVE  /\ RecordsAreTyped => RecordsAreTyped'
         /\ ConsumedIsGone => ConsumedIsGone'
         /\ IndexNamesRecord => IndexNamesRecord'
         /\ ReportedChangesStay => ReportedChangesStay'
         /\ UserCodeWorks => UserCodeWorks'
  <1>1. /\ UNCHANGED <<kind, kv, done, clobbered, faults>> /\ old \subseteq old' /\ used \subseteq used'
        /\ \A k : Gets(k) <=> Has(k)
    BY DEF Quiet, Gets, Has
  <1>2. RecordsAreTyped => RecordsAreTyped'
    BY <1>1 DEF RecordsAreTyped, Has, Gets
  <1>3. ConsumedIsGone => ConsumedIsGone'
    BY <1>1 DEF ConsumedIsGone, Has, Gets
  <1>4. IndexNamesRecord => IndexNamesRecord'
    BY <1>1 DEF IndexNamesRecord, Has, Gets
  <1>5. ReportedChangesStay => ReportedChangesStay'
    BY <1>1 DEF ReportedChangesStay, Has, Gets
  <1>6. UserCodeWorks => UserCodeWorks'
    BY <1>1 DEF UserCodeWorks, Has, Gets
  <1>7. QED
    BY <1>2, <1>3, <1>4, <1>5, <1>6

\* A process that a quiet step leaves alone, or that is idle or begins after it.
LEMMA QuietProcess ==
  ASSUME Quiet, VaultTypes, NEW q \in Process, \A i \in used : Unmade(i) => Unmade(i)',
         run'[q] = run[q] \/ run'[q].at = 1
  PROVE  /\ IndexIsTrue(q) => IndexIsTrue(q)'
         /\ CodeIsTrue(q) => CodeIsTrue(q)'
  <1>1. CASE run'[q].at = 1
    BY <1>1 DEF IndexIsTrue, CodeIsTrue, At
  <1>2. CASE run'[q] = run[q]
    <2>1. /\ \A name, calls : At(q, name, calls)' <=> At(q, name, calls)
          /\ For(q)' = For(q)
      BY <1>2 DEF At, For
    <2>2. UNCHANGED <<kind, kv, done, clobbered, faults>> /\ old \subseteq old'
      BY DEF Quiet
    <2>3. IndexIsTrue(q) => IndexIsTrue(q)'
      BY <2>1, <2>2 DEF IndexIsTrue, Has
    <2>4. At(q, "prune", {2, 3}) /\ Unmade(For(q)) => Unmade(For(q))'
      <3> SUFFICES ASSUME At(q, "prune", {2, 3}), Unmade(For(q)) PROVE Unmade(For(q))'
        OBVIOUS
      <3>1. PICK j \in used : j = For(q)
        BY ForIsUsed DEF At
      <3>2. Unmade(j)'
        BY <3>1
      <3>3. For(q)' = j
        BY <2>1, <3>1
      <3>4. QED
        BY <3>2, <3>3
    <2>5. /\ Settled(For(q)) => Settled(For(q))'
          /\ Gone(For(q)) => Gone(For(q))'
      BY <2>1, <2>2 DEF Settled, Gone, Has
    <2>6. CodeIsTrue(q) => CodeIsTrue(q)'
      BY <2>1, <2>2, <2>4, <2>5 DEF CodeIsTrue
    <2>7. QED
      BY <2>3, <2>6
  <1>3. QED
    BY <1>1, <1>2

\* The invariant after the beginning of an operation.
LEMMA StartsInv ==
  ASSUME VaultInv, NEW p \in Process, Starts(p)
  PROVE  VaultInv'
  <1>1. /\ VaultTypes /\ RecordsAreTyped /\ OperationsAreTrue /\ ConsumedIsGone /\ CodesAreMade
        /\ IndexNamesRecord /\ ReportedChangesStay /\ UserCodeWorks
        /\ \A q \in Process : CopiesAreTrue(q)
        /\ \A q \in Process : IndexIsTrue(q)
        /\ \A q \in Process : LateIsFirst(q)
        /\ \A q \in Process : CodeIsTrue(q)
    BY DEF VaultInv
  <1>2. Quiet
    BY DEF Starts, Quiet
  <1>3. VaultTypes' /\ OperationsAreTrue'
    BY <1>1, StartsTypes, StartsOperations
  <1>4. /\ RecordsAreTyped' /\ ConsumedIsGone' /\ IndexNamesRecord' /\ ReportedChangesStay' /\ UserCodeWorks'
    BY <1>1, <1>2, QuietKeeps
  <1>5. \A q \in Process : CopiesAreTrue(q)'
    BY <1>1, StartsCopies
  <1>6. \A q \in Process : LateIsFirst(q)'
    BY <1>1, StartsLate
  <1>7. \A i \in used : Unmade(i) => Unmade(i)'
    BY <1>1, StartsMake DEF Unmade
  <1>8. ASSUME NEW q \in Process
        PROVE  IndexIsTrue(q)' /\ CodeIsTrue(q)'
    <2>1. run'[q] = run[q] \/ run'[q].at = 1
      BY DEF Starts, Others
    <2>2. QED
      BY <1>1, <1>2, <1>7, <2>1, QuietProcess
  <1>9. CodesAreMade'
    BY <1>1, <1>2, <1>7 DEF CodesAreMade, Quiet, Has
  <1>10. QED
    BY <1>3, <1>4, <1>5, <1>6, <1>8, <1>9 DEF VaultInv

\* The invariant after an identifier has aged, or nothing at all has happened.
LEMMA AgesInv ==
  ASSUME VaultInv, Ages
  PROVE  VaultInv'
  <1>1. /\ VaultTypes /\ RecordsAreTyped /\ OperationsAreTrue /\ ConsumedIsGone /\ CodesAreMade
        /\ IndexNamesRecord /\ ReportedChangesStay /\ UserCodeWorks
        /\ \A q \in Process : CopiesAreTrue(q)
        /\ \A q \in Process : IndexIsTrue(q)
        /\ \A q \in Process : LateIsFirst(q)
        /\ \A q \in Process : CodeIsTrue(q)
    BY DEF VaultInv
  <1>2. Quiet /\ run' = run
    BY DEF Ages, Quiet
  <1>3. VaultTypes' /\ OperationsAreTrue'
    BY <1>1, AgesTypes, AgesOperations
  <1>4. /\ RecordsAreTyped' /\ ConsumedIsGone' /\ IndexNamesRecord' /\ ReportedChangesStay' /\ UserCodeWorks'
    BY <1>1, <1>2, QuietKeeps
  <1>5. ASSUME NEW q \in Process
        PROVE  CopiesAreTrue(q)' /\ LateIsFirst(q)'
    <2>1. run'[q] = run[q] /\ done' = done
      BY <1>2 DEF Quiet
    <2>2. CopiesAreTrue(q)'
      BY <1>1, <2>1 DEF CopiesAreTrue, At, For, CopiedFirst, CopiedLast
    <2>3. LateIsFirst(q)'
      BY <1>1, <2>1 DEF LateIsFirst
    <2>4. QED
      BY <2>2, <2>3
  <1>6. \A i \in used : Unmade(i) => Unmade(i)'
    BY <1>2 DEF Unmade, Makes, For
  <1>7. ASSUME NEW q \in Process
        PROVE  IndexIsTrue(q)' /\ CodeIsTrue(q)'
    BY <1>1, <1>2, <1>6, QuietProcess
  <1>8. CodesAreMade'
    BY <1>1, <1>2, <1>6 DEF CodesAreMade, Quiet, Has
  <1>9. QED
    BY <1>3, <1>4, <1>5, <1>7, <1>8 DEF VaultInv

\* The invariant after a call, a failure or a crash.
LEMMA ActsInv ==
  ASSUME VaultInv, NEW p \in Process, Acts(p)
  PROVE  VaultInv'
  <1>1. /\ VaultTypes /\ RecordsAreTyped /\ OperationsAreTrue /\ ConsumedIsGone /\ CodesAreMade
        /\ IndexNamesRecord /\ ReportedChangesStay /\ UserCodeWorks
        /\ \A q \in Process : CopiesAreTrue(q)
        /\ \A q \in Process : LateIsFirst(q)
        /\ Assumed
    BY DEF VaultInv, Assumed
  <1>2. run[p] # Idle /\ Framed /\ Effects(p) /\ Outcome(p)
    BY <1>1, ActsOutcome
  <1>3. VaultTypes' /\ OperationsAreTrue' /\ RecordsAreTyped'
    BY <1>1, <1>2, ActsTypes, ActsOperations DEF Effects
  <1>4. \A q \in Process : CopiesAreTrue(q)'
    BY <1>1, <1>2, ActsCopies
  <1>5. \A q \in Process : IndexIsTrue(q)'
    BY <1>1, <1>2, ActsIndex
  <1>6. \A q \in Process : LateIsFirst(q)'
    BY <1>1, <1>2, ActsLate
  <1>7. ASSUME NEW q \in Process
        PROVE  CodeIsTrue(q)'
    <2>1. CASE q = p
      BY <1>1, <1>2, <2>1, OwnCode
    <2>2. CASE q # p
      <3>1. run'[q] = run[q]
        BY <1>1, <1>2, <2>2, OutcomeIs
      <3>2. QED
        BY <1>1, <1>2, <3>1, OthersCode
    <2>3. QED
      BY <2>1, <2>2
  <1>8. ConsumedIsGone' /\ CodesAreMade' /\ IndexNamesRecord' /\ ReportedChangesStay' /\ UserCodeWorks'
    BY <1>1, <1>2, ActsConsumed, ActsCodes, ActsIndexNames, ActsReported, ActsUserCode
  <1>9. QED
    BY <1>3, <1>4, <1>5, <1>6, <1>7, <1>8 DEF VaultInv

\* Every step keeps it.
LEMMA VaultStep_Inv == VaultInv /\ [VaultNext]_vaultVars => VaultInv'
  <1> SUFFICES ASSUME VaultInv, [VaultNext]_vaultVars PROVE VaultInv'
    OBVIOUS
  <1>1. VaultTypes /\ OperationsAreTrue
    BY DEF VaultInv
  <1>2. ASSUME NEW p \in Process, Generate(p) \/ Request(p) \/ CleanUp(p)
        PROVE  VaultInv'
    BY <1>1, <1>2, BeginStarts, StartsInv
  <1>3. ASSUME NEW p \in Process, Step(p) \/ Fails(p) \/ Crash(p)
        PROVE  VaultInv'
    BY <1>3, ActsInv DEF Acts
  <1>4. ASSUME NEW i \in used, Age(i)
        PROVE  VaultInv'
    BY <1>1, <1>4, AgeAges, AgesInv
  <1>5. CASE UNCHANGED vaultVars
    <2>1. Ages
      BY <1>1, <1>5 DEF Ages, vaultVars, VaultTypes, OperationsAreTrue
    <2>2. QED
      BY <2>1, AgesInv
  <1>6. QED
    BY <1>2, <1>3, <1>4, <1>5 DEF VaultNext

\* The invariant holds of every behaviour, whatever overlaps, fails or crashes.
THEOREM VaultInvariance == VaultSpec => []VaultInv
  BY VaultInit_Inv, VaultStep_Inv, PTL DEF VaultSpec

\* VaultStore.IndexNamesRecord: no index of tokens or users leads to a record that is
\* not there, and that of cached repositories not as long as no call has failed.
THEOREM IndexNamesRecordAlways == VaultSpec => []IndexNamesRecord
  <1>1. VaultInv => IndexNamesRecord
    BY DEF VaultInv
  <1>2. QED
    BY <1>1, VaultInvariance, PTL

\* VaultStore.ReportedChangesStay: what was reported of a token or a cached repository
\* is only undone by somebody who wrote back an older copy.
THEOREM ReportedChangesStayAlways == VaultSpec => []ReportedChangesStay
  <1>1. VaultInv => ReportedChangesStay
    BY DEF VaultInv
  <1>2. QED
    BY <1>1, VaultInvariance, PTL

\* VaultStore.UserCodeWorks: the user code of an authorization that was handed out
\* leads to its record as long as that waits for a decision.
THEOREM UserCodeWorksAlways == VaultSpec => []UserCodeWorks
  <1>1. VaultInv => UserCodeWorks
    BY DEF VaultInv
  <1>2. QED
    BY <1>1, VaultInvariance, PTL

\* An operation that comes after one that consumed what it looks for, and that does
\* not end by a failure, finds nothing with its first call.
LEMMA LateFindsNothing ==
  ASSUME VaultInv, [VaultNext]_vaultVars, NEW p \in Process,
         run[p] # Idle, run[p].again, run'[p] = Idle
  PROVE  run[p].at = 1 /\ Peek(Key(p)) = Absent
  <1>1. /\ run[p].op.name = "consume" \/ run[p].op.name = "use"
        /\ run[p].at = 1 /\ Ending(run[p].op) \in done
    BY DEF VaultInv, LateIsFirst
  <1>2. VaultTypes /\ ConsumedIsGone /\ For(p) \in Id(kind)
    BY ForIsUsed DEF VaultInv
  <1>3. CASE run[p].op.name = "consume"
    <2>1. Ending(run[p].op) = Op("consume", For(p))
      BY <1>3 DEF Ending, For
    <2>2. ~Has(<<"state", For(p)>>)
      BY <1>1, <1>2, <2>1 DEF ConsumedIsGone
    <2>3. Key(p) = <<"state", For(p)>>
      BY <1>1, <1>3, RowsOfConsumeOAuthState DEF Key, CallIs, For
    <2>4. QED
      BY <1>1, <2>2, <2>3 DEF Peek, Has
  <1>4. CASE run[p].op.name = "use"
    <2>1. Ending(run[p].op) = Op("logout", For(p))
      BY <1>4 DEF Ending, For
    <2>2. ~Has(<<"session", For(p)>>)
      BY <1>1, <1>2, <2>1 DEF ConsumedIsGone
    <2>3. Key(p) = <<"session", For(p)>>
      BY <1>1, <1>4, RowsOfGetSession DEF Key, CallIs, For
    <2>4. QED
      BY <1>1, <2>2, <2>3 DEF Peek, Has
  <1>5. QED
    BY <1>1, <1>3, <1>4

\* VaultStore.ConsumedOnce: a state is not consumed, nor a session used, by somebody
\* who came after it was consumed or logged out.
THEOREM ConsumedOnceAlways == VaultSpec => ConsumedOnce
  <1> DEFINE Once ==
        \A p \in Process :
          run[p] # Idle /\ run[p].again /\ run'[p] = Idle /\ faults' = faults
            => run[p].at = 1 /\ Peek(Key(p)) = Absent
  <1>1. VaultInv /\ [VaultNext]_vaultVars => [Once]_vaultVars
    BY LateFindsNothing
  <1>2. QED
    BY <1>1, VaultInvariance, PTL DEF VaultSpec, ConsumedOnce
-----------------------------------------------------------------------------
(* Type correctness: the keys are those the operations name.               *)

\* The keys of one identifier.
KeysOf(i) ==
  {<<"token", i>>, <<"by-hash", i>>, <<"by-user", i>>, <<"state", i>>, <<"device", i>>,
   <<"code", i>>, <<"user", i>>, <<"session", i>>, <<"repo", i>>}
KeysAreKnown ==
  \A k \in DOMAIN kv :
    k = <<"by-github-id">> \/ k = <<"by-name">> \/ (\E i \in Id(kind) : k \in KeysOf(i))

\* A call writes a key of its operation.
LEMMA StepKeys ==
  ASSUME VaultTypes, KeysAreKnown, NEW p \in Process, Step(p)
  PROVE  KeysAreKnown'
  <1>1. kind' = kind
    BY DEF Step, Reads, Puts, Creates, Drops
  <1>2. CASE Reads(p)
    BY <1>1, <1>2 DEF Reads, KeysAreKnown
  <1>3. CASE Drops(p)
    <2>1. DOMAIN kv' \subseteq DOMAIN kv
      BY <1>3 DEF Drops
    <2>2. QED
      BY <1>1, <2>1 DEF KeysAreKnown
  <1>4. CASE Puts(p) \/ Creates(p)
    <2>1. /\ DOMAIN kv' = DOMAIN kv \cup {Key(p)}
          /\ Calls(p, {"put"}) \/ Calls(p, {"create"})
          /\ run[p] # Idle
      BY <1>4 DEF Puts, Creates, Write, With, Calls
    <2>2. For(p) \in Id(kind)
      BY <2>1, ForIsUsed
    <2>3. Key(p) = <<"by-github-id">> \/ Key(p) = <<"by-name">> \/ Key(p) \in KeysOf(For(p))
      BY <2>1, PutsOf, CreatesOf DEF PutsAt, CreatesAt, KeysOf
    <2>4. QED
      BY <1>1, <2>1, <2>2, <2>3 DEF KeysAreKnown
  <1>5. QED
    BY <1>2, <1>3, <1>4 DEF Step

\* Every step keeps the keys known.
LEMMA KeysStep ==
  ASSUME VaultInv, KeysAreKnown, [VaultNext]_vaultVars
  PROVE  KeysAreKnown'
  <1>1. VaultTypes /\ OperationsAreTrue
    BY DEF VaultInv
  <1>2. CASE \E p \in Process : Step(p)
    BY <1>1, <1>2, StepKeys
  <1>3. CASE kind' = kind /\ kv' = kv
    BY <1>3 DEF KeysAreKnown
  <1>4. CASE \E p \in Process : Generate(p) \/ Request(p) \/ CleanUp(p)
    BY <1>3, <1>4 DEF Generate, Request, CleanUp, Begin
  <1>5. CASE \E p \in Process : Fails(p)
    <2>1. PICK p \in Process : Fails(p)
      BY <1>5
    <2>2. kv' = kv /\ kind' = kind
      BY <2>1 DEF Fails, GiveUp
    <2>3. QED
      BY <1>3, <2>2
  <1>6. QED
    BY <1>2, <1>3, <1>4, <1>5 DEF VaultNext, vaultVars, Crash, Age

\* Known keys hold records of their kind.
LEMMA KeysTypes ==
  ASSUME VaultInv, KeysAreKnown
  PROVE  VaultTypeOK
  <1>1. VaultTypes /\ RecordsAreTyped
    BY DEF VaultInv
  <1>2. ASSUME NEW k \in DOMAIN kv
        PROVE  /\ k[1] = "token" => \E i \in Id(kind) : k = <<"token", i>>
               /\ k[1] = "device" => \E i \in Id(kind) : k = <<"device", i>>
               /\ k[1] = "repo" => \E i \in Id(kind) : k = <<"repo", i>>
    BY <1>2 DEF KeysAreKnown, KeysOf
  <1>3. /\ \A k \in DOMAIN kv : k[1] = "token" => kv[k] \in TokenRecord
        /\ \A k \in DOMAIN kv : k[1] = "device" => kv[k] \in DeviceRecord
        /\ \A k \in DOMAIN kv : k[1] = "repo" => kv[k] \in RepoRecord
    BY <1>1, <1>2 DEF RecordsAreTyped, Has
  <1>4. QED
    BY <1>1, <1>3 DEF VaultTypeOK, VaultTypes, RunIsTyped, TokenRecord, DeviceRecord, RepoRecord

\* Type correctness of VaultStore: every record has its fields, and every operation is
\* at one of its calls.
THEOREM VaultTypeCorrectness == VaultSpec => []VaultTypeOK
  <1>1. VaultInit => KeysAreKnown
    BY DEF VaultInit, KeysAreKnown
  <1>2. VaultInv /\ KeysAreKnown /\ [VaultNext]_vaultVars => KeysAreKnown'
    BY KeysStep
  <1>3. VaultInv /\ KeysAreKnown => VaultTypeOK
    BY KeysTypes
  <1>4. QED
    BY <1>1, <1>2, <1>3, VaultInvariance, PTL DEF VaultSpec

==============================================================================
