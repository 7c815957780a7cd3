------------------------- MODULE GatewaySyncProofs --------------------------
(***************************************************************************)
(* That a Gateway's data planes are told and report the truth, for any     *)
(* number of data planes, revisions, recreations, failovers and failures.  *)
(***************************************************************************)
EXTENDS GatewaySync, TLAPS

Version0 == Versions \cup {None}
Poll0 == [st : PollSt, have : Version0, report : Reports,
          receiver : {"none", "open", "closed"}, last : Version0, answer : Answers]
Loop0 == [st : {"running", "leaving", "left", "stopped"}, current : Version0,
          have : Version0, refused : Version0, report : Reports]

Left0 == [edits : Nat, creations : Nat, classes : Nat, failovers : Nat, moves : Nat,
          failures : Nat, restarts : Nat, stops : Nat]

\* What is left of the outside events bounds how often a report moved, and
\* only a data plane with a report has one to leave with.
Budget ==
    /\ left \in Left0
    /\ \A d \in DataPlane :
          /\ dp[d].report.epoch + left.moves <= MaxMoves
          /\ dp[d].st = "leaving" => dp[d].report # NoReport
    /\ pass.st # "idle" => pass.gateway \in Versions

\* As long as the Gateway was never deleted nor another's: it is the first
\* of its name wherever it is known, a store filled once holds it, no pass
\* and no forget is about to drop it, and no handler has seen its slot dropped.
Present ==
    /\ cluster # None /\ Uid(cluster) = 1 /\ owner # "Other"
    /\ store # None => Uid(store) = 1
    /\ stored => store # None
    /\ ~stored => store = None
    /\ pass.st # "idle" => pass.st \in {"translate", "check"} /\ Uid(pass.gateway) = 1 /\ stored
    /\ forget.pending => stored
    /\ forget.st = "read" => forget.live
    /\ \A d \in DataPlane, i \in Request :
          /\ polls[d][i].receiver # "closed" /\ polls[d][i].st # "undo"
          /\ polls[d][i].st \in {"admit", "recheck", "held"} => stored

Undeparted == ~departed => Present

\* A forget that read the Gateway as live lost it to a deletion only if it
\* is woken again.
ForgetInv ==
    forget.st = "read" /\ forget.live => store # None \/ forget.pending

\* What a data plane has is what it serves unless it refused it; the poll it
\* awaits carries that, and so does the confirmation of it.
Awaiting ==
    \A d \in DataPlane :
        /\ dp[d].refused = None => dp[d].current = dp[d].have
        /\ awaited[d] # 0 =>
              /\ polls[d][awaited[d]].st \notin {"none", "answered"} =>
                    polls[d][awaited[d]].have = dp[d].have
              /\ polls[d][awaited[d]].answer.kind = "unchanged" =>
                    polls[d][awaited[d]].answer.version = dp[d].have

\* No version that cannot be decoded is served, and no report claims one:
\* where it is made, on its way and in the store.  A snapshot has a version.
Honest(report) == Revision(report.applied) \in Unusable => report.refused
Honesty ==
    /\ \A d \in DataPlane : Revision(dp[d].current) \notin Unusable /\ Honest(dp[d].report)
    /\ \A d \in DataPlane, i \in Request :
          /\ Honest(polls[d][i].report)
          /\ polls[d][i].answer.kind = "snapshot" => polls[d][i].answer.version # None
    /\ \A d \in DataPlane : Honest(reports[d])

IInv == TypeOK /\ Budget /\ Undeparted /\ ForgetInv /\ NoOrphanSlot /\ Awaiting /\ Honesty
-----------------------------------------------------------------------------
\* TypeOK, one variable at a time.
Types ==
    /\ cluster \in Version0 /\ store \in Version0 /\ uids \in 1 .. MaxUid
    /\ owner \in {"Ours", "Other", "Missing"}
    /\ leading \in BOOLEAN /\ synced \in BOOLEAN /\ stored \in BOOLEAN /\ queued \in BOOLEAN
    /\ requeue \in BOOLEAN /\ departed \in BOOLEAN
    /\ slot \in [there : BOOLEAN, value : Version0] /\ (~slot.there => slot = NoSlot)
    /\ pass \in [st : {"idle", "disown", "translate", "check", "remove"}, gateway : Version0]
    /\ forget \in [pending : BOOLEAN, st : {"idle", "read"}, live : BOOLEAN]
    /\ reports \in [DataPlane -> Reports]
    /\ polls \in [DataPlane -> [Request -> Poll0]]
    /\ awaited \in [DataPlane -> Request \cup {0}]
    /\ dp \in [DataPlane -> Loop0]

\* A receiver is open while its handler shares the slot, and gone after it.
Receivers ==
    \A d \in DataPlane, i \in Request :
        /\ polls[d][i].receiver = "open" => slot.there
        /\ polls[d][i].receiver # "none" <=> polls[d][i].st \in {"recheck", "undo", "held"}

LEMMA TypeParts == TypeOK <=> Types /\ Receivers
BY DEF TypeOK, Types, Receivers, Version0, Poll0, Loop0

LEMMA TypePartsNext == TypeOK' <=> Types' /\ Receivers'
BY DEF TypeOK, Types, Receivers, Version0, Poll0, Loop0

LEMMA VersionFacts ==
    /\ None \notin Versions /\ None \in Version0 /\ Versions \subseteq Version0
    /\ Uid(None) = 0 /\ Revision(None) = 0
    /\ \A v \in Versions : Uid(v) \in 1 .. MaxUid /\ Revision(v) \in 1 .. MaxRevision
    /\ \A u \in 1 .. MaxUid, r \in 1 .. MaxRevision :
          <<u, r>> \in Versions /\ Uid(<<u, r>>) = u /\ Revision(<<u, r>>) = r
BY BoundsAssumption DEF None, Versions, Version0, Uid, Revision

LEMMA Constants ==
    /\ NoReport \in Reports /\ NoAnswer \in Answers /\ NoPoll \in Poll0 /\ Fresh \in Loop0
    /\ NoPoll.st = "none" /\ NoPoll.receiver = "none" /\ NoPoll.answer.kind = "none"
    /\ NoPoll.report = NoReport
BY VersionFacts, BoundsAssumption DEF NoReport, Reports, NoAnswer, Answers, Answer, NoPoll, Poll0, Fresh, Loop0, PollSt

LEMMA InitInv == Init => IInv
<1> SUFFICES ASSUME Init PROVE IInv
    OBVIOUS
<1>1. Types
  <2>1. 1 \in 1 .. MaxUid /\ 1 \in 1 .. MaxRevision
      BY BoundsAssumption
  <2>2. <<1, 1>> \in Version0
      BY <2>1, VersionFacts
  <2> QED
      BY <2>1, <2>2, VersionFacts, Constants DEF Init, Types, NoSlot, IdlePass, IdleForget
<1>2. Receivers
    BY Constants DEF Init, Receivers
<1>3. Budget
    BY BoundsAssumption DEF Init, Budget, Fresh, NoReport, IdlePass, Left0
<1>4. Undeparted /\ ForgetInv /\ NoOrphanSlot
    BY VersionFacts, Constants DEF Init, Undeparted, Present, ForgetInv, NoOrphanSlot, None, Uid, IdlePass, IdleForget, NoSlot
<1>5. Awaiting /\ Honesty
    BY VersionFacts, Constants, BoundsAssumption DEF Init, Awaiting, Honesty, Honest, Fresh, NoReport
<1> QED  BY <1>1, <1>2, <1>3, <1>4, <1>5, TypeParts DEF IInv
-----------------------------------------------------------------------------
(* Requests: what a step makes of one, and that the others stay.            *)

\* One request becomes q.
Put(d, i, q) == polls' = [polls EXCEPT ![d][i] = q]

LEMMA PutKeeps ==
    ASSUME Types, NEW d \in DataPlane, NEW i \in Request, NEW q \in Poll0, Put(d, i, q)
    PROVE  /\ polls' \in [DataPlane -> [Request -> Poll0]]
           /\ polls'[d][i] = q
           /\ \A e \in DataPlane, j \in Request : e # d \/ j # i => polls'[e][j] = polls[e][j]
BY DEF Types, Put

\* The answer to a request, if anyone waits for it.
Reply(d, i, answer) ==
    IF awaited[d] = i THEN [NoPoll EXCEPT !.st = "answered", !.answer = answer] ELSE NoPoll

LEMMA ReplyFacts ==
    ASSUME NEW d, NEW i, NEW answer \in Answers
    PROVE  LET q == Reply(d, i, answer) IN
           /\ q \in Poll0 /\ q.receiver = "none" /\ q.report = NoReport
           /\ q.st \in {"none", "answered"} /\ q.answer \in {NoAnswer, answer}
BY Constants DEF Reply, NoPoll, Poll0, PollSt

LEMMA AnswerFacts ==
    ASSUME NEW v \in Version0,
           NEW kind \in {"snapshot", "unchanged", "pending", "left", "gone", "standby", "failed"}
    PROVE  Answer(kind, v) \in Answers /\ Answer(kind, v).kind = kind /\ Answer(kind, v).version = v
BY DEF Answer, Answers, Version0

\* What each step of a handler makes of its request.
LEMMA ServerPuts ==
    ASSUME Types, NEW d \in DataPlane, NEW i \in Request
    PROVE  LET p == polls[d][i] IN
           /\ CheckServed(d, i) =>
                Put(d, i, IF Serves THEN [p EXCEPT !.st = "admit"] ELSE Reply(d, i, Answer("gone", None)))
           /\ Admit(d, i) =>
                Put(d, i, IF p.report.leaving THEN Reply(d, i, Answer("left", None))
                          ELSE [p EXCEPT !.st = "recheck", !.receiver = "open"])
           /\ Recheck(d, i) => Put(d, i, [p EXCEPT !.st = IF Serves THEN "held" ELSE "undo"])
           /\ Serve(d, i) => Put(d, i, Reply(d, i, Answer("snapshot", Value(d, i))))
           /\ Closed(d, i) => Put(d, i, Reply(d, i, Answer("gone", None)))
           /\ Expire(d, i) => Put(d, i, Reply(d, i, Held(Value(d, i), p.have)))
           /\ Hangup(d, i) => Put(d, i, NoPoll)
<1> DEFINE p == polls[d][i]
<1> USE DEF Put
<1>1. \A answer : Replied(polls, d, i, answer) = [polls EXCEPT ![d][i] = Reply(d, i, answer)]
    BY DEF Replied, Reply
<1>2. \A st : [polls EXCEPT ![d][i].st = st] = [polls EXCEPT ![d][i] = [p EXCEPT !.st = st]]
    BY DEF Types
<1>3. CheckServed(d, i) =>
        Put(d, i, IF Serves THEN [p EXCEPT !.st = "admit"] ELSE Reply(d, i, Answer("gone", None)))
    BY <1>1, <1>2 DEF CheckServed, Proceed
<1>4. Admit(d, i) => Put(d, i, IF p.report.leaving THEN Reply(d, i, Answer("left", None))
                               ELSE [p EXCEPT !.st = "recheck", !.receiver = "open"])
  <2>1. [polls EXCEPT ![d][i].st = "recheck", ![d][i].receiver = "open"]
          = [polls EXCEPT ![d][i] = [p EXCEPT !.st = "recheck", !.receiver = "open"]]
      BY DEF Types, Poll0
  <2> QED  BY <1>1, <2>1 DEF Admit
<1>5. Recheck(d, i) => Put(d, i, [p EXCEPT !.st = IF Serves THEN "held" ELSE "undo"])
    BY <1>2 DEF Recheck, Proceed
<1>6. Serve(d, i) => Put(d, i, Reply(d, i, Answer("snapshot", Value(d, i))))
    BY <1>1 DEF Serve
<1>7. Closed(d, i) => Put(d, i, Reply(d, i, Answer("gone", None)))
    BY <1>1 DEF Closed
<1>8. Expire(d, i) => Put(d, i, Reply(d, i, Held(Value(d, i), p.have)))
    BY <1>1 DEF Expire
<1>9. Hangup(d, i) => Put(d, i, NoPoll)
    BY DEF Hangup
<1> QED  BY <1>3, <1>4, <1>5, <1>6, <1>7, <1>8, <1>9

\* What the invariant asks of a request q in the place of request i of d.
Fits(d, i, q) ==
    /\ q \in Poll0
    /\ q.receiver = "open" => slot'.there
    /\ q.receiver # "none" <=> q.st \in {"recheck", "undo", "held"}
    /\ ~departed =>
          /\ q.receiver # "closed" /\ q.st # "undo"
          /\ q.st \in {"admit", "recheck", "held"} => stored
    /\ polls[d][i].st \in {"recheck", "undo"} /\ q.st \notin {"recheck", "undo"} => store # None
    /\ Honest(q.report) /\ (q.answer.kind = "snapshot" => q.answer.version # None)
    /\ awaited[d] = i =>
          /\ q.st \notin {"none", "answered"} => q.have = dp[d].have
          /\ q.answer.kind = "unchanged" => q.answer.version = dp[d].have

LEMMA FittingPut ==
    ASSUME IInv, NEW d \in DataPlane, NEW i \in Request, NEW q, Fits(d, i, q), Put(d, i, q),
           UNCHANGED <<world, left, view, requeue, pass, forget, client>>,
           queued' \in BOOLEAN,
           reports' \in [DataPlane -> Reports], \A e \in DataPlane : Honest(reports'[e]),
           slot' = slot \/ (slot' = [slot EXCEPT !.there = TRUE] /\ q.st = "recheck")
    PROVE  IInv'
<1> USE DEF world, view, client
<1>1. Types /\ Receivers
    BY TypeParts DEF IInv
<1>2. /\ polls' \in [DataPlane -> [Request -> Poll0]]
      /\ polls'[d][i] = q
      /\ \A e \in DataPlane, j \in Request : e # d \/ j # i => polls'[e][j] = polls[e][j]
    BY <1>1, PutKeeps DEF Fits
<1>4. /\ slot' \in [there : BOOLEAN, value : Version0] /\ (~slot'.there => slot' = NoSlot)
      /\ slot.there => slot'.there
    BY <1>1 DEF Types
<1>3. Types'
    BY <1>1, <1>2, <1>4 DEF Types
<1>5. Receivers'
    BY <1>1, <1>2, <1>4 DEF Receivers, Fits
<1>6. Budget' /\ ForgetInv'
    BY DEF IInv, Budget, ForgetInv
<1>7. Undeparted'
    BY <1>2 DEF IInv, Undeparted, Present, Fits
<1>8. NoOrphanSlot'
    BY <1>2 DEF IInv, NoOrphanSlot, Fits
<1>9. Awaiting'
  <2>1. UNCHANGED <<awaited, dp>>
      OBVIOUS
  <2>2. \A e \in DataPlane : awaited[e] = 0 \/ awaited[e] \in Request
      BY <1>1 DEF Types
  <2>3. ASSUME NEW e \in DataPlane, awaited[e] # 0
        PROVE  /\ polls'[e][awaited[e]].st \notin {"none", "answered"} =>
                     polls'[e][awaited[e]].have = dp[e].have
               /\ polls'[e][awaited[e]].answer.kind = "unchanged" =>
                     polls'[e][awaited[e]].answer.version = dp[e].have
    <3>1. CASE e = d /\ awaited[e] = i
        BY <1>2, <3>1 DEF Fits
    <3>2. CASE ~(e = d /\ awaited[e] = i)
        BY <1>2, <2>2, <2>3, <3>2 DEF IInv, Awaiting
    <3> QED  BY <3>1, <3>2
  <2> QED  BY <2>1, <2>3 DEF IInv, Awaiting
<1>10. Honesty'
    BY <1>2 DEF IInv, Honesty, Fits
<1> QED  BY <1>3, <1>5, <1>6, <1>7, <1>8, <1>9, <1>10, TypePartsNext DEF IInv

LEMMA HandlerKeeps ==
    ASSUME IInv, NEW d \in DataPlane, NEW i \in Request,
           \/ CheckServed(d, i) \/ Admit(d, i) \/ Recheck(d, i) \/ Serve(d, i)
           \/ Closed(d, i) \/ Expire(d, i) \/ Hangup(d, i)
    PROVE  IInv'
<1> DEFINE p == polls[d][i]
<1>1. Types /\ Receivers /\ p \in Poll0
    BY TypeParts DEF IInv, Types
<1>2. \A e \in DataPlane : Honest(reports[e]) /\ Honest(NoReport)
    BY VersionFacts, BoundsAssumption DEF IInv, Honesty, Honest, NoReport
<1>3. Honest(NoReport) /\ Honest(p.report) /\ (p.answer.kind = "snapshot" => p.answer.version # None)
    BY VersionFacts, BoundsAssumption DEF IInv, Honesty, Honest, NoReport
<1>4. /\ p.receiver = "open" => slot.there
      /\ p.receiver # "none" <=> p.st \in {"recheck", "undo", "held"}
    BY <1>1 DEF Receivers
<1>5. ~departed =>
        /\ p.receiver # "closed" /\ p.st # "undo"
        /\ p.st \in {"admit", "recheck", "held"} => stored
        /\ stored <=> Serves
    BY DEF IInv, Undeparted, Present, Serves
<1>6. awaited[d] = i =>
        /\ p.st \notin {"none", "answered"} => p.have = dp[d].have
        /\ p.answer.kind = "unchanged" => p.answer.version = dp[d].have
    BY DEF IInv, Awaiting, Request
<1>7. Value(d, i) \in Version0 /\ None \in Version0
    BY <1>1, VersionFacts DEF Value, Poll0, Types
<1>8. ASSUME NEW answer \in Answers, slot' = slot, p.st \notin {"recheck", "undo"},
             answer.kind = "snapshot" => answer.version # None,
             answer.kind = "unchanged" /\ awaited[d] = i => answer.version = dp[d].have
      PROVE  Fits(d, i, Reply(d, i, answer))
    BY <1>3, <1>8, ReplyFacts DEF Fits, NoAnswer, Answer
<1>10. CASE CheckServed(d, i)
  <2> DEFINE q == IF Serves THEN [p EXCEPT !.st = "admit"] ELSE Reply(d, i, Answer("gone", None))
  <2>1. Fits(d, i, q)
    <3>1. CASE Serves
        BY <1>1, <1>3, <1>4, <1>5, <1>6, <1>10, <3>1 DEF Fits, CheckServed, Poll0, PollSt, hub
    <3>2. CASE ~Serves
        BY <1>5, <1>7, <1>8, <1>10, <3>2, AnswerFacts DEF CheckServed, hub
    <3> QED  BY <3>1, <3>2
  <2> QED
      BY <1>1, <1>2, <1>10, <2>1, FittingPut, ServerPuts DEF CheckServed, work, hub, Types
<1>11. CASE Admit(d, i)
  <2> DEFINE q == IF p.report.leaving THEN Reply(d, i, Answer("left", None))
                  ELSE [p EXCEPT !.st = "recheck", !.receiver = "open"]
  <2>1. Fits(d, i, q)
    <3>1. CASE ~p.report.leaving
      <4>1. slot'.there
          BY <1>1, <1>11, <3>1 DEF Admit, Types
      <4> QED
        BY <1>1, <1>3, <1>4, <1>5, <1>6, <1>11, <3>1, <4>1 DEF Fits, Admit, Poll0, PollSt
    <3>2. CASE p.report.leaving
        BY <1>5, <1>7, <1>8, <1>11, <3>2, AnswerFacts DEF Admit
    <3> QED  BY <3>1, <3>2
  <2>2. q.st = "recheck" \/ slot' = slot
      BY <1>1, <1>11 DEF Admit, Poll0
  <2>3. /\ reports' \in [DataPlane -> Reports]
        /\ \A e \in DataPlane : Honest(reports'[e])
        /\ queued' \in BOOLEAN
      BY <1>1, <1>2, <1>3, <1>11 DEF Admit, Types, Poll0
  <2> QED
      BY <1>1, <1>11, <2>1, <2>2, <2>3, FittingPut, ServerPuts DEF Admit, world, view, client
<1>12. CASE Recheck(d, i)
  <2>1. Fits(d, i, [p EXCEPT !.st = IF Serves THEN "held" ELSE "undo"])
      BY <1>1, <1>3, <1>4, <1>5, <1>6, <1>12 DEF Fits, Recheck, Poll0, PollSt, Serves, hub
  <2> QED
      BY <1>1, <1>2, <1>12, <2>1, FittingPut, ServerPuts DEF Recheck, work, hub, Types
<1>13. CASE Serve(d, i)
  <2>1. Fits(d, i, Reply(d, i, Answer("snapshot", Value(d, i))))
      BY <1>7, <1>8, <1>13, AnswerFacts DEF Serve, hub
  <2> QED
      BY <1>1, <1>2, <1>13, <2>1, FittingPut, ServerPuts DEF Serve, work, hub, Types
<1>14. CASE Closed(d, i)
  <2>1. Fits(d, i, Reply(d, i, Answer("gone", None)))
      BY <1>5, <1>7, <1>8, <1>14, AnswerFacts DEF Closed, hub
  <2> QED
      BY <1>1, <1>2, <1>14, <2>1, FittingPut, ServerPuts DEF Closed, work, hub, Types
<1>15. CASE Expire(d, i)
  <2>1. LET a == Held(Value(d, i), p.have) IN
        /\ a \in Answers /\ a.kind # "gone" /\ (a.kind = "snapshot" => a.version # None)
        /\ a.kind = "unchanged" => a.version = p.have
      BY <1>7, AnswerFacts DEF Held
  <2>2. Fits(d, i, Reply(d, i, Held(Value(d, i), p.have)))
      BY <1>6, <1>8, <1>15, <2>1 DEF Expire, hub
  <2> QED
      BY <1>1, <1>2, <1>15, <2>2, FittingPut, ServerPuts DEF Expire, work, hub, Types
<1>16. CASE Hangup(d, i)
  <2>1. Fits(d, i, NoPoll)
      BY <1>3, <1>16, Constants DEF Fits, Hangup, hub
  <2> QED
      BY <1>1, <1>2, <1>16, <2>1, FittingPut, ServerPuts DEF Hangup, work, hub, Types
<1> QED  BY <1>10, <1>11, <1>12, <1>13, <1>14, <1>15, <1>16

-----------------------------------------------------------------------------
(* The slot is dropped.                                                     *)

LEMMA ClosingFacts ==
    ASSUME Types
    PROVE  /\ Closing(polls) \in [DataPlane -> [Request -> Poll0]]
           /\ \A d \in DataPlane, i \in Request :
                LET p == polls[d][i]
                    q == Closing(polls)[d][i]
                IN  /\ q.st = p.st /\ q.have = p.have /\ q.report = p.report /\ q.answer = p.answer
                    /\ q.receiver # "open" /\ (q.receiver = "none" <=> p.receiver = "none")
<1>1. slot.value \in Version0
    BY DEF Types
<1>2. ASSUME NEW d \in DataPlane, NEW i \in Request
      PROVE  LET p == polls[d][i]
                 q == Closing(polls)[d][i]
             IN  /\ q \in Poll0
                 /\ q.st = p.st /\ q.have = p.have /\ q.report = p.report /\ q.answer = p.answer
                 /\ q.receiver # "open" /\ (q.receiver = "none" <=> p.receiver = "none")
  <2> DEFINE p == polls[d][i]
             q == Closing(polls)[d][i]
  <2>1. p \in Poll0
      BY DEF Types
  <2>2. q = IF p.receiver = "open" THEN [p EXCEPT !.receiver = "closed", !.last = slot.value] ELSE p
      BY DEF Closing
  <2>3. CASE p.receiver = "open"
      BY <1>1, <2>1, <2>2, <2>3 DEF Poll0
  <2>4. CASE p.receiver # "open"
      BY <2>1, <2>2, <2>4
  <2> QED  BY <2>3, <2>4
<1>3. Closing(polls) \in [DataPlane -> [Request -> Poll0]]
    BY <1>2 DEF Closing
<1> QED  BY <1>2, <1>3

\* The slot goes, its receivers close, and a request may be answered.
LEMMA SlotDropped ==
    ASSUME IInv, departed, slot' = NoSlot, UNCHANGED <<world, left, view, client>>,
           queued' \in BOOLEAN, requeue' \in BOOLEAN,
           pass' = pass \/ pass' = IdlePass,
           forget' = forget \/ forget' = [forget EXCEPT !.st = "idle", !.live = FALSE],
           reports' = reports \/ reports' = [d \in DataPlane |-> NoReport],
           polls' \in [DataPlane -> [Request -> Poll0]],
           \A d \in DataPlane, i \in Request :
              LET q == polls'[d][i] IN
              /\ q.receiver # "open"
              /\ q.receiver # "none" <=> q.st \in {"recheck", "undo", "held"}
              /\ q.report \in {NoReport, polls[d][i].report}
              /\ q.answer.kind = "snapshot" => q.answer.version # None
              /\ awaited[d] = i =>
                    /\ q.st \notin {"none", "answered"} => q.have = dp[d].have
                    /\ q.answer.kind = "unchanged" => q.answer.version = dp[d].have
    PROVE  IInv'
<1> USE DEF world, view, client
<1>1. Types /\ Receivers
    BY TypeParts DEF IInv
<1>2. Types'
  <2>1. pass' \in [st : {"idle", "disown", "translate", "check", "remove"}, gateway : Version0]
      BY <1>1, VersionFacts DEF Types, IdlePass
  <2>2. forget' \in [pending : BOOLEAN, st : {"idle", "read"}, live : BOOLEAN]
      BY <1>1 DEF Types
  <2>3. slot' \in [there : BOOLEAN, value : Version0]
      BY VersionFacts DEF NoSlot
  <2>4. reports' \in [DataPlane -> Reports]
      BY <1>1, Constants DEF Types
  <2> QED  BY <1>1, <2>1, <2>2, <2>3, <2>4 DEF Types
<1>3. Receivers'
    BY DEF Receivers
<1>4. Budget' /\ ForgetInv' /\ Undeparted' /\ NoOrphanSlot'
  <2>1. Budget'
      BY DEF IInv, Budget, IdlePass
  <2>2. ForgetInv'
      BY <1>1 DEF IInv, ForgetInv, Types
  <2>3. Undeparted' /\ NoOrphanSlot'
      BY DEF Undeparted, NoOrphanSlot, NoSlot
  <2> QED  BY <2>1, <2>2, <2>3
<1>5. Awaiting'
    BY <1>1 DEF IInv, Awaiting, Types
<1>6. Honesty'
  <2>1. Honest(NoReport)
      BY VersionFacts, BoundsAssumption DEF Honest, NoReport
  <2> QED  BY <2>1 DEF IInv, Honesty
<1> QED  BY <1>2, <1>3, <1>4, <1>5, <1>6, TypePartsNext DEF IInv

\* The steps that drop the slot: only after the Gateway departed.
LEMMA DropKeeps ==
    ASSUME IInv,
           \/ PassDisown \/ PassRemove \/ ForgetRetain
           \/ \E d \in DataPlane, i \in Request : Undo(d, i)
    PROVE  IInv'
<1> USE DEF world, view, client, work, hub
<1>1. Types /\ Receivers
    BY TypeParts DEF IInv
<1>2. ASSUME HubRemove
      PROVE  /\ slot' = NoSlot /\ polls' \in [DataPlane -> [Request -> Poll0]]
             /\ \A d \in DataPlane, i \in Request :
                  LET q == polls'[d][i] IN
                  /\ q.receiver # "open"
                  /\ q.receiver # "none" <=> q.st \in {"recheck", "undo", "held"}
                  /\ q.report \in {NoReport, polls[d][i].report}
                  /\ q.answer.kind = "snapshot" => q.answer.version # None
                  /\ awaited[d] = i =>
                        /\ q.st \notin {"none", "answered"} => q.have = dp[d].have
                        /\ q.answer.kind = "unchanged" => q.answer.version = dp[d].have
    BY <1>1, <1>2, ClosingFacts DEF HubRemove, Receivers, IInv, Awaiting, Honesty, Request
<1>3. CASE PassDisown
  <2>1. departed
      BY <1>3 DEF PassDisown, IInv, Undeparted, Present
  <2> QED  BY <1>1, <1>2, <1>3, <2>1, SlotDropped DEF PassDisown, Types
<1>4. CASE PassRemove
  <2>1. departed
      BY <1>4 DEF PassRemove, IInv, Undeparted, Present
  <2> QED  BY <1>1, <1>2, <1>4, <2>1, SlotDropped DEF PassRemove, Types
<1>5. CASE ForgetRetain /\ ~forget.live
  <2>1. departed
      BY <1>5 DEF ForgetRetain, IInv, Undeparted, Present
  <2> QED  BY <1>1, <1>2, <1>5, <2>1, SlotDropped DEF ForgetRetain, Types
<1>6. CASE ForgetRetain /\ forget.live
  <2>1. /\ UNCHANGED <<cluster, uids, departed, left, store, owner, leading, synced, stored>>
        /\ UNCHANGED <<queued, requeue, pass, slot, reports, polls, awaited, dp>>
      BY <1>6 DEF ForgetRetain, world, view, hub, client
  <2>2. forget' = [forget EXCEPT !.st = "idle", !.live = FALSE] /\ forget.st = "read"
      BY <1>6 DEF ForgetRetain
  <2>3. Types' /\ Receivers'
    <3>1. forget' \in [pending : BOOLEAN, st : {"idle", "read"}, live : BOOLEAN]
        BY <1>1, <2>2 DEF Types
    <3> QED  BY <1>1, <2>1, <3>1 DEF Types, Receivers
  <2>4. Budget' /\ NoOrphanSlot'
    <3>1. Budget'
        BY <2>1 DEF IInv, Budget
    <3>2. store # None \/ forget'.pending
        BY <1>1, <1>6, <2>2 DEF IInv, ForgetInv, Types
    <3> QED  BY <2>1, <3>1, <3>2 DEF NoOrphanSlot
  <2>5. ForgetInv'
      BY <1>1, <2>1, <2>2 DEF IInv, ForgetInv, Types
  <2>6. Undeparted'
      BY <1>1, <2>1, <2>2 DEF IInv, Undeparted, Present, Types
  <2>7. Awaiting' /\ Honesty'
      BY <2>1 DEF IInv, Awaiting, Honesty
  <2> QED  BY <2>3, <2>4, <2>5, <2>6, <2>7, TypePartsNext DEF IInv
<1>7. ASSUME NEW d \in DataPlane, NEW i \in Request, Undo(d, i) PROVE IInv'
  <2> DEFINE c == Closing(polls)
             r == Reply(d, i, Answer("gone", None))
  <2>1. departed
      BY <1>7 DEF Undo, IInv, Undeparted, Present
  <2>2. polls' = [c EXCEPT ![d][i] = r]
      BY <1>7 DEF Undo, Replied, Reply
  <2>3. r \in Poll0 /\ r.receiver = "none" /\ r.report = NoReport
        /\ r.st \in {"none", "answered"} /\ r.answer.kind \notin {"unchanged", "snapshot"}
    <3>1. Answer("gone", None) \in Answers /\ Answer("gone", None).kind = "gone"
        BY AnswerFacts, VersionFacts
    <3> QED  BY <3>1, ReplyFacts, Constants DEF NoAnswer, Answer
  <2>4. /\ polls' \in [DataPlane -> [Request -> Poll0]]
        /\ \A e \in DataPlane, j \in Request :
              polls'[e][j] = IF e = d /\ j = i THEN r ELSE c[e][j]
      BY <1>1, <2>2, <2>3, ClosingFacts
  <2>5. \A e \in DataPlane, j \in Request :
          LET q == polls'[e][j] IN
          /\ q.receiver # "open"
          /\ q.receiver # "none" <=> q.st \in {"recheck", "undo", "held"}
          /\ q.report \in {NoReport, polls[e][j].report}
          /\ q.answer.kind = "snapshot" => q.answer.version # None
          /\ awaited[e] = j =>
                /\ q.st \notin {"none", "answered"} => q.have = dp[e].have
                /\ q.answer.kind = "unchanged" => q.answer.version = dp[e].have
    <3> SUFFICES ASSUME NEW e \in DataPlane, NEW j \in Request
                 PROVE  LET q == polls'[e][j] IN
                        /\ q.receiver # "open"
                        /\ q.receiver # "none" <=> q.st \in {"recheck", "undo", "held"}
                        /\ q.report \in {NoReport, polls[e][j].report}
                        /\ q.answer.kind = "snapshot" => q.answer.version # None
                        /\ awaited[e] = j =>
                              /\ q.st \notin {"none", "answered"} => q.have = dp[e].have
                              /\ q.answer.kind = "unchanged" => q.answer.version = dp[e].have
        OBVIOUS
    <3> HIDE DEF c, r
    <3>1. CASE e = d /\ j = i
        BY <2>3, <2>4, <3>1
    <3>2. CASE ~(e = d /\ j = i)
      <4>1. polls'[e][j] = c[e][j]
          BY <2>4, <3>2
      <4> QED
          BY <1>1, <4>1, ClosingFacts DEF c, Receivers, IInv, Awaiting, Honesty, Request
    <3> QED  BY <3>1, <3>2
  <2> QED  BY <1>1, <1>7, <2>1, <2>4, <2>5, SlotDropped DEF Undo, Types
<1> QED  BY <1>3, <1>4, <1>5, <1>6, <1>7

-----------------------------------------------------------------------------
(* The sync loops.                                                          *)

\* What the invariant asks of a sync loop.
Sound(l) ==
    /\ l \in Loop0
    /\ l.report.epoch + left'.moves <= MaxMoves
    /\ l.st = "leaving" => l.report # NoReport
    /\ l.refused = None => l.current = l.have
    /\ Revision(l.current) \notin Unusable
    /\ Honest(l.report)

LEMMA LoopMoves ==
    ASSUME IInv, NEW d \in DataPlane, NEW l, Sound(l), dp' = [dp EXCEPT ![d] = l], Abandon(d),
           left' = left \/ \E what \in DOMAIN left : Spend(what),
           UNCHANGED <<world, view, work, hub>>
    PROVE  IInv'
<1> USE DEF world, view, work, hub
<1>1. Types /\ Receivers
    BY TypeParts DEF IInv
<1>2. left' \in Left0
      /\ left'.moves <= left.moves
    BY DEF IInv, Budget, Spend, Left0
<1>3. /\ polls' \in [DataPlane -> [Request -> Poll0]]
      /\ \A e \in DataPlane, j \in Request :
            \/ polls'[e][j] = polls[e][j]
            \/ e = d /\ polls'[e][j] = NoPoll /\ polls[e][j].st = "answered"
    BY <1>1, Constants DEF Abandon, Types
<1>4. /\ awaited' \in [DataPlane -> Request \cup {0}] /\ awaited'[d] = 0
      /\ \A e \in DataPlane \ {d} :
            awaited'[e] = awaited[e] /\ \A j \in Request : polls'[e][j] = polls[e][j]
    BY <1>1, <1>3 DEF Abandon, Types
<1>5. dp' \in [DataPlane -> Loop0] /\ dp'[d] = l /\ \A e \in DataPlane \ {d} : dp'[e] = dp[e]
    BY <1>1 DEF Sound, Types
<1>6. Types'
    BY <1>1, <1>3, <1>4, <1>5 DEF Types
<1>7. Receivers'
    BY <1>1, <1>3, Constants DEF Receivers
<1>8. Budget'
  <2>1. \A e \in DataPlane : dp[e].report.epoch \in Nat /\ dp'[e].report.epoch \in Nat
      BY <1>1, <1>5 DEF Types, Loop0, Reports, Report, NoReport
  <2> QED  BY <1>2, <1>5, <2>1, BoundsAssumption DEF IInv, Budget, Sound, Left0
<1>9. Undeparted' /\ ForgetInv'
    BY <1>3, Constants DEF IInv, Undeparted, Present, ForgetInv
<1>10. NoOrphanSlot'
    BY <1>3 DEF IInv, NoOrphanSlot
<1>11. Awaiting'
    BY <1>1, <1>4, <1>5 DEF IInv, Awaiting, Sound, Types
<1>12. Honesty'
  <2>1. Honest(NoReport)
      BY VersionFacts, BoundsAssumption DEF Honest, NoReport
  <2> QED  BY <1>3, <1>5, <2>1, Constants DEF IInv, Honesty, Sound
<1> QED  BY <1>6, <1>7, <1>8, <1>9, <1>10, <1>11, <1>12, TypePartsNext DEF IInv

\* The fields of a report.
LEMMA ReportShape ==
    ASSUME NEW r \in Reports
    PROVE  /\ r = [applied |-> r.applied, refused |-> r.refused, epoch |-> r.epoch, leaving |-> r.leaving]
           /\ r.refused \in BOOLEAN /\ r.epoch \in 0 .. MaxMoves /\ r.epoch \in Nat
           /\ r.leaving \in BOOLEAN /\ (r = NoReport \/ r.applied \in Versions)
<1>1. CASE r = NoReport
    BY <1>1, BoundsAssumption DEF NoReport
<1>2. CASE r \in Report
    BY <1>2, BoundsAssumption DEF Report
<1> QED  BY <1>1, <1>2 DEF Reports

\* A report, or none, with another version, refused, or on its way out.
Report0 == [applied : Version0, refused : BOOLEAN, epoch : 0 .. MaxMoves, leaving : BOOLEAN]

LEMMA ReportIsRecord == Reports \subseteq Report0
<1>1. Report \subseteq Report0
    BY DEF Report, Report0, Version0
<1>2. NoReport \in Report0
    BY VersionFacts, BoundsAssumption DEF NoReport, Report0
<1> QED  BY <1>1, <1>2 DEF Reports

LEMMA ReportRefused ==
    ASSUME NEW r \in Report0, NEW v \in Versions
    PROVE  LET q == [r EXCEPT !.applied = v, !.refused = TRUE] IN
           q \in Reports /\ q # NoReport /\ q.epoch = r.epoch /\ Honest(q)
<1> DEFINE q == [r EXCEPT !.applied = v, !.refused = TRUE]
<1>1. q \in Report /\ q.applied = v /\ q.refused /\ q.epoch = r.epoch
    BY DEF Report0, Report
<1> HIDE DEF q
<1>2. q # NoReport
    BY <1>1, VersionFacts DEF NoReport
<1>3. Honest(q)
    BY <1>1, Zenon DEF Honest
<1>4. q \in Reports
    BY <1>1 DEF Reports
<1> QED  BY <1>1, <1>2, <1>3, <1>4 DEF q

LEMMA ReportLeaving ==
    ASSUME NEW r \in Reports, NEW b \in BOOLEAN, b => r # NoReport
    PROVE  LET q == [r EXCEPT !.leaving = b] IN q \in Reports /\ (Honest(r) => Honest(q))
<1> DEFINE q == [r EXCEPT !.leaving = b]
<1>1. CASE r # NoReport
  <2>1. r \in Report
      BY <1>1 DEF Reports
  <2>2. q \in Report /\ q.applied = r.applied /\ q.refused = r.refused
      BY <2>1 DEF Report
  <2> QED  BY <2>2 DEF Reports, Honest
<1>2. CASE r = NoReport
  <2>1. b = FALSE
      BY <1>2
  <2>2. [NoReport EXCEPT !.leaving = FALSE] = NoReport
    <3> DEFINE n == [NoReport EXCEPT !.leaving = FALSE]
    <3>1. NoReport \in Report0 /\ NoReport.leaving = FALSE
        BY ReportIsRecord, Constants DEF NoReport
    <3>2. DOMAIN n = DOMAIN NoReport /\ \A f \in DOMAIN NoReport : n[f] = NoReport[f]
        BY <3>1
    <3>3. n = [f \in DOMAIN NoReport |-> NoReport[f]]
        BY <3>2
    <3>4. NoReport = [f \in DOMAIN NoReport |-> NoReport[f]]
        BY <3>1 DEF Report0
    <3> QED  BY <3>3, <3>4
  <2>3. q = NoReport
      BY <1>2, <2>1, <2>2
  <2> QED  BY <1>2, <2>3
<1> QED  BY <1>1, <1>2

\* What a sync loop has is sound, and may be built on.
LEMMA LoopFacts ==
    ASSUME IInv, NEW d \in DataPlane
    PROVE  LET l == dp[d] IN
           /\ l \in Loop0 /\ l.report \in Reports /\ l.report.epoch \in Nat
           /\ l.report.epoch + left.moves <= MaxMoves /\ left.moves \in Nat
           /\ l.st = "leaving" => l.report # NoReport
           /\ l.refused = None => l.current = l.have
           /\ Revision(l.current) \notin Unusable /\ Honest(l.report)
<1>1. dp[d] \in Loop0
    BY TypeParts DEF IInv, Types
<1>2. dp[d].report \in Reports
    BY <1>1 DEF Loop0
<1>3. left.moves \in Nat
    BY DEF IInv, Budget, Left0
<1> QED
    BY <1>1, <1>2, <1>3, ReportShape DEF IInv, Budget, Awaiting, Honesty

\* A report with a version.
LEMMA ReportFacts ==
    ASSUME NEW r \in [applied : Versions, refused : BOOLEAN, epoch : 0 .. MaxMoves, leaving : BOOLEAN]
    PROVE  r \in Reports /\ r # NoReport
BY VersionFacts DEF Reports, Report, NoReport

\* SyncLoop::serve, refuse and gone keep a loop sound.
LEMMA HandledFacts ==
    ASSUME IInv, NEW d \in DataPlane, NEW answer \in Answers, left' = left,
           dp[d].st # "leaving", answer.kind = "snapshot" => answer.version \in Versions
    PROVE  Sound(Handled(dp[d], answer))
<1> DEFINE l == dp[d]
           v == answer.version
<1>1. /\ l \in Loop0 /\ l.report \in Reports /\ l.report.epoch \in Nat
      /\ l.report.epoch + left.moves <= MaxMoves /\ left.moves \in Nat
      /\ l.st = "leaving" => l.report # NoReport
      /\ l.refused = None => l.current = l.have
      /\ Revision(l.current) \notin Unusable /\ Honest(l.report)
    BY LoopFacts
<1>2. l.report.epoch \in 0 .. MaxMoves
    BY <1>1, BoundsAssumption
<1>3. CASE answer.kind = "snapshot" /\ Revision(v) \notin Unusable
  <2> DEFINE r == [applied |-> v, refused |-> FALSE, epoch |-> l.report.epoch, leaving |-> FALSE]
  <2>1. r \in Reports /\ r # NoReport /\ r.epoch = l.report.epoch /\ Honest(r)
      BY <1>2, <1>3, ReportFacts DEF Honest
  <2>2. Handled(l, answer) = [l EXCEPT !.current = v, !.have = v, !.refused = None, !.report = r]
      BY <1>1, <1>3 DEF Handled, Served, Loop0
  <2> QED  BY <1>1, <1>3, <2>1, <2>2, VersionFacts DEF Sound, Loop0
<1>4. CASE answer.kind = "snapshot" /\ Revision(v) \in Unusable
  <2> DEFINE r == [l.report EXCEPT !.applied = v, !.refused = TRUE]
  <2>1. r \in Reports /\ r # NoReport /\ r.epoch = l.report.epoch /\ Honest(r)
    <3>1. v \in Versions
        BY <1>4
    <3> QED  BY <1>1, <3>1, ReportIsRecord, ReportRefused
  <2>2. v # None
      BY <1>4, VersionFacts
  <2>3. Handled(l, answer) = [l EXCEPT !.have = v, !.refused = v, !.report = r]
      BY <1>1, <1>4, <2>2 DEF Handled, Refused, AsReported, Loop0
  <2> QED  BY <1>1, <1>4, <2>1, <2>2, <2>3, VersionFacts DEF Sound, Loop0
<1>5. CASE answer.kind = "gone"
  <2>1. Handled(l, answer) = [Fresh EXCEPT !.st = l.st]
      BY <1>5 DEF Handled, Cleared
  <2>2. Fresh.report.epoch = 0 /\ Fresh.refused = None /\ Fresh.current = Fresh.have
        /\ Revision(Fresh.current) \notin Unusable /\ Honest(Fresh.report)
      BY VersionFacts, BoundsAssumption DEF Fresh, NoReport, Honest
  <2>3. [Fresh EXCEPT !.st = l.st] \in Loop0
      BY <1>1, Constants DEF Loop0
  <2>4. LET m == [Fresh EXCEPT !.st = l.st] IN
        /\ m.report = Fresh.report /\ m.refused = Fresh.refused /\ m.current = Fresh.current
        /\ m.have = Fresh.have /\ m.st # "leaving"
      BY Constants DEF Loop0
  <2> QED  BY <1>1, <2>1, <2>2, <2>3, <2>4, BoundsAssumption DEF Sound
<1>6. CASE answer.kind \notin {"snapshot", "gone"}
    BY <1>1, <1>6 DEF Handled, Sound
<1> QED  BY <1>3, <1>4, <1>5, <1>6

LEMMA LoopKeeps ==
    ASSUME IInv, NEW d \in DataPlane, TakeAnswer(d) \/ Disturbed(d)
    PROVE  IInv'
<1> DEFINE l == dp[d]
<1>1. /\ l \in Loop0 /\ l.report \in Reports /\ l.report.epoch \in Nat
      /\ l.report.epoch + left.moves <= MaxMoves /\ left.moves \in Nat
      /\ l.st = "leaving" => l.report # NoReport
      /\ l.refused = None => l.current = l.have
      /\ Revision(l.current) \notin Unusable /\ Honest(l.report)
    BY LoopFacts
<1>2. Types /\ dp \in [DataPlane -> Loop0]
    BY TypeParts DEF IInv, Types
<1>3. left \in Left0
    BY DEF IInv, Budget
<1>4. CASE TakeAnswer(d)
  <2> DEFINE answer == polls[d][awaited[d]].answer
             m == IF l.st = "leaving" THEN [l EXCEPT !.st = IF answer.kind = "left" THEN "left" ELSE "stopped"]
                  ELSE Handled(l, answer)
  <2>1. left' = left /\ dp' = [dp EXCEPT ![d] = m]
      BY <1>2, <1>4 DEF TakeAnswer
  <2>2. answer \in Answers /\ (answer.kind = "snapshot" => answer.version \in Versions)
    <3>1. awaited[d] \in Request
        BY <1>2, <1>4 DEF TakeAnswer, Types
    <3>2. polls[d][awaited[d]] \in Poll0
        BY <1>2, <3>1 DEF Types
    <3> QED  BY <3>1, <3>2, VersionFacts DEF IInv, Honesty, Poll0, Answers
  <2>3. Sound(m)
    <3>1. CASE l.st = "leaving"
        BY <1>1, <2>1, <3>1 DEF Sound, Loop0
    <3> QED  BY <2>1, <2>2, <3>1, HandledFacts
  <2> QED  BY <1>4, <2>1, <2>3, LoopMoves DEF TakeAnswer
<1>5. CASE PollFails(d)
  <2> DEFINE m == [l EXCEPT !.st = IF l.st = "leaving" THEN "stopped" ELSE l.st]
  <2>1. Spend("failures") /\ dp' = [dp EXCEPT ![d] = m]
      BY <1>2, <1>5 DEF PollFails
  <2>2. "failures" \in DOMAIN left /\ left'.moves = left.moves
      BY <1>3, <2>1 DEF Spend, Left0
  <2>3. Sound(m)
      BY <1>1, <2>2 DEF Sound, Loop0
  <2> QED  BY <1>5, <2>1, <2>2, <2>3, LoopMoves DEF PollFails
<1>6. CASE Reapply(d)
  <2> DEFINE e == l.report.epoch + 1
             r == AsReported(l, [applied |-> l.current, refused |-> FALSE, epoch |-> e, leaving |-> FALSE])
             m == [l EXCEPT !.report = r]
  <2>1. Spend("moves") /\ dp' = [dp EXCEPT ![d] = m]
      BY <1>1, <1>2, <1>6 DEF Reapply, Loop0
  <2>2. "moves" \in DOMAIN left /\ left'.moves = left.moves - 1 /\ left.moves > 0
      BY <1>3, <2>1 DEF Spend, Left0
  <2>3. e \in 0 .. MaxMoves /\ e + left'.moves <= MaxMoves
      BY <1>1, <2>2, BoundsAssumption
  <2>4. l.current \in Versions /\ l.refused \in Version0
      BY <1>1, <1>6 DEF Reapply, Loop0, Version0
  <2>5. r \in Reports /\ r # NoReport /\ r.epoch = e /\ Honest(r)
    <3>1. CASE l.refused = None
        BY <1>1, <2>3, <2>4, <3>1, ReportFacts DEF AsReported, Honest
    <3>2. CASE l.refused # None
      <4> DEFINE s == [applied |-> l.current, refused |-> FALSE, epoch |-> e, leaving |-> FALSE]
      <4>1. s \in Report0 /\ s.epoch = e
          BY <2>3, <2>4, VersionFacts DEF Report0
      <4>2. l.refused \in Versions
          BY <2>4, <3>2 DEF Version0
      <4>3. r = [s EXCEPT !.applied = l.refused, !.refused = TRUE]
          BY <3>2 DEF AsReported
      <4> HIDE DEF s, r, e
      <4> QED  BY <4>1, <4>2, <4>3, ReportRefused
    <3> QED  BY <3>1, <3>2
  <2>6. Sound(m)
      BY <1>1, <2>3, <2>5 DEF Sound, Loop0
  <2> QED  BY <1>6, <2>1, <2>2, <2>6, LoopMoves DEF Reapply
<1>7. CASE StopDataPlane(d)
  <2> DEFINE m == [l EXCEPT !.st = IF l.report = NoReport THEN "stopped" ELSE "leaving"]
  <2>1. Spend("stops") /\ dp' = [dp EXCEPT ![d] = m]
      BY <1>2, <1>7 DEF StopDataPlane
  <2>2. "stops" \in DOMAIN left /\ left'.moves = left.moves
      BY <1>3, <2>1 DEF Spend, Left0
  <2>3. Sound(m)
      BY <1>1, <2>2 DEF Sound, Loop0
  <2> QED  BY <1>7, <2>1, <2>2, <2>3, LoopMoves DEF StopDataPlane
<1>8. CASE RestartDataPlane(d)
  <2>1. Spend("restarts") /\ dp' = [dp EXCEPT ![d] = Fresh]
      BY <1>8 DEF RestartDataPlane
  <2>2. "restarts" \in DOMAIN left /\ left'.moves = left.moves
      BY <1>3, <2>1 DEF Spend, Left0
  <2>3. Fresh.report.epoch = 0 /\ Fresh.refused = None /\ Fresh.current = Fresh.have
        /\ Fresh.st # "leaving" /\ Revision(Fresh.current) \notin Unusable /\ Honest(Fresh.report)
      BY VersionFacts, BoundsAssumption DEF Fresh, NoReport, Honest
  <2>4. Sound(Fresh)
      BY <1>1, <2>2, <2>3, Constants, BoundsAssumption DEF Sound
  <2> QED  BY <1>8, <2>1, <2>2, <2>4, LoopMoves DEF RestartDataPlane
<1> QED  BY <1>4, <1>5, <1>6, <1>7, <1>8 DEF Disturbed

\* SyncLoop::request: the poll takes along what the loop has and reports.
LEMMA PollKeeps ==
    ASSUME IInv, NEW d \in DataPlane, Poll(d)
    PROVE  IInv'
<1> USE DEF world, view, work, hub
<1> DEFINE l == dp[d]
           r == [l.report EXCEPT !.leaving = l.st = "leaving"]
           asked == [NoPoll EXCEPT !.st = "auth", !.have = l.have, !.report = r]
           refused == [NoPoll EXCEPT !.st = "answered", !.answer = Answer("standby", None)]
           q == IF leading /\ synced THEN asked ELSE refused
<1>1. Types /\ Receivers
    BY TypeParts DEF IInv
<1>2. /\ l \in Loop0 /\ l.report \in Reports /\ (l.st = "leaving" => l.report # NoReport)
      /\ Honest(l.report)
    BY LoopFacts
<1>3. r \in Reports /\ Honest(r)
  <2>1. (l.st = "leaving") \in BOOLEAN
      OBVIOUS
  <2> QED  BY <1>2, <2>1, ReportLeaving
<1>4. /\ asked \in Poll0 /\ asked.st = "auth" /\ asked.receiver = "none" /\ asked.report = r
      /\ asked.have = l.have /\ asked.answer.kind = "none"
    BY <1>2, <1>3, Constants DEF Poll0, PollSt, Loop0
<1>5. /\ refused \in Poll0 /\ refused.st = "answered" /\ refused.receiver = "none"
      /\ refused.report = NoReport /\ refused.answer.kind = "standby"
    BY Constants, AnswerFacts, VersionFacts DEF Poll0, PollSt
<1>6. Honest(NoReport)
    BY VersionFacts, BoundsAssumption DEF Honest, NoReport
<1>7. PICK i \in Request : polls[d][i].st = "none" /\ Put(d, i, q) /\ awaited' = [awaited EXCEPT ![d] = i]
    BY DEF Poll, Put
<1>8. UNCHANGED <<world, left, view, work, hub, dp>>
    BY DEF Poll
<1>9. /\ q \in Poll0 /\ q.receiver = "none" /\ q.st \in {"auth", "answered"}
      /\ q.st = "auth" => q.have = l.have
      /\ q.answer.kind \in {"none", "standby"} /\ Honest(q.report)
    BY <1>1, <1>3, <1>4, <1>5, <1>6
<1> HIDE DEF q
<1>10. /\ polls' \in [DataPlane -> [Request -> Poll0]]
       /\ polls'[d][i] = q
       /\ \A e \in DataPlane, j \in Request : e # d \/ j # i => polls'[e][j] = polls[e][j]
    BY <1>1, <1>7, <1>9, PutKeeps
<1>11. /\ awaited' \in [DataPlane -> Request \cup {0}] /\ awaited'[d] = i
       /\ \A e \in DataPlane \ {d} : awaited'[e] = awaited[e]
    BY <1>1, <1>7 DEF Types
<1>12. Types'
    BY <1>1, <1>8, <1>10, <1>11 DEF Types
<1>13. Receivers'
    BY <1>1, <1>8, <1>9, <1>10 DEF Receivers
<1>14. Budget' /\ ForgetInv'
    BY <1>8 DEF IInv, Budget, ForgetInv
<1>15. Undeparted'
    BY <1>8, <1>9, <1>10 DEF IInv, Undeparted, Present
<1>16. NoOrphanSlot'
    BY <1>7, <1>8, <1>10 DEF IInv, NoOrphanSlot
<1>17. Awaiting'
  <2>1. Awaiting /\ dp' = dp
      BY <1>8 DEF IInv
  <2>2. ASSUME NEW e \in DataPlane
        PROVE  Awaiting!(e)'
    <3>1. CASE e = d
      <4>1. polls'[e][awaited'[e]] = q
          BY <1>10, <1>11, <3>1
      <4> QED  BY <1>9, <2>1, <3>1, <4>1 DEF Awaiting
    <3>2. CASE e # d
      <4>1. awaited'[e] = awaited[e] /\ awaited[e] \in Request \cup {0}
          BY <1>1, <1>11, <3>2 DEF Types
      <4>2. awaited[e] # 0 => polls'[e][awaited[e]] = polls[e][awaited[e]]
          BY <1>10, <3>2, <4>1
      <4> QED  BY <2>1, <4>1, <4>2 DEF Awaiting
    <3> QED  BY <3>1, <3>2
  <2> QED  BY <2>2 DEF Awaiting
<1>18. Honesty'
    BY <1>8, <1>9, <1>10 DEF IInv, Honesty
<1> QED
    BY <1>12, <1>13, <1>14, <1>15, <1>16, <1>17, <1>18, TypePartsNext DEF IInv

-----------------------------------------------------------------------------
(* The cluster and the controller's tasks: requests and loops stay.         *)

LEMMA ControllerStep ==
    ASSUME IInv, UNCHANGED <<reports, polls, client>>,
           left' = left \/ \E what \in {"edits", "creations", "classes"} : Spend(what),
           cluster' \in Version0, store' \in Version0, uids' \in 1 .. MaxUid,
           owner' \in {"Ours", "Other", "Missing"},
           leading' \in BOOLEAN, synced' \in BOOLEAN, stored' \in BOOLEAN, queued' \in BOOLEAN,
           requeue' \in BOOLEAN, departed' \in BOOLEAN,
           slot' = slot \/ \E v \in Versions : HubPublish(v),
           pass' \in [st : {"idle", "disown", "translate", "check", "remove"}, gateway : Version0],
           pass'.st # "idle" => pass'.gateway \in Versions,
           forget' \in [pending : BOOLEAN, st : {"idle", "read"}, live : BOOLEAN],
           Undeparted', ForgetInv', NoOrphanSlot'
    PROVE  IInv'
<1> USE DEF client
<1>1. Types /\ Receivers
    BY TypeParts DEF IInv
<1>2. UNCHANGED <<reports, polls, awaited, dp>>
    OBVIOUS
<1>3. slot' \in [there : BOOLEAN, value : Version0] /\ (~slot'.there => slot' = NoSlot)
      /\ (slot.there => slot'.there)
  <2>1. CASE slot' = slot
      BY <1>1, <2>1 DEF Types
  <2>2. ASSUME NEW v \in Versions, HubPublish(v)
        PROVE  slot' \in [there : BOOLEAN, value : Version0] /\ slot'.there
      BY <2>2, VersionFacts DEF HubPublish
  <2> QED  BY <2>1, <2>2
<1>4. Types'
    BY <1>1, <1>2, <1>3 DEF Types
<1>5. Receivers'
    BY <1>1, <1>2, <1>3 DEF Receivers
<1>6. Budget'
  <2>1. left' \in Left0
        /\ left'.moves = left.moves
      BY DEF IInv, Budget, Spend, Left0
  <2> QED  BY <1>2, <2>1 DEF IInv, Budget
<1>7. Awaiting' /\ Honesty'
    BY <1>2 DEF IInv, Awaiting, Honesty
<1> QED  BY <1>4, <1>5, <1>6, <1>7, TypePartsNext DEF IInv

\* The Gateway is edited, deleted, recreated; its class moves.
LEMMA ClusterKeeps ==
    ASSUME IInv, Edit \/ Delete \/ Recreate \/ ClassChange
    PROVE  IInv'
<1> USE DEF world, view, work, hub, client
<1>1. Types /\ Undeparted /\ ForgetInv /\ NoOrphanSlot
      /\ (pass.st # "idle" => pass.gateway \in Versions)
    BY TypeParts DEF IInv, Budget
<1>2. CASE Edit
  <2>1. Uid(cluster') = Uid(cluster) /\ cluster' \in Versions
    <3>1. cluster \in Versions
        BY <1>1, <1>2 DEF Edit, Types, Version0
    <3>2. Uid(cluster) \in 1 .. MaxUid
        BY <3>1, VersionFacts
    <3> QED  BY <1>2, <3>2, VersionFacts DEF Edit
  <2>2. Undeparted' /\ ForgetInv' /\ NoOrphanSlot'
    <3>1. Undeparted'
        BY <1>1, <1>2, <2>1, VersionFacts DEF Edit, Undeparted, Present
    <3>2. ForgetInv' /\ NoOrphanSlot'
        BY <1>1, <1>2 DEF Edit, ForgetInv, NoOrphanSlot
    <3> QED  BY <3>1, <3>2
  <2> QED  BY <1>1, <1>2, <2>1, <2>2, VersionFacts, ControllerStep DEF Edit, Types
<1>3. CASE Delete
  <2>1. Undeparted' /\ ForgetInv' /\ NoOrphanSlot'
      BY <1>1, <1>3 DEF Delete, Undeparted, ForgetInv, NoOrphanSlot
  <2> QED  BY <1>1, <1>3, <2>1, VersionFacts, ControllerStep DEF Delete, Types
<1>4. CASE Recreate
  <2>1. departed
      BY <1>1, <1>4 DEF Recreate, Undeparted, Present
  <2>2. cluster' \in Versions /\ uids' \in 1 .. MaxUid
      BY <1>1, <1>4, VersionFacts, BoundsAssumption DEF Recreate, Types
  <2>3. Undeparted' /\ ForgetInv' /\ NoOrphanSlot'
      BY <1>1, <1>4, <2>1 DEF Recreate, Undeparted, ForgetInv, NoOrphanSlot
  <2> QED  BY <1>1, <1>4, <2>2, <2>3, VersionFacts, ControllerStep DEF Recreate, Types
<1>5. CASE ClassChange
  <2>1. owner' \in {"Ours", "Other", "Missing"} /\ queued' \in BOOLEAN /\ departed' \in BOOLEAN
      BY <1>1, <1>5, BoundsAssumption DEF ClassChange, Types
  <2>2. departed => departed'
      BY <1>5 DEF ClassChange
  <2>3. ~departed' => owner' # "Other" /\ ~departed
      BY <1>5 DEF ClassChange
  <2>4. Undeparted'
      BY <1>1, <1>5, <2>3 DEF ClassChange, Undeparted, Present
  <2>5. ForgetInv' /\ NoOrphanSlot'
      BY <1>1, <1>5 DEF ClassChange, ForgetInv, NoOrphanSlot
  <2> QED  BY <1>1, <1>5, <2>1, <2>4, <2>5, ControllerStep DEF ClassChange, Types
<1> QED  BY <1>2, <1>3, <1>4, <1>5

\* The store follows the cluster; the lease is gained.
LEMMA ViewKeeps ==
    ASSUME IInv, Watch \/ List \/ Fill \/ Gain
    PROVE  IInv'
<1> USE DEF world, view, work, hub, client
<1>1. Types /\ Undeparted /\ ForgetInv /\ NoOrphanSlot
      /\ (pass.st # "idle" => pass.gateway \in Versions)
    BY TypeParts DEF IInv, Budget
<1>2. CASE Watch
  <2>1. /\ forget' \in [pending : BOOLEAN, st : {"idle", "read"}, live : BOOLEAN]
        /\ forget'.st = forget.st /\ forget'.live = forget.live
        /\ forget'.pending => forget.pending \/ stored
        /\ forget.pending => forget'.pending
        /\ store # None /\ Uid(store) # Uid(cluster) => forget'.pending
      BY <1>1, <1>2 DEF Watch, Types
  <2>2. store # None /\ store' = None => Uid(store) # Uid(cluster)
    <3>1. ASSUME store # None PROVE Uid(store) # 0
        BY <1>1, <3>1, VersionFacts DEF Types, Version0
    <3> QED  BY <1>2, <3>1, VersionFacts DEF Watch
  <2>3. Undeparted'
      BY <1>1, <1>2, <2>1 DEF Watch, Undeparted, Present
  <2>4. ForgetInv' /\ NoOrphanSlot'
      BY <1>1, <1>2, <2>1, <2>2 DEF Watch, ForgetInv, NoOrphanSlot
  <2>5. queued' \in BOOLEAN
      BY <1>1, <1>2 DEF Watch, Types
  <2> QED  BY <1>1, <1>2, <2>1, <2>3, <2>4, <2>5, ControllerStep DEF Watch, Types
<1>3. CASE List
  <2>1. Undeparted'
      BY <1>1, <1>3 DEF List, Undeparted, Present
  <2>2. ForgetInv' /\ NoOrphanSlot'
      BY <1>1, <1>3 DEF List, ForgetInv, NoOrphanSlot
  <2>3. queued' \in BOOLEAN
      BY <1>1, <1>3 DEF List, Types
  <2> QED  BY <1>1, <1>3, <2>1, <2>2, <2>3, ControllerStep DEF List, Types
<1>5. CASE Fill
  <2>1. /\ forget' \in [pending : BOOLEAN, st : {"idle", "read"}, live : BOOLEAN]
        /\ forget'.pending /\ forget'.st = forget.st /\ forget'.live = forget.live
      BY <1>1, <1>5 DEF Fill, Types
  <2>2. Undeparted'
      BY <1>1, <1>5, <2>1 DEF Fill, Undeparted, Present
  <2>3. ForgetInv' /\ NoOrphanSlot'
      BY <2>1 DEF ForgetInv, NoOrphanSlot
  <2>4. queued' \in BOOLEAN
      BY <1>1, <1>5 DEF Fill, Types
  <2> QED  BY <1>1, <1>5, <2>1, <2>2, <2>3, <2>4, ControllerStep DEF Fill, Types
<1>4. CASE Gain
  <2>1. Undeparted'
      BY <1>1, <1>4 DEF Gain, Undeparted, Present
  <2>2. ForgetInv' /\ NoOrphanSlot'
      BY <1>1, <1>4 DEF Gain, ForgetInv, NoOrphanSlot
  <2>3. queued' \in BOOLEAN
      BY <1>1, <1>4 DEF Gain, Types
  <2> QED  BY <1>1, <1>4, <2>1, <2>2, <2>3, ControllerStep DEF Gain, Types
<1> QED  BY <1>2, <1>3, <1>4, <1>5

\* A pass begins, publishes and looks again; a forget reads the store.
LEMMA PassKeeps ==
    ASSUME IInv, PassDropped \/ PassBegin \/ PassPublish \/ PassCheck \/ Requeue \/ ForgetRead
    PROVE  IInv'
<1> USE DEF world, view, work, hub, client
<1>1. Types /\ Undeparted /\ ForgetInv /\ NoOrphanSlot
      /\ (pass.st # "idle" => pass.gateway \in Versions)
    BY TypeParts DEF IInv, Budget
<1>2. IdlePass \in [st : {"idle", "disown", "translate", "check", "remove"}, gateway : Version0]
      /\ IdlePass.st = "idle"
    BY VersionFacts DEF IdlePass
<1>3. CASE PassDropped
  <2>1. Undeparted'
      BY <1>1, <1>3 DEF PassDropped, Undeparted, Present
  <2>2. ForgetInv' /\ NoOrphanSlot'
      BY <1>1, <1>3 DEF PassDropped, ForgetInv, NoOrphanSlot
  <2> QED  BY <1>1, <1>3, <2>1, <2>2, ControllerStep DEF PassDropped, Types
<1>4. CASE PassBegin
  <2>1. /\ pass' \in [st : {"idle", "disown", "translate", "check", "remove"}, gateway : Version0]
        /\ pass'.st # "idle" => pass'.gateway = store
                                /\ (pass'.st = "translate" \/ (pass'.st = "disown" /\ owner = "Other"))
      BY <1>1, <1>2, <1>4 DEF PassBegin, Types
  <2>2. Undeparted'
      BY <1>1, <1>4, <2>1 DEF PassBegin, Undeparted, Present
  <2>3. ForgetInv' /\ NoOrphanSlot'
      BY <1>1, <1>4 DEF PassBegin, ForgetInv, NoOrphanSlot
  <2>4. store \in Versions
      BY <1>1, <1>4 DEF PassBegin, Types, Version0
  <2> QED  BY <1>1, <1>4, <2>1, <2>2, <2>3, <2>4, ControllerStep DEF PassBegin, Types
<1>5. CASE PassPublish
  <2>1. /\ pass' \in [st : {"idle", "disown", "translate", "check", "remove"}, gateway : Version0]
        /\ pass'.st = "check" /\ pass'.gateway = pass.gateway /\ pass.gateway \in Versions
      BY <1>1, <1>5 DEF PassPublish, Types
  <2>2. Undeparted'
      BY <1>1, <1>5, <2>1 DEF PassPublish, Undeparted, Present
  <2>3. ForgetInv' /\ NoOrphanSlot'
      BY <1>1, <1>5, <2>1 DEF PassPublish, ForgetInv, NoOrphanSlot
  <2> QED  BY <1>1, <1>5, <2>1, <2>2, <2>3, ControllerStep DEF PassPublish, Types
<1>6. CASE PassCheck
  <2>1. /\ pass' \in [st : {"idle", "disown", "translate", "check", "remove"}, gateway : Version0]
        /\ pass'.st # "idle" => pass'.gateway = pass.gateway /\ pass'.st = "remove"
                                /\ Uid(store) # Uid(pass.gateway)
        /\ pass'.st = "idle" => Uid(store) = Uid(pass.gateway)
        /\ requeue' \in BOOLEAN /\ pass.gateway \in Versions
      BY <1>1, <1>2, <1>6 DEF PassCheck, Types
  <2>2. Uid(store) = Uid(pass.gateway) => store # None
    <3>1. Uid(pass.gateway) \in 1 .. MaxUid
        BY <2>1, VersionFacts
    <3> QED  BY <3>1, VersionFacts
  <2>3. Undeparted'
      BY <1>1, <1>6, <2>1 DEF PassCheck, Undeparted, Present
  <2>4. ForgetInv' /\ NoOrphanSlot'
      BY <1>1, <1>6, <2>1, <2>2 DEF PassCheck, ForgetInv, NoOrphanSlot, Types
  <2> QED  BY <1>1, <1>6, <2>1, <2>3, <2>4, ControllerStep DEF PassCheck, Types
<1>7. CASE Requeue
  <2>1. Undeparted'
      BY <1>1, <1>7 DEF Requeue, Undeparted, Present
  <2>2. ForgetInv' /\ NoOrphanSlot'
      BY <1>1, <1>7 DEF Requeue, ForgetInv, NoOrphanSlot
  <2> QED  BY <1>1, <1>7, <2>1, <2>2, ControllerStep DEF Requeue, Types
<1>8. CASE ForgetRead
  <2>1. /\ forget' \in [pending : BOOLEAN, st : {"idle", "read"}, live : BOOLEAN]
        /\ ~forget'.pending /\ forget'.st = "read" /\ (forget'.live <=> store # None)
      BY <1>8 DEF ForgetRead
  <2>2. Undeparted'
      BY <1>1, <1>8, <2>1 DEF ForgetRead, Undeparted, Present
  <2>3. ForgetInv' /\ NoOrphanSlot'
      BY <1>8, <2>1 DEF ForgetRead, ForgetInv, NoOrphanSlot
  <2> QED  BY <1>1, <1>8, <2>1, <2>2, <2>3, ControllerStep DEF ForgetRead, Types
<1> QED  BY <1>3, <1>4, <1>5, <1>6, <1>7, <1>8

\* Another process leads: the requests under way fail, the loops go on.
LEMMA FailoverKeeps ==
    ASSUME IInv, Failover
    PROVE  IInv'
<1> USE DEF world, client
<1>1. Types /\ Undeparted
    BY TypeParts DEF IInv
<1>2. UNCHANGED <<cluster, uids, departed, owner, awaited, dp>> /\ Spend("failovers")
    BY DEF Failover
<1>3. store' \in {None, store, cluster} /\ synced' \in BOOLEAN /\ stored' \in BOOLEAN
      /\ (stored' => stored) /\ (~stored' => store' = None) /\ (stored' => store' \in {store, cluster})
  <2>0. synced \in BOOLEAN /\ stored \in BOOLEAN
      BY <1>1 DEF Types
  <2>1. synced' \in BOOLEAN /\ stored' \in BOOLEAN /\ (stored' => stored)
    <3>1. synced' \in {FALSE, synced} /\ stored' \in {FALSE, stored}
        BY DEF Failover
    <3>2. synced' = FALSE \/ synced' = synced
        BY <3>1
    <3>3. stored' = FALSE \/ stored' = stored
        BY <3>1
    <3>4. synced' \in BOOLEAN
        BY <2>0, <3>2
    <3>5. stored' \in BOOLEAN
        BY <2>0, <3>3
    <3>6. stored' => stored
      <4>1. CASE stored' = FALSE
          BY <4>1
      <4>2. CASE stored' = stored
          BY <4>2
      <4> QED  BY <3>3, <4>1, <4>2
    <3> QED  BY <3>4, <3>5, <3>6
  <2>2. CASE stored'
      BY <2>1, <2>2 DEF Failover
  <2>3. CASE ~stored'
      BY <2>1, <2>3 DEF Failover
  <2> QED  BY <2>1, <2>2, <2>3
<1>4. /\ polls' \in [DataPlane -> [Request -> Poll0]]
      /\ \A d \in DataPlane, i \in Request :
            LET q == polls'[d][i] IN
            /\ q.st \in {"none", "answered"} /\ q.receiver = "none" /\ q.report = NoReport
            /\ q.answer.kind \in {"none", "failed"}
  <2>1. Answer("failed", None) \in Answers /\ Answer("failed", None).kind = "failed"
      BY AnswerFacts, VersionFacts
  <2>2. \A d, i : polls' = [e \in DataPlane |-> [j \in Request |-> Reply(e, j, Answer("failed", None))]]
      BY DEF Failover, Reply
  <2>3. \A d, i : LET q == Reply(d, i, Answer("failed", None)) IN
            /\ q \in Poll0 /\ q.st \in {"none", "answered"} /\ q.receiver = "none"
            /\ q.report = NoReport /\ q.answer.kind \in {"none", "failed"}
      BY <2>1, ReplyFacts DEF NoAnswer, Answer
  <2> QED  BY <2>2, <2>3
<1>5. Types'
  <2>1. slot' \in [there : BOOLEAN, value : Version0] /\ (~slot'.there => slot' = NoSlot)
      BY VersionFacts DEF Failover, NoSlot
  <2>2. pass' \in [st : {"idle", "disown", "translate", "check", "remove"}, gateway : Version0]
      BY VersionFacts DEF Failover, IdlePass
  <2>3. forget' \in [pending : BOOLEAN, st : {"idle", "read"}, live : BOOLEAN]
      BY DEF Failover, IdleForget
  <2>4. reports' \in [DataPlane -> Reports]
      BY Constants DEF Failover
  <2>5. store' \in Version0 /\ leading' \in BOOLEAN /\ queued' \in BOOLEAN /\ requeue' \in BOOLEAN
      BY <1>1, <1>3, VersionFacts DEF Failover, Types
  <2> QED  BY <1>1, <1>2, <1>3, <1>4, <2>1, <2>2, <2>3, <2>4, <2>5 DEF Types
<1>6. Receivers'
    BY <1>4 DEF Receivers
<1>7. Budget'
  <2>1. left' \in Left0
        /\ left'.moves = left.moves
      BY <1>2 DEF IInv, Budget, Spend, Left0
  <2> QED  BY <1>2, <2>1 DEF IInv, Budget, Failover, IdlePass
<1>8. Undeparted'
    BY <1>1, <1>2, <1>3, <1>4 DEF Undeparted, Present, Failover, IdlePass, IdleForget
<1>9. ForgetInv' /\ NoOrphanSlot'
    BY DEF Failover, ForgetInv, NoOrphanSlot, IdleForget, NoSlot
<1>10. Awaiting'
  <2>1. \A d \in DataPlane : awaited[d] = 0 \/ awaited[d] \in Request
      BY <1>1 DEF Types
  <2>2. ASSUME NEW d \in DataPlane, awaited[d] # 0
        PROVE  polls'[d][awaited[d]].st \in {"none", "answered"}
               /\ polls'[d][awaited[d]].answer.kind # "unchanged"
      BY <1>4, <2>1, <2>2
  <2> QED  BY <1>2, <2>2 DEF IInv, Awaiting
<1>11. Honesty'
  <2>1. Honest(NoReport)
      BY VersionFacts, BoundsAssumption DEF Honest, NoReport
  <2> QED  BY <1>2, <1>4, <2>1 DEF IInv, Honesty, Failover
<1> QED
    BY <1>5, <1>6, <1>7, <1>8, <1>9, <1>10, <1>11, TypePartsNext DEF IInv

-----------------------------------------------------------------------------
LEMMA StepInv == IInv /\ [Next]_vars => IInv'
<1> SUFFICES ASSUME IInv, [Next]_vars PROVE IInv'
    OBVIOUS
<1>1. CASE Cluster
    BY <1>1, ClusterKeeps, FailoverKeeps DEF Cluster
<1>2. CASE Controller
    BY <1>2, ViewKeeps, PassKeeps, DropKeeps DEF Controller, Pass
<1>3. ASSUME NEW d \in DataPlane, Loop(d) \/ Disturbed(d) PROVE IInv'
    BY <1>3, PollKeeps, LoopKeeps DEF Loop
<1>4. ASSUME NEW d \in DataPlane, NEW i \in Request, Server(d, i) \/ Hangup(d, i) PROVE IInv'
    BY <1>4, HandlerKeeps, DropKeeps DEF Server
<1>5. CASE UNCHANGED vars
  <2>1. UNCHANGED <<cluster, uids, departed, left, store, owner, leading, synced, stored, queued, requeue,
                    pass, forget, slot, reports, polls, awaited, dp>>
      BY <1>5 DEF vars, world, view, work, hub, client
  <2>2. Types' /\ Receivers'
      BY <2>1, TypeParts DEF IInv, Types, Receivers
  <2>3. Budget' /\ Undeparted' /\ ForgetInv' /\ NoOrphanSlot'
      BY <2>1 DEF IInv, Budget, Undeparted, Present, ForgetInv, NoOrphanSlot
  <2>4. Awaiting' /\ Honesty'
      BY <2>1 DEF IInv, Awaiting, Honesty
  <2> QED  BY <2>2, <2>3, <2>4, TypePartsNext DEF IInv
<1> QED  BY <1>1, <1>2, <1>3, <1>4, <1>5 DEF Next

LEMMA Invariance == Spec => []IInv
BY InitInv, StepInv, PTL DEF Spec

\* Every variable keeps its type, and a handler's receiver is open exactly
\* while the hub's slot it subscribed to is there (hub.rs, server.rs).
THEOREM TypeCorrect == Spec => []TypeOK
<1>1. IInv => TypeOK
    BY DEF IInv
<1> QED  BY <1>1, Invariance, PTL

-----------------------------------------------------------------------------
(* Who answers "gone".                                                      *)

\* No request comes to be told "gone".
NoneToldGone ==
    \A d \in DataPlane, i \in Request : Told(d, i, "gone")' => Told(d, i, "gone")

LEMMA PutTells ==
    ASSUME Types, NEW d \in DataPlane, NEW i \in Request, NEW q \in Poll0, Put(d, i, q),
           q.answer.kind # "gone" \/ q.answer = polls[d][i].answer
    PROVE  NoneToldGone
<1>1. /\ polls'[d][i] = q
      /\ \A e \in DataPlane, j \in Request : e # d \/ j # i => polls'[e][j] = polls[e][j]
    BY PutKeeps
<1> QED  BY <1>1 DEF NoneToldGone, Told

LEMMA DropTells == ASSUME Types, HubRemove PROVE NoneToldGone
BY ClosingFacts DEF HubRemove, NoneToldGone, Told

\* A poll that is asked, answered or given up.
LEMMA LoopTells ==
    ASSUME Types, NEW d \in DataPlane, Loop(d) \/ Disturbed(d)
    PROVE  NoneToldGone
<1>1. CASE Abandon(d)
  <2>1. \A e \in DataPlane, j \in Request : polls'[e][j] = polls[e][j] \/ polls'[e][j] = NoPoll
      BY <1>1 DEF Abandon, Types
  <2> QED  BY <2>1, Constants DEF NoneToldGone, Told
<1>2. CASE Poll(d)
  <2>1. PICK i \in Request : \E q : Put(d, i, q) /\ q.answer.kind \in {"none", "standby"}
    <3>1. LET asked == [NoPoll EXCEPT !.st = "auth", !.have = dp[d].have,
                          !.report = [dp[d].report EXCEPT !.leaving = dp[d].st = "leaving"]]
              refused == [NoPoll EXCEPT !.st = "answered", !.answer = Answer("standby", None)]
          IN  asked.answer.kind = "none" /\ refused.answer.kind = "standby"
        BY DEF NoPoll, NoAnswer, Answer
    <3> QED  BY <1>2, <3>1 DEF Poll, Put
  <2>2. PICK q : Put(d, i, q) /\ q.answer.kind \in {"none", "standby"}
      BY <2>1
  <2>3. polls'[d][i] = q
        /\ \A e \in DataPlane, j \in Request : e # d \/ j # i => polls'[e][j] = polls[e][j]
      BY <2>2 DEF Put, Types
  <2> QED  BY <2>2, <2>3 DEF NoneToldGone, Told
<1> QED
    BY <1>1, <1>2 DEF Loop, Disturbed, TakeAnswer, PollFails, Reapply, StopDataPlane, RestartDataPlane

\* A handler tells "gone" only of a Gateway that departed, or whose store is
\* not filled.
LEMMA HandlerTells ==
    ASSUME IInv, NEW d \in DataPlane, NEW i \in Request, Server(d, i) \/ Hangup(d, i)
    PROVE  NoneToldGone \/ departed \/ ~stored
<1> DEFINE p == polls[d][i]
<1>1. Types /\ Receivers /\ p \in Poll0
    BY TypeParts DEF IInv, Types
<1>2. ~departed => p.receiver # "closed" /\ p.st # "undo" /\ (stored <=> Serves)
    BY DEF IInv, Undeparted, Present, Serves
<1>3. ASSUME NEW answer \in Answers, answer.kind # "gone", Put(d, i, Reply(d, i, answer))
      PROVE  NoneToldGone
  <2>1. Reply(d, i, answer) \in Poll0 /\ Reply(d, i, answer).answer \in {NoAnswer, answer}
      BY ReplyFacts
  <2>2. Reply(d, i, answer).answer.kind # "gone"
      BY <1>3, <2>1 DEF NoAnswer, Answer
  <2> QED  BY <1>1, <1>3, <2>1, <2>2, PutTells
<1>4. Value(d, i) \in Version0 /\ None \in Version0
    BY <1>1, VersionFacts DEF Value, Poll0, Types
<1>5. CASE CheckServed(d, i) /\ Serves
  <2>1. [p EXCEPT !.st = "admit"] \in Poll0 /\ [p EXCEPT !.st = "admit"].answer = p.answer
      BY <1>1 DEF Poll0, PollSt
  <2>2. Put(d, i, [p EXCEPT !.st = "admit"])
      BY <1>1, <1>5, ServerPuts
  <2> QED  BY <1>1, <2>1, <2>2, PutTells
<1>6. CASE Admit(d, i)
  <2>1. CASE p.report.leaving
      BY <1>1, <1>3, <1>4, <1>6, <2>1, ServerPuts, AnswerFacts
  <2>2. CASE ~p.report.leaving
    <3> DEFINE q == [p EXCEPT !.st = "recheck", !.receiver = "open"]
    <3>1. q \in Poll0 /\ q.answer = p.answer
        BY <1>1 DEF Poll0, PollSt
    <3>2. Put(d, i, q)
        BY <1>1, <1>6, <2>2, ServerPuts
    <3> QED  BY <1>1, <3>1, <3>2, PutTells
  <2> QED  BY <2>1, <2>2
<1>7. CASE Recheck(d, i)
  <2> DEFINE q == [p EXCEPT !.st = IF Serves THEN "held" ELSE "undo"]
  <2>1. q \in Poll0 /\ q.answer = p.answer
      BY <1>1 DEF Poll0, PollSt
  <2>2. Put(d, i, q)
      BY <1>1, <1>7, ServerPuts
  <2> QED  BY <1>1, <2>1, <2>2, PutTells
<1>8. CASE Serve(d, i)
    BY <1>1, <1>3, <1>4, <1>8, ServerPuts, AnswerFacts
<1>9. CASE Expire(d, i)
  <2>1. Held(Value(d, i), p.have) \in Answers /\ Held(Value(d, i), p.have).kind # "gone"
      BY <1>4, AnswerFacts DEF Held
  <2> QED  BY <1>1, <1>3, <1>9, <2>1, ServerPuts
<1>10. CASE Hangup(d, i)
    BY <1>1, <1>10, ServerPuts, PutTells, Constants
<1>11. CASE (CheckServed(d, i) /\ ~Serves) \/ Undo(d, i) \/ Closed(d, i)
    BY <1>2, <1>11 DEF Undo, Closed
<1> QED  BY <1>5, <1>6, <1>7, <1>8, <1>9, <1>10, <1>11 DEF Server

LEMMA StepTells == IInv /\ [Next]_vars => NoneToldGone \/ departed \/ ~stored
<1> SUFFICES ASSUME IInv, [Next]_vars PROVE NoneToldGone \/ departed \/ ~stored
    OBVIOUS
<1>1. Types
    BY TypeParts DEF IInv
<1>2. CASE polls' = polls
    BY <1>2 DEF NoneToldGone, Told
<1>3. CASE Failover
  <2>1. \A d \in DataPlane, i \in Request : polls'[d][i] = Reply(d, i, Answer("failed", None))
      BY <1>3 DEF Failover, Reply
  <2>2. Answer("failed", None) \in Answers /\ Answer("failed", None).kind = "failed"
      BY AnswerFacts, VersionFacts
  <2>3. \A d, i : Reply(d, i, Answer("failed", None)).answer.kind # "gone"
    <3>1. NoAnswer.kind = "none"
        BY DEF NoAnswer, Answer
    <3> HIDE DEF NoAnswer
    <3> QED  BY <2>2, <3>1, ReplyFacts
  <2> QED  BY <2>1, <2>3 DEF NoneToldGone, Told
<1>4. CASE HubRemove
    BY <1>1, <1>4, DropTells
<1>5. ASSUME NEW d \in DataPlane, Loop(d) \/ Disturbed(d) PROVE NoneToldGone
    BY <1>1, <1>5, LoopTells
<1>6. ASSUME NEW d \in DataPlane, NEW i \in Request, Server(d, i) \/ Hangup(d, i)
      PROVE  NoneToldGone \/ departed \/ ~stored
    BY <1>6, HandlerTells
<1>7. CASE Cluster
    BY <1>2, <1>3, <1>7 DEF Cluster, Edit, Delete, Recreate, ClassChange
<1>8. CASE Controller
    BY <1>2, <1>4, <1>8 DEF Controller, Watch, List, Fill, Gain, Pass, PassDropped, PassBegin, PassDisown,
        PassPublish, PassCheck, PassRemove, Requeue, ForgetRead, ForgetRetain
<1>9. CASE UNCHANGED vars
    BY <1>2, <1>9 DEF vars
<1> QED  BY <1>5, <1>6, <1>7, <1>8, <1>9 DEF Next

\* A "gone" of a Gateway that was there all along is told between the mark of
\* its list and the store of it and at no other time: no failover, missing
\* class, dropped slot or abandoned poll tells one (server.rs, reconcile.rs).
THEOREM GoneIsTrue == Spec => GoneOnlyWhileUnstored
<1>1. IInv /\ [Next]_vars =>
        [\A d \in DataPlane, i \in Request :
            Told(d, i, "gone")' /\ ~Told(d, i, "gone") => departed \/ ~stored]_vars
    BY StepTells DEF NoneToldGone
<1> QED  BY <1>1, Invariance, PTL DEF Spec, GoneOnlyWhileUnstored

\* Neither a pass that published late nor a poll that subscribed late leaves
\* a slot of a Gateway the store does not hold (reconcile.rs, server.rs).
THEOREM SlotsAreOwned == Spec => []NoOrphanSlot
<1>1. IInv => NoOrphanSlot
    BY DEF IInv
<1> QED  BY <1>1, Invariance, PTL

\* An "unchanged" confirms only what its data plane serves, or refused, of
\* the versions it received (server.rs, held; dataplane/mod.rs, handle).
THEOREM ConfirmationIsTrue == Spec => []ConfirmsWhatIsServed
<1>1. IInv => ConfirmsWhatIsServed
    BY DEF IInv, Awaiting, ConfirmsWhatIsServed
<1> QED  BY <1>1, Invariance, PTL

\* A version refused is never reported as applied, whatever moves the report
\* on its way to the store (dataplane/mod.rs, refuse, as_reported, reapply).
THEOREM ReportsAreHonest == Spec => []NoRefusedVersionReportedApplied
<1>1. IInv => NoRefusedVersionReportedApplied
    BY DEF IInv, Honesty, Honest, NoRefusedVersionReportedApplied
<1> QED  BY <1>1, Invariance, PTL
=============================================================================
