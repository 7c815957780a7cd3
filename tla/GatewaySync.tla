---------------------------- MODULE GatewaySync ----------------------------
(***************************************************************************)
(* How one Gateway's config reaches its data planes: the controller's      *)
(* reconcile passes publish snapshots into the hub (reconcile.rs, hub.rs), *)
(* data planes long-poll the sync server for them and report what they     *)
(* serve (server.rs, reports.rs, dataplane/mod.rs, dataplane/remote.rs).   *)
(*                                                                         *)
(* The Gateway is a pair <<uid, revision>>: a recreated one has another    *)
(* uid, and the revision stands for everything its translation reads.  A   *)
(* snapshot's version is a hash of both, so it is that pair too.  Steps    *)
(* between two of which the code awaits, or releases a lock another task   *)
(* takes, are actions of their own: the runtime is multi-threaded.         *)
(***************************************************************************)
EXTENDS Naturals

CONSTANTS
    DataPlane,      \* data plane instances (pods) of the Gateway
    Rejected,       \* revisions whose translation or parameters are refused
    Unusable,       \* revisions whose snapshot the data planes cannot decode
    Owners,         \* whose the Gateway's class may become
    MaxUid,         \* how often the Gateway is created
    MaxRevision,    \* revisions of one Gateway
    MaxMoves,       \* how often a report moves
    Budgets         \* how many outside events of each kind there are

ASSUME BoundsAssumption ==
    /\ MaxUid \in Nat \ {0} /\ MaxRevision \in Nat \ {0}
    /\ MaxMoves \in Nat
    /\ Budgets \subseteq [edits : Nat, creations : Nat, classes : Nat, failovers : Nat,
                          moves : 0 .. MaxMoves, failures : Nat, restarts : Nat, stops : Nat]
    /\ Rejected \cup Unusable \subseteq 1 .. MaxRevision
    /\ Owners \subseteq {"Ours", "Other", "Missing"}

VARIABLES
    cluster,    \* the Gateway object in the apiserver
    uids,       \* uids given out
    departed,   \* history: the Gateway was deleted or another's at some time
    left,       \* how many of each outside event are left
    store,      \* the controller's reflector store
    owner,      \* the Gateway's class: ours, another controller's, missing
    leading,    \* this controller holds the lease
    synced,     \* every kind is marked listed
    stored,     \* the reflector stored its list of Gateways
    queued,     \* a reconcile is due
    requeue,    \* a reconcile is scheduled for later
    pass,       \* the reconcile pass under way
    forget,     \* the task that forgets deleted Gateways
    slot,       \* the hub's slot for the Gateway
    reports,    \* the report store
    polls,      \* two requests per instance: the awaited and an abandoned one
    awaited,    \* which of them the instance awaits, 0 for none
    dp          \* the data planes' sync loops

world == <<cluster, uids, departed>>
view == <<store, owner, leading, synced, stored>>
work == <<queued, requeue, pass, forget>>
hub == <<slot, reports>>
client == <<awaited, dp>>
vars == <<world, left, view, work, hub, polls, client>>

-----------------------------------------------------------------------------
None == <<0, 0>>
Versions == (1 .. MaxUid) \X (1 .. MaxRevision)
Uid(v) == v[1]
Revision(v) == v[2]

Request == {1, 2}

\* InstanceReport: the version, whether it was refused, what else may move
\* (listeners bound, addresses, the DNS epoch), and leaving.
Report == [applied : Versions, refused : BOOLEAN, epoch : 0 .. MaxMoves, leaving : BOOLEAN]
NoReport == [applied |-> None, refused |-> FALSE, epoch |-> 0, leaving |-> FALSE]
Reports == Report \cup {NoReport}

Answer(kind, version) == [kind |-> kind, version |-> version]
NoAnswer == Answer("none", None)
Answers == [kind : {"none", "snapshot", "unchanged", "pending", "left", "gone",
                    "standby", "failed"},
            version : Versions \cup {None}]

\* A handler's receiver of the slot's channel is "open", or, the slot gone,
\* "closed" with the value sent last.
NoPoll == [st |-> "none", have |-> None, report |-> NoReport, receiver |-> "none",
           last |-> None, answer |-> NoAnswer]
PollSt == {"none", "auth", "admit", "recheck", "undo", "held", "answered"}

NoSlot == [there |-> FALSE, value |-> None]

Fresh == [st |-> "running", current |-> None, have |-> None, refused |-> None,
          report |-> NoReport]

IdlePass == [st |-> "idle", gateway |-> None]
IdleForget == [pending |-> FALSE, st |-> "idle", live |-> FALSE]

TypeOK ==
    /\ {cluster, store} \subseteq Versions \cup {None}
    /\ uids \in 1 .. MaxUid
    /\ owner \in {"Ours", "Other", "Missing"}
    /\ {leading, synced, stored, queued, requeue, departed} \subseteq BOOLEAN
    /\ slot \in [there : BOOLEAN, value : Versions \cup {None}]
    /\ ~slot.there => slot = NoSlot
    /\ pass \in [st : {"idle", "disown", "translate", "check", "remove"},
                 gateway : Versions \cup {None}]
    /\ forget \in [pending : BOOLEAN, st : {"idle", "read"}, live : BOOLEAN]
    /\ reports \in [DataPlane -> Reports]
    /\ polls \in [DataPlane -> [Request ->
          [st : PollSt, have : Versions \cup {None}, report : Reports,
           receiver : {"none", "open", "closed"}, last : Versions \cup {None},
           answer : Answers]]]
    /\ awaited \in [DataPlane -> Request \cup {0}]
    /\ dp \in [DataPlane ->
          [st : {"running", "leaving", "left", "stopped"}, current : Versions \cup {None},
           have : Versions \cup {None}, refused : Versions \cup {None}, report : Reports]]
    \* a receiver is open exactly while a handler past Subscribe shares the slot
    /\ \A d \in DataPlane, i \in Request :
          /\ polls[d][i].receiver = "open" => slot.there
          /\ polls[d][i].receiver # "none" <=> polls[d][i].st \in {"recheck", "undo", "held"}

Init ==
    /\ cluster = <<1, 1>> /\ uids = 1
    /\ departed = FALSE
    /\ left \in Budgets
    /\ store = None /\ owner = "Ours"
    /\ leading = FALSE /\ synced = FALSE /\ stored = FALSE
    /\ queued = FALSE /\ requeue = FALSE
    /\ pass = IdlePass /\ forget = IdleForget
    /\ slot = NoSlot
    /\ reports = [d \in DataPlane |-> NoReport]
    /\ polls = [d \in DataPlane |-> [i \in Request |-> NoPoll]]
    /\ awaited = [d \in DataPlane |-> 0]
    /\ dp = [d \in DataPlane |-> Fresh]

Spend(what) == left[what] > 0 /\ left' = [left EXCEPT ![what] = @ - 1]

-----------------------------------------------------------------------------
(* The cluster: users edit, delete and recreate the Gateway, classes move.  *)

Edit ==
    /\ Spend("edits")
    /\ cluster # None
    /\ \E r \in 1 .. MaxRevision :
          r > Revision(cluster) /\ cluster' = <<Uid(cluster), r>>
    /\ UNCHANGED <<uids, departed, view, work, hub, polls, client>>

Delete ==
    /\ cluster # None
    /\ cluster' = None /\ departed' = TRUE
    /\ UNCHANGED <<uids, left, view, work, hub, polls, client>>

Recreate ==
    /\ Spend("creations")
    /\ cluster = None /\ uids < MaxUid
    /\ uids' = uids + 1
    /\ \E r \in 1 .. MaxRevision : cluster' = <<uids + 1, r>>
    /\ UNCHANGED <<departed, view, work, hub, polls, client>>

\* A GatewayClass event reconciles every Gateway of the store.
ClassChange ==
    /\ Spend("classes")
    /\ owner' \in Owners \ {owner}
    /\ queued' = (queued \/ store # None)
    /\ departed' = (departed \/ owner' = "Other")
    /\ UNCHANGED <<cluster, uids, store, leading, synced, stored, requeue, pass, forget, hub,
                   polls, client>>

\* The watch, or a relist after it was down, brings the store to the
\* cluster.  An applied object is reconciled; a deletion and a relist wake
\* the forget task.
Watch ==
    /\ stored /\ store # cluster
    /\ store' = cluster
    /\ queued' = (queued \/ cluster # None)
    /\ forget' = IF store # None /\ Uid(store) # Uid(cluster)
                 THEN [forget EXCEPT !.pending = TRUE] ELSE forget
    /\ UNCHANGED <<world, left, owner, leading, synced, stored, requeue, pass, hub, polls,
                   client>>

\* The last kind is marked listed, and the synced trigger reconciles every
\* Gateway of the store.  A kind is marked before the reflector stores its
\* list, so the store of Gateways may still be empty.
List ==
    /\ ~synced
    /\ synced' = TRUE
    /\ queued' = (queued \/ store # None)
    /\ UNCHANGED <<world, left, store, owner, leading, stored, requeue, pass, forget, hub,
                   polls, client>>

\* The reflector stores the first list of Gateways: its objects are
\* reconciled, and the forget task is woken.
Fill ==
    /\ ~stored
    /\ stored' = TRUE
    /\ store' = cluster
    /\ queued' = (queued \/ cluster # None)
    /\ forget' = [forget EXCEPT !.pending = TRUE]
    /\ UNCHANGED <<world, left, owner, leading, synced, requeue, pass, hub, polls, client>>

\* A variant that reconciles nothing when it gains the lease.
GainSilently ==
    /\ ~leading
    /\ leading' = TRUE
    /\ UNCHANGED <<world, left, store, owner, synced, stored, work, hub, polls, client>>

\* The lease is gained: every Gateway is reconciled.
Gain ==
    /\ ~leading
    /\ leading' = TRUE
    /\ queued' = (queued \/ store # None)
    /\ UNCHANGED <<world, left, store, owner, synced, stored, requeue, pass, forget, hub,
                   polls, client>>

\* The leader's process ends, a replica takes over that has listed and
\* stored or has not: hub, reports, passes and requests are the process's own.
Failover ==
    /\ Spend("failovers")
    /\ leading' = FALSE
    /\ synced' \in {FALSE, synced}
    /\ stored' \in {FALSE, stored}
    /\ store' \in IF stored' THEN {store, cluster} ELSE {None}
    /\ slot' = NoSlot
    /\ queued' = FALSE /\ requeue' = FALSE
    /\ pass' = IdlePass /\ forget' = IdleForget
    /\ reports' = [d \in DataPlane |-> NoReport]
    /\ polls' = [d \in DataPlane |-> [i \in Request |->
           IF awaited[d] = i
           THEN [NoPoll EXCEPT !.st = "answered", !.answer = Answer("failed", None)]
           ELSE NoPoll]]
    /\ UNCHANGED <<world, owner, client>>

-----------------------------------------------------------------------------
(* The hub.                                                                 *)

\* Hub::publish: the slot's channel is created if there is none; a version
\* it holds already is left as it is.
HubPublish(v) == slot' = [there |-> TRUE, value |-> v]

\* The receivers once the slot is dropped: their channel closes, its last
\* value stays with them.
Closing(requests) ==
    [d \in DataPlane |-> [i \in Request |->
        IF requests[d][i].receiver = "open"
        THEN [requests[d][i] EXCEPT !.receiver = "closed", !.last = slot.value]
        ELSE requests[d][i]]]

\* Hub::remove and Hub::retain.
HubRemove == slot' = NoSlot /\ polls' = Closing(polls)

-----------------------------------------------------------------------------
(* Reconcile passes: one at a time for a Gateway.                           *)

\* A pass for a Gateway gone from the store is dropped by the runtime, which
\* starts none before the store is there.
PassDropped ==
    /\ queued /\ pass.st = "idle" /\ stored /\ store = None
    /\ queued' = FALSE
    /\ UNCHANGED <<world, left, view, requeue, pass, forget, hub, polls, client>>

\* publish, up to its first await.  Before the caches are synced, off the
\* lease and while the class is missing nothing changes.
PassBegin ==
    /\ queued /\ pass.st = "idle" /\ store # None
    /\ queued' = FALSE /\ requeue' = FALSE
    /\ pass' = IF ~synced \/ ~leading \/ owner = "Missing" THEN IdlePass
               ELSE [st |-> IF owner = "Ours" THEN "translate" ELSE "disown",
                     gateway |-> store]
    /\ UNCHANGED <<world, left, view, forget, hub, polls, client>>

\* The class names another controller: the Gateway is served no more.
PassDisown ==
    /\ pass.st = "disown"
    /\ HubRemove
    /\ reports' = [d \in DataPlane |-> NoReport]
    /\ pass' = IdlePass
    /\ requeue' \in BOOLEAN      \* releasing the data plane may fail
    /\ UNCHANGED <<world, left, view, queued, forget, client>>

\* Translated and provisioned: the snapshot is published, unless the
\* translation or the parameters were refused.
PassPublish ==
    /\ pass.st = "translate"
    /\ pass' = [pass EXCEPT !.st = "check"]
    /\ IF Revision(pass.gateway) \in Rejected THEN UNCHANGED slot ELSE HubPublish(pass.gateway)
    /\ UNCHANGED <<world, left, view, queued, requeue, forget, reports, polls, client>>

\* The Gateway may be gone, or another, since the pass began.  Otherwise
\* the pass is finished and requeued.
PassCheck ==
    /\ pass.st = "check"
    /\ IF Uid(store) # Uid(pass.gateway)
       THEN pass' = [pass EXCEPT !.st = "remove"] /\ UNCHANGED requeue
       ELSE pass' = IdlePass /\ requeue' = TRUE
    /\ UNCHANGED <<world, left, view, queued, forget, hub, polls, client>>

\* Then the slot goes, and the pass awaits a change.
PassRemove ==
    /\ pass.st = "remove"
    /\ HubRemove
    /\ pass' = IdlePass
    /\ UNCHANGED <<world, left, view, queued, requeue, forget, reports, client>>

\* Action::requeue, and error_policy's.
Requeue ==
    /\ requeue /\ ~queued
    /\ queued' = TRUE /\ requeue' = FALSE
    /\ UNCHANGED <<world, left, view, pass, forget, hub, polls, client>>

\* forget_deleted_gateways, on the permit of gateway_gone: the live
\* Gateways are read first, the hub and the reports retain them after.
ForgetRead ==
    /\ forget.pending /\ forget.st = "idle"
    /\ forget' = [pending |-> FALSE, st |-> "read", live |-> store # None]
    /\ UNCHANGED <<world, left, view, queued, requeue, pass, hub, polls, client>>

ForgetRetain ==
    /\ forget.st = "read"
    /\ forget' = [forget EXCEPT !.st = "idle", !.live = FALSE]
    /\ IF forget.live THEN UNCHANGED <<hub, polls>>
       ELSE HubRemove /\ reports' = [d \in DataPlane |-> NoReport]
    /\ UNCHANGED <<world, left, view, queued, requeue, pass, client>>

-----------------------------------------------------------------------------
(* The sync server: request i of instance d.                                *)

\* A variant that serves only the Gateways of a class known to be ours.
ServesOursOnly == store # None /\ owner = "Ours"

\* SyncServer::serves: a missing class keeps the Gateway served.
Serves == store # None /\ owner # "Other"

\* An answer to a request its instance gave up on has no reader.
Replied(requests, d, i, answer) ==
    [requests EXCEPT ![d][i] =
        IF awaited[d] = i THEN [NoPoll EXCEPT !.st = "answered", !.answer = answer]
        ELSE NoPoll]

Proceed(d, i, st) == polls' = [polls EXCEPT ![d][i].st = st]

\* Authenticated and read: a Gateway not served is gone.
CheckServed(d, i) ==
    /\ polls[d][i].st = "auth"
    /\ IF Serves THEN Proceed(d, i, "admit")
       ELSE polls' = Replied(polls, d, i, Answer("gone", None))
    /\ UNCHANGED <<world, left, view, work, hub, client>>

\* ReportStore::record: a report that differs reconciles the Gateway; a
\* leaving one is answered at once.  Hub::subscribe creates the slot.
Admit(d, i) ==
    LET report == polls[d][i].report IN
    /\ polls[d][i].st = "admit"
    /\ IF report = NoReport
       THEN UNCHANGED <<reports, queued>>
       ELSE /\ reports' = [reports EXCEPT ![d] = report]
            /\ queued' = (queued \/ reports[d] # report)
    /\ IF report.leaving
       THEN polls' = Replied(polls, d, i, Answer("left", None)) /\ UNCHANGED slot
       ELSE /\ slot' = [slot EXCEPT !.there = TRUE]
            /\ polls' = [polls EXCEPT ![d][i].st = "recheck", ![d][i].receiver = "open"]
    /\ UNCHANGED <<world, left, view, requeue, pass, forget, client>>

\* A variant without the second look at the store.
RecheckSkipped(d, i) ==
    /\ polls[d][i].st = "recheck"
    /\ Proceed(d, i, "held")
    /\ UNCHANGED <<world, left, view, work, hub, client>>

\* The Gateway may have gone in between.
Recheck(d, i) ==
    /\ polls[d][i].st = "recheck"
    /\ Proceed(d, i, IF Serves THEN "held" ELSE "undo")
    /\ UNCHANGED <<world, left, view, work, hub, client>>

\* Then the slot just created goes.
Undo(d, i) ==
    /\ polls[d][i].st = "undo"
    /\ slot' = NoSlot
    /\ polls' = Replied(Closing(polls), d, i, Answer("gone", None))
    /\ UNCHANGED <<world, left, view, work, reports, client>>

\* What the handler's receiver holds.
Value(d, i) == IF polls[d][i].receiver = "open" THEN slot.value ELSE polls[d][i].last

\* SyncServer::held: it vouches only for the version the channel holds.
Held(value, have) ==
    IF value = None THEN Answer("pending", None)
    ELSE IF value = have THEN Answer("unchanged", value)
    ELSE Answer("snapshot", value)

\* The channel holds another version than the poll's: it is served.
Serve(d, i) ==
    /\ polls[d][i].st = "held"
    /\ Value(d, i) \notin {None, polls[d][i].have}
    /\ polls' = Replied(polls, d, i, Answer("snapshot", Value(d, i)))
    /\ UNCHANGED <<world, left, view, work, hub, client>>

\* The channel closed under the poll, nothing unread in it.
Closed(d, i) ==
    /\ polls[d][i].st = "held" /\ polls[d][i].receiver = "closed"
    /\ Value(d, i) \in {None, polls[d][i].have}
    /\ polls' = Replied(polls, d, i, Answer("gone", None))
    /\ UNCHANGED <<world, left, view, work, hub, client>>

\* The hold ended, or another poll of the instance superseded this one.
Expire(d, i) ==
    /\ polls[d][i].st = "held"
    /\ polls' = Replied(polls, d, i, Held(Value(d, i), polls[d][i].have))
    /\ UNCHANGED <<world, left, view, work, hub, client>>

\* The server notices that the instance closed the connection: the handler
\* is dropped where it awaits.
Hangup(d, i) ==
    /\ polls[d][i].st \in {"auth", "held"} /\ awaited[d] # i
    /\ polls' = [polls EXCEPT ![d][i] = NoPoll]
    /\ UNCHANGED <<world, left, view, work, hub, client>>

-----------------------------------------------------------------------------
(* The data plane's sync loop.                                              *)

\* SyncLoop::request and leave (which has nothing to say without a report),
\* and the first half of handle: only the leader, its caches synced, goes on.
Poll(d) ==
    /\ dp[d].st \in {"running", "leaving"} /\ awaited[d] = 0
    /\ \E i \in Request :
        /\ polls[d][i].st = "none"
        /\ polls' = [polls EXCEPT ![d][i] =
              IF leading /\ synced
              THEN [NoPoll EXCEPT !.st = "auth", !.have = dp[d].have,
                       !.report = [dp[d].report EXCEPT !.leaving = dp[d].st = "leaving"]]
              ELSE [NoPoll EXCEPT !.st = "answered", !.answer = Answer("standby", None)]]
        /\ awaited' = [awaited EXCEPT ![d] = i]
    /\ UNCHANGED <<world, left, view, work, hub, dp>>

\* The request is given up; its answer, if it is there, is lost.
Abandon(d) ==
    /\ awaited' = [awaited EXCEPT ![d] = 0]
    /\ polls' = [polls EXCEPT ![d] = [i \in Request |->
          IF awaited[d] = i /\ polls[d][i].st = "answered" THEN NoPoll ELSE polls[d][i]]]

\* SyncLoop::serve.
Served(loop, v) ==
    [loop EXCEPT !.current = v, !.have = v, !.refused = None,
        !.report = [applied |-> v, refused |-> FALSE, epoch |-> @.epoch, leaving |-> FALSE]]

\* A variant that names the refused version and drops why.
AsReportedUnflagged(loop, report) ==
    IF loop.refused = None THEN report ELSE [report EXCEPT !.applied = loop.refused]

\* SyncLoop::as_reported: what a moved report goes out as while a later
\* version stands refused.
AsReported(loop, report) ==
    IF loop.refused = None THEN report
    ELSE [report EXCEPT !.applied = loop.refused, !.refused = TRUE]

\* A variant that does not remember the refusal.
RefusedForgotten(loop, v) ==
    [loop EXCEPT !.have = v, !.report = [@ EXCEPT !.applied = v, !.refused = TRUE]]

\* SyncLoop::refuse: the table served stays, the report names the version.
Refused(loop, v) ==
    LET refusing == [loop EXCEPT !.have = v, !.refused = v]
    IN [refusing EXCEPT !.report = AsReported(refusing, @)]

\* SyncLoop::gone: every listener is closed, the next poll is a first one.
Cleared(loop) == [Fresh EXCEPT !.st = loop.st]

\* SyncLoop::handle.
Handled(loop, answer) ==
    CASE answer.kind = "snapshot" ->
            IF Revision(answer.version) \in Unusable THEN Refused(loop, answer.version)
            ELSE Served(loop, answer.version)
      [] answer.kind = "gone" -> Cleared(loop)
      [] OTHER -> loop

TakeAnswer(d) ==
    LET answer == polls[d][awaited[d]].answer IN
    /\ awaited[d] # 0 /\ polls[d][awaited[d]].st = "answered"
    /\ dp' = [dp EXCEPT ![d] =
          IF @.st = "leaving"
          THEN [@ EXCEPT !.st = IF answer.kind = "left" THEN "left" ELSE "stopped"]
          ELSE Handled(@, answer)]
    /\ Abandon(d)
    /\ UNCHANGED <<world, left, view, work, hub>>

\* The connection fails, or a timeout passes.
PollFails(d) ==
    /\ Spend("failures")
    /\ awaited[d] # 0
    /\ dp' = [dp EXCEPT ![d].st = IF @ = "leaving" THEN "stopped" ELSE @]
    /\ Abandon(d)
    /\ UNCHANGED <<world, view, work, hub>>

\* SyncLoop::reapply: the report of the snapshot served moves, and is sent
\* at once with another poll.
Reapply(d) ==
    /\ Spend("moves")
    /\ dp[d].st = "running" /\ dp[d].current # None
    /\ dp' = [dp EXCEPT ![d].report =
          AsReported(dp[d], [applied |-> dp[d].current, refused |-> FALSE,
                             epoch |-> @.epoch + 1, leaving |-> FALSE])]
    /\ Abandon(d)
    /\ UNCHANGED <<world, view, work, hub>>

\* SIGTERM: the poll under way is dropped for the one that says leaving, if
\* there is a report to send.
StopDataPlane(d) ==
    /\ Spend("stops")
    /\ dp[d].st = "running"
    /\ dp' = [dp EXCEPT ![d].st = IF dp[d].report = NoReport THEN "stopped" ELSE "leaving"]
    /\ Abandon(d)
    /\ UNCHANGED <<world, view, work, hub>>

\* The container restarts: the pod, and so the instance, stays.
RestartDataPlane(d) ==
    /\ Spend("restarts")
    /\ dp[d].st = "running"
    /\ dp' = [dp EXCEPT ![d] = Fresh]
    /\ Abandon(d)
    /\ UNCHANGED <<world, view, work, hub>>

-----------------------------------------------------------------------------
Cluster == Edit \/ Delete \/ Recreate \/ ClassChange \/ Failover

Pass == PassDropped \/ PassBegin \/ PassDisown \/ PassPublish \/ PassCheck \/ PassRemove

Controller == Watch \/ List \/ Fill \/ Gain \/ Pass \/ Requeue \/ ForgetRead \/ ForgetRetain

Server(d, i) ==
    \/ CheckServed(d, i) \/ Admit(d, i) \/ Recheck(d, i) \/ Undo(d, i)
    \/ Serve(d, i) \/ Closed(d, i) \/ Expire(d, i)

Loop(d) == Poll(d) \/ TakeAnswer(d)

Disturbed(d) == PollFails(d) \/ Reapply(d) \/ StopDataPlane(d) \/ RestartDataPlane(d)

Next ==
    \/ Cluster
    \/ Controller
    \/ \E d \in DataPlane : Loop(d) \/ Disturbed(d)
    \/ \E d \in DataPlane, i \in Request : Server(d, i) \/ Hangup(d, i)

\* The controller's tasks, the server's handlers and the sync loops run on:
\* each is a task of a runtime that polls every ready task, and every wait
\* of theirs has a timer.
Fairness ==
    /\ WF_vars(Watch) /\ WF_vars(List) /\ WF_vars(Fill) /\ WF_vars(Gain)
    /\ WF_vars(Pass) /\ WF_vars(Requeue)
    /\ WF_vars(ForgetRead \/ ForgetRetain)
    /\ \A d \in DataPlane : WF_vars(Loop(d))
    /\ \A d \in DataPlane, i \in Request : WF_vars(Server(d, i))

Spec == Init /\ [][Next]_vars
FairSpec == Spec /\ Fairness

-----------------------------------------------------------------------------
(***************************************************************************)
(* "A 404 is only authoritative once the store is complete" (server.rs:162,*)
(* before the check of is_synced).  A data plane is told "gone", and       *)
(* closes its listeners, only if its Gateway was deleted or given to       *)
(* another controller at some time, or in the one window the check leaves  *)
(* open: every kind marked listed, and the list of Gateways not stored     *)
(* yet.  No failover, missing class, late removal of a slot or abandoned   *)
(* poll takes down a Gateway that was there all along (server.rs, handle,  *)
(* serves and poll; reconcile.rs, publish and forget_deleted_gateways).    *)
(***************************************************************************)
Told(d, i, kind) == polls[d][i].answer.kind = kind
GoneOnlyWhileUnstored ==
    [][\A d \in DataPlane, i \in Request :
          Told(d, i, "gone")' /\ ~Told(d, i, "gone") => departed \/ ~stored]_vars

(***************************************************************************)
(* Once the forget task is done, no slot is left of a Gateway the store    *)
(* does not hold: neither a pass that published after the deletion nor a   *)
(* poll that subscribed after it leaves one behind (reconcile.rs, publish  *)
(* and its stale check; server.rs, poll and its second serves).            *)
(***************************************************************************)
NoOrphanSlot ==
    slot.there =>
        \/ store # None
        \/ forget.pending \/ forget.st = "read"
        \/ pass.st \in {"check", "remove"}
        \/ \E d \in DataPlane, i \in Request : polls[d][i].st \in {"recheck", "undo"}

(***************************************************************************)
(* An "unchanged" a data plane will take is over the version it last       *)
(* received, which it serves unless it refused it: no lost, late or        *)
(* superseded answer confirms a configuration that is not served           *)
(* (server.rs, held; dataplane/mod.rs, handle).                            *)
(***************************************************************************)
ConfirmsWhatIsServed ==
    \A d \in DataPlane :
        LET answer == polls[d][awaited[d]].answer IN
        awaited[d] # 0 /\ answer.kind = "unchanged" /\ dp[d].st = "running" =>
            /\ answer.version = dp[d].have
            /\ dp[d].refused = None => dp[d].current = answer.version

(***************************************************************************)
(* No report in the store claims a version its sender cannot have applied: *)
(* a refused version stays reported as refused however the report moves    *)
(* (dataplane/mod.rs, refuse, as_reported and reapply).                    *)
(***************************************************************************)
NoRefusedVersionReportedApplied ==
    \A d \in DataPlane :
        reports[d] # NoReport /\ Revision(reports[d].applied) \in Unusable
            => reports[d].refused

(***************************************************************************)
(* "Stop serving the Gateways gone from the store" (reconcile.rs:213): the *)
(* slot of a Gateway, with the polls held on it, is dropped only while the *)
(* store does not hold it or its class is another's.  The controller's end *)
(* drops everything and is left aside.                                     *)
(***************************************************************************)
DropsOnlyTheGone ==
    [][slot.there /\ ~slot'.there /\ left'.failovers = left.failovers => ~Serves]_vars

(***************************************************************************)
(* "or, when it was recreated (another uid), the old one's snapshot"       *)
(* (reconcile.rs:316): with the store up to date and no pass, forget or    *)
(* handler under way, the slot does not serve the snapshot of a Gateway    *)
(* deleted since under the same name.                                      *)
(***************************************************************************)
NoSnapshotOfTheOldUid ==
    /\ store = cluster /\ store # None /\ slot.value # None
    /\ ~queued /\ pass = IdlePass /\ forget = IdleForget
    => Uid(slot.value) = Uid(store)

(***************************************************************************)
(* "Report leaving, so the controller stops counting this instance as      *)
(* live" (dataplane/mod.rs:466): once the controller acknowledged the      *)
(* leave, the store holds no report of the instance as live.               *)
(***************************************************************************)
LeaveIsFinal ==
    \A d \in DataPlane :
        dp[d].st = "left" => reports[d].leaving \/ reports[d] = NoReport

(***************************************************************************)
(* Once the cluster stays as it is, every running data plane comes to      *)
(* serve the Gateway's current snapshot, or to have refused that very one, *)
(* and the report store to say so; it comes to serve nothing if the        *)
(* Gateway is gone.                                                        *)
(***************************************************************************)
Settled(d) ==
    dp[d].st = "running" =>
        /\ cluster # None /\ owner = "Ours" /\ Revision(cluster) \notin Rejected =>
              /\ dp[d].have = cluster
              /\ IF Revision(cluster) \in Unusable THEN dp[d].refused = cluster
                 ELSE dp[d].current = cluster /\ dp[d].refused = None
              /\ reports[d] = dp[d].report
        /\ cluster = None \/ owner = "Other" => dp[d].current = None

Converges == \A d \in DataPlane : <>[]Settled(d)
=============================================================================
