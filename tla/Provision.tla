------------------------------ MODULE Provision ------------------------------
(***************************************************************************)
(* A Managed Gateway's data-plane objects                                  *)
(* (src/src/kubernetes/controller/provision/*.rs, params.rs): parameters   *)
(* merged from class and Gateway, the ports bound behind the Service, the  *)
(* preflight that finds every wanted name free or ours, the server-side    *)
(* applies guarded by the object's uid and by the record of what was last  *)
(* applied, and the deletion of what is obsolete or released.              *)
(*                                                                         *)
(* The four objects of a Gateway share one name, so there is one object    *)
(* per kind.  Others write them too: the garbage collector, a person who   *)
(* edits or deletes them, an object created under the name.  Server-side   *)
(* apply keeps who set which field, and an unforced apply conflicts where  *)
(* another set one of ours to something else: claims says whether the      *)
(* object's maker did, or someone who edited it since.  The caches lag     *)
(* behind, miss deletions in a watch gap, and select this install's labels *)
(* (all Services are cached).  Every call of a pass is a step.             *)
(***************************************************************************)
EXTENDS Integers, Sequences, FiniteSets

CONSTANTS
    PrivilegedMax,  \* PRIVILEGED_PORT_MAX
    PoolBase,       \* TARGET_PORT_POOL_BASE
    AdminPort,      \* ADMIN_PORT
    MaxPort,        \* bound: the highest port there is
    ProvisionWorlds \* bound: [specs, edits, hands, fails, restarts, lags, slow]

ASSUME PortAssumption ==
    /\ PrivilegedMax \in Nat /\ PoolBase \in Nat /\ AdminPort \in Nat /\ MaxPort \in Nat
    /\ PrivilegedMax < PoolBase /\ PrivilegedMax < AdminPort

\* A Gateway has at most 64 listeners: the pool never runs out of ports.
ASSUME WorldAssumption ==
    \A w \in ProvisionWorlds :
        /\ DOMAIN w = {"specs", "edits", "hands", "fails", "restarts", "lags", "slow"}
        /\ \A spec \in w.specs : spec.ports \subseteq 1 .. MaxPort
                                  /\ PoolBase + Cardinality(spec.ports) <= MaxPort
        /\ w.slow \subseteq {"sa", "deployment", "service", "pdb"}

VARIABLES
    means,      \* what is left of the world's bounds
    gate,       \* the Gateway: [uid, spec, ours, deleting]
    obj,        \* kind -> the object, or NoObj
    shown,      \* kind -> its cached metadata, or NoObj
    unseen,     \* kind -> owner of the object an event is due of, or NoEvent
    applied,    \* Gateway uid -> kind -> what was last applied, or NoRecord
    round,      \* the pass that runs, or Rest
    owed,       \* the Gateway is to be reconciled
    retry,      \* a retry is pending
    missed,     \* a deletion no event told of
    provided,   \* what the last pass left: [problem, bound]
    uids        \* uids given out

provVars == <<means, gate, obj, shown, unseen, applied, round, owed, retry, missed, provided, uids>>

Kinds     == <<"sa", "deployment", "service", "pdb">>
ObjectKind      == {Kinds[i] : i \in 1 .. 4}
NoObj     == [uid |-> 0, owner |-> 0, ours |-> FALSE, claims |-> "none", ver |-> 0, body |-> <<>>]
NoRecord  == [uid |-> 0, ver |-> 0, body |-> <<>>]
NothingBound   == [p \in {} |-> 0]
NothingMade == [problem |-> "none", bound |-> NothingBound]
NoEvent   == -1
Rest      == [pc |-> "rest"]

Use(what) == means[what] > 0 /\ means' = [means EXCEPT ![what] = @ - 1]

-----------------------------------------------------------------------------
\* params::resolve: built-in defaults, the class's layer, the Gateway's own.

Over(base, layer) == [f \in DOMAIN base |-> IF layer[f] = "unset" THEN base[f] ELSE layer[f]]
Builtin == [provisioning |-> "managed", replicas |-> "one", service |-> "unset",
            networks |-> "none"]
Merge(spec) == Over(Over(Builtin, spec.class), spec.own)

\* A layer that is missing or fails its checks, or one static IP on two pods.
Usable(spec) ==
    /\ \A layer \in {spec.class, spec.own} : layer.networks # "malformed"
    /\ ~(/\ Merge(spec).provisioning = "managed"
         /\ Merge(spec).replicas = "two" /\ Merge(spec).networks = "static")

Managed(spec)  == Merge(spec).provisioning = "managed"
\* Nothing fronts a Gateway on networks of its own, unless it says so.
Fronted(spec) ==
    IF Merge(spec).service = "unset" THEN Merge(spec).networks = "none"
    ELSE Merge(spec).service # "nothing"

-----------------------------------------------------------------------------
\* ports.rs, of one transport: published -> bound.

BindsItself(p) == p > PrivilegedMax /\ p # AdminPort

\* A privileged port keeps its target while that is unprivileged and free;
\* of two with one target the lower keeps it.
KeepsTarget(ports, existing, p) ==
    /\ ~BindsItself(p) /\ p \in DOMAIN existing
    /\ existing[p] > PrivilegedMax /\ existing[p] # AdminPort
    /\ existing[p] \notin {q \in ports : BindsItself(q)}
    /\ \A q \in ports : q < p /\ ~BindsItself(q) /\ q \in DOMAIN existing
                        => existing[q] # existing[p]

\* A bug: the target a port had is not looked at.
AllocateAfresh(ports, existing) ==
    LET drawn == {p \in ports : ~BindsItself(p)}
        free  == {t \in PoolBase .. MaxPort : t # AdminPort /\ t \notin ports}
    IN [p \in ports |->
          IF p \notin drawn THEN p
          ELSE CHOOSE t \in free :
                   Cardinality({u \in free : u < t}) = Cardinality({q \in drawn : q < p})]

\* The others draw the lowest free ports from the pool, in order.
AllocateTargetPorts(ports, existing) ==
    LET kept  == {p \in ports : KeepsTarget(ports, existing, p)}
        drawn == {p \in ports : ~BindsItself(p)} \ kept
        used  == {AdminPort} \cup {p \in ports : BindsItself(p)} \cup {existing[p] : p \in kept}
        free  == (PoolBase .. MaxPort) \ used
    IN [p \in ports |->
          IF p \in kept THEN existing[p]
          ELSE IF p \notin drawn THEN p
          ELSE CHOOSE t \in free :
                   Cardinality({u \in free : u < t}) = Cardinality({q \in drawn : q < p})]

\* existing_targets: of the cached Service, if it is ours.
IsOurs(m, uid) == m # NoObj /\ m.ours /\ m.owner = uid
ExistingTargets(uid) ==
    IF IsOurs(shown["service"], uid) THEN shown["service"].body.ports ELSE NothingBound

\* desired: what is bound; nothing is mapped where nothing fronts.
BoundPorts(g, existing) ==
    IF Fronted(g.spec) THEN AllocateTargetPorts(g.spec.ports, existing) ELSE NothingBound

\* render: what of each object the parameters and ports decide.
Binds(g, bound)     == {IF p \in DOMAIN bound THEN bound[p] ELSE p : p \in g.spec.ports}
RenderDeployment(g, bound) ==
    [replicas |-> Merge(g.spec).replicas, networks |-> Merge(g.spec).networks,
     privileged |-> \E p \in Binds(g, bound) : p <= PrivilegedMax]
RenderService(bound)       == [ports |-> bound]
Render(k, g, bound) ==
    CASE k = "deployment" -> RenderDeployment(g, bound)
      [] k = "service"    -> RenderService(bound)
      [] OTHER            -> [plain |-> k]

Wanted(spec) ==
    IF ~Managed(spec) THEN {}
    ELSE {"sa", "deployment"} \cup (IF Fronted(spec) THEN {"service"} ELSE {})
                              \cup (IF Merge(spec).replicas = "two" THEN {"pdb"} ELSE {})

-----------------------------------------------------------------------------
\* The apiserver, and others.

\* What a cache shows of an object: metadata by label, Services whole.
Visible(k, o) == IF o # NoObj /\ (o.ours \/ k = "service") THEN o ELSE NoObj

\* A change of an object the watch selects makes an event.
Changes(k, o) ==
    /\ obj' = [obj EXCEPT ![k] = o]
    /\ unseen' = IF Visible(k, obj[k]) = Visible(k, o) THEN unseen
              ELSE [unseen EXCEPT ![k] = IF Visible(k, o) = NoObj THEN obj[k].owner ELSE o.owner]

\* A write that changes nothing moves no version.
Moved(o, new) == IF new = o THEN o ELSE [new EXCEPT !.ver = o.ver + 1]
Create(k, owner, claims, body) ==
    /\ uids' = uids + 1
    /\ Changes(k, [uid |-> uids', owner |-> owner, ours |-> owner # 0, claims |-> claims, ver |-> 1, body |-> body])

\* forget_deleted: with its Deployment every record of the Gateway goes.
ForgetObject(k, owner) ==
    IF owner \notin DOMAIN applied THEN applied
    ELSE [applied EXCEPT ![owner] =
              IF k = "deployment" THEN [j \in ObjectKind |-> NoRecord]
              ELSE IF k = "service" THEN @ ELSE [@ EXCEPT ![k] = NoRecord]]

\* An event: the cache moves, and the owner's Gateway is reconciled.
SeeEvent(k) ==
    /\ unseen[k] # NoEvent
    /\ unseen' = [unseen EXCEPT ![k] = NoEvent]
    /\ shown' = [shown EXCEPT ![k] = Visible(k, obj[k])]
    /\ applied' = IF Visible(k, obj[k]) = NoObj THEN ForgetObject(k, unseen[k]) ELSE applied
    /\ owed' = TRUE
    /\ UNCHANGED <<means, gate, obj, round, retry, missed, provided, uids>>

\* A relist after a gap: what is there makes an event, what went does not.
\* prune_relisted: records of Gateways without a Deployment go.
Relist(k) ==
    /\ k # "service" /\ unseen[k] # NoEvent /\ Visible(k, obj[k]) = NoObj /\ Use("hands")
    /\ unseen' = [unseen EXCEPT ![k] = NoEvent]
    /\ shown' = [shown EXCEPT ![k] = NoObj]
    /\ applied' = IF k = "deployment" THEN [u \in DOMAIN applied |-> [j \in ObjectKind |-> NoRecord]]
                  ELSE applied
    /\ missed' = TRUE
    /\ UNCHANGED <<gate, obj, round, owed, retry, provided, uids>>

\* Someone else's object under the name, once its place is free.  A
\* ServiceAccount, or a PodDisruptionBudget, may be as good as empty and set
\* no field of ours; a Deployment sets its selector, a Service its ports.
Intrude(k, claims) ==
    /\ obj[k] = NoObj /\ Use("hands")
    /\ claims = "theirs" \/ (claims = "none" /\ k \in {"sa", "pdb"})
    /\ Create(k, 0, claims, IF k = "service" THEN [ports |-> NothingBound] ELSE [plain |-> "theirs"])
    /\ UNCHANGED <<gate, shown, applied, round, owed, retry, missed, provided>>

\* Someone edits what is ours, or deletes an object of any owner.
Tamper(k) ==
    /\ obj[k] # NoObj /\ obj[k].ours /\ Use("hands")
    /\ Changes(k, Moved(obj[k], [obj[k] EXCEPT !.claims = "edited", !.body =
                                     IF k = "service" THEN [ports |-> NothingBound] ELSE [plain |-> "edited"]]))
    /\ UNCHANGED <<gate, shown, applied, round, owed, retry, missed, provided, uids>>
RemoveObject(k) ==
    /\ obj[k] # NoObj /\ Use("hands")
    /\ Changes(k, NoObj)
    /\ UNCHANGED <<gate, shown, applied, round, owed, retry, missed, provided, uids>>

\* The garbage collector takes the objects of a Gateway that is gone.
CollectGarbage(k) ==
    /\ obj[k].owner \notin {0, gate.uid}
    /\ Changes(k, NoObj)
    /\ UNCHANGED <<means, gate, shown, applied, round, owed, retry, missed, provided, uids>>

-----------------------------------------------------------------------------
\* The Gateway.

EditSpec(spec) ==
    /\ spec # gate.spec /\ ~gate.deleting /\ Use("edits")
    /\ gate' = [gate EXCEPT !.spec = spec]
    /\ owed' = TRUE
    /\ UNCHANGED <<obj, unseen, shown, applied, round, retry, missed, provided, uids>>

\* Its class moves to another controller, or back.
MoveClass ==
    /\ ~gate.deleting /\ Use("edits")
    /\ gate' = [gate EXCEPT !.ours = ~@]
    /\ owed' = TRUE
    /\ UNCHANGED <<obj, unseen, shown, applied, round, retry, missed, provided, uids>>

DeleteInForeground ==
    /\ ~gate.deleting /\ Use("edits")
    /\ gate' = [gate EXCEPT !.deleting = TRUE]
    /\ owed' = TRUE
    /\ UNCHANGED <<obj, unseen, shown, applied, round, retry, missed, provided, uids>>

Recreate ==
    /\ Use("edits")
    /\ uids' = uids + 1
    /\ gate' = [gate EXCEPT !.uid = uids', !.deleting = FALSE]
    /\ applied' = [u \in DOMAIN applied \cup {uids'} |->
                       IF u = uids' THEN [j \in ObjectKind |-> NoRecord] ELSE applied[u]]
    /\ owed' = TRUE
    /\ provided' = NothingMade
    /\ UNCHANGED <<obj, unseen, shown, round, retry, missed>>

\* The controller restarts: records and retries are gone, caches listed anew.
RestartController ==
    /\ Use("restarts")
    /\ applied' = [u \in DOMAIN applied |-> [j \in ObjectKind |-> NoRecord]]
    /\ shown' = [k \in ObjectKind |-> Visible(k, obj[k])] /\ unseen' = [k \in ObjectKind |-> NoEvent]
    /\ round' = Rest /\ owed' = TRUE /\ retry' = FALSE /\ missed' = FALSE
    /\ provided' = NothingMade
    /\ UNCHANGED <<gate, obj, uids>>

-----------------------------------------------------------------------------
\* A pass.

\* Every object ours to delete but those in keep.
Deletable(uid, keep) == {k \in ObjectKind : IsOurs(shown[k], uid) /\ k \notin keep}
Deleting(g, keep, result) ==
    [pc |-> "delete", g |-> g, todo |-> [k \in Deletable(g.uid, keep) |-> shown[k].uid],
     result |-> result]

\* Bound: how often a pass begins before the caches caught up.
CaughtUp == \A k \in ObjectKind : unseen[k] = NoEvent

\* Released, unusable, Unmanaged, being deleted, or to be provisioned.
BeginPass ==
    /\ round = Rest /\ owed
    /\ IF CaughtUp THEN UNCHANGED means ELSE Use("lags")
    /\ owed' = FALSE /\ missed' = FALSE
    /\ LET bound == BoundPorts(gate, ExistingTargets(gate.uid)) IN
       \/ /\ ~gate.ours \/ (Usable(gate.spec) /\ ~Managed(gate.spec))
          /\ round' = Deleting(gate, {}, NothingMade)
          /\ UNCHANGED provided
       \/ /\ gate.ours /\ ~Usable(gate.spec)
          /\ UNCHANGED <<round, provided>>
       \/ /\ gate.ours /\ Usable(gate.spec) /\ Managed(gate.spec) /\ gate.deleting
          /\ provided' = [problem |-> "none", bound |-> bound]
          /\ UNCHANGED round
       \/ /\ gate.ours /\ Usable(gate.spec) /\ Managed(gate.spec) /\ ~gate.deleting
          /\ round' = [pc |-> "check", g |-> gate, bound |-> bound, next |-> 1,
                      existing |-> ExistingTargets(gate.uid),
                      live |-> [k \in {} |-> NoObj], conflict |-> FALSE]
          /\ UNCHANGED provided
    /\ UNCHANGED <<gate, obj, unseen, shown, applied, retry, uids>>

\* The preflight of one wanted name: cached, or asked for.  judge: ours,
\* absent, or in the way.
Preflight ==
    /\ round.pc = "check" /\ round.next <= 4
    /\ LET k    == Kinds[round.next]
           meta == IF shown[k] # NoObj \/ k = "service" THEN shown[k] ELSE obj[k]
       IN round' = [round EXCEPT
                     !.next = @ + 1,
                     !.live = IF k \notin Wanted(round.g.spec) THEN @
                              ELSE [j \in DOMAIN @ \cup {k} |-> IF j = k THEN meta ELSE @[j]],
                     !.conflict = @ \/ /\ k \in Wanted(round.g.spec)
                                       /\ meta # NoObj /\ ~IsOurs(meta, round.g.uid)]
    /\ UNCHANGED <<means, gate, obj, unseen, shown, applied, owed, retry, missed, provided, uids>>

\* Why a pass ends early, and what the data planes bind then.
Fails(problem, again) ==
    /\ round' = Rest
    /\ retry' = (retry \/ again)
    /\ provided' = [problem |-> problem,
                    bound |-> IF Managed(round.g.spec) /\ round.g.ours
                              THEN ExistingTargets(round.g.uid) ELSE NothingBound]

\* The name is not cached, and asking for it fails.
PreflightFails(refused) ==
    /\ round.pc = "check" /\ round.next <= 4 /\ Use("fails")
    /\ LET k == Kinds[round.next]
       IN k \in Wanted(round.g.spec) /\ k # "service" /\ shown[k] = NoObj
    /\ Fails(IF refused THEN "refused" ELSE "none", ~refused)
    /\ UNCHANGED <<gate, obj, unseen, shown, applied, owed, missed, uids>>

\* All or nothing: a conflict ends the pass before anything is applied.
Decided ==
    /\ round.pc = "check" /\ round.next > 4
    /\ IF round.conflict
       THEN round' = Rest /\ provided' = [problem |-> "conflict", bound |-> NothingBound]
       ELSE round' = [round EXCEPT !.pc = "apply", !.next = 1] /\ UNCHANGED provided
    /\ UNCHANGED <<means, gate, obj, unseen, shown, applied, owed, retry, missed, uids>>

Record(uid, k, r) == applied' = [applied EXCEPT ![uid][k] = r]

\* Applying k again would change nothing: same object, version and body.
Current(k, m, body) ==
    /\ m # NoObj
    /\ applied[round.g.uid][k] = [uid |-> m.uid, ver |-> m.ver, body |-> body]

Step(k) == round.pc = "apply" /\ round.next <= 4 /\ k = Kinds[round.next]
Onward  == round' = [round EXCEPT !.next = @ + 1]

SkipApply(k) ==
    /\ Step(k)
    /\ \/ k \notin Wanted(round.g.spec)
       \/ k \in Wanted(round.g.spec)
          /\ Current(k, round.live[k], Render(k, round.g, round.bound))
    /\ Onward
    /\ UNCHANGED <<means, gate, obj, unseen, shown, applied, owed, retry, missed, provided, uids>>

\* A bug: a forced apply names no uid.
GivesWayByName(k) ==
    obj[k] # NoObj /\ (round.live[k] # NoObj \/ obj[k].claims = "none")

\* What an apply may write: the object taken for ours under its uid, by
\* force; where none was, one that came since and claims no field of ours.
GivesWay(k) ==
    /\ obj[k] # NoObj
    /\ IF round.live[k] # NoObj THEN obj[k].uid = round.live[k].uid ELSE obj[k].claims = "none"

\* A server-side apply takes effect: it creates, or writes.
Lands(k) ==
    LET body == Render(k, round.g, round.bound)
    IN  \/ obj[k] = NoObj /\ round.live[k] = NoObj /\ Create(k, round.g.uid, "none", body)
        \/ /\ GivesWay(k)
           /\ Changes(k, Moved(obj[k], [obj[k] EXCEPT !.owner = round.g.uid, !.ours = TRUE, !.body = body,
                                            !.claims = IF obj[k].claims = "theirs" THEN @ ELSE "none"]))
           /\ UNCHANGED uids

ApplyObject(k) ==
    /\ Step(k) /\ k \in Wanted(round.g.spec)
    /\ ~Current(k, round.live[k], Render(k, round.g, round.bound))
    /\ \/ /\ Lands(k)
          /\ Record(round.g.uid, k, [uid |-> obj'[k].uid, ver |-> obj'[k].ver,
                                     body |-> Render(k, round.g, round.bound)])
          /\ Onward /\ UNCHANGED <<retry, provided>>
       \/ /\ ~GivesWay(k) /\ ~(obj[k] = NoObj /\ round.live[k] = NoObj)
          /\ Record(round.g.uid, k, NoRecord)
          /\ Fails("none", TRUE)
          /\ UNCHANGED <<obj, unseen, uids>>
    /\ UNCHANGED <<means, gate, shown, owed, missed>>

\* The apiserver refuses the call, or no answer comes: it may have landed.
ApplyFails(k, refused) ==
    /\ Step(k) /\ k \in Wanted(round.g.spec) /\ Use("fails")
    /\ ~Current(k, round.live[k], Render(k, round.g, round.bound))
    /\ Record(round.g.uid, k, NoRecord)
    /\ Fails(IF refused THEN "refused" ELSE "none", ~refused)
    /\ UNCHANGED <<obj, unseen, uids>> \/ (~refused /\ Lands(k))
    /\ UNCHANGED <<gate, shown, owed, missed>>

AppliedAll ==
    /\ round.pc = "apply" /\ round.next > 4
    /\ round' = Deleting(round.g, Wanted(round.g.spec), [problem |-> "none", bound |-> round.bound])
    /\ UNCHANGED <<means, gate, obj, unseen, shown, applied, owed, retry, missed, provided, uids>>

\* delete_all_but: under the uid the cache saw; gone or another's, no matter.
Deletes(k) == Changes(k, IF obj[k].uid = round.todo[k] THEN NoObj ELSE obj[k])
DeleteNext(k) ==
    /\ round.pc = "delete" /\ k \in DOMAIN round.todo
    /\ Deletes(k)
    /\ Record(round.g.uid, k, NoRecord)
    /\ round' = [round EXCEPT !.todo = [j \in DOMAIN @ \ {k} |-> @[j]]]
    /\ UNCHANGED <<means, gate, shown, owed, retry, missed, provided, uids>>

DeleteFails(k, refused) ==
    /\ round.pc = "delete" /\ k \in DOMAIN round.todo /\ Use("fails")
    /\ Fails(IF refused /\ round.g.ours THEN "refused" ELSE "none", ~(refused /\ round.g.ours))
    /\ UNCHANGED <<obj, unseen>> \/ (~refused /\ Deletes(k))
    /\ UNCHANGED <<gate, shown, applied, owed, missed, uids>>

DeletedAll ==
    /\ round.pc = "delete" /\ DOMAIN round.todo = {}
    /\ round' = Rest /\ provided' = round.result
    /\ UNCHANGED <<means, gate, obj, unseen, shown, applied, owed, retry, missed, uids>>

\* retry_later, and the requeue of a release that failed.
RetryNow ==
    /\ retry
    /\ retry' = FALSE /\ owed' = TRUE
    /\ UNCHANGED <<means, gate, obj, unseen, shown, applied, round, missed, provided, uids>>

-----------------------------------------------------------------------------
ProvInit ==
    /\ means \in ProvisionWorlds
    /\ \E spec \in means.specs : gate = [uid |-> 1, spec |-> spec, ours |-> TRUE, deleting |-> FALSE]
    /\ obj = [k \in ObjectKind |-> NoObj] /\ shown = obj /\ unseen = [k \in ObjectKind |-> NoEvent]
    /\ applied = [u \in {1} |-> [k \in ObjectKind |-> NoRecord]]
    /\ round = Rest /\ owed = TRUE /\ retry = FALSE /\ missed = FALSE
    /\ provided = NothingMade
    /\ uids = 1

\* Bound: only the kinds in slow have events and garbage that wait, and
\* objects that others touch.
Prompt ==
    \A k \in ObjectKind \ means.slow : unseen[k] = NoEvent /\ obj[k].owner \in {0, gate.uid}

ProvNext ==
    \/ \E k \in ObjectKind : SeeEvent(k)
    \/ Prompt /\ \E k \in means.slow : Relist(k) \/ Tamper(k) \/ RemoveObject(k)
    \/ Prompt /\ \E k \in means.slow, claims \in {"none", "theirs"} : Intrude(k, claims)
    \/ \E k \in ObjectKind : CollectGarbage(k)
    \/ Prompt /\ \E k \in ObjectKind : SkipApply(k) \/ ApplyObject(k) \/ DeleteNext(k)
    \/ Prompt /\ \E k \in ObjectKind, refused \in BOOLEAN : ApplyFails(k, refused) \/ DeleteFails(k, refused)
    \/ Prompt /\ \E refused \in BOOLEAN : PreflightFails(refused)
    \/ Prompt /\ \E spec \in means.specs : EditSpec(spec)
    \/ Prompt /\ (MoveClass \/ DeleteInForeground \/ Recreate \/ RestartController)
    \/ Prompt /\ (BeginPass \/ Preflight \/ Decided \/ AppliedAll \/ DeletedAll \/ RetryNow)

ProvSpec == ProvInit /\ [][ProvNext]_provVars

-----------------------------------------------------------------------------
\* Nothing runs, nothing is owed, and the caches show what there is.
ObjectsAtRest ==
    /\ round = Rest /\ ~owed /\ ~retry /\ ~missed
    /\ CaughtUp
    /\ \A k \in ObjectKind : obj[k].owner \in {0, gate.uid}

(***************************************************************************)
(* Objects come to be what the Gateway asks for: once nothing is owed and  *)
(* the caches caught up, a Managed Gateway reported without a problem has  *)
(* every object it wants, as rendered, and no other of its own; the ports  *)
(* its data planes bind are the ones its Service targets; an Unmanaged or  *)
(* released one has none.  A record of an earlier apply never hides an     *)
(* edit, a deletion, a recreation or a failed call.                        *)
(***************************************************************************)
ObjectsSettle ==
    ObjectsAtRest /\ provided.problem = "none" =>
        /\ gate.ours /\ Usable(gate.spec) /\ Managed(gate.spec) /\ ~gate.deleting =>
               /\ \A k \in Wanted(gate.spec) :
                      /\ IsOurs(obj[k], gate.uid)
                      /\ obj[k].body = Render(k, gate, provided.bound)
               /\ \A k \in ObjectKind \ Wanted(gate.spec) : ~IsOurs(obj[k], gate.uid)
        /\ ~gate.ours \/ (Usable(gate.spec) /\ ~Managed(gate.spec)) =>
               \A k \in ObjectKind : ~IsOurs(obj[k], gate.uid)

(***************************************************************************)
(* What another made under the name, with fields of ours set its own way,  *)
(* stays as it was found: no pass writes it or is about to delete it, in   *)
(* whatever gap of its preflight it appeared and whatever call was lost.   *)
(* One that sets none of them is taken over if it came after the           *)
(* preflight, although provision/mod.rs:722-723 says that "a foreign object *)
(* created since the preflight conflicts instead of being taken over".     *)
(***************************************************************************)
OthersUntouched ==
    \A k \in ObjectKind : obj[k].claims = "theirs" =>
        /\ obj[k].owner = 0 /\ obj[k].ver = 1 /\ ~obj[k].ours
        /\ round.pc = "delete" /\ k \in DOMAIN round.todo => round.todo[k] # obj[k].uid

(***************************************************************************)
(* The ports bound behind a Service are unprivileged, none is the admin    *)
(* port, no two are one, and a port that stays published keeps the target  *)
(* the Service gave it, unless a port that binds itself came to need it.   *)
(***************************************************************************)
TargetsSound ==
    round.pc \in {"check", "apply"} /\ Fronted(round.g.spec) =>
        LET bound == round.bound IN
        /\ \A p \in DOMAIN bound : bound[p] > PrivilegedMax /\ bound[p] # AdminPort
        /\ \A p, q \in DOMAIN bound : p # q => bound[p] # bound[q]
        /\ \A p \in DOMAIN bound \cap DOMAIN round.existing :
               \/ bound[p] = round.existing[p]
               \/ round.existing[p] \in DOMAIN bound

\* What a Managed Gateway wants comes to be there and nothing else, no
\* other's object is taken or deleted, and ports stay: through lagging caches,
\* failed calls and objects replaced under the name (provision/mod.rs,
\* provision, apply, delete_all_but; ports.rs, allocate_target_ports).
ProvisionHolds == ObjectsSettle /\ OthersUntouched /\ TargetsSound
=============================================================================
