------------------------------ MODULE Statuses ------------------------------
(***************************************************************************)
(* Who writes which status, and when it is written again                   *)
(* (src/src/kubernetes/status.rs, the second half of a pass in             *)
(* src/src/kubernetes/controller/reconcile.rs, the class pass of           *)
(* gatewayclass.rs, the reads of translate.rs and the mappers of watch.rs).*)
(*                                                                         *)
(* api is what the apiserver holds, seen what the reflectors last          *)
(* delivered: a pass reads seen and writes to api on the condition of the  *)
(* resourceVersion it read. Routes and policies are one kind of object     *)
(* here, a list of entries keyed by controller and Gateway. What an entry  *)
(* says follows from the Gateway's spec and the object's generation;       *)
(* timestamps, which no comparison reads, are left out. A pass whose       *)
(* translation is rejected is GatewaySync's and Programmed's.              *)
(***************************************************************************)
EXTENDS Integers, FiniteSets, Sequences, SequencesExt

CONSTANTS
    GwName,      \* Gateway names
    Object,      \* routes and policies
    Worlds       \* initial Gateways with bounds on the changes and failures of each kind

ASSUME StatusAssumption == \A w \in Worlds : w.gws \subseteq GwName

VARIABLES
    api,         \* [gw : name -> Gateway, obj : Object -> object, class : GatewayClass]
    seen,        \* the same, as the reflectors' stores hold it
    asks,        \* the Gateways with a pass asked for
    work,        \* name -> its pass
    hubHas,      \* the Gateways the hub serves
    goneNote,    \* a permit of gateway_gone
    sweep,       \* the class pass
    wakeSweep,   \* Departures and ClassEvents: a class pass is asked for
    swept,       \* a class pass that read the objects as they are was through
    late,        \* <<object, Gateway>>: entries a class pass could not read
    foreign,     \* Object -> the entries of the other controllers
    lastUid,     \* the last uid given to a Gateway
    budget       \* changes and failures left, by kind

statusVars == <<api, seen, asks, work, hubHas, goneNote, sweep, wakeSweep, swept, late, foreign, lastUid, budget>>

NoGateway == [uid |-> 0, rv |-> 0, spec |-> 0, ours |-> FALSE, status |-> 0]
Idle == [pc |-> "idle", gw |-> NoGateway, objs |-> <<>>, todo |-> {}, failed |-> FALSE]
Asleep == [pc |-> "idle", class |-> [rv |-> 0], todo |-> {}, ok |-> TRUE, clean |-> TRUE]

There(gws, n) == gws[n] # NoGateway

-----------------------------------------------------------------------------
(* Entries. *)

\* route_parent_entry, policy_ancestor_entry
EntryFor(n, spec, o) == [by |-> "portail", gw |-> n, says |-> spec, gen |-> o.gen]

\* Owner::owns
Owns(n, e) == e.by = "portail" /\ e.gw = n

\* StatusReports::reported_gateways
Reported(o) == {e.gw : e \in {e \in ToSet(o.entries) : e.by = "portail"}}

\* What a list holds at some of its places, in its order.
InPlace(s, at) == [j \in 1 .. Cardinality(at) |-> s[CHOOSE i \in at : Cardinality({k \in at : k < i}) = j - 1]]

\* owned_entries_current
Owned(o, n) == InPlace(o.entries, {i \in DOMAIN o.entries : Owns(n, o.entries[i])})

\* merge_owned: the others' entries verbatim, then ours.
MergeOwned(o, gws, new) ==
    InPlace(o.entries, {i \in DOMAIN o.entries : ~\E n \in gws : Owns(n, o.entries[i])}) \o new

\* The precondition of apply_status and patch_entries.
PatchHoldsAlways(now, read) == TRUE
PatchHolds(now, read) == now.rv = read.rv

-----------------------------------------------------------------------------
(* A pass of a Gateway. *)

\* A write may fail although its precondition holds.
Blip(failed) ==
    IF failed THEN budget.fail > 0 /\ budget' = [budget EXCEPT !.fail = @ - 1] ELSE UNCHANGED budget

\* Whether the step leaves the apiserver's objects as a class pass found them.
Quietly == UNCHANGED <<swept, sweep>>
Loudly == swept' = FALSE /\ sweep' = [sweep EXCEPT !.clean = FALSE]

\* publish up to the translation: the Gateway of the event, its class, the
\* objects that target it.
StartPass(n) ==
    LET gw == seen.gw[n]
    IN  /\ n \in asks /\ work[n].pc = "idle" /\ asks' = asks \ {n}
        /\ IF gw # NoGateway /\ gw.ours
           THEN /\ work' = [work EXCEPT ![n] = [Idle EXCEPT !.pc = "translate", !.gw = gw,
                                !.objs = [o \in {o \in Object : n \in seen.obj[o].targets} |-> seen.obj[o]]]]
                /\ UNCHANGED <<hubHas, wakeSweep>>
           ELSE /\ hubHas' = IF gw = NoGateway THEN hubHas ELSE hubHas \ {n}
                /\ wakeSweep' = (wakeSweep \/ (gw # NoGateway /\ n \in hubHas))
                /\ UNCHANGED work
        /\ Quietly
        /\ UNCHANGED <<api, seen, goneNote, foreign, lastUid, budget>>

\* write_route_statuses, write_policy_statuses: what an object is owed, on
\* the read it was computed from.
OwedWrite(o, read, new) == [obj |-> o, read |-> read, new |-> new]

\* One write per object: those the pass read as targeting the Gateway, and
\* those that still carry our entry for it although they no longer do
\* (observed_routes, observed_policies), which get none. An object that
\* ceased to target it in between is both: the second write of a policy
\* carries the entry too, that of a route does not.
Due(n, p, policy) ==
    LET left == {o \in Object : n \notin seen.obj[o].targets /\ n \in Reported(seen.obj[o])}
        owed(o) == <<EntryFor(n, p.gw.spec, p.objs[o])>>
    IN  {OwedWrite(o, p.objs[o], owed(o)) : o \in DOMAIN p.objs}
        \cup {OwedWrite(o, seen.obj[o], IF policy /\ o \in DOMAIN p.objs THEN owed(o) ELSE <<>>) : o \in left}

\* The end of translate and of publish: a Gateway gone or recreated since is
\* served no more.
PublishPass(n) ==
    LET p == work[n]
        stale == seen.gw[n].uid # p.gw.uid
    IN  /\ p.pc = "translate"
        /\ \E policy \in BOOLEAN :
               work' = [work EXCEPT ![n] = IF stale THEN Idle ELSE [p EXCEPT !.pc = "gateway", !.todo = Due(n, p, policy)]]
        /\ hubHas' = IF stale THEN hubHas \ {n} ELSE hubHas \cup {n}
        /\ Quietly
        /\ UNCHANGED <<api, seen, asks, goneNote, wakeSweep, foreign, lastUid, budget>>

\* write_gateway_status: Current, Patched or, on a conflict or an error,
\* Failed.
WriteGatewayStatus(n) ==
    LET p == work[n]
        current == p.gw.status = p.gw.spec
        holds == api.gw[n].uid = p.gw.uid /\ PatchHolds(api.gw[n], p.gw)
    IN  /\ p.pc = "gateway"
        /\ \/ /\ current
              /\ work' = [work EXCEPT ![n].pc = "check"]
              /\ Quietly /\ UNCHANGED api
           \/ /\ ~current /\ holds
              /\ work' = [work EXCEPT ![n].pc = "check"]
              /\ api' = [api EXCEPT !.gw[n].status = p.gw.spec, !.gw[n].rv = @ + 1]
              /\ Loudly
           \/ /\ ~current
              /\ work' = [work EXCEPT ![n].pc = "check", ![n].failed = TRUE]
              /\ Quietly /\ UNCHANGED api
        /\ Blip(~current /\ holds /\ work'[n].failed)
        /\ UNCHANGED <<seen, asks, hubHas, goneNote, wakeSweep, foreign, lastUid>>

\* A bug: the entries are written whatever became of the Gateway.
CheckCurrentNever(n) ==
    /\ work[n].pc = "check" /\ work' = [work EXCEPT ![n].pc = "objects"] /\ Quietly
    /\ UNCHANGED <<api, seen, asks, hubHas, goneNote, wakeSweep, foreign, lastUid, budget>>

\* Route entries name the Gateway, not its uid.
CheckCurrent(n) ==
    LET p == work[n]
        current == seen.gw[n] # NoGateway /\ seen.gw[n].uid = p.gw.uid
    IN  /\ p.pc = "check"
        /\ work' = [work EXCEPT ![n].pc = "objects", ![n].todo = IF current THEN @ ELSE {}]
        /\ Quietly
        /\ UNCHANGED <<api, seen, asks, hubHas, goneNote, wakeSweep, foreign, lastUid, budget>>

\* write_owned_entries of an object, in any order.
WriteEntries(n, w) ==
    LET current == Owned(w.read, n) = w.new
        holds == PatchHolds(api.obj[w.obj], w.read)
        next(failed) == work' = [work EXCEPT ![n].todo = @ \ {w}, ![n].failed = @ \/ failed]
    IN  /\ work[n].pc = "objects" /\ w \in work[n].todo
        /\ \/ current /\ next(FALSE) /\ Quietly /\ UNCHANGED api
           \/ /\ ~current /\ holds /\ next(FALSE)
              /\ api' = [api EXCEPT !.obj[w.obj].rv = @ + 1,
                                    !.obj[w.obj].entries = MergeOwned(w.read, {n}, w.new)]
              /\ Loudly
           \/ ~current /\ next(TRUE) /\ Quietly /\ UNCHANGED api
        /\ Blip(~current /\ holds /\ api' = api)
        /\ UNCHANGED <<seen, asks, hubHas, goneNote, wakeSweep, foreign, lastUid>>

\* A failed write is retried soon.
EndPass(n) ==
    /\ work[n].pc = "objects" /\ work[n].todo = {}
    /\ asks' = IF work[n].failed THEN asks \cup {n} ELSE asks
    /\ work' = [work EXCEPT ![n] = Idle]
    /\ Quietly
    /\ UNCHANGED <<api, seen, hubHas, goneNote, wakeSweep, foreign, lastUid, budget>>

-----------------------------------------------------------------------------
(* The class pass. *)

\* A wake, its own retry among them, or the resync tick.
StartSweep ==
    /\ sweep.pc = "idle"
    /\ IF wakeSweep THEN UNCHANGED budget ELSE budget.resync > 0 /\ budget' = [budget EXCEPT !.resync = @ - 1]
    /\ sweep' = [Asleep EXCEPT !.pc = "conditions", !.class = seen.class]
    /\ wakeSweep' = FALSE
    /\ UNCHANGED <<api, seen, asks, work, hubHas, goneNote, swept, foreign, lastUid>>

\* write_class_status: the conditions are applied, then the feature list is
\* replaced on the resourceVersion the apply answered.
ClassConditions ==
    LET c == sweep.class
        wrote == [c EXCEPT !.cond = c.gen, !.rv = @ + 1]
    IN  /\ sweep.pc = "conditions"
        /\ \/ /\ c.cond = c.gen /\ sweep' = [sweep EXCEPT !.pc = "features"] /\ UNCHANGED api
           \/ /\ c.cond # c.gen /\ PatchHolds(api.class, c)
              /\ api' = [api EXCEPT !.class = wrote]
              /\ sweep' = [sweep EXCEPT !.pc = "features", !.class = wrote]
           \/ c.cond # c.gen /\ sweep' = [sweep EXCEPT !.pc = "departed", !.ok = FALSE] /\ UNCHANGED api
        /\ Blip(c.cond # c.gen /\ PatchHolds(api.class, c) /\ api' = api)
        /\ UNCHANGED <<seen, asks, work, hubHas, goneNote, wakeSweep, swept, foreign, lastUid>>
ClassFeatures ==
    LET c == sweep.class
    IN  /\ sweep.pc = "features"
        /\ \/ /\ c.feats = "current" /\ sweep' = [sweep EXCEPT !.pc = "departed"] /\ UNCHANGED api
           \/ /\ c.feats # "current" /\ PatchHolds(api.class, c)
              /\ api' = [api EXCEPT !.class.feats = "current", !.class.rv = @ + 1]
              /\ sweep' = [sweep EXCEPT !.pc = "departed"]
           \/ /\ c.feats # "current"
              /\ sweep' = [sweep EXCEPT !.pc = "departed", !.ok = FALSE] /\ UNCHANGED api
        /\ Blip(c.feats # "current" /\ PatchHolds(api.class, c) /\ api' = api)
        /\ UNCHANGED <<seen, asks, work, hubHas, goneNote, wakeSweep, swept, foreign, lastUid>>

\* departed: gone from the store, or another controller's by its class.
Departed(world, n) == ~There(world.gw, n) \/ ~world.gw[n].ours
FindDeparted ==
    LET of(o) == {n \in Reported(seen.obj[o]) : Departed(seen, n)}
    IN  /\ sweep.pc = "departed"
        /\ sweep' = [sweep EXCEPT !.pc = "remove", !.clean = (seen = api),
                        !.todo = {[obj |-> o, read |-> seen.obj[o], gws |-> of(o)] :
                                      o \in {o \in Object : of(o) # {}}}]
        /\ UNCHANGED <<api, seen, asks, work, hubHas, goneNote, wakeSweep, swept, foreign, lastUid, budget>>

\* remove_entries
RemoveDeparted(w) ==
    /\ sweep.pc = "remove" /\ w \in sweep.todo
    /\ \/ /\ PatchHolds(api.obj[w.obj], w.read)
          /\ api' = [api EXCEPT !.obj[w.obj].rv = @ + 1,
                                !.obj[w.obj].entries = MergeOwned(w.read, w.gws, <<>>)]
          /\ sweep' = [sweep EXCEPT !.todo = @ \ {w}]
       \/ sweep' = [sweep EXCEPT !.todo = @ \ {w}, !.ok = FALSE] /\ UNCHANGED api
    /\ Blip(PatchHolds(api.obj[w.obj], w.read) /\ api' = api)
    /\ UNCHANGED <<seen, asks, work, hubHas, goneNote, wakeSweep, swept, foreign, lastUid>>

EndSweep ==
    /\ sweep.pc = "remove" /\ sweep.todo = {}
    /\ wakeSweep' = (wakeSweep \/ ~sweep.ok)
    /\ swept' = (sweep.ok /\ sweep.clean)
    /\ sweep' = Asleep
    /\ UNCHANGED <<api, seen, asks, work, hubHas, goneNote, foreign, lastUid, budget>>

-----------------------------------------------------------------------------
(* The watches. *)

\* map_route_to_gateways, map_policy_to_gateways
MapTargeted(o, gws) == {n \in o.targets : There(gws, n)}
MapObject(o, gws) == {n \in o.targets \cup Reported(o) : There(gws, n)}

SeeObject(o) ==
    /\ seen.obj[o] # api.obj[o] /\ seen' = [seen EXCEPT !.obj[o] = api.obj[o]]
    /\ asks' = asks \cup MapObject(api.obj[o], seen.gw)
    /\ Quietly
    /\ UNCHANGED <<api, work, hubHas, goneNote, wakeSweep, foreign, lastUid, budget>>

\* A deletion, or a relist that shows one, is noted; it runs no pass.
SeeGateway(n) ==
    /\ seen.gw[n] # api.gw[n] /\ seen' = [seen EXCEPT !.gw[n] = api.gw[n]]
    /\ asks' = IF There(api.gw, n) THEN asks \cup {n} ELSE asks \ {n}
    /\ goneNote' = (goneNote \/ (There(seen.gw, n) /\ seen.gw[n].uid # api.gw[n].uid))
    /\ Quietly
    /\ UNCHANGED <<api, work, hubHas, wakeSweep, foreign, lastUid, budget>>

\* Every Gateway is judged again, and the class pass runs.
SeeClass ==
    /\ seen.class # api.class /\ seen' = [seen EXCEPT !.class = api.class]
    /\ asks' = asks \cup {n \in GwName : There(seen.gw, n)} /\ wakeSweep' = TRUE
    /\ Quietly
    /\ UNCHANGED <<api, work, hubHas, goneNote, foreign, lastUid, budget>>

\* forget_deleted_gateways
ForgetDeleted ==
    /\ goneNote /\ goneNote' = FALSE
    /\ hubHas' = {n \in hubHas : There(seen.gw, n)} /\ wakeSweep' = TRUE
    /\ Quietly
    /\ UNCHANGED <<api, seen, asks, work, foreign, lastUid, budget>>

-----------------------------------------------------------------------------
(* Users and other controllers. *)

Changed(kind, new) ==
    /\ budget[kind] > 0 /\ budget' = [budget EXCEPT ![kind] = @ - 1] /\ api' = new /\ Loudly
    /\ UNCHANGED <<seen, asks, work, hubHas, goneNote, wakeSweep>>

Retarget(o) ==
    /\ \E ns \in SUBSET {n \in GwName : There(api.gw, n)} : ns # api.obj[o].targets /\
           Changed("targets", [api EXCEPT !.obj[o].targets = ns, !.obj[o].gen = @ + 1, !.obj[o].rv = @ + 1])
    /\ UNCHANGED <<foreign, lastUid>>
OtherWrites(o) ==
    LET e == [by |-> "other", gw |-> "elsewhere", says |-> 1, gen |-> 1]
    IN  /\ e \notin foreign[o]
        /\ Changed("foreign", [api EXCEPT !.obj[o].entries = Append(@, e), !.obj[o].rv = @ + 1])
        /\ foreign' = [foreign EXCEPT ![o] = @ \cup {e}] /\ UNCHANGED lastUid
EditGateway(n) ==
    /\ There(api.gw, n)
    /\ \/ Changed("gateway", [api EXCEPT !.gw[n].spec = @ + 1, !.gw[n].rv = @ + 1])
       \/ Changed("gateway", [api EXCEPT !.gw[n].ours = ~@, !.gw[n].spec = @ + 1, !.gw[n].rv = @ + 1])
       \/ Changed("gateway", [api EXCEPT !.gw[n] = NoGateway])
    /\ UNCHANGED <<foreign, lastUid>>
RecreateGateway(n) ==
    /\ ~There(api.gw, n)
    /\ lastUid' = lastUid + 1
    /\ Changed("gateway", [api EXCEPT !.gw[n] = [uid |-> lastUid + 1, rv |-> 10, spec |-> 10, ours |-> TRUE, status |-> 0]])
    /\ UNCHANGED foreign
EditClass ==
    /\ \/ Changed("class", [api EXCEPT !.class.gen = @ + 1, !.class.rv = @ + 1])
       \/ Changed("class", [api EXCEPT !.class.feats = "older", !.class.rv = @ + 1])
    /\ UNCHANGED <<foreign, lastUid>>

StatusInit ==
    /\ \E w \in Worlds :
          /\ api = [gw |-> [n \in GwName |-> IF n \in w.gws
                            THEN [uid |-> 1, rv |-> 1, spec |-> 1, ours |-> TRUE, status |-> 0] ELSE NoGateway],
              obj |-> [o \in Object |-> [rv |-> 1, gen |-> 1, targets |-> w.gws, entries |-> <<>>]],
              class |-> [rv |-> 1, gen |-> 1, cond |-> 1, feats |-> "current"]]
          /\ asks = w.gws /\ budget = w.budget
    /\ seen = api /\ work = [n \in GwName |-> Idle] /\ hubHas = {}
    /\ goneNote = FALSE /\ sweep = Asleep /\ wakeSweep = FALSE /\ swept = TRUE
    /\ foreign = [o \in Object |-> {}] /\ lastUid = 1 /\ late = {}

\* For the properties. An entry may escape a class pass when its write was
\* under way as its Gateway was seen to go, or has not been read back since;
\* one read while its Gateway is there, or taken up by a class pass, has not.
EscapesSweep(n, o) ==
    \/ /\ seen'.gw[n].uid # seen.gw[n].uid
       /\ work[n].pc = "objects" /\ \E w \in work[n].todo : w.obj = o
    \/ /\ work[n].pc = "objects" /\ work[n].gw.uid = seen.gw[n].uid
       /\ Owned(api'.obj[o], n) # Owned(api.obj[o], n)
ReadInTime(n, o) ==
    /\ n \in Reported(seen'.obj[o])
    /\ \/ seen'.obj[o] # seen.obj[o] /\ ~Departed(seen', n)
       \/ sweep.pc = "departed" /\ sweep'.pc = "remove" /\ Departed(seen, n)
NoteLate ==
    late' = {x \in Object \X GwName : (x \in late /\ ~ReadInTime(x[2], x[1])) \/ EscapesSweep(x[2], x[1])}

StatusStep ==
    \/ \E n \in GwName :
          \/ StartPass(n) \/ PublishPass(n) \/ WriteGatewayStatus(n) \/ CheckCurrent(n)
          \/ (\E w \in work[n].todo : WriteEntries(n, w)) \/ EndPass(n) \/ SeeGateway(n) \/ EditGateway(n) \/ RecreateGateway(n)
    \/ \E o \in Object : SeeObject(o) \/ Retarget(o) \/ OtherWrites(o)
    \/ StartSweep \/ ClassConditions \/ ClassFeatures \/ FindDeparted \/ EndSweep
    \/ \E w \in sweep.todo : RemoveDeparted(w)
    \/ SeeClass \/ ForgetDeleted \/ EditClass

StatusNext == StatusStep /\ NoteLate

StatusSpec == StatusInit /\ [][StatusNext]_statusVars

-----------------------------------------------------------------------------
(* Properties. *)

\* Nothing is under way and nothing is asked for.
Settled ==
    /\ asks = {} /\ ~goneNote /\ ~wakeSweep /\ sweep.pc = "idle" /\ seen = api
    /\ \A n \in GwName : work[n].pc = "idle"

\* No pass, stale or not, drops another controller's entry (the
\* read-modify-write of patch_entries). Once every event is handled, without
\* waiting for a resync, each Gateway of ours has the status of its spec and
\* each object exactly the entry of each that the Gateway and the object as
\* they are call for: a write refused or made on a stale read was followed
\* by another. Once a class pass was through as well, none of a Gateway that
\* left is there (gatewayclass::pass).
StatusesSettle ==
    /\ \A o \in Object : {e \in ToSet(api.obj[o].entries) : e.by # "portail"} = foreign[o]
    /\ Settled =>
          /\ \A n \in GwName : There(api.gw, n) /\ api.gw[n].ours =>
                /\ api.gw[n].status = api.gw[n].spec
                /\ \A o \in Object : Owned(api.obj[o], n) =
                      IF n \in api.obj[o].targets THEN <<EntryFor(n, api.gw[n].spec, api.obj[o])>> ELSE <<>>
          /\ api.class.cond = api.class.gen /\ api.class.feats = "current"
          /\ swept => \A o \in Object : \A n \in Reported(api.obj[o]) : ~Departed(api, n)

\* An entry that stays behind its Gateway, with nothing asked for that would
\* remove it, is one whose write crossed the departure: it was under way when
\* the deletion was seen, or the class pass the departure woke read the
\* object before the write came back.  No pass that had its writes before it
\* then (reconcile.rs, the check before them) and no event left another.
LeftBehindOnlyInFlight ==
    Settled => \A o \in Object, n \in GwName :
        n \in Reported(api.obj[o]) /\ Departed(api, n) => <<o, n>> \in late

\* What reconcile.rs:377-378 says of the check before the entries are written:
\* "Route entries name the Gateway, not its uid: none from a pass of a Gateway
\* deleted or recreated since."
NoEntryFromAStalePass ==
    [][\A n \in GwName, o \in Object :
           work[n].pc = "objects" /\ work'[n].todo # work[n].todo /\ api'.obj[o] # api.obj[o]
           => seen.gw[n].uid = work[n].gw.uid]_statusVars
=============================================================================
