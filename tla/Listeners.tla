------------------------------ MODULE Listeners ------------------------------
(***************************************************************************)
(* The data plane's sockets: which endpoints a snapshot asks for, the      *)
(* accept loops bound for them, the TLS plan of each port, and how the     *)
(* applier, the death watch of every loop and the sync loop's retries keep *)
(* /readyz true (src/src/proxy/data_plane.rs, src/src/dataplane/apply.rs,  *)
(* src/src/proxy/tls.rs, src/src/dataplane/addresses.rs and the re-apply   *)
(* paths of src/src/dataplane/mod.rs).                                     *)
(*                                                                         *)
(* An apply is a sequence of steps, one per lock of the data plane and one *)
(* per access of the ready flag; accept loops end between them, in the     *)
(* order the watch does: loop over, flag down, exits bumped, task          *)
(* finished.                                                               *)
(***************************************************************************)
EXTENDS Integers, FiniteSets, Sequences, SequencesExt

CONSTANTS
    Snapshots,   \* [listeners, addresses, networks]: what a Gateway may ask for
    FileConfigs, \* sequences of listeners a standalone data plane starts from
    Interfaces,  \* the IPs the pod may have
    Pinned,      \* the IPs it always has
    Names,       \* the SNIs clients ask for, sequences of labels
    Holdable     \* endpoints that another process may hold

VARIABLES
    mode,        \* "sync", "standalone", "failed" or "stopped"
    served,      \* the snapshot served, NoSnapshot before the first
    local,       \* local_interface_ips
    held,        \* endpoints another process holds
    loop,        \* Endpoint -> its accept loop
    plans,       \* port -> the listeners an SNI selects from, PlainPlan or NoPlan
    built,       \* terminate_configs: port -> the config, or NoConfig
    lastApplied, \* the fingerprint of the last apply
    isReady,     \* /readyz
    exitOwed,    \* listener_exits changed since the sync loop saw it
    rebindAt,    \* a re-apply is scheduled
    told,        \* the report's endpoints
    job,         \* the apply in progress
    misread      \* endpoints a look took for live after their watch had spoken

listenerVars == <<mode, served, local, held, loop, plans, built, lastApplied, isReady,
                  exitOwed, rebindAt, told, job, misread>>
tlsVars  == <<plans, built>>
syncVars == <<served, rebindAt, told, lastApplied>>

NoSnapshot == [listeners |-> <<>>, addresses |-> {}, networks |-> <<>>]
NoConfig   == [refs |-> <<>>, loaded |-> {}, keys |-> {}]
NoPlan     == [tls |-> FALSE, hosts |-> {}, absent |-> TRUE]
PlainPlan  == [NoPlan EXCEPT !.absent = FALSE]
Anywhere   == "anywhere"
NoLoop     == [at |-> "none", where |-> "none", port |-> 0]
NoJob      == [pc |-> "idle", binds |-> <<>>, bind |-> {}, wait |-> {}, errors |-> {},
               unchanged |-> FALSE, found |-> FALSE, snap |-> NoSnapshot]

-----------------------------------------------------------------------------
(* Addresses and endpoints. *)

\* An address that is a Network's name, with the pod's IP on it.
NetworkNames(snap) == snap.addresses \cap DOMAIN snap.networks
Resolve(snap, ips) ==
    {<<n, CHOOSE ip \in snap.networks[n] \cap ips : TRUE>> :
        n \in {m \in NetworkNames(snap) : snap.networks[m] \cap ips # {}}}
Unresolved(snap, ips) == {n \in NetworkNames(snap) : \A p \in Resolve(snap, ips) : p[1] # n}
Bindable(snap, ips) ==
    (snap.addresses \cap ips) \cup {p[2] : p \in Resolve(snap, ips)}
\* {Anywhere} stands for Some(empty), the empty set for None.
BindAddresses(snap, ips) ==
    IF Bindable(snap, ips) # {} THEN Bindable(snap, ips)
    ELSE IF Unresolved(snap, ips) # {} THEN {} ELSE {Anywhere}

Transport(l)  == IF l.protocol = "UDP" THEN "udp" ELSE "tcp"
EndpointOf(l) == [address |-> l.address, port |-> l.target, transport |-> Transport(l)]
Wildcard(e)   == [e EXCEPT !.address = Anywhere]
On(l, a)      == [l EXCEPT !.address = a]

AllListeners == UNION {ToSet(s.listeners) : s \in Snapshots} \cup UNION {ToSet(c) : c \in FileConfigs}
Endpoint == {EndpointOf(On(l, a)) : l \in AllListeners, a \in Interfaces \cup {Anywhere}}
Port     == {l.port : l \in AllListeners}

\* Served::binds: one listener per bind address.
Binds(snap, bind) ==
    FlattenSeq([i \in DOMAIN snap.listeners |->
        SetToSeq({On(snap.listeners[i], a) : a \in bind})])

\* required_endpoints of one listener: with nothing to bind, every interface.
RequiredOf(l, bind) == {EndpointOf(On(l, a)) : a \in IF bind = {} THEN {Anywhere} ELSE bind}

\* desired_endpoints: the first listener's port per endpoint, wildcards
\* standing for the specific ones beside them.
Desired(binds) ==
    LET named == {EndpointOf(binds[i]) : i \in DOMAIN binds}
        kept  == {e \in named : e.address = Anywhere \/ Wildcard(e) \notin named}
    IN  [e \in kept |-> binds[SelectInSeq(binds, LAMBDA l : EndpointOf(l) = e)].port]
Wants(desired, e, p) == e \in DOMAIN desired /\ desired[e] = p

-----------------------------------------------------------------------------
(* TLS plans. *)

CertKey(r) == <<r.name, r.host>>
HttpsOn(binds, p) == SelectSeq(binds, LAMBDA l : l.protocol = "HTTPS" /\ l.port = p)
\* merge_cert_refs_by_port: each key's first ref, in the listeners' order.
MergedRefs(binds, p) ==
    LET all == FlattenSeq([i \in DOMAIN HttpsOn(binds, p) |-> HttpsOn(binds, p)[i].refs])
    IN  [i \in {i \in DOMAIN all : \A j \in 1 .. i - 1 : CertKey(all[j]) # CertKey(all[i])}
            |-> all[i]]
Keys(refs)   == {CertKey(refs[i]) : i \in DOMAIN refs}
Loaded(refs) == {CertKey(refs[i]) : i \in {i \in DOMAIN refs : refs[i].usable}}

\* One port's terminating config after a pass: reused with the same refs and
\* bytes; a failed rebuild of the same refs keeps the last good one.
KeepsConfigAlways(old, refs) == old # NoConfig
KeepsConfig(old, refs) == old # NoConfig /\ old.keys = Keys(refs)
Rebuild(old, refs) ==
    IF DOMAIN refs = {} THEN NoConfig
    ELSE IF Loaded(refs) # {} THEN [refs |-> refs, loaded |-> Loaded(refs), keys |-> Keys(refs)]
    ELSE IF KeepsConfig(old, refs) THEN old ELSE NoConfig
Failed(old, refs) == DOMAIN refs # {} /\ Loaded(refs) = {} /\ old.refs # refs

HasCertOf(config, l) == \E i \in DOMAIN l.refs : CertKey(l.refs[i]) \in config.loaded
KindOf(config, l) ==
    CASE l.protocol = "HTTPS" -> IF HasCertOf(config, l) THEN "terminate" ELSE "noCert"
      [] l.protocol = "TLS"   -> "passthrough"
Rank == [passthrough |-> 0, noCert |-> 1, terminate |-> 2]
\* TLS Terminate listeners get no plan.
Planned(l)  == l.protocol # "UDP" /\ (l.protocol = "TLS" => l.passthrough)
SpeaksTls(l) == l.protocol \in {"HTTPS", "TLS"}

\* TlsPlan::add of each TLS listener on the port: per hostname, the best kind.
PlanOf(binds, p, config) ==
    LET on  == {l \in ToSet(binds) : l.port = p /\ Planned(l)}
        tls == {l \in on : SpeaksTls(l)}
        of(h) == {KindOf(config, l) : l \in {k \in tls : k.host = h}}
    IN  IF on = {} THEN NoPlan
        ELSE IF tls = {} THEN PlainPlan
        ELSE [absent |-> FALSE, tls |-> TRUE,
              hosts |-> {[host |-> h, kind |-> CHOOSE k \in of(h) : \A o \in of(h) : Rank[o] <= Rank[k]]
                          : h \in {l.host : l \in tls}}]

\* A hostname is [wild, labels]; the catch-all is the wildcard of the empty
\* name, which also takes the clients that send no SNI (the empty name).
Covers(host, sni) ==
    IF host.wild THEN host.labels = <<>> \/ (Len(host.labels) < Len(sni) /\ IsSuffix(host.labels, sni))
    ELSE host.labels = sni
\* TlsPlan::select: exact, then the longest wildcard, then the catch-all.
Beats(a, b) == ~a.wild \/ (b.wild /\ Len(b.labels) <= Len(a.labels))
BestHost(hosts, sni) ==
    LET fit == {h \in hosts : Covers(h, sni)}
    IN  {h \in fit : \A o \in fit : Beats(h, o)}
SelectTls(plan, sni) ==
    {c \in plan.hosts : c.host \in BestHost({d.host : d \in plan.hosts}, sni)}

\* SniCertResolver::resolve over the refs that loaded: by listener hostname
\* (the last ref of one wins), a catch-all's by Secret name before its last.
ServedCert(config, sni) ==
    LET live  == {i \in DOMAIN config.refs : CertKey(config.refs[i]) \in config.loaded}
        hosts == {config.refs[i].host : i \in live}
        best  == {i \in live : config.refs[i].host \in BestHost(hosts, sni)}
        named == {i \in best : config.refs[i].host.labels = <<>> /\ config.refs[i].name = sni}
        from  == IF named # {} THEN named ELSE best
    IN  {config.refs[i] : i \in {i \in from : \A j \in from : j <= i}}

\* serves: whether a socket on the port could serve a connection.
ServesPort(plan, config) ==
    ~plan.absent /\ (plan.tls => config # NoConfig \/ \E c \in plan.hosts : c.kind = "passthrough")

-----------------------------------------------------------------------------
(* Loops and readiness. *)

\* ListenerSlot::alive: the slot's task has not finished.
Alive(e)      == loop[e].where = "slot" /\ loop[e].at # "done"
Accepting(e)  == loop[e].where = "slot" /\ loop[e].at \in {"pending", "live"}
HoldsSocket(e) == loop[e].at \in {"pending", "live"}
Overlap(e, f) == e.port = f.port /\ e.transport = f.transport
                 /\ (e.address = f.address \/ Anywhere \in {e.address, f.address})
BindFails(e, lp) ==
    \/ \E f \in held : Overlap(e, f)
    \/ e.address \notin local \cup {Anywhere}
    \/ \E f \in Endpoint : Overlap(e, f) /\ lp[f].at \in {"pending", "live"}

ReadyOn(e) == Alive(e) \/ Alive(Wildcard(e))
Refused(l) == l.protocol = "HTTPS" /\ ~HasCertOf(built[l.port], l)
Required(snap, bind) == UNION {RequiredOf(l, bind) : l \in {k \in ToSet(snap.listeners) : ~Refused(k)}}
IsReadyFor(snap, bind) == \A e \in Required(snap, bind) : ReadyOn(e)
\* The loops a look took for live although they are over and said so.
TakenForLive(snap, bind) ==
    {e \in UNION {{f, Wildcard(f)} : f \in Required(snap, bind)} :
        loop[e].where = "slot" /\ loop[e].at = "bumped"}

Fingerprint(snap, bind) == <<snap.listeners, snap.addresses, bind>>

-----------------------------------------------------------------------------
(* The death watch of a loop (spawn_listener_task), one step per statement. *)

\* The accept loop returns.  A cancelled one lets its socket go and its task
\* finishes; any other exit is unexpected.
LoopEnds(e) ==
    /\ loop[e].at = "live"
    /\ loop' = [loop EXCEPT ![e].at = IF loop[e].where = "closing" THEN "done" ELSE "dead"]
    /\ UNCHANGED <<mode, served, local, held, tlsVars, lastApplied, isReady, exitOwed, rebindAt,
                   told, job, misread>>

\* Not cancelled: the flag goes down.
WatchFlips(e) ==
    /\ loop[e].at = "dead"
    /\ IF loop[e].where = "closing"
       THEN loop' = [loop EXCEPT ![e].at = "done"] /\ UNCHANGED isReady
       ELSE loop' = [loop EXCEPT ![e].at = "flipped"] /\ isReady' = FALSE
    /\ UNCHANGED <<mode, served, local, held, tlsVars, lastApplied, exitOwed, rebindAt, told, job,
                   misread>>

WatchBumps(e) ==
    /\ loop[e].at = "flipped"
    /\ loop' = [loop EXCEPT ![e].at = "bumped"]
    /\ exitOwed' = TRUE
    /\ UNCHANGED <<mode, served, local, held, tlsVars, lastApplied, isReady, rebindAt, told, job,
                   misread>>

WatchReturns(e) ==
    /\ loop[e].at = "bumped"
    /\ loop' = [loop EXCEPT ![e].at = "done"]
    /\ UNCHANGED <<mode, served, local, held, tlsVars, lastApplied, isReady, exitOwed, rebindAt,
                   told, job, misread>>

-----------------------------------------------------------------------------
(* An apply (Applier::apply, bring_up), one step per lock or flag access. *)

StartApply(snap) ==
    LET bind == BindAddresses(snap, local) IN
    job' = [NoJob EXCEPT !.pc = "look", !.snap = snap, !.bind = bind, !.binds = Binds(snap, bind),
                         !.unchanged = lastApplied = <<Fingerprint(snap, bind)>>]

\* SyncLoop::serve: a snapshot of this Gateway came.
Serve(snap) ==
    /\ mode = "sync" /\ job.pc = "idle" /\ snap # served
    /\ StartApply(snap)
    /\ UNCHANGED <<mode, local, held, loop, tlsVars, syncVars, isReady, exitOwed, misread>>

\* SyncLoop::reapply, from the exits watch or the rebind timer.
Reapply ==
    /\ mode = "sync" /\ job.pc = "idle"
    /\ \/ exitOwed /\ exitOwed' = FALSE
       \/ rebindAt /\ UNCHANGED exitOwed
    /\ IF served = NoSnapshot THEN rebindAt' = FALSE /\ UNCHANGED job
       ELSE StartApply(served) /\ UNCHANGED rebindAt
    /\ UNCHANGED <<mode, served, local, held, loop, tlsVars, lastApplied, told, isReady, misread>>

\* SyncLoop::gone: the Gateway is gone, Applier::clear.
GatewayGone ==
    /\ mode = "sync" /\ job.pc = "idle" /\ served # NoSnapshot
    /\ job' = [NoJob EXCEPT !.pc = "close"]
    /\ UNCHANGED <<mode, local, held, loop, tlsVars, syncVars, isReady, exitOwed, misread>>

Clearing == job.snap = NoSnapshot

\* The first is_ready, under the lock.
LookFirst ==
    /\ job.pc = "look"
    /\ LET ok == IsReadyFor(job.snap, job.bind) IN
       /\ job' = [job EXCEPT !.pc = IF ok THEN "storeTrue" ELSE "close"]
       /\ misread' = IF ok THEN TakenForLive(job.snap, job.bind) ELSE {}
    /\ UNCHANGED <<mode, local, held, loop, tlsVars, syncVars, isReady, exitOwed>>

StoreTrue ==
    /\ job.pc = "storeTrue"
    /\ isReady' = TRUE
    /\ job' = [job EXCEPT !.pc = IF job.unchanged THEN "report" ELSE "close"]
    /\ UNCHANGED <<mode, local, held, loop, tlsVars, syncVars, exitOwed, misread>>

\* close_where: the loops picked are cancelled and leave the map.
Closed(lp, es) == [e \in Endpoint |-> IF e \in es THEN [lp[e] EXCEPT !.where = "closing"] ELSE lp[e]]
Reaped(lp)     == [e \in Endpoint |-> IF lp[e].at = "done" /\ lp[e].where = "slot" THEN NoLoop ELSE lp[e]]

CloseUnwanted ==
    /\ job.pc = "close"
    /\ LET left     == Reaped(loop)
           desired  == Desired(job.binds)
           unwanted == {e \in Endpoint : left[e].where = "slot" /\ ~Wants(desired, e, left[e].port)}
       IN  /\ loop' = Closed(left, unwanted)
           /\ job' = [job EXCEPT !.pc = "await",
                        !.wait = unwanted \cup {e \in Endpoint : left[e].where = "closing"}]
    /\ UNCHANGED <<mode, local, held, tlsVars, syncVars, isReady, exitOwed, misread>>

\* The closed loops are awaited: their sockets are gone.
AwaitClosed ==
    /\ job.pc = "await"
    /\ \A e \in job.wait : loop[e].at = "done"
    /\ loop' = [e \in Endpoint |-> IF e \in job.wait THEN NoLoop ELSE loop[e]]
    /\ job' = [job EXCEPT !.pc = "bind"]
    /\ UNCHANGED <<mode, local, held, tlsVars, syncVars, isReady, exitOwed, misread>>

\* add_tcp_listeners: plans, dead ports, then the binds in order.  binding
\* folds over the listeners: [loop, errors].
BindOne(st, l, desired, live) ==
    LET e == EndpointOf(l)
        takes == \/ l.protocol = "UDP"
                 \/ Planned(l) /\ l.port \in live
    IN  IF ~takes \/ (st.loop[e].where = "slot" /\ st.loop[e].at # "done") \/ ~Wants(desired, e, l.port)
        THEN st
        ELSE IF BindFails(e, st.loop) THEN [st EXCEPT !.errors = @ \cup {e}]
        ELSE [st EXCEPT !.loop[e] = [at |-> "live", where |-> "slot", port |-> l.port]]

AddListeners ==
    /\ job.pc = "bind"
    /\ LET desired == Desired(job.binds)
           configs == [p \in Port |-> Rebuild(built[p], MergedRefs(job.binds, p))]
           newPlan == [p \in Port |-> PlanOf(job.binds, p, configs[p])]
           live    == {p \in Port : ServesPort(newPlan[p], configs[p])}
           bad     == {p \in Port : Failed(built[p], MergedRefs(job.binds, p))}
           dead    == {e \in Endpoint : /\ loop[e].where = "slot" /\ e.transport = "tcp"
                                        /\ ~newPlan[loop[e].port].absent /\ loop[e].port \notin live}
           end     == FoldLeft(LAMBDA st, l : BindOne(st, l, desired, live),
                               [loop |-> Closed(loop, dead), errors |-> {}], job.binds)
       IN  /\ built' = configs
           /\ plans' = newPlan
           /\ loop' = end.loop
           /\ job' = [job EXCEPT !.pc = IF Clearing THEN "cleared" ELSE "recheck",
                        !.errors = end.errors
                            \cup {e \in DOMAIN desired : desired[e] \in bad /\ e.transport = "tcp"}]
    /\ UNCHANGED <<mode, local, held, syncVars, isReady, exitOwed, misread>>

\* The end of clear and gone.
ClearDone ==
    /\ job.pc = "cleared"
    /\ lastApplied' = <<>>
    /\ isReady' = FALSE
    /\ served' = NoSnapshot /\ told' = {} /\ rebindAt' = FALSE
    /\ job' = NoJob
    /\ UNCHANGED <<mode, local, held, loop, tlsVars, exitOwed, misread>>

LookAgain ==
    /\ job.pc = "recheck"
    /\ LET ok == IsReadyFor(job.snap, job.bind) IN
       /\ job' = [job EXCEPT !.pc = "swap", !.found = ok]
       /\ misread' = IF ok THEN TakenForLive(job.snap, job.bind) ELSE {}
    /\ UNCHANGED <<mode, local, held, loop, tlsVars, syncVars, isReady, exitOwed>>

\* The truth in both directions.
SwapValueOnlyUp(found) == found \/ isReady
SwapValue(found) == found
SwapReady ==
    /\ job.pc = "swap"
    /\ isReady' = SwapValue(job.found)
    /\ job' = [job EXCEPT !.pc = IF job.unchanged THEN "report" ELSE "build"]
    /\ UNCHANGED <<mode, local, held, loop, tlsVars, syncVars, exitOwed, misread>>

\* The table is built and published, or fails to; either is the last apply.
BuildTables ==
    /\ job.pc = "build"
    /\ lastApplied' = <<Fingerprint(job.snap, job.bind)>>
    /\ job' = [job EXCEPT !.pc = "report"]
    /\ UNCHANGED <<mode, local, held, loop, tlsVars, served, told, rebindAt, isReady, exitOwed,
                   misread>>

\* listener_reports: an endpoint is bound when its listener terminates and a
\* live loop covers it.
ReportListeners ==
    /\ job.pc = "report"
    /\ told' = {[endpoint |-> e, refused |-> Refused(l), bound |-> ~Refused(l) /\ ReadyOn(e),
                 error |-> Refused(l) \/ (e \in job.errors /\ ~ReadyOn(e))]
                 : <<l, e>> \in {<<k, f>> \in ToSet(job.snap.listeners) \X Endpoint :
                                    job.bind # {} /\ f \in RequiredOf(k, job.bind)}}
    /\ served' = job.snap
    /\ job' = [job EXCEPT !.pc = "schedule"]
    /\ UNCHANGED <<mode, local, held, loop, tlsVars, lastApplied, rebindAt, isReady, exitOwed,
                   misread>>

\* schedule_rebind: by the flag as it is now, and the networks reported.
ScheduleRebind ==
    /\ job.pc = "schedule"
    /\ rebindAt' = (~isReady \/ Unresolved(served, local) # {})
    /\ job' = NoJob
    /\ UNCHANGED <<mode, served, local, held, loop, tlsVars, lastApplied, told, isReady, exitOwed,
                   misread>>

-----------------------------------------------------------------------------
(* Standalone mode, shutdown, and the world around. *)

\* DataPlane::new: one socket per endpoint; any failure fails it whole.
NewBind(st, l) ==
    LET e == EndpointOf(l)
    IN  IF st.failed \/ (l.protocol # "UDP" /\ ~Planned(l)) \/ st.loop[e] # NoLoop THEN st
        ELSE IF BindFails(e, st.loop) THEN [st EXCEPT !.failed = TRUE]
        ELSE [st EXCEPT !.loop[e] = [at |-> "pending", where |-> "slot", port |-> l.port]]
Construct(config) ==
    /\ mode = "standalone" /\ served = NoSnapshot /\ \A e \in Endpoint : loop[e] = NoLoop
    /\ LET configs == [p \in Port |-> Rebuild(NoConfig, MergedRefs(config, p))]
           end == FoldLeft(NewBind, [loop |-> loop,
                      failed |-> \E p \in Port : Failed(NoConfig, MergedRefs(config, p))], config)
       IN  IF end.failed THEN mode' = "failed" /\ UNCHANGED <<tlsVars, loop>>
           ELSE /\ loop' = end.loop
                /\ built' = configs
                /\ plans' = [p \in Port |-> PlanOf(config, p, configs[p])]
                /\ UNCHANGED mode
    /\ UNCHANGED <<local, held, syncVars, isReady, exitOwed, job, misread>>

\* start: every pending socket gets its accept loop.
StartLoops ==
    /\ mode = "standalone" /\ \E e \in Endpoint : loop[e].at = "pending"
    /\ loop' = [e \in Endpoint |-> IF loop[e].at = "pending" THEN [loop[e] EXCEPT !.at = "live"]
                                   ELSE loop[e]]
    /\ UNCHANGED <<mode, local, held, tlsVars, syncVars, isReady, exitOwed, job, misread>>

\* Drain::run: the process token stops every loop; the flag went down first.
StopAll ==
    /\ mode \in {"sync", "standalone"} /\ job.pc = "idle"
    /\ \A e \in Endpoint : loop[e].at # "pending"
    /\ mode' = "stopped" /\ isReady' = FALSE
    /\ loop' = Closed(loop, {e \in Endpoint : loop[e].where = "slot"})
    /\ UNCHANGED <<local, held, tlsVars, syncVars, exitOwed, job, misread>>

\* An interface comes or goes; another process takes or frees a port.
World ==
    /\ mode = "sync" /\ job.pc = "idle"
    /\ \/ \E ip \in Interfaces \ Pinned :
            /\ local' = IF ip \in local THEN local \ {ip} ELSE local \cup {ip}
            /\ UNCHANGED held
       \/ \E e \in Holdable :
            /\ \A f \in Endpoint : Overlap(e, f) => ~HoldsSocket(f)
            /\ held' = IF e \in held THEN held \ {e} ELSE held \cup {e}
            /\ UNCHANGED local
    /\ UNCHANGED <<mode, loop, tlsVars, syncVars, isReady, exitOwed, job, misread>>

ListenerInit ==
    /\ mode \in {"sync", "standalone"}
    /\ served = NoSnapshot
    /\ local = Pinned
    /\ held = {}
    /\ loop = [e \in Endpoint |-> NoLoop]
    /\ plans = [p \in Port |-> NoPlan]
    /\ built = [p \in Port |-> NoConfig]
    /\ lastApplied = <<>>
    /\ isReady = FALSE /\ exitOwed = FALSE /\ rebindAt = FALSE
    /\ told = {}
    /\ job = NoJob
    /\ misread = {}

ListenerNext ==
    \/ \E e \in Endpoint : LoopEnds(e) \/ WatchFlips(e) \/ WatchBumps(e) \/ WatchReturns(e)
    \/ \E s \in Snapshots : Serve(s)
    \/ Reapply \/ GatewayGone
    \/ LookFirst \/ StoreTrue \/ CloseUnwanted \/ AwaitClosed \/ AddListeners \/ ClearDone
    \/ LookAgain \/ SwapReady \/ BuildTables \/ ReportListeners \/ ScheduleRebind
    \/ \E c \in FileConfigs : Construct(c)
    \/ StartLoops \/ StopAll \/ World

ListenerSpec == ListenerInit /\ [][ListenerNext]_listenerVars

-----------------------------------------------------------------------------
(* Properties. *)

\* A loop whose watch has yet to put the flag down and owe a re-apply.
WatchPending(e) == loop[e].at \in {"dead", "flipped"}
Covered(e) == Accepting(e) \/ Accepting(Wildcard(e))

\* The endpoint is served through a loop that a look took for live.
Misread(e) == {e, Wildcard(e)} \cap misread # {}

\* Another apply is on its way: the rebind timer is set, an exit is unseen,
\* or a loop's watch is about to say so.
ApplyOwed == rebindAt \/ exitOwed \/ \E e \in Endpoint : WatchPending(e)
Serving == mode = "sync" /\ job.pc = "idle" /\ served # NoSnapshot

\* Between applies a data plane that serves a Gateway either is ready, and
\* has reported and accepts on every endpoint it must, or owes itself another
\* apply (bring_up's gate, spawn_listener_task, schedule_rebind).  What it
\* says of the code as it is leaves out an endpoint whose loop was over, but
\* its task not finished, when is_ready looked; no other loss is forgotten.
RebindOwed ==
    Serving => \/ ApplyOwed
               \/ /\ isReady
                  /\ \A t \in told : \/ t.refused
                                     \/ t.bound /\ Covered(t.endpoint)
                                     \/ Misread(t.endpoint)

\* "A dead accept loop does NOT count: readiness and Programmed must go false
\* the moment a listener can no longer accept, so the reconcile safety net
\* rebinds instead of trusting stale bookkeeping" (data_plane.rs:910-912): a
\* data plane that is ready and owes itself no apply accepts wherever its
\* Gateway needs it to.
DeadLoopsDoNotCount ==
    Serving /\ isReady /\ ~ApplyOwed => \A t \in told : t.refused \/ Covered(t.endpoint)

\* The certificate a handshake gets is one of the listener its SNI selects, on
\* the port as the last pass planned it: never a sibling's, never one that a
\* failed rebuild kept for a listener that left (plan_ports, TlsPlan::select,
\* SniCertResolver::resolve).
OwnCertificate ==
    \A p \in Port, sni \in Names :
        \A c \in SelectTls(plans[p], sni) :
            c.kind = "terminate" =>
                LET certs == ServedCert(built[p], sni) IN
                certs # {} /\ \A r \in certs : r.host = c.host

\* A listener that should serve does or is owed another try, and serves with
\* its own certificates.
ListenersHold == RebindOwed /\ OwnCertificate
=============================================================================
