--------------------------- MODULE HealthRegistry ---------------------------
(***************************************************************************)
(* Passive health tracking of backends and their recovery probes           *)
(* (proxy/health.rs).  Request tasks record failures and successes, every  *)
(* swap of the route table prunes, and one probe task per ejected backend  *)
(* brings it back.                                                         *)
(*                                                                         *)
(* A call that holds the map's shard lock throughout is one step.  The     *)
(* flag `tracked` is outside those locks, but record_failure's load and    *)
(* store of it commute with everything except prune's stores, which are    *)
(* steps of their own; so are the shards retain and is_empty go through.   *)
(***************************************************************************)
EXTENDS Naturals, FiniteSets

CONSTANTS
    Addr,               \* backend addresses
    Pruner,             \* who prunes: the applier, the DNS refresh
    Worker,             \* request tasks that report failures
    FAILURE_THRESHOLD,
    Probe,              \* probe tasks alive at once
    MaxReports,         \* connect failures reported
    MaxSwaps,           \* swaps of the route table
    MaxOutages          \* times backends go down

ASSUME HealthAssumption ==
    /\ FAILURE_THRESHOLD \in Nat \ {0}
    /\ {MaxReports, MaxSwaps, MaxOutages} \subseteq Nat
    /\ IsFiniteSet(Addr)

VARIABLES
    backends,   \* the map: the entry of each address
    tracked,    \* FALSE: the map is taken to be empty
    pruner,     \* where each prune stands
    worker,     \* what each reporting task has left to do
    probe,      \* the probe tasks
    up,         \* the backends that accept connections
    healthLeft        \* outside events left

healthVars == <<backends, tracked, pruner, worker, probe, up, healthLeft>>

-----------------------------------------------------------------------------
NoEntry == [status |-> "none", failures |-> 0, probe |-> {}]
Healthy == [status |-> "HEALTHY", failures |-> 0, probe |-> {}]

Present(a) == backends[a] # NoEntry

IdlePruner == [pc |-> "idle", table |-> {}, todo |-> {}]
IdleWorker == [pc |-> "idle", addr |-> {}, probe |-> {}]
NoProbe == [st |-> "none", addr |-> {}, aborted |-> FALSE]

\* Sets of at most one element stand for an Option.
Option(S) == {{}} \cup {{x} : x \in S}

HealthTypeOK ==
    /\ backends \in [Addr -> {NoEntry} \cup
          [status : {"HEALTHY", "PROBING"}, failures : 0 .. MaxReports, probe : Option(Probe)]]
    /\ tracked \in BOOLEAN
    /\ pruner \in [Pruner ->
          [pc : {"idle", "retain", "scan", "lower", "rescan", "raise"},
           table : SUBSET Addr, todo : SUBSET Addr]]
    /\ worker \in [Worker ->
          [pc : {"idle", "spawn", "attach"}, addr : Option(Addr), probe : Option(Probe)]]
    /\ probe \in [Probe ->
          [st : {"none", "asleep", "connecting"}, addr : Option(Addr), aborted : BOOLEAN]]
    /\ up \subseteq Addr
    /\ healthLeft \in [reports : 0 .. MaxReports, swaps : 0 .. MaxSwaps, outages : 0 .. MaxOutages]

HealthInit ==
    /\ backends = [a \in Addr |-> NoEntry]
    /\ tracked = FALSE
    /\ pruner = [p \in Pruner |-> IdlePruner]
    /\ worker = [w \in Worker |-> IdleWorker]
    /\ probe = [q \in Probe |-> NoProbe]
    /\ up = Addr
    /\ healthLeft = [reports |-> MaxReports, swaps |-> MaxSwaps, outages |-> MaxOutages]

SpendHealth(what) == healthLeft[what] > 0 /\ healthLeft' = [healthLeft EXCEPT ![what] = @ - 1]

\* The backends go down and come back: external.
GoDown(a) ==
    /\ SpendHealth("outages")
    /\ a \in up /\ up' = up \ {a}
    /\ UNCHANGED <<backends, tracked, pruner, worker, probe>>

ComeUp(a) ==
    /\ a \notin up /\ up' = up \cup {a}
    /\ UNCHANGED <<backends, tracked, pruner, worker, probe, healthLeft>>

-----------------------------------------------------------------------------
(* Request tasks.                                                           *)

\* The lookup of is_healthy.
IsHealthy(a) == ~tracked \/ ~Present(a) \/ backends[a].status = "HEALTHY"

\* record_success: nothing to do while nothing is tracked.
RecordSuccess(a) ==
    /\ tracked /\ Present(a)
    /\ backends[a].status # "HEALTHY" \/ backends[a].failures > 0
    /\ backends' = [backends EXCEPT ![a].status = "HEALTHY", ![a].failures = 0]
    /\ UNCHANGED <<tracked, pruner, worker, probe, up, healthLeft>>

\* record_failure: the task whose failure takes the backend to PROBING
\* spawns the probe.
RecordFailure(w, a) ==
    LET entry == IF Present(a) THEN backends[a] ELSE Healthy
        count == entry.failures + 1
        wins == count >= FAILURE_THRESHOLD /\ entry.status # "PROBING"
    IN
    /\ worker[w].pc = "idle"
    /\ SpendHealth("reports")
    /\ backends' = [backends EXCEPT ![a] =
          [entry EXCEPT !.failures = count, !.status = IF wins THEN "PROBING" ELSE @]]
    /\ tracked' = TRUE
    /\ worker' = IF wins THEN [worker EXCEPT ![w] = [IdleWorker EXCEPT !.pc = "spawn", !.addr = {a}]]
                 ELSE worker
    /\ UNCHANGED <<pruner, probe, up>>

Aborted(probes, which) == [q \in Probe |->
    IF q \in which /\ probes[q].st # "none" THEN [probes[q] EXCEPT !.aborted = TRUE]
    ELSE probes[q]]

\* The tasks there are not, and whose handle nobody keeps.
FreeProbes == {q \in Probe : probe[q] = NoProbe /\ \A a \in Addr : q \notin backends[a].probe}

\* spawn_probe: the task is spawned, no lock held since record_failure.
SpawnProbe(w) ==
    LET q == CHOOSE q \in FreeProbes : TRUE IN
    /\ worker[w].pc = "spawn"
    /\ FreeProbes # {}
    /\ probe' = [probe EXCEPT ![q] = [st |-> "asleep", addr |-> worker[w].addr, aborted |-> FALSE]]
    /\ worker' = [worker EXCEPT ![w].pc = "attach", ![w].probe = {q}]
    /\ UNCHANGED <<backends, tracked, pruner, up, healthLeft>>

\* A variant that keeps the handle the entry has.
AttachProbeOnce(w) ==
    /\ worker[w].pc = "attach"
    /\ \E a \in worker[w].addr :
        IF Present(a) /\ backends[a].probe = {}
        THEN backends' = [backends EXCEPT ![a].probe = worker[w].probe] /\ UNCHANGED probe
        ELSE probe' = Aborted(probe, worker[w].probe) /\ UNCHANGED backends
    /\ worker' = [worker EXCEPT ![w] = IdleWorker]
    /\ UNCHANGED <<tracked, pruner, up, healthLeft>>

\* Then its handle goes into the entry, for the stale one of an earlier
\* episode; or the entry was pruned since.
AttachProbe(w) ==
    /\ worker[w].pc = "attach"
    /\ \E a \in worker[w].addr :
        IF Present(a)
        THEN /\ probe' = Aborted(probe, backends[a].probe)
             /\ backends' = [backends EXCEPT ![a].probe = worker[w].probe]
        ELSE /\ probe' = Aborted(probe, worker[w].probe)
             /\ UNCHANGED backends
    /\ worker' = [worker EXCEPT ![w] = IdleWorker]
    /\ UNCHANGED <<tracked, pruner, up, healthLeft>>

-----------------------------------------------------------------------------
(* Probe tasks.  An aborted one may be past its await already and finish    *)
(* the code up to the next.                                                 *)

ProbeEnds(q) == probe' = [probe EXCEPT ![q] = NoProbe]

\* run_probe, the sleep over: is there still something to probe?  The first
\* sleep (PROBE_INITIAL_INTERVAL, 10 s) outlasts the spawn_probe that began it.
ProbeWakes(q) ==
    /\ probe[q].st = "asleep"
    /\ \A w \in Worker : q \notin worker[w].probe
    /\ IF \E a \in probe[q].addr : backends[a].status = "PROBING"
       THEN probe' = [probe EXCEPT ![q].st = "connecting"]
       ELSE ProbeEnds(q)
    /\ UNCHANGED <<backends, tracked, pruner, worker, up, healthLeft>>

\* The connect of a backend that is up: healthy again, if it is probed yet.
ProbeConnects(q) ==
    /\ probe[q].st = "connecting"
    /\ probe[q].addr \subseteq up
    /\ backends' = [a \in Addr |->
          IF a \in probe[q].addr /\ Present(a)
          THEN [backends[a] EXCEPT !.failures = 0, !.status = "HEALTHY"] ELSE backends[a]]
    /\ ProbeEnds(q)
    /\ UNCHANGED <<tracked, pruner, worker, up, healthLeft>>

\* A variant whose probes try once.
ProbeFailsForGood(q) ==
    /\ probe[q].st = "connecting"
    /\ ~(probe[q].addr \subseteq up)
    /\ ProbeEnds(q)
    /\ UNCHANGED <<backends, tracked, pruner, worker, up, healthLeft>>

\* The connect fails or times out: asleep again, for longer.
ProbeFails(q) ==
    /\ probe[q].st = "connecting"
    /\ ~(probe[q].addr \subseteq up)
    /\ probe' = [probe EXCEPT ![q].st = "asleep"]
    /\ UNCHANGED <<backends, tracked, pruner, worker, up, healthLeft>>

AbortLands(q) ==
    /\ probe[q].aborted
    /\ ProbeEnds(q)
    /\ UNCHANGED <<backends, tracked, pruner, worker, up, healthLeft>>

-----------------------------------------------------------------------------
(* HealthRegistry::prune, after a swap of the live table.                   *)

PruneBegin(p) ==
    /\ pruner[p].pc = "idle"
    /\ SpendHealth("swaps")
    /\ \E table \in SUBSET Addr :
        pruner' = IF ~tracked THEN pruner
                  ELSE [pruner EXCEPT ![p] = [pc |-> "retain", table |-> table, todo |-> Addr]]
    /\ UNCHANGED <<backends, tracked, worker, probe, up>>

\* One pass over the shards: the next one, or what follows the last.
Scan(p, a, next) ==
    pruner' = [pruner EXCEPT ![p] =
        IF pruner[p].todo = {a}
        THEN [pruner[p] EXCEPT !.pc = next, !.todo = IF next = "scan" THEN Addr ELSE {}]
        ELSE [pruner[p] EXCEPT !.todo = pruner[p].todo \ {a}]]

\* A variant that drops the entry and not its probe.
PruneRetainProbing(p) ==
    /\ pruner[p].pc = "retain"
    /\ \E a \in pruner[p].todo :
        /\ backends' = IF a \in pruner[p].table THEN backends
                       ELSE [backends EXCEPT ![a] = NoEntry]
        /\ Scan(p, a, "scan")
    /\ UNCHANGED <<tracked, worker, probe, up, healthLeft>>

\* An entry no longer routed to is dropped, and its probe aborted.
PruneRetain(p) ==
    /\ pruner[p].pc = "retain"
    /\ \E a \in pruner[p].todo :
        /\ IF a \in pruner[p].table THEN UNCHANGED <<backends, probe>>
           ELSE /\ probe' = Aborted(probe, backends[a].probe)
                /\ backends' = [backends EXCEPT ![a] = NoEntry]
        /\ Scan(p, a, "scan")
    /\ UNCHANGED <<tracked, worker, up, healthLeft>>

PruneDone(p) == pruner' = [pruner EXCEPT ![p] = IdlePruner]

PruneScan(p) ==
    /\ pruner[p].pc = "scan"
    /\ \E a \in pruner[p].todo : IF Present(a) THEN PruneDone(p) ELSE Scan(p, a, "lower")
    /\ UNCHANGED <<backends, tracked, worker, probe, up, healthLeft>>

\* A variant that lowers the flag and looks no more.
PruneLowerOnly(p) ==
    /\ pruner[p].pc = "lower"
    /\ tracked' = FALSE
    /\ PruneDone(p)
    /\ UNCHANGED <<backends, worker, probe, up, healthLeft>>

PruneLower(p) ==
    /\ pruner[p].pc = "lower"
    /\ tracked' = FALSE
    /\ pruner' = [pruner EXCEPT ![p].pc = "rescan", ![p].todo = Addr]
    /\ UNCHANGED <<backends, worker, probe, up, healthLeft>>

\* The second look, for an insert that raced the lowering.
PruneRescan(p) ==
    /\ pruner[p].pc = "rescan"
    /\ \E a \in pruner[p].todo :
        IF Present(a) THEN pruner' = [pruner EXCEPT ![p].pc = "raise", ![p].todo = {}]
        ELSE IF pruner[p].todo = {a} THEN PruneDone(p) ELSE Scan(p, a, "rescan")
    /\ UNCHANGED <<backends, tracked, worker, probe, up, healthLeft>>

PruneRaise(p) ==
    /\ pruner[p].pc = "raise"
    /\ tracked' = TRUE
    /\ PruneDone(p)
    /\ UNCHANGED <<backends, worker, probe, up, healthLeft>>

-----------------------------------------------------------------------------
Pruning(p) ==
    PruneRetain(p) \/ PruneScan(p) \/ PruneLower(p) \/ PruneRescan(p) \/ PruneRaise(p)

Probing(q) == ProbeWakes(q) \/ ProbeConnects(q) \/ ProbeFails(q)

Spawning(w) == SpawnProbe(w) \/ AttachProbe(w)

HealthNext ==
    \/ \E a \in Addr : GoDown(a) \/ ComeUp(a) \/ RecordSuccess(a)
    \/ \E w \in Worker, a \in Addr : RecordFailure(w, a)
    \/ \E w \in Worker : Spawning(w)
    \/ \E q \in Probe : Probing(q) \/ AbortLands(q)
    \/ \E p \in Pruner : PruneBegin(p) \/ Pruning(p)

\* Tasks once started go on, a probe's sleeps and connects end; no backend
\* is assumed to come back, no request to be made.
HealthFairness ==
    /\ \A p \in Pruner : WF_healthVars(Pruning(p))
    /\ \A w \in Worker : WF_healthVars(Spawning(w))
    /\ \A q \in Probe : WF_healthVars(Probing(q)) /\ WF_healthVars(AbortLands(q))

HealthSpec == HealthInit /\ [][HealthNext]_healthVars

-----------------------------------------------------------------------------
(***************************************************************************)
(* "No entry outlives a lowered flag" (health.rs:96): while the flag says  *)
(* untracked, any entry in the map is one a prune under way has yet to     *)
(* look for again, and will raise the flag for.                            *)
(***************************************************************************)
NoEntryUntracked ==
    \A a \in Addr : Present(a) /\ ~tracked =>
        \E p \in Pruner :
            \/ pruner[p].pc = "rescan" /\ a \in pruner[p].todo
            \/ pruner[p].pc = "raise"

(***************************************************************************)
(* No ejected backend is left without the probe that brings it back: it    *)
(* gets no traffic, so no failure could ever start another one.  Either    *)
(* its entry holds a live probe nobody aborted, or the task that ejected   *)
(* it is yet to attach one (health.rs, record_failure and spawn_probe).    *)
(***************************************************************************)
Attached(a) == \E q \in backends[a].probe : probe[q].addr = {a} /\ ~probe[q].aborted

Spawns(a) == \E w \in Worker : worker[w].pc \in {"spawn", "attach"} /\ worker[w].addr = {a}

EjectedIsProbed ==
    \A a \in Addr : backends[a].status = "PROBING" => Attached(a) \/ Spawns(a)

(***************************************************************************)
(* No probe runs on for a backend the table lost, or beside the one of a   *)
(* later episode: a probe nobody aborted is the one its backend's entry    *)
(* holds, or is about to be attached (health.rs, Drop and spawn_probe).    *)
(***************************************************************************)
NoStrayProbe ==
    \A q \in Probe : probe[q].st # "none" /\ ~probe[q].aborted =>
        \/ \E a \in probe[q].addr : q \in backends[a].probe
        \/ \E w \in Worker : worker[w].pc = "attach" /\ q \in worker[w].probe

(***************************************************************************)
(* Probes and ejected backends match: each ejected one has its probe, each *)
(* probe its ejected one (health.rs, record_failure, spawn_probe, prune).  *)
(***************************************************************************)
ProbesMatch == EjectedIsProbed /\ NoStrayProbe

(***************************************************************************)
(* A backend that stays up from some time on is eventually routed to again *)
(* for good, whatever was reported, pruned and probed before: a probe      *)
(* never gives up, and none is lost (health.rs, run_probe).                *)
(***************************************************************************)
Recovers == \A a \in Addr : <>[](a \in up) => <>[]IsHealthy(a)
=============================================================================
