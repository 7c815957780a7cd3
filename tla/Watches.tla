------------------------------- MODULE Watches -------------------------------
(***************************************************************************)
(* The controller's caches: which kinds are watched, when they count as    *)
(* listed, who waits for that and who is told                              *)
(* (src/src/kubernetes/controller/watch.rs, the wiring of mod.rs, the      *)
(* gates of reconcile.rs and gatewayclass.rs).                             *)
(*                                                                         *)
(* All reflectors are driven by one task, the Gateway controller's stream: *)
(* it observes an event, wakes the waiters, applies it to the store and    *)
(* hands it to the mappers, while passes, the class pass, the task that    *)
(* reports the caches synced and the discovery of each optional CRD go on. *)
(* A kind's objects are a revision; a list fills a buffer that InitDone    *)
(* puts in the store's place. One Gateway stands for all: they share no    *)
(* queue entry. The debounce only delays a pass.                           *)
(***************************************************************************)
EXTENDS Integers, FiniteSets

CONSTANTS
    KindOf,        \* kind -> "required" or "optional"
    WatchWorlds    \* which CRDs and objects are there, and bounds on edits, failures, installs

\* The Gateway CRD is no optional one. The Gateway may come later.
ASSUME WatchAssumption ==
    /\ "Gateway" \in DOMAIN KindOf /\ KindOf["Gateway"] # "optional"
    /\ \A w \in WatchWorlds : "Gateway" \notin w.missing /\ w.leads \in BOOLEAN

VARIABLES
    there,       \* kind -> what the apiserver has: a revision, or NoCrd
    stream,      \* kind -> where its watch is
    buffer,      \* kind -> the list being received
    store,       \* kind -> what the reflector holds, or Unfilled
    listed,      \* kind -> Listing::listed
    event,       \* the event the stream task is at: NoWatchEvent, or kind, event, step, object
    unnotified,  \* the kinds updated by discovery whose waiters are not told yet
    permit,      \* Listings::changed
    syncer,      \* the task that reports the caches synced
    waiter,      \* the class task's Listings::synced
    trigger,     \* caches_synced, or leader.gained(): every Gateway is due
    parked,      \* PendingWatches
    recheck,     \* the parked kinds a recheck still goes through
    leads,
    queued,      \* a pass of the Gateway is due
    rerun,       \* its requeue is set
    passRead,    \* what its last synced pass read
    classMissed, \* kinds a class pass did not find although the caches were synced
    relists,     \* the kinds listed again since they counted as listed
    bounds       \* edits, failures, installs left

watchVars == <<there, stream, buffer, store, listed, event, unnotified, permit, syncer, waiter, trigger,
               parked, recheck, leads, queued, rerun, passRead, classMissed, relists, bounds>>
plumbing  == <<there, stream, buffer, store, event, parked, recheck, leads, bounds>>
wakes     == <<listed, unnotified, permit, syncer, waiter, trigger>>
passes    == <<queued, rerun, passRead, classMissed>>

WatchedKind   == DOMAIN KindOf
NoCrd    == -2
Unfilled == -1
NoWatchEvent  == [kind |-> "none", event |-> "none", step |-> "none", rev |-> 0]
Unread   == [k \in WatchedKind |-> Unfilled]

WatchInit ==
    \E w \in WatchWorlds :
        /\ bounds = w
        /\ there = [k \in WatchedKind |-> IF k \in w.missing THEN NoCrd
                                          ELSE IF k \in w.absent THEN 0 ELSE 1]
        /\ stream = [k \in WatchedKind |-> IF KindOf[k] = "optional" THEN "discover" ELSE "open"]
        /\ buffer = Unread /\ store = Unread /\ listed = [k \in WatchedKind |-> FALSE]
        /\ event = NoWatchEvent /\ unnotified = {} /\ permit = FALSE /\ syncer = "check"
        /\ waiter = [at |-> "register", woken |-> FALSE] /\ trigger = FALSE
        /\ parked = {} /\ recheck = {} /\ leads = w.leads
        /\ queued = FALSE /\ rerun = FALSE /\ passRead = Unread /\ classMissed = {} /\ relists = {}

SpendBound(b) == bounds[b] > 0 /\ bounds' = [bounds EXCEPT ![b] = @ - 1]

-----------------------------------------------------------------------------
(* Listings. *)

IsSynced == \A k \in WatchedKind : listed[k]

\* Whom notify_waiters reaches: who was enabled before it checked. The
\* variant reaches who already waits.
ListensLate(w) == w.at = "wait"
Listens(w) == w.at \in {"check", "unsynced", "wait"}

\* The last line of update: a permit for the one waiter on changed, a wake
\* for those registered on any_change.
NotifyAll ==
    /\ permit' = TRUE
    /\ waiter' = [waiter EXCEPT !.woken = @ \/ Listens(waiter)]

\* ListTracker::failed
Refused(k, code) == ~listed[k] /\ KindOf[k] = "optional" /\ code = "refused"

-----------------------------------------------------------------------------
(* The stream task. *)

\* What a watch yields next: the list's beginning, its objects, its end, a
\* change, or an error, after which it begins again.
Yields(k, e) ==
    \/ stream[k] \in {"open", "again"} /\ e = "init" /\ there[k] # NoCrd
    \/ stream[k] = "init" /\ e = "initApply" /\ there[k] > 0
    \/ stream[k] \in {"init", "filled"} /\ e = "initDone" /\ (stream[k] = "init" => there[k] = 0)
    \/ stream[k] = "live" /\ e = "apply" /\ there[k] # store[k] /\ there[k] # NoCrd
    \/ stream[k] \notin {"discover", "unserved", "parked"} /\ (e = "error" \/ (e = "refused" /\ KindOf[k] = "optional"))

After(e, was) ==
    CASE e = "init"      -> "init"
      [] e = "initApply" -> "filled"
      [] e = "initDone"  -> "live"
      [] e = "apply"     -> "live"
      [] OTHER           -> IF was = "open" THEN "open" ELSE "again"

\* ListTracker::observe runs before the reflector sees the event.
Observe(k, e) ==
    /\ event = NoWatchEvent /\ Yields(k, e)
    /\ IF e \in {"error", "refused"} THEN SpendBound("failures") ELSE UNCHANGED bounds
    /\ listed' = [listed EXCEPT ![k] = @ \/ e = "initDone" \/ Refused(k, e)]
    /\ relists' = IF e = "initDone" /\ listed[k] THEN relists \cup {k} ELSE relists
    /\ event' = [kind |-> k, event |-> e,
                    step |-> IF e \in {"initDone", "error", "refused"} THEN "notify" ELSE "apply",
                    rev |-> there[k]]
    /\ UNCHANGED <<there, stream, buffer, store, unnotified, permit, syncer, waiter, trigger, parked, recheck, leads, passes>>

Tell ==
    /\ event.step = "notify" /\ NotifyAll
    /\ event' = [event EXCEPT !.step = "apply"]
    /\ UNCHANGED <<there, stream, buffer, store, listed, unnotified, syncer, trigger, parked, recheck, leads, passes, relists, bounds>>

\* reflector(), then touched_objects or applied_objects and the mapper: an
\* object of a list is handed on as it comes, before the list is in the store,
\* and an event asks for no pass while the store holds no Gateway to map it to.
AskPass(k, e) == e \in {"apply", "initApply"} /\ (k = "Gateway" \/ store["Gateway"] > 0)

ApplyEvent ==
    LET k == event.kind
        e == event.event
    IN  /\ event.step = "apply"
        /\ buffer' = CASE e = "init" -> [buffer EXCEPT ![k] = 0]
                       [] e = "initApply" -> [buffer EXCEPT ![k] = event.rev]
                       [] OTHER -> buffer
        /\ store' = CASE e = "initDone" -> [store EXCEPT ![k] = buffer[k]]
                      [] e = "apply" -> [store EXCEPT ![k] = event.rev]
                      [] OTHER -> store
        /\ stream' = [stream EXCEPT ![k] = After(e, @)]
        /\ queued' = (queued \/ AskPass(k, e))
        /\ event' = NoWatchEvent
        /\ UNCHANGED <<there, parked, recheck, leads, bounds, wakes, rerun, passRead, classMissed, relists>>

\* reconcile_all_on: polled by the same task, so never between an event's
\* observation and its place in the store. The variant is polled elsewhere.
AllPolledAnywhere == trigger
AllPolled == trigger /\ event = NoWatchEvent
ReconcileAll ==
    /\ AllPolled
    /\ trigger' = FALSE
    /\ queued' = (queued \/ store["Gateway"] > 0)
    /\ UNCHANGED <<plumbing, listed, unnotified, permit, syncer, waiter, rerun, passRead, classMissed, relists>>

-----------------------------------------------------------------------------
(* Discovery of an optional CRD. *)

\* discover: an answer starts the watch or parks it; a failure says neither.
\* The answer may be older than what it leads to.
Discover(k) ==
    /\ stream[k] = "discover"
    /\ \/ /\ there[k] # NoCrd
          /\ stream' = [stream EXCEPT ![k] = "open"]
          /\ UNCHANGED <<listed, unnotified, bounds>>
       \/ /\ there[k] = NoCrd
          /\ stream' = [stream EXCEPT ![k] = "unserved"]
          /\ UNCHANGED <<listed, unnotified, bounds>>
       \/ /\ SpendBound("failures")
          /\ unnotified' = unnotified \cup {k}
          /\ UNCHANGED <<stream, listed>>
    /\ k \notin unnotified
    /\ UNCHANGED <<there, buffer, store, event, permit, syncer, waiter, trigger, parked, recheck, leads, passes, relists>>

\* listed_empty, its notification, then PendingWatches::add.
ListedEmpty(k) ==
    /\ stream[k] = "unserved" /\ ~listed[k]
    /\ listed' = [listed EXCEPT ![k] = TRUE]
    /\ unnotified' = unnotified \cup {k}
    /\ UNCHANGED <<plumbing, permit, syncer, waiter, trigger, passes, relists>>

TellOf(k) ==
    /\ k \in unnotified /\ NotifyAll
    /\ unnotified' = unnotified \ {k}
    /\ UNCHANGED <<plumbing, listed, syncer, trigger, passes, relists>>

Park(k) ==
    /\ stream[k] = "unserved" /\ listed[k] /\ k \notin unnotified
    /\ stream' = [stream EXCEPT ![k] = "parked"]
    /\ parked' = parked \cup {k}
    /\ UNCHANGED <<there, buffer, store, event, recheck, leads, bounds, wakes, passes, relists>>

\* PendingWatches::recheck: the kinds parked now, one after the other.
RecheckBegins ==
    /\ recheck = {} /\ \E k \in parked : there[k] # NoCrd
    /\ recheck' = parked
    /\ UNCHANGED <<there, stream, buffer, store, event, parked, leads, bounds, wakes, passes, relists>>

RecheckOne(k) ==
    /\ k \in recheck
    /\ recheck' = recheck \ {k}
    /\ IF there[k] = NoCrd THEN UNCHANGED <<parked, stream>>
       ELSE parked' = parked \ {k} /\ stream' = [stream EXCEPT ![k] = "open"]
    /\ UNCHANGED <<there, buffer, store, event, leads, bounds, wakes, passes, relists>>

-----------------------------------------------------------------------------
(* Those who wait. *)

\* The synced task: its check, and its wait for a permit.
SyncerChecks ==
    /\ syncer = "check"
    /\ syncer' = IF IsSynced THEN "told" ELSE "wait"
    /\ trigger' = (trigger \/ IsSynced)
    /\ UNCHANGED <<plumbing, listed, unnotified, permit, waiter, passes, relists>>

SyncerWakes ==
    /\ syncer = "wait" /\ permit
    /\ permit' = FALSE /\ syncer' = "check"
    /\ UNCHANGED <<plumbing, listed, unnotified, waiter, trigger, passes, relists>>

\* Listings::synced: registered before the check.
WaiterRegisters ==
    /\ waiter.at = "register"
    /\ waiter' = [at |-> "check", woken |-> FALSE]
    /\ UNCHANGED <<plumbing, listed, unnotified, permit, syncer, trigger, passes, relists>>

WaiterChecks ==
    /\ waiter.at = "check"
    /\ waiter' = [waiter EXCEPT !.at = IF IsSynced THEN "synced" ELSE "unsynced"]
    /\ UNCHANGED <<plumbing, listed, unnotified, permit, syncer, trigger, passes, relists>>

WaiterWaits ==
    /\ waiter.at = "unsynced"
    /\ waiter' = [waiter EXCEPT !.at = "wait"]
    /\ UNCHANGED <<plumbing, listed, unnotified, permit, syncer, trigger, passes, relists>>

WaiterWakes ==
    /\ waiter.at = "wait" /\ waiter.woken
    /\ waiter' = [waiter EXCEPT !.at = "register"]
    /\ UNCHANGED <<plumbing, listed, unnotified, permit, syncer, trigger, passes, relists>>

\* The class pass, as soon as the caches are synced and at any event of a class.
ClassPass ==
    /\ leads /\ IsSynced
    /\ classMissed' = classMissed \cup {k \in WatchedKind : store[k] = Unfilled}
    /\ UNCHANGED <<plumbing, wakes, queued, rerun, passRead, relists>>

\* A pass: without a trace while the caches are not synced or another
\* replica leads (await_change), else on what the stores hold, and again
\* after the requeue. The queue drops a name its store does not hold.
Pass ==
    /\ queued \/ rerun
    /\ queued' = FALSE
    /\ IF store["Gateway"] > 0 /\ IsSynced /\ leads
       THEN passRead' = store /\ rerun' = TRUE
       ELSE rerun' = FALSE /\ UNCHANGED passRead
    /\ passRead' # passRead \/ queued
    /\ UNCHANGED <<plumbing, wakes, classMissed, relists>>

-----------------------------------------------------------------------------
(* Outside. *)

GainLease ==
    /\ ~leads /\ leads' = TRUE /\ trigger' = TRUE
    /\ UNCHANGED <<there, stream, buffer, store, event, parked, recheck, bounds, listed, unnotified, permit, syncer, waiter, passes, relists>>

EditObject(k) ==
    /\ there[k] >= 0 /\ SpendBound("edits")
    /\ there' = [there EXCEPT ![k] = @ + 1]
    /\ UNCHANGED <<stream, buffer, store, event, parked, recheck, leads, wakes, passes, relists>>

InstallCrd(k) ==
    /\ there[k] = NoCrd /\ SpendBound("installs")
    /\ there' = [there EXCEPT ![k] = 0]
    /\ UNCHANGED <<stream, buffer, store, event, parked, recheck, leads, wakes, passes, relists>>

WatchNext ==
    \/ \E k \in WatchedKind :
          \/ \E e \in {"init", "initApply", "initDone", "apply", "error", "refused"} : Observe(k, e)
          \/ Discover(k) \/ ListedEmpty(k) \/ TellOf(k) \/ Park(k) \/ RecheckOne(k)
          \/ EditObject(k) \/ InstallCrd(k)
    \/ Tell \/ ApplyEvent \/ ReconcileAll \/ RecheckBegins
    \/ SyncerChecks \/ SyncerWakes \/ WaiterRegisters \/ WaiterChecks \/ WaiterWaits \/ WaiterWakes
    \/ ClassPass \/ Pass \/ GainLease

WatchSpec == WatchInit /\ [][WatchNext]_watchVars

-----------------------------------------------------------------------------
(* Properties. *)

\* "Nothing is published before every kind listed: a translation would miss
\* the objects of one not listed yet" (watch.rs:23-25): no pass, which waits
\* for the caches to be synced, reads the store of a required kind before its
\* list is there. A kind is marked listed before the reflector takes the end
\* of its list into the store (watch.rs:597-602).
Complete ==
    passRead # Unread => \A k \in WatchedKind : passRead[k] = Unfilled => KindOf[k] = "optional"

\* What the marks do guarantee: once the caches are synced every required
\* kind is in its store, but for the one whose end of list the stream task
\* is taking there, and all passes together miss that kind alone.
Missed == classMissed \cup {k \in WatchedKind : passRead # Unread /\ passRead[k] = Unfilled}
OneArriving ==
    /\ IsSynced => \A k \in WatchedKind :
          store[k] = Unfilled /\ KindOf[k] # "optional" => event.kind = k /\ event.event = "initDone"
    /\ \A j, k \in Missed : KindOf[j] # "optional" /\ KindOf[k] # "optional" => j = k

\* Nobody sleeps through the change it waits for.
NoneAsleep ==
    IsSynced /\ unnotified = {} /\ event.step # "notify" =>
        /\ syncer = "wait" => permit
        /\ waiter.at = "wait" => waiter.woken

\* Nothing is under way, and every watch has caught up.
AtRest ==
    /\ event = NoWatchEvent /\ unnotified = {} /\ ~trigger /\ ~queued /\ parked \cap {k \in WatchedKind : there[k] # NoCrd} = {}
    /\ syncer = "told"
    /\ \A k \in WatchedKind : (stream[k] = "live" /\ store[k] = there[k]) \/ stream[k] = "parked"

\* At rest a leader's last pass read what there is, whatever an earlier one
\* missed, but for kinds listed again after they counted as listed, whose end
\* of list asks for no pass: those wait for the requeue, which is set. A
\* Gateway that such a list brought first has had no pass: the one its entry
\* of the list asked for may have found no Gateway in the store yet.
PassesCaughtUp ==
    AtRest /\ leads /\ store["Gateway"] > 0 =>
        \/ rerun /\ \A k \in WatchedKind \ relists : passRead[k] = store[k]
        \/ passRead = Unread /\ "Gateway" \in relists

\* The caches count as synced with one list on its way at most, those who
\* wait for them are woken, and no Gateway is left with what a pass missed,
\* through failed discoveries, refused lists, CRDs installed late, edits
\* during a list and a late lease (watch.rs, Listings and PendingWatches;
\* mod.rs, the synced trigger).
WatchesHold == OneArriving /\ NoneAsleep /\ PassesCaughtUp
=============================================================================
