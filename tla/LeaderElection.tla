--------------------------- MODULE LeaderElection ---------------------------
(***************************************************************************)
(* The controller's leader election: one campaign per process              *)
(* (run_campaign) over one coordination.k8s.io Lease (LeaseLock), as in    *)
(* src/kubernetes/controller/leader.rs.                                    *)
(*                                                                         *)
(* A process is an identity: a restarted container draws a new random      *)
(* suffix, so a restart is another process of Proc starting.  Time is one  *)
(* integer clock, of which a process only ever uses differences.  A timer  *)
(* is handled at most SLACK after it is due.  The apiserver is modelled    *)
(* from how the code uses it: a GET returns the record as it was at some   *)
(* instant of the call, a write carries the resourceVersion that was read  *)
(* and is applied or answered 409 at any later time or never, the caller   *)
(* still waiting for it or not.                                            *)
(***************************************************************************)
EXTENDS Integers, FiniteSets

CONSTANTS
    Proc,            \* process identities
    NoOne,           \* the empty holderIdentity
    LEASE_DURATION, RENEW_DEADLINE, RETRY_PERIOD,
    MAX_RETRY,       \* RETRY_PERIOD with the largest jitter
    SLACK,           \* how late the runtime handles a due timer
    MaxTime,         \* bound of the clock
    MaxInFlight      \* bound of the writes on their way at one time

ASSUME ProcAssumption == NoOne \notin Proc

ASSUME TimingAssumption ==
    /\ {LEASE_DURATION, RENEW_DEADLINE, RETRY_PERIOD, MAX_RETRY, SLACK, MaxTime}
           \subseteq Nat
    /\ 0 < RETRY_PERIOD /\ RETRY_PERIOD <= MAX_RETRY
    /\ RENEW_DEADLINE + RETRY_PERIOD + 3 * SLACK < LEASE_DURATION

VARIABLES
    now,        \* the clock
    lease,      \* the Lease object; resourceVersion 0 is "no such object"
    writes,     \* creates and replaces on their way to the apiserver
    pc,         \* where each process is in its campaign
    role,       \* Shared.role
    renewed,    \* start of the last successful renewal, Never before one
    started,    \* start of the current or last attempt
    due,        \* the current attempt's deadline, or the end of the sleep
    observed,   \* LeaseLock.observed
    reply       \* the record a GET has read and not yet delivered

vars == <<now, lease, writes, pc, role, renewed, started, due, observed, reply>>

-----------------------------------------------------------------------------
Never == -1

Roles == {"Standby", "Leading", "Lost"}

\* Suspended in try_acquire_or_renew, under its timeout.
Attempting == {"get", "got", "put", "ok", "conflict"}
Campaigning == Attempting \cup {"sleep"}
Pcs == Campaigning \cup {"off", "release", "ended"}

\* LeaseSpec: the holder, the validity it claims and the wall clock of the
\* write, which no two writes of one process share.
NoSpec == [holder |-> NoOne, duration |-> 0, renewTime |-> Never]
Held(p, at) == [holder |-> p, duration |-> LEASE_DURATION, renewTime |-> at]
Released(at) == [holder |-> NoOne, duration |-> 1, renewTime |-> at]
NothingObserved == [spec |-> NoSpec, at |-> 0]
NoLease == [version |-> 0, spec |-> NoSpec, at |-> 0]

Specs == [holder : Proc \cup {NoOne}, duration : Nat, renewTime : Nat \cup {Never}]
Leases == [version : Nat, spec : Specs, at : Nat]

TypeOK ==
    /\ now \in Nat
    /\ lease \in Leases
    /\ writes \subseteq [by : Proc, spec : Specs, version : Nat]
    /\ pc \in [Proc -> Pcs]
    /\ role \in [Proc -> Roles]
    /\ renewed \in [Proc -> Nat \cup {Never}]
    /\ started \in [Proc -> Nat]
    /\ due \in [Proc -> Nat]
    /\ observed \in [Proc -> [spec : Specs, at : Nat]]
    /\ reply \in [Proc -> Leases]

Init ==
    /\ now = 0
    /\ lease = NoLease
    /\ writes = {}
    /\ pc = [p \in Proc |-> "off"]
    /\ role = [p \in Proc |-> "Standby"]
    /\ renewed = [p \in Proc |-> Never]
    /\ started = [p \in Proc |-> 0]
    /\ due = [p \in Proc |-> 0]
    /\ observed = [p \in Proc |-> NothingObserved]
    /\ reply = [p \in Proc |-> NoLease]

-----------------------------------------------------------------------------
IsLeader(p) == role[p] = "Leading"

\* started + budget: the first attempts get RENEW_DEADLINE, a leader's what
\* is left of it since the last renewal, nothing if none is left.
Deadline(p) ==
    IF renewed[p] = Never THEN now + RENEW_DEADLINE
    ELSE IF renewed[p] + RENEW_DEADLINE > now THEN renewed[p] + RENEW_DEADLINE
    ELSE now

\* The waits between two attempts: candidates are jittered, the leader is not.
Waits(leading) == IF leading THEN {RETRY_PERIOD} ELSE RETRY_PERIOD .. MAX_RETRY

\* Mutant of Observe: the countdown starts when the round did.
ObserveAtStart(p, spec) ==
    IF observed[p].spec = spec THEN observed[p] ELSE [spec |-> spec, at |-> started[p]]

\* LeaseLock::observe: the countdown restarts only when the record differs.
Observe(p, spec) ==
    IF observed[p].spec = spec THEN observed[p] ELSE [spec |-> spec, at |-> now]

\* The top of the campaign's loop, entered when the process starts and after
\* every sleep: the GET is sent.
Attempt(p) ==
    /\ \/ pc[p] = "off"
       \/ pc[p] = "sleep" /\ now >= due[p]
    /\ started' = [started EXCEPT ![p] = now]
    /\ due' = [due EXCEPT ![p] = Deadline(p)]
    /\ pc' = [pc EXCEPT ![p] = "get"]
    /\ UNCHANGED <<now, lease, writes, role, renewed, observed, reply>>

\* The apiserver reads the Lease for p's GET.
ServeGet(p) ==
    /\ pc[p] = "get"
    /\ reply' = [reply EXCEPT ![p] = lease]
    /\ pc' = [pc EXCEPT ![p] = "got"]
    /\ UNCHANGED <<now, lease, writes, role, renewed, started, due, observed>>

\* LeaseLock.observed once the GET returned; an absent Lease is not observed.
AfterRead(p) ==
    IF reply[p].version = 0 THEN observed[p] ELSE Observe(p, reply[p].spec)

\* Mutant of HeldByOther: the record is judged one unit too early.
HeldByOtherEarly(p) ==
    /\ reply[p].version # 0
    /\ reply[p].spec.holder \notin {NoOne, p}
    /\ AfterRead(p).at + reply[p].spec.duration > started[p] + 1

\* A record of another holder that is still valid at the start of the round.
HeldByOther(p) ==
    /\ reply[p].version # 0
    /\ reply[p].spec.holder \notin {NoOne, p}
    /\ AfterRead(p).at + reply[p].spec.duration > started[p]

Sleep(p, leading) ==
    /\ \E wait \in Waits(leading) : due' = [due EXCEPT ![p] = now + wait]
    /\ pc' = [pc EXCEPT ![p] = "sleep"]

\* run_campaign returns: its locals are gone.
End(p) ==
    /\ pc' = [pc EXCEPT ![p] = "ended"]
    /\ due' = [due EXCEPT ![p] = 0]
    /\ renewed' = [renewed EXCEPT ![p] = Never]
    /\ observed' = [observed EXCEPT ![p] = NothingObserved]

\* The lease is lost: the process exits and restarts as another.
Lose(p) ==
    /\ role' = [role EXCEPT ![p] = "Lost"]
    /\ End(p)

\* The GET returned, and Outcome::HeldBy: a candidate goes on waiting, a
\* leader has lost the lease.
FoundHeld(p) ==
    /\ pc[p] = "got"
    /\ HeldByOther(p)
    /\ reply' = [reply EXCEPT ![p] = NoLease]
    /\ \/ /\ renewed[p] # Never
          /\ Lose(p)
       \/ /\ renewed[p] = Never
          /\ Sleep(p, FALSE)
          /\ observed' = [observed EXCEPT ![p] = AfterRead(p)]
          /\ UNCHANGED <<role, renewed>>
    /\ UNCHANGED <<now, lease, writes, started>>

\* The GET returned, and the Lease is absent, released, expired or p's own:
\* it is created, or replaced on the version that was read.
SendWrite(p) ==
    /\ pc[p] = "got"
    /\ ~HeldByOther(p)
    /\ Cardinality(writes) < MaxInFlight
    /\ writes' = writes \cup
          {[by |-> p, spec |-> Held(p, started[p]), version |-> reply[p].version]}
    /\ pc' = [pc EXCEPT ![p] = "put"]
    /\ observed' = [observed EXCEPT ![p] = AfterRead(p)]
    /\ reply' = [reply EXCEPT ![p] = NoLease]
    /\ UNCHANGED <<now, lease, role, renewed, started, due>>

Awaited(w) == pc[w.by] = "put" /\ w.spec = Held(w.by, started[w.by])

\* The apiserver applies a write, or answers 409 Conflict because the object
\* has another version (or, for a create, exists).  The answer reaches the
\* process if it still waits for this write.  Writes that no one waits for
\* and that can only be refused any more are dropped.
ServeWrite(w) ==
    LET fits == w.version = lease.version IN
    /\ lease' = IF fits THEN [version |-> lease.version + 1, spec |-> w.spec, at |-> now]
                ELSE lease
    /\ writes' = {v \in writes \ {w} : v.version = lease'.version \/ Awaited(v)}
    /\ pc' = IF Awaited(w) THEN [pc EXCEPT ![w.by] = IF fits THEN "ok" ELSE "conflict"]
             ELSE pc
    /\ UNCHANGED <<now, role, renewed, started, due, observed, reply>>

\* Outcome::Held.
Acquired(p) ==
    /\ pc[p] = "ok"
    /\ observed' = [observed EXCEPT ![p] = Observe(p, Held(p, started[p]))]
    /\ role' = IF renewed[p] = Never THEN [role EXCEPT ![p] = "Leading"] ELSE role
    /\ renewed' = [renewed EXCEPT ![p] = started[p]]
    /\ Sleep(p, TRUE)
    /\ UNCHANGED <<now, lease, writes, started, reply>>

\* Mutant of Failed: a leader retries without looking at its deadline.
FailedForgiving(p) ==
    /\ pc[p] \in Attempting
    /\ Sleep(p, renewed[p] # Never)
    /\ reply' = [reply EXCEPT ![p] = NoLease]
    /\ UNCHANGED <<now, lease, writes, started, role, renewed, observed>>

\* Outcome::Contended, an error of a call, or no answer within the budget.
Failed(p) ==
    /\ pc[p] \in Attempting
    /\ \/ /\ renewed[p] # Never /\ now - renewed[p] >= RENEW_DEADLINE
          /\ Lose(p)
       \/ /\ renewed[p] # Never => now - renewed[p] < RENEW_DEADLINE
          /\ Sleep(p, renewed[p] # Never)
          /\ UNCHANGED <<role, renewed, observed>>
    /\ reply' = [reply EXCEPT ![p] = NoLease]
    /\ UNCHANGED <<now, lease, writes, started>>

\* Elector::stop ends the campaign wherever it is suspended; a leader steps
\* down before it gives the lease up.
Stop(p) ==
    /\ pc[p] \in Campaigning
    /\ \/ /\ renewed[p] # Never
          /\ role' = [role EXCEPT ![p] = "Standby"]
          /\ pc' = [pc EXCEPT ![p] = "release"]
          /\ UNCHANGED <<renewed, due, observed>>
       \/ /\ renewed[p] = Never
          /\ End(p)
          /\ UNCHANGED role
    /\ reply' = [reply EXCEPT ![p] = NoLease]
    /\ UNCHANGED <<now, lease, writes, started>>

\* Mutant of Release: the holder is not looked at.
ReleaseUnchecked(p) ==
    /\ pc[p] = "release"
    /\ End(p)
    /\ writes' = writes \cup
          {[by |-> p, spec |-> Released(now), version |-> lease.version]}
    /\ UNCHANGED <<now, lease, role, started, reply>>

\* LeaseLock::release: the record is emptied on the version read, unless
\* another process holds it; the outcome of the write is only logged.
Release(p) ==
    /\ pc[p] = "release"
    /\ End(p)
    /\ \/ /\ lease.spec.holder = p
          /\ writes' = writes \cup
                {[by |-> p, spec |-> Released(now), version |-> lease.version]}
       \/ UNCHANGED writes      \* held by another, or the GET failed
    /\ UNCHANGED <<now, lease, role, started, reply>>

\* The process is killed; its writes may still arrive.
Crash(p) ==
    /\ pc[p] \notin {"off", "ended"}
    /\ End(p)
    /\ role' = [role EXCEPT ![p] = IF IsLeader(p) THEN "Lost" ELSE role[p]]
    /\ reply' = [reply EXCEPT ![p] = NoLease]
    /\ UNCHANGED <<now, lease, writes, started>>

Tick ==
    /\ now < MaxTime
    /\ \A p \in Proc : pc[p] \in Campaigning => now < due[p] + SLACK
    /\ now' = now + 1
    /\ UNCHANGED <<lease, writes, pc, role, renewed, started, due, observed, reply>>

Next ==
    \/ Tick
    \/ \E p \in Proc : \/ Attempt(p)
                       \/ ServeGet(p)
                       \/ FoundHeld(p)
                       \/ SendWrite(p)
                       \/ Acquired(p)
                       \/ Failed(p)
                       \/ Stop(p)
                       \/ Release(p)
                       \/ Crash(p)
    \/ \E w \in writes : ServeWrite(w)

Spec == Init /\ [][Next]_vars

-----------------------------------------------------------------------------
(***************************************************************************)
(* At most one process may write status, provision and serve: two never    *)
(* lead at the same instant, whatever writes are lost, late or refused     *)
(* (leader.rs, run_campaign and try_acquire_or_renew).                     *)
(***************************************************************************)
AtMostOneLeader == \A p, q \in Proc : IsLeader(p) /\ IsLeader(q) => p = q

(***************************************************************************)
(* A process that leads is the holder the Lease names, by a write no older *)
(* than the renewal it counts from: neither a takeover nor another         *)
(* process's late write or release displaces a leader before its own       *)
(* deadline made it step down.                                             *)
(***************************************************************************)
LeaderHoldsLease ==
    \A p \in Proc : IsLeader(p) => lease.spec.holder = p /\ lease.at >= renewed[p]

(***************************************************************************)
(* A leader that cannot renew steps down in time: RENEW_DEADLINE, one      *)
(* retry and three late timers after the start of its last renewal at most *)
(* (run_campaign's budget, its elapsed check and the sleep in between).    *)
(***************************************************************************)
LeadsOnlyWhileRenewed ==
    \A p \in Proc : IsLeader(p) =>
        now <= renewed[p] + RENEW_DEADLINE + RETRY_PERIOD + 3 * SLACK

(***************************************************************************)
(* The holder changes from one process to another only a whole lease       *)
(* duration after the last write of the first, although the taker judged   *)
(* the record on its own clock and its write arrived at any later time.    *)
(***************************************************************************)
TakeoverWaitsForExpiry ==
    [][ lease'.spec.holder # lease.spec.holder
          /\ NoOne \notin {lease.spec.holder, lease'.spec.holder}
        => now >= lease.at + LEASE_DURATION ]_vars
=============================================================================
