---------------------------- MODULE LeaderProofs ----------------------------
(***************************************************************************)
(* The leader of the controllers: that there is one (LeaderElection), what *)
(* it provisions for a Gateway (Provision) and the statuses it keeps on it,*)
(* on the objects of others and on the class (Statuses), for every set of  *)
(* processes, Gateways and objects.                                        *)
(*                                                                         *)
(* Why there is one: a leader's renewal started no later than the write    *)
(* that recorded it, a candidate counts the lease down from no earlier     *)
(* than that write, and a leader stops before the candidate's count can    *)
(* end, with every timing that satisfies TimingAssumption.                 *)
(***************************************************************************)
EXTENDS LeaderElection, Provision, Statuses, WellFoundedInduction, FiniteSetTheorems, TLAPS

\* No instant a process remembers is in the future.
PastTimes ==
    /\ lease.at <= now
    /\ \A p \in Proc : started[p] <= now /\ renewed[p] <= started[p]

\* A process leads exactly while its campaign has renewed and not ended.
RoleOfPc ==
    \A p \in Proc :
        /\ IsLeader(p) <=> (pc[p] \in Campaigning /\ renewed[p] # Never)
        /\ pc[p] = "off" => renewed[p] = Never

\* Every timer is handled within SLACK of when it is due, and what is due
\* follows from when the last renewal started.
Timers ==
    \A p \in Proc : pc[p] \in Campaigning =>
        /\ now <= due[p] + SLACK
        /\ pc[p] = "sleep" => started[p] < due[p]
        /\ pc[p] \in Attempting => due[p] <= started[p] + RENEW_DEADLINE
        /\ renewed[p] # Never =>
              /\ started[p] <= renewed[p] + RENEW_DEADLINE + RETRY_PERIOD + 2 * SLACK
              /\ due[p] <= renewed[p] + RENEW_DEADLINE + RETRY_PERIOD + 2 * SLACK
              /\ pc[p] = "sleep" =>
                    due[p] <= renewed[p] + RENEW_DEADLINE + RETRY_PERIOD + SLACK

\* A record p wrote carries the start of one of p's attempts, none before
\* the write of the current one.
Stamped(spec) ==
    \A p \in Proc : spec.holder = p =>
        /\ pc[p] # "off"
        /\ spec.duration = LEASE_DURATION
        /\ spec.renewTime <= started[p]
        /\ pc[p] \in {"get", "got"} => spec.renewTime < started[p]

Stamps ==
    /\ Stamped(lease.spec)
    /\ \A p \in Proc : Stamped(observed[p].spec) /\ Stamped(reply[p].spec)
    /\ \A w \in writes : Stamped(w.spec)

\* A write on its way is by its holder, on a version the Lease has had, and
\* its record is nowhere else yet.
InFlight ==
    \A w \in writes :
        /\ w.version <= lease.version
        /\ w.spec.holder \in {NoOne, w.by}
        /\ w.spec.holder # NoOne =>
              /\ lease.spec # w.spec
              /\ \A p \in Proc : observed[p].spec # w.spec /\ reply[p].spec # w.spec
              /\ \A v \in writes : v.spec = w.spec => v = w
              /\ \A p \in Proc : pc[p] \in {"ok", "conflict"} => w.spec # Held(p, started[p])

\* An absent Lease names no one, and what a GET read is the Lease or an
\* earlier version of it.
Replies ==
    /\ lease.version = 0 => lease.spec.holder = NoOne
    /\ \A p \in Proc :
        /\ reply[p].version <= lease.version
        /\ reply[p].version = lease.version /\ pc[p] = "got" => reply[p] = lease
        /\ pc[p] # "got" => reply[p] = NoLease

\* No one counts a record down from before it was written.
Countdowns ==
    \A p \in Proc :
        lease.spec.holder # NoOne /\ observed[p].spec = lease.spec
            => lease.at <= observed[p].at

\* A write that can still be applied takes the lease of another only after
\* it expired, and empties it only if its own process holds it and is gone.
Effective ==
    \A w \in writes : w.version = lease.version =>
        /\ w.spec.holder # NoOne /\ lease.spec.holder \notin {NoOne, w.by}
              => lease.at + LEASE_DURATION <= now
        /\ w.spec.holder = NoOne =>
              lease.spec.holder = w.by /\ pc[w.by] = "ended"

\* A leader holds the lease, and so does one about to learn that it does.
Holders ==
    \A p \in Proc :
        /\ IsLeader(p) => lease.spec.holder = p /\ renewed[p] <= lease.at
        /\ pc[p] = "ok" => lease.spec.holder = p /\ started[p] <= lease.at

IInv ==
    /\ TypeOK
    /\ PastTimes
    /\ RoleOfPc
    /\ Timers
    /\ Stamps
    /\ InFlight
    /\ Replies
    /\ Countdowns
    /\ Effective
    /\ Holders

-----------------------------------------------------------------------------
(***************************************************************************)
(* What a process observes is a record and an instant.                     *)
(***************************************************************************)
LEMMA ObserveType ==
  ASSUME TypeOK, NEW p \in Proc, NEW spec \in Specs
  PROVE  /\ Observe(p, spec) \in [spec : Specs, at : Nat]
         /\ AfterRead(p) \in [spec : Specs, at : Nat]
  BY DEF Observe, AfterRead, TypeOK, Leases

(***************************************************************************)
(* The waits between two attempts are positive.                            *)
(***************************************************************************)
LEMMA WaitsType == \A b : Waits(b) \subseteq Nat \ {0}
  BY TimingAssumption DEF Waits

(***************************************************************************)
(* Every variable keeps its type: no field of the Lease, of a write or of  *)
(* a campaign ever leaves its range.                                       *)
(***************************************************************************)
LEMMA Typing == TypeOK /\ [Next]_vars => TypeOK'
<1> SUFFICES ASSUME TypeOK, [Next]_vars PROVE TypeOK'
  OBVIOUS
<1> USE ProcAssumption, TimingAssumption
    DEF TypeOK, Leases, Specs, Held, Released, NoSpec, NoLease, NothingObserved,
         Never, Roles, Pcs, Campaigning, Attempting
<1>1. CASE Tick
  BY <1>1 DEF Tick
<1>2. ASSUME NEW p \in Proc, Attempt(p) PROVE TypeOK'
  BY <1>2 DEF Attempt, Deadline
<1>3. ASSUME NEW p \in Proc, ServeGet(p) PROVE TypeOK'
  BY <1>3 DEF ServeGet
<1>4. ASSUME NEW p \in Proc, FoundHeld(p) PROVE TypeOK'
  <2>1. AfterRead(p) \in [spec : Specs, at : Nat]
    BY ObserveType
  <2>2. CASE Lose(p)
    BY <1>4, <2>2 DEF FoundHeld, Lose, End
  <2>3. CASE Sleep(p, FALSE) /\ observed' = [observed EXCEPT ![p] = AfterRead(p)]
             /\ UNCHANGED <<role, renewed>>
    <3>1. PICK wait \in Nat : due' = [due EXCEPT ![p] = now + wait]
      BY <2>3, WaitsType DEF Sleep
    <3>2. reply' \in [Proc -> Leases] /\ observed' \in [Proc -> [spec : Specs, at : Nat]]
      BY <1>4, <2>1, <2>3 DEF FoundHeld
    <3> QED
      BY <1>4, <2>3, <3>1, <3>2 DEF FoundHeld, Sleep
  <2> QED
    BY <1>4, <2>2, <2>3 DEF FoundHeld
<1>5. ASSUME NEW p \in Proc, SendWrite(p) PROVE TypeOK'
  <2>1. AfterRead(p) \in [spec : Specs, at : Nat]
    BY ObserveType
  <2> QED
    BY <1>5, <2>1 DEF SendWrite
<1>6. ASSUME NEW p \in Proc, Acquired(p) PROVE TypeOK'
  BY <1>6 DEF Acquired, Sleep, Observe, Waits
<1>7. ASSUME NEW p \in Proc, Failed(p) PROVE TypeOK'
  <2>1. CASE Lose(p)
    BY <1>7, <2>1 DEF Failed, Lose, End
  <2>2. CASE Sleep(p, renewed[p] # Never) /\ UNCHANGED <<role, renewed, observed>>
    BY <1>7, <2>2, WaitsType DEF Failed, Sleep
  <2> QED
    BY <1>7, <2>1, <2>2 DEF Failed
<1>8. ASSUME NEW p \in Proc, Stop(p) PROVE TypeOK'
  <2>1. CASE End(p) /\ UNCHANGED role
    BY <1>8, <2>1 DEF Stop, End
  <2>2. CASE ~End(p)
    BY <1>8, <2>2 DEF Stop
  <2> QED
    BY <1>8, <2>1, <2>2 DEF Stop
<1>9. ASSUME NEW p \in Proc, Release(p) PROVE TypeOK'
  BY <1>9 DEF Release, End
<1>10. ASSUME NEW p \in Proc, Crash(p) PROVE TypeOK'
  BY <1>10 DEF Crash, End, IsLeader
<1>11. ASSUME NEW w \in writes, ServeWrite(w) PROVE TypeOK'
  BY <1>11 DEF ServeWrite, Awaited
<1>12. CASE UNCHANGED vars
  BY <1>12 DEF vars
<1> QED
  BY <1>1, <1>2, <1>3, <1>4, <1>5, <1>6, <1>7, <1>8, <1>9, <1>10, <1>11, <1>12 DEF Next

(***************************************************************************)
(* A process leads exactly while its campaign runs and has renewed.        *)
(***************************************************************************)
LEMMA RoleStep == IInv /\ [Next]_vars => PastTimes' /\ RoleOfPc'
<1> SUFFICES ASSUME IInv, [Next]_vars PROVE PastTimes' /\ RoleOfPc'
  OBVIOUS
<1> USE ProcAssumption, TimingAssumption
    DEF IInv, TypeOK, Never, Campaigning, Attempting, Pcs, PastTimes, RoleOfPc,
        IsLeader, Roles, Leases, Specs
<1>0. TypeOK'
  BY Typing
<1>1. CASE Tick
  BY <1>0, <1>1 DEF Tick
<1>2. ASSUME NEW p \in Proc, Attempt(p) PROVE PastTimes' /\ RoleOfPc'
  BY <1>0, <1>2 DEF Attempt, Deadline
<1>3. ASSUME NEW p \in Proc, ServeGet(p) PROVE PastTimes' /\ RoleOfPc'
  BY <1>0, <1>3 DEF ServeGet
<1>4. ASSUME NEW p \in Proc, FoundHeld(p) PROVE PastTimes' /\ RoleOfPc'
  <2>1. CASE Lose(p)
    BY <1>0, <1>4, <2>1 DEF FoundHeld, Lose, End
  <2>2. CASE Sleep(p, FALSE) /\ renewed[p] = Never /\ UNCHANGED <<role, renewed>>
             /\ observed' = [observed EXCEPT ![p] = AfterRead(p)]
    BY <1>0, <1>4, <2>2, WaitsType DEF FoundHeld, Sleep
  <2> QED
    BY <1>4, <2>1, <2>2 DEF FoundHeld
<1>5. ASSUME NEW p \in Proc, SendWrite(p) PROVE PastTimes' /\ RoleOfPc'
  BY <1>0, <1>5 DEF SendWrite, AfterRead, Observe
<1>6. ASSUME NEW p \in Proc, Acquired(p) PROVE PastTimes' /\ RoleOfPc'
  BY <1>0, <1>6 DEF Acquired, Sleep, Observe, Waits
<1>7. ASSUME NEW p \in Proc, Failed(p) PROVE PastTimes' /\ RoleOfPc'
  <2>1. CASE Lose(p)
    BY <1>0, <1>7, <2>1 DEF Failed, Lose, End
  <2>2. CASE Sleep(p, renewed[p] # Never) /\ UNCHANGED <<role, renewed, observed>>
             /\ (renewed[p] # Never => now - renewed[p] < RENEW_DEADLINE)
    BY <1>0, <1>7, <2>2, WaitsType DEF Failed, Sleep
  <2> QED
    BY <1>7, <2>1, <2>2 DEF Failed
<1>8. ASSUME NEW p \in Proc, Stop(p) PROVE PastTimes' /\ RoleOfPc'
  <2>1. CASE End(p) /\ UNCHANGED role
    BY <1>0, <1>8, <2>1 DEF Stop, End
  <2>2. CASE renewed[p] # Never
    BY <1>0, <1>8, <2>2 DEF Stop
  <2> QED
    BY <1>8, <2>1, <2>2 DEF Stop
<1>9. ASSUME NEW p \in Proc, Release(p) PROVE PastTimes' /\ RoleOfPc'
  <2>1. PastTimes'
    BY <1>0, <1>9 DEF Release, End
  <2>2. RoleOfPc'
    BY <1>0, <1>9 DEF Release, End
  <2> QED
    BY <2>1, <2>2
<1>10. ASSUME NEW p \in Proc, Crash(p) PROVE PastTimes' /\ RoleOfPc'
  BY <1>0, <1>10 DEF Crash, End
<1>11. ASSUME NEW w \in writes, ServeWrite(w) PROVE PastTimes' /\ RoleOfPc'
  BY <1>0, <1>11 DEF ServeWrite, Awaited
<1>12. CASE UNCHANGED vars
  BY <1>12 DEF vars
<1> QED
  BY <1>1, <1>2, <1>3, <1>4, <1>5, <1>6, <1>7, <1>8, <1>9, <1>10, <1>11, <1>12 DEF Next

(***************************************************************************)
(* Every step keeps the timers: no leader's attempt or sleep ends later    *)
(* than its last renewal allows.                                           *)
(***************************************************************************)
LEMMA TimersStep == IInv /\ [Next]_vars => Timers'
<1> SUFFICES ASSUME IInv, [Next]_vars PROVE Timers'
  OBVIOUS
<1> USE ProcAssumption, TimingAssumption
    DEF IInv, TypeOK, Never, Campaigning, Attempting, Pcs, PastTimes, RoleOfPc, IsLeader, Timers
<1>0. TypeOK'
  BY Typing
<1>1. CASE Tick
  BY <1>0, <1>1, WaitsType DEF Tick
<1>2. ASSUME NEW p \in Proc, Attempt(p) PROVE Timers'
  BY <1>0, <1>2, WaitsType DEF Attempt, Deadline
<1>3. ASSUME NEW p \in Proc, ServeGet(p) PROVE Timers'
  BY <1>0, <1>3, WaitsType DEF ServeGet
<1>4. ASSUME NEW p \in Proc, FoundHeld(p) PROVE Timers'
  <2>1. CASE Lose(p)
    BY <1>0, <1>4, <2>1 DEF FoundHeld, Lose, End
  <2>2. CASE Sleep(p, FALSE) /\ renewed[p] = Never /\ UNCHANGED renewed
    <3>1. PICK wait \in Nat \ {0} : due' = [due EXCEPT ![p] = now + wait]
      BY <2>2, WaitsType DEF Sleep
    <3> QED
      BY <1>0, <1>4, <2>2, <3>1 DEF FoundHeld, Sleep
  <2> QED
    BY <1>4, <2>1, <2>2 DEF FoundHeld
<1>5. ASSUME NEW p \in Proc, SendWrite(p) PROVE Timers'
  BY <1>0, <1>5, WaitsType DEF SendWrite, AfterRead, Observe
<1>6. ASSUME NEW p \in Proc, Acquired(p) PROVE Timers'
  BY <1>0, <1>6, WaitsType DEF Acquired, Sleep, Observe, Waits
<1>7. ASSUME NEW p \in Proc, Failed(p) PROVE Timers'
  <2>1. CASE Lose(p)
    BY <1>0, <1>7, <2>1 DEF Failed, Lose, End
  <2>2. CASE renewed[p] = Never /\ Sleep(p, FALSE) /\ UNCHANGED renewed
    <3>1. PICK wait \in Nat \ {0} : due' = [due EXCEPT ![p] = now + wait]
      BY <2>2, WaitsType DEF Sleep
    <3> QED
      BY <1>0, <1>7, <2>2, <3>1 DEF Failed, Sleep
  <2>3. CASE renewed[p] # Never /\ Sleep(p, TRUE) /\ UNCHANGED renewed
             /\ now - renewed[p] < RENEW_DEADLINE
    BY <1>0, <1>7, <2>3 DEF Failed, Sleep, Waits
  <2> QED
    BY <1>7, <2>1, <2>2, <2>3 DEF Failed
<1>8. ASSUME NEW p \in Proc, Stop(p) PROVE Timers'
  BY <1>0, <1>8, WaitsType DEF Stop, End
<1>9. ASSUME NEW p \in Proc, Release(p) PROVE Timers'
  BY <1>0, <1>9, WaitsType DEF Release, End
<1>10. ASSUME NEW p \in Proc, Crash(p) PROVE Timers'
  BY <1>0, <1>10, WaitsType DEF Crash, End
<1>11. ASSUME NEW w \in writes, ServeWrite(w) PROVE Timers'
  BY <1>0, <1>11, WaitsType DEF ServeWrite, Awaited
<1>12. CASE UNCHANGED vars
  BY <1>12 DEF vars
<1> QED
  BY <1>1, <1>2, <1>3, <1>4, <1>5, <1>6, <1>7, <1>8, <1>9, <1>10, <1>11, <1>12 DEF Next

(***************************************************************************)
(* Every step keeps the stamps of the records.                             *)
(***************************************************************************)
LEMMA StampsStep == IInv /\ [Next]_vars => Stamps'
<1> SUFFICES ASSUME IInv, [Next]_vars PROVE Stamps'
  OBVIOUS
<1> USE ProcAssumption, TimingAssumption
    DEF IInv, TypeOK, Never, Campaigning, Attempting, Pcs, PastTimes, Timers, Stamps, Stamped,
        Leases, Specs, NoLease, NothingObserved, NoSpec, Held, Released
<1>0. TypeOK'
  BY Typing
<1>1. CASE Tick
  BY <1>0, <1>1, WaitsType DEF Tick
<1>2. ASSUME NEW p \in Proc, Attempt(p) PROVE Stamps'
  <2>1. ASSUME NEW spec \in Specs, Stamped(spec) PROVE Stamped(spec)'
    BY <1>0, <1>2, <2>1 DEF Attempt
  <2> QED
    BY <1>0, <1>2, <2>1 DEF Attempt
<1>3. ASSUME NEW p \in Proc, ServeGet(p) PROVE Stamps'
  BY <1>0, <1>3, WaitsType DEF ServeGet
<1>4. ASSUME NEW p \in Proc, FoundHeld(p) PROVE Stamps'
  <2>1. CASE Lose(p)
    BY <1>0, <1>4, <2>1 DEF FoundHeld, Lose, End
  <2>2. CASE Sleep(p, FALSE) /\ renewed[p] = Never /\ UNCHANGED <<role, renewed>>
             /\ observed' = [observed EXCEPT ![p] = AfterRead(p)]
    BY <1>0, <1>4, <2>2, WaitsType DEF FoundHeld, Sleep, AfterRead, Observe
  <2> QED
    BY <1>4, <2>1, <2>2 DEF FoundHeld
<1>5. ASSUME NEW p \in Proc, SendWrite(p) PROVE Stamps'
  BY <1>0, <1>5, WaitsType DEF SendWrite, AfterRead, Observe
<1>6. ASSUME NEW p \in Proc, Acquired(p) PROVE Stamps'
  BY <1>0, <1>6, WaitsType DEF Acquired, Sleep, Observe, Waits
<1>7. ASSUME NEW p \in Proc, Failed(p) PROVE Stamps'
  <2>1. CASE Lose(p)
    BY <1>0, <1>7, <2>1 DEF Failed, Lose, End
  <2>2. CASE Sleep(p, renewed[p] # Never) /\ UNCHANGED <<role, renewed, observed>>
             /\ (renewed[p] # Never => now - renewed[p] < RENEW_DEADLINE)
    BY <1>0, <1>7, <2>2, WaitsType DEF Failed, Sleep
  <2> QED
    BY <1>7, <2>1, <2>2 DEF Failed
<1>8. ASSUME NEW p \in Proc, Stop(p) PROVE Stamps'
  <2>1. CASE End(p) /\ UNCHANGED role
    BY <1>0, <1>8, <2>1 DEF Stop, End
  <2>2. CASE renewed[p] # Never
    BY <1>0, <1>8, <2>2 DEF Stop
  <2> QED
    BY <1>8, <2>1, <2>2 DEF Stop
<1>9. ASSUME NEW p \in Proc, Release(p) PROVE Stamps'
  BY <1>0, <1>9, WaitsType DEF Release, End
<1>10. ASSUME NEW p \in Proc, Crash(p) PROVE Stamps'
  BY <1>0, <1>10, WaitsType DEF Crash, End
<1>11. ASSUME NEW w \in writes, ServeWrite(w) PROVE Stamps'
  BY <1>0, <1>11, WaitsType DEF ServeWrite, Awaited
<1>12. CASE UNCHANGED vars
  BY <1>12 DEF vars
<1> QED
  BY <1>1, <1>2, <1>3, <1>4, <1>5, <1>6, <1>7, <1>8, <1>9, <1>10, <1>11, <1>12 DEF Next

(***************************************************************************)
(* A write's record stays unique until it is applied.                      *)
(***************************************************************************)
LEMMA InFlightStep == IInv /\ [Next]_vars => InFlight'
<1> SUFFICES ASSUME IInv, [Next]_vars PROVE InFlight'
  OBVIOUS
<1> USE ProcAssumption, TimingAssumption
    DEF IInv, TypeOK, Never, Campaigning, Attempting, Pcs, PastTimes, Timers, Stamps, Stamped,
        Leases, Specs, NoLease, NothingObserved, NoSpec, Held, Released,
        InFlight
<1>0. TypeOK'
  BY Typing
<1>1. CASE Tick
  BY <1>0, <1>1 DEF Tick
<1>2. ASSUME NEW p \in Proc, Attempt(p) PROVE InFlight'
  BY <1>0, <1>2 DEF Attempt, Deadline
<1>3. ASSUME NEW p \in Proc, ServeGet(p) PROVE InFlight'
  BY <1>0, <1>3 DEF ServeGet
<1>4. ASSUME NEW p \in Proc, FoundHeld(p) PROVE InFlight'
  <2>1. CASE Lose(p)
    BY <1>0, <1>4, <2>1 DEF FoundHeld, Lose, End
  <2>2. CASE Sleep(p, FALSE) /\ renewed[p] = Never /\ UNCHANGED <<role, renewed>>
             /\ observed' = [observed EXCEPT ![p] = AfterRead(p)]
    BY <1>0, <1>4, <2>2, WaitsType DEF FoundHeld, Sleep, AfterRead, Observe
  <2> QED
    BY <1>4, <2>1, <2>2 DEF FoundHeld
<1>5. ASSUME NEW p \in Proc, SendWrite(p) PROVE InFlight'
  <2> DEFINE new == [by |-> p, spec |-> Held(p, started[p]), version |-> reply[p].version]
  <2>1. writes' = writes \cup {new}
    BY <1>5 DEF SendWrite
  <2>2. \A spec \in Specs : Stamped(spec) => spec # new.spec
    BY <1>5 DEF SendWrite
  <2>3. ASSUME NEW w \in writes'
        PROVE  w.version <= lease'.version /\ w.spec.holder \in {NoOne, w.by}
    BY <1>0, <1>5, <2>1 DEF SendWrite, Replies
  <2>4. ASSUME NEW q \in Proc
        PROVE  observed'[q].spec \in {observed[q].spec, reply[q].spec}
    BY <1>0, <1>5 DEF SendWrite, AfterRead, Observe
  <2>5. ASSUME NEW q \in Proc
        PROVE  reply'[q].spec \in {NoSpec, reply[q].spec}
    BY <1>0, <1>5 DEF SendWrite
  <2>6. ASSUME NEW w \in writes, w.spec.holder # NoOne
        PROVE  /\ lease'.spec # w.spec
               /\ \A q \in Proc : observed'[q].spec # w.spec /\ reply'[q].spec # w.spec
               /\ \A v \in writes' : v.spec = w.spec => v = w
               /\ \A q \in Proc : pc'[q] \in {"ok", "conflict"} => w.spec # Held(q, started'[q])
    BY <1>0, <1>5, <2>1, <2>2, <2>4, <2>5, <2>6 DEF SendWrite
  <2>7. /\ lease'.spec # new.spec
        /\ \A q \in Proc : observed'[q].spec # new.spec /\ reply'[q].spec # new.spec
        /\ \A v \in writes' : v.spec = new.spec => v = new
        /\ \A q \in Proc : pc'[q] \in {"ok", "conflict"} => new.spec # Held(q, started'[q])
    <3>1. lease'.spec # new.spec
      BY <1>0, <1>5, <2>2 DEF SendWrite
    <3>2. \A q \in Proc : observed'[q].spec # new.spec /\ reply'[q].spec # new.spec
      BY <1>0, <1>5, <2>2, <2>4, <2>5 DEF SendWrite
    <3>3. \A v \in writes' : v.spec = new.spec => v = new
      BY <1>0, <1>5, <2>1, <2>2 DEF SendWrite
    <3>4. \A q \in Proc : pc'[q] \in {"ok", "conflict"} => new.spec # Held(q, started'[q])
      BY <1>0, <1>5 DEF SendWrite
    <3> QED
      BY <3>1, <3>2, <3>3, <3>4
  <2> QED
    BY <2>1, <2>3, <2>6, <2>7
<1>6. ASSUME NEW p \in Proc, Acquired(p) PROVE InFlight'
  BY <1>0, <1>6 DEF Acquired, Sleep, Observe, Waits
<1>7. ASSUME NEW p \in Proc, Failed(p) PROVE InFlight'
  BY <1>0, <1>7 DEF Failed, Lose, End, Sleep, Waits
<1>8. ASSUME NEW p \in Proc, Stop(p) PROVE InFlight'
  BY <1>0, <1>8 DEF Stop, End
<1>9. ASSUME NEW p \in Proc, Release(p) PROVE InFlight'
  BY <1>0, <1>9 DEF Release, End
<1>10. ASSUME NEW p \in Proc, Crash(p) PROVE InFlight'
  BY <1>0, <1>10 DEF Crash, End
<1>11. ASSUME NEW w \in writes, ServeWrite(w) PROVE InFlight'
  BY <1>0, <1>11 DEF ServeWrite, Awaited
<1>12. CASE UNCHANGED vars
  BY <1>12 DEF vars
<1> QED
  BY <1>1, <1>2, <1>3, <1>4, <1>5, <1>6, <1>7, <1>8, <1>9, <1>10, <1>11, <1>12 DEF Next

(***************************************************************************)
(* What a GET read stays the Lease or an earlier version of it.            *)
(***************************************************************************)
LEMMA RepliesStep == IInv /\ [Next]_vars => Replies'
<1> SUFFICES ASSUME IInv, [Next]_vars PROVE Replies'
  OBVIOUS
<1> USE ProcAssumption, TimingAssumption
    DEF IInv, TypeOK, Never, Campaigning, Attempting, Pcs, PastTimes, Timers, Stamps, Stamped,
        Leases, Specs, NoLease, NothingObserved, NoSpec, Held, Released,
        Replies
<1>0. TypeOK'
  BY Typing
<1>1. CASE Tick
  BY <1>0, <1>1 DEF Tick
<1>2. ASSUME NEW p \in Proc, Attempt(p) PROVE Replies'
  BY <1>0, <1>2 DEF Attempt, Deadline
<1>3. ASSUME NEW p \in Proc, ServeGet(p) PROVE Replies'
  BY <1>0, <1>3 DEF ServeGet
<1>4. ASSUME NEW p \in Proc, FoundHeld(p) PROVE Replies'
  <2>1. CASE Lose(p)
    BY <1>0, <1>4, <2>1 DEF FoundHeld, Lose, End
  <2>2. CASE Sleep(p, FALSE) /\ renewed[p] = Never /\ UNCHANGED <<role, renewed>>
             /\ observed' = [observed EXCEPT ![p] = AfterRead(p)]
    BY <1>0, <1>4, <2>2, WaitsType DEF FoundHeld, Sleep
  <2> QED
    BY <1>4, <2>1, <2>2 DEF FoundHeld
<1>5. ASSUME NEW p \in Proc, SendWrite(p) PROVE Replies'
  BY <1>0, <1>5 DEF SendWrite, AfterRead, Observe
<1>6. ASSUME NEW p \in Proc, Acquired(p) PROVE Replies'
  BY <1>0, <1>6 DEF Acquired, Sleep, Observe, Waits
<1>7. ASSUME NEW p \in Proc, Failed(p) PROVE Replies'
  BY <1>0, <1>7 DEF Failed, Lose, End, Sleep, Waits
<1>8. ASSUME NEW p \in Proc, Stop(p) PROVE Replies'
  BY <1>0, <1>8 DEF Stop, End
<1>9. ASSUME NEW p \in Proc, Release(p) PROVE Replies'
  BY <1>0, <1>9 DEF Release, End
<1>10. ASSUME NEW p \in Proc, Crash(p) PROVE Replies'
  BY <1>0, <1>10 DEF Crash, End
<1>11. ASSUME NEW w \in writes, ServeWrite(w) PROVE Replies'
  BY <1>0, <1>11 DEF ServeWrite, Awaited
<1>12. CASE UNCHANGED vars
  BY <1>12 DEF vars
<1> QED
  BY <1>1, <1>2, <1>3, <1>4, <1>5, <1>6, <1>7, <1>8, <1>9, <1>10, <1>11, <1>12 DEF Next

(***************************************************************************)
(* No candidate's countdown of the current record starts before it was     *)
(* written.                                                                *)
(***************************************************************************)
LEMMA CountdownsStep == IInv /\ [Next]_vars => Countdowns'
<1> SUFFICES ASSUME IInv, [Next]_vars PROVE Countdowns'
  OBVIOUS
<1> USE ProcAssumption, TimingAssumption
    DEF IInv, TypeOK, Never, Campaigning, Attempting, Pcs, PastTimes, Timers, Stamps, Stamped,
        Leases, Specs, NoLease, NothingObserved, NoSpec, Held, Released,
        InFlight, Replies, Countdowns
<1>0. TypeOK'
  BY Typing
<1>1. CASE Tick
  BY <1>0, <1>1 DEF Tick
<1>2. ASSUME NEW p \in Proc, Attempt(p) PROVE Countdowns'
  BY <1>0, <1>2 DEF Attempt, Deadline
<1>3. ASSUME NEW p \in Proc, ServeGet(p) PROVE Countdowns'
  BY <1>0, <1>3 DEF ServeGet
<1>4. ASSUME NEW p \in Proc, FoundHeld(p) PROVE Countdowns'
  <2>1. CASE Lose(p)
    BY <1>0, <1>4, <2>1 DEF FoundHeld, Lose, End
  <2>2. CASE Sleep(p, FALSE) /\ renewed[p] = Never /\ UNCHANGED <<role, renewed>>
             /\ observed' = [observed EXCEPT ![p] = AfterRead(p)]
    BY <1>0, <1>4, <2>2, WaitsType DEF FoundHeld, Sleep, AfterRead, Observe
  <2> QED
    BY <1>4, <2>1, <2>2 DEF FoundHeld
<1>5. ASSUME NEW p \in Proc, SendWrite(p) PROVE Countdowns'
  BY <1>0, <1>5 DEF SendWrite, AfterRead, Observe
<1>6. ASSUME NEW p \in Proc, Acquired(p) PROVE Countdowns'
  BY <1>0, <1>6 DEF Acquired, Sleep, Observe, Waits
<1>7. ASSUME NEW p \in Proc, Failed(p) PROVE Countdowns'
  <2>1. CASE Lose(p)
    BY <1>0, <1>7, <2>1 DEF Failed, Lose, End
  <2>2. CASE Sleep(p, renewed[p] # Never) /\ UNCHANGED <<role, renewed, observed>>
             /\ (renewed[p] # Never => now - renewed[p] < RENEW_DEADLINE)
    BY <1>0, <1>7, <2>2, WaitsType DEF Failed, Sleep
  <2> QED
    BY <1>7, <2>1, <2>2 DEF Failed
<1>8. ASSUME NEW p \in Proc, Stop(p) PROVE Countdowns'
  <2>1. CASE End(p) /\ UNCHANGED role
    BY <1>0, <1>8, <2>1 DEF Stop, End
  <2>2. CASE renewed[p] # Never
    BY <1>0, <1>8, <2>2 DEF Stop
  <2> QED
    BY <1>8, <2>1, <2>2 DEF Stop
<1>9. ASSUME NEW p \in Proc, Release(p) PROVE Countdowns'
  BY <1>0, <1>9 DEF Release, End
<1>10. ASSUME NEW p \in Proc, Crash(p) PROVE Countdowns'
  BY <1>0, <1>10 DEF Crash, End
<1>11. ASSUME NEW w \in writes, ServeWrite(w) PROVE Countdowns'
  BY <1>0, <1>11 DEF ServeWrite, Awaited
<1>12. CASE UNCHANGED vars
  BY <1>12 DEF vars
<1> QED
  BY <1>1, <1>2, <1>3, <1>4, <1>5, <1>6, <1>7, <1>8, <1>9, <1>10, <1>11, <1>12 DEF Next

(***************************************************************************)
(* A write that still fits may take the lease over, or may empty it.       *)
(***************************************************************************)
LEMMA EffectiveStep == IInv /\ [Next]_vars => Effective'
<1> SUFFICES ASSUME IInv, [Next]_vars PROVE Effective'
  OBVIOUS
<1> USE ProcAssumption, TimingAssumption
    DEF IInv, TypeOK, Never, Campaigning, Attempting, Pcs, PastTimes, Timers, Stamps, Stamped,
        Leases, Specs, NoLease, NothingObserved, NoSpec, Held, Released,
        InFlight, Replies, Countdowns, Effective
<1>0. TypeOK'
  BY Typing
<1>1. CASE Tick
  BY <1>0, <1>1 DEF Tick
<1>2. ASSUME NEW p \in Proc, Attempt(p) PROVE Effective'
  BY <1>0, <1>2 DEF Attempt, Deadline
<1>3. ASSUME NEW p \in Proc, ServeGet(p) PROVE Effective'
  BY <1>0, <1>3 DEF ServeGet
<1>4. ASSUME NEW p \in Proc, FoundHeld(p) PROVE Effective'
  <2>1. CASE Lose(p)
    BY <1>0, <1>4, <2>1 DEF FoundHeld, Lose, End
  <2>2. CASE Sleep(p, FALSE) /\ renewed[p] = Never /\ UNCHANGED <<role, renewed>>
             /\ observed' = [observed EXCEPT ![p] = AfterRead(p)]
    BY <1>0, <1>4, <2>2, WaitsType DEF FoundHeld, Sleep, AfterRead, Observe
  <2> QED
    BY <1>4, <2>1, <2>2 DEF FoundHeld
<1>5. ASSUME NEW p \in Proc, SendWrite(p) PROVE Effective'
  <2> DEFINE new == [by |-> p, spec |-> Held(p, started[p]), version |-> reply[p].version]
  <2>1. writes' = writes \cup {new}
    BY <1>5 DEF SendWrite
  <2>2. ASSUME reply[p].version = lease.version, lease.spec.holder \notin {NoOne, p}
        PROVE  lease.at + LEASE_DURATION <= now
    <3>1. reply[p] = lease
      BY <1>5, <2>2 DEF SendWrite
    <3>2. lease.version # 0 /\ AfterRead(p).spec = lease.spec /\ lease.at <= AfterRead(p).at
      BY <1>5, <2>2, <3>1 DEF AfterRead, Observe
    <3>3. AfterRead(p).at \in Nat /\ lease.spec.duration = LEASE_DURATION
      BY <2>2, ObserveType
    <3>4. AfterRead(p).at + lease.spec.duration <= started[p]
      BY <1>5, <2>2, <3>1, <3>2, <3>3 DEF SendWrite, HeldByOther
    <3> QED
      BY <3>2, <3>3, <3>4
  <2>3. ASSUME NEW w \in writes, w.version = lease'.version
        PROVE  /\ w.spec.holder # NoOne /\ lease'.spec.holder \notin {NoOne, w.by}
                    => lease'.at + LEASE_DURATION <= now'
               /\ w.spec.holder = NoOne =>
                    lease'.spec.holder = w.by /\ pc'[w.by] = "ended"
    BY <1>5, <2>3 DEF SendWrite
  <2>4. new.version = lease'.version =>
               /\ new.spec.holder # NoOne /\ lease'.spec.holder \notin {NoOne, new.by}
                    => lease'.at + LEASE_DURATION <= now'
               /\ new.spec.holder # NoOne
    BY <1>5, <2>2 DEF SendWrite
  <2> QED
    BY <2>1, <2>3, <2>4
<1>6. ASSUME NEW p \in Proc, Acquired(p) PROVE Effective'
  BY <1>0, <1>6 DEF Acquired, Sleep, Observe, Waits
<1>7. ASSUME NEW p \in Proc, Failed(p) PROVE Effective'
  BY <1>0, <1>7 DEF Failed, Lose, End, Sleep, Waits
<1>8. ASSUME NEW p \in Proc, Stop(p) PROVE Effective'
  BY <1>0, <1>8 DEF Stop, End
<1>9. ASSUME NEW p \in Proc, Release(p) PROVE Effective'
  BY <1>0, <1>9 DEF Release, End
<1>10. ASSUME NEW p \in Proc, Crash(p) PROVE Effective'
  BY <1>0, <1>10 DEF Crash, End
<1>11. ASSUME NEW w \in writes, ServeWrite(w) PROVE Effective'
  BY <1>0, <1>11 DEF ServeWrite, Awaited
<1>12. CASE UNCHANGED vars
  BY <1>12 DEF vars
<1> QED
  BY <1>1, <1>2, <1>3, <1>4, <1>5, <1>6, <1>7, <1>8, <1>9, <1>10, <1>11, <1>12 DEF Next

(***************************************************************************)
(* A leader keeps holding the lease: a write that would take it from the   *)
(* leader comes too late to find it leading.                               *)
(***************************************************************************)
LEMMA HoldersStep == IInv /\ [Next]_vars => Holders'
<1> SUFFICES ASSUME IInv, [Next]_vars PROVE Holders'
  OBVIOUS
<1> USE ProcAssumption, TimingAssumption
    DEF IInv, TypeOK, Never, Campaigning, Attempting, Pcs, PastTimes, RoleOfPc, Timers, Leases, Specs,
        IsLeader, Held, InFlight, Effective, Holders
<1>0. TypeOK'
  BY Typing
<1>1. CASE Tick
  BY <1>0, <1>1 DEF Tick
<1>2. ASSUME NEW p \in Proc, Attempt(p) PROVE Holders'
  BY <1>0, <1>2 DEF Attempt, Deadline
<1>3. ASSUME NEW p \in Proc, ServeGet(p) PROVE Holders'
  BY <1>0, <1>3 DEF ServeGet
<1>4. ASSUME NEW p \in Proc, FoundHeld(p) PROVE Holders'
  <2>1. CASE Lose(p)
    BY <1>0, <1>4, <2>1 DEF FoundHeld, Lose, End
  <2>2. CASE Sleep(p, FALSE) /\ renewed[p] = Never /\ UNCHANGED <<role, renewed>>
             /\ observed' = [observed EXCEPT ![p] = AfterRead(p)]
    BY <1>0, <1>4, <2>2, WaitsType DEF FoundHeld, Sleep
  <2> QED
    BY <1>4, <2>1, <2>2 DEF FoundHeld
<1>5. ASSUME NEW p \in Proc, SendWrite(p) PROVE Holders'
  BY <1>0, <1>5 DEF SendWrite, AfterRead, Observe
<1>6. ASSUME NEW p \in Proc, Acquired(p) PROVE Holders'
  BY <1>0, <1>6 DEF Acquired, Sleep, Observe, Waits
<1>7. ASSUME NEW p \in Proc, Failed(p) PROVE Holders'
  BY <1>0, <1>7 DEF Failed, Lose, End, Sleep, Waits
<1>8. ASSUME NEW p \in Proc, Stop(p) PROVE Holders'
  BY <1>0, <1>8 DEF Stop, End
<1>9. ASSUME NEW p \in Proc, Release(p) PROVE Holders'
  BY <1>0, <1>9 DEF Release, End
<1>10. ASSUME NEW p \in Proc, Crash(p) PROVE Holders'
  BY <1>0, <1>10 DEF Crash, End
<1>11. ASSUME NEW w \in writes, ServeWrite(w) PROVE Holders'
  BY <1>0, <1>11 DEF ServeWrite, Awaited
<1>12. CASE UNCHANGED vars
  BY <1>12 DEF vars
<1> QED
  BY <1>1, <1>2, <1>3, <1>4, <1>5, <1>6, <1>7, <1>8, <1>9, <1>10, <1>11, <1>12 DEF Next

(***************************************************************************)
(* The variables of the election stay in their types on every behaviour.   *)
(***************************************************************************)
THEOREM TypeCorrect == Spec => []TypeOK
<1>1. Init => TypeOK
  BY ProcAssumption DEF Init, TypeOK, Leases, Specs, Held, Released, NoSpec, NoLease,
         NothingObserved, Never, Roles, Pcs, Campaigning, Attempting
<1> QED
  BY <1>1, Typing, PTL DEF Spec

(***************************************************************************)
(* IInv is inductive.                                                      *)
(***************************************************************************)
THEOREM Invariance == Spec => []IInv
<1>1. Init => IInv
  <2> SUFFICES ASSUME Init PROVE IInv
    OBVIOUS
  <2> USE ProcAssumption, TimingAssumption DEF Init, Never
  <2>1. TypeOK
    BY DEF TypeOK, Leases, Specs, NoSpec, NoLease, NothingObserved, Roles, Pcs,
           Campaigning, Attempting
  <2>2. PastTimes /\ RoleOfPc /\ Timers /\ Holders
    BY DEF PastTimes, RoleOfPc, IsLeader, Timers, Holders, NoLease, Campaigning, Attempting
  <2>3. Stamps /\ InFlight /\ Replies /\ Countdowns /\ Effective
    BY DEF Stamps, Stamped, InFlight, Replies, Countdowns, Effective, NoSpec, NoLease,
           NothingObserved
  <2> QED
    BY <2>1, <2>2, <2>3 DEF IInv
<1>2. IInv /\ [Next]_vars => IInv'
  BY Typing, RoleStep, TimersStep, StampsStep, InFlightStep, RepliesStep,
     CountdownsStep, EffectiveStep, HoldersStep DEF IInv
<1> QED
  BY <1>1, <1>2, PTL DEF Spec

(***************************************************************************)
(* Two processes never lead at the same instant.                           *)
(***************************************************************************)
THEOREM MutualExclusion == Spec => []AtMostOneLeader
<1>1. IInv => AtMostOneLeader
  BY DEF IInv, Holders, AtMostOneLeader
<1> QED
  BY <1>1, Invariance, PTL

(***************************************************************************)
(* A leader is the holder the Lease names, by a write no older than the    *)
(* renewal it counts from.                                                 *)
(***************************************************************************)
THEOREM LeaderIsHolder == Spec => []LeaderHoldsLease
<1>1. IInv => LeaderHoldsLease
  BY DEF IInv, Holders, LeaderHoldsLease, TypeOK, Leases, Never
<1> QED
  BY <1>1, Invariance, PTL

(***************************************************************************)
(* A leader cut off from the apiserver steps down within its deadline, one *)
(* retry and three late timers.                                            *)
(***************************************************************************)
THEOREM StepsDownInTime == Spec => []LeadsOnlyWhileRenewed
<1>1. IInv => LeadsOnlyWhileRenewed
  BY TimingAssumption
     DEF IInv, TypeOK, RoleOfPc, Timers, LeadsOnlyWhileRenewed, Never
<1> QED
  BY <1>1, Invariance, PTL

(***************************************************************************)
(* The holder changes from one process to another only a lease duration    *)
(* after the last write of the first.                                      *)
(***************************************************************************)
THEOREM TakeoversWait == Spec => TakeoverWaitsForExpiry
<1> DEFINE Waited ==
      lease'.spec.holder # lease.spec.holder
        /\ NoOne \notin {lease.spec.holder, lease'.spec.holder}
      => now >= lease.at + LEASE_DURATION
<1>1. IInv /\ [Next]_vars => [Waited]_vars
  <2> SUFFICES ASSUME IInv, Next PROVE Waited
    BY DEF vars
  <2>1. CASE lease' = lease
    BY <2>1
  <2>2. ASSUME NEW w \in writes, ServeWrite(w), w.version = lease.version PROVE Waited
    BY <2>2, TimingAssumption
       DEF ServeWrite, IInv, TypeOK, Leases, Specs, InFlight, Effective
  <2> QED
    BY <2>1, <2>2 DEF Next, Tick, Attempt, ServeGet, FoundHeld, SendWrite, Acquired,
       Failed, Stop, Release, Crash, ServeWrite
<1> QED
  BY <1>1, Invariance, PTL DEF Spec, TakeoverWaitsForExpiry

-----------------------------------------------------------------------------
(* Provision: a Gateway's objects through passes that lag behind.           *)

\* Every set of natural numbers has a least element: the induction principle
\* of these proofs, from the well-founded inclusion of finite sets.
LEMMA Least ==
    ASSUME NEW S \in SUBSET Nat, S # {}
    PROVE  \E n \in S : \A m \in S : n <= m
<1> DEFINE T == {1 .. n : n \in S}
<1>1. T # {} /\ T \subseteq FiniteSubsetsOf(Nat)
  <2>1. ASSUME NEW n \in S PROVE 1 .. n \in FiniteSubsetsOf(Nat)
    <3>1. IsFiniteSet(1 .. n)
        BY FS_Interval
    <3> QED  BY <3>1 DEF FiniteSubsetsOf
  <2> QED  BY <2>1
<1>2. IsWellFoundedOn(StrictSubsetOrdering(Nat), FiniteSubsetsOf(Nat))
    BY FS_StrictSubsetOrderingWellFounded
<1>3. PICK x \in T : \A y \in T : ~(<<y, x>> \in StrictSubsetOrdering(Nat))
  <2> HIDE DEF T
  <2> QED  BY <1>1, <1>2, WFMin
<1>4. PICK n \in S : x = 1 .. n
    BY <1>3
<1>5. ASSUME NEW m \in S, m < n PROVE FALSE
  <2>1. 1 .. m \in T
      BY <1>5
  <2>2. 1 .. m \subseteq 1 .. n /\ n \in 1 .. n /\ n \notin 1 .. m /\ 1 .. n \subseteq Nat
      BY <1>5
  <2>3. <<1 .. m, 1 .. n>> \in StrictSubsetOrdering(Nat)
      BY <2>2 DEF StrictSubsetOrdering
  <2>4. ~(<<1 .. m, x>> \in StrictSubsetOrdering(Nat))
    <3> HIDE DEF T
    <3> QED  BY <1>3, <2>1
  <2> HIDE DEF T
  <2> QED  BY <1>4, <2>3, <2>4
<1>6. ASSUME NEW m \in S PROVE n <= m
  <2>1. m \in Nat /\ n \in Nat /\ ~(m < n)
      BY <1>5
  <2> QED  BY <2>1
<1> QED  BY <1>6

\* An object: it has a uid, belongs to a Gateway just when it bears the
\* install's labels, and is as it was found when it belongs to none, as one
\* of another's making that claims fields of ours always does.
IsObj(o) ==
    /\ o = [uid |-> o.uid, owner |-> o.owner, ours |-> o.ours, claims |-> o.claims, ver |-> o.ver, body |-> o.body]
    /\ o.uid \in Nat /\ o.owner \in Nat /\ o.ours \in BOOLEAN /\ o.ver \in Nat
    /\ o # NoObj => o.uid # 0 /\ (o.owner = 0 => o.ver = 1)
    /\ o.ours <=> o.owner # 0
    /\ o.claims = "theirs" => o.owner = 0 /\ o.ver = 1

\* A uid names one object, which goes over to no earlier Gateway.
SameObj(ago, o) == ago.uid # 0 /\ ago.uid = o.uid => ago.owner <= o.owner

\* Targets as allocation leaves them.
GoodPorts(f) ==
    /\ \A p \in DOMAIN f : /\ p \in Nat /\ f[p] \in Nat
                           /\ f[p] > PrivilegedMax /\ f[p] # AdminPort
                           /\ BindsItself(p) => f[p] = p
    /\ \A p, q \in DOMAIN f : p # q => f[p] # f[q]
ServiceOk(o) == o # NoObj => GoodPorts(o.body.ports)

SpecOk(spec) == spec.ports \subseteq 1 .. MaxPort /\ PoolBase + Cardinality(spec.ports) <= MaxPort
GateOk(g, n) ==
    /\ g = [uid |-> g.uid, spec |-> g.spec, ours |-> g.ours, deleting |-> g.deleting]
    /\ g.uid \in 1 .. n /\ g.ours \in BOOLEAN /\ g.deleting \in BOOLEAN
    /\ SpecOk(g.spec)
Worldly ==
    /\ DOMAIN means = {"specs", "edits", "hands", "fails", "restarts", "lags", "slow"}
    /\ \A spec \in means.specs : SpecOk(spec)
    /\ means.slow \subseteq ObjectKind

\* What the caches show is an earlier state of what there is, and the present
\* one where no event is due.
ObjectsOk(ob, sh, un, n) ==
    /\ n \in Nat
    /\ DOMAIN ob = ObjectKind /\ DOMAIN sh = ObjectKind /\ DOMAIN un = ObjectKind
    /\ \A k \in ObjectKind :
        /\ IsObj(ob[k]) /\ ob[k].uid <= n
        /\ IsObj(sh[k]) /\ sh[k].uid <= n /\ SameObj(sh[k], ob[k])
        /\ un[k] = NoEvent => sh[k] = Visible(k, ob[k])
    /\ ServiceOk(ob["service"]) /\ ServiceOk(sh["service"])

\* A record that names the object's uid and version names its body.
RecordOk(r, o, n) ==
    /\ r.uid \in Nat /\ r.ver \in Nat /\ r.uid <= n
    /\ r.uid # 0 /\ r.uid = o.uid => r.ver <= o.ver /\ (r.ver = o.ver => r.body = o.body)
RecordsOk(ap, ob, n) ==
    \A u \in DOMAIN ap : DOMAIN ap[u] = ObjectKind /\ \A k \in ObjectKind : RecordOk(ap[u][k], ob[k], n)

\* Whom a pass provisions for, and whose objects it deletes.
Served(g) == g.ours /\ Usable(g.spec) /\ Managed(g.spec) /\ ~g.deleting
LetGo(g) == ~g.ours \/ (Usable(g.spec) /\ ~Managed(g.spec))
AsWanted(ob, g, bound, k) == IsOurs(ob[k], g.uid) /\ ob[k].body = Render(k, g, bound)

\* A pass that checks or applies: what it found, and under which ports.
TryOk(r, ob, n) ==
    /\ r.pc \in {"check", "apply"}
    /\ r = [pc |-> r.pc, g |-> r.g, bound |-> r.bound, next |-> r.next, existing |-> r.existing,
            live |-> r.live, conflict |-> r.conflict]
    /\ GateOk(r.g, n) /\ Served(r.g)
    /\ r.next \in 1 .. 5 /\ r.conflict \in BOOLEAN
    /\ GoodPorts(r.existing) /\ r.bound = BoundPorts(r.g, r.existing)
    /\ DOMAIN r.live \subseteq ObjectKind
    /\ \A i \in 1 .. 4 : (r.pc = "apply" \/ i < r.next) /\ Kinds[i] \in Wanted(r.g.spec)
                         => Kinds[i] \in DOMAIN r.live
    /\ \A k \in DOMAIN r.live :
        /\ IsObj(r.live[k]) /\ r.live[k].uid <= n /\ SameObj(r.live[k], ob[k])
        /\ r.conflict \/ r.live[k] = NoObj \/ IsOurs(r.live[k], r.g.uid)
    /\ r.pc = "apply" => ~r.conflict

\* A pass that deletes: what it is to delete is its own, or a later Gateway's.
DelOk(r, ob, n) ==
    /\ r.pc = "delete"
    /\ r = [pc |-> r.pc, g |-> r.g, todo |-> r.todo, result |-> r.result]
    /\ GateOk(r.g, n) /\ (Served(r.g) \/ LetGo(r.g))
    /\ DOMAIN r.todo \subseteq ObjectKind
    /\ \A k \in DOMAIN r.todo : r.todo[k] \in 1 .. n /\ (ob[k].uid = r.todo[k] => r.g.uid <= ob[k].owner)
RoundOk(r, ob, n) == r = Rest \/ TryOk(r, ob, n) \/ DelOk(r, ob, n)

\* Nothing is owed and no event is due. While that stays so no object of the
\* Gateway changed since the pass began: what it did so far changed nothing.
Clean == ~owed /\ ~retry /\ ~missed /\ CaughtUp
TryClean(r, ob, g) ==
    /\ r.g = g
    /\ \A k \in DOMAIN r.live : IsOurs(r.live[k], g.uid) => ob[k] = r.live[k]
    /\ r.pc = "apply" => \A i \in 1 .. 4 : i < r.next /\ Kinds[i] \in Wanted(g.spec)
                                           => AsWanted(ob, g, r.bound, Kinds[i])
DelClean(r, ob, g) ==
    /\ r.g = g /\ r.result.problem = "none"
    /\ Served(g) => \A k \in Wanted(g.spec) : AsWanted(ob, g, r.result.bound, k)
    /\ \A k \in ObjectKind : IsOurs(ob[k], g.uid) /\ ~(Served(g) /\ k \in Wanted(g.spec))
                             => k \in DOMAIN r.todo /\ r.todo[k] = ob[k].uid
Fulfilled(ob, g, bound) ==
    /\ Served(g) => \A k \in Wanted(g.spec) : AsWanted(ob, g, bound, k)
    /\ Served(g) \/ LetGo(g) =>
           \A k \in ObjectKind : IsOurs(ob[k], g.uid) => Served(g) /\ k \in Wanted(g.spec)
RoundClean(r, ob, g, pr) ==
    /\ r = Rest /\ pr.problem = "none" => Fulfilled(ob, g, pr.bound)
    /\ r.pc \in {"check", "apply"} => TryClean(r, ob, g)
    /\ r.pc = "delete" => DelClean(r, ob, g)

\* The inductive invariant of Provision.
ProvisionInv ==
    /\ Worldly /\ GateOk(gate, uids)
    /\ owed \in BOOLEAN /\ retry \in BOOLEAN /\ missed \in BOOLEAN
    /\ ObjectsOk(obj, shown, unseen, uids)
    /\ RecordsOk(applied, obj, uids)
    /\ gate.uid \in DOMAIN applied /\ (round # Rest => round.g.uid \in DOMAIN applied)
    /\ RoundOk(round, obj, uids)
    /\ Clean => RoundClean(round, obj, gate, provided)

\* No object is a Gateway's that came after the one the pass is of: one pass
\* of the name runs at a time.
OwnersOk ==
    /\ round # Rest => round.g.uid <= gate.uid /\ \A k \in ObjectKind : obj[k].owner <= round.g.uid
    /\ \A k \in ObjectKind : obj[k].owner <= gate.uid

\* The n-th lowest of a finite set of ports.
LEMMA Ranked ==
    ASSUME NEW M \in Nat, NEW F \in SUBSET (0 .. M), NEW n \in Nat, n < Cardinality(F)
    PROVE  \E t \in F : Cardinality({u \in F : u < t}) = n
<1> DEFINE Below(m) == {u \in F : u < m}
           S == {m \in Nat : Cardinality(Below(m)) > n}
<1>0. \A u \in F : u \in Nat /\ u <= M
    OBVIOUS
<1>1. IsFiniteSet(F) /\ \A m \in Nat : IsFiniteSet(Below(m)) /\ Cardinality(Below(m)) \in Nat
  <2>1. IsFiniteSet(F)
    <3>1. IsFiniteSet(0 .. M)
        BY FS_Interval
    <3> QED  BY <3>1, FS_Subset
  <2>2. ASSUME NEW m \in Nat PROVE IsFiniteSet(Below(m)) /\ Cardinality(Below(m)) \in Nat
    <3>1. Below(m) \in SUBSET F
        OBVIOUS
    <3>2. IsFiniteSet(Below(m))
        BY <2>1, <3>1, FS_Subset
    <3> QED  BY <3>2, FS_CardinalityType
  <2> QED  BY <2>1, <2>2
<1>2. M + 1 \in S
  <2>1. \A u \in F : u < M + 1
      BY <1>0
  <2>2. Below(M + 1) = F
      BY <2>1
  <2> HIDE DEF Below
  <2> QED  BY <2>2
<1>3. PICK m \in S : \A j \in S : m <= j
  <2>1. S \in SUBSET Nat /\ S # {}
      BY <1>2
  <2> HIDE DEF S
  <2> QED  BY <2>1, Least
<1>4. m # 0
  <2>1. Below(0) = {}
    <3>1. \A u \in F : ~(u < 0)
        BY <1>0
    <3> QED  BY <3>1
  <2>2. Cardinality(Below(0)) = 0
      BY <2>1, FS_EmptySet
  <2> QED  BY <1>3, <2>2
<1>5. m - 1 \in Nat /\ Cardinality(Below(m - 1)) <= n /\ Cardinality(Below(m)) > n
  <2>1. m - 1 \in Nat /\ m - 1 \notin S
      BY <1>3, <1>4
  <2>2. Cardinality(Below(m - 1)) \in Nat
      BY <1>1, <2>1
  <2> QED  BY <1>3, <2>1, <2>2
<1>6. m - 1 \in F
  <2>1. CASE m - 1 \notin F
    <3>1. Below(m) = Below(m - 1)
      <4>1. \A u \in F : u < m <=> u < m - 1
          BY <1>0, <1>3, <2>1
      <4> QED  BY <4>1
    <3>2. Cardinality(Below(m - 1)) \in Nat
        BY <1>1, <1>5
    <3> HIDE DEF Below
    <3> QED  BY <1>5, <3>1, <3>2
  <2> QED  BY <2>1
<1>7. Below(m) = Below(m - 1) \cup {m - 1}
  <2>1. \A u \in F : u < m <=> u < m - 1 \/ u = m - 1
      BY <1>0, <1>3
  <2> QED  BY <1>6, <2>1
<1>8. Cardinality(Below(m)) = Cardinality(Below(m - 1)) + 1
  <2>1. m - 1 \notin Below(m - 1) /\ IsFiniteSet(Below(m - 1))
      BY <1>1, <1>5
  <2> HIDE DEF Below
  <2> QED  BY <1>7, <2>1, FS_AddElement
<1>9. Cardinality(Below(m - 1)) = n
  <2>1. Cardinality(Below(m - 1)) \in Nat
      BY <1>1, <1>5
  <2> HIDE DEF Below
  <2> QED  BY <1>5, <1>8, <2>1
<1> QED  BY <1>6, <1>9

\* Fewer than all draws ports are below one of them, and no two ranks agree.
LEMMA RanksDiffer ==
    ASSUME NEW D, IsFiniteSet(D), D \subseteq Nat
    PROVE  /\ \A p \in D : Cardinality({q \in D : q < p}) \in Nat
                           /\ Cardinality({q \in D : q < p}) < Cardinality(D)
           /\ \A p, r \in D : p # r => Cardinality({q \in D : q < p}) # Cardinality({q \in D : q < r})
<1> DEFINE Below(p) == {q \in D : q < p}
<1>1. ASSUME NEW p \in D
      PROVE  IsFiniteSet(Below(p)) /\ Cardinality(Below(p)) \in Nat /\ Cardinality(Below(p)) < Cardinality(D)
  <2>1. Below(p) \in SUBSET D /\ p \notin Below(p) /\ Below(p) # D
      BY <1>1
  <2>2. IsFiniteSet(Below(p)) /\ Cardinality(Below(p)) <= Cardinality(D)
        /\ (Cardinality(D) = Cardinality(Below(p)) => D = Below(p))
      BY <2>1, FS_Subset
  <2>3. Cardinality(Below(p)) \in Nat /\ Cardinality(D) \in Nat
      BY <2>2, FS_CardinalityType
  <2> HIDE DEF Below
  <2> QED  BY <2>1, <2>2, <2>3
<1>2. ASSUME NEW p \in D, NEW r \in D, p < r PROVE Cardinality(Below(p)) # Cardinality(Below(r))
  <2>1. Below(p) \in SUBSET Below(r) /\ p \in Below(r) /\ p \notin Below(p)
    <3>1. \A q \in D : q \in Nat /\ (q < p => q < r)
        BY <1>2
    <3>2. p < r /\ ~(p < p)
        BY <1>2
    <3> QED  BY <3>1, <3>2
  <2>2. IsFiniteSet(Below(r))
      BY <1>1
  <2>3. Cardinality(Below(r)) = Cardinality(Below(p)) => Below(r) = Below(p)
    <3> HIDE DEF Below
    <3> QED  BY <2>1, <2>2, FS_Subset
  <2> HIDE DEF Below
  <2> QED  BY <2>1, <2>3
<1>3. ASSUME NEW p \in D, NEW r \in D, p # r PROVE Cardinality(Below(p)) # Cardinality(Below(r))
  <2>1. p < r \/ r < p
      BY <1>3
  <2> HIDE DEF Below
  <2> QED  BY <1>2, <2>1
<1> QED  BY <1>1, <1>3

\* The pool has a port for each that draws one.
LEMMA PoolSuffices ==
    ASSUME NEW ports, ports \subseteq 1 .. MaxPort, PoolBase + Cardinality(ports) <= MaxPort,
           NEW self \in SUBSET ports, NEW kept \in SUBSET ports, self \cap kept = {},
           NEW targets, IsFiniteSet(targets), Cardinality(targets) <= Cardinality(kept)
    PROVE  LET free == (PoolBase .. MaxPort) \ ({AdminPort} \cup self \cup targets) IN
           /\ IsFiniteSet(ports) /\ free \in SUBSET (0 .. MaxPort)
           /\ Cardinality((ports \ self) \ kept) <= Cardinality(free)
<1> DEFINE free == (PoolBase .. MaxPort) \ ({AdminPort} \cup self \cup targets)
<1> DEFINE used == {AdminPort} \cup self \cup targets
           pool == PoolBase .. MaxPort
           rest == (ports \ self) \ kept
<1>0. PrivilegedMax \in Nat /\ PoolBase \in Nat /\ AdminPort \in Nat /\ MaxPort \in Nat
    BY PortAssumption
<1>1. IsFiniteSet(ports) /\ Cardinality(ports) \in Nat /\ PoolBase + Cardinality(ports) <= MaxPort
  <2>1. ports \in SUBSET (1 .. MaxPort) /\ PoolBase + Cardinality(ports) <= MaxPort
      OBVIOUS
  <2>2. IsFiniteSet(1 .. MaxPort)
      BY <1>0, FS_Interval
  <2>3. IsFiniteSet(ports)
      BY <2>1, <2>2, FS_Subset
  <2> QED  BY <2>1, <2>3, FS_CardinalityType
<1>2. IsFiniteSet(self) /\ IsFiniteSet(kept) /\ IsFiniteSet(rest)
  <2>1. rest \in SUBSET ports
      OBVIOUS
  <2> QED  BY <1>1, <2>1, FS_Subset
<1>3. Cardinality(self) \in Nat /\ Cardinality(kept) \in Nat /\ Cardinality(rest) \in Nat
  <2> HIDE DEF rest
  <2> QED  BY <1>2, FS_CardinalityType
<1>4. Cardinality(ports) = Cardinality(self) + Cardinality(kept) + Cardinality(rest)
  <2>1. IsFiniteSet(self \cup kept) /\ Cardinality(self \cup kept) = Cardinality(self) + Cardinality(kept)
    <3>1. Cardinality(self \cap kept) = 0
        BY FS_EmptySet
    <3>2. /\ IsFiniteSet(self \cup kept)
          /\ Cardinality(self \cup kept) = Cardinality(self) + Cardinality(kept) - Cardinality(self \cap kept)
        BY <1>2, FS_Union
    <3> QED  BY <1>3, <3>1, <3>2
  <2>2. ports = (self \cup kept) \cup rest /\ (self \cup kept) \cap rest = {}
      OBVIOUS
  <2>3. Cardinality((self \cup kept) \cap rest) = 0
    <3> HIDE DEF rest
    <3> QED  BY <2>2, FS_EmptySet
  <2>4. Cardinality((self \cup kept) \cup rest) = Cardinality(self \cup kept) + Cardinality(rest) - 0
    <3> HIDE DEF rest
    <3> QED  BY <1>2, <2>1, <2>3, FS_Union
  <2> HIDE DEF rest
  <2> QED  BY <1>3, <2>1, <2>2, <2>4
<1>5. IsFiniteSet(targets) /\ Cardinality(targets) \in Nat /\ Cardinality(targets) <= Cardinality(kept)
    BY FS_CardinalityType
<1>6. IsFiniteSet(used) /\ Cardinality(used) \in Nat /\ Cardinality(used) <= 1 + Cardinality(self) + Cardinality(kept)
  <2>1. IsFiniteSet({AdminPort}) /\ Cardinality({AdminPort}) = 1
      BY FS_Singleton
  <2>2. IsFiniteSet({AdminPort} \cup self) /\ Cardinality({AdminPort} \cup self) <= 1 + Cardinality(self)
    <3>1. IsFiniteSet({AdminPort} \cap self) /\ Cardinality({AdminPort} \cap self) \in Nat
        BY <2>1, FS_Intersection, FS_CardinalityType
    <3>2. /\ IsFiniteSet({AdminPort} \cup self)
          /\ Cardinality({AdminPort} \cup self)
                = Cardinality({AdminPort}) + Cardinality(self) - Cardinality({AdminPort} \cap self)
        BY <1>2, <2>1, FS_Union
    <3> QED  BY <1>3, <2>1, <3>1, <3>2
  <2>3. Cardinality({AdminPort} \cup self) \in Nat
      BY <2>2, FS_CardinalityType
  <2>4. IsFiniteSet(used) /\ Cardinality(used) = Cardinality({AdminPort} \cup self) + Cardinality(targets)
                                                 - Cardinality(({AdminPort} \cup self) \cap targets)
      BY <1>5, <2>2, FS_Union
  <2>5. Cardinality(({AdminPort} \cup self) \cap targets) \in Nat
      BY <2>2, FS_Intersection, FS_CardinalityType
  <2>6. Cardinality(used) \in Nat
    <3> HIDE DEF used
    <3> QED  BY <2>4, FS_CardinalityType
  <2> HIDE DEF used
  <2> QED  BY <1>3, <1>5, <2>2, <2>3, <2>4, <2>5, <2>6
<1>7. IsFiniteSet(pool) /\ Cardinality(pool) = MaxPort - PoolBase + 1
    BY <1>0, <1>1, FS_Interval
<1>8. Cardinality(free) = Cardinality(pool) - Cardinality(pool \cap used)
    BY <1>7, FS_Difference
<1>9. Cardinality(pool \cap used) \in Nat /\ Cardinality(pool \cap used) <= Cardinality(used)
  <2> HIDE DEF pool, used
  <2> QED  BY <1>6, FS_Intersection, FS_CardinalityType
<1>10. Cardinality(rest) <= Cardinality(free)
  <2> HIDE DEF pool, used, rest, free
  <2> QED  BY <1>0, <1>1, <1>3, <1>4, <1>6, <1>7, <1>8, <1>9
<1>11. free \in SUBSET (0 .. MaxPort)
    BY <1>0
<1> QED  BY <1>1, <1>10, <1>11

\* allocate_target_ports: every port has a target that none shares, and one
\* that had a target keeps it unless a published port came to need it.
LEMMA AllocatesSoundly ==
    ASSUME NEW spec, SpecOk(spec), NEW existing, GoodPorts(existing)
    PROVE  LET b == AllocateTargetPorts(spec.ports, existing) IN
           /\ DOMAIN b = spec.ports /\ GoodPorts(b)
           /\ \A p \in DOMAIN b \cap DOMAIN existing : b[p] = existing[p] \/ existing[p] \in DOMAIN b
<1> DEFINE ports == spec.ports
           b     == AllocateTargetPorts(ports, existing)
           self  == {p \in ports : BindsItself(p)}
           kept  == {p \in ports : KeepsTarget(ports, existing, p)}
           draws == {p \in ports : ~BindsItself(p)} \ kept
           used  == {AdminPort} \cup self \cup {existing[p] : p \in kept}
           free  == (PoolBase .. MaxPort) \ used
           Rank(p) == Cardinality({q \in draws : q < p})
           Drawn(t, p) == Cardinality({u \in free : u < t}) = Rank(p)
<1>0. /\ PrivilegedMax \in Nat /\ PoolBase \in Nat /\ AdminPort \in Nat /\ MaxPort \in Nat
      /\ PrivilegedMax < PoolBase /\ ports \subseteq Nat
    BY PortAssumption DEF SpecOk
<1>1. b = [p \in ports |-> IF p \in kept THEN existing[p] ELSE IF p \notin draws THEN p
                           ELSE CHOOSE t \in free : Drawn(t, p)]
    BY DEF AllocateTargetPorts
<1>2. self \cap kept = {} /\ draws = (ports \ self) \ kept
    BY DEF KeepsTarget
<1>3. IsFiniteSet(ports) /\ free \in SUBSET (0 .. MaxPort) /\ Cardinality(draws) <= Cardinality(free)
  <2>1. ports \subseteq 1 .. MaxPort /\ PoolBase + Cardinality(ports) <= MaxPort
      BY DEF SpecOk
  <2> DEFINE targets == {existing[p] : p \in kept}
  <2>2. /\ self \in SUBSET ports /\ kept \in SUBSET ports
        /\ free = (PoolBase .. MaxPort) \ ({AdminPort} \cup self \cup targets)
      OBVIOUS
  <2>4. IsFiniteSet(targets) /\ Cardinality(targets) <= Cardinality(kept)
    <3> DEFINE f == [p \in kept |-> existing[p]]
    <3>1. f \in Surjection(kept, targets)
        BY DEF Surjection
    <3>2. IsFiniteSet(kept)
      <4>1. IsFiniteSet(1 .. MaxPort)
          BY <1>0, FS_Interval
      <4>2. kept \in SUBSET (1 .. MaxPort)
          BY <2>1, <2>2
      <4> HIDE DEF kept
      <4> QED  BY <4>1, <4>2, FS_Subset
    <3> HIDE DEF f, kept, targets
    <3> QED  BY <3>1, <3>2, FS_Surjection
  <2>3. Cardinality((ports \ self) \ kept) <= Cardinality(free) /\ IsFiniteSet(ports) /\ free \in SUBSET (0 .. MaxPort)
    <3> HIDE DEF self, kept, ports, free, targets
    <3>1. self \cap kept = {}
        BY <1>2
    <3> DEFINE Free == (PoolBase .. MaxPort) \ ({AdminPort} \cup self \cup targets)
    <3>2. IsFiniteSet(ports) /\ Free \in SUBSET (0 .. MaxPort) /\ Cardinality((ports \ self) \ kept) <= Cardinality(Free)
        BY <2>1, <2>2, <2>4, <3>1, PoolSuffices
    <3> QED  BY <2>2, <3>2
  <2> HIDE DEF self, kept, ports, free
  <2> QED  BY <1>2, <2>3
<1>4. IsFiniteSet(draws) /\ draws \subseteq Nat
  <2>1. draws \in SUBSET ports
      OBVIOUS
  <2> HIDE DEF draws
  <2> QED  BY <1>0, <1>3, <2>1, FS_Subset
<1>5. IsFiniteSet(free)
  <2>1. IsFiniteSet(0 .. MaxPort)
      BY <1>0, FS_Interval
  <2> HIDE DEF free
  <2> QED  BY <1>3, <2>1, FS_Subset
<1>6. /\ \A p \in draws : Rank(p) \in Nat /\ Rank(p) < Cardinality(draws)
      /\ \A p, r \in draws : p # r => Rank(p) # Rank(r)
  <2> HIDE DEF draws
  <2> QED  BY <1>4, RanksDiffer
<1>7. \A p \in draws : b[p] \in free /\ Drawn(b[p], p)
  <2> SUFFICES ASSUME NEW p \in draws PROVE b[p] \in free /\ Drawn(b[p], p)
      OBVIOUS
  <2>1. Cardinality(free) \in Nat /\ Cardinality(draws) \in Nat
    <3> HIDE DEF free, draws
    <3> QED  BY <1>4, <1>5, FS_CardinalityType
  <2>2. \E t \in free : Drawn(t, p)
    <3>1. Rank(p) \in Nat /\ Rank(p) < Cardinality(free)
      <4> HIDE DEF free, draws, Rank
      <4> QED  BY <1>3, <1>6, <2>1
    <3> HIDE DEF free, draws, Rank
    <3> QED  BY <1>0, <1>3, <3>1, Ranked
  <2>3. b[p] = CHOOSE t \in free : Drawn(t, p)
    <3>1. p \in ports /\ p \notin kept
        OBVIOUS
    <3> HIDE DEF kept, draws, free, Drawn, b
    <3> QED  BY <1>1, <3>1
  <2> HIDE DEF free, Drawn, b
  <2> QED  BY <2>2, <2>3
<1>8. DOMAIN b = ports /\ (\A p \in kept : b[p] = existing[p]) /\ (\A p \in self : b[p] = p)
  <2>1. \A p \in self : p \in ports /\ p \notin kept /\ p \notin draws
      BY <1>2
  <2>2. \A p \in kept : p \in ports
      OBVIOUS
  <2> HIDE DEF kept, draws, free, Drawn, b, self
  <2> QED  BY <1>1, <2>1, <2>2
<1>9. \A p \in ports : p \in self \/ p \in kept \/ p \in draws
    OBVIOUS
<1>10. \A p \in kept : /\ p \in DOMAIN existing /\ existing[p] \in Nat /\ existing[p] > PrivilegedMax
                       /\ existing[p] # AdminPort /\ existing[p] \notin self
    BY DEF KeepsTarget, GoodPorts
<1>11. \A p, q \in kept : p # q => existing[p] # existing[q]
    BY <1>10 DEF GoodPorts
<1>12. \A t \in free : t \in Nat /\ t > PrivilegedMax /\ t # AdminPort /\ t \notin self
                       /\ \A p \in kept : t # existing[p]
    BY <1>0
<1>13. \A p \in self : p \in Nat /\ p > PrivilegedMax /\ p # AdminPort
    BY <1>0 DEF BindsItself
<1>14. \A p \in ports : BindsItself(p) <=> p \in self
    OBVIOUS
<1>15. \A p, q \in draws : p # q => b[p] # b[q]
  <2> SUFFICES ASSUME NEW p \in draws, NEW q \in draws, p # q, b[p] = b[q] PROVE FALSE
      OBVIOUS
  <2>1. Rank(p) = Rank(q)
    <3> HIDE DEF free, draws, b, Rank
    <3> QED  BY <1>7
  <2> HIDE DEF draws, Rank
  <2> QED  BY <1>6, <2>1
<1>16. GoodPorts(b)
  <2>1. ASSUME NEW p \in ports
        PROVE  /\ p \in Nat /\ b[p] \in Nat /\ b[p] > PrivilegedMax /\ b[p] # AdminPort
               /\ BindsItself(p) => b[p] = p
    <3> HIDE DEF self, kept, draws, free, b, Drawn
    <3> QED  BY <1>0, <1>7, <1>8, <1>9, <1>10, <1>12, <1>13, <1>14, <2>1
  <2>2. ASSUME NEW p \in ports, NEW q \in ports, p # q PROVE b[p] # b[q]
    <3> HIDE DEF self, kept, draws, free, b, Drawn
    <3>1. CASE p \in self
        BY <1>7, <1>8, <1>9, <1>10, <1>12, <2>2, <3>1
    <3>2. CASE p \in kept
        BY <1>7, <1>8, <1>9, <1>10, <1>11, <1>12, <2>2, <3>2
    <3>3. CASE p \in draws
        BY <1>7, <1>8, <1>9, <1>10, <1>12, <1>15, <2>2, <3>3
    <3> QED  BY <1>9, <3>1, <3>2, <3>3
  <2> HIDE DEF b
  <2> QED  BY <1>8, <2>1, <2>2 DEF GoodPorts
<1>17. ASSUME NEW p \in ports, p \in DOMAIN existing PROVE b[p] = existing[p] \/ existing[p] \in ports
  <2>1. CASE p \in self
    <3>1. existing[p] = p
        BY <1>14, <1>17, <2>1 DEF GoodPorts
    <3> HIDE DEF b, self
    <3> QED  BY <1>8, <2>1, <3>1
  <2>2. CASE p \in kept
    <3> HIDE DEF b, kept
    <3> QED  BY <1>8, <2>2
  <2>3. CASE p \notin self /\ p \notin kept
    <3>1. ~BindsItself(p) /\ existing[p] > PrivilegedMax /\ existing[p] # AdminPort
        BY <1>17, <2>3 DEF GoodPorts
    <3>2. \A q \in ports : q < p /\ ~BindsItself(q) /\ q \in DOMAIN existing => existing[q] # existing[p]
        BY <1>0, <1>17 DEF GoodPorts
    <3>3. existing[p] \in {q \in ports : BindsItself(q)}
        BY <1>17, <2>3, <3>1, <3>2 DEF KeepsTarget
    <3> QED  BY <3>3
  <2> QED  BY <2>1, <2>2, <2>3
<1>18. DOMAIN b = ports
    BY <1>8
<1> QED  BY <1>16, <1>17, <1>18

\* How a step moves the objects: a version goes up, a uid is new.
Moves(ob, new, n, m) ==
    /\ n \in Nat /\ m \in Nat /\ n <= m
    /\ \A k \in ObjectKind :
        \/ new[k] = ob[k] \/ new[k].uid = 0 \/ new[k].uid > n
        \/ new[k].uid = ob[k].uid /\ ob[k].owner <= new[k].owner /\ new[k].ver > ob[k].ver

\* No Gateway gains or loses an object, and none of a Gateway's changes.
SameOurs(ob, new) ==
    \A k \in ObjectKind, u \in Nat : IsOurs(ob[k], u) \/ IsOurs(new[k], u) => new[k] = ob[k]

\* The events of a step: none is due only where nothing visible changed.
Still(ob, new, un, at) ==
    \A k \in ObjectKind : at[k] = NoEvent => un[k] = NoEvent /\ Visible(k, new[k]) = Visible(k, ob[k])

LEMMA KindsAre ==
    /\ ObjectKind = {"sa", "deployment", "service", "pdb"}
    /\ Kinds[1] = "sa" /\ Kinds[2] = "deployment" /\ Kinds[3] = "service" /\ Kinds[4] = "pdb"
    /\ \A i \in 1 .. 4 : Kinds[i] \in ObjectKind
    /\ \A k \in ObjectKind : \E i \in 1 .. 4 : k = Kinds[i]
<1>1. Kinds[1] = "sa" /\ Kinds[2] = "deployment" /\ Kinds[3] = "service" /\ Kinds[4] = "pdb"
    BY DEF Kinds
<1>2. \A i \in 1 .. 4 : i = 1 \/ i = 2 \/ i = 3 \/ i = 4
    OBVIOUS
<1>3. 1 \in 1 .. 4 /\ 2 \in 1 .. 4 /\ 3 \in 1 .. 4 /\ 4 \in 1 .. 4
    OBVIOUS
<1>4. ObjectKind = {"sa", "deployment", "service", "pdb"}
    BY <1>1, <1>2, <1>3 DEF ObjectKind
<1>5. \A i \in 1 .. 4 : Kinds[i] \in ObjectKind
    BY DEF ObjectKind
<1>6. \A k \in ObjectKind : \E i \in 1 .. 4 : k = Kinds[i]
    BY DEF ObjectKind
<1> QED  BY <1>1, <1>4, <1>5, <1>6

LEMMA WantedKinds == ASSUME NEW spec PROVE Wanted(spec) \subseteq ObjectKind
<1>1. Wanted(spec) \subseteq {"sa", "deployment", "service", "pdb"}
    BY DEF Wanted
<1> QED  BY <1>1, KindsAre

LEMMA NothingIs == IsObj(NoObj) /\ NoObj.uid = 0 /\ NoObj.owner = 0 /\ ~NoObj.ours
    BY DEF IsObj, NoObj

LEMMA VisibleIs ==
    ASSUME NEW k, NEW o, IsObj(o)
    PROVE  /\ IsObj(Visible(k, o))
           /\ Visible(k, o) = NoObj \/ Visible(k, o) = o
           /\ \A u : IsOurs(o, u) => Visible(k, o) = o /\ o # NoObj
           /\ k = "service" => Visible(k, o) = o
    BY NothingIs DEF Visible, IsOurs

LEMMA StillOurs ==
    ASSUME NEW ob, NEW new, \A k \in ObjectKind : IsObj(ob[k]) /\ IsObj(new[k]),
           \A k \in ObjectKind : Visible(k, new[k]) = Visible(k, ob[k])
    PROVE  SameOurs(ob, new)
<1> SUFFICES ASSUME NEW k \in ObjectKind, NEW u \in Nat, IsOurs(ob[k], u) \/ IsOurs(new[k], u)
             PROVE  new[k] = ob[k]
    BY DEF SameOurs
<1> QED  BY VisibleIs

\* Changes: an event for what the watch selects.
LEMMA ChangesMove ==
    ASSUME ObjectsOk(obj, shown, unseen, uids), NEW k \in ObjectKind, NEW o, IsObj(o), Changes(k, o),
           uids' \in Nat, uids <= uids', o.uid <= uids',
           k = "service" => ServiceOk(o),
           \/ o = obj[k] \/ o.uid = 0 \/ o.uid > uids
           \/ o.uid = obj[k].uid /\ obj[k].owner <= o.owner /\ o.ver > obj[k].ver,
           shown' = shown
    PROVE  /\ ObjectsOk(obj', shown', unseen', uids')
           /\ Moves(obj, obj', uids, uids')
           /\ Still(obj, obj', unseen, unseen')
           /\ obj'[k] = o /\ \A j \in ObjectKind : j # k => obj'[j] = obj[j]
<1>1. /\ DOMAIN obj' = ObjectKind /\ obj'[k] = o /\ \A j \in ObjectKind : j # k => obj'[j] = obj[j]
    BY DEF Changes, ObjectsOk
<1>2. DOMAIN unseen' = ObjectKind /\ \A j \in ObjectKind : j # k => unseen'[j] = unseen[j]
    BY DEF Changes, ObjectsOk
<1>3. unseen'[k] = NoEvent => unseen[k] = NoEvent /\ Visible(k, o) = Visible(k, obj[k])
  <2>1. obj[k].owner \in Nat /\ o.owner \in Nat
      BY DEF ObjectsOk, IsObj
  <2>2. CASE Visible(k, obj[k]) = Visible(k, o)
      BY <2>2 DEF Changes
  <2>3. CASE Visible(k, obj[k]) # Visible(k, o)
    <3>1. unseen'[k] \in {obj[k].owner, o.owner}
        BY <2>3 DEF Changes, ObjectsOk
    <3> QED  BY <2>1, <3>1 DEF NoEvent
  <2> QED  BY <2>2, <2>3
<1>4. Still(obj, obj', unseen, unseen')
    BY <1>1, <1>2, <1>3 DEF Still
<1>5. Moves(obj, obj', uids, uids')
    BY <1>1 DEF Moves, ObjectsOk
<1>6. \A j \in ObjectKind : IsObj(obj'[j]) /\ obj'[j].uid <= uids'
    BY <1>1 DEF ObjectsOk, IsObj
<1>7. \A j \in ObjectKind : IsObj(shown[j]) /\ shown[j].uid <= uids'
    BY DEF ObjectsOk, IsObj
<1>8. \A j \in ObjectKind : SameObj(shown[j], obj'[j])
  <2>1. \A j \in ObjectKind : SameObj(shown[j], obj[j])
      BY DEF ObjectsOk
  <2>2. SameObj(shown[k], o)
    <3>1. /\ shown[k].uid <= uids /\ shown[k].uid \in Nat /\ o.uid \in Nat /\ uids \in Nat
          /\ shown[k].owner \in Nat /\ obj[k].owner \in Nat /\ o.owner \in Nat
        BY DEF ObjectsOk, IsObj
    <3> QED  BY <2>1, <3>1 DEF SameObj
  <2> QED  BY <1>1, <2>1, <2>2
<1>9. \A j \in ObjectKind : unseen'[j] = NoEvent => shown[j] = Visible(j, obj'[j])
    BY <1>4 DEF Still, ObjectsOk
<1>10. ServiceOk(obj'["service"]) /\ ServiceOk(shown["service"])
  <2>1. "service" \in ObjectKind
      BY KindsAre
  <2> QED  BY <1>1, <2>1 DEF ObjectsOk
<1>11. ObjectsOk(obj', shown', unseen', uids')
    BY <1>1, <1>2, <1>6, <1>7, <1>8, <1>9, <1>10 DEF ObjectsOk
<1> QED  BY <1>1, <1>4, <1>5, <1>11

LEMMA GateKept == ASSUME NEW g, NEW n \in Nat, NEW m \in Nat, n <= m, GateOk(g, n) PROVE GateOk(g, m)
    BY DEF GateOk

\* What is remembered of objects stays true as they move.
LEMMA SameKept ==
    ASSUME NEW ob, NEW new, NEW n, NEW m, Moves(ob, new, n, m), NEW k \in ObjectKind, IsObj(ob[k]), IsObj(new[k]),
           NEW o, o.uid \in Nat, o.owner \in Nat, o.uid <= n, SameObj(o, ob[k])
    PROVE  SameObj(o, new[k])
    BY DEF Moves, SameObj, IsObj

LEMMA RecordsKept ==
    ASSUME NEW ap, NEW ob, NEW new, NEW n, NEW m, Moves(ob, new, n, m), RecordsOk(ap, ob, n),
           \A k \in ObjectKind : IsObj(ob[k]) /\ IsObj(new[k])
    PROVE  RecordsOk(ap, new, m)
<1> SUFFICES ASSUME NEW u \in DOMAIN ap, NEW k \in ObjectKind PROVE RecordOk(ap[u][k], new[k], m)
    BY DEF RecordsOk
<1>1. RecordOk(ap[u][k], ob[k], n) /\ n \in Nat /\ m \in Nat /\ n <= m
    BY DEF RecordsOk, Moves
<1>2. ob[k].ver \in Nat /\ new[k].ver \in Nat
    BY DEF IsObj
<1> QED  BY <1>1, <1>2 DEF RecordOk, Moves

LEMMA TryKept ==
    ASSUME NEW r, NEW ob, NEW new, NEW n, NEW m, Moves(ob, new, n, m), TryOk(r, ob, n),
           \A k \in ObjectKind : IsObj(ob[k]) /\ IsObj(new[k])
    PROVE  TryOk(r, new, m)
<1>1. n \in Nat /\ m \in Nat /\ n <= m
    BY DEF Moves
<1>2. GateOk(r.g, m)
    BY <1>1, GateKept DEF TryOk
<1>3. ASSUME NEW k \in DOMAIN r.live PROVE r.live[k].uid <= m /\ SameObj(r.live[k], new[k])
  <2>1. k \in ObjectKind /\ r.live[k].uid \in Nat /\ r.live[k].owner \in Nat /\ r.live[k].uid <= n
        /\ SameObj(r.live[k], ob[k])
      BY <1>3 DEF TryOk, IsObj
  <2> QED  BY <1>1, <2>1, SameKept
<1> QED  BY <1>2, <1>3 DEF TryOk

LEMMA DelKept ==
    ASSUME NEW r, NEW ob, NEW new, NEW n, NEW m, Moves(ob, new, n, m), DelOk(r, ob, n),
           \A k \in ObjectKind : IsObj(ob[k]) /\ IsObj(new[k])
    PROVE  DelOk(r, new, m)
<1>1. n \in Nat /\ m \in Nat /\ n <= m
    BY DEF Moves
<1>2. GateOk(r.g, m)
    BY <1>1, GateKept DEF DelOk
<1>3. ASSUME NEW k \in DOMAIN r.todo
      PROVE  r.todo[k] \in 1 .. m /\ (new[k].uid = r.todo[k] => r.g.uid <= new[k].owner)
  <2>1. k \in ObjectKind /\ r.todo[k] \in 1 .. n /\ (ob[k].uid = r.todo[k] => r.g.uid <= ob[k].owner)
      BY <1>3 DEF DelOk
  <2>2. ASSUME new[k].uid = r.todo[k] PROVE r.g.uid <= new[k].owner
    <3>1. r.g.uid \in Nat /\ ob[k].owner \in Nat /\ new[k].owner \in Nat
      <4>1. r.g.uid \in Nat
          BY <1>1, <1>2 DEF GateOk
      <4> QED  BY <2>1, <4>1 DEF IsObj
    <3>2. new[k] = ob[k] \/ (new[k].uid = ob[k].uid /\ ob[k].owner <= new[k].owner)
        BY <1>1, <2>1, <2>2 DEF Moves
    <3> QED  BY <2>1, <2>2, <3>1, <3>2
  <2> QED  BY <1>1, <2>1, <2>2
<1> QED  BY <1>2, <1>3 DEF DelOk

LEMMA RoundKept ==
    ASSUME NEW r, NEW ob, NEW new, NEW n, NEW m, Moves(ob, new, n, m), RoundOk(r, ob, n),
           \A k \in ObjectKind : IsObj(ob[k]) /\ IsObj(new[k])
    PROVE  RoundOk(r, new, m)
    BY TryKept, DelKept DEF RoundOk

LEMMA CleanKept ==
    ASSUME NEW r, NEW ob, NEW new, NEW n, NEW g, g.uid \in Nat, NEW pr, SameOurs(ob, new),
           RoundOk(r, ob, n), RoundClean(r, ob, g, pr)
    PROVE  RoundClean(r, new, g, pr)
<1>1. \A k \in ObjectKind : /\ IsOurs(ob[k], g.uid) => new[k] = ob[k]
                            /\ IsOurs(new[k], g.uid) => new[k] = ob[k]
    BY DEF SameOurs
<1>2. \A b : \A k \in ObjectKind : AsWanted(ob, g, b, k) => AsWanted(new, g, b, k)
    BY <1>1 DEF AsWanted
<1>3. Wanted(g.spec) \subseteq ObjectKind /\ \A i \in 1 .. 4 : Kinds[i] \in ObjectKind
    BY WantedKinds, KindsAre
<1>4. ASSUME r = Rest, pr.problem = "none" PROVE Fulfilled(new, g, pr.bound)
  <2>1. Fulfilled(ob, g, pr.bound)
      BY <1>4 DEF RoundClean
  <2> QED  BY <1>1, <1>2, <1>3, <2>1 DEF Fulfilled
<1>5. ASSUME r.pc \in {"check", "apply"} PROVE TryClean(r, new, g)
  <2>1. TryClean(r, ob, g)
      BY <1>5 DEF RoundClean
  <2>2. DOMAIN r.live \subseteq ObjectKind
    <3>1. r # Rest /\ r.pc # "delete"
        BY <1>5 DEF Rest
    <3> QED  BY <3>1 DEF RoundOk, TryOk, DelOk
  <2> QED  BY <1>1, <1>2, <1>3, <2>1, <2>2 DEF TryClean
<1>6. ASSUME r.pc = "delete" PROVE DelClean(r, new, g)
  <2>1. DelClean(r, ob, g)
      BY <1>6 DEF RoundClean
  <2> QED  BY <1>1, <1>2, <1>3, <2>1 DEF DelClean
<1> QED  BY <1>4, <1>5, <1>6 DEF RoundClean

\* What a write makes of an object.
LEMMA MovedIs ==
    ASSUME NEW o, NEW new, IsObj(o), o # NoObj, IsObj(new), new.uid = o.uid, new.ver = o.ver, new.owner # 0
    PROVE  /\ IsObj(Moved(o, new)) /\ Moved(o, new) # NoObj /\ Moved(o, new).body = new.body
           /\ Moved(o, new).uid = o.uid /\ Moved(o, new).owner = new.owner /\ Moved(o, new).ours
           /\ Moved(o, new) = o \/ Moved(o, new).ver > o.ver
<1>1. o.uid # 0 /\ o.ver \in Nat /\ o.uid \in Nat
    BY DEF IsObj
<1>2. CASE new = o
  <2>1. Moved(o, new) = o
      BY <1>2 DEF Moved
  <2>2. o.ours
      BY <1>2 DEF IsObj
  <2> QED  BY <1>2, <2>1, <2>2
<1>3. CASE new # o
  <2> DEFINE w == Moved(o, new)
  <2>1. w = [new EXCEPT !.ver = o.ver + 1]
      BY <1>3 DEF Moved
  <2>2. new = [uid |-> new.uid, owner |-> new.owner, ours |-> new.ours, claims |-> new.claims, ver |-> new.ver,
               body |-> new.body]
      BY DEF IsObj
  <2> HIDE DEF w
  <2>3. w = [uid |-> new.uid, owner |-> new.owner, ours |-> new.ours, claims |-> new.claims, ver |-> o.ver + 1,
             body |-> new.body]
      BY ONLY <2>1, <2>2
  <2>4. /\ w.uid = new.uid /\ w.owner = new.owner /\ w.ours = new.ours /\ w.claims = new.claims /\ w.ver = o.ver + 1
        /\ w.body = new.body
        /\ w = [uid |-> w.uid, owner |-> w.owner, ours |-> w.ours, claims |-> w.claims, ver |-> w.ver, body |-> w.body]
      BY ONLY <2>3
  <2>5. w # NoObj
      BY <1>1, <2>4, NothingIs
  <2>6. new.ours \in BOOLEAN /\ new.ours /\ new.claims # "theirs" /\ new.owner \in Nat
      BY DEF IsObj
  <2>7. w.ours \in BOOLEAN /\ w.ours
      BY <2>4, <2>6
  <2>8. IsObj(w)
      BY <1>1, <2>4, <2>6, <2>7 DEF IsObj
  <2> QED  BY <1>1, <2>4, <2>5, <2>7, <2>8 DEF w
<1> QED  BY <1>2, <1>3

LEMMA NewIs ==
    ASSUME NEW n \in Nat, n # 0, NEW owner \in Nat, NEW claims, claims = "theirs" => owner = 0, NEW body, NEW o,
           o = [uid |-> n, owner |-> owner, ours |-> owner # 0, claims |-> claims, ver |-> 1, body |-> body]
    PROVE  /\ IsObj(o) /\ o # NoObj /\ o.uid = n /\ o.owner = owner /\ o.ver = 1 /\ o.body = body
           /\ owner # 0 => o.ours
<1>1. CASE owner = 0
  <2>1. o = [uid |-> n, owner |-> owner, ours |-> FALSE, claims |-> claims, ver |-> 1, body |-> body]
      BY <1>1
  <2> QED  BY <1>1, <2>1, NothingIs DEF IsObj
<1>2. CASE owner # 0
  <2>1. o = [uid |-> n, owner |-> owner, ours |-> TRUE, claims |-> claims, ver |-> 1, body |-> body]
      BY <1>2
  <2> QED  BY <1>2, <2>1, NothingIs DEF IsObj
<1> QED  BY <1>1, <1>2

LEMMA NothingBoundGood == GoodPorts(NothingBound)
    BY DEF GoodPorts, NothingBound

LEMMA UseKeeps ==
    ASSUME Worldly, NEW what \in {"edits", "hands", "fails", "restarts", "lags"}, Use(what)
    PROVE  Worldly'
<1>1. DOMAIN means' = DOMAIN means /\ means'.specs = means.specs /\ means'.slow = means.slow
    BY DEF Use, Worldly
<1> QED  BY <1>1 DEF Worldly

LEMMA ObjectsAre ==
    ASSUME ProvisionInv
    PROVE  /\ ObjectsOk(obj, shown, unseen, uids) /\ uids \in Nat /\ uids # 0
           /\ gate.uid \in Nat /\ gate.uid # 0 /\ gate.uid <= uids
           /\ \A k \in ObjectKind : IsObj(obj[k])
    BY DEF ProvisionInv, ObjectsOk, GateOk

\* A step outside the pass.
LEMMA OthersKeep ==
    ASSUME ProvisionInv, round' = round, Worldly', GateOk(gate', uids'),
           owed' \in BOOLEAN, retry' \in BOOLEAN, missed' \in BOOLEAN,
           ObjectsOk(obj', shown', unseen', uids'), Moves(obj, obj', uids, uids'),
           RecordsOk(applied', obj', uids'), DOMAIN applied \subseteq DOMAIN applied',
           gate'.uid \in DOMAIN applied',
           Clean' => Clean /\ SameOurs(obj, obj') /\ gate' = gate /\ provided' = provided
    PROVE  ProvisionInv'
<1>1. \A k \in ObjectKind : IsObj(obj[k]) /\ IsObj(obj'[k])
    BY DEF ProvisionInv, ObjectsOk
<1>2. RoundOk(round', obj', uids')
    BY <1>1, RoundKept DEF ProvisionInv
<1>3. ASSUME Clean' PROVE RoundClean(round', obj', gate', provided')
  <2>1. RoundClean(round, obj, gate, provided) /\ SameOurs(obj, obj') /\ gate' = gate /\ provided' = provided
      BY <1>3 DEF ProvisionInv
  <2>2. RoundOk(round, obj, uids) /\ gate.uid \in Nat
      BY ObjectsAre DEF ProvisionInv
  <2>3. RoundClean(round, obj', gate, provided)
      BY <2>1, <2>2, CleanKept
  <2> QED  BY <2>1, <2>3
<1>4. round' # Rest => round'.g.uid \in DOMAIN applied'
    BY DEF ProvisionInv
<1> QED  BY <1>2, <1>3, <1>4 DEF ProvisionInv

\* Clean stays only where nothing visible changed.
LEMMA StillClean ==
    ASSUME ObjectsOk(obj, shown, unseen, uids), ObjectsOk(obj', shown', unseen', uids'),
           Still(obj, obj', unseen, unseen'), CaughtUp'
    PROVE  CaughtUp /\ SameOurs(obj, obj')
<1>1. \A k \in ObjectKind : unseen'[k] = NoEvent
    BY DEF CaughtUp
<1>2. CaughtUp /\ \A k \in ObjectKind : Visible(k, obj'[k]) = Visible(k, obj[k])
    BY <1>1 DEF Still, CaughtUp
<1>3. \A k \in ObjectKind : IsObj(obj[k]) /\ IsObj(obj'[k])
    BY DEF ObjectsOk
<1> QED  BY <1>2, <1>3, StillOurs

\* Someone else changes an object.
LEMMA OneChange ==
    ASSUME ProvisionInv, NEW k \in ObjectKind, NEW o, IsObj(o), Changes(k, o), Worldly',
           uids' \in Nat, uids <= uids', o.uid <= uids',
           k = "service" => ServiceOk(o),
           \/ o = obj[k] \/ o.uid = 0 \/ o.uid > uids
           \/ o.uid = obj[k].uid /\ obj[k].owner <= o.owner /\ o.ver > obj[k].ver,
           UNCHANGED <<gate, shown, applied, round, owed, retry, missed, provided>>
    PROVE  ProvisionInv'
<1>1. ObjectsOk(obj, shown, unseen, uids)
    BY ObjectsAre
<1>2. /\ ObjectsOk(obj', shown', unseen', uids') /\ Moves(obj, obj', uids, uids')
      /\ Still(obj, obj', unseen, unseen')
    BY <1>1, ChangesMove
<1>3. RecordsOk(applied, obj', uids')
  <2>1. \A j \in ObjectKind : IsObj(obj[j]) /\ IsObj(obj'[j])
      BY <1>1, <1>2 DEF ObjectsOk
  <2> QED  BY <1>2, <2>1, RecordsKept DEF ProvisionInv
<1>4. GateOk(gate, uids')
  <2>1. uids \in Nat /\ GateOk(gate, uids)
      BY ObjectsAre DEF ProvisionInv
  <2> QED  BY <2>1, GateKept
<1>5. Clean' => Clean /\ SameOurs(obj, obj')
    BY <1>1, <1>2, StillClean DEF Clean
<1>6. /\ owed \in BOOLEAN /\ retry \in BOOLEAN /\ missed \in BOOLEAN /\ gate.uid \in DOMAIN applied
    BY DEF ProvisionInv
<1> QED  BY <1>2, <1>3, <1>4, <1>5, <1>6, OthersKeep

LEMMA IntrudeKeeps ==
    ASSUME ProvisionInv, NEW k \in ObjectKind, NEW claims \in {"none", "theirs"}, Intrude(k, claims) PROVE ProvisionInv'
<1> DEFINE body == IF k = "service" THEN [ports |-> NothingBound] ELSE [plain |-> "theirs"]
           o == [uid |-> uids', owner |-> 0, ours |-> 0 # 0, claims |-> claims, ver |-> 1, body |-> body]
<1>1. uids \in Nat /\ uids' = uids + 1 /\ Changes(k, o)
    BY ObjectsAre DEF Intrude, Create
<1>2. IsObj(o) /\ o.uid = uids + 1 /\ o.body = body
  <2> HIDE DEF body
  <2> QED  BY <1>1, NewIs
<1>3. k = "service" => ServiceOk(o)
  <2> HIDE DEF o
  <2> QED  BY <1>2, NothingBoundGood DEF ServiceOk
<1>4. Worldly'
    BY UseKeeps DEF Intrude, ProvisionInv
<1>5. UNCHANGED <<gate, shown, applied, round, owed, retry, missed, provided>>
    BY DEF Intrude
<1> HIDE DEF o
<1> QED  BY <1>1, <1>2, <1>3, <1>4, <1>5, OneChange

LEMMA TamperKeeps == ASSUME ProvisionInv, NEW k \in ObjectKind, Tamper(k) PROVE ProvisionInv'
<1> DEFINE body == IF k = "service" THEN [ports |-> NothingBound] ELSE [plain |-> "edited"]
           new == [obj[k] EXCEPT !.claims = "edited", !.body = body]
           o == Moved(obj[k], new)
<1>1. Changes(k, o) /\ uids' = uids
    BY DEF Tamper
<1>2. /\ IsObj(obj[k]) /\ obj[k] # NoObj /\ obj[k].owner # 0 /\ obj[k].uid <= uids /\ uids \in Nat
      /\ obj[k].ours = TRUE /\ obj[k].owner \in Nat
    BY ObjectsAre DEF Tamper, IsObj, ObjectsOk
<1>3. new = [uid |-> obj[k].uid, owner |-> obj[k].owner, ours |-> obj[k].ours, claims |-> "edited", ver |-> obj[k].ver,
             body |-> body]
  <2> HIDE DEF body
  <2>1. obj[k] = [uid |-> obj[k].uid, owner |-> obj[k].owner, ours |-> obj[k].ours, claims |-> obj[k].claims,
                  ver |-> obj[k].ver, body |-> obj[k].body]
      BY <1>2 DEF IsObj
  <2>2. new = [obj[k] EXCEPT !.claims = "edited", !.body = body]
      OBVIOUS
  <2> HIDE DEF new
  <2> QED  BY ONLY <2>1, <2>2
<1>4. /\ IsObj(o) /\ o # NoObj /\ o.body = body
      /\ o.uid = obj[k].uid /\ o.owner = obj[k].owner
      /\ o = obj[k] \/ o.ver > obj[k].ver
  <2> HIDE DEF body, new
  <2>1. /\ new.uid = obj[k].uid /\ new.owner = obj[k].owner /\ new.ours = obj[k].ours /\ new.claims = "edited"
        /\ new.ver = obj[k].ver /\ new.body = body
        /\ new = [uid |-> new.uid, owner |-> new.owner, ours |-> new.ours, claims |-> new.claims, ver |-> new.ver,
                  body |-> new.body]
      BY ONLY <1>3
  <2>2. obj[k].ours \in BOOLEAN /\ obj[k].ours /\ obj[k].ver \in Nat /\ obj[k].uid \in Nat /\ obj[k].uid # 0
      BY <1>2 DEF IsObj
  <2>3. IsObj(new)
      BY <1>2, <2>1, <2>2 DEF IsObj
  <2> QED  BY <1>2, <2>1, <2>3, MovedIs
<1>5. k = "service" => ServiceOk(o)
  <2> HIDE DEF o
  <2> QED  BY <1>4, NothingBoundGood DEF ServiceOk
<1>6. Worldly'
    BY UseKeeps DEF Tamper, ProvisionInv
<1>7. UNCHANGED <<gate, shown, applied, round, owed, retry, missed, provided>>
    BY DEF Tamper
<1> HIDE DEF o
<1> QED  BY <1>1, <1>2, <1>4, <1>5, <1>6, <1>7, OneChange

LEMMA RemovalKeeps ==
    ASSUME ProvisionInv, NEW k \in ObjectKind, RemoveObject(k) \/ CollectGarbage(k)
    PROVE  ProvisionInv'
<1>1. Changes(k, NoObj) /\ uids' = uids /\ uids \in Nat
    BY ObjectsAre DEF RemoveObject, CollectGarbage
<1>2. Worldly'
  <2>1. CASE RemoveObject(k)
      BY <2>1, UseKeeps DEF RemoveObject, ProvisionInv
  <2>2. CASE CollectGarbage(k)
      BY <2>2 DEF CollectGarbage, ProvisionInv, Worldly
  <2> QED  BY <2>1, <2>2
<1>3. UNCHANGED <<gate, shown, applied, round, owed, retry, missed, provided>>
    BY DEF RemoveObject, CollectGarbage
<1>4. k = "service" => ServiceOk(NoObj)
    BY DEF ServiceOk
<1> QED  BY <1>1, <1>2, <1>3, <1>4, NothingIs, OneChange

\* The caches catch up.
LEMMA SeeKeeps == ASSUME ProvisionInv, NEW k \in ObjectKind, SeeEvent(k) PROVE ProvisionInv'
<1>1. /\ ObjectsOk(obj, shown, unseen, uids) /\ uids \in Nat /\ \A j \in ObjectKind : IsObj(obj[j])
    BY ObjectsAre
<1>2. /\ DOMAIN unseen' = ObjectKind /\ DOMAIN shown' = ObjectKind
      /\ shown'[k] = Visible(k, obj[k])
      /\ \A j \in ObjectKind : j # k => shown'[j] = shown[j] /\ unseen'[j] = unseen[j]
      /\ UNCHANGED <<means, gate, obj, round, retry, missed, provided, uids>> /\ owed'
    BY <1>1 DEF SeeEvent, ObjectsOk
<1>3. ObjectsOk(obj', shown', unseen', uids')
  <2>1. IsObj(shown'[k]) /\ shown'[k].uid <= uids /\ SameObj(shown'[k], obj[k])
        /\ (k = "service" => shown'[k] = obj[k])
    <3>1. shown'[k] = NoObj \/ shown'[k] = obj[k]
        BY <1>1, <1>2, VisibleIs
    <3>2. k = "service" => shown'[k] = obj[k]
        BY <1>1, <1>2, VisibleIs
    <3>3. obj[k].uid <= uids
        BY <1>1 DEF ObjectsOk
    <3>4. obj[k].owner \in Nat
        BY <1>1 DEF IsObj
    <3> QED  BY <1>1, <3>1, <3>2, <3>3, <3>4, NothingIs DEF SameObj
  <2>2. ServiceOk(shown'["service"])
    <3>1. "service" \in ObjectKind
        BY KindsAre
    <3> QED  BY <1>1, <1>2, <2>1, <3>1 DEF ObjectsOk
  <2> QED  BY <1>1, <1>2, <2>1, <2>2 DEF ObjectsOk
<1>4. Moves(obj, obj', uids, uids')
    BY <1>1, <1>2 DEF Moves
<1>5. RecordsOk(applied', obj, uids) /\ DOMAIN applied' = DOMAIN applied
  <2>1. RecordsOk(applied, obj, uids)
      BY DEF ProvisionInv
  <2>2. \A j \in ObjectKind : RecordOk(NoRecord, obj[j], uids)
      BY <1>1 DEF RecordOk, NoRecord
  <2>3. CASE applied' = applied
      BY <2>1, <2>3
  <2>4. CASE applied' = ForgetObject(k, unseen[k]) /\ unseen[k] \in DOMAIN applied
    <3> DEFINE u == unseen[k]
    <3>1. DOMAIN applied' = DOMAIN applied /\ \A v \in DOMAIN applied : v # u => applied'[v] = applied[v]
        BY <2>4 DEF ForgetObject
    <3>2. DOMAIN applied'[u] = ObjectKind
          /\ \A j \in ObjectKind : applied'[u][j] = NoRecord \/ applied'[u][j] = applied[u][j]
      <4>1. CASE k = "deployment"
          BY <2>4, <4>1 DEF ForgetObject
      <4>2. CASE k = "service"
          BY <2>1, <2>4, <4>2 DEF ForgetObject, RecordsOk
      <4>3. CASE k # "deployment" /\ k # "service"
          BY <2>1, <2>4, <4>3 DEF ForgetObject, RecordsOk
      <4> QED  BY <4>1, <4>2, <4>3
    <3> QED  BY <2>1, <2>2, <2>4, <3>1, <3>2 DEF RecordsOk
  <2> QED  BY <2>3, <2>4 DEF SeeEvent, ForgetObject
<1>6. ~Clean'
    BY <1>2 DEF Clean
<1>7. Worldly' /\ GateOk(gate', uids') /\ retry' \in BOOLEAN /\ missed' \in BOOLEAN /\ owed' \in BOOLEAN
      /\ gate'.uid \in DOMAIN applied'
    BY <1>2, <1>5 DEF ProvisionInv, Worldly, SeeEvent
<1> QED  BY <1>2, <1>3, <1>4, <1>5, <1>6, <1>7, OthersKeep

LEMMA RelistKeeps == ASSUME ProvisionInv, NEW k \in ObjectKind, Relist(k) PROVE ProvisionInv'
<1>1. /\ ObjectsOk(obj, shown, unseen, uids) /\ uids \in Nat /\ \A j \in ObjectKind : IsObj(obj[j])
    BY ObjectsAre
<1>2. /\ DOMAIN unseen' = ObjectKind /\ DOMAIN shown' = ObjectKind
      /\ shown'[k] = NoObj /\ Visible(k, obj[k]) = NoObj /\ k # "service"
      /\ \A j \in ObjectKind : j # k => shown'[j] = shown[j] /\ unseen'[j] = unseen[j]
      /\ UNCHANGED <<gate, obj, round, retry, owed, provided, uids>> /\ missed' = TRUE
    BY <1>1 DEF Relist, ObjectsOk
<1>3. ObjectsOk(obj', shown', unseen', uids')
  <2>1. IsObj(shown'[k]) /\ shown'[k].uid <= uids /\ SameObj(shown'[k], obj[k])
      BY <1>1, <1>2, NothingIs DEF SameObj
  <2>2. ServiceOk(shown'["service"])
    <3>1. "service" \in ObjectKind
        BY KindsAre
    <3> QED  BY <1>1, <1>2, <3>1 DEF ObjectsOk
  <2> QED  BY <1>1, <1>2, <2>1, <2>2 DEF ObjectsOk
<1>4. Moves(obj, obj', uids, uids')
    BY <1>1, <1>2 DEF Moves
<1>5. RecordsOk(applied', obj, uids) /\ DOMAIN applied' = DOMAIN applied
  <2>1. RecordsOk(applied, obj, uids)
      BY DEF ProvisionInv
  <2>2. \A j \in ObjectKind : RecordOk(NoRecord, obj[j], uids)
      BY <1>1 DEF RecordOk, NoRecord
  <2> QED  BY <2>1, <2>2 DEF Relist, RecordsOk
<1>6. ~Clean'
    BY <1>2 DEF Clean
<1>7. Worldly'
    BY UseKeeps DEF Relist, ProvisionInv
<1>8. GateOk(gate', uids') /\ retry' \in BOOLEAN /\ missed' \in BOOLEAN /\ owed' \in BOOLEAN
      /\ gate'.uid \in DOMAIN applied'
    BY <1>2, <1>5 DEF ProvisionInv
<1> QED  BY <1>2, <1>3, <1>4, <1>5, <1>6, <1>7, <1>8, OthersKeep

\* The Gateway changes, or a retry is due: a pass is owed.
LEMMA OwedKeeps ==
    ASSUME ProvisionInv, owed' = TRUE, retry' \in BOOLEAN, Worldly', GateOk(gate', uids'), uids' \in Nat, uids <= uids',
           RecordsOk(applied', obj, uids'), DOMAIN applied \subseteq DOMAIN applied', gate'.uid \in DOMAIN applied',
           UNCHANGED <<obj, shown, unseen, round, missed>>
    PROVE  ProvisionInv'
<1>1. ObjectsOk(obj, shown, unseen, uids)
    BY ObjectsAre
<1>2. ObjectsOk(obj', shown', unseen', uids')
    BY <1>1 DEF ObjectsOk, IsObj
<1>3. Moves(obj, obj', uids, uids')
    BY <1>1 DEF Moves, ObjectsOk
<1>4. ~Clean' /\ owed' \in BOOLEAN /\ missed' \in BOOLEAN
    BY DEF Clean, ProvisionInv
<1>5. RecordsOk(applied', obj', uids') /\ round' = round
    OBVIOUS
<1> QED  BY <1>2, <1>3, <1>4, <1>5, OthersKeep

LEMMA GatewayKeeps ==
    ASSUME ProvisionInv,
           (\E spec \in means.specs : EditSpec(spec)) \/ MoveClass \/ DeleteInForeground \/ RetryNow
    PROVE  ProvisionInv'
<1>1. UNCHANGED <<obj, shown, unseen, round, missed, uids, applied>> /\ owed' = TRUE
    BY DEF EditSpec, MoveClass, DeleteInForeground, RetryNow
<1>2. Worldly'
  <2>1. CASE RetryNow
      BY <2>1 DEF RetryNow, ProvisionInv, Worldly
  <2>2. CASE Use("edits")
      BY <2>2, UseKeeps DEF ProvisionInv
  <2> QED  BY <2>1, <2>2 DEF EditSpec, MoveClass, DeleteInForeground
<1>3. GateOk(gate', uids') /\ gate'.uid = gate.uid
  <2>1. GateOk(gate, uids) /\ Worldly
      BY DEF ProvisionInv
  <2>2. CASE RetryNow
      BY <1>1, <2>1, <2>2 DEF RetryNow
  <2>3. ASSUME NEW spec \in means.specs, EditSpec(spec) PROVE GateOk(gate', uids') /\ gate'.uid = gate.uid
    <3>1. gate' = [uid |-> gate.uid, spec |-> spec, ours |-> gate.ours, deleting |-> gate.deleting]
        BY <2>1, <2>3 DEF EditSpec, GateOk
    <3> QED  BY <1>1, <2>1, <2>3, <3>1 DEF GateOk, Worldly
  <2>4. CASE MoveClass
    <3>1. gate' = [uid |-> gate.uid, spec |-> gate.spec, ours |-> ~gate.ours, deleting |-> gate.deleting]
        BY <2>1, <2>4 DEF MoveClass, GateOk
    <3> QED  BY <1>1, <2>1, <3>1 DEF GateOk
  <2>5. CASE DeleteInForeground
    <3>1. gate' = [uid |-> gate.uid, spec |-> gate.spec, ours |-> gate.ours, deleting |-> TRUE]
        BY <2>1, <2>5 DEF DeleteInForeground, GateOk
    <3> QED  BY <1>1, <2>1, <3>1 DEF GateOk
  <2> QED  BY <2>2, <2>3, <2>4, <2>5
<1>4. retry' \in BOOLEAN
    BY DEF EditSpec, MoveClass, DeleteInForeground, RetryNow, ProvisionInv
<1>5. RecordsOk(applied', obj, uids') /\ gate'.uid \in DOMAIN applied' /\ DOMAIN applied \subseteq DOMAIN applied'
    BY <1>1, <1>3 DEF ProvisionInv
<1>6. uids' \in Nat /\ uids <= uids'
    BY <1>1, ObjectsAre
<1> QED  BY <1>1, <1>2, <1>3, <1>4, <1>5, <1>6, OwedKeeps

LEMMA RecreateKeeps == ASSUME ProvisionInv, Recreate PROVE ProvisionInv'
<1>1. UNCHANGED <<obj, shown, unseen, round, missed, retry>> /\ owed' = TRUE /\ uids' = uids + 1
    BY DEF Recreate
<1>2. Worldly'
    BY UseKeeps DEF Recreate, ProvisionInv
<1>3. uids \in Nat /\ uids' \in Nat /\ uids <= uids' /\ uids' # 0
    BY <1>1, ObjectsAre
<1>4. GateOk(gate', uids') /\ gate'.uid = uids'
  <2>1. GateOk(gate, uids)
      BY DEF ProvisionInv
  <2>2. gate' = [uid |-> uids', spec |-> gate.spec, ours |-> gate.ours, deleting |-> FALSE]
      BY <2>1 DEF Recreate, GateOk
  <2> QED  BY <1>3, <2>1, <2>2 DEF GateOk
<1>5. /\ DOMAIN applied' = DOMAIN applied \cup {uids'}
      /\ \A u \in DOMAIN applied' : applied'[u] = [j \in ObjectKind |-> NoRecord]
                                    \/ (u \in DOMAIN applied /\ applied'[u] = applied[u])
    BY DEF Recreate
<1>6. RecordsOk(applied', obj, uids')
  <2>1. RecordsOk(applied, obj, uids)
      BY DEF ProvisionInv
  <2>2. \A j \in ObjectKind : RecordOk(NoRecord, obj[j], uids')
      BY <1>3 DEF RecordOk, NoRecord
  <2>3. \A u \in DOMAIN applied : \A j \in ObjectKind : RecordOk(applied[u][j], obj[j], uids')
      BY <1>3, <2>1 DEF RecordsOk, RecordOk
  <2> QED  BY <1>5, <2>1, <2>2, <2>3 DEF RecordsOk
<1>7. retry' \in BOOLEAN
    BY <1>1 DEF ProvisionInv
<1> QED  BY <1>1, <1>2, <1>3, <1>4, <1>5, <1>6, <1>7, OwedKeeps

LEMMA RestartKeeps == ASSUME ProvisionInv, RestartController PROVE ProvisionInv'
<1>1. /\ ObjectsOk(obj, shown, unseen, uids) /\ uids \in Nat /\ \A j \in ObjectKind : IsObj(obj[j])
    BY ObjectsAre
<1>2. ObjectsOk(obj', shown', unseen', uids')
  <2>1. /\ DOMAIN shown' = ObjectKind /\ DOMAIN unseen' = ObjectKind /\ obj' = obj /\ uids' = uids
        /\ \A k \in ObjectKind : shown'[k] = Visible(k, obj[k])
      BY DEF RestartController
  <2>2. \A k \in ObjectKind : IsObj(shown'[k]) /\ (shown'[k] = NoObj \/ shown'[k] = obj[k])
      BY <1>1, <2>1, VisibleIs
  <2>3. \A k \in ObjectKind : shown'[k].uid <= uids /\ SameObj(shown'[k], obj[k])
    <3>1. \A k \in ObjectKind : SameObj(NoObj, obj[k])
        BY NothingIs DEF SameObj
    <3>2. ASSUME NEW k \in ObjectKind PROVE SameObj(obj[k], obj[k])
      <4>1. obj[k].owner \in Nat
          BY <1>1 DEF IsObj
      <4> QED  BY <4>1 DEF SameObj
    <3> QED  BY <1>1, <2>2, <3>1, <3>2, NothingIs DEF ObjectsOk
  <2>4. ServiceOk(shown'["service"])
    <3>1. "service" \in ObjectKind
        BY KindsAre
    <3> QED  BY <1>1, <2>2, <3>1 DEF ObjectsOk, ServiceOk
  <2> QED  BY <1>1, <2>1, <2>2, <2>3, <2>4 DEF ObjectsOk
<1>3. RecordsOk(applied', obj', uids') /\ gate'.uid \in DOMAIN applied'
  <2>1. \A j \in ObjectKind : RecordOk(NoRecord, obj[j], uids)
      BY <1>1 DEF RecordOk, NoRecord
  <2> QED  BY <2>1 DEF RestartController, RecordsOk, ProvisionInv
<1>4. Worldly'
    BY UseKeeps DEF RestartController, ProvisionInv
<1>5. GateOk(gate', uids') /\ round' = Rest /\ owed' = TRUE /\ retry' = FALSE /\ missed' = FALSE
    BY DEF RestartController, ProvisionInv
<1>6. ~Clean' /\ RoundOk(round', obj', uids')
    BY <1>5 DEF Clean, RoundOk
<1> QED  BY <1>2, <1>3, <1>4, <1>5, <1>6 DEF ProvisionInv

\* A step of the pass that changes no object.
LEMMA PassOnly ==
    ASSUME ProvisionInv, Worldly', UNCHANGED <<gate, obj, unseen, shown, uids>>,
           owed' \in BOOLEAN, retry' \in BOOLEAN, missed' \in BOOLEAN,
           RecordsOk(applied', obj, uids), DOMAIN applied' = DOMAIN applied,
           round' # Rest => round'.g.uid \in DOMAIN applied,
           RoundOk(round', obj, uids), Clean' => RoundClean(round', obj, gate, provided')
    PROVE  ProvisionInv'
    BY DEF ProvisionInv

LEMMA SameWorld == ASSUME ProvisionInv, UNCHANGED means PROVE Worldly'
    BY DEF ProvisionInv, Worldly

LEMMA RecordsSet ==
    ASSUME NEW u, NEW k \in ObjectKind, NEW r, NEW ob, NEW n, RecordsOk(applied, ob, n), RecordOk(r, ob[k], n),
           Record(u, k, r)
    PROVE  RecordsOk(applied', ob, n) /\ DOMAIN applied' = DOMAIN applied
<1>1. DOMAIN applied' = DOMAIN applied /\ \A v \in DOMAIN applied : v # u => applied'[v] = applied[v]
    BY DEF Record
<1>2. CASE u \in DOMAIN applied
  <2>1. DOMAIN applied'[u] = DOMAIN applied[u] /\ applied'[u][k] = r
        /\ \A j \in ObjectKind : j # k => applied'[u][j] = applied[u][j]
      BY <1>2 DEF Record, RecordsOk
  <2> QED  BY <1>1, <1>2, <2>1 DEF RecordsOk
<1>3. CASE u \notin DOMAIN applied
    BY <1>1, <1>3 DEF RecordsOk
<1> QED  BY <1>1, <1>2, <1>3

LEMMA NoRecordOk == ASSUME NEW o, NEW n \in Nat PROVE RecordOk(NoRecord, o, n)
    BY DEF RecordOk, NoRecord

\* existing_targets and desired: the ports of a cached Service are ones that
\* allocation gave.
LEMMA ExistingGood ==
    ASSUME ObjectsOk(obj, shown, unseen, uids), NEW u PROVE GoodPorts(ExistingTargets(u))
<1>1. CASE IsOurs(shown["service"], u)
    BY <1>1 DEF ExistingTargets, ObjectsOk, ServiceOk, IsOurs
<1>2. CASE ~IsOurs(shown["service"], u)
    BY <1>2, NothingBoundGood DEF ExistingTargets
<1> QED  BY <1>1, <1>2

LEMMA BoundGood ==
    ASSUME NEW g, NEW n, GateOk(g, n), NEW existing, GoodPorts(existing)
    PROVE  /\ GoodPorts(BoundPorts(g, existing))
           /\ Fronted(g.spec) =>
                \A p \in DOMAIN BoundPorts(g, existing) \cap DOMAIN existing :
                    BoundPorts(g, existing)[p] = existing[p] \/ existing[p] \in DOMAIN BoundPorts(g, existing)
<1>1. CASE Fronted(g.spec)
  <2>1. BoundPorts(g, existing) = AllocateTargetPorts(g.spec.ports, existing)
      BY <1>1 DEF BoundPorts
  <2>2. SpecOk(g.spec)
      BY DEF GateOk
  <2> QED  BY <2>1, <2>2, AllocatesSoundly
<1>2. CASE ~Fronted(g.spec)
    BY <1>2, NothingBoundGood DEF BoundPorts
<1> QED  BY <1>1, <1>2

\* What a deletion is to do, as the caches have it.
LEMMA DeletingOk ==
    ASSUME ObjectsOk(obj, shown, unseen, uids), NEW g, GateOk(g, uids), Served(g) \/ LetGo(g),
           NEW keep, NEW result, NEW r, r = Deleting(g, keep, result)
    PROVE  /\ DelOk(r, obj, uids) /\ r # Rest /\ r.g = g /\ r.result = result /\ r.pc = "delete"
           /\ CaughtUp => \A k \in ObjectKind : IsOurs(obj[k], g.uid) /\ k \notin keep
                                                => k \in DOMAIN r.todo /\ r.todo[k] = obj[k].uid
<1>1. /\ r.pc = "delete" /\ r.g = g /\ r.result = result
      /\ DOMAIN r.todo = Deletable(g.uid, keep)
      /\ \A k \in Deletable(g.uid, keep) : r.todo[k] = shown[k].uid
      /\ r = [pc |-> r.pc, g |-> r.g, todo |-> r.todo, result |-> r.result]
    BY DEF Deleting
<1>2. r # Rest
    BY <1>1 DEF Rest
<1>3. Deletable(g.uid, keep) \subseteq ObjectKind
    BY DEF Deletable
<1>4. ASSUME NEW k \in Deletable(g.uid, keep)
      PROVE  shown[k].uid \in 1 .. uids /\ (obj[k].uid = shown[k].uid => g.uid <= obj[k].owner)
  <2>1. k \in ObjectKind /\ IsOurs(shown[k], g.uid)
      BY <1>4 DEF Deletable
  <2>2. shown[k].uid \in 1 .. uids
      BY <2>1 DEF ObjectsOk, IsObj, IsOurs
  <2>3. ASSUME obj[k].uid = shown[k].uid PROVE g.uid <= obj[k].owner
    <3>1. shown[k].owner <= obj[k].owner
        BY <2>1, <2>2, <2>3 DEF ObjectsOk, SameObj
    <3> QED  BY <2>1, <3>1 DEF IsOurs
  <2> QED  BY <2>2, <2>3
<1>5. DelOk(r, obj, uids)
    BY <1>1, <1>3, <1>4 DEF DelOk
<1>6. ASSUME CaughtUp, NEW k \in ObjectKind, IsOurs(obj[k], g.uid), k \notin keep
      PROVE  k \in DOMAIN r.todo /\ r.todo[k] = obj[k].uid
  <2>1. IsObj(obj[k]) /\ shown[k] = Visible(k, obj[k])
      BY <1>6 DEF ObjectsOk, CaughtUp
  <2>2. shown[k] = obj[k]
      BY <1>6, <2>1, VisibleIs
  <2>3. k \in Deletable(g.uid, keep)
      BY <1>6, <2>2 DEF Deletable
  <2> QED  BY <1>1, <2>2, <2>3
<1> QED  BY <1>1, <1>2, <1>5, <1>6

LEMMA BeginKeeps == ASSUME ProvisionInv, BeginPass PROVE ProvisionInv'
<1>1. /\ ObjectsOk(obj, shown, unseen, uids) /\ uids \in Nat /\ GateOk(gate, uids) /\ RecordsOk(applied, obj, uids)
      /\ gate.uid \in DOMAIN applied
    BY ObjectsAre DEF ProvisionInv
<1>2. /\ UNCHANGED <<gate, obj, unseen, shown, applied, retry, uids>> /\ round = Rest
      /\ owed' = FALSE /\ missed' = FALSE
    BY DEF BeginPass
<1>3. Worldly'
    BY UseKeeps, SameWorld DEF BeginPass, ProvisionInv
<1>4. retry' \in BOOLEAN
    BY <1>2 DEF ProvisionInv
<1>5. Clean' => CaughtUp
    BY <1>2 DEF Clean, CaughtUp
<1> DEFINE existing == ExistingTargets(gate.uid)
           bound == BoundPorts(gate, existing)
<1>6. CASE ~gate.ours \/ (Usable(gate.spec) /\ ~Managed(gate.spec))
  <2>1. LetGo(gate) /\ ~Served(gate)
      BY <1>1, <1>6 DEF LetGo, Served, GateOk
  <2>2. round' = Deleting(gate, {}, NothingMade)
      BY <1>6 DEF BeginPass
  <2>3. /\ DelOk(round', obj, uids) /\ round'.g = gate /\ round'.result = NothingMade /\ round'.pc = "delete"
        /\ CaughtUp => \A k \in ObjectKind : IsOurs(obj[k], gate.uid)
                                             => k \in DOMAIN round'.todo /\ round'.todo[k] = obj[k].uid
      BY <1>1, <2>1, <2>2, DeletingOk
  <2>4. RoundOk(round', obj, uids)
      BY <2>3 DEF RoundOk
  <2>5. Clean' => RoundClean(round', obj, gate, provided')
    <3> SUFFICES ASSUME Clean' PROVE RoundClean(round', obj, gate, provided')
        OBVIOUS
    <3>1. DelClean(round', obj, gate)
        BY <1>5, <2>1, <2>3 DEF DelClean, NothingMade
    <3>2. round' # Rest
        BY <2>3 DEF Rest
    <3> QED  BY <2>3, <3>1, <3>2 DEF RoundClean
  <2> QED  BY <1>1, <1>2, <1>3, <1>4, <2>3, <2>4, <2>5, PassOnly
<1>7. CASE gate.ours /\ (~Usable(gate.spec) \/ (Usable(gate.spec) /\ Managed(gate.spec) /\ gate.deleting))
  <2>1. ~LetGo(gate) /\ ~Served(gate)
      BY <1>7 DEF LetGo, Served
  <2>2. round' = Rest
      BY <1>2, <1>7 DEF BeginPass
  <2>3. RoundOk(round', obj, uids) /\ RoundClean(round', obj, gate, provided')
      BY <2>1, <2>2 DEF RoundOk, RoundClean, Fulfilled, Rest
  <2> QED  BY <1>1, <1>2, <1>3, <1>4, <2>2, <2>3, PassOnly
<1>8. CASE gate.ours /\ Usable(gate.spec) /\ Managed(gate.spec) /\ ~gate.deleting
  <2>1. round' = [pc |-> "check", g |-> gate, bound |-> bound, next |-> 1, existing |-> existing,
                  live |-> [k \in {} |-> NoObj], conflict |-> FALSE]
      BY <1>8 DEF BeginPass
  <2>2. GoodPorts(existing)
      BY <1>1, ExistingGood
  <2>3. /\ round'.pc = "check" /\ round'.g = gate /\ round'.bound = bound /\ round'.next = 1
        /\ round'.existing = existing /\ round'.live = [k \in {} |-> NoObj] /\ round'.conflict = FALSE
    <3> HIDE DEF existing, bound
    <3> QED  BY <2>1
  <2>4. round' = [pc |-> round'.pc, g |-> round'.g, bound |-> round'.bound, next |-> round'.next,
                  existing |-> round'.existing, live |-> round'.live, conflict |-> round'.conflict]
    <3> HIDE DEF existing, bound
    <3> QED  BY <2>1
  <2>5. DOMAIN round'.live = {}
      BY <2>3
  <2>6. TryOk(round', obj, uids)
    <3>1. Served(round'.g) /\ GateOk(round'.g, uids) /\ round'.bound = BoundPorts(round'.g, round'.existing)
        BY <1>1, <1>8, <2>3 DEF Served
    <3>2. \A i \in 1 .. 4 : ~(round'.pc = "apply" \/ i < round'.next)
        BY <2>3
    <3>3. GoodPorts(round'.existing) /\ round'.next \in 1 .. 5 /\ round'.conflict \in BOOLEAN
      <4>1. GoodPorts(round'.existing)
          BY <2>2, <2>3, Zenon
      <4>2. round'.next = 1 /\ round'.conflict = FALSE
          BY <2>3, Zenon
      <4>3. round'.next \in 1 .. 5
          BY <4>2
      <4>4. round'.conflict \in BOOLEAN
          BY <4>2, Zenon
      <4> QED  BY <4>1, <4>3, <4>4
    <3>4. DOMAIN round'.live \subseteq ObjectKind
        BY <2>5
    <3>5. round'.pc \in {"check", "apply"} /\ (round'.pc = "apply" => ~round'.conflict)
        BY <2>3
    <3> HIDE DEF existing, bound
    <3> QED  BY <2>4, <2>5, <3>1, <3>2, <3>3, <3>4, <3>5 DEF TryOk
  <2>7. RoundOk(round', obj, uids)
      BY <2>6 DEF RoundOk
  <2>8. RoundClean(round', obj, gate, provided')
    <3>1. TryClean(round', obj, gate)
        BY <2>3, <2>5 DEF TryClean
    <3>2. round' # Rest
        BY <2>3 DEF Rest
    <3> QED  BY <2>3, <3>1, <3>2 DEF RoundClean
  <2> QED  BY <1>1, <1>2, <1>3, <1>4, <2>3, <2>7, <2>8, PassOnly
<1> QED  BY <1>1, <1>6, <1>7, <1>8 DEF GateOk

\* What holds in a pass that checks or applies.
LEMMA Trying ==
    ASSUME ProvisionInv, round.pc \in {"check", "apply"}
    PROVE  /\ TryOk(round, obj, uids) /\ round # Rest /\ round.g.uid \in DOMAIN applied
           /\ Clean => TryClean(round, obj, gate)
<1>1. round # Rest /\ round.pc # "delete"
    BY DEF Rest
<1> QED  BY <1>1 DEF ProvisionInv, RoundOk, DelOk, RoundClean

LEMMA FailsKeeps ==
    ASSUME ProvisionInv, NEW problem, NEW again \in BOOLEAN, problem # "none" \/ again, Fails(problem, again),
           Worldly', UNCHANGED <<gate, obj, unseen, shown, uids, owed, missed>>,
           RecordsOk(applied', obj, uids), DOMAIN applied' = DOMAIN applied
    PROVE  ProvisionInv'
<1>1. round' = Rest /\ retry' = (retry \/ again) /\ provided'.problem = problem
    BY DEF Fails
<1>2. retry' \in BOOLEAN /\ owed' \in BOOLEAN /\ missed' \in BOOLEAN
    BY <1>1 DEF ProvisionInv
<1>3. RoundOk(round', obj, uids)
    BY <1>1 DEF RoundOk
<1>4. Clean' => problem # "none"
    BY <1>1 DEF Clean
<1>5. Clean' => RoundClean(round', obj, gate, provided')
    BY <1>1, <1>4 DEF RoundClean, Rest
<1> QED  BY <1>1, <1>2, <1>3, <1>5, PassOnly

LEMMA PreflightKeeps == ASSUME ProvisionInv, Preflight PROVE ProvisionInv'
<1> DEFINE k == Kinds[round.next]
           meta == IF shown[k] # NoObj \/ k = "service" THEN shown[k] ELSE obj[k]
           isWanted == k \in Wanted(round.g.spec)
           live == IF ~isWanted THEN round.live
                   ELSE [j \in DOMAIN round.live \cup {k} |-> IF j = k THEN meta ELSE round.live[j]]
           clash == round.conflict \/ (isWanted /\ meta # NoObj /\ ~IsOurs(meta, round.g.uid))
<1>1. /\ TryOk(round, obj, uids) /\ round.g.uid \in DOMAIN applied /\ (Clean => TryClean(round, obj, gate))
      /\ round.pc = "check" /\ round.next \in 1 .. 4
      /\ UNCHANGED <<means, gate, obj, unseen, shown, applied, owed, retry, missed, provided, uids>>
  <2>1. round.pc = "check" /\ round.next <= 4
      BY DEF Preflight
  <2>2. TryOk(round, obj, uids) /\ round.g.uid \in DOMAIN applied /\ (Clean => TryClean(round, obj, gate))
      BY <2>1, Trying
  <2> QED  BY <2>1, <2>2 DEF TryOk, Preflight
<1>2. ObjectsOk(obj, shown, unseen, uids) /\ uids \in Nat /\ k \in ObjectKind
    BY <1>1, ObjectsAre, KindsAre
<1>3. IsObj(meta) /\ meta.uid <= uids /\ SameObj(meta, obj[k])
  <2>1. meta = shown[k] \/ meta = obj[k]
      OBVIOUS
  <2>2. IsObj(shown[k]) /\ IsObj(obj[k]) /\ shown[k].uid <= uids /\ obj[k].uid <= uids /\ SameObj(shown[k], obj[k])
      BY <1>2 DEF ObjectsOk
  <2>3. SameObj(obj[k], obj[k])
      BY <2>2 DEF SameObj, IsObj
  <2> HIDE DEF meta
  <2> QED  BY <2>1, <2>2, <2>3
<1>4. /\ round'.pc = "check" /\ round'.g = round.g /\ round'.bound = round.bound /\ round'.next = round.next + 1
      /\ round'.existing = round.existing /\ round'.live = live /\ round'.conflict = clash
      /\ round' = [pc |-> round'.pc, g |-> round'.g, bound |-> round'.bound, next |-> round'.next,
                   existing |-> round'.existing, live |-> round'.live, conflict |-> round'.conflict]
  <2>1. round' = [round EXCEPT !.next = round.next + 1, !.live = live, !.conflict = clash]
      BY DEF Preflight
  <2>2. round = [pc |-> round.pc, g |-> round.g, bound |-> round.bound, next |-> round.next,
                 existing |-> round.existing, live |-> round.live, conflict |-> round.conflict]
      BY <1>1 DEF TryOk
  <2> HIDE DEF live, clash
  <2> QED  BY <1>1, <2>1, <2>2
<1>5. /\ DOMAIN round.live \subseteq ObjectKind
      /\ DOMAIN live = IF isWanted THEN DOMAIN round.live \cup {k} ELSE DOMAIN round.live
      /\ \A j \in DOMAIN live : live[j] = (IF isWanted /\ j = k THEN meta ELSE round.live[j])
      /\ \A j \in DOMAIN live : j \in DOMAIN round.live \/ (isWanted /\ j = k)
  <2>1. DOMAIN round.live \subseteq ObjectKind
      BY <1>1 DEF TryOk
  <2> HIDE DEF meta, k, isWanted
  <2> QED  BY <2>1
<1>6. ASSUME NEW j \in DOMAIN live
      PROVE  /\ j \in ObjectKind /\ IsObj(live[j]) /\ live[j].uid <= uids /\ SameObj(live[j], obj[j])
             /\ clash \/ live[j] = NoObj \/ IsOurs(live[j], round.g.uid)
  <2>1. CASE isWanted /\ j = k
    <3>1. live[j] = meta
      <4> HIDE DEF live, meta, k, isWanted
      <4> QED  BY <1>5, <1>6, <2>1
    <3> HIDE DEF live
    <3> QED  BY <1>2, <1>3, <2>1, <3>1
  <2>2. CASE ~(isWanted /\ j = k)
    <3>1. j \in DOMAIN round.live /\ live[j] = round.live[j]
      <4> HIDE DEF live, meta, k, isWanted
      <4> QED  BY <1>5, <1>6, <2>2
    <3>2. /\ IsObj(round.live[j]) /\ round.live[j].uid <= uids /\ SameObj(round.live[j], obj[j]) /\ j \in ObjectKind
          /\ round.conflict \/ round.live[j] = NoObj \/ IsOurs(round.live[j], round.g.uid)
        BY <1>1, <3>1 DEF TryOk
    <3> HIDE DEF live
    <3> QED  BY <3>1, <3>2
  <2> QED  BY <2>1, <2>2
<1>7. clash \in BOOLEAN
    BY <1>1 DEF TryOk
<1>8. ASSUME NEW i \in 1 .. 4, i < round.next + 1, Kinds[i] \in Wanted(round.g.spec) PROVE Kinds[i] \in DOMAIN live
  <2>1. CASE i < round.next
    <3>1. Kinds[i] \in DOMAIN round.live
        BY <1>1, <1>8, <2>1 DEF TryOk
    <3> HIDE DEF live, k, isWanted, meta
    <3> QED  BY <1>5, <3>1
  <2>2. CASE i = round.next
    <3>1. isWanted /\ Kinds[i] = k
        BY <1>8, <2>2
    <3> HIDE DEF live, k, isWanted, meta
    <3> QED  BY <1>5, <3>1
  <2> QED  BY <1>1, <1>8, <2>1, <2>2
<1>9. TryOk(round', obj, uids)
  <2>1. /\ GateOk(round.g, uids) /\ Served(round.g) /\ GoodPorts(round.existing)
        /\ round.bound = BoundPorts(round.g, round.existing)
      BY <1>1 DEF TryOk
  <2>2. round.next + 1 \in 1 .. 5
      BY <1>1
  <2> HIDE DEF live, clash, k, isWanted, meta
  <2> QED  BY <1>4, <1>6, <1>7, <1>8, <2>1, <2>2 DEF TryOk
<1>10. RoundOk(round', obj, uids)
    BY <1>9 DEF RoundOk
<1>11. Clean' => RoundClean(round', obj, gate, provided')
  <2> SUFFICES ASSUME Clean' PROVE RoundClean(round', obj, gate, provided')
      OBVIOUS
  <2>1. Clean /\ TryClean(round, obj, gate)
      BY <1>1 DEF Clean, CaughtUp
  <2>2. meta = obj[k]
    <3>1. shown[k] = Visible(k, obj[k]) /\ IsObj(obj[k])
        BY <1>2, <2>1 DEF Clean, CaughtUp, ObjectsOk
    <3>2. (shown[k] = NoObj \/ shown[k] = obj[k]) /\ (k = "service" => shown[k] = obj[k])
        BY <3>1, VisibleIs
    <3> QED  BY <3>2
  <2>3. ASSUME NEW j \in DOMAIN live, IsOurs(live[j], gate.uid) PROVE obj[j] = live[j]
    <3>1. CASE isWanted /\ j = k
      <4> HIDE DEF live, k, isWanted, meta
      <4> QED  BY <1>5, <2>2, <2>3, <3>1
    <3>2. CASE ~(isWanted /\ j = k)
      <4>1. j \in DOMAIN round.live /\ live[j] = round.live[j]
        <5> HIDE DEF live, meta, k, isWanted
        <5> QED  BY <1>5, <2>3, <3>2
      <4> HIDE DEF live
      <4> QED  BY <2>1, <2>3, <4>1 DEF TryClean
    <3> QED  BY <3>1, <3>2
  <2>4. TryClean(round', obj, gate)
    <3> HIDE DEF live
    <3> QED  BY <1>4, <2>1, <2>3 DEF TryClean
  <2>5. round' # Rest
      BY <1>4 DEF Rest
  <2> QED  BY <1>4, <2>4, <2>5 DEF RoundClean
<1>12. Worldly' /\ RecordsOk(applied', obj, uids) /\ owed' \in BOOLEAN /\ retry' \in BOOLEAN /\ missed' \in BOOLEAN
    BY <1>1, SameWorld DEF ProvisionInv
<1> QED  BY <1>1, <1>4, <1>10, <1>11, <1>12, PassOnly

LEMMA PreflightFailsKeeps == ASSUME ProvisionInv, NEW refused \in BOOLEAN, PreflightFails(refused) PROVE ProvisionInv'
<1>1. /\ Fails(IF refused THEN "refused" ELSE "none", ~refused) /\ Use("fails")
      /\ UNCHANGED <<gate, obj, unseen, shown, applied, owed, missed, uids>>
    BY DEF PreflightFails
<1>2. Worldly' /\ RecordsOk(applied', obj, uids)
    BY <1>1, UseKeeps DEF ProvisionInv
<1>3. CASE refused
  <2>1. Fails("refused", FALSE)
      BY <1>1, <1>3
  <2> QED  BY <1>1, <1>2, <2>1, FailsKeeps
<1>4. CASE ~refused
  <2>1. Fails("none", TRUE)
      BY <1>1, <1>4
  <2> QED  BY <1>1, <1>2, <2>1, FailsKeeps
<1> QED  BY <1>3, <1>4

\* All or nothing.
LEMMA DecidedKeeps == ASSUME ProvisionInv, Decided PROVE ProvisionInv'
<1>1. /\ round.pc = "check" /\ round.next > 4
      /\ UNCHANGED <<means, gate, obj, unseen, shown, applied, owed, retry, missed, uids>>
    BY DEF Decided
<1>2. /\ TryOk(round, obj, uids) /\ round.g.uid \in DOMAIN applied /\ (Clean => TryClean(round, obj, gate))
    BY <1>1, Trying
<1>3. Worldly' /\ RecordsOk(applied', obj, uids) /\ owed' \in BOOLEAN /\ retry' \in BOOLEAN /\ missed' \in BOOLEAN
    BY <1>1, SameWorld DEF ProvisionInv
<1>4. CASE round.conflict
  <2>1. round' = Rest /\ provided'.problem = "conflict"
      BY <1>4 DEF Decided
  <2>2. RoundOk(round', obj, uids) /\ RoundClean(round', obj, gate, provided')
      BY <2>1 DEF RoundOk, RoundClean, Rest
  <2> QED  BY <1>1, <1>3, <2>1, <2>2, PassOnly
<1>5. CASE ~round.conflict
  <2>1. /\ round'.pc = "apply" /\ round'.g = round.g /\ round'.bound = round.bound /\ round'.next = 1
        /\ round'.existing = round.existing /\ round'.live = round.live /\ round'.conflict = round.conflict
        /\ round' = [pc |-> round'.pc, g |-> round'.g, bound |-> round'.bound, next |-> round'.next,
                     existing |-> round'.existing, live |-> round'.live, conflict |-> round'.conflict]
        /\ provided' = provided
    <3>1. round' = [round EXCEPT !.pc = "apply", !.next = 1] /\ provided' = provided
        BY <1>5 DEF Decided
    <3>2. round = [pc |-> round.pc, g |-> round.g, bound |-> round.bound, next |-> round.next,
                   existing |-> round.existing, live |-> round.live, conflict |-> round.conflict]
        BY <1>2 DEF TryOk
    <3> QED  BY <3>1, <3>2
  <2>2. TryOk(round', obj, uids)
    <3>1. round.next \in 1 .. 5 /\ \A i \in 1 .. 4 : i < round.next
        BY <1>1, <1>2 DEF TryOk
    <3>2. \A i \in 1 .. 4 : Kinds[i] \in Wanted(round.g.spec) => Kinds[i] \in DOMAIN round.live
        BY <1>2, <3>1 DEF TryOk
    <3>3. round'.next \in 1 .. 5
        BY <2>1
    <3> QED  BY <1>2, <1>5, <2>1, <3>2, <3>3 DEF TryOk
  <2>3. Clean' => RoundClean(round', obj, gate, provided')
    <3> SUFFICES ASSUME Clean' PROVE RoundClean(round', obj, gate, provided')
        OBVIOUS
    <3>1. TryClean(round, obj, gate)
        BY <1>1, <1>2 DEF Clean, CaughtUp
    <3>2. \A i \in 1 .. 4 : ~(i < round'.next)
        BY <2>1
    <3>3. TryClean(round', obj, gate)
        BY <2>1, <3>1, <3>2 DEF TryClean
    <3>4. round' # Rest
        BY <2>1 DEF Rest
    <3> QED  BY <2>1, <3>3, <3>4 DEF RoundClean
  <2>4. RoundOk(round', obj, uids)
      BY <2>2 DEF RoundOk
  <2> QED  BY <1>1, <1>2, <1>3, <2>1, <2>3, <2>4, PassOnly
<1> QED  BY <1>4, <1>5

\* The pass goes on to the next kind.
LEMMA OnwardOk ==
    ASSUME NEW ob, NEW n, TryOk(round, ob, n), round.pc = "apply", round.next <= 4, Onward
    PROVE  /\ TryOk(round', ob, n) /\ round'.pc = "apply" /\ round' # Rest
           /\ round'.g = round.g /\ round'.bound = round.bound /\ round'.live = round.live
           /\ round'.next = round.next + 1
<1>1. /\ round'.pc = round.pc /\ round'.g = round.g /\ round'.bound = round.bound /\ round'.next = round.next + 1
      /\ round'.existing = round.existing /\ round'.live = round.live /\ round'.conflict = round.conflict
      /\ round' = [pc |-> round'.pc, g |-> round'.g, bound |-> round'.bound, next |-> round'.next,
                   existing |-> round'.existing, live |-> round'.live, conflict |-> round'.conflict]
  <2>1. round' = [round EXCEPT !.next = round.next + 1]
      BY DEF Onward
  <2>2. round = [pc |-> round.pc, g |-> round.g, bound |-> round.bound, next |-> round.next,
                 existing |-> round.existing, live |-> round.live, conflict |-> round.conflict]
      BY DEF TryOk
  <2> QED  BY <2>1, <2>2
<1>2. round'.next \in 1 .. 5
    BY <1>1 DEF TryOk
<1>3. TryOk(round', ob, n)
    BY <1>1, <1>2 DEF TryOk
<1>4. round' # Rest
    BY <1>1 DEF Rest
<1> QED  BY <1>1, <1>3, <1>4

LEMMA OnwardClean ==
    ASSUME NEW ob, NEW n, TryOk(round, ob, n), round.pc = "apply", round.next <= 4, Onward,
           NEW g, NEW pr, TryClean(round, ob, g),
           Kinds[round.next] \in Wanted(g.spec) => AsWanted(ob, g, round.bound, Kinds[round.next])
    PROVE  RoundClean(round', ob, g, pr)
<1>1. /\ round'.pc = "apply" /\ round' # Rest /\ round'.g = round.g /\ round'.bound = round.bound
      /\ round'.live = round.live /\ round'.next = round.next + 1
    BY OnwardOk
<1>2. round.next \in 1 .. 5
    BY DEF TryOk
<1>3. \A i \in 1 .. 4 : i < round'.next => i < round.next \/ i = round.next
    BY <1>1, <1>2
<1>4. TryClean(round', ob, g)
    BY <1>1, <1>3 DEF TryClean
<1> QED  BY <1>1, <1>4 DEF RoundClean

\* A step of apply, at the kind it is at.
LEMMA Applying ==
    ASSUME ProvisionInv, NEW k, Step(k)
    PROVE  /\ TryOk(round, obj, uids) /\ round.g.uid \in DOMAIN applied /\ (Clean => TryClean(round, obj, gate))
           /\ round.pc = "apply" /\ round.next \in 1 .. 4 /\ round.next <= 4
           /\ k = Kinds[round.next] /\ k \in ObjectKind
           /\ round.g.uid \in Nat /\ round.g.uid # 0
           /\ k \in Wanted(round.g.spec) =>
                /\ k \in DOMAIN round.live /\ IsObj(round.live[k]) /\ SameObj(round.live[k], obj[k])
                /\ round.live[k] = NoObj \/ IsOurs(round.live[k], round.g.uid)
<1>1. round.pc = "apply" /\ round.next <= 4 /\ k = Kinds[round.next]
    BY DEF Step
<1>2. TryOk(round, obj, uids) /\ round.g.uid \in DOMAIN applied /\ (Clean => TryClean(round, obj, gate))
    BY <1>1, Trying
<1>3. round.next \in 1 .. 4
    BY <1>1, <1>2 DEF TryOk
<1>4. k \in ObjectKind
    BY <1>1, <1>3, KindsAre
<1>5. uids \in Nat
    BY ObjectsAre
<1>6. round.g.uid \in Nat /\ round.g.uid # 0
    BY <1>2, <1>5 DEF TryOk, GateOk
<1> QED  BY <1>1, <1>2, <1>3, <1>4, <1>6 DEF TryOk

LEMMA SkipKeeps == ASSUME ProvisionInv, NEW k \in ObjectKind, SkipApply(k) PROVE ProvisionInv'
<1>1. /\ Step(k) /\ Onward
      /\ UNCHANGED <<means, gate, obj, unseen, shown, applied, owed, retry, missed, provided, uids>>
      /\ k \in Wanted(round.g.spec) => Current(k, round.live[k], Render(k, round.g, round.bound))
    BY DEF SkipApply
<1>2. /\ TryOk(round, obj, uids) /\ round.g.uid \in DOMAIN applied /\ (Clean => TryClean(round, obj, gate))
      /\ round.pc = "apply" /\ round.next \in 1 .. 4 /\ round.next <= 4 /\ k = Kinds[round.next]
      /\ k \in Wanted(round.g.spec) =>
            /\ k \in DOMAIN round.live /\ IsObj(round.live[k])
            /\ round.live[k] = NoObj \/ IsOurs(round.live[k], round.g.uid)
    BY <1>1, Applying
<1>3. RoundOk(round', obj, uids) /\ round'.g = round.g
    BY <1>1, <1>2, OnwardOk DEF RoundOk
<1>4. Clean' => RoundClean(round', obj, gate, provided')
  <2> SUFFICES ASSUME Clean' PROVE RoundClean(round', obj, gate, provided')
      OBVIOUS
  <2>1. TryClean(round, obj, gate)
      BY <1>1, <1>2 DEF Clean, CaughtUp
  <2>2. ASSUME k \in Wanted(gate.spec) PROVE AsWanted(obj, gate, round.bound, k)
    <3> DEFINE body == Render(k, gate, round.bound)
    <3>1. round.g = gate
        BY <2>1 DEF TryClean
    <3>2. Current(k, round.live[k], body)
        BY <1>1, <2>2, <3>1
    <3>3. /\ round.live[k] # NoObj
          /\ applied[gate.uid][k] = [uid |-> round.live[k].uid, ver |-> round.live[k].ver, body |-> body]
        BY <3>1, <3>2 DEF Current
    <3>4. k \in DOMAIN round.live /\ IsOurs(round.live[k], gate.uid) /\ IsObj(round.live[k])
        BY <1>2, <2>2, <3>1, <3>3
    <3>5. obj[k] = round.live[k]
        BY <2>1, <3>4 DEF TryClean
    <3>6. RecordOk(applied[gate.uid][k], obj[k], uids)
        BY DEF ProvisionInv, RecordsOk
    <3>7. /\ applied[gate.uid][k].uid = obj[k].uid /\ applied[gate.uid][k].ver = obj[k].ver
          /\ applied[gate.uid][k].body = body
      <4> HIDE DEF body
      <4> QED  BY <3>3, <3>5
    <3>8. obj[k].uid # 0
        BY <3>3, <3>4, <3>5 DEF IsObj
    <3>9. obj[k].body = body
      <4> HIDE DEF body
      <4> QED  BY <3>6, <3>7, <3>8 DEF RecordOk
    <3> QED  BY <3>4, <3>5, <3>9 DEF AsWanted
  <2> QED  BY <1>1, <1>2, <2>1, <2>2, OnwardClean
<1>5. Worldly' /\ RecordsOk(applied', obj, uids) /\ owed' \in BOOLEAN /\ retry' \in BOOLEAN /\ missed' \in BOOLEAN
    BY <1>1, SameWorld DEF ProvisionInv
<1> QED  BY <1>1, <1>2, <1>3, <1>4, <1>5, PassOnly

\* The Service of a pass has the targets the pass allocated.
LEMMA RenderedService ==
    ASSUME ProvisionInv, NEW k \in ObjectKind, Step(k), NEW o, o.body = Render(k, round.g, round.bound), k = "service"
    PROVE  ServiceOk(o)
<1>1. TryOk(round, obj, uids)
    BY Applying
<1>2. GoodPorts(round.bound)
    BY <1>1, BoundGood DEF TryOk
<1>3. o.body = [ports |-> round.bound]
    BY DEF Render, RenderService
<1>4. o.body.ports = round.bound
    BY <1>3
<1>5. GoodPorts(o.body.ports)
    BY <1>2, <1>4, Zenon
<1> QED  BY <1>5 DEF ServiceOk

\* An apply that creates or writes the object.
LEMMA AppliedKeeps ==
    ASSUME ProvisionInv, NEW k \in ObjectKind, Step(k), k \in Wanted(round.g.spec), NEW o, IsObj(o), Changes(k, o),
           IsOurs(o, round.g.uid), o.body = Render(k, round.g, round.bound),
           uids' \in Nat, uids <= uids', o.uid <= uids',
           \/ o = obj[k] \/ o.uid > uids
           \/ o.uid = obj[k].uid /\ obj[k].owner <= o.owner /\ o.ver > obj[k].ver,
           NEW r, r = [uid |-> o.uid, ver |-> o.ver, body |-> o.body], Record(round.g.uid, k, r), Onward,
           UNCHANGED <<means, gate, shown, owed, missed, retry, provided>>
    PROVE  ProvisionInv'
<1>1. ObjectsOk(obj, shown, unseen, uids) /\ uids \in Nat
    BY ObjectsAre
<1>2. /\ TryOk(round, obj, uids) /\ round.g.uid \in DOMAIN applied
      /\ round.pc = "apply" /\ round.next \in 1 .. 4 /\ round.next <= 4 /\ k = Kinds[round.next]
    BY Applying
<1>3. k = "service" => ServiceOk(o)
    BY RenderedService
<1>4. /\ ObjectsOk(obj', shown', unseen', uids') /\ Moves(obj, obj', uids, uids')
      /\ Still(obj, obj', unseen, unseen') /\ obj'[k] = o
    BY <1>1, <1>3, ChangesMove
<1>5. \A j \in ObjectKind : IsObj(obj[j]) /\ IsObj(obj'[j])
    BY <1>1, <1>4 DEF ObjectsOk
<1>6. RecordsOk(applied', obj', uids') /\ DOMAIN applied' = DOMAIN applied
  <2>1. RecordsOk(applied, obj', uids')
      BY <1>4, <1>5, RecordsKept DEF ProvisionInv
  <2>2. RecordOk(r, obj'[k], uids')
      BY <1>4 DEF RecordOk, IsObj
  <2> QED  BY <2>1, <2>2, RecordsSet
<1>7. TryOk(round, obj', uids')
    BY <1>2, <1>4, <1>5, TryKept
<1>8. RoundOk(round', obj', uids') /\ round'.g = round.g
    BY <1>2, <1>7, OnwardOk DEF RoundOk
<1>9. Clean' => RoundClean(round', obj', gate', provided')
  <2> SUFFICES ASSUME Clean' PROVE RoundClean(round', obj', gate, provided)
      OBVIOUS
  <2>1. Clean /\ SameOurs(obj, obj')
      BY <1>1, <1>4, StillClean DEF Clean
  <2>2. RoundClean(round, obj, gate, provided) /\ RoundOk(round, obj, uids) /\ gate.uid \in Nat
      BY <2>1, ObjectsAre DEF ProvisionInv
  <2>3. RoundClean(round, obj', gate, provided)
      BY <2>1, <2>2, CleanKept
  <2>4. TryClean(round, obj', gate)
      BY <1>2, <2>3 DEF RoundClean
  <2>5. AsWanted(obj', gate, round.bound, k)
      BY <1>4, <2>4 DEF AsWanted, TryClean
  <2> QED  BY <1>2, <1>7, <2>4, <2>5, OnwardClean
<1>10. GateOk(gate', uids') /\ Worldly' /\ owed' \in BOOLEAN /\ retry' \in BOOLEAN /\ missed' \in BOOLEAN
       /\ gate'.uid \in DOMAIN applied
    BY <1>1, GateKept, SameWorld DEF ProvisionInv
<1> QED  BY <1>2, <1>4, <1>6, <1>8, <1>9, <1>10 DEF ProvisionInv

\* An apply that takes effect leaves the object the pass's, as rendered.
LEMMA LandsIs ==
    ASSUME ProvisionInv, OwnersOk, NEW k \in ObjectKind, Step(k), k \in Wanted(round.g.spec), Lands(k)
    PROVE  \E o : /\ IsObj(o) /\ Changes(k, o) /\ obj'[k] = o
                  /\ IsOurs(o, round.g.uid) /\ o.body = Render(k, round.g, round.bound)
                  /\ uids' \in Nat /\ uids <= uids' /\ o.uid <= uids'
                  /\ \/ o = obj[k] \/ o.uid > uids
                     \/ o.uid = obj[k].uid /\ obj[k].owner <= o.owner /\ o.ver > obj[k].ver
<1> DEFINE body == Render(k, round.g, round.bound)
<1>1. /\ TryOk(round, obj, uids) /\ round.g.uid \in Nat /\ round.g.uid # 0 /\ round # Rest
      /\ IsObj(round.live[k]) /\ SameObj(round.live[k], obj[k])
      /\ round.live[k] = NoObj \/ IsOurs(round.live[k], round.g.uid)
    BY Applying DEF Rest
<1>2. ObjectsOk(obj, shown, unseen, uids) /\ uids \in Nat /\ IsObj(obj[k]) /\ obj[k].uid <= uids
    BY ObjectsAre DEF ObjectsOk
<1>3. \A o : Changes(k, o) => obj'[k] = o
    BY <1>2 DEF Changes, ObjectsOk
<1>4. CASE obj[k] = NoObj /\ round.live[k] = NoObj /\ Create(k, round.g.uid, "none", body)
  <2> DEFINE o == [uid |-> uids', owner |-> round.g.uid, ours |-> round.g.uid # 0, claims |-> "none", ver |-> 1, body |-> body]
  <2>1. uids' = uids + 1 /\ Changes(k, o)
      BY <1>4 DEF Create
  <2>2. /\ IsObj(o) /\ o # NoObj /\ o.uid = uids' /\ o.owner = round.g.uid /\ o.body = body /\ o.ours
    <3>1. uids' \in Nat /\ uids' # 0
        BY <1>2, <2>1
    <3> HIDE DEF body
    <3> QED  BY <1>1, <3>1, NewIs
  <2> HIDE DEF o, body
  <2>3. IsOurs(o, round.g.uid)
      BY <2>2 DEF IsOurs
  <2> QED  BY <1>2, <1>3, <2>1, <2>2, <2>3 DEF body
<1>5. CASE /\ GivesWay(k)
           /\ Changes(k, Moved(obj[k], [obj[k] EXCEPT !.owner = round.g.uid, !.ours = TRUE, !.body = body,
                                            !.claims = IF obj[k].claims = "theirs" THEN @ ELSE "none"]))
           /\ UNCHANGED uids
  <2> DEFINE new == [obj[k] EXCEPT !.owner = round.g.uid, !.ours = TRUE, !.body = body,
                                   !.claims = IF obj[k].claims = "theirs" THEN @ ELSE "none"]
             o == Moved(obj[k], new)
  <2>1. obj[k] # NoObj /\ obj[k].claims # "theirs"
    <3>1. CASE round.live[k] # NoObj
      <4>1. obj[k].uid = round.live[k].uid /\ obj[k] # NoObj
          BY <1>5, <3>1 DEF GivesWay
      <4>2. round.live[k].uid # 0 /\ round.live[k].owner = round.g.uid
          BY <1>1, <3>1 DEF IsObj, IsOurs
      <4>3. round.g.uid <= obj[k].owner
          BY <1>1, <4>1, <4>2 DEF SameObj
      <4>4. obj[k].owner # 0
          BY <1>1, <1>2, <4>3 DEF IsObj
      <4> QED  BY <1>2, <4>1, <4>4 DEF IsObj
    <3>2. CASE round.live[k] = NoObj
        BY <1>5, <3>2 DEF GivesWay
    <3> QED  BY <3>1, <3>2
  <2>2. /\ new.uid = obj[k].uid /\ new.owner = round.g.uid /\ new.ver = obj[k].ver /\ new.body = body
        /\ IsObj(new)
    <3> HIDE DEF body
    <3>1. obj[k] = [uid |-> obj[k].uid, owner |-> obj[k].owner, ours |-> obj[k].ours, claims |-> obj[k].claims,
                    ver |-> obj[k].ver, body |-> obj[k].body]
        BY <1>2 DEF IsObj
    <3> DEFINE yes == TRUE
    <3>2. yes \in BOOLEAN /\ yes
        OBVIOUS
    <3>3. new = [obj[k] EXCEPT !.owner = round.g.uid, !.ours = yes, !.body = body, !.claims = "none"]
        BY <2>1
    <3> HIDE DEF yes, new
    <3>4. new = [uid |-> obj[k].uid, owner |-> round.g.uid, ours |-> yes, claims |-> "none", ver |-> obj[k].ver,
                 body |-> body]
        BY ONLY <3>1, <3>3
    <3>5. /\ new.uid = obj[k].uid /\ new.owner = round.g.uid /\ new.ours = yes /\ new.claims = "none"
          /\ new.ver = obj[k].ver /\ new.body = body
          /\ new = [uid |-> new.uid, owner |-> new.owner, ours |-> new.ours, claims |-> new.claims, ver |-> new.ver,
                    body |-> new.body]
        BY ONLY <3>4
    <3>6. obj[k].ver \in Nat /\ obj[k].uid \in Nat /\ obj[k].uid # 0
        BY <1>2, <2>1 DEF IsObj
    <3>7. IsObj(new)
        BY <1>1, <3>2, <3>5, <3>6 DEF IsObj
    <3> QED  BY <3>5, <3>7
  <2>3. obj[k].owner <= round.g.uid
      BY <1>1 DEF OwnersOk
  <2>4. /\ IsObj(o) /\ o # NoObj /\ o.body = body /\ o.uid = obj[k].uid /\ o.owner = round.g.uid /\ o.ours
        /\ o = obj[k] \/ o.ver > obj[k].ver
    <3> HIDE DEF body, new
    <3> QED  BY <1>1, <1>2, <2>1, <2>2, MovedIs
  <2>5. Changes(k, o)
      BY <1>5
  <2> HIDE DEF o, body
  <2>6. IsOurs(o, round.g.uid)
      BY <2>4 DEF IsOurs
  <2> QED  BY <1>2, <1>3, <1>5, <2>3, <2>4, <2>5, <2>6 DEF body
<1> QED  BY <1>4, <1>5 DEF Lands

LEMMA ApplyObjectKeeps ==
    ASSUME ProvisionInv, OwnersOk, NEW k \in ObjectKind, ApplyObject(k) PROVE ProvisionInv'
<1>1. Step(k) /\ k \in Wanted(round.g.spec) /\ UNCHANGED <<means, gate, shown, owed, missed>>
    BY DEF ApplyObject
<1>2. CASE /\ Lands(k) /\ Onward /\ UNCHANGED <<retry, provided>>
           /\ Record(round.g.uid, k, [uid |-> obj'[k].uid, ver |-> obj'[k].ver, body |-> Render(k, round.g, round.bound)])
  <2>1. PICK o : /\ IsObj(o) /\ Changes(k, o) /\ obj'[k] = o
                 /\ IsOurs(o, round.g.uid) /\ o.body = Render(k, round.g, round.bound)
                 /\ uids' \in Nat /\ uids <= uids' /\ o.uid <= uids'
                 /\ \/ o = obj[k] \/ o.uid > uids
                    \/ o.uid = obj[k].uid /\ obj[k].owner <= o.owner /\ o.ver > obj[k].ver
      BY <1>1, <1>2, LandsIs
  <2> DEFINE x == [uid |-> o.uid, ver |-> o.ver, body |-> o.body]
  <2>2. Record(round.g.uid, k, x) /\ x = [uid |-> o.uid, ver |-> o.ver, body |-> o.body]
      BY <1>2, <2>1
  <2> HIDE DEF x
  <2> QED  BY <1>1, <1>2, <2>1, <2>2, AppliedKeeps
<1>3. CASE Record(round.g.uid, k, NoRecord) /\ Fails("none", TRUE) /\ UNCHANGED <<obj, unseen, uids>>
  <2>1. RecordsOk(applied', obj, uids) /\ DOMAIN applied' = DOMAIN applied
      BY <1>3, ObjectsAre, NoRecordOk, RecordsSet DEF ProvisionInv
  <2> QED  BY <1>1, <1>3, <2>1, SameWorld, FailsKeeps
<1> QED  BY <1>2, <1>3 DEF ApplyObject

\* A call whose answer is lost: it took effect, and the pass ends for a retry.
LEMMA LostKeeps ==
    ASSUME ProvisionInv, NEW k \in ObjectKind, NEW o, IsObj(o), Changes(k, o), k = "service" => ServiceOk(o),
           uids' \in Nat, uids <= uids', o.uid <= uids',
           \/ o = obj[k] \/ o.uid = 0 \/ o.uid > uids
           \/ o.uid = obj[k].uid /\ obj[k].owner <= o.owner /\ o.ver > obj[k].ver,
           Fails("none", TRUE), Worldly', UNCHANGED <<gate, shown, owed, missed>>,
           RecordsOk(applied', obj, uids), DOMAIN applied' = DOMAIN applied
    PROVE  ProvisionInv'
<1>1. ObjectsOk(obj, shown, unseen, uids) /\ uids \in Nat
    BY ObjectsAre
<1>2. ObjectsOk(obj', shown', unseen', uids') /\ Moves(obj, obj', uids, uids')
    BY <1>1, ChangesMove
<1>3. \A j \in ObjectKind : IsObj(obj[j]) /\ IsObj(obj'[j])
    BY <1>1, <1>2 DEF ObjectsOk
<1>4. RecordsOk(applied', obj', uids')
    BY <1>2, <1>3, RecordsKept
<1>5. round' = Rest /\ retry' = TRUE
    BY DEF Fails
<1>6. RoundOk(round', obj', uids') /\ ~Clean'
    BY <1>5 DEF RoundOk, Clean
<1>7. GateOk(gate', uids') /\ owed' \in BOOLEAN /\ missed' \in BOOLEAN /\ gate'.uid \in DOMAIN applied'
    BY <1>1, GateKept DEF ProvisionInv
<1> QED  BY <1>2, <1>4, <1>5, <1>6, <1>7 DEF ProvisionInv

LEMMA ApplyFailsKeeps ==
    ASSUME ProvisionInv, OwnersOk, NEW k \in ObjectKind, NEW refused \in BOOLEAN, ApplyFails(k, refused)
    PROVE  ProvisionInv'
<1>1. /\ Fails(IF refused THEN "refused" ELSE "none", ~refused) /\ Use("fails")
      /\ Record(round.g.uid, k, NoRecord) /\ UNCHANGED <<gate, shown, owed, missed>>
      /\ Step(k) /\ k \in Wanted(round.g.spec)
      /\ UNCHANGED <<obj, unseen, uids>> \/ (~refused /\ Lands(k))
    BY DEF ApplyFails
<1>2. Worldly' /\ RecordsOk(applied', obj, uids) /\ DOMAIN applied' = DOMAIN applied
  <2>1. uids \in Nat /\ RecordsOk(applied, obj, uids)
      BY ObjectsAre DEF ProvisionInv
  <2>2. RecordsOk(applied', obj, uids) /\ DOMAIN applied' = DOMAIN applied
      BY <1>1, <2>1, NoRecordOk, RecordsSet
  <2> QED  BY <1>1, <2>2, UseKeeps DEF ProvisionInv
<1>3. CASE refused
  <2>1. Fails("refused", FALSE) /\ UNCHANGED <<obj, unseen, uids>>
      BY <1>1, <1>3
  <2> QED  BY <1>1, <1>2, <2>1, FailsKeeps
<1>4. CASE ~refused /\ UNCHANGED <<obj, unseen, uids>>
  <2>1. Fails("none", TRUE)
      BY <1>1, <1>4
  <2> QED  BY <1>1, <1>2, <1>4, <2>1, FailsKeeps
<1>5. CASE ~refused /\ Lands(k)
  <2>1. Fails("none", TRUE)
      BY <1>1, <1>5
  <2>2. PICK o : /\ IsObj(o) /\ Changes(k, o) /\ obj'[k] = o
                 /\ IsOurs(o, round.g.uid) /\ o.body = Render(k, round.g, round.bound)
                 /\ uids' \in Nat /\ uids <= uids' /\ o.uid <= uids'
                 /\ \/ o = obj[k] \/ o.uid > uids
                    \/ o.uid = obj[k].uid /\ obj[k].owner <= o.owner /\ o.ver > obj[k].ver
      BY <1>1, <1>5, LandsIs
  <2>3. k = "service" => ServiceOk(o)
      BY <1>1, <2>2, RenderedService
  <2> QED  BY <1>1, <1>2, <2>1, <2>2, <2>3, LostKeeps
<1> QED  BY <1>1, <1>3, <1>4, <1>5

LEMMA AppliedAllKeeps == ASSUME ProvisionInv, AppliedAll PROVE ProvisionInv'
<1> DEFINE result == [problem |-> "none", bound |-> round.bound]
<1>1. /\ round.pc = "apply" /\ round.next > 4
      /\ round' = Deleting(round.g, Wanted(round.g.spec), result)
      /\ UNCHANGED <<means, gate, obj, unseen, shown, applied, owed, retry, missed, provided, uids>>
    BY DEF AppliedAll
<1>2. TryOk(round, obj, uids) /\ round.g.uid \in DOMAIN applied /\ (Clean => TryClean(round, obj, gate))
    BY <1>1, Trying
<1>3. ObjectsOk(obj, shown, unseen, uids) /\ GateOk(round.g, uids) /\ Served(round.g)
    BY <1>2, ObjectsAre DEF TryOk
<1>4. /\ DelOk(round', obj, uids) /\ round' # Rest /\ round'.g = round.g /\ round'.result = result
      /\ round'.pc = "delete"
      /\ CaughtUp => \A k \in ObjectKind : IsOurs(obj[k], round.g.uid) /\ k \notin Wanted(round.g.spec)
                                           => k \in DOMAIN round'.todo /\ round'.todo[k] = obj[k].uid
  <2> HIDE DEF result
  <2> QED  BY <1>1, <1>3, DeletingOk
<1>5. RoundOk(round', obj, uids)
    BY <1>4 DEF RoundOk
<1>6. Clean' => RoundClean(round', obj, gate, provided')
  <2> SUFFICES ASSUME Clean' PROVE RoundClean(round', obj, gate, provided')
      OBVIOUS
  <2>1. TryClean(round, obj, gate) /\ CaughtUp
      BY <1>1, <1>2 DEF Clean, CaughtUp
  <2>2. round.g = gate
      BY <2>1 DEF TryClean
  <2>3. ASSUME NEW k \in Wanted(gate.spec) PROVE AsWanted(obj, gate, round.bound, k)
    <3>1. k \in ObjectKind
        BY WantedKinds
    <3>2. PICK i \in 1 .. 4 : k = Kinds[i]
        BY <3>1, KindsAre
    <3>3. i < round.next
        BY <1>1, <1>2 DEF TryOk
    <3> QED  BY <1>1, <2>1, <3>2, <3>3 DEF TryClean
  <2>4. round'.result.problem = "none" /\ round'.result.bound = round.bound
      BY <1>4
  <2>5. DelClean(round', obj, gate)
    <3> HIDE DEF result
    <3> QED  BY <1>3, <1>4, <2>1, <2>2, <2>3, <2>4 DEF DelClean
  <2> QED  BY <1>4, <2>5 DEF RoundClean
<1>7. Worldly' /\ RecordsOk(applied', obj, uids) /\ owed' \in BOOLEAN /\ retry' \in BOOLEAN /\ missed' \in BOOLEAN
    BY <1>1, SameWorld DEF ProvisionInv
<1> QED  BY <1>1, <1>2, <1>4, <1>5, <1>6, <1>7, PassOnly

\* What holds in a pass that deletes.
LEMMA DeletingNow ==
    ASSUME ProvisionInv, round.pc = "delete"
    PROVE  /\ DelOk(round, obj, uids) /\ round # Rest /\ round.g.uid \in DOMAIN applied
           /\ Clean => DelClean(round, obj, gate)
<1>1. round # Rest /\ round.pc \notin {"check", "apply"}
    BY DEF Rest
<1> QED  BY <1>1 DEF ProvisionInv, RoundOk, TryOk, RoundClean

LEMMA DeleteNextKeeps == ASSUME ProvisionInv, NEW k \in ObjectKind, DeleteNext(k) PROVE ProvisionInv'
<1> DEFINE o == IF obj[k].uid = round.todo[k] THEN NoObj ELSE obj[k]
           todo == [j \in DOMAIN round.todo \ {k} |-> round.todo[j]]
<1>1. /\ round.pc = "delete" /\ k \in DOMAIN round.todo /\ Changes(k, o) /\ Record(round.g.uid, k, NoRecord)
      /\ round' = [round EXCEPT !.todo = todo]
      /\ UNCHANGED <<means, gate, shown, owed, retry, missed, provided, uids>>
    BY DEF DeleteNext, Deletes
<1>2. DelOk(round, obj, uids) /\ round # Rest /\ round.g.uid \in DOMAIN applied
    BY <1>1, DeletingNow
<1>3. ObjectsOk(obj, shown, unseen, uids) /\ uids \in Nat /\ IsObj(obj[k]) /\ obj[k].uid <= uids
    BY ObjectsAre DEF ObjectsOk
<1>4. IsObj(o) /\ (o = obj[k] \/ o.uid = 0) /\ o.uid <= uids /\ (k = "service" => ServiceOk(o))
    BY <1>3, NothingIs DEF ObjectsOk, ServiceOk
<1>5. /\ ObjectsOk(obj', shown', unseen', uids') /\ Moves(obj, obj', uids, uids')
      /\ Still(obj, obj', unseen, unseen') /\ obj'[k] = o /\ \A j \in ObjectKind : j # k => obj'[j] = obj[j]
  <2> HIDE DEF o
  <2> QED  BY <1>1, <1>3, <1>4, ChangesMove
<1>6. \A j \in ObjectKind : IsObj(obj[j]) /\ IsObj(obj'[j])
    BY <1>3, <1>5 DEF ObjectsOk
<1>7. RecordsOk(applied', obj', uids') /\ DOMAIN applied' = DOMAIN applied
  <2>1. RecordsOk(applied, obj', uids')
      BY <1>5, <1>6, RecordsKept DEF ProvisionInv
  <2>2. RecordOk(NoRecord, obj'[k], uids')
      BY <1>1, <1>3, NoRecordOk
  <2> QED  BY <1>1, <2>1, <2>2, RecordsSet
<1>8. DelOk(round, obj', uids')
    BY <1>2, <1>5, <1>6, DelKept
<1>9. /\ round'.pc = "delete" /\ round'.g = round.g /\ round'.todo = todo /\ round'.result = round.result
      /\ round' = [pc |-> round'.pc, g |-> round'.g, todo |-> round'.todo, result |-> round'.result]
  <2>1. round = [pc |-> round.pc, g |-> round.g, todo |-> round.todo, result |-> round.result]
      BY <1>2 DEF DelOk
  <2> HIDE DEF todo
  <2> QED  BY <1>1, <2>1
<1>10. DOMAIN todo = DOMAIN round.todo \ {k} /\ \A j \in DOMAIN todo : todo[j] = round.todo[j]
    OBVIOUS
<1>11. DelOk(round', obj', uids')
  <2> HIDE DEF todo
  <2> QED  BY <1>8, <1>9, <1>10 DEF DelOk
<1>12. RoundOk(round', obj', uids') /\ round' # Rest
    BY <1>9, <1>11 DEF RoundOk, Rest
<1>13. Clean' => RoundClean(round', obj', gate', provided')
  <2> SUFFICES ASSUME Clean' PROVE RoundClean(round', obj', gate, provided)
      BY <1>1
  <2>1. Clean /\ SameOurs(obj, obj')
      BY <1>1, <1>3, <1>5, StillClean DEF Clean
  <2>2. RoundClean(round, obj, gate, provided) /\ RoundOk(round, obj, uids) /\ gate.uid \in Nat
      BY <2>1, ObjectsAre DEF ProvisionInv
  <2>3. RoundClean(round, obj', gate, provided)
      BY <2>1, <2>2, CleanKept
  <2>4. DelClean(round, obj', gate) /\ round.g = gate
      BY <1>1, <2>3 DEF RoundClean, DelClean
  <2>5. ~IsOurs(obj'[k], gate.uid) \/ (Served(gate) /\ k \in Wanted(gate.spec))
    <3> SUFFICES ASSUME IsOurs(obj'[k], gate.uid), ~(Served(gate) /\ k \in Wanted(gate.spec)) PROVE FALSE
        OBVIOUS
    <3>1. round.todo[k] = obj'[k].uid
        BY <2>4 DEF DelClean
    <3>2. obj'[k] = obj[k]
        BY <2>1, <2>2 DEF SameOurs
    <3>3. obj'[k] = NoObj
        BY <1>5, <3>1, <3>2
    <3> QED  BY <3>3 DEF IsOurs
  <2>6. DelClean(round', obj', gate)
    <3> HIDE DEF todo
    <3> QED  BY <1>9, <1>10, <2>4, <2>5 DEF DelClean
  <2> QED  BY <1>9, <1>12, <2>6 DEF RoundClean
<1>14. GateOk(gate', uids') /\ Worldly' /\ owed' \in BOOLEAN /\ retry' \in BOOLEAN /\ missed' \in BOOLEAN
       /\ gate'.uid \in DOMAIN applied
    BY <1>1, SameWorld DEF ProvisionInv
<1> HIDE DEF o, todo
<1> QED  BY <1>2, <1>5, <1>7, <1>9, <1>12, <1>13, <1>14 DEF ProvisionInv

LEMMA DeleteFailsKeeps ==
    ASSUME ProvisionInv, NEW k \in ObjectKind, NEW refused \in BOOLEAN, DeleteFails(k, refused) PROVE ProvisionInv'
<1>1. /\ Fails(IF refused /\ round.g.ours THEN "refused" ELSE "none", ~(refused /\ round.g.ours)) /\ Use("fails")
      /\ UNCHANGED <<gate, shown, applied, owed, missed, uids>>
      /\ UNCHANGED <<obj, unseen>> \/ (~refused /\ Deletes(k))
    BY DEF DeleteFails
<1>2. Worldly' /\ RecordsOk(applied', obj, uids)
    BY <1>1, UseKeeps DEF ProvisionInv
<1>3. CASE refused /\ round.g.ours
  <2>1. Fails("refused", FALSE) /\ UNCHANGED <<obj, unseen>>
      BY <1>1, <1>3
  <2> QED  BY <1>1, <1>2, <2>1, FailsKeeps
<1>4. CASE ~(refused /\ round.g.ours) /\ UNCHANGED <<obj, unseen>>
  <2>1. Fails("none", TRUE)
      BY <1>1, <1>4
  <2> QED  BY <1>1, <1>2, <1>4, <2>1, FailsKeeps
<1>5. CASE ~refused /\ Deletes(k)
  <2> DEFINE o == IF obj[k].uid = round.todo[k] THEN NoObj ELSE obj[k]
  <2>1. Fails("none", TRUE) /\ Changes(k, o)
      BY <1>1, <1>5 DEF Deletes
  <2>2. ObjectsOk(obj, shown, unseen, uids) /\ uids \in Nat /\ IsObj(obj[k]) /\ obj[k].uid <= uids
      BY ObjectsAre DEF ObjectsOk
  <2>3. IsObj(o) /\ (o = obj[k] \/ o.uid = 0) /\ o.uid <= uids /\ (k = "service" => ServiceOk(o))
      BY <2>2, NothingIs DEF ObjectsOk, ServiceOk
  <2> HIDE DEF o
  <2>4. /\ uids' \in Nat /\ uids <= uids' /\ o.uid <= uids' /\ DOMAIN applied' = DOMAIN applied
        /\ UNCHANGED <<gate, shown, owed, missed>>
      BY <1>1, <2>2, <2>3
  <2>5. o = obj[k] \/ o.uid = 0
      BY <2>3
  <2>6. IsObj(o) /\ (k = "service" => ServiceOk(o)) /\ Changes(k, o) /\ Fails("none", TRUE)
      BY <2>1, <2>3
  <2> QED  BY <1>2, <2>4, <2>5, <2>6, LostKeeps
<1> QED  BY <1>1, <1>3, <1>4, <1>5

LEMMA DeletedAllKeeps == ASSUME ProvisionInv, DeletedAll PROVE ProvisionInv'
<1>1. /\ round.pc = "delete" /\ DOMAIN round.todo = {} /\ round' = Rest /\ provided' = round.result
      /\ UNCHANGED <<means, gate, obj, unseen, shown, applied, owed, retry, missed, uids>>
    BY DEF DeletedAll
<1>2. Clean => DelClean(round, obj, gate)
    BY <1>1, DeletingNow
<1>3. Clean' => RoundClean(round', obj, gate, provided')
  <2> SUFFICES ASSUME Clean' PROVE RoundClean(round', obj, gate, provided')
      OBVIOUS
  <2>1. DelClean(round, obj, gate)
      BY <1>1, <1>2 DEF Clean, CaughtUp
  <2>2. Fulfilled(obj, gate, provided'.bound)
      BY <1>1, <2>1 DEF DelClean, Fulfilled
  <2> QED  BY <1>1, <2>2 DEF RoundClean, Rest
<1>4. RoundOk(round', obj, uids)
    BY <1>1 DEF RoundOk
<1>5. Worldly' /\ RecordsOk(applied', obj, uids) /\ owed' \in BOOLEAN /\ retry' \in BOOLEAN /\ missed' \in BOOLEAN
    BY <1>1, SameWorld DEF ProvisionInv
<1> QED  BY <1>1, <1>3, <1>4, <1>5, PassOnly

LEMMA ProvisionInit == ProvInit => ProvisionInv
<1> SUFFICES ASSUME ProvInit PROVE ProvisionInv
    OBVIOUS
<1>1. Worldly
    BY WorldAssumption, KindsAre DEF ProvInit, Worldly, SpecOk
<1>2. uids = 1 /\ round = Rest /\ owed = TRUE /\ retry = FALSE /\ missed = FALSE
    BY DEF ProvInit
<1>3. GateOk(gate, uids) /\ gate.uid = 1
    BY <1>1, <1>2 DEF ProvInit, GateOk, Worldly
<1>4. ObjectsOk(obj, shown, unseen, uids)
  <2>1. /\ DOMAIN obj = ObjectKind /\ DOMAIN shown = ObjectKind /\ DOMAIN unseen = ObjectKind
        /\ \A k \in ObjectKind : obj[k] = NoObj /\ shown[k] = NoObj
      BY DEF ProvInit
  <2>2. \A k : Visible(k, NoObj) = NoObj
      BY NothingIs, VisibleIs
  <2>3. SameObj(NoObj, NoObj) /\ ServiceOk(NoObj)
      BY NothingIs DEF SameObj, ServiceOk
  <2>4. "service" \in ObjectKind
      BY KindsAre
  <2> QED  BY <1>2, <2>1, <2>2, <2>3, <2>4, NothingIs DEF ObjectsOk
<1>5. RecordsOk(applied, obj, uids) /\ gate.uid \in DOMAIN applied
  <2>1. \A o : RecordOk(NoRecord, o, uids)
      BY <1>2, NoRecordOk
  <2> QED  BY <1>3, <2>1 DEF ProvInit, RecordsOk
<1>6. RoundOk(round, obj, uids) /\ ~Clean
    BY <1>2 DEF RoundOk, Clean
<1> QED  BY <1>1, <1>2, <1>3, <1>4, <1>5, <1>6 DEF ProvisionInv

LEMMA ProvisionNext == ProvisionInv /\ OwnersOk /\ [ProvNext]_provVars => ProvisionInv'
<1> SUFFICES ASSUME ProvisionInv, OwnersOk, [ProvNext]_provVars PROVE ProvisionInv'
    OBVIOUS
<1>1. CASE UNCHANGED provVars
    BY <1>1 DEF provVars, ProvisionInv, Worldly, Clean, CaughtUp
<1>2. ASSUME NEW k \in ObjectKind, SeeEvent(k) PROVE ProvisionInv'
    BY <1>2, SeeKeeps
<1>3. ASSUME NEW k \in means.slow, Relist(k) \/ Tamper(k) \/ RemoveObject(k) PROVE ProvisionInv'
  <2>1. k \in ObjectKind
      BY <1>3 DEF ProvisionInv, Worldly
  <2> QED  BY <1>3, <2>1, RelistKeeps, TamperKeeps, RemovalKeeps
<1>11. ASSUME NEW k \in means.slow, NEW claims \in {"none", "theirs"}, Intrude(k, claims) PROVE ProvisionInv'
  <2>1. k \in ObjectKind
      BY <1>11 DEF ProvisionInv, Worldly
  <2> QED  BY <1>11, <2>1, IntrudeKeeps
<1>4. ASSUME NEW k \in ObjectKind, CollectGarbage(k) PROVE ProvisionInv'
    BY <1>4, RemovalKeeps
<1>5. ASSUME NEW k \in ObjectKind, SkipApply(k) \/ ApplyObject(k) \/ DeleteNext(k) PROVE ProvisionInv'
    BY <1>5, SkipKeeps, ApplyObjectKeeps, DeleteNextKeeps
<1>6. ASSUME NEW k \in ObjectKind, NEW refused \in BOOLEAN, ApplyFails(k, refused) \/ DeleteFails(k, refused)
      PROVE  ProvisionInv'
    BY <1>6, ApplyFailsKeeps, DeleteFailsKeeps
<1>7. ASSUME NEW refused \in BOOLEAN, PreflightFails(refused) PROVE ProvisionInv'
    BY <1>7, PreflightFailsKeeps
<1>8. CASE (\E spec \in means.specs : EditSpec(spec)) \/ MoveClass \/ DeleteInForeground \/ RetryNow
    BY <1>8, GatewayKeeps
<1>9. CASE Recreate \/ RestartController
    BY <1>9, RecreateKeeps, RestartKeeps
<1>10. CASE BeginPass \/ Preflight \/ Decided \/ AppliedAll \/ DeletedAll
    BY <1>10, BeginKeeps, PreflightKeeps, DecidedKeeps, AppliedAllKeeps, DeletedAllKeeps
<1> QED  BY <1>1, <1>2, <1>3, <1>4, <1>5, <1>6, <1>7, <1>8, <1>9, <1>10, <1>11 DEF ProvNext

LEMMA OwnersBegin == ProvInit => OwnersOk
<1> SUFFICES ASSUME ProvInit PROVE OwnersOk
    OBVIOUS
<1>1. round = Rest /\ gate.uid = 1 /\ \A k \in ObjectKind : obj[k] = NoObj
    BY DEF ProvInit
<1> QED  BY <1>1, NothingIs DEF OwnersOk

\* A change of one object, by others or by the pass for its Gateway.
LEMMA OwnerMoves ==
    ASSUME ProvisionInv, OwnersOk, NEW k \in ObjectKind, NEW o, Changes(k, o),
           o.owner = 0 \/ o.owner = obj[k].owner \/ (round # Rest /\ o.owner = round.g.uid),
           round' = Rest \/ (round # Rest /\ round' # Rest /\ round'.g = round.g) \/ (round = Rest /\ round' = round),
           gate' = gate
    PROVE  OwnersOk'
<1>1. /\ gate.uid \in Nat /\ \A j \in ObjectKind : obj[j].owner \in Nat
      /\ obj'[k] = o /\ \A j \in ObjectKind : j # k => obj'[j] = obj[j]
    BY ObjectsAre DEF IsObj, ObjectsOk, Changes
<1>2. round # Rest => round.g.uid \in Nat
    BY ObjectsAre DEF ProvisionInv, RoundOk, TryOk, DelOk, GateOk
<1>3. \A j \in ObjectKind : obj'[j].owner <= gate.uid
    BY <1>1, <1>2 DEF OwnersOk
<1>4. round # Rest => \A j \in ObjectKind : obj'[j].owner <= round.g.uid
    BY <1>1, <1>2 DEF OwnersOk
<1> QED  BY <1>3, <1>4 DEF OwnersOk

LEMMA OwnersNext == ProvisionInv /\ OwnersOk /\ [ProvNext]_provVars => OwnersOk'
<1> SUFFICES ASSUME ProvisionInv, OwnersOk, [ProvNext]_provVars PROVE OwnersOk'
    OBVIOUS
<1>0. /\ gate.uid \in Nat /\ uids \in Nat /\ gate.uid <= uids /\ means.slow \subseteq ObjectKind
      /\ \A k \in ObjectKind : obj[k].owner \in Nat
    BY ObjectsAre DEF IsObj, ProvisionInv, Worldly
<1>1. ASSUME UNCHANGED <<gate, obj, round>> PROVE OwnersOk'
    BY <1>1 DEF OwnersOk
<1>2. ASSUME NEW k \in ObjectKind, SeeEvent(k) \/ SkipApply(k) PROVE OwnersOk'
  <2>1. CASE SeeEvent(k)
      BY <1>1, <2>1 DEF SeeEvent
  <2>2. CASE SkipApply(k)
    <3>1. UNCHANGED <<gate, obj>> /\ round # Rest /\ round' # Rest /\ round'.g = round.g
      <4>1. Step(k) /\ Onward /\ UNCHANGED <<gate, obj>>
          BY <2>2 DEF SkipApply
      <4>2. TryOk(round, obj, uids) /\ round.pc = "apply" /\ round.next <= 4
          BY <4>1, Applying
      <4> QED  BY <4>1, <4>2, OnwardOk DEF Rest
    <3> QED  BY <3>1 DEF OwnersOk
  <2> QED  BY <1>2, <2>1, <2>2
<1>3. ASSUME NEW k \in ObjectKind, Relist(k) \/ Tamper(k) \/ RemoveObject(k) \/ CollectGarbage(k) PROVE OwnersOk'
  <2>1. CASE Relist(k)
      BY <1>1, <2>1 DEF Relist
  <2>2. CASE Tamper(k)
    <3> DEFINE new == [obj[k] EXCEPT !.claims = "edited", !.body = IF k = "service" THEN [ports |-> NothingBound] ELSE [plain |-> "edited"]]
               o == Moved(obj[k], new)
    <3>1. Changes(k, o) /\ UNCHANGED <<gate, round>>
        BY <2>2 DEF Tamper
    <3>2. IsObj(obj[k])
        BY ObjectsAre
    <3>3. o.owner = obj[k].owner
        BY <3>2 DEF Moved, IsObj
    <3> HIDE DEF o
    <3> QED  BY <3>1, <3>3, OwnerMoves
  <2>3. CASE RemoveObject(k) \/ CollectGarbage(k)
    <3>1. Changes(k, NoObj) /\ UNCHANGED <<gate, round>>
        BY <2>3 DEF RemoveObject, CollectGarbage
    <3> QED  BY <3>1, NothingIs, OwnerMoves
  <2> QED  BY <1>3, <2>1, <2>2, <2>3
<1>4. ASSUME NEW k \in ObjectKind, NEW claims, Intrude(k, claims) PROVE OwnersOk'
  <2> DEFINE o == [uid |-> uids', owner |-> 0, ours |-> 0 # 0, claims |-> claims, ver |-> 1,
                   body |-> IF k = "service" THEN [ports |-> NothingBound] ELSE [plain |-> "theirs"]]
  <2>1. Changes(k, o) /\ UNCHANGED <<gate, round>>
      BY <1>4 DEF Intrude, Create
  <2>2. o.owner = 0
      OBVIOUS
  <2> HIDE DEF o
  <2> QED  BY <2>1, <2>2, OwnerMoves
<1>5. ASSUME NEW k \in ObjectKind, Step(k), k \in Wanted(round.g.spec), Lands(k), UNCHANGED gate,
             round' = Rest \/ Onward PROVE OwnersOk'
  <2>1. PICK o : Changes(k, o) /\ IsOurs(o, round.g.uid)
      BY <1>5, LandsIs
  <2>2. TryOk(round, obj, uids) /\ round.pc = "apply" /\ round.next <= 4
      BY <1>5, Applying
  <2>3. round # Rest /\ (round' = Rest \/ (round' # Rest /\ round'.g = round.g))
      BY <1>5, <2>2, OnwardOk DEF Rest
  <2> QED  BY <1>5, <2>1, <2>3, OwnerMoves DEF IsOurs
<1>6. ASSUME UNCHANGED <<gate, obj>>, round' = Rest PROVE OwnersOk'
    BY <1>6 DEF OwnersOk
<1>7. ASSUME NEW k \in ObjectKind, Deletes(k), UNCHANGED gate, round.pc = "delete",
             round' = Rest \/ round' = [round EXCEPT !.todo = [j \in DOMAIN @ \ {k} |-> @[j]]]
      PROVE  OwnersOk'
  <2> DEFINE o == IF obj[k].uid = round.todo[k] THEN NoObj ELSE obj[k]
  <2>1. Changes(k, o) /\ (o.owner = 0 \/ o.owner = obj[k].owner)
      BY <1>7, NothingIs DEF Deletes
  <2>2. round = [pc |-> round.pc, g |-> round.g, todo |-> round.todo, result |-> round.result] /\ round # Rest
      BY <1>7, DeletingNow DEF DelOk
  <2>3. round' = Rest \/ (round'.g = round.g /\ round'.pc = "delete")
    <3> DEFINE t == [j \in DOMAIN round.todo \ {k} |-> round.todo[j]]
    <3>1. round' = Rest \/ round' = [round EXCEPT !.todo = t]
        BY <1>7
    <3> HIDE DEF t
    <3> QED  BY <1>7, <2>2, <3>1
  <2>4. round' = Rest \/ (round'.g = round.g /\ round' # Rest)
      BY <2>3 DEF Rest
  <2> HIDE DEF o
  <2> QED  BY <1>7, <2>1, <2>2, <2>4, OwnerMoves
<1>8. ASSUME NEW k \in ObjectKind, NEW refused \in BOOLEAN,
             ApplyObject(k) \/ DeleteNext(k) \/ ApplyFails(k, refused) \/ DeleteFails(k, refused)
      PROVE  OwnersOk'
  <2>1. CASE ApplyObject(k)
      BY <1>5, <1>6, <2>1 DEF ApplyObject, Fails
  <2>2. CASE ApplyFails(k, refused)
      BY <1>5, <1>6, <2>2 DEF ApplyFails, Fails
  <2>3. CASE DeleteNext(k)
      BY <1>7, <2>3 DEF DeleteNext
  <2>4. CASE DeleteFails(k, refused)
      BY <1>6, <1>7, <2>4 DEF DeleteFails, Fails
  <2> QED  BY <1>8, <2>1, <2>2, <2>3, <2>4
<1>9. CASE (\E spec \in means.specs : EditSpec(spec)) \/ MoveClass \/ DeleteInForeground \/ RetryNow
  <2>1. UNCHANGED <<obj, round>> /\ gate'.uid = gate.uid
      BY <1>9 DEF EditSpec, MoveClass, DeleteInForeground, RetryNow, ProvisionInv, GateOk
  <2> QED  BY <2>1 DEF OwnersOk
<1>10. CASE Recreate \/ RestartController
  <2>1. CASE Recreate
    <3>1. UNCHANGED <<obj, round>> /\ gate'.uid = uids + 1
        BY <2>1 DEF Recreate, ProvisionInv, GateOk
    <3>2. round # Rest => round.g.uid \in Nat
        BY ObjectsAre DEF ProvisionInv, RoundOk, TryOk, DelOk, GateOk
    <3> QED  BY <1>0, <3>1, <3>2 DEF OwnersOk
  <2>2. CASE RestartController
      BY <1>6, <2>2 DEF RestartController
  <2> QED  BY <1>10, <2>1, <2>2
<1>11. CASE BeginPass
  <2>1. round = Rest /\ UNCHANGED <<gate, obj>>
      BY <1>11 DEF BeginPass
  <2>2. round' = Rest \/ round'.g = gate
      BY <1>11, <2>1 DEF BeginPass, Deleting
  <2> QED  BY <1>0, <2>1, <2>2 DEF OwnersOk
<1>12. CASE Preflight \/ Decided \/ AppliedAll \/ DeletedAll \/ \E refused \in BOOLEAN : PreflightFails(refused)
  <2>1. UNCHANGED <<gate, obj>> /\ round # Rest
      BY <1>12 DEF Preflight, Decided, AppliedAll, DeletedAll, PreflightFails, Rest
  <2>2. CASE Preflight \/ Decided \/ AppliedAll
    <3>1. round.pc \in {"check", "apply"}
        BY <2>2 DEF Preflight, Decided, AppliedAll
    <3>2. round = [pc |-> round.pc, g |-> round.g, bound |-> round.bound, next |-> round.next, existing |-> round.existing,
                   live |-> round.live, conflict |-> round.conflict]
        BY <3>1, Trying DEF TryOk
    <3>3. round' = Rest \/ round'.g = round.g
      <4>1. CASE Preflight
        <5>1. PICK a, b, c : round' = [round EXCEPT !.next = a, !.live = b, !.conflict = c]
            BY <4>1 DEF Preflight
        <5> QED  BY <3>2, <5>1
      <4>2. CASE Decided
        <5>1. round' = Rest \/ round' = [round EXCEPT !.pc = "apply", !.next = 1]
            BY <4>2 DEF Decided
        <5> QED  BY <3>2, <5>1
      <4>3. CASE AppliedAll
          BY <4>3 DEF AppliedAll, Deleting
      <4> QED  BY <2>2, <4>1, <4>2, <4>3
    <3> QED  BY <2>1, <3>3 DEF OwnersOk
  <2>3. CASE DeletedAll \/ \E refused \in BOOLEAN : PreflightFails(refused)
      BY <1>6, <2>1, <2>3 DEF DeletedAll, PreflightFails, Fails
  <2> QED  BY <1>12, <2>2, <2>3
<1>13. CASE UNCHANGED provVars
    BY <1>1, <1>13 DEF provVars
<1> QED  BY <1>0, <1>2, <1>3, <1>4, <1>8, <1>9, <1>10, <1>11, <1>12, <1>13 DEF ProvNext

LEMMA ProvisionInvHolds == ProvisionInv => ProvisionHolds
<1> SUFFICES ASSUME ProvisionInv PROVE ProvisionHolds
    OBVIOUS
<1>1. ObjectsSettle
  <2> SUFFICES ASSUME ObjectsAtRest, provided.problem = "none" PROVE ObjectsSettle
      BY DEF ObjectsSettle
  <2>1. Fulfilled(obj, gate, provided.bound)
      BY DEF ObjectsAtRest, ProvisionInv, Clean, RoundClean
  <2> QED  BY <2>1 DEF ObjectsSettle, Fulfilled, Served, LetGo, AsWanted
<1>2. OthersUntouched
  <2> SUFFICES ASSUME NEW k \in ObjectKind, obj[k].claims = "theirs"
               PROVE  /\ obj[k].owner = 0 /\ obj[k].ver = 1 /\ ~obj[k].ours
                      /\ round.pc = "delete" /\ k \in DOMAIN round.todo => round.todo[k] # obj[k].uid
      BY DEF OthersUntouched
  <2>1. obj[k].owner = 0 /\ obj[k].ver = 1 /\ ~obj[k].ours
      BY ObjectsAre DEF IsObj
  <2>2. ASSUME round.pc = "delete", k \in DOMAIN round.todo, round.todo[k] = obj[k].uid PROVE FALSE
    <3>1. round.g.uid <= obj[k].owner /\ round.g.uid \in Nat /\ round.g.uid # 0
        BY <2>2, DeletingNow, ObjectsAre DEF DelOk, GateOk
    <3> QED  BY <2>1, <3>1
  <2> QED  BY <2>1, <2>2
<1>3. TargetsSound
  <2> SUFFICES ASSUME round.pc \in {"check", "apply"}, Fronted(round.g.spec) PROVE TargetsSound
      BY DEF TargetsSound
  <2>1. /\ GateOk(round.g, uids) /\ GoodPorts(round.existing)
        /\ round.bound = BoundPorts(round.g, round.existing)
      BY Trying DEF TryOk
  <2>2. /\ GoodPorts(round.bound)
        /\ \A p \in DOMAIN round.bound \cap DOMAIN round.existing :
               round.bound[p] = round.existing[p] \/ round.existing[p] \in DOMAIN round.bound
      BY <2>1, BoundGood
  <2> QED  BY <2>2 DEF TargetsSound, GoodPorts
<1> QED  BY <1>1, <1>2, <1>3 DEF ProvisionHolds

\* Once nothing is owed and the caches caught up, a Gateway reported without
\* a problem has the objects it wants, as rendered, and no other; no pass
\* writes or deletes an object another made with fields of ours set its own
\* way; targets are unprivileged, apart, and
\* stay: for every world of edits, lags, failures and restarts, every pool
\* and every set of ports (provision/mod.rs, provision, apply,
\* delete_all_but; ports.rs, allocate_target_ports).
THEOREM ProvisionCorrect == ProvSpec => []ProvisionHolds
<1>1. ProvSpec => [](ProvisionInv /\ OwnersOk)
    BY ProvisionInit, OwnersBegin, ProvisionNext, OwnersNext, PTL DEF ProvSpec
<1> QED  BY <1>1, ProvisionInvHolds, PTL

-----------------------------------------------------------------------------
(* Statuses: what is written of a Gateway on its record, its objects and   *)
(* the class.                                                              *)

StatusEntry == [by : {"portail", "other"}, gw : GwName \cup {"elsewhere"}, says : Nat, gen : Nat]
GatewayRecord == [uid : Nat, rv : Nat, spec : Nat, ours : BOOLEAN, status : Nat]
ReportingObject == [rv : Nat, gen : Nat, targets : SUBSET GwName, entries : Seq(StatusEntry)]
ClassRecord == [rv : Nat, gen : Nat, cond : Nat, feats : {"current", "older"}]
OwedWrites == [obj : Object, read : ReportingObject, new : Seq(StatusEntry)]
Readings == UNION {[D -> ReportingObject] : D \in SUBSET Object}
PassType == [pc : {"idle", "translate", "gateway", "check", "objects"}, gw : GatewayRecord,
             objs : Readings, todo : SUBSET OwedWrites, failed : BOOLEAN]
Removals == [obj : Object, read : ReportingObject, gws : SUBSET (GwName \cup {"elsewhere"})]
SweepType == [pc : {"idle", "conditions", "features", "departed", "remove"}, class : ClassRecord \cup {[rv |-> 0]},
              todo : SUBSET Removals, ok : BOOLEAN, clean : BOOLEAN]
ClusterType == [gw : [GwName -> GatewayRecord], obj : [Object -> ReportingObject], class : ClassRecord]

\* What was read is what is there, or was written over since.
WasObject(read, is) == read = is \/ read.rv < is.rv
WasGateway(read, is, u) ==
    /\ read.uid <= u /\ (read.uid = 0 => read = NoGateway)
    /\ read.uid = is.uid => WasObject(read, is)

ClusterOk(a, s, u) ==
    /\ a \in ClusterType /\ s \in ClusterType
    /\ \A n \in GwName : WasGateway(a.gw[n], a.gw[n], u) /\ WasGateway(s.gw[n], a.gw[n], u)
    /\ \A o \in Object : WasObject(s.obj[o], a.obj[o])
    /\ WasObject(s.class, a.class)

\* A pass of a Gateway and its writes.
OwedOk(w, a) ==
    /\ \A i \in DOMAIN w.new : w.new[i].by = "portail"
    /\ WasObject(w.read, a.obj[w.obj])
PassOwes(p, a) ==
    /\ p \in PassType
    /\ p.pc \in {"idle", "translate"} => ~p.failed
    /\ p.pc # "idle" => p.gw.uid # 0
    /\ \A o \in DOMAIN p.objs : WasObject(p.objs[o], a.obj[o])
    /\ \A w \in p.todo : OwedOk(w, a)

\* No pass of the Gateway is asked for or will be by its record, and none
\* has failed: the pass that runs, or the last, read it as it is.
Steady(n, a, s, p, d) == n \notin d /\ s.gw[n] = a.gw[n] /\ ~p.failed /\ a.gw[n].ours
GatewayRead(n, a, p) ==
    /\ p.pc # "idle" => p.gw = a.gw[n]
    /\ p.pc \in {"idle", "check", "objects"} => a.gw[n].status = a.gw[n].spec

\* The same of an object that names the Gateway or carries its entry.
Concerns(n, o) == n \in o.targets \cup Reported(o)
Wants(n, spec, o) == IF n \in o.targets THEN <<EntryFor(n, spec, o)>> ELSE <<>>
ObjectRead(n, o, a, p) ==
    LET is == a.obj[o]
        wants == Wants(n, a.gw[n].spec, is)
    IN  /\ p.pc = "idle" => Owned(is, n) = wants
        /\ p.pc = "translate" => /\ o \in DOMAIN p.objs <=> n \in is.targets
                                 /\ o \in DOMAIN p.objs => p.objs[o] = is
        /\ p.pc \in {"gateway", "check", "objects"} =>
               \/ \E w \in p.todo : w.obj = o /\ w.read = is /\ w.new = wants
               \/ p.pc = "objects" /\ Owned(is, n) = wants
ReadAsIs(n, a, s, p, d) ==
    Steady(n, a, s, p, d) =>
        /\ GatewayRead(n, a, p)
        /\ \A o \in Object : s.obj[o] = a.obj[o] /\ Concerns(n, a.obj[o]) => ObjectRead(n, o, a, p)

\* The class and its pass.
ClassOk(a, s, sw, wake) ==
    /\ sw.pc \in {"conditions", "features"} => sw.class \in ClassRecord /\ WasObject(sw.class, a.class)
    /\ ~wake /\ sw.ok /\ s.class = a.class =>
           /\ sw.pc \in {"conditions", "features"} => sw.class = a.class
           /\ sw.pc # "conditions" => a.class.cond = a.class.gen
           /\ sw.pc \notin {"conditions", "features"} => a.class.feats = "current"

\* The entries of departed Gateways and their removal.
Parted(a, o) == {n \in Reported(a.obj[o]) : Departed(a, n)}
SweepOk(a, sw, done) ==
    /\ sw \in SweepType /\ done \in BOOLEAN /\ (sw.pc = "idle" => sw.ok)
    /\ \A w \in sw.todo : WasObject(w.read, a.obj[w.obj]) /\ \A v \in sw.todo : v.obj = w.obj => v = w
    /\ sw.pc = "remove" /\ sw.ok /\ sw.clean =>
           \A o \in Object : \/ Parted(a, o) = {}
                             \/ \E w \in sw.todo : w.obj = o /\ w.read = a.obj[o] /\ w.gws = Parted(a, o)
    /\ done => \A o \in Object : Parted(a, o) = {}

OthersEntries(o) == {e \in ToSet(o.entries) : e.by # "portail"}

\* The inductive invariant of Statuses.
StatusInv ==
    /\ lastUid \in Nat \ {0} /\ wakeSweep \in BOOLEAN
    /\ ClusterOk(api, seen, lastUid)
    /\ DOMAIN work = GwName
    /\ \A n \in GwName : PassOwes(work[n], api)
    /\ \A n \in GwName : ReadAsIs(n, api, seen, work[n], asks)
    /\ ClassOk(api, seen, sweep, wakeSweep)
    /\ SweepOk(api, sweep, swept)
    /\ DOMAIN foreign = Object /\ \A o \in Object : OthersEntries(api.obj[o]) = foreign[o]

\* What a list holds at some of its places.
LEMMA InPlaceHolds ==
    ASSUME NEW S, NEW s \in Seq(S), NEW at \in SUBSET DOMAIN s
    PROVE  /\ InPlace(s, at) \in Seq(S)
           /\ ToSet(InPlace(s, at)) = {s[i] : i \in at}
           /\ at = {} => InPlace(s, at) = <<>>
<1> DEFINE Below(i) == {k \in at : k < i}
           t == InPlace(s, at)
           pick(j) == CHOOSE i \in at : Cardinality(Below(i)) = j - 1
<1>1. DOMAIN s = 1 .. Len(s) /\ Len(s) \in Nat /\ \A i \in DOMAIN s : s[i] \in S
    OBVIOUS
<1>2. at \in SUBSET (0 .. Len(s)) /\ at \subseteq Nat
    BY <1>1
<1>3. IsFiniteSet(at) /\ Cardinality(at) \in Nat
  <2>1. IsFiniteSet(0 .. Len(s))
    BY <1>1, FS_Interval
  <2>2. IsFiniteSet(at)
    BY <2>1, <1>2, FS_Subset
  <2> QED  BY <2>2, FS_CardinalityType
<1>4. ASSUME NEW j \in 1 .. Cardinality(at)
      PROVE  pick(j) \in at /\ Cardinality(Below(pick(j))) = j - 1
  <2>1. j - 1 \in Nat /\ j - 1 < Cardinality(at)
    BY <1>3
  <2>2. \E i \in at : Cardinality(Below(i)) = j - 1
    BY <2>1, <1>1, <1>2, Ranked
  <2> QED  BY <2>2
<1>5. ASSUME NEW i \in at
      PROVE  \E j \in 1 .. Cardinality(at) : pick(j) = i
  <2>1. Cardinality(Below(i)) \in Nat /\ Cardinality(Below(i)) < Cardinality(at)
    BY <1>2, <1>3, RanksDiffer
  <2> DEFINE c == Cardinality(Below(i))
  <2>2. c + 1 \in 1 .. Cardinality(at)
    BY <2>1, <1>3
  <2>3. pick(c + 1) \in at /\ Cardinality(Below(pick(c + 1))) = (c + 1) - 1
    BY <2>2, <1>4
  <2>4. Cardinality(Below(pick(c + 1))) = Cardinality(Below(i))
    BY <2>1, <2>3
  <2>5. pick(c + 1) = i
    BY <2>3, <2>4, <1>2, <1>3, RanksDiffer
  <2> QED  BY <2>2, <2>5
<1>6. t = [j \in 1 .. Cardinality(at) |-> s[pick(j)]]
    BY DEF InPlace
<1> HIDE DEF t, pick, Below
<1>7. \A j \in 1 .. Cardinality(at) : pick(j) \in at
    BY <1>4
<1>8. t \in [1 .. Cardinality(at) -> S]
    BY <1>6, <1>7, <1>1
<1>9. t \in Seq(S)
    BY <1>8, <1>3
<1>10. ToSet(t) = {s[i] : i \in at}
  <2>1. ToSet(t) = {s[pick(j)] : j \in 1 .. Cardinality(at)}
    BY <1>6 DEF ToSet
  <2> QED  BY <2>1, <1>7, <1>5
<1>11. at = {} => t = <<>>
  <2>1. SUFFICES ASSUME at = {} PROVE t = <<>>
    OBVIOUS
  <2>2. Cardinality(at) = 0
    BY <2>1, FS_EmptySet
  <2>3. Len(t) = 0
    BY <1>8, <2>2, <1>9
  <2> QED  BY <2>3, <1>9
<1> QED  BY <1>9, <1>10, <1>11 DEF t

\* An object that reports nothing of a Gateway holds no entry of it.
LEMMA OwnedNone ==
    ASSUME NEW o \in ReportingObject, NEW n, n \notin Reported(o)
    PROVE  Owned(o, n) = <<>>
<1> DEFINE s == o.entries
           at == {i \in DOMAIN s : Owns(n, s[i])}
<1>1. s \in Seq(StatusEntry)
    BY DEF ReportingObject
<1>2. at = {}
  <2>1. SUFFICES ASSUME NEW i \in DOMAIN s, Owns(n, s[i]) PROVE FALSE
    OBVIOUS
  <2>2. s[i] \in ToSet(s) /\ s[i].by = "portail" /\ s[i].gw = n
    BY <2>1 DEF Owns, ToSet
  <2> QED  BY <2>2 DEF Reported
<1>3. at \in SUBSET DOMAIN s
    OBVIOUS
<1> QED  BY <1>1, <1>2, <1>3, InPlaceHolds DEF Owned

\* merge_owned keeps what is not replaced and adds what is new.
LEMMA MergeHolds ==
    ASSUME NEW o \in ReportingObject, NEW gws, NEW new \in Seq(StatusEntry)
    PROVE  LET m == MergeOwned(o, gws, new)
           IN  /\ m \in Seq(StatusEntry)
               /\ ToSet(m) = {e \in ToSet(o.entries) : ~\E n \in gws : Owns(n, e)} \cup ToSet(new)
<1> DEFINE s == o.entries
           at == {i \in DOMAIN s : ~\E n \in gws : Owns(n, s[i])}
           k == InPlace(s, at)
           m == MergeOwned(o, gws, new)
<1>1. s \in Seq(StatusEntry)
    BY DEF ReportingObject
<1>2. at \in SUBSET DOMAIN s
    OBVIOUS
<1>3. k \in Seq(StatusEntry) /\ ToSet(k) = {s[i] : i \in at}
    BY <1>1, <1>2, InPlaceHolds
<1>4. m = k \o new
    BY DEF MergeOwned
<1>5. {s[i] : i \in at} = {e \in ToSet(s) : ~\E n \in gws : Owns(n, e)}
    BY DEF ToSet
<1> HIDE DEF k, m, at
<1>6. m \in Seq(StatusEntry) /\ ToSet(m) = ToSet(k) \cup ToSet(new)
  <2>1. m \in Seq(StatusEntry) /\ Len(m) = Len(k) + Len(new) /\ Len(k) \in Nat /\ Len(new) \in Nat
    BY <1>3, <1>4
  <2>2. \A i \in 1 .. Len(k) : m[i] = k[i]
    BY <1>3, <1>4
  <2>3. \A i \in 1 .. Len(new) : m[Len(k) + i] = new[i]
    BY <1>3, <1>4
  <2>4. DOMAIN m = 1 .. Len(m) /\ DOMAIN k = 1 .. Len(k) /\ DOMAIN new = 1 .. Len(new)
    BY <2>1, <1>3
  <2>5. ASSUME NEW e \in ToSet(m) PROVE e \in ToSet(k) \cup ToSet(new)
    <3>1. PICK i \in 1 .. Len(m) : e = m[i]
      BY <2>4 DEF ToSet
    <3>2. CASE i <= Len(k)
      BY <3>1, <3>2, <2>1, <2>2, <2>4 DEF ToSet
    <3>3. CASE i > Len(k)
      <4> DEFINE j == i - Len(k)
      <4>1. j \in 1 .. Len(new) /\ i = Len(k) + j
        BY <3>1, <3>3, <2>1
      <4>2. e = new[j]
        BY <4>1, <3>1, <2>3
      <4> QED  BY <4>1, <4>2, <2>4 DEF ToSet
    <3> QED  BY <3>1, <3>2, <3>3, <2>1
  <2>6. ASSUME NEW e \in ToSet(k) PROVE e \in ToSet(m)
    <3>1. PICK i \in 1 .. Len(k) : e = k[i]
      BY <2>4 DEF ToSet
    <3>2. i \in 1 .. Len(m) /\ e = m[i]
      BY <3>1, <2>1, <2>2
    <3> QED  BY <3>2, <2>4 DEF ToSet
  <2>7. ASSUME NEW e \in ToSet(new) PROVE e \in ToSet(m)
    <3>1. PICK i \in 1 .. Len(new) : e = new[i]
      BY <2>4 DEF ToSet
    <3>2. Len(k) + i \in 1 .. Len(m) /\ e = m[Len(k) + i]
      BY <3>1, <2>1, <2>3
    <3> QED  BY <3>2, <2>4 DEF ToSet
  <2> QED  BY <2>1, <2>5, <2>6, <2>7
<1> QED  BY <1>3, <1>5, <1>6 DEF m

\* What is written over is told by its version.
LEMMA ObjectMoves ==
    ASSUME NEW a, NEW s, NEW u \in Nat, ClusterOk(a, s, u),
           NEW b \in ClusterType, NEW o \in Object,
           b.gw = a.gw, b.class = a.class, b.obj = [a.obj EXCEPT ![o] = b.obj[o]],
           b.obj[o].rv = a.obj[o].rv + 1
    PROVE  /\ ClusterOk(b, s, u) /\ s.obj[o] # b.obj[o]
           /\ \A read \in ReportingObject, x \in Object :
                  WasObject(read, a.obj[x]) => WasObject(read, b.obj[x])
           /\ \A p : PassOwes(p, a) => PassOwes(p, b)
           /\ \A n \in GwName : \A p, d : ReadAsIs(n, a, s, p, d) => ReadAsIs(n, b, s, p, d)
           /\ \A sw, wake : ClassOk(a, s, sw, wake) => ClassOk(b, s, sw, wake)
<1>1. a \in ClusterType /\ s \in ClusterType
    BY DEF ClusterOk
<1>2. a.obj[o] \in ReportingObject /\ b.obj[o] \in ReportingObject /\ s.obj[o] \in ReportingObject
      /\ \A x \in Object : a.obj[x] \in ReportingObject /\ (x # o => b.obj[x] = a.obj[x])
    BY <1>1 DEF ClusterType
<1>3. ASSUME NEW read \in ReportingObject, NEW x \in Object, WasObject(read, a.obj[x])
      PROVE  WasObject(read, b.obj[x])
  <2>1. CASE x = o
    <3>1. read.rv \in Nat /\ a.obj[o].rv \in Nat
      BY <1>2 DEF ReportingObject
    <3>2. read.rv < b.obj[o].rv
      BY <3>1, <2>1, <1>3 DEF WasObject
    <3> QED  BY <3>2, <2>1 DEF WasObject
  <2>2. CASE x # o
    BY <2>2, <1>2, <1>3
  <2> QED  BY <2>1, <2>2
<1>4. s.obj[o] # b.obj[o]
  <2>1. WasObject(s.obj[o], a.obj[o])
    BY DEF ClusterOk
  <2> QED  BY <1>2, <2>1 DEF WasObject, ReportingObject
<1>5. ClusterOk(b, s, u)
  <2>1. \A x \in Object : WasObject(s.obj[x], b.obj[x])
    BY <1>1, <1>3 DEF ClusterOk, ClusterType
  <2> QED  BY <1>1, <2>1 DEF ClusterOk
<1>6. ASSUME NEW p, PassOwes(p, a) PROVE PassOwes(p, b)
  <2>1. \A x \in DOMAIN p.objs : WasObject(p.objs[x], b.obj[x])
    <3>1. \A x \in DOMAIN p.objs : x \in Object /\ p.objs[x] \in ReportingObject
      BY <1>6 DEF PassOwes, PassType, Readings
    <3> QED  BY <3>1, <1>3, <1>6 DEF PassOwes
  <2>2. \A w \in p.todo : OwedOk(w, b)
    <3>1. \A w \in p.todo : w.obj \in Object /\ w.read \in ReportingObject
      BY <1>6 DEF PassOwes, PassType, OwedWrites
    <3> QED  BY <3>1, <1>3, <1>6 DEF PassOwes, OwedOk
  <2> QED  BY <1>6, <2>1, <2>2 DEF PassOwes
<1>7. ASSUME NEW n \in GwName, NEW p, NEW d, ReadAsIs(n, a, s, p, d) PROVE ReadAsIs(n, b, s, p, d)
  <2>1. SUFFICES ASSUME Steady(n, b, s, p, d)
                 PROVE  /\ GatewayRead(n, b, p)
                        /\ \A x \in Object : s.obj[x] = b.obj[x] /\ Concerns(n, b.obj[x]) => ObjectRead(n, x, b, p)
    BY DEF ReadAsIs
  <2>2. Steady(n, a, s, p, d)
    BY <2>1 DEF Steady
  <2>3. GatewayRead(n, b, p)
    BY <2>2, <1>7 DEF ReadAsIs, GatewayRead
  <2>4. ASSUME NEW x \in Object, s.obj[x] = b.obj[x], Concerns(n, b.obj[x]) PROVE ObjectRead(n, x, b, p)
    <3>1. b.obj[x] = a.obj[x]
      BY <1>2, <1>4, <2>4
    <3>2. ObjectRead(n, x, a, p)
      BY <3>1, <2>2, <2>4, <1>7 DEF ReadAsIs
    <3> QED  BY <3>1, <3>2 DEF ObjectRead
  <2> QED  BY <2>3, <2>4
<1>8. \A sw, wake : ClassOk(a, s, sw, wake) => ClassOk(b, s, sw, wake)
    BY DEF ClassOk
<1> QED  BY <1>3, <1>4, <1>5, <1>6, <1>7, <1>8

\* So is a Gateway's record, by its uid and its version.
LEMMA GatewayMoves ==
    ASSUME NEW a, NEW s, NEW u \in Nat, NEW v \in Nat, ClusterOk(a, s, u),
           NEW b \in ClusterType, NEW n \in GwName,
           b.obj = a.obj, b.class = a.class, b.gw = [a.gw EXCEPT ![n] = b.gw[n]],
           \/ b.gw[n].uid = a.gw[n].uid /\ a.gw[n].uid # 0 /\ b.gw[n].rv = a.gw[n].rv + 1 /\ v = u
           \/ b.gw[n] = NoGateway /\ v = u
           \/ b.gw[n].uid = v /\ v = u + 1
    PROVE  /\ ClusterOk(b, s, v)
           /\ \A p : PassOwes(p, a) => PassOwes(p, b)
           /\ \A p, d : ReadAsIs(n, b, s, p, d)
           /\ \A m \in GwName : \A p, d : ReadAsIs(m, a, s, p, d) => ReadAsIs(m, b, s, p, d)
           /\ \A sw, wake : ClassOk(a, s, sw, wake) => ClassOk(b, s, sw, wake)
<1>1. a \in ClusterType /\ s \in ClusterType
    BY DEF ClusterOk
<1>2. a.gw[n] \in GatewayRecord /\ b.gw[n] \in GatewayRecord /\ s.gw[n] \in GatewayRecord
      /\ \A m \in GwName : s.gw[m] \in GatewayRecord /\ a.gw[m] \in GatewayRecord /\ (m # n => b.gw[m] = a.gw[m])
    BY <1>1 DEF ClusterType
<1>3. WasGateway(a.gw[n], a.gw[n], u) /\ WasGateway(s.gw[n], a.gw[n], u)
    BY DEF ClusterOk
<1>4. WasGateway(b.gw[n], b.gw[n], v) /\ WasGateway(s.gw[n], b.gw[n], v)
    BY <1>2, <1>3 DEF WasGateway, WasObject, GatewayRecord, NoGateway
<1>5. ~(s.gw[n] = b.gw[n] /\ b.gw[n].ours)
    BY <1>2, <1>3 DEF WasGateway, WasObject, GatewayRecord, NoGateway
<1>6. ClusterOk(b, s, v)
  <2>1. \A m \in GwName : WasGateway(b.gw[m], b.gw[m], v) /\ WasGateway(s.gw[m], b.gw[m], v)
    <3>1. u <= v
      OBVIOUS
    <3>2. ASSUME NEW m \in GwName, m # n PROVE WasGateway(b.gw[m], b.gw[m], v) /\ WasGateway(s.gw[m], b.gw[m], v)
      <4>1. WasGateway(a.gw[m], a.gw[m], u) /\ WasGateway(s.gw[m], a.gw[m], u)
        BY DEF ClusterOk
      <4> QED  BY <3>1, <3>2, <4>1, <1>2 DEF WasGateway, GatewayRecord
    <3> QED  BY <3>2, <1>4
  <2> QED  BY <1>1, <2>1 DEF ClusterOk
<1>7. \A p : PassOwes(p, a) => PassOwes(p, b)
    BY DEF PassOwes, OwedOk
<1>8. \A p, d : ReadAsIs(n, b, s, p, d)
    BY <1>5 DEF ReadAsIs, Steady
<1>9. ASSUME NEW m \in GwName, NEW p, NEW d, ReadAsIs(m, a, s, p, d) PROVE ReadAsIs(m, b, s, p, d)
  <2>1. CASE m = n
    BY <2>1, <1>8
  <2>2. CASE m # n
    <3>1. b.gw[m] = a.gw[m]
      BY <2>2, <1>2
    <3>2. Steady(m, b, s, p, d) <=> Steady(m, a, s, p, d)
      BY <3>1 DEF Steady
    <3>3. GatewayRead(m, b, p) <=> GatewayRead(m, a, p)
      BY <3>1 DEF GatewayRead
    <3>4. \A o \in Object : ObjectRead(m, o, b, p) <=> ObjectRead(m, o, a, p)
      BY <3>1 DEF ObjectRead
    <3> QED  BY <1>9, <3>2, <3>3, <3>4 DEF ReadAsIs
  <2> QED  BY <2>1, <2>2
<1>10. \A sw, wake : ClassOk(a, s, sw, wake) => ClassOk(b, s, sw, wake)
    BY DEF ClassOk
<1> QED  BY <1>6, <1>7, <1>8, <1>9, <1>10

\* And the class.
LEMMA ClassMoves ==
    ASSUME NEW a, NEW s, NEW u \in Nat, ClusterOk(a, s, u),
           NEW b \in ClusterType, b.obj = a.obj, b.gw = a.gw, b.class.rv = a.class.rv + 1
    PROVE  /\ ClusterOk(b, s, u) /\ s.class # b.class
           /\ \A c \in ClassRecord : WasObject(c, a.class) => WasObject(c, b.class)
           /\ \A p : PassOwes(p, a) => PassOwes(p, b)
           /\ \A m \in GwName : \A p, d : ReadAsIs(m, a, s, p, d) => ReadAsIs(m, b, s, p, d)
           /\ \A sw, done : SweepOk(a, sw, done) => SweepOk(b, sw, done)
<1>1. a \in ClusterType /\ s \in ClusterType
    BY DEF ClusterOk
<1>2. a.class \in ClassRecord /\ b.class \in ClassRecord /\ s.class \in ClassRecord
    BY <1>1 DEF ClusterType
<1>3. \A c \in ClassRecord : WasObject(c, a.class) => WasObject(c, b.class) /\ c # b.class
    BY <1>2 DEF WasObject, ClassRecord
<1>4. WasObject(s.class, a.class)
    BY DEF ClusterOk
<1>5. ClusterOk(b, s, u)
    BY <1>1, <1>2, <1>3, <1>4 DEF ClusterOk
<1>6. \A p : PassOwes(p, a) => PassOwes(p, b)
    BY DEF PassOwes, OwedOk
<1>7. \A m \in GwName : \A p, d : ReadAsIs(m, a, s, p, d) => ReadAsIs(m, b, s, p, d)
    BY DEF ReadAsIs, Steady, GatewayRead, ObjectRead
<1>8. \A sw, done : SweepOk(a, sw, done) => SweepOk(b, sw, done)
    BY DEF SweepOk, Parted, Departed, There
<1> QED  BY <1>2, <1>3, <1>4, <1>5, <1>6, <1>7, <1>8

LEMMA ReadStays ==
    ASSUME NEW n, NEW a, NEW s, NEW p, NEW d, NEW e, n \notin e => n \notin d, ReadAsIs(n, a, s, p, d)
    PROVE  ReadAsIs(n, a, s, p, e)
    BY DEF ReadAsIs, Steady

LEMMA ClassStays ==
    ASSUME NEW a, NEW s, NEW sw, NEW wake, NEW w, wake => w, ClassOk(a, s, sw, wake)
    PROVE  ClassOk(a, s, sw, w)
    BY DEF ClassOk

\* A class pass that others overtook promises nothing.
LEMMA SweepUpset ==
    ASSUME NEW a, NEW b, NEW sw, NEW done, SweepOk(a, sw, done),
           \A read \in ReportingObject, x \in Object : WasObject(read, a.obj[x]) => WasObject(read, b.obj[x])
    PROVE  /\ SweepOk(b, [sw EXCEPT !.clean = FALSE], FALSE)
           /\ \A s, wake : ClassOk(b, s, sw, wake) => ClassOk(b, s, [sw EXCEPT !.clean = FALSE], wake)
<1> DEFINE t == [sw EXCEPT !.clean = FALSE]
<1>1. t \in SweepType
    BY DEF SweepOk, SweepType
<1>2. t.pc = sw.pc /\ t.class = sw.class /\ t.todo = sw.todo /\ t.ok = sw.ok /\ ~t.clean
    BY DEF SweepOk, SweepType
<1> HIDE DEF t
<1>3. \A w \in sw.todo : WasObject(w.read, b.obj[w.obj]) /\ \A v \in sw.todo : v.obj = w.obj => v = w
    BY DEF SweepOk, SweepType, Removals
<1>4. SweepOk(b, t, FALSE)
    BY <1>1, <1>2, <1>3 DEF SweepOk
<1>5. ASSUME NEW s, NEW wake, ClassOk(b, s, sw, wake) PROVE ClassOk(b, s, t, wake)
    BY <1>2, <1>5 DEF ClassOk
<1> QED  BY <1>4, <1>5 DEF t

\* A pass and a class pass that do not run.
LEMMA IdleOwes ==
    /\ Idle.pc = "idle" /\ ~Idle.failed /\ Idle \in PassType /\ DOMAIN Idle.objs = {} /\ Idle.todo = {}
    /\ \A a : PassOwes(Idle, a)
<1>1. Idle.pc = "idle" /\ Idle.gw = NoGateway /\ Idle.objs = <<>> /\ Idle.todo = {}
    BY DEF Idle
<1>2. Idle.failed = FALSE
    BY DEF Idle
<1>3. <<>> \in [{} -> ReportingObject]
    OBVIOUS
<1>4. <<>> \in Readings
    BY <1>3 DEF Readings
<1>5. NoGateway \in GatewayRecord
    BY DEF NoGateway, GatewayRecord
<1>6. Idle \in PassType
    BY <1>4, <1>5 DEF Idle, PassType
<1>7. DOMAIN Idle.objs = {}
    BY <1>1
<1>8. \A a : PassOwes(Idle, a)
    BY <1>1, <1>2, <1>6, <1>7 DEF PassOwes
<1> QED  BY <1>1, <1>2, <1>6, <1>7, <1>8

LEMMA AsleepFacts ==
    Asleep.pc = "idle" /\ Asleep.todo = {} /\ Asleep.ok /\ Asleep.clean /\ Asleep \in SweepType
    BY DEF Asleep, SweepType

LEMMA StatusBegins == StatusInit => StatusInv
<1> SUFFICES ASSUME StatusInit PROVE StatusInv
    OBVIOUS
<1> DEFINE g0 == [uid |-> 1, rv |-> 1, spec |-> 1, ours |-> TRUE, status |-> 0]
           ob(w) == [rv |-> 1, gen |-> 1, targets |-> w.gws, entries |-> <<>>]
           c0 == [rv |-> 1, gen |-> 1, cond |-> 1, feats |-> "current"]
<1>1. PICK w \in Worlds :
          /\ api = [gw |-> [n \in GwName |-> IF n \in w.gws THEN g0 ELSE NoGateway],
                    obj |-> [o \in Object |-> ob(w)], class |-> c0]
          /\ asks = w.gws
    BY DEF StatusInit
<1>2. w.gws \subseteq GwName
    BY StatusAssumption
<1>3. g0 \in GatewayRecord /\ NoGateway \in GatewayRecord /\ ob(w) \in ReportingObject /\ c0 \in ClassRecord
  <2>1. <<>> \in Seq(StatusEntry)
    OBVIOUS
  <2> QED  BY <2>1, <1>2 DEF GatewayRecord, ReportingObject, ClassRecord, NoGateway
<1>4. /\ api.gw = [n \in GwName |-> IF n \in w.gws THEN g0 ELSE NoGateway]
      /\ api.obj = [o \in Object |-> ob(w)] /\ api.class = c0
    BY <1>1
<1>5. seen = api /\ work = [n \in GwName |-> Idle] /\ sweep = Asleep /\ wakeSweep = FALSE /\ swept = TRUE
      /\ foreign = [o \in Object |-> {}] /\ lastUid = 1
    BY DEF StatusInit
<1>6. api \in ClusterType
    BY <1>1, <1>3 DEF ClusterType
<1>7. ClusterOk(api, seen, lastUid)
  <2>1. \A n \in GwName : WasGateway(api.gw[n], api.gw[n], 1)
    BY <1>4 DEF WasGateway, WasObject, NoGateway
  <2> QED  BY <1>5, <1>6, <2>1 DEF ClusterOk, WasObject
<1>8. ASSUME NEW n \in GwName PROVE PassOwes(work[n], api) /\ ReadAsIs(n, api, seen, work[n], asks)
  <2>1. work[n] = Idle
    BY <1>5
  <2>2. PassOwes(Idle, api)
    BY IdleOwes
  <2>3. ReadAsIs(n, api, seen, Idle, asks)
    BY <1>1, <1>4 DEF ReadAsIs, Steady, NoGateway
  <2> QED  BY <2>1, <2>2, <2>3
<1>9. ClassOk(api, seen, sweep, wakeSweep)
    BY <1>4, <1>5, AsleepFacts DEF ClassOk
<1>10. \A o \in Object : ToSet(api.obj[o].entries) = {}
  <2>1. ToSet(<<>>) = {}
    BY DEF ToSet
  <2> QED  BY <1>4, <2>1
<1>11. SweepOk(api, sweep, swept)
  <2>1. \A o \in Object : Parted(api, o) = {}
    BY <1>10 DEF Parted, Reported
  <2> QED  BY <1>5, <2>1, AsleepFacts DEF SweepOk
<1>12. \A o \in Object : OthersEntries(api.obj[o]) = foreign[o]
    BY <1>10, <1>5 DEF OthersEntries
<1>13. DOMAIN work = GwName /\ DOMAIN foreign = Object
    BY <1>5
<1>14. lastUid \in Nat \ {0}
    BY <1>5
<1>15. wakeSweep \in BOOLEAN
    BY <1>5
<1> HIDE DEF g0, ob, c0
<1> QED  BY <1>7, <1>8, <1>9, <1>11, <1>12, <1>13, <1>14, <1>15 DEF StatusInv

\* What the invariant says of types.
LEMMA StatusTypes ==
    ASSUME StatusInv
    PROVE  /\ lastUid \in Nat /\ api \in ClusterType /\ seen \in ClusterType
           /\ api.gw \in [GwName -> GatewayRecord] /\ seen.gw \in [GwName -> GatewayRecord]
           /\ api.obj \in [Object -> ReportingObject] /\ seen.obj \in [Object -> ReportingObject]
           /\ api.class \in ClassRecord /\ seen.class \in ClassRecord
    BY DEF StatusInv, ClusterOk, ClusterType

LEMMA StartPassKeeps ==
    ASSUME StatusInv, NEW n \in GwName, StartPass(n)
    PROVE  StatusInv'
<1> DEFINE gw == seen.gw[n]
           objs == [o \in {o \in Object : n \in seen.obj[o].targets} |-> seen.obj[o]]
           q == [Idle EXCEPT !.pc = "translate", !.gw = gw, !.objs = objs]
<1>1. /\ n \in asks /\ work[n].pc = "idle" /\ asks' = asks \ {n}
      /\ UNCHANGED <<api, seen, sweep, swept, foreign, lastUid>>
      /\ \/ gw # NoGateway /\ gw.ours /\ work' = [work EXCEPT ![n] = q] /\ wakeSweep' = wakeSweep
         \/ /\ ~(gw # NoGateway /\ gw.ours) /\ work' = work
            /\ wakeSweep' = (wakeSweep \/ (gw # NoGateway /\ n \in hubHas))
    BY DEF StartPass, Quietly
<1> HIDE DEF q
<1>2. DOMAIN work = GwName /\ \A m \in GwName : PassOwes(work[m], api) /\ ReadAsIs(m, api, seen, work[m], asks)
    BY DEF StatusInv
<1>3. wakeSweep' \in BOOLEAN /\ ClassOk(api, seen, sweep, wakeSweep')
  <2>1. wakeSweep \in BOOLEAN /\ ClassOk(api, seen, sweep, wakeSweep)
    BY DEF StatusInv
  <2>2. wakeSweep' \in BOOLEAN /\ (wakeSweep => wakeSweep')
    BY <1>1, <2>1
  <2> QED  BY <2>1, <2>2, ClassStays
<1>4. gw \in GatewayRecord /\ seen.gw[n] = gw
    BY StatusTypes
<1>5. /\ DOMAIN work' = GwName
      /\ \A m \in GwName : PassOwes(work'[m], api) /\ ReadAsIs(m, api, seen, work'[m], asks')
  <2>1. ASSUME NEW m \in GwName, m # n PROVE PassOwes(work[m], api) /\ ReadAsIs(m, api, seen, work[m], asks')
    BY <1>1, <1>2, <2>1, ReadStays
  <2>2. CASE ~(gw # NoGateway /\ gw.ours) /\ work' = work
    <3>1. ~gw.ours
      BY <2>2 DEF NoGateway
    <3>2. ReadAsIs(n, api, seen, work[n], asks')
      BY <3>1 DEF ReadAsIs, Steady
    <3> QED  BY <2>1, <2>2, <3>2, <1>2
  <2>3. CASE gw # NoGateway /\ gw.ours /\ work' = [work EXCEPT ![n] = q]
    <3>0. objs \in Readings
      <4>1. objs \in [{o \in Object : n \in seen.obj[o].targets} -> ReportingObject]
        BY StatusTypes
      <4> QED  BY <4>1 DEF Readings
    <3>1. q \in PassType /\ q.pc = "translate" /\ q.gw = gw /\ q.objs = objs /\ q.todo = {} /\ ~q.failed
      <4> HIDE DEF gw, objs
      <4> QED  BY <3>0, <1>4, IdleOwes DEF q, PassType
    <3>2. PassOwes(q, api)
      <4>1. DOMAIN objs \subseteq Object /\ \A o \in DOMAIN objs : objs[o] = seen.obj[o]
        OBVIOUS
      <4>2. \A o \in Object : WasObject(seen.obj[o], api.obj[o])
        BY DEF StatusInv, ClusterOk
      <4> HIDE DEF objs
      <4>3. gw.uid # 0
        BY <2>3 DEF StatusInv, ClusterOk, WasGateway
      <4> QED  BY <3>1, <4>1, <4>2, <4>3 DEF PassOwes
    <3>3. ReadAsIs(n, api, seen, q, asks')
      <4>1. SUFFICES ASSUME Steady(n, api, seen, q, asks')
                     PROVE  /\ GatewayRead(n, api, q)
                            /\ \A o \in Object : seen.obj[o] = api.obj[o] => ObjectRead(n, o, api, q)
        BY DEF ReadAsIs
      <4>2. GatewayRead(n, api, q)
        BY <4>1, <3>1 DEF GatewayRead, Steady
      <4>3. ASSUME NEW o \in Object, seen.obj[o] = api.obj[o] PROVE ObjectRead(n, o, api, q)
        <5>1. o \in DOMAIN q.objs <=> n \in api.obj[o].targets
          BY <3>1, <4>3
        <5>2. o \in DOMAIN q.objs => q.objs[o] = api.obj[o]
          BY <3>1, <4>3
        <5> QED  BY <3>1, <5>1, <5>2 DEF ObjectRead
      <4> QED  BY <4>2, <4>3
    <3> QED  BY <2>1, <2>3, <3>2, <3>3, <1>2
  <2> QED  BY <1>1, <2>2, <2>3
<1> QED  BY <1>1, <1>3, <1>5 DEF StatusInv

\* What a pass owes: each object is read as it was, and what is written is ours.
LEMMA DueFacts ==
    ASSUME StatusInv, NEW n \in GwName, NEW policy \in BOOLEAN
    PROVE  LET p == work[n]
           IN  /\ Due(n, p, policy) \in SUBSET OwedWrites
               /\ \A w \in Due(n, p, policy) : OwedOk(w, api)
               /\ \A o \in DOMAIN p.objs : \E w \in Due(n, p, policy) :
                      w.obj = o /\ w.read = p.objs[o] /\ w.new = <<EntryFor(n, p.gw.spec, p.objs[o])>>
               /\ \A o \in Object : n \notin seen.obj[o].targets /\ n \in Reported(seen.obj[o]) /\ o \notin DOMAIN p.objs =>
                      \E w \in Due(n, p, policy) : w.obj = o /\ w.read = seen.obj[o] /\ w.new = <<>>
<1> DEFINE p == work[n]
           former == {o \in Object : n \notin seen.obj[o].targets /\ n \in Reported(seen.obj[o])}
           entry(o) == <<EntryFor(n, p.gw.spec, p.objs[o])>>
           again(o) == IF policy /\ o \in DOMAIN p.objs THEN entry(o) ELSE <<>>
           A == {OwedWrite(o, p.objs[o], entry(o)) : o \in DOMAIN p.objs}
           B == {OwedWrite(o, seen.obj[o], again(o)) : o \in former}
<1>1. Due(n, p, policy) = A \cup B
    BY DEF Due
<1>2. PassOwes(p, api) /\ p \in PassType
    BY DEF StatusInv, PassOwes
<1>3. p.gw \in GatewayRecord /\ p.gw.spec \in Nat
    BY <1>2 DEF PassType, GatewayRecord
<1>4. \A o \in DOMAIN p.objs : o \in Object /\ p.objs[o] \in ReportingObject /\ WasObject(p.objs[o], api.obj[o])
    BY <1>2 DEF PassOwes, PassType, Readings
<1>5. \A o \in Object : seen.obj[o] \in ReportingObject /\ WasObject(seen.obj[o], api.obj[o])
    BY StatusTypes DEF StatusInv, ClusterOk
<1> HIDE DEF p
<1>6. ASSUME NEW o \in DOMAIN p.objs
      PROVE  entry(o) \in Seq(StatusEntry) /\ \A i \in DOMAIN entry(o) : entry(o)[i].by = "portail"
  <2> DEFINE e == EntryFor(n, p.gw.spec, p.objs[o])
  <2>1. p.objs[o].gen \in Nat
    BY <1>4 DEF ReportingObject
  <2>2. e \in StatusEntry /\ e.by = "portail"
    BY <2>1, <1>3 DEF EntryFor, StatusEntry
  <2> HIDE DEF e
  <2>3. <<e>> \in Seq(StatusEntry) /\ DOMAIN <<e>> = {1} /\ <<e>>[1] = e
    BY <2>2
  <2> QED  BY <2>2, <2>3 DEF e
<1>7. ASSUME NEW o \in former
      PROVE  again(o) \in Seq(StatusEntry) /\ \A i \in DOMAIN again(o) : again(o)[i].by = "portail"
  <2>1. <<>> \in Seq(StatusEntry) /\ DOMAIN <<>> = {}
    OBVIOUS
  <2>2. CASE policy /\ o \in DOMAIN p.objs
    BY <2>2, <1>6
  <2>3. CASE ~(policy /\ o \in DOMAIN p.objs)
    <3>1. again(o) = <<>>
      BY <2>3
    <3> HIDE DEF again
    <3> QED  BY <3>1, <2>1
  <2> QED  BY <2>2, <2>3
<1> HIDE DEF entry, again
<1>8. ASSUME NEW o \in Object, NEW read \in ReportingObject, NEW new \in Seq(StatusEntry),
             WasObject(read, api.obj[o]), \A i \in DOMAIN new : new[i].by = "portail"
      PROVE  LET w == OwedWrite(o, read, new)
             IN  w \in OwedWrites /\ OwedOk(w, api) /\ w.obj = o /\ w.read = read /\ w.new = new
    BY <1>8 DEF OwedWrite, OwedWrites, OwedOk
<1>9. \A o \in DOMAIN p.objs :
          LET w == OwedWrite(o, p.objs[o], entry(o))
          IN  w \in OwedWrites /\ OwedOk(w, api) /\ w.obj = o /\ w.read = p.objs[o] /\ w.new = entry(o)
    BY <1>4, <1>6, <1>8
<1>10. \A o \in former :
          LET w == OwedWrite(o, seen.obj[o], again(o))
          IN  w \in OwedWrites /\ OwedOk(w, api) /\ w.obj = o /\ w.read = seen.obj[o] /\ w.new = again(o)
    BY <1>5, <1>7, <1>8
<1>11. \A w \in A \cup B : w \in OwedWrites /\ OwedOk(w, api)
    BY <1>9, <1>10
<1>12. \A o \in DOMAIN p.objs : \E w \in A : w.obj = o /\ w.read = p.objs[o] /\ w.new = entry(o)
    BY <1>9
<1>13. \A o \in former : o \notin DOMAIN p.objs => \E w \in B : w.obj = o /\ w.read = seen.obj[o] /\ w.new = <<>>
  <2>1. \A o \in former : o \notin DOMAIN p.objs => again(o) = <<>>
    BY DEF again
  <2> QED  BY <1>10, <2>1
<1>14. \A o \in DOMAIN p.objs : entry(o) = <<EntryFor(n, p.gw.spec, p.objs[o])>>
    BY DEF entry
<1> HIDE DEF A, B
<1>15. Due(n, p, policy) \in SUBSET OwedWrites /\ \A w \in Due(n, p, policy) : OwedOk(w, api)
    BY <1>1, <1>11
<1>16. \A o \in DOMAIN p.objs : \E w \in Due(n, p, policy) :
           w.obj = o /\ w.read = p.objs[o] /\ w.new = <<EntryFor(n, p.gw.spec, p.objs[o])>>
    BY <1>1, <1>12, <1>14
<1>17. \A o \in former : o \notin DOMAIN p.objs =>
           \E w \in Due(n, p, policy) : w.obj = o /\ w.read = seen.obj[o] /\ w.new = <<>>
    BY <1>1, <1>13
<1> QED  BY <1>15, <1>16, <1>17 DEF p

\* A step of one pass that leaves the cluster, the caches and the rest alone.
LEMMA PassSteps ==
    ASSUME StatusInv, NEW n \in GwName, NEW q, PassOwes(q, api), ReadAsIs(n, api, seen, q, asks'),
           work' = [work EXCEPT ![n] = q], \A m \in GwName : m # n => (m \in asks => m \in asks'),
           UNCHANGED <<api, seen, sweep, swept, foreign, lastUid, wakeSweep>>
    PROVE  StatusInv'
<1>1. DOMAIN work = GwName /\ \A m \in GwName : PassOwes(work[m], api) /\ ReadAsIs(m, api, seen, work[m], asks)
    BY DEF StatusInv
<1>2. DOMAIN work' = GwName /\ work'[n] = q /\ \A m \in GwName : m # n => work'[m] = work[m]
    BY <1>1
<1>3. \A m \in GwName : PassOwes(work'[m], api)
    BY <1>1, <1>2
<1>4. ASSUME NEW m \in GwName PROVE ReadAsIs(m, api, seen, work'[m], asks')
  <2>1. CASE m = n
    BY <2>1, <1>2
  <2>2. CASE m # n
    BY <2>2, <1>1, <1>2, ReadStays
  <2> QED  BY <2>1, <2>2
<1> QED  BY <1>2, <1>3, <1>4 DEF StatusInv

LEMMA PublishPassKeeps ==
    ASSUME StatusInv, NEW n \in GwName, PublishPass(n)
    PROVE  StatusInv'
<1> DEFINE p == work[n]
           stale == seen.gw[n].uid # p.gw.uid
<1>1. PICK policy \in BOOLEAN :
          /\ p.pc = "translate"
          /\ work' = [work EXCEPT ![n] = IF stale THEN Idle ELSE [p EXCEPT !.pc = "gateway", !.todo = Due(n, p, policy)]]
          /\ UNCHANGED <<api, seen, asks, sweep, swept, foreign, lastUid, wakeSweep>>
    BY DEF PublishPass, Quietly
<1>2. PassOwes(p, api) /\ p \in PassType /\ ReadAsIs(n, api, seen, p, asks)
    BY DEF StatusInv, PassOwes
<1>3. CASE stale
  <2>1. work' = [work EXCEPT ![n] = Idle]
    BY <1>1, <1>3
  <2>2. PassOwes(Idle, api)
    BY IdleOwes
  <2>3. ReadAsIs(n, api, seen, Idle, asks')
    <3>1. SUFFICES ASSUME Steady(n, api, seen, Idle, asks) PROVE FALSE
      BY <1>1 DEF ReadAsIs
    <3>2. ~p.failed
      BY <1>1, <1>2 DEF PassOwes
    <3>3. Steady(n, api, seen, p, asks)
      BY <3>1, <3>2 DEF Steady
    <3>4. p.gw = api.gw[n] /\ seen.gw[n] = api.gw[n]
      BY <3>3, <1>1, <1>2 DEF ReadAsIs, GatewayRead, Steady
    <3> QED  BY <3>4, <1>3
  <2> QED  BY <1>1, <2>1, <2>2, <2>3, PassSteps
<1>4. CASE ~stale
  <2> DEFINE T == Due(n, p, policy)
             q == [p EXCEPT !.pc = "gateway", !.todo = T]
  <2>1. work' = [work EXCEPT ![n] = q]
    BY <1>1, <1>4
  <2>2. /\ T \in SUBSET OwedWrites
        /\ \A w \in T : OwedOk(w, api)
        /\ \A o \in DOMAIN p.objs : \E w \in T :
               w.obj = o /\ w.read = p.objs[o] /\ w.new = <<EntryFor(n, p.gw.spec, p.objs[o])>>
        /\ \A o \in Object : n \notin seen.obj[o].targets /\ n \in Reported(seen.obj[o]) /\ o \notin DOMAIN p.objs =>
               \E w \in T : w.obj = o /\ w.read = seen.obj[o] /\ w.new = <<>>
    BY DueFacts
  <2> HIDE DEF T
  <2>3. q \in PassType /\ q.pc = "gateway" /\ q.gw = p.gw /\ q.objs = p.objs /\ q.todo = T /\ q.failed = p.failed
    BY <1>2, <2>2 DEF PassType
  <2> HIDE DEF q
  <2>4. PassOwes(q, api)
    BY <1>1, <1>2, <2>2, <2>3 DEF PassOwes
  <2>5. ReadAsIs(n, api, seen, q, asks')
    <3>1. SUFFICES ASSUME Steady(n, api, seen, q, asks)
                   PROVE  /\ GatewayRead(n, api, q)
                          /\ \A o \in Object : seen.obj[o] = api.obj[o] /\ Concerns(n, api.obj[o]) => ObjectRead(n, o, api, q)
      BY <1>1 DEF ReadAsIs
    <3>2. Steady(n, api, seen, p, asks)
      BY <3>1, <2>3 DEF Steady
    <3>3. p.gw = api.gw[n]
      BY <3>2, <1>1, <1>2 DEF ReadAsIs, GatewayRead
    <3>4. ASSUME NEW o \in Object, seen.obj[o] = api.obj[o], Concerns(n, api.obj[o])
          PROVE  \E w \in T : w.obj = o /\ w.read = api.obj[o] /\ w.new = Wants(n, api.gw[n].spec, api.obj[o])
      <4>1. (o \in DOMAIN p.objs <=> n \in api.obj[o].targets) /\ (o \in DOMAIN p.objs => p.objs[o] = api.obj[o])
        BY <3>2, <3>4, <1>1, <1>2 DEF ReadAsIs, ObjectRead
      <4>2. CASE n \in api.obj[o].targets
        <5>1. PICK w \in T : w.obj = o /\ w.read = p.objs[o] /\ w.new = <<EntryFor(n, p.gw.spec, p.objs[o])>>
          BY <4>1, <4>2, <2>2
        <5> QED  BY <5>1, <4>1, <4>2, <3>3 DEF Wants
      <4>3. CASE n \notin api.obj[o].targets
        <5>1. n \in Reported(seen.obj[o])
          BY <4>3, <3>4 DEF Concerns
        <5>2. PICK w \in T : w.obj = o /\ w.read = seen.obj[o] /\ w.new = <<>>
          BY <4>1, <4>3, <5>1, <3>4, <2>2
        <5> QED  BY <5>2, <4>3, <3>4 DEF Wants
      <4> QED  BY <4>2, <4>3
    <3> QED  BY <3>3, <3>4, <2>3 DEF GatewayRead, ObjectRead
  <2> QED  BY <1>1, <2>1, <2>4, <2>5, PassSteps
<1> QED  BY <1>3, <1>4

LEMMA CheckCurrentKeeps ==
    ASSUME StatusInv, NEW n \in GwName, CheckCurrent(n)
    PROVE  StatusInv'
<1> DEFINE p == work[n]
           current == seen.gw[n] # NoGateway /\ seen.gw[n].uid = p.gw.uid
           T == IF current THEN p.todo ELSE {}
           q == [p EXCEPT !.pc = "objects", !.todo = T]
<1>1. PassOwes(p, api) /\ p \in PassType /\ ReadAsIs(n, api, seen, p, asks)
    BY DEF StatusInv, PassOwes
<1>2. /\ p.pc = "check" /\ work' = [work EXCEPT ![n] = q]
      /\ UNCHANGED <<api, seen, asks, sweep, swept, foreign, lastUid, wakeSweep>>
  <2>1. DOMAIN work = GwName
    BY DEF StatusInv
  <2> QED  BY <2>1 DEF CheckCurrent, Quietly
<1>3. T \subseteq p.todo
    OBVIOUS
<1> HIDE DEF T
<1>4. q \in PassType /\ q.pc = "objects" /\ q.gw = p.gw /\ q.objs = p.objs /\ q.todo = T /\ q.failed = p.failed
    BY <1>1, <1>3 DEF PassType
<1> HIDE DEF q
<1>5. PassOwes(q, api)
    BY <1>1, <1>2, <1>3, <1>4 DEF PassOwes
<1>6. ReadAsIs(n, api, seen, q, asks')
  <2>1. SUFFICES ASSUME Steady(n, api, seen, q, asks)
                 PROVE  /\ GatewayRead(n, api, q)
                        /\ \A o \in Object : seen.obj[o] = api.obj[o] /\ Concerns(n, api.obj[o]) => ObjectRead(n, o, api, q)
    BY <1>2 DEF ReadAsIs
  <2>2. Steady(n, api, seen, p, asks)
    BY <2>1, <1>4 DEF Steady
  <2>3. GatewayRead(n, api, p) /\ p.gw = api.gw[n] /\ seen.gw[n] = api.gw[n] /\ api.gw[n].ours
    BY <2>2, <1>1, <1>2 DEF ReadAsIs, GatewayRead, Steady
  <2>4. T = p.todo
    BY <2>3 DEF T, NoGateway
  <2>5. GatewayRead(n, api, q)
    BY <2>3, <1>2, <1>4 DEF GatewayRead
  <2>6. ASSUME NEW o \in Object, seen.obj[o] = api.obj[o], Concerns(n, api.obj[o]) PROVE ObjectRead(n, o, api, q)
    <3>1. ObjectRead(n, o, api, p)
      BY <2>2, <2>6, <1>1 DEF ReadAsIs
    <3> QED  BY <3>1, <2>4, <1>2, <1>4 DEF ObjectRead
  <2> QED  BY <2>5, <2>6
<1> QED  BY <1>2, <1>5, <1>6, PassSteps

LEMMA EndPassKeeps ==
    ASSUME StatusInv, NEW n \in GwName, EndPass(n)
    PROVE  StatusInv'
<1> DEFINE p == work[n]
<1>1. /\ p.pc = "objects" /\ p.todo = {} /\ asks' = IF p.failed THEN asks \cup {n} ELSE asks
      /\ work' = [work EXCEPT ![n] = Idle]
      /\ UNCHANGED <<api, seen, sweep, swept, foreign, lastUid, wakeSweep>>
    BY DEF EndPass, Quietly
<1>2. ReadAsIs(n, api, seen, p, asks)
    BY DEF StatusInv
<1>3. ReadAsIs(n, api, seen, Idle, asks')
  <2>1. SUFFICES ASSUME Steady(n, api, seen, Idle, asks')
                 PROVE  /\ GatewayRead(n, api, Idle)
                        /\ \A o \in Object : seen.obj[o] = api.obj[o] /\ Concerns(n, api.obj[o]) => ObjectRead(n, o, api, Idle)
    BY DEF ReadAsIs
  <2>2. Steady(n, api, seen, p, asks)
    BY <2>1, <1>1 DEF Steady
  <2>3. GatewayRead(n, api, Idle)
    BY <2>2, <1>1, <1>2, IdleOwes DEF ReadAsIs, GatewayRead
  <2>4. ASSUME NEW o \in Object, seen.obj[o] = api.obj[o], Concerns(n, api.obj[o]) PROVE ObjectRead(n, o, api, Idle)
    <3>1. ObjectRead(n, o, api, p)
      BY <2>2, <2>4, <1>2 DEF ReadAsIs
    <3>2. Owned(api.obj[o], n) = Wants(n, api.gw[n].spec, api.obj[o])
      BY <3>1, <1>1 DEF ObjectRead
    <3> QED  BY <3>2, IdleOwes DEF ObjectRead
  <2> QED  BY <2>3, <2>4
<1> QED  BY <1>1, <1>3, IdleOwes, PassSteps

\* A step that writes one Gateway's record, of its pass or of a user.
LEMMA GatewaySteps ==
    ASSUME StatusInv, NEW n \in GwName, api' \in ClusterType,
           api'.obj = api.obj, api'.class = api.class, api'.gw = [api.gw EXCEPT ![n] = api'.gw[n]],
           lastUid' \in Nat \ {0},
           \/ api'.gw[n].uid = api.gw[n].uid /\ api.gw[n].uid # 0 /\ api'.gw[n].rv = api.gw[n].rv + 1 /\ lastUid' = lastUid
           \/ api'.gw[n] = NoGateway /\ lastUid' = lastUid
           \/ api'.gw[n].uid = lastUid' /\ lastUid' = lastUid + 1,
           DOMAIN work' = GwName, PassOwes(work'[n], api), \A m \in GwName : m # n => work'[m] = work[m],
           Loudly, UNCHANGED <<seen, asks, foreign, wakeSweep>>
    PROVE  StatusInv'
<1> DEFINE b == api'
           v == lastUid'
<1>1. /\ ClusterOk(api, seen, lastUid) /\ lastUid \in Nat /\ ClassOk(api, seen, sweep, wakeSweep) /\ wakeSweep \in BOOLEAN
      /\ SweepOk(api, sweep, swept) /\ DOMAIN foreign = Object
      /\ \A o \in Object : OthersEntries(api.obj[o]) = foreign[o]
    BY DEF StatusInv
<1>2. /\ DOMAIN work = GwName
      /\ \A m \in GwName : PassOwes(work[m], api) /\ ReadAsIs(m, api, seen, work[m], asks)
    BY DEF StatusInv
<1>3. sweep' = [sweep EXCEPT !.clean = FALSE] /\ swept' = FALSE
    BY DEF Loudly
<1>4. b \in ClusterType /\ v \in Nat
    OBVIOUS
<1> HIDE DEF b, v
<1>5. /\ b.obj = api.obj /\ b.class = api.class /\ b.gw = [api.gw EXCEPT ![n] = b.gw[n]]
      /\ \/ b.gw[n].uid = api.gw[n].uid /\ api.gw[n].uid # 0 /\ b.gw[n].rv = api.gw[n].rv + 1 /\ v = lastUid
         \/ b.gw[n] = NoGateway /\ v = lastUid
         \/ b.gw[n].uid = v /\ v = lastUid + 1
    BY DEF b, v
<1>6. /\ ClusterOk(b, seen, v)
      /\ \A p : PassOwes(p, api) => PassOwes(p, b)
      /\ \A p, d : ReadAsIs(n, b, seen, p, d)
      /\ \A m \in GwName : \A p, d : ReadAsIs(m, api, seen, p, d) => ReadAsIs(m, b, seen, p, d)
      /\ \A sw, wake : ClassOk(api, seen, sw, wake) => ClassOk(b, seen, sw, wake)
    BY <1>1, <1>4, <1>5, GatewayMoves
<1>7. SweepOk(b, sweep', FALSE) /\ ClassOk(b, seen, sweep', wakeSweep)
  <2>1. \A read \in ReportingObject, x \in Object : WasObject(read, api.obj[x]) => WasObject(read, b.obj[x])
    BY <1>5
  <2>2. ClassOk(b, seen, sweep, wakeSweep)
    BY <1>1, <1>6
  <2> QED  BY <1>1, <1>3, <2>1, <2>2, SweepUpset
<1>8. \A m \in GwName : PassOwes(work'[m], b) /\ ReadAsIs(m, b, seen, work'[m], asks)
    BY <1>2, <1>6
<1>9. \A o \in Object : OthersEntries(b.obj[o]) = foreign[o]
    BY <1>1, <1>5
<1> QED  BY <1>1, <1>3, <1>6, <1>7, <1>8, <1>9 DEF StatusInv, b, v

LEMMA WriteGatewayStatusKeeps ==
    ASSUME StatusInv, NEW n \in GwName, WriteGatewayStatus(n)
    PROVE  StatusInv'
<1> DEFINE p == work[n]
           current == p.gw.status = p.gw.spec
           holds == api.gw[n].uid = p.gw.uid /\ PatchHolds(api.gw[n], p.gw)
           q(f) == [p EXCEPT !.pc = "check", !.failed = f]
           g == [api.gw[n] EXCEPT !.status = p.gw.spec, !.rv = @ + 1]
<1>0. DOMAIN work = GwName /\ PassOwes(p, api) /\ p \in PassType /\ ReadAsIs(n, api, seen, p, asks)
    BY DEF StatusInv, PassOwes
<1>1. p.gw \in GatewayRecord /\ p.gw.spec \in Nat /\ p.failed \in BOOLEAN
    BY <1>0 DEF PassType, GatewayRecord
<1>2. /\ p.pc = "gateway" /\ UNCHANGED <<seen, asks, foreign, lastUid, wakeSweep>>
      /\ \/ current /\ work' = [work EXCEPT ![n].pc = "check"] /\ UNCHANGED <<api, sweep, swept>>
         \/ /\ ~current /\ holds /\ work' = [work EXCEPT ![n].pc = "check"]
            /\ api' = [api EXCEPT !.gw[n].status = p.gw.spec, !.gw[n].rv = @ + 1] /\ Loudly
         \/ ~current /\ work' = [work EXCEPT ![n].pc = "check", ![n].failed = TRUE] /\ UNCHANGED <<api, sweep, swept>>
    BY DEF WriteGatewayStatus, Quietly
<1>3. ASSUME NEW f \in BOOLEAN
      PROVE  /\ q(f) \in PassType /\ q(f).pc = "check" /\ q(f).gw = p.gw /\ q(f).objs = p.objs
             /\ q(f).todo = p.todo /\ q(f).failed = f /\ PassOwes(q(f), api)
  <2>1. q(f) \in PassType /\ q(f).pc = "check" /\ q(f).gw = p.gw /\ q(f).objs = p.objs
        /\ q(f).todo = p.todo /\ q(f).failed = f
    BY <1>0 DEF PassType
  <2> HIDE DEF q
  <2> QED  BY <2>1, <1>0, <1>2 DEF PassOwes
<1> DEFINE r == [p EXCEPT !.pc = "check"]
<1>4. /\ r \in PassType /\ r.pc = "check" /\ r.gw = p.gw /\ r.objs = p.objs
      /\ r.todo = p.todo /\ r.failed = p.failed /\ PassOwes(r, api)
  <2>1. r \in PassType /\ r.pc = "check" /\ r.gw = p.gw /\ r.objs = p.objs /\ r.todo = p.todo /\ r.failed = p.failed
    BY <1>0 DEF PassType
  <2> HIDE DEF r
  <2> QED  BY <2>1, <1>0, <1>2 DEF PassOwes
<1>5. CASE current /\ work' = [work EXCEPT ![n].pc = "check"] /\ UNCHANGED <<api, sweep, swept>>
  <2>1. work' = [work EXCEPT ![n] = r]
    BY <1>0, <1>5
  <2> HIDE DEF r
  <2>2. ReadAsIs(n, api, seen, r, asks')
    <3>1. SUFFICES ASSUME Steady(n, api, seen, r, asks)
                   PROVE  /\ GatewayRead(n, api, r)
                          /\ \A o \in Object : seen.obj[o] = api.obj[o] /\ Concerns(n, api.obj[o]) => ObjectRead(n, o, api, r)
      BY <1>2 DEF ReadAsIs
    <3>2. Steady(n, api, seen, p, asks)
      BY <3>1, <1>4 DEF Steady
    <3>3. p.gw = api.gw[n]
      BY <3>2, <1>0, <1>2 DEF ReadAsIs, GatewayRead
    <3>4. GatewayRead(n, api, r)
      BY <3>3, <1>4, <1>5 DEF GatewayRead
    <3>5. ASSUME NEW o \in Object, seen.obj[o] = api.obj[o], Concerns(n, api.obj[o]) PROVE ObjectRead(n, o, api, r)
      <4>1. ObjectRead(n, o, api, p)
        BY <3>2, <3>5, <1>0 DEF ReadAsIs
      <4> QED  BY <4>1, <1>2, <1>4 DEF ObjectRead
    <3> QED  BY <3>4, <3>5
  <2> QED  BY <1>2, <1>4, <1>5, <2>1, <2>2, PassSteps
<1>6. CASE /\ holds /\ work' = [work EXCEPT ![n].pc = "check"]
           /\ api' = [api EXCEPT !.gw[n].status = p.gw.spec, !.gw[n].rv = @ + 1] /\ Loudly
  <2>1. work' = [work EXCEPT ![n] = r]
    BY <1>0, <1>6
  <2> HIDE DEF r
  <2>2. api.gw[n] \in GatewayRecord /\ api \in ClusterType /\ api.gw \in [GwName -> GatewayRecord]
    BY StatusTypes
  <2>3. g \in GatewayRecord /\ g.uid = api.gw[n].uid /\ g.rv = api.gw[n].rv + 1
    <3> DEFINE h == api.gw[n]
               x == p.gw.spec
    <3>1. h.rv \in Nat /\ h \in GatewayRecord /\ x \in Nat
      BY <2>2, <1>1 DEF GatewayRecord
    <3> HIDE DEF h, x
    <3> DEFINE y == h.rv + 1
    <3>2. y \in Nat
      BY <3>1
    <3> HIDE DEF y
    <3>3. [h EXCEPT !.status = x, !.rv = y] \in GatewayRecord
      BY <3>1, <3>2 DEF GatewayRecord
    <3>4. [h EXCEPT !.status = x, !.rv = y].uid = h.uid /\ [h EXCEPT !.status = x, !.rv = y].rv = y
      BY <3>1, <3>2 DEF GatewayRecord
    <3>5. g = [h EXCEPT !.status = x, !.rv = y]
      BY DEF h, x, y
    <3> QED  BY <3>3, <3>4, <3>5 DEF h, y
  <2>4. api' = [api EXCEPT !.gw = [api.gw EXCEPT ![n] = g]]
    BY <1>6, <2>2 DEF ClusterType
  <2> HIDE DEF g
  <2>5. api' \in ClusterType /\ api'.obj = api.obj /\ api'.class = api.class /\ api'.gw = [api.gw EXCEPT ![n] = g]
        /\ api'.gw[n] = g
    BY <2>2, <2>3, <2>4 DEF ClusterType
  <2>6. api.gw[n].uid # 0
    BY <1>0, <1>2, <1>6 DEF PassOwes
  <2>7. lastUid' \in Nat \ {0} /\ lastUid' = lastUid
    BY <1>2 DEF StatusInv
  <2>8. DOMAIN work' = GwName /\ work'[n] = r /\ \A m \in GwName : m # n => work'[m] = work[m]
    BY <1>0, <2>1
  <2>9. api'.gw[n].uid = api.gw[n].uid /\ api.gw[n].uid # 0 /\ api'.gw[n].rv = api.gw[n].rv + 1 /\ lastUid' = lastUid
    BY <2>3, <2>5, <2>6, <2>7
  <2>10. PassOwes(work'[n], api) /\ api'.gw = [api.gw EXCEPT ![n] = api'.gw[n]]
    BY <1>4, <2>5, <2>8
  <2>11. Loudly /\ UNCHANGED <<seen, asks, foreign, wakeSweep>>
    BY <1>2, <1>6
  <2> QED  BY <2>5, <2>7, <2>8, <2>9, <2>10, <2>11, GatewaySteps
<1>7. CASE work' = [work EXCEPT ![n].pc = "check", ![n].failed = TRUE] /\ UNCHANGED <<api, sweep, swept>>
  <2>1. work' = [work EXCEPT ![n] = q(TRUE)]
    BY <1>0, <1>7
  <2>2. q(TRUE).failed = TRUE /\ PassOwes(q(TRUE), api)
    BY <1>3
  <2> HIDE DEF q
  <2>3. ReadAsIs(n, api, seen, q(TRUE), asks')
    BY <2>2 DEF ReadAsIs, Steady
  <2> QED  BY <1>2, <1>7, <2>1, <2>2, <2>3, PassSteps
<1> QED  BY <1>2, <1>5, <1>6, <1>7

\* What is former of others' and of our entries once some are replaced.
LEMMA MergeKeeps ==
    ASSUME NEW r \in ReportingObject, NEW gws, NEW new \in Seq(StatusEntry),
           \A i \in DOMAIN new : new[i].by = "portail",
           NEW q, q.entries = MergeOwned(r, gws, new)
    PROVE  /\ OthersEntries(q) = OthersEntries(r)
           /\ new = <<>> => Reported(q) = Reported(r) \ gws
<1>1. ToSet(q.entries) = {e \in ToSet(r.entries) : ~\E n \in gws : Owns(n, e)} \cup ToSet(new)
    BY MergeHolds
<1>2. \A e \in ToSet(new) : e.by = "portail"
    BY DEF ToSet
<1>3. OthersEntries(q) = OthersEntries(r)
    BY <1>1, <1>2 DEF OthersEntries, Owns
<1>4. ASSUME new = <<>> PROVE Reported(q) = Reported(r) \ gws
  <2>1. ToSet(new) = {}
    BY <1>4 DEF ToSet
  <2>2. ToSet(q.entries) = {e \in ToSet(r.entries) : ~\E n \in gws : Owns(n, e)}
    BY <1>1, <2>1
  <2>3. ASSUME NEW n \in Reported(q) PROVE n \in Reported(r) \ gws
    <3>1. PICK e \in ToSet(q.entries) : e.by = "portail" /\ e.gw = n
      BY DEF Reported
    <3> QED  BY <3>1, <2>2 DEF Reported, Owns
  <2>4. ASSUME NEW n \in Reported(r) \ gws PROVE n \in Reported(q)
    <3>1. PICK e \in ToSet(r.entries) : e.by = "portail" /\ e.gw = n
      BY DEF Reported
    <3>2. e \in ToSet(q.entries)
      BY <3>1, <2>2 DEF Owns
    <3> QED  BY <3>1, <3>2 DEF Reported
  <2> QED  BY <2>3, <2>4
<1> QED  BY <1>3, <1>4

\* A step that writes one object, of a pass, the class pass or others.
LEMMA ObjectSteps ==
    ASSUME StatusInv, NEW o \in Object, api' \in ClusterType,
           api'.gw = api.gw, api'.class = api.class, api'.obj = [api.obj EXCEPT ![o] = api'.obj[o]],
           api'.obj[o].rv = api.obj[o].rv + 1,
           DOMAIN foreign' = Object, \A x \in Object : x # o => foreign'[x] = foreign[x],
           OthersEntries(api'.obj[o]) = foreign'[o],
           DOMAIN work' = GwName, \A m \in GwName : PassOwes(work'[m], api) /\ ReadAsIs(m, api', seen, work'[m], asks),
           SweepOk(api', sweep', swept'), ClassOk(api, seen, sweep', wakeSweep),
           UNCHANGED <<seen, asks, lastUid, wakeSweep>>
    PROVE  StatusInv'
<1> DEFINE b == api'
<1>1. b \in ClusterType /\ ClusterOk(api, seen, lastUid) /\ lastUid \in Nat \ {0} /\ wakeSweep \in BOOLEAN
      /\ \A x \in Object : OthersEntries(api.obj[x]) = foreign[x]
    BY DEF StatusInv
<1> HIDE DEF b
<1>2. /\ b.gw = api.gw /\ b.class = api.class /\ b.obj = [api.obj EXCEPT ![o] = b.obj[o]]
      /\ b.obj[o].rv = api.obj[o].rv + 1
    BY DEF b
<1>3. /\ ClusterOk(b, seen, lastUid)
      /\ \A p : PassOwes(p, api) => PassOwes(p, b)
      /\ \A sw, wake : ClassOk(api, seen, sw, wake) => ClassOk(b, seen, sw, wake)
    BY <1>1, <1>2, ObjectMoves
<1>4. \A m \in GwName : PassOwes(work'[m], b)
    BY <1>3
<1>5. \A x \in Object : OthersEntries(b.obj[x]) = foreign'[x]
  <2>1. ASSUME NEW x \in Object, x # o PROVE b.obj[x] = api.obj[x]
    BY <1>2, <2>1, StatusTypes
  <2>2. OthersEntries(b.obj[o]) = foreign'[o]
    BY DEF b
  <2> QED  BY <1>1, <2>1, <2>2
<1>6. ClassOk(b, seen, sweep', wakeSweep)
    BY <1>3
<1> QED  BY <1>1, <1>3, <1>4, <1>5, <1>6 DEF StatusInv, b

\* The object that a conditional patch writes is the one it read.
LEMMA PatchedRecord ==
    ASSUME api \in ClusterType, NEW o \in Object, NEW m \in Seq(StatusEntry),
           api' = [api EXCEPT !.obj[o].rv = @ + 1, !.obj[o].entries = m]
    PROVE  /\ api' \in ClusterType /\ api'.gw = api.gw /\ api'.class = api.class
           /\ api'.obj = [api.obj EXCEPT ![o] = api'.obj[o]]
           /\ api'.obj[o].rv = api.obj[o].rv + 1 /\ api'.obj[o].entries = m /\ api'.obj[o].targets = api.obj[o].targets
<1> DEFINE h == api.obj[o]
           y == h.rv + 1
           g == [h EXCEPT !.rv = y, !.entries = m]
<1>1. h \in ReportingObject /\ y \in Nat /\ api.obj \in [Object -> ReportingObject]
    BY DEF ClusterType, ReportingObject
<1>2. api' = [api EXCEPT !.obj = [api.obj EXCEPT ![o] = g]]
    BY <1>1 DEF ClusterType
<1> HIDE DEF h, y
<1>3. g \in ReportingObject /\ g.rv = y /\ g.entries = m /\ g.targets = h.targets
    BY <1>1 DEF ReportingObject
<1> HIDE DEF g
<1>4. api' \in ClusterType /\ api'.gw = api.gw /\ api'.class = api.class /\ api'.obj = [api.obj EXCEPT ![o] = g]
  <2> DEFINE f == [api.obj EXCEPT ![o] = g]
  <2>1. f \in [Object -> ReportingObject]
    BY <1>1, <1>3
  <2>2. api' = [api EXCEPT !.obj = f]
    BY <1>2
  <2> HIDE DEF f
  <2>3. api' \in ClusterType /\ api'.gw = api.gw /\ api'.class = api.class /\ api'.obj = f
    BY <2>1, <2>2 DEF ClusterType
  <2> QED  BY <2>3 DEF f
<1>5. api'.obj[o] = g
    BY <1>1, <1>4
<1> QED  BY <1>3, <1>4, <1>5 DEF h, y

LEMMA WriteEntriesKeeps ==
    ASSUME StatusInv, NEW n \in GwName, NEW w, WriteEntries(n, w)
    PROVE  StatusInv'
<1> DEFINE p == work[n]
           current == Owned(w.read, n) = w.new
           q(f) == [p EXCEPT !.todo = @ \ {w}, !.failed = @ \/ f]
<1>0. DOMAIN work = GwName /\ PassOwes(p, api) /\ p \in PassType /\ ReadAsIs(n, api, seen, p, asks)
    BY DEF StatusInv, PassOwes
<1>1. /\ p.pc = "objects" /\ w \in p.todo /\ UNCHANGED <<seen, asks, foreign, lastUid, wakeSweep>>
      /\ \/ current /\ work' = [work EXCEPT ![n].todo = @ \ {w}, ![n].failed = @ \/ FALSE] /\ UNCHANGED <<api, sweep, swept>>
         \/ /\ PatchHolds(api.obj[w.obj], w.read) /\ work' = [work EXCEPT ![n].todo = @ \ {w}, ![n].failed = @ \/ FALSE]
            /\ api' = [api EXCEPT !.obj[w.obj].rv = @ + 1, !.obj[w.obj].entries = MergeOwned(w.read, {n}, w.new)]
            /\ Loudly
         \/ work' = [work EXCEPT ![n].todo = @ \ {w}, ![n].failed = @ \/ TRUE] /\ UNCHANGED <<api, sweep, swept>>
    BY DEF WriteEntries, Quietly
<1>2. w.obj \in Object /\ w.read \in ReportingObject /\ w.new \in Seq(StatusEntry) /\ OwedOk(w, api)
    BY <1>0, <1>1 DEF PassOwes, PassType, OwedWrites
<1>3. ASSUME NEW f \in BOOLEAN
      PROVE  /\ q(f) \in PassType /\ q(f).pc = p.pc /\ q(f).gw = p.gw /\ q(f).objs = p.objs
             /\ q(f).todo = p.todo \ {w} /\ (q(f).failed <=> p.failed \/ f) /\ PassOwes(q(f), api)
  <2> DEFINE T == p.todo \ {w}
             ff == p.failed \/ f
  <2>1. T \in SUBSET OwedWrites /\ ff \in BOOLEAN
    BY <1>0 DEF PassType
  <2>2. q(f) = [p EXCEPT !.todo = T, !.failed = ff]
    OBVIOUS
  <2> HIDE DEF T, ff
  <2>3. q(f) \in PassType /\ q(f).pc = p.pc /\ q(f).gw = p.gw /\ q(f).objs = p.objs /\ q(f).todo = T /\ q(f).failed = ff
    BY <2>1, <2>2, <1>0 DEF PassType
  <2> HIDE DEF q
  <2>4. PassOwes(q(f), api)
    BY <2>3, <1>0, <1>1 DEF PassOwes, T
  <2> QED  BY <2>3, <2>4 DEF T, ff
<1>4. ASSUME NEW f \in BOOLEAN, work' = [work EXCEPT ![n].todo = @ \ {w}, ![n].failed = @ \/ f]
      PROVE  work' = [work EXCEPT ![n] = q(f)]
    BY <1>0, <1>4
<1> HIDE DEF q
<1>5. CASE current /\ work' = [work EXCEPT ![n].todo = @ \ {w}, ![n].failed = @ \/ FALSE] /\ UNCHANGED <<api, sweep, swept>>
  <2> DEFINE r == q(FALSE)
  <2>1. /\ work' = [work EXCEPT ![n] = r] /\ r.pc = p.pc /\ r.gw = p.gw /\ r.todo = p.todo \ {w}
        /\ (r.failed <=> p.failed) /\ PassOwes(r, api)
    BY <1>3, <1>4, <1>5
  <2> HIDE DEF r
  <2>2. ReadAsIs(n, api, seen, r, asks')
    <3>1. SUFFICES ASSUME Steady(n, api, seen, r, asks)
                   PROVE  /\ GatewayRead(n, api, r)
                          /\ \A o \in Object : seen.obj[o] = api.obj[o] /\ Concerns(n, api.obj[o]) => ObjectRead(n, o, api, r)
      BY <1>1 DEF ReadAsIs
    <3>2. Steady(n, api, seen, p, asks)
      BY <3>1, <2>1 DEF Steady
    <3>3. GatewayRead(n, api, r)
      BY <3>2, <2>1, <1>0 DEF ReadAsIs, GatewayRead
    <3>4. ASSUME NEW o \in Object, seen.obj[o] = api.obj[o], Concerns(n, api.obj[o]) PROVE ObjectRead(n, o, api, r)
      <4>1. ObjectRead(n, o, api, p)
        BY <3>2, <3>4, <1>0 DEF ReadAsIs
      <4>2. \/ \E x \in p.todo : x.obj = o /\ x.read = api.obj[o] /\ x.new = Wants(n, api.gw[n].spec, api.obj[o])
            \/ Owned(api.obj[o], n) = Wants(n, api.gw[n].spec, api.obj[o])
        BY <4>1, <1>1 DEF ObjectRead
      <4>3. \/ \E x \in r.todo : x.obj = o /\ x.read = api.obj[o] /\ x.new = Wants(n, api.gw[n].spec, api.obj[o])
            \/ Owned(api.obj[o], n) = Wants(n, api.gw[n].spec, api.obj[o])
        BY <4>2, <2>1, <1>5
      <4> QED  BY <4>3, <2>1, <1>1 DEF ObjectRead
    <3> QED  BY <3>3, <3>4
  <2> QED  BY <1>1, <1>5, <2>1, <2>2, PassSteps
<1>6. CASE /\ PatchHolds(api.obj[w.obj], w.read) /\ work' = [work EXCEPT ![n].todo = @ \ {w}, ![n].failed = @ \/ FALSE]
           /\ api' = [api EXCEPT !.obj[w.obj].rv = @ + 1, !.obj[w.obj].entries = MergeOwned(w.read, {n}, w.new)]
           /\ Loudly
  <2> DEFINE r == q(FALSE)
             o == w.obj
             m == MergeOwned(w.read, {n}, w.new)
             b == api'
  <2>1. /\ work' = [work EXCEPT ![n] = r] /\ r.pc = p.pc /\ r.gw = p.gw /\ r.todo = p.todo \ {w}
        /\ (r.failed <=> p.failed) /\ PassOwes(r, api)
    BY <1>3, <1>4, <1>6
  <2> HIDE DEF r
  <2>2. w.read = api.obj[o] /\ o \in Object
    BY <1>2, <1>6, StatusTypes DEF OwedOk, WasObject, PatchHolds, ReportingObject
  <2>3. m \in Seq(StatusEntry)
    BY <1>2, MergeHolds
  <2>4. /\ b \in ClusterType /\ b.gw = api.gw /\ b.class = api.class
        /\ b.obj = [api.obj EXCEPT ![o] = b.obj[o]]
        /\ b.obj[o].rv = api.obj[o].rv + 1 /\ b.obj[o].entries = m
    BY <1>2, <1>6, <2>3, StatusTypes, PatchedRecord
  <2>5. OthersEntries(b.obj[o]) = foreign[o] /\ DOMAIN foreign = Object
    <3>1. OthersEntries(b.obj[o]) = OthersEntries(w.read)
      BY <1>2, <2>4, MergeKeeps DEF OwedOk
    <3> QED  BY <3>1, <2>2 DEF StatusInv
  <2> HIDE DEF b, m
  <2>6. /\ seen.obj[o] # b.obj[o]
        /\ \A read \in ReportingObject, x \in Object : WasObject(read, api.obj[x]) => WasObject(read, b.obj[x])
        /\ \A k \in GwName : \A x, d : ReadAsIs(k, api, seen, x, d) => ReadAsIs(k, b, seen, x, d)
        /\ ClassOk(api, seen, sweep, wakeSweep)
    <3>1. lastUid \in Nat /\ ClusterOk(api, seen, lastUid) /\ ClassOk(api, seen, sweep, wakeSweep)
      BY DEF StatusInv
    <3> QED  BY <3>1, <2>2, <2>4, ObjectMoves
  <2>7. SweepOk(b, sweep', swept') /\ ClassOk(api, seen, sweep', wakeSweep)
    <3>1. SweepOk(api, sweep, swept)
      BY DEF StatusInv
    <3>2. sweep' = [sweep EXCEPT !.clean = FALSE] /\ swept' = FALSE
      BY <1>6 DEF Loudly
    <3>3. SweepOk(b, sweep', FALSE)
      BY <3>1, <3>2, <2>6, SweepUpset
    <3>4. ClassOk(api, seen, sweep', wakeSweep)
      BY <3>1, <3>2, <2>6, SweepUpset
    <3> QED  BY <3>2, <3>3, <3>4
  <2>8. ReadAsIs(n, b, seen, r, asks)
    <3>1. SUFFICES ASSUME Steady(n, b, seen, r, asks)
                   PROVE  /\ GatewayRead(n, b, r)
                          /\ \A x \in Object : seen.obj[x] = b.obj[x] /\ Concerns(n, b.obj[x]) => ObjectRead(n, x, b, r)
      BY DEF ReadAsIs
    <3>2. Steady(n, b, seen, p, asks)
      BY <3>1, <2>1 DEF Steady
    <3>3. ReadAsIs(n, b, seen, p, asks)
      BY <2>6, <1>0
    <3>4. GatewayRead(n, b, r)
      BY <3>2, <3>3, <2>1 DEF ReadAsIs, GatewayRead
    <3>5. ASSUME NEW x \in Object, seen.obj[x] = b.obj[x], Concerns(n, b.obj[x]) PROVE ObjectRead(n, x, b, r)
      <4>1. ObjectRead(n, x, b, p) /\ x # o
        BY <3>2, <3>3, <3>5, <2>6 DEF ReadAsIs
      <4>2. \/ \E y \in p.todo : y.obj = x /\ y.read = b.obj[x] /\ y.new = Wants(n, b.gw[n].spec, b.obj[x])
            \/ Owned(b.obj[x], n) = Wants(n, b.gw[n].spec, b.obj[x])
        BY <4>1, <1>1 DEF ObjectRead
      <4>3. \/ \E y \in r.todo : y.obj = x /\ y.read = b.obj[x] /\ y.new = Wants(n, b.gw[n].spec, b.obj[x])
            \/ Owned(b.obj[x], n) = Wants(n, b.gw[n].spec, b.obj[x])
        BY <4>1, <4>2, <2>1
      <4> QED  BY <4>3, <2>1, <1>1 DEF ObjectRead
    <3> QED  BY <3>4, <3>5
  <2>9. DOMAIN work' = GwName /\ \A k \in GwName : PassOwes(work'[k], api) /\ ReadAsIs(k, b, seen, work'[k], asks)
    <3>1. \A k \in GwName : PassOwes(work[k], api) /\ ReadAsIs(k, api, seen, work[k], asks)
      BY DEF StatusInv
    <3> QED  BY <3>1, <2>1, <2>6, <2>8, <1>0
  <2>10. DOMAIN foreign' = Object /\ (\A x \in Object : x # o => foreign'[x] = foreign[x]) /\ OthersEntries(b.obj[o]) = foreign'[o]
    BY <1>1, <2>5
  <2> QED  BY <1>1, <2>2, <2>4, <2>7, <2>9, <2>10, ObjectSteps DEF b
<1>7. CASE work' = [work EXCEPT ![n].todo = @ \ {w}, ![n].failed = @ \/ TRUE] /\ UNCHANGED <<api, sweep, swept>>
  <2>1. work' = [work EXCEPT ![n] = q(TRUE)] /\ q(TRUE).failed /\ PassOwes(q(TRUE), api)
    BY <1>3, <1>4, <1>7
  <2>2. ReadAsIs(n, api, seen, q(TRUE), asks')
    BY <2>1 DEF ReadAsIs, Steady
  <2> QED  BY <1>1, <1>7, <2>1, <2>2, PassSteps
<1> QED  BY <1>1, <1>5, <1>6, <1>7

\* A step of the class pass or of a wake that writes nothing.
LEMMA SweepSteps ==
    ASSUME StatusInv, SweepOk(api, sweep', swept'), ClassOk(api, seen, sweep', wakeSweep'), wakeSweep' \in BOOLEAN,
           UNCHANGED <<api, seen, asks, work, foreign, lastUid>>
    PROVE  StatusInv'
    BY DEF StatusInv

LEMMA StartSweepKeeps ==
    ASSUME StatusInv, StartSweep
    PROVE  StatusInv'
<1> DEFINE t == [Asleep EXCEPT !.pc = "conditions", !.class = seen.class]
<1>1. sweep' = t /\ wakeSweep' = FALSE /\ UNCHANGED <<api, seen, asks, work, swept, foreign, lastUid>>
    BY DEF StartSweep
<1>2. t \in SweepType /\ t.pc = "conditions" /\ t.class = seen.class /\ t.todo = {} /\ t.ok
  <2>1. seen.class \in ClassRecord
    BY StatusTypes
  <2> QED  BY <2>1, AsleepFacts DEF SweepType
<1> HIDE DEF t
<1>3. SweepOk(api, sweep, swept) /\ WasObject(seen.class, api.class)
    BY DEF StatusInv, ClusterOk
<1>4. SweepOk(api, t, swept)
    BY <1>2, <1>3 DEF SweepOk
<1>5. ClassOk(api, seen, t, FALSE)
    BY <1>2, <1>3, StatusTypes DEF ClassOk
<1>6. FALSE \in BOOLEAN
    OBVIOUS
<1> QED  BY <1>1, <1>4, <1>5, <1>6, SweepSteps

LEMMA SweepMoves ==
    ASSUME NEW a, NEW sw, NEW done, SweepOk(a, sw, done), NEW t \in SweepType, t.pc \notin {"idle", "remove"}, t.todo = sw.todo
    PROVE  SweepOk(a, t, done)
    BY DEF SweepOk

\* A step that writes the class.
LEMMA ClassSteps ==
    ASSUME StatusInv, api' \in ClusterType, api'.obj = api.obj, api'.gw = api.gw, api'.class.rv = api.class.rv + 1,
           SweepOk(api, sweep', swept'),
           sweep'.pc \in {"conditions", "features"} =>
               sweep'.class \in ClassRecord /\ (WasObject(sweep'.class, api.class) \/ sweep'.class = api'.class),
           UNCHANGED <<seen, asks, work, foreign, lastUid, wakeSweep>>
    PROVE  StatusInv'
<1> DEFINE b == api'
<1>1. b \in ClusterType /\ ClusterOk(api, seen, lastUid) /\ lastUid \in Nat \ {0} /\ wakeSweep \in BOOLEAN
    BY DEF StatusInv
<1> HIDE DEF b
<1>2. b.obj = api.obj /\ b.gw = api.gw /\ b.class.rv = api.class.rv + 1
    BY DEF b
<1>3. /\ ClusterOk(b, seen, lastUid) /\ seen.class # b.class
      /\ \A c \in ClassRecord : WasObject(c, api.class) => WasObject(c, b.class)
      /\ \A p : PassOwes(p, api) => PassOwes(p, b)
      /\ \A m \in GwName : \A p, d : ReadAsIs(m, api, seen, p, d) => ReadAsIs(m, b, seen, p, d)
      /\ \A sw, done : SweepOk(api, sw, done) => SweepOk(b, sw, done)
    BY <1>1, <1>2, ClassMoves
<1>4. ClassOk(b, seen, sweep', wakeSweep)
  <2>1. sweep'.pc \in {"conditions", "features"} =>
            sweep'.class \in ClassRecord /\ (WasObject(sweep'.class, api.class) \/ sweep'.class = b.class)
    BY DEF b
  <2>2. sweep'.pc \in {"conditions", "features"} => sweep'.class \in ClassRecord /\ WasObject(sweep'.class, b.class)
    BY <2>1, <1>3 DEF WasObject
  <2> QED  BY <2>2, <1>3 DEF ClassOk
<1>5. SweepOk(b, sweep', swept')
    BY <1>3
<1>6. /\ DOMAIN work = GwName
      /\ \A m \in GwName : PassOwes(work[m], b) /\ ReadAsIs(m, b, seen, work[m], asks)
    BY <1>3 DEF StatusInv
<1>7. DOMAIN foreign = Object /\ \A o \in Object : OthersEntries(b.obj[o]) = foreign[o]
    BY <1>2 DEF StatusInv
<1> QED  BY <1>1, <1>3, <1>4, <1>5, <1>6, <1>7 DEF StatusInv, b

LEMMA ClassConditionsKeeps ==
    ASSUME StatusInv, ClassConditions
    PROVE  StatusInv'
<1> DEFINE c == sweep.class
           wrote == [c EXCEPT !.cond = c.gen, !.rv = @ + 1]
<1>1. /\ sweep.pc = "conditions" /\ UNCHANGED <<seen, asks, work, wakeSweep, swept, foreign, lastUid>>
      /\ \/ c.cond = c.gen /\ sweep' = [sweep EXCEPT !.pc = "features"] /\ api' = api
         \/ /\ PatchHolds(api.class, c) /\ api' = [api EXCEPT !.class = wrote]
            /\ sweep' = [sweep EXCEPT !.pc = "features", !.class = wrote]
         \/ sweep' = [sweep EXCEPT !.pc = "departed", !.ok = FALSE] /\ api' = api
    BY DEF ClassConditions
<1>2. /\ SweepOk(api, sweep, swept) /\ sweep \in SweepType /\ ClassOk(api, seen, sweep, wakeSweep) /\ wakeSweep \in BOOLEAN
    BY DEF StatusInv, SweepOk
<1>3. c \in ClassRecord /\ WasObject(c, api.class)
    BY <1>1, <1>2 DEF ClassOk
<1>4. CASE c.cond = c.gen /\ sweep' = [sweep EXCEPT !.pc = "features"] /\ api' = api
  <2>1. sweep' \in SweepType /\ sweep'.pc = "features" /\ sweep'.class = c /\ sweep'.todo = sweep.todo /\ sweep'.ok = sweep.ok
    BY <1>2, <1>4, <1>3 DEF SweepType
  <2>2. SweepOk(api, sweep', swept)
    BY <1>2, <2>1, SweepMoves
  <2>3. ClassOk(api, seen, sweep', wakeSweep)
    BY <1>1, <1>2, <1>3, <1>4, <2>1 DEF ClassOk
  <2> QED  BY <1>1, <1>2, <1>4, <2>2, <2>3, SweepSteps
<1>5. CASE /\ PatchHolds(api.class, c) /\ api' = [api EXCEPT !.class = wrote]
           /\ sweep' = [sweep EXCEPT !.pc = "features", !.class = wrote]
  <2>1. c = api.class
    BY <1>3, <1>5, StatusTypes DEF WasObject, PatchHolds, ClassRecord
  <2>2. wrote \in ClassRecord /\ wrote.rv = api.class.rv + 1
    <3> DEFINE y == c.rv + 1
               x == c.gen
    <3>1. x \in Nat /\ y \in Nat /\ y = api.class.rv + 1
      BY <1>3, <2>1 DEF ClassRecord
    <3>2. wrote = [c EXCEPT !.cond = x, !.rv = y]
      OBVIOUS
    <3> HIDE DEF x, y, c
    <3>3. [c EXCEPT !.cond = x, !.rv = y] \in ClassRecord /\ [c EXCEPT !.cond = x, !.rv = y].rv = y
      BY <3>1, <1>3 DEF ClassRecord
    <3> QED  BY <3>1, <3>2, <3>3
  <2> HIDE DEF wrote
  <2>3. api' \in ClusterType /\ api'.obj = api.obj /\ api'.gw = api.gw /\ api'.class = wrote
    BY <1>5, <2>2, StatusTypes DEF ClusterType
  <2>4. sweep' \in SweepType /\ sweep'.pc = "features" /\ sweep'.class = wrote /\ sweep'.todo = sweep.todo
    BY <1>2, <1>5, <2>2 DEF SweepType
  <2>5. SweepOk(api, sweep', swept)
    BY <1>2, <2>4, SweepMoves
  <2> QED  BY <1>1, <2>2, <2>3, <2>4, <2>5, ClassSteps
<1>6. CASE sweep' = [sweep EXCEPT !.pc = "departed", !.ok = FALSE] /\ api' = api
  <2>1. FALSE \in BOOLEAN
    OBVIOUS
  <2>2. sweep' \in SweepType /\ sweep'.pc = "departed" /\ sweep'.todo = sweep.todo /\ ~sweep'.ok
    BY <1>2, <1>3, <1>6, <2>1 DEF SweepType
  <2>3. SweepOk(api, sweep', swept)
    BY <1>2, <2>2, SweepMoves
  <2>4. ClassOk(api, seen, sweep', wakeSweep)
    BY <2>2 DEF ClassOk
  <2> QED  BY <1>1, <1>2, <1>6, <2>3, <2>4, SweepSteps
<1> QED  BY <1>1, <1>4, <1>5, <1>6

LEMMA ClassFeaturesKeeps ==
    ASSUME StatusInv, ClassFeatures
    PROVE  StatusInv'
<1> DEFINE c == sweep.class
           wrote == [api.class EXCEPT !.feats = "current", !.rv = @ + 1]
<1>1. /\ sweep.pc = "features" /\ UNCHANGED <<seen, asks, work, wakeSweep, swept, foreign, lastUid>>
      /\ \/ c.feats = "current" /\ sweep' = [sweep EXCEPT !.pc = "departed"] /\ api' = api
         \/ /\ api' = [api EXCEPT !.class.feats = "current", !.class.rv = @ + 1]
            /\ sweep' = [sweep EXCEPT !.pc = "departed"]
         \/ sweep' = [sweep EXCEPT !.pc = "departed", !.ok = FALSE] /\ api' = api
    BY DEF ClassFeatures
<1>2. /\ SweepOk(api, sweep, swept) /\ sweep \in SweepType /\ ClassOk(api, seen, sweep, wakeSweep) /\ wakeSweep \in BOOLEAN
    BY DEF StatusInv, SweepOk
<1>3. c \in ClassRecord /\ WasObject(c, api.class)
    BY <1>1, <1>2 DEF ClassOk
<1>4. CASE c.feats = "current" /\ sweep' = [sweep EXCEPT !.pc = "departed"] /\ api' = api
  <2>1. sweep' \in SweepType /\ sweep'.pc = "departed" /\ sweep'.todo = sweep.todo /\ sweep'.ok = sweep.ok
    BY <1>2, <1>3, <1>4 DEF SweepType
  <2>2. SweepOk(api, sweep', swept)
    BY <1>2, <2>1, SweepMoves
  <2>3. ClassOk(api, seen, sweep', wakeSweep)
    BY <1>1, <1>2, <1>4, <2>1 DEF ClassOk
  <2> QED  BY <1>1, <1>2, <1>4, <2>2, <2>3, SweepSteps
<1>5. CASE /\ api' = [api EXCEPT !.class.feats = "current", !.class.rv = @ + 1]
           /\ sweep' = [sweep EXCEPT !.pc = "departed"]
  <2>1. api.class \in ClassRecord /\ api \in ClusterType
    BY StatusTypes
  <2>2. wrote \in ClassRecord /\ wrote.rv = api.class.rv + 1
    <3> DEFINE h == api.class
               y == h.rv + 1
    <3>1. y \in Nat /\ h \in ClassRecord
      BY <2>1 DEF ClassRecord
    <3>2. wrote = [h EXCEPT !.feats = "current", !.rv = y]
      OBVIOUS
    <3> HIDE DEF y, h
    <3>3. [h EXCEPT !.feats = "current", !.rv = y] \in ClassRecord /\ [h EXCEPT !.feats = "current", !.rv = y].rv = y
      BY <3>1 DEF ClassRecord
    <3> QED  BY <3>2, <3>3 DEF y, h
  <2>3. api' = [api EXCEPT !.class = wrote]
    BY <1>5, <2>1 DEF ClusterType
  <2> HIDE DEF wrote
  <2>4. api' \in ClusterType /\ api'.obj = api.obj /\ api'.gw = api.gw /\ api'.class = wrote
    BY <2>1, <2>2, <2>3 DEF ClusterType
  <2>5. sweep' \in SweepType /\ sweep'.pc = "departed" /\ sweep'.todo = sweep.todo
    BY <1>2, <1>3, <1>5 DEF SweepType
  <2>6. SweepOk(api, sweep', swept)
    BY <1>2, <2>5, SweepMoves
  <2> QED  BY <1>1, <2>2, <2>4, <2>5, <2>6, ClassSteps
<1>6. CASE sweep' = [sweep EXCEPT !.pc = "departed", !.ok = FALSE] /\ api' = api
  <2>1. FALSE \in BOOLEAN
    OBVIOUS
  <2>2. sweep' \in SweepType /\ sweep'.pc = "departed" /\ sweep'.todo = sweep.todo /\ ~sweep'.ok
    BY <1>2, <1>3, <1>6, <2>1 DEF SweepType
  <2>3. SweepOk(api, sweep', swept)
    BY <1>2, <2>2, SweepMoves
  <2>4. ClassOk(api, seen, sweep', wakeSweep)
    BY <2>2 DEF ClassOk
  <2> QED  BY <1>1, <1>2, <1>6, <2>3, <2>4, SweepSteps
<1> QED  BY <1>1, <1>4, <1>5, <1>6

LEMMA EndSweepKeeps ==
    ASSUME StatusInv, EndSweep
    PROVE  StatusInv'
<1>1. /\ sweep.pc = "remove" /\ sweep.todo = {} /\ sweep' = Asleep
      /\ wakeSweep' = (wakeSweep \/ ~sweep.ok) /\ swept' = (sweep.ok /\ sweep.clean)
      /\ UNCHANGED <<api, seen, asks, work, foreign, lastUid>>
    BY DEF EndSweep
<1>2. /\ SweepOk(api, sweep, swept) /\ ClassOk(api, seen, sweep, wakeSweep)
      /\ wakeSweep \in BOOLEAN /\ sweep.ok \in BOOLEAN /\ sweep.clean \in BOOLEAN
    BY DEF StatusInv, SweepOk, SweepType
<1>3. wakeSweep' \in BOOLEAN /\ swept' \in BOOLEAN
    BY <1>1, <1>2
<1>4. swept' => \A o \in Object : Parted(api, o) = {}
    BY <1>1, <1>2 DEF SweepOk
<1>5. SweepOk(api, Asleep, swept')
    BY <1>3, <1>4, AsleepFacts DEF SweepOk
<1>6. ClassOk(api, seen, Asleep, wakeSweep')
    BY <1>1, <1>2, AsleepFacts DEF ClassOk
<1> QED  BY <1>1, <1>3, <1>5, <1>6, SweepSteps

\* The entries of departed Gateways that a class pass finds.
LEMMA FindDepartedKeeps ==
    ASSUME StatusInv, FindDeparted
    PROVE  StatusInv'
<1> DEFINE of(o) == {n \in Reported(seen.obj[o]) : Departed(seen, n)}
           R == {[obj |-> o, read |-> seen.obj[o], gws |-> of(o)] : o \in {o \in Object : of(o) # {}}}
           clean == (seen = api)
           t == [sweep EXCEPT !.pc = "remove", !.clean = clean, !.todo = R]
<1>1. sweep.pc = "departed" /\ sweep' = t /\ UNCHANGED <<api, seen, asks, work, wakeSweep, swept, foreign, lastUid>>
    BY DEF FindDeparted
<1>2. /\ SweepOk(api, sweep, swept) /\ sweep \in SweepType /\ ClassOk(api, seen, sweep, wakeSweep)
      /\ wakeSweep \in BOOLEAN /\ ClusterOk(api, seen, lastUid)
    BY DEF StatusInv, SweepOk
<1>3. \A o \in Object : seen.obj[o] \in ReportingObject /\ Reported(seen.obj[o]) \subseteq GwName \cup {"elsewhere"}
  <2> SUFFICES ASSUME NEW o \in Object
               PROVE  seen.obj[o] \in ReportingObject /\ Reported(seen.obj[o]) \subseteq GwName \cup {"elsewhere"}
    OBVIOUS
  <2>1. seen.obj[o] \in ReportingObject
    BY StatusTypes
  <2>2. seen.obj[o].entries \in Seq(StatusEntry)
    BY <2>1 DEF ReportingObject
  <2>3. \A e \in ToSet(seen.obj[o].entries) : e \in StatusEntry
    BY <2>2 DEF ToSet
  <2> QED  BY <2>1, <2>3 DEF Reported, StatusEntry
<1>4. R \in SUBSET Removals
    BY <1>3 DEF Removals
<1>5. \A w \in R : w.obj \in Object /\ of(w.obj) # {} /\ w = [obj |-> w.obj, read |-> seen.obj[w.obj], gws |-> of(w.obj)]
    OBVIOUS
<1>6. \A o \in Object : of(o) # {} => \E w \in R : w.obj = o /\ w.read = seen.obj[o] /\ w.gws = of(o)
  <2> SUFFICES ASSUME NEW o \in Object, of(o) # {}
               PROVE  \E w \in R : w.obj = o /\ w.read = seen.obj[o] /\ w.gws = of(o)
    OBVIOUS
  <2> DEFINE r == [obj |-> o, read |-> seen.obj[o], gws |-> of(o)]
  <2>1. r \in R
    OBVIOUS
  <2>2. r.obj = o /\ r.read = seen.obj[o] /\ r.gws = of(o)
    OBVIOUS
  <2> HIDE DEF r, R, of
  <2> QED  BY <2>1, <2>2
<1>7. \A w \in R : WasObject(w.read, api.obj[w.obj]) /\ \A v \in R : v.obj = w.obj => v = w
  <2>1. \A w \in R : w.read = seen.obj[w.obj] /\ w.gws = of(w.obj)
    OBVIOUS
  <2>2. \A w \in R : WasObject(w.read, api.obj[w.obj])
    BY <1>2, <1>5, <2>1 DEF ClusterOk
  <2>3. \A w, v \in R : v.obj = w.obj => v = w
    BY <1>5
  <2> QED  BY <2>2, <2>3
<1>8. clean => \A o \in Object : of(o) = Parted(api, o)
    BY DEF Parted
<1>9. clean \in BOOLEAN /\ (clean => seen = api)
    OBVIOUS
<1> HIDE DEF R, clean, of
<1>10. /\ t \in SweepType /\ t.pc = "remove" /\ t.todo = R /\ t.ok = sweep.ok /\ t.clean = clean
    BY <1>2, <1>4, <1>9 DEF SweepType
<1> HIDE DEF t
<1>11. clean => \A o \in Object : \/ Parted(api, o) = {}
                                  \/ \E w \in R : w.obj = o /\ w.read = api.obj[o] /\ w.gws = Parted(api, o)
    BY <1>6, <1>8, <1>9
<1>12. SweepOk(api, t, swept)
    BY <1>2, <1>7, <1>10, <1>11 DEF SweepOk
<1>13. ClassOk(api, seen, t, wakeSweep)
    BY <1>1, <1>2, <1>10 DEF ClassOk
<1> QED  BY <1>1, <1>2, <1>12, <1>13, SweepSteps

\* A removal answers what was found, or the class pass runs again.
LEMMA RemoveDepartedKeeps ==
    ASSUME StatusInv, NEW w, RemoveDeparted(w)
    PROVE  StatusInv'
<1> DEFINE o == w.obj
           T == sweep.todo \ {w}
           m == MergeOwned(w.read, w.gws, <<>>)
<1>1. /\ sweep.pc = "remove" /\ w \in sweep.todo /\ UNCHANGED <<seen, asks, work, wakeSweep, swept, foreign, lastUid>>
      /\ \/ /\ PatchHolds(api.obj[w.obj], w.read)
            /\ api' = [api EXCEPT !.obj[w.obj].rv = @ + 1, !.obj[w.obj].entries = m]
            /\ sweep' = [sweep EXCEPT !.todo = T]
         \/ sweep' = [sweep EXCEPT !.todo = T, !.ok = FALSE] /\ api' = api
    BY DEF RemoveDeparted
<1>2. /\ SweepOk(api, sweep, swept) /\ sweep \in SweepType /\ ClassOk(api, seen, sweep, wakeSweep)
      /\ wakeSweep \in BOOLEAN /\ ClusterOk(api, seen, lastUid) /\ lastUid \in Nat
    BY DEF StatusInv, SweepOk
<1>3. o \in Object /\ w.read \in ReportingObject /\ WasObject(w.read, api.obj[o]) /\ T \in SUBSET Removals
    BY <1>1, <1>2 DEF SweepOk, SweepType, Removals
<1>4. \A v \in T : v \in sweep.todo /\ v.obj # o
    BY <1>1, <1>2 DEF SweepOk
<1>5. \A v \in T : v.obj \in Object /\ v.read \in ReportingObject
    BY <1>3 DEF Removals
<1>6. CASE sweep' = [sweep EXCEPT !.todo = T, !.ok = FALSE] /\ api' = api
  <2>1. FALSE \in BOOLEAN
    OBVIOUS
  <2> HIDE DEF T
  <2>2. sweep' \in SweepType /\ sweep'.pc = "remove" /\ sweep'.todo = T /\ ~sweep'.ok
    BY <1>1, <1>2, <1>3, <1>6, <2>1 DEF SweepType
  <2>3. SweepOk(api, sweep', swept)
    BY <1>2, <1>4, <2>2 DEF SweepOk
  <2>4. ClassOk(api, seen, sweep', wakeSweep)
    BY <2>2 DEF ClassOk
  <2> QED  BY <1>1, <1>2, <1>6, <2>3, <2>4, SweepSteps
<1>7. CASE /\ PatchHolds(api.obj[w.obj], w.read)
           /\ api' = [api EXCEPT !.obj[w.obj].rv = @ + 1, !.obj[w.obj].entries = m]
           /\ sweep' = [sweep EXCEPT !.todo = T]
  <2> DEFINE b == api'
  <2>1. w.read = api.obj[o]
    BY <1>3, <1>7, StatusTypes DEF WasObject, PatchHolds, ReportingObject
  <2>2. <<>> \in Seq(StatusEntry) /\ \A i \in DOMAIN <<>> : <<>>[i].by = "portail"
    OBVIOUS
  <2>3. m \in Seq(StatusEntry)
    BY <1>3, <2>2, MergeHolds
  <2>4. /\ b \in ClusterType /\ b.gw = api.gw /\ b.class = api.class
        /\ b.obj = [api.obj EXCEPT ![o] = b.obj[o]]
        /\ b.obj[o].rv = api.obj[o].rv + 1 /\ b.obj[o].entries = m
    BY <1>3, <1>7, <2>3, StatusTypes, PatchedRecord
  <2>5. OthersEntries(b.obj[o]) = OthersEntries(w.read) /\ Reported(b.obj[o]) = Reported(w.read) \ w.gws
    <3> DEFINE q == b.obj[o]
               r == w.read
               gws == w.gws
               new == <<>>
    <3>1. q.entries = MergeOwned(r, gws, new) /\ new \in Seq(StatusEntry) /\ r \in ReportingObject
          /\ (\A i \in DOMAIN new : new[i].by = "portail")
      BY <1>3, <2>2, <2>4
    <3> HIDE DEF q, r, gws, new
    <3>2. OthersEntries(q) = OthersEntries(r) /\ (new = <<>> => Reported(q) = Reported(r) \ gws)
      BY <3>1, MergeKeeps
    <3> QED  BY <3>2 DEF q, r, gws, new
  <2>6. OthersEntries(b.obj[o]) = foreign[o] /\ DOMAIN foreign = Object
    BY <1>3, <2>1, <2>5 DEF StatusInv
  <2> HIDE DEF b, m, T
  <2>7. sweep' \in SweepType /\ sweep'.pc = "remove" /\ sweep'.todo = T /\ sweep'.ok = sweep.ok
        /\ sweep'.clean = sweep.clean /\ sweep'.class = sweep.class
    BY <1>1, <1>2, <1>3, <1>7 DEF SweepType
  <2>8. /\ \A read \in ReportingObject, x \in Object : WasObject(read, api.obj[x]) => WasObject(read, b.obj[x])
        /\ \A k \in GwName : \A x, d : ReadAsIs(k, api, seen, x, d) => ReadAsIs(k, b, seen, x, d)
    BY <1>2, <1>3, <2>4, ObjectMoves
  <2>9. ASSUME NEW x \in Object, x # o PROVE b.obj[x] = api.obj[x] /\ Parted(b, x) = Parted(api, x)
    <3>1. b.obj[x] = api.obj[x]
      BY <2>4, <2>9, StatusTypes
    <3> QED  BY <3>1, <2>4 DEF Parted, Departed, There
  <2>10. Parted(b, o) = Parted(api, o) \ w.gws
    BY <2>1, <2>4, <2>5 DEF Parted, Departed, There
  <2>11. SweepOk(b, sweep', swept)
    <3>1. \A v \in T : WasObject(v.read, b.obj[v.obj]) /\ \A z \in T : z.obj = v.obj => z = v
      BY <1>2, <1>4, <1>5, <2>8 DEF SweepOk
    <3>2. swept => \A x \in Object : Parted(b, x) = {}
      BY <1>2, <2>9, <2>10 DEF SweepOk
    <3>3. ASSUME sweep.ok, sweep.clean, NEW x \in Object
          PROVE  \/ Parted(b, x) = {}
                 \/ \E v \in T : v.obj = x /\ v.read = b.obj[x] /\ v.gws = Parted(b, x)
      <4>1. \/ Parted(api, x) = {}
            \/ \E v \in sweep.todo : v.obj = x /\ v.read = api.obj[x] /\ v.gws = Parted(api, x)
        BY <1>1, <1>2, <3>3 DEF SweepOk
      <4>2. CASE x = o
        <5>1. Parted(api, o) = {} \/ w.gws = Parted(api, o)
          <6>1. \A v \in sweep.todo : v.obj = o => v = w
            BY <1>1, <1>2 DEF SweepOk
          <6> QED  BY <4>1, <4>2, <6>1
        <5> QED  BY <5>1, <2>10, <4>2
      <4>3. CASE x # o
        <5>1. \A v \in sweep.todo : v.obj = x => v \in T
          BY <4>3 DEF T
        <5> QED  BY <4>1, <4>3, <5>1, <2>9
      <4> QED  BY <4>2, <4>3
    <3> QED  BY <1>2, <2>7, <3>1, <3>2, <3>3 DEF SweepOk
  <2>12. ClassOk(api, seen, sweep', wakeSweep)
    BY <1>1, <1>2, <2>7 DEF ClassOk
  <2>13. DOMAIN work' = GwName /\ \A k \in GwName : PassOwes(work'[k], api) /\ ReadAsIs(k, b, seen, work'[k], asks)
    <3>1. DOMAIN work = GwName /\ \A k \in GwName : PassOwes(work[k], api) /\ ReadAsIs(k, api, seen, work[k], asks)
      BY DEF StatusInv
    <3> QED  BY <3>1, <1>1, <2>8
  <2>14. /\ DOMAIN foreign' = Object /\ (\A x \in Object : x # o => foreign'[x] = foreign[x])
         /\ OthersEntries(b.obj[o]) = foreign'[o]
    BY <1>1, <2>6
  <2> QED  BY <1>1, <1>3, <2>4, <2>11, <2>12, <2>13, <2>14, ObjectSteps DEF b
<1> QED  BY <1>1, <1>6, <1>7

\* An event delivered or a note taken.
LEMMA SeenSteps ==
    ASSUME StatusInv, ClusterOk(api, seen', lastUid), \A m \in GwName : ReadAsIs(m, api, seen', work[m], asks'),
           ClassOk(api, seen', sweep, wakeSweep'), wakeSweep' \in BOOLEAN,
           UNCHANGED <<api, work, sweep, swept, foreign, lastUid>>
    PROVE  StatusInv'
    BY DEF StatusInv

LEMMA SeeObjectKeeps ==
    ASSUME StatusInv, NEW o \in Object, SeeObject(o)
    PROVE  StatusInv'
<1> DEFINE s == seen'
           g == api.obj[o]
<1>1. /\ s = [seen EXCEPT !.obj[o] = g] /\ asks' = asks \cup MapObject(g, seen.gw)
      /\ UNCHANGED <<api, work, sweep, swept, foreign, lastUid, wakeSweep>>
    BY DEF SeeObject, Quietly
<1>2. ClusterOk(api, seen, lastUid) /\ ClassOk(api, seen, sweep, wakeSweep) /\ wakeSweep \in BOOLEAN
      /\ \A m \in GwName : ReadAsIs(m, api, seen, work[m], asks)
    BY DEF StatusInv
<1>3. /\ s \in ClusterType /\ s.gw = seen.gw /\ s.class = seen.class /\ s.obj[o] = g
      /\ \A x \in Object : x # o => s.obj[x] = seen.obj[x]
  <2>1. g \in ReportingObject /\ seen \in ClusterType
    BY StatusTypes
  <2> HIDE DEF g
  <2> QED  BY <1>1, <2>1 DEF ClusterType
<1> HIDE DEF s
<1>4. ClusterOk(api, s, lastUid)
  <2>1. \A x \in Object : WasObject(s.obj[x], api.obj[x])
    BY <1>2, <1>3 DEF ClusterOk, WasObject
  <2> QED  BY <1>2, <1>3, <2>1 DEF ClusterOk
<1>5. ASSUME NEW m \in GwName PROVE ReadAsIs(m, api, s, work[m], asks')
  <2>1. SUFFICES ASSUME Steady(m, api, s, work[m], asks')
                 PROVE  /\ GatewayRead(m, api, work[m])
                        /\ \A x \in Object : s.obj[x] = api.obj[x] /\ Concerns(m, api.obj[x]) => ObjectRead(m, x, api, work[m])
    BY DEF ReadAsIs
  <2>2. Steady(m, api, seen, work[m], asks)
    BY <2>1, <1>1, <1>3 DEF Steady
  <2>3. ~Concerns(m, g)
    <3>1. m \notin MapObject(g, seen.gw) /\ api.gw[m] = seen.gw[m] /\ api.gw[m].ours
      BY <2>1, <1>1, <1>3 DEF Steady
    <3>2. api.gw[m] # NoGateway
      BY <3>1 DEF NoGateway
    <3> QED  BY <3>1, <3>2 DEF Concerns, MapObject, There
  <2> QED  BY <2>2, <2>3, <1>2, <1>3 DEF ReadAsIs
<1>6. ClassOk(api, s, sweep, wakeSweep)
    BY <1>2, <1>3 DEF ClassOk
<1> QED  BY <1>1, <1>2, <1>4, <1>5, <1>6, SeenSteps DEF s

LEMMA SeeGatewayKeeps ==
    ASSUME StatusInv, NEW n \in GwName, SeeGateway(n)
    PROVE  StatusInv'
<1> DEFINE s == seen'
           g == api.gw[n]
<1>1. /\ s = [seen EXCEPT !.gw[n] = g] /\ asks' = IF There(api.gw, n) THEN asks \cup {n} ELSE asks \ {n}
      /\ UNCHANGED <<api, work, sweep, swept, foreign, lastUid, wakeSweep>>
    BY DEF SeeGateway, Quietly
<1>2. ClusterOk(api, seen, lastUid) /\ ClassOk(api, seen, sweep, wakeSweep) /\ wakeSweep \in BOOLEAN
      /\ \A m \in GwName : ReadAsIs(m, api, seen, work[m], asks)
    BY DEF StatusInv
<1>3. /\ s \in ClusterType /\ s.obj = seen.obj /\ s.class = seen.class /\ s.gw[n] = g
      /\ \A m \in GwName : m # n => s.gw[m] = seen.gw[m]
  <2>1. g \in GatewayRecord /\ seen \in ClusterType
    BY StatusTypes
  <2> HIDE DEF g
  <2> QED  BY <1>1, <2>1 DEF ClusterType
<1> HIDE DEF s
<1>4. ClusterOk(api, s, lastUid)
  <2>1. \A m \in GwName : WasGateway(s.gw[m], api.gw[m], lastUid)
    BY <1>2, <1>3 DEF ClusterOk
  <2> QED  BY <1>2, <1>3, <2>1 DEF ClusterOk
<1>5. ASSUME NEW m \in GwName PROVE ReadAsIs(m, api, s, work[m], asks')
  <2>1. SUFFICES ASSUME Steady(m, api, s, work[m], asks')
                 PROVE  /\ GatewayRead(m, api, work[m])
                        /\ \A x \in Object : s.obj[x] = api.obj[x] /\ Concerns(m, api.obj[x]) => ObjectRead(m, x, api, work[m])
    BY DEF ReadAsIs
  <2>2. m # n
    <3>1. api.gw[m].ours /\ m \notin asks'
      BY <2>1 DEF Steady
    <3>2. There(api.gw, m)
      BY <3>1 DEF There, NoGateway
    <3> QED  BY <3>1, <3>2, <1>1
  <2>3. Steady(m, api, seen, work[m], asks)
    BY <2>1, <2>2, <1>1, <1>3 DEF Steady
  <2> QED  BY <2>3, <1>2, <1>3 DEF ReadAsIs
<1>6. ClassOk(api, s, sweep, wakeSweep)
    BY <1>2, <1>3 DEF ClassOk
<1> QED  BY <1>1, <1>2, <1>4, <1>5, <1>6, SeenSteps DEF s

LEMMA SeeClassKeeps ==
    ASSUME StatusInv, SeeClass
    PROVE  StatusInv'
<1> DEFINE s == seen'
           g == api.class
<1>1. /\ s = [seen EXCEPT !.class = g] /\ asks \subseteq asks' /\ wakeSweep' = TRUE
      /\ UNCHANGED <<api, work, sweep, swept, foreign, lastUid>>
    BY DEF SeeClass, Quietly
<1>2. ClusterOk(api, seen, lastUid) /\ ClassOk(api, seen, sweep, wakeSweep)
      /\ \A m \in GwName : ReadAsIs(m, api, seen, work[m], asks)
    BY DEF StatusInv
<1>3. s \in ClusterType /\ s.obj = seen.obj /\ s.gw = seen.gw /\ s.class = g
  <2>1. g \in ClassRecord /\ seen \in ClusterType
    BY StatusTypes
  <2> HIDE DEF g
  <2> QED  BY <1>1, <2>1 DEF ClusterType
<1> HIDE DEF s
<1>4. ClusterOk(api, s, lastUid)
    BY <1>2, <1>3 DEF ClusterOk, WasObject
<1>5. ASSUME NEW m \in GwName PROVE ReadAsIs(m, api, s, work[m], asks')
  <2>1. ReadAsIs(m, api, seen, work[m], asks')
    BY <1>1, <1>2, ReadStays
  <2> QED  BY <2>1, <1>3 DEF ReadAsIs, Steady
<1>6. ClassOk(api, s, sweep, TRUE)
    BY <1>2 DEF ClassOk
<1>7. TRUE \in BOOLEAN
    OBVIOUS
<1> QED  BY <1>1, <1>4, <1>5, <1>6, <1>7, SeenSteps DEF s

LEMMA ForgetDeletedKeeps ==
    ASSUME StatusInv, ForgetDeleted
    PROVE  StatusInv'
<1>1. wakeSweep' = TRUE /\ UNCHANGED <<api, seen, asks, work, sweep, swept, foreign, lastUid>>
    BY DEF ForgetDeleted, Quietly
<1>2. ClusterOk(api, seen, lastUid) /\ ClassOk(api, seen, sweep, wakeSweep)
      /\ \A m \in GwName : ReadAsIs(m, api, seen, work[m], asks)
    BY DEF StatusInv
<1>3. ClassOk(api, seen, sweep, TRUE)
    BY <1>2 DEF ClassOk
<1>4. TRUE \in BOOLEAN
    OBVIOUS
<1> QED  BY <1>1, <1>2, <1>3, <1>4, SeenSteps

\* A change that others make to an object.
LEMMA OthersChange ==
    ASSUME StatusInv, NEW o \in Object, NEW g \in ReportingObject, g.rv = api.obj[o].rv + 1,
           api' = [api EXCEPT !.obj = [api.obj EXCEPT ![o] = g]],
           DOMAIN foreign' = Object, \A x \in Object : x # o => foreign'[x] = foreign[x],
           OthersEntries(g) = foreign'[o],
           Loudly, UNCHANGED <<seen, asks, work, lastUid, wakeSweep>>
    PROVE  StatusInv'
<1> DEFINE b == api'
           f == [api.obj EXCEPT ![o] = g]
<1>1. f \in [Object -> ReportingObject] /\ f[o] = g
    BY StatusTypes
<1>2. /\ b \in ClusterType /\ b.gw = api.gw /\ b.class = api.class /\ b.obj = [api.obj EXCEPT ![o] = b.obj[o]]
      /\ b.obj[o] = g
  <2>1. b = [api EXCEPT !.obj = f] /\ api \in ClusterType
    BY StatusTypes
  <2> HIDE DEF f
  <2>2. b \in ClusterType /\ b.gw = api.gw /\ b.class = api.class /\ b.obj = f
    BY <1>1, <2>1 DEF ClusterType
  <2> QED  BY <1>1, <2>2 DEF f
<1> HIDE DEF b, f
<1>3. /\ SweepOk(api, sweep, swept) /\ ClassOk(api, seen, sweep, wakeSweep) /\ ClusterOk(api, seen, lastUid) /\ lastUid \in Nat
      /\ DOMAIN work = GwName /\ \A m \in GwName : PassOwes(work[m], api) /\ ReadAsIs(m, api, seen, work[m], asks)
    BY DEF StatusInv
<1>4. /\ \A read \in ReportingObject, x \in Object : WasObject(read, api.obj[x]) => WasObject(read, b.obj[x])
      /\ \A m \in GwName : ReadAsIs(m, b, seen, work[m], asks)
    BY <1>2, <1>3, ObjectMoves
<1>5. sweep' = [sweep EXCEPT !.clean = FALSE] /\ swept' = FALSE
    BY DEF Loudly
<1>6. SweepOk(b, sweep', FALSE)
    BY <1>3, <1>4, <1>5, SweepUpset
<1>7. ClassOk(api, seen, sweep', wakeSweep)
  <2>1. \A read \in ReportingObject, x \in Object : WasObject(read, api.obj[x]) => WasObject(read, api.obj[x])
    OBVIOUS
  <2> QED  BY <2>1, <1>3, <1>5, SweepUpset
<1> QED  BY <1>2, <1>3, <1>4, <1>5, <1>6, <1>7, ObjectSteps DEF b

LEMMA RetargetKeeps ==
    ASSUME StatusInv, NEW o \in Object, Retarget(o)
    PROVE  StatusInv'
<1>1. PICK ns \in SUBSET GwName :
          Changed("targets", [api EXCEPT !.obj[o].targets = ns, !.obj[o].gen = @ + 1, !.obj[o].rv = @ + 1])
    BY DEF Retarget
<1> DEFINE h == api.obj[o]
           x == h.gen + 1
           y == h.rv + 1
           g == [h EXCEPT !.targets = ns, !.gen = x, !.rv = y]
<1>2. h \in ReportingObject /\ x \in Nat /\ y \in Nat /\ api \in ClusterType
    BY StatusTypes DEF ReportingObject
<1>3. api' = [api EXCEPT !.obj = [api.obj EXCEPT ![o] = g]]
    BY <1>1, <1>2 DEF Changed, ClusterType
<1>4. y = api.obj[o].rv + 1 /\ DOMAIN foreign = Object /\ OthersEntries(h) = foreign[o]
    BY DEF StatusInv
<1> HIDE DEF h, x, y
<1>5. g \in ReportingObject /\ g.rv = y /\ g.entries = h.entries
    BY <1>1, <1>2 DEF ReportingObject
<1>6. OthersEntries(g) = OthersEntries(h)
    BY <1>5 DEF OthersEntries
<1> HIDE DEF g
<1>7. Loudly /\ UNCHANGED <<seen, asks, work, lastUid, wakeSweep, foreign>>
    BY <1>1 DEF Retarget, Changed
<1> QED  BY <1>3, <1>4, <1>5, <1>6, <1>7, OthersChange

LEMMA OtherWritesKeeps ==
    ASSUME StatusInv, NEW o \in Object, OtherWrites(o)
    PROVE  StatusInv'
<1> DEFINE e == [by |-> "other", gw |-> "elsewhere", says |-> 1, gen |-> 1]
           h == api.obj[o]
           m == Append(h.entries, e)
           y == h.rv + 1
           g == [h EXCEPT !.entries = m, !.rv = y]
<1>1. /\ Changed("foreign", [api EXCEPT !.obj[o].entries = Append(@, e), !.obj[o].rv = @ + 1])
      /\ foreign' = [foreign EXCEPT ![o] = foreign[o] \cup {e}] /\ lastUid' = lastUid
    BY DEF OtherWrites
<1>2. h \in ReportingObject /\ y \in Nat /\ api \in ClusterType
    BY StatusTypes DEF ReportingObject
<1>3. api' = [api EXCEPT !.obj = [api.obj EXCEPT ![o] = g]]
  <2> HIDE DEF e
  <2> QED  BY <1>1, <1>2 DEF Changed, ClusterType
<1>4. y = api.obj[o].rv + 1 /\ DOMAIN foreign = Object /\ OthersEntries(h) = foreign[o]
    BY DEF StatusInv
<1>5. e \in StatusEntry /\ e.by # "portail"
    BY DEF StatusEntry
<1> HIDE DEF e, h, y
<1>6. h.entries \in Seq(StatusEntry)
    BY <1>2 DEF ReportingObject
<1>7. m \in Seq(StatusEntry) /\ ToSet(m) = ToSet(h.entries) \cup {e}
  <2> DEFINE q == h.entries
  <2>1. q \in Seq(StatusEntry)
    BY <1>6
  <2> HIDE DEF q
  <2>2. Append(q, e) \in Seq(StatusEntry)
    BY <2>1, <1>5
  <2>3. Len(Append(q, e)) = Len(q) + 1 /\ Append(q, e)[Len(q) + 1] = e /\ \A i \in 1 .. Len(q) : Append(q, e)[i] = q[i]
    BY <2>1, <1>5
  <2>4. DOMAIN Append(q, e) = 1 .. Len(q) + 1 /\ DOMAIN q = 1 .. Len(q) /\ Len(q) \in Nat
    BY <2>1, <1>5
  <2>5. ToSet(Append(q, e)) = {Append(q, e)[i] : i \in 1 .. Len(q) + 1} /\ ToSet(q) = {q[i] : i \in 1 .. Len(q)}
    BY <2>4 DEF ToSet
  <2>6. ToSet(Append(q, e)) = ToSet(q) \cup {e}
    BY <2>3, <2>4, <2>5
  <2> QED  BY <2>2, <2>6 DEF q
<1> HIDE DEF m
<1>8. g \in ReportingObject /\ g.rv = y /\ g.entries = m
    BY <1>2, <1>7 DEF ReportingObject
<1>9. OthersEntries(g) = OthersEntries(h) \cup {e}
    BY <1>5, <1>7, <1>8 DEF OthersEntries
<1> HIDE DEF g
<1>10. DOMAIN foreign' = Object /\ foreign'[o] = foreign[o] \cup {e} /\ \A x \in Object : x # o => foreign'[x] = foreign[x]
    BY <1>1, <1>4
<1>11. Loudly /\ UNCHANGED <<seen, asks, work, lastUid, wakeSweep>>
    BY <1>1 DEF Changed
<1> QED  BY <1>3, <1>4, <1>8, <1>9, <1>10, <1>11, OthersChange

\* And to a Gateway's record.
LEMMA GatewayChange ==
    ASSUME StatusInv, NEW n \in GwName, NEW g \in GatewayRecord,
           api' = [api EXCEPT !.gw = [api.gw EXCEPT ![n] = g]],
           \/ g.uid = api.gw[n].uid /\ api.gw[n].uid # 0 /\ g.rv = api.gw[n].rv + 1 /\ lastUid' = lastUid
           \/ g = NoGateway /\ lastUid' = lastUid
           \/ g.uid = lastUid' /\ lastUid' = lastUid + 1,
           Loudly, UNCHANGED <<seen, asks, work, foreign, wakeSweep>>
    PROVE  StatusInv'
<1> DEFINE b == api'
           f == [api.gw EXCEPT ![n] = g]
<1>1. f \in [GwName -> GatewayRecord] /\ f[n] = g
    BY StatusTypes
<1>2. /\ b \in ClusterType /\ b.obj = api.obj /\ b.class = api.class /\ b.gw = [api.gw EXCEPT ![n] = b.gw[n]]
      /\ b.gw[n] = g
  <2>1. b = [api EXCEPT !.gw = f] /\ api \in ClusterType
    BY StatusTypes
  <2> HIDE DEF f
  <2>2. b \in ClusterType /\ b.obj = api.obj /\ b.class = api.class /\ b.gw = f
    BY <1>1, <2>1 DEF ClusterType
  <2> QED  BY <1>1, <2>2 DEF f
<1>3. lastUid' \in Nat \ {0}
    BY DEF StatusInv
<1>4. DOMAIN work = GwName /\ PassOwes(work[n], api)
    BY DEF StatusInv
<1> QED  BY <1>2, <1>3, <1>4, GatewaySteps

LEMMA EditGatewayKeeps ==
    ASSUME StatusInv, NEW n \in GwName, EditGateway(n)
    PROVE  StatusInv'
<1> DEFINE h == api.gw[n]
           x == h.spec + 1
           y == h.rv + 1
           z == ~h.ours
<1>1. /\ h # NoGateway /\ UNCHANGED <<seen, asks, work, foreign, wakeSweep, lastUid>> /\ Loudly
      /\ \/ api' = [api EXCEPT !.gw[n].spec = @ + 1, !.gw[n].rv = @ + 1]
         \/ api' = [api EXCEPT !.gw[n].ours = ~@, !.gw[n].spec = @ + 1, !.gw[n].rv = @ + 1]
         \/ api' = [api EXCEPT !.gw[n] = NoGateway]
    BY DEF EditGateway, Changed, There
<1>2. h \in GatewayRecord /\ x \in Nat /\ y \in Nat /\ api \in ClusterType /\ h.ours \in BOOLEAN
    BY StatusTypes DEF GatewayRecord
<1>3. z \in BOOLEAN
    OBVIOUS
<1>4. h.uid # 0
    BY <1>1 DEF StatusInv, ClusterOk, WasGateway
<1>5. CASE api' = [api EXCEPT !.gw[n].spec = @ + 1, !.gw[n].rv = @ + 1]
  <2> DEFINE g == [h EXCEPT !.spec = x, !.rv = y]
  <2>1. api' = [api EXCEPT !.gw = [api.gw EXCEPT ![n] = g]]
    BY <1>2, <1>5 DEF ClusterType
  <2>2. y = api.gw[n].rv + 1 /\ h = api.gw[n]
    OBVIOUS
  <2> HIDE DEF h, x, y
  <2>3. g \in GatewayRecord /\ g.uid = h.uid /\ g.rv = y
    BY <1>2 DEF GatewayRecord
  <2> HIDE DEF g
  <2> QED  BY <1>1, <1>4, <2>1, <2>2, <2>3, GatewayChange
<1>6. CASE api' = [api EXCEPT !.gw[n].ours = ~@, !.gw[n].spec = @ + 1, !.gw[n].rv = @ + 1]
  <2> DEFINE g == [h EXCEPT !.ours = z, !.spec = x, !.rv = y]
  <2>1. api' = [api EXCEPT !.gw = [api.gw EXCEPT ![n] = g]]
    BY <1>2, <1>6 DEF ClusterType
  <2>2. y = api.gw[n].rv + 1 /\ h = api.gw[n]
    OBVIOUS
  <2> HIDE DEF h, x, y, z
  <2>3. g \in GatewayRecord /\ g.uid = h.uid /\ g.rv = y
    BY <1>2, <1>3 DEF GatewayRecord
  <2> HIDE DEF g
  <2> QED  BY <1>1, <1>4, <2>1, <2>2, <2>3, GatewayChange
<1>7. CASE api' = [api EXCEPT !.gw[n] = NoGateway]
  <2>1. api' = [api EXCEPT !.gw = [api.gw EXCEPT ![n] = NoGateway]]
    BY <1>2, <1>7 DEF ClusterType
  <2>2. NoGateway \in GatewayRecord
    BY DEF NoGateway, GatewayRecord
  <2> QED  BY <1>1, <2>1, <2>2, GatewayChange
<1> QED  BY <1>1, <1>5, <1>6, <1>7

LEMMA RecreateGatewayKeeps ==
    ASSUME StatusInv, NEW n \in GwName, RecreateGateway(n)
    PROVE  StatusInv'
<1> DEFINE g == [uid |-> lastUid + 1, rv |-> 10, spec |-> 10, ours |-> TRUE, status |-> 0]
<1>1. /\ lastUid' = lastUid + 1 /\ api' = [api EXCEPT !.gw[n] = g] /\ Loudly
      /\ UNCHANGED <<seen, asks, work, foreign, wakeSweep>>
    BY DEF RecreateGateway, Changed
<1>2. lastUid \in Nat /\ api \in ClusterType
    BY StatusTypes
<1>3. g \in GatewayRecord /\ g.uid = lastUid'
    BY <1>1, <1>2 DEF GatewayRecord
<1> HIDE DEF g
<1>4. api' = [api EXCEPT !.gw = [api.gw EXCEPT ![n] = g]]
    BY <1>1, <1>2 DEF ClusterType
<1> QED  BY <1>1, <1>3, <1>4, GatewayChange

LEMMA EditClassKeeps ==
    ASSUME StatusInv, EditClass
    PROVE  StatusInv'
<1> DEFINE h == api.class
           x == h.gen + 1
           y == h.rv + 1
<1>1. /\ UNCHANGED <<seen, asks, work, foreign, wakeSweep, lastUid>>
      /\ sweep' = [sweep EXCEPT !.clean = FALSE] /\ swept' = FALSE
      /\ \/ api' = [api EXCEPT !.class.gen = @ + 1, !.class.rv = @ + 1]
         \/ api' = [api EXCEPT !.class.feats = "older", !.class.rv = @ + 1]
    BY DEF EditClass, Changed, Loudly
<1>2. h \in ClassRecord /\ x \in Nat /\ y \in Nat /\ api \in ClusterType
    BY StatusTypes DEF ClassRecord
<1>3. \E g \in ClassRecord : g.rv = api.class.rv + 1 /\ api' = [api EXCEPT !.class = g]
  <2>1. CASE api' = [api EXCEPT !.class.gen = @ + 1, !.class.rv = @ + 1]
    <3> DEFINE g == [h EXCEPT !.gen = x, !.rv = y]
    <3>1. api' = [api EXCEPT !.class = g] /\ y = api.class.rv + 1
      BY <1>2, <2>1 DEF ClusterType
    <3> HIDE DEF h, x, y
    <3>2. g \in ClassRecord /\ g.rv = y
      BY <1>2 DEF ClassRecord
    <3> HIDE DEF g
    <3> QED  BY <3>1, <3>2
  <2>2. CASE api' = [api EXCEPT !.class.feats = "older", !.class.rv = @ + 1]
    <3> DEFINE g == [h EXCEPT !.feats = "older", !.rv = y]
    <3>1. api' = [api EXCEPT !.class = g] /\ y = api.class.rv + 1
      BY <1>2, <2>2 DEF ClusterType
    <3> HIDE DEF h, x, y
    <3>2. g \in ClassRecord /\ g.rv = y
      BY <1>2 DEF ClassRecord
    <3> HIDE DEF g
    <3> QED  BY <3>1, <3>2
  <2> QED  BY <1>1, <2>1, <2>2
<1>4. PICK g \in ClassRecord : g.rv = api.class.rv + 1 /\ api' = [api EXCEPT !.class = g]
    BY <1>3
<1>5. api' \in ClusterType /\ api'.obj = api.obj /\ api'.gw = api.gw /\ api'.class = g
    BY <1>2, <1>4 DEF ClusterType
<1>6. SweepOk(api, sweep, swept) /\ ClassOk(api, seen, sweep, wakeSweep) /\ sweep \in SweepType
    BY DEF StatusInv, SweepOk
<1>7. SweepOk(api, sweep', FALSE)
    BY <1>1, <1>6, SweepUpset
<1>8. sweep'.pc = sweep.pc /\ sweep'.class = sweep.class
    BY <1>1, <1>6 DEF SweepType
<1>9. sweep'.pc \in {"conditions", "features"} => sweep'.class \in ClassRecord /\ WasObject(sweep'.class, api.class)
    BY <1>6, <1>8 DEF ClassOk
<1> QED  BY <1>1, <1>4, <1>5, <1>7, <1>9, ClassSteps

LEMMA StatusSteps == StatusInv /\ [StatusNext]_statusVars => StatusInv'
<1> SUFFICES ASSUME StatusInv, [StatusNext]_statusVars
             PROVE  StatusInv'
    OBVIOUS
<1>1. ASSUME NEW n \in GwName,
             \/ StartPass(n) \/ PublishPass(n) \/ WriteGatewayStatus(n) \/ CheckCurrent(n)
             \/ (\E w \in work[n].todo : WriteEntries(n, w)) \/ EndPass(n)
      PROVE  StatusInv'
    BY <1>1, StartPassKeeps, PublishPassKeeps, WriteGatewayStatusKeeps, CheckCurrentKeeps, WriteEntriesKeeps, EndPassKeeps
<1>2. ASSUME NEW n \in GwName, SeeGateway(n) \/ EditGateway(n) \/ RecreateGateway(n)
      PROVE  StatusInv'
    BY <1>2, SeeGatewayKeeps, EditGatewayKeeps, RecreateGatewayKeeps
<1>3. ASSUME NEW o \in Object, SeeObject(o) \/ Retarget(o) \/ OtherWrites(o)
      PROVE  StatusInv'
    BY <1>3, SeeObjectKeeps, RetargetKeeps, OtherWritesKeeps
<1>4. ASSUME \/ StartSweep \/ ClassConditions \/ ClassFeatures \/ FindDeparted \/ EndSweep
             \/ \E w \in sweep.todo : RemoveDeparted(w)
      PROVE  StatusInv'
    BY <1>4, StartSweepKeeps, ClassConditionsKeeps, ClassFeaturesKeeps, FindDepartedKeeps, EndSweepKeeps, RemoveDepartedKeeps
<1>5. ASSUME SeeClass \/ ForgetDeleted \/ EditClass
      PROVE  StatusInv'
    BY <1>5, SeeClassKeeps, ForgetDeletedKeeps, EditClassKeeps
<1>6. CASE UNCHANGED statusVars
    BY <1>6 DEF statusVars, StatusInv
<1> QED  BY <1>1, <1>2, <1>3, <1>4, <1>5, <1>6 DEF StatusNext, StatusStep

LEMMA StatusInvSettles == StatusInv => StatusesSettle
<1> SUFFICES ASSUME StatusInv
             PROVE  StatusesSettle
    OBVIOUS
<1>1. \A o \in Object : {e \in ToSet(api.obj[o].entries) : e.by # "portail"} = foreign[o]
    BY DEF StatusInv, OthersEntries
<1>2. ASSUME Settled, NEW n \in GwName, api.gw[n].ours
      PROVE  /\ api.gw[n].status = api.gw[n].spec
             /\ \A o \in Object : Owned(api.obj[o], n) = Wants(n, api.gw[n].spec, api.obj[o])
  <2>1. asks = {} /\ seen = api /\ work[n].pc = "idle"
    BY <1>2 DEF Settled
  <2>2. PassOwes(work[n], api) /\ ReadAsIs(n, api, seen, work[n], asks)
    BY DEF StatusInv
  <2>3. Steady(n, api, seen, work[n], asks)
    BY <1>2, <2>1, <2>2 DEF Steady, PassOwes
  <2>4. GatewayRead(n, api, work[n])
    BY <2>2, <2>3 DEF ReadAsIs
  <2>5. ASSUME NEW o \in Object PROVE Owned(api.obj[o], n) = Wants(n, api.gw[n].spec, api.obj[o])
    <3>1. CASE Concerns(n, api.obj[o])
      <4>1. ObjectRead(n, o, api, work[n])
        BY <3>1, <2>1, <2>2, <2>3 DEF ReadAsIs
      <4> QED  BY <4>1, <2>1 DEF ObjectRead
    <3>2. CASE ~Concerns(n, api.obj[o])
      <4>1. n \notin Reported(api.obj[o]) /\ n \notin api.obj[o].targets /\ api.obj[o] \in ReportingObject
        BY <3>2, StatusTypes DEF Concerns
      <4>2. Owned(api.obj[o], n) = <<>>
        BY <4>1, OwnedNone
      <4> QED  BY <4>1, <4>2 DEF Wants
    <3> QED  BY <3>1, <3>2
  <2> QED  BY <2>1, <2>4, <2>5 DEF GatewayRead
<1>3. ASSUME Settled PROVE api.class.cond = api.class.gen /\ api.class.feats = "current"
  <2>1. ~wakeSweep /\ sweep.pc = "idle" /\ seen = api
    BY <1>3 DEF Settled
  <2>2. sweep.ok
    BY <2>1 DEF StatusInv, SweepOk
  <2> QED  BY <2>1, <2>2 DEF StatusInv, ClassOk
<1>4. ASSUME swept, NEW o \in Object, NEW n \in Reported(api.obj[o]) PROVE ~Departed(api, n)
    BY <1>4 DEF StatusInv, SweepOk, Parted
<1> QED  BY <1>1, <1>2, <1>3, <1>4 DEF StatusesSettle, Wants

\* Whatever order writes, conflicts, failures, edits, recreations and events
\* come in, no pass drops another controller's entry, and once every event is
\* handled the statuses of each Gateway of ours, of its objects and of the
\* class are those of the specs as they are (write_gateway_status,
\* write_owned_entries, write_class_status, remove_entries).
THEOREM StatusesCorrect == StatusSpec => []StatusesSettle
<1>1. StatusInit => StatusInv
    BY StatusBegins
<1>2. StatusInv /\ [StatusNext]_statusVars => StatusInv'
    BY StatusSteps
<1>3. StatusInv => StatusesSettle
    BY StatusInvSettles
<1> QED  BY <1>1, <1>2, <1>3, PTL DEF StatusSpec
=============================================================================
