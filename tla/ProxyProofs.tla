----------------------------- MODULE ProxyProofs -----------------------------
(***************************************************************************)
(* Proofs about two components of the proxy that share nothing.            *)
(*                                                                         *)
(* HealthRegistry: no entry hides behind a lowered flag, and probes and    *)
(* ejected backends match, for any addresses, tasks, probes and threshold. *)
(*                                                                         *)
(* H2Bridge: BridgeHolds, for any streams, requests, replies and bounds.   *)
(* BridgeInv follows the bytes of a stream through its task: the frames of *)
(* its request into the pipe, the pieces of its answer out of it.  A stream*)
(* is four records, so each step is first shown to keep StreamOk of these  *)
(* records (the lemmas named ...Ok) and then lifted to the functions they  *)
(* are values of (OneStream, Moves, the lemmas named ...Step).             *)
(***************************************************************************)
EXTENDS HealthRegistry, H2Bridge, WellFoundedInduction, FiniteSetTheorems, SequenceTheorems, TLAPS

-----------------------------------------------------------------------------
(* HealthRegistry. *)

Entry == [status : {"none", "HEALTHY", "PROBING"}, failures : Nat, probe : SUBSET Probe]
Task == [pc : {"idle", "spawn", "attach"}, addr : SUBSET Addr, probe : SUBSET Probe]
ProbeTask == [st : {"none", "asleep", "connecting"}, addr : SUBSET Addr, aborted : BOOLEAN]
Prune == [pc : {"idle", "retain", "scan", "lower", "rescan", "raise"},
          table : SUBSET Addr, todo : SUBSET Addr]

\* The shape of the state, without the bounds of the instance.
Shape ==
    /\ backends \in [Addr -> Entry]
    /\ tracked \in BOOLEAN
    /\ pruner \in [Pruner -> Prune]
    /\ worker \in [Worker -> Task]
    /\ probe \in [Probe -> ProbeTask]
    /\ up \in SUBSET Addr

\* What a reporting task has in hand: nothing, an address to spawn a probe
\* for, or a sleeping probe that no entry holds and nobody aborted.
InHand(w) ==
    \/ worker[w] = IdleWorker
    \/ /\ worker[w].pc = "spawn"
       /\ worker[w].probe = {}
       /\ \E a \in Addr : worker[w].addr = {a}
    \/ /\ worker[w].pc = "attach"
       /\ \E a \in Addr, q \in Probe :
            /\ worker[w].addr = {a}
            /\ worker[w].probe = {q}
            /\ probe[q].st = "asleep"
            /\ probe[q].addr = {a}
            /\ ~probe[q].aborted
            /\ \A b \in Addr : q \notin backends[b].probe

Hands == \A w \in Worker : InHand(w)

\* No two tasks are about to attach the same probe.
Apart == \A v, w \in Worker : v # w => \A q \in worker[v].probe : q \notin worker[w].probe

\* The handle an entry holds is of a probe of its address, or of an ended one.
Handles == \A a \in Addr : \A q \in backends[a].probe : probe[q] = NoProbe \/ probe[q].addr = {a}

\* A place nobody uses carries no mark of an abort.
Unmarked == \A q \in Probe : probe[q].st = "none" => probe[q] = NoProbe

ProbeInv == Shape /\ Hands /\ Apart /\ Handles /\ Unmarked /\ EjectedIsProbed /\ NoStrayProbe

-----------------------------------------------------------------------------
LEMMA InitInv == HealthInit => ProbeInv /\ NoEntryUntracked
<1> SUFFICES ASSUME HealthInit PROVE ProbeInv /\ NoEntryUntracked
  OBVIOUS
<1>1. Shape
  <2>1. NoEntry \in Entry /\ IdlePruner \in Prune /\ IdleWorker \in Task /\ NoProbe \in ProbeTask
    BY DEF Entry, Task, ProbeTask, Prune, NoEntry, IdlePruner, IdleWorker, NoProbe
  <2> QED
    BY <2>1 DEF HealthInit, Shape
<1>2. Hands
  BY DEF HealthInit, Hands, InHand
<1>3. Apart
  BY DEF HealthInit, Apart, IdleWorker
<1>4. Handles /\ Unmarked
  BY DEF HealthInit, Handles, Unmarked, NoEntry
<1>5. EjectedIsProbed
  BY DEF HealthInit, EjectedIsProbed, NoEntry
<1>6. NoStrayProbe
  BY DEF HealthInit, NoStrayProbe, NoProbe
<1>7. NoEntryUntracked
  BY DEF HealthInit, NoEntryUntracked, Present
<1> QED
  BY <1>1, <1>2, <1>3, <1>4, <1>5, <1>6, <1>7 DEF ProbeInv

\* The steps that leave entries' handles and status, tasks and probes alone.
LEMMA ShapeOnly ==
    ASSUME ProbeInv, Shape', UNCHANGED <<worker, probe>>,
           \A a \in Addr : /\ backends'[a].probe = backends[a].probe
                           /\ backends'[a].status = "PROBING" => backends[a].status = "PROBING"
    PROVE  ProbeInv'
<1>1. Hands'
  BY DEF ProbeInv, Hands, InHand
<1>2. Apart' /\ Unmarked'
  BY DEF ProbeInv, Apart, Unmarked
<1>3. Handles'
  BY DEF ProbeInv, Handles
<1>4. EjectedIsProbed'
  BY DEF ProbeInv, EjectedIsProbed, Attached, Spawns
<1>5. NoStrayProbe'
  BY DEF ProbeInv, Shape, ProbeTask, NoStrayProbe
<1> QED
  BY <1>1, <1>2, <1>3, <1>4, <1>5 DEF ProbeInv

LEMMA OutsideKeeps ==
    ASSUME ProbeInv, NEW a \in Addr, GoDown(a) \/ ComeUp(a)
    PROVE  ProbeInv'
<1>1. UNCHANGED <<backends, tracked, pruner, worker, probe>> /\ up' \in SUBSET Addr
  BY DEF ProbeInv, Shape, GoDown, ComeUp
<1>2. Shape'
  BY <1>1 DEF ProbeInv, Shape
<1> QED
  BY <1>1, <1>2, ShapeOnly

LEMMA SuccessKeeps ==
    ASSUME ProbeInv, NEW a \in Addr, RecordSuccess(a)
    PROVE  ProbeInv'
<1>1. Shape'
  BY DEF ProbeInv, Shape, RecordSuccess, Entry
<1>2. \A b \in Addr : /\ backends'[b].probe = backends[b].probe
                      /\ backends'[b].status = "PROBING" => backends[b].status = "PROBING"
  BY DEF ProbeInv, Shape, RecordSuccess, Entry
<1>3. UNCHANGED <<worker, probe>>
  BY DEF RecordSuccess
<1> QED
  BY <1>1, <1>2, <1>3, ShapeOnly

LEMMA PrunerKeeps ==
    ASSUME ProbeInv, NEW p \in Pruner,
           PruneBegin(p) \/ PruneScan(p) \/ PruneLower(p) \/ PruneRescan(p) \/ PruneRaise(p)
    PROVE  ProbeInv'
<1>1. UNCHANGED <<backends, worker, probe, up>>
  BY DEF PruneBegin, PruneScan, PruneLower, PruneRescan, PruneRaise
<1>2. tracked' \in BOOLEAN
  BY DEF PruneBegin, PruneScan, PruneLower, PruneRescan, PruneRaise, ProbeInv, Shape
<1>3. pruner' \in [Pruner -> Prune]
  <2>1. pruner[p] \in Prune /\ IdlePruner \in Prune
    BY DEF ProbeInv, Shape, Prune, IdlePruner
  <2>2. ASSUME NEW x \in Prune, pruner' = [pruner EXCEPT ![p] = x]
        PROVE  pruner' \in [Pruner -> Prune]
    BY <2>2 DEF ProbeInv, Shape
  <2>3. ASSUME PruneDone(p) PROVE pruner' \in [Pruner -> Prune]
    BY <2>1, <2>2, <2>3 DEF PruneDone
  <2>4. ASSUME NEW a \in Addr, NEW next \in {"lower", "rescan"}, Scan(p, a, next)
        PROVE  pruner' \in [Pruner -> Prune]
    <3> DEFINE last == [pruner[p] EXCEPT !.pc = next, !.todo = IF next = "scan" THEN Addr ELSE {}]
               more == [pruner[p] EXCEPT !.todo = pruner[p].todo \ {a}]
    <3>1. last \in Prune
      BY <2>1, <2>4 DEF Prune
    <3>2. more \in Prune
      BY <2>1, <2>4 DEF Prune
    <3>3. pruner' = [pruner EXCEPT ![p] = IF pruner[p].todo = {a} THEN last ELSE more]
      BY <2>4 DEF Scan
    <3> QED
      BY <2>2, <3>1, <3>2, <3>3
  <2>5. CASE PruneBegin(p)
    BY <2>2, <2>5 DEF PruneBegin, Prune, ProbeInv, Shape
  <2>6. CASE PruneScan(p)
    BY <2>1, <2>3, <2>4, <2>6 DEF PruneScan, Prune
  <2>7. CASE PruneLower(p)
    BY <2>1, <2>7 DEF PruneLower, ProbeInv, Shape, Prune
  <2>8. CASE PruneRescan(p)
    <3>1. PICK a \in pruner[p].todo :
            IF Present(a) THEN pruner' = [pruner EXCEPT ![p].pc = "raise", ![p].todo = {}]
            ELSE IF pruner[p].todo = {a} THEN PruneDone(p) ELSE Scan(p, a, "rescan")
      BY <2>8 DEF PruneRescan
    <3>2. a \in Addr
      BY <2>1, <3>1 DEF Prune
    <3>3. CASE pruner' = [pruner EXCEPT ![p].pc = "raise", ![p].todo = {}]
      BY <2>1, <3>3 DEF ProbeInv, Shape, Prune
    <3> QED
      BY <2>3, <2>4, <3>1, <3>2, <3>3
  <2>9. CASE PruneRaise(p)
    BY <2>3, <2>9 DEF PruneRaise
  <2> QED
    BY <2>5, <2>6, <2>7, <2>8, <2>9
<1>4. Shape'
  BY <1>1, <1>2, <1>3 DEF ProbeInv, Shape
<1> QED
  BY <1>1, <1>4, ShapeOnly

-----------------------------------------------------------------------------
\* A task that keeps what it has keeps it in hand while its probe sleeps on
\* unaborted and no entry takes it.
LEMMA InHandStays ==
    ASSUME NEW w \in Worker, InHand(w), worker'[w] = worker[w],
           \A q \in worker[w].probe :
               /\ probe'[q] = probe[q]
               /\ \A b \in Addr : q \in backends'[b].probe => q \in backends[b].probe
    PROVE  InHand(w)'
<1>1. CASE worker[w] = IdleWorker
  BY <1>1 DEF InHand
<1>2. CASE worker[w].pc = "spawn" /\ worker[w].probe = {} /\ \E a \in Addr : worker[w].addr = {a}
  BY <1>2 DEF InHand
<1>3. CASE /\ worker[w].pc = "attach"
           /\ \E a \in Addr, q \in Probe :
                /\ worker[w].addr = {a}
                /\ worker[w].probe = {q}
                /\ probe[q].st = "asleep"
                /\ probe[q].addr = {a}
                /\ ~probe[q].aborted
                /\ \A b \in Addr : q \notin backends[b].probe
  BY <1>3 DEF InHand
<1> QED
  BY <1>1, <1>2, <1>3 DEF InHand

\* record_failure: an entry newly ejected is in the hands of the task that
\* ejected it.
LEMMA FailureKeeps ==
    ASSUME ProbeInv, NEW w \in Worker, NEW a \in Addr, RecordFailure(w, a)
    PROVE  ProbeInv'
<1> DEFINE entry == IF Present(a) THEN backends[a] ELSE Healthy
           count == entry.failures + 1
           wins == count >= FAILURE_THRESHOLD /\ entry.status # "PROBING"
           task == [IdleWorker EXCEPT !.pc = "spawn", !.addr = {a}]
           new == [entry EXCEPT !.failures = count, !.status = IF wins THEN "PROBING" ELSE @]
<1>1. task \in Task /\ task.pc = "spawn" /\ task.addr = {a} /\ task.probe = {}
  BY DEF IdleWorker, Task
<1>2. entry \in Entry /\ entry.probe = backends[a].probe
  <2>1. CASE Present(a)
    BY <2>1 DEF ProbeInv, Shape
  <2>2. CASE ~Present(a)
    BY <2>2 DEF Present, Healthy, NoEntry, Entry
  <2> QED
    BY <2>1, <2>2
<1>3. /\ backends' = [backends EXCEPT ![a] = new]
      /\ worker[w].pc = "idle"
      /\ tracked' = TRUE
      /\ worker' = IF wins THEN [worker EXCEPT ![w] = task] ELSE worker
      /\ UNCHANGED <<pruner, probe, up>>
  BY Zenon DEF RecordFailure
<1> HIDE DEF task
<1> HIDE DEF entry
<1>30. new \in Entry /\ new.probe = entry.probe /\ (wins \/ new.status = entry.status)
  <2>1. entry.failures \in Nat /\ count \in Nat
    BY <1>2 DEF Entry
  <2>2. new.probe = entry.probe /\ new.status = (IF wins THEN "PROBING" ELSE entry.status)
    BY <1>2 DEF Entry
  <2>3. new \in Entry
    BY <1>2, <2>1 DEF Entry
  <2> QED
    BY <2>2, <2>3
<1> HIDE DEF new
<1>4. /\ backends' \in [Addr -> Entry]
      /\ \A b \in Addr : backends'[b].probe = backends[b].probe
      /\ \A b \in Addr : b # a => backends'[b].status = backends[b].status
      /\ wins \/ backends'[a].status = entry.status
  BY <1>2, <1>3, <1>30 DEF ProbeInv, Shape
<1>5. worker' \in [Worker -> Task]
  BY <1>1, <1>3 DEF ProbeInv, Shape
<1>6. worker[w] = IdleWorker
  BY <1>3 DEF ProbeInv, Hands, InHand
<1>7. \A v \in Worker : worker'[v] = worker[v] \/ (v = w /\ worker'[v] = task)
  BY <1>3 DEF ProbeInv, Shape
<1>8. Shape'
  BY <1>3, <1>4, <1>5 DEF ProbeInv, Shape
<1>9. Hands'
  <2> SUFFICES ASSUME NEW v \in Worker PROVE InHand(v)'
    BY DEF Hands
  <2>1. CASE worker'[v] = worker[v]
    BY <2>1, <1>3, <1>4, InHandStays DEF ProbeInv, Hands
  <2>2. CASE worker'[v] = task
    BY <2>2, <1>1 DEF InHand
  <2> QED
    BY <2>1, <2>2, <1>7
<1>10. Apart'
  BY <1>7, <1>6, <1>1 DEF ProbeInv, Apart, IdleWorker
<1>11. Handles' /\ Unmarked'
  BY <1>3, <1>4 DEF ProbeInv, Handles, Unmarked
<1>12. EjectedIsProbed'
  <2> SUFFICES ASSUME NEW b \in Addr, backends'[b].status = "PROBING"
               PROVE  Attached(b)' \/ Spawns(b)'
    BY DEF EjectedIsProbed
  <2>1. CASE b = a /\ wins
    <3>1. worker'[w] = task
      BY <2>1, <1>3 DEF ProbeInv, Shape
    <3> QED
      BY <2>1, <3>1, <1>1 DEF Spawns
  <2>2. CASE ~(b = a /\ wins)
    <3>1. backends[b].status = "PROBING"
      BY <2>2, <1>4 DEF entry, Healthy
    <3>2. Attached(b) \/ Spawns(b)
      BY <3>1 DEF ProbeInv, EjectedIsProbed
    <3>3. Attached(b) => Attached(b)'
      BY <1>3, <1>4 DEF Attached
    <3>4. Spawns(b) => Spawns(b)'
      BY <1>6, <1>7 DEF Spawns, IdleWorker
    <3> QED
      BY <3>2, <3>3, <3>4
  <2> QED
    BY <2>1, <2>2
<1>13. NoStrayProbe'
  BY <1>3, <1>4, <1>6, <1>7 DEF ProbeInv, NoStrayProbe, IdleWorker
<1> QED
  BY <1>8, <1>9, <1>10, <1>11, <1>12, <1>13 DEF ProbeInv

\* spawn_probe: a place no entry holds a handle of.
LEMMA SpawnKeeps ==
    ASSUME ProbeInv, NEW w \in Worker, SpawnProbe(w)
    PROVE  ProbeInv'
<1>1. PICK q \in Probe :
        /\ probe[q] = NoProbe
        /\ \A b \in Addr : q \notin backends[b].probe
        /\ probe' = [probe EXCEPT ![q] = [st |-> "asleep", addr |-> worker[w].addr, aborted |-> FALSE]]
        /\ worker' = [worker EXCEPT ![w].pc = "attach", ![w].probe = {q}]
  <2> DEFINE q0 == CHOOSE r \in FreeProbes : TRUE
  <2>1. FreeProbes # {}
    BY DEF SpawnProbe
  <2>2. q0 \in FreeProbes
    BY <2>1
  <2>3. /\ probe' = [probe EXCEPT ![q0] = [st |-> "asleep", addr |-> worker[w].addr, aborted |-> FALSE]]
        /\ worker' = [worker EXCEPT ![w].pc = "attach", ![w].probe = {q0}]
    BY DEF SpawnProbe
  <2> HIDE DEF q0
  <2> QED
    BY <2>2, <2>3 DEF FreeProbes
<1>2. worker[w].pc = "spawn" /\ UNCHANGED <<backends, tracked, pruner, up>>
  BY DEF SpawnProbe
<1>3. worker[w].probe = {} /\ \E a \in Addr : worker[w].addr = {a}
  BY <1>2 DEF ProbeInv, Hands, InHand, IdleWorker
<1>4. PICK a \in Addr : worker[w].addr = {a}
  BY <1>3
<1>5. /\ worker'[w].pc = "attach" /\ worker'[w].addr = {a} /\ worker'[w].probe = {q}
      /\ worker' \in [Worker -> Task]
      /\ \A v \in Worker : v # w => worker'[v] = worker[v]
  BY <1>1, <1>4 DEF ProbeInv, Shape, Task
<1>6. /\ probe'[q] = [st |-> "asleep", addr |-> {a}, aborted |-> FALSE]
      /\ \A r \in Probe : r # q => probe'[r] = probe[r]
  BY <1>1, <1>4 DEF ProbeInv, Shape
<1>7. probe' \in [Probe -> ProbeTask]
  BY <1>1, <1>4 DEF ProbeInv, Shape, ProbeTask
<1>8. Shape'
  BY <1>2, <1>5, <1>7 DEF ProbeInv, Shape
<1>9. \A v \in Worker : q \notin worker[v].probe
  <2> SUFFICES ASSUME NEW v \in Worker, q \in worker[v].probe PROVE FALSE
    OBVIOUS
  <2>1. probe[q].st = "asleep"
    BY DEF ProbeInv, Hands, InHand, IdleWorker
  <2> QED
    BY <2>1, <1>1 DEF NoProbe
<1>10. Hands'
  <2> SUFFICES ASSUME NEW v \in Worker PROVE InHand(v)'
    BY DEF Hands
  <2>1. CASE v = w
    BY <2>1, <1>1, <1>2, <1>5, <1>6 DEF InHand
  <2>2. CASE v # w
    <3>1. \A r \in worker[v].probe : probe'[r] = probe[r]
      BY <1>6, <1>9 DEF ProbeInv, Shape, Task
    <3> QED
      BY <2>2, <3>1, <1>2, <1>5, InHandStays DEF ProbeInv, Hands
  <2> QED
    BY <2>1, <2>2
<1>11. Apart'
  BY <1>5, <1>9 DEF ProbeInv, Apart
<1>12. Handles'
  BY <1>1, <1>2, <1>6 DEF ProbeInv, Shape, Entry, Handles
<1>13. Unmarked'
  BY <1>6 DEF ProbeInv, Unmarked
<1>14. EjectedIsProbed'
  <2> SUFFICES ASSUME NEW b \in Addr, backends[b].status = "PROBING"
               PROVE  Attached(b)' \/ Spawns(b)'
    BY <1>2 DEF EjectedIsProbed
  <2>1. Attached(b) => Attached(b)'
    BY <1>1, <1>2, <1>6 DEF Attached, ProbeInv, Shape, Entry
  <2>2. Spawns(b) => Spawns(b)'
    BY <1>4, <1>5 DEF Spawns
  <2> QED
    BY <2>1, <2>2 DEF ProbeInv, EjectedIsProbed
<1>15. NoStrayProbe'
  <2> SUFFICES ASSUME NEW r \in Probe, probe'[r].st # "none", ~probe'[r].aborted
               PROVE  \/ \E b \in probe'[r].addr : r \in backends'[b].probe
                      \/ \E v \in Worker : worker'[v].pc = "attach" /\ r \in worker'[v].probe
    BY DEF NoStrayProbe
  <2>1. CASE r = q
    BY <2>1, <1>5
  <2>2. CASE r # q
    BY <2>2, <1>2, <1>3, <1>5, <1>6 DEF ProbeInv, NoStrayProbe
  <2> QED
    BY <2>1, <2>2
<1> QED
  BY <1>8, <1>10, <1>11, <1>12, <1>13, <1>14, <1>15 DEF ProbeInv

\* What an abort of some probes changes.
LEMMA AbortedProbes ==
    ASSUME ProbeInv, NEW which \in SUBSET Probe, probe' = Aborted(probe, which)
    PROVE  /\ probe' \in [Probe -> ProbeTask]
           /\ \A q \in Probe : /\ probe'[q].st = probe[q].st
                               /\ probe'[q].addr = probe[q].addr
                               /\ q \notin which => probe'[q] = probe[q]
                               /\ probe[q].st = "none" => probe'[q] = probe[q]
                               /\ q \in which /\ probe[q].st # "none" => probe'[q].aborted
BY DEF Aborted, ProbeInv, Shape, ProbeTask

\* The same entry, but for the handle.
LEMMA AttachKeeps ==
    ASSUME ProbeInv, NEW w \in Worker, AttachProbe(w)
    PROVE  ProbeInv'
<1>1. worker[w].pc = "attach" /\ UNCHANGED <<tracked, pruner, up>>
      /\ worker' = [worker EXCEPT ![w] = IdleWorker]
  BY DEF AttachProbe
<1>2. PICK a \in Addr, q \in Probe :
        /\ worker[w].addr = {a}
        /\ worker[w].probe = {q}
        /\ probe[q].st = "asleep"
        /\ probe[q].addr = {a}
        /\ ~probe[q].aborted
        /\ \A b \in Addr : q \notin backends[b].probe
  <2>1. InHand(w) /\ worker[w].pc # "spawn" /\ worker[w] # IdleWorker
    BY <1>1 DEF ProbeInv, Hands, IdleWorker
  <2> QED
    BY <2>1 DEF InHand
<1> DEFINE gone == IF Present(a) THEN backends[a].probe ELSE {q}
<1>3. IF Present(a)
      THEN /\ probe' = Aborted(probe, backends[a].probe)
           /\ backends' = [backends EXCEPT ![a].probe = {q}]
      ELSE /\ probe' = Aborted(probe, {q})
           /\ UNCHANGED backends
  BY <1>2 DEF AttachProbe
<1>4. gone \in SUBSET Probe /\ probe' = Aborted(probe, gone)
  BY <1>3 DEF ProbeInv, Shape, Entry
<1> HIDE DEF gone
<1>5. /\ probe' \in [Probe -> ProbeTask]
      /\ \A r \in Probe : /\ probe'[r].st = probe[r].st
                          /\ probe'[r].addr = probe[r].addr
                          /\ r \notin gone => probe'[r] = probe[r]
                          /\ probe[r].st = "none" => probe'[r] = probe[r]
                          /\ r \in gone /\ probe[r].st # "none" => probe'[r].aborted
  BY <1>4, AbortedProbes
<1>6. /\ worker' \in [Worker -> Task]
      /\ worker'[w] = IdleWorker
      /\ \A v \in Worker : v # w => worker'[v] = worker[v]
  BY <1>1 DEF ProbeInv, Shape, Task, IdleWorker
<1>7. /\ backends' \in [Addr -> Entry]
      /\ \A b \in Addr : backends'[b].status = backends[b].status
      /\ \A b \in Addr : b # a => backends'[b] = backends[b]
      /\ Present(a) => backends'[a].probe = {q}
      /\ ~Present(a) => backends'[a].probe = backends[a].probe
  BY <1>3 DEF ProbeInv, Shape, Entry
<1>8. Shape'
  BY <1>1, <1>5, <1>6, <1>7 DEF ProbeInv, Shape
<1>9. Hands'
  <2> SUFFICES ASSUME NEW v \in Worker PROVE InHand(v)'
    BY DEF Hands
  <2>1. CASE v = w
    BY <2>1, <1>6 DEF InHand
  <2>2. CASE v # w
    <3>1. q \notin worker[v].probe
      BY <1>2, <2>2 DEF ProbeInv, Apart
    <3>2. \A r \in worker[v].probe : r \in Probe /\ \A b \in Addr : r \notin backends[b].probe
      BY DEF ProbeInv, Hands, InHand, IdleWorker
    <3>3. \A r \in worker[v].probe : r \notin gone
      BY <3>1, <3>2 DEF gone
    <3>4. \A r \in worker[v].probe :
             /\ probe'[r] = probe[r]
             /\ \A b \in Addr : r \in backends'[b].probe => r \in backends[b].probe
      BY <3>1, <3>2, <3>3, <1>5, <1>7
    <3> QED
      BY <2>2, <3>4, <1>6, InHandStays DEF ProbeInv, Hands
  <2> QED
    BY <2>1, <2>2
<1>10. Apart'
  BY <1>6 DEF ProbeInv, Apart, IdleWorker
<1>11. Handles'
  <2> SUFFICES ASSUME NEW b \in Addr, NEW r \in backends'[b].probe
               PROVE  probe'[r] = NoProbe \/ probe'[r].addr = {b}
    BY DEF Handles
  <2>1. CASE r = q /\ b = a
    BY <2>1, <1>2, <1>5
  <2>2. CASE r \in backends[b].probe
    BY <2>2, <1>5 DEF ProbeInv, Shape, Entry, Handles, NoProbe
  <2> QED
    BY <2>1, <2>2, <1>7
<1>12. Unmarked'
  BY <1>5 DEF ProbeInv, Unmarked
<1>13. EjectedIsProbed'
  <2> SUFFICES ASSUME NEW b \in Addr, backends[b].status = "PROBING"
               PROVE  Attached(b)' \/ Spawns(b)'
    BY <1>7 DEF EjectedIsProbed
  <2>1. CASE b = a
    <3>1. Present(a)
      BY <2>1 DEF Present, NoEntry
    <3>2. q \notin gone
      BY <3>1, <1>2 DEF gone
    <3> QED
      BY <2>1, <3>1, <3>2, <1>2, <1>5, <1>7 DEF Attached
  <2>2. CASE b # a
    <3>1. Spawns(b) => Spawns(b)'
      BY <2>2, <1>2, <1>6 DEF Spawns
    <3>2. ASSUME Attached(b) PROVE Attached(b)'
      <4>1. PICK r \in backends[b].probe : probe[r].addr = {b} /\ ~probe[r].aborted
        BY <3>2 DEF Attached
      <4>2. r \in Probe
        BY <4>1 DEF ProbeInv, Shape, Entry
      <4>3. r \notin backends[a].probe
        BY <2>2, <4>1 DEF ProbeInv, Handles, NoProbe
      <4>4. r \notin gone
        BY <4>1, <4>3, <1>2 DEF gone
      <4> QED
        BY <2>2, <4>1, <4>2, <4>4, <1>5, <1>7 DEF Attached
    <3> QED
      BY <3>1, <3>2 DEF ProbeInv, EjectedIsProbed
  <2> QED
    BY <2>1, <2>2
<1>14. NoStrayProbe'
  <2> SUFFICES ASSUME NEW r \in Probe, probe'[r].st # "none", ~probe'[r].aborted
               PROVE  \/ \E b \in probe'[r].addr : r \in backends'[b].probe
                      \/ \E v \in Worker : worker'[v].pc = "attach" /\ r \in worker'[v].probe
    BY DEF NoStrayProbe
  <2>1. r \notin gone /\ probe'[r] = probe[r]
    BY <1>5
  <2>2. CASE r = q
    <3>1. Present(a)
      BY <2>1, <2>2 DEF gone
    <3> QED
      BY <2>1, <2>2, <3>1, <1>2, <1>7
  <2>3. CASE r # q
    <3>1. \/ \E b \in probe[r].addr : r \in backends[b].probe
          \/ \E v \in Worker : worker[v].pc = "attach" /\ r \in worker[v].probe
      BY <2>1 DEF ProbeInv, NoStrayProbe
    <3>2. CASE \E v \in Worker : worker[v].pc = "attach" /\ r \in worker[v].probe
      BY <2>3, <3>2, <1>2, <1>6
    <3>3. CASE \E b \in probe[r].addr : r \in backends[b].probe
      <4>1. PICK b \in probe[r].addr : r \in backends[b].probe
        BY <3>3
      <4>2. b \in Addr
        BY <4>1 DEF ProbeInv, Shape, ProbeTask
      <4>3. b = a => ~Present(a)
        BY <2>1, <4>1 DEF gone
      <4> QED
        BY <2>1, <4>1, <4>2, <4>3, <1>7
    <3> QED
      BY <3>1, <3>2, <3>3
  <2> QED
    BY <2>2, <2>3
<1> QED
  BY <1>8, <1>9, <1>10, <1>11, <1>12, <1>13, <1>14 DEF ProbeInv

-----------------------------------------------------------------------------
\* A probe that ends, when it was aborted or its backend needs it no more.
LEMMA EndKeeps ==
    ASSUME ProbeInv, NEW q \in Probe, ProbeEnds(q), Shape', UNCHANGED worker,
           \A b \in Addr : /\ backends'[b].probe = backends[b].probe
                           /\ backends'[b].status = "PROBING" => backends[b].status = "PROBING",
           \A w \in Worker : q \notin worker[w].probe,
           probe[q].aborted \/ \A b \in probe[q].addr : backends'[b].status # "PROBING"
    PROVE  ProbeInv'
<1>1. probe'[q] = NoProbe /\ \A r \in Probe : r # q => probe'[r] = probe[r]
  BY DEF ProbeEnds, ProbeInv, Shape
<1>2. Hands'
  <2> SUFFICES ASSUME NEW v \in Worker PROVE InHand(v)'
    BY DEF Hands
  <2>1. \A r \in worker[v].probe : probe'[r] = probe[r]
    BY <1>1 DEF ProbeInv, Shape, Task
  <2> QED
    BY <2>1, InHandStays DEF ProbeInv, Hands
<1>3. Apart'
  BY DEF ProbeInv, Apart
<1>4. Handles' /\ Unmarked'
  BY <1>1 DEF ProbeInv, Shape, Entry, Handles, Unmarked
<1>5. EjectedIsProbed'
  <2> SUFFICES ASSUME NEW b \in Addr, backends'[b].status = "PROBING"
               PROVE  Attached(b)' \/ Spawns(b)'
    BY DEF EjectedIsProbed
  <2>1. Spawns(b) => Spawns(b)'
    BY DEF Spawns
  <2>2. ASSUME Attached(b) PROVE Attached(b)'
    <3>1. PICK r \in backends[b].probe : probe[r].addr = {b} /\ ~probe[r].aborted
      BY <2>2 DEF Attached
    <3>2. r \in Probe /\ r # q
      BY <3>1 DEF ProbeInv, Shape, Entry
    <3> QED
      BY <3>1, <3>2, <1>1 DEF Attached
  <2> QED
    BY <2>1, <2>2 DEF ProbeInv, EjectedIsProbed
<1>6. NoStrayProbe'
  <2> SUFFICES ASSUME NEW r \in Probe, probe'[r].st # "none", ~probe'[r].aborted
               PROVE  \/ \E b \in probe'[r].addr : r \in backends'[b].probe
                      \/ \E v \in Worker : worker'[v].pc = "attach" /\ r \in worker'[v].probe
    BY DEF NoStrayProbe
  <2>1. r # q /\ probe'[r] = probe[r]
    BY <1>1 DEF NoProbe
  <2> QED
    BY <2>1 DEF ProbeInv, Shape, ProbeTask, NoStrayProbe
<1> QED
  BY <1>2, <1>3, <1>4, <1>5, <1>6 DEF ProbeInv

\* A probe that sleeps or connects on, for the same address.
LEMMA GoesOnKeeps ==
    ASSUME ProbeInv, NEW q \in Probe, NEW st \in {"asleep", "connecting"},
           probe[q].st # "none",
           probe' = [probe EXCEPT ![q].st = st],
           UNCHANGED <<backends, tracked, pruner, worker, up>>,
           \A w \in Worker : q \notin worker[w].probe
    PROVE  ProbeInv'
<1>1. /\ probe' \in [Probe -> ProbeTask]
      /\ probe'[q].st = st /\ probe'[q].addr = probe[q].addr /\ probe'[q].aborted = probe[q].aborted
      /\ \A r \in Probe : r # q => probe'[r] = probe[r]
  BY DEF ProbeInv, Shape, ProbeTask
<1>2. Shape'
  BY <1>1 DEF ProbeInv, Shape
<1>3. Hands'
  <2> SUFFICES ASSUME NEW v \in Worker PROVE InHand(v)'
    BY DEF Hands
  <2>1. \A r \in worker[v].probe : probe'[r] = probe[r]
    BY <1>1 DEF ProbeInv, Shape, Task
  <2> QED
    BY <2>1, InHandStays DEF ProbeInv, Hands
<1>4. Apart'
  BY DEF ProbeInv, Apart
<1>5. Handles' /\ Unmarked'
  <2>1. \A r \in Probe : probe'[r].addr = probe[r].addr /\ (probe[r] = NoProbe => probe'[r] = NoProbe)
    <3>1. probe[q] # NoProbe
      BY DEF NoProbe
    <3> QED
      BY <1>1, <3>1
  <2>2. Handles'
    BY <2>1 DEF ProbeInv, Shape, Entry, Handles
  <2>3. Unmarked'
    BY <1>1 DEF ProbeInv, Unmarked
  <2> QED
    BY <2>2, <2>3
<1>6. EjectedIsProbed'
  <2> SUFFICES ASSUME NEW b \in Addr, backends[b].status = "PROBING"
               PROVE  Attached(b)' \/ Spawns(b)'
    BY DEF EjectedIsProbed
  <2>1. Spawns(b) => Spawns(b)'
    BY DEF Spawns
  <2>2. Attached(b) => Attached(b)'
    BY <1>1 DEF Attached, ProbeInv, Shape, Entry
  <2> QED
    BY <2>1, <2>2 DEF ProbeInv, EjectedIsProbed
<1>7. NoStrayProbe'
  BY <1>1 DEF ProbeInv, NoStrayProbe
<1> QED
  BY <1>2, <1>3, <1>4, <1>5, <1>6, <1>7 DEF ProbeInv

\* A probe about to be attached is asleep and nobody aborted it.
LEMMA Attending ==
    ASSUME ProbeInv, NEW q \in Probe, probe[q].st = "connecting" \/ probe[q].aborted
    PROVE  \A w \in Worker : q \notin worker[w].probe
<1> SUFFICES ASSUME NEW w \in Worker, q \in worker[w].probe PROVE FALSE
  OBVIOUS
<1>1. InHand(w) /\ worker[w] # IdleWorker /\ worker[w].probe # {}
  BY DEF ProbeInv, Hands, IdleWorker
<1> QED
  BY <1>1 DEF InHand

LEMMA ProbesKeep ==
    ASSUME ProbeInv, NEW q \in Probe, Probing(q) \/ AbortLands(q)
    PROVE  ProbeInv'
<1>1. NoProbe \in ProbeTask
  BY DEF NoProbe, ProbeTask
<1>2. ASSUME ProbeEnds(q), UNCHANGED <<backends, tracked, pruner, worker, up>> PROVE Shape'
  BY <1>1, <1>2 DEF ProbeEnds, ProbeInv, Shape
<1>3. CASE ProbeWakes(q)
  <2>1. /\ probe[q].st = "asleep"
        /\ \A w \in Worker : q \notin worker[w].probe
        /\ UNCHANGED <<backends, tracked, pruner, worker, up>>
    BY <1>3 DEF ProbeWakes
  <2>2. CASE \E a \in probe[q].addr : backends[a].status = "PROBING"
    <3>1. probe' = [probe EXCEPT ![q].st = "connecting"]
      BY <1>3, <2>2 DEF ProbeWakes
    <3> QED
      BY <2>1, <3>1, GoesOnKeeps
  <2>3. CASE ~\E a \in probe[q].addr : backends[a].status = "PROBING"
    <3>1. ProbeEnds(q)
      BY <1>3, <2>3 DEF ProbeWakes
    <3>2. \A b \in probe[q].addr : backends'[b].status # "PROBING"
      BY <2>1, <2>3
    <3>3. \A b \in Addr : /\ backends'[b].probe = backends[b].probe
                          /\ backends'[b].status = "PROBING" => backends[b].status = "PROBING"
      BY <2>1
    <3> QED
      BY <1>2, <2>1, <3>1, <3>2, <3>3, EndKeeps
  <2> QED
    BY <2>2, <2>3
<1>4. CASE ProbeConnects(q)
  <2>1. \A w \in Worker : q \notin worker[w].probe
    BY <1>4, Attending DEF ProbeConnects
  <2>2. /\ ProbeEnds(q) /\ UNCHANGED <<tracked, pruner, worker, up>>
        /\ backends' = [a \in Addr |->
              IF a \in probe[q].addr /\ Present(a)
              THEN [backends[a] EXCEPT !.failures = 0, !.status = "HEALTHY"] ELSE backends[a]]
    BY <1>4 DEF ProbeConnects
  <2>3. \A b \in Addr : /\ backends'[b] \in Entry
                        /\ backends'[b].probe = backends[b].probe
                        /\ backends'[b].status = "PROBING" => backends[b].status = "PROBING"
    BY <2>2 DEF ProbeInv, Shape, Entry
  <2>4. Shape'
    BY <1>1, <2>2, <2>3 DEF ProbeEnds, ProbeInv, Shape
  <2>5. \A b \in probe[q].addr : backends'[b].status # "PROBING"
    <3> SUFFICES ASSUME NEW b \in probe[q].addr PROVE backends'[b].status # "PROBING"
      OBVIOUS
    <3>1. b \in Addr /\ backends[b] \in Entry
      BY DEF ProbeInv, Shape, ProbeTask
    <3>2. CASE Present(b)
      BY <2>2, <3>1, <3>2 DEF Entry
    <3>3. CASE ~Present(b)
      <4>1. backends'[b] = NoEntry
        BY <2>2, <3>1, <3>3 DEF Present
      <4> QED
        BY <4>1 DEF NoEntry
    <3> QED
      BY <3>2, <3>3
  <2> QED
    BY <2>1, <2>2, <2>3, <2>4, <2>5, EndKeeps
<1>5. CASE ProbeFails(q)
  <2>1. \A w \in Worker : q \notin worker[w].probe
    BY <1>5, Attending DEF ProbeFails
  <2> QED
    BY <1>5, <2>1, GoesOnKeeps DEF ProbeFails
<1>6. CASE AbortLands(q)
  <2>1. \A w \in Worker : q \notin worker[w].probe
    BY <1>6, Attending DEF AbortLands
  <2>2. ProbeEnds(q) /\ probe[q].aborted /\ UNCHANGED <<backends, tracked, pruner, worker, up>>
    BY <1>6 DEF AbortLands
  <2>3. Shape'
    BY <1>2, <2>2
  <2>4. \A b \in Addr : /\ backends'[b].probe = backends[b].probe
                        /\ backends'[b].status = "PROBING" => backends[b].status = "PROBING"
    BY <2>2
  <2> QED
    BY <2>1, <2>2, <2>3, <2>4, EndKeeps
<1> QED
  BY <1>3, <1>4, <1>5, <1>6 DEF Probing

-----------------------------------------------------------------------------
\* prune, on one shard: the entry goes and its probe is aborted.
LEMMA RetainKeeps ==
    ASSUME ProbeInv, NEW p \in Pruner, PruneRetain(p)
    PROVE  ProbeInv'
<1>1. PICK a \in pruner[p].todo :
        /\ IF a \in pruner[p].table THEN UNCHANGED <<backends, probe>>
           ELSE /\ probe' = Aborted(probe, backends[a].probe)
                /\ backends' = [backends EXCEPT ![a] = NoEntry]
        /\ Scan(p, a, "scan")
  BY DEF PruneRetain
<1>2. pruner[p] \in Prune /\ a \in Addr /\ UNCHANGED <<tracked, worker, up>>
  BY <1>1 DEF ProbeInv, Shape, Prune, PruneRetain
<1>3. pruner' \in [Pruner -> Prune]
  <2> DEFINE last == [pruner[p] EXCEPT !.pc = "scan", !.todo = IF "scan" = "scan" THEN Addr ELSE {}]
             more == [pruner[p] EXCEPT !.todo = pruner[p].todo \ {a}]
  <2>1. last \in Prune
    BY <1>2 DEF Prune
  <2>2. more \in Prune
    BY <1>2 DEF Prune
  <2>3. pruner' = [pruner EXCEPT ![p] = IF pruner[p].todo = {a} THEN last ELSE more]
    BY <1>1, Zenon DEF Scan
  <2> HIDE DEF last, more
  <2> QED
    BY <2>1, <2>2, <2>3 DEF ProbeInv, Shape
<1>4. CASE a \in pruner[p].table
  <2>1. UNCHANGED <<backends, probe>>
    BY <1>1, <1>4
  <2>2. Shape'
    BY <1>2, <1>3, <2>1 DEF ProbeInv, Shape
  <2> QED
    BY <1>2, <2>1, <2>2, ShapeOnly
<1>5. CASE a \notin pruner[p].table
  <2> DEFINE gone == backends[a].probe
  <2>1. /\ gone \in SUBSET Probe
        /\ probe' = Aborted(probe, gone)
        /\ backends' = [backends EXCEPT ![a] = NoEntry]
    BY <1>1, <1>2, <1>5 DEF ProbeInv, Shape, Entry
  <2>2. /\ probe' \in [Probe -> ProbeTask]
        /\ \A r \in Probe : /\ probe'[r].st = probe[r].st
                            /\ probe'[r].addr = probe[r].addr
                            /\ r \notin gone => probe'[r] = probe[r]
                            /\ probe[r].st = "none" => probe'[r] = probe[r]
                            /\ r \in gone /\ probe[r].st # "none" => probe'[r].aborted
    BY <2>1, AbortedProbes
  <2>3. /\ backends' \in [Addr -> Entry]
        /\ backends'[a].status = "none" /\ backends'[a].probe = {}
        /\ \A b \in Addr : b # a => backends'[b] = backends[b]
    BY <1>2, <2>1 DEF ProbeInv, Shape, Entry, NoEntry
  <2>4. Shape'
    BY <1>2, <1>3, <2>2, <2>3 DEF ProbeInv, Shape
  <2>5. Hands'
    <3> SUFFICES ASSUME NEW v \in Worker PROVE InHand(v)'
      BY DEF Hands
    <3>1. \A r \in worker[v].probe : r \in Probe /\ \A b \in Addr : r \notin backends[b].probe
      BY DEF ProbeInv, Hands, InHand, IdleWorker
    <3>2. \A r \in worker[v].probe :
             /\ probe'[r] = probe[r]
             /\ \A b \in Addr : r \in backends'[b].probe => r \in backends[b].probe
      BY <3>1, <1>2, <2>2, <2>3
    <3> QED
      BY <3>2, <1>2, InHandStays DEF ProbeInv, Hands
  <2>6. Apart'
    BY <1>2 DEF ProbeInv, Apart
  <2>7. Handles'
    BY <2>2, <2>3 DEF ProbeInv, Shape, Entry, Handles, NoProbe
  <2>8. Unmarked'
    BY <2>2 DEF ProbeInv, Unmarked
  <2>9. EjectedIsProbed'
    <3> SUFFICES ASSUME NEW b \in Addr, backends'[b].status = "PROBING"
                 PROVE  Attached(b)' \/ Spawns(b)'
      BY DEF EjectedIsProbed
    <3>1. b # a /\ backends[b].status = "PROBING"
      BY <2>3
    <3>2. Spawns(b) => Spawns(b)'
      BY <1>2 DEF Spawns
    <3>3. ASSUME Attached(b) PROVE Attached(b)'
      <4>1. PICK r \in backends[b].probe : probe[r].addr = {b} /\ ~probe[r].aborted
        BY <3>3 DEF Attached
      <4>0. r \notin gone
        BY <1>2, <3>1, <4>1 DEF ProbeInv, Handles, NoProbe
      <4>2. r \in Probe /\ r \notin gone
        BY <4>0, <4>1 DEF ProbeInv, Shape, Entry
      <4> QED
        BY <3>1, <4>1, <4>2, <2>2, <2>3 DEF Attached
    <3> QED
      BY <3>1, <3>2, <3>3 DEF ProbeInv, EjectedIsProbed
  <2>10. NoStrayProbe'
    <3> SUFFICES ASSUME NEW r \in Probe, probe'[r].st # "none", ~probe'[r].aborted
                 PROVE  \/ \E b \in probe'[r].addr : r \in backends'[b].probe
                        \/ \E v \in Worker : worker'[v].pc = "attach" /\ r \in worker'[v].probe
      BY DEF NoStrayProbe
    <3>1. r \notin gone /\ probe'[r] = probe[r]
      BY <2>2
    <3>2. \A b \in probe[r].addr : b \in Addr
      BY DEF ProbeInv, Shape, ProbeTask
    <3> QED
      BY <3>1, <3>2, <1>2, <2>3 DEF ProbeInv, NoStrayProbe
  <2> QED
    BY <2>4, <2>5, <2>6, <2>7, <2>8, <2>9, <2>10 DEF ProbeInv
<1> QED
  BY <1>4, <1>5

-----------------------------------------------------------------------------
\* The flag.  Only record_failure makes an entry, and it raises the flag.
LEMMA EntriesOnly ==
    ASSUME NoEntryUntracked, UNCHANGED <<tracked, pruner>>,
           \A a \in Addr : Present(a)' => Present(a)
    PROVE  NoEntryUntracked'
BY DEF NoEntryUntracked

\* A prune that is not looking again moves: the entries it answers for are
\* none.
LEMMA OthersAnswer ==
    ASSUME ProbeInv, NoEntryUntracked, UNCHANGED tracked, NEW p \in Pruner,
           pruner[p].pc \notin {"rescan", "raise"},
           \A o \in Pruner : o # p => pruner'[o] = pruner[o],
           \A a \in Addr : Present(a)' => Present(a)
    PROVE  NoEntryUntracked'
BY DEF NoEntryUntracked

LEMMA FlagKept ==
    ASSUME ProbeInv, NoEntryUntracked, HealthNext
    PROVE  NoEntryUntracked'
<1>1. ASSUME NEW a \in Addr, GoDown(a) \/ ComeUp(a) PROVE NoEntryUntracked'
  BY <1>1, EntriesOnly DEF GoDown, ComeUp, Present
<1>2. ASSUME NEW a \in Addr, RecordSuccess(a) PROVE NoEntryUntracked'
  BY <1>2 DEF RecordSuccess, NoEntryUntracked
<1>3. ASSUME NEW w \in Worker, NEW a \in Addr, RecordFailure(w, a) PROVE NoEntryUntracked'
  BY <1>3 DEF RecordFailure, NoEntryUntracked
<1>4. ASSUME NEW w \in Worker, Spawning(w) PROVE NoEntryUntracked'
  <2>1. CASE SpawnProbe(w)
    BY <2>1, EntriesOnly DEF SpawnProbe, Present
  <2>2. CASE AttachProbe(w)
    <3>1. PICK a \in worker[w].addr :
            \/ Present(a) /\ backends' = [backends EXCEPT ![a].probe = worker[w].probe]
            \/ UNCHANGED backends
      BY <2>2 DEF AttachProbe
    <3>2. \A b \in Addr : Present(b)' => Present(b)
      BY <3>1 DEF Present, ProbeInv, Shape
    <3> QED
      BY <2>2, <3>2, EntriesOnly DEF AttachProbe
  <2> QED
    BY <1>4, <2>1, <2>2 DEF Spawning
<1>5. ASSUME NEW q \in Probe, Probing(q) \/ AbortLands(q) PROVE NoEntryUntracked'
  <2>1. CASE ProbeConnects(q)
    <3>1. \A b \in Addr : Present(b)' => Present(b)
      BY <2>1 DEF ProbeConnects, Present
    <3> QED
      BY <2>1, <3>1, EntriesOnly DEF ProbeConnects
  <2>2. CASE ProbeWakes(q) \/ ProbeFails(q) \/ AbortLands(q)
    BY <2>2, EntriesOnly DEF ProbeWakes, ProbeFails, AbortLands, Present
  <2> QED
    BY <1>5, <2>1, <2>2 DEF Probing
<1>6. ASSUME NEW p \in Pruner, PruneBegin(p) \/ Pruning(p) PROVE NoEntryUntracked'
  <2>0. pruner \in [Pruner -> Prune]
    BY DEF ProbeInv, Shape
  <2>1. ASSUME NEW x, pruner' = [pruner EXCEPT ![p] = x]
        PROVE  /\ pruner'[p] = x
               /\ \A o \in Pruner : o # p => pruner'[o] = pruner[o]
    BY <2>0, <2>1
  <2>2. CASE PruneBegin(p)
    BY <2>0, <2>2, OthersAnswer DEF PruneBegin, Present
  <2>3. CASE PruneRetain(p)
    <3>1. \A b \in Addr : Present(b)' => Present(b)
      BY <2>3 DEF PruneRetain, Present, ProbeInv, Shape
    <3>2. \A o \in Pruner : o # p => pruner'[o] = pruner[o]
      BY <2>1, <2>3 DEF PruneRetain, Scan
    <3> QED
      BY <2>3, <3>1, <3>2, OthersAnswer DEF PruneRetain
  <2>4. CASE PruneScan(p)
    <3>1. \A o \in Pruner : o # p => pruner'[o] = pruner[o]
      BY <2>1, <2>4 DEF PruneScan, Scan, PruneDone
    <3> QED
      BY <2>4, <3>1, OthersAnswer DEF PruneScan, Present
  <2>5. CASE PruneLower(p)
    <3>1. pruner'[p].pc = "rescan" /\ pruner'[p].todo = Addr
      BY <2>0, <2>5 DEF PruneLower, Prune
    <3> QED
      BY <3>1 DEF NoEntryUntracked
  <2>6. CASE PruneRescan(p)
    <3>1. PICK a \in pruner[p].todo :
            IF Present(a) THEN pruner' = [pruner EXCEPT ![p].pc = "raise", ![p].todo = {}]
            ELSE IF pruner[p].todo = {a} THEN PruneDone(p) ELSE Scan(p, a, "rescan")
      BY <2>6 DEF PruneRescan
    <3>2. pruner[p].pc = "rescan" /\ UNCHANGED <<backends, tracked>>
      BY <2>6 DEF PruneRescan
    <3>3. CASE Present(a)
      <4>1. pruner'[p].pc = "raise"
        BY <2>0, <3>1, <3>3 DEF Prune
      <4> QED
        BY <4>1 DEF NoEntryUntracked
    <3>4. CASE ~Present(a) /\ pruner[p].todo = {a}
      <4>1. \A o \in Pruner : o # p => pruner'[o] = pruner[o]
        BY <2>1, <3>1, <3>4 DEF PruneDone
      <4> QED
        BY <3>2, <3>4, <4>1 DEF NoEntryUntracked, Present
    <3>5. CASE ~Present(a) /\ pruner[p].todo # {a}
      <4> DEFINE more == [pruner[p] EXCEPT !.todo = pruner[p].todo \ {a}]
      <4>1. pruner' = [pruner EXCEPT ![p] = more]
        BY <3>1, <3>5 DEF Scan
      <4>2. more.pc = "rescan" /\ more.todo = pruner[p].todo \ {a}
        BY <2>0, <3>2 DEF Prune
      <4> HIDE DEF more
      <4>3. pruner'[p] = more /\ \A o \in Pruner : o # p => pruner'[o] = pruner[o]
        BY <2>1, <4>1
      <4> QED
        BY <3>2, <3>5, <4>2, <4>3 DEF NoEntryUntracked, Present
    <3> QED
      BY <3>3, <3>4, <3>5
  <2>7. CASE PruneRaise(p)
    BY <2>7 DEF PruneRaise, NoEntryUntracked
  <2> QED
    BY <1>6, <2>2, <2>3, <2>4, <2>5, <2>6, <2>7 DEF Pruning
<1> QED
  BY <1>1, <1>2, <1>3, <1>4, <1>5, <1>6 DEF HealthNext

-----------------------------------------------------------------------------
LEMMA StepKeeps ==
    ASSUME ProbeInv, [HealthNext]_healthVars
    PROVE  ProbeInv'
<1>1. CASE UNCHANGED healthVars
  <2>1. Shape'
    BY <1>1 DEF healthVars, ProbeInv, Shape
  <2> QED
    BY <1>1, <2>1, ShapeOnly DEF healthVars
<1>2. CASE HealthNext
  <2>1. ASSUME NEW a \in Addr, GoDown(a) \/ ComeUp(a) \/ RecordSuccess(a) PROVE ProbeInv'
    BY <2>1, OutsideKeeps, SuccessKeeps
  <2>2. ASSUME NEW w \in Worker, NEW a \in Addr, RecordFailure(w, a) PROVE ProbeInv'
    BY <2>2, FailureKeeps
  <2>3. ASSUME NEW w \in Worker, Spawning(w) PROVE ProbeInv'
    BY <2>3, SpawnKeeps, AttachKeeps DEF Spawning
  <2>4. ASSUME NEW q \in Probe, Probing(q) \/ AbortLands(q) PROVE ProbeInv'
    BY <2>4, ProbesKeep
  <2>5. ASSUME NEW p \in Pruner, PruneBegin(p) \/ Pruning(p) PROVE ProbeInv'
    BY <2>5, PrunerKeeps, RetainKeeps DEF Pruning
  <2> QED
    BY <1>2, <2>1, <2>2, <2>3, <2>4, <2>5 DEF HealthNext
<1> QED
  BY <1>1, <1>2

LEMMA ProbesInvariant == HealthSpec => []ProbeInv
<1>1. HealthInit => ProbeInv
  BY InitInv
<1>2. ProbeInv /\ [HealthNext]_healthVars => ProbeInv'
  BY StepKeeps
<1> QED
  BY <1>1, <1>2, PTL DEF HealthSpec

(***************************************************************************)
(* Each ejected backend has its probe, each probe its ejected backend      *)
(* (health.rs, record_failure, spawn_probe and prune), for any number of   *)
(* addresses, tasks and prunes and any threshold.                          *)
(***************************************************************************)
THEOREM ProbesAndEjected == HealthSpec => []ProbesMatch
<1>1. ProbeInv => ProbesMatch
  BY DEF ProbeInv, ProbesMatch
<1> QED
  BY <1>1, ProbesInvariant, PTL

(***************************************************************************)
(* "No entry outlives a lowered flag" (health.rs:96), for any number of    *)
(* prunes that race with any number of reports.                            *)
(***************************************************************************)
THEOREM FlagIsHonest == HealthSpec => []NoEntryUntracked
<1>1. HealthInit => NoEntryUntracked
  BY InitInv
<1>2. ProbeInv /\ NoEntryUntracked /\ [HealthNext]_healthVars => NoEntryUntracked'
  <2>1. ASSUME NoEntryUntracked, UNCHANGED healthVars PROVE NoEntryUntracked'
    BY <2>1, EntriesOnly DEF healthVars, Present
  <2> QED
    BY <2>1, FlagKept
<1> QED
  BY <1>1, <1>2, ProbesInvariant, PTL DEF HealthSpec

-----------------------------------------------------------------------------
(* H2Bridge. *)

\* Every set of natural numbers has a least element: the induction principle
\* of this module, from the well-founded inclusion of finite sets.
LEMMA Least ==
    ASSUME NEW S \in SUBSET Nat, S # {}
    PROVE  \E n \in S : \A m \in S : n <= m
<1> DEFINE T == {1 .. n : n \in S}
<1>1. T # {} /\ T \subseteq FiniteSubsetsOf(Nat)
  <2>1. ASSUME NEW n \in S PROVE 1 .. n \in FiniteSubsetsOf(Nat)
    <3>1. IsFiniteSet(1 .. n)
        BY FS_Interval
    <3> QED  BY <3>1 DEF FiniteSubsetsOf
  <2> QED  BY <2>1
<1>2. IsWellFoundedOn(StrictSubsetOrdering(Nat), FiniteSubsetsOf(Nat))
    BY FS_StrictSubsetOrderingWellFounded
<1>3. PICK x \in T : \A y \in T : ~(<<y, x>> \in StrictSubsetOrdering(Nat))
  <2> HIDE DEF T
  <2> QED  BY <1>1, <1>2, WFMin
<1>4. PICK n \in S : x = 1 .. n
    BY <1>3
<1>5. ASSUME NEW m \in S, m < n PROVE FALSE
  <2>1. 1 .. m \in T
      BY <1>5
  <2>2. 1 .. m \subseteq 1 .. n /\ n \in 1 .. n /\ n \notin 1 .. m /\ 1 .. n \subseteq Nat
      BY <1>5
  <2>3. <<1 .. m, 1 .. n>> \in StrictSubsetOrdering(Nat)
      BY <2>2 DEF StrictSubsetOrdering
  <2>4. ~(<<1 .. m, x>> \in StrictSubsetOrdering(Nat))
    <3> HIDE DEF T
    <3> QED  BY <1>3, <2>1
  <2> HIDE DEF T
  <2> QED  BY <1>4, <2>3, <2>4
<1>6. ASSUME NEW m \in S PROVE n <= m
  <2>1. m \in Nat /\ n \in Nat /\ ~(m < n)
      BY <1>5
  <2> QED  BY <2>1
<1> QED  BY <1>6

\* Running sums of a finite sequence of numbers exist.
LEMMA SumsExist ==
    ASSUME NEW L \in Nat, NEW P \in [1..L -> Nat]
    PROVE  \E f \in [0..L -> Nat] : f[0] = 0 /\ \A n \in 1..L : f[n] = f[n - 1] + P[n]
<1> DEFINE Sums(n) == \E f \in [0..n -> Nat] : f[0] = 0 /\ \A m \in 1..n : f[m] = f[m - 1] + P[m]
           B == {n \in 0..L : ~Sums(n)}
<1>1. Sums(0)
    <2> DEFINE z == [i \in 0..0 |-> 0]
    <2>1. z \in [0..0 -> Nat] /\ z[0] = 0 /\ 1..0 = {}
        OBVIOUS
    <2> HIDE DEF z
    <2> QED  BY <2>1
<1>2. ASSUME NEW n \in 0..L, n < L, Sums(n) PROVE Sums(n + 1)
    <2>1. PICK f \in [0..n -> Nat] : f[0] = 0 /\ \A m \in 1..n : f[m] = f[m - 1] + P[m]
        BY <1>2
    <2> DEFINE g == [i \in 0..(n + 1) |-> IF i = n + 1 THEN f[n] + P[n + 1] ELSE f[i]]
    <2>2. P[n + 1] \in Nat /\ f[n] \in Nat
        BY <1>2
    <2>3. g \in [0..(n + 1) -> Nat]
        BY <2>2
    <2>4. g[0] = 0
        BY <2>1
    <2>5. ASSUME NEW m \in 1..(n + 1) PROVE g[m] = g[m - 1] + P[m]
        <3>1. CASE m = n + 1
            BY <3>1
        <3>2. CASE m # n + 1
            BY <3>2, <2>1
        <3> QED  BY <3>1, <3>2
    <2> HIDE DEF g
    <2> QED  BY <2>3, <2>4, <2>5
<1>3. B = {}
    <2> SUFFICES ASSUME B # {} PROVE FALSE
        OBVIOUS
    <2>1. B \in SUBSET Nat
        OBVIOUS
    <2>2. PICK n \in B : \A m \in B : n <= m
        <3> HIDE DEF B
        <3> QED  BY <2>1, Least
    <2> HIDE DEF Sums
    <2>3. n # 0
        BY <1>1
    <2>4. n - 1 \in 0..L /\ n - 1 < L /\ n - 1 < n
        BY <2>2, <2>3
    <2>5. n - 1 \notin B
        BY <2>2, <2>4
    <2>6. Sums(n - 1)
        BY <2>4, <2>5
    <2>7. Sums((n - 1) + 1)
        BY <1>2, <2>4, <2>6
    <2>8. (n - 1) + 1 = n
        BY <2>2
    <2> QED  BY <2>2, <2>7, <2>8
<1> HIDE DEF Sums
<1>4. Sums(L)
    BY <1>3
<1> QED  BY <1>4 DEF Sums

-----------------------------------------------------------------------------
(* The bridge. *)

\* What the fields of the records of a stream hold, and where its task may be:
\* waiting for a permit, writing the request, reading the answer, past it.
H2Pieces == {"head", "chunk", "unit", "last"}
Clients == [sent : Nat, reset : BOOLEAN, upload : Nat, window : Nat, head : BOOLEAN, units : Nat,
            end : {"no", "refused", "whole", "reset"}]
Waiting == {"none", "opened", "acquire"}
Writing == {"head", "pump", "put", "last"}
Passing == {"send", "read"}
Over    == {"wind", "end"}
Bridges == [pc : Waiting \cup Writing \cup {"await"} \cup Passing \cup Over, taken : Nat, size : Nat,
            rest : Seq(H2Pieces), acc : Seq(H2Pieces), got : Nat]
Engines == [st : {"none", "run", "answer", "gone"}, in : Seq(H2Pieces), out : Seq(H2Pieces), units : Nat,
            ended : BOOLEAN, head : BOOLEAN, reply : H2Replies \cup {NoReply}, left : Seq(H2Pieces), aborted : BOOLEAN]

\* Where a stream's task is, and what its engine and its client then are.
PlaceOk(q, c, b, e) ==
    /\ c.sent <= Len(q.frames) /\ b.taken <= c.sent
    /\ b.pc \in Waiting => e.st = "none" /\ b.rest = <<>> /\ b.taken = 0 /\ b.size = 0
    /\ b.pc \in Waiting \cup Writing \cup {"await"} => b.acc = <<>> /\ b.got = 0 /\ c.units = 0
    /\ b.pc \in Writing \cup {"await"} => e.st # "none"
    /\ b.pc \in Passing => e.st \in {"answer", "gone"}
    /\ b.pc \in Over => e.st \in {"none", "gone"}
    /\ b.pc \notin Over => c.end = "no"
    /\ b.pc = "read" => b.acc = <<>>
    /\ e.st = "none" => e.in = <<>> /\ e.units = 0 /\ ~e.ended
    /\ e.st \in {"none", "run"} => e.out = <<>> /\ e.left = <<>> /\ ~e.aborted
    /\ e.st = "answer" => e.left # <<>> /\ ~e.aborted
    /\ e.st = "gone" /\ ~e.aborted /\ b.pc \notin Over => e.left = <<>>
    /\ Len(e.in) <= PipeRoom /\ Len(e.out) <= PipeRoom

\* Every unit of the upload window is the client's, under way or in the pipe.
WindowOk(q, c, b) == c.upload + UnitsIn(q.frames)[c.sent] + b.size = UploadWindow + UnitsIn(q.frames)[b.taken]

\* The request on its way: what the engine read, what the pipe holds and what
\* is left to put make up the frames taken; the last chunk comes last.
CountUnits(u) == Cardinality({j \in 1 .. Len(u) : u[j] = "unit"})
RestUnits(b)  == IF b.pc # "put" THEN 0 ELSE IF b.rest[1] = "chunk" THEN Len(b.rest) - 1 ELSE Len(b.rest)
Complete(q, c, b) == c.sent = Len(q.frames) /\ b.taken = Len(q.frames)
RestOk(q, c, b, e) ==
    /\ b.pc = "head" => b.rest = <<"head">> /\ e.in = <<>> /\ b.size = 0
    /\ b.pc = "last" => b.rest = <<"last">> /\ Complete(q, c, b) /\ b.size = 0
    /\ b.pc = "put" => b.rest # <<>> /\ b.rest[1] \in {"chunk", "unit"} /\ \A j \in 2 .. Len(b.rest) : b.rest[j] = "unit"
    /\ b.pc \in {"pump", "await"} \cup Passing => b.size = 0
RequestOk(q, c, b, e) ==
    /\ e.ended => c.sent = Len(q.frames) /\ e.units = UnitsOf(q)
    /\ e.st = "run" => e.units + CountUnits(e.in) + RestUnits(b) = UnitsIn(q.frames)[b.taken]
    /\ e.st = "run" /\ e.ended => e.in = <<>> /\ b.pc = "await"
    /\ e.st = "run" => \A j \in 1 .. Len(e.in) : e.in[j] = "last" => j = Len(e.in) /\ b.pc = "await" /\ Complete(q, c, b)

\* u is what pieces has after its first n.
IsPart(u, pieces, n) == n + Len(u) <= Len(pieces) /\ \A j \in 1 .. Len(u) : u[j] = pieces[n + j]

\* The answer on its way: what the bridge holds, what the pipe holds and what
\* the engine has left are the rest of it, and what it passed on is the others.
Behind(ps, acc, out, rem) == Len(ps) - (Len(acc) + Len(out) + Len(rem))
Flow(ps, acc, out, rem) ==
    LET n == Behind(ps, acc, out, rem)
    IN  n >= 0 /\ IsPart(acc, ps, n) /\ IsPart(out, ps, n + Len(acc)) /\ IsPart(rem, ps, n + Len(acc) + Len(out))
Passed(q, b, e) == Behind(Pieces(q, e.reply), b.acc, e.out, e.left)
FlowOk(q, b, e) == Flow(Pieces(q, e.reply), b.acc, e.out, e.left)
UnitsPassed(r, n) == IF r.framing = "chunked" THEN (n - 1) \div 2 ELSE n - 1
AnswerOk(q, c, b, e) ==
    /\ b.pc \notin Over /\ (e.st = "answer" \/ e.out # <<>> \/ b.pc \in Passing) => e.reply \in H2Replies /\ FlowOk(q, b, e)
    /\ b.pc \in Writing \cup {"await"} /\ (e.st = "answer" \/ e.out # <<>>) => Passed(q, b, e) = 0
    /\ b.pc \in Passing => /\ ~HeadOnly(q, e.reply) /\ e.reply.framing \in {"length", "chunked", "close"}
                           /\ Passed(q, b, e) >= 1 /\ b.got = c.units /\ c.units = UnitsPassed(e.reply, Passed(q, b, e))
    /\ c.end = "whole" => /\ e.left = <<>> /\ b.pc \in Over
                          /\ c.units = IF HeadOnly(q, e.reply) THEN 0 ELSE e.reply.size

StreamOk(q, c, b, e) ==
    /\ c \in Clients /\ b \in Bridges /\ e \in Engines
    /\ PlaceOk(q, c, b, e) /\ WindowOk(q, c, b) /\ RestOk(q, c, b, e) /\ RequestOk(q, c, b, e) /\ AnswerOk(q, c, b, e)

BridgeInv ==
    /\ asked \in [H2Stream -> H2Requests] /\ IsFiniteSet(H2Stream) /\ replies \subseteq H2Replies
    /\ h2 \in {"open", "draining", "lost"} /\ budgeted \in BOOLEAN
    /\ client \in [H2Stream -> Clients] /\ bridge \in [H2Stream -> Bridges] /\ engine \in [H2Stream -> Engines]
    /\ \A s \in H2Stream : StreamOk(asked[s], client[s], bridge[s], engine[s])
    /\ Cardinality(Slots) <= MaxStreams

-----------------------------------------------------------------------------
\* The units of a request's frames are their running sum.
LEMMA UnitsInSum ==
    ASSUME NEW frames \in Seq(Nat)
    PROVE  /\ UnitsIn(frames) \in [0 .. Len(frames) -> Nat]
           /\ UnitsIn(frames)[0] = 0
           /\ \A n \in 1 .. Len(frames) : UnitsIn(frames)[n] = UnitsIn(frames)[n - 1] + frames[n]
<1> DEFINE L == Len(frames)
           Def(e) == e = [n \in 0 .. L |-> IF n = 0 THEN 0 ELSE e[n - 1] + frames[n]]
<1>1. L \in Nat /\ \A n \in 1 .. L : frames[n] \in Nat
    OBVIOUS
<1>2. frames \in [1 .. L -> Nat]
    OBVIOUS
<1>3. PICK f \in [0 .. L -> Nat] : f[0] = 0 /\ \A n \in 1 .. L : f[n] = f[n - 1] + frames[n]
    <2> HIDE DEF L
    <2> QED  BY <1>1, <1>2, SumsExist
<1>4. Def(f)
    <2>1. \A n \in 0 .. L : f[n] = IF n = 0 THEN 0 ELSE f[n - 1] + frames[n]
        <3> TAKE n \in 0 .. L
        <3>1. n # 0 => n \in 1 .. L
            BY <1>1
        <3> HIDE DEF L
        <3> QED  BY <1>3, <3>1
    <2> QED  BY <2>1, <1>3
<1>5. UnitsIn(frames) = CHOOSE e : Def(e)
    BY DEF UnitsIn
<1>6. Def(UnitsIn(frames))
    <2> HIDE DEF Def
    <2> QED  BY <1>4, <1>5
<1> DEFINE E == UnitsIn(frames)
<1>7. E = [n \in 0 .. L |-> IF n = 0 THEN 0 ELSE E[n - 1] + frames[n]]
    BY <1>6
<1> HIDE DEF E
<1>8. E[0] = 0 /\ \A n \in 1 .. L : E[n] = E[n - 1] + frames[n]
    <2>1. \A n \in 0 .. L : E[n] = IF n = 0 THEN 0 ELSE E[n - 1] + frames[n]
        <3> TAKE n \in 0 .. L
        <3> QED  BY <1>7, Zenon
    <2>2. 0 \in 0 .. L /\ \A n \in 1 .. L : n \in 0 .. L /\ n # 0
        BY <1>1
    <2> HIDE DEF L
    <2> QED  BY <2>1, <2>2
<1> DEFINE B == {n \in 0 .. L : E[n] # f[n]}
<1>9. B = {}
    <2> SUFFICES ASSUME B # {} PROVE FALSE
        OBVIOUS
    <2>1. PICK n \in B : \A m \in B : n <= m
        <3>1. B \in SUBSET Nat
            BY <1>1
        <3> HIDE DEF B
        <3> QED  BY <3>1, Least
    <2>2. n # 0
        BY <1>3, <1>8
    <2>3. n - 1 \in 0 .. L /\ n - 1 < n /\ n \in 1 .. L
        BY <2>1, <2>2, <1>1
    <2>4. E[n - 1] = f[n - 1]
        BY <2>1, <2>3
    <2> HIDE DEF L
    <2> QED  BY <2>1, <2>3, <2>4, <1>3, <1>8
<1>10. E \in [0 .. L -> Nat]
    BY <1>7, <1>9
<1> QED  BY <1>8, <1>10 DEF E

\* What is known of the frames of a request: their sizes and running sums.
LEMMA Frames ==
    ASSUME BridgeAssumption, NEW q \in H2Requests
    PROVE  /\ Len(q.frames) \in Nat /\ \A n \in 1 .. Len(q.frames) : q.frames[n] \in 0 .. UploadWindow
           /\ UnitsIn(q.frames) \in [0 .. Len(q.frames) -> Nat]
           /\ UnitsIn(q.frames)[0] = 0
           /\ \A n \in 1 .. Len(q.frames) : UnitsIn(q.frames)[n] = UnitsIn(q.frames)[n - 1] + q.frames[n]
<1>1. q.frames \in Seq(0 .. UploadWindow)
    BY DEF H2Requests
<1>2. q.frames \in Seq(Nat)
    BY <1>1 DEF BridgeAssumption
<1> QED  BY <1>1, <1>2, UnitsInSum

\* Counting the units of a pipe as it grows and is read.
LEMMA CountEmpty == CountUnits(<<>>) = 0
<1>1. {j \in 1 .. Len(<<>>) : <<>>[j] = "unit"} = {}
    OBVIOUS
<1> QED  BY <1>1, FS_EmptySet DEF CountUnits

\* A piece more in the pipe is a unit more, or none.
LEMMA CountAppend ==
    ASSUME NEW u \in Seq(H2Pieces), NEW x \in H2Pieces
    PROVE  /\ CountUnits(u) \in Nat
           /\ CountUnits(Append(u, x)) = CountUnits(u) + (IF x = "unit" THEN 1 ELSE 0)
<1> DEFINE L == Len(u)
           v == Append(u, x)
           A == {j \in 1 .. L : u[j] = "unit"}
           B == {j \in 1 .. Len(v) : v[j] = "unit"}
<1>1. L \in Nat /\ Len(v) = L + 1 /\ v[L + 1] = x /\ \A j \in 1 .. L : v[j] = u[j]
    OBVIOUS
<1>2. IsFiniteSet(A) /\ Cardinality(A) \in Nat
  <2>1. IsFiniteSet(1 .. L) /\ A \subseteq 1 .. L
      BY <1>1, FS_Interval
  <2> HIDE DEF A
  <2> QED  BY <2>1, FS_Subset, FS_CardinalityType
<1>3. L + 1 \notin A
    BY <1>1
<1> HIDE DEF v
<1>4. x = "unit" => B = A \cup {L + 1}
    BY <1>1
<1>5. x # "unit" => B = A
    BY <1>1
<1>6. Cardinality(A \cup {L + 1}) = Cardinality(A) + 1
  <2> HIDE DEF A, L
  <2> QED  BY <1>2, <1>3, FS_AddElement
<1>7. Cardinality(B) = Cardinality(A) + (IF x = "unit" THEN 1 ELSE 0)
  <2>1. CASE x = "unit"
    <3> HIDE DEF A, B
    <3> QED  BY <1>4, <1>6, <2>1
  <2>2. CASE x # "unit"
    <3> HIDE DEF A, B
    <3>1. B = A
        BY <1>5, <2>2
    <3> QED  BY <1>2, <2>2, <3>1
  <2> QED  BY <2>1, <2>2
<1> QED  BY <1>2, <1>7 DEF CountUnits, v

\* The piece read first is a unit less, or none.
LEMMA CountTail ==
    ASSUME NEW u \in Seq(H2Pieces), u # <<>>
    PROVE  /\ CountUnits(u) \in Nat /\ CountUnits(Tail(u)) \in Nat
           /\ CountUnits(u) = CountUnits(Tail(u)) + (IF u[1] = "unit" THEN 1 ELSE 0)
<1> DEFINE L == Len(u)
           v == Tail(u)
           A == {j \in 1 .. Len(v) : v[j] = "unit"}
           C == {j \in 2 .. L : u[j] = "unit"}
           B == {j \in 1 .. L : u[j] = "unit"}
<1>1. L \in Nat /\ L >= 1 /\ Len(v) = L - 1 /\ \A j \in 1 .. L - 1 : v[j] = u[j + 1]
    OBVIOUS
<1> HIDE DEF v
<1>2. IsFiniteSet(A) /\ Cardinality(A) \in Nat /\ IsFiniteSet(C) /\ Cardinality(C) \in Nat
  <2>0. IsFiniteSet(1 .. L)
    <3> HIDE DEF L
    <3> QED  BY <1>1, FS_Interval
  <2>1. A \subseteq 1 .. L /\ C \subseteq 1 .. L
      BY <1>1
  <2> HIDE DEF A, C, L
  <2> QED  BY <2>0, <2>1, FS_Subset, FS_CardinalityType
<1>3. Cardinality(C) = Cardinality(A)
  <2> DEFINE f == [j \in A |-> j + 1]
  <2>1. f \in [A -> C]
      BY <1>1
  <2>2. \A i, j \in A : f[i] = f[j] => i = j
      BY <1>1
  <2>3. \A k \in C : \E j \in A : f[j] = k
    <3> TAKE k \in C
    <3>1. k - 1 \in A /\ (k - 1) + 1 = k
        BY <1>1
    <3>2. f[k - 1] = k
        BY <3>1
    <3> QED  BY <3>1, <3>2
  <2>4. ExistsBijection(A, C)
    <3> HIDE DEF f, A, C
    <3>1. f \in Bijection(A, C)
        BY <2>1, <2>2, <2>3 DEF Bijection, Injection, Surjection, IsInjective
    <3> QED  BY <3>1 DEF ExistsBijection
  <2> HIDE DEF A, C
  <2> QED  BY <1>2, <2>4, FS_Bijection
<1>4. u[1] = "unit" => B = C \cup {1}
    BY <1>1
<1>5. u[1] # "unit" => B = C
    BY <1>1
<1>6. Cardinality(C \cup {1}) = Cardinality(C) + 1
  <2>1. 1 \notin C
      OBVIOUS
  <2> HIDE DEF C
  <2> QED  BY <1>2, <2>1, FS_AddElement
<1>7. Cardinality(B) = Cardinality(A) + (IF u[1] = "unit" THEN 1 ELSE 0) /\ Cardinality(B) \in Nat
  <2>1. CASE u[1] = "unit"
    <3> HIDE DEF A, B, C
    <3>1. Cardinality(B) = Cardinality(A) + 1
        BY <1>3, <1>4, <1>6, <2>1, Zenon
    <3> QED  BY <1>2, <2>1, <3>1
  <2>2. CASE u[1] # "unit"
    <3> HIDE DEF A, B, C
    <3>1. B = C
        BY <1>5, <2>2
    <3> QED  BY <1>2, <1>3, <2>2, <3>1
  <2> QED  BY <2>1, <2>2
<1> QED  BY <1>2, <1>7 DEF CountUnits, v

\* Parts of an answer as the engine writes and the bridge reads.
LEMMA PartEmpty ==
    ASSUME NEW ps \in Seq(H2Pieces), NEW n \in 0 .. Len(ps)
    PROVE  IsPart(<<>>, ps, n)
BY DEF IsPart

\* An answer is the part of itself after nothing.
LEMMA PartWhole ==
    ASSUME NEW ps \in Seq(H2Pieces)
    PROVE  IsPart(ps, ps, 0)
BY DEF IsPart

\* A part grows by the piece that follows it.
LEMMA PartAppend ==
    ASSUME NEW ps \in Seq(H2Pieces), NEW u \in Seq(H2Pieces), NEW n \in Nat, IsPart(u, ps, n),
           NEW x, n + Len(u) < Len(ps), x = ps[n + Len(u) + 1]
    PROVE  Append(u, x) \in Seq(H2Pieces) /\ IsPart(Append(u, x), ps, n)
<1> DEFINE m == n + Len(u) + 1
           v == Append(u, x)
<1>1. m \in 1 .. Len(ps) /\ x = ps[m] /\ x \in H2Pieces
    OBVIOUS
<1>2. v \in Seq(H2Pieces) /\ Len(v) = Len(u) + 1 /\ v[Len(u) + 1] = x /\ \A j \in 1 .. Len(u) : v[j] = u[j]
    BY <1>1
<1>3. \A j \in 1 .. Len(u) : u[j] = ps[n + j]
    BY DEF IsPart
<1> HIDE DEF v
<1>4. ASSUME NEW j \in 1 .. Len(v) PROVE v[j] = ps[n + j]
  <2>1. CASE j \in 1 .. Len(u)
      BY <1>2, <1>3, <2>1
  <2>2. CASE j \notin 1 .. Len(u)
    <3>1. Len(u) \in Nat /\ j \in 1 .. Len(u) + 1 /\ n \in Nat
        BY <1>2
    <3>2. j = Len(u) + 1 /\ n + j = m
        BY ONLY <2>2, <3>1
    <3> QED  BY <1>1, <1>2, <3>2
  <2> QED  BY <2>1, <2>2
<1>5. n + Len(v) <= Len(ps)
    BY <1>2
<1> QED  BY <1>2, <1>4, <1>5 DEF IsPart, v

\* Its tail starts one piece later.
LEMMA PartTail ==
    ASSUME NEW ps \in Seq(H2Pieces), NEW u \in Seq(H2Pieces), NEW n \in Nat, IsPart(u, ps, n), u # <<>>
    PROVE  /\ Tail(u) \in Seq(H2Pieces) /\ Len(Tail(u)) = Len(u) - 1 /\ IsPart(Tail(u), ps, n + 1)
           /\ Len(u) \in Nat /\ Len(u) >= 1 /\ u[1] = ps[n + 1] /\ u[1] \in H2Pieces
<1> DEFINE v == Tail(u)
<1>1. Len(u) \in Nat /\ Len(u) >= 1 /\ v \in Seq(H2Pieces) /\ Len(v) = Len(u) - 1
      /\ (\A j \in 1 .. Len(u) - 1 : v[j] = u[j + 1]) /\ u[1] \in H2Pieces
    OBVIOUS
<1>2. n + Len(u) <= Len(ps) /\ \A j \in 1 .. Len(u) : u[j] = ps[n + j]
    BY DEF IsPart
<1> HIDE DEF v
<1>3. ASSUME NEW j \in 1 .. Len(v) PROVE v[j] = ps[(n + 1) + j]
  <2>1. j + 1 \in 1 .. Len(u) /\ n + (j + 1) = (n + 1) + j /\ v[j] = u[j + 1]
      BY <1>1
  <2> QED  BY <1>2, <2>1
<1>4. (n + 1) + Len(v) <= Len(ps)
    BY <1>1, <1>2
<1>5. u[1] = ps[n + 1]
    BY <1>1, <1>2
<1> QED  BY <1>1, <1>3, <1>4, <1>5 DEF IsPart, v

\* A stretch of a part is a part.
LEMMA PartSplit ==
    ASSUME NEW ps \in Seq(H2Pieces), NEW u \in Seq(H2Pieces), NEW n \in Nat, IsPart(u, ps, n), NEW k \in 0 .. Len(u),
           NEW i \in Nat, i <= k
    PROVE  /\ SubSeq(u, i + 1, k) \in Seq(H2Pieces) /\ Len(SubSeq(u, i + 1, k)) = k - i /\ IsPart(SubSeq(u, i + 1, k), ps, n + i)
           /\ SubSeq(u, k + 1, Len(u)) \in Seq(H2Pieces) /\ Len(SubSeq(u, k + 1, Len(u))) = Len(u) - k
           /\ IsPart(SubSeq(u, k + 1, Len(u)), ps, n + k)
<1> DEFINE v == SubSeq(u, i + 1, k)
           w == SubSeq(u, k + 1, Len(u))
<1>1. Len(u) \in Nat
    OBVIOUS
<1>2. n + Len(u) <= Len(ps) /\ \A j \in 1 .. Len(u) : u[j] = ps[n + j]
    BY DEF IsPart
<1>3. v \in Seq(H2Pieces) /\ Len(v) = k - i /\ \A j \in 1 .. k - i : v[j] = u[i + j]
    BY <1>1
<1>4. w \in Seq(H2Pieces) /\ Len(w) = Len(u) - k /\ \A j \in 1 .. Len(u) - k : w[j] = u[k + j]
    BY <1>1
<1> HIDE DEF v, w
<1>5. ASSUME NEW j \in 1 .. Len(v) PROVE v[j] = ps[(n + i) + j]
  <2>1. i + j \in 1 .. Len(u) /\ n + (i + j) = (n + i) + j /\ v[j] = u[i + j]
      BY <1>1, <1>3
  <2> QED  BY <1>2, <2>1
<1>6. ASSUME NEW j \in 1 .. Len(w) PROVE w[j] = ps[(n + k) + j]
  <2>1. k + j \in 1 .. Len(u) /\ n + (k + j) = (n + k) + j /\ w[j] = u[k + j]
      BY <1>1, <1>4
  <2> QED  BY <1>2, <2>1
<1>7. (n + i) + Len(v) <= Len(ps) /\ (n + k) + Len(w) <= Len(ps)
    BY <1>1, <1>2, <1>3, <1>4
<1> QED  BY <1>3, <1>4, <1>5, <1>6, <1>7 DEF IsPart, v, w

\* What an answer is made of.
LEMMA PiecesAre ==
    ASSUME NEW q, NEW r \in H2Replies
    PROVE  /\ Pieces(q, r) \in Seq(H2Pieces) /\ Len(Pieces(q, r)) \in Nat /\ Len(Pieces(q, r)) >= 1
           /\ Pieces(q, r) # <<>> /\ Pieces(q, r)[1] = "head" /\ r.size \in Nat
           /\ HeadOnly(q, r) => Len(Pieces(q, r)) = 1
           /\ ~HeadOnly(q, r) /\ r.framing = "chunked" =>
                /\ Len(Pieces(q, r)) = 2 * r.size + 2
                /\ \A j \in 2 .. Len(Pieces(q, r)) :
                     Pieces(q, r)[j] = IF j = 2 * r.size + 2 THEN "last" ELSE IF j % 2 = 0 THEN "chunk" ELSE "unit"
           /\ ~HeadOnly(q, r) /\ r.framing # "chunked" =>
                Len(Pieces(q, r)) = r.size + 1 /\ \A j \in 2 .. Len(Pieces(q, r)) : Pieces(q, r)[j] = "unit"
<1> DEFINE body == IF HeadOnly(q, r) THEN <<>> ELSE IF r.framing = "chunked" THEN ChunkUnits(r.size) ELSE Units(r.size)
           ps   == Pieces(q, r)
           n    == r.size
<1>1. n \in Nat
    BY DEF H2Replies
<1>2. body \in Seq(H2Pieces)
  <2>1. ChunkUnits(n) \in Seq(H2Pieces) /\ Units(n) \in Seq(H2Pieces)
      BY <1>1 DEF ChunkUnits, Units, H2Pieces
  <2> QED  BY <2>1
<1>3. <<"head">> \in Seq(H2Pieces) /\ Len(<<"head">>) = 1 /\ <<"head">>[1] = "head"
    BY DEF H2Pieces
<1>4. ps = <<"head">> \o body
    BY DEF Pieces
<1> HIDE DEF body
<1>5. ps \in Seq(H2Pieces) /\ Len(ps) = 1 + Len(body) /\ ps[1] = "head" /\ \A j \in 2 .. Len(ps) : ps[j] = body[j - 1]
  <2>1. Len(body) \in Nat
      BY <1>2
  <2> HIDE DEF ps
  <2> QED  BY <1>2, <1>3, <1>4, <2>1
<1>6. HeadOnly(q, r) => Len(body) = 0
    BY DEF body
<1>7. ~HeadOnly(q, r) /\ r.framing = "chunked" => Len(body) = 2 * n + 1
        /\ \A j \in 1 .. 2 * n + 1 : body[j] = IF j = 2 * n + 1 THEN "last" ELSE IF j % 2 = 1 THEN "chunk" ELSE "unit"
    BY <1>1 DEF body, ChunkUnits
<1>8. ~HeadOnly(q, r) /\ r.framing # "chunked" => Len(body) = n /\ \A j \in 1 .. n : body[j] = "unit"
    BY <1>1 DEF body, Units
<1> HIDE DEF ps, n
<1>9. ~HeadOnly(q, r) /\ r.framing = "chunked" =>
         /\ Len(ps) = 2 * n + 2
         /\ \A j \in 2 .. Len(ps) : ps[j] = IF j = 2 * n + 2 THEN "last" ELSE IF j % 2 = 0 THEN "chunk" ELSE "unit"
  <2> SUFFICES ASSUME ~HeadOnly(q, r), r.framing = "chunked"
               PROVE  /\ Len(ps) = 2 * n + 2
                      /\ \A j \in 2 .. Len(ps) : ps[j] = IF j = 2 * n + 2 THEN "last" ELSE IF j % 2 = 0 THEN "chunk" ELSE "unit"
      OBVIOUS
  <2>1. Len(ps) = 2 * n + 2
      BY <1>1, <1>5, <1>7
  <2>2. ASSUME NEW j \in 2 .. Len(ps) PROVE ps[j] = IF j = 2 * n + 2 THEN "last" ELSE IF j % 2 = 0 THEN "chunk" ELSE "unit"
    <3>1. j - 1 \in 1 .. 2 * n + 1 /\ (j - 1 = 2 * n + 1 <=> j = 2 * n + 2) /\ ((j - 1) % 2 = 1 <=> j % 2 = 0)
        BY <1>1, <2>1
    <3>2. ps[j] = body[j - 1]
        BY <1>5
    <3> QED  BY <1>7, <3>1, <3>2
  <2> QED  BY <2>1, <2>2
<1>10. ~HeadOnly(q, r) /\ r.framing # "chunked" => Len(ps) = n + 1 /\ \A j \in 2 .. Len(ps) : ps[j] = "unit"
  <2> SUFFICES ASSUME ~HeadOnly(q, r), r.framing # "chunked"
               PROVE  Len(ps) = n + 1 /\ \A j \in 2 .. Len(ps) : ps[j] = "unit"
      OBVIOUS
  <2>1. Len(ps) = n + 1
      BY <1>1, <1>5, <1>8
  <2>2. ASSUME NEW j \in 2 .. Len(ps) PROVE ps[j] = "unit"
    <3>1. j - 1 \in 1 .. n
        BY <1>1, <2>1
    <3>2. ps[j] = body[j - 1]
        BY <1>5
    <3> QED  BY <1>8, <2>1, <3>1, <3>2
  <2> QED  BY <2>1, <2>2
<1>11. Len(ps) \in Nat /\ Len(ps) >= 1 /\ ps # <<>>
  <2>1. Len(body) \in Nat
      BY <1>2
  <2> QED  BY <1>5, <2>1
<1> QED  BY <1>1, <1>5, <1>6, <1>9, <1>10, <1>11 DEF ps, n

-----------------------------------------------------------------------------

\* The steps of the client, and of the task until it has a permit.
LEMMA OpenOk ==
    ASSUME BridgeAssumption, NEW q \in H2Requests, NEW c, NEW b, NEW e, StreamOk(q, c, b, e),
           b.pc = "none",
           NEW b2, b2 = [b EXCEPT !.pc = "opened"]
    PROVE  StreamOk(q, c, b2, e)
<1>1. c \in Clients /\ b \in Bridges /\ e \in Engines
      /\ PlaceOk(q, c, b, e) /\ WindowOk(q, c, b) /\ RestOk(q, c, b, e) /\ RequestOk(q, c, b, e) /\ AnswerOk(q, c, b, e)
    BY DEF StreamOk
<1>fb. b2 \in Bridges /\ b2.pc = "opened" /\ b2.taken = b.taken /\ b2.size = b.size /\ b2.rest = b.rest
      /\ b2.acc = b.acc /\ b2.got = b.got
    BY <1>1 DEF Bridges, Waiting, Writing, Passing, Over
<1>p. PlaceOk(q, c, b2, e)
    BY <1>1, <1>fb DEF PlaceOk, RestOk, Waiting, Writing, Passing, Over
<1>w. WindowOk(q, c, b2)
    BY <1>1, <1>fb DEF WindowOk
<1>r. RestOk(q, c, b2, e)
    BY <1>1, <1>fb DEF RestOk, PlaceOk, Complete, Waiting, Writing, Passing, Over
<1>q. RequestOk(q, c, b2, e)
    BY <1>1, <1>fb DEF RequestOk, RestOk, PlaceOk, RestUnits, Complete, Waiting, Writing, Passing, Over
<1>a. AnswerOk(q, c, b2, e)
    BY <1>1, <1>fb DEF AnswerOk, PlaceOk, FlowOk, Passed, Waiting, Writing, Passing, Over
<1> QED  BY <1>1, <1>fb, <1>p, <1>w, <1>r, <1>q, <1>a DEF StreamOk

\* A frame spends as much of the window as its size.
LEMMA SendFrameOk ==
    ASSUME BridgeAssumption, NEW q \in H2Requests, NEW c, NEW b, NEW e, StreamOk(q, c, b, e),
           NEW n \in Nat,
           NEW m \in Nat,
           NEW u \in Nat,
           m = c.sent + 1,
           m <= Len(q.frames),
           c.upload = u + n,
           UnitsIn(q.frames)[m] = UnitsIn(q.frames)[c.sent] + n,
           NEW c2, c2 = [c EXCEPT !.sent = m, !.upload = u]
    PROVE  StreamOk(q, c2, b, e)
<1>1. c \in Clients /\ b \in Bridges /\ e \in Engines
      /\ PlaceOk(q, c, b, e) /\ WindowOk(q, c, b) /\ RestOk(q, c, b, e) /\ RequestOk(q, c, b, e) /\ AnswerOk(q, c, b, e)
    BY DEF StreamOk
<1>2. c.sent \in Nat /\ c.upload \in Nat /\ Len(q.frames) \in Nat /\ b.size \in Nat /\ b.taken \in Nat
    BY <1>1, Frames DEF Clients, Bridges
<1>3. UnitsIn(q.frames)[c.sent] \in Nat
  <2>1. c.sent \in 0 .. Len(q.frames)
      BY <1>2
  <2> QED  BY <2>1, Frames
<1>fc. c2 \in Clients /\ c2.sent = m /\ c2.reset = c.reset /\ c2.upload = u /\ c2.window = c.window
      /\ c2.head = c.head /\ c2.units = c.units /\ c2.end = c.end
    BY <1>1, <1>2 DEF Clients
<1>p. PlaceOk(q, c2, b, e)
  <2>1. b.taken <= c2.sent
    <3>1. b.taken <= c.sent
        BY <1>1 DEF PlaceOk
    <3> QED  BY <1>2, <1>fc, <3>1
  <2> QED  BY <1>1, <1>2, <1>fc, <2>1 DEF PlaceOk
<1>w. WindowOk(q, c2, b)
  <2>1. c.upload + UnitsIn(q.frames)[c.sent] + b.size = UploadWindow + UnitsIn(q.frames)[b.taken]
      BY <1>1 DEF WindowOk
  <2>2. u + UnitsIn(q.frames)[m] + b.size = c.upload + UnitsIn(q.frames)[c.sent] + b.size
      BY <1>2, <1>3
  <2> QED  BY <1>fc, <2>1, <2>2 DEF WindowOk
<1>r. RestOk(q, c2, b, e)
  <2>1. c.sent # Len(q.frames)
      BY ONLY <1>2, m = c.sent + 1, m <= Len(q.frames)
  <2>2. b.pc # "last"
      BY ONLY <1>1, <2>1 DEF RestOk, Complete
  <2> QED  BY ONLY <1>1, <2>2 DEF RestOk
<1>q. RequestOk(q, c2, b, e)
    BY <1>1, <1>fc, <1>2 DEF RequestOk, RestOk, PlaceOk, RestUnits, Complete, Waiting, Writing, Passing, Over
<1>a. AnswerOk(q, c2, b, e)
    BY <1>1, <1>fc DEF AnswerOk, PlaceOk, FlowOk, Passed, Waiting, Writing, Passing, Over
<1> QED  BY <1>1, <1>fc, <1>p, <1>w, <1>r, <1>q, <1>a DEF StreamOk

\* The client resets: nothing of the stream but its mark changes.
LEMMA ResetOk ==
    ASSUME BridgeAssumption, NEW q \in H2Requests, NEW c, NEW b, NEW e, StreamOk(q, c, b, e),
           NEW c2, c2 = [c EXCEPT !.reset = TRUE]
    PROVE  StreamOk(q, c2, b, e)
<1>1. c \in Clients /\ b \in Bridges /\ e \in Engines
      /\ PlaceOk(q, c, b, e) /\ WindowOk(q, c, b) /\ RestOk(q, c, b, e) /\ RequestOk(q, c, b, e) /\ AnswerOk(q, c, b, e)
    BY DEF StreamOk
<1>fc. c2 \in Clients /\ c2.sent = c.sent /\ c2.reset = TRUE /\ c2.upload = c.upload /\ c2.window = c.window
      /\ c2.head = c.head /\ c2.units = c.units /\ c2.end = c.end
    BY <1>1 DEF Clients
<1>p. PlaceOk(q, c2, b, e)
    BY <1>1, <1>fc DEF PlaceOk, RestOk, Waiting, Writing, Passing, Over
<1>w. WindowOk(q, c2, b)
    BY <1>1, <1>fc DEF WindowOk
<1>r. RestOk(q, c2, b, e)
    BY <1>1, <1>fc DEF RestOk, PlaceOk, Complete, Waiting, Writing, Passing, Over
<1>q. RequestOk(q, c2, b, e)
    BY <1>1, <1>fc DEF RequestOk, RestOk, PlaceOk, RestUnits, Complete, Waiting, Writing, Passing, Over
<1>a. AnswerOk(q, c2, b, e)
    BY <1>1, <1>fc DEF AnswerOk, PlaceOk, FlowOk, Passed, Waiting, Writing, Passing, Over
<1> QED  BY <1>1, <1>fc, <1>p, <1>w, <1>r, <1>q, <1>a DEF StreamOk

\* The client widens the window the answer may use.
LEMMA GrantOk ==
    ASSUME BridgeAssumption, NEW q \in H2Requests, NEW c, NEW b, NEW e, StreamOk(q, c, b, e),
           NEW c2, c2 = [c EXCEPT !.window = c.window + 1]
    PROVE  StreamOk(q, c2, b, e)
<1>1. c \in Clients /\ b \in Bridges /\ e \in Engines
      /\ PlaceOk(q, c, b, e) /\ WindowOk(q, c, b) /\ RestOk(q, c, b, e) /\ RequestOk(q, c, b, e) /\ AnswerOk(q, c, b, e)
    BY DEF StreamOk
<1>fc. c2 \in Clients /\ c2.sent = c.sent /\ c2.reset = c.reset /\ c2.upload = c.upload /\ c2.window = c.window + 1
      /\ c2.head = c.head /\ c2.units = c.units /\ c2.end = c.end
    BY <1>1 DEF Clients
<1>p. PlaceOk(q, c2, b, e)
    BY <1>1, <1>fc DEF PlaceOk, RestOk, Waiting, Writing, Passing, Over
<1>w. WindowOk(q, c2, b)
    BY <1>1, <1>fc DEF WindowOk
<1>r. RestOk(q, c2, b, e)
    BY <1>1, <1>fc DEF RestOk, PlaceOk, Complete, Waiting, Writing, Passing, Over
<1>q. RequestOk(q, c2, b, e)
    BY <1>1, <1>fc DEF RequestOk, RestOk, PlaceOk, RestUnits, Complete, Waiting, Writing, Passing, Over
<1>a. AnswerOk(q, c2, b, e)
    BY <1>1, <1>fc DEF AnswerOk, PlaceOk, FlowOk, Passed, Waiting, Writing, Passing, Over
<1> QED  BY <1>1, <1>fc, <1>p, <1>w, <1>r, <1>q, <1>a DEF StreamOk

\* The connection hands the stream to a task.
LEMMA AcceptOk ==
    ASSUME BridgeAssumption, NEW q \in H2Requests, NEW c, NEW b, NEW e, StreamOk(q, c, b, e),
           b.pc = "opened",
           NEW b2, b2 = [b EXCEPT !.pc = "acquire"]
    PROVE  StreamOk(q, c, b2, e)
<1>1. c \in Clients /\ b \in Bridges /\ e \in Engines
      /\ PlaceOk(q, c, b, e) /\ WindowOk(q, c, b) /\ RestOk(q, c, b, e) /\ RequestOk(q, c, b, e) /\ AnswerOk(q, c, b, e)
    BY DEF StreamOk
<1>fb. b2 \in Bridges /\ b2.pc = "acquire" /\ b2.taken = b.taken /\ b2.size = b.size /\ b2.rest = b.rest
      /\ b2.acc = b.acc /\ b2.got = b.got
    BY <1>1 DEF Bridges, Waiting, Writing, Passing, Over
<1>p. PlaceOk(q, c, b2, e)
    BY <1>1, <1>fb DEF PlaceOk, RestOk, Waiting, Writing, Passing, Over
<1>w. WindowOk(q, c, b2)
    BY <1>1, <1>fb DEF WindowOk
<1>r. RestOk(q, c, b2, e)
    BY <1>1, <1>fb DEF RestOk, PlaceOk, Complete, Waiting, Writing, Passing, Over
<1>q. RequestOk(q, c, b2, e)
    BY <1>1, <1>fb DEF RequestOk, RestOk, PlaceOk, RestUnits, Complete, Waiting, Writing, Passing, Over
<1>a. AnswerOk(q, c, b2, e)
    BY <1>1, <1>fb DEF AnswerOk, PlaceOk, FlowOk, Passed, Waiting, Writing, Passing, Over
<1> QED  BY <1>1, <1>fb, <1>p, <1>w, <1>r, <1>q, <1>a DEF StreamOk

\* A request HTTP/1 has no words for is answered at once.
LEMMA RefuseOk ==
    ASSUME BridgeAssumption, NEW q \in H2Requests, NEW c, NEW b, NEW e, StreamOk(q, c, b, e),
           NEW v \in {"no", "refused"},
           b.pc = "opened",
           NEW b2, b2 = [b EXCEPT !.pc = "end"],
           NEW c2, c2 = [c EXCEPT !.head = TRUE, !.end = v]
    PROVE  StreamOk(q, c2, b2, e)
<1>1. c \in Clients /\ b \in Bridges /\ e \in Engines
      /\ PlaceOk(q, c, b, e) /\ WindowOk(q, c, b) /\ RestOk(q, c, b, e) /\ RequestOk(q, c, b, e) /\ AnswerOk(q, c, b, e)
    BY DEF StreamOk
<1>fb. b2 \in Bridges /\ b2.pc = "end" /\ b2.taken = b.taken /\ b2.size = b.size /\ b2.rest = b.rest /\ b2.acc = b.acc
      /\ b2.got = b.got
    BY <1>1 DEF Bridges, Waiting, Writing, Passing, Over
<1>fc. c2 \in Clients /\ c2.sent = c.sent /\ c2.reset = c.reset /\ c2.upload = c.upload /\ c2.window = c.window
      /\ c2.head = TRUE /\ c2.units = c.units /\ c2.end = v
    BY <1>1 DEF Clients
<1>p. PlaceOk(q, c2, b2, e)
    BY <1>1, <1>fb, <1>fc DEF PlaceOk, RestOk, Waiting, Writing, Passing, Over
<1>w. WindowOk(q, c2, b2)
    BY <1>1, <1>fb, <1>fc DEF WindowOk
<1>r. RestOk(q, c2, b2, e)
    BY <1>1, <1>fb, <1>fc DEF RestOk, PlaceOk, Complete, Waiting, Writing, Passing, Over
<1>q. RequestOk(q, c2, b2, e)
    BY <1>1, <1>fb, <1>fc DEF RequestOk, RestOk, PlaceOk, RestUnits, Complete, Waiting, Writing, Passing, Over
<1>a. AnswerOk(q, c2, b2, e)
    BY <1>1, <1>fb, <1>fc DEF AnswerOk, PlaceOk, FlowOk, Passed, Waiting, Writing, Passing, Over
<1> QED  BY <1>1, <1>fb, <1>fc, <1>p, <1>w, <1>r, <1>q, <1>a DEF StreamOk

\* A task without a permit ends with its connection.
LEMMA DropOk ==
    ASSUME BridgeAssumption, NEW q \in H2Requests, NEW c, NEW b, NEW e, StreamOk(q, c, b, e),
           b.pc = "opened",
           NEW b2, b2 = [b EXCEPT !.pc = "end"]
    PROVE  StreamOk(q, c, b2, e)
<1>1. c \in Clients /\ b \in Bridges /\ e \in Engines
      /\ PlaceOk(q, c, b, e) /\ WindowOk(q, c, b) /\ RestOk(q, c, b, e) /\ RequestOk(q, c, b, e) /\ AnswerOk(q, c, b, e)
    BY DEF StreamOk
<1>fb. b2 \in Bridges /\ b2.pc = "end" /\ b2.taken = b.taken /\ b2.size = b.size /\ b2.rest = b.rest /\ b2.acc = b.acc
      /\ b2.got = b.got
    BY <1>1 DEF Bridges, Waiting, Writing, Passing, Over
<1>p. PlaceOk(q, c, b2, e)
    BY <1>1, <1>fb DEF PlaceOk, RestOk, Waiting, Writing, Passing, Over
<1>w. WindowOk(q, c, b2)
    BY <1>1, <1>fb DEF WindowOk
<1>r. RestOk(q, c, b2, e)
    BY <1>1, <1>fb DEF RestOk, PlaceOk, Complete, Waiting, Writing, Passing, Over
<1>q. RequestOk(q, c, b2, e)
    BY <1>1, <1>fb DEF RequestOk, RestOk, PlaceOk, RestUnits, Complete, Waiting, Writing, Passing, Over
<1>a. AnswerOk(q, c, b2, e)
    BY <1>1, <1>fb DEF AnswerOk, PlaceOk, FlowOk, Passed, Waiting, Writing, Passing, Over
<1> QED  BY <1>1, <1>fb, <1>p, <1>w, <1>r, <1>q, <1>a DEF StreamOk

\* A task that has its permit starts an engine, with the head to write.
LEMMA AcquireOk ==
    ASSUME BridgeAssumption, NEW q \in H2Requests, NEW c, NEW b, NEW e, StreamOk(q, c, b, e),
           b.pc = "acquire",
           NEW b2, b2 = [b EXCEPT !.pc = "head", !.rest = <<"head">>],
           NEW e2, e2 = [e EXCEPT !.st = "run"]
    PROVE  StreamOk(q, c, b2, e2)
<1>1. c \in Clients /\ b \in Bridges /\ e \in Engines
      /\ PlaceOk(q, c, b, e) /\ WindowOk(q, c, b) /\ RestOk(q, c, b, e) /\ RequestOk(q, c, b, e) /\ AnswerOk(q, c, b, e)
    BY DEF StreamOk
<1>2. <<"head">> \in Seq(H2Pieces)
    BY DEF H2Pieces
<1>fb. b2 \in Bridges /\ b2.pc = "head" /\ b2.taken = b.taken /\ b2.size = b.size /\ b2.rest = <<"head">>
      /\ b2.acc = b.acc /\ b2.got = b.got
    BY <1>1, <1>2 DEF Bridges, Waiting, Writing, Passing, Over
<1>fe. e2 \in Engines /\ e2.st = "run" /\ e2.in = e.in /\ e2.out = e.out /\ e2.units = e.units /\ e2.ended = e.ended
      /\ e2.head = e.head /\ e2.reply = e.reply /\ e2.left = e.left /\ e2.aborted = e.aborted
    BY <1>1, <1>2 DEF Engines
<1>p. PlaceOk(q, c, b2, e2)
    BY <1>1, <1>fb, <1>fe DEF PlaceOk, RestOk, Waiting, Writing, Passing, Over
<1>w. WindowOk(q, c, b2)
    BY <1>1, <1>fb, <1>fe DEF WindowOk
<1>r. RestOk(q, c, b2, e2)
    BY <1>1, <1>fb, <1>fe DEF RestOk, PlaceOk, Complete, Waiting, Writing, Passing, Over
<1>q. RequestOk(q, c, b2, e2)
  <2>1. e.in = <<>> /\ e.units = 0 /\ ~e.ended /\ b.taken = 0
      BY <1>1 DEF PlaceOk, Waiting
  <2>2. UnitsIn(q.frames)[0] = 0 /\ CountUnits(<<>>) = 0
      BY Frames, CountEmpty
  <2> QED  BY <1>fb, <1>fe, <2>1, <2>2 DEF RequestOk, RestUnits
<1>a. AnswerOk(q, c, b2, e2)
    BY <1>1, <1>fb, <1>fe DEF AnswerOk, PlaceOk, FlowOk, Passed, Waiting, Writing, Passing, Over
<1> QED  BY <1>1, <1>fb, <1>fe, <1>p, <1>w, <1>r, <1>q, <1>a DEF StreamOk

\* A task done with its answer waits for its engine, then is over.
LEMMA WindOk ==
    ASSUME BridgeAssumption, NEW q \in H2Requests, NEW c, NEW b, NEW e, StreamOk(q, c, b, e),
           b.pc = "wind",
           NEW b2, b2 = [b EXCEPT !.pc = "end"]
    PROVE  StreamOk(q, c, b2, e)
<1>1. c \in Clients /\ b \in Bridges /\ e \in Engines
      /\ PlaceOk(q, c, b, e) /\ WindowOk(q, c, b) /\ RestOk(q, c, b, e) /\ RequestOk(q, c, b, e) /\ AnswerOk(q, c, b, e)
    BY DEF StreamOk
<1>fb. b2 \in Bridges /\ b2.pc = "end" /\ b2.taken = b.taken /\ b2.size = b.size /\ b2.rest = b.rest /\ b2.acc = b.acc
      /\ b2.got = b.got
    BY <1>1 DEF Bridges, Waiting, Writing, Passing, Over
<1>p. PlaceOk(q, c, b2, e)
    BY <1>1, <1>fb DEF PlaceOk, RestOk, Waiting, Writing, Passing, Over
<1>w. WindowOk(q, c, b2)
    BY <1>1, <1>fb DEF WindowOk
<1>r. RestOk(q, c, b2, e)
    BY <1>1, <1>fb DEF RestOk, PlaceOk, Complete, Waiting, Writing, Passing, Over
<1>q. RequestOk(q, c, b2, e)
    BY <1>1, <1>fb DEF RequestOk, RestOk, PlaceOk, RestUnits, Complete, Waiting, Writing, Passing, Over
<1>a. AnswerOk(q, c, b2, e)
    BY <1>1, <1>fb DEF AnswerOk, PlaceOk, FlowOk, Passed, Waiting, Writing, Passing, Over
<1> QED  BY <1>1, <1>fb, <1>p, <1>w, <1>r, <1>q, <1>a DEF StreamOk

\* The engine.
LEMMA QuitOk ==
    ASSUME BridgeAssumption, NEW q \in H2Requests, NEW c, NEW b, NEW e, StreamOk(q, c, b, e),
           e.st = "run",
           NEW e2, e2 = [e EXCEPT !.st = "gone"]
    PROVE  StreamOk(q, c, b, e2)
<1>1. c \in Clients /\ b \in Bridges /\ e \in Engines
      /\ PlaceOk(q, c, b, e) /\ WindowOk(q, c, b) /\ RestOk(q, c, b, e) /\ RequestOk(q, c, b, e) /\ AnswerOk(q, c, b, e)
    BY DEF StreamOk
<1>fe. e2 \in Engines /\ e2.st = "gone" /\ e2.in = e.in /\ e2.out = e.out /\ e2.units = e.units /\ e2.ended = e.ended
      /\ e2.head = e.head /\ e2.reply = e.reply /\ e2.left = e.left /\ e2.aborted = e.aborted
    BY <1>1 DEF Engines
<1>p. PlaceOk(q, c, b, e2)
    BY <1>1, <1>fe DEF PlaceOk, RestOk, Waiting, Writing, Passing, Over
<1>w. WindowOk(q, c, b)
    BY <1>1, <1>fe DEF WindowOk
<1>r. RestOk(q, c, b, e2)
    BY <1>1, <1>fe DEF RestOk, PlaceOk, Complete, Waiting, Writing, Passing, Over
<1>q. RequestOk(q, c, b, e2)
    BY <1>1, <1>fe DEF RequestOk, RestOk, PlaceOk, RestUnits, Complete, Waiting, Writing, Passing, Over
<1>a. AnswerOk(q, c, b, e2)
    BY <1>1, <1>fe DEF AnswerOk, PlaceOk, FlowOk, Passed, Waiting, Writing, Passing, Over
<1> QED  BY <1>1, <1>fe, <1>p, <1>w, <1>r, <1>q, <1>a DEF StreamOk

\* An engine that stops in the middle of its answer leaves the pipe as it is.
LEMMA CutOk ==
    ASSUME BridgeAssumption, NEW q \in H2Requests, NEW c, NEW b, NEW e, StreamOk(q, c, b, e),
           e.st = "answer",
           NEW e2, e2 = [e EXCEPT !.st = "gone", !.aborted = TRUE]
    PROVE  StreamOk(q, c, b, e2)
<1>1. c \in Clients /\ b \in Bridges /\ e \in Engines
      /\ PlaceOk(q, c, b, e) /\ WindowOk(q, c, b) /\ RestOk(q, c, b, e) /\ RequestOk(q, c, b, e) /\ AnswerOk(q, c, b, e)
    BY DEF StreamOk
<1>fe. e2 \in Engines /\ e2.st = "gone" /\ e2.in = e.in /\ e2.out = e.out /\ e2.units = e.units /\ e2.ended = e.ended
      /\ e2.head = e.head /\ e2.reply = e.reply /\ e2.left = e.left /\ e2.aborted = TRUE
    BY <1>1 DEF Engines
<1>p. PlaceOk(q, c, b, e2)
    BY <1>1, <1>fe DEF PlaceOk, RestOk, Waiting, Writing, Passing, Over
<1>w. WindowOk(q, c, b)
    BY <1>1, <1>fe DEF WindowOk
<1>r. RestOk(q, c, b, e2)
    BY <1>1, <1>fe DEF RestOk, PlaceOk, Complete, Waiting, Writing, Passing, Over
<1>q. RequestOk(q, c, b, e2)
    BY <1>1, <1>fe DEF RequestOk, RestOk, PlaceOk, RestUnits, Complete, Waiting, Writing, Passing, Over
<1>a. AnswerOk(q, c, b, e2)
    BY <1>1, <1>fe DEF AnswerOk, PlaceOk, FlowOk, Passed, Waiting, Writing, Passing, Over
<1> QED  BY <1>1, <1>fe, <1>p, <1>w, <1>r, <1>q, <1>a DEF StreamOk

\* The task gives up.
LEMMA FailOk ==
    ASSUME BridgeAssumption, NEW q \in H2Requests, NEW c, NEW b, NEW e, StreamOk(q, c, b, e),
           NEW v,
           NEW w,
           b.pc \notin {"none", "opened", "wind", "end"},
           v = IF e.st = "none" THEN e.st ELSE "gone",
           w \in {c.end, "reset"},
           NEW b2, b2 = [b EXCEPT !.pc = "end", !.rest = <<>>, !.acc = <<>>],
           NEW e2, e2 = [e EXCEPT !.st = v, !.in = <<>>, !.out = <<>>],
           NEW c2, c2 = [c EXCEPT !.end = w]
    PROVE  StreamOk(q, c2, b2, e2)
<1>1. c \in Clients /\ b \in Bridges /\ e \in Engines
      /\ PlaceOk(q, c, b, e) /\ WindowOk(q, c, b) /\ RestOk(q, c, b, e) /\ RequestOk(q, c, b, e) /\ AnswerOk(q, c, b, e)
    BY DEF StreamOk
<1>2. <<>> \in Seq(H2Pieces)
    OBVIOUS
<1>fb. b2 \in Bridges /\ b2.pc = "end" /\ b2.taken = b.taken /\ b2.size = b.size /\ b2.rest = <<>> /\ b2.acc = <<>>
      /\ b2.got = b.got
    BY <1>1, <1>2 DEF Bridges, Waiting, Writing, Passing, Over
<1>fe. e2 \in Engines /\ e2.st = v /\ e2.in = <<>> /\ e2.out = <<>> /\ e2.units = e.units /\ e2.ended = e.ended
      /\ e2.head = e.head /\ e2.reply = e.reply /\ e2.left = e.left /\ e2.aborted = e.aborted
    BY <1>1, <1>2 DEF Engines
<1>fc. c2 \in Clients /\ c2.sent = c.sent /\ c2.reset = c.reset /\ c2.upload = c.upload /\ c2.window = c.window
      /\ c2.head = c.head /\ c2.units = c.units /\ c2.end = w
    BY <1>1, <1>2 DEF Clients
<1>p. PlaceOk(q, c2, b2, e2)
    BY <1>1, <1>fb, <1>fe, <1>fc DEF PlaceOk, RestOk, Waiting, Writing, Passing, Over
<1>w. WindowOk(q, c2, b2)
    BY <1>1, <1>fb, <1>fe, <1>fc DEF WindowOk
<1>r. RestOk(q, c2, b2, e2)
    BY <1>1, <1>fb, <1>fe, <1>fc DEF RestOk, PlaceOk, Complete, Waiting, Writing, Passing, Over
<1>q. RequestOk(q, c2, b2, e2)
    BY <1>1, <1>fb, <1>fe, <1>fc DEF RequestOk, RestOk, PlaceOk, RestUnits, Complete, Waiting, Writing, Passing, Over
<1>a. AnswerOk(q, c2, b2, e2)
    BY <1>1, <1>fb, <1>fe, <1>fc DEF AnswerOk, PlaceOk, FlowOk, Passed, Waiting, Writing, Passing, Over
<1> QED  BY <1>1, <1>fb, <1>fe, <1>fc, <1>p, <1>w, <1>r, <1>q, <1>a DEF StreamOk

\* A pipe without its first piece.
LEMMA PieceTail ==
    ASSUME NEW u \in Seq(H2Pieces), u # <<>>
    PROVE  /\ Tail(u) \in Seq(H2Pieces) /\ Len(u) \in Nat /\ Len(u) >= 1 /\ Len(Tail(u)) = Len(u) - 1 /\ u[1] \in H2Pieces
           /\ \A j \in 1 .. Len(u) - 1 : Tail(u)[j] = u[j + 1]
           /\ Len(u) = 1 => Tail(u) = <<>>
           /\ Len(u) # 1 => Len(u) >= 2 /\ Tail(u) # <<>>
<1>1. Tail(u) \in Seq(H2Pieces) /\ Len(u) \in Nat /\ Len(u) >= 1 /\ Len(Tail(u)) = Len(u) - 1 /\ u[1] \in H2Pieces
    OBVIOUS
<1>2. \A j \in 1 .. Len(u) - 1 : Tail(u)[j] = u[j + 1]
    OBVIOUS
<1>3. (Tail(u) = <<>>) <=> (Len(Tail(u)) = 0)
    BY <1>1, EmptySeq
<1>4. Len(u) # 1 => Len(u) >= 2 /\ Len(u) - 1 # 0
    BY <1>1
<1>5. Len(u) = 1 => Len(u) - 1 = 0
    OBVIOUS
<1> QED  BY <1>1, <1>2, <1>3, <1>4, <1>5

\* The upload window as a frame is taken, and as it is given back.
LEMMA WindowTaken ==
    ASSUME NEW q, NEW c, NEW b, NEW b2, WindowOk(q, c, b), b.size = 0,
           c.upload \in Nat, UploadWindow \in Nat, b2.size \in Nat,
           UnitsIn(q.frames)[c.sent] \in Nat, UnitsIn(q.frames)[b.taken] \in Nat,
           UnitsIn(q.frames)[b2.taken] = UnitsIn(q.frames)[b.taken] + b2.size
    PROVE  WindowOk(q, c, b2)
<1>1. c.upload + UnitsIn(q.frames)[c.sent] + b.size = UploadWindow + UnitsIn(q.frames)[b.taken]
    BY DEF WindowOk
<1>2. UnitsIn(q.frames)[b2.taken] \in Nat
    OBVIOUS
<1>3. c.upload + UnitsIn(q.frames)[c.sent] + b2.size = UploadWindow + UnitsIn(q.frames)[b2.taken]
    BY <1>1, <1>2
<1> QED  BY <1>3 DEF WindowOk

\* A frame wholly written goes back to the window.
LEMMA WindowGiven ==
    ASSUME NEW q, NEW c, NEW b, NEW c2, NEW b2, WindowOk(q, c, b), b2.size = 0,
           c.upload \in Nat, UploadWindow \in Nat, b.size \in Nat,
           UnitsIn(q.frames)[c.sent] \in Nat, UnitsIn(q.frames)[b.taken] \in Nat,
           c2.sent = c.sent, b2.taken = b.taken, c2.upload = c.upload + b.size
    PROVE  WindowOk(q, c2, b2)
<1>1. c.upload + UnitsIn(q.frames)[c.sent] + b.size = UploadWindow + UnitsIn(q.frames)[b.taken]
    BY DEF WindowOk
<1>2. c2.upload + UnitsIn(q.frames)[c.sent] + b2.size = UploadWindow + UnitsIn(q.frames)[b.taken]
    BY <1>1
<1> QED  BY <1>2 DEF WindowOk

\* The units of a request as a piece goes into the pipe, and out of it.
LEMMA UnitPut ==
    ASSUME NEW e, NEW b, NEW e2, NEW b2, NEW x \in H2Pieces, NEW T, e.in \in Seq(H2Pieces), e2.in = Append(e.in, x),
           e.units \in Nat, e2.units = e.units, RestUnits(b2) \in Nat,
           RestUnits(b) = RestUnits(b2) + (IF x = "unit" THEN 1 ELSE 0), e.units + CountUnits(e.in) + RestUnits(b) = T
    PROVE  e2.units + CountUnits(e2.in) + RestUnits(b2) = T
<1> DEFINE i == IF x = "unit" THEN 1 ELSE 0
<1>1. CountUnits(e.in) \in Nat /\ CountUnits(e2.in) = CountUnits(e.in) + i /\ i \in Nat
    BY CountAppend
<1>2. RestUnits(b) = RestUnits(b2) + i
    OBVIOUS
<1> HIDE DEF i
<1>3. e.units + (CountUnits(e.in) + i) + RestUnits(b2) = e.units + CountUnits(e.in) + (RestUnits(b2) + i)
    BY <1>1
<1> QED  BY <1>1, <1>2, <1>3

\* A unit the engine reads moves from the pipe to what it has read.
LEMMA UnitRead ==
    ASSUME NEW e, NEW b, NEW e2, NEW T, e.in \in Seq(H2Pieces), e.in # <<>>, e2.in = Tail(e.in),
           e.units \in Nat, e2.units = e.units + (IF e.in[1] = "unit" THEN 1 ELSE 0), RestUnits(b) \in Nat,
           e.units + CountUnits(e.in) + RestUnits(b) = T
    PROVE  e2.units + CountUnits(e2.in) + RestUnits(b) = T
<1> DEFINE i == IF e.in[1] = "unit" THEN 1 ELSE 0
<1>1. CountUnits(e2.in) \in Nat /\ CountUnits(e.in) = CountUnits(e2.in) + i /\ i \in Nat
    BY CountTail
<1>2. e2.units = e.units + i
    OBVIOUS
<1> HIDE DEF i
<1>3. (e.units + i) + CountUnits(e2.in) + RestUnits(b) = e.units + (CountUnits(e2.in) + i) + RestUnits(b)
    BY <1>1
<1> QED  BY <1>1, <1>2, <1>3

\* The request, into the pipe.
LEMMA SkipOk ==
    ASSUME BridgeAssumption, NEW q \in H2Requests, NEW c, NEW b, NEW e, StreamOk(q, c, b, e),
           NEW m \in Nat,
           b.pc = "pump",
           m = b.taken + 1,
           m <= c.sent,
           UnitsIn(q.frames)[m] = UnitsIn(q.frames)[b.taken],
           NEW b2, b2 = [b EXCEPT !.taken = m]
    PROVE  StreamOk(q, c, b2, e)
<1>1. c \in Clients /\ b \in Bridges /\ e \in Engines
      /\ PlaceOk(q, c, b, e) /\ WindowOk(q, c, b) /\ RestOk(q, c, b, e) /\ RequestOk(q, c, b, e) /\ AnswerOk(q, c, b, e)
    BY DEF StreamOk
<1>2. c.sent \in Nat /\ c.upload \in Nat /\ Len(q.frames) \in Nat /\ b.size \in Nat /\ b.taken \in Nat /\ e.units \in Nat
      /\ c.sent <= Len(q.frames) /\ b.taken <= c.sent /\ UploadWindow \in Nat
    BY <1>1, Frames DEF Clients, Bridges, Engines, PlaceOk, BridgeAssumption
<1>3. UnitsIn(q.frames)[c.sent] \in Nat /\ UnitsIn(q.frames)[b.taken] \in Nat
  <2>1. c.sent \in 0 .. Len(q.frames) /\ b.taken \in 0 .. Len(q.frames)
      BY <1>2
  <2> QED  BY <2>1, Frames
<1>fb. b2 \in Bridges /\ b2.pc = b.pc /\ b2.taken = m /\ b2.size = b.size /\ b2.rest = b.rest /\ b2.acc = b.acc
      /\ b2.got = b.got
    BY <1>1 DEF Bridges, Waiting, Writing, Passing, Over
<1>p. PlaceOk(q, c, b2, e)
    BY <1>1, <1>fb, <1>2 DEF PlaceOk, RestOk, Waiting, Writing, Passing, Over
<1>w. WindowOk(q, c, b2)
    BY <1>1, <1>fb, <1>2, <1>3 DEF WindowOk
<1>r. RestOk(q, c, b2, e)
    BY <1>1, <1>fb, <1>2 DEF RestOk, PlaceOk, Complete, Waiting, Writing, Passing, Over
<1>q. RequestOk(q, c, b2, e)
    BY <1>1, <1>fb, <1>2 DEF RequestOk, RestOk, PlaceOk, RestUnits, Complete, Waiting, Writing, Passing, Over
<1>a. AnswerOk(q, c, b2, e)
    BY <1>1, <1>fb DEF AnswerOk, PlaceOk, FlowOk, Passed, Waiting, Writing, Passing, Over
<1> QED  BY <1>1, <1>fb, <1>p, <1>w, <1>r, <1>q, <1>a DEF StreamOk

\* A frame with bytes is taken, to be put a piece at a time.
LEMMA TakeOk ==
    ASSUME BridgeAssumption, NEW q \in H2Requests, NEW c, NEW b, NEW e, StreamOk(q, c, b, e),
           NEW m \in Nat,
           NEW n \in Nat,
           NEW r \in Seq(H2Pieces),
           b.pc = "pump",
           m = b.taken + 1,
           m <= c.sent,
           UnitsIn(q.frames)[m] = UnitsIn(q.frames)[b.taken] + n,
           r # <<>>,
           r[1] \in {"chunk", "unit"},
           \A j \in 2 .. Len(r) : r[j] = "unit",
           n = IF r[1] = "chunk" THEN Len(r) - 1 ELSE Len(r),
           NEW b2, b2 = [b EXCEPT !.taken = m, !.pc = "put", !.size = n, !.rest = r]
    PROVE  StreamOk(q, c, b2, e)
<1>1. c \in Clients /\ b \in Bridges /\ e \in Engines
      /\ PlaceOk(q, c, b, e) /\ WindowOk(q, c, b) /\ RestOk(q, c, b, e) /\ RequestOk(q, c, b, e) /\ AnswerOk(q, c, b, e)
    BY DEF StreamOk
<1>2. c.sent \in Nat /\ c.upload \in Nat /\ Len(q.frames) \in Nat /\ b.size \in Nat /\ b.taken \in Nat /\ e.units \in Nat
      /\ c.sent <= Len(q.frames) /\ b.taken <= c.sent /\ UploadWindow \in Nat
    BY <1>1, Frames DEF Clients, Bridges, Engines, PlaceOk, BridgeAssumption
<1>3. UnitsIn(q.frames)[c.sent] \in Nat /\ UnitsIn(q.frames)[b.taken] \in Nat
  <2>1. c.sent \in 0 .. Len(q.frames) /\ b.taken \in 0 .. Len(q.frames)
      BY <1>2
  <2> QED  BY <2>1, Frames
<1>4. CountUnits(e.in) \in Nat /\ e.in \in Seq(H2Pieces)
    BY <1>1, CountAppend DEF Engines, H2Pieces
<1>fb. b2 \in Bridges /\ b2.pc = "put" /\ b2.taken = m /\ b2.size = n /\ b2.rest = r /\ b2.acc = b.acc
      /\ b2.got = b.got
    BY <1>1 DEF Bridges, Waiting, Writing, Passing, Over
<1>p. PlaceOk(q, c, b2, e)
    BY <1>1, <1>fb, <1>2 DEF PlaceOk, RestOk, Waiting, Writing, Passing, Over
<1>w. WindowOk(q, c, b2)
  <2>1. b.size = 0
      BY <1>1 DEF RestOk
  <2>2. b2.size \in Nat /\ UnitsIn(q.frames)[b2.taken] = UnitsIn(q.frames)[b.taken] + b2.size
      BY <1>fb
  <2> QED  BY ONLY <1>1, <1>2, <1>3, <2>1, <2>2, WindowTaken
<1>r. RestOk(q, c, b2, e)
    BY <1>1, <1>fb, <1>2 DEF RestOk, PlaceOk, Complete, Waiting, Writing, Passing, Over
<1>q. RequestOk(q, c, b2, e)
  <2>1. RestUnits(b2) = n /\ RestUnits(b) = 0
      BY <1>fb DEF RestUnits
  <2>2. e.st = "run" => e.units + CountUnits(e.in) + n = UnitsIn(q.frames)[m]
    <3> HAVE e.st = "run"
    <3>1. e.units + CountUnits(e.in) + 0 = UnitsIn(q.frames)[b.taken]
        BY <1>1, <2>1 DEF RequestOk
    <3> QED  BY <1>2, <1>4, <3>1
  <2>3. e.st = "run" => ~e.ended /\ \A j \in 1 .. Len(e.in) : e.in[j] # "last"
      BY <1>1 DEF RequestOk
  <2> QED  BY <1>1, <1>fb, <2>1, <2>2, <2>3 DEF RequestOk
<1>a. AnswerOk(q, c, b2, e)
    BY <1>1, <1>fb DEF AnswerOk, PlaceOk, FlowOk, Passed, Waiting, Writing, Passing, Over
<1> QED  BY <1>1, <1>fb, <1>p, <1>w, <1>r, <1>q, <1>a DEF StreamOk

\* After the last frame of a body of unknown length comes the last chunk.
LEMMA LastOk ==
    ASSUME BridgeAssumption, NEW q \in H2Requests, NEW c, NEW b, NEW e, StreamOk(q, c, b, e),
           b.pc = "pump",
           b.taken = c.sent,
           c.sent = Len(q.frames),
           NEW b2, b2 = [b EXCEPT !.pc = "last", !.rest = <<"last">>]
    PROVE  StreamOk(q, c, b2, e)
<1>1. c \in Clients /\ b \in Bridges /\ e \in Engines
      /\ PlaceOk(q, c, b, e) /\ WindowOk(q, c, b) /\ RestOk(q, c, b, e) /\ RequestOk(q, c, b, e) /\ AnswerOk(q, c, b, e)
    BY DEF StreamOk
<1>2. <<"last">> \in Seq(H2Pieces)
    BY DEF H2Pieces
<1>fb. b2 \in Bridges /\ b2.pc = "last" /\ b2.taken = b.taken /\ b2.size = b.size /\ b2.rest = <<"last">>
      /\ b2.acc = b.acc /\ b2.got = b.got
    BY <1>1, <1>2 DEF Bridges, Waiting, Writing, Passing, Over
<1>p. PlaceOk(q, c, b2, e)
    BY <1>1, <1>fb DEF PlaceOk, RestOk, Waiting, Writing, Passing, Over
<1>w. WindowOk(q, c, b2)
    BY <1>1, <1>fb DEF WindowOk
<1>r. RestOk(q, c, b2, e)
    BY <1>1, <1>fb DEF RestOk, PlaceOk, Complete, Waiting, Writing, Passing, Over
<1>q. RequestOk(q, c, b2, e)
    BY <1>1, <1>fb DEF RequestOk, RestOk, PlaceOk, RestUnits, Complete, Waiting, Writing, Passing, Over
<1>a. AnswerOk(q, c, b2, e)
    BY <1>1, <1>fb DEF AnswerOk, PlaceOk, FlowOk, Passed, Waiting, Writing, Passing, Over
<1> QED  BY <1>1, <1>fb, <1>p, <1>w, <1>r, <1>q, <1>a DEF StreamOk

\* After the last frame of a declared body the request is sent.
LEMMA SentOk ==
    ASSUME BridgeAssumption, NEW q \in H2Requests, NEW c, NEW b, NEW e, StreamOk(q, c, b, e),
           b.pc = "pump",
           NEW b2, b2 = [b EXCEPT !.pc = "await"]
    PROVE  StreamOk(q, c, b2, e)
<1>1. c \in Clients /\ b \in Bridges /\ e \in Engines
      /\ PlaceOk(q, c, b, e) /\ WindowOk(q, c, b) /\ RestOk(q, c, b, e) /\ RequestOk(q, c, b, e) /\ AnswerOk(q, c, b, e)
    BY DEF StreamOk
<1>fb. b2 \in Bridges /\ b2.pc = "await" /\ b2.taken = b.taken /\ b2.size = b.size /\ b2.rest = b.rest
      /\ b2.acc = b.acc /\ b2.got = b.got
    BY <1>1 DEF Bridges, Waiting, Writing, Passing, Over
<1>p. PlaceOk(q, c, b2, e)
    BY <1>1, <1>fb DEF PlaceOk, RestOk, Waiting, Writing, Passing, Over
<1>w. WindowOk(q, c, b2)
    BY <1>1, <1>fb DEF WindowOk
<1>r. RestOk(q, c, b2, e)
    BY <1>1, <1>fb DEF RestOk, PlaceOk, Complete, Waiting, Writing, Passing, Over
<1>q. RequestOk(q, c, b2, e)
    BY <1>1, <1>fb DEF RequestOk, RestOk, PlaceOk, RestUnits, Complete, Waiting, Writing, Passing, Over
<1>a. AnswerOk(q, c, b2, e)
    BY <1>1, <1>fb DEF AnswerOk, PlaceOk, FlowOk, Passed, Waiting, Writing, Passing, Over
<1> QED  BY <1>1, <1>fb, <1>p, <1>w, <1>r, <1>q, <1>a DEF StreamOk

\* The engine closed its half.
LEMMA BrokenOk ==
    ASSUME BridgeAssumption, NEW q \in H2Requests, NEW c, NEW b, NEW e, StreamOk(q, c, b, e),
           b.pc \in {"head", "last"},
           e.st \notin {"run", "answer"},
           NEW b2, b2 = [b EXCEPT !.pc = "await", !.rest = <<>>, !.size = 0]
    PROVE  StreamOk(q, c, b2, e)
<1>1. c \in Clients /\ b \in Bridges /\ e \in Engines
      /\ PlaceOk(q, c, b, e) /\ WindowOk(q, c, b) /\ RestOk(q, c, b, e) /\ RequestOk(q, c, b, e) /\ AnswerOk(q, c, b, e)
    BY DEF StreamOk
<1>2. <<>> \in Seq(H2Pieces)
    OBVIOUS
<1>fb. b2 \in Bridges /\ b2.pc = "await" /\ b2.taken = b.taken /\ b2.size = 0 /\ b2.rest = <<>> /\ b2.acc = b.acc
      /\ b2.got = b.got
    BY <1>1, <1>2 DEF Bridges, Waiting, Writing, Passing, Over
<1>p. PlaceOk(q, c, b2, e)
    BY <1>1, <1>fb DEF PlaceOk, RestOk, Waiting, Writing, Passing, Over
<1>w. WindowOk(q, c, b2)
  <2>1. b.size = 0
      BY <1>1 DEF RestOk
  <2> QED  BY <1>1, <1>fb, <2>1 DEF WindowOk
<1>r. RestOk(q, c, b2, e)
    BY <1>1, <1>fb DEF RestOk, PlaceOk, Complete, Waiting, Writing, Passing, Over
<1>q. RequestOk(q, c, b2, e)
    BY <1>1, <1>fb DEF RequestOk, RestOk, PlaceOk, RestUnits, Complete, Waiting, Writing, Passing, Over
<1>a. AnswerOk(q, c, b2, e)
    BY <1>1, <1>fb DEF AnswerOk, PlaceOk, FlowOk, Passed, Waiting, Writing, Passing, Over
<1> QED  BY <1>1, <1>fb, <1>p, <1>w, <1>r, <1>q, <1>a DEF StreamOk

\* The same in the middle of a frame: its window is given back.
LEMMA BrokenPutOk ==
    ASSUME BridgeAssumption, NEW q \in H2Requests, NEW c, NEW b, NEW e, StreamOk(q, c, b, e),
           NEW u \in Nat,
           b.pc = "put",
           u = c.upload + b.size,
           e.st \notin {"run", "answer"},
           NEW b2, b2 = [b EXCEPT !.pc = "await", !.rest = <<>>, !.size = 0],
           NEW c2, c2 = [c EXCEPT !.upload = u]
    PROVE  StreamOk(q, c2, b2, e)
<1>1. c \in Clients /\ b \in Bridges /\ e \in Engines
      /\ PlaceOk(q, c, b, e) /\ WindowOk(q, c, b) /\ RestOk(q, c, b, e) /\ RequestOk(q, c, b, e) /\ AnswerOk(q, c, b, e)
    BY DEF StreamOk
<1>2. c.sent \in Nat /\ c.upload \in Nat /\ Len(q.frames) \in Nat /\ b.size \in Nat /\ b.taken \in Nat /\ e.units \in Nat
      /\ c.sent <= Len(q.frames) /\ b.taken <= c.sent /\ UploadWindow \in Nat
    BY <1>1, Frames DEF Clients, Bridges, Engines, PlaceOk, BridgeAssumption
<1>3. UnitsIn(q.frames)[c.sent] \in Nat /\ UnitsIn(q.frames)[b.taken] \in Nat
  <2>1. c.sent \in 0 .. Len(q.frames) /\ b.taken \in 0 .. Len(q.frames)
      BY <1>2
  <2> QED  BY <2>1, Frames
<1>4. <<>> \in Seq(H2Pieces)
    OBVIOUS
<1>fb. b2 \in Bridges /\ b2.pc = "await" /\ b2.taken = b.taken /\ b2.size = 0 /\ b2.rest = <<>> /\ b2.acc = b.acc
      /\ b2.got = b.got
    BY <1>1, <1>4 DEF Bridges, Waiting, Writing, Passing, Over
<1>fc. c2 \in Clients /\ c2.sent = c.sent /\ c2.reset = c.reset /\ c2.upload = u /\ c2.window = c.window
      /\ c2.head = c.head /\ c2.units = c.units /\ c2.end = c.end
    BY <1>1, <1>4 DEF Clients
<1>p. PlaceOk(q, c2, b2, e)
  <2>1. c.end = "no" /\ b.acc = <<>> /\ b.got = 0 /\ c.units = 0 /\ e.st # "none"
      BY ONLY <1>1, b.pc = "put" DEF PlaceOk, Waiting, Writing, Over
  <2> QED  BY ONLY <1>1, <1>fb, <1>fc, <2>1, b.pc = "put" DEF PlaceOk, Waiting, Writing, Passing, Over
<1>w. WindowOk(q, c2, b2)
  <2>1. b2.size = 0 /\ c2.sent = c.sent /\ b2.taken = b.taken /\ c2.upload = c.upload + b.size
      BY <1>fb, <1>fc
  <2> QED  BY ONLY <1>1, <1>2, <1>3, <2>1, WindowGiven
<1>r. RestOk(q, c2, b2, e)
    BY <1>1, <1>fb, <1>fc DEF RestOk, PlaceOk, Complete, Waiting, Writing, Passing, Over
<1>q. RequestOk(q, c2, b2, e)
    BY <1>1, <1>fb, <1>fc DEF RequestOk, RestOk, PlaceOk, RestUnits, Complete, Waiting, Writing, Passing, Over
<1>a. AnswerOk(q, c2, b2, e)
    BY <1>1, <1>fb, <1>fc DEF AnswerOk, PlaceOk, FlowOk, Passed, Waiting, Writing, Passing, Over
<1> QED  BY <1>1, <1>fb, <1>fc, <1>p, <1>w, <1>r, <1>q, <1>a DEF StreamOk

\* A piece goes into the pipe.
LEMMA PutHeadOk ==
    ASSUME BridgeAssumption, NEW q \in H2Requests, NEW c, NEW b, NEW e, StreamOk(q, c, b, e),
           NEW x \in H2Pieces,
           b.pc = "head",
           e.st \in {"run", "answer"},
           Len(e.in) < PipeRoom,
           x = b.rest[1],
           NEW b2, b2 = [b EXCEPT !.pc = "pump", !.rest = <<>>, !.size = 0],
           NEW e2, e2 = [e EXCEPT !.in = Append(e.in, x)]
    PROVE  StreamOk(q, c, b2, e2)
<1>1. c \in Clients /\ b \in Bridges /\ e \in Engines
      /\ PlaceOk(q, c, b, e) /\ WindowOk(q, c, b) /\ RestOk(q, c, b, e) /\ RequestOk(q, c, b, e) /\ AnswerOk(q, c, b, e)
    BY DEF StreamOk
<1>2. c.sent \in Nat /\ c.upload \in Nat /\ Len(q.frames) \in Nat /\ b.size \in Nat /\ b.taken \in Nat /\ e.units \in Nat
      /\ c.sent <= Len(q.frames) /\ b.taken <= c.sent /\ UploadWindow \in Nat
    BY <1>1, Frames DEF Clients, Bridges, Engines, PlaceOk, BridgeAssumption
<1>3. UnitsIn(q.frames)[c.sent] \in Nat /\ UnitsIn(q.frames)[b.taken] \in Nat
  <2>1. c.sent \in 0 .. Len(q.frames) /\ b.taken \in 0 .. Len(q.frames)
      BY <1>2
  <2> QED  BY <2>1, Frames
<1>5. CountUnits(Append(e.in, x)) = CountUnits(e.in) + (IF x = "unit" THEN 1 ELSE 0) /\ CountUnits(e.in) \in Nat
      /\ Append(e.in, x) \in Seq(H2Pieces) /\ Len(Append(e.in, x)) = Len(e.in) + 1 /\ Len(e.in) \in Nat /\ PipeRoom \in Nat
  <2>1. e.in \in Seq(H2Pieces)
      BY <1>1 DEF Engines
  <2> QED  BY <2>1, CountAppend DEF BridgeAssumption
<1>6. Append(e.in, x)[Len(e.in) + 1] = x /\ \A j \in 1 .. Len(e.in) : Append(e.in, x)[j] = e.in[j]
  <2>1. e.in \in Seq(H2Pieces)
      BY <1>1 DEF Engines
  <2> QED  BY <2>1
<1>7. <<>> \in Seq(H2Pieces)
    OBVIOUS
<1>fb. b2 \in Bridges /\ b2.pc = "pump" /\ b2.taken = b.taken /\ b2.size = 0 /\ b2.rest = <<>> /\ b2.acc = b.acc
      /\ b2.got = b.got
    BY <1>1, <1>5, <1>7 DEF Bridges, Waiting, Writing, Passing, Over
<1>fe. e2 \in Engines /\ e2.st = e.st /\ e2.in = Append(e.in, x) /\ e2.out = e.out /\ e2.units = e.units
      /\ e2.ended = e.ended /\ e2.head = e.head /\ e2.reply = e.reply /\ e2.left = e.left /\ e2.aborted = e.aborted
    BY <1>1, <1>5, <1>7 DEF Engines
<1>p. PlaceOk(q, c, b2, e2)
    BY <1>1, <1>fb, <1>fe, <1>5 DEF PlaceOk, RestOk, Waiting, Writing, Passing, Over
<1>w. WindowOk(q, c, b2)
  <2>1. b.size = 0
      BY <1>1 DEF RestOk
  <2> QED  BY <1>1, <1>fb, <2>1 DEF WindowOk
<1>r. RestOk(q, c, b2, e2)
    BY <1>1, <1>fb, <1>fe DEF RestOk, PlaceOk, Complete, Waiting, Writing, Passing, Over
<1>q. RequestOk(q, c, b2, e2)
  <2>1. e.in = <<>> /\ x = "head" /\ (e.st = "run" => ~e.ended)
      BY <1>1 DEF RestOk, RequestOk
  <2> QED  BY <1>1, <1>2, <1>5, <1>6, <1>fb, <1>fe, <2>1 DEF RequestOk, RestUnits
<1>a. AnswerOk(q, c, b2, e2)
    BY <1>1, <1>fb, <1>fe DEF AnswerOk, PlaceOk, FlowOk, Passed, Waiting, Writing, Passing, Over
<1> QED  BY <1>1, <1>fb, <1>fe, <1>p, <1>w, <1>r, <1>q, <1>a DEF StreamOk

\* The last chunk goes in: every frame is in the pipe or read.
LEMMA PutLastOk ==
    ASSUME BridgeAssumption, NEW q \in H2Requests, NEW c, NEW b, NEW e, StreamOk(q, c, b, e),
           NEW x \in H2Pieces,
           b.pc = "last",
           e.st \in {"run", "answer"},
           Len(e.in) < PipeRoom,
           x = b.rest[1],
           NEW b2, b2 = [b EXCEPT !.pc = "await", !.rest = <<>>, !.size = 0],
           NEW e2, e2 = [e EXCEPT !.in = Append(e.in, x)]
    PROVE  StreamOk(q, c, b2, e2)
<1>1. c \in Clients /\ b \in Bridges /\ e \in Engines
      /\ PlaceOk(q, c, b, e) /\ WindowOk(q, c, b) /\ RestOk(q, c, b, e) /\ RequestOk(q, c, b, e) /\ AnswerOk(q, c, b, e)
    BY DEF StreamOk
<1>2. c.sent \in Nat /\ c.upload \in Nat /\ Len(q.frames) \in Nat /\ b.size \in Nat /\ b.taken \in Nat /\ e.units \in Nat
      /\ c.sent <= Len(q.frames) /\ b.taken <= c.sent /\ UploadWindow \in Nat
    BY <1>1, Frames DEF Clients, Bridges, Engines, PlaceOk, BridgeAssumption
<1>3. UnitsIn(q.frames)[c.sent] \in Nat /\ UnitsIn(q.frames)[b.taken] \in Nat
  <2>1. c.sent \in 0 .. Len(q.frames) /\ b.taken \in 0 .. Len(q.frames)
      BY <1>2
  <2> QED  BY <2>1, Frames
<1>5. CountUnits(Append(e.in, x)) = CountUnits(e.in) + (IF x = "unit" THEN 1 ELSE 0) /\ CountUnits(e.in) \in Nat
      /\ Append(e.in, x) \in Seq(H2Pieces) /\ Len(Append(e.in, x)) = Len(e.in) + 1 /\ Len(e.in) \in Nat /\ PipeRoom \in Nat
  <2>1. e.in \in Seq(H2Pieces)
      BY <1>1 DEF Engines
  <2> QED  BY <2>1, CountAppend DEF BridgeAssumption
<1>6. Append(e.in, x)[Len(e.in) + 1] = x /\ \A j \in 1 .. Len(e.in) : Append(e.in, x)[j] = e.in[j]
  <2>1. e.in \in Seq(H2Pieces)
      BY <1>1 DEF Engines
  <2> QED  BY <2>1
<1>7. <<>> \in Seq(H2Pieces)
    OBVIOUS
<1>fb. b2 \in Bridges /\ b2.pc = "await" /\ b2.taken = b.taken /\ b2.size = 0 /\ b2.rest = <<>> /\ b2.acc = b.acc
      /\ b2.got = b.got
    BY <1>1, <1>5, <1>7 DEF Bridges, Waiting, Writing, Passing, Over
<1>fe. e2 \in Engines /\ e2.st = e.st /\ e2.in = Append(e.in, x) /\ e2.out = e.out /\ e2.units = e.units
      /\ e2.ended = e.ended /\ e2.head = e.head /\ e2.reply = e.reply /\ e2.left = e.left /\ e2.aborted = e.aborted
    BY <1>1, <1>5, <1>7 DEF Engines
<1>p. PlaceOk(q, c, b2, e2)
    BY <1>1, <1>fb, <1>fe, <1>5 DEF PlaceOk, RestOk, Waiting, Writing, Passing, Over
<1>w. WindowOk(q, c, b2)
  <2>1. b.size = 0
      BY <1>1 DEF RestOk
  <2> QED  BY <1>1, <1>fb, <2>1 DEF WindowOk
<1>r. RestOk(q, c, b2, e2)
    BY <1>1, <1>fb, <1>fe DEF RestOk, PlaceOk, Complete, Waiting, Writing, Passing, Over
<1>q. RequestOk(q, c, b2, e2)
  <2>1. x = "last" /\ Complete(q, c, b) /\ (e.st = "run" => ~e.ended) /\ Complete(q, c, b2)
      BY <1>1, <1>fb DEF RestOk, RequestOk, Complete
  <2>2. e.st = "run" => \A j \in 1 .. Len(e.in) : e.in[j] # "last"
      BY <1>1 DEF RequestOk
  <2>3. e.st = "run" => \A j \in 1 .. Len(e2.in) : e2.in[j] = "last" => j = Len(e2.in)
      BY <1>5, <1>6, <1>fe, <2>2
  <2>4. RestUnits(b) = 0 /\ RestUnits(b2) = 0
      BY <1>fb DEF RestUnits
  <2>5. e2.st = "run" => e2.units + CountUnits(e2.in) + RestUnits(b2) = UnitsIn(q.frames)[b2.taken]
    <3> HAVE e2.st = "run"
    <3>1. e.units + CountUnits(e.in) + RestUnits(b) = UnitsIn(q.frames)[b.taken] /\ e.in \in Seq(H2Pieces)
        BY <1>1, <1>fe DEF RequestOk, Engines
    <3>2. e2.in = Append(e.in, x) /\ e2.units = e.units /\ x \in H2Pieces /\ b2.taken = b.taken
        BY <1>fb, <1>fe
    <3>3. RestUnits(b2) \in Nat /\ RestUnits(b) = RestUnits(b2) + (IF x = "unit" THEN 1 ELSE 0)
        BY <2>1, <2>4
    <3> QED  BY ONLY <1>2, <3>1, <3>2, <3>3, UnitPut
  <2>6. e2.ended = e.ended /\ e2.units = e.units /\ e2.st = e.st /\ b2.pc = "await"
      BY <1>fb, <1>fe
  <2> QED  BY ONLY <1>1, <2>1, <2>3, <2>5, <2>6 DEF RequestOk
<1>a. AnswerOk(q, c, b2, e2)
    BY <1>1, <1>fb, <1>fe DEF AnswerOk, PlaceOk, FlowOk, Passed, Waiting, Writing, Passing, Over
<1> QED  BY <1>1, <1>fb, <1>fe, <1>p, <1>w, <1>r, <1>q, <1>a DEF StreamOk

\* The last unit of a frame goes in, and its window is given back.
LEMMA PutWholeOk ==
    ASSUME BridgeAssumption, NEW q \in H2Requests, NEW c, NEW b, NEW e, StreamOk(q, c, b, e),
           NEW x \in H2Pieces,
           NEW u \in Nat,
           b.pc = "put",
           e.st \in {"run", "answer"},
           Len(e.in) < PipeRoom,
           x = b.rest[1],
           Len(b.rest) = 1,
           u = c.upload + b.size,
           NEW b2, b2 = [b EXCEPT !.pc = "pump", !.rest = <<>>, !.size = 0],
           NEW e2, e2 = [e EXCEPT !.in = Append(e.in, x)],
           NEW c2, c2 = [c EXCEPT !.upload = u]
    PROVE  StreamOk(q, c2, b2, e2)
<1>1. c \in Clients /\ b \in Bridges /\ e \in Engines
      /\ PlaceOk(q, c, b, e) /\ WindowOk(q, c, b) /\ RestOk(q, c, b, e) /\ RequestOk(q, c, b, e) /\ AnswerOk(q, c, b, e)
    BY DEF StreamOk
<1>2. c.sent \in Nat /\ c.upload \in Nat /\ Len(q.frames) \in Nat /\ b.size \in Nat /\ b.taken \in Nat /\ e.units \in Nat
      /\ c.sent <= Len(q.frames) /\ b.taken <= c.sent /\ UploadWindow \in Nat
    BY <1>1, Frames DEF Clients, Bridges, Engines, PlaceOk, BridgeAssumption
<1>3. UnitsIn(q.frames)[c.sent] \in Nat /\ UnitsIn(q.frames)[b.taken] \in Nat
  <2>1. c.sent \in 0 .. Len(q.frames) /\ b.taken \in 0 .. Len(q.frames)
      BY <1>2
  <2> QED  BY <2>1, Frames
<1>5. CountUnits(Append(e.in, x)) = CountUnits(e.in) + (IF x = "unit" THEN 1 ELSE 0) /\ CountUnits(e.in) \in Nat
      /\ Append(e.in, x) \in Seq(H2Pieces) /\ Len(Append(e.in, x)) = Len(e.in) + 1 /\ Len(e.in) \in Nat /\ PipeRoom \in Nat
  <2>1. e.in \in Seq(H2Pieces)
      BY <1>1 DEF Engines
  <2> QED  BY <2>1, CountAppend DEF BridgeAssumption
<1>6. Append(e.in, x)[Len(e.in) + 1] = x /\ \A j \in 1 .. Len(e.in) : Append(e.in, x)[j] = e.in[j]
  <2>1. e.in \in Seq(H2Pieces)
      BY <1>1 DEF Engines
  <2> QED  BY <2>1
<1>7. <<>> \in Seq(H2Pieces)
    OBVIOUS
<1>fb. b2 \in Bridges /\ b2.pc = "pump" /\ b2.taken = b.taken /\ b2.size = 0 /\ b2.rest = <<>> /\ b2.acc = b.acc
      /\ b2.got = b.got
    BY <1>1, <1>5, <1>7 DEF Bridges, Waiting, Writing, Passing, Over
<1>fe. e2 \in Engines /\ e2.st = e.st /\ e2.in = Append(e.in, x) /\ e2.out = e.out /\ e2.units = e.units
      /\ e2.ended = e.ended /\ e2.head = e.head /\ e2.reply = e.reply /\ e2.left = e.left /\ e2.aborted = e.aborted
    BY <1>1, <1>5, <1>7 DEF Engines
<1>fc. c2 \in Clients /\ c2.sent = c.sent /\ c2.reset = c.reset /\ c2.upload = u /\ c2.window = c.window
      /\ c2.head = c.head /\ c2.units = c.units /\ c2.end = c.end
    BY <1>1, <1>5, <1>7 DEF Clients
<1>p. PlaceOk(q, c2, b2, e2)
    BY <1>1, <1>fb, <1>fe, <1>fc, <1>5 DEF PlaceOk, RestOk, Waiting, Writing, Passing, Over
<1>w. WindowOk(q, c2, b2)
  <2>1. b2.size = 0 /\ c2.sent = c.sent /\ b2.taken = b.taken /\ c2.upload = c.upload + b.size
      BY <1>fb, <1>fc
  <2> QED  BY ONLY <1>1, <1>2, <1>3, <2>1, WindowGiven
<1>r. RestOk(q, c2, b2, e2)
    BY <1>1, <1>fb, <1>fe, <1>fc DEF RestOk, PlaceOk, Complete, Waiting, Writing, Passing, Over
<1>q. RequestOk(q, c2, b2, e2)
  <2>1. x \in {"chunk", "unit"} /\ (e.st = "run" => ~e.ended)
      BY <1>1 DEF RestOk, RequestOk
  <2>2. RestUnits(b) = (IF x = "unit" THEN 1 ELSE 0) /\ RestUnits(b2) = 0
      BY <1>fb, <2>1 DEF RestUnits
  <2>3. e.st = "run" => e.units + CountUnits(e2.in) + 0 = UnitsIn(q.frames)[b.taken]
    <3> HAVE e.st = "run"
    <3>1. e.units + CountUnits(e.in) + (IF x = "unit" THEN 1 ELSE 0) = UnitsIn(q.frames)[b.taken]
        BY <1>1, <2>2 DEF RequestOk
    <3>2. CountUnits(e2.in) = CountUnits(e.in) + (IF x = "unit" THEN 1 ELSE 0)
        BY <1>5, <1>fe
    <3>3. CountUnits(e.in) \in Nat /\ e.units \in Nat
        BY ONLY <1>2, <1>5
    <3> QED  BY ONLY <3>1, <3>2, <3>3
  <2>4. e.st = "run" => \A j \in 1 .. Len(e2.in) : e2.in[j] # "last"
    <3> HAVE e.st = "run"
    <3>1. \A j \in 1 .. Len(e.in) : e.in[j] # "last"
        BY <1>1 DEF RequestOk
    <3>2. e2.in = Append(e.in, x) /\ \A j \in 1 .. Len(e.in) + 1 : j \in 1 .. Len(e.in) \/ j = Len(e.in) + 1
        BY <1>5, <1>fe
    <3> QED  BY <1>5, <1>6, <2>1, <3>1, <3>2
  <2> QED  BY <1>1, <1>fb, <1>fe, <1>fc, <2>1, <2>2, <2>3, <2>4 DEF RequestOk
<1>a. AnswerOk(q, c2, b2, e2)
    BY <1>1, <1>fb, <1>fe, <1>fc DEF AnswerOk, PlaceOk, FlowOk, Passed, Waiting, Writing, Passing, Over
<1> QED  BY <1>1, <1>fb, <1>fe, <1>fc, <1>p, <1>w, <1>r, <1>q, <1>a DEF StreamOk

\* A unit of a frame goes in, and more of the frame is to follow.
LEMMA PutPartOk ==
    ASSUME BridgeAssumption, NEW q \in H2Requests, NEW c, NEW b, NEW e, StreamOk(q, c, b, e),
           NEW x \in H2Pieces,
           NEW r,
           b.pc = "put",
           e.st \in {"run", "answer"},
           Len(e.in) < PipeRoom,
           x = b.rest[1],
           Len(b.rest) # 1,
           r = Tail(b.rest),
           NEW b2, b2 = [b EXCEPT !.rest = r],
           NEW e2, e2 = [e EXCEPT !.in = Append(e.in, x)]
    PROVE  StreamOk(q, c, b2, e2)
<1>1. c \in Clients /\ b \in Bridges /\ e \in Engines
      /\ PlaceOk(q, c, b, e) /\ WindowOk(q, c, b) /\ RestOk(q, c, b, e) /\ RequestOk(q, c, b, e) /\ AnswerOk(q, c, b, e)
    BY DEF StreamOk
<1>2. c.sent \in Nat /\ c.upload \in Nat /\ Len(q.frames) \in Nat /\ b.size \in Nat /\ b.taken \in Nat /\ e.units \in Nat
      /\ c.sent <= Len(q.frames) /\ b.taken <= c.sent /\ UploadWindow \in Nat
    BY <1>1, Frames DEF Clients, Bridges, Engines, PlaceOk, BridgeAssumption
<1>3. UnitsIn(q.frames)[c.sent] \in Nat /\ UnitsIn(q.frames)[b.taken] \in Nat
  <2>1. c.sent \in 0 .. Len(q.frames) /\ b.taken \in 0 .. Len(q.frames)
      BY <1>2
  <2> QED  BY <2>1, Frames
<1>5. CountUnits(Append(e.in, x)) = CountUnits(e.in) + (IF x = "unit" THEN 1 ELSE 0) /\ CountUnits(e.in) \in Nat
      /\ Append(e.in, x) \in Seq(H2Pieces) /\ Len(Append(e.in, x)) = Len(e.in) + 1 /\ Len(e.in) \in Nat /\ PipeRoom \in Nat
  <2>1. e.in \in Seq(H2Pieces)
      BY <1>1 DEF Engines
  <2> QED  BY <2>1, CountAppend DEF BridgeAssumption
<1>6. Append(e.in, x)[Len(e.in) + 1] = x /\ \A j \in 1 .. Len(e.in) : Append(e.in, x)[j] = e.in[j]
  <2>1. e.in \in Seq(H2Pieces)
      BY <1>1 DEF Engines
  <2> QED  BY <2>1
<1>7. <<>> \in Seq(H2Pieces)
    OBVIOUS
<1>8. b.rest \in Seq(H2Pieces) /\ b.rest # <<>> /\ x \in {"chunk", "unit"} /\ \A j \in 2 .. Len(b.rest) : b.rest[j] = "unit"
    BY <1>1 DEF RestOk, Bridges
<1>9. Len(b.rest) \in Nat /\ Len(b.rest) >= 2 /\ r \in Seq(H2Pieces) /\ Len(r) = Len(b.rest) - 1 /\ r # <<>>
      /\ \A j \in 1 .. Len(b.rest) - 1 : r[j] = b.rest[j + 1]
    BY <1>8, PieceTail
<1>10. r \in Seq(H2Pieces) /\ r # <<>> /\ Len(r) \in Nat /\ Len(r) >= 1
    BY <1>9
<1>11. ASSUME NEW j \in 1 .. Len(r) PROVE r[j] = "unit"
  <2>1. j + 1 \in 2 .. Len(b.rest) /\ j \in 1 .. Len(b.rest) - 1
    <3>1. Len(b.rest) \in Nat /\ Len(r) = Len(b.rest) - 1
        BY ONLY <1>9
    <3> QED  BY ONLY <3>1, j \in 1 .. Len(r)
  <2> QED  BY <1>8, <1>9, <2>1
<1>12. r[1] = "unit" /\ \A j \in 2 .. Len(r) : r[j] = "unit"
  <2>1. 1 \in 1 .. Len(r) /\ \A j \in 2 .. Len(r) : j \in 1 .. Len(r)
      BY <1>10
  <2> QED  BY <1>11, <2>1
<1>fb. b2 \in Bridges /\ b2.pc = b.pc /\ b2.taken = b.taken /\ b2.size = b.size /\ b2.rest = r /\ b2.acc = b.acc
      /\ b2.got = b.got
    BY <1>1, <1>5, <1>10 DEF Bridges, Waiting, Writing, Passing, Over
<1>fe. e2 \in Engines /\ e2.st = e.st /\ e2.in = Append(e.in, x) /\ e2.out = e.out /\ e2.units = e.units
      /\ e2.ended = e.ended /\ e2.head = e.head /\ e2.reply = e.reply /\ e2.left = e.left /\ e2.aborted = e.aborted
    BY <1>1, <1>5, <1>10 DEF Engines
<1>p. PlaceOk(q, c, b2, e2)
  <2>1. Len(e2.in) <= PipeRoom /\ Len(e2.out) <= PipeRoom
    <3>1. Len(e2.in) <= PipeRoom
        BY ONLY <1>5, <1>fe, Len(e.in) < PipeRoom
    <3> QED  BY ONLY <1>1, <1>fe, <3>1 DEF PlaceOk
  <2> QED  BY ONLY <1>1, <1>fb, <1>fe, <2>1, b.pc = "put", e.st \in {"run", "answer"}
               DEF PlaceOk, Waiting, Writing, Passing, Over
<1>w. WindowOk(q, c, b2)
    BY <1>1, <1>fb, <1>fe DEF WindowOk
<1>r. RestOk(q, c, b2, e2)
  <2>1. b2.pc = "put" /\ b2.rest # <<>> /\ b2.rest[1] = "unit" /\ \A j \in 2 .. Len(b2.rest) : b2.rest[j] = "unit"
      BY <1>fb, <1>10, <1>12
  <2> QED  BY <2>1 DEF RestOk, Passing
<1>q. RequestOk(q, c, b2, e2)
  <2>1. e.st = "run" => ~e.ended
      BY <1>1 DEF RequestOk
  <2>2. RestUnits(b) = RestUnits(b2) + (IF x = "unit" THEN 1 ELSE 0) /\ RestUnits(b2) \in Nat
    <3>1. RestUnits(b2) = Len(r) /\ RestUnits(b) = IF x = "chunk" THEN Len(b.rest) - 1 ELSE Len(b.rest)
        BY <1>12, <1>fb DEF RestUnits
    <3> QED  BY <1>8, <1>9, <3>1
  <2>3. e.st = "run" => e2.units + CountUnits(e2.in) + RestUnits(b2) = UnitsIn(q.frames)[b.taken]
    <3> HAVE e.st = "run"
    <3>1. e.units + CountUnits(e.in) + RestUnits(b) = UnitsIn(q.frames)[b.taken] /\ e.in \in Seq(H2Pieces)
        BY <1>1 DEF RequestOk, Engines
    <3>2. e2.in = Append(e.in, x) /\ e2.units = e.units /\ x \in H2Pieces
        BY <1>fe
    <3> QED  BY ONLY <1>2, <2>2, <3>1, <3>2, UnitPut
  <2>4. e.st = "run" => \A j \in 1 .. Len(e2.in) : e2.in[j] # "last"
    <3> HAVE e.st = "run"
    <3>1. \A j \in 1 .. Len(e.in) : e.in[j] # "last"
        BY <1>1 DEF RequestOk
    <3>2. ASSUME NEW j \in 1 .. Len(e.in) + 1 PROVE Append(e.in, x)[j] # "last"
      <4>1. j \in 1 .. Len(e.in) \/ j = Len(e.in) + 1
          BY ONLY <1>5, <3>2
      <4> QED  BY ONLY <1>6, <1>8, <3>1, <4>1
    <3> QED  BY ONLY <1>5, <1>fe, <3>2
  <2> QED  BY <1>1, <1>fb, <1>fe, <2>1, <2>2, <2>3, <2>4 DEF RequestOk
<1>a. AnswerOk(q, c, b2, e2)
    BY <1>1, <1>fb, <1>fe DEF AnswerOk, PlaceOk, FlowOk, Passed, Waiting, Writing, Passing, Over
<1> QED  BY <1>1, <1>fb, <1>fe, <1>p, <1>w, <1>r, <1>q, <1>a DEF StreamOk

\* The engine reads a piece of it.
LEMMA EngineReadOk ==
    ASSUME BridgeAssumption, NEW q \in H2Requests, NEW c, NEW b, NEW e, StreamOk(q, c, b, e),
           NEW f \in BOOLEAN,
           NEW m \in Nat,
           e.st = "run",
           e.in # <<>>,
           f <=> e.ended \/ e.in[1] = "last",
           m = e.units + (IF e.in[1] = "unit" THEN 1 ELSE 0),
           NEW e2, e2 = [e EXCEPT !.in = Tail(e.in), !.head = TRUE, !.units = m, !.ended = f]
    PROVE  StreamOk(q, c, b, e2)
<1>1. c \in Clients /\ b \in Bridges /\ e \in Engines
      /\ PlaceOk(q, c, b, e) /\ WindowOk(q, c, b) /\ RestOk(q, c, b, e) /\ RequestOk(q, c, b, e) /\ AnswerOk(q, c, b, e)
    BY DEF StreamOk
<1>2. c.sent \in Nat /\ c.upload \in Nat /\ Len(q.frames) \in Nat /\ b.size \in Nat /\ b.taken \in Nat /\ e.units \in Nat
      /\ c.sent <= Len(q.frames) /\ b.taken <= c.sent /\ UploadWindow \in Nat
    BY <1>1, Frames DEF Clients, Bridges, Engines, PlaceOk, BridgeAssumption
<1>3. UnitsIn(q.frames)[c.sent] \in Nat /\ UnitsIn(q.frames)[b.taken] \in Nat
  <2>1. c.sent \in 0 .. Len(q.frames) /\ b.taken \in 0 .. Len(q.frames)
      BY <1>2
  <2> QED  BY <2>1, Frames
<1>4. e.in \in Seq(H2Pieces)
    BY <1>1 DEF Engines
<1>5. Tail(e.in) \in Seq(H2Pieces) /\ Len(e.in) \in Nat /\ Len(e.in) >= 1 /\ Len(Tail(e.in)) = Len(e.in) - 1
      /\ (\A j \in 1 .. Len(e.in) - 1 : Tail(e.in)[j] = e.in[j + 1]) /\ PipeRoom \in Nat
    BY <1>4 DEF BridgeAssumption
<1>6. CountUnits(e.in) \in Nat /\ CountUnits(Tail(e.in)) \in Nat
      /\ CountUnits(e.in) = CountUnits(Tail(e.in)) + (IF e.in[1] = "unit" THEN 1 ELSE 0)
    BY <1>4, CountTail
<1>fe. e2 \in Engines /\ e2.st = e.st /\ e2.in = Tail(e.in) /\ e2.out = e.out /\ e2.units = m /\ e2.ended = f
      /\ e2.head = TRUE /\ e2.reply = e.reply /\ e2.left = e.left /\ e2.aborted = e.aborted
    BY <1>1, <1>5 DEF Engines
<1>p. PlaceOk(q, c, b, e2)
    BY <1>1, <1>fe, <1>5 DEF PlaceOk, RestOk, Waiting, Writing, Passing, Over
<1>w. WindowOk(q, c, b)
    BY <1>1, <1>fe DEF WindowOk
<1>r. RestOk(q, c, b, e2)
    BY <1>1, <1>fe, <1>5 DEF RestOk, PlaceOk, Complete, Waiting, Writing, Passing, Over
<1>q. RequestOk(q, c, b, e2)
  <2>1. ~e.ended /\ e.units + CountUnits(e.in) + RestUnits(b) = UnitsIn(q.frames)[b.taken]
      BY <1>1 DEF RequestOk
  <2>2. RestUnits(b) \in Nat
    <3>1. b.pc = "put" => b.rest \in Seq(H2Pieces) /\ b.rest # <<>>
        BY <1>1 DEF RestOk, Bridges
    <3>2. b.pc = "put" => Len(b.rest) \in Nat /\ Len(b.rest) >= 1
        BY <3>1
    <3> QED  BY <3>2 DEF RestUnits
  <2>3. m + CountUnits(Tail(e.in)) + RestUnits(b) = UnitsIn(q.frames)[b.taken]
    <3>1. e2.in = Tail(e.in) /\ e2.units = m
        BY <1>fe
    <3>2. e2.units + CountUnits(e2.in) + RestUnits(b) = UnitsIn(q.frames)[b.taken]
        BY <1>2, <1>4, <2>1, <2>2, <3>1, UnitRead
    <3> QED  BY <3>1, <3>2
  <2>4. \A j \in 1 .. Len(e.in) : e.in[j] = "last" => j = Len(e.in) /\ b.pc = "await" /\ Complete(q, c, b)
      BY <1>1 DEF RequestOk
  <2>5. \A j \in 1 .. Len(Tail(e.in)) : Tail(e.in)[j] = "last" => j = Len(Tail(e.in)) /\ b.pc = "await" /\ Complete(q, c, b)
    <3> TAKE j \in 1 .. Len(Tail(e.in))
    <3>1. j + 1 \in 1 .. Len(e.in) /\ Tail(e.in)[j] = e.in[j + 1] /\ (j + 1 = Len(e.in) => j = Len(Tail(e.in)))
        BY <1>5
    <3> QED  BY <2>4, <3>1
  <2>6. f => Tail(e.in) = <<>> /\ b.pc = "await" /\ c.sent = Len(q.frames) /\ m = UnitsOf(q)
    <3> HAVE f
    <3>1. e.in[1] = "last" /\ 1 \in 1 .. Len(e.in)
        BY <1>5, <2>1
    <3>2. Len(e.in) = 1 /\ b.pc = "await" /\ c.sent = Len(q.frames) /\ b.taken = Len(q.frames)
        BY <2>4, <3>1 DEF Complete
    <3>3. Tail(e.in) = <<>>
        BY <1>4, <3>2, PieceTail
    <3>4. m = UnitsIn(q.frames)[b.taken]
      <4>1. RestUnits(b) = 0 /\ CountUnits(<<>>) = 0
          BY <3>2, CountEmpty DEF RestUnits
      <4>2. m + 0 + 0 = UnitsIn(q.frames)[b.taken]
          BY <2>3, <3>3, <4>1
      <4>3. m + 0 + 0 = m
          OBVIOUS
      <4> QED  BY <4>2, <4>3
    <3> QED  BY <3>2, <3>3, <3>4 DEF UnitsOf
  <2> QED  BY <1>1, <1>fe, <2>3, <2>5, <2>6 DEF RequestOk
<1>a. AnswerOk(q, c, b, e2)
    BY <1>1, <1>fe DEF AnswerOk, PlaceOk, FlowOk, Passed, Waiting, Writing, Passing, Over
<1> QED  BY <1>1, <1>fe, <1>p, <1>w, <1>r, <1>q, <1>a DEF StreamOk

\* How the parts of an answer move along.
LEMMA FlowNew ==
    ASSUME NEW ps \in Seq(H2Pieces)
    PROVE  Flow(ps, <<>>, <<>>, ps) /\ Behind(ps, <<>>, <<>>, ps) = 0
<1>1. Len(ps) \in Nat /\ Len(<<>>) = 0
    OBVIOUS
<1>2. Behind(ps, <<>>, <<>>, ps) = 0
    BY <1>1 DEF Behind
<1>3. IsPart(<<>>, ps, 0) /\ IsPart(ps, ps, 0)
    BY <1>1, PartEmpty, PartWhole
<1>4. 0 + Len(<<>>) = 0 /\ 0 + Len(<<>>) + Len(<<>>) = 0
    BY <1>1
<1> QED  BY <1>2, <1>3, <1>4 DEF Flow

\* The sizes of the parts of an answer, and where each starts.
LEMMA FlowSizes ==
    ASSUME NEW ps \in Seq(H2Pieces), NEW acc \in Seq(H2Pieces), NEW out \in Seq(H2Pieces), NEW rem \in Seq(H2Pieces),
           Flow(ps, acc, out, rem)
    PROVE  /\ Len(ps) \in Nat /\ Len(acc) \in Nat /\ Len(out) \in Nat /\ Len(rem) \in Nat
           /\ Behind(ps, acc, out, rem) \in Nat
           /\ Len(ps) = Behind(ps, acc, out, rem) + Len(acc) + Len(out) + Len(rem)
<1>1. Len(ps) \in Nat /\ Len(acc) \in Nat /\ Len(out) \in Nat /\ Len(rem) \in Nat
    OBVIOUS
<1>2. Len(ps) - (Len(acc) + Len(out) + Len(rem)) >= 0
    BY DEF Flow, Behind
<1> QED  BY <1>1, <1>2 DEF Behind

\* The engine writes a piece: from what is left into the pipe.
LEMMA FlowWrite ==
    ASSUME NEW ps \in Seq(H2Pieces), NEW acc \in Seq(H2Pieces), NEW out \in Seq(H2Pieces), NEW rem \in Seq(H2Pieces),
           Flow(ps, acc, out, rem), rem # <<>>
    PROVE  /\ Append(out, Head(rem)) \in Seq(H2Pieces) /\ Len(Append(out, Head(rem))) = Len(out) + 1
           /\ Flow(ps, acc, Append(out, Head(rem)), Tail(rem))
           /\ Behind(ps, acc, Append(out, Head(rem)), Tail(rem)) = Behind(ps, acc, out, rem)
<1> DEFINE n == Behind(ps, acc, out, rem)
           v == Append(out, Head(rem))
           w == Tail(rem)
           k == n + Len(acc)
<1>1. Len(ps) \in Nat /\ Len(acc) \in Nat /\ Len(out) \in Nat /\ Len(rem) \in Nat /\ n \in Nat
      /\ Len(ps) = n + Len(acc) + Len(out) + Len(rem)
    BY FlowSizes
<1>2. IsPart(acc, ps, n) /\ IsPart(out, ps, k) /\ IsPart(rem, ps, k + Len(out))
    BY DEF Flow
<1> HIDE DEF n
<1>3. w \in Seq(H2Pieces) /\ Len(w) = Len(rem) - 1 /\ IsPart(w, ps, k + Len(out) + 1) /\ Len(rem) >= 1
      /\ rem[1] = ps[k + Len(out) + 1] /\ Head(rem) = rem[1]
  <2>1. k + Len(out) \in Nat
      BY <1>1
  <2> HIDE DEF k
  <2> QED  BY <1>2, <2>1, PartTail
<1>4. k \in Nat /\ k + Len(out) < Len(ps)
    BY <1>1, <1>3
<1>5. v \in Seq(H2Pieces) /\ IsPart(v, ps, k)
  <2> HIDE DEF k
  <2> QED  BY <1>2, <1>3, <1>4, PartAppend
<1>6. Len(v) = Len(out) + 1
    BY <1>5
<1> HIDE DEF v, w
<1>7. Behind(ps, acc, v, w) = n
    BY <1>1, <1>3, <1>6 DEF Behind
<1>8. n + Len(acc) + Len(v) = k + Len(out) + 1
    BY <1>1, <1>6
<1>9. Flow(ps, acc, v, w)
    BY ONLY <1>1, <1>2, <1>3, <1>5, <1>7, <1>8 DEF Flow, k
<1> QED  BY <1>5, <1>6, <1>7, <1>9 DEF n, v, w

\* The task reads the pipe: what it held is now in its hands.
LEMMA FlowTake ==
    ASSUME NEW ps \in Seq(H2Pieces), NEW out \in Seq(H2Pieces), NEW rem \in Seq(H2Pieces),
           Flow(ps, <<>>, out, rem), NEW k \in 0 .. Len(out), NEW i \in Nat, i <= k
    PROVE  /\ SubSeq(out, i + 1, k) \in Seq(H2Pieces) /\ SubSeq(out, k + 1, Len(out)) \in Seq(H2Pieces)
           /\ Len(SubSeq(out, k + 1, Len(out))) = Len(out) - k
           /\ Flow(ps, SubSeq(out, i + 1, k), SubSeq(out, k + 1, Len(out)), rem)
           /\ Behind(ps, SubSeq(out, i + 1, k), SubSeq(out, k + 1, Len(out)), rem) = Behind(ps, <<>>, out, rem) + i
<1> DEFINE n == Behind(ps, <<>>, out, rem)
           v == SubSeq(out, i + 1, k)
           w == SubSeq(out, k + 1, Len(out))
<1>0. <<>> \in Seq(H2Pieces) /\ Len(<<>>) = 0
    OBVIOUS
<1>1. Len(ps) \in Nat /\ Len(out) \in Nat /\ Len(rem) \in Nat /\ n \in Nat /\ Len(ps) = n + 0 + Len(out) + Len(rem)
  <2>1. /\ Len(ps) \in Nat /\ Len(<<>>) \in Nat /\ Len(out) \in Nat /\ Len(rem) \in Nat /\ n \in Nat
        /\ Len(ps) = n + Len(<<>>) + Len(out) + Len(rem)
    <3>1. Len(ps) - (Len(<<>>) + Len(out) + Len(rem)) >= 0
        BY DEF Flow, Behind
    <3> QED  BY <1>0, <3>1 DEF Behind
  <2> QED  BY <1>0, <2>1
<1>2. IsPart(out, ps, n) /\ IsPart(rem, ps, n + Len(out))
  <2>1. IsPart(out, ps, n + Len(<<>>)) /\ IsPart(rem, ps, n + Len(<<>>) + Len(out))
      BY DEF Flow
  <2>2. n + Len(<<>>) = n
      BY <1>0, <1>1
  <2> HIDE DEF n
  <2> QED  BY <2>1, <2>2
<1> HIDE DEF n
<1>3. v \in Seq(H2Pieces) /\ Len(v) = k - i /\ IsPart(v, ps, n + i) /\ w \in Seq(H2Pieces) /\ Len(w) = Len(out) - k
      /\ IsPart(w, ps, n + k)
    BY <1>1, <1>2, PartSplit
<1> HIDE DEF v, w
<1>4. Behind(ps, v, w, rem) = n + i
    BY <1>1, <1>3 DEF Behind
<1>5. n + i >= 0 /\ n + i + Len(v) = n + k /\ n + i + Len(v) + Len(w) = n + Len(out)
    BY <1>1, <1>3
<1>6. Flow(ps, v, w, rem)
    BY ONLY <1>2, <1>3, <1>4, <1>5 DEF Flow
<1> QED  BY <1>3, <1>4, <1>6 DEF n, v, w

\* The same from the start of the pipe.
LEMMA FlowTakeAll ==
    ASSUME NEW ps \in Seq(H2Pieces), NEW acc, NEW out \in Seq(H2Pieces), NEW rem \in Seq(H2Pieces), acc = <<>>,
           Flow(ps, acc, out, rem), NEW k \in 0 .. Len(out)
    PROVE  /\ SubSeq(out, 1, k) \in Seq(H2Pieces) /\ SubSeq(out, k + 1, Len(out)) \in Seq(H2Pieces)
           /\ Len(SubSeq(out, k + 1, Len(out))) = Len(out) - k
           /\ Flow(ps, SubSeq(out, 1, k), SubSeq(out, k + 1, Len(out)), rem)
           /\ Behind(ps, SubSeq(out, 1, k), SubSeq(out, k + 1, Len(out)), rem) = Behind(ps, acc, out, rem)
<1>1. PICK i \in Nat : i = 0
    OBVIOUS
<1>2. i \in Nat /\ i <= k
    BY <1>1
<1>3. Flow(ps, <<>>, out, rem) /\ Behind(ps, <<>>, out, rem) = Behind(ps, acc, out, rem)
    OBVIOUS
<1>4. /\ SubSeq(out, i + 1, k) \in Seq(H2Pieces) /\ SubSeq(out, k + 1, Len(out)) \in Seq(H2Pieces)
      /\ Len(SubSeq(out, k + 1, Len(out))) = Len(out) - k
      /\ Flow(ps, SubSeq(out, i + 1, k), SubSeq(out, k + 1, Len(out)), rem)
      /\ Behind(ps, SubSeq(out, i + 1, k), SubSeq(out, k + 1, Len(out)), rem) = Behind(ps, <<>>, out, rem) + i
    BY <1>2, <1>3, FlowTake, ZenonT(60)
<1>5. acc \in Seq(H2Pieces)
    OBVIOUS
<1>6. Behind(ps, acc, out, rem) \in Nat
    BY <1>5, FlowSizes, Zenon
<1> QED  BY ONLY <1>1, <1>2, <1>3, <1>4, <1>6

\* The task passes a piece on: one more lies behind it.
LEMMA FlowPass ==
    ASSUME NEW ps \in Seq(H2Pieces), NEW acc \in Seq(H2Pieces), NEW out \in Seq(H2Pieces), NEW rem \in Seq(H2Pieces),
           Flow(ps, acc, out, rem), acc # <<>>
    PROVE  /\ Tail(acc) \in Seq(H2Pieces)
           /\ Flow(ps, Tail(acc), out, rem)
           /\ Behind(ps, Tail(acc), out, rem) = Behind(ps, acc, out, rem) + 1
           /\ Behind(ps, acc, out, rem) < Len(ps) /\ acc[1] = ps[Behind(ps, acc, out, rem) + 1]
<1> DEFINE n == Behind(ps, acc, out, rem)
           v == Tail(acc)
<1>1. Len(ps) \in Nat /\ Len(acc) \in Nat /\ Len(out) \in Nat /\ Len(rem) \in Nat /\ n \in Nat
      /\ Len(ps) = n + Len(acc) + Len(out) + Len(rem)
    BY FlowSizes
<1>2. IsPart(acc, ps, n) /\ IsPart(out, ps, n + Len(acc)) /\ IsPart(rem, ps, n + Len(acc) + Len(out))
    BY DEF Flow
<1> HIDE DEF n
<1>3. v \in Seq(H2Pieces) /\ Len(v) = Len(acc) - 1 /\ IsPart(v, ps, n + 1) /\ Len(acc) >= 1 /\ acc[1] = ps[n + 1]
    BY <1>1, <1>2, PartTail
<1> HIDE DEF v
<1>4. Behind(ps, v, out, rem) = n + 1
    BY <1>1, <1>3 DEF Behind
<1>5. n + 1 >= 0 /\ n + 1 + Len(v) = n + Len(acc) /\ n < Len(ps)
    BY <1>1, <1>3
<1>6. Flow(ps, v, out, rem)
    BY ONLY <1>2, <1>3, <1>4, <1>5 DEF Flow
<1> QED  BY <1>3, <1>4, <1>5, <1>6 DEF n, v

\* It passes on the last piece there is.
LEMMA FlowLast ==
    ASSUME NEW ps \in Seq(H2Pieces), NEW acc \in Seq(H2Pieces), NEW out \in Seq(H2Pieces), NEW rem \in Seq(H2Pieces),
           Flow(ps, acc, out, rem), NEW m \in Nat, Behind(ps, acc, out, rem) + m = Len(ps), Len(acc) + Len(out) >= m
    PROVE  rem = <<>>
<1> DEFINE n == Behind(ps, acc, out, rem)
<1>1. Len(ps) \in Nat /\ Len(acc) \in Nat /\ Len(out) \in Nat /\ Len(rem) \in Nat /\ n \in Nat
      /\ Len(ps) = n + Len(acc) + Len(out) + Len(rem) /\ n + m = Len(ps) /\ Len(acc) + Len(out) >= m
    BY FlowSizes
<1> HIDE DEF n
<1>2. Len(rem) = 0
    BY ONLY <1>1, m \in Nat
<1> QED  BY <1>2, EmptySeq

\* The engine answers.
LEMMA EngineAnswerOk ==
    ASSUME BridgeAssumption, NEW q \in H2Requests, NEW c, NEW b, NEW e, StreamOk(q, c, b, e),
           NEW r \in H2Replies,
           e.st = "run",
           NEW e2, e2 = [e EXCEPT !.st = "answer", !.reply = r, !.left = Pieces(q, r)]
    PROVE  StreamOk(q, c, b, e2)
<1>1. c \in Clients /\ b \in Bridges /\ e \in Engines
      /\ PlaceOk(q, c, b, e) /\ WindowOk(q, c, b) /\ RestOk(q, c, b, e) /\ RequestOk(q, c, b, e) /\ AnswerOk(q, c, b, e)
    BY DEF StreamOk
<1>2. Pieces(q, r) \in Seq(H2Pieces) /\ Pieces(q, r) # <<>>
    BY PiecesAre
<1>3. b.pc \in Writing \cup {"await"} /\ b.acc = <<>> /\ e.out = <<>> /\ c.end = "no"
  <2>1. b.pc \notin Waiting \cup Passing \cup Over
      BY <1>1 DEF PlaceOk
  <2>2. b.pc \in Writing \cup {"await"}
      BY <1>1, <2>1 DEF Bridges
  <2> QED  BY <1>1, <2>1, <2>2 DEF PlaceOk
<1>fe. e2 \in Engines /\ e2.st = "answer" /\ e2.in = e.in /\ e2.out = e.out /\ e2.units = e.units
      /\ e2.ended = e.ended /\ e2.head = e.head /\ e2.reply = r /\ e2.left = Pieces(q, r) /\ e2.aborted = e.aborted
    BY <1>1, <1>2 DEF Engines
<1>p. PlaceOk(q, c, b, e2)
    BY <1>1, <1>fe, <1>2 DEF PlaceOk, RestOk, Waiting, Writing, Passing, Over
<1>w. WindowOk(q, c, b)
    BY <1>1, <1>fe DEF WindowOk
<1>r. RestOk(q, c, b, e2)
    BY <1>1, <1>fe DEF RestOk, PlaceOk, Complete, Waiting, Writing, Passing, Over
<1>q. RequestOk(q, c, b, e2)
    BY <1>1, <1>fe DEF RequestOk, RestOk, PlaceOk, RestUnits, Complete, Waiting, Writing, Passing, Over
<1>a. AnswerOk(q, c, b, e2)
  <2>1. FlowOk(q, b, e2) /\ Passed(q, b, e2) = 0
      BY <1>2, <1>3, <1>fe, FlowNew DEF FlowOk, Passed
  <2> QED  BY <1>3, <1>fe, <2>1 DEF AnswerOk, Writing, Passing
<1> QED  BY <1>1, <1>fe, <1>p, <1>w, <1>r, <1>q, <1>a DEF StreamOk

\* The engine writes a piece, or its last one and goes.
LEMMA EngineWriteOk ==
    ASSUME BridgeAssumption, NEW q \in H2Requests, NEW c, NEW b, NEW e, StreamOk(q, c, b, e),
           NEW v,
           e.st = "answer",
           Len(e.out) < PipeRoom,
           v = IF Len(e.left) = 1 THEN "gone" ELSE "answer",
           NEW e2, e2 = [e EXCEPT !.out = Append(e.out, Head(e.left)), !.left = Tail(e.left), !.st = v]
    PROVE  StreamOk(q, c, b, e2)
<1>1. c \in Clients /\ b \in Bridges /\ e \in Engines
      /\ PlaceOk(q, c, b, e) /\ WindowOk(q, c, b) /\ RestOk(q, c, b, e) /\ RequestOk(q, c, b, e) /\ AnswerOk(q, c, b, e)
    BY DEF StreamOk
<1>2. b.acc \in Seq(H2Pieces) /\ e.out \in Seq(H2Pieces) /\ e.left \in Seq(H2Pieces) /\ <<>> \in Seq(H2Pieces)
    BY <1>1 DEF Bridges, Engines
<1>3. b.pc \notin Over /\ b.pc \notin Waiting /\ e.left # <<>> /\ ~e.aborted /\ c.end = "no" /\ e.reply \in H2Replies /\ FlowOk(q, b, e)
    BY <1>1 DEF PlaceOk, AnswerOk, Waiting, Over
<1>4. /\ Append(e.out, Head(e.left)) \in Seq(H2Pieces) /\ Len(Append(e.out, Head(e.left))) = Len(e.out) + 1
      /\ Flow(Pieces(q, e.reply), b.acc, Append(e.out, Head(e.left)), Tail(e.left))
      /\ Behind(Pieces(q, e.reply), b.acc, Append(e.out, Head(e.left)), Tail(e.left)) = Passed(q, b, e)
  <2>1. Pieces(q, e.reply) \in Seq(H2Pieces)
      BY <1>3, PiecesAre
  <2>2. Flow(Pieces(q, e.reply), b.acc, e.out, e.left)
      BY <1>3 DEF FlowOk
  <2> QED  BY ONLY <1>2, <1>3, <2>1, <2>2, FlowWrite DEF Passed
<1>5. Tail(e.left) \in Seq(H2Pieces) /\ (v = "gone" => Tail(e.left) = <<>>) /\ (v = "answer" => Tail(e.left) # <<>>)
      /\ v \in {"gone", "answer"}
  <2>1. Tail(e.left) \in Seq(H2Pieces) /\ (Len(e.left) = 1 => Tail(e.left) = <<>>) /\ (Len(e.left) # 1 => Tail(e.left) # <<>>)
      BY ONLY <1>2, <1>3, PieceTail
  <2> QED  BY <2>1
<1>6. Len(e.out) + 1 <= PipeRoom
    BY <1>2 DEF BridgeAssumption
<1>fe. e2 \in Engines /\ e2.st = v /\ e2.in = e.in /\ e2.out = Append(e.out, Head(e.left)) /\ e2.units = e.units
      /\ e2.ended = e.ended /\ e2.head = e.head /\ e2.reply = e.reply /\ e2.left = Tail(e.left)
      /\ e2.aborted = e.aborted
    BY <1>1, <1>4, <1>5 DEF Engines
<1>p. PlaceOk(q, c, b, e2)
  <2>1. Len(e2.in) <= PipeRoom /\ Len(e2.out) <= PipeRoom
      BY ONLY <1>1, <1>4, <1>6, <1>fe DEF PlaceOk
  <2>2. /\ e2.st \in {"gone", "answer"} /\ (e2.st = "gone" => e2.left = <<>>)
        /\ (e2.st = "answer" => e2.left # <<>>) /\ ~e2.aborted
      BY ONLY <1>3, <1>5, <1>fe
  <2> QED  BY ONLY <1>1, <1>3, <2>1, <2>2 DEF PlaceOk
<1>w. WindowOk(q, c, b)
    BY <1>1, <1>fe DEF WindowOk
<1>r. RestOk(q, c, b, e2)
    BY <1>1, <1>fe DEF RestOk, PlaceOk, Complete, Waiting, Writing, Passing, Over
<1>q. RequestOk(q, c, b, e2)
    BY <1>1, <1>fe, <1>5 DEF RequestOk, RestOk, PlaceOk, RestUnits, Complete, Waiting, Writing, Passing, Over
<1>a. AnswerOk(q, c, b, e2)
  <2>1. FlowOk(q, b, e2) /\ Passed(q, b, e2) = Passed(q, b, e)
      BY <1>fe, <1>4 DEF FlowOk, Passed
  <2>2. e2.reply = e.reply /\ c.end = "no" /\ e.st = "answer"
      BY <1>fe, <1>3
  <2> QED  BY ONLY <1>1, <1>3, <2>1, <2>2 DEF AnswerOk
<1> QED  BY <1>1, <1>fe, <1>p, <1>w, <1>r, <1>q, <1>a DEF StreamOk

\* The task reads the head of the answer.
LEMMA ReadHeadBodyOk ==
    ASSUME BridgeAssumption, NEW q \in H2Requests, NEW c, NEW b, NEW e, StreamOk(q, c, b, e),
           NEW k \in 1 .. Len(e.out),
           b.pc = "await",
           e.out # <<>>,
           e.reply.framing # "malformed",
           ~HeadOnly(q, e.reply),
           NEW b2, b2 = [b EXCEPT !.pc = "send", !.acc = SubSeq(e.out, 2, k)],
           NEW e2, e2 = [e EXCEPT !.out = SubSeq(e.out, k + 1, Len(e.out))],
           NEW c2, c2 = [c EXCEPT !.head = TRUE]
    PROVE  StreamOk(q, c2, b2, e2)
<1>1. c \in Clients /\ b \in Bridges /\ e \in Engines
      /\ PlaceOk(q, c, b, e) /\ WindowOk(q, c, b) /\ RestOk(q, c, b, e) /\ RequestOk(q, c, b, e) /\ AnswerOk(q, c, b, e)
    BY DEF StreamOk
<1>2. b.acc \in Seq(H2Pieces) /\ e.out \in Seq(H2Pieces) /\ e.left \in Seq(H2Pieces) /\ <<>> \in Seq(H2Pieces)
    BY <1>1 DEF Bridges, Engines
<1>3. e.reply \in H2Replies /\ FlowOk(q, b, e) /\ Passed(q, b, e) = 0 /\ b.acc = <<>> /\ e.st \in {"answer", "gone"}
      /\ b.got = 0 /\ c.units = 0 /\ c.end = "no" /\ b.size = 0
    BY <1>1 DEF AnswerOk, PlaceOk, RestOk, Engines, Waiting, Writing, Passing, Over
<1>4. Pieces(q, e.reply) \in Seq(H2Pieces) /\ Flow(Pieces(q, e.reply), <<>>, e.out, e.left)
      /\ Behind(Pieces(q, e.reply), <<>>, e.out, e.left) = 0
    BY <1>3, PiecesAre DEF FlowOk, Passed
<1>5. /\ SubSeq(e.out, 1 + 1, k) \in Seq(H2Pieces) /\ SubSeq(e.out, k + 1, Len(e.out)) \in Seq(H2Pieces)
      /\ Len(SubSeq(e.out, k + 1, Len(e.out))) = Len(e.out) - k
      /\ Flow(Pieces(q, e.reply), SubSeq(e.out, 1 + 1, k), SubSeq(e.out, k + 1, Len(e.out)), e.left)
      /\ Behind(Pieces(q, e.reply), SubSeq(e.out, 1 + 1, k), SubSeq(e.out, k + 1, Len(e.out)), e.left) = 0 + 1
  <2>1. k \in 0 .. Len(e.out) /\ 1 \in Nat /\ 1 <= k
      OBVIOUS
  <2> QED  BY ONLY <1>2, <1>4, <2>1, FlowTake
<1>6. SubSeq(e.out, 1 + 1, k) = SubSeq(e.out, 2, k) /\ 0 + 1 = 1
    OBVIOUS
<1>7. Len(SubSeq(e.out, k + 1, Len(e.out))) <= PipeRoom
  <2>1. Len(e.out) <= PipeRoom /\ PipeRoom \in Nat /\ Len(e.out) \in Nat
      BY <1>1, <1>2 DEF PlaceOk, BridgeAssumption
  <2> QED  BY <1>5, <2>1
<1>fb. b2 \in Bridges /\ b2.pc = "send" /\ b2.taken = b.taken /\ b2.size = b.size /\ b2.rest = b.rest
      /\ b2.acc = SubSeq(e.out, 2, k) /\ b2.got = b.got
    BY <1>1, <1>2, <1>5, <1>6 DEF Bridges, Waiting, Writing, Passing, Over
<1>fe. e2 \in Engines /\ e2.st = e.st /\ e2.in = e.in /\ e2.out = SubSeq(e.out, k + 1, Len(e.out))
      /\ e2.units = e.units /\ e2.ended = e.ended /\ e2.head = e.head /\ e2.reply = e.reply /\ e2.left = e.left
      /\ e2.aborted = e.aborted
    BY <1>1, <1>2, <1>5, <1>6 DEF Engines
<1>fc. c2 \in Clients /\ c2.sent = c.sent /\ c2.reset = c.reset /\ c2.upload = c.upload /\ c2.window = c.window
      /\ c2.head = TRUE /\ c2.units = c.units /\ c2.end = c.end
    BY <1>1, <1>2, <1>5, <1>6 DEF Clients
<1>p. PlaceOk(q, c2, b2, e2)
    BY <1>1, <1>fb, <1>fe, <1>fc, <1>3, <1>7 DEF PlaceOk, RestOk, Waiting, Writing, Passing, Over
<1>w. WindowOk(q, c2, b2)
    BY <1>1, <1>fb, <1>fe, <1>fc DEF WindowOk
<1>r. RestOk(q, c2, b2, e2)
    BY <1>1, <1>fb, <1>fe, <1>fc, <1>3 DEF RestOk, PlaceOk, Complete, Waiting, Writing, Passing, Over
<1>q. RequestOk(q, c2, b2, e2)
    BY <1>1, <1>fb, <1>fe, <1>fc, <1>3 DEF RequestOk, RestOk, PlaceOk, RestUnits, Complete, Waiting, Writing, Passing, Over
<1>a. AnswerOk(q, c2, b2, e2)
  <2>1. FlowOk(q, b2, e2) /\ Passed(q, b2, e2) = 1
      BY <1>5, <1>6, <1>fb, <1>fe DEF FlowOk, Passed
  <2>2. e.reply.framing \in {"length", "chunked", "close"}
      BY <1>3 DEF H2Replies, HeadOnly
  <2>3. UnitsPassed(e.reply, 1) = 0
      BY DEF UnitsPassed
  <2> QED  BY <1>3, <1>fb, <1>fe, <1>fc, <2>1, <2>2, <2>3 DEF AnswerOk, Writing, Passing, Over
<1> QED  BY <1>1, <1>fb, <1>fe, <1>fc, <1>p, <1>w, <1>r, <1>q, <1>a DEF StreamOk

\* The head of an answer without a body ends it.
LEMMA ReadHeadNoneOk ==
    ASSUME BridgeAssumption, NEW q \in H2Requests, NEW c, NEW b, NEW e, StreamOk(q, c, b, e),
           NEW k \in 1 .. Len(e.out),
           NEW w,
           b.pc = "await",
           e.out # <<>>,
           HeadOnly(q, e.reply) \/ (e.reply.framing = "length" /\ e.reply.size = 0),
           w \in {c.end, "whole"},
           NEW b2, b2 = [b EXCEPT !.pc = "wind", !.acc = SubSeq(e.out, 2, k)],
           NEW e2, e2 = [e EXCEPT !.out = SubSeq(e.out, k + 1, Len(e.out))],
           NEW c2, c2 = [c EXCEPT !.head = TRUE, !.end = w]
    PROVE  StreamOk(q, c2, b2, e2)
<1>1. c \in Clients /\ b \in Bridges /\ e \in Engines
      /\ PlaceOk(q, c, b, e) /\ WindowOk(q, c, b) /\ RestOk(q, c, b, e) /\ RequestOk(q, c, b, e) /\ AnswerOk(q, c, b, e)
    BY DEF StreamOk
<1>2. b.acc \in Seq(H2Pieces) /\ e.out \in Seq(H2Pieces) /\ e.left \in Seq(H2Pieces) /\ <<>> \in Seq(H2Pieces)
    BY <1>1 DEF Bridges, Engines
<1>3. e.reply \in H2Replies /\ FlowOk(q, b, e) /\ Passed(q, b, e) = 0 /\ b.acc = <<>> /\ e.st \in {"answer", "gone"}
      /\ b.got = 0 /\ c.units = 0 /\ c.end = "no" /\ b.size = 0
    BY <1>1 DEF AnswerOk, PlaceOk, RestOk, Engines, Waiting, Writing, Passing, Over
<1>4. Pieces(q, e.reply) \in Seq(H2Pieces) /\ Flow(Pieces(q, e.reply), <<>>, e.out, e.left)
      /\ Behind(Pieces(q, e.reply), <<>>, e.out, e.left) = 0
    BY <1>3, PiecesAre DEF FlowOk, Passed
<1>5. /\ SubSeq(e.out, 1 + 1, k) \in Seq(H2Pieces) /\ SubSeq(e.out, k + 1, Len(e.out)) \in Seq(H2Pieces)
      /\ Len(SubSeq(e.out, k + 1, Len(e.out))) = Len(e.out) - k
      /\ Flow(Pieces(q, e.reply), SubSeq(e.out, 1 + 1, k), SubSeq(e.out, k + 1, Len(e.out)), e.left)
      /\ Behind(Pieces(q, e.reply), SubSeq(e.out, 1 + 1, k), SubSeq(e.out, k + 1, Len(e.out)), e.left) = 0 + 1
  <2>1. k \in 0 .. Len(e.out) /\ 1 \in Nat /\ 1 <= k
      OBVIOUS
  <2> QED  BY ONLY <1>2, <1>4, <2>1, FlowTake
<1>6. SubSeq(e.out, 1 + 1, k) = SubSeq(e.out, 2, k) /\ 0 + 1 = 1
    OBVIOUS
<1>7. Len(SubSeq(e.out, k + 1, Len(e.out))) <= PipeRoom
  <2>1. Len(e.out) <= PipeRoom /\ PipeRoom \in Nat /\ Len(e.out) \in Nat
      BY <1>1, <1>2 DEF PlaceOk, BridgeAssumption
  <2> QED  BY <1>5, <2>1
<1>8. e.left = <<>> /\ e.st = "gone"
  <2>1. /\ HeadOnly(q, e.reply) => Len(Pieces(q, e.reply)) = 1
        /\ ~HeadOnly(q, e.reply) /\ e.reply.framing # "chunked" => Len(Pieces(q, e.reply)) = e.reply.size + 1
      BY ONLY <1>3, PiecesAre
  <2>2. e.reply.size = 0 => e.reply.size + 1 = 1
      OBVIOUS
  <2>3. Len(Pieces(q, e.reply)) = 1
      BY ONLY HeadOnly(q, e.reply) \/ (e.reply.framing = "length" /\ e.reply.size = 0), <2>1, <2>2
  <2>4. Len(b.acc) = 0 /\ Len(e.out) \in Nat /\ Len(e.out) >= 1
      BY <1>2, <1>3
  <2>5. Flow(Pieces(q, e.reply), b.acc, e.out, e.left) /\ Behind(Pieces(q, e.reply), b.acc, e.out, e.left) + 1 = Len(Pieces(q, e.reply))
        /\ Len(b.acc) + Len(e.out) >= 1 /\ 1 \in Nat
      BY ONLY <1>3, <2>3, <2>4 DEF FlowOk, Passed
  <2>6. e.left = <<>>
      BY ONLY <1>2, <1>4, <2>5, FlowLast
  <2> QED  BY <1>1, <1>3, <2>6 DEF PlaceOk
<1>fb. b2 \in Bridges /\ b2.pc = "wind" /\ b2.taken = b.taken /\ b2.size = b.size /\ b2.rest = b.rest
      /\ b2.acc = SubSeq(e.out, 2, k) /\ b2.got = b.got
    BY <1>1, <1>2, <1>3, <1>5, <1>6 DEF Bridges, Waiting, Writing, Passing, Over
<1>fe. e2 \in Engines /\ e2.st = e.st /\ e2.in = e.in /\ e2.out = SubSeq(e.out, k + 1, Len(e.out))
      /\ e2.units = e.units /\ e2.ended = e.ended /\ e2.head = e.head /\ e2.reply = e.reply /\ e2.left = e.left
      /\ e2.aborted = e.aborted
    BY <1>1, <1>2, <1>3, <1>5, <1>6 DEF Engines
<1>fc. c2 \in Clients /\ c2.sent = c.sent /\ c2.reset = c.reset /\ c2.upload = c.upload /\ c2.window = c.window
      /\ c2.head = TRUE /\ c2.units = c.units /\ c2.end = w
    BY <1>1, <1>2, <1>3, <1>5, <1>6 DEF Clients
<1>p. PlaceOk(q, c2, b2, e2)
    BY <1>1, <1>fb, <1>fe, <1>fc, <1>3, <1>7, <1>8 DEF PlaceOk, RestOk, Waiting, Writing, Passing, Over
<1>w. WindowOk(q, c2, b2)
    BY <1>1, <1>fb, <1>fe, <1>fc DEF WindowOk
<1>r. RestOk(q, c2, b2, e2)
    BY <1>1, <1>fb, <1>fe, <1>fc, <1>3 DEF RestOk, PlaceOk, Complete, Waiting, Writing, Passing, Over
<1>q. RequestOk(q, c2, b2, e2)
    BY <1>1, <1>fb, <1>fe, <1>fc, <1>3, <1>8 DEF RequestOk, RestOk, PlaceOk, RestUnits, Complete, Waiting, Writing, Passing, Over
<1>a. AnswerOk(q, c2, b2, e2)
  <2>1. c2.units = IF HeadOnly(q, e2.reply) THEN 0 ELSE e2.reply.size
      BY <1>3, <1>fe, <1>fc
  <2>2. e2.left = <<>> /\ b2.pc = "wind"
      BY <1>8, <1>fe, <1>fb
  <2> QED  BY ONLY <2>1, <2>2 DEF AnswerOk, Writing, Passing, Over
<1> QED  BY <1>1, <1>fb, <1>fe, <1>fc, <1>p, <1>w, <1>r, <1>q, <1>a DEF StreamOk

\* What a piece of an answer's body tells of where it stands.
LEMMA Halves ==
    ASSUME NEW n \in Nat, n >= 1
    PROVE  /\ (n - 1) \div 2 \in Nat
           /\ (n + 1) % 2 = 0 => ((n + 1) - 1) \div 2 = (n - 1) \div 2
           /\ (n + 1) % 2 # 0 => ((n + 1) - 1) \div 2 = (n - 1) \div 2 + 1
           /\ \A k \in Nat : n = 2 * k + 1 => (n - 1) \div 2 = k
           /\ \A k \in Nat : n = 2 * k => (n - 1) \div 2 + 1 = k
OBVIOUS

\* The kind of the next piece fixes how many units have been passed on.
LEMMA PieceAt ==
    ASSUME NEW q, NEW r \in H2Replies, ~HeadOnly(q, r), NEW n \in Nat, n >= 1, n < Len(Pieces(q, r))
    PROVE  /\ UnitsPassed(r, n) \in Nat /\ r.size \in Nat /\ Pieces(q, r)[n + 1] # "head"
           /\ Pieces(q, r)[n + 1] = "chunk" => UnitsPassed(r, n + 1) = UnitsPassed(r, n)
           /\ Pieces(q, r)[n + 1] = "unit"  => UnitsPassed(r, n + 1) = UnitsPassed(r, n) + 1
           /\ Pieces(q, r)[n + 1] = "last"  => n + 1 = Len(Pieces(q, r)) /\ UnitsPassed(r, n) = r.size
           /\ r.framing = "length" /\ UnitsPassed(r, n) + 1 = r.size => n + 1 = Len(Pieces(q, r))
           /\ r.framing = "chunked" /\ n + 1 < Len(Pieces(q, r)) /\ Pieces(q, r)[n + 2] = "last" =>
                n + 2 = Len(Pieces(q, r)) /\ UnitsPassed(r, n) + 1 = r.size
<1> DEFINE ps == Pieces(q, r)
           z  == r.size
<1>1. z \in Nat /\ Len(ps) \in Nat
    BY PiecesAre
<1>2. n + 1 \in 2 .. Len(ps)
    BY <1>1
<1>3. CASE r.framing = "chunked"
  <2>1. Len(ps) = 2 * z + 2 /\ \A j \in 2 .. Len(ps) : ps[j] = IF j = 2 * z + 2 THEN "last" ELSE IF j % 2 = 0 THEN "chunk" ELSE "unit"
      BY <1>3, PiecesAre
  <2>2. UnitsPassed(r, n) = (n - 1) \div 2 /\ UnitsPassed(r, n + 1) = ((n + 1) - 1) \div 2
      BY <1>3 DEF UnitsPassed
  <2> HIDE DEF ps, z
  <2>3. ps[n + 1] = IF n + 1 = 2 * z + 2 THEN "last" ELSE IF (n + 1) % 2 = 0 THEN "chunk" ELSE "unit"
      BY <1>2, <2>1
  <2>4. (n - 1) \div 2 \in Nat /\ ((n + 1) % 2 = 0 => ((n + 1) - 1) \div 2 = (n - 1) \div 2)
        /\ ((n + 1) % 2 # 0 => ((n + 1) - 1) \div 2 = (n - 1) \div 2 + 1)
        /\ (n = 2 * z + 1 => (n - 1) \div 2 = z) /\ (n = 2 * z => (n - 1) \div 2 + 1 = z)
      BY <1>1, Halves
  <2>5. ps[n + 1] = "last" => n + 1 = 2 * z + 2 /\ n = 2 * z + 1
      BY <1>1, <2>3
  <2>6. ASSUME n + 1 < Len(ps), ps[n + 2] = "last" PROVE n + 2 = 2 * z + 2 /\ n = 2 * z
    <3>1. n + 2 \in 2 .. Len(ps)
        BY <1>1, <2>6
    <3>2. ps[n + 2] = IF n + 2 = 2 * z + 2 THEN "last" ELSE IF (n + 2) % 2 = 0 THEN "chunk" ELSE "unit"
        BY <2>1, <3>1
    <3>3. n + 2 = 2 * z + 2
        BY <2>6, <3>2
    <3> QED  BY <1>1, <3>3
  <2>7. ps[n + 1] # "head"
      BY <2>3
  <2>8. ps[n + 1] = "chunk" => (n + 1) % 2 = 0
      BY <2>3
  <2>9. ps[n + 1] = "unit" => (n + 1) % 2 # 0
      BY <2>3
  <2> QED  BY ONLY <1>1, <1>3, <2>1, <2>2, <2>4, <2>5, <2>6, <2>7, <2>8, <2>9 DEF ps, z
<1>4. CASE r.framing # "chunked"
  <2>1. Len(ps) = z + 1 /\ \A j \in 2 .. Len(ps) : ps[j] = "unit"
      BY <1>4, PiecesAre
  <2>2. UnitsPassed(r, n) = n - 1 /\ UnitsPassed(r, n + 1) = (n + 1) - 1
      BY <1>4 DEF UnitsPassed
  <2>3. n - 1 \in Nat /\ (n + 1) - 1 = (n - 1) + 1 /\ ((n - 1) + 1 = z => n + 1 = z + 1)
      BY <1>1
  <2> HIDE DEF ps, z
  <2>4. ps[n + 1] = "unit"
      BY <1>2, <2>1
  <2> QED  BY ONLY <1>1, <1>4, <2>1, <2>2, <2>3, <2>4 DEF ps, z
<1> QED  BY <1>3, <1>4

\* All the pieces of a body that the end of the pipe frames.
LEMMA PieceEnd ==
    ASSUME NEW q, NEW r \in H2Replies, ~HeadOnly(q, r), r.framing = "close"
    PROVE  UnitsPassed(r, Len(Pieces(q, r))) = r.size
<1>1. r.size \in Nat /\ Len(Pieces(q, r)) = r.size + 1
    BY PiecesAre
<1> QED  BY <1>1 DEF UnitsPassed

\* A number that is not zero is at least one.
LEMMA AtLeastOne ==
    ASSUME NEW x \in Nat, NEW y \in Nat, x >= 1
    PROVE  x + y >= 1
OBVIOUS

\* The task passes the body on, a piece at a time.
LEMMA SendNothingOk ==
    ASSUME BridgeAssumption, NEW q \in H2Requests, NEW c, NEW b, NEW e, StreamOk(q, c, b, e),
           b.pc = "send",
           b.acc = <<>>,
           NEW b2, b2 = [b EXCEPT !.pc = "read"]
    PROVE  StreamOk(q, c, b2, e)
<1>1. c \in Clients /\ b \in Bridges /\ e \in Engines
      /\ PlaceOk(q, c, b, e) /\ WindowOk(q, c, b) /\ RestOk(q, c, b, e) /\ RequestOk(q, c, b, e) /\ AnswerOk(q, c, b, e)
    BY DEF StreamOk
<1>fb. b2 \in Bridges /\ b2.pc = "read" /\ b2.taken = b.taken /\ b2.size = b.size /\ b2.rest = b.rest
      /\ b2.acc = b.acc /\ b2.got = b.got
    BY <1>1 DEF Bridges, Waiting, Writing, Passing, Over
<1>p. PlaceOk(q, c, b2, e)
    BY <1>1, <1>fb DEF PlaceOk, RestOk, Waiting, Writing, Passing, Over
<1>w. WindowOk(q, c, b2)
    BY <1>1, <1>fb DEF WindowOk
<1>r. RestOk(q, c, b2, e)
    BY <1>1, <1>fb DEF RestOk, PlaceOk, Complete, Waiting, Writing, Passing, Over
<1>q. RequestOk(q, c, b2, e)
    BY <1>1, <1>fb DEF RequestOk, RestOk, PlaceOk, RestUnits, Complete, Waiting, Writing, Passing, Over
<1>a. AnswerOk(q, c, b2, e)
    BY <1>1, <1>fb DEF AnswerOk, PlaceOk, FlowOk, Passed, Waiting, Writing, Passing, Over
<1> QED  BY <1>1, <1>fb, <1>p, <1>w, <1>r, <1>q, <1>a DEF StreamOk

\* The size line of a chunk is not passed on.
LEMMA SendChunkOk ==
    ASSUME BridgeAssumption, NEW q \in H2Requests, NEW c, NEW b, NEW e, StreamOk(q, c, b, e),
           b.pc = "send",
           b.acc # <<>>,
           b.acc[1] = "chunk",
           NEW b2, b2 = [b EXCEPT !.acc = Tail(b.acc)]
    PROVE  StreamOk(q, c, b2, e)
<1>1. c \in Clients /\ b \in Bridges /\ e \in Engines
      /\ PlaceOk(q, c, b, e) /\ WindowOk(q, c, b) /\ RestOk(q, c, b, e) /\ RequestOk(q, c, b, e) /\ AnswerOk(q, c, b, e)
    BY DEF StreamOk
<1>2. b.acc \in Seq(H2Pieces) /\ e.out \in Seq(H2Pieces) /\ e.left \in Seq(H2Pieces) /\ <<>> \in Seq(H2Pieces)
      /\ c.units \in Nat /\ b.got \in Nat
    BY <1>1 DEF Bridges, Engines, Clients
<1>3. e.reply \in H2Replies /\ FlowOk(q, b, e) /\ ~HeadOnly(q, e.reply) /\ e.reply.framing \in {"length", "chunked", "close"}
      /\ Passed(q, b, e) >= 1 /\ b.got = c.units /\ c.units = UnitsPassed(e.reply, Passed(q, b, e))
      /\ e.st \in {"answer", "gone"} /\ c.end = "no" /\ b.size = 0
    BY <1>1 DEF AnswerOk, PlaceOk, RestOk, Waiting, Writing, Passing, Over
<1>4. Pieces(q, e.reply) \in Seq(H2Pieces) /\ Flow(Pieces(q, e.reply), b.acc, e.out, e.left)
      /\ Passed(q, b, e) = Behind(Pieces(q, e.reply), b.acc, e.out, e.left) /\ Passed(q, b, e) \in Nat
  <2>1. Pieces(q, e.reply) \in Seq(H2Pieces)
      BY ONLY <1>3, PiecesAre
  <2>2. Flow(Pieces(q, e.reply), b.acc, e.out, e.left)
      BY ONLY <1>3 DEF FlowOk
  <2>3. Behind(Pieces(q, e.reply), b.acc, e.out, e.left) \in Nat
      BY ONLY <1>2, <2>1, <2>2, FlowSizes
  <2> QED  BY ONLY <2>1, <2>2, <2>3 DEF Passed
<1>5. /\ Tail(b.acc) \in Seq(H2Pieces)
      /\ Flow(Pieces(q, e.reply), Tail(b.acc), e.out, e.left)
      /\ Behind(Pieces(q, e.reply), Tail(b.acc), e.out, e.left) = Passed(q, b, e) + 1
      /\ Passed(q, b, e) < Len(Pieces(q, e.reply)) /\ b.acc[1] = Pieces(q, e.reply)[Passed(q, b, e) + 1]
    BY ONLY b.acc # <<>>, <1>2, <1>4, FlowPass
<1>6. /\ b.acc[1] = "chunk" => UnitsPassed(e.reply, Passed(q, b, e) + 1) = UnitsPassed(e.reply, Passed(q, b, e))
      /\ b.acc[1] = "unit"  => UnitsPassed(e.reply, Passed(q, b, e) + 1) = UnitsPassed(e.reply, Passed(q, b, e)) + 1
      /\ b.acc[1] = "last"  => Passed(q, b, e) + 1 = Len(Pieces(q, e.reply)) /\ UnitsPassed(e.reply, Passed(q, b, e)) = e.reply.size
      /\ e.reply.framing = "length" /\ UnitsPassed(e.reply, Passed(q, b, e)) + 1 = e.reply.size =>
            Passed(q, b, e) + 1 = Len(Pieces(q, e.reply))
      /\ e.reply.framing = "chunked" /\ Passed(q, b, e) + 1 < Len(Pieces(q, e.reply))
           /\ Pieces(q, e.reply)[Passed(q, b, e) + 2] = "last" =>
            Passed(q, b, e) + 2 = Len(Pieces(q, e.reply)) /\ UnitsPassed(e.reply, Passed(q, b, e)) + 1 = e.reply.size
    BY ONLY <1>3, <1>4, <1>5, PieceAt
<1>fb. b2 \in Bridges /\ b2.pc = b.pc /\ b2.taken = b.taken /\ b2.size = b.size /\ b2.rest = b.rest
      /\ b2.acc = Tail(b.acc) /\ b2.got = b.got
    BY <1>1, <1>5 DEF Bridges, Waiting, Writing, Passing, Over
<1>p. PlaceOk(q, c, b2, e)
    BY <1>1, <1>fb, <1>3 DEF PlaceOk, RestOk, Waiting, Writing, Passing, Over
<1>w. WindowOk(q, c, b2)
    BY <1>1, <1>fb DEF WindowOk
<1>r. RestOk(q, c, b2, e)
    BY <1>1, <1>fb, <1>3 DEF RestOk, PlaceOk, Complete, Waiting, Writing, Passing, Over
<1>q. RequestOk(q, c, b2, e)
    BY <1>1, <1>fb, <1>3 DEF RequestOk, RestOk, PlaceOk, RestUnits, Complete, Waiting, Writing, Passing, Over
<1>a. AnswerOk(q, c, b2, e)
  <2>1. FlowOk(q, b2, e) /\ Passed(q, b2, e) = Passed(q, b, e) + 1
      BY <1>5, <1>fb DEF FlowOk, Passed
  <2>2. Passed(q, b2, e) >= 1 /\ UnitsPassed(e.reply, Passed(q, b2, e)) = UnitsPassed(e.reply, Passed(q, b, e))
    <3>1. Passed(q, b, e) + 1 >= 1
        BY ONLY <1>4
    <3> QED  BY <1>6, <2>1, <3>1
  <2> QED  BY ONLY b.pc = "send", <1>3, <1>fb, <2>1, <2>2 DEF AnswerOk, Writing, Passing, Over
<1> QED  BY <1>1, <1>fb, <1>p, <1>w, <1>r, <1>q, <1>a DEF StreamOk

\* The last chunk ends the stream: it was the last piece.
LEMMA SendLastOk ==
    ASSUME BridgeAssumption, NEW q \in H2Requests, NEW c, NEW b, NEW e, StreamOk(q, c, b, e),
           b.pc = "send",
           b.acc # <<>>,
           b.acc[1] = "last",
           NEW b2, b2 = [b EXCEPT !.pc = "wind", !.acc = <<>>],
           NEW c2, c2 = [c EXCEPT !.end = "whole"]
    PROVE  StreamOk(q, c2, b2, e)
<1>1. c \in Clients /\ b \in Bridges /\ e \in Engines
      /\ PlaceOk(q, c, b, e) /\ WindowOk(q, c, b) /\ RestOk(q, c, b, e) /\ RequestOk(q, c, b, e) /\ AnswerOk(q, c, b, e)
    BY DEF StreamOk
<1>2. b.acc \in Seq(H2Pieces) /\ e.out \in Seq(H2Pieces) /\ e.left \in Seq(H2Pieces) /\ <<>> \in Seq(H2Pieces)
      /\ c.units \in Nat /\ b.got \in Nat
    BY <1>1 DEF Bridges, Engines, Clients
<1>3. e.reply \in H2Replies /\ FlowOk(q, b, e) /\ ~HeadOnly(q, e.reply) /\ e.reply.framing \in {"length", "chunked", "close"}
      /\ Passed(q, b, e) >= 1 /\ b.got = c.units /\ c.units = UnitsPassed(e.reply, Passed(q, b, e))
      /\ e.st \in {"answer", "gone"} /\ c.end = "no" /\ b.size = 0
    BY <1>1 DEF AnswerOk, PlaceOk, RestOk, Waiting, Writing, Passing, Over
<1>4. Pieces(q, e.reply) \in Seq(H2Pieces) /\ Flow(Pieces(q, e.reply), b.acc, e.out, e.left)
      /\ Passed(q, b, e) = Behind(Pieces(q, e.reply), b.acc, e.out, e.left) /\ Passed(q, b, e) \in Nat
  <2>1. Pieces(q, e.reply) \in Seq(H2Pieces)
      BY ONLY <1>3, PiecesAre
  <2>2. Flow(Pieces(q, e.reply), b.acc, e.out, e.left)
      BY ONLY <1>3 DEF FlowOk
  <2>3. Behind(Pieces(q, e.reply), b.acc, e.out, e.left) \in Nat
      BY ONLY <1>2, <2>1, <2>2, FlowSizes
  <2> QED  BY ONLY <2>1, <2>2, <2>3 DEF Passed
<1>5. /\ Tail(b.acc) \in Seq(H2Pieces)
      /\ Flow(Pieces(q, e.reply), Tail(b.acc), e.out, e.left)
      /\ Behind(Pieces(q, e.reply), Tail(b.acc), e.out, e.left) = Passed(q, b, e) + 1
      /\ Passed(q, b, e) < Len(Pieces(q, e.reply)) /\ b.acc[1] = Pieces(q, e.reply)[Passed(q, b, e) + 1]
    BY ONLY b.acc # <<>>, <1>2, <1>4, FlowPass
<1>6. /\ b.acc[1] = "chunk" => UnitsPassed(e.reply, Passed(q, b, e) + 1) = UnitsPassed(e.reply, Passed(q, b, e))
      /\ b.acc[1] = "unit"  => UnitsPassed(e.reply, Passed(q, b, e) + 1) = UnitsPassed(e.reply, Passed(q, b, e)) + 1
      /\ b.acc[1] = "last"  => Passed(q, b, e) + 1 = Len(Pieces(q, e.reply)) /\ UnitsPassed(e.reply, Passed(q, b, e)) = e.reply.size
      /\ e.reply.framing = "length" /\ UnitsPassed(e.reply, Passed(q, b, e)) + 1 = e.reply.size =>
            Passed(q, b, e) + 1 = Len(Pieces(q, e.reply))
      /\ e.reply.framing = "chunked" /\ Passed(q, b, e) + 1 < Len(Pieces(q, e.reply))
           /\ Pieces(q, e.reply)[Passed(q, b, e) + 2] = "last" =>
            Passed(q, b, e) + 2 = Len(Pieces(q, e.reply)) /\ UnitsPassed(e.reply, Passed(q, b, e)) + 1 = e.reply.size
    BY ONLY <1>3, <1>4, <1>5, PieceAt
<1>7. e.left = <<>> /\ e.st = "gone"
  <2>1. Passed(q, b, e) + 1 = Len(Pieces(q, e.reply)) /\ 1 \in Nat
      BY <1>6
  <2>2. Len(b.acc) + Len(e.out) >= 1
    <3>1. Len(b.acc) \in Nat /\ Len(e.out) \in Nat /\ Len(b.acc) >= 1
        BY ONLY b.acc # <<>>, <1>2
    <3> QED  BY ONLY <3>1, AtLeastOne
  <2>3. e.left = <<>>
      BY ONLY <1>2, <1>4, <2>1, <2>2, FlowLast
  <2> QED  BY <1>1, <1>3, <2>3 DEF PlaceOk
<1>fb. b2 \in Bridges /\ b2.pc = "wind" /\ b2.taken = b.taken /\ b2.size = b.size /\ b2.rest = b.rest /\ b2.acc = <<>>
      /\ b2.got = b.got
    BY <1>1, <1>2 DEF Bridges, Waiting, Writing, Passing, Over
<1>fc. c2 \in Clients /\ c2.sent = c.sent /\ c2.reset = c.reset /\ c2.upload = c.upload /\ c2.window = c.window
      /\ c2.head = c.head /\ c2.units = c.units /\ c2.end = "whole"
    BY <1>1, <1>2 DEF Clients
<1>p. PlaceOk(q, c2, b2, e)
    BY <1>1, <1>fb, <1>fc, <1>3, <1>7 DEF PlaceOk, RestOk, Waiting, Writing, Passing, Over
<1>w. WindowOk(q, c2, b2)
    BY <1>1, <1>fb, <1>fc DEF WindowOk
<1>r. RestOk(q, c2, b2, e)
    BY <1>1, <1>fb, <1>fc, <1>3 DEF RestOk, PlaceOk, Complete, Waiting, Writing, Passing, Over
<1>q. RequestOk(q, c2, b2, e)
    BY <1>1, <1>fb, <1>fc, <1>3 DEF RequestOk, RestOk, PlaceOk, RestUnits, Complete, Waiting, Writing, Passing, Over
<1>a. AnswerOk(q, c2, b2, e)
  <2>1. c2.units = e.reply.size
      BY <1>3, <1>6, <1>fc
  <2>2. e.left = <<>> /\ b2.pc = "wind" /\ ~HeadOnly(q, e.reply)
      BY <1>3, <1>7, <1>fb
  <2> QED  BY ONLY <2>1, <2>2 DEF AnswerOk, Writing, Passing, Over
<1> QED  BY <1>1, <1>fb, <1>fc, <1>p, <1>w, <1>r, <1>q, <1>a DEF StreamOk

\* A unit is passed on and spends the window.
LEMMA SendUnitOk ==
    ASSUME BridgeAssumption, NEW q \in H2Requests, NEW c, NEW b, NEW e, StreamOk(q, c, b, e),
           NEW w \in Nat,
           b.pc = "send",
           b.acc # <<>>,
           b.acc[1] = "unit",
           NEW b2, b2 = [b EXCEPT !.acc = Tail(b.acc), !.got = b.got + 1, !.pc = b.pc],
           NEW c2, c2 = [c EXCEPT !.units = c.units + 1, !.window = w, !.end = c.end]
    PROVE  StreamOk(q, c2, b2, e)
<1>1. c \in Clients /\ b \in Bridges /\ e \in Engines
      /\ PlaceOk(q, c, b, e) /\ WindowOk(q, c, b) /\ RestOk(q, c, b, e) /\ RequestOk(q, c, b, e) /\ AnswerOk(q, c, b, e)
    BY DEF StreamOk
<1>2. b.acc \in Seq(H2Pieces) /\ e.out \in Seq(H2Pieces) /\ e.left \in Seq(H2Pieces) /\ <<>> \in Seq(H2Pieces)
      /\ c.units \in Nat /\ b.got \in Nat
    BY <1>1 DEF Bridges, Engines, Clients
<1>3. e.reply \in H2Replies /\ FlowOk(q, b, e) /\ ~HeadOnly(q, e.reply) /\ e.reply.framing \in {"length", "chunked", "close"}
      /\ Passed(q, b, e) >= 1 /\ b.got = c.units /\ c.units = UnitsPassed(e.reply, Passed(q, b, e))
      /\ e.st \in {"answer", "gone"} /\ c.end = "no" /\ b.size = 0
    BY <1>1 DEF AnswerOk, PlaceOk, RestOk, Waiting, Writing, Passing, Over
<1>4. Pieces(q, e.reply) \in Seq(H2Pieces) /\ Flow(Pieces(q, e.reply), b.acc, e.out, e.left)
      /\ Passed(q, b, e) = Behind(Pieces(q, e.reply), b.acc, e.out, e.left) /\ Passed(q, b, e) \in Nat
  <2>1. Pieces(q, e.reply) \in Seq(H2Pieces)
      BY ONLY <1>3, PiecesAre
  <2>2. Flow(Pieces(q, e.reply), b.acc, e.out, e.left)
      BY ONLY <1>3 DEF FlowOk
  <2>3. Behind(Pieces(q, e.reply), b.acc, e.out, e.left) \in Nat
      BY ONLY <1>2, <2>1, <2>2, FlowSizes
  <2> QED  BY ONLY <2>1, <2>2, <2>3 DEF Passed
<1>5. /\ Tail(b.acc) \in Seq(H2Pieces)
      /\ Flow(Pieces(q, e.reply), Tail(b.acc), e.out, e.left)
      /\ Behind(Pieces(q, e.reply), Tail(b.acc), e.out, e.left) = Passed(q, b, e) + 1
      /\ Passed(q, b, e) < Len(Pieces(q, e.reply)) /\ b.acc[1] = Pieces(q, e.reply)[Passed(q, b, e) + 1]
    BY ONLY b.acc # <<>>, <1>2, <1>4, FlowPass
<1>6. /\ b.acc[1] = "chunk" => UnitsPassed(e.reply, Passed(q, b, e) + 1) = UnitsPassed(e.reply, Passed(q, b, e))
      /\ b.acc[1] = "unit"  => UnitsPassed(e.reply, Passed(q, b, e) + 1) = UnitsPassed(e.reply, Passed(q, b, e)) + 1
      /\ b.acc[1] = "last"  => Passed(q, b, e) + 1 = Len(Pieces(q, e.reply)) /\ UnitsPassed(e.reply, Passed(q, b, e)) = e.reply.size
      /\ e.reply.framing = "length" /\ UnitsPassed(e.reply, Passed(q, b, e)) + 1 = e.reply.size =>
            Passed(q, b, e) + 1 = Len(Pieces(q, e.reply))
      /\ e.reply.framing = "chunked" /\ Passed(q, b, e) + 1 < Len(Pieces(q, e.reply))
           /\ Pieces(q, e.reply)[Passed(q, b, e) + 2] = "last" =>
            Passed(q, b, e) + 2 = Len(Pieces(q, e.reply)) /\ UnitsPassed(e.reply, Passed(q, b, e)) + 1 = e.reply.size
    BY ONLY <1>3, <1>4, <1>5, PieceAt
<1>9. b.got + 1 \in Nat /\ c.units + 1 \in Nat
    BY ONLY <1>2
<1>fb. b2 \in Bridges /\ b2.pc = b.pc /\ b2.taken = b.taken /\ b2.size = b.size /\ b2.rest = b.rest
      /\ b2.acc = Tail(b.acc) /\ b2.got = b.got + 1
    BY <1>1, <1>9, <1>5 DEF Bridges, Waiting, Writing, Passing, Over
<1>fc. c2 \in Clients /\ c2.sent = c.sent /\ c2.reset = c.reset /\ c2.upload = c.upload /\ c2.window = w
      /\ c2.head = c.head /\ c2.units = c.units + 1 /\ c2.end = c.end
    BY <1>1, <1>9, <1>5 DEF Clients
<1>p. PlaceOk(q, c2, b2, e)
    BY <1>1, <1>fb, <1>fc, <1>3 DEF PlaceOk, RestOk, Waiting, Writing, Passing, Over
<1>w. WindowOk(q, c2, b2)
    BY <1>1, <1>fb, <1>fc DEF WindowOk
<1>r. RestOk(q, c2, b2, e)
    BY <1>1, <1>fb, <1>fc, <1>3 DEF RestOk, PlaceOk, Complete, Waiting, Writing, Passing, Over
<1>q. RequestOk(q, c2, b2, e)
    BY <1>1, <1>fb, <1>fc, <1>3 DEF RequestOk, RestOk, PlaceOk, RestUnits, Complete, Waiting, Writing, Passing, Over
<1>a. AnswerOk(q, c2, b2, e)
  <2>1. FlowOk(q, b2, e) /\ Passed(q, b2, e) = Passed(q, b, e) + 1
      BY <1>5, <1>fb DEF FlowOk, Passed
  <2>2. Passed(q, b2, e) >= 1 /\ UnitsPassed(e.reply, Passed(q, b2, e)) = c.units + 1
    <3>1. Passed(q, b, e) + 1 >= 1
        BY ONLY <1>4
    <3> QED  BY <1>3, <1>6, <2>1, <3>1
  <2>3. b2.got = c2.units /\ c2.units = c.units + 1
      BY <1>3, <1>fb, <1>fc
  <2> QED  BY ONLY b.pc = "send", <1>3, <1>fb, <1>fc, <2>1, <2>2, <2>3 DEF AnswerOk, Writing, Passing, Over
<1> QED  BY <1>1, <1>fb, <1>fc, <1>p, <1>w, <1>r, <1>q, <1>a DEF StreamOk

\* The unit that completes the declared length, or comes with the last chunk,
\* ends the stream with it.
LEMMA SendLastUnitOk ==
    ASSUME BridgeAssumption, NEW q \in H2Requests, NEW c, NEW b, NEW e, StreamOk(q, c, b, e),
           NEW w \in Nat,
           b.pc = "send",
           b.acc # <<>>,
           b.acc[1] = "unit",
           (e.reply.framing = "length" /\ b.got + 1 = e.reply.size) \/ (e.reply.framing = "chunked" /\ b.acc = <<"unit", "last">>),
           NEW b2, b2 = [b EXCEPT !.acc = <<>>, !.got = b.got + 1, !.pc = "wind"],
           NEW c2, c2 = [c EXCEPT !.units = c.units + 1, !.window = w, !.end = "whole"]
    PROVE  StreamOk(q, c2, b2, e)
<1>1. c \in Clients /\ b \in Bridges /\ e \in Engines
      /\ PlaceOk(q, c, b, e) /\ WindowOk(q, c, b) /\ RestOk(q, c, b, e) /\ RequestOk(q, c, b, e) /\ AnswerOk(q, c, b, e)
    BY DEF StreamOk
<1>2. b.acc \in Seq(H2Pieces) /\ e.out \in Seq(H2Pieces) /\ e.left \in Seq(H2Pieces) /\ <<>> \in Seq(H2Pieces)
      /\ c.units \in Nat /\ b.got \in Nat
    BY <1>1 DEF Bridges, Engines, Clients
<1>3. e.reply \in H2Replies /\ FlowOk(q, b, e) /\ ~HeadOnly(q, e.reply) /\ e.reply.framing \in {"length", "chunked", "close"}
      /\ Passed(q, b, e) >= 1 /\ b.got = c.units /\ c.units = UnitsPassed(e.reply, Passed(q, b, e))
      /\ e.st \in {"answer", "gone"} /\ c.end = "no" /\ b.size = 0
    BY <1>1 DEF AnswerOk, PlaceOk, RestOk, Waiting, Writing, Passing, Over
<1>4. Pieces(q, e.reply) \in Seq(H2Pieces) /\ Flow(Pieces(q, e.reply), b.acc, e.out, e.left)
      /\ Passed(q, b, e) = Behind(Pieces(q, e.reply), b.acc, e.out, e.left) /\ Passed(q, b, e) \in Nat
  <2>1. Pieces(q, e.reply) \in Seq(H2Pieces)
      BY ONLY <1>3, PiecesAre
  <2>2. Flow(Pieces(q, e.reply), b.acc, e.out, e.left)
      BY ONLY <1>3 DEF FlowOk
  <2>3. Behind(Pieces(q, e.reply), b.acc, e.out, e.left) \in Nat
      BY ONLY <1>2, <2>1, <2>2, FlowSizes
  <2> QED  BY ONLY <2>1, <2>2, <2>3 DEF Passed
<1>5. /\ Tail(b.acc) \in Seq(H2Pieces)
      /\ Flow(Pieces(q, e.reply), Tail(b.acc), e.out, e.left)
      /\ Behind(Pieces(q, e.reply), Tail(b.acc), e.out, e.left) = Passed(q, b, e) + 1
      /\ Passed(q, b, e) < Len(Pieces(q, e.reply)) /\ b.acc[1] = Pieces(q, e.reply)[Passed(q, b, e) + 1]
    BY ONLY b.acc # <<>>, <1>2, <1>4, FlowPass
<1>6. /\ b.acc[1] = "chunk" => UnitsPassed(e.reply, Passed(q, b, e) + 1) = UnitsPassed(e.reply, Passed(q, b, e))
      /\ b.acc[1] = "unit"  => UnitsPassed(e.reply, Passed(q, b, e) + 1) = UnitsPassed(e.reply, Passed(q, b, e)) + 1
      /\ b.acc[1] = "last"  => Passed(q, b, e) + 1 = Len(Pieces(q, e.reply)) /\ UnitsPassed(e.reply, Passed(q, b, e)) = e.reply.size
      /\ e.reply.framing = "length" /\ UnitsPassed(e.reply, Passed(q, b, e)) + 1 = e.reply.size =>
            Passed(q, b, e) + 1 = Len(Pieces(q, e.reply))
      /\ e.reply.framing = "chunked" /\ Passed(q, b, e) + 1 < Len(Pieces(q, e.reply))
           /\ Pieces(q, e.reply)[Passed(q, b, e) + 2] = "last" =>
            Passed(q, b, e) + 2 = Len(Pieces(q, e.reply)) /\ UnitsPassed(e.reply, Passed(q, b, e)) + 1 = e.reply.size
    BY ONLY <1>3, <1>4, <1>5, PieceAt
<1>7. e.left = <<>> /\ c.units + 1 = e.reply.size
  <2>1. CASE e.reply.framing = "length" /\ b.got + 1 = e.reply.size
    <3>1. UnitsPassed(e.reply, Passed(q, b, e)) + 1 = e.reply.size
        BY ONLY <1>3, <2>1
    <3>2. Passed(q, b, e) + 1 = Len(Pieces(q, e.reply)) /\ 1 \in Nat
        BY ONLY <1>6, <2>1, <3>1
    <3>3. Len(b.acc) + Len(e.out) >= 1
      <4>1. Len(b.acc) \in Nat /\ Len(e.out) \in Nat /\ Len(b.acc) >= 1
          BY ONLY b.acc # <<>>, <1>2
      <4> QED  BY ONLY <4>1, AtLeastOne
    <3>4. e.left = <<>>
        BY ONLY <1>2, <1>4, <3>2, <3>3, FlowLast
    <3> QED  BY ONLY <1>3, <2>1, <3>4
  <2>2. CASE e.reply.framing = "chunked" /\ b.acc = <<"unit", "last">>
    <3>1. Len(b.acc) = 2 /\ b.acc[2] = "last"
        BY <2>2
    <3>2. /\ Len(Pieces(q, e.reply)) = Passed(q, b, e) + 2 + Len(e.out) + Len(e.left)
          /\ Len(e.out) \in Nat /\ Len(e.left) \in Nat
      <4>1. /\ Len(Pieces(q, e.reply)) = Behind(Pieces(q, e.reply), b.acc, e.out, e.left) + Len(b.acc) + Len(e.out) + Len(e.left)
            /\ Len(e.out) \in Nat /\ Len(e.left) \in Nat
          BY ONLY <1>2, <1>4, FlowSizes
      <4> QED  BY ONLY <1>4, <3>1, <4>1
    <3>3. Passed(q, b, e) + 1 < Len(Pieces(q, e.reply))
        BY ONLY <1>4, <3>2
    <3>4. Pieces(q, e.reply)[Passed(q, b, e) + 2] = "last"
      <4>1. IsPart(b.acc, Pieces(q, e.reply), Passed(q, b, e))
          BY ONLY <1>4 DEF Flow
      <4>2. \A j \in 1 .. Len(b.acc) : b.acc[j] = Pieces(q, e.reply)[Passed(q, b, e) + j]
          BY ONLY <4>1 DEF IsPart
      <4>3. 2 \in 1 .. Len(b.acc)
          BY ONLY <3>1
      <4> QED  BY ONLY <3>1, <4>2, <4>3
    <3>5. Passed(q, b, e) + 2 = Len(Pieces(q, e.reply)) /\ UnitsPassed(e.reply, Passed(q, b, e)) + 1 = e.reply.size
        BY ONLY <1>6, <2>2, <3>3, <3>4
    <3>6. 2 \in Nat /\ Len(b.acc) + Len(e.out) >= 2
        BY ONLY <3>1, <3>2
    <3>7. e.left = <<>>
        BY ONLY <1>2, <1>4, <3>5, <3>6, FlowLast
    <3> QED  BY ONLY <1>3, <3>5, <3>7
  <2> QED  BY <2>1, <2>2
<1>8. e.st = "gone"
    BY <1>1, <1>3, <1>7 DEF PlaceOk
<1>9. b.got + 1 \in Nat /\ c.units + 1 \in Nat
    BY ONLY <1>2
<1>fb. b2 \in Bridges /\ b2.pc = "wind" /\ b2.taken = b.taken /\ b2.size = b.size /\ b2.rest = b.rest /\ b2.acc = <<>>
      /\ b2.got = b.got + 1
    BY <1>1, <1>2, <1>9 DEF Bridges, Waiting, Writing, Passing, Over
<1>fc. c2 \in Clients /\ c2.sent = c.sent /\ c2.reset = c.reset /\ c2.upload = c.upload /\ c2.window = w
      /\ c2.head = c.head /\ c2.units = c.units + 1 /\ c2.end = "whole"
    BY <1>1, <1>2, <1>9 DEF Clients
<1>p. PlaceOk(q, c2, b2, e)
    BY <1>1, <1>fb, <1>fc, <1>3, <1>7, <1>8 DEF PlaceOk, RestOk, Waiting, Writing, Passing, Over
<1>w. WindowOk(q, c2, b2)
    BY <1>1, <1>fb, <1>fc DEF WindowOk
<1>r. RestOk(q, c2, b2, e)
    BY <1>1, <1>fb, <1>fc, <1>3 DEF RestOk, PlaceOk, Complete, Waiting, Writing, Passing, Over
<1>q. RequestOk(q, c2, b2, e)
    BY <1>1, <1>fb, <1>fc, <1>3 DEF RequestOk, RestOk, PlaceOk, RestUnits, Complete, Waiting, Writing, Passing, Over
<1>a. AnswerOk(q, c2, b2, e)
  <2>1. c2.units = e.reply.size
      BY <1>7, <1>fc
  <2>2. e.left = <<>> /\ b2.pc = "wind" /\ ~HeadOnly(q, e.reply)
      BY <1>3, <1>7, <1>fb
  <2> QED  BY ONLY <2>1, <2>2 DEF AnswerOk, Writing, Passing, Over
<1> QED  BY <1>1, <1>fb, <1>fc, <1>p, <1>w, <1>r, <1>q, <1>a DEF StreamOk

\* The task reads more of the body, or its end.
LEMMA ReadSomeOk ==
    ASSUME BridgeAssumption, NEW q \in H2Requests, NEW c, NEW b, NEW e, StreamOk(q, c, b, e),
           NEW k \in 1 .. Len(e.out),
           b.pc = "read",
           e.out # <<>>,
           NEW b2, b2 = [b EXCEPT !.pc = "send", !.acc = SubSeq(e.out, 1, k)],
           NEW e2, e2 = [e EXCEPT !.out = SubSeq(e.out, k + 1, Len(e.out))]
    PROVE  StreamOk(q, c, b2, e2)
<1>1. c \in Clients /\ b \in Bridges /\ e \in Engines
      /\ PlaceOk(q, c, b, e) /\ WindowOk(q, c, b) /\ RestOk(q, c, b, e) /\ RequestOk(q, c, b, e) /\ AnswerOk(q, c, b, e)
    BY DEF StreamOk
<1>2. b.acc \in Seq(H2Pieces) /\ e.out \in Seq(H2Pieces) /\ e.left \in Seq(H2Pieces) /\ <<>> \in Seq(H2Pieces)
      /\ c.units \in Nat /\ b.got \in Nat
    BY <1>1 DEF Bridges, Engines, Clients
<1>3. e.reply \in H2Replies /\ FlowOk(q, b, e) /\ ~HeadOnly(q, e.reply) /\ e.reply.framing \in {"length", "chunked", "close"}
      /\ Passed(q, b, e) >= 1 /\ b.got = c.units /\ c.units = UnitsPassed(e.reply, Passed(q, b, e))
      /\ e.st \in {"answer", "gone"} /\ c.end = "no" /\ b.size = 0
    BY <1>1 DEF AnswerOk, PlaceOk, RestOk, Waiting, Writing, Passing, Over
<1>4. Pieces(q, e.reply) \in Seq(H2Pieces) /\ Flow(Pieces(q, e.reply), b.acc, e.out, e.left)
      /\ Passed(q, b, e) = Behind(Pieces(q, e.reply), b.acc, e.out, e.left) /\ Passed(q, b, e) \in Nat
  <2>1. Pieces(q, e.reply) \in Seq(H2Pieces)
      BY ONLY <1>3, PiecesAre
  <2>2. Flow(Pieces(q, e.reply), b.acc, e.out, e.left)
      BY ONLY <1>3 DEF FlowOk
  <2>3. Behind(Pieces(q, e.reply), b.acc, e.out, e.left) \in Nat
      BY ONLY <1>2, <2>1, <2>2, FlowSizes
  <2> QED  BY ONLY <2>1, <2>2, <2>3 DEF Passed
<1>5. /\ SubSeq(e.out, 1, k) \in Seq(H2Pieces) /\ SubSeq(e.out, k + 1, Len(e.out)) \in Seq(H2Pieces)
      /\ Len(SubSeq(e.out, k + 1, Len(e.out))) = Len(e.out) - k
      /\ Flow(Pieces(q, e.reply), SubSeq(e.out, 1, k), SubSeq(e.out, k + 1, Len(e.out)), e.left)
      /\ Behind(Pieces(q, e.reply), SubSeq(e.out, 1, k), SubSeq(e.out, k + 1, Len(e.out)), e.left) = Passed(q, b, e)
  <2>1. k \in 0 .. Len(e.out)
      OBVIOUS
  <2>2. b.acc = <<>>
      BY <1>1 DEF PlaceOk
  <2>3. e.out \in Seq(H2Pieces) /\ e.left \in Seq(H2Pieces)
      BY ONLY <1>2
  <2> QED  BY ONLY <1>4, <2>1, <2>2, <2>3, FlowTakeAll
<1>6. Len(SubSeq(e.out, k + 1, Len(e.out))) <= PipeRoom
  <2>1. Len(e.out) <= PipeRoom /\ PipeRoom \in Nat /\ Len(e.out) \in Nat
      BY <1>1, <1>2 DEF PlaceOk, BridgeAssumption
  <2> QED  BY <1>5, <2>1
<1>fb. b2 \in Bridges /\ b2.pc = "send" /\ b2.taken = b.taken /\ b2.size = b.size /\ b2.rest = b.rest
      /\ b2.acc = SubSeq(e.out, 1, k) /\ b2.got = b.got
    BY <1>1, <1>2, <1>5 DEF Bridges, Waiting, Writing, Passing, Over
<1>fe. e2 \in Engines /\ e2.st = e.st /\ e2.in = e.in /\ e2.out = SubSeq(e.out, k + 1, Len(e.out))
      /\ e2.units = e.units /\ e2.ended = e.ended /\ e2.head = e.head /\ e2.reply = e.reply /\ e2.left = e.left
      /\ e2.aborted = e.aborted
    BY <1>1, <1>2, <1>5 DEF Engines
<1>p. PlaceOk(q, c, b2, e2)
    BY <1>1, <1>fb, <1>fe, <1>3, <1>6 DEF PlaceOk, RestOk, Waiting, Writing, Passing, Over
<1>w. WindowOk(q, c, b2)
    BY <1>1, <1>fb, <1>fe DEF WindowOk
<1>r. RestOk(q, c, b2, e2)
    BY <1>1, <1>fb, <1>fe, <1>3 DEF RestOk, PlaceOk, Complete, Waiting, Writing, Passing, Over
<1>q. RequestOk(q, c, b2, e2)
    BY <1>1, <1>fb, <1>fe, <1>3 DEF RequestOk, RestOk, PlaceOk, RestUnits, Complete, Waiting, Writing, Passing, Over
<1>a. AnswerOk(q, c, b2, e2)
  <2>1. FlowOk(q, b2, e2) /\ Passed(q, b2, e2) = Passed(q, b, e)
      BY <1>5, <1>fb, <1>fe DEF FlowOk, Passed
  <2> QED  BY ONLY <1>3, <1>fb, <1>fe, <2>1 DEF AnswerOk, Writing, Passing, Over
<1> QED  BY <1>1, <1>fb, <1>fe, <1>p, <1>w, <1>r, <1>q, <1>a DEF StreamOk

\* The end of the pipe ends an answer framed by it, or cuts another.
LEMMA ReadWholeOk ==
    ASSUME BridgeAssumption, NEW q \in H2Requests, NEW c, NEW b, NEW e, StreamOk(q, c, b, e),
           b.pc = "read",
           e.out = <<>>,
           e.st \notin {"run", "answer"},
           e.reply.framing = "close",
           ~e.aborted,
           NEW b2, b2 = [b EXCEPT !.pc = "wind"],
           NEW c2, c2 = [c EXCEPT !.end = "whole"]
    PROVE  StreamOk(q, c2, b2, e)
<1>1. c \in Clients /\ b \in Bridges /\ e \in Engines
      /\ PlaceOk(q, c, b, e) /\ WindowOk(q, c, b) /\ RestOk(q, c, b, e) /\ RequestOk(q, c, b, e) /\ AnswerOk(q, c, b, e)
    BY DEF StreamOk
<1>2. b.acc \in Seq(H2Pieces) /\ e.out \in Seq(H2Pieces) /\ e.left \in Seq(H2Pieces) /\ <<>> \in Seq(H2Pieces)
      /\ c.units \in Nat /\ b.got \in Nat
    BY <1>1 DEF Bridges, Engines, Clients
<1>3. e.reply \in H2Replies /\ FlowOk(q, b, e) /\ ~HeadOnly(q, e.reply) /\ e.reply.framing \in {"length", "chunked", "close"}
      /\ Passed(q, b, e) >= 1 /\ b.got = c.units /\ c.units = UnitsPassed(e.reply, Passed(q, b, e))
      /\ e.st \in {"answer", "gone"} /\ c.end = "no" /\ b.size = 0
    BY <1>1 DEF AnswerOk, PlaceOk, RestOk, Waiting, Writing, Passing, Over
<1>4. Pieces(q, e.reply) \in Seq(H2Pieces) /\ Flow(Pieces(q, e.reply), b.acc, e.out, e.left)
      /\ Passed(q, b, e) = Behind(Pieces(q, e.reply), b.acc, e.out, e.left) /\ Passed(q, b, e) \in Nat
  <2>1. Pieces(q, e.reply) \in Seq(H2Pieces)
      BY ONLY <1>3, PiecesAre
  <2>2. Flow(Pieces(q, e.reply), b.acc, e.out, e.left)
      BY ONLY <1>3 DEF FlowOk
  <2>3. Behind(Pieces(q, e.reply), b.acc, e.out, e.left) \in Nat
      BY ONLY <1>2, <2>1, <2>2, FlowSizes
  <2> QED  BY ONLY <2>1, <2>2, <2>3 DEF Passed
<1>5. e.left = <<>> /\ b.acc = <<>> /\ e.st = "gone"
    BY <1>1, <1>3 DEF PlaceOk, Over
<1>6. c.units = e.reply.size
  <2>1. Len(b.acc) = 0 /\ Len(e.out) = 0 /\ Len(e.left) = 0
      BY <1>5
  <2>2. Len(Pieces(q, e.reply)) = Passed(q, b, e) + Len(b.acc) + Len(e.out) + Len(e.left)
      BY ONLY <1>2, <1>4, FlowSizes
  <2>3. Passed(q, b, e) = Len(Pieces(q, e.reply))
      BY ONLY <1>4, <2>1, <2>2
  <2>4. UnitsPassed(e.reply, Len(Pieces(q, e.reply))) = e.reply.size
      BY ONLY e.reply.framing = "close", <1>3, PieceEnd
  <2> QED  BY ONLY <1>3, <2>3, <2>4
<1>fb. b2 \in Bridges /\ b2.pc = "wind" /\ b2.taken = b.taken /\ b2.size = b.size /\ b2.rest = b.rest
      /\ b2.acc = b.acc /\ b2.got = b.got
    BY <1>1 DEF Bridges, Waiting, Writing, Passing, Over
<1>fc. c2 \in Clients /\ c2.sent = c.sent /\ c2.reset = c.reset /\ c2.upload = c.upload /\ c2.window = c.window
      /\ c2.head = c.head /\ c2.units = c.units /\ c2.end = "whole"
    BY <1>1 DEF Clients
<1>p. PlaceOk(q, c2, b2, e)
    BY <1>1, <1>fb, <1>fc, <1>5 DEF PlaceOk, RestOk, Waiting, Writing, Passing, Over
<1>w. WindowOk(q, c2, b2)
    BY <1>1, <1>fb, <1>fc DEF WindowOk
<1>r. RestOk(q, c2, b2, e)
    BY <1>1, <1>fb, <1>fc, <1>3 DEF RestOk, PlaceOk, Complete, Waiting, Writing, Passing, Over
<1>q. RequestOk(q, c2, b2, e)
    BY <1>1, <1>fb, <1>fc, <1>3 DEF RequestOk, RestOk, PlaceOk, RestUnits, Complete, Waiting, Writing, Passing, Over
<1>a. AnswerOk(q, c2, b2, e)
  <2>1. c2.units = e.reply.size /\ e.left = <<>> /\ b2.pc = "wind" /\ ~HeadOnly(q, e.reply)
      BY <1>3, <1>5, <1>6, <1>fb, <1>fc
  <2> QED  BY ONLY <2>1 DEF AnswerOk, Writing, Passing, Over
<1> QED  BY <1>1, <1>fb, <1>fc, <1>p, <1>w, <1>r, <1>q, <1>a DEF StreamOk

-----------------------------------------------------------------------------
\* A step of one stream leaves the others, and those who hold a permit.
Free == {"none", "opened", "acquire", "end"}
Rest3 == <<asked, replies, budgeted>>

\* What the invariant says of one stream.
LEMMA StreamFacts ==
    ASSUME BridgeInv, NEW s \in H2Stream
    PROVE  /\ asked[s] \in H2Requests /\ StreamOk(asked[s], client[s], bridge[s], engine[s])
           /\ client[s] \in Clients /\ bridge[s] \in Bridges /\ engine[s] \in Engines
           /\ client = [client EXCEPT ![s] = client[s]]
           /\ bridge = [bridge EXCEPT ![s] = bridge[s]]
           /\ engine = [engine EXCEPT ![s] = engine[s]]
<1>1. asked \in [H2Stream -> H2Requests] /\ client \in [H2Stream -> Clients] /\ bridge \in [H2Stream -> Bridges]
      /\ engine \in [H2Stream -> Engines] /\ StreamOk(asked[s], client[s], bridge[s], engine[s])
    BY DEF BridgeInv
<1> QED  BY ONLY <1>1, s \in H2Stream

\* A step of one stream that keeps its part of the invariant, and the permits
\* bounded, keeps the invariant.
LEMMA OneStream ==
    ASSUME BridgeInv, NEW s \in H2Stream, NEW c, NEW b, NEW e, StreamOk(asked[s], c, b, e), UNCHANGED Rest3,
           h2' \in {"open", "draining", "lost"}, client' = [client EXCEPT ![s] = c], bridge' = [bridge EXCEPT ![s] = b],
           engine' = [engine EXCEPT ![s] = e], Cardinality(Slots') <= MaxStreams
    PROVE  BridgeInv'
<1>1. asked' = asked /\ replies' = replies /\ budgeted' = budgeted /\ H2Stream' = H2Stream
    BY DEF Rest3, H2Stream
<1>2. asked \in [H2Stream -> H2Requests] /\ IsFiniteSet(H2Stream) /\ replies \subseteq H2Replies /\ budgeted \in BOOLEAN
      /\ client \in [H2Stream -> Clients] /\ bridge \in [H2Stream -> Bridges] /\ engine \in [H2Stream -> Engines]
      /\ \A t \in H2Stream : StreamOk(asked[t], client[t], bridge[t], engine[t])
    BY DEF BridgeInv
<1>3. c \in Clients /\ b \in Bridges /\ e \in Engines
    BY DEF StreamOk
<1>4. client' \in [H2Stream -> Clients] /\ bridge' \in [H2Stream -> Bridges] /\ engine' \in [H2Stream -> Engines]
    BY <1>2, <1>3
<1>5. ASSUME NEW t \in H2Stream PROVE StreamOk(asked'[t], client'[t], bridge'[t], engine'[t])
  <2>1. CASE t = s
    <3>1. client'[t] = c /\ bridge'[t] = b /\ engine'[t] = e
        BY <1>2, <2>1
    <3> QED  BY <1>1, <2>1, <3>1
  <2>2. CASE t # s
    <3>1. client'[t] = client[t] /\ bridge'[t] = bridge[t] /\ engine'[t] = engine[t]
        BY <1>2, <2>2
    <3> QED  BY <1>1, <1>2, <3>1
  <2> QED  BY <2>1, <2>2
<1>6. h2' \in {"open", "draining", "lost"} /\ Cardinality(Slots') <= MaxStreams
    OBVIOUS
<1> QED  BY ONLY <1>1, <1>2, <1>4, <1>5, <1>6 DEF BridgeInv

\* The streams that hold a permit are finitely many.
LEMMA SlotsFinite ==
    ASSUME BridgeInv
    PROVE  IsFiniteSet(Slots) /\ Cardinality(Slots) \in Nat
<1>1. Slots \subseteq H2Stream /\ IsFiniteSet(H2Stream)
    BY DEF Slots, BridgeInv
<1> QED  BY ONLY <1>1, FS_Subset, FS_CardinalityType

\* A step that takes no permit keeps their number.
LEMMA KeepsSlots ==
    ASSUME BridgeAssumption, BridgeInv, NEW s \in H2Stream, NEW b, bridge' = [bridge EXCEPT ![s] = b], asked' = asked,
           bridge[s].pc \notin Free \/ b.pc \in Free
    PROVE  Cardinality(Slots') <= MaxStreams
<1>1. bridge \in [H2Stream -> Bridges] /\ H2Stream' = H2Stream /\ Cardinality(Slots) <= MaxStreams /\ MaxStreams \in Nat
    BY DEF BridgeInv, H2Stream, BridgeAssumption
<1>2. Slots' \subseteq Slots
  <2> SUFFICES ASSUME NEW t \in Slots' PROVE t \in Slots
      OBVIOUS
  <2>1. t \in H2Stream /\ bridge'[t].pc \notin Free
      BY <1>1 DEF Slots, Free
  <2>2. bridge[t].pc \notin Free
    <3>1. CASE t = s
        BY <1>1, <2>1, <3>1
    <3>2. CASE t # s
      <4>1. bridge'[t] = bridge[t]
          BY <1>1, <2>1, <3>2
      <4> QED  BY <2>1, <4>1
    <3> QED  BY <3>1, <3>2
  <2> QED  BY <2>1, <2>2 DEF Slots, Free
<1>3. IsFiniteSet(Slots) /\ Cardinality(Slots) \in Nat
    BY SlotsFinite
<1>4. Cardinality(Slots') <= Cardinality(Slots) /\ Cardinality(Slots') \in Nat
    BY ONLY <1>2, <1>3, FS_Subset, FS_CardinalityType
<1> QED  BY ONLY <1>1, <1>3, <1>4

\* So a step of one stream that takes no permit keeps the invariant.
LEMMA Moves ==
    ASSUME BridgeAssumption, BridgeInv, NEW s \in H2Stream, NEW c, NEW b, NEW e, StreamOk(asked[s], c, b, e),
           UNCHANGED <<asked, replies, budgeted, h2>>, client' = [client EXCEPT ![s] = c], bridge' = [bridge EXCEPT ![s] = b],
           engine' = [engine EXCEPT ![s] = e], bridge[s].pc \notin Free \/ b.pc \in Free
    PROVE  BridgeInv'
<1>1. UNCHANGED Rest3 /\ asked' = asked /\ h2' \in {"open", "draining", "lost"}
    BY DEF Rest3, BridgeInv
<1>2. Cardinality(Slots') <= MaxStreams
    BY <1>1, KeepsSlots
<1> QED  BY <1>1, <1>2, OneStream

\* Each action keeps the invariant.
LEMMA OpenStep ==
    ASSUME BridgeInv, NEW s \in H2Stream, OpenStream(s)
    PROVE  BridgeInv'
<1>1. /\ asked[s] \in H2Requests /\ StreamOk(asked[s], client[s], bridge[s], engine[s])
      /\ client[s] \in Clients /\ bridge[s] \in Bridges /\ engine[s] \in Engines
      /\ client = [client EXCEPT ![s] = client[s]] /\ bridge = [bridge EXCEPT ![s] = bridge[s]]
      /\ engine = [engine EXCEPT ![s] = engine[s]]
    BY StreamFacts
<1>2. /\ bridge' = [bridge EXCEPT ![s] = [bridge[s] EXCEPT !.pc = "opened"]]
      /\ client' = [client EXCEPT ![s] = client[s]]
      /\ engine' = [engine EXCEPT ![s] = engine[s]]
      /\ UNCHANGED <<asked, replies, budgeted, h2>>
    BY <1>1 DEF OpenStream
<1>3. bridge[s].pc = "none"
    BY <1>1 DEF OpenStream
<1>4. StreamOk(asked[s], client[s], [bridge[s] EXCEPT !.pc = "opened"], engine[s])
    BY ONLY BridgeAssumption, <1>1, <1>3, OpenOk
<1>5. bridge[s].pc \notin Free \/ [bridge[s] EXCEPT !.pc = "opened"].pc \in Free
    BY ONLY <1>1 DEF Bridges, Free
<1> QED  BY ONLY BridgeAssumption, BridgeInv, s \in H2Stream, <1>2, <1>4, <1>5, Moves

LEMMA ResetStep ==
    ASSUME BridgeInv, NEW s \in H2Stream, ResetStream(s)
    PROVE  BridgeInv'
<1>1. /\ asked[s] \in H2Requests /\ StreamOk(asked[s], client[s], bridge[s], engine[s])
      /\ client[s] \in Clients /\ bridge[s] \in Bridges /\ engine[s] \in Engines
      /\ client = [client EXCEPT ![s] = client[s]] /\ bridge = [bridge EXCEPT ![s] = bridge[s]]
      /\ engine = [engine EXCEPT ![s] = engine[s]]
    BY StreamFacts
<1>2. /\ bridge' = [bridge EXCEPT ![s] = bridge[s]]
      /\ client' = [client EXCEPT ![s] = [client[s] EXCEPT !.reset = TRUE]]
      /\ engine' = [engine EXCEPT ![s] = engine[s]]
      /\ UNCHANGED <<asked, replies, budgeted, h2>>
    BY <1>1 DEF ResetStream
<1>3. TRUE
    BY <1>1 DEF ResetStream
<1>4. StreamOk(asked[s], [client[s] EXCEPT !.reset = TRUE], bridge[s], engine[s])
    BY ONLY BridgeAssumption, <1>1, <1>3, ResetOk
<1>5. bridge[s].pc \notin Free \/ bridge[s].pc \in Free
    OBVIOUS
<1> QED  BY ONLY BridgeAssumption, BridgeInv, s \in H2Stream, <1>2, <1>4, <1>5, Moves

LEMMA GrantStep ==
    ASSUME BridgeInv, NEW s \in H2Stream, GrantWindow(s)
    PROVE  BridgeInv'
<1>1. /\ asked[s] \in H2Requests /\ StreamOk(asked[s], client[s], bridge[s], engine[s])
      /\ client[s] \in Clients /\ bridge[s] \in Bridges /\ engine[s] \in Engines
      /\ client = [client EXCEPT ![s] = client[s]] /\ bridge = [bridge EXCEPT ![s] = bridge[s]]
      /\ engine = [engine EXCEPT ![s] = engine[s]]
    BY StreamFacts
<1>2. /\ bridge' = [bridge EXCEPT ![s] = bridge[s]]
      /\ client' = [client EXCEPT ![s] = [client[s] EXCEPT !.window = client[s].window + 1]]
      /\ engine' = [engine EXCEPT ![s] = engine[s]]
      /\ UNCHANGED <<asked, replies, budgeted, h2>>
    BY <1>1 DEF GrantWindow
<1>3. TRUE
    BY <1>1 DEF GrantWindow
<1>4. StreamOk(asked[s], [client[s] EXCEPT !.window = client[s].window + 1], bridge[s], engine[s])
    BY ONLY BridgeAssumption, <1>1, <1>3, GrantOk
<1>5. bridge[s].pc \notin Free \/ bridge[s].pc \in Free
    OBVIOUS
<1> QED  BY ONLY BridgeAssumption, BridgeInv, s \in H2Stream, <1>2, <1>4, <1>5, Moves

LEMMA DropStep ==
    ASSUME BridgeInv, NEW s \in H2Stream, DropUnaccepted(s)
    PROVE  BridgeInv'
<1>1. /\ asked[s] \in H2Requests /\ StreamOk(asked[s], client[s], bridge[s], engine[s])
      /\ client[s] \in Clients /\ bridge[s] \in Bridges /\ engine[s] \in Engines
      /\ client = [client EXCEPT ![s] = client[s]] /\ bridge = [bridge EXCEPT ![s] = bridge[s]]
      /\ engine = [engine EXCEPT ![s] = engine[s]]
    BY StreamFacts
<1>2. /\ bridge' = [bridge EXCEPT ![s] = [bridge[s] EXCEPT !.pc = "end"]]
      /\ client' = [client EXCEPT ![s] = client[s]]
      /\ engine' = [engine EXCEPT ![s] = engine[s]]
      /\ UNCHANGED <<asked, replies, budgeted, h2>>
    BY <1>1 DEF DropUnaccepted
<1>3. bridge[s].pc = "opened"
    BY <1>1 DEF DropUnaccepted
<1>4. StreamOk(asked[s], client[s], [bridge[s] EXCEPT !.pc = "end"], engine[s])
    BY ONLY BridgeAssumption, <1>1, <1>3, DropOk
<1>5. bridge[s].pc \notin Free \/ [bridge[s] EXCEPT !.pc = "end"].pc \in Free
    BY ONLY <1>1 DEF Bridges, Free
<1> QED  BY ONLY BridgeAssumption, BridgeInv, s \in H2Stream, <1>2, <1>4, <1>5, Moves

LEMMA WindStep ==
    ASSUME BridgeInv, NEW s \in H2Stream, WindDown(s)
    PROVE  BridgeInv'
<1>1. /\ asked[s] \in H2Requests /\ StreamOk(asked[s], client[s], bridge[s], engine[s])
      /\ client[s] \in Clients /\ bridge[s] \in Bridges /\ engine[s] \in Engines
      /\ client = [client EXCEPT ![s] = client[s]] /\ bridge = [bridge EXCEPT ![s] = bridge[s]]
      /\ engine = [engine EXCEPT ![s] = engine[s]]
    BY StreamFacts
<1>2. /\ bridge' = [bridge EXCEPT ![s] = [bridge[s] EXCEPT !.pc = "end"]]
      /\ client' = [client EXCEPT ![s] = client[s]]
      /\ engine' = [engine EXCEPT ![s] = engine[s]]
      /\ UNCHANGED <<asked, replies, budgeted, h2>>
    BY <1>1 DEF WindDown
<1>3. bridge[s].pc = "wind"
    BY <1>1 DEF WindDown
<1>4. StreamOk(asked[s], client[s], [bridge[s] EXCEPT !.pc = "end"], engine[s])
    BY ONLY BridgeAssumption, <1>1, <1>3, WindOk
<1>5. bridge[s].pc \notin Free \/ [bridge[s] EXCEPT !.pc = "end"].pc \in Free
    BY ONLY <1>1 DEF Bridges, Free
<1> QED  BY ONLY BridgeAssumption, BridgeInv, s \in H2Stream, <1>2, <1>4, <1>5, Moves

LEMMA AnswerCutStep ==
    ASSUME BridgeInv, NEW s \in H2Stream, EngineCut(s)
    PROVE  BridgeInv'
<1>1. /\ asked[s] \in H2Requests /\ StreamOk(asked[s], client[s], bridge[s], engine[s])
      /\ client[s] \in Clients /\ bridge[s] \in Bridges /\ engine[s] \in Engines
      /\ client = [client EXCEPT ![s] = client[s]] /\ bridge = [bridge EXCEPT ![s] = bridge[s]]
      /\ engine = [engine EXCEPT ![s] = engine[s]]
    BY StreamFacts
<1>2. /\ bridge' = [bridge EXCEPT ![s] = bridge[s]]
      /\ client' = [client EXCEPT ![s] = client[s]]
      /\ engine' = [engine EXCEPT ![s] = [engine[s] EXCEPT !.st = "gone", !.aborted = TRUE]]
      /\ UNCHANGED <<asked, replies, budgeted, h2>>
    BY <1>1 DEF EngineCut
<1>3. engine[s].st = "answer"
    BY <1>1 DEF EngineCut
<1>4. StreamOk(asked[s], client[s], bridge[s], [engine[s] EXCEPT !.st = "gone", !.aborted = TRUE])
    BY ONLY BridgeAssumption, <1>1, <1>3, CutOk
<1>5. bridge[s].pc \notin Free \/ bridge[s].pc \in Free
    OBVIOUS
<1> QED  BY ONLY BridgeAssumption, BridgeInv, s \in H2Stream, <1>2, <1>4, <1>5, Moves

LEMMA QuitStep ==
    ASSUME BridgeInv, NEW s \in H2Stream, EngineQuit(s)
    PROVE  BridgeInv'
<1>1. /\ asked[s] \in H2Requests /\ StreamOk(asked[s], client[s], bridge[s], engine[s])
      /\ client[s] \in Clients /\ bridge[s] \in Bridges /\ engine[s] \in Engines
      /\ client = [client EXCEPT ![s] = client[s]] /\ bridge = [bridge EXCEPT ![s] = bridge[s]]
      /\ engine = [engine EXCEPT ![s] = engine[s]]
    BY StreamFacts
<1>2. /\ bridge' = [bridge EXCEPT ![s] = bridge[s]]
      /\ client' = [client EXCEPT ![s] = client[s]]
      /\ engine' = [engine EXCEPT ![s] = [engine[s] EXCEPT !.st = "gone"]]
      /\ UNCHANGED <<asked, replies, budgeted, h2>>
    BY <1>1 DEF EngineQuit
<1>3. engine[s].st = "run"
    BY <1>1 DEF EngineQuit
<1>4. StreamOk(asked[s], client[s], bridge[s], [engine[s] EXCEPT !.st = "gone"])
    BY ONLY BridgeAssumption, <1>1, <1>3, QuitOk
<1>5. bridge[s].pc \notin Free \/ bridge[s].pc \in Free
    OBVIOUS
<1> QED  BY ONLY BridgeAssumption, BridgeInv, s \in H2Stream, <1>2, <1>4, <1>5, Moves

LEMMA FailStep ==
    ASSUME BridgeInv, NEW s \in H2Stream, FailStream(s), UNCHANGED <<asked, replies, budgeted, h2>>,
           bridge[s].pc \notin {"none", "opened", "wind", "end"}
    PROVE  BridgeInv'
<1>1. /\ asked[s] \in H2Requests /\ StreamOk(asked[s], client[s], bridge[s], engine[s])
      /\ client[s] \in Clients /\ bridge[s] \in Bridges /\ engine[s] \in Engines
      /\ client = [client EXCEPT ![s] = client[s]] /\ bridge = [bridge EXCEPT ![s] = bridge[s]]
      /\ engine = [engine EXCEPT ![s] = engine[s]]
    BY StreamFacts
<1>2. PICK v, w : /\ v = (IF engine[s].st = "none" THEN engine[s].st ELSE "gone") /\ w \in {client[s].end, "reset"}
                  /\ w = (IF Departed(s) THEN client[s].end ELSE "reset")
    OBVIOUS
<1>3. /\ bridge' = [bridge EXCEPT ![s] = [bridge[s] EXCEPT !.pc = "end", !.rest = <<>>, !.acc = <<>>]]
      /\ client' = [client EXCEPT ![s] = [client[s] EXCEPT !.end = w]]
      /\ engine' = [engine EXCEPT ![s] = [engine[s] EXCEPT !.st = v, !.in = <<>>, !.out = <<>>]]
      /\ UNCHANGED <<asked, replies, budgeted, h2>>
    BY <1>1, <1>2 DEF FailStream
<1>4. bridge[s].pc \notin {"none", "opened", "wind", "end"}
    BY <1>1, <1>2 DEF FailStream
<1>5. StreamOk(asked[s], [client[s] EXCEPT !.end = w], [bridge[s] EXCEPT !.pc = "end", !.rest = <<>>, !.acc = <<>>],
               [engine[s] EXCEPT !.st = v, !.in = <<>>, !.out = <<>>])
    BY ONLY BridgeAssumption, <1>1, <1>4, <1>2, FailOk
<1>6. bridge[s].pc \notin Free \/ [bridge[s] EXCEPT !.pc = "end", !.rest = <<>>, !.acc = <<>>].pc \in Free
    BY ONLY <1>1 DEF Bridges, Free
<1> QED  BY ONLY BridgeAssumption, BridgeInv, s \in H2Stream, <1>3, <1>5, <1>6, Moves

LEMMA SendFrameStep ==
    ASSUME BridgeInv, NEW s \in H2Stream, SendFrame(s)
    PROVE  BridgeInv'
<1>1. /\ asked[s] \in H2Requests /\ StreamOk(asked[s], client[s], bridge[s], engine[s])
      /\ client[s] \in Clients /\ bridge[s] \in Bridges /\ engine[s] \in Engines
      /\ client = [client EXCEPT ![s] = client[s]] /\ bridge = [bridge EXCEPT ![s] = bridge[s]]
      /\ engine = [engine EXCEPT ![s] = engine[s]]
    BY StreamFacts
<1> DEFINE m == client[s].sent + 1
           n == asked[s].frames[m]
           u == client[s].upload - n
<1>2. client[s].sent \in Nat /\ client[s].upload \in Nat /\ client[s].sent <= Len(asked[s].frames)
    BY <1>1 DEF Clients, StreamOk, PlaceOk
<1>3. client[s].sent # Len(asked[s].frames) /\ n <= client[s].upload
    BY DEF SendFrame, AllSent
<1>4. /\ Len(asked[s].frames) \in Nat /\ \A i \in 1 .. Len(asked[s].frames) : asked[s].frames[i] \in 0 .. UploadWindow
      /\ UnitsIn(asked[s].frames) \in [0 .. Len(asked[s].frames) -> Nat]
      /\ \A i \in 1 .. Len(asked[s].frames) : UnitsIn(asked[s].frames)[i] = UnitsIn(asked[s].frames)[i - 1] + asked[s].frames[i]
    BY ONLY BridgeAssumption, <1>1, Frames
<1>5. m \in Nat /\ m <= Len(asked[s].frames) /\ m \in 1 .. Len(asked[s].frames) /\ m - 1 = client[s].sent
    BY ONLY <1>2, <1>3, <1>4 DEF m
<1>6. n \in Nat /\ UnitsIn(asked[s].frames)[m] = UnitsIn(asked[s].frames)[client[s].sent] + n
  <2> HIDE DEF m
  <2>1. UploadWindow \in Nat
      BY BridgeAssumption DEF BridgeAssumption
  <2>2. n \in 0 .. UploadWindow
      BY ONLY <1>4, <1>5 DEF n
  <2> QED  BY <1>4, <1>5, <2>1, <2>2
<1>7. u \in Nat /\ client[s].upload = u + n
  <2> HIDE DEF n
  <2> QED  BY ONLY <1>2, <1>3, <1>6 DEF u
<1>8. /\ bridge' = [bridge EXCEPT ![s] = bridge[s]]
      /\ client' = [client EXCEPT ![s] = [client[s] EXCEPT !.sent = m, !.upload = u]]
      /\ engine' = [engine EXCEPT ![s] = engine[s]]
      /\ UNCHANGED <<asked, replies, budgeted, h2>>
    BY <1>1 DEF SendFrame
<1>9. m = client[s].sent + 1
    BY <1>1 DEF SendFrame
<1>10. StreamOk(asked[s], [client[s] EXCEPT !.sent = m, !.upload = u], bridge[s], engine[s])
    BY ONLY BridgeAssumption, <1>1, <1>9, <1>5, <1>6, <1>7, SendFrameOk
<1>11. bridge[s].pc \notin Free \/ bridge[s].pc \in Free
    OBVIOUS
<1> QED  BY ONLY BridgeAssumption, BridgeInv, s \in H2Stream, <1>8, <1>10, <1>11, Moves

LEMMA AcceptStep ==
    ASSUME BridgeInv, NEW s \in H2Stream, AcceptStream(s)
    PROVE  BridgeInv'
<1>1. /\ asked[s] \in H2Requests /\ StreamOk(asked[s], client[s], bridge[s], engine[s])
      /\ client[s] \in Clients /\ bridge[s] \in Bridges /\ engine[s] \in Engines
      /\ client = [client EXCEPT ![s] = client[s]] /\ bridge = [bridge EXCEPT ![s] = bridge[s]]
      /\ engine = [engine EXCEPT ![s] = engine[s]]
    BY StreamFacts
<1>2. CASE asked[s].expressible
  <2>1. /\ bridge' = [bridge EXCEPT ![s] = [bridge[s] EXCEPT !.pc = "acquire"]]
        /\ client' = [client EXCEPT ![s] = client[s]]
        /\ engine' = [engine EXCEPT ![s] = engine[s]]
        /\ UNCHANGED <<asked, replies, budgeted, h2>>
      BY <1>1, <1>2 DEF AcceptStream
  <2>2. bridge[s].pc = "opened"
      BY <1>1, <1>2 DEF AcceptStream
  <2>3. StreamOk(asked[s], client[s], [bridge[s] EXCEPT !.pc = "acquire"], engine[s])
      BY ONLY BridgeAssumption, <1>1, <2>2, AcceptOk
  <2>4. bridge[s].pc \notin Free \/ [bridge[s] EXCEPT !.pc = "acquire"].pc \in Free
      BY ONLY <1>1 DEF Bridges, Free
  <2> QED  BY ONLY BridgeAssumption, BridgeInv, s \in H2Stream, <2>1, <2>3, <2>4, Moves
<1>3. CASE ~asked[s].expressible
  <2> DEFINE v == IF client[s].reset THEN "no" ELSE "refused"
  <2>0. v \in {"no", "refused"}
      OBVIOUS
  <2>1. /\ bridge' = [bridge EXCEPT ![s] = [bridge[s] EXCEPT !.pc = "end"]]
        /\ client' = [client EXCEPT ![s] = [client[s] EXCEPT !.head = TRUE, !.end = v]]
        /\ engine' = [engine EXCEPT ![s] = engine[s]]
        /\ UNCHANGED <<asked, replies, budgeted, h2>>
      BY <1>1, <1>3 DEF AcceptStream
  <2>2. bridge[s].pc = "opened"
      BY <1>1, <1>3 DEF AcceptStream
  <2>3. StreamOk(asked[s], [client[s] EXCEPT !.head = TRUE, !.end = v], [bridge[s] EXCEPT !.pc = "end"], engine[s])
      BY ONLY BridgeAssumption, <1>1, <2>2, <2>0, RefuseOk
  <2>4. bridge[s].pc \notin Free \/ [bridge[s] EXCEPT !.pc = "end"].pc \in Free
      BY ONLY <1>1 DEF Bridges, Free
  <2> QED  BY ONLY BridgeAssumption, BridgeInv, s \in H2Stream, <2>1, <2>3, <2>4, Moves
<1> QED  BY <1>2, <1>3

LEMMA AcquireStep ==
    ASSUME BridgeInv, NEW s \in H2Stream, Acquire(s)
    PROVE  BridgeInv'
<1>1. /\ asked[s] \in H2Requests /\ StreamOk(asked[s], client[s], bridge[s], engine[s])
      /\ client[s] \in Clients /\ bridge[s] \in Bridges /\ engine[s] \in Engines
      /\ client = [client EXCEPT ![s] = client[s]] /\ bridge = [bridge EXCEPT ![s] = bridge[s]]
      /\ engine = [engine EXCEPT ![s] = engine[s]]
    BY StreamFacts
<1> DEFINE b == [bridge[s] EXCEPT !.pc = "head", !.rest = <<"head">>]
           e == [engine[s] EXCEPT !.st = "run"]
<1>2. /\ bridge' = [bridge EXCEPT ![s] = b] /\ client' = [client EXCEPT ![s] = client[s]] /\ engine' = [engine EXCEPT ![s] = e]
      /\ UNCHANGED Rest3 /\ asked' = asked /\ h2' \in {"open", "draining", "lost"}
    BY <1>1 DEF Acquire, Rest3, BridgeInv
<1>3. bridge[s].pc = "acquire" /\ Cardinality(Slots) < MaxStreams
    BY DEF Acquire, Holders
<1>4. StreamOk(asked[s], client[s], b, e)
    BY ONLY BridgeAssumption, <1>1, <1>3, AcquireOk
<1>5. Cardinality(Slots') <= MaxStreams
  <2>1. bridge \in [H2Stream -> Bridges] /\ H2Stream' = H2Stream
      BY <1>2 DEF BridgeInv, H2Stream
  <2>2. Slots' \subseteq Slots \cup {s}
    <3> SUFFICES ASSUME NEW t \in Slots', t # s PROVE t \in Slots
        OBVIOUS
    <3>1. t \in H2Stream /\ bridge'[t].pc \notin Free
        BY <2>1 DEF Slots, Free
    <3>2. bridge'[t] = bridge[t]
        BY <1>2, <2>1, <3>1
    <3> QED  BY <3>1, <3>2 DEF Slots, Free
  <2>3. IsFiniteSet(Slots) /\ Cardinality(Slots) \in Nat
      BY SlotsFinite
  <2>4. s \notin Slots
      BY <1>3 DEF Slots
  <2>5. IsFiniteSet(Slots \cup {s}) /\ Cardinality(Slots \cup {s}) = Cardinality(Slots) + 1
      BY ONLY <2>3, <2>4, FS_AddElement
  <2>6. Cardinality(Slots') <= Cardinality(Slots \cup {s}) /\ Cardinality(Slots') \in Nat
      BY ONLY <2>2, <2>5, FS_Subset, FS_CardinalityType
  <2>7. MaxStreams \in Nat
      BY BridgeAssumption DEF BridgeAssumption
  <2> QED  BY ONLY <1>3, <2>3, <2>5, <2>6, <2>7
<1> QED  BY ONLY BridgeInv, s \in H2Stream, <1>2, <1>4, <1>5, OneStream

\* A frame as it is put into the pipe: its units, after a size line when the
\* body is chunked.
LEMMA ReframedIs ==
    ASSUME NEW s, NEW n \in Nat, n # 0
    PROVE  /\ Reframed(s, n) \in Seq(H2Pieces) /\ Reframed(s, n) # <<>> /\ Reframed(s, n)[1] \in {"chunk", "unit"}
           /\ \A j \in 2 .. Len(Reframed(s, n)) : Reframed(s, n)[j] = "unit"
           /\ n = IF Reframed(s, n)[1] = "chunk" THEN Len(Reframed(s, n)) - 1 ELSE Len(Reframed(s, n))
<1>1. Units(n) \in Seq(H2Pieces) /\ Len(Units(n)) = n /\ \A j \in 1 .. n : Units(n)[j] = "unit"
    BY DEF Units, H2Pieces
<1>2. CASE ChunkBody(asked[s])
  <2> DEFINE r == <<"chunk">> \o Units(n)
  <2>1. Reframed(s, n) = r
      BY <1>2 DEF Reframed, Opens
  <2>2. <<"chunk">> \in Seq(H2Pieces) /\ Len(<<"chunk">>) = 1 /\ <<"chunk">>[1] = "chunk"
      BY DEF H2Pieces
  <2>3. r \in Seq(H2Pieces) /\ Len(r) = 1 + n /\ r[1] = "chunk" /\ \A j \in 2 .. Len(r) : r[j] = Units(n)[j - 1]
      BY <1>1, <2>2
  <2> HIDE DEF r
  <2>4. ASSUME NEW j \in 2 .. Len(r) PROVE r[j] = "unit"
    <3>1. j - 1 \in 1 .. n
        BY <2>3
    <3> QED  BY <1>1, <2>3, <3>1
  <2>5. r # <<>> /\ n = Len(r) - 1
      BY <2>3
  <2> QED  BY ONLY <2>1, <2>3, <2>4, <2>5
<1>3. CASE ~ChunkBody(asked[s])
  <2>1. Reframed(s, n) = Units(n)
      BY <1>3 DEF Reframed
  <2>2. Units(n) # <<>> /\ 1 \in 1 .. n /\ \A j \in 2 .. n : j \in 1 .. n
      BY <1>1
  <2> QED  BY ONLY <1>1, <2>1, <2>2
<1> QED  BY <1>2, <1>3

LEMMA PumpStep ==
    ASSUME BridgeInv, NEW s \in H2Stream, Pump(s)
    PROVE  BridgeInv'
<1>1. /\ asked[s] \in H2Requests /\ StreamOk(asked[s], client[s], bridge[s], engine[s])
      /\ client[s] \in Clients /\ bridge[s] \in Bridges /\ engine[s] \in Engines
      /\ client = [client EXCEPT ![s] = client[s]] /\ bridge = [bridge EXCEPT ![s] = bridge[s]]
      /\ engine = [engine EXCEPT ![s] = engine[s]]
    BY StreamFacts
<1>2. bridge[s].taken \in Nat /\ client[s].sent \in Nat /\ bridge[s].taken <= client[s].sent
      /\ client[s].sent <= Len(asked[s].frames)
    BY <1>1 DEF Clients, Bridges, StreamOk, PlaceOk
<1>3. CASE bridge[s].taken < client[s].sent
  <2> DEFINE m == bridge[s].taken + 1
             n == asked[s].frames[m]
  <2>1. /\ Len(asked[s].frames) \in Nat /\ \A i \in 1 .. Len(asked[s].frames) : asked[s].frames[i] \in 0 .. UploadWindow
        /\ UnitsIn(asked[s].frames) \in [0 .. Len(asked[s].frames) -> Nat]
        /\ \A i \in 1 .. Len(asked[s].frames) : UnitsIn(asked[s].frames)[i] = UnitsIn(asked[s].frames)[i - 1] + asked[s].frames[i]
      BY ONLY BridgeAssumption, <1>1, Frames
  <2>2. m \in Nat /\ m <= client[s].sent /\ m \in 1 .. Len(asked[s].frames) /\ m - 1 = bridge[s].taken
        /\ bridge[s].taken \in 0 .. Len(asked[s].frames)
    <3>1. Len(asked[s].frames) \in Nat
        BY ONLY <2>1
    <3> QED  BY ONLY <1>2, <1>3, <3>1 DEF m
  <2>3. n \in Nat /\ UnitsIn(asked[s].frames)[m] = UnitsIn(asked[s].frames)[bridge[s].taken] + n
    <3> HIDE DEF m
    <3>1. UploadWindow \in Nat
        BY BridgeAssumption DEF BridgeAssumption
    <3>2. n \in 0 .. UploadWindow
        BY ONLY <2>1, <2>2 DEF n
    <3> QED  BY <2>1, <2>2, <3>1, <3>2
  <2>4. CASE n = 0
    <3>0. UnitsIn(asked[s].frames)[m] = UnitsIn(asked[s].frames)[bridge[s].taken]
      <4>1. UnitsIn(asked[s].frames)[bridge[s].taken] \in Nat
          BY ONLY <2>1, <2>2
      <4> QED  BY ONLY <2>3, <2>4, <4>1
    <3>1. /\ bridge' = [bridge EXCEPT ![s] = [bridge[s] EXCEPT !.taken = m]]
          /\ client' = [client EXCEPT ![s] = client[s]]
          /\ engine' = [engine EXCEPT ![s] = engine[s]]
          /\ UNCHANGED <<asked, replies, budgeted, h2>>
        BY <1>1, <1>3, <2>4 DEF Pump, CanPump, TakeFrame
    <3>2. bridge[s].pc = "pump" /\ m = bridge[s].taken + 1
        BY <1>1, <1>3, <2>4 DEF Pump, CanPump, TakeFrame
    <3>3. StreamOk(asked[s], client[s], [bridge[s] EXCEPT !.taken = m], engine[s])
        BY ONLY BridgeAssumption, <1>1, <3>2, <2>2, <3>0, SkipOk
    <3>4. bridge[s].pc \notin Free \/ [bridge[s] EXCEPT !.taken = m].pc \in Free
        BY ONLY <3>2 DEF Free
    <3> QED  BY ONLY BridgeAssumption, BridgeInv, s \in H2Stream, <3>1, <3>3, <3>4, Moves
  <2>5. CASE n # 0
    <3>0. /\ Reframed(s, n) \in Seq(H2Pieces) /\ Reframed(s, n) # <<>> /\ Reframed(s, n)[1] \in {"chunk", "unit"}
          /\ \A j \in 2 .. Len(Reframed(s, n)) : Reframed(s, n)[j] = "unit"
          /\ n = IF Reframed(s, n)[1] = "chunk" THEN Len(Reframed(s, n)) - 1 ELSE Len(Reframed(s, n))
        BY ONLY <2>3, <2>5, ReframedIs
    <3>1. /\ bridge' = [bridge EXCEPT ![s] = [bridge[s] EXCEPT !.taken = m, !.pc = "put", !.size = n, !.rest = Reframed(s, n)]]
          /\ client' = [client EXCEPT ![s] = client[s]]
          /\ engine' = [engine EXCEPT ![s] = engine[s]]
          /\ UNCHANGED <<asked, replies, budgeted, h2>>
        BY <1>1, <1>3, <2>5 DEF Pump, CanPump, TakeFrame
    <3>2. bridge[s].pc = "pump" /\ m = bridge[s].taken + 1
        BY <1>1, <1>3, <2>5 DEF Pump, CanPump, TakeFrame
    <3>3. StreamOk(asked[s], client[s],
                   [bridge[s] EXCEPT !.taken = m, !.pc = "put", !.size = n, !.rest = Reframed(s, n)], engine[s])
        BY ONLY BridgeAssumption, <1>1, <3>2, <2>2, <2>3, <3>0, TakeOk
    <3>4. bridge[s].pc \notin Free \/ [bridge[s] EXCEPT !.taken = m, !.pc = "put", !.size = n, !.rest = Reframed(s, n)].pc \in Free
        BY ONLY <3>2 DEF Free
    <3> QED  BY ONLY BridgeAssumption, BridgeInv, s \in H2Stream, <3>1, <3>3, <3>4, Moves
  <2> QED  BY <2>4, <2>5
<1>4. CASE ~(bridge[s].taken < client[s].sent)
  <2>1. bridge[s].taken = client[s].sent
      BY ONLY <1>2, <1>4
  <2>2. client[s].sent = Len(asked[s].frames)
      BY <1>4 DEF Pump, CanPump, AllSent
  <2>3. CASE ChunkBody(asked[s])
    <3>1. /\ bridge' = [bridge EXCEPT ![s] = [bridge[s] EXCEPT !.pc = "last", !.rest = <<"last">>]]
          /\ client' = [client EXCEPT ![s] = client[s]]
          /\ engine' = [engine EXCEPT ![s] = engine[s]]
          /\ UNCHANGED <<asked, replies, budgeted, h2>>
        BY <1>1, <1>4, <2>3 DEF Pump, CanPump
    <3>2. bridge[s].pc = "pump"
        BY <1>1, <1>4, <2>3 DEF Pump, CanPump
    <3>3. StreamOk(asked[s], client[s], [bridge[s] EXCEPT !.pc = "last", !.rest = <<"last">>], engine[s])
        BY ONLY BridgeAssumption, <1>1, <3>2, <2>1, <2>2, LastOk
    <3>4. bridge[s].pc \notin Free \/ [bridge[s] EXCEPT !.pc = "last", !.rest = <<"last">>].pc \in Free
        BY ONLY <3>2 DEF Free
    <3> QED  BY ONLY BridgeAssumption, BridgeInv, s \in H2Stream, <3>1, <3>3, <3>4, Moves
  <2>4. CASE ~ChunkBody(asked[s])
    <3>1. /\ bridge' = [bridge EXCEPT ![s] = [bridge[s] EXCEPT !.pc = "await"]]
          /\ client' = [client EXCEPT ![s] = client[s]]
          /\ engine' = [engine EXCEPT ![s] = engine[s]]
          /\ UNCHANGED <<asked, replies, budgeted, h2>>
        BY <1>1, <1>4, <2>4 DEF Pump, CanPump
    <3>2. bridge[s].pc = "pump"
        BY <1>1, <1>4, <2>4 DEF Pump, CanPump
    <3>3. StreamOk(asked[s], client[s], [bridge[s] EXCEPT !.pc = "await"], engine[s])
        BY ONLY BridgeAssumption, <1>1, <3>2, SentOk
    <3>4. bridge[s].pc \notin Free \/ [bridge[s] EXCEPT !.pc = "await"].pc \in Free
        BY ONLY <3>2 DEF Free
    <3> QED  BY ONLY BridgeAssumption, BridgeInv, s \in H2Stream, <3>1, <3>3, <3>4, Moves
  <2> QED  BY <2>3, <2>4
<1> QED  BY <1>3, <1>4

LEMMA PutStep ==
    ASSUME BridgeInv, NEW s \in H2Stream, Put(s)
    PROVE  BridgeInv'
<1>1. /\ asked[s] \in H2Requests /\ StreamOk(asked[s], client[s], bridge[s], engine[s])
      /\ client[s] \in Clients /\ bridge[s] \in Bridges /\ engine[s] \in Engines
      /\ client = [client EXCEPT ![s] = client[s]] /\ bridge = [bridge EXCEPT ![s] = bridge[s]]
      /\ engine = [engine EXCEPT ![s] = engine[s]]
    BY StreamFacts
<1>2. bridge[s].pc \in {"head", "put", "last"} /\ (~EngineRuns(s) \/ Len(engine[s].in) < PipeRoom)
    BY DEF Put, CanPut
<1>3. RestOk(asked[s], client[s], bridge[s], engine[s]) /\ bridge[s].rest \in Seq(H2Pieces)
    BY <1>1 DEF StreamOk, Bridges
<1>4. client[s].upload + bridge[s].size \in Nat
  <2>1. client[s].upload \in Nat /\ bridge[s].size \in Nat
      BY ONLY <1>1 DEF Clients, Bridges
  <2> QED  BY ONLY <2>1
<1>5. CASE ~EngineRuns(s)
  <2>1. engine[s].st \notin {"run", "answer"}
      BY ONLY <1>5 DEF EngineRuns
  <2>2. CASE bridge[s].pc = "put"
    <3>1. /\ bridge' = [bridge EXCEPT ![s] = [bridge[s] EXCEPT !.pc = "await", !.rest = <<>>, !.size = 0]]
          /\ client' = [client EXCEPT ![s] = [client[s] EXCEPT !.upload = client[s].upload + bridge[s].size]]
          /\ engine' = [engine EXCEPT ![s] = engine[s]]
          /\ UNCHANGED <<asked, replies, budgeted, h2>>
      <4>1. bridge' = [bridge EXCEPT ![s] = [bridge[s] EXCEPT !.pc = "await", !.rest = <<>>, !.size = 0]]
          BY <1>1, <1>5, <2>2 DEF Put, AfterPut, Release
      <4>2. client' = [client EXCEPT ![s] = [client[s] EXCEPT !.upload = client[s].upload + bridge[s].size]]
          BY <1>1, <1>5, <2>2 DEF Put, AfterPut, Release
      <4>3. engine' = [engine EXCEPT ![s] = engine[s]]
          BY <1>1, <1>5, <2>2 DEF Put, AfterPut, Release
      <4>4. UNCHANGED <<asked, replies, budgeted, h2>>
          BY DEF Put
      <4> QED  BY <4>1, <4>2, <4>3, <4>4
    <3>2. bridge[s].pc = "put"
        BY <1>1, <1>5, <2>2 DEF Put, AfterPut, Release
    <3>3. StreamOk(asked[s], [client[s] EXCEPT !.upload = client[s].upload + bridge[s].size],
                   [bridge[s] EXCEPT !.pc = "await", !.rest = <<>>, !.size = 0], engine[s])
        BY ONLY BridgeAssumption, <1>1, <3>2, <1>4, <2>1, BrokenPutOk
    <3>4. bridge[s].pc \notin Free \/ [bridge[s] EXCEPT !.pc = "await", !.rest = <<>>, !.size = 0].pc \in Free
        BY ONLY <3>2 DEF Free
    <3> QED  BY ONLY BridgeAssumption, BridgeInv, s \in H2Stream, <3>1, <3>3, <3>4, Moves
  <2>3. CASE bridge[s].pc # "put"
    <3>1. /\ bridge' = [bridge EXCEPT ![s] = [bridge[s] EXCEPT !.pc = "await", !.rest = <<>>, !.size = 0]]
          /\ client' = [client EXCEPT ![s] = client[s]]
          /\ engine' = [engine EXCEPT ![s] = engine[s]]
          /\ UNCHANGED <<asked, replies, budgeted, h2>>
        BY <1>1, <1>5, <2>3 DEF Put, AfterPut, Release, CanPut
    <3>2. bridge[s].pc \in {"head", "last"}
        BY <1>1, <1>5, <2>3 DEF Put, AfterPut, Release, CanPut
    <3>3. StreamOk(asked[s], client[s], [bridge[s] EXCEPT !.pc = "await", !.rest = <<>>, !.size = 0], engine[s])
        BY ONLY BridgeAssumption, <1>1, <3>2, <2>1, BrokenOk
    <3>4. bridge[s].pc \notin Free \/ [bridge[s] EXCEPT !.pc = "await", !.rest = <<>>, !.size = 0].pc \in Free
        BY ONLY <3>2 DEF Free
    <3> QED  BY ONLY BridgeAssumption, BridgeInv, s \in H2Stream, <3>1, <3>3, <3>4, Moves
  <2> QED  BY <2>2, <2>3
<1>6. CASE EngineRuns(s)
  <2>1. engine[s].st \in {"run", "answer"} /\ Len(engine[s].in) < PipeRoom
      BY ONLY <1>2, <1>6 DEF EngineRuns
  <2>2. bridge[s].rest # <<>> /\ bridge[s].rest[1] \in H2Pieces
    <3>1. bridge[s].pc = "head" => bridge[s].rest = <<"head">>
        BY ONLY <1>3 DEF RestOk
    <3>2. bridge[s].pc = "last" => bridge[s].rest = <<"last">>
        BY ONLY <1>3 DEF RestOk
    <3>3. bridge[s].pc = "put" => bridge[s].rest # <<>>
        BY ONLY <1>3 DEF RestOk
    <3>4. bridge[s].rest # <<>>
        BY <1>2, <3>1, <3>2, <3>3
    <3> QED  BY ONLY <1>3, <3>4, PieceTail
  <2>3. bridge[s].pc # "put" => Len(bridge[s].rest) = 1
    <3>1. bridge[s].pc # "put" => bridge[s].rest = <<"head">> \/ bridge[s].rest = <<"last">>
        BY ONLY <1>2, <1>3 DEF RestOk
    <3> QED  BY <3>1
  <2>4. CASE bridge[s].pc = "head"
    <3>1. /\ bridge' = [bridge EXCEPT ![s] = [bridge[s] EXCEPT !.pc = "pump", !.rest = <<>>, !.size = 0]]
          /\ client' = [client EXCEPT ![s] = client[s]]
          /\ engine' = [engine EXCEPT ![s] = [engine[s] EXCEPT !.in = Append(engine[s].in, bridge[s].rest[1])]]
          /\ UNCHANGED <<asked, replies, budgeted, h2>>
      <4>1. bridge' = [bridge EXCEPT ![s] = [bridge[s] EXCEPT !.pc = "pump", !.rest = <<>>, !.size = 0]]
          BY <1>1, <1>6, <2>3, <2>4 DEF Put, AfterPut, Release
      <4>2. client' = [client EXCEPT ![s] = client[s]]
          BY <1>1, <1>6, <2>3, <2>4 DEF Put, AfterPut, Release
      <4>3. engine' = [engine EXCEPT ![s] = [engine[s] EXCEPT !.in = Append(engine[s].in, bridge[s].rest[1])]]
          BY <1>1, <1>6, <2>3, <2>4 DEF Put, AfterPut, Release
      <4>4. UNCHANGED <<asked, replies, budgeted, h2>>
          BY DEF Put
      <4> QED  BY <4>1, <4>2, <4>3, <4>4
    <3>2. bridge[s].pc = "head"
        BY <1>1, <1>6, <2>3, <2>4 DEF Put, AfterPut, Release
    <3>3. StreamOk(asked[s], client[s], [bridge[s] EXCEPT !.pc = "pump", !.rest = <<>>, !.size = 0],
                   [engine[s] EXCEPT !.in = Append(engine[s].in, bridge[s].rest[1])])
        BY ONLY BridgeAssumption, <1>1, <3>2, <2>1, <2>2, PutHeadOk
    <3>4. bridge[s].pc \notin Free \/ [bridge[s] EXCEPT !.pc = "pump", !.rest = <<>>, !.size = 0].pc \in Free
        BY ONLY <3>2 DEF Free
    <3> QED  BY ONLY BridgeAssumption, BridgeInv, s \in H2Stream, <3>1, <3>3, <3>4, Moves
  <2>5. CASE bridge[s].pc = "last"
    <3>1. /\ bridge' = [bridge EXCEPT ![s] = [bridge[s] EXCEPT !.pc = "await", !.rest = <<>>, !.size = 0]]
          /\ client' = [client EXCEPT ![s] = client[s]]
          /\ engine' = [engine EXCEPT ![s] = [engine[s] EXCEPT !.in = Append(engine[s].in, bridge[s].rest[1])]]
          /\ UNCHANGED <<asked, replies, budgeted, h2>>
      <4>1. bridge' = [bridge EXCEPT ![s] = [bridge[s] EXCEPT !.pc = "await", !.rest = <<>>, !.size = 0]]
          BY <1>1, <1>6, <2>3, <2>5 DEF Put, AfterPut, Release
      <4>2. client' = [client EXCEPT ![s] = client[s]]
          BY <1>1, <1>6, <2>3, <2>5 DEF Put, AfterPut, Release
      <4>3. engine' = [engine EXCEPT ![s] = [engine[s] EXCEPT !.in = Append(engine[s].in, bridge[s].rest[1])]]
          BY <1>1, <1>6, <2>3, <2>5 DEF Put, AfterPut, Release
      <4>4. UNCHANGED <<asked, replies, budgeted, h2>>
          BY DEF Put
      <4> QED  BY <4>1, <4>2, <4>3, <4>4
    <3>2. bridge[s].pc = "last"
        BY <1>1, <1>6, <2>3, <2>5 DEF Put, AfterPut, Release
    <3>3. StreamOk(asked[s], client[s], [bridge[s] EXCEPT !.pc = "await", !.rest = <<>>, !.size = 0],
                   [engine[s] EXCEPT !.in = Append(engine[s].in, bridge[s].rest[1])])
        BY ONLY BridgeAssumption, <1>1, <3>2, <2>1, <2>2, PutLastOk
    <3>4. bridge[s].pc \notin Free \/ [bridge[s] EXCEPT !.pc = "await", !.rest = <<>>, !.size = 0].pc \in Free
        BY ONLY <3>2 DEF Free
    <3> QED  BY ONLY BridgeAssumption, BridgeInv, s \in H2Stream, <3>1, <3>3, <3>4, Moves
  <2>6. CASE bridge[s].pc = "put" /\ Len(bridge[s].rest) = 1
    <3>1. /\ bridge' = [bridge EXCEPT ![s] = [bridge[s] EXCEPT !.pc = "pump", !.rest = <<>>, !.size = 0]]
          /\ client' = [client EXCEPT ![s] = [client[s] EXCEPT !.upload = client[s].upload + bridge[s].size]]
          /\ engine' = [engine EXCEPT ![s] = [engine[s] EXCEPT !.in = Append(engine[s].in, bridge[s].rest[1])]]
          /\ UNCHANGED <<asked, replies, budgeted, h2>>
      <4>1. bridge' = [bridge EXCEPT ![s] = [bridge[s] EXCEPT !.pc = "pump", !.rest = <<>>, !.size = 0]]
          BY <1>1, <1>6, <2>6 DEF Put, AfterPut, Release
      <4>2. client' = [client EXCEPT ![s] = [client[s] EXCEPT !.upload = client[s].upload + bridge[s].size]]
          BY <1>1, <1>6, <2>6 DEF Put, AfterPut, Release
      <4>3. engine' = [engine EXCEPT ![s] = [engine[s] EXCEPT !.in = Append(engine[s].in, bridge[s].rest[1])]]
          BY <1>1, <1>6, <2>6 DEF Put, AfterPut, Release
      <4>4. UNCHANGED <<asked, replies, budgeted, h2>>
          BY DEF Put
      <4> QED  BY <4>1, <4>2, <4>3, <4>4
    <3>2. bridge[s].pc = "put"
        BY <1>1, <1>6, <2>6 DEF Put, AfterPut, Release
    <3>3. StreamOk(asked[s], [client[s] EXCEPT !.upload = client[s].upload + bridge[s].size],
                   [bridge[s] EXCEPT !.pc = "pump", !.rest = <<>>, !.size = 0],
                   [engine[s] EXCEPT !.in = Append(engine[s].in, bridge[s].rest[1])])
        BY ONLY BridgeAssumption, <1>1, <3>2, <1>4, <2>1, <2>2, <2>6, PutWholeOk
    <3>4. bridge[s].pc \notin Free \/ [bridge[s] EXCEPT !.pc = "pump", !.rest = <<>>, !.size = 0].pc \in Free
        BY ONLY <3>2 DEF Free
    <3> QED  BY ONLY BridgeAssumption, BridgeInv, s \in H2Stream, <3>1, <3>3, <3>4, Moves
  <2>7. CASE bridge[s].pc = "put" /\ Len(bridge[s].rest) # 1
    <3>1. /\ bridge' = [bridge EXCEPT ![s] = [bridge[s] EXCEPT !.rest = Tail(bridge[s].rest)]]
          /\ client' = [client EXCEPT ![s] = client[s]]
          /\ engine' = [engine EXCEPT ![s] = [engine[s] EXCEPT !.in = Append(engine[s].in, bridge[s].rest[1])]]
          /\ UNCHANGED <<asked, replies, budgeted, h2>>
      <4>1. bridge' = [bridge EXCEPT ![s] = [bridge[s] EXCEPT !.rest = Tail(bridge[s].rest)]]
          BY <1>1, <1>6, <2>7 DEF Put, AfterPut, Release
      <4>2. client' = [client EXCEPT ![s] = client[s]]
          BY <1>1, <1>6, <2>7 DEF Put, AfterPut, Release
      <4>3. engine' = [engine EXCEPT ![s] = [engine[s] EXCEPT !.in = Append(engine[s].in, bridge[s].rest[1])]]
          BY <1>1, <1>6, <2>7 DEF Put, AfterPut, Release
      <4>4. UNCHANGED <<asked, replies, budgeted, h2>>
          BY DEF Put
      <4> QED  BY <4>1, <4>2, <4>3, <4>4
    <3>2. bridge[s].pc = "put"
        BY <1>1, <1>6, <2>7 DEF Put, AfterPut, Release
    <3>3. StreamOk(asked[s], client[s], [bridge[s] EXCEPT !.rest = Tail(bridge[s].rest)],
                   [engine[s] EXCEPT !.in = Append(engine[s].in, bridge[s].rest[1])])
        BY ONLY BridgeAssumption, <1>1, <3>2, <2>1, <2>2, <2>7, PutPartOk
    <3>4. bridge[s].pc \notin Free \/ [bridge[s] EXCEPT !.rest = Tail(bridge[s].rest)].pc \in Free
        BY ONLY <3>2 DEF Free
    <3> QED  BY ONLY BridgeAssumption, BridgeInv, s \in H2Stream, <3>1, <3>3, <3>4, Moves
  <2> QED  BY <1>2, <2>4, <2>5, <2>6, <2>7
<1> QED  BY <1>5, <1>6

LEMMA ReadHeadStep ==
    ASSUME BridgeInv, NEW s \in H2Stream, ReadHead(s)
    PROVE  BridgeInv'
<1>1. /\ asked[s] \in H2Requests /\ StreamOk(asked[s], client[s], bridge[s], engine[s])
      /\ client[s] \in Clients /\ bridge[s] \in Bridges /\ engine[s] \in Engines
      /\ client = [client EXCEPT ![s] = client[s]] /\ bridge = [bridge EXCEPT ![s] = bridge[s]]
      /\ engine = [engine EXCEPT ![s] = engine[s]]
    BY StreamFacts
<1>2. bridge[s].pc = "await"
    BY DEF ReadHead, CanReadHead
<1>3. CASE engine[s].out = <<>> \/ engine[s].reply.framing = "malformed"
  <2>1. FailStream(s) /\ UNCHANGED <<asked, replies, budgeted, h2>>
      BY <1>3 DEF ReadHead
  <2>2. bridge[s].pc \notin {"none", "opened", "wind", "end"}
      BY <1>2
  <2> QED  BY ONLY BridgeInv, s \in H2Stream, <2>1, <2>2, FailStep
<1>4. CASE ~(engine[s].out = <<>> \/ engine[s].reply.framing = "malformed")
  <2> DEFINE r    == engine[s].reply
             none == asked[s].isHead \/ r.framing = "none" \/ (r.framing = "length" /\ r.size = 0)
  <2>1. PICK k \in DOMAIN engine[s].out :
           /\ bridge' = [bridge EXCEPT ![s].pc = IF none THEN "wind" ELSE "send", ![s].acc = SubSeq(engine[s].out, 2, k)]
           /\ engine' = [engine EXCEPT ![s].out = SubSeq(@, k + 1, Len(@))]
           /\ client' = [client EXCEPT ![s].head = TRUE, ![s].end = IF none /\ ~Departed(s) THEN "whole" ELSE @]
      BY <1>4, Zenon DEF ReadHead
  <2>2. k \in 1 .. Len(engine[s].out) /\ engine[s].out # <<>> /\ engine[s].reply.framing # "malformed"
    <3>1. engine[s].out \in Seq(H2Pieces)
        BY <1>1 DEF Engines
    <3> QED  BY <1>4, <3>1
  <2>3. UNCHANGED <<asked, replies, budgeted, h2>>
      BY DEF ReadHead
  <2>4. none <=> HeadOnly(asked[s], engine[s].reply) \/ (engine[s].reply.framing = "length" /\ engine[s].reply.size = 0)
      BY DEF HeadOnly
  <2>5. CASE none
    <3> DEFINE w == IF ~Departed(s) THEN "whole" ELSE client[s].end
    <3>0. w \in {client[s].end, "whole"} /\ (HeadOnly(asked[s], engine[s].reply) \/ (engine[s].reply.framing = "length" /\ engine[s].reply.size = 0))
        BY <2>4, <2>5
    <3>1. /\ bridge' = [bridge EXCEPT ![s] = [bridge[s] EXCEPT !.pc = "wind", !.acc = SubSeq(engine[s].out, 2, k)]]
          /\ client' = [client EXCEPT ![s] = [client[s] EXCEPT !.head = TRUE, !.end = w]]
          /\ engine' = [engine EXCEPT ![s] = [engine[s] EXCEPT !.out = SubSeq(engine[s].out, k + 1, Len(engine[s].out))]]
          /\ UNCHANGED <<asked, replies, budgeted, h2>>
        BY <1>1, <1>2, <2>1, <2>3, <2>5
    <3>2. bridge[s].pc = "await"
        BY <1>1, <1>2, <2>1, <2>3, <2>5
    <3>3. StreamOk(asked[s], [client[s] EXCEPT !.head = TRUE, !.end = w],
                   [bridge[s] EXCEPT !.pc = "wind", !.acc = SubSeq(engine[s].out, 2, k)],
                   [engine[s] EXCEPT !.out = SubSeq(engine[s].out, k + 1, Len(engine[s].out))])
        BY ONLY BridgeAssumption, <1>1, <3>2, <2>2, <3>0, ReadHeadNoneOk
    <3>4. bridge[s].pc \notin Free \/ [bridge[s] EXCEPT !.pc = "wind", !.acc = SubSeq(engine[s].out, 2, k)].pc \in Free
        BY ONLY <3>2 DEF Free
    <3> QED  BY ONLY BridgeAssumption, BridgeInv, s \in H2Stream, <3>1, <3>3, <3>4, Moves
  <2>6. CASE ~none
    <3>0. ~HeadOnly(asked[s], engine[s].reply)
        BY <2>4, <2>6
    <3>1. /\ bridge' = [bridge EXCEPT ![s] = [bridge[s] EXCEPT !.pc = "send", !.acc = SubSeq(engine[s].out, 2, k)]]
          /\ client' = [client EXCEPT ![s] = [client[s] EXCEPT !.head = TRUE]]
          /\ engine' = [engine EXCEPT ![s] = [engine[s] EXCEPT !.out = SubSeq(engine[s].out, k + 1, Len(engine[s].out))]]
          /\ UNCHANGED <<asked, replies, budgeted, h2>>
        BY <1>1, <1>2, <2>1, <2>3, <2>6
    <3>2. bridge[s].pc = "await"
        BY <1>1, <1>2, <2>1, <2>3, <2>6
    <3>3. StreamOk(asked[s], [client[s] EXCEPT !.head = TRUE],
                   [bridge[s] EXCEPT !.pc = "send", !.acc = SubSeq(engine[s].out, 2, k)],
                   [engine[s] EXCEPT !.out = SubSeq(engine[s].out, k + 1, Len(engine[s].out))])
        BY ONLY BridgeAssumption, <1>1, <3>2, <2>2, <3>0, ReadHeadBodyOk
    <3>4. bridge[s].pc \notin Free \/ [bridge[s] EXCEPT !.pc = "send", !.acc = SubSeq(engine[s].out, 2, k)].pc \in Free
        BY ONLY <3>2 DEF Free
    <3> QED  BY ONLY BridgeAssumption, BridgeInv, s \in H2Stream, <3>1, <3>3, <3>4, Moves
  <2> QED  BY <2>5, <2>6
<1> QED  BY <1>3, <1>4

LEMMA SendStep ==
    ASSUME BridgeInv, NEW s \in H2Stream, Send(s)
    PROVE  BridgeInv'
<1>1. /\ asked[s] \in H2Requests /\ StreamOk(asked[s], client[s], bridge[s], engine[s])
      /\ client[s] \in Clients /\ bridge[s] \in Bridges /\ engine[s] \in Engines
      /\ client = [client EXCEPT ![s] = client[s]] /\ bridge = [bridge EXCEPT ![s] = bridge[s]]
      /\ engine = [engine EXCEPT ![s] = engine[s]]
    BY StreamFacts
<1>2. bridge[s].pc = "send" /\ UNCHANGED <<asked, replies, budgeted, h2>>
    BY DEF Send, CanSend
<1>3. CASE bridge[s].acc = <<>>
  <2>1. /\ bridge' = [bridge EXCEPT ![s] = [bridge[s] EXCEPT !.pc = "read"]]
        /\ client' = [client EXCEPT ![s] = client[s]]
        /\ engine' = [engine EXCEPT ![s] = engine[s]]
        /\ UNCHANGED <<asked, replies, budgeted, h2>>
      BY <1>1, <1>3 DEF Send, Comes, CanSend
  <2>2. bridge[s].pc = "send"
      BY <1>1, <1>3 DEF Send, Comes, CanSend
  <2>3. StreamOk(asked[s], client[s], [bridge[s] EXCEPT !.pc = "read"], engine[s])
      BY ONLY BridgeAssumption, <1>1, <2>2, <1>3, SendNothingOk
  <2>4. bridge[s].pc \notin Free \/ [bridge[s] EXCEPT !.pc = "read"].pc \in Free
      BY ONLY <2>2 DEF Free
  <2> QED  BY ONLY BridgeAssumption, BridgeInv, s \in H2Stream, <2>1, <2>3, <2>4, Moves
<1>4. CASE bridge[s].acc # <<>>
  <2>1. Comes(s) = bridge[s].acc[1] /\ bridge[s].acc[1] \in {"head", "chunk", "unit", "last"}
    <3>1. bridge[s].acc \in Seq(H2Pieces)
        BY ONLY <1>1 DEF Bridges
    <3>2. bridge[s].acc[1] \in H2Pieces
        BY ONLY <1>4, <3>1, PieceTail
    <3> QED  BY <1>4, <3>2 DEF Comes, H2Pieces
  <2>2. CASE bridge[s].acc[1] = "chunk"
    <3>1. /\ bridge' = [bridge EXCEPT ![s] = [bridge[s] EXCEPT !.acc = Tail(bridge[s].acc)]]
          /\ client' = [client EXCEPT ![s] = client[s]]
          /\ engine' = [engine EXCEPT ![s] = engine[s]]
          /\ UNCHANGED <<asked, replies, budgeted, h2>>
        BY <1>1, <1>2, <2>1, <2>2 DEF Send
    <3>2. bridge[s].pc = "send"
        BY <1>1, <1>2, <2>1, <2>2 DEF Send
    <3>3. StreamOk(asked[s], client[s], [bridge[s] EXCEPT !.acc = Tail(bridge[s].acc)], engine[s])
        BY ONLY BridgeAssumption, <1>1, <3>2, <1>4, <2>2, SendChunkOk
    <3>4. bridge[s].pc \notin Free \/ [bridge[s] EXCEPT !.acc = Tail(bridge[s].acc)].pc \in Free
        BY ONLY <3>2 DEF Free
    <3> QED  BY ONLY BridgeAssumption, BridgeInv, s \in H2Stream, <3>1, <3>3, <3>4, Moves
  <2>3. CASE bridge[s].acc[1] # "chunk" /\ Departed(s)
    <3>1. FailStream(s) /\ UNCHANGED <<asked, replies, budgeted, h2>>
        BY <1>2, <2>1, <2>3 DEF Send
    <3>2. bridge[s].pc \notin {"none", "opened", "wind", "end"}
        BY <1>2
    <3> QED  BY ONLY BridgeInv, s \in H2Stream, <3>1, <3>2, FailStep
  <2>4. CASE bridge[s].acc[1] = "last" /\ ~Departed(s)
    <3>1. /\ bridge' = [bridge EXCEPT ![s] = [bridge[s] EXCEPT !.pc = "wind", !.acc = <<>>]]
          /\ client' = [client EXCEPT ![s] = [client[s] EXCEPT !.end = "whole"]]
          /\ engine' = [engine EXCEPT ![s] = engine[s]]
          /\ UNCHANGED <<asked, replies, budgeted, h2>>
        BY <1>1, <1>2, <2>1, <2>4 DEF Send
    <3>2. bridge[s].pc = "send"
        BY <1>1, <1>2, <2>1, <2>4 DEF Send
    <3>3. StreamOk(asked[s], [client[s] EXCEPT !.end = "whole"], [bridge[s] EXCEPT !.pc = "wind", !.acc = <<>>],
                   engine[s])
        BY ONLY BridgeAssumption, <1>1, <3>2, <1>4, <2>4, SendLastOk
    <3>4. bridge[s].pc \notin Free \/ [bridge[s] EXCEPT !.pc = "wind", !.acc = <<>>].pc \in Free
        BY ONLY <3>2 DEF Free
    <3> QED  BY ONLY BridgeAssumption, BridgeInv, s \in H2Stream, <3>1, <3>3, <3>4, Moves
  <2>5. CASE bridge[s].acc[1] \notin {"chunk", "last"} /\ ~Departed(s)
    <3>1. bridge[s].acc[1] # "head"
      <4>1. /\ engine[s].reply \in H2Replies /\ ~HeadOnly(asked[s], engine[s].reply) /\ Passed(asked[s], bridge[s], engine[s]) >= 1
            /\ Flow(Pieces(asked[s], engine[s].reply), bridge[s].acc, engine[s].out, engine[s].left)
            /\ bridge[s].acc \in Seq(H2Pieces) /\ engine[s].out \in Seq(H2Pieces) /\ engine[s].left \in Seq(H2Pieces)
          BY <1>1, <1>2 DEF StreamOk, AnswerOk, FlowOk, Passing, Over, Bridges, Engines
      <4>2. Pieces(asked[s], engine[s].reply) \in Seq(H2Pieces)
          BY ONLY <4>1, PiecesAre
      <4> DEFINE n == Passed(asked[s], bridge[s], engine[s])
      <4>3. n = Behind(Pieces(asked[s], engine[s].reply), bridge[s].acc, engine[s].out, engine[s].left)
          BY DEF Passed
      <4>4. n \in Nat
          BY ONLY <4>1, <4>2, <4>3, FlowSizes
      <4>5. n < Len(Pieces(asked[s], engine[s].reply)) /\ bridge[s].acc[1] = Pieces(asked[s], engine[s].reply)[n + 1]
          BY ONLY <1>4, <4>1, <4>2, <4>3, FlowPass
      <4>6. n >= 1
          BY <4>1
      <4> HIDE DEF n
      <4>7. Pieces(asked[s], engine[s].reply)[n + 1] # "head"
          BY ONLY <4>1, <4>4, <4>5, <4>6, PieceAt
      <4> QED  BY <4>5, <4>7
    <3>2. bridge[s].acc[1] = "unit"
        BY <2>1, <2>5, <3>1
    <3> DEFINE w == client[s].window - 1
    <3>3. w \in Nat
      <4>1. client[s].window > 0 /\ client[s].window \in Nat
          BY <1>1, <2>1, <2>5, <3>2 DEF Send, CanSend, Clients
      <4> QED  BY <4>1
    <3>4. CASE LastOf(s)
      <4>0. (engine[s].reply.framing = "length" /\ bridge[s].got + 1 = engine[s].reply.size)
            \/ (engine[s].reply.framing = "chunked" /\ bridge[s].acc = <<"unit", "last">>)
          BY <3>4 DEF LastOf
      <4>1. /\ bridge' = [bridge EXCEPT ![s] = [bridge[s] EXCEPT !.acc = <<>>, !.got = bridge[s].got + 1, !.pc = "wind"]]
            /\ client' = [client EXCEPT ![s] = [client[s] EXCEPT !.units = client[s].units + 1, !.window = w, !.end = "whole"]]
            /\ engine' = [engine EXCEPT ![s] = engine[s]]
            /\ UNCHANGED <<asked, replies, budgeted, h2>>
          BY <1>1, <1>2, <2>1, <2>5, <3>2, <3>4 DEF Send
      <4>2. bridge[s].pc = "send"
          BY <1>1, <1>2, <2>1, <2>5, <3>2, <3>4 DEF Send
      <4>3. StreamOk(asked[s], [client[s] EXCEPT !.units = client[s].units + 1, !.window = w, !.end = "whole"],
                     [bridge[s] EXCEPT !.acc = <<>>, !.got = bridge[s].got + 1, !.pc = "wind"], engine[s])
          BY ONLY BridgeAssumption, <1>1, <4>2, <1>4, <3>2, <3>3, <4>0, SendLastUnitOk
      <4>4. bridge[s].pc \notin Free \/ [bridge[s] EXCEPT !.acc = <<>>, !.got = bridge[s].got + 1, !.pc = "wind"].pc \in Free
          BY ONLY <4>2 DEF Free
      <4> QED  BY ONLY BridgeAssumption, BridgeInv, s \in H2Stream, <4>1, <4>3, <4>4, Moves
    <3>5. CASE ~LastOf(s)
      <4>1. /\ bridge' = [bridge EXCEPT ![s] = [bridge[s] EXCEPT !.acc = Tail(bridge[s].acc), !.got = bridge[s].got + 1, !.pc = bridge[s].pc]]
            /\ client' = [client EXCEPT ![s] = [client[s] EXCEPT !.units = client[s].units + 1, !.window = w, !.end = client[s].end]]
            /\ engine' = [engine EXCEPT ![s] = engine[s]]
            /\ UNCHANGED <<asked, replies, budgeted, h2>>
          BY <1>1, <1>2, <2>1, <2>5, <3>2, <3>5 DEF Send
      <4>2. bridge[s].pc = "send"
          BY <1>1, <1>2, <2>1, <2>5, <3>2, <3>5 DEF Send
      <4>3. StreamOk(asked[s], [client[s] EXCEPT !.units = client[s].units + 1, !.window = w, !.end = client[s].end],
                     [bridge[s] EXCEPT !.acc = Tail(bridge[s].acc), !.got = bridge[s].got + 1, !.pc = bridge[s].pc],
                     engine[s])
          BY ONLY BridgeAssumption, <1>1, <4>2, <1>4, <3>2, <3>3, SendUnitOk
      <4>4. bridge[s].pc \notin Free \/ [bridge[s] EXCEPT !.acc = Tail(bridge[s].acc), !.got = bridge[s].got + 1, !.pc = bridge[s].pc].pc \in Free
          BY ONLY <4>2 DEF Free
      <4> QED  BY ONLY BridgeAssumption, BridgeInv, s \in H2Stream, <4>1, <4>3, <4>4, Moves
    <3> QED  BY <3>4, <3>5
  <2> QED  BY <2>2, <2>3, <2>4, <2>5
<1> QED  BY <1>3, <1>4

LEMMA ReadBodyStep ==
    ASSUME BridgeInv, NEW s \in H2Stream, ReadBody(s)
    PROVE  BridgeInv'
<1>1. /\ asked[s] \in H2Requests /\ StreamOk(asked[s], client[s], bridge[s], engine[s])
      /\ client[s] \in Clients /\ bridge[s] \in Bridges /\ engine[s] \in Engines
      /\ client = [client EXCEPT ![s] = client[s]] /\ bridge = [bridge EXCEPT ![s] = bridge[s]]
      /\ engine = [engine EXCEPT ![s] = engine[s]]
    BY StreamFacts
<1>2. bridge[s].pc = "read" /\ (engine[s].out # <<>> \/ Ended(s)) /\ UNCHANGED <<asked, replies, budgeted, h2>>
    BY DEF ReadBody, CanReadBody
<1>3. CASE engine[s].out # <<>>
  <2>1. PICK k \in DOMAIN engine[s].out :
           /\ bridge' = [bridge EXCEPT ![s] = [bridge[s] EXCEPT !.pc = "send", !.acc = SubSeq(engine[s].out, 1, k)]]
           /\ engine' = [engine EXCEPT ![s] = [engine[s] EXCEPT !.out = SubSeq(engine[s].out, k + 1, Len(engine[s].out))]]
           /\ UNCHANGED client
      BY <1>3 DEF ReadBody
  <2>2. k \in 1 .. Len(engine[s].out)
    <3>1. engine[s].out \in Seq(H2Pieces)
        BY <1>1 DEF Engines
    <3> QED  BY <3>1
  <2>3. /\ bridge' = [bridge EXCEPT ![s] = [bridge[s] EXCEPT !.pc = "send", !.acc = SubSeq(engine[s].out, 1, k)]]
        /\ client' = [client EXCEPT ![s] = client[s]]
        /\ engine' = [engine EXCEPT ![s] = [engine[s] EXCEPT !.out = SubSeq(engine[s].out, k + 1, Len(engine[s].out))]]
        /\ UNCHANGED <<asked, replies, budgeted, h2>>
      BY <1>1, <1>2, <2>1
  <2>4. bridge[s].pc = "read"
      BY <1>1, <1>2, <2>1
  <2>5. StreamOk(asked[s], client[s], [bridge[s] EXCEPT !.pc = "send", !.acc = SubSeq(engine[s].out, 1, k)],
                 [engine[s] EXCEPT !.out = SubSeq(engine[s].out, k + 1, Len(engine[s].out))])
      BY ONLY BridgeAssumption, <1>1, <2>4, <1>3, <2>2, ReadSomeOk
  <2>6. bridge[s].pc \notin Free \/ [bridge[s] EXCEPT !.pc = "send", !.acc = SubSeq(engine[s].out, 1, k)].pc \in Free
      BY ONLY <2>4 DEF Free
  <2> QED  BY ONLY BridgeAssumption, BridgeInv, s \in H2Stream, <2>3, <2>5, <2>6, Moves
<1>4. CASE engine[s].out = <<>> /\ EndIsWhole(s) /\ ~Departed(s)
  <2>0. engine[s].st \notin {"run", "answer"} /\ engine[s].reply.framing = "close" /\ ~engine[s].aborted
      BY <1>2, <1>4 DEF Ended, EngineRuns, EndIsWhole
  <2>1. /\ bridge' = [bridge EXCEPT ![s] = [bridge[s] EXCEPT !.pc = "wind"]]
        /\ client' = [client EXCEPT ![s] = [client[s] EXCEPT !.end = "whole"]]
        /\ engine' = [engine EXCEPT ![s] = engine[s]]
        /\ UNCHANGED <<asked, replies, budgeted, h2>>
      BY <1>1, <1>2, <1>4 DEF ReadBody
  <2>2. bridge[s].pc = "read"
      BY <1>1, <1>2, <1>4 DEF ReadBody
  <2>3. StreamOk(asked[s], [client[s] EXCEPT !.end = "whole"], [bridge[s] EXCEPT !.pc = "wind"], engine[s])
      BY ONLY BridgeAssumption, <1>1, <2>2, <1>4, <2>0, ReadWholeOk
  <2>4. bridge[s].pc \notin Free \/ [bridge[s] EXCEPT !.pc = "wind"].pc \in Free
      BY ONLY <2>2 DEF Free
  <2> QED  BY ONLY BridgeAssumption, BridgeInv, s \in H2Stream, <2>1, <2>3, <2>4, Moves
<1>5. CASE engine[s].out = <<>> /\ ~(EndIsWhole(s) /\ ~Departed(s))
  <2>1. FailStream(s) /\ UNCHANGED <<asked, replies, budgeted, h2>>
      BY <1>2, <1>5 DEF ReadBody
  <2>2. bridge[s].pc \notin {"none", "opened", "wind", "end"}
      BY <1>2
  <2> QED  BY ONLY BridgeInv, s \in H2Stream, <2>1, <2>2, FailStep
<1> QED  BY <1>3, <1>4, <1>5

\* A task that sees its client gone gives up.
LEMMA NoticeStep ==
    ASSUME BridgeInv, NEW s \in H2Stream, NoticeReset(s)
    PROVE  BridgeInv'
<1>1. FailStream(s) /\ UNCHANGED <<asked, replies, budgeted, h2>>
    BY DEF NoticeReset
<1>2. bridge[s].pc \notin {"none", "opened", "wind", "end"}
    BY DEF NoticeReset, Watched
<1> QED  BY ONLY BridgeInv, s \in H2Stream, <1>1, <1>2, FailStep

\* A task whose head does not come in time gives up.
LEMMA TimeoutStep ==
    ASSUME BridgeInv, NEW s \in H2Stream, BridgeTimeout(s)
    PROVE  BridgeInv'
<1>1. FailStream(s) /\ UNCHANGED <<asked, replies, budgeted, h2>>
    BY DEF BridgeTimeout
<1>2. bridge[s].pc \notin {"none", "opened", "wind", "end"}
    BY DEF BridgeTimeout, TimesOut
<1> QED  BY ONLY BridgeInv, s \in H2Stream, <1>1, <1>2, FailStep

LEMMA EngineReadStep ==
    ASSUME BridgeInv, NEW s \in H2Stream, EngineRead(s)
    PROVE  BridgeInv'
<1>1. /\ asked[s] \in H2Requests /\ StreamOk(asked[s], client[s], bridge[s], engine[s])
      /\ client[s] \in Clients /\ bridge[s] \in Bridges /\ engine[s] \in Engines
      /\ client = [client EXCEPT ![s] = client[s]] /\ bridge = [bridge EXCEPT ![s] = bridge[s]]
      /\ engine = [engine EXCEPT ![s] = engine[s]]
    BY StreamFacts
<1>2. engine[s].st = "run" /\ engine[s].in # <<>>
    BY DEF EngineRead, CanEngineRead
<1> DEFINE i == IF engine[s].in[1] = "unit" THEN 1 ELSE 0
           m == engine[s].units + i
           f == engine[s].ended \/ engine[s].in[1] = "last"
<1>3. m \in Nat /\ f \in BOOLEAN
  <2>1. engine[s].units \in Nat /\ engine[s].ended \in BOOLEAN /\ i \in Nat
      BY <1>1 DEF Engines
  <2> HIDE DEF i
  <2> QED  BY <2>1
<1>4. /\ bridge' = [bridge EXCEPT ![s] = bridge[s]]
      /\ client' = [client EXCEPT ![s] = client[s]]
      /\ engine' = [engine EXCEPT ![s] = [engine[s] EXCEPT !.in = Tail(engine[s].in), !.head = TRUE, !.units = m, !.ended = f]]
      /\ UNCHANGED <<asked, replies, budgeted, h2>>
    BY <1>1 DEF EngineRead, CanEngineRead
<1>5. engine[s].st = "run"
    BY <1>1 DEF EngineRead, CanEngineRead
<1>6. StreamOk(asked[s], client[s], bridge[s],
               [engine[s] EXCEPT !.in = Tail(engine[s].in), !.head = TRUE, !.units = m, !.ended = f])
    BY ONLY BridgeAssumption, <1>1, <1>5, <1>2, <1>3, EngineReadOk
<1>7. bridge[s].pc \notin Free \/ bridge[s].pc \in Free
    OBVIOUS
<1> QED  BY ONLY BridgeAssumption, BridgeInv, s \in H2Stream, <1>4, <1>6, <1>7, Moves

LEMMA EngineAnswerStep ==
    ASSUME BridgeInv, NEW s \in H2Stream, EngineAnswer(s)
    PROVE  BridgeInv'
<1>1. /\ asked[s] \in H2Requests /\ StreamOk(asked[s], client[s], bridge[s], engine[s])
      /\ client[s] \in Clients /\ bridge[s] \in Bridges /\ engine[s] \in Engines
      /\ client = [client EXCEPT ![s] = client[s]] /\ bridge = [bridge EXCEPT ![s] = bridge[s]]
      /\ engine = [engine EXCEPT ![s] = engine[s]]
    BY StreamFacts
<1>2. PICK r \in replies :
         engine' = [engine EXCEPT ![s] = [engine[s] EXCEPT !.st = "answer", !.reply = r, !.left = Pieces(asked[s], r)]]
    BY DEF EngineAnswer
<1>3. r \in H2Replies
    BY DEF BridgeInv
<1>4. /\ bridge' = [bridge EXCEPT ![s] = bridge[s]]
      /\ client' = [client EXCEPT ![s] = client[s]]
      /\ engine' = [engine EXCEPT ![s] = [engine[s] EXCEPT !.st = "answer", !.reply = r, !.left = Pieces(asked[s], r)]]
      /\ UNCHANGED <<asked, replies, budgeted, h2>>
    BY <1>1, <1>2 DEF EngineAnswer
<1>5. engine[s].st = "run"
    BY <1>1, <1>2 DEF EngineAnswer
<1>6. StreamOk(asked[s], client[s], bridge[s],
               [engine[s] EXCEPT !.st = "answer", !.reply = r, !.left = Pieces(asked[s], r)])
    BY ONLY BridgeAssumption, <1>1, <1>5, <1>3, EngineAnswerOk
<1>7. bridge[s].pc \notin Free \/ bridge[s].pc \in Free
    OBVIOUS
<1> QED  BY ONLY BridgeAssumption, BridgeInv, s \in H2Stream, <1>4, <1>6, <1>7, Moves

LEMMA EngineWriteStep ==
    ASSUME BridgeInv, NEW s \in H2Stream, EngineWrite(s)
    PROVE  BridgeInv'
<1>1. /\ asked[s] \in H2Requests /\ StreamOk(asked[s], client[s], bridge[s], engine[s])
      /\ client[s] \in Clients /\ bridge[s] \in Bridges /\ engine[s] \in Engines
      /\ client = [client EXCEPT ![s] = client[s]] /\ bridge = [bridge EXCEPT ![s] = bridge[s]]
      /\ engine = [engine EXCEPT ![s] = engine[s]]
    BY StreamFacts
<1>2. engine[s].st = "answer" /\ bridge[s].pc # "wind"
  <2>1. engine[s].st = "answer"
      BY DEF EngineWrite, CanEngineWrite
  <2> QED  BY <1>1, <2>1 DEF StreamOk, PlaceOk, Over
<1>3. Len(engine[s].out) < PipeRoom
    BY <1>2 DEF EngineWrite, CanEngineWrite
<1> DEFINE v == IF Len(engine[s].left) = 1 THEN "gone" ELSE "answer"
<1>4. /\ bridge' = [bridge EXCEPT ![s] = bridge[s]]
      /\ client' = [client EXCEPT ![s] = client[s]]
      /\ engine' = [engine EXCEPT ![s] = [engine[s] EXCEPT !.out = Append(engine[s].out, Head(engine[s].left)), !.left = Tail(engine[s].left), !.st = v]]
      /\ UNCHANGED <<asked, replies, budgeted, h2>>
    BY <1>1, <1>2 DEF EngineWrite
<1>5. engine[s].st = "answer"
    BY <1>1, <1>2 DEF EngineWrite
<1>6. StreamOk(asked[s], client[s], bridge[s],
               [engine[s] EXCEPT !.out = Append(engine[s].out, Head(engine[s].left)), !.left = Tail(engine[s].left), !.st = v])
    BY ONLY BridgeAssumption, <1>1, <1>5, <1>2, <1>3, EngineWriteOk
<1>7. bridge[s].pc \notin Free \/ bridge[s].pc \in Free
    OBVIOUS
<1> QED  BY ONLY BridgeAssumption, BridgeInv, s \in H2Stream, <1>4, <1>6, <1>7, Moves

\* The connection alone: it drains, or is lost.
LEMMA ConnectionStep ==
    ASSUME BridgeInv, LoseConnection \/ DrainH2
    PROVE  BridgeInv'
<1>1. h2' \in {"open", "draining", "lost"} /\ UNCHANGED <<asked, replies, budgeted, client, bridge, engine>>
    BY DEF LoseConnection, DrainH2
<1>2. H2Stream' = H2Stream /\ Slots' = Slots
    BY <1>1 DEF Slots, H2Stream
<1> QED  BY <1>1, <1>2 DEF BridgeInv

\* A step that changes nothing.
LEMMA BridgeStutters ==
    ASSUME BridgeInv, UNCHANGED bridgeVars
    PROVE  BridgeInv'
<1>1. UNCHANGED <<asked, replies, budgeted, h2, client, bridge, engine>>
    BY DEF bridgeVars
<1>2. H2Stream' = H2Stream /\ Slots' = Slots
    BY <1>1 DEF Slots, H2Stream
<1> QED  BY <1>1, <1>2 DEF BridgeInv

\* A stream at its beginning.
LEMMA NewOk ==
    ASSUME BridgeAssumption, NEW q \in H2Requests
    PROVE  StreamOk(q, NewClient, NewBridge, NewEngine)
<1>1. <<>> \in Seq(H2Pieces) /\ UploadWindow \in Nat /\ PipeRoom \in Nat /\ Len(<<>>) = 0
    BY DEF BridgeAssumption
<1>2. Len(q.frames) \in Nat /\ UnitsIn(q.frames)[0] = 0
    BY Frames
<1>3. NewClient \in Clients /\ NewBridge \in Bridges /\ NewEngine \in Engines
    BY <1>1 DEF NewClient, NewBridge, NewEngine, Clients, Bridges, Engines, Waiting, Writing, Passing, Over
<1>4. PlaceOk(q, NewClient, NewBridge, NewEngine)
    BY <1>1, <1>2 DEF PlaceOk, NewClient, NewBridge, NewEngine, Waiting, Writing, Passing, Over
<1>5. WindowOk(q, NewClient, NewBridge)
    BY <1>1, <1>2 DEF WindowOk, NewClient, NewBridge
<1>6. RestOk(q, NewClient, NewBridge, NewEngine)
    BY DEF RestOk, NewBridge, Passing
<1>7. RequestOk(q, NewClient, NewBridge, NewEngine)
    BY DEF RequestOk, NewEngine
<1>8. AnswerOk(q, NewClient, NewBridge, NewEngine)
    BY DEF AnswerOk, NewClient, NewBridge, NewEngine, Writing, Passing
<1> QED  BY <1>3, <1>4, <1>5, <1>6, <1>7, <1>8 DEF StreamOk

\* It holds at the beginning, and every step keeps it.
LEMMA BridgeInvInit == BridgeInit => BridgeInv
<1> SUFFICES ASSUME BridgeInit PROVE BridgeInv
    OBVIOUS
<1>1. PICK w \in BridgeWorlds :
         /\ asked = w.asked /\ replies = w.replies /\ budgeted = w.budgeted /\ h2 = "open"
         /\ client = [s \in DOMAIN w.asked |-> NewClient] /\ bridge = [s \in DOMAIN w.asked |-> NewBridge]
         /\ engine = [s \in DOMAIN w.asked |-> NewEngine]
    BY DEF BridgeInit
<1>2. asked \in [H2Stream -> H2Requests] /\ IsFiniteSet(H2Stream) /\ replies \subseteq H2Replies /\ budgeted \in BOOLEAN
      /\ H2Stream = DOMAIN w.asked
    BY <1>1, BridgeAssumption DEF BridgeAssumption, H2Stream
<1>3. ASSUME NEW s \in H2Stream PROVE StreamOk(asked[s], client[s], bridge[s], engine[s])
  <2>1. asked[s] \in H2Requests /\ client[s] = NewClient /\ bridge[s] = NewBridge /\ engine[s] = NewEngine
      BY <1>1, <1>2
  <2> QED  BY <2>1, BridgeAssumption, NewOk
<1>4. client \in [H2Stream -> Clients] /\ bridge \in [H2Stream -> Bridges] /\ engine \in [H2Stream -> Engines]
  <2>1. \A s \in H2Stream : client[s] \in Clients /\ bridge[s] \in Bridges /\ engine[s] \in Engines
      BY <1>3 DEF StreamOk
  <2> QED  BY <1>1, <1>2, <2>1
<1>5. Slots = {}
    BY <1>1, <1>2 DEF Slots, NewBridge
<1>6. Cardinality(Slots) <= MaxStreams
    BY <1>5, FS_EmptySet, BridgeAssumption DEF BridgeAssumption
<1> QED  BY <1>1, <1>2, <1>3, <1>4, <1>6 DEF BridgeInv

LEMMA BridgeInvStep == BridgeInv /\ [BridgeNext]_bridgeVars => BridgeInv'
<1> SUFFICES ASSUME BridgeInv, [BridgeNext]_bridgeVars PROVE BridgeInv'
    OBVIOUS
<1>1. CASE LoseConnection \/ DrainH2
    BY <1>1, ConnectionStep
<1>2. ASSUME NEW s \in H2Stream,
             \/ OpenStream(s) \/ SendFrame(s) \/ ResetStream(s) \/ GrantWindow(s)
             \/ AcceptStream(s) \/ DropUnaccepted(s) \/ Acquire(s) \/ Pump(s) \/ Put(s)
             \/ ReadHead(s) \/ Send(s) \/ ReadBody(s) \/ WindDown(s) \/ NoticeReset(s) \/ BridgeTimeout(s)
             \/ EngineRead(s) \/ EngineAnswer(s) \/ EngineWrite(s) \/ EngineCut(s) \/ EngineQuit(s)
      PROVE  BridgeInv'
    BY <1>2, OpenStep, SendFrameStep, ResetStep, GrantStep, AcceptStep, DropStep, AcquireStep, PumpStep, PutStep, ReadHeadStep,
       SendStep, ReadBodyStep, WindStep, NoticeStep, TimeoutStep, EngineReadStep, EngineAnswerStep, EngineWriteStep,
       AnswerCutStep, QuitStep
<1>3. CASE UNCHANGED bridgeVars
    BY <1>3, BridgeStutters
<1> QED  BY <1>1, <1>2, <1>3 DEF BridgeNext

\* A task that holds a permit and whose client left is not at rest.
LEMMA LeftGoesOn ==
    ASSUME BridgeInv, NEW t \in Slots
    PROVE  ~Stopped(t) \/ ~Departed(t)
<1> SUFFICES ASSUME Stopped(t), Departed(t) PROVE FALSE
    OBVIOUS
<1>1. t \in H2Stream /\ bridge[t].pc \notin Free
    BY DEF Slots, Free
<1>2. bridge[t] \in Bridges /\ PlaceOk(asked[t], client[t], bridge[t], engine[t])
    BY <1>1, StreamFacts DEF StreamOk
<1>3. bridge[t].pc \notin Watched
    BY DEF Stopped
<1>4. bridge[t].pc \in {"send", "wind"}
    BY ONLY <1>1, <1>2, <1>3 DEF Bridges, Free, Watched, Waiting, Writing, Passing, Over
<1>5. bridge[t].pc # "send"
    BY DEF Stopped, CanSend
<1>6. bridge[t].pc = "wind" => ~EngineRuns(t)
    BY <1>2 DEF PlaceOk, Over, EngineRuns
<1> QED  BY <1>4, <1>5, <1>6 DEF Stopped

\* What a stream at rest waits for.
LEMMA PumpRests ==
    ASSUME BridgeInv, NEW s \in H2Stream, bridge[s].pc = "pump", ~CanPump(s)
    PROVE  WaitsOnClient(s)
<1>1. asked[s] \in H2Requests /\ StreamOk(asked[s], client[s], bridge[s], engine[s])
    BY StreamFacts
<1>2. client[s] \in Clients /\ bridge[s] \in Bridges /\ PlaceOk(asked[s], client[s], bridge[s], engine[s])
      /\ WindowOk(asked[s], client[s], bridge[s]) /\ RestOk(asked[s], client[s], bridge[s], engine[s])
    BY ONLY <1>1 DEF StreamOk
<1> DEFINE c == client[s]
           L == Len(asked[s].frames)
           F == UnitsIn(asked[s].frames)
<1>3. c.sent \in Nat /\ c.upload \in Nat /\ bridge[s].taken \in Nat /\ c.sent <= L /\ bridge[s].taken <= c.sent /\ bridge[s].size = 0
    BY <1>2 DEF Clients, Bridges, PlaceOk, RestOk
<1>4. /\ L \in Nat /\ \A n \in 1 .. L : asked[s].frames[n] \in 0 .. UploadWindow
      /\ F \in [0 .. L -> Nat]
    BY ONLY BridgeAssumption, <1>1, Frames
<1>5. ~(bridge[s].taken < c.sent) /\ c.sent # L
    BY DEF CanPump, AllSent
<1>6. bridge[s].taken = c.sent /\ c.sent + 1 \in 1 .. L /\ c.sent \in 0 .. L
  <2> HIDE DEF c, L
  <2> QED  BY ONLY <1>3, <1>4, <1>5
<1>7. c.upload = UploadWindow
  <2>1. c.upload + F[c.sent] + bridge[s].size = UploadWindow + F[bridge[s].taken]
      BY <1>2 DEF WindowOk
  <2>2. F[c.sent] \in Nat /\ UploadWindow \in Nat
      BY <1>4, <1>6, BridgeAssumption DEF BridgeAssumption
  <2>3. c.upload + F[c.sent] + 0 = UploadWindow + F[c.sent]
      BY <1>3, <1>6, <2>1
  <2> HIDE DEF c, F
  <2> QED  BY ONLY <1>3, <2>2, <2>3
<1>8. asked[s].frames[c.sent + 1] <= c.upload
  <2>1. asked[s].frames[c.sent + 1] \in 0 .. UploadWindow /\ UploadWindow \in Nat
      BY <1>4, <1>6, BridgeAssumption DEF BridgeAssumption
  <2> HIDE DEF c
  <2> QED  BY ONLY <1>7, <2>1
<1> QED  BY <1>5, <1>8 DEF WaitsOnClient, AllSent

\* A stream that cannot move is over, or waits for its client, its engine or a
\* permit that another one holds.
LEMMA StreamRests ==
    ASSUME BridgeInv, NEW s \in H2Stream
    PROVE  Rests(s)
<1> SUFFICES ASSUME Stopped(s)
             PROVE  \/ bridge[s].pc = "end" /\ ~EngineRuns(s)
                    \/ ~Departed(s) /\ (WaitsOnClient(s) \/ engine[s].st = "run" \/ EveryoneWaits(s))
                    \/ bridge[s].pc = "acquire" /\ \E t \in Slots : ~Stopped(t) \/ ~Departed(t)
    BY DEF Rests
<1>1. /\ client[s] \in Clients /\ bridge[s] \in Bridges /\ engine[s] \in Engines
      /\ PlaceOk(asked[s], client[s], bridge[s], engine[s]) /\ RestOk(asked[s], client[s], bridge[s], engine[s])
    BY StreamFacts DEF StreamOk
<1>2. /\ ~Ready(s) /\ ~CanSend(s) /\ ~CanEngineRead(s) /\ ~CanEngineWrite(s)
      /\ (bridge[s].pc \in Watched => ~Departed(s)) /\ (bridge[s].pc = "wind" => EngineRuns(s))
      /\ bridge[s].pc \notin {"none", "opened"}
    BY DEF Stopped
<1>3. ~CanPump(s) /\ ~CanPut(s) /\ ~CanReadHead(s) /\ ~CanReadBody(s)
      /\ (bridge[s].pc = "acquire" => ~(Cardinality(Slots) < MaxStreams))
    BY <1>2 DEF Ready, Holders
<1>4. /\ PipeRoom \in Nat /\ PipeRoom >= 1 /\ Len(<<>>) = 0 /\ Len(engine[s].in) \in Nat /\ Len(engine[s].out) \in Nat
      /\ Len(engine[s].in) <= PipeRoom /\ Len(engine[s].out) <= PipeRoom
  <2>1. engine[s].in \in Seq(H2Pieces) /\ engine[s].out \in Seq(H2Pieces)
      BY ONLY <1>1 DEF Engines
  <2> QED  BY <1>1, <2>1, BridgeAssumption DEF BridgeAssumption, PlaceOk
<1>5. engine[s].st = "answer" => engine[s].out # <<>> /\ Len(engine[s].out) = PipeRoom
  <2> SUFFICES ASSUME engine[s].st = "answer" PROVE engine[s].out # <<>> /\ Len(engine[s].out) = PipeRoom
      OBVIOUS
  <2>1. ~(Len(engine[s].out) < PipeRoom)
      BY <1>2 DEF CanEngineWrite
  <2>2. Len(engine[s].out) = PipeRoom
      BY ONLY <1>4, <2>1
  <2> QED  BY <1>4, <2>2
<1>6. CASE bridge[s].pc = "acquire"
  <2>1. Slots # {}
    <3>1. Cardinality({}) = 0 /\ MaxStreams \in Nat /\ MaxStreams # 0
        BY FS_EmptySet, BridgeAssumption DEF BridgeAssumption
    <3>2. Cardinality({}) < MaxStreams
        BY ONLY <3>1
    <3> QED  BY ONLY <1>3, <1>6, <3>2
  <2>2. PICK t \in Slots : TRUE
      BY <2>1
  <2> QED  BY <1>6, <2>2, LeftGoesOn
<1>7. CASE bridge[s].pc = "head"
  <2>1. engine[s].in = <<>>
      BY <1>1, <1>7 DEF RestOk
  <2>2. Len(engine[s].in) < PipeRoom
      BY <1>4, <2>1
  <2> QED  BY <1>3, <1>7, <2>2 DEF CanPut
<1>8. CASE bridge[s].pc = "pump"
    BY <1>2, <1>3, <1>8, PumpRests DEF Watched
<1>9. CASE bridge[s].pc \in {"put", "last"}
  <2>1. ~Departed(s)
      BY <1>2, <1>9 DEF Watched
  <2>2. EngineRuns(s) /\ ~(Len(engine[s].in) < PipeRoom)
      BY <1>3, <1>9 DEF CanPut
  <2>3. Len(engine[s].in) = PipeRoom
      BY ONLY <1>4, <2>2
  <2>4. engine[s].st = "answer" => engine[s].left # <<>>
      BY <1>1 DEF PlaceOk
  <2> QED  BY <1>5, <1>9, <2>1, <2>2, <2>3, <2>4 DEF EveryoneWaits, EngineRuns
<1>10. CASE bridge[s].pc = "await"
  <2>1. ~Departed(s)
      BY <1>2, <1>10 DEF Watched
  <2>2. engine[s].out = <<>> /\ EngineRuns(s)
      BY <1>3, <1>10 DEF CanReadHead, Ended
  <2> QED  BY <1>5, <2>1, <2>2 DEF EngineRuns
<1>11. CASE bridge[s].pc = "send"
  <2>1. ~(client[s].window > 0) /\ ~Departed(s)
      BY <1>2, <1>11 DEF CanSend
  <2>2. client[s].window \in Nat
      BY <1>1 DEF Clients
  <2>3. client[s].window = 0
      BY ONLY <2>1, <2>2
  <2> QED  BY <1>11, <2>1, <2>3 DEF WaitsOnClient
<1>12. CASE bridge[s].pc = "read"
  <2>1. engine[s].out = <<>> /\ EngineRuns(s)
      BY <1>3, <1>12 DEF CanReadBody, Ended
  <2>2. engine[s].st \in {"answer", "gone"}
      BY <1>1, <1>12 DEF PlaceOk, Passing
  <2> QED  BY <1>5, <2>1, <2>2 DEF EngineRuns
<1>13. CASE bridge[s].pc \in Over
  <2>1. ~EngineRuns(s)
      BY <1>1, <1>13 DEF PlaceOk, Over, EngineRuns
  <2> QED  BY <1>2, <1>13, <2>1 DEF Over
<1>14. bridge[s].pc \in {"none", "opened", "acquire", "head", "pump", "put", "last", "await", "send", "read"} \cup Over
    BY ONLY <1>1 DEF Bridges, Waiting, Writing, Passing, Over
<1> QED  BY ONLY <1>2, <1>6, <1>7, <1>8, <1>9, <1>10, <1>11, <1>12, <1>13, <1>14

\* The invariant implies the property.
LEMMA BridgeInvHolds == BridgeInv => BridgeHolds
<1> SUFFICES ASSUME BridgeInv PROVE BridgeHolds
    OBVIOUS
<1>1. ASSUME NEW s \in H2Stream PROVE RequestWhole(s) /\ AnswerWhole(s) /\ Rests(s)
  <2>1. RequestOk(asked[s], client[s], bridge[s], engine[s]) /\ AnswerOk(asked[s], client[s], bridge[s], engine[s])
      BY StreamFacts DEF StreamOk
  <2>2. RequestWhole(s)
      BY <2>1 DEF RequestOk, RequestWhole, AllSent
  <2>3. AnswerWhole(s)
      BY <2>1 DEF AnswerOk, AnswerWhole
  <2> QED  BY <2>2, <2>3, StreamRests
<1>2. {s \in H2Stream : EngineRuns(s)} \subseteq Slots
  <2> SUFFICES ASSUME NEW s \in H2Stream, EngineRuns(s) PROVE s \in Slots
      OBVIOUS
  <2>1. PlaceOk(asked[s], client[s], bridge[s], engine[s])
      BY StreamFacts DEF StreamOk
  <2> QED  BY <2>1 DEF PlaceOk, EngineRuns, Slots, Waiting, Over
<1>3. Cardinality({s \in H2Stream : EngineRuns(s)}) <= MaxStreams
  <2>1. IsFiniteSet(Slots) /\ Cardinality(Slots) \in Nat
      BY SlotsFinite
  <2>2. /\ Cardinality({s \in H2Stream : EngineRuns(s)}) <= Cardinality(Slots)
        /\ Cardinality({s \in H2Stream : EngineRuns(s)}) \in Nat
      BY ONLY <1>2, <2>1, FS_Subset, FS_CardinalityType
  <2>3. Cardinality(Slots) <= MaxStreams /\ MaxStreams \in Nat
      BY BridgeAssumption DEF BridgeInv, BridgeAssumption
  <2> QED  BY ONLY <2>1, <2>2, <2>3
<1> QED  BY <1>1, <1>3 DEF BridgeHolds

-----------------------------------------------------------------------------
\* h2_bridge.rs (serve_stream, pump_request_body, forward_response), for every
\* set of streams, requests and replies and every bound: a request whose end
\* the engine read off the chunks reached it whole; an answer that ends without
\* a reset is the whole answer; no more engines run than MaxStreams, whatever
\* the client resets; and a stream that cannot move is over, or its client is
\* there and owes it something, or its engine has yet to decide (or, without a
\* budget, both pipes are full), or another stream holds the permit it waits
\* for and can move or still has its client.
THEOREM BridgeCorrect == BridgeSpec => []BridgeHolds
<1>1. BridgeInit => BridgeInv
    BY BridgeInvInit
<1>2. BridgeInv /\ [BridgeNext]_bridgeVars => BridgeInv'
    BY BridgeInvStep
<1>3. BridgeInv => BridgeHolds
    BY BridgeInvHolds
<1> QED  BY <1>1, <1>2, <1>3, PTL DEF BridgeSpec

=============================================================================
