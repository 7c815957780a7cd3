------------------------------ MODULE Programmed ------------------------------
(***************************************************************************)
(* A Gateway's Programmed condition over time                              *)
(* (src/src/kubernetes/controller/programmed.rs): what the reports of its  *)
(* data planes say (reports.rs), how long the condition written stands     *)
(* while none says anything, and the wake when one falls silent (Lapses    *)
(* of server.rs), across new versions, rolling replacements, silent deaths *)
(* and failovers of the controller.                                        *)
(*                                                                         *)
(* Time is counted in ticks. Work that is due is done before the next      *)
(* tick, and a running data plane reports within a hold of its last report *)
(* (HOLD of src/src/sync/mod.rs), within two after a failover. The         *)
(* Gateway has one listener that can be programmed; a report says what     *)
(* became of it.                                                           *)
(***************************************************************************)
EXTENDS Integers, FiniteSets, FiniteSetsExt

CONSTANTS
    Instance,    \* data planes
    Hold,        \* HOLD, in ticks
    MaxNow,      \* bound on time
    Histories    \* [service, budget]: the Service in front, and how often what may happen

ASSUME HoldAssumption == Hold \in Nat /\ Hold > 1 /\ MaxNow \in Nat
ASSUME InstanceAssumption == Instance # {}
ASSUME ServiceAssumption == \A h \in Histories : h.service \in {"none", "assigned", "unassigned"}

VARIABLES
    now,
    leadingSince,  \* when this controller became the leader
    slotHub,       \* the hub's slot: version, published_at, first_published_at
    wanted,        \* the configuration the next pass translates to
    fault,         \* "", "rejected" or "problem": what the next pass meets
    front,         \* the Service: "none", "assigned", "unassigned"
    plane,         \* Instance -> data plane: up, version, what it bound, when it reports at the latest
    told,          \* Instance -> its entry of the ReportStore
    lapse,         \* Instance -> its deadline of Lapses
    handling,      \* instances whose request is between the record and the deadline
    asked,         \* a pass is asked for
    recheckAt,     \* when a kept Programmed lapses
    condition,     \* the status written
    course,        \* history: "good" once it was Programmed, "overtaken" once a new leader's
                   \* version came before a data plane spoke, "bad" once something went wrong
    lastUp,        \* history: when a data plane last ran
    chances        \* how often what may still happen

programmedVars == <<now, leadingSince, slotHub, wanted, fault, front, plane, told, lapse, handling,
                    asked, recheckAt, condition, course, lastUp, chances>>
planeVars   == <<plane, course, lastUp>>
storeVars   == <<told, lapse, handling>>
serverVars  == <<leadingSince, slotHub, storeVars>>
outsideVars == <<wanted, fault, front>>

Never == 1000
LIVENESS == 2 * Hold
KEEP == Hold
TAKEOVERKEEP == 2 * Hold

NoVersion == [ver |-> 0, at |-> -Never, first |-> -Never]
NoEntry == [seen |-> -Never, ver |-> 0, bound |-> "", leaving |-> FALSE]
Down == [up |-> FALSE, ver |-> 0, bound |-> "", by |-> Never]
Up(by) == [Down EXCEPT !.up = TRUE, !.by = by]

-----------------------------------------------------------------------------
(* The ReportStore. *)

\* live: seen within LIVENESS, not leaving.
LiveForever(i) == told[i] # NoEntry /\ ~told[i].leaving
Live(i) == told[i] # NoEntry /\ now - told[i].seen < LIVENESS /\ ~told[i].leaving

\* last_leaving
LastLeaving == Max({-Never} \cup {told[i].seen : i \in {i \in Instance : told[i].leaving}})

\* record, and whether the report differs from the last one.
RecordReport(i, r) == [j \in Instance |-> IF j = i THEN r
                                    ELSE IF now - told[j].seen < LIVENESS THEN told[j] ELSE NoEntry]
Differs(i, r) == r # [told[i] EXCEPT !.seen = r.seen]

-----------------------------------------------------------------------------
(* The condition. *)

LiveOnes == {i \in Instance : Live(i)}
AtVersion(slot) == {i \in LiveOnes : told[i].ver = slot.ver}

\* keep_until
KeepUntilEdited(slot) ==
    Max({IF LiveOnes # {} THEN slot.at ELSE -Never, LastLeaving, slot.first}) + KEEP
KeepUntil(slot) ==
    LET edited == Max({IF LiveOnes # {} THEN slot.at ELSE -Never, LastLeaving, slot.first}) + KEEP
        takenOver == IF LiveOnes = {} THEN leadingSince + TAKEOVERKEEP ELSE -Never
    IN  Max({edited, takenOver})

\* evaluate, with instances at the version served: a table that did not
\* build, no address on any pod, a bind that failed on one, none that bound.
Bound(at) ==
    LET says == {told[i].bound : i \in at}
    IN  IF "refused" \in says THEN "Invalid"
        ELSE IF says = {"nowhere"} THEN "AddressNotUsable"
        ELSE IF "error" \in says THEN "Invalid"
        ELSE IF "bound" \in says THEN "Programmed" ELSE "Invalid"

\* ServiceView::unassigned
Unassigned == front = "unassigned"

Cond(why, l, addrs, until) ==
    [written |-> TRUE, why |-> why, listener |-> l, addresses |-> addrs, until |-> until]

\* The Service's addresses, when there is one, stand for the instances'.
Addresses(own) == IF front = "none" THEN own ELSE front = "assigned"

\* What is found wrong with the Gateway outranks the reports.
Outranked(why) == IF fault = "problem" THEN "Invalid" ELSE IF Unassigned THEN "AddressNotAssigned" ELSE why
Overruled == fault = "problem" \/ Unassigned

\* unpublished: what was written of the listener and the addresses stays.
Unpublished == Cond("Invalid", condition.listener, condition.addresses, Never)

\* keep_listener_programmed: the condition written stands, the listener's too.
Kept(until) == Cond(condition.why, condition.listener, Addresses(condition.addresses), until)

\* Without an instance at the version; with no pod at all there is no address.
NoneApplied(until) ==
    Cond(Outranked("Pending"), FALSE, Addresses(condition.addresses /\ (until > now \/ LiveOnes # {})), Never)
FromReports(at) ==
    Cond(Outranked(Bound(at)), Bound(at) = "Programmed",
         Addresses(condition.addresses \/ \E i \in at : told[i].bound # "nowhere"), Never)

\* decide: Programmed, the listener's, the addresses, and until when a kept
\* one stands.
Decide(slot) ==
    IF fault = "rejected" THEN Unpublished
    ELSE IF AtVersion(slot) # {} THEN FromReports(AtVersion(slot))
    ELSE IF KeepUntil(slot) > now /\ ~Overruled /\ condition.written THEN Kept(KeepUntil(slot))
    ELSE NoneApplied(KeepUntil(slot))

\* History: a data plane that this leader has not heard of serves something
\* older than what is published. Its first report may come when a hold is
\* over and is of the older version.
Overtaken == \E i \in Instance : plane[i].up /\ told[i] = NoEntry /\ plane[i].ver \notin {0, wanted}

\* A pass: it publishes what it translated, unless it was rejected, whatever
\* provisioning met, and writes the status.
ConditionPass ==
    LET new  == fault # "rejected" /\ wanted # slotHub.ver
        slot == IF new THEN [ver |-> wanted, at |-> now, first |-> IF slotHub.ver = 0 THEN now ELSE slotHub.first]
                ELSE slotHub
        c    == Decide(slot)
    IN  /\ asked \/ recheckAt <= now
        /\ asked' = FALSE /\ slotHub' = slot /\ condition' = c /\ recheckAt' = c.until
        /\ course' = IF new /\ Overtaken THEN IF course = "good" THEN "overtaken" ELSE "bad"
                     ELSE IF course = "starting" /\ c.why = "Programmed" THEN "good" ELSE course
        /\ plane' = [i \in Instance |-> IF new /\ plane[i].up /\ told[i] # NoEntry
                         THEN [plane[i] EXCEPT !.by = Min({@, now + Hold - 1})] ELSE plane[i]]
        /\ UNCHANGED <<now, leadingSince, outsideVars, storeVars, lastUp, chances>>

-----------------------------------------------------------------------------
(* Data planes, and the handler of their requests. *)

Chance(what) == chances[what] > 0 /\ chances' = [chances EXCEPT ![what] = @ - 1]

\* SyncServer::handle records the report, absent before the first apply.
Reports(i, leaving) ==
    LET p == plane[i]
        r == [seen |-> now, ver |-> p.ver, bound |-> p.bound, leaving |-> leaving]
    IN  /\ p.ver # 0 /\ i \notin handling
        /\ told' = RecordReport(i, r) /\ asked' = (asked \/ Differs(i, r))
        /\ handling' = handling \cup {i}
        /\ UNCHANGED lapse

Report(i) ==
    /\ plane[i].up /\ Reports(i, FALSE)
    /\ plane' = [plane EXCEPT ![i].by = IF plane[i].ver = slotHub.ver THEN now + Hold - 1 ELSE @]
    /\ UNCHANGED <<now, leadingSince, slotHub, outsideVars, recheckAt, condition, course, lastUp, chances>>

\* Lapses::seen, after the record.
Seen(i) ==
    /\ i \in handling /\ handling' = handling \ {i}
    /\ lapse' = [lapse EXCEPT ![i] = now + LIVENESS]
    /\ UNCHANGED <<now, leadingSince, slotHub, outsideVars, planeVars, told, asked, recheckAt, condition, chances>>

\* Lapses::watch
Lapse(i) ==
    /\ lapse[i] <= now /\ lapse' = [lapse EXCEPT ![i] = Never] /\ asked' = TRUE
    /\ UNCHANGED <<now, leadingSince, slotHub, outsideVars, planeVars, told, handling, recheckAt, condition, chances>>

\* A data plane applies what the hub serves.
Apply(i) ==
    /\ plane[i].up /\ slotHub.ver # 0 /\ plane[i].ver # slotHub.ver
    /\ \E how \in {"bound", "error", "nowhere", "refused"} :
          /\ \/ how = "bound" /\ UNCHANGED <<chances, course>>
             \/ how # "bound" /\ Chance("binds") /\ course' = "bad"
          /\ plane' = [plane EXCEPT ![i].ver = slotHub.ver, ![i].bound = how]
    /\ UNCHANGED <<now, serverVars, outsideVars, asked, recheckAt, condition, lastUp>>

\* A rebind.
Rebind(i) ==
    /\ plane[i].up /\ plane[i].bound \in {"error", "nowhere"}
    /\ plane' = [plane EXCEPT ![i].bound = "bound", ![i].by = now]
    /\ UNCHANGED <<now, serverVars, outsideVars, asked, recheckAt, condition, course, lastUp, chances>>

\* SIGTERM: it reports that it leaves; its replacement comes within a hold.
Leave(i) ==
    /\ plane[i].up /\ Chance("leaves") /\ Reports(i, TRUE)
    /\ \E j \in Instance : ~plane[j].up /\ j # i /\ j \notin handling /\
           plane' = [plane EXCEPT ![i] = Down, ![j] = Up(now + Hold - 1)]
    /\ UNCHANGED <<now, leadingSince, slotHub, outsideVars, recheckAt, condition, course, lastUp>>

\* It dies without a word, and may be started again.
Crash(i) ==
    /\ plane[i].up /\ Chance("crashes") /\ plane' = [plane EXCEPT ![i] = Down] /\ course' = "bad"
    /\ UNCHANGED <<now, serverVars, outsideVars, asked, recheckAt, condition, lastUp>>
Start(i) ==
    /\ ~plane[i].up /\ i \notin handling /\ Chance("starts") /\ plane' = [plane EXCEPT ![i] = Up(now + Hold - 1)]
    /\ lastUp' = now
    /\ UNCHANGED <<now, serverVars, outsideVars, asked, recheckAt, condition, course>>

-----------------------------------------------------------------------------
(* The rest of the world. *)

\* A standby becomes the leader: it knows nothing yet, and polls held by
\* the old one may take another hold.
Takeover ==
    /\ Chance("failovers")
    /\ leadingSince' = now /\ slotHub' = NoVersion /\ told' = [i \in Instance |-> NoEntry]
    /\ lapse' = [i \in Instance |-> Never] /\ handling' = {} /\ asked' = TRUE /\ recheckAt' = Never
    /\ plane' = [i \in Instance |-> IF plane[i].up THEN [plane[i] EXCEPT !.by = now + 2 * Hold - 1] ELSE plane[i]]
    /\ UNCHANGED <<now, outsideVars, condition, course, lastUp>>

\* The Gateway or what it refers to is edited.
NewConfig ==
    /\ Chance("edits") /\ wanted' = wanted + 1 /\ asked' = TRUE
    /\ UNCHANGED <<now, serverVars, fault, front, planeVars, recheckAt, condition>>
\* A pass will be rejected or find its data plane not provisioned, or not.
FaultChanges ==
    /\ Chance("faults") /\ \E f \in {"", "rejected", "problem"} : f # fault /\ fault' = f
    /\ asked' = TRUE /\ course' = "bad"
    /\ UNCHANGED <<now, serverVars, wanted, front, plane, lastUp, recheckAt, condition>>
\* The load balancer assigns, or takes back, the Service's address.
FrontChanges ==
    /\ Chance("fronts") /\ front # "none"
    /\ front' = IF front = "assigned" THEN "unassigned" ELSE "assigned"
    /\ asked' = TRUE /\ course' = "bad"
    /\ UNCHANGED <<now, serverVars, wanted, fault, plane, lastUp, recheckAt, condition>>

\* A tick, when nothing is due.
Tick ==
    /\ now < MaxNow /\ now' = now + 1
    /\ ~asked /\ recheckAt > now
    /\ \A i \in Instance : lapse[i] > now /\ plane[i].by > now
    /\ \A i \in handling : told[i].seen = now
    /\ lastUp' = IF \E i \in Instance : plane[i].up THEN now + 1 ELSE lastUp
    /\ UNCHANGED <<serverVars, outsideVars, plane, course, asked, recheckAt, condition, chances>>

\* The data plane there is at first: instances differ in nothing else.
First == CHOOSE i \in Instance : TRUE

ProgrammedInit ==
    /\ now = 0 /\ leadingSince = 0 /\ slotHub = NoVersion /\ wanted = 1 /\ fault = ""
    /\ plane = [i \in Instance |-> IF i = First THEN Up(Hold - 1) ELSE Down]
    /\ told = [i \in Instance |-> NoEntry] /\ lapse = [i \in Instance |-> Never] /\ handling = {}
    /\ asked = TRUE /\ recheckAt = Never
    /\ condition = [written |-> FALSE, why |-> "", listener |-> FALSE, addresses |-> FALSE, until |-> Never]
    /\ course = "starting" /\ lastUp = 0
    /\ \E h \in Histories : front = h.service /\ chances = h.budget

ProgrammedNext ==
    \/ ConditionPass \/ Takeover \/ NewConfig \/ FaultChanges \/ FrontChanges \/ Tick
    \/ \E i \in Instance : Report(i) \/ Seen(i) \/ Lapse(i) \/ Apply(i) \/ Rebind(i) \/ Leave(i) \/ Crash(i) \/ Start(i)

ProgrammedSpec == ProgrammedInit /\ [][ProgrammedNext]_programmedVars

-----------------------------------------------------------------------------
(* Properties. *)

IsProgrammed == condition.why = "Programmed"

\* While data planes come, go in order and report in time, whatever versions
\* are published and whichever controller leads, a Programmed once written
\* stays (keep_until). The one exception is a new leader's version published
\* before a data plane that serves an older one spoke to it: two holds may
\* pass until it does and Programmed is kept for one, so it may be taken back,
\* until the pass after a data plane reported the version (evaluate), and no
\* longer. When the last data plane died it is taken back though nothing says
\* so (Lapses, recheck): within three holds, for a leader's first publication
\* is kept a hold after it and may rest on a report of nearly two holds ago,
\* or within two of a new leader. The listener agrees with it, and a Gateway
\* without pods loses its addresses.
ProgrammedIsHonest ==
    /\ course = "good" => IsProgrammed
    /\ course = "overtaken" /\ ~asked /\ AtVersion(slotHub) # {} => IsProgrammed
    /\ IsProgrammed =>
          /\ condition.listener /\ condition.addresses
          /\ now < lastUp + 3 * Hold \/ now <= leadingSince + 2 * Hold
=============================================================================
