---------------------------- MODULE RouteRefresh ----------------------------
(***************************************************************************)
(* The two writers of a data plane's live route table: the Applier, which  *)
(* builds one from each snapshot (dataplane/apply.rs), and the DNS refresh *)
(* task, which re-resolves the one it finds published (dns_refresh.rs).    *)
(* The cells `routes` and `published` are lock-free and written one after  *)
(* the other; every read and write of a cell is a step.                    *)
(*                                                                         *)
(* A table is the config it is built from, what its backends' names        *)
(* resolved to, and the identity of its Arc, which the compare-and-swaps   *)
(* go by.  A Published pair has a table of its own, and its identity.      *)
(* History: how many DNS changes a table was built after, and which table  *)
(* the Applier stored last.                                                *)
(***************************************************************************)
EXTENDS Naturals

CONSTANTS
    Config,         \* the configs of snapshots
    Unbuildable,    \* those no table can be built from
    Resolution,     \* what DNS can say of the backends
    Nothing,
    MaxTables,      \* tables built
    MaxDnsChanges

ASSUME RefreshAssumption ==
    /\ Unbuildable \subseteq Config
    /\ Nothing \notin Config \cup Resolution
    /\ MaxTables \in Nat /\ MaxDnsChanges \in Nat

VARIABLES
    routes,     \* the live table
    published,  \* the table of the pair the refresh starts from
    last,       \* the config of the last apply
    applier,    \* where the apply stands, and the table it built
    refresher,  \* where the tick stands, the pair it read, the table it built
    applied,    \* history: the config built and stored last
    base,       \* history: the identity of the table the Applier stored last
    tables,     \* table identities given out
    dns,        \* what DNS says now
    changes     \* how often that changed

refreshVars == <<routes, published, last, applier, refresher, applied, base, tables, dns, changes>>

-----------------------------------------------------------------------------
Empty == [id |-> 0, config |-> Nothing, resolved |-> Nothing, at |-> 0]

Table == [id : 1 .. MaxTables, config : Config, resolved : Resolution, at : 0 .. MaxDnsChanges]
Tables == Table \cup {Empty}

IdleApplier == [pc |-> "idle", config |-> Nothing, table |-> Empty]
IdleRefresher == [pc |-> "idle", pair |-> Empty, table |-> Empty]

RefreshTypeOK ==
    /\ {routes, published} \subseteq Tables
    /\ last \in Config \cup {Nothing}
    /\ applier \in [pc : {"idle", "build", "store", "publish", "cleared"},
                    config : Config \cup {Nothing}, table : Tables]
    /\ refresher \in [pc : {"idle", "build", "swap", "publish"},
                      pair : Tables, table : Tables]
    /\ applied \in Config \cup {Nothing}
    /\ base \in 0 .. MaxTables
    /\ tables \in 0 .. MaxTables
    /\ dns \in Resolution
    /\ changes \in 0 .. MaxDnsChanges

RefreshInit ==
    /\ routes = Empty /\ published = Empty
    /\ last = Nothing
    /\ applier = IdleApplier /\ refresher = IdleRefresher
    /\ applied = Nothing /\ base = 0
    /\ tables = 0
    /\ dns \in Resolution /\ changes = 0

\* Backend pods come and go: external.
DnsChanges ==
    /\ changes < MaxDnsChanges /\ changes' = changes + 1
    /\ dns' \in Resolution \ {dns}
    /\ UNCHANGED <<routes, published, last, applier, refresher, applied, base, tables>>

\* A table built now, of its own identity.
Built(config) == [id |-> tables + 1, config |-> config, resolved |-> dns, at |-> changes]

-----------------------------------------------------------------------------
(* The Applier: one apply or clear at a time.                               *)

\* apply: the same config as last time builds nothing, whether its table
\* was built then or not.
ApplyBegin ==
    /\ applier.pc = "idle"
    /\ \E c \in Config :
        /\ last # c
        /\ applier' = [applier EXCEPT !.pc = "build", !.config = c]
    /\ UNCHANGED <<routes, published, last, refresher, applied, base, tables, dns, changes>>

\* build_route_table, on a blocking thread; a failure leaves both cells.
ApplyBuild ==
    /\ applier.pc = "build"
    /\ IF applier.config \in Unbuildable
       THEN /\ last' = applier.config
            /\ applier' = IdleApplier
            /\ UNCHANGED tables
       ELSE /\ tables < MaxTables /\ tables' = tables + 1
            /\ applier' = [applier EXCEPT !.pc = "store", !.table = Built(applier.config)]
            /\ UNCHANGED last
    /\ UNCHANGED <<routes, published, refresher, applied, base, dns, changes>>

ApplyStore ==
    /\ applier.pc = "store"
    /\ routes' = applier.table
    /\ applied' = applier.config /\ base' = applier.table.id
    /\ applier' = [applier EXCEPT !.pc = "publish"]
    /\ UNCHANGED <<published, last, refresher, tables, dns, changes>>

ApplyPublish ==
    /\ applier.pc = "publish"
    /\ published' = applier.table
    /\ last' = applier.config
    /\ applier' = IdleApplier
    /\ UNCHANGED <<routes, refresher, applied, base, tables, dns, changes>>

\* clear: the Gateway is gone.  The empty table is not refreshed.
ClearStore ==
    /\ applier.pc = "idle" /\ last # Nothing
    /\ routes' = Empty
    /\ applied' = Nothing /\ base' = 0
    /\ applier' = [applier EXCEPT !.pc = "cleared"]
    /\ UNCHANGED <<published, last, refresher, tables, dns, changes>>

ClearPublish ==
    /\ applier.pc = "cleared"
    /\ published' = Empty
    /\ last' = Nothing
    /\ applier' = IdleApplier
    /\ UNCHANGED <<routes, refresher, applied, base, tables, dns, changes>>

-----------------------------------------------------------------------------
(* The DNS refresh: a tick.                                                 *)

RefreshRead ==
    /\ refresher.pc = "idle"
    /\ published # Empty
    /\ refresher' = [refresher EXCEPT !.pc = "build", !.pair = published]
    /\ UNCHANGED <<routes, published, last, applier, applied, base, tables, dns, changes>>

\* Re-resolved; dropped when nothing moved since the pair's table.
RefreshBuild ==
    /\ refresher.pc = "build"
    /\ IF dns = refresher.pair.resolved
       THEN refresher' = IdleRefresher /\ UNCHANGED tables
       ELSE /\ tables < MaxTables /\ tables' = tables + 1
            /\ refresher' = [refresher EXCEPT !.pc = "swap",
                                !.table = Built(refresher.pair.config)]
    /\ UNCHANGED <<routes, published, last, applier, applied, base, dns, changes>>

\* A variant that stores without comparing.
RefreshSwapBlindly ==
    /\ refresher.pc = "swap"
    /\ routes' = refresher.table /\ refresher' = [refresher EXCEPT !.pc = "publish"]
    /\ UNCHANGED <<published, last, applier, applied, base, tables, dns, changes>>

\* A variant that compares what the tables are built from.
RefreshSwapSameConfig ==
    /\ refresher.pc = "swap"
    /\ IF routes.config = refresher.pair.config
       THEN routes' = refresher.table /\ refresher' = [refresher EXCEPT !.pc = "publish"]
       ELSE refresher' = IdleRefresher /\ UNCHANGED routes
    /\ UNCHANGED <<published, last, applier, applied, base, tables, dns, changes>>

\* apply_refresh: swapped only for the pair's own table.
RefreshSwap ==
    /\ refresher.pc = "swap"
    /\ IF routes.id = refresher.pair.id
       THEN routes' = refresher.table /\ refresher' = [refresher EXCEPT !.pc = "publish"]
       ELSE refresher' = IdleRefresher /\ UNCHANGED routes
    /\ UNCHANGED <<published, last, applier, applied, base, tables, dns, changes>>

\* Variants that replace whatever is published, and that leave the old pair.
RefreshPublishBlindly ==
    /\ refresher.pc = "publish"
    /\ published' = refresher.table
    /\ refresher' = IdleRefresher
    /\ UNCHANGED <<routes, last, applier, applied, base, tables, dns, changes>>
RefreshPublishNothing ==
    /\ refresher.pc = "publish"
    /\ refresher' = IdleRefresher
    /\ UNCHANGED <<routes, published, last, applier, applied, base, tables, dns, changes>>

\* The next tick starts from the table now live; a pair published since stays.
RefreshPublish ==
    /\ refresher.pc = "publish"
    /\ published' = IF published.id = refresher.pair.id THEN refresher.table ELSE published
    /\ refresher' = IdleRefresher
    /\ UNCHANGED <<routes, last, applier, applied, base, tables, dns, changes>>

-----------------------------------------------------------------------------
Applying == ApplyBuild \/ ApplyStore \/ ApplyPublish \/ ClearPublish
Refreshing == RefreshRead \/ RefreshBuild \/ RefreshSwap \/ RefreshPublish

RefreshNext == DnsChanges \/ ApplyBegin \/ ClearStore \/ Applying \/ Refreshing

\* An apply begun goes on, and the refresh ticks on; nothing obliges the
\* controller to send a snapshot.
RefreshSpec == RefreshInit /\ [][RefreshNext]_refreshVars
RefreshFairness == WF_refreshVars(Applying) /\ WF_refreshVars(Refreshing)

-----------------------------------------------------------------------------
(***************************************************************************)
(* The live table is always built from the config applied last: the DNS    *)
(* refresh, however late, never brings back an earlier one, nor a table    *)
(* after a clear (dns_refresh.rs, "unable to clobber a just-applied config *)
(* change").                                                               *)
(***************************************************************************)
ServesTheApplied == routes.config = applied

(***************************************************************************)
(* Between two writes the pair published is the live table, so the next    *)
(* tick's compare-and-swap can succeed (dns_refresh.rs, apply_refresh and  *)
(* apply.rs, bring_up).                                                    *)
(***************************************************************************)
PublishedIsLive ==
    applier.pc \in {"idle", "build", "store"} /\ refresher.pc # "publish"
        => published = routes

\* What the live table is built from, how it is resolved, and since when.
Promise == INSTANCE ServedConfig
    WITH served <- routes.config, resolved <- routes.resolved, since <- routes.at

(***************************************************************************)
(* The two writers together implement ServedConfig: between two stores of  *)
(* the Applier the live table keeps its config and is only ever replaced   *)
(* by one resolved later, although a refresh may be as slow as it likes    *)
(* and the same config be applied again meanwhile (dns_refresh.rs,         *)
(* apply_refresh: the compare-and-swap goes by the table, not its config). *)
(***************************************************************************)
Implements == Promise!Spec

(***************************************************************************)
(* Once DNS stays, the table served comes to be resolved to what it says,  *)
(* whatever applies and ticks raced before (dns_refresh.rs), as long as    *)
(* the bound on tables does not keep a tick from building one.             *)
(***************************************************************************)
ComesToBeFresh ==
    <>[](tables < MaxTables /\ applier.pc = "idle") =>
        <>[](routes # Empty => routes.resolved = dns)
=============================================================================
