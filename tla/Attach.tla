------------------------------- MODULE Attach -------------------------------
(***************************************************************************)
(* What a Gateway and the routes, policies, Services and grants around it  *)
(* come to: the configuration its data planes are given and the status the *)
(* controller writes (src/src/kubernetes/reconciler/mod.rs, converters.rs, *)
(* reference_grants.rs, parent_ref.rs, services.rs and                     *)
(* src/src/kubernetes/controller/validate.rs). The table is Routing's.     *)
(*                                                                         *)
(* A pass reads the cluster once. Between passes routes are edited or      *)
(* deleted and created again, and the verdicts of the last pass are kept   *)
(* by route uid and generation. "" is an unset name, 0 an unset port, -1   *)
(* an unset weight.                                                        *)
(***************************************************************************)
EXTENDS Integers, FiniteSets, Sequences, SequencesExt, FiniteSetsExt

CONSTANTS
    Clusters,    \* clusters a pass may find
    Respecs,     \* rules an edit may give an HTTPRoute
    MaxEdits     \* bound on edits

VARIABLES
    cluster,     \* gateway, routes, policies, services, grants, labels, certs
    verdicts,    \* uid -> [gen, verdict]: the verdicts of the last pass
    plan,        \* what the last pass came to
    edits        \* edits so far

attachVars == <<cluster, verdicts, plan, edits>>

NoOutcome == [done |-> FALSE]

T == INSTANCE Routing WITH Configs <- {}, Requester <- {}, config <- plan, table <- plan,
                           sick <- plan, turn <- plan, call <- plan

-----------------------------------------------------------------------------
(* Listeners. *)

ListenerIsServed(l) ==
    \/ l.protocol \in {"HTTP", "HTTPS", "TCP", "UDP"}
    \/ l.protocol = "TLS" /\ l.mode = "passthrough"

Family(l) == IF l.protocol = "HTTPS" THEN "TLS" ELSE l.protocol

\* Why two listeners are not distinct; "" when they are.
Clash(a, b) ==
    IF ~(ListenerIsServed(a) /\ ListenerIsServed(b)) \/ a.port # b.port \/ (a.protocol = "UDP") # (b.protocol = "UDP")
    THEN ""
    ELSE IF Family(a) # Family(b) THEN "ProtocolConflict"
    ELSE IF a.protocol \in {"TCP", "UDP"} \/ a.host = b.host THEN "HostnameConflict" ELSE ""

\* listener_conflicts: every listener of a clash loses, and a clash of
\* protocols is the reason given.
ConflictsNone(ls, l) == ""
ConflictOf(ls, l) ==
    LET why == {Clash(l, k) : k \in ToSet(ls) \ {l}}
    IN  IF "ProtocolConflict" \in why THEN "ProtocolConflict"
        ELSE IF "HostnameConflict" \in why THEN "HostnameConflict" ELSE ""

\* convert_listener. A certificateRef without a resolved pair is left out.
ConvertListener(l, certs) ==
    [name |-> l.name, protocol |-> l.protocol, port |-> l.port, host |-> l.host,
     pass |-> l.mode = "passthrough", limit |-> "",
     refs |-> SelectSeq(l.certs, LAMBDA k : k \in DOMAIN certs /\ certs[k].served)]

\* A conflicted listener takes no route; one that is not served admits none.
\* Neither binds.
Undisputed(gw) == SelectSeq(gw.listeners, LAMBDA l : ConflictOf(gw.listeners, l) = "")
ConvertGateway(ls, certs) ==
    LET served == SelectSeq(ls, ListenerIsServed)
    IN  [i \in DOMAIN served |-> ConvertListener(served[i], certs)]

-----------------------------------------------------------------------------
(* RateLimitPolicies. *)

TargetsGateway(p, gw) == p.ns = gw.ns /\ p.target = gw.name /\ p.kind = "Gateway"

Oldest(a, b) == a.created < b.created \/ (a.created = b.created /\ a.rank < b.rank)
OrderedPolicies(c) == SetToSortSeq({p \in c.policies : TargetsGateway(p, c.gateway)}, Oldest)

\* The oldest policy of a listener's section, else the oldest of the Gateway.
Winner(ordered, l) ==
    LET own  == SelectInSeq(ordered, LAMBDA p : p.section = l.name)
        wide == SelectInSeq(ordered, LAMBDA p : p.section = "")
    IN  IF own # 0 THEN ordered[own].name ELSE IF wide # 0 THEN ordered[wide].name ELSE ""

ApplyRateLimitPolicies(ordered, ls) ==
    [i \in DOMAIN ls |-> [ls[i] EXCEPT !.limit = Winner(ordered, ls[i])]]

PolicyStatus(ordered, ls) ==
    [i \in DOMAIN ordered |->
        LET p == ordered[i] IN
        [policy |-> p.name,
         reason |-> IF p.section # "" /\ ~\E l \in ToSet(ls) : l.name = p.section THEN "TargetNotFound"
                    ELSE IF ~\E l \in ToSet(ls) : l.limit = p.name THEN "Conflicted" ELSE "Accepted"]]

-----------------------------------------------------------------------------
(* Services: what the Service specs give for each backend port. *)

DefaultNs(ns, own) == IF ns = "" THEN own ELSE ns
BackendName(svc, ns) == <<svc, ns>>
PortsOf(s) == {<<BackendName(s.name, s.ns), p.port>> : p \in s.ports}

ResolveServices(services) ==
    LET headless == {s \in services : s.cluster = "None"}
        external == {s \in services : s.external # <<>>}
        keys(S)  == UNION {PortsOf(s) : s \in S}
        spec(S, k) == CHOOSE p \in UNION {{[of |-> s, port |-> q] : q \in s.ports} : s \in S} :
                          <<BackendName(p.of.name, p.of.ns), p.port.port>> = k
    IN  [known |-> {BackendName(s.name, s.ns) : s \in services},
         headless |-> [k \in keys(headless) |->
                          LET p == spec(headless, k).port IN IF p.target = 0 THEN p.port ELSE p.target],
         overrides |-> [k \in keys(external) |-> <<<<spec(external, k).of.external, k[2]>>>>]]

\* ReferenceGrants live in the namespace they open.
IsReferenceAllowed(grants, kind, fromNs, toKind, toNs, toName) ==
    \/ fromNs = toNs
    \/ \E g \in grants : /\ g.ns = toNs
                         /\ [kind |-> kind, ns |-> fromNs] \in g.from
                         /\ \E t \in g.to : t.kind = toKind /\ t.name \in {"", toName}

-----------------------------------------------------------------------------
(* Converters. *)

ConvertBackendRef(ref, ns, port) ==
    [name |-> BackendName(ref.svc, DefaultNs(ref.ns, ns)), port |-> IF ref.port = 0 THEN port ELSE ref.port,
     weight |-> IF ref.weight = -1 THEN 1 ELSE ref.weight, core |-> ref.core,
     filters |-> ref.filters, invalid |-> FALSE]

\* A filter type that the proxy does not support, or one without its config.
Representable(f) == f.kind \in {"request", "response", "redirect", "rewrite", "mirror"} /\ f.config
OnBackend(f)     == f.kind \in {"request", "response"} /\ f.config

ConvertMirror(f, ns) ==
    IF f.kind # "mirror" THEN f
    ELSE [f EXCEPT !.ref = ConvertBackendRef([@ EXCEPT !.weight = 1, !.filters = <<>>], ns, 80),
                   !.share = IF @ < 0 THEN 0 ELSE @, !.of = IF @ < 1 THEN 1 ELSE @]

\* The part left out fails the route; every backendRef stays for its check.
ConvertHttpRule(rule, ns) ==
    LET kept      == SelectSeq(rule.filters, Representable)
        filters   == [i \in DOMAIN kept |-> ConvertMirror(kept[i], ns)]
        refs      == IF T!HasFilter(filters, "redirect") THEN <<>> ELSE rule.refs
        convert(r) == [ConvertBackendRef(r, ns, 80) EXCEPT !.filters = SelectSeq(@, OnBackend)]
    IN  [ok |-> /\ kept = rule.filters
                /\ \A i \in DOMAIN refs : SelectSeq(refs[i].filters, OnBackend) = refs[i].filters,
         rule |-> [matches |-> rule.matches, filters |-> filters,
                   refs |-> [i \in DOMAIN refs |-> convert(refs[i])]]]

RouteKinds == {"HTTPRoute", "TCPRoute", "TLSRoute", "UDPRoute"}
DefaultPort == [TCPRoute |-> 80, TLSRoute |-> 443, UDPRoute |-> 0]
Convert(route) ==
    IF route.kind = "HTTPRoute"
    THEN LET rules == [i \in DOMAIN route.rules |-> ConvertHttpRule(route.rules[i], route.ns)]
         IN  [ok |-> \A i \in DOMAIN rules : rules[i].ok,
              config |-> [parents |-> <<>>, hosts |-> route.hosts, of |-> route.uid,
                          rules |-> [i \in DOMAIN rules |-> rules[i].rule]]]
    ELSE [ok |-> TRUE,
          config |-> [parents |-> <<>>, hosts |-> route.hosts, of |-> route.uid,
                      rules |-> [i \in DOMAIN route.rules |->
                          [k \in DOMAIN route.rules[i] |->
                              ConvertBackendRef(route.rules[i][k], route.ns, DefaultPort[route.kind])]]]]

-----------------------------------------------------------------------------
(* Which listeners a parentRef selects, and whether they admit the route. *)

ParentRefMatchesGateway(pr, ns, gw) ==
    pr.name = gw.name /\ pr.kind \in {"", "Gateway"} /\ DefaultNs(pr.ns, ns) = gw.ns
RouteTargetsGateway(route, gw) ==
    \E i \in DOMAIN route.parents : ParentRefMatchesGateway(route.parents[i], route.ns, gw)

Kind == [HTTP |-> "HTTPRoute", HTTPS |-> "HTTPRoute", TLS |-> "TLSRoute", TCP |-> "TCPRoute", UDP |-> "UDPRoute"]

ExpressionHolds(e, labels) ==
    LET has == e.key \in DOMAIN labels
    IN  CASE e.operator = "In"           -> has /\ labels[e.key] \in e.values
          [] e.operator = "NotIn"        -> ~(has /\ labels[e.key] \in e.values)
          [] e.operator = "Exists"       -> has
          [] e.operator = "DoesNotExist" -> ~has
          [] OTHER                       -> FALSE

IsRouteAllowedByListener(l, gw, route, labels) ==
    /\ ListenerIsServed(l) /\ Kind[l.protocol] = route.kind
    /\ l.kinds = {} \/ route.kind \in l.kinds
    /\ CASE l.from = "All"      -> TRUE
         [] l.from = "Same"     -> route.ns = gw.ns
         [] l.from = "Selector" -> /\ route.ns \in DOMAIN labels
                                   /\ \A e \in l.selector : ExpressionHolds(e, labels[route.ns])

HostsMeet(l, hosts) ==
    l.host = T!AnyHost \/ hosts = <<>> \/ \E i \in DOMAIN hosts : T!HostnamesIntersect(l.host, hosts[i])

\* The listeners' names, or the most specific rejection.
ListenersForParentRef(pr, ls, gw, route, labels) ==
    LET chosen  == SelectSeq(ls, LAMBDA l : pr.section \in {"", l.name} /\ pr.port \in {0, l.port})
        meeting == SelectSeq(chosen, LAMBDA l : HostsMeet(l, route.hosts))
        allowed == SelectSeq(meeting, LAMBDA l : IsRouteAllowedByListener(l, gw, route, labels))
    IN  [names |-> [i \in DOMAIN allowed |-> allowed[i].name],
         why   |-> IF allowed # <<>> THEN ""
                   ELSE IF meeting # <<>> THEN "NotAllowedByListeners"
                   ELSE IF chosen # <<>> THEN "NoMatchingListenerHostname" ELSE "NoMatchingParent"]

PortOf(ls, name) == ls[SelectInSeq(ls, LAMBDA l : l.name = name)].port

\* TCP and UDP listeners carry one route: what older ones claimed is taken.
OneRoutePerListener(route) == route.kind \in {"TCPRoute", "UDPRoute"}
LeftOver(found, ls, claimed, route) ==
    LET free == SelectSeq(found.names, LAMBDA n : PortOf(ls, n) \notin claimed)
    IN  IF ~OneRoutePerListener(route) \/ found.why # "" THEN found
        ELSE [names |-> free, why |-> IF free = <<>> THEN "Conflicted" ELSE ""]

PerParent(c, ls, claimed, route) ==
    LET prs == SelectSeq(route.parents, LAMBDA pr : ParentRefMatchesGateway(pr, route.ns, c.gateway))
    IN  [i \in DOMAIN prs |->
            LET found == ListenersForParentRef(prs[i], ls, c.gateway, route, c.labels)
            IN  [ref |-> prs[i], attached |-> found.names, result |-> LeftOver(found, ls, claimed, route)]]

-----------------------------------------------------------------------------
(* collect_routes. *)

\* "" for a ref that resolves.
CheckRefUngranted(c, known, route, ref) ==
    IF ~ref.core THEN "InvalidKind" ELSE IF ref.name \notin known THEN "BackendNotFound" ELSE ""
CheckRef(c, known, route, ref) ==
    IF ~ref.core THEN "InvalidKind"
    ELSE IF ~IsReferenceAllowed(c.grants, route.kind, route.ns, "Service", ref.name[2], ref.name[1]) THEN "RefNotPermitted"
    ELSE IF ref.name \notin known THEN "BackendNotFound" ELSE ""

\* An invalid ref keeps its weight; an invalid mirror goes, and with it
\* every mirror to the same name and port.
CheckedRef(c, known, route, ref) == [ref EXCEPT !.invalid = CheckRef(c, known, route, ref) # ""]
ForwardRefs(route, config) ==
    FlattenSeq([i \in DOMAIN config.rules |->
                   IF route.kind = "HTTPRoute" THEN config.rules[i].refs ELSE config.rules[i]])
MirrorRefs(route, config) ==
    LET filters == FlattenSeq([i \in DOMAIN config.rules |->
                       IF route.kind = "HTTPRoute" THEN config.rules[i].filters ELSE <<>>])
        mirrors == SelectSeq(filters, LAMBDA f : f.kind = "mirror")
    IN  [i \in DOMAIN mirrors |-> mirrors[i].ref]

CheckedConfig(c, known, route, config) ==
    LET bad == {<<r.name, r.port>> : r \in {m \in ToSet(MirrorRefs(route, config)) :
                                               CheckRef(c, known, route, m) # ""}}
        stays(f) == f.kind # "mirror" \/ <<f.ref.name, f.ref.port>> \notin bad
        refs(s)  == [k \in DOMAIN s |-> CheckedRef(c, known, route, s[k])]
    IN  [config EXCEPT !.rules = [i \in DOMAIN config.rules |->
            IF route.kind # "HTTPRoute" THEN refs(config.rules[i])
            ELSE [config.rules[i] EXCEPT !.refs = refs(@), !.filters = SelectSeq(@, stays)]]]

\* The last failing reference names the reason.
RefsReason(c, known, route, config) ==
    LET all == ForwardRefs(route, config) \o MirrorRefs(route, config)
        bad == {i \in DOMAIN all : CheckRef(c, known, route, all[i]) # ""}
    IN  IF bad = {} THEN "ResolvedRefs" ELSE CheckRef(c, known, route, all[Max(bad)])

\* The table build's own check of the route, or the verdict of the last
\* pass while the generation stands.
FreshVerdict(route, config) == IF route.kind = "HTTPRoute" THEN T!RouteVerdict(config) ELSE "Accepted"
VerdictByUid(last, route, config) ==
    IF route.uid \in DOMAIN last THEN last[route.uid].verdict ELSE FreshVerdict(route, config)
Verdict(last, route, config) ==
    IF route.uid \in DOMAIN last /\ last[route.uid].gen = route.gen
    THEN last[route.uid].verdict ELSE FreshVerdict(route, config)

Entry(route, parent, why, refs) ==
    [route |-> route.uid, gen |-> route.gen, section |-> parent.ref.section, port |-> parent.ref.port,
     reason |-> why, refs |-> refs, listeners |-> parent.attached]

\* One route: its status entries and, accepted, its config with one parentRef
\* per listener.
Distinct(names) == SelectSeq([i \in DOMAIN names |-> IF names[i] \in {names[k] : k \in 1 .. i - 1} THEN "" ELSE names[i]],
                             LAMBDA n : n # "")
Admitted(parents) == SelectSeq(parents, LAMBDA p : p.result.why = "")
Entries(route, parents, verdict, refs) ==
    [i \in DOMAIN parents |->
        IF parents[i].result.why = "" THEN Entry(route, parents[i], verdict, refs)
        ELSE Entry(route, parents[i], parents[i].result.why, "ResolvedRefs")]

Judged(c, ls, known, acc, route, config, names, verdict) ==
    IF verdict # "Accepted" THEN acc
    ELSE [acc EXCEPT
            !.configs = Append(@, [CheckedConfig(c, known, route, config) EXCEPT
                                      !.parents = [i \in DOMAIN names |-> [section |-> names[i], port |-> 0]]]),
            !.claimed = IF OneRoutePerListener(route) THEN @ \cup {PortOf(ls, names[i]) : i \in DOMAIN names} ELSE @]

Weighed(c, ls, known, acc, route, parents, names, converted, verdict) ==
    IF names = <<>>
    THEN [acc EXCEPT !.status = @ \o Entries(route, parents, "", "")]
    ELSE Judged(c, ls, known,
                [acc EXCEPT !.status = @ \o Entries(route, parents, verdict, RefsReason(c, known, route, converted.config)),
                            !.now = IF converted.ok THEN @ \cup {<<route.uid, [gen |-> route.gen, verdict |-> verdict]>>} ELSE @],
                route, converted.config, Distinct(names), verdict)

Collect(c, ls, known, acc, route, parents, converted) ==
    Weighed(c, ls, known, acc, route, parents,
            FlattenSeq([i \in DOMAIN Admitted(parents) |-> Admitted(parents)[i].result.names]), converted,
            IF converted.ok THEN Verdict(verdicts, route, converted.config) ELSE "UnsupportedValue")

Collected(c, ls, known, kind) ==
    LET ordered == SetToSortSeq({r \in c.routes : r.kind = kind /\ RouteTargetsGateway(r, c.gateway)}, Oldest)
    IN  FoldLeft(LAMBDA acc, r : Collect(c, ls, known, acc, r, PerParent(c, ls, acc.claimed, r), Convert(r)),
                 [claimed |-> {}, configs |-> <<>>, status |-> <<>>, now |-> {}], ordered)

-----------------------------------------------------------------------------
(* validate_gateway. *)

ListenerStatus(gw, certs, l) ==
    LET conflict == ConflictOf(gw.listeners, l)
        accepted == IF ~ListenerIsServed(l) THEN "UnsupportedProtocol"
                    ELSE IF conflict # "" THEN conflict ELSE "Accepted"
        failing  == SelectSeq(l.certs, LAMBDA k : k \notin DOMAIN certs \/ certs[k].error # "")
        certWhy  == IF failing = <<>> THEN ""
                    ELSE LET k == failing[Len(failing)]
                         IN  IF k \in DOMAIN certs THEN certs[k].error ELSE "InvalidCertificateRef"
        kindsBad == ~(l.kinds \subseteq RouteKinds)
        resolved == IF kindsBad THEN "InvalidRouteKinds"
                    ELSE IF l.mode = "" /\ l.protocol \in {"HTTPS", "TLS"} THEN "InvalidCertificateRef"
                    ELSE IF certWhy # "" THEN certWhy ELSE "ResolvedRefs"
    IN  [name |-> l.name, accepted |-> accepted, conflicted |-> accepted = conflict, resolved |-> resolved,
         kinds |-> IF l.kinds # {} THEN l.kinds \cap RouteKinds
                   ELSE IF l.protocol \in DOMAIN Kind THEN {Kind[l.protocol]} ELSE {},
         programmed |-> accepted = "Accepted" /\ resolved = "ResolvedRefs"]

GatewayAccepted(gw, statuses) ==
    LET rejected == {s \in statuses : s.accepted # "Accepted"}
    IN  IF ~(gw.addresses \subseteq {"IPAddress", "Hostname", "Network"})
        THEN [ok |-> FALSE, reason |-> "UnsupportedAddress"]
        ELSE [ok |-> rejected # statuses \/ statuses = {},
              reason |-> IF rejected # {} THEN "ListenersNotValid" ELSE "Accepted"]

-----------------------------------------------------------------------------
(* A pass. *)

\* Every backend a rule routes or mirrors to; an invalid ref is none.
ReferencedBackends(http, l4) ==
    LET refs == UNION {UNION {ToSet(rule.refs) \cup {f.ref : f \in {g \in ToSet(rule.filters) : g.kind = "mirror"}} :
                                 rule \in ToSet(r.rules)} : r \in ToSet(http)}
                \cup UNION {UNION {ToSet(rule) : rule \in ToSet(r.rules)} : r \in ToSet(l4)}
    IN  {<<r.name, r.port>> : r \in {x \in refs : ~x.invalid}}

Retained(map, referenced) == [k \in DOMAIN map \cap referenced |-> map[k]]

ConfigOf(c, bound, got, services, used) ==
    [strict |-> FALSE, listeners |-> bound, http |-> got["HTTPRoute"].configs, tcp |-> got["TCPRoute"].configs,
     tls |-> got["TLSRoute"].configs, udp |-> got["UDPRoute"].configs,
     overrides |-> Retained(services.overrides, used), headless |-> Retained(services.headless, used), dns |-> c.dns]

Planned(c, services, policies, bound, got, statuses) ==
    /\ verdicts' = [u \in UNION {{p[1] : p \in got[k].now} : k \in RouteKinds} |->
                       (CHOOSE p \in UNION {got[k].now : k \in RouteKinds} : p[1] = u)[2]]
    /\ plan' = [done |-> TRUE,
           config |-> ConfigOf(c, bound, got, services,
                          ReferencedBackends(got["HTTPRoute"].configs, got["TCPRoute"].configs \o
                              got["TLSRoute"].configs \o got["UDPRoute"].configs)),
           routes |-> UNION {ToSet(got[k].status) : k \in RouteKinds},
           policies |-> ToSet(PolicyStatus(policies, bound)), listeners |-> statuses,
           accepted |-> GatewayAccepted(c.gateway, statuses)]

ReconcileToConfig(c, ls, services, policies) ==
    Planned(c, services, policies,
            ApplyRateLimitPolicies(policies, ConvertGateway(ls, c.certs)),
            [k \in RouteKinds |-> Collected(c, ls, services.known, k)],
            {ListenerStatus(c.gateway, c.certs, l) : l \in ToSet(c.gateway.listeners)})

AttachPass ==
    /\ ~plan.done
    /\ ReconcileToConfig(cluster, Undisputed(cluster.gateway), ResolveServices(cluster.services), OrderedPolicies(cluster))
    /\ UNCHANGED <<cluster, edits>>

\* An edit moves the generation; a route created again has a new uid and
\* starts over.
Edited(route, rules) == [route EXCEPT !.rules = rules, !.gen = @ + 1]
Created(route, rules) == [route EXCEPT !.rules = rules, !.gen = 1, !.uid = <<@[1], @[2] + 1>>, !.created = edits + 10]

ChangeRoute ==
    /\ plan.done /\ edits < MaxEdits
    /\ \E r \in cluster.routes, rules \in Respecs : \E new \in {Edited(r, rules), Created(r, rules)} :
           r.kind = "HTTPRoute" /\ cluster' = [cluster EXCEPT !.routes = (@ \ {r}) \cup {new}]
    /\ edits' = edits + 1 /\ plan' = NoOutcome
    /\ UNCHANGED verdicts

\* forget_deleted_gateways, for a Gateway that comes back.
ForgetVerdicts ==
    /\ plan.done /\ verdicts # <<>> /\ edits < MaxEdits
    /\ verdicts' = <<>> /\ plan' = NoOutcome /\ edits' = edits + 1
    /\ UNCHANGED cluster

AttachInit == cluster \in Clusters /\ verdicts = <<>> /\ plan = NoOutcome /\ edits = 0
AttachNext == AttachPass \/ ChangeRoute \/ ForgetVerdicts
AttachSpec == AttachInit /\ [][AttachNext]_attachVars

-----------------------------------------------------------------------------
(* Properties. *)

RouteAt(uid) == CHOOSE r \in cluster.routes : r.uid = uid
AcceptedOn(n) == {e \in plan.routes : e.reason = "Accepted" /\ n \in ToSet(e.listeners)}

\* Every listener of the configuration serves exactly the routes whose
\* status says so: an HTTP or TLS route has entries in the table that
\* Routing builds on a listener just when an accepted parentRef names it; a
\* TCP or UDP port goes to the oldest route accepted on it, and a route that
\* is accepted serves some port (RouteAcceptance, GatewayRoute::check,
\* ONE_ROUTE_PER_LISTENER).
Uids(entries) == {e.route : e \in entries}
OldestOf(uids) == {u \in uids : \A v \in uids : ~Oldest(RouteAt(v), RouteAt(u))}
On(pushes, l) == {e \in pushes : e.at.scope = [port |-> l.port, host |-> l.host]}
GoesTo(conf, routes, ports, l, uids) ==
    /\ (l.port \in DOMAIN ports) <=> (uids # {})
    /\ l.port \in DOMAIN ports => \E i \in DOMAIN routes :
           {routes[i].of} = OldestOf(uids) /\ ports[l.port] = T!Backends(conf, routes[i].rules[1])
ServedAt(conf, t, l, uids) ==
    CASE l.protocol \in {"HTTP", "HTTPS"} -> {conf.http[e.at.route].of : e \in On(t.http, l)} = uids
      [] l.protocol = "TLS" -> /\ {conf.tls[e.at.route].of : e \in On(t.tls, l)} \subseteq uids
                               /\ uids # {} => On(t.tls, l) # {}
      [] l.protocol = "TCP" -> GoesTo(conf, conf.tcp, t.tcp, l, uids)
      [] l.protocol = "UDP" -> GoesTo(conf, conf.udp, t.udp, l, uids)
ServesWhatItReports(conf, t) ==
    /\ \A l \in ToSet(conf.listeners) : ServedAt(conf, t, l, Uids(AcceptedOn(l.name)))
    /\ \A i \in DOMAIN conf.tcp : \E p \in DOMAIN t.tcp : t.tcp[p] = T!Backends(conf, conf.tcp[i].rules[1])

\* The references the configuration acts on are ones the route may make: its
\* own namespace, or one that a grant of the target's namespace opens to it,
\* and no Service data of any other namespace is in it (check_ref,
\* referenced_backends, retain_referenced).
Open(route, name) ==
    route.ns = name[2] \/ \E g \in cluster.grants, to \in {"", name[1]} :
        /\ g.ns = name[2] /\ [kind |-> route.kind, ns |-> route.ns] \in g.from
        /\ [kind |-> "Service", name |-> to] \in g.to
ActsOn(route, config) == {r.name : r \in {x \in ToSet(ForwardRefs(route, config) \o MirrorRefs(route, config)) : ~x.invalid}}
StaysWithinGrants(routes, keys) ==
    /\ \A r \in routes : \A name \in ActsOn(RouteAt(r.of), r) : Open(RouteAt(r.of), name)
    /\ \A k \in keys : \E r \in routes : Open(RouteAt(r.of), k[1])

\* The status of a pass is that of the cluster it read: what it reports of
\* a route, and what it configures, are those of the route's current spec,
\* whatever verdict an earlier pass left (RouteVerdicts, Checks); a listener
\* is limited by a policy that is accepted, and every accepted policy limits
\* one; a listener that lost to a conflict is in no configuration.
PlanIsCurrent ==
    plan.done =>
        /\ \A e \in plan.routes :
              LET r == RouteAt(e.route)
              IN  /\ r.gen = e.gen
                  /\ e.reason = "Accepted" =>
                        Convert(r).ok /\ FreshVerdict(r, Convert(r).config) = "Accepted"
        /\ {l.limit : l \in ToSet(plan.config.listeners)} \ {""}
              = {p.policy : p \in {q \in plan.policies : q.reason = "Accepted"}}
        /\ \A s \in plan.listeners :
              (s.accepted = "Accepted") <=> \E l \in ToSet(plan.config.listeners) : l.name = s.name
        /\ ServesWhatItReports(plan.config, T!TableOf(plan.config, 1))
        /\ StaysWithinGrants(ToSet(plan.config.http \o plan.config.tcp \o plan.config.tls \o plan.config.udp),
                             DOMAIN plan.config.overrides \cup DOMAIN plan.config.headless)
=============================================================================
