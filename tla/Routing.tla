------------------------------- MODULE Routing -------------------------------
(***************************************************************************)
(* How a request finds its backend: the check that accepts a route         *)
(* (src/src/config/compile.rs), the route table built from a configuration *)
(* (src/src/config/core.rs, src/src/routing/build.rs), the search for the  *)
(* rule that takes a request, and the weighted choice among its backends   *)
(* while their health changes (src/src/routing/mod.rs,                     *)
(* src/src/proxy/request_processor.rs).                                    *)
(*                                                                         *)
(* A hostname is its labels, top level last, and whether it is a wildcard; *)
(* a path is its segments. A choice reads the health of the backends one   *)
(* at a time, up to three times over, and the registry changes between     *)
(* any two reads. Tables are swapped as configurations and addresses come; *)
(* a request keeps the one it loaded.                                      *)
(***************************************************************************)
EXTENDS Integers, FiniteSets, Sequences, SequencesExt, FiniteSetsExt

CONSTANTS
    Configs,   \* configurations, each with its callers, the requests they send, the
               \* addresses that change health, a bound on the picks of a rule,
               \* and the ones that may come after it
    Requester  \* requests served at a time

VARIABLES
    config,    \* the configuration of the table served
    table,     \* the route table, NoTable while there is none; gen counts them
    sick,      \* the addresses the health registry holds ejected
    turn,      \* round robin positions, by route
    call       \* Requester -> the request in progress, or the last one

routingVars == <<config, table, sick, turn, call>>

NoTable == [built |-> FALSE, gen |-> 0]
NoCall  == [at |-> "idle"]

-----------------------------------------------------------------------------
(* Hostnames. *)

AnyHost    == [wild |-> TRUE, labels |-> <<>>]
Exact(ls)  == [wild |-> FALSE, labels |-> ls]
Under(ls)  == [wild |-> TRUE, labels |-> ls]

WildcardCovers(parent, ls) == Len(ls) > Len(parent) /\ IsSuffix(parent, ls)

HostnamesIntersect(a, b) ==
    LET Written(h) == IF h.wild THEN <<"*">> \o h.labels ELSE h.labels
    IN  \/ a = b
        \/ a.wild /\ WildcardCovers(a.labels, Written(b))
        \/ b.wild /\ WildcardCovers(b.labels, Written(a))

MoreSpecific(lh, rh) ==
    IF rh.wild /\ ~lh.wild THEN lh
    ELSE IF lh.wild /\ ~rh.wild THEN rh
    ELSE IF Len(rh.labels) >= Len(lh.labels) THEN rh ELSE lh

IntersectHostnames(lh, hosts) ==
    IF lh = AnyHost THEN hosts
    ELSE LET within == SelectSeq(hosts, LAMBDA rh : HostnamesIntersect(lh, rh))
         IN  [i \in DOMAIN within |-> MoreSpecific(lh, within[i])]

EffectiveHosts(lh, hosts) == IF hosts = <<>> THEN <<lh>> ELSE IntersectHostnames(lh, hosts)

\* Exact above every wildcard, a longer wildcard above a shorter, a
\* catch-all last; -1 for a host that the pattern does not cover.
Priority(h, ls) ==
    IF h = AnyHost THEN 0
    ELSE IF h.wild THEN IF WildcardCovers(h.labels, ls) THEN Len(h.labels) ELSE -1
    ELSE IF h.labels = ls THEN 1000 ELSE -1

\* The entries a lookup tries, in its order.
Tried(ls) ==
    IF ls = <<>> THEN <<AnyHost>>
    ELSE <<Exact(ls)>> \o [i \in 1 .. Len(ls) - 1 |-> Under(SubSeq(ls, i + 1, Len(ls)))] \o <<AnyHost>>

-----------------------------------------------------------------------------
(* compile_http_route: what makes a route one that is served. *)

HasFilter(filters, kind) == \E i \in DOMAIN filters : filters[i].kind = kind
Redirects(rule) == HasFilter(rule.filters, "redirect")

Repeats(filters) ==
    \E j \in DOMAIN filters : \E i \in 1 .. j - 1 :
        filters[i].kind = filters[j].kind /\ filters[j].kind # "mirror"

\* Each of two filters fine alone may write a Host line.
TwoHosts(filters) ==
    /\ \E i \in DOMAIN filters : filters[i].kind = "rewrite" /\ filters[i].host
    /\ \E i \in DOMAIN filters : filters[i].kind = "request" /\ filters[i].host

BadCombination(filters) ==
    \/ Repeats(filters)
    \/ HasFilter(filters, "redirect") /\ HasFilter(filters, "rewrite")
    \/ TwoHosts(filters)

BadPrefixReplacement(rule) ==
    /\ \E i \in DOMAIN rule.filters : rule.filters[i].prefix
    /\ \E i \in DOMAIN rule.matches : rule.matches[i].kind # "prefix"

ForwardsTo(rule) == IF Redirects(rule) THEN <<>> ELSE rule.refs

RefVerdict(ref) ==
    IF Repeats(ref.filters) THEN "IncompatibleFilters"
    ELSE IF \E i \in DOMAIN ref.filters :
                ~ref.filters[i].ok \/ ref.filters[i].kind \notin {"request", "response"}
    THEN "UnsupportedValue" ELSE "Accepted"

BadMirror(f) == f.kind = "mirror" /\ (f.of = 0 \/ f.share > f.of)

FirstFault(verdicts) ==
    LET i == SelectInSeq(verdicts, LAMBDA v : v # "Accepted")
    IN  IF i = 0 THEN "Accepted" ELSE verdicts[i]

RuleVerdict(rule) ==
    IF BadCombination(rule.filters) \/ BadPrefixReplacement(rule) THEN "IncompatibleFilters"
    ELSE FirstFault(
        [i \in DOMAIN ForwardsTo(rule) |-> RefVerdict(rule.refs[i])]
        \o [i \in DOMAIN rule.matches |-> IF rule.matches[i].ok THEN "Accepted" ELSE "UnsupportedValue"]
        \o [i \in DOMAIN rule.filters |->
               IF rule.filters[i].ok /\ ~BadMirror(rule.filters[i]) THEN "Accepted" ELSE "UnsupportedValue"])

RouteVerdict(route) == FirstFault([i \in DOMAIN route.rules |-> RuleVerdict(route.rules[i])])

AnyMatch == [method |-> "any", kind |-> "prefix", path |-> <<>>, regex |-> {}, len |-> 0,
             headers |-> {}, params |-> {}, ok |-> TRUE]

\* "/abc/" matches as "/abc"; the root is the empty prefix.
TrimmedPrefix(path) ==
    LET kept == {i \in DOMAIN path : path[i] # ""} IN SubSeq(path, 1, Max(kept \cup {0}))

CompileMatch(match) ==
    IF match.kind = "prefix"
    THEN [match EXCEPT !.path = TrimmedPrefix(match.path), !.len = Len(TrimmedPrefix(match.path))]
    ELSE IF match.kind = "exact" THEN [match EXCEPT !.len = Len(match.path)] ELSE match

CompiledMatches(rule) ==
    IF rule.matches = <<>> THEN <<AnyMatch>>
    ELSE [i \in DOMAIN rule.matches |-> CompileMatch(rule.matches[i])]

-----------------------------------------------------------------------------
(* Backends: every address of every valid ref, a stand-in for an invalid one. *)

ServiceTargets(c, ref) == IF <<ref.name, ref.port>> \in DOMAIN c.overrides
                          THEN c.overrides[<<ref.name, ref.port>>] ELSE <<>>
ConnectPort(c, ref) == IF <<ref.name, ref.port>> \in DOMAIN c.headless
                       THEN c.headless[<<ref.name, ref.port>>] ELSE ref.port
Addrs(c, key) == IF key \in DOMAIN c.dns THEN c.dns[key] ELSE <<>>

\* The names looked up for a ref.
Lookups(c, ref) ==
    IF ref.invalid THEN {}
    ELSE IF ServiceTargets(c, ref) # <<>> THEN ToSet(ServiceTargets(c, ref))
    ELSE {<<ref.name, ConnectPort(c, ref)>>}

\* One of an address set, whatever its order: a hash of the process picks.
OneTarget(addrs) == IF addrs = <<>> THEN <<>> ELSE <<Max(ToSet(addrs))>>

Endpoints(c, ref) ==
    LET targets == ServiceTargets(c, ref)
    IN  IF targets # <<>>
        THEN FlattenSeq([i \in DOMAIN targets |-> OneTarget(Addrs(c, targets[i]))])
        ELSE Addrs(c, <<ref.name, ConnectPort(c, ref)>>)

BackendsOf(c, ref) ==
    IF ref.invalid THEN <<[addr |-> 0, weight |-> ref.weight, action |-> "reject"]>>
    ELSE LET found == Endpoints(c, ref)
         IN  [i \in DOMAIN found |-> [addr |-> found[i], weight |-> ref.weight, action |-> "forward"]]

Backends(c, refs) == FlattenSeq([i \in DOMAIN refs |-> BackendsOf(c, refs[i])])

\* The mirrors of a rule that have an address: the smallest.
Mirrors(c, rule) ==
    {Min(ToSet(Endpoints(c, rule.filters[i].ref))) :
        i \in {i \in DOMAIN rule.filters :
                   /\ rule.filters[i].kind = "mirror"
                   /\ ~rule.filters[i].ref.invalid
                   /\ Endpoints(c, rule.filters[i].ref) # <<>>}}

-----------------------------------------------------------------------------
(* The table. *)

\* The listeners that take a kind of route.
TakesHttpRoutes(c) == {l \in ToSet(c.listeners) : l.protocol \in {"HTTP", "HTTPS"}}
TakesTlsRoutes(c)  == {l \in ToSet(c.listeners) : l.protocol = "TLS" /\ l.pass}
TakesTcpRoutes(c)  == {l \in ToSet(c.listeners) : l.protocol \in {"TCP", "TLS"}}
TakesUdpRoutes(c)  == {l \in ToSet(c.listeners) : l.protocol = "UDP"}

Selects(ref, l) == ref.section \in {"any", l.name} /\ ref.port \in {0, l.port}

\* The listeners a route's parentRefs name.
ListenersFor(takes, route) ==
    {l \in takes : \E i \in DOMAIN route.parents : Selects(route.parents[i], l)}

\* Where a route lands: its listeners, or the scope that ports share.
ScopesFor(takes, route) ==
    IF route.parents = <<>> THEN {[port |-> 0, host |-> AnyHost]}
    ELSE {[port |-> l.port, host |-> l.host] : l \in ListenersFor(takes, route)}

\* A hostname that a route serves in a scope.
Attachments(takes, routes) ==
    UNION {UNION {{[route |-> n, scope |-> s, host |-> h] :
                      h \in ToSet(EffectiveHosts(s.host, routes[n].hosts))} :
                  s \in ScopesFor(takes, routes[n])} : n \in DOMAIN routes}

TableRules(c, route) ==
    UNION {LET rule == route.rules[k]
           IN  {[place |-> <<k, i>>, match |-> CompiledMatches(rule)[i], redirects |-> Redirects(rule),
                 mirrors |-> Mirrors(c, rule), backends |-> Backends(c, ForwardsTo(rule))] :
                   i \in DOMAIN CompiledMatches(rule)} : k \in DOMAIN route.rules}

Pushes(c) ==
    UNION {{[at |-> a, rule |-> rule] : rule \in TableRules(c, c.http[a.route])} :
           a \in {b \in Attachments(TakesHttpRoutes(c), c.http) :
                     RouteVerdict(c.http[b.route]) = "Accepted"}}

\* match_precedence, as a key: smaller first.
PathRank == [exact |-> 0, regex |-> 1, prefix |-> 2]
Precedence(rule) ==
    <<PathRank[rule.match.kind], -rule.match.len, IF rule.match.method = "any" THEN 1 ELSE 0,
      -Cardinality(rule.match.headers), -Cardinality(rule.match.params)>>
Before(a, b) == \E i \in DOMAIN a : a[i] < b[i] /\ \A j \in 1 .. i - 1 : a[j] = b[j]

\* The order of a host entry: sorted by precedence, and the sort is stable.
SortKey(e) == Precedence(e.rule) \o <<e.at.route>> \o e.rule.place
FirstRule(entries) == CHOOSE e \in entries : \A f \in entries : ~Before(SortKey(f), SortKey(e))

\* The first route of a port serves it, and only its first rule.
L4Routes(c, takes, routes) ==
    LET on(p) == {n \in DOMAIN routes : /\ routes[n].rules # <<>>
                                        /\ \E l \in ListenersFor(takes, routes[n]) : l.port = p}
    IN  [p \in {l.port : l \in {k \in ToSet(c.listeners) : on(k.port) # {}}} |->
            Backends(c, routes[Min(on(p))].rules[1])]

\* A hostname of a TLS listener belongs to the first rule registered for it.
TlsPushes(c) ==
    LET all == {a \in Attachments(TakesTlsRoutes(c), c.tls) : c.tls[a.route].rules # <<>>}
    IN  {[at |-> a, backends |-> Backends(c, c.tls[a.route].rules[1])] :
            a \in {b \in all : \A o \in all : o.scope = b.scope /\ o.host = b.host => b.route <= o.route}}

\* A lookup that fails, or a route that is refused, fails a strict build.
BuildFails(c) ==
    LET l4(takes, routes) ==
            UNION {ToSet(routes[n].rules[1]) : n \in {n \in DOMAIN routes :
                      routes[n].rules # <<>> /\ ListenersFor(takes, routes[n]) # {}}}
        tls    == UNION {UNION {ToSet(rule) : rule \in ToSet(c.tls[a.route].rules)} :
                            a \in Attachments(TakesTlsRoutes(c), c.tls)}
        http   == UNION {ToSet(c.http[n].rules) : n \in DOMAIN c.http}
        mirror == {f.ref : f \in {g \in UNION {ToSet(r.filters) : r \in http} : g.kind = "mirror"}}
        looked == UNION {ToSet(ForwardsTo(r)) : r \in http} \cup mirror \cup tls
                  \cup l4(TakesTcpRoutes(c), c.tcp) \cup l4(TakesUdpRoutes(c), c.udp)
    IN  /\ c.strict
        /\ \/ \E n \in DOMAIN c.http : RouteVerdict(c.http[n]) # "Accepted"
           \/ \E ref \in looked : \E key \in Lookups(c, ref) : Addrs(c, key) = <<>>

TableOf(c, n) ==
    [built |-> TRUE, gen |-> n, http |-> Pushes(c), tls |-> TlsPushes(c),
     takes |-> {l.port : l \in TakesHttpRoutes(c)},
     tcp   |-> L4Routes(c, TakesTcpRoutes(c), c.tcp), udp |-> L4Routes(c, TakesUdpRoutes(c), c.udp)]

\* A table is built and stored whatever requests are under way: the first,
\* then that of the next configuration, or of the same one with other
\* addresses. A build that fails leaves the table served. The rotations of
\* rules go with the table they are of; those of ports and names stay.
InUse(key) == \E r \in Requester : "key" \in DOMAIN call[r] /\ call[r].key = key
Offered == IF table.built THEN config.next ELSE {config}
BuildRouteTable(c) ==
    /\ ~BuildFails(c)
    /\ table' = TableOf(c, table.gen + 1)
    /\ config' = c
    /\ turn' = Restrict(turn, {key \in DOMAIN turn : key[1] # "http" \/ InUse(key)})
    /\ UNCHANGED <<sick, call>>

-----------------------------------------------------------------------------
(* The rule that takes a request. *)

\* The first line, or query pair, of a name is the one read.
FirstValue(pairs, name) ==
    LET i == SelectInSeq(pairs, LAMBDA p : p[1] = name) IN IF i = 0 THEN "none" ELSE pairs[i][2]

PathMatches(match, path) ==
    CASE match.kind = "exact"  -> path = match.path
      [] match.kind = "regex"  -> path \in match.regex
      [] match.kind = "prefix" -> IsPrefix(match.path, path)

RuleMatches(match, req) ==
    /\ match.method \in {"any", req.method}
    /\ PathMatches(match, req.path)
    /\ \A h \in match.headers : FirstValue(req.headers, h[1]) = h[2]
    /\ \A q \in match.params : FirstValue(req.params, q[1]) = q[2]

\* An entry none of whose rules match falls through to the next hostname
\* that covers the request's.
FallsThroughNever(entries, req) == entries # {}
FallsThrough(entries, req) == \E e \in entries : RuleMatches(e.rule.match, req)

LookupHttpRoute(t, scope, req) ==
    LET entry(h) == {e \in t.http : e.at.scope = scope /\ e.at.host = h}
        tried    == Tried(req.host)
        i        == SelectInSeq(tried, LAMBDA h : FallsThrough(entry(h), req))
        matching == IF i = 0 THEN {} ELSE {e \in entry(tried[i]) : RuleMatches(e.rule.match, req)}
    IN  IF matching = {} THEN {} ELSE {FirstRule(matching)}

\* outranks: hostname, match, then the earlier route.
Outranks(a, b, req) ==
    LET key(e) == <<-Priority(e.at.host, req.host)>> \o Precedence(e.rule) \o <<e.at.route>>
    IN  Before(key(a), key(b))

\* Only the scopes of the best matching listener hostname are searched: the
\* port's own, and the shared one if the port takes it. At most one entry.
FindHttpRoute(t, req) ==
    LET scopes  == {e.at.scope : e \in {f \in t.http :
                       f.at.scope.port = req.port \/ (f.at.scope.port = 0 /\ req.port \in t.takes)}}
        matched == {s \in scopes : Priority(s.host, req.host) >= 0}
        highest == {s \in matched : \A o \in matched : Priority(o.host, req.host) <= Priority(s.host, req.host)}
        found   == UNION {LookupHttpRoute(t, s, req) : s \in highest}
    IN  {e \in found : ~\E f \in found : Outranks(f, e, req)}

\* tls_route: the listener that the SNI selected before the shared scope.
TlsRoute(t, req) ==
    LET at(h, s) == {e \in t.tls : e.at.scope = s /\ e.at.host = h}
        names == Tried(req.host)
        own(i)    == at(names[i], [port |-> req.port, host |-> req.listener])
        shared(i) == at(names[i], [port |-> 0, host |-> AnyHost])
        held  == {i \in DOMAIN names : own(i) \cup shared(i) # {}}
    IN  IF held = {} THEN {}
        ELSE IF own(Min(held)) # {} THEN own(Min(held)) ELSE shared(Min(held))

-----------------------------------------------------------------------------
(* The backend that gets it: weighted round robin over the healthy ones. *)

TotalWeight(list) == FoldLeft(LAMBDA sum, b : sum + b.weight, 0, list)
WeightUpTo(list, n) == TotalWeight(SubSeq(list, 1, n))
SlotOwner(list, slot) == Min({i \in DOMAIN list : WeightUpTo(list, i) > slot})

Turn(key) == IF key \in DOMAIN turn THEN turn[key] ELSE 0
Healthy(b) == b.weight > 0 /\ b.addr \notin sick

\* The forwarding picks made before this one: Reject entries take their
\* slots out of the rotation.
ForwardPickAny(list, count) == count
ForwardPick(list, count) ==
    LET total    == TotalWeight(list)
        slot     == count % total
        rejects  == {i \in DOMAIN list : list[i].action = "reject"}
        weigh(S) == MapThenSumSet(LAMBDA i : list[i].weight, S)
    IN  (count \div total) * (total - weigh(rejects))
            + slot - weigh({i \in rejects : WeightUpTo(list, i) <= slot})

\* What the chosen backend gives: a Reject entry's share fails.
Picked(c, i) ==
    [c EXCEPT !.at = "picked", !.index = i,
              !.answer = IF c.list[i].action = "forward" THEN "forward"
                         ELSE IF c.req.kind = "http" THEN "500" ELSE "close"]

\* A request keeps the table it loaded: under is its configuration.
Replied(req, entry, under, what) ==
    [at |-> "done", req |-> req, entry |-> entry, under |-> under, answer |-> what]
Choosing(req, entry, list, key) ==
    [at |-> "sum", req |-> req, entry |-> entry, under |-> config, list |-> list, key |-> key,
     next |-> 1, sum |-> 0, count |-> 0, index |-> 0, flipped |-> FALSE, answer |-> "none"]

\* analyze_http_request up to the choice of a backend. A rule's rotation is
\* of its table; a port's outlives the tables.
AnalyzeHttp(r, req) ==
    LET found == FindHttpRoute(table, req)
        entry == CHOOSE e \in found : TRUE
        list  == entry.rule.backends
    IN  /\ req.kind = "http"
        /\ call' = [call EXCEPT ![r] =
               IF found = {} THEN Replied(req, found, config, "404")
               ELSE IF entry.rule.redirects THEN Replied(req, found, config, "redirect")
               ELSE IF list = <<>> THEN Replied(req, found, config, "500")
               ELSE IF Len(list) = 1
               THEN Replied(req, found, config, IF list[1].weight = 0 THEN "503"
                                        ELSE IF list[1].action = "reject" THEN "500" ELSE "forward")
               ELSE Choosing(req, found, list, <<"http", table.gen, entry.at, entry.rule.place>>)]

\* analyze_l4_request, and resolve_tls_passthrough with the TCP route of the
\* port behind it.
AnalyzeL4(r, req) ==
    LET found == IF req.kind = "tls" THEN TlsRoute(table, req) ELSE {}
        entry == CHOOSE e \in found : TRUE
        ports == IF req.kind = "udp" THEN table.udp ELSE table.tcp
        list  == IF found # {} THEN entry.backends ELSE ports[req.port]
        key   == IF found # {} THEN <<"tls", entry.at, <<>>>> ELSE <<"l4", req.port>>
    IN  /\ req.kind # "http"
        /\ call' = [call EXCEPT ![r] =
               IF found = {} /\ req.port \notin DOMAIN ports THEN Replied(req, found, config, "close")
               ELSE IF list = <<>> THEN Replied(req, found, config, "close")
               ELSE Choosing(req, found, list, key)]

Ask(r) ==
    /\ table.built /\ call[r].at = "idle" /\ r \in config.callers
    /\ \E req \in config.asks : AnalyzeHttp(r, req) \/ AnalyzeL4(r, req)
    /\ UNCHANGED <<config, table, sick, turn>>

\* The healthy weight, one read of the registry per backend.
SumHealth(r) ==
    LET c == call[r]
    IN  /\ c.at = "sum" /\ c.next <= Len(c.list)
        /\ call' = [call EXCEPT ![r].next = @ + 1,
                                ![r].sum = @ + IF Healthy(c.list[c.next]) THEN c.list[c.next].weight ELSE 0]
        /\ UNCHANGED <<config, table, sick, turn>>

NoWeight(r) ==
    /\ call[r].at = "sum" /\ call[r].next > Len(call[r].list) /\ TotalWeight(call[r].list) = 0
    /\ call' = [call EXCEPT ![r] = Replied(@.req, @.entry, @.under, IF @.req.kind = "http" THEN "503" ELSE "close")]
    /\ UNCHANGED <<config, table, sick, turn>>

\* With all of it healthy, or none, the slot's owner; else a second look.
TakeTurn(r) ==
    LET c     == call[r]
        total == TotalWeight(c.list)
        count == Turn(c.key)
    IN  /\ c.at = "sum" /\ c.next > Len(c.list) /\ total > 0 /\ count < config.turns
        /\ turn' = [k \in DOMAIN turn \cup {c.key} |-> IF k = c.key THEN count + 1 ELSE turn[k]]
        /\ call' = [call EXCEPT ![r] =
               LET i == SlotOwner(c.list, count % total)
               IN  IF c.sum \in {0, total}
                   THEN Picked([c EXCEPT !.count = count], i)
                   ELSE [c EXCEPT !.at = "scan", !.count = count, !.next = 1, !.sum = 0, !.index = i]]
        /\ UNCHANGED <<config, table, sick>>

\* select_degraded sums the healthy forwarding weight again ...
ScanHealth(r) ==
    LET c == call[r]
        b == c.list[c.next]
    IN  /\ c.at = "scan" /\ c.next <= Len(c.list)
        /\ call' = [call EXCEPT ![r].next = @ + 1,
               ![r].sum = @ + IF b.action = "forward" /\ Healthy(b) THEN b.weight ELSE 0]
        /\ UNCHANGED <<config, table, sick, turn>>

\* ... leaves a Reject entry its slots, and every slot when nothing is healthy ...
Degraded(r) ==
    LET c == call[r]
    IN  /\ c.at = "scan" /\ c.next > Len(c.list)
        /\ call' = [call EXCEPT ![r] =
               IF c.list[c.index].action = "reject" \/ c.sum = 0 THEN Picked(c, c.index)
               ELSE [c EXCEPT !.at = "walk", !.next = 1, !.sum = ForwardPick(c.list, c.count) % c.sum]]
        /\ UNCHANGED <<config, table, sick, turn>>

\* ... and walks to the healthy backend that owns the slot, or stays with
\* the owner if health changed under it.
Walk(r) ==
    LET c == call[r]
        b == c.list[c.next]
        counts == b.action = "forward" /\ Healthy(b)
    IN  /\ c.at = "walk"
        /\ call' = [call EXCEPT ![r] =
               IF c.next > Len(c.list) THEN Picked(c, c.index)
               ELSE IF counts /\ b.weight > c.sum THEN Picked(c, c.next)
               ELSE [c EXCEPT !.next = @ + 1, !.sum = IF counts THEN @ - b.weight ELSE @]]
        /\ UNCHANGED <<config, table, sick, turn>>

\* The request is answered, and the next may come.
Answered(r) ==
    /\ call[r].at \in {"done", "picked"}
    /\ call' = [call EXCEPT ![r] = NoCall]
    /\ UNCHANGED <<config, table, sick, turn>>

\* The registry ejects an address or takes it back.
Flip(a) ==
    /\ table.built
    /\ sick' = IF a \in sick THEN sick \ {a} ELSE sick \cup {a}
    /\ call' = [r \in Requester |-> IF "flipped" \in DOMAIN call[r]
                                    THEN [call[r] EXCEPT !.flipped = TRUE] ELSE call[r]]
    /\ UNCHANGED <<config, table, turn>>

RoutingInit ==
    /\ config \in Configs
    /\ table = NoTable /\ sick = {} /\ turn = <<>>
    /\ call = [r \in Requester |-> NoCall]

RoutingNext ==
    \/ \E c \in Offered : BuildRouteTable(c)
    \/ \E r \in Requester : Ask(r) \/ SumHealth(r) \/ NoWeight(r) \/ TakeTurn(r)
                            \/ ScanHealth(r) \/ Degraded(r) \/ Walk(r) \/ Answered(r)
    \/ \E a \in config.flips : Flip(a)

RoutingSpec == RoutingInit /\ [][RoutingNext]_routingVars

-----------------------------------------------------------------------------
(* Properties. *)

\* The rules that could take an HTTP request, on the listener that is the
\* most specific of those with a route: one key orders them all.
Offers(c, req) ==
    LET shares == \E l \in TakesHttpRoutes(c) : l.port = req.port
        rank(a) == Priority(a.scope.host, req.host)
        on == {a \in Attachments(TakesHttpRoutes(c), c.http) :
                  /\ RouteVerdict(c.http[a.route]) = "Accepted" /\ c.http[a.route].rules # <<>>
                  /\ a.scope.port = req.port \/ (a.scope.port = 0 /\ shares)
                  /\ rank(a) >= 0}
        isolated == {a \in on : (\A b \in on : rank(b) <= rank(a)) /\ Priority(a.host, req.host) >= 0}
    IN  UNION {{[route |-> a.route, rule |-> rule,
                 key |-> <<-Priority(a.host, req.host)>> \o Precedence(rule) \o <<a.route>> \o rule.place] :
                   rule \in {x \in TableRules(c, c.http[a.route]) : RuleMatches(x.match, req)}} :
               a \in isolated}

TlsOffers(c, req) ==
    {[route |-> a.route, key |-> <<-Priority(a.host, req.host), IF a.scope.port = 0 THEN 1 ELSE 0, a.route>>] :
        a \in {b \in Attachments(TakesTlsRoutes(c), c.tls) :
                  /\ c.tls[b.route].rules # <<>> /\ Priority(b.host, req.host) >= 0
                  /\ b.scope.port = 0 \/ b.scope = [port |-> req.port, host |-> req.listener]}}

FirstOf(offers) == {o.route : o \in {p \in offers : \A q \in offers : ~Before(q.key, p.key)}}
RuleOf(offers)  == {o.rule : o \in {p \in offers : \A q \in offers : ~Before(q.key, p.key)}}

\* A request goes to the rule that outranks every other that could take it:
\* by listener, hostname, match, then age, in the configuration of the table
\* it loaded. The table reaches it through sorted entries, a fallback from
\* hostname to hostname and a comparison of two scopes; a TLS connection's
\* SNI likewise.
RouteIsBest ==
    \A r \in Requester : call[r].at # "idle" =>
        LET req == call[r].req
            entry == call[r].entry
            c == call[r].under
        IN  /\ req.kind = "http" =>
                 /\ {e.at.route : e \in entry} = FirstOf(Offers(c, req))
                 /\ {e.rule : e \in entry} = RuleOf(Offers(c, req))
            /\ req.kind = "tls" => {e.at.route : e \in entry} = FirstOf(TlsOffers(c, req))

\* What the rotation gives with the health it saw.
Expanded(list, S) ==
    FlattenSeq([i \in DOMAIN list |-> IF i \in S THEN [k \in 1 .. list[i].weight |-> i] ELSE <<>>])
ReferencePick(list, count) ==
    LET total    == TotalWeight(list)
        owner(k) == Expanded(list, DOMAIN list)[(k % total) + 1]
        forwards == {k \in 0 .. count - 1 : list[owner(k)].action = "forward"}
        healthy  == Expanded(list, {i \in DOMAIN list : list[i].action = "forward" /\ Healthy(list[i])})
        all      == \A i \in DOMAIN list : list[i].weight > 0 => Healthy(list[i])
    IN  IF all \/ healthy = <<>> \/ list[owner(count)].action = "reject" THEN owner(count)
        ELSE healthy[(Cardinality(forwards) % Len(healthy)) + 1]

\* However health changes between the reads of a choice, it falls on a
\* backend with weight, and an invalid backendRef fails exactly the share
\* its weight gives it. When health does not change, the forwarding picks
\* rotate over the healthy backends by weight, one after the other, also on
\* a port whose count went on from the backends of an earlier table.
SharesKept ==
    \A r \in Requester : call[r].at = "picked" =>
        LET c == call[r]
        IN  /\ c.list[c.index].weight > 0
            /\ (c.list[c.index].action = "reject") <=>
                   (c.list[SlotOwner(c.list, c.count % TotalWeight(c.list))].action = "reject")
            /\ ~c.flipped => c.index = ReferencePick(c.list, c.count)

\* A request goes to the backend the config says: to the rule that outranks
\* the others, and there to one by its weight, while tables are swapped and
\* health changes under it (routing/mod.rs, request_processor.rs).
RoutedAsConfigured == RouteIsBest /\ SharesKept
=============================================================================
