------------------------------- MODULE MCProxy -------------------------------
(* The data plane's parts, one per behaviour: a part takes its steps while *)
(* the variables of the others keep an initial value.                      *)
EXTENDS HttpWorker, RateLimit, Listeners, Routing, Heads, Chunked, ClientStream, H2Bridge, SyncTransport
CONSTANTS c1, c2, a1, r1, r2, q1, q2, RunParts   \* RunParts: those a run goes through
VARIABLE part

-----------------------------------------------------------------------------
(* HttpWorker. *)

Request == [kind |-> "request", body |-> 0, to |-> a1, idempotent |-> TRUE, keepalive |-> TRUE,
            isHead |-> FALSE, upgrade |-> FALSE, expect |-> FALSE, broken |-> FALSE, big |-> FALSE,
            route |-> "forward"]
Post    == [Request EXCEPT !.body = 1, !.idempotent = FALSE]
Post0   == [Request EXCEPT !.idempotent = FALSE]
Crlf    == [Request EXCEPT !.kind = "crlf"]
Junk    == [Request EXCEPT !.kind = "junk"]
Final(r) == [r EXCEPT !.keepalive = FALSE]

MCScripts == {
    <<Request, Post>>, <<Post0, Post0>>, <<Final(Request), Request>>,
    <<Crlf, [Post EXCEPT !.expect = TRUE], Crlf>>, <<Junk>>,
    <<[Request EXCEPT !.isHead = TRUE], Junk>>,
    <<[Request EXCEPT !.upgrade = TRUE], Junk>>,
    <<[Post EXCEPT !.broken = TRUE], Request>>,
    <<[Request EXCEPT !.big = TRUE], Request>>,
    <<[Request EXCEPT !.route = "reply"], [Post EXCEPT !.route = "reply"], Request>>,
    <<[Request EXCEPT !.route = "limited"], [Request EXCEPT !.route = "bad"], Request>>}

Answer == [interim |-> 0, framing |-> "framed", body |-> 0, extra |-> FALSE, closes |-> FALSE,
           early |-> FALSE, bad |-> FALSE, switch |-> FALSE, broken |-> FALSE]
MCAnswers == {
    Answer, [Answer EXCEPT !.body = 2], [Answer EXCEPT !.extra = TRUE, !.body = 1],
    [Answer EXCEPT !.framing = "close", !.closes = TRUE, !.body = 1],
    [Answer EXCEPT !.interim = 2], [Answer EXCEPT !.early = TRUE, !.closes = TRUE],
    [Answer EXCEPT !.bad = TRUE], [Answer EXCEPT !.switch = TRUE, !.framing = "none"],
    [Answer EXCEPT !.broken = TRUE, !.body = 2],
    [Answer EXCEPT !.framing = "none", !.extra = TRUE], [Answer EXCEPT !.closes = TRUE]}

Alone(s, p, pooled) ==
    [script |-> [c \in {c1} |-> s], port |-> [c \in {c1} |-> p], shared |-> pooled,
     answers |-> MCAnswers, drains |-> TRUE]
Both(s, t) ==
    [script |-> [c \in {c1, c2} |-> IF c = c1 THEN s ELSE t], port |-> [c \in {c1, c2} |-> "http"],
     shared |-> TRUE, answers |-> {Answer}, drains |-> FALSE]

MCSetups == {Alone(s, "http", FALSE) : s \in MCScripts}
    \cup {[Alone(<<Junk>>, p, TRUE) EXCEPT !.answers = {Answer}] : p \in {"mixed", "tcp"}}
    \cup {Alone(<<Final(Request)>>, "tls", TRUE)}
    \cup {Both(<<Final(Post0)>>, <<Final(Request)>>)}

-----------------------------------------------------------------------------
(* RateLimit. *)

MCLimits == {[rate |-> 1, burst |-> 2], [rate |-> 2, burst |-> 2]}

-----------------------------------------------------------------------------
(* Listeners. *)

HostName(w, ls) == [wild |-> w, labels |-> ls]
CatchAll == HostName(TRUE, <<>>)
HostA == HostName(FALSE, <<"a", "x">>)
HostX == HostName(TRUE, <<"x">>)
CertRef(n, h, u) == [name |-> n, host |-> h, usable |-> u]
Plain == [protocol |-> "HTTP", port |-> 80, target |-> 8080, address |-> Anywhere,
          host |-> CatchAll, refs |-> <<>>, passthrough |-> FALSE]
Udp == [Plain EXCEPT !.protocol = "UDP", !.port = 53, !.target = 8080]
Https(h, rs) == [Plain EXCEPT !.protocol = "HTTPS", !.port = 443, !.target = 8443, !.host = h, !.refs = rs]
Tls(h, pass) == [Https(h, <<>>) EXCEPT !.protocol = "TLS", !.passthrough = pass]
Snapshot(ls, as) == [listeners |-> ls, addresses |-> as, networks |-> ("net" :> {"ip2"})]
MCSnapshots == {
    Snapshot(<<Plain, Udp>>, {}),
    Snapshot(<<[Plain EXCEPT !.port = 81]>>, {"ip1"}),
    Snapshot(<<Plain>>, {"net"}),
    Snapshot(<<[Plain EXCEPT !.port = 81], Plain>>, {}),
    Snapshot(<<Https(HostA, <<CertRef(<<"s">>, HostA, TRUE)>>), Https(CatchAll, <<CertRef(<<"t">>, CatchAll, TRUE), CertRef(<<"a", "x">>, CatchAll, TRUE)>>)>>, {}),
    Snapshot(<<Https(HostA, <<CertRef(<<"s">>, HostA, FALSE)>>), Tls(HostX, TRUE)>>, {}),
    Snapshot(<<Https(CatchAll, <<CertRef(<<"t">>, CatchAll, FALSE)>>), Tls(HostA, FALSE), Https(HostName(TRUE, <<"c">>), <<>>)>>, {}) }
MCFileConfigs == {<<Plain, Udp, Plain>>, <<Plain, [Plain EXCEPT !.address = "ip1"]>>, <<Tls(HostA, FALSE)>>}
MCNames == {<<>>, <<"a", "x">>, <<"b", "x">>, <<"c">>}
MCHoldable == {EndpointOf(Plain)}

-----------------------------------------------------------------------------
(* Routing. *)

RefTo(n, w) == [name |-> n, port |-> 80, weight |-> w, invalid |-> FALSE, filters |-> <<>>]
BadRef(w) == [RefTo("gone", w) EXCEPT !.invalid = TRUE]
Filter(k) == [kind |-> k, host |-> FALSE, prefix |-> FALSE, ok |-> TRUE, share |-> 1, of |-> 1,
              ref |-> RefTo("m", 1)]
Match(k, p) == [AnyMatch EXCEPT !.kind = k, !.path = p]
Rule(ms, fs, rs) == [matches |-> ms, filters |-> fs, refs |-> rs]
Section(s) == [section |-> s, port |-> 0]
Listener(n, p, pr, h) == [name |-> n, port |-> p, protocol |-> pr, host |-> h, pass |-> TRUE]
Route(ps, hs, rs) == [parents |-> ps, hosts |-> hs, rules |-> rs]
Get(p, h, path) == [kind |-> "http", port |-> p, host |-> h, method |-> "GET", path |-> path,
                    headers |-> <<>>, params |-> <<>>, listener |-> AnyHost]
Conn(k, p, h, l) == [Get(p, h, <<>>) EXCEPT !.kind = k, !.listener = l]

AX == <<"a", "x">>
BX == <<"b", "x">>
CAX == <<"c", "a", "x">>
BaseConfig ==
    [strict |-> FALSE, listeners |-> <<Listener("any", 80, "HTTP", AnyHost)>>,
         http |-> <<>>, tcp |-> <<>>, udp |-> <<>>, tls |-> <<>>,
         dns |-> (<<"s", 80>> :> <<1>>) @@ (<<"t", 80>> :> <<2>>) @@ (<<"h", 8080>> :> <<4, 3>>)
                 @@ (<<"e", 81>> :> <<5, 6>>) @@ (<<"m", 80>> :> <<8, 7>>),
         overrides |-> (<<"ext", 80>> :> <<<<"e", 81>>, <<"none", 81>>>>),
         headless |-> (<<"h", 80>> :> 8080), flips |-> {}, turns |-> 1, callers |-> {q1},
         asks |-> {}, next |-> {}]

Hosts == {AX, BX, CAX, <<"x">>, <<>>}
Paths == {<<"">>, <<"p">>, <<"p", "">>, <<"p", "q">>, <<"pq">>}

To(n) == <<RefTo(n, 1)>>
HttpHosts ==
    [BaseConfig EXCEPT
        !.listeners = <<Listener("any", 80, "HTTP", AnyHost), Listener("x", 80, "HTTP", Under(<<"x">>)),
                        Listener("a", 81, "HTTPS", Exact(AX)), Listener("tcp", 82, "TCP", AnyHost)>>,
        !.http = << Route(<<Section("any"), Section("tcp")>>, <<>>, <<Rule(<<>>, <<>>, To("s"))>>),
                    Route(<<>>, <<Under(<<"x">>), Exact(BX)>>, <<Rule(<<Match("prefix", <<"p">>)>>, <<>>, To("t"))>>),
                    Route(<<Section("any")>>, <<Exact(BX), Under(<<"a", "x">>)>>,
                          <<Rule(<<Match("exact", <<"p">>)>>, <<>>, To("ext"))>>),
                    Route(<<Section("x"), [section |-> "any", port |-> 81]>>, <<Under(AX), Exact(AX), Under(<<"x">>)>>,
                          <<Rule(<<Match("prefix", <<"p", "q">>)>>, <<>>, To("h"))>>) >>,
        !.asks = {Get(p, h, q) : p \in {80, 81, 82}, h \in Hosts, q \in Paths}]
HttpMatches ==
    [BaseConfig EXCEPT
        !.http = << Route(<<Section("any")>>, <<>>,
                          << Rule(<<Match("prefix", <<"p", "">>), [Match("prefix", <<"p">>) EXCEPT !.headers = {<<"k", "1">>}]>>,
                                  <<Filter("mirror")>>, To("s")),
                             Rule(<<[Match("prefix", <<"p">>) EXCEPT !.method = "GET"]>>, <<>>, To("t")),
                             Rule(<<[Match("regex", <<>>) EXCEPT !.regex = {<<"p", "q">>, <<"pq">>}, !.len = 5]>>, <<>>, <<>>) >>),
                    Route(<<Section("any")>>, <<>>,
                          << Rule(<<[Match("prefix", <<"p">>) EXCEPT !.params = {<<"v", "1">>}], Match("exact", <<"pq">>)>>, <<Filter("redirect")>>, <<RefTo("none", 1)>>),
                             Rule(<<[Match("prefix", <<"p">>) EXCEPT !.headers = {<<"k", "1">>}, !.params = {<<"v", "1">>}]>>, <<>>, <<BadRef(1)>>),
                             Rule(<<Match("prefix", <<"">>)>>, <<>>, <<RefTo("s", 0)>>) >>) >>,
        !.asks = {[Get(80, AX, q) EXCEPT !.method = m, !.headers = hs, !.params = ps] :
                     q \in Paths, m \in {"GET", "POST"}, hs \in {<<>>, <<<<"k", "1">>, <<"k", "2">>>>, <<<<"k", "2">>, <<"k", "1">>>>},
                     ps \in {<<>>, <<<<"v", "1">>>>}}]
Refusals == { Rule(<<>>, <<Filter("request"), Filter("request")>>, To("s")),
              Rule(<<>>, <<Filter("redirect"), Filter("rewrite")>>, To("s")),
              Rule(<<>>, <<[Filter("rewrite") EXCEPT !.host = TRUE], [Filter("request") EXCEPT !.host = TRUE]>>, To("s")),
              Rule(<<Match("exact", <<"p">>)>>, <<[Filter("rewrite") EXCEPT !.prefix = TRUE]>>, To("s")),
              Rule(<<>>, <<>>, <<[RefTo("s", 1) EXCEPT !.filters = <<Filter("mirror")>>]>>),
              Rule(<<>>, <<>>, <<[RefTo("s", 1) EXCEPT !.filters = <<Filter("request"), Filter("request")>>]>>),
              Rule(<<[AnyMatch EXCEPT !.ok = FALSE]>>, <<>>, To("s")),
              Rule(<<>>, <<[Filter("mirror") EXCEPT !.share = 2]>>, To("s")),
              Rule(<<>>, <<[Filter("response") EXCEPT !.ok = FALSE]>>, To("s")),
              Rule(<<>>, <<>>, To("none")),
              Rule(<<>>, <<[Filter("mirror") EXCEPT !.ref = RefTo("none", 1)]>>, To("s")) }
HttpRefused(rule, strict) ==
    [BaseConfig EXCEPT !.strict = strict,
        !.http = << Route(<<Section("any")>>, <<>>, <<rule>>),
                    Route(<<Section("any")>>, <<Exact(AX)>>, <<Rule(<<>>, <<>>, To("s"))>>) >>,
        !.asks = {Get(80, h, <<"p">>) : h \in {AX, BX}}]
L4Config(strict) ==
    [BaseConfig EXCEPT !.strict = strict,
        !.listeners = <<Listener("t", 90, "TCP", AnyHost), Listener("u", 90, "UDP", AnyHost),
                        Listener("p", 91, "TLS", AnyHost), Listener("px", 91, "TLS", Under(<<"x">>))>>,
        !.tcp = << Route(<<Section("t"), Section("p")>>, <<>>, <<To("s"), To("t")>>),
                   Route(<<Section("t")>>, <<>>, <<To("t")>>), Route(<<Section("t")>>, <<>>, <<>>) >>,
        !.udp = << Route(<<Section("u")>>, <<>>, << <<RefTo("s", 0)>> >>) >>,
        !.tls = << Route(<<Section("px")>>, <<Under(<<"x">>), Exact(<<"y">>)>>, <<To("s")>>),
                   Route(<<>>, <<Exact(AX), Under(AX)>>, <<To("t")>>),
                   Route(<<Section("p"), Section("px")>>, <<>>, <<To("h")>>),
                   Route(<<>>, <<>>, <<To(IF strict THEN "none" ELSE "ext")>>) >>,
        !.asks = {Conn(k, p, <<>>, AnyHost) : k \in {"tcp", "udp"}, p \in {90, 91}}
                 \cup {Conn("tls", 91, h, l) : h \in Hosts, l \in {AnyHost, Under(<<"x">>)}}]
Weighted(rs, kind) ==
    [BaseConfig EXCEPT
        !.listeners = <<Listener("any", 80, IF kind = "http" THEN "HTTP" ELSE "TCP", AnyHost)>>,
        !.http = <<Route(<<Section("any")>>, <<>>, <<Rule(<<>>, <<>>, rs)>>)>>,
        !.tcp = <<Route(<<Section("any")>>, <<>>, <<rs>>)>>,
        !.flips = {1, 2}, !.turns = 8, !.asks = {Conn(kind, 80, AX, AnyHost)}]

NoRoutes ==
    [BaseConfig EXCEPT !.dns = <<>>, !.overrides = <<>>, !.headless = <<>>,
        !.asks = {Get(80, AX, <<"p">>), Conn("tcp", 81, <<>>, AnyHost)}]

\* DNS found other addresses; the table is swapped while a pick is under way.
Readdressed(c) == [c EXCEPT !.dns = (<<"s", 80>> :> <<2, 1>>) @@ (<<"t", 80>> :> <<>>) @@ c.dns]
Few(c) == [c EXCEPT !.asks = {Get(80, h, q) : h \in {AX, BX}, q \in {<<"p">>, <<"p", "q">>}}]
Swapped(rs, kind) == [Weighted(rs, kind) EXCEPT !.callers = {q1, q2}, !.turns = 2, !.flips = {2}]

MCConfigs ==
    {NoRoutes, HttpHosts, HttpMatches} \cup {HttpRefused(rule, s) : rule \in Refusals, s \in BOOLEAN}
    \cup {L4Config(s) : s \in BOOLEAN}
    \cup {Weighted(rs, k) : k \in {"http", "tcp"},
             rs \in {<<RefTo("s", 1), BadRef(1), RefTo("t", 2)>>, <<BadRef(1), RefTo("t", 1), RefTo("h", 1), RefTo("s", 0)>>, <<RefTo("s", 0), RefTo("t", 0)>>}}
    \cup {[Weighted(<<RefTo("s", 1), RefTo("t", 1)>>, "http") EXCEPT !.callers = {q1, q2}, !.turns = 3]}
    \cup {[Few(HttpHosts) EXCEPT !.next = {Few(HttpMatches), Few(Readdressed(HttpHosts))}],
          [Few(HttpMatches) EXCEPT !.next = {L4Config(TRUE), Few(HttpHosts)}],
          [L4Config(FALSE) EXCEPT !.asks = {Conn("tls", 91, AX, AnyHost)}, !.next = {NoRoutes}]}
    \cup {[Swapped(<<RefTo("s", 1), BadRef(1), RefTo("t", 2)>>, k) EXCEPT
              !.next = {Swapped(<<RefTo("h", 1), RefTo("t", 2)>>, k), Readdressed(Swapped(<<RefTo("s", 1), RefTo("t", 1)>>, k))}] :
             k \in {"http", "tcp"}}

-----------------------------------------------------------------------------
(* Heads. *)

Field(n, v) == Line(n, v, "peer")
Torn == [Field("app", "x") EXCEPT !.ok = FALSE]
RequestLines ==
    {Field("host", v) : v \in {"a", "b", "", "bad"}} \cup {Field("content-length", v) : v \in {"5", "bad"}}
    \cup {Field("transfer-encoding", v) : v \in {"chunked", "gzip"}}
    \cup {Field("upgrade", v) : v \in {"ws", "h2c"}}
    \cup {Field("connection", v) : v \in {{"close"}, {"upgrade"}, {"host"}, {"upgrade", "app", "te"}}}
    \cup {[Field("connection", {"upgrade", "app"}) EXCEPT !.text = FALSE]}
    \cup {Field(n, "x") : n \in {"te", "x-forwarded-host", "x-forwarded-for", "app"}} \cup {Torn}
UpTo3(S) == {<<>>} \cup {<<a>> : a \in S} \cup {<<a, b>> : a, b \in S} \cup {<<a, b, c>> : a, b, c \in S}
GetHead == [method |-> "GET", version |-> 11, form |-> "origin", authority |-> "", path |-> <<"p">>, lines |-> <<Field("host", "a")>>]
Forms == {GetHead, [GetHead EXCEPT !.version = 10], [GetHead EXCEPT !.form = "absolute", !.authority = "a"],
          [GetHead EXCEPT !.form = "absolute", !.authority = "a", !.version = 10, !.path = <<>>]}
OddForms == {[GetHead EXCEPT !.form = "absolute", !.authority = v] : v \in {"b", "bad", ""}}
    \cup {[GetHead EXCEPT !.method = "CONNECT"], [GetHead EXCEPT !.form = "other"]}
    \cup {[GetHead EXCEPT !.method = m, !.form = "asterisk", !.path = <<"*">>] : m \in {"GET", "OPTIONS"}}
MCRequestHeads ==
    OddForms \cup {[f EXCEPT !.lines = ls] : f \in Forms, ls \in UpTo3(RequestLines)}
    \cup {[GetHead EXCEPT !.path = p] : p \in UpTo3({"p", "", ".", "..", "..;x"}) \ {<<>>}}
StreamLines == {Field("host", "a"), Field("cookie", "x"), Field("content-length", "5"), Field("te", "x"), Field("app", "x"),
                Field("expect", "x"), Field("x-forwarded-host", "x")}
Ask2 == [method |-> "GET", authority |-> "a", path |-> <<"p">>, noBody |-> FALSE, lines |-> <<>>]
MCStreamHeads ==
    {[Ask2 EXCEPT !.authority = a, !.noBody = nb, !.lines = ls] :
        a \in {"a", ""}, nb \in BOOLEAN, ls \in {l \in UpTo3(StreamLines) : Cardinality({i \in DOMAIN l : l[i].name = "content-length"}) <= 1}}
    \cup {[Ask2 EXCEPT !.method = "CONNECT"], [Ask2 EXCEPT !.path = <<>>], [Ask2 EXCEPT !.method = "OPTIONS", !.path = <<"*">>]}
AnswerLines == {Field("content-length", v) : v \in {"5", "05", "6", "bad"}}
    \cup {Field("transfer-encoding", v) : v \in {"chunked", "gzip"}}
    \cup {Field("connection", {"close"}), Field("te", "x"), Field("app", "x"), [Field("app", "x") EXCEPT !.bareLf = TRUE], Torn}
MCResponseHeads == {[version |-> v, lines |-> ls] : v \in {10, 11}, ls \in UpTo3(AnswerLines)}
NoFilters == [rule |-> NoMods, backend |-> NoMods, answer |-> NoMods, prefix |-> <<>>]
MCRuleFilters == { NoFilters,
    [NoFilters EXCEPT !.rule = [NoMods EXCEPT !.set = <<"app", "app", "host">>, !.add = <<"app">>], !.answer = [NoMods EXCEPT !.set = <<"app">>, !.remove = {"app"}]],
    [NoFilters EXCEPT !.rule = [NoMods EXCEPT !.host = "c", !.mode = "full", !.path = <<"r">>],
                      !.backend = [NoMods EXCEPT !.set = <<"host", "x-forwarded-host">>]],
    [NoFilters EXCEPT !.rule = [NoMods EXCEPT !.mode = "prefix", !.path = <<"r", "">>, !.remove = {"x-forwarded-for"}], !.prefix = <<"p">>],
    [NoFilters EXCEPT !.rule = [NoMods EXCEPT !.mode = "prefix"], !.prefix = <<"p">>],
    [NoFilters EXCEPT !.rule = [NoMods EXCEPT !.host = "c", !.set = <<"host">>]],
    [NoFilters EXCEPT !.rule = [NoMods EXCEPT !.set = <<"host", "host">>]],
    [NoFilters EXCEPT !.backend = [NoMods EXCEPT !.remove = {"host"}]],
    [NoFilters EXCEPT !.rule = [NoMods EXCEPT !.remove = {"content-length"}]],
    [NoFilters EXCEPT !.answer = [NoMods EXCEPT !.add = <<"content-length">>]] }

-----------------------------------------------------------------------------
(* H2Bridge. *)

BodylessAsk == [expressible |-> TRUE, declared |-> FALSE, frames |-> <<>>, isHead |-> FALSE]
Upload(fs) == [BodylessAsk EXCEPT !.frames = fs]
Reply(f, n) == [framing |-> f, size |-> n]
One(q, rs, b) == [asked |-> [s \in {"s1"} |-> q], replies |-> rs, budgeted |-> b]
MCBridgeWorlds ==
    {One(q, {Reply("length", 2), Reply("none", 0), Reply("malformed", 0)}, b) :
        q \in {Upload(<<1, 0, 2>>), [Upload(<<2, 1>>) EXCEPT !.declared = TRUE], [BodylessAsk EXCEPT !.expressible = FALSE]}, b \in BOOLEAN}
    \cup {One(q, {Reply(f, 2) : f \in {"length", "chunked", "close"}} \cup {Reply("chunked", 0), Reply("length", 0), Reply("close", 0)}, b) :
        q \in {BodylessAsk, [BodylessAsk EXCEPT !.isHead = TRUE], Upload(<<0>>)}, b \in BOOLEAN}
    \cup {[asked |-> [s \in {"s1", "s2"} |-> BodylessAsk], replies |-> {Reply("length", 1)}, budgeted |-> FALSE]}

-----------------------------------------------------------------------------
(* SyncTransport. *)

TrW(p, o, po, t, mo, v, e, s, sb, nw, di, rq) ==
    [planes |-> p, others |-> o, polls |-> po, ticks |-> t, moves |-> mo, vanishes |-> v, errors |-> e, stops |-> s,
     standby |-> sb, news |-> nw, dials |-> di, requests |-> rq]
MCTransportWorlds == {
  TrW({"a"}, {}, 3, 1, 2, 0, 0, 0, FALSE, FALSE, 0, 0),
  TrW({"a"}, {}, 2, 4, 0, 0, 1, 0, FALSE, FALSE, 0, 0),
  TrW({"a"}, {}, 1, 9, 0, 1, 0, 0, FALSE, TRUE, 0, 0),
  TrW({"a"}, {}, 2, 2, 0, 0, 0, 1, TRUE, FALSE, 0, 0),
  TrW({"a"}, {}, 2, 1, 0, 0, 0, 0, FALSE, TRUE, 0, 0),
  TrW({"a", "b"}, {}, 2, 1, 0, 0, 0, 0, FALSE, FALSE, 0, 0),
  TrW({}, {"x", "y"}, 0, 1, 0, 0, 0, 0, FALSE, FALSE, 3, 0),
  TrW({}, {"x"}, 0, 7, 0, 0, 0, 0, FALSE, FALSE, 1, 7)}

-----------------------------------------------------------------------------
HttpRest ==
    LET s == [Alone(<<Junk>>, "tcp", TRUE) EXCEPT !.answers = {Answer}]
    IN  /\ script = s.script /\ port = s.port /\ answers = s.answers /\ shared = s.shared
        /\ drains = s.drains /\ HttpInit
RateRest     == limit = [rate |-> 1, burst |-> 2] /\ RateInit
ListenerRest == mode = "sync" /\ ListenerInit
RoutingRest  == config = NoRoutes /\ RoutingInit
HeadRest     == head = GetHead /\ headStage = "request" /\ filters = NoMods /\ out = NoHead
ChunkedRest  == peerKind = [bareLf |-> TRUE, wide |-> FALSE] /\ ChunkedInit
StreamRest   == writeIdle = 0 /\ StreamInit
BridgeRest   == asked = [s \in {"s1"} |-> BodylessAsk] /\ budgeted = FALSE /\ BridgeInit
TransportRest == quota = TrW({}, {"x"}, 0, 7, 0, 0, 0, 0, FALSE, FALSE, 1, 7) /\ TransportInit

Init ==
    /\ part \in RunParts
    /\ IF part = "http" THEN HttpInit ELSE HttpRest
    /\ IF part = "rate" THEN RateInit ELSE RateRest
    /\ IF part = "listener" THEN ListenerInit ELSE ListenerRest
    /\ IF part = "routing" THEN RoutingInit ELSE RoutingRest
    /\ IF part = "head" THEN HeadInit ELSE HeadRest
    /\ IF part = "chunked" THEN ChunkedInit ELSE ChunkedRest
    /\ IF part = "stream" THEN StreamInit ELSE StreamRest
    /\ IF part = "bridge" THEN BridgeInit ELSE BridgeRest
    /\ IF part = "transport" THEN TransportInit ELSE TransportRest

Next ==
    /\ part' = part
    /\ \/ part = "http" /\ HttpNext
          /\ UNCHANGED <<rateVars, listenerVars, routingVars, headVars, chunkedVars, streamVars, bridgeVars, transportVars>>
       \/ part = "rate" /\ RateNext
          /\ UNCHANGED <<httpVars, listenerVars, routingVars, headVars, chunkedVars, streamVars, bridgeVars, transportVars>>
       \/ part = "listener" /\ ListenerNext
          /\ UNCHANGED <<httpVars, rateVars, routingVars, headVars, chunkedVars, streamVars, bridgeVars, transportVars>>
       \/ part = "routing" /\ RoutingNext
          /\ UNCHANGED <<httpVars, rateVars, listenerVars, headVars, chunkedVars, streamVars, bridgeVars, transportVars>>
       \/ part = "head" /\ HeadNext
          /\ UNCHANGED <<httpVars, rateVars, listenerVars, routingVars, chunkedVars, streamVars, bridgeVars, transportVars>>
       \/ part = "chunked" /\ ChunkedNext
          /\ UNCHANGED <<httpVars, rateVars, listenerVars, routingVars, headVars, streamVars, bridgeVars, transportVars>>
       \/ part = "stream" /\ StreamNext
          /\ UNCHANGED <<httpVars, rateVars, listenerVars, routingVars, headVars, chunkedVars, bridgeVars, transportVars>>
       \/ part = "bridge" /\ BridgeNext
          /\ UNCHANGED <<httpVars, rateVars, listenerVars, routingVars, headVars, chunkedVars, streamVars, transportVars>>
       \/ part = "transport" /\ TransportNext
          /\ UNCHANGED <<httpVars, rateVars, listenerVars, routingVars, headVars, chunkedVars, streamVars, bridgeVars>>

Spec == Init /\ [][Next]_<<part, httpVars, rateVars, listenerVars, routingVars, headVars, chunkedVars, streamVars, bridgeVars, transportVars>>
=============================================================================
