------------------------------ MODULE MCControl ------------------------------
(* The controller's parts, one per behaviour: a part takes its steps while *)
(* the variables of the others keep an initial value.                      *)
EXTENDS Attach, Translate, Statuses, Programmed, SyncAuth, SyncTrust, Provision, Watches, TLC
CONSTANTS g1, g2, i1, i2, Parts   \* Parts: those a run goes through
VARIABLE part

-----------------------------------------------------------------------------
(* Attach. *)

GwListener(n, p, pr, h) ==
    [name |-> n, port |-> p, protocol |-> pr, host |-> h, mode |-> "", from |-> "Same", kinds |-> {},
     selector |-> {}, certs |-> <<>>]
XHost == [wild |-> TRUE, labels |-> <<"x">>]
AHost == [wild |-> FALSE, labels |-> <<"a", "x">>]
Web   == GwListener("web", 80, "HTTP", T!AnyHost)
WebX  == [GwListener("webx", 80, "HTTP", XHost) EXCEPT !.from = "All"]
Sec   == [GwListener("sec", 443, "HTTPS", AHost) EXCEPT !.mode = "terminate", !.certs = <<"s1", "s2", "other">>]
PassX == [GwListener("pass", 443, "TLS", XHost) EXCEPT !.mode = "passthrough", !.from = "All"]
Tcp   == GwListener("tcp", 90, "TCP", T!AnyHost)
Tcp2  == [Tcp EXCEPT !.name = "tcp2", !.port = 91]
TcpToo == [Tcp EXCEPT !.name = "tcptoo"]
Sel(n, k, es) == [GwListener(n, 81, "HTTP", T!AnyHost) EXCEPT !.from = "Selector", !.kinds = k, !.selector = es]
Expr(k, o, v) == [key |-> k, operator |-> o, values |-> v]

Gw(ls, as) == [name |-> "gw", ns |-> "n1", listeners |-> ls, addresses |-> as]
MCGateways == {
    Gw(<<Web, WebX, Tcp, Tcp2, GwListener("dns", 90, "UDP", T!AnyHost)>>, {}),
    Gw(<<Web, [WebX EXCEPT !.host = T!AnyHost], Tcp, Tcp2, TcpToo>>, {"IPAddress"}),
    Gw(<<Sec, PassX, [Tcp EXCEPT !.port = 443], WebX>>, {"Network"}),
    Gw(<<Sec, PassX, [Sec EXCEPT !.name = "notls", !.host = XHost, !.port = 444, !.mode = "", !.certs = <<>>], Tcp>>, {"Odd"}),
    Gw(<<[PassX EXCEPT !.mode = "terminate"], GwListener("odd", 99, "SCTP", T!AnyHost)>>, {}),
    Gw(<<Sel("web", {"HTTPRoute", "GRPCRoute"}, {Expr("team", "In", {"a"}), Expr("tier", "DoesNotExist", {})}),
         [Sel("webx", {}, {Expr("team", "NotIn", {"a"}), Expr("team", "Exists", {})}) EXCEPT !.port = 82],
         [Sel("tcp", {"TCPRoute"}, {Expr("tier", "Near", {})}) EXCEPT !.port = 83]>>, {}) }

BRef(s, n) == [svc |-> s, ns |-> n, port |-> 0, weight |-> -1, core |-> TRUE, filters |-> <<>>]
Fil(k) == [kind |-> k, config |-> TRUE, host |-> FALSE, prefix |-> FALSE, ok |-> TRUE, share |-> 1, of |-> 2, ref |-> BRef("m", "n2")]
HRule(fs, rs) == [matches |-> <<>>, filters |-> fs, refs |-> rs]
Pr(s, p) == [name |-> "gw", kind |-> "", ns |-> "n1", section |-> s, port |-> p]
Rt(k, id, ns, created, prs, hs, rules) ==
    [kind |-> k, uid |-> <<id, 1>>, gen |-> 1, ns |-> ns, created |-> created, rank |-> id, parents |-> prs, hosts |-> hs, rules |-> rules]

Plain1 == <<HRule(<<>>, <<BRef("s", ""), BRef("t", "n2")>>)>>
MCRespecs == {Plain1,
    <<HRule(<<Fil("request"), Fil("request")>>, <<BRef("s", "")>>)>>,
    <<HRule(<<Fil("grpc")>>, <<BRef("u", "n2")>>)>>,
    <<HRule(<<Fil("mirror"), [Fil("mirror") EXCEPT !.ref.ns = ""]>>, <<[BRef("s", "") EXCEPT !.core = FALSE], BRef("h", "")>>)>>,
    <<HRule(<<Fil("redirect")>>, <<BRef("gone", "n2")>>)>>}
MCHttp == {{}} \cup {
    {Rt("HTTPRoute", 1, "n1", 1, <<Pr("web", 0), Pr("sec", 0)>>, <<AHost>>, r),
     Rt("HTTPRoute", 2, ns, 1, <<Pr("", 0), Pr("webx", 80), [Pr("", 0) EXCEPT !.ns = ""], [Pr("web", 0) EXCEPT !.kind = "Service"]>>, h, Plain1)} :
        r \in MCRespecs, ns \in {"n1", "n2"}, h \in {<<>>, <<[wild |-> FALSE, labels |-> <<"b", "y">>]>>}}
L4(s) == <<<<BRef(s, "")>>>>
MCL4 == {{},
    {Rt("TCPRoute", 3, "n1", 2, <<Pr("", 90)>>, <<>>, L4("s")), Rt("TCPRoute", 4, "n1", 1, <<Pr("tcp", 0), Pr("tcp2", 0)>>, <<>>, L4("h")),
     Rt("TCPRoute", 5, "n1", 1, <<Pr("tcp", 0)>>, <<>>, L4("e")),
     Rt("UDPRoute", 6, "n1", 1, <<Pr("", 0)>>, <<>>, L4("s"))},
    {Rt("TCPRoute", 3, "n1", 2, <<Pr("", 0)>>, <<>>, L4("s")), Rt("TCPRoute", 4, "n1", 1, <<Pr("tcp", 0)>>, <<>>, L4("h")),
     Rt("TLSRoute", 7, "n2", 1, <<Pr("pass", 0)>>, <<AHost>>, L4("t")), Rt("TLSRoute", 8, "n1", 1, <<Pr("", 443)>>, <<>>, L4("s")),
     Rt("TLSRoute", 9, "n1", 2, <<Pr("pass", 0)>>, <<AHost>>, L4("h"))}}
Svc(n, ns, c, e, t) == [name |-> n, ns |-> ns, cluster |-> c, external |-> e, ports |-> {[port |-> 80, target |-> t]}]
MCServices == {Svc("s", "n1", "", <<>>, 0), Svc("h", "n1", "None", <<>>, 8080), Svc("e", "n1", "", <<"ext">>, 0),
               Svc("t", "n2", "None", <<>>, 0), Svc("m", "n2", "", <<"mext">>, 0), Svc("x", "n3", "None", <<>>, 0)}
Grant(t) == [ns |-> "n2", from |-> {[kind |-> "HTTPRoute", ns |-> "n1"]}, to |-> {[kind |-> "Service", name |-> t]}]
Policy(n, s, cr) == [name |-> n, ns |-> "n1", target |-> "gw", kind |-> "Gateway", section |-> s, created |-> cr, rank |-> cr]
MCPolicies == {{}, {Policy("p1", "", 1), Policy("p2", "web", 2), Policy("p3", "web", 3), Policy("p4", "none", 1)},
               {[Policy("p5", "", 1) EXCEPT !.target = "other"], Policy("p6", "", 2), Policy("p7", "", 3)}}
MCDns == (<<<<"s", "n1">>, 80>> :> <<1>>) @@ (<<<<"h", "n1">>, 8080>> :> <<2>>) @@ (<<<<"ext">>, 80>> :> <<3>>)
         @@ (<<<<"t", "n2">>, 80>> :> <<4>>) @@ (<<<<"t", "n2">>, 443>> :> <<4>>) @@ (<<<<"mext">>, 80>> :> <<5>>)
         @@ (<<<<"s", "n1">>, 443>> :> <<1>>) @@ (<<<<"h", "n1">>, 443>> :> <<2>>)
Cluster(g, rs, ps, gr) ==
    [gateway |-> g, routes |-> rs, policies |-> ps, services |-> MCServices, grants |-> gr,
     labels |-> ("n1" :> ("team" :> "a")) @@ ("n2" :> ("team" :> "b")),
     certs |-> ("s1" :> [served |-> TRUE, error |-> ""]) @@ ("s2" :> [served |-> TRUE, error |-> "InvalidCertificateRef"]), dns |-> MCDns]
Quiescent ==
    [gateway |-> Gw(<<Web>>, {}), routes |-> {}, policies |-> {}, services |-> {}, grants |-> {},
     labels |-> <<>>, certs |-> <<>>, dns |-> <<>>]
MCClusters == {Quiescent} \cup
    {Cluster(g, h, {}, gr) : g \in MCGateways, h \in MCHttp, gr \in {{}, {Grant("t")}}}
    \cup {Cluster(g, l, p, {}) : g \in MCGateways, l \in MCL4, p \in MCPolicies}

-----------------------------------------------------------------------------
(* Translate. *)

Bud(m, s, p, n, r) == [passes |-> m, secret |-> s, pods |-> p, net |-> n, refs |-> r]
MCBudgets == {Bud(2, 2, 0, 0, 0), Bud(1, 0, 2, 0, 0), Bud(2, 0, 1, 0, 0), Bud(2, 0, 0, 1, 1)}

-----------------------------------------------------------------------------
(* Statuses. *)

World(gs, t, f, g, c, x, r) == [gws |-> gs, budget |-> [targets |-> t, foreign |-> f, gateway |-> g, class |-> c, fail |-> x, resync |-> r]]
MCWorlds == {World({"g1", "g2"}, 0, 1, 0, 0, 0, 0), World({"g1"}, 1, 1, 0, 0, 1, 0), World({"g1"}, 0, 0, 2, 0, 0, 0),
             World({"g1"}, 1, 0, 1, 0, 0, 0), World({"g1"}, 0, 0, 1, 0, 1, 1), World({"g1"}, 0, 0, 0, 2, 1, 0)}

-----------------------------------------------------------------------------
(* Programmed. *)

History(s, e, l, f, c, st, b, fa, fr) == [service |-> s, budget |-> [edits |-> e, leaves |-> l, failovers |-> f, crashes |-> c, starts |-> st, binds |-> b, faults |-> fa, fronts |-> fr]]
MCHistories == {History("none", 0, 1, 1, 0, 0, 0, 0, 0), History("none", 1, 0, 1, 1, 0, 0, 0, 0), History("none", 0, 0, 1, 1, 1, 0, 0, 0),
   History("none", 1, 0, 0, 1, 1, 0, 0, 0), History("none", 0, 0, 0, 0, 1, 1, 1, 0), History("none", 0, 0, 0, 0, 0, 2, 1, 0),
   History("assigned", 1, 0, 0, 1, 0, 0, 0, 2), History("none", 0, 1, 0, 1, 0, 0, 2, 0) }

-----------------------------------------------------------------------------
(* SyncAuth. *)

Cl(sub, ok, exp, gen, pod) == [sub |-> sub, forUs |-> ok, exp |-> exp, genuine |-> gen, pod |-> pod]
MCClaimed ==
  [t \in Token |-> CASE t = "t1" -> Cl("a", TRUE, 20, TRUE, "p1")
                     [] t = "t2" -> Cl("a", TRUE, 20, TRUE, "p1")
                     [] t = "u1" -> Cl("a", TRUE, 20, TRUE, "p2")
                     [] t = "f1" -> Cl("a", TRUE, 20, FALSE, "none")
                     [] t = "f2" -> Cl("a", TRUE, 2, FALSE, "none")
                     [] t = "x"  -> Cl("own", TRUE, 20, TRUE, "p2")]
AW(ts, as, ps, mortal, u, n) ==
  [tokens |-> ts, accounts |-> as, peers |-> ps, mortal |-> mortal, until |-> u, asks |-> n]
MCAuthWorlds ==
  { AW({"t1"}, {"a"}, {"q1"}, {"p1"}, 6, 4),
    AW({"t1", "f1"}, {"a"}, {"q1"}, {}, 4, 4),
    AW({"t1", "f1"}, {"a"}, {"q1", "q2"}, {}, 3, 3),
    AW({"t1", "t2", "u1"}, {"a"}, {"q1"}, {"p1"}, 3, 3),
    AW({"t1", "u1", "f1", "f2"}, {"a"}, {"q1"}, {}, 3, 4),
    AW({"f2", "x"}, {"a", "own"}, {"q1"}, {}, 2, 2) }

-----------------------------------------------------------------------------
(* SyncTrust. *)

TW(up, prox, bad, d, s, f, p, e) == [up |-> up, proxied |-> prox, bad |-> bad, deletes |-> d, stops |-> s, fails |-> f, polls |-> p, edits |-> e, nonces |-> p]
MCTrustWorlds == {TW(FALSE, FALSE, {BadCa}, 1, 2, 1, 0, 0), TW(TRUE, TRUE, {}, 0, 0, 0, 2, 2), TW(TRUE, TRUE, {}, 0, 1, 0, 1, 1), TW(TRUE, FALSE, {}, 1, 2, 0, 1, 1), TW(TRUE, FALSE, {}, 0, 1, 0, 2, 1)}

-----------------------------------------------------------------------------
(* Provision. *)

Unset == [provisioning |-> "unset", replicas |-> "unset", service |-> "unset", networks |-> "unset"]
PS(class, own, ports) == [class |-> class, own |-> own, ports |-> ports]
Plain == PS(Unset, Unset, {1, 2})
Grown == PS([Unset EXCEPT !.replicas = "two"], Unset, {1, 2, 4})
Bare  == PS([Unset EXCEPT !.replicas = "two"], [Unset EXCEPT !.networks = "static", !.replicas = "one"], {1, 3})
Broken == PS([Unset EXCEPT !.replicas = "two"], [Unset EXCEPT !.networks = "static"], {1})
Hand  == PS(Unset, [Unset EXCEPT !.provisioning = "unmanaged"], {1})
Admin == PS(Unset, [Unset EXCEPT !.networks = "static", !.service = "lb"], {2, 5})
PW(specs, e, h, f, r, l, slow) ==
  [specs |-> specs, edits |-> e, hands |-> h, fails |-> f, restarts |-> r, lags |-> l, slow |-> slow]
MCProvisionWorlds ==
  { PW({Plain, Grown}, 1, 1, 0, 0, 0, {"service"}),
    PW({Plain, Grown}, 1, 0, 0, 0, 1, {"service"}),
    PW({Plain}, 1, 1, 0, 0, 1, {"deployment"}),
    PW({Grown, Bare}, 1, 0, 1, 0, 1, {"pdb"}),
    PW({Plain, Admin, Broken, Hand}, 2, 0, 0, 0, 0, {}),
    PW({Plain, Admin, Broken, Hand}, 1, 0, 0, 1, 0, {}),
    PW({Plain}, 0, 2, 1, 0, 1, {"sa"}),
    PW({Plain}, 0, 2, 0, 0, 1, {"service"}) }

-----------------------------------------------------------------------------
(* Watches. *)

MCKindOf == [k \in {"Gateway", "TCPRoute"} |-> IF k = "TCPRoute" THEN "optional" ELSE "required"]
MCRequiredOnly == [k \in {"Gateway", "HTTPRoute"} |-> "required"]
WW(m, a, l, e, f, i) == [missing |-> m, absent |-> a, leads |-> l, edits |-> e, failures |-> f, installs |-> i]
MCWatchWorlds == {WW({}, {}, FALSE, 1, 0, 0), WW({}, {}, TRUE, 0, 1, 0), WW({}, {"Gateway"}, TRUE, 1, 1, 0),
                  WW({"TCPRoute"}, {}, TRUE, 1, 0, 1), WW({"TCPRoute"}, {}, TRUE, 0, 1, 0)}

-----------------------------------------------------------------------------
AttachRest     == cluster = Quiescent /\ AttachInit
TranslateRest  == left = Bud(2, 0, 0, 1, 1) /\ TranslateInit
StatusRest     == asks = {"g1", "g2"} /\ StatusInit
ProgrammedRest == front = "assigned" /\ ProgrammedInit
AuthRest       == world = AW({"t1"}, {"a"}, {"q1"}, {"p1"}, 6, 4) /\ AuthInit
TrustRest      == uses = TW(TRUE, FALSE, {}, 0, 1, 0, 2, 1) /\ TrustInit
ProvisionRest  == means = PW({Plain}, 0, 2, 1, 0, 1, {"sa"}) /\ ProvInit
WatchRest      == bounds = WW({}, {}, TRUE, 0, 1, 0) /\ WatchInit

Init ==
    /\ part \in Parts
    /\ \/ part = "attach" /\ AttachInit /\ TranslateRest /\ StatusRest /\ ProgrammedRest /\ AuthRest /\ TrustRest /\ ProvisionRest /\ WatchRest
       \/ part = "translate" /\ AttachRest /\ TranslateInit /\ StatusRest /\ ProgrammedRest /\ AuthRest /\ TrustRest /\ ProvisionRest /\ WatchRest
       \/ part = "status" /\ AttachRest /\ TranslateRest /\ StatusInit /\ ProgrammedRest /\ AuthRest /\ TrustRest /\ ProvisionRest /\ WatchRest
       \/ part = "programmed" /\ AttachRest /\ TranslateRest /\ StatusRest /\ ProgrammedInit /\ AuthRest /\ TrustRest /\ ProvisionRest /\ WatchRest
       \/ part = "auth" /\ AttachRest /\ TranslateRest /\ StatusRest /\ ProgrammedRest /\ AuthInit /\ TrustRest /\ ProvisionRest /\ WatchRest
       \/ part = "trust" /\ AttachRest /\ TranslateRest /\ StatusRest /\ ProgrammedRest /\ AuthRest /\ TrustInit /\ ProvisionRest /\ WatchRest
       \/ part = "provision" /\ AttachRest /\ TranslateRest /\ StatusRest /\ ProgrammedRest /\ AuthRest /\ TrustRest /\ ProvInit /\ WatchRest
       \/ part = "watches" /\ AttachRest /\ TranslateRest /\ StatusRest /\ ProgrammedRest /\ AuthRest /\ TrustRest /\ ProvisionRest /\ WatchInit

Next ==
    /\ part' = part
    /\ \/ part = "attach" /\ AttachNext
          /\ UNCHANGED <<translateVars, statusVars, programmedVars, authVars, trustVars, provVars, watchVars>>
       \/ part = "translate" /\ TranslateNext
          /\ UNCHANGED <<attachVars, statusVars, programmedVars, authVars, trustVars, provVars, watchVars>>
       \/ part = "status" /\ StatusNext
          /\ UNCHANGED <<attachVars, translateVars, programmedVars, authVars, trustVars, provVars, watchVars>>
       \/ part = "programmed" /\ ProgrammedNext
          /\ UNCHANGED <<attachVars, translateVars, statusVars, authVars, trustVars, provVars, watchVars>>
       \/ part = "auth" /\ AuthNext
          /\ UNCHANGED <<attachVars, translateVars, statusVars, programmedVars, trustVars, provVars, watchVars>>
       \/ part = "trust" /\ TrustNext
          /\ UNCHANGED <<attachVars, translateVars, statusVars, programmedVars, authVars, provVars, watchVars>>
       \/ part = "provision" /\ ProvNext
          /\ UNCHANGED <<attachVars, translateVars, statusVars, programmedVars, authVars, trustVars, watchVars>>
       \/ part = "watches" /\ WatchNext
          /\ UNCHANGED <<attachVars, translateVars, statusVars, programmedVars, authVars, trustVars, provVars>>

Spec == Init /\ [][Next]_<<part, attachVars, translateVars, statusVars, programmedVars, authVars, trustVars, provVars, watchVars>>
=============================================================================
