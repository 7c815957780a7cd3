------------------------------ MODULE Translate ------------------------------
(***************************************************************************)
(* What a translation pass remembers between passes, and shares with the   *)
(* passes of other Gateways that run beside it: the last good pair of a    *)
(* TLS Secret (src/src/kubernetes/controller/validate.rs), the ports that  *)
(* a headless Service's EndpointSlices publish                             *)
(* (src/src/kubernetes/services.rs) and the CIDRs of a network             *)
(* (src/src/kubernetes/addresses.rs), in the order that translate          *)
(* (src/src/kubernetes/controller/translate.rs) uses them.                 *)
(*                                                                         *)
(* One Secret, one Service with a named targetPort and one network, all    *)
(* named by every Gateway that has not dropped them. A read of the         *)
(* apiserver happens at one moment and is used at a later one.             *)
(***************************************************************************)
EXTENDS Integers, FiniteSets

CONSTANTS
    Gateway,     \* Gateways
    Budgets      \* bounds on passes and changes: [passes, secret, pods, net, refs]

VARIABLES
    secret,      \* the Secret as the store holds it
    made,        \* uids given to Secrets of its name
    refs,        \* the Gateways that name Secret and network
    permitted,   \* the Gateways that a ReferenceGrant lets name the Secret
    lastGood,    \* LastGoodCerts
    service,     \* the Service's resourceVersion
    pods,        \* how often its pods changed
    epoch,       \* NamedPortCache.epoch
    cached,      \* NamedPortCache.entries
    clearing,    \* whether dns_changed is between its two halves
    network,     \* the NetworkAttachmentDefinition's CIDRs, 0 when it is gone
    known,       \* NetworkCidrCache
    pass,        \* Gateway -> its translation
    left,        \* changes left
    best         \* the newest pair recorded since the cache was last emptied

secretVars == <<secret, made, permitted, lastGood, best>>
portVars   == <<service, pods, epoch, cached, clearing>>
netVars    == <<network, known>>
translateVars == <<secretVars, portVars, netVars, refs, pass, left>>

NoSecret == [uid |-> 0, rv |-> 0, good |-> FALSE]
NoPair   == [uid |-> 0, rv |-> 0]
NoPorts  == [service |-> 0, epoch |-> 0, young |-> FALSE, pods |-> 0, at |-> 0]
NoPass   == [pc |-> "idle", live |-> {}, seen |-> NoSecret, cert |-> NoPair, error |-> "",
             epoch |-> 0, service |-> 0, ports |-> NoPorts, answer |-> 0, cidrs |-> 0]

PassStep(g, from, to) == pass[g].pc = from /\ pass' = [pass EXCEPT ![g].pc = to]
PassBecomes(g, from, new) == pass[g].pc = from /\ pass' = [pass EXCEPT ![g] = new]
Spend(what) == left[what] > 0 /\ left' = [left EXCEPT ![what] = @ - 1]

-----------------------------------------------------------------------------
(* Certificates. *)

\* translate begins: the Gateways whose Secrets are kept.
BeginTranslate(g) ==
    /\ PassBecomes(g, "idle", [NoPass EXCEPT !.pc = "retain", !.live = refs])
    /\ Spend("passes")
    /\ UNCHANGED <<secretVars, portVars, netVars, refs>>

\* LastGoodCerts::retain_referenced
RetainReferenced(g) ==
    /\ PassStep(g, "retain", "look")
    /\ lastGood' = IF pass[g].live = {} THEN NoPair ELSE lastGood
    /\ best' = IF lastGood' = NoPair THEN NoPair ELSE best
    /\ UNCHANGED <<secret, made, permitted, portVars, netVars, refs, left>>

\* resolve_gateway_certs up to the verdict on the Secret.
LookUp(g) ==
    LET p == pass[g]
    IN  /\ PassBecomes(g, "look",
               IF g \notin refs THEN [p EXCEPT !.pc = "epoch"]
               ELSE IF g \notin permitted THEN [p EXCEPT !.pc = "epoch", !.error = "RefNotPermitted"]
               ELSE IF secret.good THEN [p EXCEPT !.pc = "record", !.seen = secret]
               ELSE [p EXCEPT !.pc = "keep", !.seen = secret, !.error = "InvalidCertificateRef"])
        /\ UNCHANGED <<secretVars, portVars, netVars, refs, left>>

\* LastGoodCerts::record, under the cache's lock: only what the store still holds.
RecordableAlways(seen) == TRUE
Recordable(seen) == secret = seen
RecordGood(g) ==
    LET pair == [uid |-> pass[g].seen.uid, rv |-> pass[g].seen.rv]
    IN  /\ PassBecomes(g, "record", [pass[g] EXCEPT !.pc = "epoch", !.cert = pair])
        /\ lastGood' = IF Recordable(pass[g].seen) THEN pair ELSE lastGood
        /\ best' = IF lastGood' # pair \/ (best.uid = pair.uid /\ best.rv > pair.rv) THEN best ELSE pair
        /\ UNCHANGED <<secret, made, permitted, portVars, netVars, refs, left>>

\* A bad rotation keeps the last good pair of the same Secret; anything else
\* keeps none, for no Gateway.
KeepLastGood(g) ==
    LET same == lastGood # NoPair /\ lastGood.uid = pass[g].seen.uid
    IN  /\ PassBecomes(g, "keep", [pass[g] EXCEPT !.pc = "epoch", !.cert = IF same THEN lastGood ELSE NoPair])
        /\ lastGood' = IF same THEN lastGood ELSE NoPair
        /\ best' = IF same THEN best ELSE NoPair
        /\ UNCHANGED <<secret, made, permitted, portVars, netVars, refs, left>>

-----------------------------------------------------------------------------
(* Named target ports. *)

\* resolve_named_target_ports: the epoch first.
LoadEpoch(g) ==
    /\ PassBecomes(g, "epoch", [pass[g] EXCEPT !.pc = "get", !.epoch = epoch, !.service = service])
    /\ UNCHANGED <<secretVars, portVars, netVars, refs, left>>

PortsUsableAtAnyEpoch(p) == cached.service = p.service /\ cached.young
PortsUsable(p) == cached.epoch = p.epoch /\ cached.service = p.service /\ cached.young
GetPorts(g) ==
    /\ PassBecomes(g, "get", IF cached # NoPorts /\ PortsUsable(pass[g])
                          THEN [pass[g] EXCEPT !.pc = "networks", !.ports = cached]
                          ELSE [pass[g] EXCEPT !.pc = "list"])
    /\ UNCHANGED <<secretVars, portVars, netVars, refs, left>>

\* The apiserver answers the list of EndpointSlices, or fails it: the ports
\* of the Service spec then stand.
ListSlices(g) ==
    /\ PassBecomes(g, "list", [pass[g] EXCEPT !.pc = "put",
                               !.ports = [service |-> pass[g].service, epoch |-> pass[g].epoch, young |-> TRUE,
                                          pods |-> pods, at |-> epoch]])
    /\ UNCHANGED <<secretVars, portVars, netVars, refs, left>>
ListFails(g) ==
    /\ PassStep(g, "list", "networks")
    /\ UNCHANGED <<secretVars, portVars, netVars, refs, left>>

PutPorts(g) ==
    /\ PassStep(g, "put", "networks")
    /\ cached' = pass[g].ports
    /\ UNCHANGED <<secretVars, service, pods, epoch, clearing, netVars, refs, left>>

\* NamedPortCache::dns_changed bumps the epoch, then empties the cache.
DnsChanged ==
    /\ ~clearing /\ epoch < pods
    /\ epoch' = epoch + 1 /\ clearing' = TRUE
    /\ UNCHANGED <<secretVars, service, pods, cached, netVars, refs, pass, left>>
DnsClears ==
    /\ clearing /\ cached' = NoPorts /\ clearing' = FALSE
    /\ UNCHANGED <<secretVars, service, pods, epoch, netVars, refs, pass, left>>

\* The cache's ttl passes.
PortsAge ==
    /\ cached.young /\ cached' = [cached EXCEPT !.young = FALSE]
    /\ UNCHANGED <<secretVars, service, pods, epoch, clearing, netVars, refs, pass, left>>

-----------------------------------------------------------------------------
(* Networks. *)

\* NetworkCidrCache::retain_named, then the read of the network.
RetainNamed(g) ==
    /\ PassBecomes(g, "networks", [pass[g] EXCEPT !.pc = IF g \in refs THEN "read" ELSE "done"])
    /\ known' = IF refs = {} THEN 0 ELSE known
    /\ UNCHANGED <<secretVars, portVars, network, refs, left>>

\* -1: the apiserver could not be asked.
ReadNetwork(g) ==
    /\ \E answer \in {network, -1} : PassBecomes(g, "read", [pass[g] EXCEPT !.pc = "cidrs", !.answer = answer])
    /\ UNCHANGED <<secretVars, portVars, netVars, refs, left>>

\* resolve_network_cidrs: no answer keeps what was known, and without any
\* the pass is rejected: the snapshot served stays.
ResolveNetworkCidrs(g) ==
    LET p == pass[g]
    IN  /\ PassBecomes(g, "cidrs",
               IF p.answer >= 0 THEN [p EXCEPT !.pc = "done", !.cidrs = p.answer]
               ELSE IF known = 0 THEN [p EXCEPT !.pc = "rejected"]
               ELSE [p EXCEPT !.pc = "done", !.cidrs = known])
        /\ known' = IF p.answer >= 0 THEN p.answer ELSE known
        /\ UNCHANGED <<secretVars, portVars, network, refs, left>>

\* The Plan goes to the reconcile.
Finished(g) ==
    /\ pass[g].pc \in {"done", "rejected"} /\ pass' = [pass EXCEPT ![g] = NoPass]
    /\ UNCHANGED <<secretVars, portVars, netVars, refs, left>>

-----------------------------------------------------------------------------
(* The cluster, seen through the reflectors. *)

\* The Secret is rotated, well or badly, deleted, created again.
SecretChanges ==
    /\ Spend("secret")
    /\ \/ \E good \in BOOLEAN : /\ secret # NoSecret /\ secret' = [secret EXCEPT !.rv = @ + 1, !.good = good]
                                /\ UNCHANGED made
       \/ secret # NoSecret /\ secret' = NoSecret /\ UNCHANGED made
       \/ \E good \in BOOLEAN : /\ secret = NoSecret /\ secret' = [uid |-> made + 1, rv |-> 1, good |-> good]
                                /\ made' = made + 1
    /\ UNCHANGED <<permitted, lastGood, best, portVars, netVars, refs, pass>>
PermissionChanges ==
    /\ Spend("refs") /\ \E g \in Gateway : permitted' = (permitted \cup {g}) \ (permitted \cap {g})
    /\ UNCHANGED <<secret, made, lastGood, best, portVars, netVars, refs, pass>>
RefsChange ==
    /\ Spend("refs") /\ \E g \in Gateway : refs' = (refs \cup {g}) \ (refs \cap {g})
    /\ UNCHANGED <<secretVars, portVars, netVars, pass>>
PodsChange ==
    /\ Spend("pods") /\ \/ pods' = pods + 1 /\ UNCHANGED service
                        \/ service' = service + 1 /\ UNCHANGED pods
    /\ UNCHANGED <<secretVars, epoch, cached, clearing, netVars, refs, pass>>
NetworkChanges ==
    /\ Spend("net") /\ \E cidrs \in 0 .. 2 : cidrs # network /\ network' = cidrs
    /\ UNCHANGED <<secretVars, portVars, known, refs, pass>>

TranslateInit ==
    /\ secret = [uid |-> 1, rv |-> 1, good |-> TRUE] /\ made = 1 /\ permitted = Gateway /\ lastGood = NoPair /\ best = NoPair
    /\ service = 1 /\ pods = 0 /\ epoch = 0 /\ cached = NoPorts /\ clearing = FALSE
    /\ network = 1 /\ known = 0 /\ refs = Gateway
    /\ pass = [g \in Gateway |-> NoPass] /\ left \in Budgets

TranslateNext ==
    \/ \E g \in Gateway :
          \/ BeginTranslate(g) \/ RetainReferenced(g) \/ LookUp(g) \/ RecordGood(g) \/ KeepLastGood(g) \/ LoadEpoch(g) \/ GetPorts(g)
          \/ ListSlices(g) \/ ListFails(g) \/ PutPorts(g) \/ RetainNamed(g) \/ ReadNetwork(g)
          \/ ResolveNetworkCidrs(g) \/ Finished(g)
    \/ DnsChanged \/ DnsClears \/ PortsAge
    \/ SecretChanges \/ PermissionChanges \/ RefsChange \/ PodsChange \/ NetworkChanges

TranslateSpec == TranslateInit /\ [][TranslateNext]_translateVars

-----------------------------------------------------------------------------
(* Properties. *)

\* Whatever passes run beside each other, the cache holds the newest pair
\* recorded, so that a bad rotation never goes back to an older one
\* (LastGoodCerts::record); a pass serves a pair of the very Secret it read,
\* not of one deleted under its name, and another version only when the one
\* it read does not load. The ports it uses were read no earlier than the DNS
\* change it follows (NamedPortCache::get), and a network that could not be
\* read is not taken for gone (resolve_network_cidrs).
CachesAreCurrent ==
    /\ lastGood = best
    /\ \A g \in Gateway :
          LET p == pass[g]
          IN  /\ p.cert # NoPair => /\ p.cert.uid = p.seen.uid
                                    /\ p.seen.good <=> p.cert.rv = p.seen.rv
              /\ p.pc \in {"networks", "read", "cidrs", "done"} /\ p.ports # NoPorts =>
                     p.ports.at >= p.epoch /\ p.ports.service = p.service
              /\ p.pc = "done" /\ p.answer = -1 => p.cidrs # 0
=============================================================================
