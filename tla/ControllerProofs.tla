-------------------------- MODULE ControllerProofs --------------------------
(***************************************************************************)
(* The controller's caches across concurrent passes (Translate), whom its  *)
(* data planes believe (SyncTrust), which of them it admits (SyncAuth),    *)
(* what it reads once its caches are listed (Watches), and what it says of *)
(* a Gateway over time (Programmed).                                       *)
(***************************************************************************)
EXTENDS Translate, SyncTrust, SyncAuth, Watches, Programmed, WellFoundedInduction, FiniteSetTheorems, TLAPS

-----------------------------------------------------------------------------
(* Translate: what passes remember and share.                               *)

Secret0 == [uid : Nat, rv : Nat, good : BOOLEAN]
Pair0   == [uid : Nat, rv : Nat]
Ports0  == [service : Nat, epoch : Nat, young : BOOLEAN, pods : Nat, at : Nat]
Early   == {"idle", "retain", "look", "record", "keep", "epoch", "get", "list"}
Pass0   == [pc : Early \cup {"put", "networks", "read", "cidrs", "done", "rejected"},
            live : SUBSET Gateway, seen : Secret0, cert : Pair0,
            error : {"", "RefNotPermitted", "InvalidCertificateRef"},
            epoch : Nat, service : Nat, ports : Ports0, answer : Int, cidrs : Int]

TranslateType ==
    /\ secret \in Secret0 /\ made \in Nat /\ lastGood \in Pair0 /\ best \in Pair0
    /\ service \in Nat /\ pods \in Nat /\ epoch \in Nat /\ cached \in Ports0
    /\ network \in Nat /\ known \in Nat /\ refs \subseteq Gateway
    /\ pass \in [Gateway -> Pass0]

\* A Secret that was there is the one of the last uid, in its last version:
\* no (uid, resourceVersion) ever names two contents.
Ago(seen, s, m) ==
    /\ seen = NoSecret \/ seen.uid \in 1 .. m
    /\ seen.uid = s.uid => seen.rv <= s.rv /\ (seen.rv = s.rv => seen = s)

\* The last good pair is of a version that loaded.
GoodAgo(pair, s, m) ==
    pair # NoPair =>
        /\ pair.uid \in 1 .. m
        /\ pair.uid = s.uid => pair.rv <= s.rv /\ (pair.rv = s.rv => s.good)

\* What a pass holds, of the Secret,
CertOk(p, s, m, pair) ==
    /\ Ago(p.seen, s, m)
    /\ p.pc = "record" => p.seen.good
    /\ p.pc = "keep" => ~p.seen.good /\ (pair # NoPair /\ pair.uid = p.seen.uid => pair.rv # p.seen.rv)
    /\ p.cert # NoPair => p.cert.uid = p.seen.uid /\ (p.seen.good <=> p.cert.rv = p.seen.rv)
    /\ p.pc \in {"retain", "look", "record", "keep"} => p.cert = NoPair

\* of the ports,
PortsOk(p, e) ==
    /\ p.epoch <= e
    /\ p.pc \in Early => p.ports = NoPorts
    /\ p.ports # NoPorts => p.ports.at >= p.epoch /\ p.ports.service = p.service
                            /\ p.ports.at >= p.ports.epoch

\* and of the network.
NetOk(p) ==
    /\ p.pc \notin {"cidrs", "done", "rejected"} => p.answer = 0
    /\ p.pc = "done" /\ p.answer = -1 => p.cidrs # 0

PassOk(p, s, m, pair, e) == CertOk(p, s, m, pair) /\ PortsOk(p, e) /\ NetOk(p)

CachesInv ==
    /\ TranslateType
    /\ secret = NoSecret \/ (secret.uid = made /\ made > 0)
    /\ lastGood = best /\ GoodAgo(lastGood, secret, made)
    /\ cached.at >= cached.epoch
    /\ \A g \in Gateway : PassOk(pass[g], secret, made, lastGood, epoch)

LEMMA NoneTyped ==
    NoSecret \in Secret0 /\ NoPair \in Pair0 /\ NoPorts \in Ports0 /\ NoPass \in Pass0
BY DEF NoSecret, NoPair, NoPorts, NoPass, Secret0, Pair0, Ports0, Pass0, Early

LEMMA NoPassOk ==
    ASSUME NEW s \in Secret0, NEW m \in Nat, NEW pair, NEW e \in Nat,
           s = NoSecret \/ s.uid > 0
    PROVE  PassOk(NoPass, s, m, pair, e)
<1>1. Ago(NoSecret, s, m)
    BY NoneTyped DEF Ago, Secret0, NoSecret
<1>2. /\ NoPass.pc = "idle" /\ NoPass.seen = NoSecret /\ NoPass.cert = NoPair
      /\ NoPass.ports = NoPorts /\ NoPass.epoch = 0 /\ NoPass.answer = 0
    BY DEF NoPass
<1> QED  BY <1>1, <1>2 DEF PassOk, CertOk, PortsOk, NetOk

LEMMA CachesInit == TranslateInit => CachesInv
<1> SUFFICES ASSUME TranslateInit PROVE CachesInv
    OBVIOUS
<1>1. TranslateType
    BY NoneTyped DEF TranslateInit, TranslateType, Secret0
<1>2. secret.uid = made /\ made > 0 /\ lastGood = best /\ GoodAgo(lastGood, secret, made)
      /\ cached.at >= cached.epoch
    BY DEF TranslateInit, GoodAgo, NoPorts
<1>3. \A g \in Gateway : PassOk(pass[g], secret, made, lastGood, epoch)
    BY <1>1, <1>2, NoPassOk DEF TranslateInit, TranslateType
<1> QED  BY <1>1, <1>2, <1>3 DEF CachesInv

\* A pass moves on, and leaves the Secret and the epoch alone.
LEMMA PassMoves ==
    ASSUME CachesInv, NEW g \in Gateway, NEW q \in Pass0, pass' = [pass EXCEPT ![g] = q],
           UNCHANGED <<secret, made, service, pods, epoch, network, refs>>,
           known' \in Nat, cached' \in Ports0, cached'.at >= cached'.epoch,
           lastGood' \in Pair0, best' = lastGood',
           GoodAgo(lastGood', secret, made), PassOk(q, secret, made, lastGood', epoch),
           \A h \in Gateway \ {g} : PassOk(pass[h], secret, made, lastGood', epoch)
    PROVE  CachesInv'
<1>1. TranslateType'
    BY DEF CachesInv, TranslateType
<1>2. \A h \in Gateway : PassOk(pass'[h], secret, made, lastGood', epoch)
    BY DEF CachesInv, TranslateType
<1> QED  BY <1>1, <1>2 DEF CachesInv

\* Where the last good pair stays too.
LEMMA PassMovesAlone ==
    ASSUME CachesInv, NEW g \in Gateway, NEW q \in Pass0, pass' = [pass EXCEPT ![g] = q],
           UNCHANGED <<secret, made, service, pods, epoch, network, refs, lastGood, best>>,
           known' \in Nat, cached' \in Ports0, cached'.at >= cached'.epoch,
           PassOk(q, secret, made, lastGood, epoch)
    PROVE  CachesInv'
<1>1. lastGood' \in Pair0 /\ best' = lastGood' /\ GoodAgo(lastGood', secret, made)
      /\ \A h \in Gateway : PassOk(pass[h], secret, made, lastGood', epoch)
    BY DEF CachesInv, TranslateType
<1> QED  BY <1>1, PassMoves

LEMMA CertStep ==
    ASSUME CachesInv, NEW g \in Gateway,
           BeginTranslate(g) \/ RetainReferenced(g) \/ LookUp(g) \/ RecordGood(g) \/ KeepLastGood(g)
    PROVE  CachesInv'
<1> USE DEF secretVars, portVars, netVars
<1> DEFINE p == pass[g]
<1>1. /\ TranslateType /\ p \in Pass0 /\ PassOk(p, secret, made, lastGood, epoch)
      /\ GoodAgo(lastGood, secret, made) /\ cached.at >= cached.epoch /\ lastGood = best
      /\ secret = NoSecret \/ (secret.uid = made /\ made > 0)
    BY DEF CachesInv, TranslateType
<1>2. /\ secret \in Secret0 /\ made \in Nat /\ lastGood \in Pair0 /\ epoch \in Nat
      /\ p.seen \in Secret0 /\ p.cert \in Pair0
    BY <1>1 DEF TranslateType, Pass0
<1>3. CASE BeginTranslate(g)
  <2> DEFINE q == [NoPass EXCEPT !.pc = "retain", !.live = refs]
  <2>1. q \in Pass0 /\ PassOk(q, secret, made, lastGood, epoch)
    <3>1. q \in Pass0
        BY <1>1, NoneTyped DEF Pass0, Early, TranslateType
    <3>2. PassOk(NoPass, secret, made, lastGood, epoch)
        BY <1>1, <1>2, NoPassOk DEF Secret0
    <3> QED
        BY <3>1, <3>2 DEF PassOk, CertOk, PortsOk, NetOk, NoPass, Early
  <2> QED  BY <1>1, <1>3, <2>1, PassMovesAlone DEF BeginTranslate, PassBecomes, TranslateType
<1>4. CASE RetainReferenced(g)
  <2> DEFINE q == [p EXCEPT !.pc = "look"]
  <2>1. q \in Pass0 /\ pass' = [pass EXCEPT ![g] = q] /\ p.pc = "retain"
      BY <1>1, <1>4 DEF RetainReferenced, PassStep, Pass0, Early
  <2>2. lastGood' = best' /\ lastGood' \in {NoPair, lastGood}
      BY <1>1, <1>4 DEF RetainReferenced
  <2>3. GoodAgo(lastGood', secret, made) /\ lastGood' \in Pair0
      BY <1>1, <1>2, <2>2, NoneTyped DEF GoodAgo
  <2>4. \A h \in Gateway : PassOk(pass[h], secret, made, lastGood', epoch)
      BY <2>2 DEF CachesInv, PassOk, CertOk
  <2>5. PassOk(q, secret, made, lastGood', epoch)
      BY <1>1, <2>1, <2>4 DEF PassOk, CertOk, PortsOk, NetOk, Early, Pass0
  <2> QED  BY <1>1, <1>4, <2>1, <2>2, <2>3, <2>4, <2>5, PassMoves DEF RetainReferenced, TranslateType
<1>5. CASE LookUp(g)
  <2>1. ASSUME NEW q \in Pass0, pass' = [pass EXCEPT ![g] = q], PassOk(q, secret, made, lastGood, epoch)
        PROVE  CachesInv'
      BY <1>1, <1>5, <2>1, PassMovesAlone DEF LookUp, TranslateType
  <2>2. p.pc = "look"
      BY <1>5 DEF LookUp, PassBecomes
  <2>3. Ago(secret, secret, made)
      BY <1>1, <1>2 DEF Ago, Secret0
  <2>4. CASE pass' = [pass EXCEPT ![g] = [p EXCEPT !.pc = "epoch"]]
    <3> DEFINE q == [p EXCEPT !.pc = "epoch"]
    <3>1. q \in Pass0 /\ PassOk(q, secret, made, lastGood, epoch)
        BY <1>1, <2>2 DEF PassOk, CertOk, PortsOk, NetOk, Pass0, Early
    <3> QED  BY <2>1, <2>4, <3>1
  <2>5. CASE pass' = [pass EXCEPT ![g] = [p EXCEPT !.pc = "epoch", !.error = "RefNotPermitted"]]
    <3> DEFINE q == [p EXCEPT !.pc = "epoch", !.error = "RefNotPermitted"]
    <3>1. q \in Pass0 /\ PassOk(q, secret, made, lastGood, epoch)
        BY <1>1, <2>2 DEF PassOk, CertOk, PortsOk, NetOk, Pass0, Early
    <3> QED  BY <2>1, <2>5, <3>1
  <2>6. CASE secret.good /\ pass' = [pass EXCEPT ![g] = [p EXCEPT !.pc = "record", !.seen = secret]]
    <3> DEFINE q == [p EXCEPT !.pc = "record", !.seen = secret]
    <3>1. q \in Pass0
        BY <1>1, <1>2 DEF Pass0, Early
    <3>2. q.pc = "record" /\ q.seen = secret /\ q.cert = p.cert /\ q.ports = p.ports
          /\ q.epoch = p.epoch /\ q.answer = p.answer /\ q.service = p.service
        BY <1>1 DEF Pass0
    <3> HIDE DEF q
    <3>3. PassOk(q, secret, made, lastGood, epoch)
        BY <1>1, <2>2, <2>3, <2>6, <3>2 DEF PassOk, CertOk, PortsOk, NetOk, Early
    <3> QED  BY <2>1, <2>6, <3>1, <3>3 DEF q
  <2>7. CASE ~secret.good
             /\ pass' = [pass EXCEPT ![g] = [p EXCEPT !.pc = "keep", !.seen = secret, !.error = "InvalidCertificateRef"]]
    <3> DEFINE q == [p EXCEPT !.pc = "keep", !.seen = secret, !.error = "InvalidCertificateRef"]
    <3>1. q \in Pass0
        BY <1>1, <1>2 DEF Pass0, Early
    <3>2. q.pc = "keep" /\ q.seen = secret /\ q.cert = p.cert /\ q.ports = p.ports
          /\ q.epoch = p.epoch /\ q.answer = p.answer /\ q.service = p.service
        BY <1>1 DEF Pass0
    <3> HIDE DEF q
    <3>3. PassOk(q, secret, made, lastGood, epoch)
        BY <1>1, <2>2, <2>3, <2>7, <3>2 DEF PassOk, CertOk, PortsOk, NetOk, Early, GoodAgo
    <3> QED  BY <2>1, <2>7, <3>1, <3>3 DEF q
  <2> QED  BY <1>5, <2>4, <2>5, <2>6, <2>7 DEF LookUp, PassBecomes
<1>6. CASE RecordGood(g)
  <2> DEFINE pair == [uid |-> p.seen.uid, rv |-> p.seen.rv]
             q == [p EXCEPT !.pc = "epoch", !.cert = pair]
  <2>1. p.pc = "record" /\ pass' = [pass EXCEPT ![g] = q] /\ p.seen.good
      BY <1>1, <1>6 DEF RecordGood, PassBecomes, PassOk, CertOk
  <2>2. pair \in Pair0 /\ pair.uid = p.seen.uid /\ pair.rv = p.seen.rv
      BY <1>2 DEF Pair0, Secret0
  <2>3. q \in Pass0 /\ q.pc = "epoch" /\ q.cert = pair /\ q.seen = p.seen /\ q.ports = p.ports
        /\ q.epoch = p.epoch /\ q.answer = p.answer /\ q.service = p.service
      BY <1>1, <2>2 DEF Pass0, Early
  <2>4. PICK l : l = lastGood' /\ (l = lastGood \/ (l = pair /\ secret = p.seen))
      BY <1>6 DEF RecordGood, Recordable
  <2>5. best' = lastGood'
    <3>1. CASE lastGood' # pair
        BY <1>1, <1>6, <2>4, <3>1 DEF RecordGood
    <3>2. CASE lastGood' = pair /\ l = lastGood
        BY <1>1, <1>6, <2>4, <3>2 DEF RecordGood
    <3>3. CASE lastGood' = pair /\ secret = p.seen
      <4>1. ~(best.uid = pair.uid /\ best.rv > pair.rv)
          BY <1>1, <1>2, <2>2, <3>3 DEF GoodAgo, Secret0, Pair0, NoPair
      <4> QED  BY <1>6, <3>3, <4>1 DEF RecordGood
    <3> QED  BY <2>4, <3>1, <3>2, <3>3
  <2>6. secret = p.seen => p.seen.uid \in 1 .. made
      BY <1>1, <1>2, <2>1 DEF NoSecret
  <2> HIDE DEF pair, q
  <2>7. GoodAgo(l, secret, made) /\ l \in Pair0
      BY <1>1, <1>2, <2>1, <2>2, <2>4, <2>6 DEF GoodAgo, Secret0, Pair0
  <2>8. ASSUME NEW h \in Gateway PROVE PassOk(pass[h], secret, made, l, epoch)
    <3>1. PassOk(pass[h], secret, made, lastGood, epoch)
        BY DEF CachesInv
    <3>2. CASE l = pair /\ secret = p.seen
        BY <2>1, <2>2, <3>1, <3>2 DEF PassOk, CertOk, Ago
    <3> QED  BY <2>4, <3>1, <3>2
  <2>9. PassOk(q, secret, made, l, epoch)
      BY <1>1, <2>1, <2>2, <2>3 DEF PassOk, CertOk, PortsOk, NetOk, Early
  <2> QED
      BY <1>1, <1>6, <2>1, <2>3, <2>4, <2>5, <2>7, <2>8, <2>9, PassMoves DEF RecordGood, TranslateType
<1>7. CASE KeepLastGood(g)
  <2> DEFINE same == lastGood # NoPair /\ lastGood.uid = p.seen.uid
             kept == IF same THEN lastGood ELSE NoPair
             q == [p EXCEPT !.pc = "epoch", !.cert = kept]
  <2>1. p.pc = "keep" /\ pass' = [pass EXCEPT ![g] = q] /\ lastGood' = kept /\ best' = kept
      BY <1>1, <1>7 DEF KeepLastGood, PassBecomes
  <2>2. kept \in Pair0 /\ kept \in {NoPair, lastGood} /\ GoodAgo(kept, secret, made)
        /\ (kept # NoPair => same /\ kept = lastGood)
      BY <1>1, <1>2, NoneTyped DEF GoodAgo
  <2> HIDE DEF kept
  <2>3. q \in Pass0 /\ q.pc = "epoch" /\ q.cert = kept /\ q.seen = p.seen /\ q.ports = p.ports
        /\ q.epoch = p.epoch /\ q.answer = p.answer /\ q.service = p.service
      BY <1>1, <2>2 DEF Pass0, Early
  <2> HIDE DEF q
  <2>4. \A h \in Gateway : PassOk(pass[h], secret, made, kept, epoch)
      BY <2>2 DEF CachesInv, PassOk, CertOk
  <2>5. PassOk(q, secret, made, kept, epoch)
      BY <1>1, <2>1, <2>2, <2>3 DEF PassOk, CertOk, PortsOk, NetOk, Early
  <2> QED
      BY <1>1, <1>7, <2>1, <2>2, <2>3, <2>4, <2>5, PassMoves DEF KeepLastGood, TranslateType
<1> QED  BY <1>3, <1>4, <1>5, <1>6, <1>7

LEMMA PortsStep ==
    ASSUME CachesInv, NEW g \in Gateway,
           \/ LoadEpoch(g) \/ GetPorts(g) \/ ListSlices(g) \/ ListFails(g) \/ PutPorts(g)
           \/ RetainNamed(g) \/ ReadNetwork(g) \/ ResolveNetworkCidrs(g) \/ Finished(g)
    PROVE  CachesInv'
<1> USE DEF secretVars, portVars, netVars
<1> DEFINE p == pass[g]
<1>1. /\ TranslateType /\ p \in Pass0 /\ PassOk(p, secret, made, lastGood, epoch)
      /\ GoodAgo(lastGood, secret, made) /\ cached.at >= cached.epoch /\ lastGood = best
      /\ secret = NoSecret \/ (secret.uid = made /\ made > 0)
    BY DEF CachesInv, TranslateType
<1>2. /\ epoch \in Nat /\ service \in Nat /\ pods \in Nat /\ network \in Nat /\ known \in Nat
      /\ cached \in Ports0 /\ p.ports \in Ports0 /\ p.epoch \in Nat /\ p.service \in Nat
      /\ p.answer \in Int
    BY <1>1 DEF TranslateType, Pass0
<1>3. ASSUME NEW q \in Pass0, pass' = [pass EXCEPT ![g] = q], PassOk(q, secret, made, lastGood, epoch),
             UNCHANGED <<secret, made, service, pods, epoch, network, refs, lastGood, best, cached>>,
             known' \in Nat
      PROVE  CachesInv'
    BY <1>1, <1>2, <1>3, PassMovesAlone
\* Past the Secret, the certificate stands.
<1>4. ASSUME NEW q \in Pass0, q.seen = p.seen, q.cert = p.cert,
             q.pc \notin {"retain", "look", "record", "keep"}
      PROVE  CertOk(q, secret, made, lastGood)
    BY <1>1, <1>4 DEF PassOk, CertOk
<1>5. CASE LoadEpoch(g)
  <2> DEFINE q == [p EXCEPT !.pc = "get", !.epoch = epoch, !.service = service]
  <2>1. q \in Pass0 /\ q.pc = "get" /\ q.seen = p.seen /\ q.cert = p.cert /\ q.ports = p.ports
        /\ q.epoch = epoch /\ q.answer = p.answer
      BY <1>1, <1>2 DEF Pass0, Early
  <2>2. p.pc = "epoch" /\ pass' = [pass EXCEPT ![g] = q]
      BY <1>5 DEF LoadEpoch, PassBecomes
  <2> HIDE DEF q
  <2>3. PortsOk(q, epoch) /\ NetOk(q)
      BY <1>1, <1>2, <2>1, <2>2 DEF PassOk, PortsOk, NetOk, Early
  <2> QED  BY <1>2, <1>3, <1>4, <1>5, <2>1, <2>2, <2>3 DEF LoadEpoch, PassOk
<1>6. CASE GetPorts(g)
  <2>0. p.pc = "get"
      BY <1>6 DEF GetPorts, PassBecomes
  <2>1. CASE PortsUsable(p) /\ pass' = [pass EXCEPT ![g] = [p EXCEPT !.pc = "networks", !.ports = cached]]
    <3> DEFINE q == [p EXCEPT !.pc = "networks", !.ports = cached]
    <3>1. q \in Pass0 /\ q.pc = "networks" /\ q.seen = p.seen /\ q.cert = p.cert /\ q.ports = cached
          /\ q.epoch = p.epoch /\ q.service = p.service /\ q.answer = p.answer
        BY <1>1, <1>2 DEF Pass0
    <3> HIDE DEF q
    <3>2. PortsOk(q, epoch) /\ NetOk(q)
        BY <1>1, <1>2, <2>0, <2>1, <3>1 DEF PassOk, PortsOk, NetOk, Early, PortsUsable
    <3> QED  BY <1>2, <1>3, <1>4, <1>6, <2>1, <3>1, <3>2 DEF GetPorts, PassOk, q
  <2>2. CASE pass' = [pass EXCEPT ![g] = [p EXCEPT !.pc = "list"]]
    <3> DEFINE q == [p EXCEPT !.pc = "list"]
    <3>1. q \in Pass0 /\ q.pc = "list" /\ q.seen = p.seen /\ q.cert = p.cert /\ q.ports = p.ports
          /\ q.epoch = p.epoch /\ q.answer = p.answer
        BY <1>1 DEF Pass0, Early
    <3> HIDE DEF q
    <3>2. PortsOk(q, epoch) /\ NetOk(q)
        BY <1>1, <2>0, <3>1 DEF PassOk, PortsOk, NetOk, Early
    <3> QED  BY <1>2, <1>3, <1>4, <1>6, <2>2, <3>1, <3>2 DEF GetPorts, PassOk, q
  <2> QED  BY <1>6, <2>1, <2>2 DEF GetPorts, PassBecomes
<1>7. CASE ListSlices(g)
  <2> DEFINE ports == [service |-> p.service, epoch |-> p.epoch, young |-> TRUE, pods |-> pods, at |-> epoch]
             q == [p EXCEPT !.pc = "put", !.ports = ports]
  <2>1. ports \in Ports0 /\ ports.at = epoch /\ ports.epoch = p.epoch /\ ports.service = p.service
      BY <1>2 DEF Ports0
  <2> HIDE DEF ports
  <2>2. q \in Pass0 /\ q.pc = "put" /\ q.seen = p.seen /\ q.cert = p.cert /\ q.ports = ports
        /\ q.epoch = p.epoch /\ q.service = p.service /\ q.answer = p.answer
      BY <1>1, <2>1 DEF Pass0, Early
  <2>3. p.pc = "list" /\ pass' = [pass EXCEPT ![g] = q]
      BY <1>7 DEF ListSlices, PassBecomes, ports
  <2> HIDE DEF q
  <2>4. PortsOk(q, epoch) /\ NetOk(q)
      BY <1>1, <1>2, <2>1, <2>2, <2>3 DEF PassOk, PortsOk, NetOk, Early
  <2> QED  BY <1>2, <1>3, <1>4, <1>7, <2>2, <2>3, <2>4 DEF ListSlices, PassOk
<1>8. CASE ListFails(g)
  <2> DEFINE q == [p EXCEPT !.pc = "networks"]
  <2>1. q \in Pass0 /\ q.pc = "networks" /\ q.seen = p.seen /\ q.cert = p.cert /\ q.ports = p.ports
        /\ q.epoch = p.epoch /\ q.service = p.service /\ q.answer = p.answer
      BY <1>1 DEF Pass0
  <2>2. p.pc = "list" /\ pass' = [pass EXCEPT ![g] = q]
      BY <1>1, <1>8 DEF ListFails, PassStep, TranslateType
  <2> HIDE DEF q
  <2>3. PortsOk(q, epoch) /\ NetOk(q)
      BY <1>1, <2>1, <2>2 DEF PassOk, PortsOk, NetOk, Early
  <2> QED  BY <1>2, <1>3, <1>4, <1>8, <2>1, <2>2, <2>3 DEF ListFails, PassOk
<1>9. CASE PutPorts(g)
  <2> DEFINE q == [p EXCEPT !.pc = "networks"]
  <2>1. q \in Pass0 /\ q.pc = "networks" /\ q.seen = p.seen /\ q.cert = p.cert /\ q.ports = p.ports
        /\ q.epoch = p.epoch /\ q.service = p.service /\ q.answer = p.answer
      BY <1>1 DEF Pass0
  <2>2. p.pc = "put" /\ pass' = [pass EXCEPT ![g] = q] /\ cached' = p.ports
      BY <1>1, <1>9 DEF PutPorts, PassStep, TranslateType
  <2>3. p.ports.at >= p.ports.epoch
      BY <1>1, <1>2 DEF PassOk, PortsOk, NoPorts
  <2> HIDE DEF q
  <2>4. PortsOk(q, epoch) /\ NetOk(q)
      BY <1>1, <2>1, <2>2 DEF PassOk, PortsOk, NetOk, Early
  <2>5. PassOk(q, secret, made, lastGood, epoch)
      BY <1>4, <2>1, <2>4 DEF PassOk
  <2> QED  BY <1>1, <1>2, <1>9, <2>1, <2>2, <2>3, <2>5, PassMovesAlone DEF PutPorts
<1>10. CASE RetainNamed(g)
  <2> DEFINE q == [p EXCEPT !.pc = IF g \in refs THEN "read" ELSE "done"]
  <2>1. q \in Pass0 /\ q.pc \in {"read", "done"} /\ q.seen = p.seen /\ q.cert = p.cert
        /\ q.ports = p.ports /\ q.epoch = p.epoch /\ q.service = p.service /\ q.answer = p.answer
      BY <1>1 DEF Pass0
  <2>2. p.pc = "networks" /\ pass' = [pass EXCEPT ![g] = q]
      BY <1>10 DEF RetainNamed, PassBecomes
  <2> HIDE DEF q
  <2>3. PortsOk(q, epoch) /\ NetOk(q)
      BY <1>1, <2>1, <2>2 DEF PassOk, PortsOk, NetOk, Early
  <2> QED  BY <1>2, <1>3, <1>4, <1>10, <2>1, <2>2, <2>3 DEF RetainNamed, PassOk
<1>11. CASE ReadNetwork(g)
  <2>1. PICK answer \in {network, -1} : PassBecomes(g, "read", [p EXCEPT !.pc = "cidrs", !.answer = answer])
      BY <1>11 DEF ReadNetwork
  <2> DEFINE q == [p EXCEPT !.pc = "cidrs", !.answer = answer]
  <2>5. answer \in Int
      BY <1>2
  <2>2. q \in Pass0 /\ q.pc = "cidrs" /\ q.seen = p.seen /\ q.cert = p.cert
        /\ q.ports = p.ports /\ q.epoch = p.epoch /\ q.service = p.service
      BY <1>1, <2>5 DEF Pass0
  <2>3. p.pc = "read" /\ pass' = [pass EXCEPT ![g] = q]
      BY <2>1 DEF PassBecomes
  <2> HIDE DEF q
  <2>4. PortsOk(q, epoch) /\ NetOk(q)
      BY <1>1, <2>2, <2>3 DEF PassOk, PortsOk, NetOk, Early
  <2> QED  BY <1>2, <1>3, <1>4, <1>11, <2>2, <2>3, <2>4 DEF ReadNetwork, PassOk
<1>12. CASE ResolveNetworkCidrs(g)
  <2>0. p.pc = "cidrs" /\ known' \in Nat
      BY <1>2, <1>12 DEF ResolveNetworkCidrs, PassBecomes
  <2>1. PICK pc \in {"done", "rejected"}, cidrs \in Int :
            /\ pc = "done" /\ p.answer = -1 => cidrs # 0
            /\ pass' = [pass EXCEPT ![g] = [p EXCEPT !.pc = pc, !.cidrs = cidrs]]
    <3>1. CASE p.answer >= 0
      <4>1. pass' = [pass EXCEPT ![g] = [p EXCEPT !.pc = "done", !.cidrs = p.answer]]
          BY <1>12, <3>1 DEF ResolveNetworkCidrs, PassBecomes
      <4>2. p.answer # -1
          BY <1>2, <3>1
      <4> QED  BY <1>2, <4>1, <4>2
    <3>2. CASE ~(p.answer >= 0) /\ known = 0
      <4>1. [p EXCEPT !.pc = "rejected"] = [p EXCEPT !.pc = "rejected", !.cidrs = p.cidrs] /\ p.cidrs \in Int
          BY <1>1 DEF Pass0
      <4>2. pass' = [pass EXCEPT ![g] = [p EXCEPT !.pc = "rejected", !.cidrs = p.cidrs]]
          BY <1>12, <3>2, <4>1 DEF ResolveNetworkCidrs, PassBecomes
      <4> QED  BY <4>1, <4>2
    <3>3. CASE ~(p.answer >= 0) /\ known # 0
      <4>1. pass' = [pass EXCEPT ![g] = [p EXCEPT !.pc = "done", !.cidrs = known]]
          BY <1>12, <3>3 DEF ResolveNetworkCidrs, PassBecomes
      <4>2. known \in Int
          BY <1>2
      <4> QED  BY <3>3, <4>1, <4>2
    <3> QED  BY <3>1, <3>2, <3>3
  <2> DEFINE q == [p EXCEPT !.pc = pc, !.cidrs = cidrs]
  <2>2. q \in Pass0 /\ q.pc = pc /\ q.cidrs = cidrs /\ q.seen = p.seen /\ q.cert = p.cert
        /\ q.ports = p.ports /\ q.epoch = p.epoch /\ q.service = p.service /\ q.answer = p.answer
      BY <1>1 DEF Pass0
  <2>3. pass' = [pass EXCEPT ![g] = q]
      BY <2>1
  <2> HIDE DEF q
  <2>4. PortsOk(q, epoch) /\ NetOk(q)
      BY <1>1, <2>0, <2>1, <2>2 DEF PassOk, PortsOk, NetOk, Early
  <2> QED  BY <1>2, <1>3, <1>4, <1>12, <2>0, <2>2, <2>3, <2>4 DEF ResolveNetworkCidrs, PassOk
<1>13. CASE Finished(g)
  <2>1. PassOk(NoPass, secret, made, lastGood, epoch)
      BY <1>1, <1>2, NoPassOk DEF TranslateType
  <2> QED  BY <1>2, <1>3, <1>13, <2>1, NoneTyped DEF Finished
<1> QED  BY <1>5, <1>6, <1>7, <1>8, <1>9, <1>10, <1>11, <1>12, <1>13

\* The cluster changes under the passes: the Secret only ever moves on.
LEMMA ClusterMoves ==
    ASSUME CachesInv,
           \/ DnsChanged \/ DnsClears \/ PortsAge \/ SecretChanges \/ PermissionChanges
           \/ RefsChange \/ PodsChange \/ NetworkChanges
    PROVE  CachesInv'
<1> USE DEF secretVars, portVars, netVars
<1>1. TranslateType
    BY DEF CachesInv
<1>2. CASE DnsChanged
  <2>1. TranslateType' /\ epoch <= epoch' /\ UNCHANGED <<secret, made, lastGood, best, cached, pass>>
      BY <1>1, <1>2 DEF DnsChanged, TranslateType
  <2>2. \A g \in Gateway : PassOk(pass[g], secret, made, lastGood, epoch')
    <3>1. ASSUME NEW g \in Gateway PROVE PassOk(pass[g], secret, made, lastGood, epoch')
      <4>1. PassOk(pass[g], secret, made, lastGood, epoch) /\ pass[g].epoch \in Nat
          BY <1>1 DEF CachesInv, TranslateType, Pass0
      <4>2. epoch \in Nat /\ epoch' \in Nat
          BY <1>1, <2>1 DEF TranslateType
      <4> QED  BY <2>1, <4>1, <4>2 DEF PassOk, PortsOk
    <3> QED  BY <3>1
  <2> QED  BY <2>1, <2>2 DEF CachesInv
<1>3. CASE DnsClears \/ PortsAge
  <2>1. cached' \in Ports0 /\ cached'.at >= cached'.epoch
    <3>1. CASE DnsClears
        BY <3>1, NoneTyped DEF DnsClears, NoPorts
    <3>2. CASE PortsAge
        BY <1>1, <3>2 DEF PortsAge, CachesInv, TranslateType, Ports0
    <3> QED  BY <1>3, <3>1, <3>2
  <2>2. UNCHANGED <<secret, made, lastGood, best, service, pods, epoch, network, known, refs, pass>>
      BY <1>3 DEF DnsClears, PortsAge
  <2>3. TranslateType'
      BY <1>1, <2>1, <2>2 DEF TranslateType
  <2> QED  BY <2>1, <2>2, <2>3 DEF CachesInv
<1>4. CASE SecretChanges
  <2>1. UNCHANGED <<lastGood, best, service, pods, epoch, cached, network, known, refs, pass>>
      BY <1>4 DEF SecretChanges
  <2>2. /\ secret' \in Secret0 /\ made' \in Nat
        /\ secret' = NoSecret \/ (secret'.uid = made' /\ made' > 0)
        /\ made <= made'
        /\ \/ secret'.uid = secret.uid /\ secret'.rv = secret.rv + 1
           \/ secret'.uid = made + 1
           \/ secret' = NoSecret
    <3>1. secret \in Secret0 /\ made \in Nat /\ (secret = NoSecret \/ (secret.uid = made /\ made > 0))
        BY <1>1 DEF CachesInv, TranslateType
    <3>2. CASE \E fine \in BOOLEAN : /\ secret # NoSecret /\ secret' = [secret EXCEPT !.rv = @ + 1, !.good = fine]
                                      /\ UNCHANGED made
      <4>1. PICK fine \in BOOLEAN : secret # NoSecret /\ secret' = [secret EXCEPT !.rv = @ + 1, !.good = fine] /\ made' = made
          BY <3>2
      <4>2. secret' \in Secret0 /\ secret'.uid = secret.uid /\ secret'.rv = secret.rv + 1
        <5>1. secret.rv \in Nat /\ secret.rv + 1 \in Nat
            BY <3>1 DEF Secret0
        <5>2. [secret EXCEPT !.rv = secret.rv + 1] \in Secret0
            BY <3>1, <5>1 DEF Secret0
        <5>3. [secret EXCEPT !.rv = secret.rv + 1, !.good = fine] \in Secret0
            BY <5>2 DEF Secret0
        <5>4. secret' \in Secret0
            BY <4>1, <5>3
        <5>5. secret'.uid = secret.uid /\ secret'.rv = secret.rv + 1
            BY <3>1, <4>1 DEF Secret0
        <5> QED  BY <5>4, <5>5
      <4> QED  BY <3>1, <4>1, <4>2
    <3>3. CASE secret' = NoSecret /\ UNCHANGED made
        BY <3>1, <3>3, NoneTyped
    <3>4. CASE \E fine \in BOOLEAN : /\ secret = NoSecret /\ secret' = [uid |-> made + 1, rv |-> 1, good |-> fine]
                                      /\ made' = made + 1
      <4>1. PICK fine \in BOOLEAN : secret' = [uid |-> made + 1, rv |-> 1, good |-> fine] /\ made' = made + 1
          BY <3>4
      <4>2. made + 1 \in Nat /\ made + 1 > 0
          BY <3>1
      <4>3. [uid |-> made + 1, rv |-> 1, good |-> fine] \in Secret0
          BY <4>2 DEF Secret0
      <4>4. secret' \in Secret0 /\ secret'.uid = made + 1
          BY <4>1, <4>3
      <4> QED  BY <3>1, <4>1, <4>2, <4>4
    <3> QED  BY <1>4, <3>2, <3>3, <3>4 DEF SecretChanges
  <2>3. TranslateType'
      BY <1>1, <2>1, <2>2 DEF TranslateType
  <2>4. secret \in Secret0 /\ made \in Nat /\ lastGood \in Pair0 /\ GoodAgo(lastGood, secret, made)
      BY <1>1 DEF CachesInv, TranslateType
  <2>5. secret'.uid \in Nat /\ secret'.rv \in Nat /\ secret.uid \in Nat /\ secret.rv \in Nat
        /\ NoSecret.uid = 0 /\ lastGood.rv \in Nat
      BY <2>2, <2>4 DEF Secret0, NoSecret, Pair0
  <2>6. GoodAgo(lastGood, secret', made')
      BY <2>2, <2>4, <2>5 DEF GoodAgo
  <2>7. ASSUME NEW g \in Gateway PROVE PassOk(pass[g], secret', made', lastGood, epoch)
    <3> DEFINE seen == pass[g].seen
    <3>1. PassOk(pass[g], secret, made, lastGood, epoch) /\ seen \in Secret0
        BY <1>1 DEF CachesInv, TranslateType, Pass0
    <3>2. seen.uid \in Nat /\ seen.rv \in Nat
        BY <3>1 DEF Secret0
    <3>3. Ago(seen, secret, made)
        BY <3>1 DEF PassOk, CertOk
    <3>4. Ago(seen, secret', made')
      <4>1. CASE seen = NoSecret
        <5>1. secret'.uid = 0 => secret' = NoSecret
            BY <2>2, <2>5
        <5>2. secret'.uid = secret.uid => secret'.uid # 0 \/ secret' = NoSecret
            BY <5>1
        <5> QED  BY <2>2, <2>5, <4>1, <5>1 DEF Ago
      <4>2. CASE seen # NoSecret
          BY <2>2, <2>4, <2>5, <3>2, <3>3, <4>2 DEF Ago
      <4> QED  BY <4>1, <4>2
    <3> QED  BY <3>1, <3>4 DEF PassOk, CertOk
  <2> QED  BY <2>1, <2>2, <2>3, <2>6, <2>7 DEF CachesInv
<1>5. CASE PermissionChanges \/ RefsChange \/ PodsChange \/ NetworkChanges
  <2>1. UNCHANGED <<secret, made, lastGood, best, epoch, cached, pass>>
      BY <1>5 DEF PermissionChanges, RefsChange, PodsChange, NetworkChanges
  <2>2. TranslateType'
      BY <1>1, <1>5 DEF PermissionChanges, RefsChange, PodsChange, NetworkChanges, TranslateType
  <2> QED  BY <2>1, <2>2 DEF CachesInv
<1> QED  BY <1>2, <1>3, <1>4, <1>5

LEMMA CachesStep == CachesInv /\ [TranslateNext]_translateVars => CachesInv'
<1> SUFFICES ASSUME CachesInv, [TranslateNext]_translateVars PROVE CachesInv'
    OBVIOUS
<1>1. CASE TranslateNext
    BY <1>1, CertStep, PortsStep, ClusterMoves DEF TranslateNext
<1>2. CASE UNCHANGED translateVars
    BY <1>2 DEF CachesInv, TranslateType, translateVars, secretVars, portVars, netVars
<1> QED  BY <1>1, <1>2

\* Whatever passes run beside each other, for any number of Gateways, passes
\* and changes: no older pair comes back after a bad rotation, a pass serves
\* the certificate of the Secret it read, ports are no older than the DNS
\* change it follows and a network that was not read is not taken for gone
\* (validate.rs, services.rs, addresses.rs).
THEOREM TranslateCorrect == TranslateSpec => []CachesAreCurrent
<1>1. CachesInv => CachesAreCurrent
  <2> SUFFICES ASSUME CachesInv PROVE CachesAreCurrent
      OBVIOUS
  <2>1. lastGood = best /\ \A g \in Gateway : PassOk(pass[g], secret, made, lastGood, epoch)
      BY DEF CachesInv
  <2> QED  BY <2>1 DEF CachesAreCurrent, PassOk, CertOk, PortsOk, NetOk
<1> QED  BY <1>1, CachesInit, CachesStep, PTL DEF TranslateSpec

-----------------------------------------------------------------------------
(* SyncTrust: one CA, and answers that are true of their poll.              *)

World0  == [up : BOOLEAN, proxied : BOOLEAN, bad : SUBSET {-1}, deletes : Nat, stops : Nat,
            fails : Nat, polls : Nat, edits : Nat, nonces : Nat]
Loading == {"off", "get", "create", "reget", "mapGet", "mapReget", "mapCreate", "mapPatch"}
Publishing == {"mapGet", "mapReget", "mapCreate", "mapPatch", "up"}
Rep0    == [pc : Loading \cup {"up"}, ca : Nat, since : BOOLEAN]
Request0 == [nonce : Nat, at : Controller, have : Nat, leaving : BOOLEAN, pc : {"new", "body", "held"}]
Ask0    == [nonce : Nat, have : Nat, leaving : BOOLEAN, seen : SUBSET Nat, sawGone : BOOLEAN]
Taken   == {"none", "snapshot", "unchanged", "pending", "leave", "gone", "unverified", "standby", "refused"}
Took0   == [kind : Taken, over : Nat, ca : Nat, own : BOOLEAN, of : Ask0]
Client0 == [root : Nat, conn : Controller \cup {Nobody}, have : Nat, poll : Ask0, nonce : Nat, took : Took0]

AuthorityType ==
    /\ caSecret \in Nat \cup {BadCa} /\ caMap \in Nat /\ drawn \in Nat
    /\ rep \in [Controller -> Rep0]

\* A replica that loaded since the last deletion has the CA of the Secret,
\* and the ConfigMap has it once the last of them published.
AuthorityInv ==
    /\ AuthorityType
    /\ \A r \in Controller :
          /\ rep[r].since => rep[r].ca = caSecret /\ caSecret # NoCa
          /\ rep[r].pc \in Publishing => rep[r].ca # NoCa
    /\ (\A r \in Controller : Runs(r) /\ rep[r].since) => caMap = caSecret

TrustType ==
    /\ uses \in World0
    /\ head \in Controller \cup {Nobody} /\ cfg \in Nat /\ hub \in [Controller -> Nat]
    /\ open \subseteq Request0 /\ client \in Client0

\* An answer on its way is signed over its kind, its poll and what it states,
\* or states nothing.
Sealed(a) ==
    /\ a.to \in Nat \ {0} /\ a.over \in Nat /\ a.ca \in Nat
    /\ \/ a.kind \in {"standby", "refused"}
       \/ /\ a.kind \in {"snapshot", "unchanged", "pending", "gone", "leave"}
          /\ a.msg = <<a.kind, a.to, a.over>>

\* What it states is true of the poll it answers.
TrueOf(a, p) ==
    /\ a.kind = "snapshot"  => a.over \in p.seen
    /\ a.kind = "unchanged" => a.over = p.have /\ p.have \in p.seen /\ p.have > 0 /\ ~p.leaving
    /\ a.kind = "pending"   => a.over = 0 /\ 0 \in p.seen /\ ~p.leaving
    /\ a.kind = "gone"      => a.over = 0 /\ p.sawGone
    /\ a.kind = "leave"     => a.over = 0 /\ p.leaving

\* A request the leader has begun to read is at the leader, and is the one
\* the client sent.
Asked(q, p, n, h) ==
    /\ q.nonce \in 1 .. n
    /\ q.pc # "new" => q.at = h
    /\ q.pc = "held" => ~q.leaving
    /\ q.nonce = p.nonce => q.have = p.have /\ q.leaving = p.leaving

\* A poll under way has seen what the leader serves.
Watching(p, n, h, served, version) ==
    /\ p = NoPoll \/ p.nonce = n
    /\ p.nonce # 0 => (h # Nobody => served[h] \in p.seen) /\ (version = 0 => p.sawGone)

PollInv ==
    /\ TrustType
    /\ \A q \in open : Asked(q, client.poll, client.nonce, head)
    /\ \A a \in wire : Sealed(a) /\ a.to <= client.nonce /\ (a.to = client.poll.nonce => TrueOf(a, client.poll))
    /\ Watching(client.poll, client.nonce, head, hub, cfg)
    /\ ToldTheTruth

TrustInv == AuthorityInv /\ PollInv

LEMMA TrustTyped ==
    /\ Off \in Rep0 /\ Off.pc = "off" /\ ~Off.since
    /\ NoPoll \in Ask0 /\ NoPoll.nonce = 0 /\ Naught \in Took0 /\ Naught.kind = "none"
    /\ Nobody \notin Controller
<1>1. Off \in Rep0 /\ Off.pc = "off" /\ ~Off.since
    BY DEF Off, NoCa, Rep0, Loading
<1>2. NoPoll \in Ask0 /\ NoPoll.nonce = 0
    BY DEF NoPoll, Ask0
<1>3. Naught \in Took0 /\ Naught.kind = "none"
    BY <1>2 DEF Naught, Took0, Taken, NoCa
<1> QED  BY <1>1, <1>2, <1>3, TrustAssumption DEF Nobody

LEMMA TrustInitial == TrustInit => TrustInv
<1> SUFFICES ASSUME TrustInit PROVE TrustInv
    OBVIOUS
<1>1. uses \in World0
    BY TrustAssumption DEF TrustInit, World0
<1>2. AuthorityInv
  <2>1. CASE uses.up
    <3>1. caSecret = 1 /\ caMap = 1 /\ drawn = 1
        BY <2>1 DEF TrustInit
    <3>2. [pc |-> "up", ca |-> 1, since |-> TRUE] \in Rep0
        BY DEF Rep0
    <3>3. rep = [r \in Controller |-> [pc |-> "up", ca |-> 1, since |-> TRUE]]
        BY <2>1 DEF TrustInit
    <3> QED  BY <3>1, <3>2, <3>3 DEF AuthorityInv, AuthorityType, NoCa, Publishing
  <2>2. CASE ~uses.up
    <3>1. caSecret = 0 /\ caMap = 0 /\ drawn = 0
        BY <2>2 DEF TrustInit, NoCa
    <3>2. rep = [r \in Controller |-> Off]
        BY <2>2 DEF TrustInit
    <3> QED  BY <3>1, <3>2, TrustTyped DEF AuthorityInv, AuthorityType, Publishing
  <2> QED  BY <2>1, <2>2
<1>3. PollInv
  <2>1. client \in Client0
      BY TrustTyped DEF TrustInit, Client0, NoCa
  <2>2. client.poll = NoPoll /\ client.took = Naught
      BY DEF TrustInit
  <2>3. TrustType
      BY <1>1, <2>1 DEF TrustInit, TrustType
  <2>4. ToldTheTruth
      BY <2>2, TrustTyped DEF ToldTheTruth
  <2>5. Watching(client.poll, client.nonce, head, hub, cfg)
      BY <2>2, TrustTyped DEF Watching
  <2> QED  BY <2>3, <2>4, <2>5 DEF TrustInit, PollInv
<1> QED  BY <1>2, <1>3 DEF TrustInv

LEMMA Spending ==
    ASSUME uses \in World0, NEW what \in {"deletes", "stops", "fails", "polls", "edits"}, SpendUse(what)
    PROVE  uses' \in World0
BY DEF SpendUse, World0

\* What one replica's load and publish may do to the CA.
LEMMA ReplicaMoves ==
    ASSUME AuthorityInv, NEW r \in Controller, NEW n \in Rep0, rep' = [rep EXCEPT ![r] = n],
           caSecret' \in Nat \cup {BadCa}, caMap' \in Nat, drawn' \in Nat,
           caSecret' = caSecret \/ (caSecret = NoCa /\ ~n.since) \/ (caSecret = NoCa /\ n.ca = caSecret' /\ caSecret' # NoCa),
           n.since => n.ca = caSecret' /\ caSecret' # NoCa,
           n.pc \in Publishing => n.ca # NoCa,
           n.pc = "up" => caMap' = n.ca,
           n.pc = "up" \/ caMap' = caMap
    PROVE  AuthorityInv'
<1>1. AuthorityType'
    BY DEF AuthorityInv, AuthorityType
<1>2. rep'[r] = n /\ \A s \in Controller \ {r} : rep'[s] = rep[s]
    BY DEF AuthorityInv, AuthorityType
<1>3. \A s \in Controller :
        /\ rep'[s].since => rep'[s].ca = caSecret' /\ caSecret' # NoCa
        /\ rep'[s].pc \in Publishing => rep'[s].ca # NoCa
    BY <1>2 DEF AuthorityInv
<1>4. (\A s \in Controller : rep'[s].pc = "up" /\ rep'[s].since) => caMap' = caSecret'
    BY <1>2, <1>3
<1> QED  BY <1>1, <1>3, <1>4 DEF AuthorityInv, Runs

LEMMA AuthorityStep ==
    ASSUME AuthorityInv, uses \in World0, NEW r \in Controller,
           \/ StartReplica(r) \/ GetSecret(r) \/ CreateSecret(r) \/ CreateUnanswered(r)
           \/ RegetSecret(r) \/ GetMap(r) \/ CreateMap(r) \/ PatchMap(r)
           \/ LoadFails(r) \/ StopReplica(r)
    PROVE  AuthorityInv'
<1> USE DEF caState, At
<1> DEFINE o == rep[r]
<1>1. /\ caSecret \in Nat \cup {BadCa} /\ caMap \in Nat /\ drawn \in Nat /\ o \in Rep0
      /\ o.ca \in Nat /\ (o.since => o.ca = caSecret /\ caSecret # NoCa)
      /\ rep \in [Controller -> Rep0] /\ (o.pc \in Publishing => o.ca # NoCa)
    BY DEF AuthorityInv, AuthorityType, Rep0
<1>2. ASSUME NEW pc \in Loading \cup {"up"}, Goes(r, pc)
      PROVE  LET n == [o EXCEPT !.pc = pc] IN
             rep' = [rep EXCEPT ![r] = n] /\ n \in Rep0 /\ n.pc = pc /\ n.ca = o.ca /\ n.since = o.since
    BY <1>1, <1>2 DEF Goes, Rep0
<1>3. ASSUME NEW pc \in Loading, Goes(r, pc), caSecret' = caSecret, caMap' = caMap, drawn' \in Nat,
             pc \in Publishing => o.pc \in Publishing
      PROVE  AuthorityInv'
  <2> DEFINE n == [o EXCEPT !.pc = pc]
  <2>1. rep' = [rep EXCEPT ![r] = n] /\ n \in Rep0 /\ n.pc = pc /\ n.ca = o.ca /\ n.since = o.since
      BY <1>2, <1>3
  <2>2. pc # "up"
      BY DEF Loading
  <2> HIDE DEF n
  <2> QED  BY <1>1, <1>3, <2>1, <2>2, ReplicaMoves
<1>4. ASSUME NEW ca \in Nat \cup {BadCa}, Holds(r, ca, TRUE), caMap' = caMap, drawn' \in Nat,
             ca = caSecret' /\ ca # NoCa, caSecret' = caSecret \/ caSecret = NoCa
      PROVE  AuthorityInv'
  <2>1. CASE ca = BadCa
    <3>1. rep' = [rep EXCEPT ![r] = Off]
        BY <1>4, <2>1 DEF Holds
    <3> QED  BY <1>1, <1>4, <3>1, TrustTyped, ReplicaMoves DEF Publishing
  <2>2. CASE ca # BadCa
    <3> DEFINE n == [pc |-> "mapGet", ca |-> ca, since |-> TRUE]
    <3>1. rep' = [rep EXCEPT ![r] = n]
        BY <1>4, <2>2 DEF Holds
    <3>2. n \in Rep0 /\ n.pc = "mapGet" /\ n.ca = ca
        BY <1>4, <2>2 DEF Rep0, Loading
    <3> HIDE DEF n
    <3> QED  BY <1>1, <1>4, <3>1, <3>2, ReplicaMoves
  <2> QED  BY <2>1, <2>2
<1>5. ASSUME Goes(r, "up"), caSecret' = caSecret, caMap' = o.ca, drawn' = drawn, o.pc \in Publishing
      PROVE  AuthorityInv'
  <2> DEFINE n == [o EXCEPT !.pc = "up"]
  <2>1. rep' = [rep EXCEPT ![r] = n] /\ n \in Rep0 /\ n.pc = "up" /\ n.ca = o.ca /\ n.since = o.since
      BY <1>2, <1>5
  <2> HIDE DEF n
  <2> QED  BY <1>1, <1>5, <2>1, ReplicaMoves
<1>6. CASE StartReplica(r)
    BY <1>1, <1>3, <1>6 DEF StartReplica, Loading, Publishing
<1>7. CASE GetSecret(r)
    BY <1>1, <1>3, <1>4, <1>7 DEF GetSecret, Loading, Publishing
<1>8. CASE CreateSecret(r)
  <2>1. drawn' \in Nat /\ drawn' # NoCa /\ drawn' # BadCa
      BY <1>1, <1>8 DEF CreateSecret, NoCa, BadCa
  <2> QED  BY <1>1, <1>3, <1>4, <1>8, <2>1 DEF CreateSecret, Loading, Publishing
<1>9. CASE CreateUnanswered(r)
  <2>1. drawn' \in Nat /\ drawn' # NoCa /\ caSecret' = drawn' /\ caSecret = NoCa /\ caMap' = caMap
      BY <1>1, <1>9 DEF CreateUnanswered, NoCa
  <2> DEFINE n == [o EXCEPT !.pc = "get"]
  <2>2. rep' = [rep EXCEPT ![r] = n] /\ n \in Rep0 /\ n.pc = "get" /\ n.ca = o.ca /\ n.since = o.since
      BY <1>2, <1>9 DEF CreateUnanswered, Loading, Publishing
  <2> HIDE DEF n
  <2>3. ~n.since
      BY <1>1, <2>1, <2>2
  <2> QED  BY <1>1, <2>1, <2>2, <2>3, ReplicaMoves DEF Publishing
<1>10. CASE RegetSecret(r)
    BY <1>1, <1>3, <1>4, <1>10 DEF RegetSecret, Loading, Publishing
<1>11. CASE GetMap(r)
  <2>1. CASE caMap = o.ca
    <3>1. Goes(r, "up")
        BY <1>1, <1>11, <2>1 DEF GetMap, Publishing
    <3> QED  BY <1>5, <1>11, <2>1, <3>1 DEF GetMap, Publishing
  <2>2. CASE caMap # o.ca
    <3>1. PICK pc \in Loading : Goes(r, pc)
        BY <1>11, <2>2 DEF GetMap, Loading, Publishing
    <3> QED  BY <1>1, <1>3, <1>11, <3>1 DEF GetMap, Publishing
  <2> QED  BY <2>1, <2>2
<1>12. CASE CreateMap(r)
    BY <1>1, <1>3, <1>5, <1>12 DEF CreateMap, Loading, Publishing
<1>13. CASE PatchMap(r)
    BY <1>5, <1>13 DEF PatchMap, Publishing
<1>14. CASE LoadFails(r)
  <2> DEFINE n == [Off EXCEPT !.pc = "get"]
  <2>1. n \in Rep0 /\ n.pc = "get" /\ ~n.since
      BY TrustTyped DEF Rep0, Loading, Publishing
  <2>2. rep' = [rep EXCEPT ![r] = n]
      BY <1>14 DEF LoadFails
  <2> HIDE DEF n
  <2> QED  BY <1>1, <1>14, <2>1, <2>2, ReplicaMoves DEF LoadFails, Publishing
<1>15. CASE StopReplica(r)
    BY <1>1, <1>15, TrustTyped, ReplicaMoves DEF StopReplica, Publishing
<1> QED  BY <1>6, <1>7, <1>8, <1>9, <1>10, <1>11, <1>12, <1>13, <1>14, <1>15

LEMMA DeletionStep ==
    ASSUME AuthorityInv, uses \in World0, DeleteSecret
    PROVE  AuthorityInv'
<1>1. caSecret' \in Nat \cup {BadCa} /\ UNCHANGED <<caMap, drawn>>
    BY DEF DeleteSecret, World0, BadCa, NoCa
<1>2. rep' \in [Controller -> Rep0]
      /\ \A r \in Controller : ~rep'[r].since /\ rep'[r].pc = rep[r].pc /\ rep'[r].ca = rep[r].ca
  <2>1. \A r \in Controller :
            LET n == [rep[r] EXCEPT !.since = FALSE] IN
            n \in Rep0 /\ ~n.since /\ n.pc = rep[r].pc /\ n.ca = rep[r].ca
      BY DEF AuthorityInv, AuthorityType, Rep0
  <2> QED  BY <2>1 DEF DeleteSecret
<1> QED  BY <1>1, <1>2, TrustAssumption DEF AuthorityInv, AuthorityType

\* The CA's own steps leave the polls alone.
LEMMA PollsAlone ==
    ASSUME PollInv, uses' \in World0, UNCHANGED pollState
    PROVE  PollInv'
BY DEF PollInv, TrustType, pollState, ToldTheTruth

\* What the client of a poll under way comes to have seen.
LEMMA WatchedFacts ==
    ASSUME client \in Client0, NEW h \in SUBSET Nat, NEW g \in BOOLEAN
    PROVE  LET c == Watched(h, g) IN
           /\ c \in Client0 /\ c.took = client.took /\ c.root = client.root /\ c.nonce = client.nonce
           /\ c.poll.nonce = client.poll.nonce /\ c.poll.have = client.poll.have
           /\ c.poll.leaving = client.poll.leaving
           /\ client.poll.seen \subseteq c.poll.seen /\ (client.poll.sawGone => c.poll.sawGone)
           /\ client.poll = NoPoll => c.poll = NoPoll
           /\ client.poll # NoPoll => h \subseteq c.poll.seen /\ (g => c.poll.sawGone)
<1>1. CASE client.poll = NoPoll
    BY <1>1 DEF Watched
<1>2. CASE client.poll # NoPoll
  <2> DEFINE a == [client.poll EXCEPT !.seen = @ \cup h, !.sawGone = @ \/ g]
  <2>1. Watched(h, g) = [client EXCEPT !.poll = a]
      BY <1>2 DEF Watched, Client0, Ask0
  <2>2. client.poll \in Ask0
      BY DEF Client0
  <2>3. (client.poll.sawGone \/ g) \in BOOLEAN /\ client.poll.seen \cup h \in SUBSET Nat
      BY <2>2 DEF Ask0
  <2>4. /\ a \in Ask0 /\ a.nonce = client.poll.nonce /\ a.have = client.poll.have
        /\ a.leaving = client.poll.leaving /\ a.seen = client.poll.seen \cup h
      BY <2>2, <2>3 DEF Ask0
  <2>5. a.sawGone <=> (client.poll.sawGone \/ g)
      BY <2>2, <2>3 DEF Ask0
  <2> HIDE DEF a
  <2>6. LET c == [client EXCEPT !.poll = a] IN
        c \in Client0 /\ c.poll = a /\ c.took = client.took /\ c.root = client.root /\ c.nonce = client.nonce
      BY <2>4 DEF Client0
  <2> QED  BY <1>2, <2>1, <2>4, <2>5, <2>6
<1> QED  BY <1>1, <1>2

\* The leader, its version or the Gateway changes, and the poll sees it.
LEMMA LeaderMoves ==
    ASSUME PollInv, uses' \in World0, UNCHANGED <<open, wire>>,
           NEW h \in SUBSET Nat, NEW g \in BOOLEAN, client' = Watched(h, g),
           head' \in Controller \cup {Nobody}, cfg' \in Nat, hub' \in [Controller -> Nat],
           head' = head \/ head = Nobody,
           head' # Nobody => hub'[head'] \in h \/ (head' = head /\ hub'[head'] = hub[head]),
           cfg' = 0 => g \/ cfg = 0
    PROVE  PollInv'
<1> DEFINE p == client.poll
           n == client'.poll
<1>1. client \in Client0 /\ p \in Ask0 /\ open \subseteq Request0
    BY DEF PollInv, TrustType, Client0
<1>2. /\ client' \in Client0 /\ client'.took = client.took /\ client'.root = client.root
      /\ client'.nonce = client.nonce /\ n.nonce = p.nonce /\ n.have = p.have
      /\ n.leaving = p.leaving /\ p.seen \subseteq n.seen /\ (p.sawGone => n.sawGone)
      /\ p = NoPoll => n = NoPoll
      /\ p # NoPoll => h \subseteq n.seen /\ (g => n.sawGone)
    BY <1>1, WatchedFacts
<1>3. TrustType'
    BY <1>2 DEF PollInv, TrustType
<1>4. \A q \in open : Asked(q, n, client.nonce, head')
  <2>1. ASSUME NEW q \in open PROVE Asked(q, n, client.nonce, head')
    <3>1. Asked(q, p, client.nonce, head) /\ q.at \in Controller
        BY <1>1 DEF PollInv, Request0
    <3> QED  BY <1>2, <3>1, TrustTyped DEF Asked
  <2> QED  BY <2>1
<1>5. \A a \in wire : a.to = n.nonce => TrueOf(a, n)
    BY <1>2 DEF PollInv, TrueOf
<1>6. Watching(n, client.nonce, head', hub', cfg')
  <2>1. CASE p = NoPoll
      BY <1>2, <2>1, TrustTyped DEF Watching
  <2>2. CASE p # NoPoll
      BY <1>2, <2>2 DEF PollInv, Watching
  <2> QED  BY <2>1, <2>2
<1>7. ToldTheTruth'
    BY <1>2 DEF PollInv, ToldTheTruth
<1> QED  BY <1>2, <1>3, <1>4, <1>5, <1>6, <1>7 DEF PollInv

LEMMA LeaderStep ==
    ASSUME PollInv,
           (\E r \in Controller : Lead(r)) \/ PublishVersion \/ EditConfig \/ DeleteGateway
    PROVE  PollInv'
<1>1. /\ uses \in World0 /\ head \in Controller \cup {Nobody} /\ cfg \in Nat
      /\ hub \in [Controller -> Nat] /\ client \in Client0
    BY DEF PollInv, TrustType
<1>2. ASSUME NEW r \in Controller, Lead(r) PROVE PollInv'
  <2>1. {hub[r]} \in SUBSET Nat
      BY <1>1
  <2> QED  BY <1>1, <1>2, <2>1, LeaderMoves DEF Lead
<1>3. CASE PublishVersion
  <2>1. hub' \in [Controller -> Nat] /\ hub'[head] = cfg /\ {cfg} \in SUBSET Nat
      BY <1>1, <1>3 DEF PublishVersion
  <2> QED  BY <1>1, <1>3, <2>1, LeaderMoves DEF PublishVersion
<1>4. CASE EditConfig
  <2>1. uses' \in World0 /\ cfg' \in Nat /\ cfg' # 0 /\ UNCHANGED <<head, hub, open, wire, client>>
      BY <1>1, <1>4, Spending DEF EditConfig
  <2>2. TrustType' /\ ToldTheTruth'
      BY <2>1 DEF PollInv, TrustType, ToldTheTruth
  <2>3. Watching(client.poll, client.nonce, head, hub, cfg')
      BY <2>1 DEF PollInv, Watching
  <2> QED  BY <2>1, <2>2, <2>3 DEF PollInv
<1>5. CASE DeleteGateway
  <2>1. uses' \in World0
      BY <1>1, <1>5, Spending DEF DeleteGateway
  <2> QED  BY <1>1, <1>5, <2>1, LeaderMoves DEF DeleteGateway
<1> QED  BY <1>2, <1>3, <1>4, <1>5

\* A replica stops: its requests go, and the poll of a connection to it.
LEMMA StopStep ==
    ASSUME PollInv, NEW r \in Controller, StopReplica(r)
    PROVE  PollInv'
<1> DEFINE p == client.poll
           n == client'.poll
<1>1. /\ uses \in World0 /\ head \in Controller \cup {Nobody} /\ cfg \in Nat
      /\ hub \in [Controller -> Nat] /\ client \in Client0 /\ open \subseteq Request0
    BY DEF PollInv, TrustType
<1>2. uses' \in World0 /\ UNCHANGED <<cfg, wire>>
    BY <1>1, Spending DEF StopReplica
<1>3. /\ client' \in Client0 /\ client'.took = client.took /\ client'.root = client.root
      /\ client'.nonce = client.nonce /\ (n = p \/ n = NoPoll)
    BY <1>1, TrustTyped DEF StopReplica, Client0
<1>4. /\ hub' \in [Controller -> Nat] /\ head' \in Controller \cup {Nobody}
      /\ head' # Nobody => head' = head /\ hub'[head'] = hub[head] /\ head # r
      /\ head' = Nobody => head \in {r, Nobody}
    BY <1>1 DEF StopReplica
<1>5. open' \subseteq open /\ \A q \in open' : q.at # r
    BY DEF StopReplica
<1>6. TrustType'
    BY <1>1, <1>2, <1>3, <1>4, <1>5 DEF TrustType
<1>7. ASSUME NEW q \in open' PROVE Asked(q, n, client.nonce, head')
  <2>1. Asked(q, p, client.nonce, head) /\ q.at \in Controller /\ q.at # r
      BY <1>1, <1>5 DEF PollInv, Request0
  <2>2. q.nonce # 0
      BY <2>1 DEF Asked
  <2> QED  BY <1>3, <1>4, <2>1, <2>2, TrustTyped DEF Asked
<1>8. \A a \in wire : a.to = n.nonce => TrueOf(a, n)
    BY <1>3, TrustTyped DEF PollInv, Sealed
<1>9. Watching(n, client.nonce, head', hub', cfg)
    BY <1>3, <1>4, TrustTyped DEF PollInv, Watching
<1>10. ToldTheTruth'
    BY <1>3 DEF PollInv, ToldTheTruth
<1> QED  BY <1>2, <1>3, <1>6, <1>7, <1>8, <1>9, <1>10 DEF PollInv

\* The requests and answers change, the client and the leader do not.
LEMMA ServerMoves ==
    ASSUME PollInv, UNCHANGED <<uses, head, cfg, hub, client>>,
           \A q \in open' : q \in Request0 /\ Asked(q, client.poll, client.nonce, head),
           \A a \in wire' : \/ a \in wire
                            \/ /\ Sealed(a) /\ a.to <= client.nonce
                               /\ a.to = client.poll.nonce => TrueOf(a, client.poll)
    PROVE  PollInv'
BY DEF PollInv, TrustType, ToldTheTruth

LEMMA ServerStep ==
    ASSUME TrustInv, NEW q \in open, TurnAway(q) \/ StartBody(q) \/ ReadBody(q) \/ AnswerPoll(q)
    PROVE  PollInv'
<1> DEFINE p == client.poll
<1>0. PollInv /\ AuthorityInv
    BY DEF TrustInv
<1>1. /\ q \in Request0 /\ Asked(q, p, client.nonce, head) /\ hub \in [Controller -> Nat] /\ cfg \in Nat
      /\ client \in Client0 /\ p \in Ask0 /\ open \subseteq Request0
      /\ head \in Controller \cup {Nobody}
      /\ \A o \in open : o \in Request0 /\ Asked(o, p, client.nonce, head)
    BY <1>0 DEF PollInv, TrustType, Client0
<1>2. /\ q.nonce \in Nat \ {0} /\ q.nonce <= client.nonce /\ q.at \in Controller /\ q.have \in Nat
      /\ q.leaving \in BOOLEAN /\ client.nonce \in Nat /\ p.nonce \in Nat
    BY <1>1 DEF Asked, Request0, Client0, Ask0
<1>3. rep[q.at].ca \in Nat
    BY <1>0, <1>2 DEF AuthorityInv, AuthorityType, Rep0
<1>4. q.pc # "new" => q.at = head /\ hub[q.at] \in Nat
                       /\ (q.nonce = p.nonce => hub[q.at] \in p.seen /\ (cfg = 0 => p.sawGone))
  <2> HAVE q.pc # "new"
  <2>1. q.at = head /\ head # Nobody
      BY <1>1, <1>2, TrustTyped DEF Asked
  <2>2. Watching(p, client.nonce, head, hub, cfg)
      BY <1>0 DEF PollInv
  <2> QED  BY <1>1, <1>2, <2>1, <2>2 DEF Watching
<1>5. ASSUME NEW kind \in {"snapshot", "unchanged", "pending", "gone", "leave"}, NEW over \in Nat
      PROVE  LET a == Signed(q, kind, over) IN
             Sealed(a) /\ a.to = q.nonce /\ a.kind = kind /\ a.over = over
    BY <1>2, <1>3 DEF Signed, Sealed, Message
<1>6. ASSUME NEW a, Answer(q, a), Sealed(a), a.to = q.nonce, q.nonce = p.nonce => TrueOf(a, p),
             UNCHANGED <<uses, head, cfg, hub, client>>
      PROVE  PollInv'
  <2>1. open' \subseteq open /\ wire' = wire \cup {a}
      BY <1>6 DEF Answer
  <2> QED  BY <1>0, <1>1, <1>2, <1>6, <2>1, ServerMoves
<1>7. CASE TurnAway(q)
  <2>1. PICK kind \in {"standby", "refused"} : Answer(q, Unsigned(q, kind))
      BY <1>7 DEF TurnAway
  <2> DEFINE a == Unsigned(q, kind)
  <2>2. Sealed(a) /\ a.to = q.nonce /\ TrueOf(a, p)
      BY <1>2 DEF Unsigned, Sealed, TrueOf, NoCa
  <2> HIDE DEF a
  <2> QED  BY <1>6, <1>7, <2>1, <2>2 DEF TurnAway, a
<1>8. CASE StartBody(q)
  <2> DEFINE n == [q EXCEPT !.pc = "body"]
  <2>1. n \in Request0 /\ n.pc = "body" /\ n.at = q.at /\ n.nonce = q.nonce /\ n.have = q.have
        /\ n.leaving = q.leaving
      BY <1>1 DEF Request0
  <2> HIDE DEF n
  <2>2. Asked(n, p, client.nonce, head)
      BY <1>1, <1>8, <2>1 DEF Asked, StartBody
  <2>3. open' = (open \ {q}) \cup {n} /\ UNCHANGED <<uses, head, cfg, hub, client, wire>>
      BY <1>8 DEF StartBody, n
  <2> QED  BY <1>0, <1>1, <2>1, <2>2, <2>3, ServerMoves
<1>9. CASE ReadBody(q)
  <2>0. q.pc = "body" /\ UNCHANGED <<uses, head, cfg, hub, client>>
      BY <1>9 DEF ReadBody
  <2>1. CASE cfg = 0 /\ Answer(q, Signed(q, "gone", 0))
    <3> DEFINE a == Signed(q, "gone", 0)
    <3>1. Sealed(a) /\ a.to = q.nonce /\ a.kind = "gone" /\ a.over = 0
        BY <1>5
    <3> HIDE DEF a
    <3>2. q.nonce = p.nonce => TrueOf(a, p)
        BY <1>4, <2>0, <2>1, <3>1 DEF TrueOf
    <3> QED  BY <1>6, <2>0, <2>1, <3>1, <3>2 DEF a
  <2>2. CASE q.leaving /\ Answer(q, Signed(q, "leave", 0))
    <3> DEFINE a == Signed(q, "leave", 0)
    <3>1. Sealed(a) /\ a.to = q.nonce /\ a.kind = "leave" /\ a.over = 0
        BY <1>5
    <3> HIDE DEF a
    <3>2. q.nonce = p.nonce => TrueOf(a, p)
        BY <1>1, <2>2, <3>1 DEF TrueOf, Asked
    <3> QED  BY <1>6, <2>0, <2>2, <3>1, <3>2 DEF a
  <2>3. CASE ~q.leaving /\ open' = {IF o = q THEN [q EXCEPT !.pc = "held"] ELSE o : o \in open} /\ wire' = wire
    <3> DEFINE n == [q EXCEPT !.pc = "held"]
    <3>1. n \in Request0 /\ n.pc = "held" /\ n.at = q.at /\ n.nonce = q.nonce /\ n.have = q.have
          /\ n.leaving = q.leaving
        BY <1>1 DEF Request0
    <3> HIDE DEF n
    <3>2. Asked(n, p, client.nonce, head)
        BY <1>1, <2>0, <2>3, <3>1 DEF Asked
    <3>3. \A o \in open' : o \in open \/ o = n
        BY <2>3 DEF n
    <3> QED  BY <1>0, <1>1, <2>0, <2>3, <3>1, <3>2, <3>3, ServerMoves
  <2> QED  BY <1>9, <2>1, <2>2, <2>3 DEF ReadBody
<1>10. CASE AnswerPoll(q)
  <2>0. q.pc = "held" /\ ~q.leaving /\ UNCHANGED <<uses, head, cfg, hub, client>>
      BY <1>1, <1>10 DEF AnswerPoll, Asked
  <2>1. CASE cfg = 0
    <3> DEFINE a == Signed(q, "gone", 0)
    <3>1. Sealed(a) /\ a.to = q.nonce /\ a.kind = "gone" /\ a.over = 0
        BY <1>5
    <3>2. Answer(q, a)
        BY <1>10, <2>1 DEF AnswerPoll
    <3> HIDE DEF a
    <3>3. q.nonce = p.nonce => TrueOf(a, p)
        BY <1>4, <2>0, <2>1, <3>1 DEF TrueOf
    <3> QED  BY <1>6, <2>0, <3>1, <3>2, <3>3
  <2>2. CASE cfg # 0 /\ hub[q.at] = 0
    <3> DEFINE a == Signed(q, "pending", 0)
    <3>1. Sealed(a) /\ a.to = q.nonce /\ a.kind = "pending" /\ a.over = 0
        BY <1>5
    <3>2. Answer(q, a)
        BY <1>10, <2>2 DEF AnswerPoll
    <3> HIDE DEF a
    <3>3. q.nonce = p.nonce => TrueOf(a, p)
        BY <1>1, <1>4, <2>0, <2>2, <3>1 DEF TrueOf, Asked
    <3> QED  BY <1>6, <2>0, <3>1, <3>2, <3>3
  <2>3. CASE cfg # 0 /\ hub[q.at] # 0 /\ hub[q.at] = q.have
    <3> DEFINE a == Signed(q, "unchanged", q.have)
    <3>1. Sealed(a) /\ a.to = q.nonce /\ a.kind = "unchanged" /\ a.over = q.have
        BY <1>2, <1>5
    <3>2. Answer(q, a)
        BY <1>10, <2>3 DEF AnswerPoll
    <3> HIDE DEF a
    <3>3. q.nonce = p.nonce => TrueOf(a, p)
        BY <1>1, <1>2, <1>4, <2>0, <2>3, <3>1 DEF TrueOf, Asked
    <3> QED  BY <1>6, <2>0, <3>1, <3>2, <3>3
  <2>4. CASE cfg # 0 /\ hub[q.at] # 0 /\ hub[q.at] # q.have
    <3> DEFINE a == Signed(q, "snapshot", hub[q.at])
    <3>1. Sealed(a) /\ a.to = q.nonce /\ a.kind = "snapshot" /\ a.over = hub[q.at]
        BY <1>4, <1>5, <2>0
    <3>2. Answer(q, a)
        BY <1>10, <2>4 DEF AnswerPoll
    <3> HIDE DEF a
    <3>3. q.nonce = p.nonce => TrueOf(a, p)
        BY <1>4, <2>0, <3>1 DEF TrueOf
    <3> QED  BY <1>6, <2>0, <3>1, <3>2, <3>3
  <2> QED  BY <2>1, <2>2, <2>3, <2>4
<1> QED  BY <1>7, <1>8, <1>9, <1>10

\* The client has no poll under way.
LEMMA ClientRests ==
    ASSUME PollInv, UNCHANGED <<uses, head, cfg, hub>>, open' \subseteq open, wire' \subseteq wire,
           client' \in Client0, client'.poll = NoPoll, client'.nonce = client.nonce, ToldTheTruth'
    PROVE  PollInv'
<1>1. TrustType'
    BY DEF PollInv, TrustType
<1>2. \A q \in open' : Asked(q, client'.poll, client'.nonce, head')
    BY TrustTyped DEF PollInv, Asked
<1>3. \A a \in wire' : Sealed(a) /\ a.to <= client'.nonce /\ a.to # client'.poll.nonce
    BY TrustTyped DEF PollInv, Sealed
<1>4. Watching(client'.poll, client'.nonce, head', hub', cfg')
    BY TrustTyped DEF Watching
<1> QED  BY <1>1, <1>2, <1>3, <1>4 DEF PollInv

\* AnswerVerifier::verify, on any answer on its way: what is taken is what
\* was stated to this very poll.
LEMMA TakingIsTrue ==
    ASSUME NEW a, Sealed(a), client.poll \in Ask0, a.to = client.poll.nonce => TrueOf(a, client.poll)
    PROVE  LET k == TakenFor(a)
               p == client.poll IN
           /\ k \in Taken
           /\ k = "snapshot"  => a.over \in p.seen
           /\ k = "unchanged" => p.have \in p.seen /\ p.have > 0
           /\ k = "pending"   => 0 \in p.seen
           /\ k = "gone"      => p.sawGone
           /\ k = "leave"     => p.leaving
           /\ k = "unverified" => a.to # p.nonce \/ a.ca # client.root
<1> DEFINE p == client.poll
           k == TakenFor(a)
<1>1. \A kind, over : Verified(a, kind, over) /\ a.kind \notin {"standby", "refused"} =>
          a.kind = kind /\ a.to = p.nonce /\ a.over = over
    BY DEF Verified, Message, Sealed
<1>2. a.kind \notin {"standby", "refused"} /\ a.to = p.nonce /\ a.ca = client.root => Verified(a, a.kind, a.over)
    BY DEF Verified, Message, Sealed
<1>3. CASE a.kind = "snapshot"
    BY <1>1, <1>2, <1>3 DEF TakenFor, TrueOf, Taken
<1>4. CASE a.kind = "gone"
    BY <1>1, <1>2, <1>4 DEF TakenFor, TrueOf, Taken
<1>5. CASE a.kind \in {"unchanged", "pending", "leave"} /\ p.leaving
  <2>1. k = IF Verified(a, "leave", 0) THEN "leave" ELSE "unverified"
      BY <1>5 DEF TakenFor
  <2> QED  BY <1>1, <1>2, <1>5, <2>1 DEF TrueOf, Taken
<1>6. CASE a.kind \in {"unchanged", "pending", "leave"} /\ ~p.leaving
  <2>1. k = CASE Verified(a, "unchanged", p.have) -> "unchanged"
              [] Verified(a, "pending", 0)        -> "pending"
              [] OTHER                            -> "unverified"
      BY <1>6 DEF TakenFor
  <2>2. ~(Verified(a, "unchanged", p.have) /\ Verified(a, "pending", 0))
      BY <1>1, <1>6
  <2>3. CASE Verified(a, "unchanged", p.have)
      BY <1>1, <1>6, <2>1, <2>2, <2>3 DEF TrueOf, Taken
  <2>4. CASE Verified(a, "pending", 0)
      BY <1>1, <1>6, <2>1, <2>2, <2>4 DEF TrueOf, Taken
  <2>5. CASE ~Verified(a, "unchanged", p.have) /\ ~Verified(a, "pending", 0)
    <3>1. k = "unverified"
        BY <2>1, <2>5
    <3> QED  BY <1>2, <1>6, <2>5, <3>1 DEF TrueOf, Taken
  <2> QED  BY <2>3, <2>4, <2>5
<1>7. CASE a.kind \in {"standby", "refused"}
    BY <1>7 DEF TakenFor, Taken
<1> QED  BY <1>3, <1>4, <1>5, <1>6, <1>7 DEF Sealed

LEMMA ClientStep ==
    ASSUME TrustInv,
           \/ head # Nobody /\ StartClient(rep[head].ca)
           \/ StartClient(caMap)
           \/ \E r \in Controller, leaving \in BOOLEAN : SendPoll(r, leaving)
           \/ \E a \in wire : ReceiveAnswer(a)
           \/ GiveUpPoll
    PROVE  PollInv'
<1> DEFINE p == client.poll
<1>1. PollInv /\ AuthorityInv
    BY DEF TrustInv
<1>2. /\ client \in Client0 /\ p \in Ask0 /\ uses \in World0 /\ open \subseteq Request0
      /\ head \in Controller \cup {Nobody} /\ cfg \in Nat /\ hub \in [Controller -> Nat]
      /\ client.nonce \in Nat /\ client.have \in Nat
    BY <1>1 DEF PollInv, TrustType, Client0
<1>3. ASSUME NEW ca \in Nat, StartClient(ca) PROVE PollInv'
  <2> DEFINE n == [root |-> ca, conn |-> Nobody, have |-> 0, poll |-> NoPoll,
                   nonce |-> client.nonce, took |-> Naught]
  <2>1. n \in Client0 /\ n.poll = NoPoll /\ n.nonce = client.nonce /\ n.took = Naught
      BY <1>2, <1>3, TrustTyped DEF Client0
  <2>2. client' = n /\ open' \subseteq open /\ UNCHANGED <<uses, head, cfg, hub, wire>>
      BY <1>3 DEF StartClient
  <2> HIDE DEF n
  <2>3. ToldTheTruth'
      BY <2>1, <2>2, TrustTyped DEF ToldTheTruth
  <2> QED  BY <1>1, <2>1, <2>2, <2>3, ClientRests
<1>4. ASSUME head # Nobody, StartClient(rep[head].ca) PROVE PollInv'
  <2>1. rep[head].ca \in Nat
      BY <1>1, <1>2, <1>4 DEF AuthorityInv, AuthorityType, Rep0
  <2> QED  BY <1>3, <1>4, <2>1
<1>5. ASSUME StartClient(caMap) PROVE PollInv'
  <2>1. caMap \in Nat
      BY <1>1 DEF AuthorityInv, AuthorityType
  <2> QED  BY <1>3, <1>5, <2>1
<1>6. ASSUME NEW r \in Controller, NEW leaving \in BOOLEAN, SendPoll(r, leaving) PROVE PollInv'
  <2> DEFINE gone == cfg = 0
             ask == [nonce |-> client.nonce + 1, have |-> client.have, leaving |-> leaving,
                     seen |-> IF head = Nobody THEN {} ELSE {hub[head]}, sawGone |-> gone]
             q == [nonce |-> client.nonce + 1, at |-> r, have |-> client.have,
                   leaving |-> leaving, pc |-> "new"]
             n == [client EXCEPT !.nonce = client.nonce + 1, !.took = Naught,
                     !.conn = IF uses.proxied THEN Nobody ELSE r, !.poll = ask]
  <2>1. ask \in Ask0
    <3>1. gone \in BOOLEAN
        OBVIOUS
    <3> HIDE DEF gone
    <3>2. (IF head = Nobody THEN {} ELSE {hub[head]}) \in SUBSET Nat
        BY <1>2
    <3>3. client.nonce + 1 \in Nat
        BY <1>2
    <3> QED  BY <1>2, <3>1, <3>2, <3>3 DEF Ask0
  <2>2. /\ ask.nonce = client.nonce + 1 /\ ask.have = client.have /\ ask.leaving = leaving
        /\ (head # Nobody => hub[head] \in ask.seen) /\ (cfg = 0 => ask.sawGone)
      OBVIOUS
  <2>3. q \in Request0 /\ q.nonce = client.nonce + 1 /\ q.have = client.have /\ q.leaving = leaving
        /\ q.pc = "new"
      BY <1>2 DEF Request0
  <2>4. /\ uses' \in World0 /\ client' = n /\ open' = open \cup {q}
        /\ UNCHANGED <<head, cfg, hub, wire>>
    <3>1. uses' \in World0
        BY <1>2, <1>6, Spending DEF SendPoll
    <3> QED  BY <1>6, <3>1 DEF SendPoll
  <2> HIDE DEF ask, q
  <2>5. client' \in Client0 /\ client'.poll = ask /\ client'.nonce = client.nonce + 1 /\ client'.took = Naught
    <3>1. client.nonce + 1 \in Nat /\ (IF uses.proxied THEN Nobody ELSE r) \in Controller \cup {Nobody}
        BY <1>2
    <3>2. n \in Client0 /\ n.poll = ask /\ n.nonce = client.nonce + 1 /\ n.took = Naught
        BY <1>2, <2>1, <3>1, TrustTyped DEF Client0
    <3> QED  BY <2>4, <3>2
  <2> HIDE DEF n
  <2>6. TrustType'
      BY <1>2, <2>3, <2>4, <2>5 DEF TrustType
  <2>7. \A o \in open' : Asked(o, ask, client.nonce + 1, head)
    <3>1. Asked(q, ask, client.nonce + 1, head)
        BY <1>2, <2>2, <2>3 DEF Asked
    <3>2. ASSUME NEW o \in open PROVE Asked(o, ask, client.nonce + 1, head)
      <4>1. Asked(o, p, client.nonce, head)
          BY <1>1 DEF PollInv
      <4> QED  BY <1>2, <2>2, <4>1 DEF Asked
    <3> QED  BY <2>4, <3>1, <3>2
  <2>8. \A a \in wire : Sealed(a) /\ a.to <= client.nonce + 1 /\ a.to # ask.nonce
      BY <1>1, <1>2, <2>2 DEF PollInv, Sealed
  <2>9. Watching(ask, client.nonce + 1, head, hub, cfg)
      BY <2>2 DEF Watching
  <2>10. ToldTheTruth'
      BY <2>5, TrustTyped DEF ToldTheTruth
  <2> QED  BY <2>4, <2>5, <2>6, <2>7, <2>8, <2>9, <2>10 DEF PollInv
<1>7. ASSUME NEW a \in wire, ReceiveAnswer(a) PROVE PollInv'
  <2> DEFINE k == TakenFor(a)
             own == a.to = p.nonce
             t == [kind |-> k, over |-> a.over, ca |-> a.ca, own |-> own, of |-> p]
             believed == k \in {"snapshot", "unchanged", "pending", "leave", "gone"}
             have == IF k = "snapshot" THEN a.over ELSE client.have
             conn == IF believed THEN client.conn ELSE Nobody
             n == [client EXCEPT !.took = t, !.have = have, !.poll = NoPoll, !.conn = conn]
  <2>1. Sealed(a) /\ (a.to = p.nonce => TrueOf(a, p)) /\ a.over \in Nat /\ a.ca \in Nat
      BY <1>1 DEF PollInv, Sealed
  <2>2. /\ k \in Taken
        /\ k = "snapshot"  => a.over \in p.seen
        /\ k = "unchanged" => p.have \in p.seen /\ p.have > 0
        /\ k = "pending"   => 0 \in p.seen
        /\ k = "gone"      => p.sawGone
        /\ k = "leave"     => p.leaving
        /\ k = "unverified" => a.to # p.nonce \/ a.ca # client.root
      BY <1>2, <2>1, TakingIsTrue
  <2>3. client' = n /\ wire' \subseteq wire /\ UNCHANGED <<uses, head, cfg, hub, open>>
      BY <1>7 DEF ReceiveAnswer
  <2>4. t \in Took0 /\ t.kind = k /\ t.over = a.over /\ t.ca = a.ca /\ t.of = p
    <3>1. own \in BOOLEAN
        OBVIOUS
    <3> HIDE DEF own, k
    <3> QED  BY <1>2, <2>1, <2>2, <3>1 DEF Took0
  <2>5. t.own <=> a.to = p.nonce
      OBVIOUS
  <2>6. have \in Nat /\ conn \in Controller \cup {Nobody}
      BY <1>2, <2>1 DEF Client0
  <2> HIDE DEF t, k, have, conn
  <2>7. n \in Client0 /\ n.poll = NoPoll /\ n.nonce = client.nonce /\ n.took = t /\ n.root = client.root
      BY <1>2, <2>4, <2>6, TrustTyped DEF Client0
  <2> HIDE DEF n
  <2>8. ToldTheTruth'
      BY <2>2, <2>3, <2>4, <2>5, <2>7 DEF ToldTheTruth
  <2> QED  BY <1>1, <2>3, <2>7, <2>8, ClientRests
<1>8. ASSUME GiveUpPoll PROVE PollInv'
  <2> DEFINE n == [client EXCEPT !.poll = NoPoll, !.conn = Nobody]
  <2>1. n \in Client0 /\ n.poll = NoPoll /\ n.nonce = client.nonce /\ n.took = client.took /\ n.root = client.root
      BY <1>2, TrustTyped DEF Client0
  <2>2. client' = n /\ open' \subseteq open /\ wire' \subseteq wire /\ UNCHANGED <<uses, head, cfg, hub>>
      BY <1>8 DEF GiveUpPoll
  <2> HIDE DEF n
  <2>3. ToldTheTruth'
      BY <1>1, <2>1, <2>2 DEF PollInv, ToldTheTruth
  <2> QED  BY <1>1, <2>1, <2>2, <2>3, ClientRests
<1> QED  BY <1>4, <1>5, <1>6, <1>7, <1>8

LEMMA TrustStep == TrustInv /\ [TrustNext]_trustVars => TrustInv'
<1> SUFFICES ASSUME TrustInv, [TrustNext]_trustVars PROVE TrustInv'
    OBVIOUS
<1>0. AuthorityInv /\ PollInv /\ uses \in World0
    BY DEF TrustInv, PollInv, TrustType
<1>1. ASSUME caState' = caState, rep' = rep, PollInv' PROVE TrustInv'
    BY <1>0, <1>1 DEF TrustInv, AuthorityInv, AuthorityType, caState, Runs
<1>2. ASSUME NEW r \in Controller,
             \/ StartReplica(r) \/ GetSecret(r) \/ CreateSecret(r) \/ CreateUnanswered(r)
             \/ RegetSecret(r) \/ GetMap(r) \/ CreateMap(r) \/ PatchMap(r) \/ LoadFails(r)
      PROVE  TrustInv'
  <2>1. uses' \in World0
      BY <1>0, <1>2, Spending
         DEF StartReplica, GetSecret, CreateSecret, CreateUnanswered, RegetSecret, GetMap, CreateMap, PatchMap, LoadFails
  <2>2. UNCHANGED pollState
      BY <1>2 DEF StartReplica, GetSecret, CreateSecret, CreateUnanswered, RegetSecret, GetMap, CreateMap, PatchMap, LoadFails
  <2> QED  BY <1>0, <1>2, <2>1, <2>2, AuthorityStep, PollsAlone DEF TrustInv
<1>3. ASSUME NEW r \in Controller, StopReplica(r) PROVE TrustInv'
    BY <1>0, <1>3, AuthorityStep, StopStep DEF TrustInv
<1>4. CASE DeleteSecret
  <2>1. uses' \in World0 /\ UNCHANGED pollState
      BY <1>0, <1>4, Spending DEF DeleteSecret
  <2> QED  BY <1>0, <1>4, <2>1, DeletionStep, PollsAlone DEF TrustInv
<1>5. CASE (\E r \in Controller : Lead(r)) \/ PublishVersion \/ EditConfig \/ DeleteGateway
    BY <1>0, <1>1, <1>5, LeaderStep DEF Lead, PublishVersion, EditConfig, DeleteGateway
<1>6. ASSUME NEW q \in open, TurnAway(q) \/ StartBody(q) \/ ReadBody(q) \/ AnswerPoll(q) PROVE TrustInv'
    BY <1>1, <1>6, ServerStep DEF TurnAway, StartBody, ReadBody, AnswerPoll
<1>7. CASE \/ head # Nobody /\ StartClient(rep[head].ca)
           \/ StartClient(caMap)
           \/ \E r \in Controller, leaving \in BOOLEAN : SendPoll(r, leaving)
           \/ \E a \in wire : ReceiveAnswer(a)
           \/ GiveUpPoll
    BY <1>1, <1>7, ClientStep DEF StartClient, SendPoll, ReceiveAnswer, GiveUpPoll
<1>8. CASE UNCHANGED trustVars
  <2>1. UNCHANGED pollState /\ uses' \in World0
      BY <1>0, <1>8 DEF trustVars, pollState
  <2> QED  BY <1>0, <1>1, <1>8, <2>1, PollsAlone DEF trustVars, caState
<1> QED  BY <1>2, <1>3, <1>4, <1>5, <1>6, <1>7, <1>8 DEF TrustNext

\* For any number of replicas, rotations, failed and unanswered calls: those
\* that loaded since the last deletion serve the Secret's CA and the ConfigMap
\* publishes it (ca.rs); and for any number of polls, answers late, repeated
\* or overtaken: a client takes only what was said to that very poll and true
\* while it was under way (signed.rs, AnswerVerifier; remote.rs, exchange).
THEOREM TrustCorrect == TrustSpec => []TrustHolds
<1>1. TrustInv => TrustHolds
    BY DEF TrustInv, AuthorityInv, PollInv, TrustHolds, OneAuthority
<1> QED  BY <1>1, TrustInitial, TrustStep, PTL DEF TrustSpec
-----------------------------------------------------------------------------
(* SyncAuth: who is admitted.                                               *)

\* What of a good verdict lasts, and whether the rest of it still holds.
Sound(t)     == Claimed[t].genuine /\ Claimed[t].forUs /\ Claimed[t].pod \in Pod
StillGood(t) == Prechecked(t) /\ goneAt[Claimed[t].pod] = NotYet

\* `when` is less than `grace` past the token's pod.
BoundBy(t, when, grace) ==
    Sound(t) /\ (goneAt[Claimed[t].pod] # NotYet => when < goneAt[Claimed[t].pod] + grace)

EndedCall  == [pc : {"ended"}, token : Token, due : BOOLEAN,
               out : {"accepted", "unauthenticated", "forbidden", "throttled", "unavailable"}]
WaitCall   == [pc : {"wait"}, token : Token, peer : Peer, until : Nat, due : BOOLEAN]
ReviewCall == [pc : {"review"}, token : Token, peer : Peer, kind : {"renewal", "unknown"}, until : Nat,
               answer : {"none", "yes", "no"}, due : BOOLEAN]
Calls      == {Quiet} \cup EndedCall \cup WaitCall \cup ReviewCall

AuthType ==
    /\ time \in Nat /\ lastSweep \in Nat \cup {NotYet} /\ lastSweep <= time
    /\ goneAt \in [Pod -> Nat \cup {NotYet}] /\ \A p \in Pod : goneAt[p] <= time
    /\ good \in [Token -> Nat \cup {NotYet}] /\ \A t \in Token : good[t] <= time
    /\ call \in [Caller -> Calls] /\ world.peers \subseteq Peer

\* The line is of those that wait, each once.
LineInv ==
    /\ line \in Seq(Caller)
    /\ \A i \in 1 .. Len(line) : call[line[i]].pc = "wait"
    /\ \A i, j \in 1 .. Len(line) : line[i] = line[j] => i = j

\* A remembered verdict: when it is of, and that it has not missed a sweep.
VerdictOk(t, v, g, lately) ==
    /\ t \in Token /\ v.at \in Nat /\ v.ok \in BOOLEAN /\ v.at <= time
    /\ lately # NotYet /\ lately - v.at < CacheTtl + StaleTtl
    /\ v.ok => g = v.at /\ BoundBy(t, v.at, ReviewTimeout + 1)

\* A request under way is timed, and its answer is of a pod that was there.
CallOk(x) ==
    /\ x.pc \in {"wait", "review"} => time <= x.until /\ x.until <= time + ReviewTimeout
    /\ x.pc = "wait" => BoundBy(x.token, x.until, CacheTtl + StaleTtl + 2 * ReviewTimeout)
    /\ x.pc = "review" =>
          /\ x.kind = "renewal" => BoundBy(x.token, x.until, CacheTtl + StaleTtl + 3 * ReviewTimeout)
          /\ x.answer = "yes" => BoundBy(x.token, x.until, ReviewTimeout + 1)
          /\ x.answer = "no" => ~(Sound(x.token) /\ StillGood(x.token))
          /\ x.due /\ StillGood(x.token) => x.kind = "renewal"
    /\ x.pc = "ended" =>
          /\ x.out = "accepted" => BoundBy(x.token, time, CacheTtl + StaleTtl + 3 * ReviewTimeout)
          /\ x.due /\ StillGood(x.token) => x.out = "accepted"
    /\ x.pc # "quiet" /\ x.due => Sound(x.token)

\* What a token that was good is no longer in the cache for.
Newer(t, g)   == {u \in Token \ {t} : Claimed[u].pod = Claimed[t].pod /\ g[u] >= g[t]}
Around(t, g)  == {u \in Token : g[u] # NotYet /\ g[t] - g[u] < 2 * CacheTtl + StaleTtl}
Excused(t, g) ==
    \/ time - g[t] >= CacheTtl + StaleTtl
    \/ Cardinality(Newer(t, g)) >= PerPod
    \/ Cardinality(Around(t, g)) >= MaxVerdicts
Remembered(t, vs, g) == t \in DOMAIN vs /\ vs[t].ok /\ vs[t].at = g[t]

GoodOk(t, vs, g) == g[t] # NotYet => Sound(t) /\ (StillGood(t) => Remembered(t, vs, g) \/ Excused(t, g))

AuthInv ==
    /\ AuthType /\ LineInv
    /\ \A t \in DOMAIN byToken : VerdictOk(t, byToken[t], good[t], lastSweep)
    /\ \A c \in Caller : CallOk(call[c])
    /\ \A t \in Token : GoodOk(t, byToken, good)

\* Every set of natural numbers has a least element: the induction principle
\* of these proofs, from the well-founded inclusion of finite sets.
LEMMA Least ==
    ASSUME NEW S \in SUBSET Nat, S # {}
    PROVE  \E n \in S : \A m \in S : n <= m
<1> DEFINE T == {1 .. n : n \in S}
<1>1. T # {} /\ T \subseteq FiniteSubsetsOf(Nat)
  <2>1. ASSUME NEW n \in S PROVE 1 .. n \in FiniteSubsetsOf(Nat)
    <3>1. IsFiniteSet(1 .. n)
        BY FS_Interval
    <3> QED  BY <3>1 DEF FiniteSubsetsOf
  <2> QED  BY <2>1
<1>2. IsWellFoundedOn(StrictSubsetOrdering(Nat), FiniteSubsetsOf(Nat))
    BY FS_StrictSubsetOrderingWellFounded
<1>3. PICK x \in T : \A y \in T : ~(<<y, x>> \in StrictSubsetOrdering(Nat))
  <2> HIDE DEF T
  <2> QED  BY <1>1, <1>2, WFMin
<1>4. PICK n \in S : x = 1 .. n
    BY <1>3
<1>5. ASSUME NEW m \in S, m < n PROVE FALSE
  <2>1. 1 .. m \in T
      BY <1>5
  <2>2. 1 .. m \subseteq 1 .. n /\ n \in 1 .. n /\ n \notin 1 .. m /\ 1 .. n \subseteq Nat
      BY <1>5
  <2>3. <<1 .. m, 1 .. n>> \in StrictSubsetOrdering(Nat)
      BY <2>2 DEF StrictSubsetOrdering
  <2>4. ~(<<1 .. m, x>> \in StrictSubsetOrdering(Nat))
    <3> HIDE DEF T
    <3> QED  BY <1>3, <2>1
  <2> HIDE DEF T
  <2> QED  BY <1>4, <2>3, <2>4
<1>6. ASSUME NEW m \in S PROVE n <= m
  <2>1. m \in Nat /\ n \in Nat /\ ~(m < n)
      BY <1>5
  <2> QED  BY <2>1
<1> QED  BY <1>6

\* Any number of the elements of a finite set are the oldest of it.
LEMMA OldestExist ==
    ASSUME NEW S, IsFiniteSet(S), NEW at \in [S -> Nat], NEW k \in Nat, k <= Cardinality(S)
    PROVE  \E D \in SUBSET S : Cardinality(D) = k /\ \A u \in D, w \in S \ D : at[u] <= at[w]
<1> DEFINE Prefix(D) == D \in SUBSET S /\ \A u \in D, w \in S \ D : at[u] <= at[w]
           T == {n \in Nat : n <= Cardinality(S) /\ ~\E D \in SUBSET S : Cardinality(D) = n /\ Prefix(D)}
<1>1. SUFFICES ASSUME T # {} PROVE FALSE
    BY <1>1
<1>2. T \in SUBSET Nat
    OBVIOUS
<1>3. PICK n \in T : \A m \in T : n <= m
  <2> HIDE DEF T
  <2> QED  BY <1>1, <1>2, Least
<1>4. n # 0
  <2>1. {} \in SUBSET S /\ Cardinality({}) = 0 /\ Prefix({})
      BY FS_EmptySet
  <2> HIDE DEF Prefix
  <2> QED  BY <1>3, <2>1
<1>5. n - 1 \in Nat /\ n - 1 \notin T /\ n \in Nat /\ n <= Cardinality(S) /\ Cardinality(S) \in Nat
  <2>1. n \in Nat /\ n <= Cardinality(S) /\ Cardinality(S) \in Nat
      BY <1>3, FS_CardinalityType
  <2> HIDE DEF T
  <2> QED  BY <1>3, <1>4, <2>1
<1>6. PICK D \in SUBSET S : Cardinality(D) = n - 1 /\ Prefix(D)
  <2> HIDE DEF Prefix
  <2> QED  BY <1>5
<1>7. IsFiniteSet(D) /\ D # S
    BY <1>5, <1>6, FS_Subset
<1> DEFINE Ages == {at[w] : w \in S \ D}
<1>8. Ages \in SUBSET Nat /\ Ages # {}
    BY <1>7
<1>9. PICK m \in S \ D : \A w \in S \ D : at[m] <= at[w]
  <2>1. PICK a \in Ages : \A b \in Ages : a <= b
    <3> HIDE DEF Ages
    <3> QED  BY <1>8, Least
  <2> QED  BY <2>1
<1>10. D \cup {m} \in SUBSET S /\ Cardinality(D \cup {m}) = n
  <2>1. Cardinality(D \cup {m}) = Cardinality(D) + 1
      BY <1>7, <1>9, FS_AddElement
  <2> QED  BY <1>5, <1>6, <1>9, <2>1
<1>11. Prefix(D \cup {m})
  <2>1. ASSUME NEW u \in D \cup {m}, NEW w \in S \ (D \cup {m}) PROVE at[u] <= at[w]
      BY <1>6, <1>9, <2>1
  <2> QED  BY <1>10, <2>1
<1> HIDE DEF Prefix
<1> QED  BY <1>3, <1>10, <1>11

-----------------------------------------------------------------------------
\* What remember does to the other verdicts.

\* f is g on fewer arguments.
Part(f, g) == DOMAIN f \subseteq DOMAIN g /\ \A x \in DOMAIN f : f[x] = g[x]

\* A verdict that made way for one of its own pod: as many others of the pod
\* as are kept are younger.
LEMMA PodKeeps ==
    ASSUME NEW vs, DOMAIN vs \subseteq Token, \A u \in DOMAIN vs : vs[u].at \in Nat,
           NEW t \in Token, NEW x \in PodsOldest(vs, t)
    PROVE  /\ x \in SamePod(vs, t)
           /\ \E W \in SUBSET SamePod(vs, t) :
                 x \notin W /\ IsFiniteSet(W) /\ Cardinality(W) = PerPod - 1 /\ \A w \in W : vs[x].at <= vs[w].at
<1> DEFINE S == SamePod(vs, t)
           at == [u \in S |-> vs[u].at]
           k == Cardinality(S) - PerPod + 1
<1>1. IsFiniteSet(S) /\ Cardinality(S) \in Nat /\ PerPod \in Nat \ {0} /\ S \subseteq DOMAIN vs
  <2>1. S \in SUBSET Token /\ S \subseteq DOMAIN vs
      BY DEF SamePod
  <2> QED  BY <2>1, FS_Subset, FS_CardinalityType, AuthAssumption
<1>2. ~(Cardinality(S) < PerPod)
    BY DEF PodsOldest
<1>3. k \in Nat /\ k <= Cardinality(S) /\ at \in [S -> Nat]
    BY <1>1, <1>2
<1>4. \E D \in SUBSET S : Cardinality(D) = k /\ \A u \in D, w \in S \ D : vs[u].at <= vs[w].at
  <2>1. \E D \in SUBSET S : Cardinality(D) = k /\ \A u \in D, w \in S \ D : at[u] <= at[w]
    <3> HIDE DEF S, at, k
    <3> QED  BY <1>1, <1>3, OldestExist
  <2> QED  BY <2>1
<1> DEFINE D == PodsOldest(vs, t)
<1>5. D \in SUBSET S /\ Cardinality(D) = k /\ \A u \in D, w \in S \ D : vs[u].at <= vs[w].at
    BY <1>2, <1>4 DEF PodsOldest
<1> HIDE DEF D
<1>6. IsFiniteSet(S \ D) /\ Cardinality(S \ D) = PerPod - 1
  <2> HIDE DEF S
  <2>1. Cardinality(S \ D) = Cardinality(S) - Cardinality(S \cap D) /\ IsFiniteSet(S \ D)
      BY <1>1, FS_Difference
  <2>2. S \cap D = D
      BY <1>5
  <2>3. Cardinality(S \ D) = Cardinality(S) - Cardinality(D)
      BY <2>1, <2>2
  <2>4. Cardinality(D) = Cardinality(S) - PerPod + 1
      BY <1>5
  <2>5. \A c \in Nat, n \in Nat \ {0} : c - (c - n + 1) = n - 1
      OBVIOUS
  <2> QED  BY <1>1, <2>1, <2>3, <2>4, <2>5
<1>7. x \in D /\ x \in S /\ S \ D \in SUBSET S
    BY <1>5 DEF D
<1> QED  BY <1>5, <1>6, <1>7

LEMMA RememberFacts ==
    ASSUME AuthInv, NEW t \in Token, NEW ok \in BOOLEAN, Remember(t, ok)
    PROVE  /\ t \in DOMAIN byToken' /\ byToken'[t].at = time /\ byToken'[t].ok = ok
           /\ \A u \in DOMAIN byToken' :
                 u = t \/ (u \in DOMAIN byToken /\ byToken'[u] = byToken[u] /\ (SweepDue => Keeps(byToken[u])))
           /\ \A x \in DOMAIN byToken \ {t} : byToken[x].ok /\ x \notin DOMAIN byToken' =>
                 \/ ~Keeps(byToken[x])
                 \/ \E V \in SUBSET DOMAIN byToken :
                       /\ IsFiniteSet(V) /\ Cardinality(V) >= MaxVerdicts
                       /\ \A w \in V : byToken[w].ok /\ (SweepDue => Keeps(byToken[w]))
                 \/ /\ ok /\ Claimed[x].pod = Claimed[t].pod
                    /\ \E W \in SUBSET (DOMAIN byToken \ {t, x}) :
                          /\ IsFiniteSet(W) /\ Cardinality(W) = PerPod - 1
                          /\ \A w \in W : /\ byToken[w].ok /\ Claimed[w].pod = Claimed[t].pod
                                          /\ byToken[x].at <= byToken[w].at
<1> DEFINE vs1 == Sweep(byToken)
           vs2 == Shed(vs1, t)
           vs3 == OldestGo(vs2, t)
           out == IF ok THEN PodsOldest(vs3, t) ELSE {}
           vs4 == Restrict(vs3, DOMAIN vs3 \ out)
<1>0. /\ DOMAIN byToken \subseteq Token
      /\ \A u \in DOMAIN byToken : byToken[u].at \in Nat
    BY DEF AuthInv, VerdictOk
<1>1. /\ Part(vs1, byToken) /\ \A u \in DOMAIN vs1 : SweepDue => Keeps(byToken[u])
      /\ \A u \in DOMAIN byToken : Keeps(byToken[u]) => u \in DOMAIN vs1
    BY DEF Sweep, Restrict, Part
<1>2. /\ Part(vs2, vs1) /\ \A u \in DOMAIN vs1 : vs1[u].ok => u \in DOMAIN vs2
      /\ Crowded(vs1, t) => \A u \in DOMAIN vs2 : vs1[u].ok
      /\ ~Crowded(vs1, t) => vs2 = vs1
  <2> HIDE DEF vs1
  <2> QED  BY DEF Shed, Restrict, Part
<1>3. Part(vs3, vs2) /\ (~Crowded(vs2, t) => vs3 = vs2)
  <2> HIDE DEF vs2
  <2> QED  BY DEF OldestGo, Restrict, Part
<1>4. Part(vs4, vs3) /\ \A u \in DOMAIN vs3 : u \notin out => u \in DOMAIN vs4
  <2> HIDE DEF vs3, out
  <2> QED  BY DEF Restrict, Part
<1>5. byToken' = Insert(vs4, t, ok)
    BY DEF Remember, Keep
<1> HIDE DEF vs1, vs2, vs3, vs4
<1>6. /\ DOMAIN byToken' = DOMAIN vs4 \cup {t}
      /\ byToken'[t] = [at |-> time, ok |-> ok]
      /\ \A u \in DOMAIN vs4 : u # t => byToken'[u] = vs4[u]
    BY <1>5 DEF Insert
<1>7. /\ t \in DOMAIN byToken' /\ byToken'[t].at = time /\ byToken'[t].ok = ok
    BY <1>6
<1>8. ASSUME NEW u \in DOMAIN byToken', u # t
      PROVE  u \in DOMAIN byToken /\ byToken'[u] = byToken[u] /\ (SweepDue => Keeps(byToken[u]))
    BY <1>1, <1>2, <1>3, <1>4, <1>6, <1>8 DEF Part
<1>9. ASSUME NEW x \in DOMAIN byToken \ {t}, byToken[x].ok, x \notin DOMAIN byToken', Keeps(byToken[x])
      PROVE  \/ \E V \in SUBSET DOMAIN byToken :
                   /\ IsFiniteSet(V) /\ Cardinality(V) >= MaxVerdicts
                   /\ \A w \in V : byToken[w].ok /\ (SweepDue => Keeps(byToken[w]))
             \/ /\ ok /\ Claimed[x].pod = Claimed[t].pod
                /\ \E W \in SUBSET (DOMAIN byToken \ {t, x}) :
                      /\ IsFiniteSet(W) /\ Cardinality(W) = PerPod - 1
                      /\ \A w \in W : /\ byToken[w].ok /\ Claimed[w].pod = Claimed[t].pod
                                      /\ byToken[x].at <= byToken[w].at
  <2>1. x \in DOMAIN vs1 /\ vs1[x] = byToken[x]
      BY <1>1, <1>9 DEF Part
  <2>2. x \in DOMAIN vs2
      BY <1>2, <1>9, <2>1
  <2>3. CASE Crowded(vs2, t)
    <3>1. Crowded(vs1, t)
        BY <1>2, <2>3
    <3> DEFINE V == DOMAIN vs2
    <3>2. V \in SUBSET DOMAIN byToken /\ \A w \in V : byToken[w].ok /\ (SweepDue => Keeps(byToken[w]))
        BY <1>1, <1>2, <3>1 DEF Part
    <3>3. IsFiniteSet(V) /\ Cardinality(V) >= MaxVerdicts
      <4>1. V \in SUBSET Token
          BY <1>0, <3>2
      <4> QED  BY <2>3, <4>1, FS_Subset, AuthAssumption DEF Crowded
    <3> QED  BY <3>2, <3>3
  <2>4. CASE ~Crowded(vs2, t)
    <3>1. vs3 = vs2 /\ x \in DOMAIN vs3 /\ x \notin DOMAIN vs4
        BY <1>3, <1>6, <1>9, <2>2, <2>4
    <3>2. ok /\ x \in PodsOldest(vs3, t)
        BY <1>4, <3>1
    <3>3. DOMAIN vs3 \subseteq DOMAIN byToken /\ \A u \in DOMAIN vs3 : vs3[u] = byToken[u]
        BY <1>1, <1>2, <1>3 DEF Part
    <3>4. /\ x \in SamePod(vs3, t)
          /\ \E W \in SUBSET SamePod(vs3, t) :
                x \notin W /\ IsFiniteSet(W) /\ Cardinality(W) = PerPod - 1 /\ \A w \in W : vs3[x].at <= vs3[w].at
      <4>1. DOMAIN vs3 \subseteq Token /\ \A u \in DOMAIN vs3 : vs3[u].at \in Nat
          BY <1>0, <3>3
      <4> QED  BY <3>2, <4>1, PodKeeps
    <3>5. PICK W \in SUBSET SamePod(vs3, t) :
              x \notin W /\ IsFiniteSet(W) /\ Cardinality(W) = PerPod - 1 /\ \A w \in W : vs3[x].at <= vs3[w].at
        BY <3>4
    <3>6. /\ W \in SUBSET (DOMAIN byToken \ {t, x})
          /\ \A w \in W : byToken[w].ok /\ Claimed[w].pod = Claimed[t].pod /\ byToken[x].at <= byToken[w].at
        BY <3>1, <3>3, <3>5 DEF SamePod
    <3>7. Claimed[x].pod = Claimed[t].pod
        BY <3>4 DEF SamePod
    <3> QED  BY <3>2, <3>5, <3>6, <3>7
  <2> QED  BY <2>3, <2>4
<1> QED  BY <1>7, <1>8, <1>9

-----------------------------------------------------------------------------
\* How the parts of the invariant carry over a step.

\* A pod that goes, goes now; the claims do not change.
LEMMA BoundCarries ==
    ASSUME AuthInv, NEW t, NEW when \in Int, NEW grace \in Int,
           BoundBy(t, when, grace), time' \in Nat, time' >= time,
           goneAt' = goneAt \/ \E p \in Pod : goneAt' = [goneAt EXCEPT ![p] = time] /\ when < time + grace
    PROVE  BoundBy(t, when, grace)'
BY DEF BoundBy, Sound, AuthInv, AuthType, NotYet

LEMMA LiveBefore ==
    ASSUME AuthInv, NEW t \in Token, Sound(t), StillGood(t)', time' \in Nat, time' >= time,
           goneAt' = goneAt \/ \E p \in Pod : goneAt' = [goneAt EXCEPT ![p] = time]
    PROVE  StillGood(t)
<1>1. Claimed[t].pod \in Pod /\ Claimed[t].exp \in Nat /\ time \in Nat
      /\ goneAt \in [Pod -> Nat \cup {NotYet}]
    BY AuthAssumption DEF Sound, AuthInv, AuthType
<1>2. Claimed[t].forUs /\ time' < Claimed[t].exp /\ goneAt'[Claimed[t].pod] = NotYet
    BY DEF StillGood, Prechecked, NotYet
<1>3. goneAt[Claimed[t].pod] = NotYet
    BY <1>1, <1>2 DEF NotYet
<1> QED  BY <1>1, <1>2, <1>3 DEF StillGood, Prechecked

-----------------------------------------------------------------------------
\* What is known of a token when a request presents it.

LEMMA CachedFacts ==
    ASSUME AuthInv, NEW t \in Token
    PROVE  /\ Cached(t) = "fresh" => t \in DOMAIN byToken /\ byToken[t].ok /\ time - byToken[t].at < CacheTtl
           /\ Cached(t) = "expired" =>
                 t \in DOMAIN byToken /\ byToken[t].ok /\ time - byToken[t].at < CacheTtl + StaleTtl
           /\ t \in DOMAIN byToken /\ byToken[t].ok /\ time - byToken[t].at < CacheTtl + StaleTtl =>
                 Cached(t) \in {"fresh", "expired"}
<1>1. time \in Nat /\ CacheTtl \in Nat /\ StaleTtl \in Nat
    BY AuthAssumption DEF AuthInv, AuthType
<1>2. CASE t \notin DOMAIN byToken
    BY <1>2 DEF Cached
<1>3. CASE t \in DOMAIN byToken
  <2>1. byToken[t].at \in Nat /\ byToken[t].ok \in BOOLEAN
      BY <1>3 DEF AuthInv, VerdictOk
  <2> DEFINE age == time - byToken[t].at
  <2>2. age \in Int /\ (age < CacheTtl => age < CacheTtl + StaleTtl)
        /\ (~(age < CacheTtl) => age >= CacheTtl)
      BY <1>1, <2>1
  <2>3. Cached(t) = CASE byToken[t].ok /\ age < CacheTtl                              -> "fresh"
                      [] byToken[t].ok /\ age >= CacheTtl /\ age < CacheTtl + StaleTtl -> "expired"
                      [] ~byToken[t].ok /\ age < CacheTtl                             -> "rejected"
                      [] OTHER                                                         -> "unknown"
      BY <1>3 DEF Cached
  <2>4. ~(age < CacheTtl /\ age >= CacheTtl)
      BY <1>1, <2>2
  <2> HIDE DEF age
  <2>5. CASE byToken[t].ok
    <3>1. CASE age < CacheTtl
        BY <1>1, <1>3, <2>2, <2>3, <2>4, <2>5, <3>1 DEF age
    <3>2. CASE ~(age < CacheTtl)
        BY <1>1, <1>3, <2>2, <2>3, <2>4, <2>5, <3>2 DEF age
    <3> QED  BY <3>1, <3>2
  <2>6. CASE ~byToken[t].ok
      BY <1>3, <2>3, <2>6
  <2> QED  BY <2>5, <2>6
<1> QED  BY <1>2, <1>3

\* A verdict in the cache bounds how long ago the pod went.
LEMMA CachedBound ==
    ASSUME AuthInv, NEW t \in Token, t \in DOMAIN byToken, byToken[t].ok, NEW ttl \in Nat,
           time - byToken[t].at < ttl, NEW when \in Int, NEW grace \in Int,
           when - time <= grace - ttl - ReviewTimeout
    PROVE  BoundBy(t, when, grace)
<1>1. /\ byToken[t].at \in Nat /\ time \in Nat /\ ReviewTimeout \in Nat
      /\ BoundBy(t, byToken[t].at, ReviewTimeout + 1)
    BY AuthAssumption DEF AuthInv, AuthType, VerdictOk
<1>2. Sound(t)
    BY <1>1 DEF BoundBy
<1>3. goneAt[Claimed[t].pod] \in Nat \cup {NotYet}
    BY <1>2 DEF AuthInv, AuthType, Sound
<1> QED  BY <1>1, <1>2, <1>3 DEF BoundBy, NotYet

\* What is due an answer is good, and still in the cache.
LEMMA OwedIsKnown ==
    ASSUME AuthInv, NEW t \in Token, OwedAnswer(t)
    PROVE  Sound(t) /\ (StillGood(t) => Cached(t) \in {"fresh", "expired"})
<1>1. good[t] # NotYet /\ time - good[t] < CacheTtl + StaleTtl
    BY DEF OwedAnswer, Recent
<1>2. Sound(t)
    BY <1>1 DEF AuthInv, GoodOk
<1>3. ASSUME StillGood(t) PROVE Cached(t) \in {"fresh", "expired"}
  <2>1. Remembered(t, byToken, good) \/ Excused(t, good)
      BY <1>1, <1>3 DEF AuthInv, GoodOk
  <2>2. /\ IsFiniteSet(Newer(t, good)) /\ Cardinality(Newer(t, good)) \in Nat
        /\ IsFiniteSet(Around(t, good)) /\ Cardinality(Around(t, good)) \in Nat
    <3>1. Newer(t, good) \in SUBSET Token /\ Around(t, good) \in SUBSET Token
        BY DEF Newer, Around
    <3> QED  BY <3>1, AuthAssumption, FS_Subset, FS_CardinalityType
  <2>3. time \in Nat /\ good[t] \in Int /\ CacheTtl + StaleTtl \in Nat /\ PerPod \in Nat /\ MaxVerdicts \in Nat
      BY AuthAssumption DEF AuthInv, AuthType, NotYet
  <2>4. Cardinality(Newer(t, good)) < PerPod /\ Cardinality(Around(t, good)) < MaxVerdicts
      BY DEF OwedAnswer, Newer, Around
  <2>5. ~Excused(t, good)
      BY <1>1, <2>2, <2>3, <2>4 DEF Excused
  <2> QED  BY <1>1, <2>1, <2>5, CachedFacts DEF Remembered
<1> QED  BY <1>2, <1>3

-----------------------------------------------------------------------------
\* Steps of one request.

LEMMA CallMoves ==
    ASSUME AuthInv, UNCHANGED <<world, time, goneAt, byToken, lastSweep, good>>,
           NEW c \in Caller, NEW x \in Calls, CallOk(x), call' = [call EXCEPT ![c] = x], LineInv'
    PROVE  AuthInv'
<1>1. call' \in [Caller -> Calls] /\ \A d \in Caller : call'[d] = IF d = c THEN x ELSE call[d]
    BY DEF AuthInv, AuthType
<1>2. AuthType'
    BY <1>1 DEF AuthInv, AuthType
<1>3. \A d \in Caller : CallOk(call'[d])
    BY <1>1 DEF AuthInv
<1>4. \A d \in Caller : CallOk(call[d])'
    BY <1>3 DEF CallOk, BoundBy, Sound, StillGood, Prechecked
<1>5. \A t \in DOMAIN byToken' : VerdictOk(t, byToken[t], good[t], lastSweep)'
    BY DEF AuthInv, VerdictOk, BoundBy, Sound
<1>6. \A t \in Token : GoodOk(t, byToken, good)'
    BY DEF AuthInv, GoodOk, Sound, StillGood, Prechecked, Remembered, Excused, Newer, Around
<1> QED  BY <1>2, <1>4, <1>5, <1>6 DEF AuthInv

\* The line, when a request that is not in it moves,
LEMMA LineStays ==
    ASSUME LineInv, call \in [Caller -> Calls], NEW c \in Caller, NEW x \in Calls, call[c].pc # "wait",
           call' = [call EXCEPT ![c] = x], line' = line
    PROVE  LineInv'
<1>1. \A i \in 1 .. Len(line) : line[i] \in Caller /\ line[i] # c
    BY DEF LineInv
<1> QED  BY <1>1 DEF LineInv

\* when one joins it,
LEMMA LineJoined ==
    ASSUME LineInv, call \in [Caller -> Calls], NEW c \in Caller, NEW x \in Calls, call[c].pc # "wait", x.pc = "wait",
           call' = [call EXCEPT ![c] = x], line' = Append(line, c)
    PROVE  LineInv'
<1>1. line \in Seq(Caller) /\ Len(line) \in Nat /\ \A i \in 1 .. Len(line) : line[i] \in Caller /\ line[i] # c
    BY DEF LineInv
<1>2. /\ line' \in Seq(Caller) /\ Len(line') = Len(line) + 1
      /\ \A i \in 1 .. Len(line') : line'[i] = IF i <= Len(line) THEN line[i] ELSE c
    BY <1>1
<1>3. \A i \in 1 .. Len(line') : call'[line'[i]].pc = "wait"
    BY <1>1, <1>2 DEF LineInv
<1>4. \A i, j \in 1 .. Len(line') : line'[i] = line'[j] => i = j
    BY <1>1, <1>2 DEF LineInv
<1> QED  BY <1>2, <1>3, <1>4 DEF LineInv

\* when its first goes on,
LEMMA LineServed ==
    ASSUME LineInv, call \in [Caller -> Calls], line # <<>>, NEW x \in Calls,
           call' = [call EXCEPT ![Head(line)] = x], line' = Tail(line)
    PROVE  LineInv'
<1>1. line \in Seq(Caller) /\ Len(line) \in Nat \ {0} /\ Head(line) = line[1] /\ line[1] \in Caller
    BY DEF LineInv
<1>2. /\ line' \in Seq(Caller) /\ Len(line') = Len(line) - 1
      /\ \A i \in 1 .. Len(line') : line'[i] = line[i + 1] /\ i + 1 \in 1 .. Len(line)
    BY <1>1
<1>3. \A i \in 1 .. Len(line') : line'[i] \in Caller /\ line'[i] # Head(line)
    BY <1>1, <1>2 DEF LineInv
<1>4. \A i \in 1 .. Len(line') : call'[line'[i]].pc = "wait"
    BY <1>1, <1>2, <1>3 DEF LineInv
<1>5. \A i, j \in 1 .. Len(line') : line'[i] = line'[j] => i = j
    BY <1>1, <1>2 DEF LineInv
<1> QED  BY <1>2, <1>4, <1>5 DEF LineInv

\* and when one leaves it.
LEMMA LineLeft ==
    ASSUME LineInv, call \in [Caller -> Calls], NEW c \in Caller, NEW x \in Calls,
           call' = [call EXCEPT ![c] = x], line' = LineWithout(c)
    PROVE  LineInv'
<1>1. line \in Seq(Caller) /\ Len(line) \in Nat /\ DOMAIN line = 1 .. Len(line)
      /\ \A i \in 1 .. Len(line) : line[i] \in Caller
    BY DEF LineInv
<1>2. CASE \A i \in DOMAIN line : line[i] # c
  <2>1. line' = line
      BY <1>2 DEF LineWithout
  <2> QED  BY <1>1, <1>2, <2>1 DEF LineInv
<1>3. CASE ~\A i \in DOMAIN line : line[i] # c
  <2> DEFINE i == CHOOSE i \in DOMAIN line : line[i] = c
             n == [j \in 1 .. Len(line) - 1 |-> line[IF j < i THEN j ELSE j + 1]]
  <2>1. i \in 1 .. Len(line) /\ line[i] = c
      BY <1>1, <1>3
  <2>2. line' = n
      BY <1>3 DEF LineWithout
  <2> HIDE DEF i
  <2>3. Len(line) - 1 \in Nat /\ \A j \in 1 .. Len(line) - 1 : (IF j < i THEN j ELSE j + 1) \in 1 .. Len(line)
      BY <1>1, <2>1
  <2>4. n \in Seq(Caller) /\ Len(n) = Len(line) - 1
      BY <1>1, <2>3
  <2>5. \A j \in 1 .. Len(line) - 1 : n[j] = line[IF j < i THEN j ELSE j + 1]
      OBVIOUS
  <2> HIDE DEF n
  <2>6. \A j \in 1 .. Len(line) - 1 : n[j] \in Caller /\ n[j] # c /\ call[n[j]].pc = "wait"
      BY <1>1, <2>1, <2>3, <2>5 DEF LineInv
  <2>7. \A j, k \in 1 .. Len(line) - 1 : n[j] = n[k] => j = k
      BY <1>1, <2>1, <2>3, <2>5 DEF LineInv
  <2> QED  BY <2>2, <2>4, <2>6, <2>7 DEF LineInv
<1> QED  BY <1>2, <1>3

-----------------------------------------------------------------------------
\* What a request may become.

LEMMA AuthNumbers ==
    /\ CacheTtl \in Nat /\ StaleTtl \in Nat /\ ReviewTimeout \in Nat
    /\ CacheTtl + StaleTtl + 2 * ReviewTimeout \in Nat
    /\ CacheTtl + StaleTtl + 3 * ReviewTimeout \in Nat
BY AuthAssumption

LEMMA EndedOk ==
    ASSUME NEW t \in Token, NEW due \in BOOLEAN,
           NEW out \in {"accepted", "unauthenticated", "forbidden", "throttled", "unavailable"},
           out = "accepted" => BoundBy(t, time, CacheTtl + StaleTtl + 3 * ReviewTimeout),
           due /\ StillGood(t) => out = "accepted", due => Sound(t)
    PROVE  LET x == [pc |-> "ended", token |-> t, out |-> out, due |-> due]
           IN  x \in Calls /\ CallOk(x)
<1> DEFINE x == [pc |-> "ended", token |-> t, out |-> out, due |-> due]
<1>1. x \in Calls
    BY DEF Calls, EndedCall
<1>2. x.pc = "ended" /\ x.token = t /\ x.out = out /\ x.due = due
    OBVIOUS
<1> HIDE DEF x
<1>3. CallOk(x)
    BY <1>2 DEF CallOk
<1> QED  BY <1>1, <1>3 DEF x

LEMMA WaitOk ==
    ASSUME time \in Nat, NEW t \in Token, NEW p \in Peer, NEW due \in BOOLEAN,
           BoundBy(t, time + ReviewTimeout, CacheTtl + StaleTtl + 2 * ReviewTimeout), due => Sound(t)
    PROVE  LET x == [pc |-> "wait", token |-> t, peer |-> p, until |-> time + ReviewTimeout, due |-> due]
           IN  x \in Calls /\ CallOk(x) /\ x.pc = "wait"
<1> DEFINE x == [pc |-> "wait", token |-> t, peer |-> p, until |-> time + ReviewTimeout, due |-> due]
<1>0. time + ReviewTimeout \in Nat /\ ReviewTimeout \in Nat
    BY AuthNumbers
<1>1. x \in Calls
    BY <1>0 DEF Calls, WaitCall
<1>2. x.pc = "wait" /\ x.token = t /\ x.until = time + ReviewTimeout /\ x.due = due
    OBVIOUS
<1> HIDE DEF x
<1>3. CallOk(x)
    BY <1>0, <1>2 DEF CallOk
<1> QED  BY <1>1, <1>2, <1>3 DEF x

LEMMA ReviewOk ==
    ASSUME time \in Nat, NEW t \in Token, NEW p \in Peer, NEW due \in BOOLEAN, NEW kind \in {"renewal", "unknown"},
           kind = "renewal" => BoundBy(t, time + ReviewTimeout, CacheTtl + StaleTtl + 3 * ReviewTimeout),
           due /\ StillGood(t) => kind = "renewal", due => Sound(t)
    PROVE  LET x == [pc |-> "review", token |-> t, peer |-> p, kind |-> kind,
                     until |-> time + ReviewTimeout, answer |-> "none", due |-> due]
           IN  x \in Calls /\ CallOk(x)
<1> DEFINE x == [pc |-> "review", token |-> t, peer |-> p, kind |-> kind,
                 until |-> time + ReviewTimeout, answer |-> "none", due |-> due]
<1>0. time + ReviewTimeout \in Nat /\ ReviewTimeout \in Nat
    BY AuthNumbers
<1>1. x \in Calls
    BY <1>0 DEF Calls, ReviewCall
<1>2. x.pc = "review" /\ x.token = t /\ x.until = time + ReviewTimeout /\ x.due = due /\ x.kind = kind
      /\ x.answer = "none"
    OBVIOUS
<1> HIDE DEF x
<1>3. CallOk(x)
    BY <1>0, <1>2 DEF CallOk
<1> QED  BY <1>1, <1>3 DEF x

\* A request that presents a token.
LEMMA AskStep ==
    ASSUME AuthInv, NEW c \in Caller, NEW t \in Token, NEW sa,
           AskJunk(c, t, sa) \/ AskKnown(c, t, sa)
    PROVE  AuthInv'
<1>1. /\ UNCHANGED <<world, time, goneAt, byToken, lastSweep, good>> /\ line' = line
      /\ call[c].pc # "wait" /\ call \in [Caller -> Calls] /\ LineInv /\ time \in Nat
    BY DEF AskJunk, AskKnown, Entering, Asks, AuthInv, AuthType
<1>2. CASE AskJunk(c, t, sa)
  <2> DEFINE out == IF Prechecked(t) /\ Claimed[t].sub = sa THEN "forbidden" ELSE "unauthenticated"
             x == [pc |-> "ended", token |-> t, out |-> out, due |-> FALSE]
  <2>1. out \in {"forbidden", "unauthenticated"} /\ call' = [call EXCEPT ![c] = x]
      BY <1>2 DEF AskJunk, Ended
  <2> HIDE DEF out
  <2>2. x \in Calls /\ CallOk(x)
      BY <2>1, EndedOk
  <2> HIDE DEF x
  <2> QED  BY <1>1, <2>1, <2>2, LineStays, CallMoves
<1>3. CASE AskKnown(c, t, sa)
  <2> DEFINE out == IF Cached(t) = "fresh" THEN "accepted" ELSE "unauthenticated"
             due == OwedAnswer(t)
             x == [pc |-> "ended", token |-> t, out |-> out, due |-> due]
  <2>1. /\ out \in {"accepted", "unauthenticated"} /\ call' = [call EXCEPT ![c] = x]
        /\ Cached(t) \in {"fresh", "rejected"}
      BY <1>3 DEF AskKnown, Ended
  <2>2. due \in BOOLEAN
      BY DEF OwedAnswer
  <2>3. out = "accepted" => BoundBy(t, time, CacheTtl + StaleTtl + 3 * ReviewTimeout)
    <3>1. SUFFICES ASSUME Cached(t) = "fresh"
                   PROVE  BoundBy(t, time, CacheTtl + StaleTtl + 3 * ReviewTimeout)
        OBVIOUS
    <3>2. t \in DOMAIN byToken /\ byToken[t].ok /\ time - byToken[t].at < CacheTtl
        BY <3>1, CachedFacts
    <3>3. time - time <= CacheTtl + StaleTtl + 3 * ReviewTimeout - CacheTtl - ReviewTimeout
        BY <1>1, AuthNumbers
    <3> QED  BY <1>1, <3>2, <3>3, AuthNumbers, CachedBound
  <2>4. due => Sound(t) /\ (StillGood(t) => out = "accepted")
      BY <2>1, OwedIsKnown
  <2> HIDE DEF out, due
  <2>5. x \in Calls /\ CallOk(x)
      BY <2>1, <2>2, <2>3, <2>4, EndedOk
  <2> HIDE DEF x
  <2> QED  BY <1>1, <2>1, <2>5, LineStays, CallMoves
<1> QED  BY <1>2, <1>3

LEMMA ReviewedAskStep ==
    ASSUME AuthInv, NEW c \in Caller, NEW t \in Token, NEW sa, NEW p \in Peer,
           AskExpired(c, t, sa, p) \/ AskUnknown(c, t, sa, p)
    PROVE  AuthInv'
<1>1. /\ UNCHANGED <<world, time, goneAt, byToken, lastSweep, good>>
      /\ call[c].pc # "wait" /\ call \in [Caller -> Calls] /\ LineInv /\ time \in Nat
    BY DEF AskExpired, AskUnknown, Entering, Asks, AuthInv, AuthType
<1> DEFINE due == OwedAnswer(t)
           w == [pc |-> "wait", token |-> t, peer |-> p, until |-> time + ReviewTimeout, due |-> due]
           r(kind) == [pc |-> "review", token |-> t, peer |-> p, kind |-> kind,
                       until |-> time + ReviewTimeout, answer |-> "none", due |-> due]
           e == [pc |-> "ended", token |-> t, out |-> "throttled", due |-> due]
<1>2. due \in BOOLEAN /\ (due => Sound(t) /\ (StillGood(t) => Cached(t) \in {"fresh", "expired"}))
    BY OwedIsKnown DEF OwedAnswer
<1>3. CASE AskExpired(c, t, sa, p)
  <2>1. /\ Cached(t) = "expired"
        /\ \/ call' = [call EXCEPT ![c] = r("renewal")] /\ line' = line
           \/ call' = [call EXCEPT ![c] = w] /\ line' = Append(line, c)
      BY <1>3 DEF AskExpired, Review
  <2>2. t \in DOMAIN byToken /\ byToken[t].ok /\ time - byToken[t].at < CacheTtl + StaleTtl
      BY <2>1, CachedFacts
  <2>3. BoundBy(t, time + ReviewTimeout, CacheTtl + StaleTtl + 2 * ReviewTimeout)
    <3> DEFINE ttl == CacheTtl + StaleTtl
               when == time + ReviewTimeout
               grace == CacheTtl + StaleTtl + 2 * ReviewTimeout
    <3>1. when \in Int /\ ttl \in Nat /\ grace \in Int /\ when - time <= grace - ttl - ReviewTimeout
        BY <1>1, AuthNumbers
    <3>2. time - byToken[t].at < ttl
        BY <2>2
    <3> HIDE DEF ttl, when, grace
    <3>3. BoundBy(t, when, grace)
        BY <2>2, <3>1, <3>2, CachedBound
    <3> QED  BY <3>3 DEF when, grace
  <2>4. BoundBy(t, time + ReviewTimeout, CacheTtl + StaleTtl + 3 * ReviewTimeout)
    <3> DEFINE ttl == CacheTtl + StaleTtl
               when == time + ReviewTimeout
               grace == CacheTtl + StaleTtl + 3 * ReviewTimeout
    <3>1. when \in Int /\ ttl \in Nat /\ grace \in Int /\ when - time <= grace - ttl - ReviewTimeout
        BY <1>1, AuthNumbers
    <3>2. time - byToken[t].at < ttl
        BY <2>2
    <3> HIDE DEF ttl, when, grace
    <3>3. BoundBy(t, when, grace)
        BY <2>2, <3>1, <3>2, CachedBound
    <3> QED  BY <3>3 DEF when, grace
  <2> HIDE DEF due
  <2>5. w \in Calls /\ CallOk(w) /\ w.pc = "wait"
      BY <1>1, <1>2, <2>3, WaitOk
  <2>6. r("renewal") \in Calls /\ CallOk(r("renewal"))
      BY <1>1, <1>2, <2>4, ReviewOk
  <2> HIDE DEF w, r
  <2>7. CASE call' = [call EXCEPT ![c] = r("renewal")] /\ line' = line
      BY <1>1, <2>6, <2>7, LineStays, CallMoves
  <2>8. CASE call' = [call EXCEPT ![c] = w] /\ line' = Append(line, c)
      BY <1>1, <2>5, <2>8, LineJoined, CallMoves
  <2> QED  BY <2>1, <2>7, <2>8
<1>4. CASE AskUnknown(c, t, sa, p)
  <2>1. /\ Cached(t) = "unknown" /\ line' = line
        /\ \/ call' = [call EXCEPT ![c] = r("unknown")]
           \/ call' = [call EXCEPT ![c] = e]
      BY <1>4 DEF AskUnknown, Review, Ended
  <2>2. due => ~StillGood(t)
      BY <1>2, <2>1
  <2> HIDE DEF due
  <2>3. e \in Calls /\ CallOk(e)
      BY <1>2, <2>2, EndedOk
  <2>4. r("unknown") \in Calls /\ CallOk(r("unknown"))
      BY <1>1, <1>2, <2>2, ReviewOk
  <2> HIDE DEF e, r
  <2>5. CASE call' = [call EXCEPT ![c] = r("unknown")]
      BY <1>1, <2>1, <2>4, <2>5, LineStays, CallMoves
  <2>6. CASE call' = [call EXCEPT ![c] = e]
      BY <1>1, <2>1, <2>3, <2>6, LineStays, CallMoves
  <2> QED  BY <2>1, <2>5, <2>6
<1> QED  BY <1>3, <1>4

\* A request under way that waits, reviews, ends or goes away.
LEMMA CallFacts ==
    ASSUME AuthInv, NEW c \in Caller, call[c].pc # "quiet"
    PROVE  /\ call[c].token \in Token /\ call[c].due \in BOOLEAN /\ CallOk(call[c]) /\ call[c].pc # "quiet"
           /\ call[c].pc \in {"wait", "review"} => call[c].until \in Nat /\ call[c].peer \in Peer
           /\ call[c].pc = "review" =>
                 /\ call[c].kind \in {"renewal", "unknown"} /\ call[c].answer \in {"none", "yes", "no"}
                 /\ call[c] \in ReviewCall
           /\ call \in [Caller -> Calls] /\ LineInv /\ time \in Nat
<1>1. call[c] \in Calls /\ CallOk(call[c]) /\ call \in [Caller -> Calls] /\ LineInv /\ time \in Nat
    BY DEF AuthInv, AuthType
<1> QED  BY <1>1 DEF Calls, Quiet, EndedCall, WaitCall, ReviewCall

\* A bound on a later time is one on this.
LEMMA BoundNow ==
    ASSUME AuthInv, NEW t, NEW when \in Int, NEW grace \in Int, NEW more \in Nat, BoundBy(t, when, grace),
           NEW later \in Int, later <= when + more
    PROVE  BoundBy(t, later, grace + more)
<1>1. Sound(t) /\ goneAt[Claimed[t].pod] \in Nat \cup {NotYet}
    BY DEF BoundBy, AuthInv, AuthType, Sound
<1> QED  BY <1>1 DEF BoundBy, NotYet

LEMMA TakePermitStep ==
    ASSUME AuthInv, TakePermit
    PROVE  AuthInv'
<1> DEFINE c == Head(line)
           t == call[c].token
           p == call[c].peer
           due == call[c].due
           x == [pc |-> "review", token |-> t, peer |-> p, kind |-> "renewal",
                 until |-> time + ReviewTimeout, answer |-> "none", due |-> due]
<1>1. /\ UNCHANGED <<world, time, goneAt, byToken, lastSweep, good>>
      /\ line # <<>> /\ call' = [call EXCEPT ![c] = x] /\ line' = Tail(line)
    BY DEF TakePermit, Review
<1>2. c \in Caller /\ call[c].pc = "wait"
  <2>1. line \in Seq(Caller) /\ Len(line) \in Nat \ {0} /\ Head(line) = line[1] /\ line[1] \in Caller
      BY <1>1 DEF AuthInv, LineInv
  <2> QED  BY <2>1 DEF AuthInv, LineInv
<1> HIDE DEF c
<1>3. /\ t \in Token /\ due \in BOOLEAN /\ p \in Peer /\ call[c].until \in Nat
      /\ call \in [Caller -> Calls] /\ LineInv /\ time \in Nat
      /\ BoundBy(t, call[c].until, CacheTtl + StaleTtl + 2 * ReviewTimeout)
      /\ time <= call[c].until /\ (due => Sound(t))
    BY <1>2, CallFacts DEF CallOk
<1>4. BoundBy(t, time + ReviewTimeout, CacheTtl + StaleTtl + 3 * ReviewTimeout)
  <2>1. time + ReviewTimeout \in Int /\ time + ReviewTimeout <= call[c].until + ReviewTimeout
      BY <1>3, AuthNumbers
  <2>2. BoundBy(t, time + ReviewTimeout, CacheTtl + StaleTtl + 2 * ReviewTimeout + ReviewTimeout)
    <3> DEFINE later == time + ReviewTimeout
               grace == CacheTtl + StaleTtl + 2 * ReviewTimeout
    <3>0. ReviewTimeout \in Nat /\ call[c].until \in Int
        BY <1>3, AuthNumbers
    <3>1. later \in Int /\ grace \in Int /\ later <= call[c].until + ReviewTimeout /\ BoundBy(t, call[c].until, grace)
        BY <1>3, <2>1, AuthNumbers
    <3> HIDE DEF later, grace, t
    <3>2. BoundBy(t, later, grace + ReviewTimeout)
        BY <1>3, <3>0, <3>1, BoundNow
    <3> QED  BY <3>2 DEF later, grace
  <2>3. CacheTtl + StaleTtl + 2 * ReviewTimeout + ReviewTimeout = CacheTtl + StaleTtl + 3 * ReviewTimeout
      BY AuthNumbers
  <2> QED  BY <2>2, <2>3
<1> HIDE DEF t, p, due
<1>5. x \in Calls /\ CallOk(x)
    BY <1>3, <1>4, ReviewOk
<1> HIDE DEF x
<1>6. LineInv'
    BY <1>1, <1>3, <1>5, LineServed DEF c
<1> QED  BY <1>1, <1>2, <1>5, <1>6, CallMoves

LEMMA WaitedStep ==
    ASSUME AuthInv, NEW c \in Caller, WaitedInVain(c)
    PROVE  AuthInv'
<1> DEFINE t == call[c].token
           due == call[c].due
           x == [pc |-> "ended", token |-> t, out |-> "accepted", due |-> due]
<1>1. /\ UNCHANGED <<world, time, goneAt, byToken, lastSweep, good>>
      /\ call[c].pc = "wait" /\ call' = [call EXCEPT ![c] = x] /\ line' = LineWithout(c)
    BY DEF WaitedInVain, Ended
<1>2. /\ t \in Token /\ due \in BOOLEAN /\ call[c].until \in Nat
      /\ call \in [Caller -> Calls] /\ LineInv /\ time \in Nat
      /\ BoundBy(t, call[c].until, CacheTtl + StaleTtl + 2 * ReviewTimeout)
      /\ time <= call[c].until /\ (due => Sound(t))
    BY <1>1, CallFacts DEF CallOk
<1>3. BoundBy(t, time, CacheTtl + StaleTtl + 3 * ReviewTimeout)
  <2> DEFINE grace == CacheTtl + StaleTtl + 2 * ReviewTimeout
  <2>0. ReviewTimeout \in Nat /\ call[c].until \in Int
      BY <1>2, AuthNumbers
  <2>1. grace \in Int /\ time <= call[c].until + ReviewTimeout /\ BoundBy(t, call[c].until, grace) /\ time \in Int
      BY <1>2, AuthNumbers
  <2>2. grace + ReviewTimeout = CacheTtl + StaleTtl + 3 * ReviewTimeout
      BY AuthNumbers
  <2> HIDE DEF grace, t
  <2>3. BoundBy(t, time, grace + ReviewTimeout)
      BY <2>0, <2>1, BoundNow
  <2> QED  BY <2>2, <2>3
<1> HIDE DEF t, due
<1>4. x \in Calls /\ CallOk(x)
    BY <1>2, <1>3, EndedOk
<1> HIDE DEF x
<1>5. LineInv'
    BY <1>1, <1>2, <1>4, LineLeft
<1> QED  BY <1>1, <1>4, <1>5, CallMoves

LEMMA EvaluateStep ==
    ASSUME AuthInv, NEW c \in Caller, Evaluate(c)
    PROVE  AuthInv'
<1> DEFINE t == call[c].token
           a == IF ReviewSays(t) THEN "yes" ELSE "no"
           x == [call[c] EXCEPT !.answer = a]
<1>1. /\ UNCHANGED <<world, time, goneAt, byToken, lastSweep, good>> /\ line' = line
      /\ call[c].pc = "review" /\ call' = [call EXCEPT ![c] = x]
    BY DEF Evaluate
<1>2. /\ t \in Token /\ call[c].until \in Nat /\ call[c] \in ReviewCall /\ CallOk(call[c])
      /\ call \in [Caller -> Calls] /\ LineInv /\ time \in Nat
    BY <1>1, CallFacts
<1>3. a \in {"yes", "no"}
    OBVIOUS
<1>4. a = "yes" => BoundBy(t, call[c].until, ReviewTimeout + 1)
    BY DEF ReviewSays, BoundBy, Sound
<1>5. a = "no" => ~(Sound(t) /\ StillGood(t))
    BY DEF ReviewSays, Sound, StillGood, Prechecked
<1>6. x \in ReviewCall
  <2> HIDE DEF a
  <2> QED  BY <1>2, <1>3 DEF ReviewCall
<1>7. /\ x.pc = call[c].pc /\ x.token = t /\ x.until = call[c].until /\ x.kind = call[c].kind
      /\ x.due = call[c].due /\ x.answer = a
  <2> HIDE DEF a
  <2> QED  BY <1>2, <1>3 DEF ReviewCall
<1> HIDE DEF x, a
<1>8. x \in Calls /\ CallOk(x)
    BY <1>1, <1>2, <1>4, <1>5, <1>6, <1>7 DEF CallOk, Calls
<1> QED  BY <1>1, <1>2, <1>8, LineStays, CallMoves

LEMMA UnreviewedStep ==
    ASSUME AuthInv, NEW c \in Caller, Unreviewed(c)
    PROVE  AuthInv'
<1> DEFINE t == call[c].token
           due == call[c].due
           out == IF call[c].kind = "renewal" THEN "accepted" ELSE "unavailable"
           x == [pc |-> "ended", token |-> t, out |-> out, due |-> due]
<1>1. /\ UNCHANGED <<world, time, goneAt, byToken, lastSweep, good>> /\ line' = line
      /\ call[c].pc = "review" /\ call' = [call EXCEPT ![c] = x]
    BY DEF Unreviewed, Ended
<1>2. /\ t \in Token /\ due \in BOOLEAN /\ call[c].until \in Nat
      /\ call \in [Caller -> Calls] /\ LineInv /\ time \in Nat
      /\ call[c].kind = "renewal" => BoundBy(t, call[c].until, CacheTtl + StaleTtl + 3 * ReviewTimeout)
      /\ time <= call[c].until /\ (due => Sound(t))
      /\ due /\ StillGood(t) => call[c].kind = "renewal"
    BY <1>1, CallFacts DEF CallOk
<1>3. out = "accepted" => BoundBy(t, time, CacheTtl + StaleTtl + 3 * ReviewTimeout)
  <2>1. ASSUME call[c].kind = "renewal" PROVE BoundBy(t, time, CacheTtl + StaleTtl + 3 * ReviewTimeout)
    <3> DEFINE grace == CacheTtl + StaleTtl + 3 * ReviewTimeout
    <3>1. grace \in Int /\ time <= call[c].until + 0 /\ BoundBy(t, call[c].until, grace) /\ grace + 0 = grace
        BY <1>2, <2>1, AuthNumbers
    <3> HIDE DEF grace, t
    <3>2. BoundBy(t, time, grace + 0)
        BY <1>2, <3>1, BoundNow
    <3> QED  BY <3>1, <3>2 DEF grace
  <2> QED  BY <2>1
<1>4. out \in {"accepted", "unavailable"} /\ (due /\ StillGood(t) => out = "accepted")
    BY <1>2
<1> HIDE DEF t, due, out
<1>5. x \in Calls /\ CallOk(x)
    BY <1>2, <1>3, <1>4, EndedOk
<1> HIDE DEF x
<1> QED  BY <1>1, <1>2, <1>5, LineStays, CallMoves

LEMMA HangUpStep ==
    ASSUME AuthInv, NEW c \in Caller, HangUp(c)
    PROVE  AuthInv'
<1>1. /\ UNCHANGED <<world, time, goneAt, byToken, lastSweep, good>>
      /\ call' = [call EXCEPT ![c] = Quiet] /\ line' = LineWithout(c)
      /\ call \in [Caller -> Calls] /\ LineInv
    BY DEF HangUp, AuthInv, AuthType
<1>2. Quiet \in Calls /\ CallOk(Quiet)
    BY DEF Calls, CallOk, Quiet
<1> QED  BY <1>1, <1>2, LineLeft, CallMoves

-----------------------------------------------------------------------------
\* An answer that is remembered.

LEMMA ExcusedStays ==
    ASSUME AuthInv, NEW t \in Token, NEW x \in Token, Excused(x, good),
           time' = time, good' = good \/ good' = [good EXCEPT ![t] = time], good'[x] = good[x]
    PROVE  Excused(x, good)'
<1>1. /\ good \in [Token -> Nat \cup {NotYet}] /\ time \in Nat
      /\ \A u \in Token : good[u] \in Int /\ good[u] <= time
    BY DEF AuthInv, AuthType, NotYet
<1>2. \A u \in Token : good'[u] \in Int /\ good[u] <= good'[u] /\ (good[u] # NotYet => good'[u] # NotYet)
    BY <1>1 DEF NotYet
<1>3. Newer(x, good) \subseteq Newer(x, good') /\ Newer(x, good') \in SUBSET Token
    BY <1>1, <1>2 DEF Newer
<1>4. Around(x, good) \subseteq Around(x, good') /\ Around(x, good') \in SUBSET Token
  <2>1. ASSUME NEW u \in Around(x, good) PROVE u \in Around(x, good')
    <3>1. u \in Token /\ good[u] # NotYet /\ good[x] - good[u] < 2 * CacheTtl + StaleTtl
        BY <2>1 DEF Around
    <3>2. 2 * CacheTtl + StaleTtl \in Int
        BY AuthNumbers
    <3>3. good'[x] - good'[u] < 2 * CacheTtl + StaleTtl
        BY <1>1, <1>2, <3>1, <3>2
    <3> QED  BY <1>2, <3>1, <3>3 DEF Around
  <2> QED  BY <2>1 DEF Around
<1>5. /\ Cardinality(Newer(x, good)) <= Cardinality(Newer(x, good'))
      /\ Cardinality(Around(x, good)) <= Cardinality(Around(x, good'))
      /\ Cardinality(Newer(x, good)) \in Nat /\ Cardinality(Newer(x, good')) \in Nat
      /\ Cardinality(Around(x, good)) \in Nat /\ Cardinality(Around(x, good')) \in Nat
    BY <1>3, <1>4, AuthAssumption, FS_Subset, FS_CardinalityType
<1>6. PerPod \in Nat /\ MaxVerdicts \in Nat
    BY AuthAssumption
<1>7. \/ time - good'[x] >= CacheTtl + StaleTtl
      \/ Cardinality(Newer(x, good')) >= PerPod
      \/ Cardinality(Around(x, good')) >= MaxVerdicts
    BY <1>5, <1>6 DEF Excused
<1> QED  BY <1>7 DEF Excused, Newer, Around

LEMMA AnsweredCache ==
    ASSUME AuthInv, NEW t \in Token, NEW ok \in BOOLEAN, Remember(t, ok), UNCHANGED <<time, goneAt>>,
           good' = IF ok THEN [good EXCEPT ![t] = time] ELSE good,
           ok => BoundBy(t, time, ReviewTimeout + 1)
    PROVE  /\ \A u \in DOMAIN byToken' : VerdictOk(u, byToken[u], good[u], lastSweep)'
           /\ lastSweep' \in Nat /\ lastSweep' <= time
<1>1. /\ time \in Nat /\ CacheTtl \in Nat \ {0} /\ StaleTtl \in Nat /\ ReviewTimeout \in Nat
      /\ lastSweep \in Nat \cup {NotYet} /\ lastSweep <= time
      /\ good \in [Token -> Nat \cup {NotYet}]
    BY AuthAssumption DEF AuthInv, AuthType
<1>2. /\ lastSweep' \in Nat /\ lastSweep' <= time /\ (SweepDue => lastSweep' = time)
      /\ ~SweepDue => lastSweep' = lastSweep
    BY <1>1 DEF Remember, SweepDue, NotYet
<1>3. ASSUME NEW u \in DOMAIN byToken' PROVE VerdictOk(u, byToken'[u], good'[u], lastSweep')
  <2>1. CASE u = t
    <3>1. byToken'[u].at = time /\ byToken'[u].ok = ok
        BY <2>1, RememberFacts
    <3>2. ok => good'[u] = time
        BY <1>1, <2>1
    <3>3. lastSweep' # NotYet /\ lastSweep' - time < CacheTtl + StaleTtl
      <4>1. \A a, n \in Nat, k \in Nat \ {0} : a <= n => a # -1 /\ a - n < k
          OBVIOUS
      <4>2. CacheTtl + StaleTtl \in Nat \ {0}
          BY <1>1
      <4> QED  BY <1>1, <1>2, <4>1, <4>2 DEF NotYet
    <3> QED  BY <1>1, <2>1, <3>1, <3>2, <3>3 DEF VerdictOk
  <2>2. CASE u # t
    <3>1. u \in DOMAIN byToken /\ byToken'[u] = byToken[u] /\ (SweepDue => Keeps(byToken[u]))
        BY <2>2, RememberFacts
    <3>2. VerdictOk(u, byToken[u], good[u], lastSweep)
        BY <3>1 DEF AuthInv
    <3>3. good'[u] = good[u]
        BY <1>1, <2>2, <3>2 DEF VerdictOk
    <3>4. lastSweep' # NotYet /\ lastSweep' - byToken[u].at < CacheTtl + StaleTtl
        BY <1>1, <1>2, <3>1, <3>2 DEF VerdictOk, Keeps, NotYet
    <3> QED  BY <3>1, <3>2, <3>3, <3>4 DEF VerdictOk
  <2> QED  BY <2>1, <2>2
<1>4. \A u \in DOMAIN byToken' : VerdictOk(u, byToken[u], good[u], lastSweep)'
    BY <1>3 DEF VerdictOk, BoundBy, Sound
<1> QED  BY <1>2, <1>4

LEMMA AnsweredGood ==
    ASSUME AuthInv, NEW t \in Token, NEW ok \in BOOLEAN, Remember(t, ok), UNCHANGED <<time, goneAt>>,
           good' = IF ok THEN [good EXCEPT ![t] = time] ELSE good,
           ok => Sound(t), ~ok => ~(Sound(t) /\ StillGood(t)), NEW x \in Token
    PROVE  GoodOk(x, byToken, good)'
<1>1. /\ time \in Nat /\ CacheTtl \in Nat \ {0} /\ StaleTtl \in Nat
      /\ lastSweep \in Nat \cup {NotYet} /\ lastSweep <= time
      /\ good \in [Token -> Nat \cup {NotYet}] /\ \A u \in Token : good[u] \in Int /\ good[u] <= time
      /\ GoodOk(x, byToken, good)
    BY AuthAssumption DEF AuthInv, AuthType, NotYet
<1>2. /\ good' \in [Token -> Nat \cup {NotYet}] /\ (ok => good'[t] = time)
      /\ \A u \in Token : good'[u] \in Int /\ good[u] <= good'[u] /\ (u # t => good'[u] = good[u])
    BY <1>1 DEF NotYet
<1>3. CASE x = t /\ ok
  <2>1. Remembered(x, byToken', good')
      BY <1>2, <1>3, RememberFacts DEF Remembered
  <2> QED  BY <1>3, <2>1 DEF GoodOk, Remembered, Sound
<1>4. CASE x = t /\ ~ok
  <2>1. good' = good
      BY <1>4
  <2> QED  BY <1>1, <1>4, <2>1 DEF GoodOk, Sound, StillGood, Prechecked
<1>5. CASE x # t
  <2>1. SUFFICES ASSUME good[x] # NotYet, StillGood(x)
                 PROVE  Remembered(x, byToken', good') \/ Excused(x, good)'
      BY <1>1, <1>2, <1>5 DEF GoodOk, Sound, StillGood, Prechecked, Remembered
  <2>2. Remembered(x, byToken, good) \/ Excused(x, good)
      BY <1>1, <2>1 DEF GoodOk
  <2>3. CASE Excused(x, good)
      BY <1>2, <1>5, <2>3, ExcusedStays
  <2>4. CASE Remembered(x, byToken, good) /\ x \in DOMAIN byToken'
    <3>1. byToken'[x] = byToken[x]
        BY <1>5, <2>4, RememberFacts
    <3> QED  BY <1>2, <1>5, <2>4, <3>1 DEF Remembered
  <2>5. CASE Remembered(x, byToken, good) /\ x \notin DOMAIN byToken'
    <3>1. /\ x \in DOMAIN byToken \ {t} /\ byToken[x].ok /\ byToken[x].at = good[x] /\ good'[x] = good[x]
        BY <1>2, <1>5, <2>5 DEF Remembered
    <3>2. \A w \in DOMAIN byToken : VerdictOk(w, byToken[w], good[w], lastSweep)
        BY DEF AuthInv
    <3>3. CASE ~Keeps(byToken[x])
        BY <1>1, <1>2, <3>1, <3>3 DEF Keeps, Excused
    <3>4. ASSUME NEW V \in SUBSET DOMAIN byToken, IsFiniteSet(V), Cardinality(V) >= MaxVerdicts,
                 \A w \in V : byToken[w].ok /\ (SweepDue => Keeps(byToken[w]))
          PROVE  Excused(x, good)'
      <4>1. ASSUME NEW w \in V PROVE w \in Around(x, good')
        <5>1. /\ w \in Token /\ good[w] = byToken[w].at /\ byToken[w].at \in Nat
              /\ lastSweep # NotYet /\ lastSweep - good[w] < CacheTtl + StaleTtl
            BY <3>2, <3>4, <4>1 DEF VerdictOk
        <5>2. time - good[w] < 2 * CacheTtl + StaleTtl
          <6>1. CASE SweepDue
              BY <1>1, <3>4, <4>1, <5>1, <6>1 DEF Keeps
          <6>2. CASE ~SweepDue
              BY <1>1, <5>1, <6>2 DEF SweepDue, NotYet
          <6> QED  BY <6>1, <6>2
        <5>3. good'[w] # NotYet /\ good'[x] - good'[w] < 2 * CacheTtl + StaleTtl
            BY <1>1, <1>2, <3>1, <5>1, <5>2 DEF NotYet
        <5> QED  BY <5>1, <5>3 DEF Around
      <4>2. Around(x, good') \in SUBSET Token /\ V \subseteq Around(x, good')
          BY <4>1 DEF Around
      <4>3. /\ Cardinality(V) <= Cardinality(Around(x, good')) /\ MaxVerdicts \in Nat
            /\ Cardinality(V) \in Nat /\ Cardinality(Around(x, good')) \in Nat
          BY <3>4, <4>2, AuthAssumption, FS_Subset, FS_CardinalityType
      <4>4. Cardinality(Around(x, good')) >= MaxVerdicts
          BY <3>4, <4>3
      <4> QED  BY <4>4 DEF Excused, Around
    <3>5. ASSUME ok, Claimed[x].pod = Claimed[t].pod, NEW W \in SUBSET (DOMAIN byToken \ {t, x}),
                 IsFiniteSet(W), Cardinality(W) = PerPod - 1,
                 \A w \in W : byToken[w].ok /\ Claimed[w].pod = Claimed[t].pod /\ byToken[x].at <= byToken[w].at
          PROVE  Excused(x, good)'
      <4>1. ASSUME NEW w \in W PROVE w \in Newer(x, good')
        <5>1. w \in Token /\ good[w] = byToken[w].at /\ w # t /\ w # x
            BY <3>2, <3>5, <4>1 DEF VerdictOk
        <5>2. good'[w] >= good'[x]
            BY <1>2, <3>1, <3>5, <4>1, <5>1
        <5> QED  BY <3>5, <4>1, <5>1, <5>2 DEF Newer
      <4>2. t \in Newer(x, good')
          BY <1>1, <1>2, <1>5, <3>1, <3>5 DEF Newer
      <4>3. Newer(x, good') \in SUBSET Token /\ W \cup {t} \subseteq Newer(x, good')
          BY <4>1, <4>2 DEF Newer
      <4>4. Cardinality(W \cup {t}) = Cardinality(W) + 1 /\ PerPod \in Nat /\ IsFiniteSet(W \cup {t})
          BY <3>5, FS_AddElement, AuthAssumption
      <4>5. /\ Cardinality(W \cup {t}) <= Cardinality(Newer(x, good'))
            /\ Cardinality(Newer(x, good')) \in Nat
          BY <4>3, AuthAssumption, FS_Subset, FS_CardinalityType
      <4>6. Cardinality(Newer(x, good')) >= PerPod
          BY <3>5, <4>4, <4>5
      <4> QED  BY <4>6 DEF Excused, Newer
    <3> QED  BY <2>5, <3>1, <3>3, <3>4, <3>5, RememberFacts
  <2> QED  BY <2>2, <2>3, <2>4, <2>5
<1> QED  BY <1>3, <1>4, <1>5

LEMMA AnsweredStep ==
    ASSUME AuthInv, NEW c \in Caller, Answered(c)
    PROVE  AuthInv'
<1> DEFINE t == call[c].token
           due == call[c].due
           ok == call[c].answer = "yes"
           out == IF ok THEN "accepted" ELSE "unauthenticated"
           x == [pc |-> "ended", token |-> t, out |-> out, due |-> due]
<1>1. /\ UNCHANGED <<world, time, goneAt>> /\ line' = line /\ Remember(t, ok)
      /\ good' = IF ok THEN [good EXCEPT ![t] = time] ELSE good
      /\ call[c].pc = "review" /\ call[c].answer # "none" /\ call' = [call EXCEPT ![c] = x]
    BY DEF Answered, Ended
<1>2. /\ t \in Token /\ due \in BOOLEAN /\ call[c].until \in Nat /\ call[c].answer \in {"none", "yes", "no"}
      /\ call \in [Caller -> Calls] /\ LineInv /\ time \in Nat
      /\ call[c].answer = "yes" => BoundBy(t, call[c].until, ReviewTimeout + 1)
      /\ call[c].answer = "no" => ~(Sound(t) /\ StillGood(t))
      /\ time <= call[c].until /\ (due => Sound(t))
    BY <1>1, CallFacts DEF CallOk
<1>3. /\ ok \in BOOLEAN /\ (ok => BoundBy(t, call[c].until, ReviewTimeout + 1))
      /\ ~ok => ~(Sound(t) /\ StillGood(t))
      /\ out \in {"accepted", "unauthenticated"} /\ (out = "accepted" <=> ok)
    BY <1>1, <1>2
<1> HIDE DEF t, due, ok, out
<1>4. ASSUME ok
      PROVE  /\ Sound(t) /\ BoundBy(t, time, ReviewTimeout + 1)
             /\ BoundBy(t, time, CacheTtl + StaleTtl + 3 * ReviewTimeout)
  <2> DEFINE u == call[c].until
             grace == ReviewTimeout + 1
             more == CacheTtl - 1 + StaleTtl + 2 * ReviewTimeout
  <2>1. u \in Int /\ grace \in Int /\ time \in Int /\ more \in Nat /\ 0 \in Nat
        /\ time <= u + more /\ time <= u + 0
      BY <1>2, AuthAssumption
  <2>2. grace + more = CacheTtl + StaleTtl + 3 * ReviewTimeout /\ grace + 0 = grace
      BY AuthAssumption
  <2>3. BoundBy(t, u, grace)
      BY <1>3, <1>4
  <2> HIDE DEF u, grace, more
  <2>4. BoundBy(t, time, grace + more) /\ BoundBy(t, time, grace + 0)
      BY <2>1, <2>3, BoundNow
  <2> QED  BY <2>2, <2>3, <2>4 DEF grace, BoundBy
<1>5. x \in Calls /\ CallOk(x)
    BY <1>2, <1>3, <1>4, EndedOk
<1> HIDE DEF x
<1>6. LineInv'
    BY <1>1, <1>2, <1>5, LineStays
<1>7. /\ \A u \in DOMAIN byToken' : VerdictOk(u, byToken[u], good[u], lastSweep)'
      /\ lastSweep' \in Nat /\ lastSweep' <= time
    BY <1>1, <1>2, <1>3, <1>4, AnsweredCache
<1>8. \A y \in Token : GoodOk(y, byToken, good)'
    BY <1>1, <1>2, <1>3, <1>4, AnsweredGood
<1>9. call' \in [Caller -> Calls] /\ \A d \in Caller : call'[d] = IF d = c THEN x ELSE call[d]
    BY <1>1, <1>2, <1>5
<1>10. AuthType'
  <2>1. good' \in [Token -> Nat \cup {NotYet}] /\ \A y \in Token : good'[y] <= time
      BY <1>1, <1>2 DEF AuthInv, AuthType
  <2> QED  BY <1>1, <1>2, <1>7, <1>9, <2>1 DEF AuthInv, AuthType
<1>11. \A d \in Caller : CallOk(call[d])'
  <2>1. \A d \in Caller : CallOk(call'[d])
      BY <1>5, <1>9 DEF AuthInv
  <2> QED  BY <1>1, <2>1 DEF CallOk, BoundBy, Sound, StillGood, Prechecked
<1> QED  BY <1>6, <1>7, <1>8, <1>10, <1>11 DEF AuthInv

-----------------------------------------------------------------------------
\* A pod that is deleted, and time.

LEMMA VerdictCarries ==
    ASSUME AuthInv, UNCHANGED <<byToken, lastSweep, good>>, time' \in Nat, time' >= time,
           goneAt' = goneAt \/ \E p \in Pod : goneAt' = [goneAt EXCEPT ![p] = time],
           NEW u \in DOMAIN byToken
    PROVE  VerdictOk(u, byToken[u], good[u], lastSweep)'
<1>1. VerdictOk(u, byToken[u], good[u], lastSweep) /\ time \in Nat /\ ReviewTimeout + 1 \in Int /\ ReviewTimeout \in Nat
    BY AuthNumbers DEF AuthInv, AuthType
<1>2. byToken[u].at \in Int /\ byToken[u].at <= time
    BY <1>1 DEF VerdictOk
<1>3. byToken[u].at < time + (ReviewTimeout + 1)
    BY <1>1, <1>2
<1>4. byToken[u].ok => BoundBy(u, byToken[u].at, ReviewTimeout + 1)'
    BY <1>1, <1>2, <1>3, BoundCarries DEF VerdictOk
<1>5. byToken[u].at <= time'
    BY <1>1, <1>2
<1> QED  BY <1>1, <1>4, <1>5 DEF VerdictOk

LEMMA GoodCarries ==
    ASSUME AuthInv, UNCHANGED <<byToken, good>>, time' \in Nat, time' >= time,
           goneAt' = goneAt \/ \E p \in Pod : goneAt' = [goneAt EXCEPT ![p] = time],
           NEW t \in Token
    PROVE  GoodOk(t, byToken, good)'
<1>1. GoodOk(t, byToken, good) /\ time \in Nat /\ good[t] \in Int /\ CacheTtl + StaleTtl \in Nat
    BY AuthNumbers DEF AuthInv, AuthType, NotYet
<1>2. SUFFICES ASSUME good[t] # NotYet, StillGood(t)'
               PROVE  Remembered(t, byToken, good) \/ Excused(t, good)'
    BY <1>1 DEF GoodOk, Sound, Remembered
<1>3. StillGood(t)
    BY <1>1, <1>2, LiveBefore DEF GoodOk
<1>4. CASE Excused(t, good)
    BY <1>1, <1>4 DEF Excused, Newer, Around
<1> QED  BY <1>1, <1>2, <1>3, <1>4 DEF GoodOk

LEMMA PodDeletedStep ==
    ASSUME AuthInv, NEW p \in Pod, PodDeleted(p)
    PROVE  AuthInv'
<1>1. /\ UNCHANGED <<world, time, byToken, lastSweep, call, line, good>>
      /\ goneAt' = [goneAt EXCEPT ![p] = time] /\ time \in Nat /\ time' \in Nat /\ time' >= time
    BY DEF PodDeleted, AuthInv, AuthType
<1>2. AuthType' /\ LineInv'
    BY <1>1 DEF AuthInv, AuthType, LineInv
<1>3. /\ \A u \in DOMAIN byToken' : VerdictOk(u, byToken[u], good[u], lastSweep)'
      /\ \A t \in Token : GoodOk(t, byToken, good)'
    BY <1>1, VerdictCarries, GoodCarries
<1>4. ASSUME NEW c \in Caller PROVE CallOk(call[c])'
  <2>0. PICK x \in Calls : x = call[c]
      BY DEF AuthInv, AuthType
  <2> DEFINE t == x.token
  <2>1. ASSUME x.pc = "quiet" PROVE CallOk(x)'
      BY <1>1, <2>1 DEF CallOk
  <2>2. ASSUME x.pc # "quiet" PROVE CallOk(x)'
    <3>1. /\ t \in Token /\ CallOk(x) /\ x.due \in BOOLEAN
          /\ x.pc \in {"wait", "review"} => x.until \in Int
        BY <2>0, <2>2, CallFacts
    <3>2. Sound(t) /\ StillGood(t)' => StillGood(t)
        BY <1>1, <3>1, LiveBefore
    <3>3. ASSUME NEW when \in Int, NEW grace \in Int, BoundBy(t, when, grace), when < time + grace
          PROVE  BoundBy(t, when, grace)'
        BY <1>1, <3>3, BoundCarries
    <3>4. x.pc = "wait" => BoundBy(t, x.until, CacheTtl + StaleTtl + 2 * ReviewTimeout)'
        BY <1>1, <3>1, <3>3, AuthAssumption DEF CallOk
    <3>5. x.pc = "review" /\ x.kind = "renewal" =>
              BoundBy(t, x.until, CacheTtl + StaleTtl + 3 * ReviewTimeout)'
        BY <1>1, <3>1, <3>3, AuthAssumption DEF CallOk
    <3>6. x.pc = "review" /\ x.answer = "yes" => BoundBy(t, x.until, ReviewTimeout + 1)'
        BY <1>1, <3>1, <3>3, AuthAssumption DEF CallOk
    <3>7. x.pc = "ended" /\ x.out = "accepted" =>
              BoundBy(t, time, CacheTtl + StaleTtl + 3 * ReviewTimeout)'
        BY <1>1, <3>1, <3>3, AuthAssumption DEF CallOk
    <3>8. Sound(t)' <=> Sound(t)
        BY <1>1 DEF Sound
    <3> HIDE DEF t
    <3>9. x.token = t
        BY <1>1 DEF t
    <3> QED  BY <1>1, <3>1, <3>2, <3>4, <3>5, <3>6, <3>7, <3>8, <3>9 DEF CallOk
  <2>3. CallOk(x)' /\ call'[c] = x
      BY <1>1, <2>0, <2>1, <2>2
  <2> QED  BY <2>3 DEF CallOk, BoundBy, Sound, StillGood, Prechecked
<1> QED  BY <1>1, <1>2, <1>3, <1>4 DEF AuthInv

LEMMA ElapseStep ==
    ASSUME AuthInv, Elapse
    PROVE  AuthInv'
<1>1. /\ UNCHANGED <<world, goneAt, byToken, lastSweep, call, line, good>>
      /\ time \in Nat /\ time' = time + 1 /\ time' \in Nat /\ time' >= time
    BY DEF Elapse, AuthInv, AuthType
<1>2. LineInv'
    BY <1>1 DEF AuthInv, LineInv
<1>3. AuthType'
  <2>1. \A p \in Pod : goneAt[p] <= time'
      BY <1>1 DEF AuthInv, AuthType, NotYet
  <2>2. \A t \in Token : good[t] <= time'
      BY <1>1 DEF AuthInv, AuthType, NotYet
  <2>3. lastSweep <= time'
      BY <1>1 DEF AuthInv, AuthType, NotYet
  <2> QED  BY <1>1, <2>1, <2>2, <2>3 DEF AuthInv, AuthType
<1>4. /\ \A u \in DOMAIN byToken' : VerdictOk(u, byToken[u], good[u], lastSweep)'
      /\ \A t \in Token : GoodOk(t, byToken, good)'
    BY <1>1, VerdictCarries, GoodCarries
<1>5. ASSUME NEW c \in Caller PROVE CallOk(call[c])'
  <2>0. PICK x \in Calls : x = call[c]
      BY DEF AuthInv, AuthType
  <2> DEFINE t == x.token
  <2>1. ASSUME x.pc = "quiet" PROVE CallOk(x)'
      BY <1>1, <2>1 DEF CallOk
  <2>2. ASSUME x.pc # "quiet" PROVE CallOk(x)'
    <3>1. /\ t \in Token /\ CallOk(x) /\ x.due \in BOOLEAN /\ x.pc # "ended"
          /\ x.pc \in {"wait", "review"} => x.until \in Nat /\ time < x.until
        BY <2>0, <2>2, CallFacts DEF Elapse
    <3>2. Sound(t) /\ StillGood(t)' => StillGood(t)
        BY <1>1, <3>1, LiveBefore
    <3>3. (Sound(t)' <=> Sound(t)) /\ \A when, grace \in Int : BoundBy(t, when, grace)' <=> BoundBy(t, when, grace)
        BY <1>1 DEF Sound, BoundBy
    <3>4. x.pc \in {"wait", "review"} => time' <= x.until /\ x.until <= time' + ReviewTimeout
        BY <1>1, <3>1, AuthNumbers DEF CallOk
    <3>5. x.token = t /\ (x.pc \in {"wait", "review"} => x.until \in Int)
        BY <1>1, <3>1
    <3>6. ReviewTimeout + 1 \in Int
        BY AuthNumbers
    <3> HIDE DEF t
    <3> QED  BY <3>1, <3>2, <3>3, <3>4, <3>5, <3>6, AuthNumbers DEF CallOk
  <2>3. CallOk(x)' /\ call'[c] = x
      BY <1>1, <2>0, <2>1, <2>2
  <2> QED  BY <2>3 DEF CallOk, BoundBy, Sound, StillGood, Prechecked
<1> QED  BY <1>1, <1>2, <1>3, <1>4, <1>5 DEF AuthInv

-----------------------------------------------------------------------------
LEMMA AuthInitial == AuthInit => AuthInv
<1> SUFFICES ASSUME AuthInit PROVE AuthInv
    OBVIOUS
<1>1. AuthType
    BY AuthAssumption DEF AuthInit, AuthType, Calls, NotYet
<1>2. LineInv
    BY DEF AuthInit, LineInv
<1>3. \A c \in Caller : CallOk(call[c])
    BY DEF AuthInit, CallOk, Quiet
<1>4. DOMAIN byToken = {} /\ \A t \in Token : good[t] = NotYet
    BY DEF AuthInit
<1> QED  BY <1>1, <1>2, <1>3, <1>4 DEF AuthInv, GoodOk

LEMMA AuthStep == AuthInv /\ [AuthNext]_authVars => AuthInv'
<1> SUFFICES ASSUME AuthInv, [AuthNext]_authVars PROVE AuthInv'
    OBVIOUS
<1>1. ASSUME NEW c \in Caller, NEW t \in Token, NEW p \in world.peers,
             AskExpired(c, t, Claimed[t].sub, p) \/ AskUnknown(c, t, Claimed[t].sub, p)
      PROVE  AuthInv'
  <2>1. p \in Peer
      BY <1>1 DEF AuthInv, AuthType
  <2> QED  BY <1>1, <2>1, ReviewedAskStep
<1>2. CASE UNCHANGED authVars
    BY <1>2 DEF authVars, AuthInv, AuthType, LineInv, VerdictOk, CallOk, GoodOk, BoundBy, Sound, StillGood,
                Prechecked, Remembered, Excused, Newer, Around
<1> QED  BY <1>1, <1>2, AskStep, TakePermitStep, WaitedStep, EvaluateStep, AnsweredStep, UnreviewedStep,
            HangUpStep, PodDeletedStep, ElapseStep DEF AuthNext

\* For any number of requests, peers and tokens, sizes of the cache and of the
\* pools of reviews, reviews that fail, time out or overtake each other, pods
\* deleted at any time: a token of a deleted pod stops working within a TTL,
\* the stale grace and three review timeouts, and a good token is not throttled
\* or refused for what other requests do (auth.rs, authenticate, remember).
THEOREM AdmissionCorrect == AuthSpec => []AdmissionIsSound
<1>1. AuthInv => AdmissionIsSound
  <2> SUFFICES ASSUME AuthInv PROVE AdmissionIsSound
      OBVIOUS
  <2>1. ASSUME NEW c \in Caller, call[c].pc = "ended"
        PROVE  /\ call[c].token \in Token /\ call[c].due \in BOOLEAN
               /\ call[c].out = "accepted" => BoundBy(call[c].token, time, CacheTtl + StaleTtl + 3 * ReviewTimeout)
               /\ call[c].due /\ StillGood(call[c].token) => call[c].out = "accepted"
      BY <2>1, CallFacts DEF CallOk
  <2>2. ASSUME NEW t, BoundBy(t, time, CacheTtl + StaleTtl + 3 * ReviewTimeout)
        PROVE  /\ Claimed[t].genuine
               /\ goneAt[Claimed[t].pod] # NotYet =>
                      time < goneAt[Claimed[t].pod] + CacheTtl + StaleTtl + 3 * ReviewTimeout
    <3>1. Sound(t) /\ goneAt[Claimed[t].pod] \in Nat \cup {NotYet} /\ time \in Nat
        BY <2>2 DEF BoundBy, Sound, AuthInv, AuthType
    <3> QED  BY <2>2, <3>1, AuthNumbers DEF BoundBy, Sound, NotYet
  <2>3. RevokedInTime
      BY <2>1, <2>2 DEF RevokedInTime, Outcome
  <2>4. FloodSpares
      BY <2>1 DEF FloodSpares, Outcome, StillGood
  <2> QED  BY <2>3, <2>4 DEF AdmissionIsSound
<1> QED  BY <1>1, AuthInitial, AuthStep, PTL DEF AuthSpec

-----------------------------------------------------------------------------
(* Watches: the caches, those who wait for them and the passes they drive.  *)

WatchEvents == {"init", "initApply", "initDone", "apply", "error", "refused"}

WatchType ==
    /\ there \in [WatchedKind -> Nat \cup {NoCrd}] /\ there["Gateway"] # NoCrd
    /\ stream \in [WatchedKind -> {"discover", "unserved", "parked", "open", "again", "init", "filled", "live"}]
    /\ buffer \in [WatchedKind -> Nat \cup {Unfilled}] /\ store \in [WatchedKind -> Nat \cup {Unfilled}]
    /\ listed \in [WatchedKind -> BOOLEAN] /\ passRead \in [WatchedKind -> Int]
    /\ syncer \in {"check", "wait", "told"}
    /\ waiter \in [at : {"register", "check", "unsynced", "wait", "synced"}, woken : BOOLEAN]
    /\ permit \in BOOLEAN /\ trigger \in BOOLEAN /\ leads \in BOOLEAN /\ queued \in BOOLEAN /\ rerun \in BOOLEAN

\* What the stream task is at, and the list it may end: a Gateway once in the
\* store stays there.
EventOk(v, b, held) ==
    \/ v = NoWatchEvent
    \/ /\ v \in [kind : WatchedKind, event : WatchEvents, step : {"notify", "apply"}, rev : Nat \cup {NoCrd}]
       /\ v.event = "initDone" => b[v.kind] \in Nat /\ (v.kind = "Gateway" /\ held => b[v.kind] > 0)
       /\ v.event = "initApply" => v.rev > 0
       /\ v.event = "apply" => v.rev # NoCrd /\ (v.kind = "Gateway" /\ held => v.rev > 0)

\* Only an optional kind is not watched, and a list under way is in its buffer.
StreamOk(k, s, b) ==
    /\ s \in {"discover", "unserved", "parked"} => KindOf[k] = "optional"
    /\ s = "init" => b \in Nat
    /\ s = "filled" => b \in Nat /\ b > 0

Ends(v, k) == v.event = "initDone" /\ v.kind = k

\* A required kind that counts as listed is in the store, or its list's end is on the way there.
FilledOk(k, l, s, v) == l /\ KindOf[k] # "optional" => s # Unfilled \/ Ends(v, k)

\* The waiter is registered from before its check.
AsleepOk ==
    IsSynced /\ unnotified = {} /\ event.step # "notify" =>
        /\ syncer = "wait" => permit
        /\ waiter.at \in {"unsynced", "wait"} => waiter.woken

\* What holds once the caches were reported synced and the trigger was taken.
ToldOk ==
    syncer = "told" =>
        /\ IsSynced
        /\ ~trigger => /\ event.event = "initDone" => event.kind \in relists
                       /\ leads /\ ~queued /\ store["Gateway"] > 0 =>
                             \/ rerun /\ \A k \in WatchedKind \ relists : passRead[k] = store[k]
                             \/ passRead = Unread /\ "Gateway" \in relists

\* A pass has been at a Gateway of the store; a required kind one missed is
\* the only one that was not in its store.
ReadOk ==
    /\ passRead # Unread => store["Gateway"] > 0
    /\ Missed \subseteq WatchedKind
    /\ \A j \in WatchedKind, k \in Missed :
          KindOf[j] # "optional" /\ KindOf[k] # "optional" => j = k \/ store[j] # Unfilled
    /\ \A j, k \in Missed : KindOf[j] # "optional" /\ KindOf[k] # "optional" => j = k

\* A Gateway seen is there: it is not deleted.
Came ==
    \/ store["Gateway"] > 0
    \/ buffer["Gateway"] > 0
    \/ event.kind = "Gateway" /\ event.rev > 0
    => there["Gateway"] > 0

WatchCore ==
    /\ EventOk(event, buffer, store["Gateway"] > 0)
    /\ \A k \in WatchedKind : StreamOk(k, stream[k], buffer[k]) /\ FilledOk(k, listed[k], store[k], event)
    /\ Came

WatchInv == WatchType /\ WatchCore /\ AsleepOk /\ ToldOk /\ ReadOk

-----------------------------------------------------------------------------
\* It holds at the start.
LEMMA WatchInitInv == WatchInit => WatchInv
<1> SUFFICES ASSUME WatchInit PROVE WatchInv
    OBVIOUS
<1>1. PICK w \in WatchWorlds : there = [k \in WatchedKind |-> IF k \in w.missing THEN NoCrd ELSE IF k \in w.absent THEN 0 ELSE 1] /\ leads = w.leads
    BY DEF WatchInit
<1>2. WatchType
  <2>1. there \in [WatchedKind -> Nat \cup {NoCrd}] /\ there["Gateway"] # NoCrd /\ leads \in BOOLEAN
      BY <1>1, WatchAssumption DEF WatchedKind, NoCrd
  <2>2. Unread \in [WatchedKind -> Nat \cup {Unfilled}] /\ Unread \in [WatchedKind -> Int]
      BY DEF Unread, Unfilled
  <2>3. /\ stream \in [WatchedKind -> {"discover", "unserved", "parked", "open", "again", "init", "filled", "live"}]
        /\ listed \in [WatchedKind -> BOOLEAN]
      BY DEF WatchInit
  <2>4. waiter \in [at : {"register", "check", "unsynced", "wait", "synced"}, woken : BOOLEAN]
      BY DEF WatchInit
  <2>5. buffer = Unread /\ store = Unread /\ passRead = Unread
      BY DEF WatchInit
  <2>6. syncer \in {"check", "wait", "told"} /\ permit \in BOOLEAN /\ trigger \in BOOLEAN /\ queued \in BOOLEAN /\ rerun \in BOOLEAN
      BY DEF WatchInit
  <2> QED  BY <2>1, <2>2, <2>3, <2>4, <2>5, <2>6 DEF WatchType
<1>3. ~IsSynced /\ event.step = "none" /\ syncer # "told"
    BY WatchAssumption DEF WatchInit, IsSynced, WatchedKind, NoWatchEvent
<1>4. WatchCore
  <2>1. \A k \in WatchedKind : StreamOk(k, stream[k], buffer[k]) /\ FilledOk(k, listed[k], store[k], event)
      BY DEF WatchInit, StreamOk, FilledOk
  <2>2. store["Gateway"] = Unfilled
      BY WatchAssumption DEF WatchInit, Unread, WatchedKind
  <2>3. Came
      BY <2>2, WatchAssumption DEF WatchInit, Came, NoWatchEvent, Unread, Unfilled, WatchedKind
  <2> QED  BY <2>1, <2>2, <2>3 DEF WatchInit, WatchCore, EventOk
<1>5. ReadOk
    BY DEF WatchInit, ReadOk, Missed
<1> QED  BY <1>2, <1>3, <1>4, <1>5 DEF WatchInv, AsleepOk, ToldOk

-----------------------------------------------------------------------------
(* Those who wait. *)

LEMMA SyncerChecksWatches ==
    ASSUME WatchInv, SyncerChecks PROVE WatchInv'
<1>1. WatchType'
    BY DEF SyncerChecks, plumbing, passes, WatchInv, WatchType
<1>2. WatchCore'
    BY DEF SyncerChecks, plumbing, passes, WatchInv, WatchCore, Came
<1>3. AsleepOk'
    BY DEF SyncerChecks, plumbing, passes, WatchInv, WatchType, AsleepOk, IsSynced
<1>4. ToldOk'
    BY DEF SyncerChecks, plumbing, passes, WatchInv, WatchType, ToldOk, IsSynced
<1>5. ReadOk'
    BY DEF SyncerChecks, plumbing, passes, WatchInv, ReadOk, Missed
<1> QED  BY <1>1, <1>2, <1>3, <1>4, <1>5 DEF WatchInv

LEMMA SyncerWakesWatches ==
    ASSUME WatchInv, SyncerWakes PROVE WatchInv'
<1>1. WatchType'
    BY DEF SyncerWakes, plumbing, passes, WatchInv, WatchType
<1>2. WatchCore'
    BY DEF SyncerWakes, plumbing, passes, WatchInv, WatchCore, Came
<1>3. AsleepOk'
    BY DEF SyncerWakes, plumbing, passes, WatchInv, WatchType, AsleepOk, IsSynced
<1>4. ToldOk'
    BY DEF SyncerWakes, plumbing, passes, WatchInv, WatchType, ToldOk, IsSynced
<1>5. ReadOk'
    BY DEF SyncerWakes, plumbing, passes, WatchInv, ReadOk, Missed
<1> QED  BY <1>1, <1>2, <1>3, <1>4, <1>5 DEF WatchInv

LEMMA WaiterRegistersWatches ==
    ASSUME WatchInv, WaiterRegisters PROVE WatchInv'
<1>1. WatchType'
    BY DEF WaiterRegisters, plumbing, passes, WatchInv, WatchType
<1>2. WatchCore'
    BY DEF WaiterRegisters, plumbing, passes, WatchInv, WatchCore, Came
<1>3. AsleepOk'
    BY DEF WaiterRegisters, plumbing, passes, WatchInv, WatchType, AsleepOk, IsSynced
<1>4. ToldOk'
    BY DEF WaiterRegisters, plumbing, passes, WatchInv, WatchType, ToldOk, IsSynced
<1>5. ReadOk'
    BY DEF WaiterRegisters, plumbing, passes, WatchInv, ReadOk, Missed
<1> QED  BY <1>1, <1>2, <1>3, <1>4, <1>5 DEF WatchInv

LEMMA WaiterChecksWatches ==
    ASSUME WatchInv, WaiterChecks PROVE WatchInv'
<1>1. WatchType'
    BY DEF WaiterChecks, plumbing, passes, WatchInv, WatchType
<1>2. WatchCore'
    BY DEF WaiterChecks, plumbing, passes, WatchInv, WatchCore, Came
<1>3. AsleepOk'
    BY DEF WaiterChecks, plumbing, passes, WatchInv, WatchType, AsleepOk, IsSynced
<1>4. ToldOk'
    BY DEF WaiterChecks, plumbing, passes, WatchInv, WatchType, ToldOk, IsSynced
<1>5. ReadOk'
    BY DEF WaiterChecks, plumbing, passes, WatchInv, ReadOk, Missed
<1> QED  BY <1>1, <1>2, <1>3, <1>4, <1>5 DEF WatchInv

LEMMA WaiterWaitsWatches ==
    ASSUME WatchInv, WaiterWaits PROVE WatchInv'
<1>1. WatchType'
    BY DEF WaiterWaits, plumbing, passes, WatchInv, WatchType
<1>2. WatchCore'
    BY DEF WaiterWaits, plumbing, passes, WatchInv, WatchCore, Came
<1>3. AsleepOk'
    BY DEF WaiterWaits, plumbing, passes, WatchInv, WatchType, AsleepOk, IsSynced
<1>4. ToldOk'
    BY DEF WaiterWaits, plumbing, passes, WatchInv, WatchType, ToldOk, IsSynced
<1>5. ReadOk'
    BY DEF WaiterWaits, plumbing, passes, WatchInv, ReadOk, Missed
<1> QED  BY <1>1, <1>2, <1>3, <1>4, <1>5 DEF WatchInv

LEMMA WaiterWakesWatches ==
    ASSUME WatchInv, WaiterWakes PROVE WatchInv'
<1>1. WatchType'
    BY DEF WaiterWakes, plumbing, passes, WatchInv, WatchType
<1>2. WatchCore'
    BY DEF WaiterWakes, plumbing, passes, WatchInv, WatchCore, Came
<1>3. AsleepOk'
    BY DEF WaiterWakes, plumbing, passes, WatchInv, WatchType, AsleepOk, IsSynced
<1>4. ToldOk'
    BY DEF WaiterWakes, plumbing, passes, WatchInv, WatchType, ToldOk, IsSynced
<1>5. ReadOk'
    BY DEF WaiterWakes, plumbing, passes, WatchInv, ReadOk, Missed
<1> QED  BY <1>1, <1>2, <1>3, <1>4, <1>5 DEF WatchInv

LEMMA TellOfWatches ==
    ASSUME WatchInv, NEW k \in WatchedKind, TellOf(k) PROVE WatchInv'
<1>1. WatchType'
    BY DEF TellOf, plumbing, passes, NotifyAll, Listens, WatchInv, WatchType
<1>2. WatchCore'
    BY DEF TellOf, plumbing, passes, NotifyAll, Listens, WatchInv, WatchCore, Came
<1>3. AsleepOk'
    BY DEF TellOf, plumbing, passes, NotifyAll, Listens, WatchInv, WatchType, AsleepOk, IsSynced
<1>4. ToldOk'
    BY DEF TellOf, plumbing, passes, NotifyAll, Listens, WatchInv, WatchType, ToldOk, IsSynced
<1>5. ReadOk'
    BY DEF TellOf, plumbing, passes, NotifyAll, Listens, WatchInv, ReadOk, Missed
<1> QED  BY <1>1, <1>2, <1>3, <1>4, <1>5 DEF WatchInv

LEMMA TellWatches ==
    ASSUME WatchInv, Tell PROVE WatchInv'
<1>1. WatchType'
    BY DEF Tell, passes, NotifyAll, Listens, WatchInv, WatchType
<1>2. WatchCore'
  <2>1. event # NoWatchEvent
      BY DEF Tell, NoWatchEvent
  <2>2. EventOk(event, buffer, store["Gateway"] > 0)'
      BY <2>1 DEF Tell, WatchInv, WatchCore, EventOk
  <2>3. \A k \in WatchedKind : Ends(event, k)' <=> Ends(event, k)
      BY <2>1 DEF Tell, WatchInv, WatchCore, EventOk, Ends
  <2> QED  BY <2>2, <2>3 DEF Tell, WatchInv, WatchCore, FilledOk, Came
<1>3. AsleepOk'
    BY DEF Tell, passes, NotifyAll, Listens, WatchInv, WatchType, AsleepOk, IsSynced
<1>4. ToldOk'
  <2>1. event.event' = event.event /\ event.kind' = event.kind
      BY DEF Tell, WatchInv, WatchCore, EventOk, NoWatchEvent
  <2> QED  BY <2>1 DEF Tell, passes, WatchInv, ToldOk, IsSynced
<1>5. ReadOk'
    BY DEF Tell, passes, NotifyAll, Listens, WatchInv, ReadOk, Missed
<1> QED  BY <1>1, <1>2, <1>3, <1>4, <1>5 DEF WatchInv

-----------------------------------------------------------------------------
(* Passes. *)

LEMMA ReconcileAllWatches ==
    ASSUME WatchInv, ReconcileAll PROVE WatchInv'
<1>1. WatchType'
    BY DEF ReconcileAll, AllPolled, plumbing, WatchInv, WatchType
<1>2. WatchCore'
    BY DEF ReconcileAll, AllPolled, plumbing, WatchInv, WatchCore, Came
<1>3. AsleepOk'
    BY DEF ReconcileAll, AllPolled, plumbing, WatchInv, WatchType, AsleepOk, IsSynced
<1>4. ToldOk'
  <2>1. syncer = "told" => IsSynced
      BY DEF WatchInv, ToldOk
  <2> QED  BY <2>1 DEF ReconcileAll, AllPolled, plumbing, NoWatchEvent, ToldOk, IsSynced
<1>5. ReadOk'
    BY DEF ReconcileAll, AllPolled, plumbing, WatchInv, ReadOk, Missed
<1> QED  BY <1>1, <1>2, <1>3, <1>4, <1>5 DEF WatchInv

\* What is read once the caches are synced misses one required kind at most.
LEMMA AddMissed ==
    ASSUME WatchInv, IsSynced, NEW more \in SUBSET (Missed \cup {x \in WatchedKind : store[x] = Unfilled})
    PROVE  /\ more \subseteq WatchedKind
           /\ \A j \in WatchedKind, k \in more :
                 KindOf[j] # "optional" /\ KindOf[k] # "optional" => j = k \/ store[j] # Unfilled
           /\ \A j, k \in more : KindOf[j] # "optional" /\ KindOf[k] # "optional" => j = k
<1>1. ASSUME NEW j \in WatchedKind, NEW k \in WatchedKind, store[k] = Unfilled, store[j] = Unfilled,
             KindOf[j] # "optional", KindOf[k] # "optional"
      PROVE  j = k
  <2>1. Ends(event, j) /\ Ends(event, k)
      BY <1>1 DEF IsSynced, WatchInv, WatchCore, FilledOk
  <2> QED  BY <2>1 DEF Ends
<1> QED  BY <1>1 DEF WatchInv, ReadOk

LEMMA ClassPassWatches ==
    ASSUME WatchInv, ClassPass PROVE WatchInv'
<1>1. WatchType'
    BY DEF ClassPass, plumbing, wakes, WatchInv, WatchType
<1>2. WatchCore'
    BY DEF ClassPass, plumbing, wakes, WatchInv, WatchCore, Came
<1>3. AsleepOk'
    BY DEF ClassPass, plumbing, wakes, WatchInv, WatchType, AsleepOk, IsSynced
<1>4. ToldOk'
    BY DEF ClassPass, plumbing, wakes, WatchInv, WatchType, ToldOk, IsSynced
<1>5. ReadOk'
  <2>1. Missed' = Missed \cup {k \in WatchedKind : store[k] = Unfilled}
      BY DEF ClassPass, Missed
  <2> QED  BY <2>1, AddMissed DEF ClassPass, plumbing, WatchInv, ReadOk
<1> QED  BY <1>1, <1>2, <1>3, <1>4, <1>5 DEF WatchInv

LEMMA GainLeaseWatches ==
    ASSUME WatchInv, GainLease PROVE WatchInv'
<1>1. WatchType'
    BY DEF GainLease, passes, WatchInv, WatchType
<1>2. WatchCore'
    BY DEF GainLease, passes, WatchInv, WatchCore, Came
<1>3. AsleepOk'
    BY DEF GainLease, passes, WatchInv, WatchType, AsleepOk, IsSynced
<1>4. ToldOk'
    BY DEF GainLease, passes, WatchInv, WatchType, ToldOk, IsSynced
<1>5. ReadOk'
    BY DEF GainLease, passes, WatchInv, ReadOk, Missed
<1> QED  BY <1>1, <1>2, <1>3, <1>4, <1>5 DEF WatchInv

LEMMA PassWatches ==
    ASSUME WatchInv, Pass PROVE WatchInv'
<1>1. WatchType'
  <2>1. store \in [WatchedKind -> Int]
    <3>1. store \in [WatchedKind -> Nat \cup {Unfilled}] /\ Unfilled \in Int
        BY DEF WatchInv, WatchType, Unfilled
    <3> QED  BY <3>1
  <2> QED  BY <2>1 DEF Pass, plumbing, wakes, WatchInv, WatchType
<1>2. WatchCore'
    BY DEF Pass, plumbing, wakes, WatchInv, WatchCore, Came
<1>3. AsleepOk'
    BY DEF Pass, plumbing, wakes, WatchInv, WatchType, AsleepOk, IsSynced
<1>4. ToldOk'
  <2>1. ASSUME syncer = "told", ~trigger, leads, store["Gateway"] > 0
        PROVE  rerun' /\ \A k \in WatchedKind \ relists : passRead'[k] = store[k]
      BY <2>1 DEF Pass, WatchInv, ToldOk
  <2> QED  BY <2>1 DEF Pass, plumbing, wakes, WatchInv, ToldOk, IsSynced
<1>5. ReadOk'
  <2>1. CASE passRead' = store /\ IsSynced /\ store["Gateway"] > 0
    <3>1. Missed' \subseteq Missed \cup {k \in WatchedKind : store[k] = Unfilled}
        BY <2>1 DEF Pass, Missed
    <3> QED  BY <2>1, <3>1, AddMissed DEF Pass, plumbing, WatchInv, ReadOk
  <2>2. CASE UNCHANGED passRead
      BY <2>2 DEF Pass, plumbing, WatchInv, ReadOk, Missed
  <2> QED  BY <2>1, <2>2 DEF Pass
<1> QED  BY <1>1, <1>2, <1>3, <1>4, <1>5 DEF WatchInv

-----------------------------------------------------------------------------
(* Discovery, and the cluster. *)

LEMMA DiscoverWatches ==
    ASSUME WatchInv, NEW k \in WatchedKind, Discover(k) PROVE WatchInv'
<1>1. WatchType'
    BY DEF Discover, SpendBound, passes, WatchInv, WatchType
<1>2. WatchCore'
    BY DEF Discover, passes, WatchInv, WatchType, WatchCore, StreamOk, Came
<1>3. AsleepOk'
    BY DEF Discover, SpendBound, passes, WatchInv, WatchType, AsleepOk, IsSynced
<1>4. ToldOk'
    BY DEF Discover, SpendBound, passes, WatchInv, WatchType, ToldOk, IsSynced
<1>5. ReadOk'
    BY DEF Discover, SpendBound, passes, WatchInv, ReadOk, Missed
<1> QED  BY <1>1, <1>2, <1>3, <1>4, <1>5 DEF WatchInv

LEMMA ListedEmptyWatches ==
    ASSUME WatchInv, NEW k \in WatchedKind, ListedEmpty(k) PROVE WatchInv'
<1>1. WatchType'
    BY DEF ListedEmpty, plumbing, passes, WatchInv, WatchType
<1>2. WatchCore'
  <2>1. KindOf[k] = "optional"
      BY DEF ListedEmpty, WatchInv, WatchCore, StreamOk
  <2> QED  BY <2>1 DEF ListedEmpty, plumbing, WatchInv, WatchType, WatchCore, FilledOk, Came
<1>3. AsleepOk'
    BY DEF ListedEmpty, plumbing, passes, WatchInv, WatchType, AsleepOk, IsSynced
<1>4. ToldOk'
    BY DEF ListedEmpty, plumbing, passes, WatchInv, WatchType, ToldOk, IsSynced
<1>5. ReadOk'
    BY DEF ListedEmpty, plumbing, passes, WatchInv, ReadOk, Missed
<1> QED  BY <1>1, <1>2, <1>3, <1>4, <1>5 DEF WatchInv

LEMMA ParkWatches ==
    ASSUME WatchInv, NEW k \in WatchedKind, Park(k) PROVE WatchInv'
<1>1. WatchType'
    BY DEF Park, wakes, passes, WatchInv, WatchType
<1>2. WatchCore'
    BY DEF Park, wakes, WatchInv, WatchType, WatchCore, StreamOk, Came
<1>3. AsleepOk'
    BY DEF Park, wakes, passes, WatchInv, WatchType, AsleepOk, IsSynced
<1>4. ToldOk'
    BY DEF Park, wakes, passes, WatchInv, WatchType, ToldOk, IsSynced
<1>5. ReadOk'
    BY DEF Park, wakes, passes, WatchInv, ReadOk, Missed
<1> QED  BY <1>1, <1>2, <1>3, <1>4, <1>5 DEF WatchInv

LEMMA RecheckBeginsWatches ==
    ASSUME WatchInv, RecheckBegins PROVE WatchInv'
<1>1. WatchType'
    BY DEF RecheckBegins, wakes, passes, WatchInv, WatchType
<1>2. WatchCore'
    BY DEF RecheckBegins, wakes, passes, WatchInv, WatchCore, Came
<1>3. AsleepOk'
    BY DEF RecheckBegins, wakes, passes, WatchInv, WatchType, AsleepOk, IsSynced
<1>4. ToldOk'
    BY DEF RecheckBegins, wakes, passes, WatchInv, WatchType, ToldOk, IsSynced
<1>5. ReadOk'
    BY DEF RecheckBegins, wakes, passes, WatchInv, ReadOk, Missed
<1> QED  BY <1>1, <1>2, <1>3, <1>4, <1>5 DEF WatchInv

LEMMA RecheckOneWatches ==
    ASSUME WatchInv, NEW k \in WatchedKind, RecheckOne(k) PROVE WatchInv'
<1>1. WatchType'
    BY DEF RecheckOne, wakes, passes, WatchInv, WatchType
<1>2. WatchCore'
    BY DEF RecheckOne, wakes, WatchInv, WatchType, WatchCore, StreamOk, Came
<1>3. AsleepOk'
    BY DEF RecheckOne, wakes, passes, WatchInv, WatchType, AsleepOk, IsSynced
<1>4. ToldOk'
    BY DEF RecheckOne, wakes, passes, WatchInv, WatchType, ToldOk, IsSynced
<1>5. ReadOk'
    BY DEF RecheckOne, wakes, passes, WatchInv, ReadOk, Missed
<1> QED  BY <1>1, <1>2, <1>3, <1>4, <1>5 DEF WatchInv

LEMMA EditObjectWatches ==
    ASSUME WatchInv, NEW k \in WatchedKind, EditObject(k) PROVE WatchInv'
<1>1. WatchType'
  <2>1. there \in [WatchedKind -> Nat \cup {NoCrd}] /\ there["Gateway"] # NoCrd /\ there' = [there EXCEPT ![k] = there[k] + 1]
      BY DEF EditObject, WatchInv, WatchType
  <2>2. there[k] + 1 \in Nat
      BY <2>1 DEF EditObject, NoCrd
  <2>3. there' \in [WatchedKind -> Nat \cup {NoCrd}] /\ there'["Gateway"] # NoCrd
      BY <2>1, <2>2, WatchAssumption DEF WatchedKind, NoCrd
  <2> QED  BY <2>3 DEF EditObject, wakes, passes, WatchInv, WatchType
<1>2. WatchCore'
  <2>1. there["Gateway"] > 0 => there'["Gateway"] > 0
      BY WatchAssumption DEF EditObject, WatchInv, WatchType, WatchedKind, NoCrd
  <2> QED  BY <2>1 DEF EditObject, wakes, passes, WatchInv, WatchCore, Came
<1>3. AsleepOk'
    BY DEF EditObject, wakes, passes, WatchInv, WatchType, AsleepOk, IsSynced
<1>4. ToldOk'
    BY DEF EditObject, wakes, passes, WatchInv, WatchType, ToldOk, IsSynced
<1>5. ReadOk'
    BY DEF EditObject, wakes, passes, WatchInv, ReadOk, Missed
<1> QED  BY <1>1, <1>2, <1>3, <1>4, <1>5 DEF WatchInv

LEMMA InstallCrdWatches ==
    ASSUME WatchInv, NEW k \in WatchedKind, InstallCrd(k) PROVE WatchInv'
<1>1. WatchType'
  <2>1. there \in [WatchedKind -> Nat \cup {NoCrd}] /\ there["Gateway"] # NoCrd /\ there' = [there EXCEPT ![k] = 0]
      BY DEF InstallCrd, WatchInv, WatchType
  <2>2. 0 \in Nat /\ k # "Gateway"
      BY <2>1 DEF InstallCrd
  <2>3. there' \in [WatchedKind -> Nat \cup {NoCrd}] /\ there'["Gateway"] # NoCrd
      BY <2>1, <2>2, WatchAssumption DEF WatchedKind
  <2> QED  BY <2>3 DEF InstallCrd, wakes, passes, WatchInv, WatchType
<1>2. WatchCore'
  <2>1. there'["Gateway"] = there["Gateway"]
      BY WatchAssumption DEF InstallCrd, WatchInv, WatchType, WatchedKind
  <2> QED  BY <2>1 DEF InstallCrd, wakes, passes, WatchInv, WatchCore, Came
<1>3. AsleepOk'
    BY DEF InstallCrd, wakes, passes, WatchInv, WatchType, AsleepOk, IsSynced
<1>4. ToldOk'
    BY DEF InstallCrd, wakes, passes, WatchInv, WatchType, ToldOk, IsSynced
<1>5. ReadOk'
    BY DEF InstallCrd, wakes, passes, WatchInv, ReadOk, Missed
<1> QED  BY <1>1, <1>2, <1>3, <1>4, <1>5 DEF WatchInv

-----------------------------------------------------------------------------
(* The stream task. *)

LEMMA ObserveWatches ==
    ASSUME WatchInv, NEW k \in WatchedKind, NEW e \in WatchEvents, Observe(k, e) PROVE WatchInv'
<1>1. WatchType'
    BY DEF Observe, passes, WatchInv, WatchType
<1>2. WatchCore'
  <2>1. event' = [kind |-> k, event |-> e, step |-> event'.step, rev |-> there[k]] /\ event'.step \in {"notify", "apply"}
      BY DEF Observe
  <2>2. EventOk(event, buffer, store["Gateway"] > 0)'
    <3>1. there[k] \in Nat \cup {NoCrd} /\ (k = "Gateway" /\ store["Gateway"] > 0 => there[k] > 0)
        BY DEF WatchInv, WatchType, WatchCore, Came
    <3>2. event' \in [kind : WatchedKind, event : WatchEvents, step : {"notify", "apply"}, rev : Nat \cup {NoCrd}]
        BY <2>1, <3>1
    <3>3. e = "initDone" => buffer[k] \in Nat /\ (k = "Gateway" /\ store["Gateway"] > 0 => buffer[k] > 0)
        BY <3>1 DEF Observe, Yields, WatchInv, WatchCore, StreamOk
    <3>4. e = "initApply" => there[k] > 0
        BY DEF Observe, Yields
    <3>5. e = "apply" => there[k] # NoCrd
        BY DEF Observe, Yields
    <3> QED  BY <2>1, <3>1, <3>2, <3>3, <3>4, <3>5 DEF Observe, EventOk
  <2>3. ASSUME NEW x \in WatchedKind PROVE FilledOk(x, listed[x], store[x], event)'
    <3>1. listed[x] /\ KindOf[x] # "optional" => store[x] # Unfilled
        BY DEF Observe, NoWatchEvent, WatchInv, WatchCore, FilledOk, Ends
    <3>2. listed'[x] => listed[x] \/ (x = k /\ (e = "initDone" \/ KindOf[x] = "optional"))
        BY DEF Observe, Refused, WatchInv, WatchType
    <3> QED  BY <2>1, <3>1, <3>2 DEF Observe, FilledOk, Ends
  <2> QED  BY <2>2, <2>3 DEF Observe, WatchInv, WatchCore, Came
<1>3. AsleepOk'
  <2>1. CASE e \in {"initDone", "error", "refused"}
      BY <2>1 DEF Observe, AsleepOk
  <2>2. CASE e \notin {"initDone", "error", "refused"}
    <3>1. listed' = listed
        BY <2>2 DEF Observe, Refused, WatchInv, WatchType
    <3> QED  BY <3>1 DEF Observe, NoWatchEvent, WatchInv, AsleepOk, IsSynced
  <2> QED  BY <2>1, <2>2
<1>4. ToldOk'
  <2>1. \A x \in WatchedKind : listed[x] => listed'[x]
      BY DEF Observe, WatchInv, WatchType
  <2>2. relists \subseteq relists' /\ (e = "initDone" /\ listed[k] => k \in relists')
      BY DEF Observe
  <2>3. event'.event = e /\ event'.kind = k
      BY DEF Observe
  <2> QED  BY <2>1, <2>2, <2>3 DEF Observe, passes, WatchInv, ToldOk, IsSynced
<1>5. ReadOk'
    BY DEF Observe, passes, WatchInv, ReadOk, Missed
<1> QED  BY <1>1, <1>2, <1>3, <1>4, <1>5 DEF WatchInv

LEMMA ApplyEventWatches ==
    ASSUME WatchInv, ApplyEvent PROVE WatchInv'
<1> DEFINE k == event.kind
           e == event.event
<1>1. /\ k \in WatchedKind /\ e \in WatchEvents /\ event' = NoWatchEvent
      /\ e = "initDone" => buffer[k] \in Nat /\ (k = "Gateway" /\ store["Gateway"] > 0 => buffer[k] > 0)
      /\ e = "initApply" => event.rev \in Nat /\ event.rev > 0
      /\ e = "apply" => event.rev \in Nat /\ (k = "Gateway" /\ store["Gateway"] > 0 => event.rev > 0)
  <2>1. event # NoWatchEvent
      BY DEF ApplyEvent, NoWatchEvent
  <2>2. /\ event \in [kind : WatchedKind, event : WatchEvents, step : {"notify", "apply"}, rev : Nat \cup {NoCrd}]
        /\ e = "initDone" => buffer[k] \in Nat /\ (k = "Gateway" /\ store["Gateway"] > 0 => buffer[k] > 0)
        /\ e = "initApply" => event.rev > 0
        /\ e = "apply" => event.rev # NoCrd /\ (k = "Gateway" /\ store["Gateway"] > 0 => event.rev > 0)
      BY <2>1 DEF WatchInv, WatchCore, EventOk
  <2>3. k \in WatchedKind /\ e \in WatchEvents /\ event.rev \in Nat \cup {NoCrd}
      BY <2>2
  <2> QED  BY <2>2, <2>3 DEF ApplyEvent, NoCrd
<1>2. /\ e = "init" => buffer' = [buffer EXCEPT ![k] = 0]
      /\ e = "initApply" => buffer' = [buffer EXCEPT ![k] = event.rev]
      /\ e \notin {"init", "initApply"} => buffer' = buffer
      /\ e = "initDone" => store' = [store EXCEPT ![k] = buffer[k]]
      /\ e = "apply" => store' = [store EXCEPT ![k] = event.rev]
      /\ e \notin {"initDone", "apply"} => store' = store
    BY DEF ApplyEvent
<1>3. /\ stream' = [stream EXCEPT ![k] = stream'[k]]
      /\ e = "init" => stream'[k] = "init"
      /\ e = "initApply" => stream'[k] = "filled"
      /\ e \notin {"init", "initApply"} => stream'[k] \in {"open", "again", "live"}
    BY <1>1 DEF ApplyEvent, After, WatchEvents, WatchInv, WatchType
<1> HIDE DEF k, e
<1>4. WatchType'
  <2>1. buffer' \in [WatchedKind -> Nat \cup {Unfilled}] /\ store' \in [WatchedKind -> Nat \cup {Unfilled}]
      BY <1>1, <1>2 DEF WatchInv, WatchType
  <2>2. stream' \in [WatchedKind -> {"discover", "unserved", "parked", "open", "again", "init", "filled", "live"}]
      BY <1>1, <1>3 DEF WatchInv, WatchType
  <2>3. queued' \in BOOLEAN
      BY DEF ApplyEvent
  <2> QED  BY <2>1, <2>2, <2>3 DEF ApplyEvent, wakes, WatchInv, WatchType
<1>5. WatchCore'
  <2>1. ASSUME NEW x \in WatchedKind PROVE StreamOk(x, stream[x], buffer[x])'
      BY <1>1, <1>2, <1>3 DEF WatchInv, WatchType, WatchCore, StreamOk
  <2>2. ASSUME NEW x \in WatchedKind PROVE FilledOk(x, listed[x], store[x], event)'
    <3>1. store'[x] = store[x] \/ (store'[x] # Unfilled)
        BY <1>1, <1>2 DEF WatchInv, WatchType, Unfilled
    <3>2. Ends(event, x) => store'[x] # Unfilled
        BY <1>1, <1>2 DEF WatchInv, WatchType, Ends, Unfilled, k, e
    <3> QED  BY <3>1, <3>2 DEF ApplyEvent, wakes, WatchInv, WatchCore, FilledOk
  <2>3. Came'
    <3>1. there' = there /\ "Gateway" \in WatchedKind /\ Came
        BY WatchAssumption DEF ApplyEvent, WatchInv, WatchCore, WatchedKind
    <3>2. store'["Gateway"] > 0 \/ buffer'["Gateway"] > 0 =>
              store["Gateway"] > 0 \/ buffer["Gateway"] > 0 \/ (event.kind = "Gateway" /\ event.rev > 0)
        BY <1>1, <1>2, <3>1 DEF WatchInv, WatchType, k
    <3>3. event'.kind = "none"
        BY <1>1 DEF NoWatchEvent
    <3> QED  BY <3>1, <3>2, <3>3 DEF Came
  <2>4. EventOk(event, buffer, store["Gateway"] > 0)'
      BY <1>1 DEF EventOk
  <2> QED  BY <2>1, <2>2, <2>3, <2>4 DEF WatchInv, WatchCore, Came
<1>6. AsleepOk'
    BY <1>1 DEF ApplyEvent, wakes, WatchInv, AsleepOk, IsSynced
<1>7. store["Gateway"] > 0 => store'["Gateway"] > 0
    BY <1>1, <1>2, WatchAssumption DEF WatchInv, WatchType, WatchedKind
<1>8. passRead' = passRead /\ rerun' = rerun /\ relists' = relists /\ leads' = leads /\ classMissed' = classMissed
    BY DEF ApplyEvent
<1>9. ToldOk'
  <2>1. ASSUME syncer = "told", ~trigger, leads, ~queued', store'["Gateway"] > 0
        PROVE  \/ rerun /\ \A x \in WatchedKind \ relists : passRead[x] = store'[x]
               \/ passRead = Unread /\ "Gateway" \in relists
    <3>1. (e = "initDone" => k \in relists) /\ ~queued
        BY <2>1 DEF WatchInv, ToldOk, ApplyEvent, k, e
    <3>2. CASE store["Gateway"] > 0
      <4>1. e # "apply"
          BY <2>1, <3>2 DEF ApplyEvent, AskPass, k, e
      <4>2. \A x \in WatchedKind \ relists : store'[x] = store[x]
          BY <1>1, <1>2, <3>1, <4>1 DEF WatchInv, WatchType
      <4> QED  BY <2>1, <3>1, <3>2, <4>2 DEF WatchInv, ToldOk
    <3>3. CASE ~(store["Gateway"] > 0)
      <4>1. k = "Gateway" /\ e \in {"initDone", "apply"}
          BY <1>1, <1>2, <2>1, <3>3, WatchAssumption DEF WatchInv, WatchType, WatchedKind
      <4>2. e # "apply"
          BY <2>1, <4>1 DEF ApplyEvent, AskPass, k, e
      <4> QED  BY <3>1, <3>3, <4>1, <4>2 DEF WatchInv, ReadOk
    <3> QED  BY <3>2, <3>3
  <2> QED  BY <1>1, <1>8, <2>1 DEF ApplyEvent, wakes, NoWatchEvent, WatchInv, ToldOk, IsSynced
<1>10. ReadOk'
  <2>1. \A x \in WatchedKind : store[x] # Unfilled => store'[x] # Unfilled
      BY <1>1, <1>2 DEF WatchInv, WatchType, Unfilled
  <2>2. Missed' = Missed
      BY <1>8 DEF Missed
  <2> QED  BY <1>7, <1>8, <2>1, <2>2 DEF WatchInv, ReadOk
<1> QED  BY <1>4, <1>5, <1>6, <1>9, <1>10 DEF WatchInv

-----------------------------------------------------------------------------
LEMMA WatchNextInv == WatchInv /\ [WatchNext]_watchVars => WatchInv'
<1> SUFFICES ASSUME WatchInv, [WatchNext]_watchVars PROVE WatchInv'
    OBVIOUS
<1>1. CASE WatchNext
    BY <1>1, ObserveWatches, DiscoverWatches, ListedEmptyWatches, TellOfWatches, ParkWatches, RecheckOneWatches,
       EditObjectWatches, InstallCrdWatches, TellWatches, ApplyEventWatches, ReconcileAllWatches, RecheckBeginsWatches,
       SyncerChecksWatches, SyncerWakesWatches, WaiterRegistersWatches, WaiterChecksWatches, WaiterWaitsWatches,
       WaiterWakesWatches, ClassPassWatches, PassWatches, GainLeaseWatches DEF WatchNext, WatchEvents
<1>2. CASE UNCHANGED watchVars
  <2>1. WatchType' /\ WatchCore'
      BY <1>2 DEF watchVars, WatchInv, WatchType, WatchCore, Came
  <2>2. AsleepOk' /\ ToldOk' /\ ReadOk'
      BY <1>2 DEF watchVars, WatchInv, AsleepOk, ToldOk, ReadOk, Missed, IsSynced
  <2> QED  BY <2>1, <2>2 DEF WatchInv
<1> QED  BY <1>1, <1>2

LEMMA WatchInvHolds == WatchInv => WatchesHold
<1> SUFFICES ASSUME WatchInv PROVE WatchesHold
    OBVIOUS
<1>1. OneArriving
  <2>1. ASSUME IsSynced, NEW k \in WatchedKind, store[k] = Unfilled, KindOf[k] # "optional"
        PROVE  event.kind = k /\ event.event = "initDone"
      BY <2>1 DEF IsSynced, WatchInv, WatchCore, FilledOk, Ends
  <2>2. ASSUME NEW j \in Missed, NEW k \in Missed, KindOf[j] # "optional", KindOf[k] # "optional"
        PROVE  j = k
      BY <2>2 DEF WatchInv, ReadOk
  <2> QED  BY <2>1, <2>2 DEF OneArriving
<1>2. NoneAsleep
    BY DEF WatchInv, AsleepOk, NoneAsleep
<1>3. PassesCaughtUp
    BY DEF WatchInv, ToldOk, PassesCaughtUp, AtRest
<1> QED  BY <1>1, <1>2, <1>3 DEF WatchesHold

\* Once the caches are synced one required kind at most is not in its store
\* yet, nobody sleeps through the change it waits for, and at rest a leader's
\* last pass read what there is, unless a relist brought the Gateway first
\* (watch.rs, Listings; mod.rs, the synced trigger): for any kinds, required
\* and optional, any CRDs and objects missing at the start, and any number of
\* edits, failed watches and discoveries and late installs.
THEOREM WatchesCorrect == WatchSpec => []WatchesHold
<1>1. WatchSpec => []WatchInv
    BY WatchInitInv, WatchNextInv, PTL DEF WatchSpec
<1> QED  BY <1>1, WatchInvHolds, PTL

-----------------------------------------------------------------------------
(* Programmed: a Gateway's condition over time.                             *)

How == {"", "bound", "error", "nowhere", "refused"}
Why == {"", "Programmed", "Invalid", "AddressNotUsable", "AddressNotAssigned", "Pending"}
Entry0     == [seen : Int, ver : Nat, bound : How, leaving : BOOLEAN]
Plane0     == [up : BOOLEAN, ver : Nat, bound : How, by : Int]
Condition0 == [written : BOOLEAN, why : Why, listener : BOOLEAN, addresses : BOOLEAN, until : Int]
Slot0 == [ver : Nat, at : Int, first : Int]

ProgrammedType ==
    /\ now \in Nat /\ lastUp \in Nat /\ leadingSince \in Nat /\ lastUp <= now /\ leadingSince <= now
    /\ slotHub \in Slot0
    /\ (slotHub.ver # 0 => slotHub.at <= now /\ slotHub.first <= now)
    /\ wanted \in Nat \ {0} /\ fault \in {"", "rejected", "problem"}
    /\ front \in {"none", "assigned", "unassigned"}
    /\ plane \in [Instance -> Plane0] /\ told \in [Instance -> Entry0]
    /\ lapse \in [Instance -> Int] /\ handling \subseteq Instance
    /\ asked \in BOOLEAN /\ recheckAt \in Int /\ condition \in Condition0
    /\ course \in {"starting", "good", "overtaken", "bad"}

\* A data plane that runs is due, within two holds.
UpOk(i) == plane[i].up => lastUp = now /\ now <= plane[i].by /\ plane[i].by < now + 2 * Hold
\* An entry is of a data plane that ran,
EntryOk(i) == told[i] # NoEntry => told[i].seen <= lastUp /\ told[i].ver # 0
\* and its deadline is two holds after it, a tick late if the request took
\* one, until it has passed.
Near(i) == told[i].seen + LIVENESS <= lapse[i] /\ lapse[i] <= told[i].seen + LIVENESS + 1
LapseOk(i) ==
    /\ i \in handling => told[i] # NoEntry /\ now <= told[i].seen + 1
    /\ told[i] # NoEntry => \/ i \in handling
                            \/ Near(i)
                            \/ now >= told[i].seen + LIVENESS

\* A Programmed stands on a wake: a pass asked for, a deadline of Lapses to
\* come, or a recheck, and no wake comes too late. Before a leader published,
\* only the pass it asked for when it took over lies ahead.
Awake(i) == told[i] # NoEntry /\ (i \in handling \/ Near(i))
InTime(t) == t < lastUp + 3 * Hold \/ t <= leadingSince + 2 * Hold
HonestOk ==
    IsProgrammed =>
        /\ condition.written /\ condition.listener /\ condition.addresses
        /\ InTime(now)
        /\ \/ asked
           \/ \E i \in Instance : Awake(i)
           \/ InTime(recheckAt)
        /\ slotHub.ver = 0 => asked /\ now = leadingSince
        /\ slotHub.ver # 0 => InTime(slotHub.first + Hold)

\* While all goes well, a data plane that reported and does not leave runs and
\* reports before its entry lapses, and what it serves is served still or
\* published less than a hold ago;
Heard(i) == told[i] # NoEntry /\ ~told[i].leaving
Catching(i, ver) == slotHub.ver # 0 => ver = slotHub.ver \/ plane[i].by < slotHub.at + Hold
HeardOk(i) ==
    Heard(i) => /\ plane[i].up /\ told[i].bound = "bound"
                /\ plane[i].by < told[i].seen + 2 * Hold
                /\ Catching(i, told[i].ver)
BoundOk(i) ==
    plane[i].up /\ plane[i].ver # 0 => plane[i].bound = "bound" /\ Catching(i, plane[i].ver)
\* and one data plane reported, or will before the hold of a new leader or of
\* the one it replaces is over.
Spoken(i) ==
    /\ plane[i].up
    /\ \/ Heard(i)
       \/ plane[i].by < leadingSince + 2 * Hold
       \/ \E j \in Instance : told[j].leaving /\ plane[i].by < told[j].seen + Hold
StaysOk ==
    course \notin {"overtaken", "bad"} =>
        /\ fault = ""
        /\ \A i \in Instance : HeardOk(i) /\ BoundOk(i)
        /\ \E i \in Instance : Spoken(i)
        /\ course = "starting" => ~IsProgrammed
        /\ course = "good" => IsProgrammed /\ front # "unassigned"

ProgrammedInv ==
    /\ ProgrammedType
    /\ \A i \in Instance : UpOk(i) /\ EntryOk(i) /\ LapseOk(i)
    /\ HonestOk
    /\ StaysOk

\* Max of integers that are bounded.
LEMMA MaxOf ==
    ASSUME NEW S \in SUBSET Int, S # {}, NEW b \in Int, \A x \in S : x <= b
    PROVE  Max(S) \in S /\ \A x \in S : x <= Max(S)
<1> DEFINE T == {b - x : x \in S}
<1>1. T \in SUBSET Nat /\ T # {}
  <2>1. ASSUME NEW x \in S PROVE b - x \in Nat
    <3>1. x \in Int /\ x <= b
        OBVIOUS
    <3> QED  BY <3>1
  <2> QED  BY <2>1
<1>2. PICK n \in T : \A m \in T : n <= m
  <2> HIDE DEF T
  <2> QED  BY <1>1, Least
<1>3. PICK x \in S : n = b - x
    BY <1>2
<1>4. \A y \in S : x >= y
  <2> TAKE y \in S
  <2>1. n <= b - y
      BY <1>2
  <2> QED  BY <1>3, <2>1
<1>5. Max(S) \in S /\ \A y \in S : Max(S) >= y
    BY <1>3, <1>4, Zenon DEF Max
<1> QED  BY <1>5

\* Max and Min of a few.
LEMMA MaxOfThree ==
    ASSUME NEW a \in Int, NEW b \in Int, NEW c \in Int
    PROVE  /\ Max({a, b, c}) \in {a, b, c}
           /\ a <= Max({a, b, c}) /\ b <= Max({a, b, c}) /\ c <= Max({a, b, c})
<1>1. PICK d \in {a, b, c} : a <= d /\ b <= d /\ c <= d
    OBVIOUS
<1>2. {a, b, c} \in SUBSET Int /\ {a, b, c} # {} /\ d \in Int /\ \A x \in {a, b, c} : x <= d
    BY <1>1
<1> DEFINE S == {a, b, c}
<1>3. Max(S) \in S /\ \A x \in S : x <= Max(S)
  <2> HIDE DEF S
  <2> QED  BY <1>2, MaxOf DEF S
<1> QED  BY <1>3

LEMMA MaxOfTwo ==
    ASSUME NEW a \in Int, NEW b \in Int
    PROVE  Max({a, b}) \in {a, b} /\ a <= Max({a, b}) /\ b <= Max({a, b})
<1>1. {a, b} = {a, b, b}
    OBVIOUS
<1> QED  BY <1>1, MaxOfThree

LEMMA MinOfTwo ==
    ASSUME NEW a \in Int, NEW b \in Int
    PROVE  Min({a, b}) \in Int /\ Min({a, b}) <= a /\ Min({a, b}) <= b /\ (Min({a, b}) = a \/ Min({a, b}) = b)
<1>1. PICK x \in {a, b} : \A y \in {a, b} : x =< y
    OBVIOUS
<1>2. Min({a, b}) \in {a, b} /\ \A y \in {a, b} : Min({a, b}) =< y
    BY <1>1, Zenon DEF Min
<1> QED  BY <1>2

\* last_leaving is the last a leaving data plane said, never after one ran.
LEMMA LeavingFacts ==
    ASSUME ProgrammedInv
    PROVE  /\ LastLeaving \in Int /\ LastLeaving <= lastUp
           /\ \A j \in Instance : told[j].leaving => told[j].seen <= LastLeaving
<1>1. lastUp \in Nat /\ told \in [Instance -> Entry0]
    BY DEF ProgrammedInv, ProgrammedType
<1> DEFINE S == {-Never} \cup {told[i].seen : i \in {i \in Instance : told[i].leaving}}
<1> HIDE DEF S
<1>2. ASSUME NEW i \in Instance, told[i].leaving PROVE told[i].seen \in Int /\ told[i].seen <= lastUp
  <2>1. told[i] \in Entry0
      BY <1>1
  <2>3. told[i] # NoEntry
    <3>1. NoEntry.leaving = FALSE
        BY DEF NoEntry
    <3> QED  BY <1>2, <3>1, Zenon
  <2>2. EntryOk(i)
      BY DEF ProgrammedInv
  <2> QED  BY <2>1, <2>2, <2>3 DEF EntryOk, Entry0
<1>3. S \in SUBSET Int /\ S # {} /\ \A x \in S : x <= lastUp
    BY <1>1, <1>2 DEF Never, S
<1>4. Max(S) \in S /\ \A x \in S : x <= Max(S)
    BY <1>1, <1>3, MaxOf
<1>5. LastLeaving = Max(S)
    BY DEF LastLeaving, S
<1>6. ASSUME NEW i \in Instance, told[i].leaving PROVE told[i].seen \in S
    BY <1>6 DEF S
<1> QED  BY <1>3, <1>4, <1>5, <1>6

\* keep_until: no earlier than each of the holds that begin, and at the end of
\* one of them.
LEMMA KeepFacts ==
    ASSUME ProgrammedInv, NEW slot \in Slot0
    PROVE  /\ KeepUntil(slot) \in Int
           /\ LiveOnes # {} => slot.at + Hold <= KeepUntil(slot)
           /\ LiveOnes = {} => leadingSince + 2 * Hold <= KeepUntil(slot)
           /\ \A j \in Instance : told[j].leaving => told[j].seen + Hold <= KeepUntil(slot)
           /\ \/ KeepUntil(slot) <= lastUp + Hold
              \/ KeepUntil(slot) = slot.first + Hold
              \/ LiveOnes # {} /\ KeepUntil(slot) = slot.at + Hold
              \/ KeepUntil(slot) = leadingSince + 2 * Hold
<1> DEFINE a == IF LiveOnes # {} THEN slot.at ELSE -Never
           m == Max({a, LastLeaving, slot.first})
           t == IF LiveOnes = {} THEN leadingSince + TAKEOVERKEEP ELSE -Never
<1>1. Hold \in Nat /\ slot.at \in Int /\ slot.first \in Int /\ leadingSince \in Nat /\ lastUp \in Nat
    BY HoldAssumption DEF ProgrammedInv, ProgrammedType, Slot0
<1>2. a \in Int /\ t \in Int
    BY <1>1 DEF TAKEOVERKEEP, Never
<1>3. /\ LastLeaving \in Int /\ LastLeaving <= lastUp
      /\ \A j \in Instance : told[j].leaving => told[j].seen <= LastLeaving
    BY LeavingFacts
<1>4. m \in {a, LastLeaving, slot.first} /\ a <= m /\ LastLeaving <= m /\ slot.first <= m
  <2> HIDE DEF a
  <2> QED  BY <1>1, <1>2, <1>3, MaxOfThree
<1>5. m \in Int
  <2> HIDE DEF a, m
  <2> QED  BY <1>1, <1>2, <1>3, <1>4
<1>6. KeepUntil(slot) = Max({m + Hold, t})
    BY DEF KeepUntil, KEEP
<1>7. KeepUntil(slot) \in {m + Hold, t} /\ m + Hold <= KeepUntil(slot) /\ t <= KeepUntil(slot)
  <2> HIDE DEF m, t
  <2>1. m + Hold \in Int /\ t \in Int
      BY <1>1, <1>2, <1>5
  <2> QED  BY <1>6, <2>1, MaxOfTwo
<1>8. \A j \in Instance : told[j].leaving => told[j].seen \in Int
    BY DEF ProgrammedInv, ProgrammedType, Entry0
<1>9. KeepUntil(slot) \in Int
  <2> HIDE DEF m, t
  <2> QED  BY <1>1, <1>2, <1>5, <1>7
<1> HIDE DEF m
<1>a. \A j \in Instance : told[j].leaving => told[j].seen + Hold <= KeepUntil(slot)
  <2> TAKE j \in Instance
  <2> HAVE told[j].leaving
  <2>1. told[j].seen \in Int /\ told[j].seen <= LastLeaving
      BY <1>3, <1>8
  <2> HIDE DEF a, t
  <2> QED  BY <1>1, <1>3, <1>4, <1>5, <1>7, <1>9, <2>1
<1>b. CASE LiveOnes # {}
  <2>1. a = slot.at /\ t = -Never
      BY <1>b
  <2> HIDE DEF a, t
  <2>2. KeepUntil(slot) = m + Hold \/ KeepUntil(slot) <= lastUp + Hold
      BY <1>1, <1>7, <2>1 DEF Never
  <2>3. m = slot.at \/ m = slot.first \/ m <= lastUp
      BY <1>3, <1>4, <2>1
  <2>4. slot.at + Hold <= KeepUntil(slot)
      BY <1>1, <1>4, <1>5, <1>7, <1>9, <2>1
  <2> QED  BY <1>1, <1>5, <1>9, <1>a, <1>b, <2>2, <2>3, <2>4
<1>c. CASE LiveOnes = {}
  <2>1. a = -Never /\ t = leadingSince + 2 * Hold
      BY <1>c DEF TAKEOVERKEEP
  <2> HIDE DEF a, t
  <2> QED  BY <1>1, <1>2, <1>3, <1>4, <1>5, <1>7, <1>9, <1>a, <1>c, <2>1 DEF Never
<1> QED  BY <1>b, <1>c

\* The slot a pass decides from.
PassNew  == fault # "rejected" /\ wanted # slotHub.ver
PassSlot ==
    IF PassNew THEN [ver |-> wanted, at |-> now, first |-> IF slotHub.ver = 0 THEN now ELSE slotHub.first]
    ELSE slotHub

\* A version is published now, the first published keeps its time.
LEMMA SlotFacts ==
    ASSUME ProgrammedInv
    PROVE  /\ PassSlot \in Slot0
           /\ PassSlot.ver # 0 => PassSlot.at <= now /\ PassSlot.first <= now
           /\ fault = "" => PassSlot.ver = wanted /\ PassSlot.ver # 0
           /\ PassNew => PassSlot.at = now
           /\ ~PassNew => PassSlot = slotHub
           /\ slotHub.ver # 0 => PassSlot.first = slotHub.first
           /\ slotHub.ver = 0 /\ fault = "" => PassSlot.first = now
<1>1. now \in Nat /\ wanted \in Nat \ {0} /\ slotHub \in Slot0 /\ (slotHub.ver # 0 => slotHub.at <= now /\ slotHub.first <= now)
    BY DEF ProgrammedInv, ProgrammedType
<1>2. CASE PassNew
  <2>1. /\ PassSlot.ver = wanted /\ PassSlot.at = now
        /\ PassSlot.first = (IF slotHub.ver = 0 THEN now ELSE slotHub.first)
        /\ PassSlot \in Slot0
      BY <1>1, <1>2 DEF PassSlot, Slot0
  <2>2. PassSlot.at <= now /\ PassSlot.first <= now
      BY <1>1, <2>1
  <2> QED  BY <1>1, <1>2, <2>1, <2>2 DEF PassNew
<1>3. CASE ~PassNew
  <2>1. PassSlot = slotHub
      BY <1>3 DEF PassSlot
  <2>2. fault = "" => wanted = slotHub.ver
      BY <1>3 DEF PassNew
  <2> QED  BY <1>1, <1>3, <2>1, <2>2
<1> QED  BY <1>2, <1>3

\* evaluate: Programmed when one bound, and whenever all did.
LEMMA BoundFacts ==
    ASSUME NEW at
    PROVE  /\ Bound(at) \in {"Programmed", "Invalid", "AddressNotUsable"}
           /\ Bound(at) = "Programmed" => \E i \in at : told[i].bound = "bound"
           /\ at # {} /\ (\A i \in at : told[i].bound = "bound") => Bound(at) = "Programmed"
<1> DEFINE says == {told[i].bound : i \in at}
<1>1. Bound(at) = IF "refused" \in says THEN "Invalid"
                  ELSE IF says = {"nowhere"} THEN "AddressNotUsable"
                  ELSE IF "error" \in says THEN "Invalid"
                  ELSE IF "bound" \in says THEN "Programmed" ELSE "Invalid"
    BY DEF Bound
<1>2. "bound" \in says => \E i \in at : told[i].bound = "bound"
    OBVIOUS
<1>3. at # {} /\ (\A i \in at : told[i].bound = "bound") => says = {"bound"}
    OBVIOUS
<1> HIDE DEF says
<1> QED  BY <1>1, <1>2, <1>3

\* What decide writes: Programmed rests on a report of the version, or is the
\* one written before, kept.
LEMMA DecideFacts ==
    ASSUME ProgrammedInv, NEW c, c = Decide(PassSlot)
    PROVE  /\ c \in Condition0
           /\ c.why = "Programmed" =>
                 /\ c.written /\ c.listener /\ c.addresses
                 /\ fault = "" /\ front # "unassigned"
                 /\ \/ AtVersion(PassSlot) # {}
                    \/ /\ IsProgrammed
                       /\ c.until = KeepUntil(PassSlot) /\ now < c.until
<1>1. /\ condition \in Condition0 /\ now \in Nat
      /\ fault \in {"", "rejected", "problem"} /\ front \in {"none", "assigned", "unassigned"}
    BY DEF ProgrammedInv, ProgrammedType
<1>2. KeepUntil(PassSlot) \in Int
    BY SlotFacts, KeepFacts
<1>3. CASE fault = "rejected"
  <2>1. c = [written |-> TRUE, why |-> "Invalid", listener |-> condition.listener,
             addresses |-> condition.addresses, until |-> Never]
      BY <1>3 DEF Decide, Unpublished, Cond
  <2>2. condition.listener \in BOOLEAN /\ condition.addresses \in BOOLEAN
      BY <1>1 DEF Condition0
  <2>3. c.why = "Invalid"
      BY <2>1
  <2> QED  BY <2>1, <2>2, <2>3 DEF Condition0, Never, Why
<1>4. CASE fault # "rejected" /\ AtVersion(PassSlot) # {}
  <2> DEFINE at == AtVersion(PassSlot)
  <2> HIDE DEF at
  <2>1. c = [written |-> TRUE, why |-> Outranked(Bound(at)), listener |-> Bound(at) = "Programmed",
             addresses |-> Addresses(condition.addresses \/ \E i \in at : told[i].bound # "nowhere"), until |-> Never]
      BY <1>4, Zenon DEF Decide, FromReports, Cond, at
  <2>2. /\ Bound(at) \in {"Programmed", "Invalid", "AddressNotUsable"}
        /\ Bound(at) = "Programmed" => \E i \in at : told[i].bound = "bound"
      BY BoundFacts
  <2>3. c \in Condition0
    <3>1. Outranked(Bound(at)) \in Why
        BY <2>2 DEF Outranked, Unassigned, Why
    <3>2. Addresses(condition.addresses \/ \E i \in at : told[i].bound # "nowhere") \in BOOLEAN
        BY <1>1 DEF Addresses
    <3> HIDE DEF Addresses
    <3> QED  BY <2>1, <3>1, <3>2 DEF Condition0, Never
  <2>4. ASSUME c.why = "Programmed"
        PROVE  c.written /\ c.listener /\ c.addresses /\ fault = "" /\ front # "unassigned"
    <3>1. c.written = TRUE /\ c.why = Outranked(Bound(at)) /\ c.listener = (Bound(at) = "Programmed")
          /\ c.addresses = Addresses(condition.addresses \/ \E i \in at : told[i].bound # "nowhere")
        BY <2>1
    <3>2. Bound(at) = "Programmed" /\ fault = "" /\ front # "unassigned"
        BY <1>1, <1>4, <2>2, <2>4, <3>1 DEF Outranked, Unassigned, Why
    <3>3. \E i \in at : told[i].bound # "nowhere"
        BY <2>2, <3>2
    <3>4. Addresses(condition.addresses \/ \E i \in at : told[i].bound # "nowhere")
        BY <1>1, <3>2, <3>3 DEF Addresses
    <3> QED  BY <3>1, <3>2, <3>4
  <2> QED  BY <1>4, <2>3, <2>4
<1>5. CASE /\ fault # "rejected" /\ AtVersion(PassSlot) = {}
           /\ KeepUntil(PassSlot) > now /\ ~Overruled /\ condition.written
  <2>1. c = [written |-> TRUE, why |-> condition.why, listener |-> condition.listener,
             addresses |-> Addresses(condition.addresses), until |-> KeepUntil(PassSlot)]
      BY <1>5 DEF Decide, Kept, Cond
  <2>2. fault = "" /\ front # "unassigned"
      BY <1>1, <1>5 DEF Overruled, Unassigned
  <2>3. Addresses(condition.addresses) \in BOOLEAN /\ (condition.addresses => Addresses(condition.addresses))
      BY <1>1, <2>2 DEF Addresses, Condition0
  <2>4. condition.why = "Programmed" => condition.listener /\ condition.addresses
      BY DEF ProgrammedInv, HonestOk, IsProgrammed
  <2>5. /\ c.written = TRUE /\ c.why = condition.why /\ c.listener = condition.listener
        /\ c.addresses = Addresses(condition.addresses) /\ c.until = KeepUntil(PassSlot)
      BY <2>1
  <2>6. c \in Condition0
    <3>1. condition.why \in Why /\ condition.listener \in BOOLEAN
        BY <1>1 DEF Condition0
    <3> QED  BY <1>2, <2>1, <2>3, <3>1 DEF Condition0
  <2> QED  BY <1>2, <1>1, <1>5, <2>2, <2>3, <2>4, <2>5, <2>6 DEF IsProgrammed
<1>6. CASE /\ fault # "rejected" /\ AtVersion(PassSlot) = {}
           /\ ~(KeepUntil(PassSlot) > now /\ ~Overruled /\ condition.written)
  <2> DEFINE own == condition.addresses /\ (KeepUntil(PassSlot) > now \/ LiveOnes # {})
  <2>1. c = [written |-> TRUE, why |-> Outranked("Pending"), listener |-> FALSE,
             addresses |-> Addresses(own), until |-> Never]
      BY <1>6 DEF Decide, NoneApplied, Cond
  <2>2. Outranked("Pending") \in Why /\ Outranked("Pending") # "Programmed"
      BY DEF Outranked, Unassigned, Why
  <2>3. Addresses(own) \in BOOLEAN
      BY <1>1 DEF Addresses, Condition0
  <2>4. c \in Condition0 /\ c.why # "Programmed"
    <3> HIDE DEF own
    <3> QED  BY <2>1, <2>2, <2>3 DEF Condition0, Never
  <2> QED  BY <2>4
<1> QED  BY <1>3, <1>4, <1>5, <1>6

\* Without a live report, what was written is kept while all goes well.
LEMMA SpokenKeeps ==
    ASSUME ProgrammedInv, course \notin {"overtaken", "bad"}, LiveOnes = {}, NEW slot \in Slot0
    PROVE  now < KeepUntil(slot)
<1>1. PICK i \in Instance : Spoken(i)
    BY DEF ProgrammedInv, StaysOk
<1>2. /\ now \in Nat /\ leadingSince \in Nat /\ Hold \in Nat /\ KeepUntil(slot) \in Int
      /\ plane[i] \in Plane0 /\ told[i] \in Entry0
    BY HoldAssumption, KeepFacts DEF ProgrammedInv, ProgrammedType
<1>3. plane[i].up /\ now <= plane[i].by /\ plane[i].by \in Int
    BY <1>1, <1>2 DEF ProgrammedInv, Spoken, UpOk, Plane0
<1>4. ~Heard(i)
  <2>1. SUFFICES ASSUME Heard(i) PROVE FALSE
      OBVIOUS
  <2>2. plane[i].by < told[i].seen + 2 * Hold /\ told[i].seen \in Int
      BY <1>2, <2>1 DEF ProgrammedInv, StaysOk, HeardOk, Entry0
  <2>3. now - told[i].seen < LIVENESS
      BY <1>2, <1>3, <2>2 DEF LIVENESS
  <2> QED  BY <2>1, <2>3 DEF LiveOnes, Live, Heard
<1>5. CASE plane[i].by < leadingSince + 2 * Hold
    BY <1>2, <1>3, <1>5, KeepFacts
<1>6. CASE \E j \in Instance : told[j].leaving /\ plane[i].by < told[j].seen + Hold
  <2>1. PICK j \in Instance : told[j].leaving /\ plane[i].by < told[j].seen + Hold
      BY <1>6
  <2>2. told[j].seen \in Int
      BY DEF ProgrammedInv, ProgrammedType, Entry0
  <2>3. told[j].seen + Hold <= KeepUntil(slot)
      BY <2>1, KeepFacts
  <2> QED  BY <1>2, <1>3, <2>1, <2>2, <2>3
<1> QED  BY <1>1, <1>4, <1>5, <1>6 DEF Spoken

\* A Programmed stays while all goes well.
LEMMA StaysProgrammed ==
    ASSUME ProgrammedInv, course = "good"
    PROVE  Decide(PassSlot).why = "Programmed"
<1>1. /\ fault = "" /\ IsProgrammed /\ condition.written /\ front # "unassigned" /\ ~Overruled
      /\ \A i \in Instance : HeardOk(i)
    BY DEF ProgrammedInv, StaysOk, HonestOk, Overruled, Unassigned
<1>2. CASE AtVersion(PassSlot) # {}
  <2>1. \A i \in AtVersion(PassSlot) : told[i].bound = "bound"
      BY <1>1 DEF AtVersion, LiveOnes, Live, HeardOk, Heard
  <2>2. Bound(AtVersion(PassSlot)) = "Programmed"
      BY <1>2, <2>1, BoundFacts
  <2>3. Decide(PassSlot) = FromReports(AtVersion(PassSlot))
      BY <1>1, <1>2 DEF Decide
  <2>4. Decide(PassSlot).why = Outranked(Bound(AtVersion(PassSlot)))
      BY <2>3 DEF FromReports, Cond
  <2> QED  BY <1>1, <2>2, <2>4 DEF Outranked, Overruled
<1>3. CASE AtVersion(PassSlot) = {}
  <2>1. now < KeepUntil(PassSlot)
    <3>1. CASE LiveOnes = {}
        BY <3>1, SpokenKeeps, SlotFacts
    <3>2. CASE LiveOnes # {}
      <4>1. PICK i \in Instance : Live(i)
          BY <3>2 DEF LiveOnes
      <4>2. told[i].ver # PassSlot.ver
          BY <1>3, <4>1 DEF AtVersion, LiveOnes
      <4>3. now < PassSlot.at + Hold
        <5>1. now \in Nat /\ Hold \in Nat /\ Hold > 1 /\ PassSlot.at \in Int /\ plane[i] \in Plane0
            BY SlotFacts, HoldAssumption DEF ProgrammedInv, ProgrammedType, Slot0
        <5>2. CASE PassNew
          <6>1. PassSlot.at = now
              BY <5>2, SlotFacts
          <6> QED  BY <5>1, <6>1
        <5>3. CASE ~PassNew
          <6>1. PassSlot = slotHub /\ slotHub.ver # 0
              BY <1>1, <5>3, SlotFacts
          <6>2. plane[i].up /\ plane[i].by < slotHub.at + Hold
              BY <1>1, <4>1, <4>2, <6>1 DEF Live, HeardOk, Heard, Catching
          <6>3. now <= plane[i].by /\ plane[i].by \in Int
              BY <5>1, <6>2 DEF ProgrammedInv, UpOk, Plane0
          <6> QED  BY <5>1, <6>1, <6>2, <6>3
        <5> QED  BY <5>2, <5>3
      <4>4. PassSlot.at + Hold <= KeepUntil(PassSlot) /\ KeepUntil(PassSlot) \in Int /\ PassSlot.at \in Int
          BY <3>2, KeepFacts, SlotFacts DEF Slot0
      <4>5. now \in Nat /\ Hold \in Nat
          BY HoldAssumption DEF ProgrammedInv, ProgrammedType
      <4> QED  BY <4>3, <4>4, <4>5
    <3> QED  BY <3>1, <3>2
  <2>2. KeepUntil(PassSlot) > now
      BY <2>1, SlotFacts, KeepFacts DEF ProgrammedInv, ProgrammedType
  <2>3. Decide(PassSlot) = Kept(KeepUntil(PassSlot))
      BY <1>1, <1>3, <2>2 DEF Decide
  <2>4. Kept(KeepUntil(PassSlot)).why = condition.why
      BY Zenon DEF Kept, Cond
  <2> QED  BY <1>1, <2>3, <2>4 DEF IsProgrammed
<1> QED  BY <1>2, <1>3

LEMMA PassKeeps == ProgrammedInv /\ ConditionPass => ProgrammedInv'
<1> SUFFICES ASSUME ProgrammedInv, ConditionPass PROVE ProgrammedInv'
    OBVIOUS
<1> DEFINE c == Decide(PassSlot)
<1> HIDE DEF c
<1>1. /\ asked' = FALSE /\ slotHub' = PassSlot /\ condition' = c /\ recheckAt' = c.until
      /\ course' = (IF PassNew /\ Overtaken THEN IF course = "good" THEN "overtaken" ELSE "bad"
                    ELSE IF course = "starting" /\ c.why = "Programmed" THEN "good" ELSE course)
      /\ plane' = [i \in Instance |-> IF PassNew /\ plane[i].up /\ told[i] # NoEntry
                       THEN [plane[i] EXCEPT !.by = Min({@, now + Hold - 1})] ELSE plane[i]]
    BY Zenon DEF ConditionPass, PassNew, PassSlot, c
<1>2. now' = now /\ leadingSince' = leadingSince /\ wanted' = wanted /\ fault' = fault /\ front' = front
      /\ told' = told /\ lapse' = lapse /\ handling' = handling /\ lastUp' = lastUp
    BY DEF ConditionPass, outsideVars, storeVars
<1>3. ProgrammedType /\ (\A i \in Instance : UpOk(i) /\ EntryOk(i) /\ LapseOk(i)) /\ HonestOk /\ StaysOk
    BY DEF ProgrammedInv
<1>4. Hold \in Nat /\ Hold > 1 /\ now \in Nat /\ lastUp \in Nat /\ leadingSince \in Nat
    BY <1>3, HoldAssumption DEF ProgrammedType
<1>5. ASSUME NEW i \in Instance
      PROVE  /\ plane'[i] \in Plane0 /\ plane'[i].up = plane[i].up /\ plane'[i].ver = plane[i].ver /\ plane'[i].bound = plane[i].bound
             /\ plane'[i].by \in Int /\ plane'[i].by <= plane[i].by /\ (plane[i].up => now <= plane'[i].by)
             /\ PassNew /\ plane[i].up /\ told[i] # NoEntry => plane'[i].by < now + Hold
  <2>1. plane[i] \in Plane0 /\ (plane[i].up => now <= plane[i].by) /\ plane[i].by \in Int
      BY <1>3 DEF ProgrammedType, UpOk, Plane0
  <2>2. CASE PassNew /\ plane[i].up /\ told[i] # NoEntry
    <3> DEFINE b == Min({plane[i].by, now + Hold - 1})
    <3>1. now + Hold - 1 \in Int
        BY <1>4
    <3>2. b \in Int /\ b <= plane[i].by /\ b <= now + Hold - 1 /\ (b = plane[i].by \/ b = now + Hold - 1)
        BY <2>1, <3>1, MinOfTwo
    <3>3. plane'[i] = [plane[i] EXCEPT !.by = b]
        BY <1>1, <2>2
    <3> HIDE DEF b
    <3>4. plane'[i] \in Plane0 /\ plane'[i].up = plane[i].up /\ plane'[i].ver = plane[i].ver /\ plane'[i].bound = plane[i].bound
          /\ plane'[i].by = b
        BY <2>1, <3>2, <3>3 DEF Plane0
    <3> QED  BY <1>4, <2>1, <2>2, <3>2, <3>4
  <2>3. CASE ~(PassNew /\ plane[i].up /\ told[i] # NoEntry)
    <3>1. plane'[i] = plane[i]
        BY <1>1, <2>3
    <3> QED  BY <2>1, <2>3, <3>1
  <2> QED  BY <2>2, <2>3
<1>6. /\ PassSlot \in Slot0
      /\ PassSlot.ver # 0 => PassSlot.at <= now /\ PassSlot.first <= now
      /\ fault = "" => PassSlot.ver = wanted /\ PassSlot.ver # 0
      /\ PassNew => PassSlot.at = now
      /\ ~PassNew => PassSlot = slotHub
      /\ slotHub.ver # 0 => PassSlot.first = slotHub.first
      /\ slotHub.ver = 0 /\ fault = "" => PassSlot.first = now
    BY SlotFacts
<1>7. /\ c \in Condition0
      /\ c.why = "Programmed" =>
             /\ c.written /\ c.listener /\ c.addresses
             /\ fault = "" /\ front # "unassigned"
             /\ \/ AtVersion(PassSlot) # {}
                \/ IsProgrammed /\ c.until = KeepUntil(PassSlot) /\ now < c.until
    BY DecideFacts DEF c
<1>8. ProgrammedType'
  <2>1. plane' \in [Instance -> Plane0]
    <3>1. \A i \in Instance : plane'[i] \in Plane0
        BY <1>5
    <3>2. plane' = [i \in Instance |-> plane'[i]]
        BY <1>1
    <3> QED  BY <3>1, <3>2
  <2>2. recheckAt' \in Int
      BY <1>1, <1>7 DEF Condition0
  <2>3. course' \in {"starting", "good", "overtaken", "bad"}
      BY <1>1, <1>3 DEF ProgrammedType
  <2> QED  BY <1>1, <1>2, <1>3, <1>6, <1>7, <2>1, <2>2, <2>3 DEF ProgrammedType
<1>9. ASSUME NEW i \in Instance PROVE UpOk(i)' /\ EntryOk(i)' /\ LapseOk(i)'
  <2>1. UpOk(i)'
    <3>1. plane[i].by \in Int
        BY <1>3 DEF ProgrammedType, Plane0
    <3>2. plane'[i].up => lastUp = now /\ plane[i].by < now + 2 * Hold
        BY <1>3, <1>5 DEF UpOk
    <3>3. plane'[i].by \in Int /\ plane'[i].by <= plane[i].by /\ (plane'[i].up => now <= plane'[i].by)
        BY <1>5
    <3> QED  BY <1>2, <1>4, <3>1, <3>2, <3>3 DEF UpOk
  <2>2. EntryOk(i)' /\ LapseOk(i)'
      BY <1>2, <1>3 DEF EntryOk, LapseOk, Near
  <2> QED  BY <2>1, <2>2
<1>10. HonestOk'
  <2>1. SUFFICES ASSUME c.why = "Programmed"
                 PROVE  /\ InTime(now)
                        /\ (\E i \in Instance : Awake(i)) \/ InTime(c.until)
                        /\ InTime(PassSlot.first + Hold)
    <3>1. InTime(now)' = InTime(now) /\ InTime(recheckAt)' = InTime(c.until)
          /\ InTime(slotHub.first + Hold)' = InTime(PassSlot.first + Hold)
        BY <1>1, <1>2 DEF InTime
    <3>2. \A i \in Instance : Awake(i)' = Awake(i)
        BY <1>2 DEF Awake, Near
    <3> HIDE DEF InTime, Awake
    <3> QED  BY <1>1, <1>2, <1>6, <1>7, <2>1, <3>1, <3>2 DEF HonestOk, IsProgrammed
  <2>2. PassSlot.ver # 0 /\ PassSlot.first \in Int /\ PassSlot.at \in Int /\ PassSlot.at <= now /\ PassSlot.first <= now
      BY <1>6, <1>7, <2>1 DEF Slot0
  <2>3. ASSUME NEW i \in Instance, Live(i)
        PROVE  now < lastUp + 2 * Hold /\ Awake(i)
    <3>1. told[i].seen \in Int /\ told[i] # NoEntry /\ told[i].seen <= lastUp /\ now - told[i].seen < 2 * Hold
        BY <1>3, <2>3 DEF ProgrammedType, Entry0, EntryOk, Live, LIVENESS
    <3>2. LapseOk(i)
        BY <1>3
    <3>3. ~(now >= told[i].seen + LIVENESS)
        BY <1>4, <3>1 DEF LIVENESS
    <3> QED  BY <1>4, <3>1, <3>2, <3>3 DEF LapseOk, Awake
  <2>4. CASE AtVersion(PassSlot) # {}
    <3>1. PICK i \in Instance : Live(i)
        BY <2>4 DEF AtVersion, LiveOnes
    <3>2. now < lastUp + 2 * Hold /\ Awake(i)
        BY <2>3, <3>1
    <3>3. now < lastUp + 3 * Hold /\ PassSlot.first + Hold < lastUp + 3 * Hold
        BY <1>4, <2>2, <3>2
    <3> QED  BY <3>2, <3>3 DEF InTime
  <2>5. CASE IsProgrammed /\ c.until = KeepUntil(PassSlot) /\ now < c.until
    <3>1. InTime(PassSlot.first + Hold)
      <4>1. CASE slotHub.ver # 0
          BY <1>3, <1>6, <2>5, <4>1 DEF HonestOk
      <4>2. CASE slotHub.ver = 0
        <5>1. PassSlot.first = now /\ now = leadingSince
            BY <1>3, <1>6, <1>7, <2>1, <2>5, <4>2 DEF HonestOk
        <5> QED  BY <1>4, <5>1 DEF InTime
      <4> QED  BY <4>1, <4>2
    <3>2. InTime(now)
        BY <1>3, <2>5 DEF HonestOk
    <3>3. InTime(c.until)
      <4>1. \/ c.until <= lastUp + Hold
            \/ c.until = PassSlot.first + Hold
            \/ LiveOnes # {} /\ c.until = PassSlot.at + Hold
            \/ c.until = leadingSince + 2 * Hold
          BY <1>6, <2>5, KeepFacts
      <4>2. c.until \in Int
          BY <1>7 DEF Condition0
      <4>3. CASE LiveOnes # {} /\ c.until = PassSlot.at + Hold
        <5>1. PICK i \in Instance : Live(i)
            BY <4>3 DEF LiveOnes
        <5>2. now < lastUp + 2 * Hold
            BY <2>3, <5>1
        <5> QED  BY <1>4, <2>2, <4>3, <5>2 DEF InTime
      <4>4. CASE c.until <= lastUp + Hold
          BY <1>4, <4>2, <4>4 DEF InTime
      <4>5. CASE c.until = leadingSince + 2 * Hold
          BY <1>4, <4>5 DEF InTime
      <4> QED  BY <3>1, <4>1, <4>3, <4>4, <4>5
    <3> QED  BY <3>1, <3>2, <3>3
  <2> QED  BY <1>7, <2>1, <2>4, <2>5
<1>11. StaysOk'
  <2>1. SUFFICES ASSUME course' \notin {"overtaken", "bad"} PROVE StaysOk'
      BY DEF StaysOk
  <2>2. course \notin {"overtaken", "bad"} /\ ~(PassNew /\ Overtaken)
      BY <1>1, <2>1
  <2>3. fault = "" /\ (\A i \in Instance : HeardOk(i) /\ BoundOk(i)) /\ (\E i \in Instance : Spoken(i))
      BY <1>3, <2>2 DEF StaysOk
  <2>4. ASSUME NEW i \in Instance, NEW ver \in Nat, plane[i].up, Catching(i, ver),
               PassNew => told[i] # NoEntry \/ ver = wanted
        PROVE  Catching(i, ver)'
    <3>1. plane[i].by \in Int /\ PassSlot.at \in Int
        BY <1>3, <1>6 DEF ProgrammedType, Plane0, Slot0
    <3>2. CASE PassNew
        BY <1>1, <1>4, <1>5, <1>6, <2>3, <2>4, <3>1, <3>2 DEF Catching
    <3>3. CASE ~PassNew
        BY <1>1, <1>4, <1>5, <1>6, <2>4, <3>1, <3>3 DEF Catching
    <3> QED  BY <3>2, <3>3
  <2>5. ASSUME NEW i \in Instance PROVE HeardOk(i)' /\ BoundOk(i)'
    <3>1. plane[i] \in Plane0 /\ told[i] \in Entry0
        BY <1>3 DEF ProgrammedType
    <3>2. Heard(i)' = Heard(i)
        BY <1>2 DEF Heard
    <3>3. HeardOk(i)'
      <4>1. SUFFICES ASSUME Heard(i)
                     PROVE  /\ plane'[i].up /\ told[i].bound = "bound" /\ plane'[i].by < told[i].seen + 2 * Hold
                            /\ Catching(i, told[i].ver)'
          BY <1>2, <3>2 DEF HeardOk
      <4>2. plane[i].up /\ told[i].bound = "bound" /\ plane[i].by < told[i].seen + 2 * Hold /\ Catching(i, told[i].ver)
          BY <2>3, <4>1 DEF HeardOk
      <4>3. Catching(i, told[i].ver)'
        <5>1. told[i].ver \in Nat /\ told[i] # NoEntry /\ told'[i].ver = told[i].ver
            BY <1>2, <3>1, <4>1 DEF Heard, Entry0
        <5> QED  BY <2>4, <4>2, <5>1
      <4>4. plane'[i].by < told[i].seen + 2 * Hold
          BY <1>4, <1>5, <3>1, <4>2 DEF Entry0, Plane0
      <4> QED  BY <1>5, <4>2, <4>3, <4>4
    <3>4. BoundOk(i)'
      <4>1. SUFFICES ASSUME plane[i].up, plane[i].ver # 0
                     PROVE  plane[i].bound = "bound" /\ Catching(i, plane[i].ver)'
          BY <1>5 DEF BoundOk
      <4>2. plane[i].bound = "bound" /\ Catching(i, plane[i].ver)
          BY <2>3, <4>1 DEF BoundOk
      <4>3. PassNew => told[i] # NoEntry \/ plane[i].ver = wanted
          BY <2>2, <4>1 DEF Overtaken
      <4>4. plane[i].ver \in Nat /\ plane'[i].ver = plane[i].ver
          BY <1>5, <3>1 DEF Plane0
      <4> QED  BY <2>4, <4>1, <4>2, <4>3, <4>4
    <3> QED  BY <3>3, <3>4
  <2>6. \E i \in Instance : Spoken(i)'
    <3>1. PICK i \in Instance : Spoken(i)
        BY <2>3
    <3>2. plane[i].by \in Int /\ plane'[i].by \in Int /\ plane'[i].by <= plane[i].by /\ plane'[i].up = plane[i].up
        BY <1>3, <1>5 DEF ProgrammedType, Plane0
    <3>3. \A j \in Instance : told[j].seen \in Int
        BY <1>3 DEF ProgrammedType, Entry0
    <3>4. CASE Heard(i)
        BY <1>2, <3>1, <3>2, <3>4 DEF Spoken, Heard
    <3>5. CASE plane[i].by < leadingSince + 2 * Hold
      <4>1. plane'[i].by < leadingSince + 2 * Hold
          BY <1>4, <3>2, <3>5
      <4> QED  BY <1>2, <3>1, <3>2, <4>1 DEF Spoken
    <3>6. CASE \E j \in Instance : told[j].leaving /\ plane[i].by < told[j].seen + Hold
      <4>1. PICK j \in Instance : told[j].leaving /\ plane[i].by < told[j].seen + Hold
          BY <3>6
      <4>2. plane'[i].by < told[j].seen + Hold
          BY <1>4, <3>2, <3>3, <4>1
      <4> QED  BY <1>2, <3>1, <3>2, <4>1, <4>2 DEF Spoken
    <3> QED  BY <3>1, <3>4, <3>5, <3>6 DEF Spoken
  <2>7. course' = "starting" => ~(c.why = "Programmed")
      BY <1>1, <2>2
  <2>8. course' = "good" => c.why = "Programmed" /\ front # "unassigned"
    <3>1. CASE course = "good"
      <4>1. c.why = "Programmed"
          BY <3>1, StaysProgrammed DEF c
      <4> QED  BY <1>3, <3>1, <4>1 DEF StaysOk
    <3>2. CASE course # "good"
        BY <1>1, <1>7, <3>2
    <3> QED  BY <3>1, <3>2
  <2> QED  BY <1>1, <1>2, <2>3, <2>5, <2>6, <2>7, <2>8 DEF StaysOk, IsProgrammed
<1> QED  BY <1>8, <1>9, <1>10, <1>11 DEF ProgrammedInv

LEMMA TickKeeps == ProgrammedInv /\ Tick => ProgrammedInv'
<1> SUFFICES ASSUME ProgrammedInv, Tick PROVE ProgrammedInv'
    OBVIOUS
<1>1. /\ now' = now + 1 /\ ~asked /\ recheckAt > now
      /\ \A i \in Instance : lapse[i] > now /\ plane[i].by > now
      /\ \A i \in handling : told[i].seen = now
      /\ lastUp' = IF \E i \in Instance : plane[i].up THEN now + 1 ELSE lastUp
      /\ UNCHANGED <<leadingSince, slotHub, told, lapse, handling, wanted, fault, front, plane, course, asked, recheckAt, condition>>
    BY DEF Tick, serverVars, storeVars, outsideVars
<1>2. ProgrammedType /\ (\A i \in Instance : UpOk(i) /\ EntryOk(i) /\ LapseOk(i)) /\ HonestOk /\ StaysOk
    BY DEF ProgrammedInv
<1>3. Hold \in Nat /\ Hold > 1 /\ now \in Nat /\ lastUp \in Nat /\ leadingSince \in Nat /\ lastUp <= now
    BY <1>2, HoldAssumption DEF ProgrammedType
<1>4. lastUp' \in Nat /\ lastUp <= lastUp' /\ lastUp' <= now + 1
    BY <1>1, <1>3
<1>u. PICK u \in Nat : lastUp <= u /\ u <= now + 1 /\ u = lastUp'
    BY <1>4
<1>v. lastUp <= u /\ u <= now + 1
    BY <1>u
<1>5. ProgrammedType'
  <2>1. slotHub.at \in Int /\ slotHub.first \in Int
      BY <1>2 DEF ProgrammedType, Slot0
  <2>2. now + 1 \in Nat /\ leadingSince <= now + 1
    <3>1. leadingSince <= now
        BY <1>2 DEF ProgrammedType
    <3> QED  BY <1>3, <3>1
  <2>3. slotHub.ver # 0 => slotHub.at <= now + 1 /\ slotHub.first <= now + 1
    <3>1. slotHub.ver # 0 => slotHub.at <= now /\ slotHub.first <= now
        BY <1>2 DEF ProgrammedType
    <3> QED  BY <1>3, <2>1, <3>1
  <2> QED  BY <1>1, <1>2, <1>4, <2>2, <2>3 DEF ProgrammedType
<1>6. ASSUME NEW i \in Instance PROVE UpOk(i)' /\ EntryOk(i)' /\ LapseOk(i)'
  <2>1. plane[i].by \in Int /\ told[i].seen \in Int /\ lapse[i] \in Int
      BY <1>2 DEF ProgrammedType, Plane0, Entry0
  <2>2. UpOk(i) /\ EntryOk(i) /\ LapseOk(i)
      BY <1>2
  <2>3. UpOk(i)'
      BY <1>1, <1>3, <2>1, <2>2 DEF UpOk
  <2>4. EntryOk(i)'
      BY <1>1, <1>3, <1>4, <2>1, <2>2 DEF EntryOk
  <2>5. LapseOk(i)'
    <3>1. i \in handling => told[i] # NoEntry /\ now' <= told[i].seen + 1
        BY <1>1, <1>3, <2>1, <2>2 DEF LapseOk
    <3>2. now >= told[i].seen + LIVENESS => now' >= told[i].seen + LIVENESS
        BY <1>1, <1>3, <2>1 DEF LIVENESS
    <3> QED  BY <1>1, <2>2, <3>1, <3>2 DEF LapseOk, Near
  <2> QED  BY <2>3, <2>4, <2>5
<1>7. HonestOk'
  <2>1. SUFFICES ASSUME IsProgrammed PROVE HonestOk'
      BY <1>1 DEF HonestOk, IsProgrammed
  <2>2. ASSUME NEW t \in Int, InTime(t) PROVE t < lastUp' + 3 * Hold \/ t <= leadingSince + 2 * Hold
    <3>1. t < lastUp + 3 * Hold \/ t <= leadingSince + 2 * Hold
        BY <2>2 DEF InTime
    <3>2. t < u + 3 * Hold \/ t <= leadingSince + 2 * Hold
        BY <1>3, <1>v, <3>1
    <3> QED  BY <1>u, <3>2
  <2>3. /\ condition.written /\ condition.listener /\ condition.addresses
        /\ (\E i \in Instance : Awake(i)) \/ InTime(recheckAt)
        /\ slotHub.ver # 0 /\ InTime(slotHub.first + Hold)
      BY <1>1, <1>2, <2>1 DEF HonestOk
  <2>4. recheckAt \in Int /\ slotHub.first + Hold \in Int
    <3>1. recheckAt \in Int /\ slotHub.first \in Int
        BY <1>2 DEF ProgrammedType, Slot0
    <3> QED  BY <1>3, <3>1
  <2>5. InTime(recheckAt) => InTime(recheckAt)'
      BY <1>1, <2>2, <2>4 DEF InTime
  <2>6. InTime(slotHub.first + Hold)'
      BY <1>1, <2>2, <2>3, <2>4 DEF InTime
  <2>7. \A i \in Instance : Awake(i) => Awake(i)'
      BY <1>1 DEF Awake, Near
  <2>8. InTime(now)'
    <3>1. CASE InTime(recheckAt)
        BY <1>1, <1>3, <2>2, <2>4, <3>1 DEF InTime
    <3>2. CASE \E i \in Instance : Awake(i)
      <4>1. PICK i \in Instance : Awake(i)
          BY <3>2
      <4>2. told[i].seen \in Int /\ told[i].seen <= lastUp /\ lapse[i] \in Int
          BY <1>2, <4>1 DEF ProgrammedType, Entry0, EntryOk, Awake
      <4>3. CASE i \in handling
          BY <1>1, <1>3, <1>4, <4>2, <4>3 DEF InTime
      <4>4. CASE Near(i)
        <5>1. lapse[i] <= told[i].seen + 2 * Hold + 1
            BY <4>4 DEF Near, LIVENESS
        <5>2. now + 1 <= lapse[i]
            BY <1>1, <1>3, <4>2
        <5>3. now + 1 < u + 3 * Hold
            BY <1>3, <1>v, <4>2, <5>1, <5>2
        <5> QED  BY <1>1, <1>u, <5>3 DEF InTime
      <4> QED  BY <4>1, <4>3, <4>4 DEF Awake
    <3> QED  BY <2>3, <3>1, <3>2
  <2> HIDE DEF InTime, Awake
  <2> QED  BY <1>1, <2>3, <2>5, <2>6, <2>7, <2>8 DEF HonestOk, IsProgrammed
<1>8. StaysOk'
  <2>1. \A i \in Instance : HeardOk(i)' = HeardOk(i) /\ BoundOk(i)' = BoundOk(i) /\ Spoken(i)' = Spoken(i)
      BY <1>1, Zenon DEF HeardOk, BoundOk, Spoken, Heard, Catching
  <2> QED  BY <1>1, <1>2, <2>1 DEF StaysOk, IsProgrammed
<1> QED  BY <1>5, <1>6, <1>7, <1>8 DEF ProgrammedInv

\* The record of a data plane that runs: it is awake, and drops no entry whose
\* request is handled.
LEMMA RecordKeeps ==
    ASSUME ProgrammedInv, NEW i \in Instance, NEW leaving \in BOOLEAN, plane[i].up, Reports(i, leaving),
           UNCHANGED <<now, leadingSince, slotHub, wanted, fault, front, recheckAt, condition, lastUp>>
    PROVE  /\ told' \in [Instance -> Entry0] /\ asked' \in BOOLEAN /\ handling' \subseteq Instance /\ lapse' = lapse
           /\ told'[i] = [seen |-> now, ver |-> plane[i].ver, bound |-> plane[i].bound, leaving |-> leaving]
           /\ plane[i].ver # 0 /\ told'[i] # NoEntry
           /\ \A j \in Instance \ {i} : told'[j] \in {told[j], NoEntry}
           /\ \A j \in Instance : EntryOk(j)' /\ LapseOk(j)'
           /\ HonestOk'
<1> DEFINE r == [seen |-> now, ver |-> plane[i].ver, bound |-> plane[i].bound, leaving |-> leaving]
<1>1. /\ plane[i].ver # 0 /\ handling' = handling \cup {i} /\ lapse' = lapse
      /\ told' = [j \in Instance |-> IF j = i THEN r ELSE IF now - told[j].seen < LIVENESS THEN told[j] ELSE NoEntry]
      /\ asked' = (asked \/ Differs(i, r))
    BY DEF Reports, RecordReport
<1>2. ProgrammedType /\ (\A j \in Instance : UpOk(j) /\ EntryOk(j) /\ LapseOk(j)) /\ HonestOk
    BY DEF ProgrammedInv
<1>3. Hold \in Nat /\ Hold > 1 /\ now \in Nat /\ lastUp \in Nat /\ lastUp = now
    BY <1>2, HoldAssumption DEF ProgrammedType, UpOk
<1>4. r \in Entry0 /\ r # NoEntry /\ r.seen = now /\ r.ver = plane[i].ver
  <2>1. plane[i] \in Plane0
      BY <1>2 DEF ProgrammedType
  <2>2. r \in Entry0 /\ r.ver = plane[i].ver /\ r.seen = now
      BY <1>3, <2>1 DEF Entry0, Plane0
  <2>3. NoEntry.ver = 0
      BY DEF NoEntry
  <2> HIDE DEF r
  <2> QED  BY <1>1, <2>2, <2>3
<1> HIDE DEF r
<1>5. NoEntry \in Entry0
    BY DEF NoEntry, Entry0, Never, How
<1>6. told'[i] = r
    BY <1>1
<1>7. ASSUME NEW j \in Instance, j # i
      PROVE  told'[j] = (IF now - told[j].seen < LIVENESS THEN told[j] ELSE NoEntry)
    BY <1>1, <1>7
<1>8. told' \in [Instance -> Entry0]
  <2>1. \A j \in Instance : told[j] \in Entry0
      BY <1>2 DEF ProgrammedType
  <2> QED  BY <1>1, <1>4, <1>5, <2>1
<1>9. ASSUME NEW j \in Instance PROVE EntryOk(j)' /\ LapseOk(j)'
  <2>1. CASE j = i
    <3>1. EntryOk(i)'
        BY <1>1, <1>3, <1>4, <1>6 DEF EntryOk
    <3>2. LapseOk(i)'
      <4>1. now <= r.seen + 1
          BY <1>3, <1>4
      <4> QED  BY <1>1, <1>4, <1>6, <4>1 DEF LapseOk
    <3> QED  BY <2>1, <3>1, <3>2
  <2>2. CASE j # i /\ told'[j] = NoEntry
    <3>1. j \notin handling
      <4>1. SUFFICES ASSUME j \in handling PROVE FALSE
          OBVIOUS
      <4>2. told[j] # NoEntry /\ now <= told[j].seen + 1 /\ told[j].seen \in Int
          BY <1>2, <4>1 DEF LapseOk, ProgrammedType, Entry0
      <4>3. now - told[j].seen < LIVENESS
          BY <1>3, <4>2 DEF LIVENESS
      <4> QED  BY <1>7, <2>2, <4>2, <4>3
    <3> QED  BY <1>1, <2>2, <3>1 DEF EntryOk, LapseOk
  <2>3. CASE j # i /\ told'[j] # NoEntry
    <3>1. told'[j] = told[j]
        BY <1>7, <2>3
    <3>2. EntryOk(j) /\ LapseOk(j)
        BY <1>2
    <3> QED  BY <1>1, <2>3, <3>1, <3>2 DEF EntryOk, LapseOk, Near
  <2> QED  BY <2>1, <2>2, <2>3
<1>10. Awake(i)'
    BY <1>1, <1>4, <1>6 DEF Awake
<1>11. HonestOk'
  <2>1. InTime(now)' = InTime(now) /\ InTime(slotHub.first + Hold)' = InTime(slotHub.first + Hold)
      BY DEF InTime
  <2> HIDE DEF InTime, Awake
  <2> QED  BY <1>1, <1>2, <1>10, <2>1 DEF HonestOk, IsProgrammed
<1>12. asked' \in BOOLEAN /\ handling' \subseteq Instance
    BY <1>1, <1>2 DEF ProgrammedType
<1>13. \A j \in Instance \ {i} : told'[j] \in {told[j], NoEntry}
    BY <1>7
<1>14. told'[i] # NoEntry /\ told'[i] = [seen |-> now, ver |-> plane[i].ver, bound |-> plane[i].bound, leaving |-> leaving]
    BY <1>4, <1>6 DEF r
<1> QED  BY <1>1, <1>8, <1>9, <1>11, <1>12, <1>13, <1>14

LEMMA ReportKeeps == ASSUME ProgrammedInv, NEW i \in Instance, Report(i) PROVE ProgrammedInv'
<1>1. /\ plane[i].up /\ Reports(i, FALSE)
      /\ plane' = [plane EXCEPT ![i].by = IF plane[i].ver = slotHub.ver THEN now + Hold - 1 ELSE @]
      /\ UNCHANGED <<now, leadingSince, slotHub, wanted, fault, front, recheckAt, condition, lastUp, course>>
    BY DEF Report, outsideVars
<1>2. ProgrammedType /\ (\A j \in Instance : UpOk(j)) /\ StaysOk
    BY DEF ProgrammedInv
<1>3. Hold \in Nat /\ Hold > 1 /\ now \in Nat /\ slotHub.at \in Int
    BY <1>2, HoldAssumption DEF ProgrammedType, Slot0
<1>4. /\ told' \in [Instance -> Entry0] /\ asked' \in BOOLEAN /\ handling' \subseteq Instance /\ lapse' = lapse
      /\ told'[i] = [seen |-> now, ver |-> plane[i].ver, bound |-> plane[i].bound, leaving |-> FALSE]
      /\ plane[i].ver # 0 /\ told'[i] # NoEntry
      /\ \A j \in Instance \ {i} : told'[j] \in {told[j], NoEntry}
      /\ \A j \in Instance : EntryOk(j)' /\ LapseOk(j)'
      /\ HonestOk'
  <2>1. FALSE \in BOOLEAN
      OBVIOUS
  <2> QED  BY <1>1, <2>1, RecordKeeps
<1>5. plane[i] \in Plane0 /\ plane[i].by \in Int /\ plane[i].by < now + 2 * Hold /\ now <= plane[i].by
    BY <1>1, <1>2 DEF ProgrammedType, Plane0, UpOk
<1> DEFINE b == IF plane[i].ver = slotHub.ver THEN now + Hold - 1 ELSE plane[i].by
<1>6. b \in Int /\ b < now + 2 * Hold /\ now <= b /\ (plane[i].ver # slotHub.ver => b = plane[i].by)
    BY <1>3, <1>5
<1>7. plane' = [plane EXCEPT ![i] = [plane[i] EXCEPT !.by = b]]
    BY <1>1
<1> HIDE DEF b
<1>8. /\ plane' \in [Instance -> Plane0] /\ plane'[i].up /\ plane'[i].ver = plane[i].ver
      /\ plane'[i].bound = plane[i].bound /\ plane'[i].by = b
      /\ \A j \in Instance \ {i} : plane'[j] = plane[j]
  <2> DEFINE p == [plane[i] EXCEPT !.by = b]
  <2>1. /\ p \in Plane0 /\ p.up = plane[i].up /\ p.ver = plane[i].ver /\ p.bound = plane[i].bound /\ p.by = b
      BY <1>5, <1>6 DEF Plane0
  <2> HIDE DEF p
  <2>2. plane \in [Instance -> Plane0] /\ plane' = [plane EXCEPT ![i] = p]
      BY <1>2, <1>7 DEF ProgrammedType, p
  <2>3. plane'[i] = p /\ plane' \in [Instance -> Plane0] /\ \A j \in Instance \ {i} : plane'[j] = plane[j]
      BY <2>1, <2>2
  <2> QED  BY <1>1, <2>1, <2>3
<1>9. ProgrammedType'
    BY <1>1, <1>2, <1>4, <1>8 DEF ProgrammedType
<1>10. ASSUME NEW j \in Instance PROVE UpOk(j)'
  <2>1. CASE j = i
      BY <1>1, <1>2, <1>6, <1>8, <2>1 DEF UpOk
  <2>2. CASE j # i
      BY <1>1, <1>2, <1>8, <2>2 DEF UpOk
  <2> QED  BY <2>1, <2>2
<1>11. StaysOk'
  <2>1. SUFFICES ASSUME course \notin {"overtaken", "bad"} PROVE StaysOk'
      BY <1>1 DEF StaysOk
  <2>2. /\ fault = "" /\ (\A j \in Instance : HeardOk(j) /\ BoundOk(j))
        /\ course = "starting" => ~IsProgrammed
        /\ course = "good" => IsProgrammed /\ front # "unassigned"
      BY <1>2, <2>1 DEF StaysOk
  <2>3. plane[i].bound = "bound" /\ Catching(i, plane[i].ver)
      BY <1>1, <1>4, <2>2 DEF BoundOk
  <2>4. slotHub.ver # 0 => plane[i].ver = slotHub.ver \/ b < slotHub.at + Hold
      BY <1>6, <2>3 DEF Catching
  <2>5. /\ told'[i].bound = "bound" /\ told'[i].seen = now /\ told'[i].ver = plane[i].ver /\ ~told'[i].leaving
      BY <1>4, <2>3
  <2>6. HeardOk(i)' /\ BoundOk(i)' /\ Spoken(i)'
    <3>1. Heard(i)'
        BY <1>4, <2>5 DEF Heard
    <3>2. HeardOk(i)'
        BY <1>1, <1>6, <1>8, <2>4, <2>5 DEF HeardOk, Catching
    <3>3. BoundOk(i)'
        BY <1>1, <1>8, <2>3, <2>4 DEF BoundOk, Catching
    <3> QED  BY <1>8, <3>1, <3>2, <3>3 DEF Spoken
  <2>7. ASSUME NEW j \in Instance, j # i PROVE HeardOk(j)' /\ BoundOk(j)'
    <3>1. plane'[j] = plane[j] /\ HeardOk(j) /\ BoundOk(j) /\ told'[j] \in {told[j], NoEntry}
        BY <1>4, <1>8, <2>2, <2>7
    <3>2. BoundOk(j)'
        BY <1>1, <3>1 DEF BoundOk, Catching
    <3>3. HeardOk(j)'
      <4>1. CASE told'[j] = NoEntry
          BY <4>1 DEF HeardOk, Heard
      <4>2. CASE told'[j] = told[j]
          BY <1>1, <3>1, <4>2 DEF HeardOk, Heard, Catching
      <4> QED  BY <3>1, <4>1, <4>2
    <3> QED  BY <3>2, <3>3
  <2> QED  BY <1>1, <2>2, <2>6, <2>7 DEF StaysOk, IsProgrammed
<1> QED  BY <1>4, <1>9, <1>10, <1>11 DEF ProgrammedInv

\* A data plane as it starts.
LEMMA UpFacts ==
    ASSUME NEW by \in Int
    PROVE  /\ Down \in Plane0 /\ Down.up = FALSE
           /\ Up(by) \in Plane0 /\ Up(by).up /\ Up(by).ver = 0 /\ Up(by).by = by
<1>1. Down \in Plane0
    BY DEF Down, Plane0, How, Never
<1>2. Down.up = FALSE /\ Down.ver = 0
    BY DEF Down
<1>3. Up(by) = [Down EXCEPT !.up = TRUE, !.by = by]
    BY DEF Up
<1>4. Up(by) \in Plane0
    BY <1>1, <1>3 DEF Plane0
<1>5. Up(by).up = TRUE /\ Up(by).ver = Down.ver /\ Up(by).by = by
    BY <1>1, <1>3 DEF Plane0
<1> QED  BY <1>1, <1>2, <1>4, <1>5

LEMMA LeaveKeeps == ASSUME ProgrammedInv, NEW i \in Instance, Leave(i) PROVE ProgrammedInv'
<1>1. /\ plane[i].up /\ Reports(i, TRUE)
      /\ UNCHANGED <<now, leadingSince, slotHub, wanted, fault, front, recheckAt, condition, lastUp, course>>
    BY DEF Leave, outsideVars
<1>2. PICK k \in Instance : ~plane[k].up /\ k # i /\ plane' = [plane EXCEPT ![i] = Down, ![k] = Up(now + Hold - 1)]
    BY DEF Leave
<1>3. ProgrammedType /\ (\A j \in Instance : UpOk(j)) /\ StaysOk
    BY DEF ProgrammedInv
<1>4. Hold \in Nat /\ Hold > 1 /\ now \in Nat /\ lastUp = now
    BY <1>1, <1>3, HoldAssumption DEF ProgrammedType, UpOk
<1>5. /\ told' \in [Instance -> Entry0] /\ asked' \in BOOLEAN /\ handling' \subseteq Instance /\ lapse' = lapse
      /\ told'[i] = [seen |-> now, ver |-> plane[i].ver, bound |-> plane[i].bound, leaving |-> TRUE]
      /\ \A j \in Instance \ {i} : told'[j] \in {told[j], NoEntry}
      /\ \A j \in Instance : EntryOk(j)' /\ LapseOk(j)'
      /\ HonestOk'
  <2>1. TRUE \in BOOLEAN
      OBVIOUS
  <2> QED  BY <1>1, <2>1, RecordKeeps
<1>6. Down \in Plane0 /\ Up(now + Hold - 1) \in Plane0 /\ ~Down.up
      /\ Up(now + Hold - 1).ver = 0 /\ Up(now + Hold - 1).by = now + Hold - 1 /\ Up(now + Hold - 1).up
  <2>1. now + Hold - 1 \in Int
      BY <1>4
  <2> QED  BY <2>1, UpFacts
<1>7. /\ plane' \in [Instance -> Plane0] /\ plane'[i] = Down /\ plane'[k] = Up(now + Hold - 1)
      /\ \A j \in Instance \ {i, k} : plane'[j] = plane[j]
    BY <1>2, <1>3, <1>6 DEF ProgrammedType
<1>8. ProgrammedType'
    BY <1>1, <1>3, <1>5, <1>7 DEF ProgrammedType
<1>9. ASSUME NEW j \in Instance PROVE UpOk(j)'
  <2>1. CASE j = i
      BY <1>6, <1>7, <2>1 DEF UpOk
  <2>2. CASE j = k
    <3>1. now <= now + Hold - 1 /\ now + Hold - 1 < now + 2 * Hold
        BY <1>4
    <3> QED  BY <1>1, <1>4, <1>6, <1>7, <2>2, <3>1 DEF UpOk
  <2>3. CASE j \notin {i, k}
      BY <1>1, <1>3, <1>7, <2>3 DEF UpOk
  <2> QED  BY <2>1, <2>2, <2>3
<1>10. StaysOk'
  <2>1. SUFFICES ASSUME course \notin {"overtaken", "bad"} PROVE StaysOk'
      BY <1>1 DEF StaysOk
  <2>2. /\ fault = "" /\ (\A j \in Instance : HeardOk(j) /\ BoundOk(j))
        /\ course = "starting" => ~IsProgrammed
        /\ course = "good" => IsProgrammed /\ front # "unassigned"
      BY <1>3, <2>1 DEF StaysOk
  <2>3. HeardOk(i)' /\ BoundOk(i)'
      BY <1>5, <1>6, <1>7 DEF HeardOk, Heard, BoundOk
  <2>4. HeardOk(k)' /\ BoundOk(k)'
    <3>1. ~Heard(k) /\ told'[k] \in {told[k], NoEntry}
        BY <1>2, <1>5, <2>2 DEF HeardOk
    <3>2. ~Heard(k)'
        BY <3>1 DEF Heard
    <3> QED  BY <1>6, <1>7, <3>2 DEF HeardOk, BoundOk
  <2>5. Spoken(k)'
    <3>1. told'[i].leaving /\ told'[i].seen = now
        BY <1>5
    <3>2. now + Hold - 1 < now + Hold
        BY <1>4
    <3> QED  BY <1>6, <1>7, <3>1, <3>2 DEF Spoken
  <2>6. ASSUME NEW j \in Instance, j \notin {i, k} PROVE HeardOk(j)' /\ BoundOk(j)'
    <3>1. plane'[j] = plane[j] /\ HeardOk(j) /\ BoundOk(j) /\ told'[j] \in {told[j], NoEntry}
        BY <1>5, <1>7, <2>2, <2>6
    <3>2. BoundOk(j)'
        BY <1>1, <3>1 DEF BoundOk, Catching
    <3>3. HeardOk(j)'
      <4>1. CASE told'[j] = NoEntry
          BY <4>1 DEF HeardOk, Heard
      <4>2. CASE told'[j] = told[j]
          BY <1>1, <3>1, <4>2 DEF HeardOk, Heard, Catching
      <4> QED  BY <3>1, <4>1, <4>2
    <3> QED  BY <3>2, <3>3
  <2> QED  BY <1>1, <2>2, <2>3, <2>4, <2>5, <2>6 DEF StaysOk, IsProgrammed
<1> QED  BY <1>5, <1>8, <1>9, <1>10 DEF ProgrammedInv

\* A step that leaves reports, planes, the slot and time alone keeps what is
\* about them.
LEMMA QuietFacts ==
    ASSUME ProgrammedInv, UNCHANGED <<now, leadingSince, slotHub, told, plane, lastUp>>
    PROVE  \A i \in Instance :
               /\ UpOk(i)' /\ EntryOk(i)' /\ HeardOk(i)' = HeardOk(i) /\ BoundOk(i)' = BoundOk(i)
               /\ Spoken(i)' = Spoken(i)
<1> TAKE i \in Instance
<1>1. UpOk(i) /\ EntryOk(i)
    BY DEF ProgrammedInv
<1>2. UpOk(i)' /\ EntryOk(i)'
    BY <1>1 DEF UpOk, EntryOk
<1>3. HeardOk(i)' = HeardOk(i) /\ BoundOk(i)' = BoundOk(i) /\ Spoken(i)' = Spoken(i)
    BY Zenon DEF HeardOk, BoundOk, Spoken, Heard, Catching
<1> QED  BY <1>2, <1>3

LEMMA SeenKeeps == ASSUME ProgrammedInv, NEW i \in Instance, Seen(i) PROVE ProgrammedInv'
<1>1. /\ i \in handling /\ handling' = handling \ {i} /\ lapse' = [lapse EXCEPT ![i] = now + LIVENESS]
      /\ UNCHANGED <<now, leadingSince, slotHub, wanted, fault, front, plane, course, lastUp, told, asked, recheckAt, condition>>
    BY DEF Seen, outsideVars, planeVars
<1>2. ProgrammedType /\ (\A j \in Instance : LapseOk(j)) /\ HonestOk /\ StaysOk
    BY DEF ProgrammedInv
<1>3. Hold \in Nat /\ Hold > 1 /\ now \in Nat
    BY <1>2, HoldAssumption DEF ProgrammedType
<1>4. lapse' \in [Instance -> Int] /\ lapse'[i] = now + 2 * Hold /\ \A j \in Instance \ {i} : lapse'[j] = lapse[j]
  <2>1. lapse \in [Instance -> Int] /\ now + LIVENESS \in Int /\ now + LIVENESS = now + 2 * Hold
    <3>1. lapse \in [Instance -> Int]
        BY <1>2 DEF ProgrammedType
    <3>2. now + 2 * Hold \in Int
        BY <1>3
    <3> QED  BY <3>1, <3>2 DEF LIVENESS
  <2> QED  BY <1>1, <2>1
<1>5. ProgrammedType'
    BY <1>1, <1>2, <1>4 DEF ProgrammedType
<1>6. told[i] # NoEntry /\ Near(i)'
  <2>1. told[i] # NoEntry /\ now <= told[i].seen + 1 /\ told[i].seen \in Int /\ told[i].seen <= now
    <3>1. told[i].seen \in Int /\ lastUp <= now /\ lastUp \in Nat
        BY <1>2 DEF ProgrammedType, Entry0
    <3>2. told[i] # NoEntry /\ now <= told[i].seen + 1
        BY <1>1, <1>2 DEF LapseOk
    <3>3. EntryOk(i)
        BY DEF ProgrammedInv
    <3> QED  BY <1>3, <3>1, <3>2, <3>3 DEF EntryOk
  <2>2. told[i].seen + 2 * Hold <= now + 2 * Hold /\ now + 2 * Hold <= told[i].seen + 2 * Hold + 1
      BY <1>3, <2>1
  <2> QED  BY <1>1, <1>4, <2>1, <2>2 DEF Near, LIVENESS
<1>7. \A j \in Instance : LapseOk(j)'
  <2> TAKE j \in Instance
  <2>1. CASE j = i
      BY <1>1, <1>6, <2>1 DEF LapseOk
  <2>2. CASE j # i
      BY <1>1, <1>2, <1>4, <2>2 DEF LapseOk, Near
  <2> QED  BY <2>1, <2>2
<1>8. HonestOk'
  <2>1. \A j \in Instance : Awake(j) => Awake(j)'
    <3> TAKE j \in Instance
    <3>1. CASE j = i
        BY <1>1, <1>6, <3>1 DEF Awake
    <3>2. CASE j # i
        BY <1>1, <1>4, <3>2 DEF Awake, Near
    <3> QED  BY <3>1, <3>2
  <2>2. /\ InTime(now)' = InTime(now) /\ InTime(recheckAt)' = InTime(recheckAt)
        /\ InTime(slotHub.first + Hold)' = InTime(slotHub.first + Hold)
      BY <1>1 DEF InTime
  <2> HIDE DEF InTime, Awake
  <2> QED  BY <1>1, <1>2, <2>1, <2>2 DEF HonestOk, IsProgrammed
<1>9. StaysOk'
  <2>1. \A j \in Instance : HeardOk(j)' = HeardOk(j) /\ BoundOk(j)' = BoundOk(j) /\ Spoken(j)' = Spoken(j)
      BY <1>1, QuietFacts
  <2> QED  BY <1>1, <1>2, <2>1 DEF StaysOk, IsProgrammed
<1>10. \A j \in Instance : UpOk(j)' /\ EntryOk(j)'
    BY <1>1, QuietFacts
<1> QED  BY <1>5, <1>7, <1>8, <1>9, <1>10 DEF ProgrammedInv

LEMMA LapseKeeps == ASSUME ProgrammedInv, NEW i \in Instance, Lapse(i) PROVE ProgrammedInv'
<1>1. /\ lapse[i] <= now /\ lapse' = [lapse EXCEPT ![i] = Never] /\ asked' = TRUE
      /\ UNCHANGED <<now, leadingSince, slotHub, wanted, fault, front, plane, course, lastUp, told, handling, recheckAt, condition>>
    BY DEF Lapse, outsideVars, planeVars
<1>2. ProgrammedType /\ (\A j \in Instance : LapseOk(j)) /\ HonestOk /\ StaysOk
    BY DEF ProgrammedInv
<1>3. Hold \in Nat /\ Hold > 1 /\ now \in Nat /\ lapse[i] \in Int /\ told[i].seen \in Int
    BY <1>2, HoldAssumption DEF ProgrammedType, Entry0
<1>4. lapse' \in [Instance -> Int] /\ \A j \in Instance \ {i} : lapse'[j] = lapse[j]
  <2>1. lapse \in [Instance -> Int] /\ Never \in Int
    <3>1. lapse \in [Instance -> Int]
        BY <1>2 DEF ProgrammedType
    <3> QED  BY <3>1 DEF Never
  <2> QED  BY <1>1, <2>1
<1>5. ProgrammedType'
    BY <1>1, <1>2, <1>4 DEF ProgrammedType
<1>6. \A j \in Instance : LapseOk(j)'
  <2> TAKE j \in Instance
  <2>1. CASE j = i
    <3>1. Near(i) => now >= told[i].seen + LIVENESS
        BY <1>1, <1>3 DEF Near, LIVENESS
    <3>2. LapseOk(i)
        BY <1>2
    <3> QED  BY <1>1, <2>1, <3>1, <3>2 DEF LapseOk
  <2>2. CASE j # i
      BY <1>1, <1>2, <1>4, <2>2 DEF LapseOk, Near
  <2> QED  BY <2>1, <2>2
<1>7. HonestOk'
  <2>1. InTime(now)' = InTime(now) /\ InTime(slotHub.first + Hold)' = InTime(slotHub.first + Hold)
      BY <1>1 DEF InTime
  <2> HIDE DEF InTime, Awake
  <2> QED  BY <1>1, <1>2, <2>1 DEF HonestOk, IsProgrammed
<1>8. StaysOk'
  <2>1. \A j \in Instance : HeardOk(j)' = HeardOk(j) /\ BoundOk(j)' = BoundOk(j) /\ Spoken(j)' = Spoken(j)
      BY <1>1, QuietFacts
  <2> QED  BY <1>1, <1>2, <2>1 DEF StaysOk, IsProgrammed
<1>9. \A j \in Instance : UpOk(j)' /\ EntryOk(j)'
    BY <1>1, QuietFacts
<1> QED  BY <1>5, <1>6, <1>7, <1>8, <1>9 DEF ProgrammedInv

\* Edits, faults and the load balancer: a pass is asked for.
LEMMA OutsideKeeps == ProgrammedInv /\ (NewConfig \/ FaultChanges \/ FrontChanges) => ProgrammedInv'
<1> SUFFICES ASSUME ProgrammedInv, NewConfig \/ FaultChanges \/ FrontChanges PROVE ProgrammedInv'
    OBVIOUS
<1>1. /\ asked' = TRUE /\ course' \in {course, "bad"} /\ (course' \notin {"overtaken", "bad"} => fault' = fault /\ front' = front)
      /\ UNCHANGED <<now, leadingSince, slotHub, plane, lastUp, told, lapse, handling, recheckAt, condition>>
    BY DEF NewConfig, FaultChanges, FrontChanges, serverVars, storeVars, planeVars
<1>2. ProgrammedType /\ (\A j \in Instance : LapseOk(j)) /\ HonestOk /\ StaysOk
    BY DEF ProgrammedInv
<1>3. wanted' \in Nat \ {0} /\ fault' \in {"", "rejected", "problem"} /\ front' \in {"none", "assigned", "unassigned"}
  <2>1. wanted \in Nat \ {0} /\ fault \in {"", "rejected", "problem"} /\ front \in {"none", "assigned", "unassigned"}
      BY <1>2 DEF ProgrammedType
  <2>2. wanted' \in {wanted, wanted + 1}
      BY DEF NewConfig, FaultChanges, FrontChanges
  <2>3. fault' = fault \/ fault' \in {"", "rejected", "problem"}
      BY DEF NewConfig, FaultChanges, FrontChanges
  <2>4. front' = front \/ front' \in {"none", "assigned", "unassigned"}
      BY DEF NewConfig, FaultChanges, FrontChanges
  <2>5. wanted' \in Nat \ {0}
    <3>1. CASE wanted' = wanted
        BY <2>1, <3>1
    <3>2. CASE wanted' = wanted + 1
      <4>1. wanted + 1 \in Nat \ {0}
        <5>1. wanted \in Nat
            BY <2>1
        <5> QED  BY <5>1
      <4> QED  BY <3>2, <4>1, Zenon
    <3> QED  BY <2>2, <3>1, <3>2
  <2> QED  BY <2>1, <2>3, <2>4, <2>5
<1>4. ProgrammedType'
    BY <1>1, <1>2, <1>3 DEF ProgrammedType
<1>5. \A j \in Instance : LapseOk(j)'
    BY <1>1, <1>2 DEF LapseOk, Near
<1>6. HonestOk'
  <2>1. InTime(now)' = InTime(now) /\ InTime(slotHub.first + Hold)' = InTime(slotHub.first + Hold)
      BY <1>1 DEF InTime
  <2> HIDE DEF InTime, Awake
  <2> QED  BY <1>1, <1>2, <2>1 DEF HonestOk, IsProgrammed
<1>7. StaysOk'
  <2>1. \A j \in Instance : HeardOk(j)' = HeardOk(j) /\ BoundOk(j)' = BoundOk(j) /\ Spoken(j)' = Spoken(j)
      BY <1>1, QuietFacts
  <2> QED  BY <1>1, <1>2, <2>1 DEF StaysOk, IsProgrammed
<1>8. \A j \in Instance : UpOk(j)' /\ EntryOk(j)'
    BY <1>1, QuietFacts
<1> QED  BY <1>4, <1>5, <1>6, <1>7, <1>8 DEF ProgrammedInv

\* A data plane's own steps: only what it runs changes.
LEMMA PlaneFacts ==
    ASSUME ProgrammedInv, UNCHANGED <<now, leadingSince, slotHub, told, lapse, handling, asked, recheckAt, condition>>,
           lastUp' \in {lastUp, now}
    PROVE  HonestOk' /\ \A j \in Instance : EntryOk(j)' /\ LapseOk(j)'
<1>1. ProgrammedType /\ (\A j \in Instance : EntryOk(j) /\ LapseOk(j)) /\ HonestOk
    BY DEF ProgrammedInv
<1>2. PICK u \in Nat : lastUp <= u /\ u = lastUp'
  <2>1. lastUp \in Nat /\ now \in Nat /\ lastUp <= now
      BY <1>1 DEF ProgrammedType
  <2>2. CASE lastUp' = now
      BY <2>1, <2>2
  <2>3. CASE lastUp' = lastUp
      BY <2>1, <2>3
  <2> QED  BY <2>2, <2>3
<1>3. lastUp <= u
    BY <1>2
<1>4. Hold \in Nat /\ now \in Nat /\ lastUp \in Nat /\ leadingSince \in Nat /\ recheckAt \in Int /\ slotHub.first \in Int
    BY <1>1, HoldAssumption DEF ProgrammedType, Slot0
<1>5. ASSUME NEW t \in Int, InTime(t) PROVE t < lastUp' + 3 * Hold \/ t <= leadingSince + 2 * Hold
  <2>1. t < lastUp + 3 * Hold \/ t <= leadingSince + 2 * Hold
      BY <1>5 DEF InTime
  <2>2. t < u + 3 * Hold \/ t <= leadingSince + 2 * Hold
      BY <1>3, <1>4, <2>1
  <2> QED  BY <1>2, <2>2
<1>6. (InTime(now) => InTime(now)') /\ (InTime(recheckAt) => InTime(recheckAt)')
      /\ (InTime(slotHub.first + Hold) => InTime(slotHub.first + Hold)')
  <2>1. slotHub.first + Hold \in Int
      BY <1>4
  <2>2. InTime(now) => InTime(now)'
    <3>1. now \in Int
        BY <1>4
    <3> QED  BY <1>5, <3>1 DEF InTime
  <2>3. InTime(recheckAt) => InTime(recheckAt)'
      BY <1>4, <1>5 DEF InTime
  <2>4. InTime(slotHub.first + Hold) => InTime(slotHub.first + Hold)'
      BY <1>5, <2>1 DEF InTime
  <2> QED  BY <2>2, <2>3, <2>4
<1>7. HonestOk'
  <2>1. \A j \in Instance : Awake(j)' = Awake(j)
      BY DEF Awake, Near
  <2> HIDE DEF InTime, Awake
  <2> QED  BY <1>1, <1>6, <2>1 DEF HonestOk, IsProgrammed
<1>8. ASSUME NEW j \in Instance PROVE EntryOk(j)'
  <2>1. told[j].seen \in Int /\ EntryOk(j)
      BY <1>1 DEF ProgrammedType, Entry0
  <2>2. told[j] # NoEntry => told[j].seen <= u
      BY <1>3, <1>4, <2>1 DEF EntryOk
  <2> QED  BY <1>2, <2>1, <2>2 DEF EntryOk
<1>9. \A j \in Instance : LapseOk(j)'
    BY <1>1 DEF LapseOk, Near
<1> QED  BY <1>7, <1>8, <1>9

LEMMA ApplyKeeps == ASSUME ProgrammedInv, NEW i \in Instance, Apply(i) PROVE ProgrammedInv'
<1>1. /\ plane[i].up /\ slotHub.ver # 0
      /\ UNCHANGED <<now, leadingSince, slotHub, told, lapse, handling, wanted, fault, front, asked, recheckAt, condition, lastUp>>
    BY DEF Apply, serverVars, storeVars, outsideVars
<1>2. PICK how \in {"bound", "error", "nowhere", "refused"} :
          /\ course' = IF how = "bound" THEN course ELSE "bad"
          /\ plane' = [plane EXCEPT ![i].ver = slotHub.ver, ![i].bound = how]
    BY DEF Apply
<1>3. ProgrammedType /\ (\A j \in Instance : UpOk(j)) /\ StaysOk
    BY DEF ProgrammedInv
<1>4. HonestOk' /\ \A j \in Instance : EntryOk(j)' /\ LapseOk(j)'
    BY <1>1, PlaneFacts
<1>5. /\ plane' \in [Instance -> Plane0] /\ plane'[i].up = plane[i].up /\ plane'[i].by = plane[i].by
      /\ plane'[i].ver = slotHub.ver /\ plane'[i].bound = how
      /\ \A j \in Instance \ {i} : plane'[j] = plane[j]
  <2> DEFINE p == [[plane[i] EXCEPT !.ver = slotHub.ver] EXCEPT !.bound = how]
  <2>1. plane[i] \in Plane0 /\ slotHub.ver \in Nat /\ how \in How /\ plane \in [Instance -> Plane0]
      BY <1>3 DEF ProgrammedType, Slot0, How
  <2>2. /\ p \in Plane0 /\ p.up = plane[i].up /\ p.by = plane[i].by /\ p.ver = slotHub.ver /\ p.bound = how
      BY <2>1 DEF Plane0
  <2>3. plane' = [plane EXCEPT ![i] = p]
      BY <1>2, <2>1
  <2> HIDE DEF p
  <2>4. plane'[i] = p /\ plane' \in [Instance -> Plane0] /\ \A j \in Instance \ {i} : plane'[j] = plane[j]
      BY <2>1, <2>2, <2>3
  <2> QED  BY <2>2, <2>4
<1>6. ProgrammedType'
  <2>1. course' \in {"starting", "good", "overtaken", "bad"}
      BY <1>2, <1>3 DEF ProgrammedType
  <2> QED  BY <1>1, <1>3, <1>5, <2>1 DEF ProgrammedType
<1>7. \A j \in Instance : UpOk(j)'
  <2> TAKE j \in Instance
  <2>1. plane'[j].up = plane[j].up /\ plane'[j].by = plane[j].by
      BY <1>5
  <2> QED  BY <1>1, <1>3, <2>1 DEF UpOk
<1>8. StaysOk'
  <2>1. SUFFICES ASSUME course' \notin {"overtaken", "bad"} PROVE StaysOk'
      BY DEF StaysOk
  <2>2. course' = course /\ how = "bound" /\ course \notin {"overtaken", "bad"}
      BY <1>2, <2>1
  <2>3. \A j \in Instance : plane'[j].up = plane[j].up /\ plane'[j].by = plane[j].by
      BY <1>5
  <2>4. \A j \in Instance : HeardOk(j)' = HeardOk(j) /\ Spoken(j)' = Spoken(j)
    <3> TAKE j \in Instance
    <3>1. plane'[j].up = plane[j].up /\ plane'[j].by = plane[j].by
        BY <2>3
    <3> QED  BY <1>1, <3>1, Zenon DEF HeardOk, Spoken, Heard, Catching
  <2>5. \A j \in Instance : BoundOk(j)'
    <3> TAKE j \in Instance
    <3>1. CASE j = i
        BY <1>1, <1>5, <2>2, <3>1 DEF BoundOk, Catching
    <3>2. CASE j # i
      <4>1. plane'[j] = plane[j] /\ BoundOk(j)
          BY <1>3, <1>5, <2>2, <3>2 DEF StaysOk
      <4> QED  BY <1>1, <4>1 DEF BoundOk, Catching
    <3> QED  BY <3>1, <3>2
  <2> QED  BY <1>1, <1>3, <2>2, <2>4, <2>5 DEF StaysOk, IsProgrammed
<1> QED  BY <1>4, <1>6, <1>7, <1>8 DEF ProgrammedInv

LEMMA RebindKeeps == ASSUME ProgrammedInv, NEW i \in Instance, Rebind(i) PROVE ProgrammedInv'
<1>1. /\ plane[i].up /\ plane[i].bound \in {"error", "nowhere"}
      /\ plane' = [plane EXCEPT ![i].bound = "bound", ![i].by = now]
      /\ UNCHANGED <<now, leadingSince, slotHub, told, lapse, handling, wanted, fault, front, asked, recheckAt, condition, lastUp, course>>
    BY DEF Rebind, serverVars, storeVars, outsideVars
<1>2. ProgrammedType /\ (\A j \in Instance : UpOk(j)) /\ StaysOk
    BY DEF ProgrammedInv
<1>3. HonestOk' /\ \A j \in Instance : EntryOk(j)' /\ LapseOk(j)'
    BY <1>1, PlaneFacts
<1>n. now \in Nat /\ Hold \in Nat /\ Hold > 1 /\ leadingSince \in Nat /\ slotHub.at \in Int
    BY <1>2, HoldAssumption DEF ProgrammedType, Slot0
<1>4. /\ plane' \in [Instance -> Plane0] /\ plane'[i].up = plane[i].up /\ plane'[i].ver = plane[i].ver
      /\ plane'[i].by = now /\ plane'[i].bound = "bound"
      /\ \A j \in Instance \ {i} : plane'[j] = plane[j]
  <2> DEFINE p == [[plane[i] EXCEPT !.bound = "bound"] EXCEPT !.by = now]
  <2>1. plane[i] \in Plane0 /\ plane \in [Instance -> Plane0]
      BY <1>2 DEF ProgrammedType
  <2>2. /\ p \in Plane0 /\ p.up = plane[i].up /\ p.ver = plane[i].ver /\ p.by = now /\ p.bound = "bound"
    <3>1. "bound" \in How /\ now \in Int
        BY <1>n DEF How
    <3> QED  BY <2>1, <3>1 DEF Plane0
  <2>3. plane' = [plane EXCEPT ![i] = p]
      BY <1>1, <2>1
  <2> HIDE DEF p
  <2>4. plane'[i] = p /\ plane' \in [Instance -> Plane0] /\ \A j \in Instance \ {i} : plane'[j] = plane[j]
      BY <2>1, <2>2, <2>3
  <2> QED  BY <2>2, <2>4
<1>5. ProgrammedType'
    BY <1>1, <1>2, <1>4 DEF ProgrammedType
<1>6. \A j \in Instance : UpOk(j)'
  <2> TAKE j \in Instance
  <2>1. CASE j = i
    <3>1. lastUp = now
        BY <1>1, <1>2 DEF UpOk
    <3>2. now < now + 2 * Hold
        BY <1>n
    <3>3. now <= now
        BY <1>n
    <3> QED  BY <1>1, <1>4, <2>1, <3>1, <3>2, <3>3 DEF UpOk
  <2>2. CASE j # i
      BY <1>1, <1>2, <1>4, <2>2 DEF UpOk
  <2> QED  BY <2>1, <2>2
<1>7. StaysOk'
  <2>1. SUFFICES ASSUME course \notin {"overtaken", "bad"} PROVE StaysOk'
      BY <1>1 DEF StaysOk
  <2>2. plane[i].ver = 0 /\ \A j \in Instance : HeardOk(j) /\ BoundOk(j)
    <3>1. \A j \in Instance : HeardOk(j) /\ BoundOk(j)
        BY <1>2, <2>1 DEF StaysOk
    <3> QED  BY <1>1, <3>1 DEF BoundOk
  <2>3. plane[i].by \in Int /\ now <= plane[i].by
      BY <1>1, <1>2 DEF ProgrammedType, Plane0, UpOk
  <2>4. \A x \in Int : plane[i].by < x => now < x
      BY <1>n, <2>3
  <2>5. \A j \in Instance : HeardOk(j)' /\ BoundOk(j)'
    <3> TAKE j \in Instance
    <3>1. CASE j = i
      <4>1. BoundOk(i)'
          BY <1>4, <2>2 DEF BoundOk
      <4>2. HeardOk(i)'
        <5>1. SUFFICES ASSUME Heard(i) PROVE HeardOk(i)'
            BY <1>1 DEF HeardOk, Heard
        <5>2. plane[i].up /\ told[i].bound = "bound" /\ plane[i].by < told[i].seen + 2 * Hold /\ Catching(i, told[i].ver)
            BY <2>2, <5>1 DEF HeardOk
        <5>3. told[i].seen + 2 * Hold \in Int
          <6>1. told[i].seen \in Int
              BY <1>2 DEF ProgrammedType, Entry0
          <6> QED  BY <1>n, <6>1
        <5>4. slotHub.at + Hold \in Int
            BY <1>n
        <5>5. now < told[i].seen + 2 * Hold
            BY <2>4, <5>2, <5>3
        <5>6. slotHub.ver # 0 => told[i].ver = slotHub.ver \/ now < slotHub.at + Hold
            BY <2>4, <5>2, <5>4 DEF Catching
        <5> QED  BY <1>1, <1>4, <5>2, <5>5, <5>6 DEF HeardOk, Catching
      <4> QED  BY <3>1, <4>1, <4>2
    <3>2. CASE j # i
      <4>1. plane'[j] = plane[j]
          BY <1>4, <3>2
      <4> QED  BY <1>1, <2>2, <4>1 DEF HeardOk, BoundOk, Heard, Catching
    <3> QED  BY <3>1, <3>2
  <2>6. \E j \in Instance : Spoken(j)'
    <3>1. PICK j \in Instance : Spoken(j)
        BY <1>2, <2>1 DEF StaysOk
    <3>2. CASE j # i
      <4>1. plane'[j] = plane[j]
          BY <1>4, <3>2
      <4>2. Spoken(j)' = Spoken(j)
          BY <1>1, <4>1, Zenon DEF Spoken, Heard
      <4> QED  BY <3>1, <4>2
    <3>3. CASE j = i
      <4>1. CASE Heard(i)
          BY <1>1, <1>4, <4>1 DEF Spoken, Heard
      <4>2. CASE plane[i].by < leadingSince + 2 * Hold
        <5>1. leadingSince + 2 * Hold \in Int
            BY <1>n
        <5>2. now < leadingSince + 2 * Hold
            BY <2>4, <4>2, <5>1
        <5> QED  BY <1>1, <1>4, <5>2 DEF Spoken
      <4>3. CASE \E k \in Instance : told[k].leaving /\ plane[i].by < told[k].seen + Hold
        <5>1. PICK k \in Instance : told[k].leaving /\ plane[i].by < told[k].seen + Hold
            BY <4>3
        <5>2. told[k].seen \in Int
            BY <1>2 DEF ProgrammedType, Entry0
        <5>3. told[k].seen + Hold \in Int
            BY <1>n, <5>2
        <5>4. now < told[k].seen + Hold
            BY <2>4, <5>1, <5>3
        <5> QED  BY <1>1, <1>4, <5>1, <5>4 DEF Spoken
      <4> QED  BY <3>1, <3>3, <4>1, <4>2, <4>3 DEF Spoken
    <3> QED  BY <3>2, <3>3
  <2> QED  BY <1>1, <1>2, <2>1, <2>5, <2>6 DEF StaysOk, IsProgrammed
<1> QED  BY <1>3, <1>5, <1>6, <1>7 DEF ProgrammedInv

LEMMA CrashKeeps == ASSUME ProgrammedInv, NEW i \in Instance, Crash(i) PROVE ProgrammedInv'
<1>1. /\ plane' = [plane EXCEPT ![i] = Down] /\ course' = "bad"
      /\ UNCHANGED <<now, leadingSince, slotHub, told, lapse, handling, wanted, fault, front, asked, recheckAt, condition, lastUp>>
    BY DEF Crash, serverVars, storeVars, outsideVars
<1>2. ProgrammedType /\ (\A j \in Instance : UpOk(j))
    BY DEF ProgrammedInv
<1>3. HonestOk' /\ \A j \in Instance : EntryOk(j)' /\ LapseOk(j)'
    BY <1>1, PlaneFacts
<1>4. Down \in Plane0 /\ Down.up = FALSE
  <2>1. 0 \in Int
      OBVIOUS
  <2> QED  BY <2>1, UpFacts
<1>5. plane' \in [Instance -> Plane0] /\ plane'[i] = Down /\ \A j \in Instance \ {i} : plane'[j] = plane[j]
    BY <1>1, <1>2, <1>4 DEF ProgrammedType
<1>6. ProgrammedType'
    BY <1>1, <1>2, <1>5 DEF ProgrammedType
<1>7. \A j \in Instance : UpOk(j)'
  <2> TAKE j \in Instance
  <2>1. CASE j = i
      BY <1>4, <1>5, <2>1 DEF UpOk
  <2>2. CASE j # i
      BY <1>1, <1>2, <1>5, <2>2 DEF UpOk
  <2> QED  BY <2>1, <2>2
<1>8. StaysOk'
    BY <1>1 DEF StaysOk
<1> QED  BY <1>3, <1>6, <1>7, <1>8 DEF ProgrammedInv

LEMMA StartKeeps == ASSUME ProgrammedInv, NEW i \in Instance, Start(i) PROVE ProgrammedInv'
<1>1. /\ ~plane[i].up /\ plane' = [plane EXCEPT ![i] = Up(now + Hold - 1)] /\ lastUp' = now
      /\ UNCHANGED <<now, leadingSince, slotHub, told, lapse, handling, wanted, fault, front, asked, recheckAt, condition, course>>
    BY DEF Start, serverVars, storeVars, outsideVars
<1>2. ProgrammedType /\ (\A j \in Instance : UpOk(j)) /\ StaysOk
    BY DEF ProgrammedInv
<1>3. HonestOk' /\ \A j \in Instance : EntryOk(j)' /\ LapseOk(j)'
    BY <1>1, PlaneFacts
<1>n. now \in Nat /\ Hold \in Nat /\ Hold > 1
    BY <1>2, HoldAssumption DEF ProgrammedType
<1>4. Up(now + Hold - 1) \in Plane0 /\ Up(now + Hold - 1).ver = 0 /\ Up(now + Hold - 1).by = now + Hold - 1
  <2>1. now + Hold - 1 \in Int
      BY <1>n
  <2> QED  BY <2>1, UpFacts
<1>5. plane' \in [Instance -> Plane0] /\ plane'[i] = Up(now + Hold - 1) /\ \A j \in Instance \ {i} : plane'[j] = plane[j]
    BY <1>1, <1>2, <1>4 DEF ProgrammedType
<1>6. ProgrammedType'
  <2>1. now <= now
      BY <1>n
  <2> QED  BY <1>1, <1>2, <1>5, <2>1 DEF ProgrammedType
<1>7. \A j \in Instance : UpOk(j)'
  <2> TAKE j \in Instance
  <2>1. CASE j = i
    <3>1. now <= now + Hold - 1 /\ now + Hold - 1 < now + 2 * Hold
        BY <1>n
    <3> QED  BY <1>1, <1>4, <1>5, <2>1, <3>1 DEF UpOk
  <2>2. CASE j # i
      BY <1>1, <1>2, <1>5, <2>2 DEF UpOk
  <2> QED  BY <2>1, <2>2
<1>8. StaysOk'
  <2>1. SUFFICES ASSUME course \notin {"overtaken", "bad"} PROVE StaysOk'
      BY <1>1 DEF StaysOk
  <2>2. \A j \in Instance : HeardOk(j) /\ BoundOk(j)
      BY <1>2, <2>1 DEF StaysOk
  <2>3. \A j \in Instance : HeardOk(j)' /\ BoundOk(j)'
    <3> TAKE j \in Instance
    <3>1. CASE j = i
      <4>1. ~Heard(i)
          BY <1>1, <2>2 DEF HeardOk
      <4> QED  BY <1>1, <1>4, <1>5, <3>1, <4>1 DEF HeardOk, BoundOk, Heard
    <3>2. CASE j # i
      <4>1. plane'[j] = plane[j]
          BY <1>5, <3>2
      <4> QED  BY <1>1, <2>2, <4>1 DEF HeardOk, BoundOk, Heard, Catching
    <3> QED  BY <3>1, <3>2
  <2>4. \E j \in Instance : Spoken(j)'
    <3>1. PICK j \in Instance : Spoken(j)
        BY <1>2, <2>1 DEF StaysOk
    <3>2. plane'[j] = plane[j]
        BY <1>1, <1>5, <3>1 DEF Spoken
    <3>3. Spoken(j)' = Spoken(j)
        BY <1>1, <3>2, Zenon DEF Spoken, Heard
    <3> QED  BY <3>1, <3>3
  <2> QED  BY <1>1, <1>2, <2>1, <2>3, <2>4 DEF StaysOk, IsProgrammed
<1> QED  BY <1>3, <1>6, <1>7, <1>8 DEF ProgrammedInv

LEMMA TakeoverKeeps == ProgrammedInv /\ Takeover => ProgrammedInv'
<1> SUFFICES ASSUME ProgrammedInv, Takeover PROVE ProgrammedInv'
    OBVIOUS
<1>1. /\ leadingSince' = now /\ slotHub' = NoVersion /\ told' = [i \in Instance |-> NoEntry]
      /\ lapse' = [i \in Instance |-> Never] /\ handling' = {} /\ asked' = TRUE /\ recheckAt' = Never
      /\ plane' = [i \in Instance |-> IF plane[i].up THEN [plane[i] EXCEPT !.by = now + 2 * Hold - 1] ELSE plane[i]]
      /\ UNCHANGED <<now, wanted, fault, front, condition, course, lastUp>>
    BY DEF Takeover, outsideVars
<1>2. ProgrammedType /\ (\A j \in Instance : UpOk(j)) /\ HonestOk /\ StaysOk
    BY DEF ProgrammedInv
<1>n. now \in Nat /\ Hold \in Nat /\ Hold > 1
    BY <1>2, HoldAssumption DEF ProgrammedType
<1>3. NoEntry \in Entry0 /\ Never \in Int /\ ~NoEntry.leaving
    BY DEF NoEntry, Entry0, Never, How
<1>4. NoVersion \in Slot0 /\ NoVersion.ver = 0
    BY DEF NoVersion, Slot0, Never
<1>5. ASSUME NEW i \in Instance
      PROVE  /\ plane'[i] \in Plane0 /\ plane'[i].up = plane[i].up /\ plane'[i].ver = plane[i].ver /\ plane'[i].bound = plane[i].bound
             /\ plane[i].up => plane'[i].by = now + 2 * Hold - 1
  <2>1. plane[i] \in Plane0 /\ now + 2 * Hold - 1 \in Int
    <3>1. plane[i] \in Plane0
        BY <1>2 DEF ProgrammedType
    <3> QED  BY <1>n, <3>1
  <2>2. CASE plane[i].up
    <3>1. plane'[i] = [plane[i] EXCEPT !.by = now + 2 * Hold - 1]
        BY <1>1, <2>2
    <3> QED  BY <2>1, <3>1 DEF Plane0
  <2>3. CASE ~plane[i].up
      BY <1>1, <2>1, <2>3
  <2> QED  BY <2>2, <2>3
<1>6. ProgrammedType'
  <2>1. plane' \in [Instance -> Plane0]
    <3>1. \A i \in Instance : plane'[i] \in Plane0
        BY <1>5
    <3>2. plane' = [i \in Instance |-> plane'[i]]
        BY <1>1
    <3> QED  BY <3>1, <3>2
  <2>2. told' \in [Instance -> Entry0] /\ lapse' \in [Instance -> Int] /\ recheckAt' \in Int
      BY <1>1, <1>3
  <2>3. now <= now
      BY <1>n
  <2> QED  BY <1>1, <1>2, <1>4, <1>n, <2>1, <2>2, <2>3 DEF ProgrammedType
<1>7. ASSUME NEW i \in Instance PROVE UpOk(i)' /\ EntryOk(i)' /\ LapseOk(i)' /\ told'[i] = NoEntry
  <2>1. told'[i] = NoEntry
      BY <1>1
  <2>2. now <= now + 2 * Hold - 1 /\ now + 2 * Hold - 1 < now + 2 * Hold
      BY <1>n
  <2>3. UpOk(i)'
      BY <1>1, <1>2, <1>5, <2>2 DEF UpOk
  <2> QED  BY <1>1, <2>1, <2>3 DEF EntryOk, LapseOk
<1>8. HonestOk'
  <2>1. InTime(now)'
    <3>1. now <= now + 2 * Hold
        BY <1>n
    <3> QED  BY <1>1, <3>1 DEF InTime
  <2> HIDE DEF InTime
  <2> QED  BY <1>1, <1>2, <1>4, <2>1 DEF HonestOk, IsProgrammed
<1>9. StaysOk'
  <2>1. SUFFICES ASSUME course \notin {"overtaken", "bad"} PROVE StaysOk'
      BY <1>1 DEF StaysOk
  <2>2. (\A i \in Instance : BoundOk(i)) /\ (\E i \in Instance : Spoken(i))
      BY <1>2, <2>1 DEF StaysOk
  <2>3. \A i \in Instance : HeardOk(i)' /\ BoundOk(i)'
    <3> TAKE i \in Instance
    <3>1. HeardOk(i)'
        BY <1>7 DEF HeardOk, Heard
    <3>2. BoundOk(i)'
        BY <1>1, <1>4, <1>5, <2>2 DEF BoundOk, Catching
    <3> QED  BY <3>1, <3>2
  <2>4. \E i \in Instance : Spoken(i)'
    <3>1. PICK i \in Instance : plane[i].up
        BY <2>2 DEF Spoken
    <3>2. now + 2 * Hold - 1 < now + 2 * Hold
        BY <1>n
    <3> QED  BY <1>1, <1>5, <3>1, <3>2 DEF Spoken
  <2> QED  BY <1>1, <1>2, <2>1, <2>3, <2>4 DEF StaysOk, IsProgrammed
<1> QED  BY <1>6, <1>7, <1>8, <1>9 DEF ProgrammedInv

LEMMA InitProgrammed == ProgrammedInit => ProgrammedInv
<1> SUFFICES ASSUME ProgrammedInit PROVE ProgrammedInv
    OBVIOUS
<1>1. /\ now = 0 /\ leadingSince = 0 /\ slotHub = NoVersion /\ wanted = 1 /\ fault = ""
      /\ plane = [i \in Instance |-> IF i = First THEN Up(Hold - 1) ELSE Down]
      /\ told = [i \in Instance |-> NoEntry] /\ lapse = [i \in Instance |-> Never] /\ handling = {}
      /\ asked = TRUE /\ recheckAt = Never /\ course = "starting" /\ lastUp = 0
      /\ condition = [written |-> FALSE, why |-> "", listener |-> FALSE, addresses |-> FALSE, until |-> Never]
    BY DEF ProgrammedInit
<1>n. Hold \in Nat /\ Hold > 1 /\ Hold - 1 \in Int
    BY HoldAssumption
<1>2. First \in Instance
    BY InstanceAssumption, Zenon DEF First
<1>3. front \in {"none", "assigned", "unassigned"}
    BY ServiceAssumption DEF ProgrammedInit
<1>4. NoEntry \in Entry0 /\ Never \in Int /\ ~NoEntry.leaving
    BY DEF NoEntry, Entry0, Never, How
<1>5. NoVersion \in Slot0 /\ NoVersion.ver = 0
    BY DEF NoVersion, Slot0, Never
<1>6. /\ Down \in Plane0 /\ Down.up = FALSE
      /\ Up(Hold - 1) \in Plane0 /\ Up(Hold - 1).up /\ Up(Hold - 1).ver = 0 /\ Up(Hold - 1).by = Hold - 1
    BY <1>n, UpFacts
<1>7. condition \in Condition0 /\ condition.why = ""
    BY <1>1, <1>4 DEF Condition0, Why
<1>8. ProgrammedType
  <2>1. plane \in [Instance -> Plane0] /\ told \in [Instance -> Entry0] /\ lapse \in [Instance -> Int]
      BY <1>1, <1>4, <1>6
  <2>2. now \in Nat /\ lastUp \in Nat /\ leadingSince \in Nat /\ lastUp <= now /\ leadingSince <= now
        /\ wanted \in Nat \ {0}
    <3>1. now = 0 /\ lastUp = 0 /\ leadingSince = 0 /\ wanted = 1
        BY <1>1
    <3> QED  BY <3>1
  <2>3. fault \in {"", "rejected", "problem"} /\ course \in {"starting", "good", "overtaken", "bad"} /\ handling \subseteq Instance
        /\ asked \in BOOLEAN /\ recheckAt \in Int
      BY <1>1, <1>4
  <2>4. slotHub \in Slot0 /\ slotHub.ver = 0
      BY <1>1, <1>5
  <2> QED  BY <1>3, <1>7, <2>1, <2>2, <2>3, <2>4 DEF ProgrammedType
<1>9. ASSUME NEW i \in Instance PROVE UpOk(i) /\ EntryOk(i) /\ LapseOk(i) /\ HeardOk(i) /\ BoundOk(i)
  <2>1. told[i] = NoEntry /\ plane[i] \in {Up(Hold - 1), Down}
      BY <1>1
  <2>2. UpOk(i)
    <3>1. 0 <= Hold - 1 /\ Hold - 1 < 0 + 2 * Hold
        BY <1>n
    <3> QED  BY <1>1, <1>6, <2>1, <3>1 DEF UpOk
  <2>3. BoundOk(i)
      BY <1>6, <2>1 DEF BoundOk
  <2> QED  BY <1>1, <2>1, <2>2, <2>3 DEF EntryOk, LapseOk, HeardOk, Heard
<1>10. Spoken(First)
  <2>1. Hold - 1 < 0 + 2 * Hold
      BY <1>n
  <2> QED  BY <1>1, <1>2, <1>6, <2>1 DEF Spoken
<1>11. HonestOk /\ ~IsProgrammed
    BY <1>7 DEF HonestOk, IsProgrammed
<1>12. StaysOk
    BY <1>1, <1>2, <1>9, <1>10, <1>11 DEF StaysOk
<1> QED  BY <1>8, <1>9, <1>11, <1>12 DEF ProgrammedInv

LEMMA NextProgrammed == ProgrammedInv /\ [ProgrammedNext]_programmedVars => ProgrammedInv'
<1> SUFFICES ASSUME ProgrammedInv, [ProgrammedNext]_programmedVars PROVE ProgrammedInv'
    OBVIOUS
<1>1. CASE ConditionPass
    BY <1>1, PassKeeps
<1>2. CASE Takeover
    BY <1>2, TakeoverKeeps
<1>3. CASE NewConfig \/ FaultChanges \/ FrontChanges
    BY <1>3, OutsideKeeps
<1>4. CASE Tick
    BY <1>4, TickKeeps
<1>5. ASSUME NEW i \in Instance, Report(i) \/ Leave(i) \/ Seen(i) \/ Lapse(i) PROVE ProgrammedInv'
    BY <1>5, ReportKeeps, LeaveKeeps, SeenKeeps, LapseKeeps
<1>6. ASSUME NEW i \in Instance, Apply(i) \/ Rebind(i) \/ Crash(i) \/ Start(i) PROVE ProgrammedInv'
    BY <1>6, ApplyKeeps, RebindKeeps, CrashKeeps, StartKeeps
<1>7. CASE UNCHANGED programmedVars
  <2>1. /\ UNCHANGED <<now, leadingSince, slotHub, told, plane, lastUp>>
        /\ UNCHANGED <<wanted, fault, front, lapse, handling, asked, recheckAt, condition, course>>
      BY <1>7 DEF programmedVars
  <2>2. ProgrammedType /\ (\A j \in Instance : LapseOk(j)) /\ StaysOk
      BY DEF ProgrammedInv
  <2>3. /\ \A j \in Instance : UpOk(j)' /\ EntryOk(j)'
        /\ \A j \in Instance : HeardOk(j)' = HeardOk(j) /\ BoundOk(j)' = BoundOk(j) /\ Spoken(j)' = Spoken(j)
      BY <2>1, QuietFacts
  <2>4. HonestOk' /\ \A j \in Instance : LapseOk(j)'
      BY <2>1, PlaneFacts
  <2>5. ProgrammedType'
      BY <2>1, <2>2 DEF ProgrammedType
  <2>6. StaysOk'
      BY <2>1, <2>2, <2>3 DEF StaysOk, IsProgrammed
  <2> QED  BY <2>3, <2>4, <2>5, <2>6 DEF ProgrammedInv
<1> QED  BY <1>1, <1>2, <1>3, <1>4, <1>5, <1>6, <1>7 DEF ProgrammedNext

\* Once a new leader's version came first, a data plane heard of still runs,
\* bound its listener and reports before its entry lapses,
SpokeOk(i) ==
    Heard(i) => /\ plane[i].up /\ told[i].bound = "bound"
                /\ plane[i].by < told[i].seen + 2 * Hold
ServesOk(i) == plane[i].up /\ plane[i].ver # 0 => plane[i].bound = "bound"
\* and a report of the version has been answered by the condition, or asked
\* for the pass that will.
TakenBackOk ==
    course = "overtaken" =>
        /\ fault = "" /\ front # "unassigned"
        /\ \A i \in Instance : SpokeOk(i) /\ ServesOk(i)
        /\ ~asked /\ AtVersion(slotHub) # {} => IsProgrammed

\* Reports are answered: a pass that finds the version reported by data
\* planes that bound it writes Programmed.
LEMMA PassAnswers ==
    ASSUME ProgrammedInv, TakenBackOk, ConditionPass
    PROVE  TakenBackOk'
<1>1. SUFFICES ASSUME course' = "overtaken" PROVE TakenBackOk'
    BY DEF TakenBackOk
<1>2. /\ asked' = FALSE /\ slotHub' = PassSlot /\ condition' = Decide(PassSlot)
      /\ plane' = [i \in Instance |-> IF PassNew /\ plane[i].up /\ told[i] # NoEntry
                       THEN [plane[i] EXCEPT !.by = Min({@, now + Hold - 1})] ELSE plane[i]]
    BY Zenon DEF ConditionPass, PassNew, PassSlot
<1>3. UNCHANGED <<now, told, fault, front>>
    BY DEF ConditionPass, outsideVars, storeVars
<1>4. course \in {"good", "overtaken"}
    BY <1>1 DEF ConditionPass
<1>5. /\ fault = "" /\ front # "unassigned"
      /\ \A i \in Instance : SpokeOk(i) /\ ServesOk(i)
    BY <1>4 DEF ProgrammedInv, StaysOk, TakenBackOk, HeardOk, BoundOk, SpokeOk, ServesOk
<1>6. ASSUME NEW i \in Instance PROVE SpokeOk(i)' /\ ServesOk(i)'
  <2>1. /\ plane[i] \in Plane0 /\ plane[i].by \in Int /\ now \in Int /\ Hold \in Int
        /\ told[i] \in Entry0 /\ told[i].seen \in Int
    <3>1. plane[i] \in Plane0 /\ told[i] \in Entry0 /\ now \in Nat /\ Hold \in Nat
        BY HoldAssumption DEF ProgrammedInv, ProgrammedType
    <3> QED  BY <3>1 DEF Plane0, Entry0
  <2>2. CASE PassNew /\ plane[i].up /\ told[i] # NoEntry
    <3> DEFINE b == Min({plane[i].by, now + Hold - 1})
    <3>1. now + Hold - 1 \in Int
        BY <2>1
    <3>2. b \in Int /\ b <= plane[i].by
        BY <2>1, <3>1, MinOfTwo
    <3>3. plane'[i] = [plane[i] EXCEPT !.by = b]
        BY <1>2, <2>2
    <3> HIDE DEF b
    <3>4. plane'[i].up = plane[i].up /\ plane'[i].ver = plane[i].ver /\ plane'[i].bound = plane[i].bound /\ plane'[i].by = b
        BY <2>1, <3>2, <3>3 DEF Plane0
    <3>5. SpokeOk(i) /\ ServesOk(i) /\ told'[i] = told[i]
        BY <1>3, <1>5
    <3>6. plane[i].by < told[i].seen + 2 * Hold => plane'[i].by < told[i].seen + 2 * Hold
        BY <2>1, <3>2, <3>4
    <3> QED  BY <3>4, <3>5, <3>6 DEF SpokeOk, ServesOk, Heard
  <2>3. CASE ~(PassNew /\ plane[i].up /\ told[i] # NoEntry)
    <3>1. plane'[i] = plane[i]
        BY <1>2, <2>3
    <3> QED  BY <1>3, <1>5, <3>1 DEF SpokeOk, ServesOk, Heard
  <2> QED  BY <2>2, <2>3
<1>7. ASSUME AtVersion(slotHub)' # {} PROVE IsProgrammed'
  <2>1. AtVersion(slotHub)' = AtVersion(PassSlot)
      BY <1>2, <1>3 DEF AtVersion, LiveOnes, Live
  <2>2. \A i \in AtVersion(PassSlot) : told[i].bound = "bound"
      BY <1>5 DEF AtVersion, LiveOnes, Live, SpokeOk, Heard
  <2>3. Bound(AtVersion(PassSlot)) = "Programmed"
      BY <1>7, <2>1, <2>2, BoundFacts
  <2>4. Decide(PassSlot) = FromReports(AtVersion(PassSlot))
      BY <1>5, <1>7, <2>1 DEF Decide
  <2>5. Decide(PassSlot).why = Outranked(Bound(AtVersion(PassSlot)))
      BY <2>4 DEF FromReports, Cond
  <2> QED  BY <1>2, <1>5, <2>3, <2>5 DEF Outranked, Unassigned, IsProgrammed
<1> QED  BY <1>3, <1>5, <1>6, <1>7 DEF TakenBackOk

\* A report that says something new asks for a pass; one that says the same
\* is of a data plane whose entry has not lapsed.
LEMMA RecordAnswers ==
    ASSUME ProgrammedInv, TakenBackOk, course = "overtaken", NEW i \in Instance, NEW leaving \in BOOLEAN,
           plane[i].up, Reports(i, leaving), UNCHANGED <<now, slotHub, condition>>,
           ~asked', AtVersion(slotHub)' # {}
    PROVE  IsProgrammed'
<1> DEFINE r == [seen |-> now, ver |-> plane[i].ver, bound |-> plane[i].bound, leaving |-> leaving]
<1>1. ~asked /\ ~Differs(i, r) /\ told' = RecordReport(i, r) /\ plane[i].ver # 0
    BY DEF Reports
<1>2. told \in [Instance -> Entry0] /\ plane \in [Instance -> Plane0] /\ now \in Nat /\ Hold \in Nat
    BY HoldAssumption DEF ProgrammedInv, ProgrammedType
<1>3. told[i].ver = plane[i].ver /\ told[i].leaving = leaving
  <2>1. r = [told[i] EXCEPT !.seen = r.seen]
      BY <1>1 DEF Differs
  <2>2. told[i] \in Entry0
      BY <1>2
  <2> QED  BY <2>1, <2>2 DEF Entry0
<1>4. told'[i] = r /\ \A j \in Instance \ {i} : told'[j] \in {told[j], NoEntry}
    BY <1>1 DEF RecordReport
<1>5. PICK j \in Instance : Live(j)' /\ told'[j].ver = slotHub.ver
    BY DEF AtVersion, LiveOnes
<1>6. Live(j) /\ told[j].ver = slotHub.ver
  <2>1. CASE j = i
    <3>1. ~leaving /\ told[i].ver = slotHub.ver /\ told[i] # NoEntry
      <4>1. r.ver = plane[i].ver /\ r.leaving = leaving
          OBVIOUS
      <4>2. ~r.leaving /\ r.ver = slotHub.ver
          BY <1>4, <1>5, <2>1 DEF Live
      <4>3. NoEntry.ver = 0
          BY DEF NoEntry
      <4> HIDE DEF r
      <4> QED  BY <1>1, <1>3, <4>1, <4>2, <4>3
    <3>2. plane[i].by < told[i].seen + 2 * Hold /\ now <= plane[i].by
        BY <1>3, <3>1 DEF TakenBackOk, SpokeOk, Heard, ProgrammedInv, UpOk
    <3>3. plane[i].by \in Int /\ told[i].seen \in Int
        BY <1>2 DEF Plane0, Entry0
    <3> QED  BY <1>2, <1>3, <2>1, <3>1, <3>2, <3>3 DEF Live, LIVENESS
  <2>2. CASE j # i
      BY <1>4, <1>5, <2>2 DEF Live, NoEntry
  <2> QED  BY <2>1, <2>2
<1>7. AtVersion(slotHub) # {}
    BY <1>6 DEF AtVersion, LiveOnes
<1> QED  BY <1>1, <1>7 DEF TakenBackOk, IsProgrammed

LEMMA StepAnswers ==
    ProgrammedInv /\ TakenBackOk /\ [ProgrammedNext]_programmedVars => TakenBackOk'
<1> SUFFICES ASSUME ProgrammedInv, TakenBackOk, [ProgrammedNext]_programmedVars PROVE TakenBackOk'
    OBVIOUS
<1>1. CASE ConditionPass
    BY <1>1, PassAnswers
<1>2. CASE ~ConditionPass /\ course # "overtaken"
  <2>1. course' # "overtaken"
      BY <1>2 DEF ProgrammedNext, programmedVars, planeVars, Takeover, NewConfig, FaultChanges, FrontChanges, Tick,
           Report, Seen, Lapse, Apply, Rebind, Leave, Crash, Start
  <2> QED  BY <2>1 DEF TakenBackOk
<1>3. ASSUME ~ConditionPass, course = "overtaken" PROVE TakenBackOk'
  <2>1. /\ fault = "" /\ front # "unassigned"
        /\ \A j \in Instance : SpokeOk(j) /\ ServesOk(j)
        /\ ~asked /\ AtVersion(slotHub) # {} => IsProgrammed
      BY <1>3 DEF TakenBackOk
  <2>2. /\ told \in [Instance -> Entry0] /\ plane \in [Instance -> Plane0] /\ now \in Nat
        /\ \A j \in Instance : UpOk(j)
        /\ Hold \in Nat /\ Hold > 1
      BY HoldAssumption DEF ProgrammedInv, ProgrammedType
  <2>3. CASE Takeover
    <3>1. asked' = TRUE /\ told' = [j \in Instance |-> NoEntry] /\ UNCHANGED <<fault, front>>
          /\ plane' = [j \in Instance |-> IF plane[j].up THEN [plane[j] EXCEPT !.by = now + 2 * Hold - 1] ELSE plane[j]]
        BY <2>3 DEF Takeover, outsideVars
    <3>2. ASSUME NEW j \in Instance PROVE SpokeOk(j)' /\ ServesOk(j)'
      <4>1. ~Heard(j)'
          BY <3>1 DEF Heard
      <4>2. plane'[j].up = plane[j].up /\ plane'[j].ver = plane[j].ver /\ plane'[j].bound = plane[j].bound
          BY <2>2, <3>1 DEF Plane0
      <4> QED  BY <2>1, <4>1, <4>2 DEF SpokeOk, ServesOk
    <3> QED  BY <2>1, <3>1, <3>2 DEF TakenBackOk
  <2>4. CASE NewConfig
    <3>1. asked' = TRUE /\ UNCHANGED <<told, plane, fault, front>>
        BY <2>4 DEF NewConfig, serverVars, storeVars, planeVars
    <3> QED  BY <2>1, <3>1 DEF TakenBackOk, SpokeOk, ServesOk, Heard
  <2>5. CASE FaultChanges \/ FrontChanges
      BY <2>5 DEF TakenBackOk, FaultChanges, FrontChanges
  <2>6. CASE Tick
    <3>1. /\ now' = now + 1 /\ ~asked
          /\ UNCHANGED <<told, plane, fault, front, asked, condition, slotHub>>
        BY <2>6 DEF Tick, serverVars, storeVars, outsideVars
    <3>2. AtVersion(slotHub)' # {} => AtVersion(slotHub) # {}
      <4>1. ASSUME NEW j \in Instance, Live(j)' PROVE Live(j)
        <5>1. told[j].seen \in Int
            BY <2>2 DEF Entry0
        <5> QED  BY <2>2, <3>1, <4>1, <5>1 DEF Live, LIVENESS
      <4> QED  BY <3>1, <4>1 DEF AtVersion, LiveOnes
    <3> QED  BY <2>1, <3>1, <3>2 DEF TakenBackOk, SpokeOk, ServesOk, Heard, IsProgrammed
  <2>7. ASSUME NEW i \in Instance, Report(i) PROVE TakenBackOk'
    <3>1. /\ plane[i].up /\ Reports(i, FALSE)
          /\ plane' = [plane EXCEPT ![i].by = IF plane[i].ver = slotHub.ver THEN now + Hold - 1 ELSE @]
          /\ UNCHANGED <<now, slotHub, condition, fault, front>>
        BY <2>7 DEF Report, outsideVars
    <3>2. ~asked' /\ AtVersion(slotHub)' # {} => IsProgrammed'
      <4>1. FALSE \in BOOLEAN
          OBVIOUS
      <4> QED  BY <1>3, <3>1, <4>1, RecordAnswers
    <3>3. /\ told'[i] = [seen |-> now, ver |-> plane[i].ver, bound |-> plane[i].bound, leaving |-> FALSE]
          /\ \A j \in Instance \ {i} : told'[j] \in {told[j], NoEntry}
          /\ plane[i].ver # 0
        BY <3>1 DEF Reports, RecordReport
    <3>4. /\ plane'[i].up /\ plane'[i].ver = plane[i].ver /\ plane'[i].bound = plane[i].bound
          /\ plane'[i].by < now + 2 * Hold
          /\ \A j \in Instance \ {i} : plane'[j] = plane[j]
      <4>1. plane[i] \in Plane0 /\ plane[i].by \in Int /\ plane[i].by < now + 2 * Hold
          BY <2>2, <3>1 DEF Plane0, UpOk
      <4> DEFINE b == IF plane[i].ver = slotHub.ver THEN now + Hold - 1 ELSE plane[i].by
      <4>2. b \in Int /\ b < now + 2 * Hold
          BY <2>2, <4>1
      <4>3. plane' = [plane EXCEPT ![i] = [plane[i] EXCEPT !.by = b]]
          BY <3>1
      <4> HIDE DEF b
      <4> QED  BY <2>2, <3>1, <4>1, <4>2, <4>3 DEF Plane0
    <3>5. ASSUME NEW j \in Instance PROVE SpokeOk(j)' /\ ServesOk(j)'
      <4>1. CASE j = i
        <5>1. plane[i].bound = "bound"
            BY <2>1, <3>1, <3>3 DEF ServesOk
        <5>2. told'[i].bound = "bound" /\ told'[i].seen = now
            BY <3>3, <5>1
        <5> QED  BY <2>2, <3>4, <4>1, <5>1, <5>2 DEF SpokeOk, ServesOk
      <4>2. CASE j # i
          BY <2>1, <3>3, <3>4, <4>2 DEF SpokeOk, ServesOk, Heard
      <4> QED  BY <4>1, <4>2
    <3> QED  BY <2>1, <3>1, <3>2, <3>5 DEF TakenBackOk
  <2>8. ASSUME NEW i \in Instance, Leave(i) PROVE TakenBackOk'
    <3>1. /\ plane[i].up /\ Reports(i, TRUE) /\ UNCHANGED <<now, slotHub, condition, fault, front>>
        BY <2>8 DEF Leave, outsideVars
    <3>2. PICK k \in Instance : ~plane[k].up /\ k # i /\ plane' = [plane EXCEPT ![i] = Down, ![k] = Up(now + Hold - 1)]
        BY <2>8 DEF Leave
    <3>3. ~asked' /\ AtVersion(slotHub)' # {} => IsProgrammed'
      <4>1. TRUE \in BOOLEAN
          OBVIOUS
      <4> QED  BY <1>3, <3>1, <4>1, RecordAnswers
    <3>4. /\ told'[i].leaving
          /\ \A j \in Instance \ {i} : told'[j] \in {told[j], NoEntry}
        BY <3>1 DEF Reports, RecordReport
    <3>5. /\ ~plane'[i].up /\ plane'[k].ver = 0 /\ \A j \in Instance \ {i, k} : plane'[j] = plane[j]
        BY <2>2, <3>2 DEF Down, Up
    <3>6. ASSUME NEW j \in Instance PROVE SpokeOk(j)' /\ ServesOk(j)'
      <4>1. CASE j = i
          BY <3>4, <3>5, <4>1 DEF SpokeOk, ServesOk, Heard
      <4>2. CASE j = k
          BY <2>1, <3>2, <3>4, <3>5, <4>2 DEF SpokeOk, ServesOk, Heard
      <4>3. CASE j \notin {i, k}
          BY <2>1, <3>4, <3>5, <4>3 DEF SpokeOk, ServesOk, Heard
      <4> QED  BY <4>1, <4>2, <4>3
    <3> QED  BY <2>1, <3>1, <3>3, <3>6 DEF TakenBackOk
  <2>9. ASSUME NEW i \in Instance, Seen(i) PROVE TakenBackOk'
    <3>1. UNCHANGED <<now, told, plane, fault, front, asked, condition, slotHub>>
        BY <2>9 DEF Seen, planeVars, outsideVars
    <3> QED  BY <2>1, <3>1 DEF TakenBackOk, SpokeOk, ServesOk, Heard, AtVersion, LiveOnes, Live, IsProgrammed
  <2>10. ASSUME NEW i \in Instance, Lapse(i) PROVE TakenBackOk'
    <3>1. asked' = TRUE /\ UNCHANGED <<told, plane, fault, front>>
        BY <2>10 DEF Lapse, planeVars, outsideVars
    <3> QED  BY <2>1, <3>1 DEF TakenBackOk, SpokeOk, ServesOk, Heard
  <2>11. ASSUME NEW i \in Instance, Apply(i) PROVE TakenBackOk'
    <3>1. SUFFICES ASSUME course' = "overtaken" PROVE TakenBackOk'
        BY DEF TakenBackOk
    <3>2. /\ plane' = [plane EXCEPT ![i].ver = slotHub.ver, ![i].bound = "bound"]
          /\ UNCHANGED <<now, told, fault, front, asked, condition, slotHub>>
        BY <2>11, <3>1 DEF Apply, serverVars, storeVars, outsideVars
    <3>3. /\ plane'[i].up = plane[i].up /\ plane'[i].bound = "bound" /\ plane'[i].by = plane[i].by
          /\ \A j \in Instance \ {i} : plane'[j] = plane[j]
        BY <2>2, <3>2 DEF Plane0
    <3>4. \A j \in Instance : SpokeOk(j)' /\ ServesOk(j)'
        BY <2>1, <3>2, <3>3 DEF SpokeOk, ServesOk, Heard
    <3> QED  BY <2>1, <3>2, <3>4 DEF TakenBackOk, AtVersion, LiveOnes, Live, IsProgrammed
  <2>12. ASSUME NEW i \in Instance, Rebind(i) PROVE TakenBackOk'
    <3>1. /\ plane' = [plane EXCEPT ![i].bound = "bound", ![i].by = now] /\ plane[i].up
          /\ UNCHANGED <<now, told, fault, front, asked, condition, slotHub>>
        BY <2>12 DEF Rebind, serverVars, storeVars, outsideVars
    <3>2. /\ plane'[i].up = plane[i].up /\ plane'[i].bound = "bound" /\ plane'[i].by = now
          /\ \A j \in Instance \ {i} : plane'[j] = plane[j]
        BY <2>2, <3>1 DEF Plane0
    <3>3. ASSUME NEW j \in Instance PROVE SpokeOk(j)' /\ ServesOk(j)'
      <4>1. CASE j = i
        <5>1. now <= plane[i].by /\ plane[i].by \in Int /\ told[i].seen \in Int
            BY <2>2, <3>1 DEF UpOk, Plane0, Entry0
        <5>2. SpokeOk(i) /\ told'[i] = told[i]
            BY <2>1, <3>1
        <5>3. plane[i].by < told[i].seen + 2 * Hold => plane'[i].by < told[i].seen + 2 * Hold
            BY <2>2, <3>2, <5>1
        <5> QED  BY <3>1, <3>2, <4>1, <5>2, <5>3 DEF SpokeOk, ServesOk, Heard
      <4>2. CASE j # i
          BY <2>1, <3>1, <3>2, <4>2 DEF SpokeOk, ServesOk, Heard
      <4> QED  BY <4>1, <4>2
    <3> QED  BY <2>1, <3>1, <3>3 DEF TakenBackOk, AtVersion, LiveOnes, Live, IsProgrammed
  <2>13. ASSUME NEW i \in Instance, Crash(i) PROVE TakenBackOk'
      BY <2>13 DEF TakenBackOk, Crash
  <2>14. ASSUME NEW i \in Instance, Start(i) PROVE TakenBackOk'
    <3>1. /\ plane' = [plane EXCEPT ![i] = Up(now + Hold - 1)] /\ ~plane[i].up
          /\ UNCHANGED <<now, told, fault, front, asked, condition, slotHub>>
        BY <2>14 DEF Start, serverVars, storeVars, outsideVars
    <3>2. plane'[i].ver = 0 /\ \A j \in Instance \ {i} : plane'[j] = plane[j]
        BY <2>2, <3>1 DEF Up, Down
    <3>3. \A j \in Instance : SpokeOk(j)' /\ ServesOk(j)'
        BY <2>1, <3>1, <3>2 DEF SpokeOk, ServesOk, Heard
    <3> QED  BY <2>1, <3>1, <3>3 DEF TakenBackOk, AtVersion, LiveOnes, Live, IsProgrammed
  <2>15. CASE UNCHANGED programmedVars
    <3>1. UNCHANGED <<now, told, plane, fault, front, asked, condition, slotHub>>
        BY <2>15 DEF programmedVars
    <3> QED  BY <2>1, <3>1 DEF TakenBackOk, SpokeOk, ServesOk, Heard, AtVersion, LiveOnes, Live, IsProgrammed
  <2> QED  BY <1>3, <2>3, <2>4, <2>5, <2>6, <2>7, <2>8, <2>9, <2>10, <2>11, <2>12, <2>13, <2>14, <2>15 DEF ProgrammedNext
<1> QED  BY <1>1, <1>2, <1>3

\* A Programmed once written stays while data planes come, go in order and
\* report in time, is taken back by a new leader's version only until a data
\* plane reported it, and in bounded time when the last one died, whatever the
\* hold (keep_until, evaluate, Lapses::watch).
THEOREM ProgrammedCorrect == ProgrammedSpec => []ProgrammedIsHonest
<1>1. ProgrammedInv /\ TakenBackOk => ProgrammedIsHonest
  <2>1. ASSUME ProgrammedInv
        PROVE  /\ course = "good" => IsProgrammed
               /\ IsProgrammed => condition.listener /\ condition.addresses /\ InTime(now)
      BY <2>1 DEF ProgrammedInv, HonestOk, StaysOk
  <2> QED  BY <2>1 DEF TakenBackOk, ProgrammedIsHonest, InTime
<1>2. ProgrammedInit => TakenBackOk
    BY DEF ProgrammedInit, TakenBackOk
<1> QED  BY <1>1, <1>2, InitProgrammed, NextProgrammed, StepAnswers, PTL DEF ProgrammedSpec
=============================================================================
