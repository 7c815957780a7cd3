-------------------------------- MODULE Chunked --------------------------------
(***************************************************************************)
(* The chunked framing of a body, src/src/proxy/chunked.rs: an observer    *)
(* that follows the bytes the proxy forwards and says where the body ends. *)
(*                                                                         *)
(* A byte is one of the classes the observer tells apart.  The bytes come  *)
(* in reads of any length, and those the observer takes are forwarded to a *)
(* peer whose parser may read them otherwise: one ends a line at a bare    *)
(* LF, another only at CRLF; the size of one wraps at the width of the     *)
(* proxy's integer, that of another is wider.  The peer follows what it    *)
(* was sent by a grammar of its own; the stream has no bound.              *)
(***************************************************************************)
EXTENDS Naturals, Sequences, SequencesExt

CONSTANTS
    SizeBase,   \* the digits of a size: 16
    SizeTop,    \* what a digit weighs that no other can follow: 2^60 for u64
    MaxRead     \* bound: bytes of one read

ASSUME ChunkedAssumption == SizeBase \in Nat \ {0, 1} /\ SizeTop \in Nat \ {0} /\ MaxRead \in Nat \ {0}

VARIABLES
    phase,     \* the observer's position
    decoded,   \* the payload decode_into gave out of the last read
    peerKind,  \* how the peer reads
    peer,      \* its position
    peerGot    \* the payload the peer took out of the last read

chunkedVars == <<phase, decoded, peerKind, peer, peerGot>>

Digit == 0 .. SizeBase - 1
Byte  == {[c |-> "hex", n |-> d] : d \in Digit}
         \cup {[c |-> c, n |-> 0] : c \in {"semi", "colon", "blank", "text", "ctl", "cr", "lf"}}
FieldValue == {"hex", "semi", "colon", "blank", "text"}     \* is_field_value_byte

-----------------------------------------------------------------------------
(* The observer. *)

At(p)          == [p |-> p, size |-> 0, flag |-> FALSE]
Sized(p, n)    == [At(p) EXCEPT !.size = n]
Flagged(p, f)  == [At(p) EXCEPT !.flag = f]
Broken         == At("Broken")

\* shift_hex: no digit may push another out.
SizeLimit == SizeBase * SizeTop
ShiftWraps(hex, d) == [ok |-> TRUE, n |-> (hex * SizeBase + d) % SizeLimit]
ShiftHex(hex, d) == [ok |-> hex \div SizeTop = 0, n |-> hex * SizeBase + d]

InSize(ph, b) ==
    IF b.c = "hex"
    THEN LET s == ShiftHex(ph.size, b.n)
         IN  IF s.ok THEN [Sized("Size", s.n) EXCEPT !.flag = TRUE] ELSE Broken
    ELSE IF b.c = "semi" /\ ph.flag THEN Sized("SizeExt", ph.size)
    ELSE IF b.c = "cr" /\ ph.flag THEN Sized("SizeCrlf", ph.size) ELSE Broken

InSizeExt(ph, b) ==
    IF b.c = "cr" THEN Sized("SizeCrlf", ph.size)
    ELSE IF b.c \in FieldValue THEN ph ELSE Broken

AfterSizeCr(ph, b) ==
    IF b.c # "lf" THEN Broken
    ELSE IF ph.size = 0 THEN At("TrailerLineStart") ELSE Sized("Data", ph.size)

InDataCrlf(ph, b) ==
    IF ~ph.flag /\ b.c = "cr" THEN Flagged("DataCrlf", TRUE)
    ELSE IF ph.flag /\ b.c = "lf" THEN At("Size") ELSE Broken

AtTrailerLineStart(b) ==
    IF b.c = "cr" THEN Flagged("TrailerCr", TRUE)
    ELSE IF b.c \in FieldValue \ {"blank", "colon"} THEN Flagged("TrailerLine", FALSE) ELSE Broken

InTrailerLineAnyEnd(ph, b) ==
    IF b.c = "cr" THEN Flagged("TrailerCr", FALSE)
    ELSE IF b.c = "lf" THEN At("TrailerLineStart")
    ELSE IF b.c \in FieldValue THEN Flagged("TrailerLine", ph.flag \/ b.c = "colon") ELSE Broken
InTrailerLine(ph, b) ==
    IF b.c = "cr" THEN IF ph.flag THEN Flagged("TrailerCr", FALSE) ELSE Broken
    ELSE IF b.c \in FieldValue THEN Flagged("TrailerLine", ph.flag \/ b.c = "colon") ELSE Broken

AfterTrailerCr(ph, b) ==
    IF b.c # "lf" THEN Broken ELSE IF ph.flag THEN At("Done") ELSE At("TrailerLineStart")

Step(ph, b) ==
    CASE ph.p = "Size"             -> InSize(ph, b)
      [] ph.p = "SizeExt"          -> InSizeExt(ph, b)
      [] ph.p = "SizeCrlf"         -> AfterSizeCr(ph, b)
      [] ph.p = "DataCrlf"         -> InDataCrlf(ph, b)
      [] ph.p = "TrailerLineStart" -> AtTrailerLineStart(b)
      [] ph.p = "TrailerLine"      -> InTrailerLine(ph, b)
      [] ph.p = "TrailerCr"        -> AfterTrailerCr(ph, b)

\* One turn of advance's loop: a run of payload is taken in one piece, any
\* other byte is stepped; the byte that breaks the framing is not taken.
SkipData(s, bytes) ==
    LET left == Len(bytes) - s.i
        take == IF s.ph.size < left THEN s.ph.size ELSE left
    IN  [i |-> s.i + take, out |-> s.out \o SubSeq(bytes, s.i + 1, s.i + take),
         ph |-> IF take = s.ph.size THEN Flagged("DataCrlf", FALSE) ELSE Sized("Data", s.ph.size - take)]
Iteration(s, bytes) ==
    IF s.i = Len(bytes) \/ s.ph.p \in {"Done", "Broken"} THEN s
    ELSE IF s.ph.p = "Data" THEN SkipData(s, bytes)
    ELSE LET ph == Step(s.ph, bytes[s.i + 1])
         IN  [s EXCEPT !.ph = ph, !.i = IF ph = Broken THEN @ ELSE @ + 1]

\* advance: every turn takes a byte, so there are at most Len(bytes) of them.
Advance(ph, bytes) ==
    LET turns[n \in 0 .. Len(bytes)] ==
            IF n = 0 THEN [i |-> 0, ph |-> ph, out |-> <<>>] ELSE Iteration(turns[n - 1], bytes)
    IN  turns[Len(bytes)]

-----------------------------------------------------------------------------
(* The peer: a line ends at LF, for some only after a CR; a size is the    *)
(* digits that open its line, for some in a wider integer.                 *)

PeerKinds == [bareLf : BOOLEAN, wide : BOOLEAN]
PeerAt(w) == [w |-> w, n |-> 0, cr |-> FALSE, blank |-> TRUE, counting |-> TRUE]
PeerMax   == IF peerKind.wide THEN SizeBase * SizeLimit ELSE SizeLimit
LineEnds(q, b) == b.c = "lf" /\ (peerKind.bareLf \/ q.cr)
Within(q, b) ==
    [w |-> q.w, cr |-> b.c = "cr", blank |-> q.blank /\ b.c = "cr", counting |-> q.counting /\ b.c = "hex",
     n |-> IF q.w = "size" /\ q.counting /\ b.c = "hex" THEN (q.n * SizeBase + b.n) % PeerMax ELSE q.n]

PeerStep(q, b) ==
    CASE q.w = "data" -> IF q.n = 1 THEN PeerAt("gap") ELSE [q EXCEPT !.n = @ - 1]
      [] q.w \in {"over", "overrun"} -> PeerAt("overrun")
      [] q.w \in {"size", "gap", "trailer"} /\ ~LineEnds(q, b) -> Within(q, b)
      [] q.w = "size" /\ LineEnds(q, b) ->
           IF q.n = 0 THEN PeerAt("trailer") ELSE [PeerAt("data") EXCEPT !.n = q.n]
      [] q.w = "gap" /\ LineEnds(q, b) -> PeerAt("size")
      [] q.w = "trailer" /\ LineEnds(q, b) -> IF q.blank THEN PeerAt("over") ELSE PeerAt("trailer")

\* Where it is, and the payload it took, after each byte of a read.
PeerTurn(a, b) == [q |-> PeerStep(a.q, b), got |-> IF a.q.w = "data" THEN Append(a.got, b) ELSE a.got]
PeerTakes(q, bytes) ==
    LET after[n \in 0 .. Len(bytes)] ==
            IF n = 0 THEN [q |-> q, got |-> <<>>] ELSE PeerTurn(after[n - 1], bytes[n])
    IN  after

-----------------------------------------------------------------------------
\* decode_into on what a read brought; what it took goes to the peer.
Observe(bytes) ==
    LET a == Advance(phase, bytes)
        t == PeerTakes(peer, bytes)[a.i]
    IN  /\ phase' = a.ph /\ decoded' = a.out
        /\ peer' = t.q /\ peerGot' = t.got /\ UNCHANGED peerKind

ChunkedInit ==
    /\ phase = At("Size") /\ decoded = <<>>
    /\ peerKind \in PeerKinds /\ peer = PeerAt("size") /\ peerGot = <<>>
ChunkedNext == \E k \in 1 .. MaxRead : \E bytes \in [1 .. k -> Byte] : Observe(bytes)
ChunkedSpec == ChunkedInit /\ [][ChunkedNext]_chunkedVars

-----------------------------------------------------------------------------
(* Properties. *)

\* However the bytes fall into reads, every kind of peer ends the body exactly where the
\* observer does: it finds no end before, and no byte past the end reaches it;
\* and the payload decode_into takes out of a read is what the peer reads in it.
EndsAgree ==
    /\ phase.p = "Done" <=> peer.w = "over"
    /\ peer.w # "overrun"
    /\ decoded = peerGot
    /\ phase.p = "Data" => peer.w = "data" /\ peer.n = phase.size
=============================================================================
