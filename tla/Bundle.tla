------------------------------ MODULE Bundle ------------------------------
(***************************************************************************)
(* Reading a trust bundle (internal/authn/trustbundle.go), one PEM block   *)
(* at a time.                                                              *)
(*                                                                         *)
(* A file is a sequence of items, each on lines of its own: a block, which *)
(* pem.Decode can read; a damaged block, which opens as one and is not; or *)
(* other text.  A block's content is a certificate or what is wrong with   *)
(* it.  An item may be indented: whitespace stands before it on its line.  *)
(* TrimSpace removes that at the head of what is left to read, and nowhere *)
(* else.                                                                   *)
(***************************************************************************)
EXTENDS Integers, Sequences, FiniteSets

CONSTANTS
    Authorities,  \* the certificates a bundle may hold, as in module Svid
    NotAfter,     \* when each certificate expires
    MaxItems      \* bound on the length of a file

ASSUME BundleAssumption ==
    /\ Authorities \cap {"key", "headers", "garbage", "leaf", "foreign", "none"} = {}
    /\ NotAfter \in [Authorities -> Nat \ {0}]
    /\ MaxItems \in Nat

\* What a block may hold else: another kind of PEM block, one with headers,
\* bytes that are no certificate, a leaf, an authority of another domain.
Others == {"key", "headers", "garbage", "leaf", "foreign"}

Items == [kind : {"block"}, content : Authorities \cup Others, indented : BOOLEAN]
         \cup [kind : {"damaged", "text"}, content : {"none"}, indented : BOOLEAN]

Files == UNION {[1 .. n -> Items] : n \in 0 .. MaxItems}

VARIABLES
    trimmed,         \* the file
    rest,            \* what parseTrustBundle has not read
    roots,           \* the certificates so far
    earliestExpiry,  \* 0 is the zero time
    result           \* "reading", "ok" or the error

vars == <<trimmed, rest, roots, earliestExpiry, result>>

\* loadTrustBundle has read the file, or could not.
Init ==
    /\ trimmed \in Files
    /\ rest = trimmed
    /\ roots = << >>
    /\ earliestExpiry = 0
    /\ result \in {"reading", "ReadFile"}

----------------------------------------------------------------------------
Opens(item) == item.kind \in {"block", "damaged"}

\* The items pem.Decode would take: it looks for the marker at the very start
\* or at the start of a line, and goes on behind what it cannot read.
Readable(data) ==
    {i \in DOMAIN data : data[i].kind = "block" /\ (i = 1 \/ ~ data[i].indented)}
PemDecode(data) == CHOOSE i \in Readable(data) : \A j \in Readable(data) : i <= j

\* Faulty variant: what was read is taken for what there was.
beginMarkersRead(data) == Len(roots)

beginMarkers(data) ==
    Cardinality({i \in DOMAIN data : Opens(data[i]) /\ (i = 1 \/ ~ data[i].indented)})

seen == {roots[i] : i \in DOMAIN roots}

bundleCertificate(content) ==
    CASE content = "key" -> "ErrBundleNotCertificate"
      [] content = "headers" -> "ErrBundleBlockHasHeaders"
      [] content = "garbage" -> "ParseCertificate"
      [] content = "leaf" -> "ValidateSigningCertificate"
      [] content = "foreign" -> "ErrWrongTrustDomain"
      [] OTHER -> "nil"

Fails(e) == result' = e /\ UNCHANGED <<trimmed, rest, roots, earliestExpiry>>

\* The error of decodeBlock.
decodeBlock(data) ==
    IF ~ Opens(data[1]) THEN "ErrBundleUnexpectedData"
    ELSE IF Readable(data) = {} THEN "ErrBundleBlockDropped"
    ELSE bundleCertificate(data[PemDecode(data)].content)

\* Faulty variant: a duplicate is not looked for.
TurnErrorWithoutSeen == decodeBlock(rest)

\* The error a turn of the loop ends in.
TurnError ==
    IF decodeBlock(rest) # "nil" THEN decodeBlock(rest)
    ELSE IF rest[PemDecode(rest)].content \in seen THEN "ErrBundleDuplicateCertificate"
    ELSE "nil"

\* Faulty variant: what follows the block just read is left as it was.
AppendRootInPlace ==
    /\ roots' = Append(roots, rest[PemDecode(rest)].content)
    /\ UNCHANGED <<trimmed, rest, earliestExpiry, result>>

AppendRoot ==
    LET i == PemDecode(rest)
        certificate == rest[i].content
    IN /\ roots' = Append(roots, certificate)
       /\ earliestExpiry' = IF earliestExpiry = 0 \/ NotAfter[certificate] < earliestExpiry
                            THEN NotAfter[certificate] ELSE earliestExpiry
       /\ rest' = SubSeq(rest, i + 1, Len(rest))
       /\ UNCHANGED <<trimmed, result>>

\* One turn of the loop.
ReadBlock ==
    /\ result = "reading" /\ rest # << >>
    /\ IF TurnError # "nil" THEN Fails(TurnError) ELSE AppendRoot

\* What follows the loop.
Finish ==
    /\ result = "reading" /\ rest = << >>
    /\ Fails(IF roots = << >> THEN "ErrEmptyTrustBundle"
             ELSE IF Len(roots) # beginMarkers(trimmed) THEN "ErrBundleBlockDropped"
             ELSE "ok")

Next == ReadBlock \/ Finish

Spec == Init /\ [][Next]_vars

----------------------------------------------------------------------------
Errors == {"ReadFile", "ErrBundleUnexpectedData", "ErrBundleBlockDropped",
           "ErrBundleDuplicateCertificate", "ErrEmptyTrustBundle"}
          \cup {bundleCertificate(content) : content \in Others}

\* The types of the state; rest stays a part of the file.
TypeOK ==
    /\ trimmed \in Files /\ rest \in Files
    /\ roots \in Seq(Authorities) /\ Len(roots) + Len(rest) <= Len(trimmed)
    /\ earliestExpiry \in Nat
    /\ result \in {"reading", "ok"} \cup Errors

\* Where every marker stands at the start of its line, a bundle is accepted
\* exactly if it is blocks and nothing else, each a different certificate of an
\* authority; and then all of them are anchors, in the file's order.  So no
\* damage is passed over, and no good file is turned away.
WellFormed ==
    /\ trimmed # << >>
    /\ \A i \in DOMAIN trimmed : trimmed[i].content \in Authorities
    /\ \A i, j \in DOMAIN trimmed : trimmed[i].content = trimmed[j].content => i = j

AcceptsTheWellFormed ==
    (\A i \in DOMAIN trimmed : ~ trimmed[i].indented) /\ result \notin {"reading", "ReadFile"} =>
        /\ result = "ok" <=> WellFormed
        /\ result = "ok" => roots = [i \in DOMAIN trimmed |-> trimmed[i].content]

\* However a file is damaged or indented, an accepted bundle has no anchor
\* twice and none but authorities, exactly as many as there are blocks, readable
\* or not, that open the file or a line of it, and their earliest expiry is the
\* one that is reported.
AcceptedIsSound ==
    result = "ok" =>
        /\ seen # {} /\ seen \subseteq Authorities
        /\ Cardinality(seen) = Len(roots)
        /\ Len(roots) = Cardinality({i \in DOMAIN trimmed :
                            Opens(trimmed[i]) /\ (trimmed[i].indented => i = 1)})
        /\ \A c \in seen : earliestExpiry <= NotAfter[c]
        /\ \E c \in seen : earliestExpiry = NotAfter[c]

(* What a comment says, and the code does not do. *)

\* trustbundle.go, on the last check: "Ensure no block was dropped".
NoBlockDropped ==
    result = "ok" =>
        Len(roots) = Cardinality({i \in DOMAIN trimmed : Opens(trimmed[i])})
=============================================================================
