--------------------------- MODULE Bundle_proofs ---------------------------
(***************************************************************************)
(* Proofs, for any authorities and expiries and files of any length, of    *)
(* the properties of module Bundle.                                        *)
(***************************************************************************)
EXTENDS Bundle, FiniteSetTheorems, TLAPS

----------------------------------------------------------------------------
(* The inductive invariant. *)

\* How many items of the file have been read, or passed over.
Read == Len(trimmed) - Len(rest)

\* What is left to read is the end of the file, and what was read a sequence of
\* authorities that is no longer than what went by.
ReadInv ==
    /\ trimmed \in Seq(Items) /\ rest \in Seq(Items)
    /\ Len(trimmed) <= MaxItems
    /\ roots \in Seq(Authorities)
    /\ Len(roots) + Len(rest) <= Len(trimmed)
    /\ \A i \in 1 .. Len(rest) : rest[i] = trimmed[Read + i]

\* The check against seen keeps the roots apart.
DistinctInv ==
    /\ \A i, j \in DOMAIN roots : roots[i] = roots[j] => i = j
    /\ IsFiniteSet(seen) /\ Cardinality(seen) = Len(roots)

ExpiryInv ==
    /\ earliestExpiry \in Nat
    /\ roots = << >> <=> earliestExpiry = 0
    /\ roots # << >> =>
          /\ \A c \in seen : earliestExpiry <= NotAfter[c]
          /\ \E c \in seen : earliestExpiry = NotAfter[c]

\* Every marker stands at the start of its line.
Flat == \A i \in DOMAIN trimmed : ~ trimmed[i].indented

\* The markers among the first n items.
Markers(n) == {i \in 1 .. n : Opens(trimmed[i])}

\* Every item that went by was a block, and is a root at the same place.
InStep ==
    /\ Len(roots) = Read
    /\ \A i \in 1 .. Read : trimmed[i].content = roots[i]

\* pem.Decode has passed over a damaged block: the markers are ahead of the
\* roots, and will be when they are compared.
Behind ==
    /\ \E i \in 1 .. Read : trimmed[i].kind = "damaged"
    /\ Cardinality(Markers(Read)) > Len(roots)

FlatInv == Flat => InStep \/ Behind

\* The error that ends a flat file is one the file deserves.
ResultInv ==
    /\ result \in {"reading", "ok"} \cup Errors
    /\ result = "ok" => /\ rest = << >> /\ roots # << >> /\ (Flat => InStep)
                        /\ Len(roots) = beginMarkers(trimmed)
    /\ Flat /\ result \notin {"reading", "ok", "ReadFile"} => ~ WellFormed

IInv ==
    /\ ReadInv
    /\ DistinctInv
    /\ ExpiryInv
    /\ FlatInv
    /\ ResultInv

----------------------------------------------------------------------------
(* Lemmas about the operators. *)

\* A set of numbers that is not empty has a least one.
LEMMA LeastElement ==
    ASSUME NEW S, S \subseteq Nat, S # {}
    PROVE  \E i \in S : \A j \in S : i <= j
  <1>1. PICK i \in S : \A j \in S : ~ (<<j, i>> \in OpToRel(<, Nat))
    BY NatLessThanWellFounded, WFMin
  <1>2. \A j \in S : ~ (j < i)
    BY <1>1 DEF OpToRel
  <1> QED BY <1>2

\* A file is a sequence of items.
LEMMA FileIsSequence ==
    ASSUME NEW f
    PROVE  f \in Files <=> f \in Seq(Items) /\ Len(f) <= MaxItems
  <1>1. ASSUME f \in Files PROVE f \in Seq(Items) /\ Len(f) <= MaxItems
    <2>1. PICK n \in 0 .. MaxItems : f \in [1 .. n -> Items]
      BY <1>1 DEF Files
    <2> QED BY <2>1, BundleAssumption
  <1>2. ASSUME f \in Seq(Items), Len(f) <= MaxItems PROVE f \in Files
    <2>1. Len(f) \in 0 .. MaxItems /\ f \in [1 .. Len(f) -> Items]
      BY <1>2, BundleAssumption
    <2> QED BY <2>1 DEF Files
  <1> QED BY <1>1, <1>2

\* pem.Decode takes the first block it can read.
LEMMA PemDecodeFirst ==
    ASSUME NEW data \in Seq(Items), Readable(data) # {}
    PROVE  /\ PemDecode(data) \in Readable(data)
           /\ \A j \in Readable(data) : PemDecode(data) <= j
  <1>1. Readable(data) \subseteq Nat
    BY DEF Readable
  <1>2. \E i \in Readable(data) : \A j \in Readable(data) : i <= j
    BY <1>1, LeastElement
  <1> QED BY <1>2 DEF PemDecode

\* Where a certificate is an authority's nothing is wrong with it, and there
\* only; what is wrong else is one of Errors.
LEMMA CertificateError ==
    ASSUME NEW c \in Authorities \cup Others
    PROVE  /\ bundleCertificate(c) = "nil" <=> c \in Authorities
           /\ bundleCertificate(c) # "nil" => bundleCertificate(c) \in Errors
  <1>1. CASE c \in Authorities
    <2>1. c \notin Others
      BY <1>1, BundleAssumption DEF Others
    <2>2. bundleCertificate(c) = "nil"
      BY <2>1 DEF bundleCertificate, Others
    <2> QED BY <1>1, <2>2
  <1>2. CASE c \in Others
    <2>1. c \notin Authorities
      BY <1>2, BundleAssumption DEF Others
    <2>2. bundleCertificate(c) # "nil"
      BY <1>2 DEF bundleCertificate, Others
    <2>3. bundleCertificate(c) \in Errors
      BY <1>2 DEF Errors
    <2> QED BY <2>1, <2>2, <2>3
  <1> QED BY <1>1, <1>2

\* An item is what its kind says.
LEMMA ItemFacts ==
    ASSUME NEW x \in Items
    PROVE  /\ x.kind \in {"block", "damaged", "text"}
           /\ x.kind = "block" => x.content \in Authorities \cup Others
           /\ x.kind # "block" => x.content = "none"
           /\ x.content \in Authorities => x.kind = "block"
  BY BundleAssumption DEF Items

\* A turn of the loop without an error: it has read a certificate of an
\* authority, the first that can be read, that was not seen before.
LEMMA TurnFacts ==
    ASSUME ReadInv, rest # << >>, TurnError = "nil"
    PROVE  /\ PemDecode(rest) \in 1 .. Len(rest)
           /\ PemDecode(rest) \in Readable(rest)
           /\ \A j \in Readable(rest) : PemDecode(rest) <= j
           /\ Opens(rest[1])
           /\ rest[PemDecode(rest)].kind = "block"
           /\ rest[PemDecode(rest)].content \in Authorities \ seen
  <1>1. decodeBlock(rest) = "nil"
    BY DEF TurnError
  <1>2. /\ Opens(rest[1]) /\ Readable(rest) # {}
        /\ bundleCertificate(rest[PemDecode(rest)].content) = "nil"
    BY <1>1 DEF decodeBlock
  <1>3. rest \in Seq(Items)
    BY DEF ReadInv
  <1>4. /\ PemDecode(rest) \in Readable(rest)
        /\ \A j \in Readable(rest) : PemDecode(rest) <= j
    BY <1>2, <1>3, PemDecodeFirst
  <1>5. PemDecode(rest) \in 1 .. Len(rest) /\ rest[PemDecode(rest)].kind = "block"
    BY <1>3, <1>4 DEF Readable
  <1>6. rest[PemDecode(rest)] \in Items
    BY <1>3, <1>5
  <1>7. rest[PemDecode(rest)].content \in Authorities
    BY <1>2, <1>5, <1>6, ItemFacts, CertificateError
  <1>8. rest[PemDecode(rest)].content \notin seen
    BY <1>1 DEF TurnError
  <1> QED BY <1>2, <1>4, <1>5, <1>7, <1>8

\* A turn that fails does so with one of the errors.
LEMMA TurnErrorType ==
    ASSUME ReadInv, rest # << >>
    PROVE  TurnError \in {"nil"} \cup Errors /\ TurnError \notin {"reading", "ok", "ReadFile"}
  <1>1. CASE decodeBlock(rest) \in {"ErrBundleUnexpectedData", "ErrBundleBlockDropped"}
    BY <1>1 DEF TurnError, Errors
  <1>2. CASE decodeBlock(rest) \notin {"ErrBundleUnexpectedData", "ErrBundleBlockDropped"}
    <2> DEFINE c == rest[PemDecode(rest)].content
    <2>1. Readable(rest) # {} /\ decodeBlock(rest) = bundleCertificate(c)
      BY <1>2 DEF decodeBlock
    <2>2. rest \in Seq(Items) /\ PemDecode(rest) \in Readable(rest)
      BY <2>1, PemDecodeFirst DEF ReadInv
    <2>3. rest[PemDecode(rest)] \in Items /\ rest[PemDecode(rest)].kind = "block"
      BY <2>2 DEF Readable
    <2>4. c \in Authorities \cup Others
      BY <2>3, ItemFacts
    <2>5. bundleCertificate(c) \in {"nil"} \cup Errors
      BY <2>4, CertificateError
    <2>6. bundleCertificate(c) \notin {"reading", "ok", "ReadFile"}
      BY DEF bundleCertificate
    <2> HIDE DEF c
    <2> QED BY <2>1, <2>5, <2>6 DEF TurnError, Errors, c
  <1> QED BY <1>1, <1>2

----------------------------------------------------------------------------
(* The steps. *)

\* A turn that adds a root: the sequences it leaves.
LEMMA AppendSequences ==
    ASSUME ReadInv, rest # << >>, TurnError = "nil", AppendRoot
    PROVE  /\ ReadInv'
           /\ Read' = Read + PemDecode(rest)
           /\ Read \in Nat /\ Read' <= Len(trimmed)
           /\ Len(roots') = Len(roots) + 1
           /\ \A i \in 1 .. Len(roots) : roots'[i] = roots[i]
           /\ roots'[Len(roots) + 1] = rest[PemDecode(rest)].content
           /\ rest[PemDecode(rest)] = trimmed[Read']
  <1> DEFINE i == PemDecode(rest)
             c == rest[i].content
  <1>1. i \in 1 .. Len(rest) /\ c \in Authorities
    BY TurnFacts
  <1>2. /\ roots' = Append(roots, c)
        /\ rest' = SubSeq(rest, i + 1, Len(rest))
        /\ trimmed' = trimmed
    BY DEF AppendRoot
  <1>3. /\ trimmed \in Seq(Items) /\ rest \in Seq(Items) /\ roots \in Seq(Authorities)
        /\ Len(trimmed) <= MaxItems /\ Len(roots) + Len(rest) <= Len(trimmed)
        /\ \A j \in 1 .. Len(rest) : rest[j] = trimmed[Read + j]
    BY DEF ReadInv
  <1> HIDE DEF i, c
  <1>4. /\ rest' \in Seq(Items) /\ Len(rest') = Len(rest) - i
        /\ \A j \in 1 .. Len(rest') : rest'[j] = rest[i + j]
    BY <1>1, <1>2, <1>3
  <1>5. /\ roots' \in Seq(Authorities) /\ Len(roots') = Len(roots) + 1
        /\ \A j \in 1 .. Len(roots) : roots'[j] = roots[j]
        /\ roots'[Len(roots) + 1] = c
    BY <1>1, <1>2, <1>3
  <1>6. Read' = Read + i /\ Read \in Nat /\ Read' <= Len(trimmed)
    <2>1. Len(trimmed) \in Nat /\ Len(rest) \in Nat /\ i \in Nat /\ Len(roots) \in Nat
      BY <1>1, <1>3
    <2>2. Len(rest) <= Len(trimmed) /\ i <= Len(rest)
      BY <1>1, <1>3, <2>1
    <2>3. Read' = Len(trimmed) - Len(rest') /\ Read = Len(trimmed) - Len(rest)
      BY <1>2 DEF Read
    <2> QED BY <1>4, <2>1, <2>2, <2>3
  <1>7. \A j \in 1 .. Len(rest') : rest'[j] = trimmed'[Read' + j]
    <2> SUFFICES ASSUME NEW j \in 1 .. Len(rest') PROVE rest'[j] = trimmed[Read' + j]
      BY <1>2
    <2>1. rest'[j] = rest[i + j] /\ i + j \in 1 .. Len(rest)
      BY <1>1, <1>3, <1>4
    <2>2. rest[i + j] = trimmed[Read + (i + j)]
      BY <1>3, <2>1
    <2>3. Read + (i + j) = Read' + j
      BY <1>1, <1>4, <1>6
    <2> QED BY <2>1, <2>2, <2>3
  <1>8. rest[i] = trimmed[Read']
    BY <1>1, <1>3, <1>6
  <1>9. Len(roots') + Len(rest') <= Len(trimmed)
    BY <1>1, <1>3, <1>4, <1>5
  <1>10. ReadInv'
    BY <1>2, <1>3, <1>4, <1>5, <1>7, <1>9 DEF ReadInv
  <1> QED BY <1>5, <1>6, <1>8, <1>10 DEF i, c

\* The new root is one that was not there, and the expiry follows.
LEMMA AppendRoots ==
    ASSUME IInv, rest # << >>, TurnError = "nil", AppendRoot
    PROVE  DistinctInv' /\ ExpiryInv'
  <1> DEFINE c == rest[PemDecode(rest)].content
             n == Len(roots)
  <1>1. c \in Authorities /\ c \notin seen
    BY TurnFacts DEF IInv
  <1>2. /\ roots \in Seq(Authorities) /\ roots' \in Seq(Authorities)
        /\ Len(roots') = n + 1
        /\ \A i \in 1 .. n : roots'[i] = roots[i]
        /\ roots'[n + 1] = c
    BY AppendSequences DEF IInv, ReadInv
  <1>3. earliestExpiry' = IF earliestExpiry = 0 \/ NotAfter[c] < earliestExpiry
                          THEN NotAfter[c] ELSE earliestExpiry
    BY DEF AppendRoot
  <1>4. NotAfter[c] \in Nat \ {0}
    BY <1>1, BundleAssumption
  <1> HIDE DEF c, n
  <1>5. n \in Nat /\ DOMAIN roots = 1 .. n /\ DOMAIN roots' = 1 .. n + 1
    BY <1>2 DEF n
  <1>6. seen' = seen \cup {c}
    <2>1. ASSUME NEW x \in seen' PROVE x \in seen \cup {c}
      <3>1. PICK i \in 1 .. n + 1 : x = roots'[i]
        BY <1>5, <2>1 DEF seen
      <3> QED BY <1>2, <1>5, <3>1 DEF seen
    <2>2. ASSUME NEW x \in seen PROVE x \in seen'
      <3>1. PICK i \in 1 .. n : x = roots[i]
        BY <1>5, <2>2 DEF seen
      <3>2. i \in DOMAIN roots' /\ roots'[i] = x
        BY <1>2, <1>5, <3>1
      <3> QED BY <3>2 DEF seen
    <2>3. c \in seen'
      <3>1. n + 1 \in DOMAIN roots'
        BY <1>5
      <3> QED BY <1>2, <3>1 DEF seen
    <2> QED BY <2>1, <2>2, <2>3
  <1>7. DistinctInv'
    <2>1. IsFiniteSet(seen) /\ Cardinality(seen) = n
      BY DEF IInv, DistinctInv, n
    <2>2. IsFiniteSet(seen') /\ Cardinality(seen') = Len(roots')
      BY <1>1, <1>2, <1>6, <2>1, FS_AddElement
    <2>3. \A i \in DOMAIN roots : roots[i] # c
      BY <1>1 DEF seen
    <2>4. ASSUME NEW i \in DOMAIN roots', NEW j \in DOMAIN roots', roots'[i] = roots'[j]
          PROVE  i = j
      <3>1. CASE i = n + 1 \/ j = n + 1
        BY <1>2, <1>5, <2>3, <2>4, <3>1
      <3>2. CASE i # n + 1 /\ j # n + 1
        <4>1. i \in DOMAIN roots /\ j \in DOMAIN roots
          BY <1>5, <3>2
        <4> QED BY <1>2, <1>5, <2>4, <4>1 DEF IInv, DistinctInv
      <3> QED BY <3>1, <3>2
    <2> QED BY <2>2, <2>4 DEF DistinctInv
  <1>8. ExpiryInv'
    <2>1. earliestExpiry \in Nat /\ (roots = << >> <=> earliestExpiry = 0)
      BY DEF IInv, ExpiryInv
    <2>2. roots' # << >> /\ earliestExpiry' \in Nat \ {0}
      BY <1>2, <1>3, <1>4, <1>5, <2>1
    <2>3. CASE roots = << >>
      <3>1. seen = {}
        BY <2>3 DEF seen
      <3>2. earliestExpiry' = NotAfter[c] /\ seen' = {c}
        BY <1>3, <1>6, <2>1, <2>3, <3>1
      <3> QED BY <1>4, <2>2, <3>2 DEF ExpiryInv
    <2>4. CASE roots # << >>
      <3>1. PICK d \in seen : earliestExpiry = NotAfter[d]
        BY <2>4 DEF IInv, ExpiryInv
      <3>2. \A e \in seen : earliestExpiry <= NotAfter[e]
        BY <2>4 DEF IInv, ExpiryInv
      <3>3. \A e \in seen : NotAfter[e] \in Nat
        <4>1. seen \subseteq Authorities
          BY <1>2 DEF seen
        <4> QED BY <4>1, BundleAssumption
      <3>4. \A e \in seen' : earliestExpiry' <= NotAfter[e]
        <4>1. ASSUME NEW e \in seen PROVE earliestExpiry' <= NotAfter[e]
          <5>1. earliestExpiry' <= earliestExpiry
            BY <1>3, <1>4, <2>1, <2>4
          <5>2. earliestExpiry <= NotAfter[e] /\ NotAfter[e] \in Nat
            BY <3>2, <3>3
          <5> QED BY <2>1, <2>2, <5>1, <5>2
        <4>2. earliestExpiry' <= NotAfter[c]
          BY <1>3, <1>4, <2>1
        <4> QED BY <1>6, <4>1, <4>2
      <3>5. \E e \in seen' : earliestExpiry' = NotAfter[e]
        BY <1>3, <1>6, <3>1
      <3> QED BY <2>2, <3>4, <3>5 DEF ExpiryInv
    <2> QED BY <2>3, <2>4
  <1> QED BY <1>7, <1>8

\* In a flat file the roots stay in step with the items, or fall behind the
\* markers for good.
LEMMA AppendFlat ==
    ASSUME IInv, rest # << >>, TurnError = "nil", AppendRoot, Flat
    PROVE  InStep' \/ Behind'
  <1> DEFINE i == PemDecode(rest)
             n == Len(roots)
  <1>1. /\ i \in 1 .. Len(rest)
        /\ \A j \in Readable(rest) : i <= j
        /\ Opens(rest[1]) /\ rest[i].kind = "block"
    BY TurnFacts DEF IInv
  <1>2. /\ Read' = Read + i /\ Read \in Nat /\ Read' <= Len(trimmed)
        /\ Len(roots') = n + 1
        /\ \A j \in 1 .. n : roots'[j] = roots[j]
        /\ roots'[n + 1] = rest[i].content
        /\ rest[i] = trimmed[Read']
    BY AppendSequences DEF IInv
  <1>3. trimmed' = trimmed
    BY DEF AppendRoot
  <1>4. /\ n \in Nat /\ Len(rest) \in Nat /\ DOMAIN rest = 1 .. Len(rest)
        /\ rest \in Seq(Items)
        /\ rest[1] = trimmed[Read + 1]
    BY <1>1 DEF IInv, ReadInv
  <1> HIDE DEF i, n
  <1> DEFINE m == Read + i
  <1>5. m = Read' /\ m \in Nat /\ Read < m /\ m <= Len(trimmed)
    BY <1>1, <1>2, <1>4
  <1> HIDE DEF m
  <1>6. \A k \in Nat : IsFiniteSet(Markers(k)) /\ Cardinality(Markers(k)) \in Nat
    <2> SUFFICES ASSUME NEW k \in Nat
                 PROVE  IsFiniteSet(Markers(k)) /\ Cardinality(Markers(k)) \in Nat
      OBVIOUS
    <2>1. IsFiniteSet(1 .. k) /\ Markers(k) \in SUBSET (1 .. k)
      BY FS_Interval DEF Markers
    <2> QED BY <2>1, FS_Subset, FS_CardinalityType
  <1>7. m \in Markers(m) /\ m \notin Markers(Read) /\ Markers(Read) \subseteq Markers(m)
    BY <1>1, <1>2, <1>5 DEF Markers, Opens
  <1>8. Markers(Read)' = Markers(m)
    BY <1>3, <1>5 DEF Markers
  <1>9. CASE Behind
    <2>1. PICK d \in 1 .. Read : trimmed[d].kind = "damaged"
      BY <1>9 DEF Behind
    <2>2. d \in 1 .. Read' /\ trimmed'[d].kind = "damaged"
      BY <1>2, <1>3, <1>5, <2>1
    <2>3. Cardinality(Markers(Read) \cup {m}) = Cardinality(Markers(Read)) + 1
      BY <1>2, <1>6, <1>7, FS_AddElement
    <2>4. Markers(Read) \cup {m} \in SUBSET Markers(m)
      BY <1>7
    <2>5. Cardinality(Markers(Read) \cup {m}) <= Cardinality(Markers(m))
      BY <1>5, <1>6, <2>4, FS_Subset
    <2>6. Cardinality(Markers(Read)) > n
      BY <1>9 DEF Behind, n
    <2>7. Cardinality(Markers(m)) > n + 1
      BY <1>2, <1>4, <1>5, <1>6, <2>3, <2>5, <2>6
    <2> QED BY <1>2, <1>8, <2>2, <2>7 DEF Behind
  <1>10. CASE InStep /\ i = 1
    <2>1. Read = n /\ \A j \in 1 .. n : trimmed[j].content = roots[j]
      BY <1>10 DEF InStep, n
    <2>2. Read' = n + 1
      BY <1>2, <1>10, <2>1
    <2>3. \A j \in 1 .. n + 1 : trimmed[j].content = roots'[j]
      BY <1>2, <1>4, <2>1, <2>2
    <2> QED BY <1>2, <1>3, <2>2, <2>3 DEF InStep
  <1>11. CASE InStep /\ i # 1
    <2>1. Read = n /\ \A j \in 1 .. n : trimmed[j].content = roots[j]
      BY <1>11 DEF InStep, n
    <2>2. 1 \notin Readable(rest)
      BY <1>1, <1>4, <1>11 DEF Readable
    <2>3. rest[1].kind = "damaged"
      BY <1>1, <1>4, <2>2 DEF Readable, Opens
    <2>4. Read + 1 \in 1 .. Read' /\ trimmed'[Read + 1].kind = "damaged"
      BY <1>1, <1>2, <1>3, <1>4, <2>3
    <2>5. Read + 1 # m /\ Read + 1 \in 1 .. m
      BY <1>1, <1>2, <1>11 DEF m
    <2>6. \A j \in 1 .. n : trimmed[j].kind = "block"
      <3> SUFFICES ASSUME NEW j \in 1 .. n PROVE trimmed[j].kind = "block"
        OBVIOUS
      <3>1. trimmed[j] \in Items /\ roots[j] \in Authorities
        BY <1>2, <1>5, <2>1 DEF IInv, ReadInv, n
      <3> QED BY <2>1, <3>1, ItemFacts
    <2>7. (1 .. n) \cup {Read + 1} \cup {m} \in SUBSET Markers(m)
      <3>1. Read + 1 \in Markers(m)
        BY <1>4, <2>3, <2>5 DEF Markers, Opens
      <3>2. 1 .. n \subseteq Markers(m)
        BY <1>2, <1>4, <1>5, <2>1, <2>6 DEF Markers, Opens
      <3> QED BY <1>7, <3>1, <3>2
    <2>8. Cardinality((1 .. n) \cup {Read + 1} \cup {m}) = n + 2
      <3>1. IsFiniteSet(1 .. n) /\ Cardinality(1 .. n) = n
        BY <1>4, FS_Interval
      <3>2. /\ IsFiniteSet((1 .. n) \cup {Read + 1})
            /\ Cardinality((1 .. n) \cup {Read + 1}) = n + 1
        <4>1. Read + 1 \notin 1 .. n
          BY <1>4, <2>1
        <4> QED BY <3>1, <4>1, FS_AddElement
      <3>3. m \notin (1 .. n) \cup {Read + 1}
        BY <1>4, <1>5, <2>1, <2>5
      <3>4. Cardinality((1 .. n) \cup {Read + 1} \cup {m})
              = Cardinality((1 .. n) \cup {Read + 1}) + 1
        BY <3>2, <3>3, FS_AddElement
      <3> QED BY <1>4, <3>2, <3>4
    <2>9. Cardinality(Markers(m)) > n + 1
      <3>1. Cardinality((1 .. n) \cup {Read + 1} \cup {m}) <= Cardinality(Markers(m))
        BY <1>5, <1>6, <2>7, FS_Subset
      <3> QED BY <1>4, <1>5, <1>6, <2>8, <3>1
    <2> QED BY <1>2, <1>8, <2>4, <2>9 DEF Behind
  <1> QED BY <1>9, <1>10, <1>11 DEF IInv, FlatInv

\* A turn of a well-formed file reads the item at the head of what is left.
LEMMA WellFormedTurn ==
    ASSUME IInv, rest # << >>, Flat, WellFormed
    PROVE  InStep /\ TurnError = "nil"
  <1>1. /\ trimmed \in Seq(Items) /\ rest \in Seq(Items) /\ Read \in Nat
        /\ Read + 1 \in 1 .. Len(trimmed) /\ rest[1] = trimmed[Read + 1]
        /\ 1 \in DOMAIN rest
    <2>1. /\ trimmed \in Seq(Items) /\ rest \in Seq(Items) /\ roots \in Seq(Authorities)
          /\ Len(roots) + Len(rest) <= Len(trimmed)
          /\ \A i \in 1 .. Len(rest) : rest[i] = trimmed[Read + i]
      BY DEF IInv, ReadInv
    <2>2. Len(trimmed) \in Nat /\ Len(rest) \in Nat \ {0} /\ Len(roots) \in Nat
      BY <2>1
    <2> QED BY <2>1, <2>2 DEF Read
  <1>2. \A i \in DOMAIN trimmed : trimmed[i].content \in Authorities /\ trimmed[i].kind = "block"
    BY <1>1, ItemFacts DEF WellFormed
  <1>3. InStep
    <2> SUFFICES ASSUME Behind PROVE FALSE
      BY DEF IInv, FlatInv
    <2>1. PICK i \in 1 .. Read : trimmed[i].kind = "damaged"
      BY DEF Behind
    <2> QED BY <1>1, <1>2, <2>1
  <1>4. 1 \in Readable(rest) /\ Opens(rest[1]) /\ rest[1].content \in Authorities
    BY <1>1, <1>2 DEF Readable, Opens
  <1>5. PemDecode(rest) = 1
    <2>1. /\ PemDecode(rest) \in Readable(rest)
          /\ \A j \in Readable(rest) : PemDecode(rest) <= j
      BY <1>1, <1>4, PemDecodeFirst
    <2>2. PemDecode(rest) \in Nat \ {0} /\ PemDecode(rest) <= 1
      BY <1>1, <1>4, <2>1 DEF Readable
    <2> QED BY <2>2
  <1>6. decodeBlock(rest) = "nil"
    BY <1>4, <1>5, CertificateError DEF decodeBlock
  <1>7. rest[1].content \notin seen
    <2> SUFFICES ASSUME NEW i \in DOMAIN roots, roots[i] = rest[1].content PROVE FALSE
      BY DEF seen
    <2>1. i \in 1 .. Read
      BY <1>3 DEF IInv, ReadInv, InStep
    <2>2. trimmed[i].content = trimmed[Read + 1].content
      BY <1>1, <1>3, <2>1 DEF InStep
    <2>3. i = Read + 1
      BY <1>1, <2>1, <2>2 DEF WellFormed
    <2> QED BY <1>1, <2>1, <2>3
  <1> QED BY <1>3, <1>5, <1>6, <1>7 DEF TurnError

\* What the comparison of the counts sees of a flat file that has been read.
LEMMA MarkersAtTheEnd ==
    ASSUME IInv, rest = << >>, Flat
    PROVE  /\ Read = Len(trimmed) /\ Read \in Nat
           /\ beginMarkers(trimmed) = Cardinality(Markers(Read))
           /\ InStep => beginMarkers(trimmed) = Len(roots)
  <1>1. /\ trimmed \in Seq(Items) /\ roots \in Seq(Authorities)
        /\ Read = Len(trimmed) /\ Read \in Nat /\ DOMAIN trimmed = 1 .. Read
    BY DEF IInv, ReadInv, Read
  <1>2. {i \in DOMAIN trimmed : Opens(trimmed[i]) /\ (i = 1 \/ ~ trimmed[i].indented)}
          = Markers(Read)
    BY <1>1 DEF Flat, Markers
  <1>3. beginMarkers(trimmed) = Cardinality(Markers(Read))
    BY <1>2 DEF beginMarkers
  <1>4. ASSUME InStep PROVE Cardinality(Markers(Read)) = Len(roots)
    <2>1. \A i \in 1 .. Read : trimmed[i] \in Items /\ trimmed[i].content \in Authorities
      BY <1>1, <1>4 DEF InStep
    <2>2. Markers(Read) = 1 .. Read
      BY <2>1, ItemFacts DEF Markers, Opens
    <2>3. Cardinality(1 .. Read) = Read
      <3>1. \A k \in Nat : Cardinality(1 .. k) = k
        BY FS_Interval
      <3> QED BY <1>1, <3>1
    <2> QED BY <1>4, <2>2, <2>3 DEF InStep
  <1> QED BY <1>1, <1>3, <1>4

\* A turn of the loop.
LEMMA ReadBlockInv == IInv /\ ReadBlock => IInv'
  <1> SUFFICES ASSUME IInv, ReadBlock PROVE IInv' OBVIOUS
  <1>1. rest # << >> /\ result = "reading"
    BY DEF ReadBlock
  <1>2. CASE TurnError # "nil"
    <2>1. result' = TurnError /\ UNCHANGED <<trimmed, rest, roots, earliestExpiry>>
      BY <1>2 DEF ReadBlock, Fails
    <2>2. ReadInv' /\ DistinctInv' /\ ExpiryInv' /\ FlatInv'
      BY <2>1 DEF IInv, ReadInv, DistinctInv, ExpiryInv, FlatInv, Flat, InStep, Behind, Markers,
                  Read, seen
    <2>3. TurnError \in Errors /\ TurnError # "ok"
      BY <1>1, <1>2, TurnErrorType DEF IInv
    <2>4. Flat => ~ WellFormed
      BY <1>1, <1>2, WellFormedTurn
    <2>5. (Flat => ~ WellFormed)'
      BY <2>1, <2>4 DEF Flat, WellFormed
    <2>6. ResultInv'
      BY <2>1, <2>3, <2>5 DEF ResultInv, Errors
    <2> QED BY <2>2, <2>6 DEF IInv
  <1>3. CASE TurnError = "nil"
    <2>1. AppendRoot
      BY <1>3 DEF ReadBlock
    <2>2. result' = "reading" /\ trimmed' = trimmed
      BY <1>1, <2>1 DEF AppendRoot
    <2>3. ReadInv'
      BY <1>1, <1>3, <2>1, AppendSequences DEF IInv
    <2>4. DistinctInv' /\ ExpiryInv'
      BY <1>1, <1>3, <2>1, AppendRoots
    <2>5. Flat' => Flat
      BY <2>2 DEF Flat
    <2>6. FlatInv'
      BY <1>1, <1>3, <2>1, <2>5, AppendFlat DEF FlatInv
    <2>7. ResultInv'
      BY <2>2 DEF ResultInv
    <2> QED BY <2>3, <2>4, <2>6, <2>7 DEF IInv
  <1> QED BY <1>2, <1>3

\* What follows the loop.
LEMMA FinishInv == IInv /\ Finish => IInv'
  <1> SUFFICES ASSUME IInv, Finish PROVE IInv' OBVIOUS
  <1>1. rest = << >> /\ UNCHANGED <<trimmed, rest, roots, earliestExpiry>>
    BY DEF Finish, Fails
  <1>2. result' = IF roots = << >> THEN "ErrEmptyTrustBundle"
                  ELSE IF Len(roots) # beginMarkers(trimmed) THEN "ErrBundleBlockDropped"
                  ELSE "ok"
    BY DEF Finish, Fails
  <1>3. ReadInv' /\ DistinctInv' /\ ExpiryInv' /\ FlatInv'
    BY <1>1 DEF IInv, ReadInv, DistinctInv, ExpiryInv, FlatInv, Flat, InStep, Behind, Markers,
                Read, seen
  <1>4. ASSUME Flat, result' = "ok" PROVE InStep
    <2>1. Len(roots) = Cardinality(Markers(Read))
      BY <1>1, <1>2, <1>4, MarkersAtTheEnd
    <2>2. ~ Behind
      BY <2>1 DEF Behind, IInv, ReadInv
    <2> QED BY <1>4, <2>2 DEF IInv, FlatInv
  <1>5. ASSUME Flat, WellFormed PROVE result' = "ok"
    <2>1. InStep
      <3> SUFFICES ASSUME Behind PROVE FALSE
        BY <1>5 DEF IInv, FlatInv
      <3>1. PICK i \in 1 .. Read : trimmed[i].kind = "damaged"
        BY DEF Behind
      <3>2. i \in DOMAIN trimmed /\ trimmed[i] \in Items
        BY <1>1, <1>5, <3>1, MarkersAtTheEnd DEF IInv, ReadInv
      <3> QED BY <1>5, <3>1, <3>2, ItemFacts DEF WellFormed
    <2>2. roots # << >>
      BY <1>1, <1>5, <2>1, MarkersAtTheEnd DEF InStep, WellFormed, IInv, ReadInv
    <2> QED BY <1>1, <1>2, <1>5, <2>1, <2>2, MarkersAtTheEnd
  <1>6. ResultInv'
    <2>1. result' \in {"reading", "ok"} \cup Errors
      BY <1>2 DEF Errors
    <2>2. result' = "ok" => /\ rest' = << >> /\ roots' # << >>
                            /\ (Len(roots) = beginMarkers(trimmed))'
      BY <1>1, <1>2 DEF beginMarkers
    <2>3. result' = "ok" => (Flat => InStep)'
      BY <1>1, <1>4 DEF Flat, InStep, Read
    <2>4. Flat' /\ result' # "ok" => ~ WellFormed'
      BY <1>1, <1>5 DEF Flat, WellFormed
    <2> QED BY <2>1, <2>2, <2>3, <2>4 DEF ResultInv
  <1> QED BY <1>3, <1>6 DEF IInv

LEMMA InitInv == Init => IInv
  <1> SUFFICES ASSUME Init PROVE IInv OBVIOUS
  <1>1. trimmed \in Seq(Items) /\ Len(trimmed) <= MaxItems
    BY FileIsSequence DEF Init
  <1>2. rest = trimmed /\ roots = << >> /\ earliestExpiry = 0 /\ result \in {"reading", "ReadFile"}
    BY DEF Init
  <1>3. Read = 0
    BY <1>1, <1>2 DEF Read
  <1>4. ReadInv
    BY <1>1, <1>2, <1>3 DEF ReadInv
  <1>5. DistinctInv
    <2>1. seen = {}
      BY <1>2 DEF seen
    <2> QED BY <1>2, <2>1, FS_EmptySet DEF DistinctInv
  <1>6. ExpiryInv
    BY <1>2 DEF ExpiryInv
  <1>7. InStep
    BY <1>2, <1>3 DEF InStep
  <1> QED BY <1>2, <1>4, <1>5, <1>6, <1>7 DEF IInv, FlatInv, ResultInv, Errors

LEMMA NextInv == IInv /\ [Next]_vars => IInv'
  <1> SUFFICES ASSUME IInv, UNCHANGED vars PROVE IInv'
    BY ReadBlockInv, FinishInv DEF Next
  <1> QED BY DEF IInv, vars, ReadInv, DistinctInv, ExpiryInv, FlatInv, ResultInv, Flat, InStep,
                 Behind, Markers, Read, seen, WellFormed, beginMarkers

\* The inductive invariant holds in every behaviour of parseTrustBundle.
THEOREM Invariance == Spec => []IInv
  BY InitInv, NextInv, PTL DEF Spec

----------------------------------------------------------------------------
(* The properties the runs check, for every value of the constants. *)

\* The type invariant of the reader.
THEOREM TypeCorrect == Spec => []TypeOK
  <1>1. IInv => TypeOK
    <2> SUFFICES ASSUME IInv PROVE TypeOK OBVIOUS
    <2>1. trimmed \in Files /\ rest \in Files
      <3>1. /\ trimmed \in Seq(Items) /\ rest \in Seq(Items) /\ roots \in Seq(Authorities)
            /\ Len(trimmed) <= MaxItems /\ Len(roots) + Len(rest) <= Len(trimmed)
        BY DEF IInv, ReadInv
      <3>2. Len(rest) <= MaxItems
        <4>1. Len(trimmed) \in Nat /\ Len(rest) \in Nat /\ Len(roots) \in Nat
          BY <3>1
        <4> QED BY <3>1, <4>1, BundleAssumption
      <3> QED BY <3>1, <3>2, FileIsSequence
    <2> QED BY <2>1 DEF IInv, ReadInv, ExpiryInv, ResultInv, TypeOK
  <1> QED BY <1>1, Invariance, PTL

\* Where every marker stands at the start of its line, a bundle is accepted
\* exactly if it is well formed, and its anchors are the file's certificates in
\* their order.
THEOREM Acceptance == Spec => []AcceptsTheWellFormed
  <1>1. IInv => AcceptsTheWellFormed
    <2> SUFFICES ASSUME IInv, Flat, result \notin {"reading", "ReadFile"}
                 PROVE  /\ result = "ok" <=> WellFormed
                        /\ result = "ok" => roots = [i \in DOMAIN trimmed |-> trimmed[i].content]
      BY DEF AcceptsTheWellFormed, Flat
    <2>1. WellFormed => result = "ok"
      BY DEF IInv, ResultInv
    <2>2. ASSUME result = "ok"
          PROVE  WellFormed /\ roots = [i \in DOMAIN trimmed |-> trimmed[i].content]
      <3>1. rest = << >> /\ roots # << >> /\ InStep
        BY <2>2 DEF IInv, ResultInv
      <3>2. Read = Len(trimmed)
        BY <3>1, MarkersAtTheEnd
      <3>3. /\ trimmed \in Seq(Items) /\ roots \in Seq(Authorities)
            /\ DOMAIN roots = DOMAIN trimmed
            /\ \A i \in DOMAIN trimmed : trimmed[i].content = roots[i]
        BY <3>1, <3>2 DEF IInv, ReadInv, InStep
      <3>4. roots = [i \in DOMAIN trimmed |-> trimmed[i].content]
        BY <3>3
      <3>5. trimmed # << >>
        BY <3>1, <3>3
      <3>6. \A i \in DOMAIN trimmed : trimmed[i].content \in Authorities
        BY <3>3
      <3>7. \A i, j \in DOMAIN trimmed : trimmed[i].content = trimmed[j].content => i = j
        BY <3>3 DEF IInv, DistinctInv
      <3> QED BY <3>4, <3>5, <3>6, <3>7 DEF WellFormed
    <2> QED BY <2>1, <2>2
  <1> QED BY <1>1, Invariance, PTL

\* However the file is damaged or indented, an accepted bundle has no anchor
\* twice and none but authorities, as many as blocks open the file or a line of
\* it, and reports their earliest expiry.
THEOREM Soundness == Spec => []AcceptedIsSound
  <1>1. IInv => AcceptedIsSound
    <2> SUFFICES ASSUME IInv, result = "ok"
                 PROVE  /\ seen # {} /\ seen \subseteq Authorities
                        /\ Cardinality(seen) = Len(roots)
                        /\ Len(roots) = Cardinality({i \in DOMAIN trimmed :
                              Opens(trimmed[i]) /\ (trimmed[i].indented => i = 1)})
                        /\ \A c \in seen : earliestExpiry <= NotAfter[c]
                        /\ \E c \in seen : earliestExpiry = NotAfter[c]
      BY DEF AcceptedIsSound
    <2>1. roots # << >>
      BY DEF IInv, ResultInv
    <2>2. seen \subseteq Authorities
      BY DEF IInv, ReadInv, seen
    <2>3. /\ \A c \in seen : earliestExpiry <= NotAfter[c]
          /\ \E c \in seen : earliestExpiry = NotAfter[c]
      BY <2>1 DEF IInv, ExpiryInv
    <2>4. Len(roots) = Cardinality({i \in DOMAIN trimmed :
                          Opens(trimmed[i]) /\ (trimmed[i].indented => i = 1)})
      <3>1. {i \in DOMAIN trimmed : Opens(trimmed[i]) /\ (trimmed[i].indented => i = 1)}
              = {i \in DOMAIN trimmed : Opens(trimmed[i]) /\ (i = 1 \/ ~ trimmed[i].indented)}
        OBVIOUS
      <3> QED BY <3>1 DEF IInv, ResultInv, beginMarkers
    <2>5. seen # {}
      BY <2>1 DEF IInv, ReadInv, ExpiryInv
    <2> QED BY <2>2, <2>3, <2>4, <2>5 DEF IInv, DistinctInv
  <1> QED BY <1>1, Invariance, PTL

=============================================================================
