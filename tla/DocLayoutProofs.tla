---------------------------- MODULE DocLayoutProofs ----------------------------
(***************************************************************************)
(* The layout of the documents for any number of documents, any document   *)
(* size and any group size: no two tokens share a place, every place is    *)
(* inside the array, and the kernel loads back what was laid out.          *)
(***************************************************************************)
EXTENDS DocLayout, ScoringProofs

-----------------------------------------------------------------------------
(* Remainders *)

\* Adding the divisor keeps the remainder.
LEMMA NextRemainder ==
    ASSUME NEW b \in Nat \ {0}, NEW x \in Nat
    PROVE  (x + b) % b = x % b
<1>1. PICK q \in Nat, m \in 0..(b - 1) : q = x \div b /\ m = x % b /\ x = q * b + m
    BY DivMod
<1>2. x + b = (q + 1) * b + m /\ q + 1 \in Nat
    BY <1>1
<1>3. ((q + 1) * b + m) % b = m
    BY <1>1, <1>2, DivModUnique
<1> QED BY <1>1, <1>2, <1>3

\* Two numbers with the same remainder are less than the divisor apart only if
\* they are equal.
LEMMA SameRemainder ==
    ASSUME NEW b \in Nat \ {0}, NEW x \in Nat, NEW y \in Nat,
           x % b = y % b, x <= y, y < x + b
    PROVE  x = y
<1>1. PICK q \in Nat, m \in 0..(b - 1) : q = x \div b /\ m = x % b /\ x = q * b + m
    BY DivMod
<1>2. PICK r \in Nat, l \in 0..(b - 1) : r = y \div b /\ l = y % b /\ y = r * b + l
    BY DivMod
<1>3. ~(q < r)
    <2> SUFFICES ASSUME q < r PROVE FALSE
        OBVIOUS
    <2>1. q * b + b <= r * b
        BY TimesMonotone
    <2> QED BY <1>2, <1>1, <2>1
<1>4. ~(r < q)
    <2> SUFFICES ASSUME r < q PROVE FALSE
        OBVIOUS
    <2>1. r * b + b <= q * b
        BY TimesMonotone
    <2> QED BY <1>2, <1>1, <2>1
<1>5. q = r
    BY <1>3, <1>4
<1> QED BY <1>1, <1>2, <1>5

-----------------------------------------------------------------------------
(* The offsets *)

\* Token j is token m of group q of its document, and the offset is the place of
\* that group times the group size plus m.
AtParts(n, d, j, q, m) ==
    /\ j = q * GroupSize + m
    /\ FinalOffset(n, d, j) = (q * n + d) * GroupSize + m
    /\ FinalOffset(n, d, j) \in Nat
    /\ FinalOffset(n, d, j) \div GroupSize = q * n + d
    /\ FinalOffset(n, d, j) % GroupSize = m

\* Every token has such a group and place in it.
LEMMA OffsetParts ==
    ASSUME NEW n \in Nat, NEW d \in Nat, NEW j \in Nat
    PROVE  \E q \in Nat, m \in 0..(GroupSize - 1) : AtParts(n, d, j, q, m)
<1>1. GroupSize \in Nat \ {0}
    BY LayoutAssumption
<1>2. PICK q \in Nat, m \in 0..(GroupSize - 1) :
         q = j \div GroupSize /\ m = j % GroupSize /\ j = q * GroupSize + m
    BY <1>1, DivMod
<1>3. q * n + d \in Nat
    OBVIOUS
<1>4. q * (n * GroupSize) + d * GroupSize + m = (q * n + d) * GroupSize + m
    BY <1>1
<1>5. FinalOffset(n, d, j) = (q * n + d) * GroupSize + m
    BY <1>2, <1>4 DEF FinalOffset
<1>6. /\ (q * n + d) * GroupSize + m \in Nat
      /\ ((q * n + d) * GroupSize + m) \div GroupSize = q * n + d
      /\ ((q * n + d) * GroupSize + m) % GroupSize = m
    BY <1>1, <1>3, DivModUnique
<1>7. /\ FinalOffset(n, d, j) \in Nat
      /\ FinalOffset(n, d, j) \div GroupSize = q * n + d
      /\ FinalOffset(n, d, j) % GroupSize = m
    BY <1>5, <1>6
<1> QED BY <1>2, <1>5, <1>7 DEF AtParts

\* Tokens of different documents, or different tokens of one, never share a place.
THEOREM OffsetsDistinct ==
    ASSUME NEW n \in Nat, NEW d \in 0..(n - 1), NEW e \in 0..(n - 1), NEW j \in Nat, NEW k \in Nat,
           FinalOffset(n, d, j) = FinalOffset(n, e, k)
    PROVE  d = e /\ j = k
<1>1. GroupSize \in Nat \ {0} /\ n \in Nat \ {0} /\ d \in Nat /\ e \in Nat
    BY LayoutAssumption
<1>2. PICK p \in Nat, m \in 0..(GroupSize - 1) : AtParts(n, d, j, p, m)
    BY <1>1, OffsetParts
<1>3. PICK q \in Nat, l \in 0..(GroupSize - 1) : AtParts(n, e, k, q, l)
    BY <1>1, OffsetParts
<1>4. p * n + d = q * n + e /\ m = l
    BY <1>2, <1>3 DEF AtParts
<1>5. p = q /\ d = e
    <2>1. (p * n + d) \div n = p /\ (p * n + d) % n = d
        BY <1>1, <1>4, DivModUnique
    <2>2. (q * n + e) \div n = q /\ (q * n + e) % n = e
        BY <1>1, <1>4, DivModUnique
    <2> QED BY <1>4, <2>1, <2>2
<1> QED BY <1>2, <1>3, <1>4, <1>5 DEF AtParts

\* Every token of a document that is not too long has its place inside the array.
THEOREM OffsetsInRange ==
    ASSUME NEW n \in Nat, NEW d \in 0..(n - 1), NEW j \in 0..(MaxDocSize - 1)
    PROVE  FinalOffset(n, d, j) \in 0..(MaxDocSize * n - 1)
<1>1. /\ GroupSize \in Nat \ {0} /\ MaxDocSize \in Nat /\ MaxDocSize % GroupSize = 0
      /\ j \in Nat /\ d \in Nat /\ d < n /\ j < MaxDocSize
    BY LayoutAssumption
<1>2. PICK q \in Nat, m \in 0..(GroupSize - 1) : AtParts(n, d, j, q, m)
    BY <1>1, OffsetParts
<1>3. /\ j = q * GroupSize + m
      /\ FinalOffset(n, d, j) = (q * n + d) * GroupSize + m
      /\ FinalOffset(n, d, j) \in Nat
    BY <1>2 DEF AtParts
<1>4. PICK L \in Nat : MaxDocSize = L * GroupSize
    <2>1. PICK L \in Nat, z \in 0..(GroupSize - 1) :
             L = MaxDocSize \div GroupSize /\ z = MaxDocSize % GroupSize
             /\ MaxDocSize = L * GroupSize + z
        BY <1>1, DivMod
    <2> QED BY <1>1, <2>1
<1>5. q < L
    <2> SUFFICES ASSUME L <= q PROVE FALSE
        BY <1>4
    <2>1. CASE L = q
        BY <1>3, <1>1, <1>4, <2>1
    <2>2. CASE L < q
        <3>1. L * GroupSize + GroupSize <= q * GroupSize
            BY <1>1, <1>4, <2>2, TimesMonotone
        <3> QED BY <1>3, <1>1, <1>4, <3>1
    <2> QED BY <1>4, <2>1, <2>2
<1>6. q * n + n <= L * n
    BY <1>4, <1>5, TimesMonotone
<1>7. q * n \in Nat /\ L * n \in Nat
    BY <1>4
<1>8. q * n + d \in Nat /\ q * n + d < L * n
    BY <1>1, <1>6, <1>7
<1>9. (q * n + d) * GroupSize + GroupSize <= (L * n) * GroupSize
    BY <1>1, <1>7, <1>8, TimesMonotone
<1>10. (L * n) * GroupSize = MaxDocSize * n
    BY <1>1, <1>4
<1>11. (q * n + d) * GroupSize \in Nat /\ MaxDocSize * n \in Nat
    BY <1>1, <1>8
<1> QED BY <1>1, <1>3, <1>9, <1>10, <1>11
-----------------------------------------------------------------------------
(* Laying out and loading *)

\* The kernel computes the offset of a token in units of groups; it is the same.
LEMMA LoadedOffsetIsFinal ==
    ASSUME NEW n \in Nat, NEW d \in Nat, NEW j \in Nat
    PROVE  LoadedOffset(n, d, j) = FinalOffset(n, d, j)
<1>1. GroupSize \in Nat \ {0}
    BY LayoutAssumption
<1>2. PICK q \in Nat, m \in 0..(GroupSize - 1) :
         q = j \div GroupSize /\ m = j % GroupSize /\ j = q * GroupSize + m
    BY <1>1, DivMod
<1>3. q * (n * GroupSize) + d * GroupSize + m = (q * n + d) * GroupSize + m
    BY <1>1
<1> QED BY <1>2, <1>3 DEF LoadedOffset, FinalOffset

\* The layout and back: what a thread loads of its document is the document,
\* filled up with zeros, whatever the other documents are.
THEOREM LoadsWhatWasLaidOut ==
    ASSUME NEW Token, NEW n \in Nat, NEW ds \in [0..(n - 1) -> Seq(Token)],
           \A d \in 0..(n - 1) : Len(ds[d]) <= MaxDocSize,
           NEW d \in 0..(n - 1), NEW j \in 0..(MaxDocSize - 1)
    PROVE  LoadedToken(AlignDocs(ds), n, d, j) = IF j < Len(ds[d]) THEN ds[d][j + 1] ELSE 0
<1> DEFINE places == {p \in (DOMAIN ds) \X (0..(MaxDocSize - 1)) : p[2] < Len(ds[p[1]])}
           o == FinalOffset(n, d, j)
           there(p) == FinalOffset(n, p[1], p[2]) = o
<1>1. DOMAIN ds = 0..(n - 1) /\ Cardinality(DOMAIN ds) = n
    <2>1. Cardinality(0..(n - 1)) = n
        BY FS_Interval
    <2> QED BY <2>1
<1>2. d \in Nat /\ j \in Nat
    BY LayoutAssumption
<1>3. o \in 0..(MaxDocSize * n - 1)
    BY OffsetsInRange
<1>4. \A p \in places : there(p) => p = <<d, j>>
    <2> SUFFICES ASSUME NEW p \in places, there(p) PROVE p = <<d, j>>
        OBVIOUS
    <2>1. p[1] \in 0..(n - 1) /\ p[2] \in Nat /\ p = <<p[1], p[2]>>
        BY <1>1, LayoutAssumption
    <2> HIDE DEF places
    <2>2. p[1] = d /\ p[2] = j
        BY <1>2, <2>1, OffsetsDistinct
    <2> QED BY <2>1, <2>2
<1>5. <<d, j>> \in places <=> j < Len(ds[d])
    BY <1>1
<1>6. there(<<d, j>>)
    OBVIOUS
<1>7. AlignDocs(ds)[o] = IF \E p \in places : there(p)
                         THEN LET p == CHOOSE p \in places : there(p) IN ds[p[1]][p[2] + 1]
                         ELSE 0
    BY <1>1, <1>3 DEF AlignDocs
<1>8. LoadedToken(AlignDocs(ds), n, d, j) = AlignDocs(ds)[o]
    BY <1>2, LoadedOffsetIsFinal DEF LoadedToken
<1> HIDE DEF places, there, o
<1>9. CASE j < Len(ds[d])
    <2> DEFINE c == CHOOSE p \in places : there(p)
    <2>1. c = <<d, j>>
        BY <1>4, <1>5, <1>6, <1>9
    <2>2. AlignDocs(ds)[o] = ds[c[1]][c[2] + 1]
        BY <1>5, <1>6, <1>7, <1>9
    <2> HIDE DEF c
    <2>3. c[1] = d /\ c[2] = j
        BY <2>1
    <2> QED BY <1>8, <1>9, <2>2, <2>3
<1>10. CASE ~(j < Len(ds[d]))
    BY <1>4, <1>5, <1>7, <1>8, <1>10
<1> QED BY <1>9, <1>10
-----------------------------------------------------------------------------
(* Loading and walking *)

\* What a thread loads is its document filled up with zeros, and its walk over that
\* is the walk over the document.
THEOREM WalkSeesTheDocument ==
    ASSUME NEW n \in Nat, NEW ds \in [0..(n - 1) -> Seq(Nat)],
           \A d \in 0..(n - 1) : Len(ds[d]) <= MaxDocSize,
           NEW d \in 0..(n - 1), NEW query
    PROVE  /\ MergeJoin(query, LoadedDoc(AlignDocs(ds), n, d)) = MergeJoin(query, ds[d])
           /\ LoadedDoc(AlignDocs(ds), n, d) \in Seq(Nat)
<1> DEFINE doc == ds[d]
           padded == LoadedDoc(AlignDocs(ds), n, d)
<1>1. doc \in Seq(Nat) /\ Len(doc) \in Nat /\ Len(doc) <= MaxDocSize /\ MaxDocSize \in Nat
    BY LenProperties, LayoutAssumption
<1>2. padded = [j \in 1..MaxDocSize |-> LoadedToken(AlignDocs(ds), n, d, j - 1)]
    BY DEF LoadedDoc
<1>3. \A j \in 1..MaxDocSize : padded[j] = IF j <= Len(doc) THEN doc[j] ELSE 0
    <2> SUFFICES ASSUME NEW j \in 1..MaxDocSize
                 PROVE  padded[j] = IF j <= Len(doc) THEN doc[j] ELSE 0
        OBVIOUS
    <2>1. j - 1 \in 0..(MaxDocSize - 1)
        BY <1>1
    <2>2. LoadedToken(AlignDocs(ds), n, d, j - 1) = IF j - 1 < Len(ds[d]) THEN ds[d][(j - 1) + 1] ELSE 0
        BY <2>1, LoadsWhatWasLaidOut
    <2>3. j \in Nat /\ (j - 1) + 1 = j /\ (j - 1 < Len(doc) <=> j <= Len(doc))
        BY <1>1
    <2> QED BY <1>2, <2>2, <2>3
<1> HIDE DEF doc, padded
<1>4. \A j \in 1..MaxDocSize : padded[j] \in Nat
    <2> SUFFICES ASSUME NEW j \in 1..MaxDocSize PROVE padded[j] \in Nat
        OBVIOUS
    <2>1. CASE j <= Len(doc)
        <3>1. j \in 1..Len(doc)
            BY <1>1, <2>1
        <3>2. doc[j] \in Nat
            BY <1>1, <3>1, ElementOfSeq
        <3> QED BY <1>3, <2>1, <3>2
    <2>2. CASE ~(j <= Len(doc))
        BY <1>3, <2>2
    <2> QED BY <2>1, <2>2
<1>5. padded \in [1..MaxDocSize -> Nat]
    BY <1>2, <1>4
<1>6. padded \in Seq(Nat) /\ Len(padded) = MaxDocSize
    BY <1>1, <1>5, SeqDef
<1>7. Pads(padded, doc)
    BY <1>1, <1>3, <1>6 DEF Pads
<1>8. MergeJoin(query, padded) = MergeJoin(query, doc)
    BY <1>1, <1>6, <1>7, PaddingIsIgnored
<1> QED BY <1>6, <1>8 DEF doc, padded
=============================================================================
