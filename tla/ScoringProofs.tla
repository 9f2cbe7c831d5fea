----------------------------- MODULE ScoringProofs -----------------------------
(***************************************************************************)
(* What the merging walk reads and what it counts.  It reads the tokens in *)
(* front of a document's first 0, so that the zeros a layout fills a       *)
(* document up with count for nothing.  It counts the pairs the README     *)
(* asks for, if both sequences are sorted and no token is twice in the     *)
(* query.  The CPU counts them whatever is sorted or repeated.             *)
(***************************************************************************)
EXTENDS Scoring, FiniteSetTheorems, SequenceTheorems, WellFoundedInduction, TLAPS

-----------------------------------------------------------------------------
(* Smallest elements *)

\* A set of numbers that is not empty has a smallest element.
LEMMA Smallest ==
    ASSUME NEW S \in SUBSET Nat, S # {}
    PROVE  \E m \in S : \A y \in S : m <= y
<1>1. IsWellFoundedOn(OpToRel(<, Nat), Nat)
    BY NatLessThanWellFounded
<1>2. PICK m \in S : \A y \in S : ~(<<y, m>> \in OpToRel(<, Nat))
    BY <1>1, WFMin
<1>3. ASSUME NEW y \in S PROVE m <= y
    <2>1. ~(y < m)
        BY <1>2 DEF OpToRel
    <2> QED BY <2>1
<1> QED BY <1>3

\* Min finds it.
LEMMA MinIs ==
    ASSUME NEW S \in SUBSET Nat, NEW m \in S, \A y \in S : m <= y
    PROVE  Min(S) = m
<1>1. \A x \in S : (\A y \in S : x <= y) => x = m
    OBVIOUS
<1> QED BY <1>1 DEF Min

\* A finite set of numbers that is not empty has a largest element.
LEMMA Largest ==
    ASSUME NEW S \in SUBSET Nat, S # {}, IsFiniteSet(S)
    PROVE  \E m \in S : \A y \in S : m >= y
<1>1. PICK n \in Nat : ExistsBijection(1..n, S)
    BY FS_NatBijection
<1>2. PICK f \in [1..n -> S] : \A y \in S : \E i \in 1..n : f[i] = y
    BY <1>1 DEF ExistsBijection, Bijection, Injection, Surjection, IsInjective
<1>3. n \in 1..n
    <2>1. PICK y \in S : TRUE
        OBVIOUS
    <2>2. PICK i \in 1..n : f[i] = y
        BY <1>2, <2>1
    <2> QED BY <2>2
<1>4. \A i \in 1..n : f[i] \in S /\ f[i] \in Nat
    BY <1>2
<1> DEFINE Wrong == {i \in 1..n : ~\E m \in S : \A j \in 1..i : m >= f[j]}
<1>5. Wrong = {}
    <2> SUFFICES ASSUME Wrong # {} PROVE FALSE
        OBVIOUS
    <2>1. Wrong \in SUBSET Nat
        OBVIOUS
    <2>2. PICK i \in Wrong : \A k \in Wrong : i <= k
        BY <2>1, Smallest
    <2>3. i # 1
        BY <1>4, <2>2
    <2>4. i - 1 \in 1..n /\ ~(i <= i - 1) /\ i \in 1..n
        BY <2>2, <2>3
    <2>5. PICK m \in S : \A j \in 1..(i - 1) : m >= f[j]
        BY <2>2, <2>4
    <2>6. f[i] \in S /\ f[i] \in Nat /\ m \in Nat
        BY <1>4, <2>4
    <2>7. CASE m >= f[i]
        BY <2>2, <2>5, <2>7
    <2>8. CASE f[i] >= m
        <3>1. \A j \in 1..i : f[i] >= f[j]
            <4> SUFFICES ASSUME NEW j \in 1..i PROVE f[i] >= f[j]
                OBVIOUS
            <4>1. f[j] \in Nat
                BY <1>4, <2>4
            <4>2. j = i \/ j \in 1..(i - 1)
                BY <2>4
            <4> QED BY <2>5, <2>6, <2>8, <4>1, <4>2
        <3> QED BY <2>2, <2>6, <3>1
    <2> QED BY <2>6, <2>7, <2>8
<1>6. PICK m \in S : \A j \in 1..n : m >= f[j]
    BY <1>3, <1>5
<1>7. \A y \in S : m >= y
    BY <1>2, <1>6
<1> QED BY <1>7

\* Max finds it.
LEMMA MaxIs ==
    ASSUME NEW S \in SUBSET Nat, S # {}, IsFiniteSet(S)
    PROVE  Max(S) \in S /\ \A y \in S : Max(S) >= y
<1>1. \E m \in S : \A y \in S : m >= y
    BY Largest
<1> QED BY <1>1 DEF Max

\* A function with a finite domain takes finitely many values.
LEMMA RangeFinite ==
    ASSUME NEW f, IsFiniteSet(DOMAIN f)
    PROVE  IsFiniteSet(Range(f))
<1>1. [x \in DOMAIN f |-> f[x]] \in Surjection(DOMAIN f, Range(f))
    BY DEF Surjection, Range
<1> QED BY <1>1, FS_Surjection

-----------------------------------------------------------------------------
(* Flattening *)

\* The recursive function FlattenSeq is built from.
IsFlat(seqs, n, f) == f = [i \in 1..n |-> IF i = 1 THEN seqs[i] ELSE f[i - 1] \o seqs[i]]

LEMMA FlatExists ==
    ASSUME NEW seqs, NEW n \in Nat
    PROVE  \E f : IsFlat(seqs, n, f)
<1> DEFINE Without == {m \in Nat : ~\E f : IsFlat(seqs, m, f)}
<1> SUFFICES ASSUME Without # {} PROVE FALSE
    OBVIOUS
<1>1. PICK m \in Without : \A k \in Without : m <= k
    BY Smallest
<1>2. CASE m = 0
    <2> DEFINE g == [i \in 1..0 |-> <<>>]
    <2>1. g = [i \in 1..0 |-> IF i = 1 THEN seqs[i] ELSE g[i - 1] \o seqs[i]]
        OBVIOUS
    <2> QED BY <1>1, <1>2, <2>1 DEF IsFlat
<1>3. CASE m # 0
    <2>1. m \in Nat /\ m - 1 \in Nat /\ m - 1 \notin Without
        BY <1>1, <1>3
    <2>2. PICK f : IsFlat(seqs, m - 1, f)
        BY <2>1
    <2> DEFINE g == [i \in 1..m |-> IF i = m THEN (IF i = 1 THEN seqs[i] ELSE f[i - 1] \o seqs[i])
                                    ELSE f[i]]
    <2>3. \A i \in 1..(m - 1) : f[i] = IF i = 1 THEN seqs[i] ELSE f[i - 1] \o seqs[i]
        BY <2>2 DEF IsFlat
    <2>4. \A i \in 1..m : g[i] = IF i = 1 THEN seqs[i] ELSE g[i - 1] \o seqs[i]
        BY <1>3, <2>1, <2>3
    <2>5. g = [i \in 1..m |-> IF i = 1 THEN seqs[i] ELSE g[i - 1] \o seqs[i]]
        BY <2>4
    <2> QED BY <1>1, <2>5 DEF IsFlat
<1> QED BY <1>2, <1>3

\* It depends on the sequences up to its argument only.
LEMMA FlatPrefix ==
    ASSUME NEW seqs, NEW more, NEW f, NEW g, NEW n \in Nat, NEW m \in Nat, n <= m,
           IsFlat(seqs, n, f), IsFlat(more, m, g), \A i \in 1..n : seqs[i] = more[i]
    PROVE  \A i \in 1..n : f[i] = g[i]
<1> DEFINE Wrong == {i \in 1..n : f[i] # g[i]}
<1> SUFFICES ASSUME Wrong # {} PROVE FALSE
    OBVIOUS
<1>1. Wrong \in SUBSET Nat
    OBVIOUS
<1>2. PICK i \in Wrong : \A k \in Wrong : i <= k
    BY <1>1, Smallest
<1>3. /\ f[i] = IF i = 1 THEN seqs[i] ELSE f[i - 1] \o seqs[i]
      /\ g[i] = IF i = 1 THEN more[i] ELSE g[i - 1] \o more[i]
    <2>1. i \in 1..n /\ i \in 1..m
        BY <1>2
    <2> QED BY <2>1 DEF IsFlat
<1>4. i # 1
    BY <1>2, <1>3
<1>5. f[i - 1] = g[i - 1]
    <2>1. i - 1 \in 1..n /\ ~(i <= i - 1)
        BY <1>2, <1>4
    <2> QED BY <1>2, <2>1
<1> QED BY <1>2, <1>3, <1>4, <1>5

LEMMA FlattenIs ==
    ASSUME NEW seqs, Len(seqs) \in Nat \ {0}
    PROVE  \E f : IsFlat(seqs, Len(seqs), f) /\ FlattenSeq(seqs) = f[Len(seqs)]
<1>1. FlattenSeq(seqs) = (CHOOSE f : IsFlat(seqs, Len(seqs), f))[Len(seqs)]
    BY DEF FlattenSeq, IsFlat
<1>2. \E f : IsFlat(seqs, Len(seqs), f)
    BY FlatExists
<1> QED BY <1>1, <1>2

LEMMA FlattenEmpty == FlattenSeq(<<>>) = <<>>
BY DEF FlattenSeq

\* One sequence more at the end.
LEMMA FlattenAppend ==
    ASSUME NEW S, NEW seqs \in Seq(Seq(S)), NEW s \in Seq(S)
    PROVE  FlattenSeq(Append(seqs, s)) = FlattenSeq(seqs) \o s
<1> DEFINE more == Append(seqs, s)
           n == Len(seqs)
<1>1. /\ n \in Nat /\ Len(more) = n + 1 /\ more[n + 1] = s
      /\ \A i \in 1..n : seqs[i] = more[i]
    BY AppendProperties, LenProperties
<1> HIDE DEF more
<1>2. PICK g : IsFlat(more, n + 1, g) /\ FlattenSeq(more) = g[n + 1]
    <2>1. Len(more) \in Nat \ {0}
        BY <1>1
    <2>2. \E g : IsFlat(more, Len(more), g) /\ FlattenSeq(more) = g[Len(more)]
        BY <2>1, FlattenIs
    <2> QED BY <1>1, <2>2
<1>3. g[n + 1] = IF n + 1 = 1 THEN s ELSE g[n] \o s
    <2>1. n + 1 \in 1..(n + 1) /\ (n + 1) - 1 = n
        BY <1>1
    <2>2. g[n + 1] = IF n + 1 = 1 THEN more[n + 1] ELSE g[(n + 1) - 1] \o more[n + 1]
        BY <1>2, <2>1 DEF IsFlat
    <2> QED BY <1>1, <2>1, <2>2
<1>4. CASE n = 0
    <2>1. seqs = <<>>
        BY <1>4, EmptySeq
    <2>2. FlattenSeq(seqs) \o s = s
        BY <2>1, FlattenEmpty, ConcatEmptySeq
    <2> QED BY <1>2, <1>3, <1>4, <2>2 DEF more
<1>5. CASE n # 0
    <2>1. PICK f : IsFlat(seqs, n, f) /\ FlattenSeq(seqs) = f[n]
        BY <1>1, <1>5, FlattenIs
    <2>2. \A i \in 1..n : f[i] = g[i]
        <3>1. n <= n + 1 /\ n + 1 \in Nat
            BY <1>1
        <3> HIDE DEF n
        <3> QED BY <1>1, <1>2, <2>1, <3>1, FlatPrefix
    <2>3. f[n] = g[n] /\ n + 1 # 1
        BY <1>1, <1>5, <2>2
    <2> QED BY <1>2, <1>3, <2>1, <2>3 DEF more
<1> QED BY <1>4, <1>5

\* The prefixes of a sequence of sequences, flattened one after the other.
LEMMA FlattenPrefix ==
    ASSUME NEW S, NEW seqs \in Seq(Seq(S)), NEW i \in Nat, i + 1 <= Len(seqs)
    PROVE  /\ SubSeq(seqs, 1, i) \in Seq(Seq(S)) /\ Len(SubSeq(seqs, 1, i)) = i
           /\ SubSeq(seqs, 1, i + 1) = Append(SubSeq(seqs, 1, i), seqs[i + 1])
           /\ seqs[i + 1] \in Seq(S)
           /\ FlattenSeq(SubSeq(seqs, 1, i + 1)) = FlattenSeq(SubSeq(seqs, 1, i)) \o seqs[i + 1]
<1>1. Len(seqs) \in Nat /\ \A k \in 1..Len(seqs) : seqs[k] \in Seq(S)
    BY LenProperties, ElementOfSeq
<1>2. SubSeq(seqs, 1, i) \in Seq(Seq(S)) /\ Len(SubSeq(seqs, 1, i)) = i
    BY <1>1, SubSeqProperties
<1>3. seqs[i + 1] \in Seq(S)
    BY <1>1
<1>4. SubSeq(seqs, 1, i + 1) = Append(SubSeq(seqs, 1, i), seqs[i + 1])
    <2>1. 1 \in 1..Len(seqs) /\ i + 1 \in 1..Len(seqs) /\ (i + 1) - 1 = i
        BY <1>1
    <2>2. SubSeq(seqs, 1, i + 1) = SubSeq(seqs, 1, (i + 1) - 1) \o << seqs[i + 1] >>
        BY <2>1, SubSeqRecursiveSecond
    <2>3. SubSeq(seqs, 1, i) \o << seqs[i + 1] >> = Append(SubSeq(seqs, 1, i), seqs[i + 1])
        BY <1>2, <1>3, AppendIsConcat
    <2> QED BY <2>1, <2>2, <2>3
<1> QED BY <1>2, <1>3, <1>4, FlattenAppend

\* A flattened sequence holds what the sequences hold.
LEMMA FlattenTyped ==
    ASSUME NEW S, NEW seqs \in Seq(Seq(S))
    PROVE  FlattenSeq(seqs) \in Seq(S)
<1> DEFINE Wrong == {i \in 0..Len(seqs) : FlattenSeq(SubSeq(seqs, 1, i)) \notin Seq(S)}
<1>1. Len(seqs) \in Nat /\ SubSeq(seqs, 1, Len(seqs)) = seqs
    BY LenProperties, SubSeqFull
<1>2. Wrong = {}
    <2> SUFFICES ASSUME Wrong # {} PROVE FALSE
        OBVIOUS
    <2>1. Wrong \in SUBSET Nat
        BY <1>1
    <2>2. PICK i \in Wrong : \A k \in Wrong : i <= k
        BY <2>1, Smallest
    <2>3. i # 0
        <3>1. SubSeq(seqs, 1, 0) = <<>>
            BY SubSeqEmpty
        <3> QED BY <2>2, <3>1, FlattenEmpty, EmptySeq
    <2>4. PICK k \in Nat : i = k + 1 /\ k \in 0..Len(seqs) /\ k + 1 <= Len(seqs) /\ ~(i <= k)
        <3>1. i - 1 \in Nat /\ i = (i - 1) + 1 /\ i - 1 \in 0..Len(seqs) /\ (i - 1) + 1 <= Len(seqs)
                 /\ ~(i <= i - 1)
            BY <1>1, <2>2, <2>3
        <3> QED BY <3>1
    <2>5. FlattenSeq(SubSeq(seqs, 1, k)) \in Seq(S)
        BY <2>2, <2>4
    <2>6. /\ seqs[k + 1] \in Seq(S)
          /\ FlattenSeq(SubSeq(seqs, 1, k + 1)) = FlattenSeq(SubSeq(seqs, 1, k)) \o seqs[k + 1]
        BY <2>4, FlattenPrefix
    <2>7. FlattenSeq(SubSeq(seqs, 1, k + 1)) \in Seq(S)
        BY <2>5, <2>6, ConcatProperties
    <2>8. FlattenSeq(SubSeq(seqs, 1, i)) \notin Seq(S) /\ i = k + 1
        BY <2>2, <2>4
    <2> QED BY <2>7, <2>8
<1>3. Len(seqs) \in 0..Len(seqs)
    BY <1>1
<1>4. FlattenSeq(SubSeq(seqs, 1, Len(seqs))) \in Seq(S)
    BY <1>2, <1>3
<1> QED BY <1>1, <1>4

\* An element appended behind two sequences.
LEMMA ConcatAppend ==
    ASSUME NEW S, NEW s \in Seq(S), NEW t \in Seq(S), NEW e \in S
    PROVE  s \o Append(t, e) = Append(s \o t, e)
<1>1. Append(t, e) = t \o <<e>> /\ <<e>> \in Seq(S)
    BY AppendIsConcat
<1>2. s \o t \in Seq(S)
    BY ConcatProperties
<1>3. Append(s \o t, e) = (s \o t) \o <<e>>
    BY <1>2, AppendIsConcat
<1> QED BY <1>1, <1>3, ConcatAssociative

LEMMA FlattenConcatStep ==
    ASSUME NEW S, NEW seqs \in Seq(Seq(S)), NEW init \in Seq(Seq(S)), NEW last \in Seq(S),
           FlattenSeq(seqs \o init) = FlattenSeq(seqs) \o FlattenSeq(init)
    PROVE  FlattenSeq(seqs \o Append(init, last)) = FlattenSeq(seqs) \o FlattenSeq(Append(init, last))
<1> DEFINE T == Seq(S)
<1>1. seqs \in Seq(T) /\ init \in Seq(T) /\ last \in T
    OBVIOUS
<1>2. seqs \o init \in Seq(T) /\ seqs \o Append(init, last) = Append(seqs \o init, last)
    <2> HIDE DEF T
    <2> QED BY <1>1, ConcatAppend, ConcatProperties
<1>3. FlattenSeq(Append(seqs \o init, last)) = FlattenSeq(seqs \o init) \o last
    <2>1. seqs \o init \in Seq(Seq(S))
        BY <1>2
    <2> QED BY <2>1, FlattenAppend
<1>4. FlattenSeq(Append(init, last)) = FlattenSeq(init) \o last
    BY FlattenAppend
<1>5. FlattenSeq(seqs) \in Seq(S) /\ FlattenSeq(init) \in Seq(S)
    BY FlattenTyped
<1>6. (FlattenSeq(seqs) \o FlattenSeq(init)) \o last = FlattenSeq(seqs) \o (FlattenSeq(init) \o last)
    BY <1>5, ConcatAssociative
<1> QED BY <1>2, <1>3, <1>4, <1>6

\* Two sequences of sequences, one behind the other.
LEMMA FlattenConcat ==
    ASSUME NEW S, NEW seqs \in Seq(Seq(S)), NEW more \in Seq(Seq(S))
    PROVE  FlattenSeq(seqs \o more) = FlattenSeq(seqs) \o FlattenSeq(more)
<1> DEFINE Upto(i) == SubSeq(more, 1, i)
           Wrong == {i \in 0..Len(more) :
                        FlattenSeq(seqs \o Upto(i)) # FlattenSeq(seqs) \o FlattenSeq(Upto(i))}
<1>1. Len(more) \in Nat /\ Upto(Len(more)) = more
    BY LenProperties, SubSeqFull
<1>2. FlattenSeq(seqs) \in Seq(S)
    BY FlattenTyped
<1>3. Wrong = {}
    <2> SUFFICES ASSUME Wrong # {} PROVE FALSE
        OBVIOUS
    <2>1. Wrong \in SUBSET Nat
        BY <1>1
    <2>2. PICK i \in Wrong : \A k \in Wrong : i <= k
        BY <2>1, Smallest
    <2>3. i # 0
        <3>1. Upto(0) = <<>>
            BY SubSeqEmpty
        <3>2. seqs \o Upto(0) = seqs /\ FlattenSeq(seqs) \o <<>> = FlattenSeq(seqs)
            BY <1>2, <3>1, ConcatEmptySeq
        <3> QED BY <2>2, <3>1, <3>2, FlattenEmpty
    <2>4. PICK k \in Nat : i = k + 1 /\ k \in 0..Len(more) /\ k + 1 <= Len(more) /\ ~(i <= k)
        <3>1. i - 1 \in Nat /\ i = (i - 1) + 1 /\ i - 1 \in 0..Len(more) /\ (i - 1) + 1 <= Len(more)
                 /\ ~(i <= i - 1)
            BY <1>1, <2>2, <2>3
        <3> QED BY <3>1
    <2>5. FlattenSeq(seqs \o Upto(k)) = FlattenSeq(seqs) \o FlattenSeq(Upto(k))
        BY <2>2, <2>4
    <2>6. /\ Upto(k) \in Seq(Seq(S)) /\ more[k + 1] \in Seq(S)
          /\ Upto(k + 1) = Append(Upto(k), more[k + 1])
          /\ FlattenSeq(Upto(k + 1)) = FlattenSeq(Upto(k)) \o more[k + 1]
        BY <2>4, FlattenPrefix
    <2>7. FlattenSeq(seqs \o Upto(k + 1)) = FlattenSeq(seqs) \o FlattenSeq(Upto(k + 1))
        <3> DEFINE init == Upto(k)
                   last == more[k + 1]
        <3>1. /\ init \in Seq(Seq(S)) /\ last \in Seq(S)
              /\ FlattenSeq(seqs \o init) = FlattenSeq(seqs) \o FlattenSeq(init)
            BY <2>5, <2>6
        <3>2. Upto(k + 1) = Append(init, last)
            BY <2>6
        <3> HIDE DEF init, last, Upto
        <3>3. FlattenSeq(seqs \o Append(init, last)) = FlattenSeq(seqs) \o FlattenSeq(Append(init, last))
            BY <3>1, FlattenConcatStep
        <3> QED BY <3>2, <3>3
    <2>8. FlattenSeq(seqs \o Upto(i)) # FlattenSeq(seqs) \o FlattenSeq(Upto(i))
        BY <2>2
    <2> QED BY <2>4, <2>7, <2>8
<1>4. Len(more) \in 0..Len(more)
    BY <1>1
<1>5. FlattenSeq(seqs \o Upto(Len(more))) = FlattenSeq(seqs) \o FlattenSeq(Upto(Len(more)))
    BY <1>3, <1>4
<1> QED BY <1>1, <1>5

-----------------------------------------------------------------------------
(* Quotients and remainders *)

\* A number is its quotient times the divisor plus its remainder.
LEMMA DivMod ==
    ASSUME NEW b \in Nat \ {0}, NEW x \in Nat
    PROVE  \E q \in Nat, m \in 0..(b - 1) : q = x \div b /\ m = x % b /\ x = q * b + m
<1>1. PICK q \in Nat, m \in 0..(b - 1) : q = x \div b /\ m = x % b
    OBVIOUS
<1>2. x = q * b + m
    BY <1>1
<1> QED BY <1>1, <1>2

\* And it is so in one way only.
LEMMA DivModUnique ==
    ASSUME NEW b \in Nat \ {0}, NEW q \in Nat, NEW m \in 0..(b - 1)
    PROVE  /\ q * b + m \in Nat
           /\ (q * b + m) \div b = q
           /\ (q * b + m) % b = m
OBVIOUS

\* A smaller quotient leaves room for a whole divisor.
LEMMA TimesMonotone ==
    ASSUME NEW b \in Nat, NEW q \in Nat, NEW r \in Nat, q < r
    PROVE  q * b + b <= r * b
OBVIOUS

-----------------------------------------------------------------------------
(* Where the walk stops *)

Stops(doc) == {j \in 1..Len(doc) : doc[j] = 0} \cup {Len(doc) + 1}
Stop(doc) == Min(Stops(doc))

\* The walk stops at a token 0 or behind the document.
LEMMA StopIsThere ==
    ASSUME NEW doc, Len(doc) \in Nat
    PROVE  /\ Stop(doc) \in Stops(doc)
           /\ \A j \in Stops(doc) : Stop(doc) <= j
           /\ Stop(doc) - 1 \in 0..Len(doc)
<1>1. Stops(doc) \in SUBSET Nat /\ Stops(doc) # {}
    BY DEF Stops
<1>2. PICK m \in Stops(doc) : \A y \in Stops(doc) : m <= y
    BY <1>1, Smallest
<1>3. Stop(doc) = m
    BY <1>1, <1>2, MinIs DEF Stop
<1>4. m \in 1..(Len(doc) + 1)
    BY DEF Stops
<1> QED BY <1>2, <1>3, <1>4

\* A document, and the same filled up with zeros.
Pads(padded, doc) ==
    /\ Len(doc) <= Len(padded)
    /\ \A j \in 1..Len(padded) : padded[j] = IF j <= Len(doc) THEN doc[j] ELSE 0

\* The zeros do not move the place where the walk stops.
LEMMA PaddedStop ==
    ASSUME NEW doc \in Seq(Nat), NEW padded \in Seq(Nat), Pads(padded, doc)
    PROVE  Stop(padded) = Stop(doc)
<1>1. Len(doc) \in Nat /\ Len(padded) \in Nat
    BY LenProperties
<1>2. Stop(doc) \in Stops(padded)
    <2>1. Stop(doc) \in Stops(doc)
        BY <1>1, StopIsThere
    <2> QED BY <1>1, <2>1 DEF Stops, Pads
<1>3. ASSUME NEW j \in Stops(padded) PROVE Stop(doc) <= j
    <2>1. \A i \in Stops(doc) : Stop(doc) <= i
        BY <1>1, StopIsThere
    <2>2. Stop(doc) <= Len(doc) + 1 /\ Stop(doc) \in Nat
        BY <1>1, StopIsThere DEF Stops
    <2>3. j \in Stops(doc) \/ j >= Len(doc) + 1
        BY <1>1 DEF Stops, Pads
    <2>4. j \in Nat
        BY <1>1 DEF Stops
    <2> QED BY <1>1, <2>1, <2>2, <2>3, <2>4
<1>4. Stops(padded) \in SUBSET Nat
    BY <1>1 DEF Stops
<1> QED BY <1>2, <1>3, <1>4, MinIs DEF Stop

-----------------------------------------------------------------------------
(* The walk *)

\* The walk over a document is the walk over what is in front of the stop.
LEMMA MergeJoinWalks ==
    ASSUME NEW query, NEW doc
    PROVE  MergeJoin(query, doc) = Walk(query, SubSeq(doc, 1, Stop(doc) - 1))
BY DEF MergeJoin, Stop, Stops

\* The zeros a document is filled up with change nothing.
THEOREM PaddingIsIgnored ==
    ASSUME NEW query, NEW doc \in Seq(Nat), NEW padded \in Seq(Nat), Pads(padded, doc)
    PROVE  MergeJoin(query, padded) = MergeJoin(query, doc)
<1> DEFINE n == Stop(doc) - 1
<1>1. n \in 0..Len(doc) /\ Len(doc) \in Nat /\ Len(padded) \in Nat /\ Len(doc) <= Len(padded)
    BY StopIsThere, LenProperties DEF Pads
<1>2. Stop(padded) - 1 = n
    BY PaddedStop
<1> HIDE DEF n
<1>3. \A i \in 1..n : doc[i] \in Nat /\ padded[i] \in Nat /\ padded[i] = doc[i]
    <2> SUFFICES ASSUME NEW i \in 1..n PROVE doc[i] \in Nat /\ padded[i] \in Nat /\ padded[i] = doc[i]
        OBVIOUS
    <2>1. i \in 1..Len(doc) /\ i \in 1..Len(padded) /\ i <= Len(doc)
        BY <1>1
    <2>2. doc[i] \in Nat /\ padded[i] = doc[i]
        BY <2>1, ElementOfSeq DEF Pads
    <2> QED BY <2>2
<1>4. /\ SubSeq(doc, 1, n) \in Seq(Nat) /\ SubSeq(padded, 1, n) \in Seq(Nat)
      /\ Len(SubSeq(doc, 1, n)) = n /\ Len(SubSeq(padded, 1, n)) = n
      /\ \A i \in 1..n : SubSeq(doc, 1, n)[i] = doc[i] /\ SubSeq(padded, 1, n)[i] = padded[i]
    BY <1>1, <1>3, SubSeqProperties
<1>5. SubSeq(doc, 1, n) = SubSeq(padded, 1, n)
    BY <1>3, <1>4, SeqEqual
<1> QED BY <1>2, <1>5, MergeJoinWalks DEF n

\* The walk counts a token of the document at most once.
LEMMA WalkBound ==
    ASSUME NEW query, NEW doc, Len(doc) \in Nat
    PROVE  Walk(query, doc) \in 0..Len(doc)
<1>1. PICK T \in SUBSET (1..Len(doc)) : Walk(query, doc) = Cardinality(T)
    BY DEF Walk
<1>2. IsFiniteSet(1..Len(doc)) /\ Cardinality(1..Len(doc)) = Len(doc)
    BY FS_Interval
<1>3. IsFiniteSet(T) /\ Cardinality(T) <= Len(doc)
    BY <1>2, FS_Subset
<1>4. Cardinality(T) \in Nat
    BY <1>3, FS_CardinalityType
<1> QED BY <1>1, <1>3, <1>4

\* Whatever the walk compares a document with, it counts no more than the document's
\* tokens: no score of a kernel is above 1.
THEOREM MergeJoinBound ==
    ASSUME NEW query, NEW doc \in Seq(Nat)
    PROVE  MergeJoin(query, doc) \in 0..Len(doc)
<1> DEFINE n == Stop(doc) - 1
<1>1. n \in 0..Len(doc) /\ Len(doc) \in Nat
    BY StopIsThere, LenProperties
<1>2. MergeJoin(query, doc) = Walk(query, SubSeq(doc, 1, n))
    BY MergeJoinWalks
<1> HIDE DEF n
<1>3. Len(SubSeq(doc, 1, n)) = n
    <2>1. \A i \in 1..n : doc[i] \in Nat
        BY <1>1, ElementOfSeq
    <2> QED BY <1>1, <2>1, SubSeqProperties
<1>4. Walk(query, SubSeq(doc, 1, n)) \in 0..n
    <2> DEFINE s == SubSeq(doc, 1, n)
    <2>1. Len(s) = n /\ Len(s) \in Nat
        BY <1>1, <1>3
    <2> HIDE DEF s
    <2>2. Walk(query, s) \in 0..Len(s)
        BY <2>1, WalkBound
    <2> QED BY <2>1, <2>2 DEF s
<1> QED BY <1>1, <1>2, <1>4

-----------------------------------------------------------------------------
(* Where the walk is in the query *)

\* f is query_idx after each of the first n tokens of the document.
IsIdx(query, doc, n, f) ==
    f = [j \in 0..n |-> IF j = 0 THEN 1 ELSE Advance(query, f[j - 1], doc[j])]

\* There is such a function for every n: the first n without one would follow an
\* n with one.
LEMMA IdxExists ==
    ASSUME NEW query, NEW doc, NEW n \in Nat
    PROVE  \E f : IsIdx(query, doc, n, f)
<1> DEFINE Without == {m \in Nat : ~\E f : IsIdx(query, doc, m, f)}
<1> SUFFICES ASSUME Without # {} PROVE FALSE
    OBVIOUS
<1>1. PICK m \in Without : \A k \in Without : m <= k
    BY Smallest
<1>2. CASE m = 0
    <2> DEFINE g == [j \in 0..0 |-> 1]
    <2>1. g = [j \in 0..0 |-> IF j = 0 THEN 1 ELSE Advance(query, g[j - 1], doc[j])]
        OBVIOUS
    <2> QED BY <1>1, <1>2, <2>1 DEF IsIdx
<1>3. CASE m # 0
    <2>1. m \in Nat /\ m - 1 \in Nat /\ m - 1 \notin Without
        BY <1>1, <1>3
    <2>2. PICK f : IsIdx(query, doc, m - 1, f)
        BY <2>1
    <2> DEFINE g == [j \in 0..m |-> IF j = m THEN Advance(query, f[m - 1], doc[m]) ELSE f[j]]
    <2>3. \A j \in 0..(m - 1) :
             f[j] = IF j = 0 THEN 1 ELSE Advance(query, f[j - 1], doc[j])
        BY <2>2 DEF IsIdx
    <2>4. \A j \in 0..m : g[j] = IF j = 0 THEN 1 ELSE Advance(query, g[j - 1], doc[j])
        BY <1>3, <2>1, <2>3
    <2>5. g = [j \in 0..m |-> IF j = 0 THEN 1 ELSE Advance(query, g[j - 1], doc[j])]
        BY <2>4
    <2> QED BY <1>1, <2>5 DEF IsIdx
<1> QED BY <1>2, <1>3

LEMMA QueryIdxIs ==
    ASSUME NEW query, NEW doc, Len(doc) \in Nat
    PROVE  IsIdx(query, doc, Len(doc), QueryIdx(query, doc))
<1>1. QueryIdx(query, doc) = CHOOSE f : IsIdx(query, doc, Len(doc), f)
    BY DEF QueryIdx, IsIdx
<1>2. \E f : IsIdx(query, doc, Len(doc), f)
    BY IdxExists
<1> QED BY <1>1, <1>2

NonDecreasing(s) == \A i, j \in 1..Len(s) : i < j => s[i] <= s[j]
Increasing(s) == \A i, j \in 1..Len(s) : i < j => s[i] < s[j]

LEMMA BelowNext ==
    ASSUME NEW a \in Nat, NEW b \in Nat, NEW c \in Nat, a < b, b <= c
    PROVE  a < c
OBVIOUS

\* The inner loop stops at the first token from i on that is not smaller.
LEMMA AdvanceFacts ==
    ASSUME NEW query \in Seq(Nat), NEW i \in 1..(Len(query) + 1), NEW token \in Nat
    PROVE  /\ Advance(query, i, token) \in 1..(Len(query) + 1)
           /\ Advance(query, i, token) >= i
           /\ Advance(query, i, token) <= Len(query) => query[Advance(query, i, token)] >= token
           /\ \A k \in 1..Len(query) :
                 i <= k /\ k < Advance(query, i, token) => query[k] < token
<1> DEFINE S == {k \in i..Len(query) : query[k] >= token} \cup {Len(query) + 1}
<1>1. Len(query) \in Nat /\ \A k \in 1..Len(query) : query[k] \in Nat
    BY LenProperties, ElementOfSeq
<1>2. S \in SUBSET Nat /\ S # {}
    BY <1>1
<1>3. PICK m \in S : \A y \in S : m <= y
    BY <1>2, Smallest
<1>4. Advance(query, i, token) = m
    BY <1>2, <1>3, MinIs DEF Advance
<1>5. m \in i..(Len(query) + 1) /\ (m <= Len(query) => query[m] >= token)
    BY <1>1
<1>6. ASSUME NEW k \in 1..Len(query), i <= k, k < m PROVE query[k] < token
    <2>1. k \notin S
        BY <1>1, <1>3, <1>5, <1>6
    <2> QED BY <1>1, <1>6, <2>1
<1> QED BY <1>1, <1>4, <1>5, <1>6

\* After a token of a sorted document, query_idx is at the first token of the query
\* that is not smaller: what it has passed before was smaller than an earlier token.
AtToken(query, doc, j, x) ==
    /\ x \in 1..(Len(query) + 1)
    /\ j > 0 => /\ x <= Len(query) => query[x] >= doc[j]
                /\ \A k \in 1..Len(query) : k < x => query[k] < doc[j]
    /\ j = 0 => x = 1

LEMMA QueryIdxFacts ==
    ASSUME NEW query \in Seq(Nat), NEW doc \in Seq(Nat), NonDecreasing(doc),
           NEW n \in 0..Len(doc)
    PROVE  AtToken(query, doc, n, QueryIdx(query, doc)[n])
<1> DEFINE idx == QueryIdx(query, doc)
           Wrong == {j \in 0..Len(doc) : ~AtToken(query, doc, j, idx[j])}
<1>1. /\ Len(query) \in Nat /\ Len(doc) \in Nat
      /\ \A k \in 1..Len(query) : query[k] \in Nat
      /\ \A k \in 1..Len(doc) : doc[k] \in Nat
    BY LenProperties, ElementOfSeq
<1>2. \A j \in 0..Len(doc) : idx[j] = IF j = 0 THEN 1 ELSE Advance(query, idx[j - 1], doc[j])
    BY <1>1, QueryIdxIs DEF IsIdx
<1> HIDE DEF idx
<1> SUFFICES ASSUME Wrong # {} PROVE FALSE
    BY DEF idx
<1>3. PICK j \in Wrong : \A k \in Wrong : j <= k
    <2>1. Wrong \in SUBSET Nat
        BY <1>1
    <2> HIDE DEF Wrong
    <2> QED BY <2>1, Smallest
<1>4. CASE j = 0
    BY <1>1, <1>2, <1>3, <1>4 DEF AtToken
<1>5. CASE j # 0
    <2>1. j \in 1..Len(doc) /\ j - 1 \in 0..Len(doc) /\ j - 1 \notin Wrong
        BY <1>1, <1>3, <1>5
    <2>2. PICK x \in 1..(Len(query) + 1) : x = idx[j - 1] /\ AtToken(query, doc, j - 1, x)
        BY <2>1 DEF AtToken
    <2>3. PICK y \in 1..(Len(query) + 1) :
             /\ y = idx[j]
             /\ y <= Len(query) => query[y] >= doc[j]
             /\ \A k \in 1..Len(query) : x <= k /\ k < y => query[k] < doc[j]
        <3>1. idx[j] = Advance(query, x, doc[j]) /\ doc[j] \in Nat
            BY <1>1, <1>2, <2>1, <2>2
        <3> QED BY <3>1, AdvanceFacts
    <2>4. ASSUME NEW k \in 1..Len(query), k < y PROVE query[k] < doc[j]
        <3>1. CASE x <= k
            BY <2>3, <2>4, <3>1
        <3>2. CASE ~(x <= k)
            <4>1. k < x /\ x \in Nat /\ x # 1
                BY <1>1, <3>2
            <4>2. PICK i \in 1..Len(doc) : i = j - 1 /\ i < j
                BY <1>1, <2>1, <2>2, <4>1 DEF AtToken
            <4>3. query[k] < doc[i]
                BY <2>2, <4>1, <4>2 DEF AtToken
            <4>4. doc[i] <= doc[j]
                BY <2>1, <4>2 DEF NonDecreasing
            <4>5. query[k] \in Nat /\ doc[i] \in Nat /\ doc[j] \in Nat
                BY <1>1, <2>1
            <4> QED BY <4>3, <4>4, <4>5, BelowNext
        <3> QED BY <3>1, <3>2
    <2>5. AtToken(query, doc, j, idx[j])
        BY <1>1, <1>5, <2>1, <2>3, <2>4 DEF AtToken
    <2> QED BY <1>3, <2>5
<1> QED BY <1>4, <1>5

\* So the walk finds every token of the document that the query holds.
Held(query, doc) == {j \in 1..Len(doc) : \E i \in 1..Len(query) : query[i] = doc[j]}

LEMMA WalkCountsHeld ==
    ASSUME NEW query \in Seq(Nat), NEW doc \in Seq(Nat), NonDecreasing(query), NonDecreasing(doc)
    PROVE  Walk(query, doc) = Cardinality(Held(query, doc))
<1> DEFINE idx == QueryIdx(query, doc)
<1>1. /\ Len(query) \in Nat /\ Len(doc) \in Nat
      /\ \A k \in 1..Len(query) : query[k] \in Nat
      /\ \A k \in 1..Len(doc) : doc[k] \in Nat
    BY LenProperties, ElementOfSeq
<1>2. \A j \in 1..Len(doc) : AtToken(query, doc, j, idx[j])
    BY <1>1, QueryIdxFacts
<1>3. Walk(query, doc) =
        Cardinality({j \in 1..Len(doc) : idx[j] <= Len(query) /\ query[idx[j]] = doc[j]})
    BY DEF Walk
<1> HIDE DEF idx
<1>4. ASSUME NEW j \in 1..Len(doc)
      PROVE  idx[j] <= Len(query) /\ query[idx[j]] = doc[j]
               <=> \E i \in 1..Len(query) : query[i] = doc[j]
    <2>1. PICK x \in 1..(Len(query) + 1) : x = idx[j]
        BY <1>2 DEF AtToken
    <2>2. /\ x <= Len(query) => query[x] >= doc[j]
          /\ \A k \in 1..Len(query) : k < x => query[k] < doc[j]
        BY <1>1, <1>2, <2>1 DEF AtToken
    <2>3. ASSUME NEW i \in 1..Len(query), query[i] = doc[j]
          PROVE  x <= Len(query) /\ query[x] = doc[j]
        <3>1. ~(i < x)
            BY <1>1, <2>2, <2>3
        <3>2. x <= i /\ x \in 1..Len(query) /\ (x = i \/ x < i)
            BY <1>1, <3>1
        <3>3. query[x] <= query[i]
            BY <1>1, <3>2 DEF NonDecreasing
        <3> QED BY <1>1, <2>2, <2>3, <3>2, <3>3
    <2> QED BY <1>1, <2>1, <2>3
<1> QED BY <1>3, <1>4 DEF Held

\* In a query without repetition a token of the document is in one pair or none.
LEMMA PairsAreHeld ==
    ASSUME NEW query \in Seq(Nat), NEW doc \in Seq(Nat), Increasing(query)
    PROVE  PairCount(query, doc) = Cardinality(Held(query, doc))
<1> DEFINE Pairs == {p \in (1..Len(query)) \X (1..Len(doc)) : query[p[1]] = doc[p[2]]}
           f == [p \in Pairs |-> p[2]]
<1>1. /\ Len(query) \in Nat /\ Len(doc) \in Nat
      /\ \A k \in 1..Len(query) : query[k] \in Nat
    BY LenProperties, ElementOfSeq
<1>2. IsFiniteSet(Pairs)
    <2>1. IsFiniteSet(1..Len(query)) /\ IsFiniteSet(1..Len(doc))
        BY <1>1, FS_Interval
    <2>2. IsFiniteSet((1..Len(query)) \X (1..Len(doc)))
        BY <2>1, FS_Product
    <2>3. Pairs \in SUBSET ((1..Len(query)) \X (1..Len(doc)))
        OBVIOUS
    <2> QED BY <2>2, <2>3, FS_Subset
<1>3. f \in Bijection(Pairs, Held(query, doc))
    <2>1. f \in [Pairs -> Held(query, doc)]
        BY DEF Held
    <2>2. ASSUME NEW p \in Pairs, NEW r \in Pairs, f[p] = f[r] PROVE p = r
        <3>1. /\ p[1] \in 1..Len(query) /\ r[1] \in 1..Len(query)
              /\ p[2] = r[2] /\ query[p[1]] = query[r[1]]
              /\ p = <<p[1], p[2]>> /\ r = <<r[1], r[2]>>
            BY <2>2
        <3>2. ~(p[1] < r[1]) /\ ~(r[1] < p[1])
            <4>1. query[p[1]] \in Nat /\ query[r[1]] \in Nat
                BY <1>1, <3>1
            <4>2. ~(query[p[1]] < query[r[1]]) /\ ~(query[r[1]] < query[p[1]])
                BY <3>1, <4>1
            <4> QED BY <3>1, <4>2 DEF Increasing
        <3>3. p[1] = r[1]
            BY <1>1, <3>1, <3>2
        <3> QED BY <3>1, <3>3
    <2>3. ASSUME NEW j \in Held(query, doc) PROVE \E p \in Pairs : f[p] = j
        <3>1. PICK i \in 1..Len(query) : j \in 1..Len(doc) /\ query[i] = doc[j]
            BY DEF Held
        <3>2. <<i, j>> \in Pairs /\ f[<<i, j>>] = j
            BY <3>1
        <3> QED BY <3>2
    <2> QED BY <2>1, <2>2, <2>3 DEF Bijection, Injection, Surjection, IsInjective
<1>4. Cardinality(Held(query, doc)) = Cardinality(Pairs)
    BY <1>2, <1>3, FS_Bijection DEF ExistsBijection
<1> QED BY <1>4 DEF PairCount

\* The merging walk counts what the README defines, for all sorted sequences, if no
\* token is twice in the query and no token is 0.
THEOREM MergeJoinIsPairCount ==
    ASSUME NEW query \in Seq(Nat), NEW doc \in Seq(Nat),
           Increasing(query), NonDecreasing(doc),
           \A j \in 1..Len(doc) : doc[j] # 0
    PROVE  MergeJoin(query, doc) = PairCount(query, doc)
<1>1. Len(doc) \in Nat /\ Len(query) \in Nat
    BY LenProperties
<1>2. Stops(doc) = {Len(doc) + 1}
    BY DEF Stops
<1>3. Stop(doc) - 1 = Len(doc)
    BY <1>1, <1>2, StopIsThere
<1>4. SubSeq(doc, 1, Len(doc)) = doc
    BY SubSeqFull
<1>5. NonDecreasing(query)
    <2>1. \A k \in 1..Len(query) : query[k] \in Nat
        BY ElementOfSeq
    <2> QED BY <2>1 DEF Increasing, NonDecreasing
<1> QED BY <1>3, <1>4, <1>5, MergeJoinWalks, WalkCountsHeld, PairsAreHeld

-----------------------------------------------------------------------------
(* What the CPU counts *)

\* f is tmp_score after each of the first n tokens of the document.
IsTmpScore(query, doc, n, f) ==
    f = [j \in 0..n |-> IF j = 0 THEN 0 ELSE f[j - 1] + MapQuery(query, doc[j])]

LEMMA TmpScoreExists ==
    ASSUME NEW query, NEW doc, NEW n \in Nat
    PROVE  \E f : IsTmpScore(query, doc, n, f)
<1> DEFINE Without == {m \in Nat : ~\E f : IsTmpScore(query, doc, m, f)}
<1> SUFFICES ASSUME Without # {} PROVE FALSE
    OBVIOUS
<1>1. PICK m \in Without : \A k \in Without : m <= k
    BY Smallest
<1>2. CASE m = 0
    <2> DEFINE g == [j \in 0..0 |-> 0]
    <2>1. g = [j \in 0..0 |-> IF j = 0 THEN 0 ELSE g[j - 1] + MapQuery(query, doc[j])]
        OBVIOUS
    <2> QED BY <1>1, <1>2, <2>1 DEF IsTmpScore
<1>3. CASE m # 0
    <2>1. m \in Nat /\ m - 1 \in Nat /\ m - 1 \notin Without
        BY <1>1, <1>3
    <2>2. PICK f : IsTmpScore(query, doc, m - 1, f)
        BY <2>1
    <2> DEFINE g == [j \in 0..m |-> IF j = m THEN f[m - 1] + MapQuery(query, doc[m]) ELSE f[j]]
    <2>3. \A j \in 0..(m - 1) :
             f[j] = IF j = 0 THEN 0 ELSE f[j - 1] + MapQuery(query, doc[j])
        BY <2>2 DEF IsTmpScore
    <2>4. \A j \in 0..m : g[j] = IF j = 0 THEN 0 ELSE g[j - 1] + MapQuery(query, doc[j])
        BY <1>3, <2>1, <2>3
    <2>5. g = [j \in 0..m |-> IF j = 0 THEN 0 ELSE g[j - 1] + MapQuery(query, doc[j])]
        BY <2>4
    <2> QED BY <1>1, <2>5 DEF IsTmpScore
<1> QED BY <1>2, <1>3

LEMMA TmpScoreIs ==
    ASSUME NEW query, NEW doc, Len(doc) \in Nat
    PROVE  IsTmpScore(query, doc, Len(doc), TmpScore(query, doc))
<1>1. TmpScore(query, doc) = CHOOSE f : IsTmpScore(query, doc, Len(doc), f)
    BY DEF TmpScore, IsTmpScore
<1>2. \E f : IsTmpScore(query, doc, Len(doc), f)
    BY TmpScoreExists
<1> QED BY <1>1, <1>2

\* The pairs with one of the first n tokens of the document.
PairsUpTo(query, doc, n) == {p \in (1..Len(query)) \X (1..n) : query[p[1]] = doc[p[2]]}

LEMMA PairsFinite ==
    ASSUME NEW query, NEW doc, NEW n \in Nat, Len(query) \in Nat
    PROVE  /\ IsFiniteSet(PairsUpTo(query, doc, n))
           /\ Cardinality(PairsUpTo(query, doc, n)) \in Nat
<1>1. IsFiniteSet(1..Len(query)) /\ IsFiniteSet(1..n)
    BY FS_Interval
<1>2. IsFiniteSet((1..Len(query)) \X (1..n))
    BY <1>1, FS_Product
<1>3. PairsUpTo(query, doc, n) \in SUBSET ((1..Len(query)) \X (1..n))
    BY DEF PairsUpTo
<1>4. IsFiniteSet(PairsUpTo(query, doc, n))
    BY <1>2, <1>3, FS_Subset
<1> QED BY <1>4, FS_CardinalityType

\* One more token adds as many pairs as the query holds it.
LEMMA OneMoreToken ==
    ASSUME NEW query, NEW doc, NEW n \in Nat \ {0}, Len(query) \in Nat
    PROVE  Cardinality(PairsUpTo(query, doc, n)) =
              Cardinality(PairsUpTo(query, doc, n - 1)) + MapQuery(query, doc[n])
<1> DEFINE Old == PairsUpTo(query, doc, n - 1)
           All == PairsUpTo(query, doc, n)
           New == {p \in All : p[2] = n}
           At == {i \in 1..Len(query) : query[i] = doc[n]}
           f == [i \in At |-> <<i, n>>]
<1>1. All = Old \cup New /\ Old \cap New = {}
    BY DEF PairsUpTo
<1>2. f \in Bijection(At, New)
    <2>1. f \in [At -> New]
        BY DEF PairsUpTo
    <2>2. \A i \in At, j \in At : f[i] = f[j] => i = j
        OBVIOUS
    <2>3. ASSUME NEW p \in New PROVE \E i \in At : f[i] = p
        <3>1. p[1] \in At /\ p = <<p[1], n>>
            BY DEF PairsUpTo
        <3> QED BY <3>1
    <2> QED BY <2>1, <2>2, <2>3 DEF Bijection, Injection, Surjection, IsInjective
<1>3. IsFiniteSet(At)
    <2>1. IsFiniteSet(1..Len(query))
        BY FS_Interval
    <2> QED BY <2>1, FS_Subset
<1>4. IsFiniteSet(New) /\ Cardinality(New) = MapQuery(query, doc[n])
    <2>1. ExistsBijection(At, New)
        BY <1>2 DEF ExistsBijection
    <2> HIDE DEF At, New
    <2>2. IsFiniteSet(New) /\ Cardinality(New) = Cardinality(At)
        BY <1>3, <2>1, FS_Bijection
    <2> QED BY <2>2 DEF At, MapQuery
<1>5. IsFiniteSet(Old) /\ n - 1 \in Nat
    BY PairsFinite
<1> HIDE DEF Old, New, All
<1>6. Cardinality(Old \cup New) = Cardinality(Old) + Cardinality(New)
    <2>1. Cardinality(Old \cap New) = 0 /\ Cardinality(Old) \in Nat /\ Cardinality(New) \in Nat
        BY <1>1, <1>4, <1>5, FS_EmptySet, FS_CardinalityType
    <2>2. Cardinality(Old \cup New) =
            Cardinality(Old) + Cardinality(New) - Cardinality(Old \cap New)
        BY <1>4, <1>5, FS_Union
    <2> QED BY <2>1, <2>2
<1> QED BY <1>1, <1>4, <1>6 DEF Old, All

\* The CPU counts every pair, whatever is repeated or unsorted.
THEOREM CpuCountsPairs ==
    ASSUME NEW query \in Seq(Nat), NEW doc \in Seq(Nat)
    PROVE  /\ CpuIntersection(query, doc) = PairCount(query, doc)
           /\ CpuIntersection(query, doc) \in Nat
<1> DEFINE sum == TmpScore(query, doc)
           Wrong == {j \in 0..Len(doc) : sum[j] # Cardinality(PairsUpTo(query, doc, j))}
<1>1. Len(query) \in Nat /\ Len(doc) \in Nat
    BY LenProperties
<1>2. \A j \in 0..Len(doc) : sum[j] = IF j = 0 THEN 0 ELSE sum[j - 1] + MapQuery(query, doc[j])
    BY <1>1, TmpScoreIs DEF IsTmpScore
<1> HIDE DEF sum
<1>3. Wrong = {}
    <2> SUFFICES ASSUME Wrong # {} PROVE FALSE
        OBVIOUS
    <2>1. PICK j \in Wrong : \A k \in Wrong : j <= k
        <3>1. Wrong \in SUBSET Nat
            BY <1>1
        <3> HIDE DEF Wrong
        <3> QED BY <3>1, Smallest
    <2>2. CASE j = 0
        <3>1. PairsUpTo(query, doc, 0) = {}
            BY DEF PairsUpTo
        <3> QED BY <1>1, <1>2, <2>1, <2>2, <3>1, FS_EmptySet
    <2>3. CASE j # 0
        <3>1. j \in Nat \ {0} /\ j - 1 \in 0..Len(doc) /\ j - 1 \notin Wrong /\ j \in 0..Len(doc)
            BY <1>1, <2>1, <2>3
        <3>2. sum[j] = Cardinality(PairsUpTo(query, doc, j - 1)) + MapQuery(query, doc[j])
            BY <1>2, <2>3, <3>1
        <3> QED BY <1>1, <2>1, <3>1, <3>2, OneMoreToken
    <2> QED BY <2>2, <2>3
<1>4. sum[Len(doc)] = Cardinality(PairsUpTo(query, doc, Len(doc)))
    BY <1>1, <1>3
<1>5. CpuIntersection(query, doc) = sum[Len(doc)]
    BY DEF CpuIntersection, sum
<1>6. PairCount(query, doc) = Cardinality(PairsUpTo(query, doc, Len(doc)))
    BY DEF PairCount, PairsUpTo
<1>7. Cardinality(PairsUpTo(query, doc, Len(doc))) \in Nat
    BY <1>1, PairsFinite
<1> QED BY <1>4, <1>5, <1>6, <1>7

-----------------------------------------------------------------------------
(* Selection: selecting the best of parts and then the best of what was        *)
(* selected is selecting the best of the whole, for any entries and any k.     *)

Scores == Nat \X (Nat \ {0})
ScoredEntries == [id : Nat, score : Scores]

-----------------------------------------------------------------------------
(* The order of scores and of entries *)

\* r is as good as s.
AsGood(r, s) == r[1] * s[2] >= s[1] * r[2]

\* A product keeps the order, and a positive factor cancels.
LEMMA Scale ==
    ASSUME NEW a \in Nat, NEW b \in Nat, NEW c \in Nat, a >= b
    PROVE  a * c >= b * c
OBVIOUS

LEMMA Cancel ==
    ASSUME NEW a \in Nat, NEW b \in Nat, NEW c \in Nat \ {0}, a * c >= b * c
    PROVE  a >= b
<1> SUFFICES ASSUME b >= a + 1 PROVE FALSE
    OBVIOUS
<1>1. b * c >= (a + 1) * c
    BY Scale
<1>2. (a + 1) * c = a * c + c
    OBVIOUS
<1>3. a * c \in Nat /\ b * c \in Nat
    OBVIOUS
<1> QED BY <1>1, <1>2, <1>3

LEMMA AsGoodTransitive ==
    ASSUME NEW r \in Scores, NEW s \in Scores, NEW t \in Scores, AsGood(r, s), AsGood(s, t)
    PROVE  AsGood(r, t)
<1> DEFINE a == r[1]  b == r[2]  c == s[1]  d == s[2]  e == t[1]  f == t[2]
<1>1. /\ a \in Nat /\ c \in Nat /\ e \in Nat
      /\ b \in Nat \ {0} /\ d \in Nat \ {0} /\ f \in Nat \ {0}
      /\ a * d >= c * b /\ c * f >= e * d
    BY DEF Scores, AsGood
<1> HIDE DEF a, b, c, d, e, f
<1>2. (a * d) * f >= (c * b) * f /\ (c * f) * b >= (e * d) * b
    BY <1>1, Scale
<1>3. /\ (a * d) * f = (a * f) * d /\ (c * b) * f = (c * f) * b /\ (e * d) * b = (e * b) * d
      /\ a * f \in Nat /\ e * b \in Nat
      /\ (a * f) * d \in Nat /\ (c * f) * b \in Nat /\ (e * b) * d \in Nat
    BY <1>1
<1>4. (a * f) * d >= (e * b) * d
    BY <1>2, <1>3
<1>5. a * f >= e * b
    BY <1>1, <1>3, <1>4, Cancel
<1> QED BY <1>5 DEF AsGood, a, b, e, f

\* The comparisons of the code in terms of this order.
LEMMA ScoreOrder ==
    ASSUME NEW r \in Scores, NEW s \in Scores
    PROVE  /\ Greater(r, s) <=> ~AsGood(s, r)
           /\ SameScore(r, s) <=> AsGood(r, s) /\ AsGood(s, r)
           /\ AsGood(r, s) \/ AsGood(s, r)
<1>1. r[1] * s[2] \in Nat /\ s[1] * r[2] \in Nat
    BY DEF Scores
<1> QED BY <1>1 DEF AsGood, Greater, SameScore

\* a may stand in front of b.
NotAfter(a, b) == ~Before(b, a)

LEMMA NotAfterIs ==
    ASSUME NEW a \in ScoredEntries, NEW b \in ScoredEntries
    PROVE  /\ NotAfter(a, b) <=>
                 /\ AsGood(a.score, b.score)
                 /\ AsGood(b.score, a.score) => a.id <= b.id
           /\ Before(a, b) => NotAfter(a, b)
           /\ a.id # b.id => Before(a, b) \/ Before(b, a)
<1>1. a.score \in Scores /\ b.score \in Scores /\ a.id \in Nat /\ b.id \in Nat
    BY DEF ScoredEntries
<1>2. /\ Greater(b.score, a.score) <=> ~AsGood(a.score, b.score)
      /\ Greater(a.score, b.score) <=> ~AsGood(b.score, a.score)
      /\ SameScore(b.score, a.score) <=> AsGood(a.score, b.score) /\ AsGood(b.score, a.score)
      /\ SameScore(a.score, b.score) <=> AsGood(a.score, b.score) /\ AsGood(b.score, a.score)
      /\ AsGood(a.score, b.score) \/ AsGood(b.score, a.score)
    BY <1>1, ScoreOrder
<1> QED BY <1>1, <1>2 DEF NotAfter, Before

LEMMA NotAfterTransitive ==
    ASSUME NEW a \in ScoredEntries, NEW b \in ScoredEntries, NEW c \in ScoredEntries,
           NotAfter(a, b), NotAfter(b, c)
    PROVE  NotAfter(a, c)
<1>1. /\ a.score \in Scores /\ b.score \in Scores /\ c.score \in Scores
      /\ a.id \in Nat /\ b.id \in Nat /\ c.id \in Nat
    BY DEF ScoredEntries
<1>2. /\ AsGood(a.score, b.score) /\ (AsGood(b.score, a.score) => a.id <= b.id)
      /\ AsGood(b.score, c.score) /\ (AsGood(c.score, b.score) => b.id <= c.id)
    BY NotAfterIs
<1>3. AsGood(a.score, c.score)
    BY <1>1, <1>2, AsGoodTransitive
<1>4. AsGood(c.score, a.score) => AsGood(c.score, b.score) /\ AsGood(b.score, a.score)
    BY <1>1, <1>2, AsGoodTransitive
<1> QED BY <1>1, <1>2, <1>3, <1>4, NotAfterIs

\* Between two steps that do not go back, one step forward is a step forward.
LEMMA BeforeTransitive ==
    ASSUME NEW a \in ScoredEntries, NEW b \in ScoredEntries, NEW c \in ScoredEntries
    PROVE  /\ Before(a, b) /\ NotAfter(b, c) => Before(a, c)
           /\ NotAfter(a, b) /\ Before(b, c) => Before(a, c)
<1>1. ASSUME Before(a, b), NotAfter(b, c) PROVE Before(a, c)
    <2> SUFFICES ASSUME NotAfter(c, a) PROVE FALSE
        BY DEF NotAfter
    <2>1. NotAfter(b, a)
        BY <1>1, NotAfterTransitive
    <2> QED BY <1>1, <2>1 DEF NotAfter
<1>2. ASSUME NotAfter(a, b), Before(b, c) PROVE Before(a, c)
    <2> SUFFICES ASSUME NotAfter(c, a) PROVE FALSE
        BY DEF NotAfter
    <2>1. NotAfter(c, b)
        BY <1>2, NotAfterTransitive
    <2> QED BY <1>2, <2>1 DEF NotAfter
<1> QED BY <1>1, <1>2

-----------------------------------------------------------------------------
(* Ranks *)

\* Precedes puts the places of a list in one order.
LEMMA PrecedesOrder ==
    ASSUME NEW list \in Seq(ScoredEntries),
           NEW l \in 1..Len(list), NEW m \in 1..Len(list), NEW n \in 1..Len(list)
    PROVE  /\ ~Precedes(list, m, m)
           /\ m # n => Precedes(list, m, n) \/ Precedes(list, n, m)
           /\ Precedes(list, l, m) /\ Precedes(list, m, n) => Precedes(list, l, n)
           /\ Precedes(list, m, n) => NotAfter(list[m], list[n])
<1> DEFINE a == list[l]  b == list[m]  c == list[n]
<1>1. a \in ScoredEntries /\ b \in ScoredEntries /\ c \in ScoredEntries
    BY ElementOfSeq
<1>2. /\ l \in Nat /\ m \in Nat /\ n \in Nat
      /\ Precedes(list, m, m) <=> Before(b, b) \/ (~Before(b, b) /\ m < m)
      /\ Precedes(list, l, m) <=> Before(a, b) \/ (~Before(b, a) /\ l < m)
      /\ Precedes(list, m, n) <=> Before(b, c) \/ (~Before(c, b) /\ m < n)
      /\ Precedes(list, n, m) <=> Before(c, b) \/ (~Before(b, c) /\ n < m)
      /\ Precedes(list, l, n) <=> Before(a, c) \/ (~Before(c, a) /\ l < n)
    <2>1. Len(list) \in Nat
        BY LenProperties
    <2> QED BY <2>1 DEF Precedes
<1> HIDE DEF a, b, c
<1>3. /\ Before(a, b) => NotAfter(a, b)
      /\ Before(b, b) => NotAfter(b, b)
      /\ Before(b, c) => NotAfter(b, c)
    BY <1>1, NotAfterIs
<1>4. /\ Before(a, b) /\ NotAfter(b, c) => Before(a, c)
      /\ NotAfter(a, b) /\ Before(b, c) => Before(a, c)
      /\ NotAfter(a, b) /\ NotAfter(b, c) => NotAfter(a, c)
    BY <1>1, BeforeTransitive, NotAfterTransitive
<1>5. ~Precedes(list, m, m) /\ (m # n => Precedes(list, m, n) \/ Precedes(list, n, m))
    BY <1>2, <1>3 DEF NotAfter
<1>6. Precedes(list, l, m) /\ Precedes(list, m, n) => Precedes(list, l, n)
    BY <1>2, <1>3, <1>4 DEF NotAfter
<1>7. Precedes(list, m, n) => NotAfter(b, c)
    BY <1>2, <1>3 DEF NotAfter
<1> QED BY <1>5, <1>6, <1>7 DEF b, c

Below(list, n) == {m \in 1..Len(list) : Precedes(list, m, n)}

\* The rank of a place is between 1 and the length of the list, and grows along the order.
LEMMA RankRange ==
    ASSUME NEW list \in Seq(ScoredEntries), NEW n \in 1..Len(list)
    PROVE  /\ Rank(list, n) \in 1..Len(list)
           /\ IsFiniteSet(Below(list, n))
           /\ Cardinality(Below(list, n)) \in Nat
           /\ Rank(list, n) = Cardinality(Below(list, n)) + 1
<1>1. Len(list) \in Nat
    BY LenProperties
<1>2. IsFiniteSet(1..Len(list)) /\ Cardinality(1..Len(list)) = Len(list)
    BY <1>1, FS_Interval
<1>3. /\ IsFiniteSet((1..Len(list)) \ {n})
      /\ Cardinality((1..Len(list)) \ {n}) = Len(list) - 1
    BY <1>2, FS_RemoveElement
<1>4. Below(list, n) \in SUBSET ((1..Len(list)) \ {n})
    BY PrecedesOrder DEF Below
<1>5. IsFiniteSet(Below(list, n)) /\ Cardinality(Below(list, n)) <= Len(list) - 1
    BY <1>3, <1>4, FS_Subset
<1>6. Cardinality(Below(list, n)) \in Nat
    BY <1>5, FS_CardinalityType
<1>7. Rank(list, n) = Cardinality(Below(list, n)) + 1
    BY DEF Rank, Below
<1> QED BY <1>1, <1>5, <1>6, <1>7

LEMMA RankGrows ==
    ASSUME NEW list \in Seq(ScoredEntries), NEW m \in 1..Len(list), NEW n \in 1..Len(list)
    PROVE  Precedes(list, m, n) <=> Rank(list, m) < Rank(list, n)
<1>1. ASSUME NEW a \in 1..Len(list), NEW b \in 1..Len(list), Precedes(list, a, b)
      PROVE  Rank(list, a) < Rank(list, b)
    <2>1. Below(list, a) \in SUBSET Below(list, b)
        BY <1>1, PrecedesOrder DEF Below
    <2>2. a \in Below(list, b) /\ a \notin Below(list, a)
        BY <1>1, PrecedesOrder DEF Below
    <2>3. /\ IsFiniteSet(Below(list, b))
          /\ Cardinality(Below(list, a)) \in Nat /\ Cardinality(Below(list, b)) \in Nat
          /\ Rank(list, a) = Cardinality(Below(list, a)) + 1
          /\ Rank(list, b) = Cardinality(Below(list, b)) + 1
        BY RankRange
    <2>4. /\ Cardinality(Below(list, a)) <= Cardinality(Below(list, b))
          /\ Cardinality(Below(list, b)) # Cardinality(Below(list, a))
        BY <2>1, <2>2, <2>3, FS_Subset
    <2> QED BY <2>3, <2>4
<1>2. Rank(list, m) \in Nat /\ Rank(list, n) \in Nat
    BY RankRange
<1>3. Precedes(list, m, n) \/ Precedes(list, n, m) \/ m = n
    BY PrecedesOrder
<1> QED BY <1>1, <1>2, <1>3

\* Every rank belongs to a place.
LEMMA RankTaken ==
    ASSUME NEW list \in Seq(ScoredEntries), NEW p \in 1..Len(list)
    PROVE  \E n \in 1..Len(list) : Rank(list, n) = p
<1> DEFINE S == 1..Len(list)
           f == [n \in S |-> Rank(list, n)]
<1>1. IsFiniteSet(S)
    BY LenProperties, FS_Interval
<1>2. f \in [S -> S]
    BY RankRange
<1>3. ASSUME NEW m \in S, NEW n \in S, f[m] = f[n] PROVE m = n
    <2>1. Rank(list, m) = Rank(list, n) /\ Rank(list, m) \in Nat
        BY <1>3, RankRange
    <2>2. ~Precedes(list, m, n) /\ ~Precedes(list, n, m)
        BY <2>1, RankGrows
    <2> QED BY <2>2, PrecedesOrder
<1>4. f \in Injection(S, S)
    BY <1>2, <1>3 DEF Injection, IsInjective
<1> HIDE DEF f, S
<1>5. f \in Surjection(S, S)
    BY <1>1, <1>4, FS_Injection
<1>6. \E n \in S : f[n] = p
    BY <1>5 DEF Surjection, S
<1> QED BY <1>6 DEF f, S

-----------------------------------------------------------------------------
(* partial_sort *)

\* Where in the list the entry of rank p is.
Place(list, p) == CHOOSE n \in 1..Len(list) : Rank(list, n) = p

LEMMA PlaceIs ==
    ASSUME NEW list \in Seq(ScoredEntries), NEW p \in 1..Len(list)
    PROVE  Place(list, p) \in 1..Len(list) /\ Rank(list, Place(list, p)) = p
BY RankTaken DEF Place

\* What partial_sort leaves in front: the entries of the first k ranks, in order.  What
\* is left out comes after all of them.
LEMMA PartialSortFacts ==
    ASSUME NEW list \in Seq(ScoredEntries), NEW k \in 0..Len(list)
    PROVE  /\ PartialSort(list, k) \in Seq(ScoredEntries)
           /\ Len(PartialSort(list, k)) = k
           /\ \A p \in 1..k :
                 /\ Place(list, p) \in 1..Len(list)
                 /\ PartialSort(list, k)[p] = list[Place(list, p)]
                 /\ Rank(list, Place(list, p)) = p
           /\ \A p, r \in 1..k : p < r => Precedes(list, Place(list, p), Place(list, r))
           /\ \A n \in 1..Len(list) :
                 \/ \E p \in 1..k : Place(list, p) = n
                 \/ \A p \in 1..k : Precedes(list, Place(list, p), n)
<1> DEFINE s == PartialSort(list, k)
<1>1. Len(list) \in Nat /\ k \in Nat /\ 1..k \subseteq 1..Len(list)
    BY LenProperties
<1>2. s = [p \in 1..k |-> list[Place(list, p)]]
    BY DEF PartialSort, Place
<1> HIDE DEF s
<1>3. \A p \in 1..k : /\ Place(list, p) \in 1..Len(list)
                      /\ Rank(list, Place(list, p)) = p
                      /\ list[Place(list, p)] \in ScoredEntries
    BY <1>1, PlaceIs, ElementOfSeq
<1>4. s \in Seq(ScoredEntries)
    BY <1>1, <1>2, <1>3, IsASeq
<1>5. Len(s) = k
    BY <1>1, <1>2, <1>4, LenProperties
<1>6. \A p \in 1..k : s[p] = list[Place(list, p)]
    BY <1>2
<1>7. \A p, r \in 1..k : p < r => Precedes(list, Place(list, p), Place(list, r))
    BY <1>3, RankGrows
<1>8. ASSUME NEW n \in 1..Len(list), ~\E p \in 1..k : Place(list, p) = n, NEW p \in 1..k
      PROVE  Precedes(list, Place(list, p), n)
    <2>1. Rank(list, n) \in 1..Len(list)
        BY RankRange
    <2>2. ~(Rank(list, n) \in 1..k)
        <3> SUFFICES ASSUME Rank(list, n) \in 1..k PROVE FALSE
            OBVIOUS
        <3> DEFINE m == Place(list, Rank(list, n))
        <3>1. m \in 1..Len(list) /\ Rank(list, m) = Rank(list, n) /\ m # n
            BY <1>3, <1>8
        <3>2. Precedes(list, m, n) \/ Precedes(list, n, m)
            BY <3>1, PrecedesOrder
        <3> QED BY <2>1, <3>1, <3>2, RankGrows
    <2>3. Rank(list, Place(list, p)) < Rank(list, n)
        BY <1>1, <1>3, <2>1, <2>2
    <2> QED BY <1>3, <2>3, RankGrows
<1> QED BY <1>3, <1>4, <1>5, <1>6, <1>7, <1>8 DEF s

-----------------------------------------------------------------------------
(* Selecting from what was selected *)

Entry(score, d) == [id |-> d, score |-> score[d]]

\* k different entries of the list come before e.
Beaten(list, k, e) ==
    \E f \in Injection(1..k, 1..Len(list)) : \A j \in 1..k : Before(list[f[j]], e)

\* The list holds documents from .. to - 1, none twice, and whoever is missing is beaten
\* by k that are there: it cannot be among the best k of anything these belong to.
Covers(list, score, from, to, k) ==
    /\ list \in Seq(ScoredEntries)
    /\ \A n \in 1..Len(list) :
          list[n].id \in from..(to - 1) /\ list[n].score = score[list[n].id]
    /\ \A m, n \in 1..Len(list) : list[m].id = list[n].id => m = n
    /\ \A d \in from..(to - 1) :
          (\E n \in 1..Len(list) : list[n].id = d) \/ Beaten(list, k, Entry(score, d))
    /\ Len(list) >= MinOf(k, to - from)

\* An empty list covers no document.
LEMMA CoversNothing ==
    ASSUME NEW score, NEW from \in Nat, NEW k \in Nat
    PROVE  Covers(<<>>, score, from, from, k)
<1>1. <<>> \in Seq(ScoredEntries) /\ Len(<<>>) = 0
    BY EmptySeq
<1>2. 1..0 = {} /\ from..(from - 1) = {}
    OBVIOUS
<1> QED BY <1>1, <1>2 DEF Covers, MinOf

\* The scored documents of a chunk, in order.
ChunkList(score, start, size) == [n \in 1..size |-> Entry(score, start + n - 1)]

\* The best of a chunk cover the chunk.
LEMMA CoversChunk ==
    ASSUME NEW start \in Nat, NEW size \in Nat, NEW k \in Nat,
           NEW score, \A d \in start..(start + size - 1) : score[d] \in Scores,
           NEW list, list = ChunkList(score, start, size)
    PROVE  Covers(PartialSort(list, MinOf(k, size)), score, start, start + size, k)
<1> DEFINE c == MinOf(k, size)
           s == PartialSort(list, c)
<1>1. c \in 0..size /\ (c = k \/ c = size)
    BY DEF MinOf
<1> HIDE DEF c
<1>2. ASSUME NEW n \in 1..size
      PROVE  /\ start + n - 1 \in start..(start + size - 1)
             /\ Entry(score, start + n - 1) \in ScoredEntries
    BY DEF Entry, ScoredEntries
<1>3. list \in Seq(ScoredEntries)
    <2>1. list \in [1..size -> ScoredEntries]
        BY <1>2 DEF ChunkList
    <2> QED BY <2>1, SeqDef
<1>4. Len(list) = size /\ \A n \in 1..size : list[n] = Entry(score, start + n - 1)
    BY <1>3, LenProperties DEF ChunkList
<1>5. /\ s \in Seq(ScoredEntries)
      /\ Len(s) = c
      /\ \A p \in 1..c : /\ Place(list, p) \in 1..size
                         /\ s[p] = list[Place(list, p)]
                         /\ Rank(list, Place(list, p)) = p
      /\ \A n \in 1..size : \/ \E p \in 1..c : Place(list, p) = n
                            \/ \A p \in 1..c : Precedes(list, Place(list, p), n)
    <2>1. c \in 0..Len(list)
        BY <1>1, <1>4
    <2>2. /\ s \in Seq(ScoredEntries)
          /\ Len(s) = c
          /\ \A p \in 1..c : /\ Place(list, p) \in 1..Len(list)
                             /\ s[p] = list[Place(list, p)]
                             /\ Rank(list, Place(list, p)) = p
          /\ \A n \in 1..Len(list) : \/ \E p \in 1..c : Place(list, p) = n
                                     \/ \A p \in 1..c : Precedes(list, Place(list, p), n)
        BY <1>3, <2>1, PartialSortFacts
    <2> QED BY <1>4, <2>2
<1> HIDE DEF s
<1>6. \A n \in 1..size : /\ list[n].id = start + n - 1
                         /\ list[n].score = score[list[n].id]
                         /\ list[n].id \in start..(start + size - 1)
    BY <1>2, <1>4 DEF Entry
<1>7. ASSUME NEW p \in 1..c
      PROVE  s[p].id \in start..(start + size - 1) /\ s[p].score = score[s[p].id]
    <2>1. PICK n \in 1..size : s[p] = list[n]
        BY <1>5
    <2> QED BY <1>6, <2>1
<1>8. ASSUME NEW p \in 1..c, NEW r \in 1..c, s[p].id = s[r].id PROVE p = r
    <2>1. PICK m \in 1..size : m = Place(list, p) /\ s[p] = list[m] /\ Rank(list, m) = p
        BY <1>5
    <2>2. PICK n \in 1..size : n = Place(list, r) /\ s[r] = list[n] /\ Rank(list, n) = r
        BY <1>5
    <2>3. start + m - 1 = start + n - 1
        BY <1>6, <1>8, <2>1, <2>2
    <2> QED BY <2>1, <2>2, <2>3
<1>9. ASSUME NEW d \in start..(start + size - 1), ~\E p \in 1..c : s[p].id = d
      PROVE  Beaten(s, k, Entry(score, d))
    <2> DEFINE n == d - start + 1
    <2>1. n \in 1..size /\ start + n - 1 = d
        OBVIOUS
    <2> HIDE DEF n
    <2>2. list[n].id = d /\ list[n] = Entry(score, d)
        BY <1>4, <1>6, <2>1
    <2>3. ~\E p \in 1..c : Place(list, p) = n
        BY <1>5, <1>9, <2>2
    <2>4. \A p \in 1..c : Precedes(list, Place(list, p), n)
        BY <1>5, <2>1, <2>3
    <2>5. ASSUME NEW p \in 1..c PROVE Before(s[p], Entry(score, d))
        <3>1. PICK m \in 1..size : m = Place(list, p) /\ s[p] = list[m]
            BY <1>5
        <3>2. NotAfter(list[m], list[n]) /\ list[m] \in ScoredEntries /\ list[n] \in ScoredEntries
            BY <1>3, <1>4, <2>1, <2>4, <3>1, PrecedesOrder, ElementOfSeq
        <3>3. list[m].id # list[n].id
            BY <1>9, <2>2, <3>1
        <3>4. Before(list[m], list[n])
            BY <3>2, <3>3, NotAfterIs DEF NotAfter
        <3> QED BY <2>2, <3>1, <3>4
    <2>6. c = k
        <3> SUFFICES ASSUME c = size PROVE FALSE
            BY <1>1
        <3>1. PICK r \in 1..c : r = Rank(list, n)
            BY <1>3, <1>4, <2>1, RankRange
        <3>2. PICK m \in 1..size : m = Place(list, r) /\ Rank(list, m) = r /\ Precedes(list, m, n)
            BY <1>5, <2>4
        <3>3. Rank(list, m) < Rank(list, n)
            BY <1>3, <1>4, <2>1, <3>2, RankGrows
        <3> QED BY <3>1, <3>2, <3>3
    <2> DEFINE f == [j \in 1..k |-> j]
    <2>7. f \in Injection(1..k, 1..Len(s))
        BY <1>5, <2>6 DEF Injection, IsInjective
    <2> QED BY <2>5, <2>6, <2>7 DEF Beaten
<1>10. Len(s) >= MinOf(k, start + size - start)
    BY <1>1, <1>5 DEF c, MinOf
<1>11. Covers(s, score, start, start + size, k)
    <2>1. s \in Seq(ScoredEntries) /\ Len(s) = c
        BY <1>5
    <2>2. \A d \in start..(start + size - 1) :
             (\E n \in 1..Len(s) : s[n].id = d) \/ Beaten(s, k, Entry(score, d))
        BY <1>9, <2>1
    <2>3. \A m, n \in 1..Len(s) : s[m].id = s[n].id => m = n
        BY <1>8, <2>1
    <2>4. \A n \in 1..Len(s) :
             s[n].id \in start..(start + size - 1) /\ s[n].score = score[s[n].id]
        BY <1>7, <2>1
    <2> QED BY <1>10, <2>1, <2>2, <2>3, <2>4 DEF Covers
<1> QED BY <1>11 DEF s, c

\* What beats an entry in a part of a list beats it in the list.
LEMMA BeatenConcat ==
    ASSUME NEW list \in Seq(ScoredEntries), NEW more \in Seq(ScoredEntries), NEW k \in Nat, NEW e
    PROVE  /\ Beaten(list, k, e) => Beaten(list \o more, k, e)
           /\ Beaten(more, k, e) => Beaten(list \o more, k, e)
<1> DEFINE all == list \o more
           l == Len(list)
<1>1. /\ l \in Nat /\ Len(more) \in Nat
      /\ Len(all) = l + Len(more)
      /\ \A n \in 1..l : all[n] = list[n]
      /\ \A n \in 1..Len(more) : all[l + n] = more[n]
    <2>1. \A n \in 1..(Len(list) + Len(more)) :
             all[n] = IF n <= Len(list) THEN list[n] ELSE more[n - Len(list)]
        BY ConcatProperties
    <2>2. ASSUME NEW n \in 1..Len(more) PROVE all[l + n] = more[n]
        <3>1. l + n \in 1..(Len(list) + Len(more)) /\ ~(l + n <= l) /\ l + n - l = n
            BY LenProperties
        <3> QED BY <2>1, <3>1
    <2> QED BY <2>1, <2>2, LenProperties, ConcatProperties
<1> HIDE DEF all, l
<1>2. ASSUME Beaten(list, k, e) PROVE Beaten(all, k, e)
    <2>1. PICK f \in Injection(1..k, 1..l) : \A j \in 1..k : Before(list[f[j]], e)
        BY <1>2 DEF Beaten, l
    <2>2. f \in Injection(1..k, 1..Len(all))
        BY <1>1, <2>1 DEF Injection, IsInjective
    <2>3. \A j \in 1..k : f[j] \in 1..l
        BY <2>1 DEF Injection
    <2> QED BY <1>1, <2>1, <2>2, <2>3 DEF Beaten
<1>3. ASSUME Beaten(more, k, e) PROVE Beaten(all, k, e)
    <2>1. PICK f \in Injection(1..k, 1..Len(more)) : \A j \in 1..k : Before(more[f[j]], e)
        BY <1>3 DEF Beaten
    <2>2. \A j \in 1..k : f[j] \in 1..Len(more)
        BY <2>1 DEF Injection
    <2> DEFINE g == [j \in 1..k |-> l + f[j]]
    <2>3. g \in [1..k -> 1..Len(all)]
        BY <1>1, <2>2
    <2>4. ASSUME NEW m \in 1..k, NEW n \in 1..k, g[m] = g[n] PROVE m = n
        <3>1. f[m] = f[n]
            BY <1>1, <2>2, <2>4
        <3> QED BY <2>1, <3>1 DEF Injection, IsInjective
    <2>5. g \in Injection(1..k, 1..Len(all))
        BY <2>3, <2>4 DEF Injection, IsInjective
    <2>6. \A j \in 1..k : Before(all[g[j]], e)
        BY <1>1, <2>1, <2>2
    <2> QED BY <2>5, <2>6 DEF Beaten
<1> QED BY <1>2, <1>3 DEF all

\* The lists of two neighbouring parts, one behind the other, cover both.
LEMMA CoversConcat ==
    ASSUME NEW from \in Nat, NEW mid \in Nat, NEW to \in Nat, NEW k \in Nat,
           NEW score, NEW list, NEW more, from <= mid, mid <= to,
           Covers(list, score, from, mid, k), Covers(more, score, mid, to, k)
    PROVE  Covers(list \o more, score, from, to, k)
<1> DEFINE all == list \o more
<1>1. list \in Seq(ScoredEntries) /\ more \in Seq(ScoredEntries)
    BY DEF Covers
<1>2. PICK l \in Nat, r \in Nat : l = Len(list) /\ r = Len(more)
    BY <1>1, LenProperties
<1>3. /\ all \in Seq(ScoredEntries)
      /\ Len(all) = l + r
      /\ \A n \in 1..(l + r) : all[n] = IF n <= l THEN list[n] ELSE more[n - l]
    BY <1>1, <1>2, ConcatProperties
<1> HIDE DEF all
<1>4. ASSUME NEW n \in 1..(l + r)
      PROVE  \/ /\ n \in 1..l /\ all[n] = list[n]
                /\ all[n].id \in from..(mid - 1) /\ all[n].score = score[all[n].id]
             \/ /\ n - l \in 1..r /\ all[n] = more[n - l]
                /\ all[n].id \in mid..(to - 1) /\ all[n].score = score[all[n].id]
    <2>1. CASE n <= l
        BY <1>2, <1>3, <2>1 DEF Covers
    <2>2. CASE ~(n <= l)
        <3>1. n - l \in 1..r /\ all[n] = more[n - l]
            BY <1>3, <2>2
        <3> QED BY <1>2, <3>1 DEF Covers
    <2> QED BY <2>1, <2>2
<1>5. ASSUME NEW m \in 1..(l + r), NEW n \in 1..(l + r), all[m].id = all[n].id
      PROVE  m = n
    <2>1. CASE m \in 1..l /\ n \in 1..l /\ all[m] = list[m] /\ all[n] = list[n]
        BY <1>2, <1>5, <2>1 DEF Covers
    <2>2. CASE /\ m - l \in 1..r /\ n - l \in 1..r
               /\ all[m] = more[m - l] /\ all[n] = more[n - l]
        <3>1. m - l = n - l
            BY <1>2, <1>5, <2>2 DEF Covers
        <3> QED BY <3>1
    <2>3. CASE /\ n \in 1..l /\ all[n].id \in Nat /\ all[n].id <= mid - 1
               /\ m - l \in 1..r /\ all[m].id >= mid
        BY <1>5, <2>3
    <2>4. CASE /\ m \in 1..l /\ all[m].id \in Nat /\ all[m].id <= mid - 1
               /\ n - l \in 1..r /\ all[n].id >= mid
        BY <1>5, <2>4
    <2>5. ASSUME NEW p \in {m, n}
          PROVE  \/ p \in 1..l /\ all[p] = list[p] /\ all[p].id \in Nat /\ all[p].id <= mid - 1
                 \/ p - l \in 1..r /\ all[p] = more[p - l] /\ all[p].id \in Nat /\ all[p].id >= mid
        BY <1>4
    <2> QED BY <2>1, <2>2, <2>3, <2>4, <2>5, Zenon
<1>6. ASSUME NEW d \in from..(to - 1)
      PROVE  (\E n \in 1..(l + r) : all[n].id = d) \/ Beaten(all, k, Entry(score, d))
    <2>1. CASE d <= mid - 1
        <3>1. (\E n \in 1..l : list[n].id = d) \/ Beaten(list, k, Entry(score, d))
            BY <1>2, <2>1 DEF Covers
        <3>2. \A n \in 1..l : n \in 1..(l + r) /\ all[n] = list[n]
            BY <1>3
        <3> QED BY <1>1, <3>1, <3>2, BeatenConcat DEF all
    <2>2. CASE d >= mid
        <3>1. (\E n \in 1..r : more[n].id = d) \/ Beaten(more, k, Entry(score, d))
            BY <1>2, <2>2 DEF Covers
        <3>2. ASSUME NEW n \in 1..r PROVE l + n \in 1..(l + r) /\ all[l + n] = more[n]
            <4>1. l + n \in 1..(l + r) /\ ~(l + n <= l) /\ l + n - l = n
                OBVIOUS
            <4> QED BY <1>3, <4>1
        <3> QED BY <1>1, <3>1, <3>2, BeatenConcat DEF all
    <2> QED BY <2>1, <2>2
<1>7. l + r >= MinOf(k, to - from)
    <2>1. l >= MinOf(k, mid - from) /\ r >= MinOf(k, to - mid)
        BY <1>2 DEF Covers
    <2> QED BY <2>1 DEF MinOf
<1>8. \A n \in 1..(l + r) :
         all[n].id \in from..(to - 1) /\ all[n].score = score[all[n].id]
    BY <1>4
<1>9. Covers(all, score, from, to, k)
    BY <1>3, <1>5, <1>6, <1>7, <1>8 DEF Covers
<1> QED BY <1>9 DEF all

\* Among any k places of a list one has at least rank k.
LEMMA SomeRank ==
    ASSUME NEW list \in Seq(ScoredEntries), NEW k \in Nat \ {0},
           NEW f \in Injection(1..k, 1..Len(list))
    PROVE  \E j \in 1..k : Rank(list, f[j]) >= k
<1> SUFFICES ASSUME \A j \in 1..k : ~(Rank(list, f[j]) >= k) PROVE FALSE
    OBVIOUS
<1> DEFINE g == [j \in 1..k |-> Rank(list, f[j])]
<1>1. \A j \in 1..k : f[j] \in 1..Len(list)
    BY DEF Injection
<1>2. \A j \in 1..k : Rank(list, f[j]) \in 1..(k - 1)
    <2>1. \A j \in 1..k : Rank(list, f[j]) \in Nat \ {0}
        BY <1>1, RankRange
    <2> QED BY <2>1
<1>3. g \in [1..k -> 1..(k - 1)]
    BY <1>2
<1>4. /\ IsFiniteSet(1..k) /\ Cardinality(1..k) = k
      /\ IsFiniteSet(1..(k - 1)) /\ Cardinality(1..(k - 1)) = k - 1
    BY FS_Interval
<1>5. PICK m \in 1..k, n \in 1..k : m # n /\ g[m] = g[n]
    <2> DEFINE S == 1..k  T == 1..(k - 1)
    <2>1. Cardinality(T) < Cardinality(S)
        BY <1>4
    <2>2. IsFiniteSet(S) /\ IsFiniteSet(T) /\ g \in [S -> T]
        BY <1>3, <1>4
    <2> HIDE DEF g, S, T
    <2>3. \E m, n \in S : m # n /\ g[m] = g[n]
        BY <2>1, <2>2, FS_PigeonHole
    <2> QED BY <2>3 DEF S
<1>6. f[m] # f[n]
    BY <1>5 DEF Injection, IsInjective
<1>7. Precedes(list, f[m], f[n]) \/ Precedes(list, f[n], f[m])
    BY <1>1, <1>6, PrecedesOrder
<1>8. Rank(list, f[m]) # Rank(list, f[n])
    <2>1. Rank(list, f[m]) \in Nat /\ Rank(list, f[n]) \in Nat
        BY <1>1, <1>5, RankRange
    <2> QED BY <1>1, <1>7, <2>1, RankGrows
<1> QED BY <1>5, <1>8

\* Nothing has to beat an entry no times.
LEMMA NoneBeat ==
    ASSUME NEW list, NEW e
    PROVE  Beaten(list, 0, e)
<1>1. [j \in 1..0 |-> j] \in Injection(1..0, 1..Len(list))
    BY DEF Injection, IsInjective
<1> QED BY <1>1 DEF Beaten

\* What covers a range covers it for no places.
LEMMA CoversAtLeast ==
    ASSUME NEW list, NEW score, NEW from \in Nat, NEW to \in Nat, NEW k, from <= to,
           Covers(list, score, from, to, k)
    PROVE  Covers(list, score, from, to, 0)
<1>1. list \in Seq(ScoredEntries)
    BY DEF Covers
<1>2. MinOf(0, to - from) = 0 /\ Len(list) >= 0
    BY <1>1, LenProperties DEF MinOf
<1> QED BY <1>1, <1>2, NoneBeat DEF Covers

\* s is the best c of a list of documents: they come in order, and before all that the list
\* holds besides them and all that c others of the list beat.
BestIn(list, score, s, c) ==
    /\ Len(s) = c
    /\ \A p \in 1..c : /\ s[p] \in ScoredEntries
                       /\ s[p].id \in DOMAIN score
                       /\ SameScore(s[p].score, score[s[p].id])
    /\ \A p, r \in 1..c : p < r => Before(s[p], s[r])
    /\ \A d \in DOMAIN score \ {s[p].id : p \in 1..c} :
          (\E m \in 1..Len(list) : list[m].id = d) => \A p \in 1..c : Before(s[p], Entry(score, d))
    /\ \A e \in ScoredEntries : \A k \in Nat :
          c <= k /\ Beaten(list, k, e) => \A p \in 1..c : Before(s[p], e)

LEMMA BestOfList ==
    ASSUME NEW n \in Nat, NEW score \in [0..(n - 1) -> Scores], NEW list,
           Covers(list, score, 0, n, 0), NEW c \in 0..Len(list), NEW s, s = PartialSort(list, c)
    PROVE  BestIn(list, score, s, c)
<1>1. list \in Seq(ScoredEntries)
    BY DEF Covers
<1>2. PICK l \in Nat : l = Len(list)
    BY <1>1, LenProperties
<1>3. c \in 0..l /\ c \in Nat
    BY <1>2
<1>4. /\ s \in Seq(ScoredEntries)
      /\ Len(s) = c
      /\ \A p \in 1..c : /\ Place(list, p) \in 1..l
                         /\ s[p] = list[Place(list, p)]
                         /\ Rank(list, Place(list, p)) = p
      /\ \A p, r \in 1..c : p < r => Precedes(list, Place(list, p), Place(list, r))
      /\ \A m \in 1..l : \/ \E p \in 1..c : Place(list, p) = m
                         \/ \A p \in 1..c : Precedes(list, Place(list, p), m)
    BY <1>1, <1>2, <1>3, PartialSortFacts
<1>5. \A m \in 1..l : /\ list[m] \in ScoredEntries
                      /\ list[m].id \in 0..(n - 1)
                      /\ list[m].score = score[list[m].id]
    BY <1>1, <1>2, ElementOfSeq DEF Covers
\* Of two entries of the list the one of lower rank comes before.
<1>6. ASSUME NEW a \in 1..l, NEW b \in 1..l, Precedes(list, a, b)
      PROVE  Before(list[a], list[b])
    <2>1. a # b
        BY <1>1, <1>2, <1>6, PrecedesOrder
    <2>2. list[a].id # list[b].id
        BY <1>2, <2>1 DEF Covers
    <2>3. NotAfter(list[a], list[b])
        BY <1>1, <1>2, <1>6, PrecedesOrder
    <2> QED BY <1>5, <2>2, <2>3, NotAfterIs DEF NotAfter
<1>7. ASSUME NEW p \in 1..c
      PROVE  /\ s[p] \in ScoredEntries
             /\ s[p].id \in DOMAIN score
             /\ SameScore(s[p].score, score[s[p].id])
    <2>1. PICK m \in 1..l : s[p] = list[m]
        BY <1>4
    <2> QED BY <1>5, <2>1 DEF SameScore
<1>8. \A p, r \in 1..c : p < r => Before(s[p], s[r])
    BY <1>4, <1>6
<1>9. ASSUME NEW d \in DOMAIN score, d \notin {s[p].id : p \in 1..c},
             NEW m \in 1..l, list[m].id = d, NEW p \in 1..c
      PROVE  Before(s[p], Entry(score, d))
    <2>1. PICK a \in 1..l : a = Place(list, p) /\ s[p] = list[a]
        BY <1>4
    <2>2. list[m] = Entry(score, d)
        BY <1>5, <1>9 DEF Entry, ScoredEntries
    <2>3. ~\E r \in 1..c : Place(list, r) = m
        BY <1>4, <1>9
    <2>4. Precedes(list, a, m)
        BY <1>4, <2>1, <2>3
    <2> QED BY <1>6, <2>1, <2>2, <2>4
<1>10. ASSUME NEW e \in ScoredEntries, NEW k \in Nat, c <= k, Beaten(list, k, e), NEW p \in 1..c
       PROVE  Before(s[p], e)
    <2>1. PICK f \in Injection(1..k, 1..l) : \A j \in 1..k : Before(list[f[j]], e)
        BY <1>2, <1>10 DEF Beaten
    <2>2. PICK a \in 1..l : a = Place(list, p) /\ s[p] = list[a] /\ Rank(list, a) = p
        BY <1>4
    <2>3. k \in Nat \ {0}
        BY <1>3, <1>10
    <2>4. PICK j \in 1..k : Rank(list, f[j]) >= k
        BY <1>1, <1>2, <2>1, <2>3, SomeRank
    <2>5. PICK b \in 1..l : b = f[j] /\ Before(list[b], e) /\ Rank(list, b) >= k
        BY <2>1, <2>4 DEF Injection
    <2>6. ~(Rank(list, b) < Rank(list, a))
        <3>1. Rank(list, b) \in Nat
            BY <1>1, <1>2, RankRange
        <3> QED BY <1>3, <1>10, <2>2, <2>5, <3>1
    <2>7. a = b \/ Precedes(list, a, b)
        BY <1>1, <1>2, <2>6, RankGrows, PrecedesOrder
    <2>8. CASE a = b
        BY <2>2, <2>5, <2>8
    <2>9. CASE Precedes(list, a, b)
        <3>1. NotAfter(list[a], list[b])
            BY <1>1, <1>2, <2>9, PrecedesOrder
        <3>2. Before(list[a], e)
            BY <1>5, <2>5, <3>1, BeforeTransitive
        <3> QED BY <2>2, <3>2
    <2> QED BY <2>7, <2>8, <2>9
<1> QED BY <1>2, <1>4, <1>7, <1>8, <1>9, <1>10 DEF BestIn

\* The best of a list that covers all documents are the best of all documents: for
\* every way the documents were cut, every k and every scores, ties by id.
THEOREM BestOfTheBest ==
    ASSUME NEW n \in Nat, NEW k \in Nat, NEW score \in [0..(n - 1) -> Scores],
           NEW list, Covers(list, score, 0, n, k)
    PROVE  /\ MinOf(k, n) <= Len(list)
           /\ IsTopk(PartialSort(list, MinOf(k, n)), MinOf(k, n), score)
<1>1. list \in Seq(ScoredEntries) /\ Len(list) >= MinOf(k, n - 0)
    BY DEF Covers
<1>2. PICK l \in Nat : l = Len(list)
    BY <1>1, LenProperties
<1>3. PICK c \in 0..l : c = MinOf(k, n) /\ c <= k
    <2>1. n - 0 = n
        OBVIOUS
    <2> QED BY <1>1, <1>2, <2>1 DEF MinOf
<1>4. PICK s : s = PartialSort(list, c)
    OBVIOUS
<1>5. Covers(list, score, 0, n, 0)
    <2>1. 0 \in Nat /\ 0 <= n
        OBVIOUS
    <2> QED BY <2>1, CoversAtLeast
<1>6. BestIn(list, score, s, c)
    <2>1. c \in 0..Len(list)
        BY <1>2, <1>3
    <2> QED BY <1>4, <1>5, <2>1, BestOfList
<1>7. \A e \in ScoredEntries : Beaten(list, k, e) => \A p \in 1..c : Before(s[p], e)
    BY <1>3, <1>6 DEF BestIn
<1>8. ASSUME NEW d \in DOMAIN score \ {s[p].id : p \in 1..c}, NEW p \in 1..c
      PROVE  Before(s[p], Entry(score, d))
    <2>1. Entry(score, d) \in ScoredEntries
        BY DEF Entry, ScoredEntries
    <2>2. (\E m \in 1..l : list[m].id = d) \/ Beaten(list, k, Entry(score, d))
        BY <1>2 DEF Covers
    <2> QED BY <1>2, <1>6, <1>7, <2>1, <2>2 DEF BestIn
<1>9. IsTopk(s, c, score)
    BY <1>6, <1>8 DEF BestIn, IsTopk, Entry
<1> QED BY <1>2, <1>3, <1>4, <1>9

-----------------------------------------------------------------------------
(* Selecting twice: a library selects 2k without order among equal scores, and the  *)
(* best k of those are kept.                                                         *)

\* The k places f of the list hold what the library selects: no place is left out that holds
\* a better score.
ChosenBy(list, k, best, f) ==
    /\ best = [p \in 1..k |-> list[f[p]]]
    /\ \A n \in 1..Len(list) :
          \/ \E p \in 1..k : f[p] = n
          \/ \A p \in 1..k : AsGood(list[f[p]].score, list[n].score)

LEMMA SelectKIs ==
    ASSUME NEW list \in Seq(ScoredEntries), NEW k \in Nat, NEW best \in SelectK(list, k)
    PROVE  \E f \in Injection(1..k, 1..Len(list)) : ChosenBy(list, k, best, f)
<1>1. Len(list) \in Nat /\ DOMAIN list = 1..Len(list)
    BY LenProperties
<1>2. PICK c \in SUBSET (1..Len(list)) :
         /\ Cardinality(c) = k
         /\ \A m \in c, n \in (1..Len(list)) \ c : ~Greater(list[n].score, list[m].score)
         /\ best = [p \in 1..k |-> list[SetToSeq(c)[p]]]
    BY <1>1 DEF SelectK, kSubset
<1> DEFINE f == SetToSeq(c)
<1>3. IsFiniteSet(c)
    <2>1. IsFiniteSet(1..Len(list))
        BY <1>1, FS_Interval
    <2> QED BY <1>2, <2>1, FS_Subset
<1>4. f \in Injection(1..k, c)
    <2>1. ExistsBijection(1..k, c)
        BY <1>2, <1>3, FS_CardinalityType
    <2>2. \E g \in [1..k -> c] : IsInjective(g)
        BY <2>1 DEF ExistsBijection, Bijection, Injection
    <2>3. f = CHOOSE g \in [1..k -> c] : IsInjective(g)
        BY <1>2 DEF SetToSeq
    <2> QED BY <2>2, <2>3 DEF Injection
<1> HIDE DEF f
<1>5. f \in Surjection(1..k, c)
    <2>1. Cardinality(1..k) = k
        BY FS_Interval
    <2> QED BY <1>2, <1>3, <1>4, <2>1, FS_Injection
<1>6. f \in Injection(1..k, 1..Len(list))
    BY <1>2, <1>4 DEF Injection
<1>7. ASSUME NEW n \in 1..Len(list), ~\E p \in 1..k : f[p] = n, NEW p \in 1..k
      PROVE  AsGood(list[f[p]].score, list[n].score)
    <2>1. n \notin c
        BY <1>5, <1>7 DEF Surjection
    <2>2. PICK m \in c : m = f[p]
        BY <1>4 DEF Injection
    <2>3. ~Greater(list[n].score, list[m].score)
        BY <1>2, <2>1, <2>2
    <2>4. list[n].score \in Scores /\ list[m].score \in Scores
        <3>1. list[n] \in ScoredEntries /\ list[m] \in ScoredEntries
            BY <1>2, ElementOfSeq
        <3> QED BY <3>1 DEF ScoredEntries
    <2> QED BY <2>2, <2>3, <2>4, ScoreOrder
<1>8. best = [p \in 1..k |-> list[f[p]]]
    BY <1>2 DEF f
<1> QED BY <1>6, <1>7, <1>8 DEF ChosenBy

\* Document d may be missing although no k of the list come before it: k of the list are as
\* good and 2k documents of the range are, so that more than 2k contend for the places.
Contested(list, score, from, to, k, d) ==
    /\ score[d] \in Scores
    /\ Beaten(list, k, [id |-> to, score |-> score[d]])
    /\ \E f \in Injection(1..(2 * k), (from..(to - 1)) \ {d}) :
          \A j \in 1..(2 * k) : AsGood(score[f[j]], score[d])

\* The list holds documents from .. to - 1, none twice, and whoever is missing is beaten
\* or contested.
CoversTwice(list, score, from, to, k) ==
    /\ Covers(list, score, from, to, 0)
    /\ \A d \in from..(to - 1) :
          \/ \E n \in 1..Len(list) : list[n].id = d
          \/ Beaten(list, k, Entry(score, d))
          \/ Contested(list, score, from, to, k, d)
    /\ Len(list) >= MinOf(k, to - from)

LEMMA CoversTwiceNothing ==
    ASSUME NEW score, NEW from \in Nat, NEW k \in Nat
    PROVE  CoversTwice(<<>>, score, from, from, k)
<1>1. Covers(<<>>, score, from, from, 0) /\ Covers(<<>>, score, from, from, k)
    BY CoversNothing
<1>2. from..(from - 1) = {}
    OBVIOUS
<1> QED BY <1>1, <1>2 DEF CoversTwice, Covers

\* Who is beaten is beaten in front of any later document with the same score.
LEMMA BeatenLater ==
    ASSUME NEW list \in Seq(ScoredEntries), NEW k \in Nat, NEW r \in Scores,
           NEW m \in Nat, NEW n \in Nat, m <= n, Beaten(list, k, [id |-> m, score |-> r])
    PROVE  Beaten(list, k, [id |-> n, score |-> r])
<1> DEFINE a == [id |-> m, score |-> r]
           b == [id |-> n, score |-> r]
<1>1. a \in ScoredEntries /\ b \in ScoredEntries /\ a.id <= b.id /\ a.score = b.score /\ a.score \in Scores
    BY DEF ScoredEntries
<1>2. Beaten(list, k, a)
    OBVIOUS
<1> HIDE DEF a, b
<1>3. NotAfter(a, b)
    BY <1>1, NotAfterIs, ScoreOrder
<1>4. PICK f \in Injection(1..k, 1..Len(list)) : \A j \in 1..k : Before(list[f[j]], a)
    BY <1>2 DEF Beaten
<1>5. ASSUME NEW j \in 1..k PROVE Before(list[f[j]], b)
    <2>1. f[j] \in 1..Len(list)
        BY <1>4 DEF Injection
    <2>2. list[f[j]] \in ScoredEntries
        BY <2>1, ElementOfSeq
    <2> QED BY <1>1, <1>3, <1>4, <2>2, BeforeTransitive
<1>6. Beaten(list, k, b)
    BY <1>4, <1>5 DEF Beaten
<1> QED BY <1>6 DEF b

\* The best of what the library selected from a chunk cover the chunk up to contested
\* documents.
LEMMA CoversTwiceChunk ==
    ASSUME NEW start \in Nat, NEW size \in Nat, NEW k \in Nat,
           NEW score, \A d \in start..(start + size - 1) : score[d] \in Scores,
           NEW list, list = ChunkList(score, start, size),
           NEW best, best \in SelectK(list, 2 * MinOf(k, size))
    PROVE  CoversTwice(PartialSort(best, MinOf(k, size)), score, start, start + size, k)
<1>1. PICK c \in 0..size : c = MinOf(k, size) /\ (c = k \/ c = size)
    BY DEF MinOf
<1>2. ASSUME NEW n \in 1..size
      PROVE  /\ start + n - 1 \in start..(start + size - 1)
             /\ Entry(score, start + n - 1) \in ScoredEntries
    BY DEF Entry, ScoredEntries
<1>3. list \in Seq(ScoredEntries)
    <2>1. list \in [1..size -> ScoredEntries]
        BY <1>2 DEF ChunkList
    <2> QED BY <2>1, SeqDef
<1>4. Len(list) = size /\ \A n \in 1..size : list[n] = Entry(score, start + n - 1)
    BY <1>3, LenProperties DEF ChunkList
<1>5. \A n \in 1..size : /\ list[n].id = start + n - 1
                         /\ list[n].score = score[list[n].id]
                         /\ list[n].id \in start..(start + size - 1)
                         /\ list[n] \in ScoredEntries
    <2>1. ASSUME NEW n \in 1..size
          PROVE  /\ list[n].id = start + n - 1
                 /\ list[n].score = score[list[n].id]
        BY <1>4 DEF Entry
    <2> QED BY <1>2, <1>4, <2>1
<1>6. PICK m \in Nat : m = 2 * c
    OBVIOUS
<1>7. PICK f \in Injection(1..m, 1..size) :
         /\ best = [p \in 1..m |-> list[f[p]]]
         /\ \A n \in 1..size : \/ \E p \in 1..m : f[p] = n
                               \/ \A p \in 1..m : AsGood(list[f[p]].score, list[n].score)
    <2>1. best \in SelectK(list, m)
        BY <1>1, <1>6
    <2>2. PICK f \in Injection(1..m, 1..Len(list)) : ChosenBy(list, m, best, f)
        BY <1>3, <2>1, SelectKIs
    <2> QED BY <1>4, <2>2 DEF ChosenBy
<1>8. \A p \in 1..m : f[p] \in 1..size /\ best[p] = list[f[p]]
    BY <1>7 DEF Injection
<1>9. best \in Seq(ScoredEntries) /\ Len(best) = m
    <2>1. best \in [1..m -> ScoredEntries]
        BY <1>5, <1>7, <1>8
    <2>2. best \in Seq(ScoredEntries)
        BY <2>1, SeqDef
    <2> QED BY <1>7, <2>2, LenProperties
<1>10. PICK s : s = PartialSort(best, c)
    OBVIOUS
<1>11. /\ s \in Seq(ScoredEntries)
       /\ Len(s) = c
       /\ \A p \in 1..c : /\ Place(best, p) \in 1..m
                          /\ s[p] = best[Place(best, p)]
                          /\ Rank(best, Place(best, p)) = p
       /\ \A n \in 1..m : \/ \E p \in 1..c : Place(best, p) = n
                          \/ \A p \in 1..c : Precedes(best, Place(best, p), n)
    <2>1. c \in 0..Len(best)
        BY <1>6, <1>9
    <2> QED BY <1>9, <1>10, <2>1, PartialSortFacts
<1>12. ASSUME NEW p \in 1..c
       PROVE  \E n \in 1..size : n = f[Place(best, p)] /\ s[p] = list[n]
    BY <1>8, <1>11
<1>13. ASSUME NEW p \in 1..c
       PROVE  s[p].id \in start..(start + size - 1) /\ s[p].score = score[s[p].id]
    BY <1>5, <1>12
<1>14. ASSUME NEW p \in 1..c, NEW r \in 1..c, s[p].id = s[r].id PROVE p = r
    <2>1. PICK a \in 1..size : a = f[Place(best, p)] /\ s[p] = list[a]
        BY <1>12
    <2>2. PICK b \in 1..size : b = f[Place(best, r)] /\ s[r] = list[b]
        BY <1>12
    <2>3. start + a - 1 = start + b - 1
        <3>1. s[p].id = start + a - 1 /\ s[r].id = start + b - 1
            BY <1>5, <2>1, <2>2
        <3> QED BY <1>14, <3>1
    <2>4. f[Place(best, p)] = f[Place(best, r)]
        BY <2>1, <2>2, <2>3
    <2>5. Place(best, p) = Place(best, r)
        BY <1>7, <1>11, <2>4 DEF Injection, IsInjective
    <2> QED BY <1>11, <2>5
\* Who is missing was left out by the library or by the sort.
<1>15. ASSUME NEW d \in start..(start + size - 1), ~\E p \in 1..c : s[p].id = d
       PROVE  \/ Beaten(s, k, Entry(score, d))
              \/ Contested(s, score, start, start + size, k, d)
    <2>1. PICK n \in 1..size : start + n - 1 = d
        <3>1. d - start + 1 \in 1..size /\ start + (d - start + 1) - 1 = d
            OBVIOUS
        <3> QED BY <3>1
    <2>2. list[n] = Entry(score, d) /\ list[n].id = d /\ list[n].score = score[d]
        BY <1>4, <1>5, <2>1
    <2>3. c = k
        <3> SUFFICES ASSUME c = size PROVE FALSE
            BY <1>1
        <3>1. Cardinality(1..m) <= Cardinality(1..size)
            <4>1. IsFiniteSet(1..size)
                BY FS_Interval
            <4> QED BY <1>7, <4>1, FS_Injection
        <3>2. Cardinality(1..m) = m
            BY FS_Interval
        <3>3. Cardinality(1..size) = size
            BY FS_Interval
        <3> QED BY <1>6, <2>1, <3>1, <3>2, <3>3
    <2>4. [j \in 1..k |-> j] \in Injection(1..k, 1..Len(s))
        BY <1>11, <2>3 DEF Injection, IsInjective
    <2>5. \A e : (\A p \in 1..c : Before(s[p], e)) => Beaten(s, k, e)
        BY <2>3, <2>4 DEF Beaten
    <2>6. CASE \E i \in 1..m : f[i] = n
        <3>1. PICK i \in 1..m : f[i] = n
            BY <2>6
        <3>2. best[i] = Entry(score, d)
            BY <1>8, <2>2, <3>1
        <3>3. ~\E p \in 1..c : Place(best, p) = i
            BY <1>11, <1>15, <2>2, <1>8, <3>1
        <3>4. ASSUME NEW p \in 1..c PROVE Before(s[p], Entry(score, d))
            <4>1. PICK a \in 1..m : a = Place(best, p) /\ s[p] = best[a] /\ Precedes(best, a, i)
                BY <1>11, <3>3
            <4>2. NotAfter(best[a], best[i]) /\ best[a] \in ScoredEntries /\ best[i] \in ScoredEntries
                BY <1>9, <4>1, PrecedesOrder, ElementOfSeq
            <4>3. best[a].id # best[i].id
                BY <1>15, <2>2, <3>2, <4>1 DEF Entry
            <4>4. Before(best[a], best[i])
                BY <4>2, <4>3, NotAfterIs DEF NotAfter
            <4> QED BY <3>2, <4>1, <4>4
        <3> QED BY <2>5, <3>4
    <2>7. CASE \A p \in 1..m : AsGood(list[f[p]].score, list[n].score) /\ f[p] # n
        <3> DEFINE last == [id |-> start + size, score |-> score[d]]
        <3>1. last \in ScoredEntries
            BY DEF ScoredEntries
        <3>2. ASSUME NEW p \in 1..c PROVE Before(s[p], last)
            <4>1. PICK a \in 1..m : s[p] = list[f[a]] /\ f[a] \in 1..size
                BY <1>8, <1>11
            <4>2. AsGood(s[p].score, last.score)
                BY <2>2, <2>7, <4>1
            <4>3. s[p] \in ScoredEntries /\ s[p].id < last.id
                <5>1. s[p] \in ScoredEntries /\ s[p].id \in start..(start + size - 1)
                    BY <1>5, <4>1
                <5>2. last.id = start + size
                    OBVIOUS
                <5> HIDE DEF last
                <5> QED BY <5>1, <5>2
            <4>4. s[p].score \in Scores /\ last.score \in Scores
                BY <3>1, <4>3 DEF ScoredEntries
            <4> QED BY <4>2, <4>3, <4>4, ScoreOrder DEF Before
        <3>3. Beaten(s, k, last)
            BY <2>5, <3>2
        <3> DEFINE g == [j \in 1..m |-> start + f[j] - 1]
        <3>4. \A j \in 1..m : f[j] \in Nat /\ g[j] \in (start..(start + size - 1)) \ {d}
            <4> SUFFICES ASSUME NEW j \in 1..m
                         PROVE  f[j] \in Nat /\ g[j] \in (start..(start + size - 1)) \ {d}
                OBVIOUS
            <4>1. PICK i \in 1..size : i = f[j] /\ i # n
                BY <1>8, <2>7
            <4>2. g[j] = start + i - 1
                BY <4>1
            <4> HIDE DEF g
            <4> QED BY <2>1, <4>1, <4>2
        <3>5. \A i, j \in 1..m : g[i] = g[j] => f[i] = f[j]
            <4> SUFFICES ASSUME NEW i \in 1..m, NEW j \in 1..m, g[i] = g[j] PROVE f[i] = f[j]
                OBVIOUS
            <4>1. PICK a \in Nat, b \in Nat : a = f[i] /\ b = f[j]
                BY <3>4
            <4>2. g[i] = start + a - 1 /\ g[j] = start + b - 1
                BY <4>1
            <4>3. start + a - 1 = start + b - 1
                BY <4>2, Zenon
            <4>4. a = b
                BY <4>3
            <4> QED BY <4>1, <4>4
        <3>6. g \in Injection(1..m, (start..(start + size - 1)) \ {d})
            BY <1>7, <3>4, <3>5 DEF Injection, IsInjective
        <3>7. \A j \in 1..m : AsGood(score[g[j]], score[d])
            BY <1>5, <1>8, <2>2, <2>7
        <3>8. m = 2 * k
            BY <1>6, <2>3
        <3> QED BY <3>3, <3>6, <3>7, <3>8 DEF Contested
    <2> QED BY <1>7, <2>6, <2>7
<1>16. PICK to \in Nat : to = start + size
    OBVIOUS
<1>17. CoversTwice(s, score, start, to, k)
    <2>1. Covers(s, score, start, to, 0)
        <3>1. Len(s) >= MinOf(0, to - start)
            BY <1>11, <1>16 DEF MinOf
        <3> QED BY <1>11, <1>13, <1>14, <1>16, <3>1, NoneBeat DEF Covers
    <2>2. Len(s) >= MinOf(k, to - start)
        BY <1>1, <1>11, <1>16 DEF MinOf
    <2>3. \A d \in start..(to - 1) :
             \/ \E p \in 1..Len(s) : s[p].id = d
             \/ Beaten(s, k, Entry(score, d))
             \/ Contested(s, score, start, to, k, d)
        BY <1>11, <1>15, <1>16
    <2> QED BY <2>1, <2>2, <2>3 DEF CoversTwice
<1> QED BY <1>1, <1>10, <1>16, <1>17

\* The lists of two neighbouring parts, one behind the other.
LEMMA CoversTwiceConcat ==
    ASSUME NEW from \in Nat, NEW mid \in Nat, NEW to \in Nat, NEW k \in Nat,
           NEW score, NEW list, NEW more, from <= mid, mid <= to,
           CoversTwice(list, score, from, mid, k), CoversTwice(more, score, mid, to, k)
    PROVE  CoversTwice(list \o more, score, from, to, k)
<1> DEFINE all == list \o more
<1>1. list \in Seq(ScoredEntries) /\ more \in Seq(ScoredEntries)
    BY DEF CoversTwice, Covers
<1>2. PICK l \in Nat, r \in Nat : l = Len(list) /\ r = Len(more)
    BY <1>1, LenProperties
<1>3. /\ all \in Seq(ScoredEntries)
      /\ Len(all) = l + r
      /\ \A n \in 1..(l + r) : all[n] = IF n <= l THEN list[n] ELSE more[n - l]
    BY <1>1, <1>2, ConcatProperties
<1>4. Covers(all, score, from, to, 0)
    <2>1. Covers(list, score, from, mid, 0) /\ Covers(more, score, mid, to, 0) /\ 0 \in Nat
        BY DEF CoversTwice
    <2> QED BY <2>1, CoversConcat
<1>5. \A e : Beaten(list, k, e) \/ Beaten(more, k, e) => Beaten(all, k, e)
    BY <1>1, BeatenConcat
<1> HIDE DEF all
<1>6. ASSUME NEW d \in from..(to - 1)
      PROVE  \/ \E n \in 1..(l + r) : all[n].id = d
             \/ Beaten(all, k, Entry(score, d))
             \/ Contested(all, score, from, to, k, d)
    <2>1. CASE d <= mid - 1
        <3>1. \A n \in 1..l : n \in 1..(l + r) /\ all[n] = list[n]
            BY <1>3
        <3>2. ASSUME Contested(list, score, from, mid, k, d) PROVE Contested(all, score, from, to, k, d)
            <4>1. Beaten(all, k, [id |-> mid, score |-> score[d]])
                BY <1>5, <3>2 DEF Contested
            <4>2. Beaten(all, k, [id |-> to, score |-> score[d]])
                BY <1>3, <3>2, <4>1, BeatenLater DEF Contested
            <4>3. PICK f \in Injection(1..(2 * k), (from..(mid - 1)) \ {d}) :
                     \A j \in 1..(2 * k) : AsGood(score[f[j]], score[d])
                BY <3>2 DEF Contested
            <4>4. (from..(mid - 1)) \ {d} \subseteq (from..(to - 1)) \ {d}
                OBVIOUS
            <4>5. f \in Injection(1..(2 * k), (from..(to - 1)) \ {d})
                BY <4>3, <4>4 DEF Injection
            <4> QED BY <3>2, <4>2, <4>3, <4>5 DEF Contested
        <3>3. \/ \E n \in 1..l : list[n].id = d
              \/ Beaten(list, k, Entry(score, d))
              \/ Contested(list, score, from, mid, k, d)
            BY <1>2, <2>1 DEF CoversTwice
        <3> QED BY <1>5, <3>1, <3>2, <3>3
    <2>2. CASE d >= mid
        <3>1. ASSUME NEW n \in 1..r PROVE l + n \in 1..(l + r) /\ all[l + n] = more[n]
            <4>1. l + n \in 1..(l + r) /\ ~(l + n <= l) /\ l + n - l = n
                OBVIOUS
            <4> QED BY <1>3, <4>1
        <3>2. ASSUME Contested(more, score, mid, to, k, d) PROVE Contested(all, score, from, to, k, d)
            <4>1. Beaten(all, k, [id |-> to, score |-> score[d]])
                BY <1>5, <3>2 DEF Contested
            <4>2. PICK f \in Injection(1..(2 * k), (mid..(to - 1)) \ {d}) :
                     \A j \in 1..(2 * k) : AsGood(score[f[j]], score[d])
                BY <3>2 DEF Contested
            <4>3. (mid..(to - 1)) \ {d} \subseteq (from..(to - 1)) \ {d}
                OBVIOUS
            <4>4. f \in Injection(1..(2 * k), (from..(to - 1)) \ {d})
                BY <4>2, <4>3 DEF Injection
            <4> QED BY <3>2, <4>1, <4>2, <4>4 DEF Contested
        <3>3. \/ \E n \in 1..r : more[n].id = d
              \/ Beaten(more, k, Entry(score, d))
              \/ Contested(more, score, mid, to, k, d)
            BY <1>2, <2>2 DEF CoversTwice
        <3> QED BY <1>5, <3>1, <3>2, <3>3
    <2> QED BY <2>1, <2>2
<1>7. l + r >= MinOf(k, to - from)
    <2>1. l >= MinOf(k, mid - from) /\ r >= MinOf(k, to - mid)
        BY <1>2 DEF CoversTwice
    <2> QED BY <2>1 DEF MinOf
<1>8. CoversTwice(all, score, from, to, k)
    BY <1>3, <1>4, <1>6, <1>7 DEF CoversTwice
<1> QED BY <1>8 DEF all

\* Selecting twice is selecting from the whole up to documents with equal scores, and exactly
\* that if no more than 2k documents contend for the k places, however the documents were cut.
THEOREM TwiceOfTheBest ==
    ASSUME NEW n \in Nat, NEW k \in Nat, NEW score \in [0..(n - 1) -> Scores],
           NEW list, CoversTwice(list, score, 0, n, k)
    PROVE  /\ MinOf(k, n) <= Len(list)
           /\ IsTopkOfTwice(PartialSort(list, MinOf(k, n)), MinOf(k, n), score)
<1>1. list \in Seq(ScoredEntries) /\ Len(list) >= MinOf(k, n - 0)
    BY DEF CoversTwice, Covers
<1>2. PICK l \in Nat : l = Len(list)
    BY <1>1, LenProperties
<1>3. PICK c \in 0..l : c = MinOf(k, n) /\ c <= k
    <2>1. n - 0 = n
        OBVIOUS
    <2> QED BY <1>1, <1>2, <2>1 DEF MinOf
<1>4. PICK s : s = PartialSort(list, c)
    OBVIOUS
<1>5. Covers(list, score, 0, n, 0)
    BY DEF CoversTwice
<1>6. BestIn(list, score, s, c)
    <2>1. c \in 0..Len(list)
        BY <1>2, <1>3
    <2> QED BY <1>4, <1>5, <2>1, BestOfList
<1> DEFINE Left == DOMAIN score \ {s[p].id : p \in 1..c}
           BehindAll(d) == [id |-> n, score |-> score[d]]
<1>7. ASSUME NEW d \in Left
      PROVE  /\ d \in 0..(n - 1) /\ score[d] \in Scores
             /\ Entry(score, d) \in ScoredEntries /\ BehindAll(d) \in ScoredEntries
    BY DEF Entry, ScoredEntries
<1>8. ASSUME NEW d \in Left
      PROVE  \/ \A p \in 1..c : Before(s[p], Entry(score, d))
             \/ Contested(list, score, 0, n, k, d) /\ \A p \in 1..c : Before(s[p], BehindAll(d))
    <2>1. \/ \E m \in 1..l : list[m].id = d
          \/ Beaten(list, k, Entry(score, d))
          \/ Contested(list, score, 0, n, k, d)
        BY <1>2, <1>7 DEF CoversTwice
    <2>2. Contested(list, score, 0, n, k, d) => Beaten(list, k, BehindAll(d))
        BY DEF Contested
    <2>3. \A e \in ScoredEntries : Beaten(list, k, e) => \A p \in 1..c : Before(s[p], e)
        BY <1>3, <1>6 DEF BestIn
    <2> QED BY <1>2, <1>6, <1>7, <2>1, <2>2, <2>3 DEF BestIn
<1>9. ASSUME NEW d \in Left, NEW p \in 1..c PROVE ~Greater(score[d], s[p].score)
    <2>1. s[p].score \in Scores /\ score[d] \in Scores
        BY <1>6, <1>7 DEF BestIn, ScoredEntries
    <2>2. Before(s[p], Entry(score, d)) \/ Before(s[p], BehindAll(d))
        BY <1>8
    <2>3. NotAfter(s[p], Entry(score, d)) \/ NotAfter(s[p], BehindAll(d))
        BY <1>6, <1>7, <2>2, NotAfterIs DEF BestIn
    <2>4. AsGood(s[p].score, score[d])
        BY <1>6, <1>7, <2>3, NotAfterIs DEF BestIn, Entry
    <2> QED BY <2>1, <2>4, ScoreOrder
<1>10. IsTopkUpToTies(s, c, score)
    BY <1>6, <1>9 DEF BestIn, IsTopkUpToTies
<1> DEFINE contenders == {d \in DOMAIN score : ~Greater(s[c].score, score[d])}
\* A contested document that contends brings 2k others with it.
<1>11. ASSUME c > 0, NEW d \in Left, Contested(list, score, 0, n, k, d), d \in contenders
       PROVE  Cardinality(contenders) > 2 * c
    <2>1. PICK f \in Injection(1..(2 * k), (0..(n - 1)) \ {d}) :
             \A j \in 1..(2 * k) : AsGood(score[f[j]], score[d])
        BY <1>11 DEF Contested
    <2>2. s[c].score \in Scores /\ score[d] \in Scores
        BY <1>6, <1>7, <1>11 DEF BestIn, ScoredEntries
    <2>3. AsGood(score[d], s[c].score)
        BY <1>11, <2>2, ScoreOrder
    <2>4. ASSUME NEW j \in 1..(2 * k) PROVE f[j] \in contenders /\ f[j] # d
        <3>1. f[j] \in 0..(n - 1) /\ f[j] # d
            BY <2>1 DEF Injection
        <3>2. score[f[j]] \in Scores
            BY <3>1
        <3>3. AsGood(score[f[j]], s[c].score)
            BY <2>1, <2>2, <2>3, <3>2, AsGoodTransitive
        <3> QED BY <2>2, <3>1, <3>2, <3>3, ScoreOrder
    <2>5. IsFiniteSet(contenders)
        <3>1. contenders \in SUBSET (0..(n - 1)) /\ IsFiniteSet(0..(n - 1))
            BY FS_Interval
        <3> QED BY <3>1, FS_Subset
    <2>6. PICK m \in Nat : m = 2 * k
        OBVIOUS
    <2> HIDE DEF contenders
    <2> DEFINE g == [j \in 1..(m + 1) |-> IF j <= m THEN f[j] ELSE d]
    <2>7. g \in [1..(m + 1) -> contenders]
        BY <1>11, <2>4, <2>6
    <2>8. ASSUME NEW i \in 1..(m + 1), NEW j \in 1..(m + 1), g[i] = g[j] PROVE i = j
        <3>1. CASE i <= m /\ j <= m
            BY <2>1, <2>6, <2>8, <3>1 DEF Injection, IsInjective
        <3>2. CASE ~(i <= m) /\ ~(j <= m)
            BY <3>2
        <3>3. CASE (i <= m) # (j <= m)
            BY <2>4, <2>6, <2>8, <3>3
        <3> QED BY <3>1, <3>2, <3>3
    <2>9. g \in Injection(1..(m + 1), contenders)
        BY <2>7, <2>8 DEF Injection, IsInjective
    <2>10. Cardinality(1..(m + 1)) = m + 1
        BY FS_Interval
    <2>11. Cardinality(1..(m + 1)) <= Cardinality(contenders)
        BY <2>5, <2>9, FS_Injection
    <2>12. Cardinality(contenders) \in Nat
        BY <2>5, FS_CardinalityType
    <2> QED BY <1>3, <2>6, <2>10, <2>11, <2>12
<1>12. ASSUME c > 0, Cardinality(contenders) <= 2 * c PROVE IsTopk(s, c, score)
    <2>1. ASSUME NEW d \in Left, NEW p \in 1..c PROVE Before(s[p], Entry(score, d))
        <3> SUFFICES ASSUME Contested(list, score, 0, n, k, d) PROVE Before(s[p], Entry(score, d))
            BY <1>8
        <3>1. Greater(s[c].score, score[d])
            <4>1. Cardinality(contenders) \in Nat
                <5>1. contenders \in SUBSET (0..(n - 1)) /\ IsFiniteSet(0..(n - 1))
                    BY FS_Interval
                <5> QED BY <5>1, FS_Subset, FS_CardinalityType
            <4>2. ~(Cardinality(contenders) > 2 * c)
                BY <1>3, <1>12, <4>1
            <4>3. d \notin contenders
                BY <1>11, <1>12, <4>2
            <4> QED BY <4>3
        <3>2. c \in 1..c
            BY <1>12
        <3>3. Before(s[c], Entry(score, d))
            BY <3>1 DEF Before, Entry
        <3>4. CASE p = c
            BY <3>3, <3>4
        <3>5. CASE p < c
            <4>1. Before(s[p], s[c])
                BY <1>6, <3>2, <3>5 DEF BestIn
            <4>2. NotAfter(s[c], Entry(score, d))
                BY <1>6, <1>7, <3>2, <3>3, NotAfterIs DEF BestIn
            <4> QED BY <1>6, <1>7, <3>2, <4>1, <4>2, BeforeTransitive DEF BestIn
        <3> QED BY <3>4, <3>5
    <2> QED BY <1>6, <2>1 DEF BestIn, IsTopk, Entry
<1>13. IsTopkOfTwice(s, c, score)
    BY <1>10, <1>12 DEF IsTopkOfTwice
<1> QED BY <1>2, <1>3, <1>4, <1>13

=============================================================================
