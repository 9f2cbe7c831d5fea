--------------------------- MODULE DeviceBuildsProofs ---------------------------
(***************************************************************************)
(* No operation of a build writes outside its array, and nothing races:    *)
(* for any number of queries and documents.  A build is a program kept as  *)
(* data, so the argument is a proof outline: before each statement a set   *)
(* holds everything the device may still have to do, and the number of     *)
(* lists selected so far.  Outlines compose as programs do, one statement  *)
(* after the other and one query after the other; what is left to show of  *)
(* a build is what its operations touch.                                   *)
(***************************************************************************)
EXTENDS DeviceBuilds, DocLayoutProofs

-----------------------------------------------------------------------------
(* What operations touch *)

IsOp(op) ==
    /\ op.kind \in {"copy", "data", "align", "score", "insert", "hash_score"}
    /\ op.kind = "align" => op.n \in Nat

\* An operation writes its own cells and no others.
LEMMA EffectWithinWrites ==
    ASSUME NEW op, IsOp(op), NEW m, NEW junk
    PROVE  {op.dst} \X DOMAIN Effect(op, m, junk) \subseteq Writes(op)
<1>1. CASE op.kind = "copy"
    BY <1>1 DEF Effect, Writes, Cells, Span
<1>2. CASE op.kind = "data"
    BY <1>2 DEF Effect, Writes, Cells, Span
<1>3. CASE op.kind = "score"
    BY <1>3 DEF Effect, Writes, Cells, Span
<1>4. CASE op.kind = "hash_score"
    BY <1>4 DEF Effect, Writes, Cells, Span
<1>5. CASE op.kind = "insert"
    BY <1>5 DEF Effect, Writes, Cells, Span, Counted
<1>6. CASE op.kind = "align"
    <2>1. Effect(op, m, junk) = Aligned(op, m)
        BY <1>6 DEF Effect
    <2>2. DOMAIN Aligned(op, m) \subseteq Span(0, op.n * MaxDocSize)
        <3> DEFINE places == {p \in (0..(op.n - 1)) \X (0..(MaxDocSize - 1)) :
                                 p[2] < m[op.lens][p[1]]}
        <3>1. SUFFICES ASSUME NEW p \in places
                       PROVE  FinalOffset(op.n, p[1], p[2]) \in Span(0, op.n * MaxDocSize)
            BY DEF Aligned
        <3>2. p[1] \in 0..(op.n - 1) /\ p[2] \in 0..(MaxDocSize - 1) /\ op.n \in Nat
            BY <1>6 DEF IsOp
        <3>3. FinalOffset(op.n, p[1], p[2]) \in 0..(MaxDocSize * op.n - 1)
            BY <3>2, OffsetsInRange
        <3>4. MaxDocSize * op.n = op.n * MaxDocSize /\ op.n * MaxDocSize \in Nat
            BY <3>2, LayoutAssumption
        <3> QED BY <3>3, <3>4 DEF Span
    <2> QED BY <1>6, <2>1, <2>2 DEF Writes, Cells
<1> QED BY <1>1, <1>2, <1>3, <1>4, <1>5, <1>6 DEF IsOp

\* The cells of the operations the builds issue.
LEMMA CopyTouches ==
    ASSUME NEW dst, NEW to, NEW src, NEW from, NEW n
    PROVE  LET op == Copy(dst, to, src, from, n)
           IN  /\ IsOp(op) /\ op.dst = dst
               /\ Writes(op) = Cells(dst, to, n) /\ Reads(op) = Cells(src, from, n)
BY DEF Copy, IsOp, Writes, Reads

LEMMA DataTouches ==
    ASSUME NEW dst, NEW to, NEW data
    PROVE  LET op == Data(dst, to, data)
           IN  /\ IsOp(op) /\ op.dst = dst
               /\ Writes(op) = Cells(dst, to, Len(data)) /\ Reads(op) = {}
BY DEF Data, IsOp, Writes, Reads

LEMMA AlignTouches ==
    ASSUME NEW dst, NEW src, NEW lens, NEW n \in Nat
    PROVE  LET op == Align(dst, src, lens, n)
           IN  /\ IsOp(op) /\ op.dst = dst
               /\ Writes(op) = Cells(dst, 0, n * MaxDocSize)
               /\ Reads(op) = Cells(src, 0, n * MaxDocSize) \cup Cells(lens, 0, n)
BY DEF Align, IsOp, Writes, Reads

LEMMA ScoreTouches ==
    ASSUME NEW docs, NEW lens, NEW n, NEW query, NEW qat, NEW qlen, NEW dst, NEW to
    PROVE  LET op == Score(docs, lens, n, query, qat, qlen, dst, to)
           IN  /\ IsOp(op) /\ op.dst = dst
               /\ Writes(op) = Cells(dst, to, n)
               /\ Reads(op) = Cells(docs, 0, n * MaxDocSize) \cup Cells(lens, 0, n)
                                  \cup Cells(query, qat, qlen)
BY DEF Score, IsOp, Writes, Reads

LEMMA InsertTouches ==
    ASSUME NEW dst, NEW m, NEW keys, NEW n
    PROVE  LET op == Insert(dst, m, keys, n)
           IN  /\ IsOp(op) /\ op.dst = dst
               /\ Writes(op) = Cells(dst, 0, m)
BY DEF Insert, IsOp, Writes

LEMMA HashScoreTouches ==
    ASSUME NEW docs, NEW lens, NEW n, NEW table, NEW m, NEW qlen, NEW dst
    PROVE  LET op == HashScore(docs, lens, n, table, m, qlen, dst)
           IN  /\ IsOp(op) /\ op.dst = dst
               /\ Writes(op) = Cells(dst, 0, n)
BY DEF HashScore, IsOp, Writes

\* Parts of different arrays have no cell in common.
LEMMA OtherArray ==
    ASSUME NEW a, NEW b, a # b, NEW from, NEW n, NEW to, NEW m
    PROVE  Cells(a, from, n) \cap Cells(b, to, m) = {}
BY DEF Cells

-----------------------------------------------------------------------------
(* Outlines *)

\* What the theorem about races is about: the document stream build copies each
\* query while its stream is at work, so the copy has to be over when it returns.
Quiet(r) == r.build = "doc_stream" => ~r.staged

\* op writes inside one of the arrays.
Fits(r, op) ==
    /\ IsOp(op)
    /\ op.dst \in DOMAIN Arrays(r)
    /\ Writes(op) \subseteq Cells(op.dst, 0, Arrays(r)[op.dst])

\* What may be in flight together: pairs of a stream and an operation of it.
Sound(r, F) ==
    /\ \A x \in F : x[1] \in Streams /\ Fits(r, x[2])
    /\ Quiet(r) => \A x, y \in F : x[1] # y[1] => ~Conflict(x[2], y[2])

\* What the host may execute while F is in flight.  What a statement issues is
\* already counted in F.
HostSound(r, op, F) ==
    /\ Fits(r, op)
    /\ Quiet(r) => \A x \in F : ~Conflict(op, x[2])

SelectSound(r, array, from, F) ==
    Quiet(r) => \A x \in F : Cells(array, from, N(r)) \cap Writes(x[2]) = {}

ParallelSound(bodies, F) ==
    \A q \in DOMAIN bodies :
       /\ Len(bodies[q]) \in Nat
       /\ \A i \in 1..Len(bodies[q]) : <<q, bodies[q][i]>> \in F

Kinds == {"host", "issue", "sync", "parallel", "select", "select_twice"}

Good(r, st, F) ==
    /\ st.do \in Kinds
    /\ st.do = "host" => HostSound(r, st.op, F)
    /\ st.do = "issue" => <<st.s, st.op>> \in F
    /\ st.do = "parallel" => ParallelSound(st.bodies, F)
    /\ st.do = "select" => SelectSound(r, "h_scores", st.from, F)
    /\ st.do = "select_twice" => SelectSound(r, "d_scores", st.from, F)

\* What is in flight once st is over.
After(st, F) == IF st.do = "sync" THEN {x \in F : x[1] \notin st.ss} ELSE F

\* How many lists st adds.
Selects(st) == IF st.do \in {"select", "select_twice"} THEN 1 ELSE 0

IsProgram(P) == P \in Seq(Range(P))

Point(F, c) == [flight |-> F, done |-> c]

\* Z annotates P: a point before each statement and one behind the last.
Outline(r, P, Z) ==
    /\ \A k \in 1..(Len(P) + 1) : Sound(r, Z[k].flight) /\ Z[k].done \in Nat
    /\ \A k \in 1..Len(P) :
          /\ Good(r, P[k], Z[k].flight)
          /\ After(P[k], Z[k].flight) \subseteq Z[k + 1].flight
          /\ Z[k + 1].done = Z[k].done + Selects(P[k])

\* P can start with F in flight and c lists, and ends with no more than G and d lists.
Runs(r, P, F, c, G, d) ==
    /\ IsProgram(P)
    /\ \E Z : /\ Outline(r, P, Z)
              /\ F \subseteq Z[1].flight /\ Z[1].done = c
              /\ Z[Len(P) + 1].flight \subseteq G /\ Z[Len(P) + 1].done = d

\* Fewer operations in flight are no less sound.
LEMMA SoundSubset ==
    ASSUME NEW r, NEW F, Sound(r, F), NEW G \in SUBSET F
    PROVE  Sound(r, G)
BY DEF Sound

LEMMA Weaken ==
    ASSUME NEW r, NEW P, NEW F, NEW G, NEW c, NEW d, Runs(r, P, F, c, G, d),
           NEW E \in SUBSET F, NEW H, G \subseteq H
    PROVE  Runs(r, P, E, c, H, d)
BY DEF Runs

LEMMA ProgramIs ==
    ASSUME NEW P, IsProgram(P)
    PROVE  Len(P) \in Nat /\ P \in [1..Len(P) -> Range(P)]
BY LenProperties DEF IsProgram

\* The program that does nothing.
LEMMA RunsNothing ==
    ASSUME NEW r, NEW F, Sound(r, F), NEW c \in Nat
    PROVE  Runs(r, <<>>, F, c, F, c)
<1> DEFINE Z == [k \in 1..1 |-> Point(F, c)]
<1>1. IsProgram(<<>>) /\ Len(<<>>) = 0
    BY EmptySeq DEF IsProgram
<1>2. Z[1] = Point(F, c)
    OBVIOUS
<1> HIDE DEF Z
<1>3. Outline(r, <<>>, Z)
    BY <1>1, <1>2 DEF Outline, Point
<1> QED BY <1>1, <1>2, <1>3 DEF Runs, Point

\* One statement.
LEMMA RunsOne ==
    ASSUME NEW r, NEW st, NEW F, NEW c \in Nat, Sound(r, F), Good(r, st, F)
    PROVE  Runs(r, <<st>>, F, c, After(st, F), c + Selects(st))
<1> DEFINE Z == [k \in 1..2 |-> IF k = 1 THEN Point(F, c)
                                ELSE Point(After(st, F), c + Selects(st))]
<1>1. IsProgram(<<st>>) /\ Len(<<st>>) = 1 /\ <<st>>[1] = st
    BY DEF IsProgram, Range
<1>2. Z[1] = Point(F, c) /\ Z[2] = Point(After(st, F), c + Selects(st))
    OBVIOUS
<1> HIDE DEF Z
<1>3. Sound(r, After(st, F)) /\ c + Selects(st) \in Nat
    <2>1. After(st, F) \in SUBSET F
        BY DEF After
    <2> QED BY <2>1, SoundSubset DEF Selects
<1>4. Outline(r, <<st>>, Z)
    BY <1>1, <1>2, <1>3 DEF Outline, Point
<1> QED BY <1>1, <1>2, <1>4 DEF Runs, Point

\* One program after the other.
LEMMA RunsConcat ==
    ASSUME NEW r, NEW P, NEW Q, NEW F, NEW G, NEW H, NEW c, NEW d, NEW e,
           Runs(r, P, F, c, G, d), Runs(r, Q, G, d, H, e)
    PROVE  Runs(r, P \o Q, F, c, H, e)
<1> DEFINE l == Len(P)
           m == Len(Q)
<1>1. PICK X : /\ Outline(r, P, X)
               /\ F \subseteq X[1].flight /\ X[1].done = c
               /\ X[l + 1].flight \subseteq G /\ X[l + 1].done = d
    BY DEF Runs
<1>2. PICK Y : /\ Outline(r, Q, Y)
               /\ G \subseteq Y[1].flight /\ Y[1].done = d
               /\ Y[m + 1].flight \subseteq H /\ Y[m + 1].done = e
    BY DEF Runs
<1>3. /\ P \in Seq(Range(P) \cup Range(Q)) /\ Q \in Seq(Range(P) \cup Range(Q))
      /\ l \in Nat /\ m \in Nat
    BY SeqMonotonic, ProgramIs DEF Runs, IsProgram
<1>4. /\ P \o Q \in Seq(Range(P) \cup Range(Q))
      /\ Len(P \o Q) = l + m
      /\ \A k \in 1..(l + m) : (P \o Q)[k] = IF k <= l THEN P[k] ELSE Q[k - l]
    BY <1>3, ConcatProperties
<1>5. IsProgram(P \o Q)
    BY <1>4, SeqOfRange DEF IsProgram
<1> DEFINE Z == [k \in 1..(l + m + 1) |-> IF k <= l THEN X[k] ELSE Y[k - l]]
<1>6. \A k \in 1..l : Z[k] = X[k]
    BY <1>3
<1>7. \A k \in 1..(m + 1) : Z[l + k] = Y[k]
    BY <1>3
<1> HIDE DEF Z
<1>8. \A k \in 1..(l + m + 1) : Sound(r, Z[k].flight) /\ Z[k].done \in Nat
    <2> SUFFICES ASSUME NEW k \in 1..(l + m + 1)
                 PROVE  Sound(r, Z[k].flight) /\ Z[k].done \in Nat
        OBVIOUS
    <2>1. CASE k <= l
        <3>1. k \in 1..l /\ k \in 1..(l + 1)
            BY <1>3, <2>1
        <3> QED BY <1>1, <1>6, <3>1 DEF Outline
    <2>2. CASE k > l
        <3>1. k - l \in 1..(m + 1) /\ l + (k - l) = k
            BY <1>3, <2>2
        <3> QED BY <1>2, <1>7, <3>1 DEF Outline
    <2> QED BY <1>3, <2>1, <2>2
<1>9. ASSUME NEW k \in 1..(l + m)
      PROVE  /\ Good(r, (P \o Q)[k], Z[k].flight)
             /\ After((P \o Q)[k], Z[k].flight) \subseteq Z[k + 1].flight
             /\ Z[k + 1].done = Z[k].done + Selects((P \o Q)[k])
    <2>1. CASE k < l
        <3>1. k \in 1..l /\ k + 1 \in 1..l /\ k <= l
            BY <1>3, <2>1
        <3>2. (P \o Q)[k] = P[k] /\ Z[k] = X[k] /\ Z[k + 1] = X[k + 1]
            BY <1>4, <1>6, <3>1
        <3> QED BY <1>1, <3>1, <3>2 DEF Outline
    <2>2. CASE k = l
        <3>1. k \in 1..l /\ k <= l /\ 1 \in 1..(m + 1)
            BY <1>3, <2>2
        <3>2. (P \o Q)[k] = P[k] /\ Z[k] = X[k] /\ Z[k + 1] = Y[1]
            BY <1>4, <1>6, <1>7, <2>2, <3>1
        <3>3. /\ Good(r, P[k], X[k].flight)
              /\ After(P[k], X[k].flight) \subseteq X[l + 1].flight
              /\ X[l + 1].done = X[k].done + Selects(P[k])
            BY <1>1, <2>2, <3>1 DEF Outline
        <3>4. X[l + 1].flight \subseteq Y[1].flight /\ X[l + 1].done = Y[1].done
            BY <1>1, <1>2
        <3> QED BY <3>2, <3>3, <3>4
    <2>3. CASE k > l
        <3>1. PICK j \in 1..m : k = l + j /\ ~(k <= l) /\ k - l = j
            <4>1. k - l \in 1..m /\ k = l + (k - l) /\ ~(k <= l)
                BY <1>3, <2>3
            <4> HIDE DEF l, m
            <4> QED BY <4>1
        <3>2. j \in 1..(m + 1) /\ j + 1 \in 1..(m + 1) /\ k + 1 = l + (j + 1)
            BY <1>3, <3>1
        <3>3. (P \o Q)[k] = Q[j] /\ Z[k] = Y[j] /\ Z[k + 1] = Y[j + 1]
            BY <1>4, <1>7, <3>1, <3>2
        <3> QED BY <1>2, <3>1, <3>3 DEF Outline
    <2> QED BY <1>3, <2>1, <2>2, <2>3
<1>10. Outline(r, P \o Q, Z)
    BY <1>4, <1>8, <1>9 DEF Outline
<1>11. F \subseteq Z[1].flight /\ Z[1].done = c
    <2>1. CASE l = 0
        <3>1. Z[1] = Y[1]
            BY <1>3, <1>7, <2>1
        <3> QED BY <1>1, <1>2, <2>1, <3>1
    <2>2. CASE l # 0
        <3>1. Z[1] = X[1]
            BY <1>3, <1>6, <2>2
        <3> QED BY <1>1, <3>1
    <2> QED BY <2>1, <2>2
<1>12. Z[l + m + 1] = Y[m + 1]
    <2>1. m + 1 \in 1..(m + 1) /\ l + (m + 1) = l + m + 1
        BY <1>3
    <2> QED BY <1>7, <2>1
<1>13. Z[Len(P \o Q) + 1].flight \subseteq H /\ Z[Len(P \o Q) + 1].done = e
    BY <1>2, <1>4, <1>12
<1> QED BY <1>5, <1>10, <1>11, <1>13 DEF Runs

\* A program for every query, one after the other.
LEMMA RunsLoop ==
    ASSUME NEW r, NEW n \in Nat, NEW parts, Len(parts) = n, DOMAIN parts = 1..n,
           parts = [q \in 1..n |-> parts[q]],
           NEW B, NEW c, Sound(r, B[0]), c[0] \in Nat,
           \A q \in 1..n : Runs(r, parts[q], B[q - 1], c[q - 1], B[q], c[q])
    PROVE  Runs(r, FlattenSeq(parts), B[0], c[0], B[n], c[n])
<1> DEFINE S == UNION {Range(parts[q]) : q \in 1..n}
<1>1. parts \in Seq(Seq(S))
    <2>1. ASSUME NEW q \in 1..n PROVE parts[q] \in Seq(S)
        <3>1. parts[q] \in Seq(Range(parts[q]))
            BY DEF Runs, IsProgram
        <3>2. Range(parts[q]) \subseteq S
            OBVIOUS
        <3> QED BY <3>1, <3>2, SeqMonotonic
    <2> DEFINE T == Seq(S)
    <2>2. \A q \in 1..n : parts[q] \in T
        BY <2>1
    <2> HIDE DEF T
    <2>3. parts \in [1..n -> T]
        BY <2>2
    <2>4. parts \in Seq(T)
        BY <2>3, SeqDef
    <2> QED BY <2>4 DEF T
<1> HIDE DEF S
<1> DEFINE Upto(i) == SubSeq(parts, 1, i)
           Wrong == {i \in 0..n : ~Runs(r, FlattenSeq(Upto(i)), B[0], c[0], B[i], c[i])}
<1>2. Upto(n) = parts
    BY <1>1, SubSeqFull
<1>3. Wrong = {}
    <2> SUFFICES ASSUME Wrong # {} PROVE FALSE
        OBVIOUS
    <2>0. Wrong \in SUBSET Nat
        OBVIOUS
    <2>1. PICK i \in Wrong : \A k \in Wrong : i <= k
        BY <2>0, Smallest
    <2>2. i # 0
        <3>1. Upto(0) = <<>>
            BY SubSeqEmpty
        <3>2. Runs(r, <<>>, B[0], c[0], B[0], c[0])
            BY RunsNothing
        <3> QED BY <2>1, <3>1, <3>2, FlattenEmpty
    <2>3. PICK k \in Nat : i = k + 1 /\ k \in 0..n /\ k + 1 \in 1..n /\ k + 1 <= n /\ ~(i <= k)
                              /\ (k + 1) - 1 = k
        <3>1. /\ i - 1 \in Nat /\ i = (i - 1) + 1 /\ i - 1 \in 0..n /\ (i - 1) + 1 \in 1..n
              /\ (i - 1) + 1 <= n /\ ~(i <= i - 1) /\ ((i - 1) + 1) - 1 = i - 1
            BY <2>1, <2>2
        <3> QED BY <3>1
    <2>4. Runs(r, FlattenSeq(Upto(k)), B[0], c[0], B[k], c[k])
        BY <2>1, <2>3
    <2>5. FlattenSeq(Upto(k + 1)) = FlattenSeq(Upto(k)) \o parts[k + 1]
        BY <1>1, <2>3, FlattenPrefix
    <2>6. Runs(r, parts[k + 1], B[k], c[k], B[k + 1], c[k + 1])
        BY <2>3
    <2>7. Runs(r, FlattenSeq(Upto(k + 1)), B[0], c[0], B[k + 1], c[k + 1])
        <3>1. PICK before, part : before = FlattenSeq(Upto(k)) /\ part = parts[k + 1]
            OBVIOUS
        <3>2. Runs(r, before, B[0], c[0], B[k], c[k]) /\ Runs(r, part, B[k], c[k], B[k + 1], c[k + 1])
            BY <2>4, <2>6, <3>1
        <3>3. Runs(r, before \o part, B[0], c[0], B[k + 1], c[k + 1])
            BY <3>2, RunsConcat
        <3> QED BY <2>5, <3>1, <3>3
    <2> QED BY <2>1, <2>3, <2>7
<1>4. Runs(r, FlattenSeq(Upto(n)), B[0], c[0], B[n], c[n])
    BY <1>3
<1> QED BY <1>2, <1>4

-----------------------------------------------------------------------------
(* The statements *)

Without(F, ss) == {x \in F : x[1] \notin ss}

LEMMA RunsHost ==
    ASSUME NEW r, NEW F, NEW c \in Nat, NEW op, Sound(r, F), HostSound(r, op, F)
    PROVE  Runs(r, <<Host(op)>>, F, c, F, c)
<1>1. Good(r, Host(op), F) /\ After(Host(op), F) = F /\ c + Selects(Host(op)) = c
    BY DEF Good, After, Selects, Host, Kinds
<1> QED BY <1>1, RunsOne

LEMMA RunsIssue ==
    ASSUME NEW r, NEW F, NEW c \in Nat, NEW s, NEW op, Sound(r, F), <<s, op>> \in F
    PROVE  Runs(r, <<Async(s, op)>>, F, c, F, c)
<1>1. Good(r, Async(s, op), F) /\ After(Async(s, op), F) = F /\ c + Selects(Async(s, op)) = c
    BY DEF Good, After, Selects, Async, Kinds
<1> QED BY <1>1, RunsOne

LEMMA RunsSync ==
    ASSUME NEW r, NEW F, NEW c \in Nat, NEW ss, Sound(r, F)
    PROVE  Runs(r, <<Sync(ss)>>, F, c, Without(F, ss), c)
<1>1. /\ Good(r, Sync(ss), F) /\ After(Sync(ss), F) = Without(F, ss)
      /\ c + Selects(Sync(ss)) = c
    BY DEF Good, After, Selects, Sync, Kinds, Without
<1> QED BY <1>1, RunsOne

LEMMA RunsParallel ==
    ASSUME NEW r, NEW F, NEW c \in Nat, NEW bodies, Sound(r, F), ParallelSound(bodies, F)
    PROVE  Runs(r, <<ParallelFor(bodies)>>, F, c, F, c)
<1>1. /\ Good(r, ParallelFor(bodies), F) /\ After(ParallelFor(bodies), F) = F
      /\ c + Selects(ParallelFor(bodies)) = c
    BY DEF Good, After, Selects, ParallelFor, Kinds
<1> QED BY <1>1, RunsOne

LEMMA RunsSelect ==
    ASSUME NEW r, NEW c \in Nat, NEW from
    PROVE  /\ Runs(r, <<Select(from)>>, {}, c, {}, c + 1)
           /\ Runs(r, <<SelectTwice(from)>>, {}, c, {}, c + 1)
<1>1. Sound(r, {})
    BY DEF Sound
<1>2. /\ Good(r, Select(from), {}) /\ After(Select(from), {}) = {}
      /\ Selects(Select(from)) = 1
    BY DEF Good, After, Selects, Select, Kinds, SelectSound
<1>3. /\ Good(r, SelectTwice(from), {}) /\ After(SelectTwice(from), {}) = {}
      /\ Selects(SelectTwice(from)) = 1
    BY DEF Good, After, Selects, SelectTwice, Kinds, SelectSound
<1>4. Runs(r, <<Select(from)>>, {}, c, {}, c + 1)
    BY <1>1, <1>2, RunsOne
<1>5. Runs(r, <<SelectTwice(from)>>, {}, c, {}, c + 1)
    BY <1>1, <1>3, RunsOne
<1> QED BY <1>4, <1>5

LEMMA Pair ==
    ASSUME NEW a, NEW b
    PROVE  <<a, b>> = <<a>> \o <<b>>
<1> DEFINE S == {a, b}
<1>1. <<a>> \in Seq(S) /\ <<b>> \in Seq(S) /\ <<a, b>> \in Seq(S)
    OBVIOUS
<1>2. /\ Len(<<a>>) = 1 /\ Len(<<b>>) = 1 /\ Len(<<a, b>>) = 2
      /\ <<a>>[1] = a /\ <<b>>[1] = b /\ <<a, b>>[1] = a /\ <<a, b>>[2] = b
    OBVIOUS
<1> DEFINE s == <<a>> \o <<b>>
<1>3. /\ s \in Seq(S) /\ Len(s) = 1 + 1
      /\ \A i \in 1..(1 + 1) : s[i] = IF i <= 1 THEN <<a>>[i] ELSE <<b>>[i - 1]
    BY <1>1, <1>2, ConcatProperties
<1>4. s[1] = a /\ s[2] = b /\ Len(s) = 2
    BY <1>2, <1>3
<1> HIDE DEF s, S
<1>5. s = <<a, b>>
    <2>1. \A i \in 1..2 : s[i] = <<a, b>>[i]
        BY <1>2, <1>4
    <2> QED BY <1>1, <1>2, <1>3, <1>4, <2>1, SeqEqual
<1> QED BY <1>5 DEF s

LEMMA Triple ==
    ASSUME NEW a, NEW b, NEW c
    PROVE  <<a, b, c>> = <<a>> \o <<b>> \o <<c>>
<1> DEFINE S == {a, b, c}
<1>1. <<a, b>> \in Seq(S) /\ <<c>> \in Seq(S) /\ <<a, b, c>> \in Seq(S)
    OBVIOUS
<1>2. /\ Len(<<a, b>>) = 2 /\ Len(<<c>>) = 1 /\ Len(<<a, b, c>>) = 3
      /\ <<a, b>>[1] = a /\ <<a, b>>[2] = b /\ <<c>>[1] = c
      /\ <<a, b, c>>[1] = a /\ <<a, b, c>>[2] = b /\ <<a, b, c>>[3] = c
    OBVIOUS
<1> DEFINE s == <<a, b>> \o <<c>>
<1>3. /\ s \in Seq(S) /\ Len(s) = 2 + 1
      /\ \A i \in 1..(2 + 1) : s[i] = IF i <= 2 THEN <<a, b>>[i] ELSE <<c>>[i - 2]
    BY <1>1, <1>2, ConcatProperties
<1>4. s[1] = a /\ s[2] = b /\ s[3] = c /\ Len(s) = 3
    BY <1>2, <1>3
<1> HIDE DEF s, S
<1>5. s = <<a, b, c>>
    <2>1. \A i \in 1..3 : s[i] = <<a, b, c>>[i]
        BY <1>2, <1>4
    <2> QED BY <1>1, <1>2, <1>3, <1>4, <2>1, SeqEqual
<1> QED BY <1>5, Pair DEF s

LEMMA Quadruple ==
    ASSUME NEW a, NEW b, NEW c, NEW d
    PROVE  <<a, b, c, d>> = <<a>> \o <<b>> \o <<c>> \o <<d>>
<1> DEFINE S == {a, b, c, d}
<1>1. <<a, b, c>> \in Seq(S) /\ <<d>> \in Seq(S) /\ <<a, b, c, d>> \in Seq(S)
    OBVIOUS
<1>2. /\ Len(<<a, b, c>>) = 3 /\ Len(<<d>>) = 1 /\ Len(<<a, b, c, d>>) = 4
      /\ <<a, b, c>>[1] = a /\ <<a, b, c>>[2] = b /\ <<a, b, c>>[3] = c /\ <<d>>[1] = d
      /\ <<a, b, c, d>>[1] = a /\ <<a, b, c, d>>[2] = b /\ <<a, b, c, d>>[3] = c
      /\ <<a, b, c, d>>[4] = d
    OBVIOUS
<1> DEFINE s == <<a, b, c>> \o <<d>>
<1>3. /\ s \in Seq(S) /\ Len(s) = 3 + 1
      /\ \A i \in 1..(3 + 1) : s[i] = IF i <= 3 THEN <<a, b, c>>[i] ELSE <<d>>[i - 3]
    BY <1>1, <1>2, ConcatProperties
<1>4. s[1] = a /\ s[2] = b /\ s[3] = c /\ s[4] = d /\ Len(s) = 4
    BY <1>2, <1>3
<1> HIDE DEF s, S
<1>5. s = <<a, b, c, d>>
    <2>1. \A i \in 1..4 : s[i] = <<a, b, c, d>>[i]
        BY <1>2, <1>4
    <2> QED BY <1>1, <1>2, <1>3, <1>4, <2>1, SeqEqual
<1>6. <<a, b, c>> = <<a>> \o <<b>> \o <<c>>
    BY Triple
<1> QED BY <1>5, <1>6 DEF s

-----------------------------------------------------------------------------
(* Sizes *)

LEMMA Sizes ==
    ASSUME NEW r \in Inputs
    PROVE  /\ N(r) \in Nat /\ NQ(r) \in Nat /\ MaxDocSize \in Nat /\ MaxQuerySize \in Nat
           /\ N(r) * MaxDocSize \in Nat /\ NQ(r) * MaxQuerySize \in Nat
           /\ NQ(r) * MaxDocSize \in Nat /\ NQ(r) * N(r) \in Nat
           /\ \A q \in 1..NQ(r) : QLen(r, q) \in 1..MaxQuerySize
           /\ DOMAIN r.querys = 1..NQ(r)
           /\ \A q \in 0..NQ(r) : q \in Streams
           /\ 0 \in Streams /\ 1 \in Streams
<1>1. /\ MaxQuerySize \in Nat
      /\ 0..Len(r.querys) \cup {1} \subseteq Streams
      /\ r.querys \in Seq(Seq(Nat))
      /\ \A q \in DOMAIN r.querys : Len(r.querys[q]) \in 1..MaxQuerySize
      /\ Cardinality(DOMAIN r.docs) \in Nat
    BY BuildsAssumption
<1>2. Len(r.querys) \in Nat /\ DOMAIN r.querys = 1..Len(r.querys)
    BY <1>1, LenProperties
<1>3. MaxDocSize \in Nat
    BY LayoutAssumption
<1>4. N(r) \in Nat /\ NQ(r) \in Nat
    BY <1>1, <1>2 DEF N, NQ
<1>5. /\ N(r) * MaxDocSize \in Nat /\ NQ(r) * MaxQuerySize \in Nat
      /\ NQ(r) * MaxDocSize \in Nat /\ NQ(r) * N(r) \in Nat
    BY <1>1, <1>3, <1>4
<1>6. 0 \in 0..Len(r.querys)
    BY <1>2
<1> QED BY <1>1, <1>2, <1>3, <1>4, <1>5, <1>6 DEF NQ, QLen

Names == {"h_docs", "h_doc_lens", "h_querys", "h_scores", "d_in_docs", "d_docs",
          "d_doc_lens", "d_querys", "d_scores"}

LEMMA ArraySizes ==
    ASSUME NEW r \in Inputs
    PROVE  /\ Names \subseteq DOMAIN Arrays(r) /\ "d_table" \in DOMAIN Arrays(r)
           /\ \A a \in Names : Arrays(r)[a] \in Nat
           /\ Arrays(r)["h_docs"] = N(r) * MaxDocSize
           /\ Arrays(r)["d_in_docs"] = N(r) * MaxDocSize
           /\ Arrays(r)["d_docs"] = N(r) * MaxDocSize
           /\ Arrays(r)["h_doc_lens"] = N(r) /\ Arrays(r)["d_doc_lens"] = N(r)
           /\ Arrays(r)["h_querys"] = NQ(r) * MaxQuerySize
           /\ Arrays(r)["d_querys"] = QueryRoom(r)
           /\ Arrays(r)["h_scores"] = ScoreRoom(r) /\ Arrays(r)["d_scores"] = ScoreRoom(r)
           /\ Arrays(r)["d_table"] = NTokens(r)
<1>1. QueryRoom(r) \in Nat /\ ScoreRoom(r) \in Nat
    BY Sizes DEF QueryRoom, ScoreRoom
<1> QED BY <1>1, Sizes DEF Arrays, Names

\* An operation that writes n cells of an array from to on.
LEMMA FitsIf ==
    ASSUME NEW r, NEW op, IsOp(op), NEW to \in Nat, NEW n \in Nat,
           op.dst \in DOMAIN Arrays(r), Arrays(r)[op.dst] \in Nat,
           Writes(op) = Cells(op.dst, to, n), to + n <= Arrays(r)[op.dst]
    PROVE  Fits(r, op)
<1>1. Span(to, n) \subseteq Span(0, Arrays(r)[op.dst])
    BY DEF Span
<1>2. Writes(op) \subseteq Cells(op.dst, 0, Arrays(r)[op.dst])
    BY <1>1 DEF Cells
<1> QED BY <1>2 DEF Fits

\* The region of a query in an array of one region of size m per query.
LEMMA Regions ==
    ASSUME NEW n \in Nat, NEW m \in Nat, NEW q \in 1..n
    PROVE  /\ (q - 1) * m \in Nat
           /\ (q - 1) * m + m <= n * m
           /\ m <= n * m
<1>1. (q - 1) * m + m <= n * m
    BY TimesMonotone
<1>2. (q - 1) * m \in Nat
    OBVIOUS
<1>3. n * m \in Nat /\ (q - 1) * m >= 0
    BY <1>2
<1> QED BY <1>1, <1>2, <1>3

\* Regions of different queries do not overlap.
LEMMA RegionsApart ==
    ASSUME NEW a, NEW n \in Nat, NEW m \in Nat, NEW p \in 1..n, NEW q \in 1..n, p # q,
           NEW k \in 0..m, NEW l \in 0..m
    PROVE  Cells(a, (p - 1) * m, k) \cap Cells(a, (q - 1) * m, l) = {}
<1>1. (p - 1) * m \in Nat /\ (q - 1) * m \in Nat
    BY Regions
<1>2. (p - 1) * m + m <= (q - 1) * m \/ (q - 1) * m + m <= (p - 1) * m
    <2>1. CASE p < q
        BY <2>1, TimesMonotone
    <2>2. CASE q < p
        BY <2>2, TimesMonotone
    <2> QED BY <2>1, <2>2
<1>3. Span((p - 1) * m, k) \cap Span((q - 1) * m, l) = {}
    BY <1>1, <1>2 DEF Span
<1> QED BY <1>3 DEF Cells

\* The array of counters has a cell per token, if there is a query.
LEMMA TokensAreCounted ==
    ASSUME NEW r \in Inputs, NEW q \in 1..NQ(r)
    PROVE  NTokens(r) \in Nat
<1> DEFINE A == Range([d \in DOMAIN r.docs |-> Range(r.docs[d])])
           B == Range([p \in DOMAIN r.querys |-> Range(r.querys[p])])
           U == UNION (A \cup B)
<1>1. NTokens(r) = 1 + Max(U)
    <2>1. /\ A = {Range(r.docs[d]) : d \in DOMAIN r.docs}
          /\ B = {Range(r.querys[p]) : p \in DOMAIN r.querys}
        BY DEF Range
    <2> HIDE DEF A, B
    <2> QED BY <2>1 DEF NTokens
<1>2. /\ r.querys \in Seq(Seq(Nat)) /\ Cardinality(DOMAIN r.docs) \in Nat
      /\ r.docs \in [0..(Cardinality(DOMAIN r.docs) - 1) -> Seq(Nat)]
      /\ DOMAIN r.querys = 1..NQ(r) /\ NQ(r) \in Nat /\ Len(r.querys[q]) > 0
    <2>1. r.querys \in Seq(Seq(Nat)) /\ Cardinality(DOMAIN r.docs) \in Nat
        BY BuildsAssumption
    <2>2. r.docs \in [0..(Cardinality(DOMAIN r.docs) - 1) -> Seq(Nat)]
        BY BuildsAssumption
    <2>3. DOMAIN r.querys = 1..NQ(r) /\ NQ(r) \in Nat /\ QLen(r, q) \in 1..MaxQuerySize
        BY Sizes
    <2>4. Len(r.querys[q]) > 0
        BY <2>3 DEF QLen
    <2> QED BY <2>1, <2>2, <2>3, <2>4
<1>3. IsFiniteSet(DOMAIN r.docs) /\ IsFiniteSet(DOMAIN r.querys)
    <2>1. DOMAIN r.docs = 0..(Cardinality(DOMAIN r.docs) - 1)
        BY <1>2
    <2>2. /\ IsFiniteSet(0..(Cardinality(DOMAIN r.docs) - 1)) /\ IsFiniteSet(1..NQ(r))
        BY <1>2, FS_Interval
    <2> QED BY <1>2, <2>1, <2>2
<1>4. ASSUME NEW s \in Seq(Nat) PROVE IsFiniteSet(Range(s)) /\ Range(s) \subseteq Nat
    <2>1. DOMAIN s = 1..Len(s) /\ Len(s) \in Nat /\ \A i \in 1..Len(s) : s[i] \in Nat
        BY LenProperties
    <2>2. IsFiniteSet(DOMAIN s)
        BY <2>1, FS_Interval
    <2> QED BY <2>1, <2>2, RangeFinite DEF Range
<1>5. /\ \A T \in A : IsFiniteSet(T) /\ T \subseteq Nat
      /\ \A T \in B : IsFiniteSet(T) /\ T \subseteq Nat
    <2>1. \A d \in DOMAIN r.docs : r.docs[d] \in Seq(Nat)
        BY <1>2
    <2>2. \A p \in DOMAIN r.querys : r.querys[p] \in Seq(Nat)
        BY <1>2, LenProperties
    <2>3. ASSUME NEW T \in A PROVE IsFiniteSet(T) /\ T \subseteq Nat
        <3>1. PICK d \in DOMAIN r.docs : T = Range(r.docs[d])
            BY DEF Range
        <3> QED BY <1>4, <2>1, <3>1
    <2>4. ASSUME NEW T \in B PROVE IsFiniteSet(T) /\ T \subseteq Nat
        <3>1. PICK p \in DOMAIN r.querys : T = Range(r.querys[p])
            BY DEF Range
        <3> QED BY <1>4, <2>2, <3>1
    <2> QED BY <2>3, <2>4
<1>6. IsFiniteSet(A) /\ IsFiniteSet(B)
    <2>1. /\ IsFiniteSet(DOMAIN [d \in DOMAIN r.docs |-> Range(r.docs[d])])
          /\ IsFiniteSet(DOMAIN [p \in DOMAIN r.querys |-> Range(r.querys[p])])
        BY <1>3
    <2> QED BY <2>1, RangeFinite
<1>7. r.querys[q][1] \in U
    <2>1. q \in DOMAIN r.querys /\ r.querys[q] \in Seq(Nat)
        BY <1>2, LenProperties
    <2>2. 1 \in DOMAIN r.querys[q]
        BY <1>2, <2>1, LenProperties
    <2>3. r.querys[q][1] \in Range(r.querys[q])
        BY <2>2 DEF Range
    <2>4. Range(r.querys[q]) \in B
        BY <2>1 DEF Range
    <2> QED BY <2>3, <2>4
<1> HIDE DEF A, B
<1>8. IsFiniteSet(U) /\ U \in SUBSET Nat
    <2>1. IsFiniteSet(A \cup B)
        BY <1>6, FS_Union
    <2>2. IsFiniteSet(U)
        BY <1>5, <2>1, FS_UNION
    <2> QED BY <1>5, <2>2
<1>9. Max(U) \in Nat
    <2> HIDE DEF U
    <2> QED BY <1>7, <1>8, MaxIs
<1> QED BY <1>1, <1>9

-----------------------------------------------------------------------------
(* The calls *)

\* The inputs the theorems are about: where the device has a row for each query, no
\* query is longer than its row.
Roomy(r) == StreamPerQuery(r) => \A q \in 1..NQ(r) : QLen(r, q) <= MaxDocSize

\* There is room for one query and its scores in every build.
LEMMA RoomForOne ==
    ASSUME NEW r \in Inputs, Roomy(r), NEW q \in 1..NQ(r)
    PROVE  QLen(r, q) <= QueryRoom(r) /\ N(r) <= ScoreRoom(r)
<1>1. /\ N(r) \in Nat /\ NQ(r) \in Nat /\ MaxDocSize \in Nat /\ MaxQuerySize \in Nat
      /\ NQ(r) * MaxDocSize \in Nat /\ NQ(r) * N(r) \in Nat
      /\ QLen(r, q) \in 1..MaxQuerySize
    BY Sizes
<1>2. MaxDocSize <= NQ(r) * MaxDocSize /\ N(r) <= NQ(r) * N(r)
    BY <1>1, Regions
<1>3. StreamPerQuery(r) => QLen(r, q) <= NQ(r) * MaxDocSize
    BY <1>1, <1>2 DEF Roomy
<1> QED BY <1>1, <1>2, <1>3 DEF QueryRoom, ScoreRoom

\* Operations of one stream do not race.
LEMMA OneStream ==
    ASSUME NEW r, NEW F, NEW s \in Streams, \A x \in F : x[1] = s /\ Fits(r, x[2])
    PROVE  Sound(r, F)
BY DEF Sound

LEMMA NothingInFlight ==
    ASSUME NEW r
    PROVE  Sound(r, {}) /\ \A op : Fits(r, op) => HostSound(r, op, {})
BY DEF Sound, HostSound

LEMMA RunsSyncAll ==
    ASSUME NEW r, NEW F, NEW c \in Nat, Sound(r, F)
    PROVE  Runs(r, <<Sync(Streams)>>, F, c, {}, c)
<1>1. Without(F, Streams) = {}
    BY DEF Without, Sound
<1> QED BY <1>1, RunsSync

LEMMA RunsMemcpy ==
    ASSUME NEW r, NEW F, NEW c \in Nat, NEW op, Sound(r, F), HostSound(r, op, Without(F, {0}))
    PROVE  Runs(r, Memcpy(op), F, c, Without(F, {0}), c)
<1>1. Runs(r, <<Sync({0})>>, F, c, Without(F, {0}), c)
    BY RunsSync
<1>2. Sound(r, Without(F, {0}))
    <2>1. Without(F, {0}) \in SUBSET F
        BY DEF Without
    <2> QED BY <2>1, SoundSubset
<1>3. Runs(r, <<Host(op)>>, Without(F, {0}), c, Without(F, {0}), c)
    BY <1>2, RunsHost
<1>4. Memcpy(op) = <<Sync({0})>> \o <<Host(op)>>
    BY Pair DEF Memcpy
<1> QED BY <1>1, <1>3, <1>4, RunsConcat

\* A copy from pageable memory is in flight, or over, when it returns.
LEMMA RunsMemcpyPageable ==
    ASSUME NEW r, NEW F, NEW G, NEW c \in Nat, NEW op, Sound(r, G), F \subseteq G,
           <<0, op>> \in G
    PROVE  Runs(r, MemcpyPageable(r, op), F, c, G, c)
<1>1. Runs(r, MemcpyPageable(r, op), G, c, G, c)
    <2>1. CASE r.staged
        BY <2>1, RunsIssue DEF MemcpyPageable
    <2>2. CASE ~r.staged
        <3>1. HostSound(r, op, Without(G, {0}))
            <4>1. Fits(r, op)
                BY DEF Sound
            <4>2. ASSUME Quiet(r), NEW x \in Without(G, {0}) PROVE ~Conflict(op, x[2])
                <5>1. x \in G /\ x[1] # 0
                    BY DEF Without
                <5> QED BY <4>2, <5>1 DEF Sound
            <4> QED BY <4>1, <4>2 DEF HostSound
        <3>2. Runs(r, Memcpy(op), G, c, Without(G, {0}), c)
            BY <3>1, RunsMemcpy
        <3>3. Without(G, {0}) \subseteq G /\ G \in SUBSET G
            BY DEF Without
        <3> QED BY <2>2, <3>2, <3>3, Weaken DEF MemcpyPageable
    <2> QED BY <2>1, <2>2
<1>2. F \in SUBSET G /\ G \subseteq G
    OBVIOUS
<1> QED BY <1>1, <1>2, Weaken

LEMMA PageableIsProgram ==
    ASSUME NEW r, NEW op
    PROVE  IsProgram(MemcpyPageable(r, op))
<1>1. ASSUME NEW a PROVE <<a>> \in Seq(Range(<<a>>))
    BY DEF Range
<1>2. ASSUME NEW a, NEW b PROVE <<a, b>> \in Seq(Range(<<a, b>>))
    BY DEF Range
<1> QED BY <1>1, <1>2 DEF MemcpyPageable, Memcpy, IsProgram

\* Writing over a released buffer.
LEMMA ScribbleFits ==
    ASSUME NEW r \in Inputs, NEW a \in DOMAIN Arrays(r), Arrays(r)[a] \in Nat
    PROVE  \E op : /\ Scribble(r, a) = Host(op) /\ Fits(r, op)
                   /\ Writes(op) = Cells(a, 0, Arrays(r)[a]) /\ Reads(op) = {}
<1> DEFINE junk == [o \in 1..Arrays(r)[a] |-> JunkIn(r, a)]
           op == Data(a, 0, junk)
<1>1. Len(junk) = Arrays(r)[a]
    OBVIOUS
<1> HIDE DEF junk
<1>2. /\ IsOp(op) /\ op.dst = a /\ Writes(op) = Cells(a, 0, Arrays(r)[a])
      /\ Reads(op) = {}
    BY <1>1, DataTouches
<1>3. Scribble(r, a) = Host(op)
    BY DEF Scribble, junk
<1> HIDE DEF op
<1>4. Fits(r, op)
    BY <1>2, FitsIf
<1> QED BY <1>2, <1>3, <1>4

LEMMA RunsFree ==
    ASSUME NEW r \in Inputs, NEW a \in DOMAIN Arrays(r), Arrays(r)[a] \in Nat,
           NEW F, NEW c \in Nat, Sound(r, F)
    PROVE  Runs(r, CudaFree(r, a), F, c, {}, c)
<1>1. PICK op : Scribble(r, a) = Host(op) /\ Fits(r, op)
    BY ScribbleFits
<1>2. Runs(r, <<Host(op)>>, {}, c, {}, c)
    BY <1>1, NothingInFlight, RunsHost
<1>3. Runs(r, <<Sync(Streams)>>, F, c, {}, c)
    BY RunsSyncAll
<1>4. CudaFree(r, a) = <<Sync(Streams)>> \o <<Host(op)>>
    BY <1>1, Pair DEF CudaFree
<1> QED BY <1>2, <1>3, <1>4, RunsConcat

\* With nothing in flight a copy is over when it returns.
LEMMA RunsMemcpyIdle ==
    ASSUME NEW r, NEW c \in Nat, NEW op, Fits(r, op)
    PROVE  Runs(r, Memcpy(op), {}, c, {}, c)
<1>1. Without({}, {0}) = {}
    BY DEF Without
<1> QED BY <1>1, NothingInFlight, RunsMemcpy

\* The same state before and behind every query, and a list for each.
LEMMA RunsQuerys ==
    ASSUME NEW r \in Inputs, NEW F, Sound(r, F), NEW parts,
           Len(parts) = NQ(r), DOMAIN parts = 1..NQ(r), parts = [q \in 1..NQ(r) |-> parts[q]],
           \A q \in 1..NQ(r) : Runs(r, parts[q], F, q - 1, F, q)
    PROVE  Runs(r, FlattenSeq(parts), F, 0, F, NQ(r))
<1> DEFINE B == [i \in 0..NQ(r) |-> F]
           c == [i \in 0..NQ(r) |-> i]
           n == NQ(r)
<1>1. n \in Nat
    BY Sizes
<1>2. /\ B[0] = F /\ c[0] = 0 /\ B[n] = F /\ c[n] = n
      /\ \A q \in 1..n : B[q - 1] = F /\ c[q - 1] = q - 1 /\ B[q] = F /\ c[q] = q
    BY <1>1
<1> HIDE DEF B, c
<1>3. \A q \in 1..n : Runs(r, parts[q], B[q - 1], c[q - 1], B[q], c[q])
    BY <1>2
<1>4. Runs(r, FlattenSeq(parts), B[0], c[0], B[n], c[n])
    <2>1. Sound(r, B[0]) /\ c[0] \in Nat
        BY <1>2
    <2> HIDE DEF n
    <2>2. Len(parts) = n /\ DOMAIN parts = 1..n /\ parts = [q \in 1..n |-> parts[q]]
        BY DEF n
    <2> QED BY <1>1, <1>3, <2>1, <2>2, RunsLoop
<1> QED BY <1>2, <1>4

-----------------------------------------------------------------------------
(* The operations of the builds write inside their arrays *)

LEMMA DataFits ==
    ASSUME NEW r, NEW a \in DOMAIN Arrays(r), Arrays(r)[a] \in Nat, NEW to \in Nat,
           NEW data, Len(data) \in Nat, to + Len(data) <= Arrays(r)[a]
    PROVE  Fits(r, Data(a, to, data))
<1> DEFINE op == Data(a, to, data)
<1>1. IsOp(op) /\ op.dst = a /\ Writes(op) = Cells(a, to, Len(data))
    BY DataTouches
<1> HIDE DEF op
<1>2. Fits(r, op)
    BY <1>1, FitsIf
<1> QED BY <1>2 DEF op

LEMMA CopyFits ==
    ASSUME NEW r, NEW a \in DOMAIN Arrays(r), Arrays(r)[a] \in Nat, NEW to \in Nat,
           NEW src, NEW from, NEW n \in Nat, to + n <= Arrays(r)[a]
    PROVE  Fits(r, Copy(a, to, src, from, n))
<1> DEFINE op == Copy(a, to, src, from, n)
<1>1. IsOp(op) /\ op.dst = a /\ Writes(op) = Cells(a, to, n)
    BY CopyTouches
<1> HIDE DEF op
<1>2. Fits(r, op)
    BY <1>1, FitsIf
<1> QED BY <1>2 DEF op

LEMMA ScoreFits ==
    ASSUME NEW r, NEW a \in DOMAIN Arrays(r), Arrays(r)[a] \in Nat, NEW to \in Nat,
           NEW docs, NEW lens, NEW n \in Nat, NEW query, NEW qat, NEW qlen, to + n <= Arrays(r)[a]
    PROVE  Fits(r, Score(docs, lens, n, query, qat, qlen, a, to))
<1> DEFINE op == Score(docs, lens, n, query, qat, qlen, a, to)
<1>1. IsOp(op) /\ op.dst = a /\ Writes(op) = Cells(a, to, n)
    BY ScoreTouches
<1> HIDE DEF op
<1>2. Fits(r, op)
    BY <1>1, FitsIf
<1> QED BY <1>2 DEF op

LEMMA Lengths ==
    ASSUME NEW r \in Inputs
    PROVE  /\ Len(GroupedDocs(r)) = N(r) * MaxDocSize
           /\ Len(DocRows(r)) = N(r) * MaxDocSize
           /\ Len(DocLens(r)) = N(r)
BY Sizes DEF GroupedDocs, DocRows, DocLens

\* The arrays of all documents.
LEMMA DocOpsFit ==
    ASSUME NEW r \in Inputs
    PROVE  /\ \A a \in {"h_docs", "d_docs", "d_in_docs"} :
                 /\ Fits(r, Data(a, 0, GroupedDocs(r)))
                 /\ Fits(r, Data(a, 0, DocRows(r)))
                 /\ Fits(r, Copy(a, 0, "h_docs", 0, N(r) * MaxDocSize))
           /\ \A a \in {"h_doc_lens", "d_doc_lens"} :
                 /\ Fits(r, Data(a, 0, DocLens(r)))
                 /\ Fits(r, Copy(a, 0, "h_doc_lens", 0, N(r)))
<1>1. ASSUME NEW a \in {"h_docs", "d_docs", "d_in_docs"}
      PROVE  /\ Fits(r, Data(a, 0, GroupedDocs(r)))
             /\ Fits(r, Data(a, 0, DocRows(r)))
             /\ Fits(r, Copy(a, 0, "h_docs", 0, N(r) * MaxDocSize))
    <2>1. /\ a \in DOMAIN Arrays(r) /\ Arrays(r)[a] = N(r) * MaxDocSize
          /\ N(r) * MaxDocSize \in Nat /\ 0 + N(r) * MaxDocSize <= N(r) * MaxDocSize
        BY ArraySizes, Sizes DEF Names
    <2> QED BY <2>1, Lengths, DataFits, CopyFits
<1>2. ASSUME NEW a \in {"h_doc_lens", "d_doc_lens"}
      PROVE  /\ Fits(r, Data(a, 0, DocLens(r)))
             /\ Fits(r, Copy(a, 0, "h_doc_lens", 0, N(r)))
    <2>1. /\ a \in DOMAIN Arrays(r) /\ Arrays(r)[a] = N(r)
          /\ N(r) \in Nat /\ 0 + N(r) <= N(r)
        BY ArraySizes, Sizes DEF Names
    <2> QED BY <2>1, Lengths, DataFits, CopyFits
<1> QED BY <1>1, <1>2

\* The arrays of one query after the other.
LEMMA QueryOpsFit ==
    ASSUME NEW r \in Inputs, Roomy(r), NEW q \in 1..NQ(r)
    PROVE  /\ Fits(r, Data("d_querys", 0, r.querys[q]))
           /\ \A docs, lens, qat : Fits(r, Score(docs, lens, N(r), "d_querys", qat, QLen(r, q),
                                                 "d_scores", 0))
           /\ Fits(r, Copy("h_scores", 0, "d_scores", 0, N(r)))
<1>1. /\ "d_querys" \in DOMAIN Arrays(r) /\ "d_scores" \in DOMAIN Arrays(r)
      /\ "h_scores" \in DOMAIN Arrays(r)
      /\ Arrays(r)["d_querys"] = QueryRoom(r) /\ Arrays(r)["d_scores"] = ScoreRoom(r)
      /\ Arrays(r)["h_scores"] = ScoreRoom(r)
      /\ QueryRoom(r) \in Nat /\ ScoreRoom(r) \in Nat
    BY ArraySizes DEF Names
<1>2. N(r) \in Nat /\ QLen(r, q) \in Nat
    BY Sizes
<1>4. 0 + QLen(r, q) <= QueryRoom(r) /\ 0 + N(r) <= ScoreRoom(r)
    BY <1>1, <1>2, RoomForOne
<1>5. Fits(r, Data("d_querys", 0, r.querys[q]))
    BY <1>1, <1>2, <1>4, DataFits DEF QLen
<1>6. Fits(r, Copy("h_scores", 0, "d_scores", 0, N(r)))
    BY <1>1, <1>2, <1>4, CopyFits
<1>7. \A docs, lens, qat : Fits(r, Score(docs, lens, N(r), "d_querys", qat, QLen(r, q),
                                         "d_scores", 0))
    BY <1>1, <1>2, <1>4, ScoreFits
<1> QED BY <1>5, <1>6, <1>7

\* The host lays the documents out before anything is in flight.
Laid(r, docs) == <<Host(Data("h_docs", 0, docs)), Host(Data("h_doc_lens", 0, DocLens(r)))>>

LEMMA RunsLaid ==
    ASSUME NEW r \in Inputs
    PROVE  /\ Runs(r, Laid(r, GroupedDocs(r)), {}, 0, {}, 0)
           /\ Runs(r, Laid(r, DocRows(r)), {}, 0, {}, 0)
<1>1. Runs(r, <<Host(Data("h_docs", 0, GroupedDocs(r)))>>, {}, 0, {}, 0)
    BY DocOpsFit, NothingInFlight, RunsHost
<1>2. Runs(r, <<Host(Data("h_docs", 0, DocRows(r)))>>, {}, 0, {}, 0)
    BY DocOpsFit, NothingInFlight, RunsHost
<1>3. Runs(r, <<Host(Data("h_doc_lens", 0, DocLens(r)))>>, {}, 0, {}, 0)
    BY DocOpsFit, NothingInFlight, RunsHost
<1>4. Runs(r, Laid(r, GroupedDocs(r)), {}, 0, {}, 0)
    BY <1>1, <1>3, RunsConcat, Pair DEF Laid
<1>5. Runs(r, Laid(r, DocRows(r)), {}, 0, {}, 0)
    BY <1>2, <1>3, RunsConcat, Pair DEF Laid
<1> QED BY <1>4, <1>5

\* A query copied and scored on the default stream, behind what it still has to do,
\* and waited for.
LEMMA RunsScored ==
    ASSUME NEW r \in Inputs, NEW c \in Nat, NEW data, NEW kernel,
           Fits(r, data), Fits(r, kernel), NEW F, \A x \in F : x[1] = 0 /\ Fits(r, x[2])
    PROVE  Runs(r, MemcpyPageable(r, data) \o <<Async(0, kernel), Sync(Streams)>>, F, c, {}, c)
<1> DEFINE G == F \cup {<<0, data>>, <<0, kernel>>}
<1>1. Sound(r, G)
    <2>1. \A x \in G : x[1] = 0 /\ Fits(r, x[2])
        OBVIOUS
    <2> HIDE DEF G
    <2> QED BY <2>1, Sizes, OneStream
<1>2. F \subseteq G /\ <<0, data>> \in G /\ <<0, kernel>> \in G
    OBVIOUS
<1> HIDE DEF G
<1>3. Runs(r, MemcpyPageable(r, data), F, c, G, c)
    BY <1>1, <1>2, RunsMemcpyPageable
<1>4. Runs(r, <<Async(0, kernel)>>, G, c, G, c)
    BY <1>1, <1>2, RunsIssue
<1>5. Runs(r, <<Sync(Streams)>>, G, c, {}, c)
    BY <1>1, RunsSyncAll
<1>6. Runs(r, <<Async(0, kernel), Sync(Streams)>>, G, c, {}, c)
    BY <1>4, <1>5, RunsConcat, Pair
<1> QED BY <1>3, <1>6, RunsConcat

\* The scores copied back and the best selected, and the query's buffer released.
LEMMA RunsSelected ==
    ASSUME NEW r \in Inputs, Roomy(r), NEW q \in 1..NQ(r), NEW P, NEW F,
           Runs(r, P, F, q - 1, {}, q - 1)
    PROVE  /\ Runs(r, P \o Memcpy(Copy("h_scores", 0, "d_scores", 0, N(r))) \o <<Select(0)>>
                        \o CudaFree(r, "d_querys"), F, q - 1, {}, q)
           /\ Runs(r, P \o <<SelectTwice(0)>> \o CudaFree(r, "d_querys"), F, q - 1, {}, q)
<1>1. q - 1 \in Nat /\ q \in Nat /\ (q - 1) + 1 = q
    BY Sizes
<1>2. Runs(r, Memcpy(Copy("h_scores", 0, "d_scores", 0, N(r))), {}, q - 1, {}, q - 1)
    BY <1>1, QueryOpsFit, RunsMemcpyIdle
<1>3. Runs(r, <<Select(0)>>, {}, q - 1, {}, q) /\ Runs(r, <<SelectTwice(0)>>, {}, q - 1, {}, q)
    BY <1>1, RunsSelect
<1>4. Runs(r, CudaFree(r, "d_querys"), {}, q, {}, q)
    <2>1. "d_querys" \in DOMAIN Arrays(r) /\ Arrays(r)["d_querys"] \in Nat
        BY ArraySizes DEF Names
    <2> QED BY <1>1, <2>1, NothingInFlight, RunsFree
<1>5. Runs(r, P \o Memcpy(Copy("h_scores", 0, "d_scores", 0, N(r))), F, q - 1, {}, q - 1)
    BY <1>2, RunsConcat
<1>6. Runs(r, P \o Memcpy(Copy("h_scores", 0, "d_scores", 0, N(r))) \o <<Select(0)>>,
           F, q - 1, {}, q)
    BY <1>3, <1>5, RunsConcat
<1>7. Runs(r, P \o <<SelectTwice(0)>>, F, q - 1, {}, q)
    BY <1>3, RunsConcat
<1> QED BY <1>4, <1>6, <1>7, RunsConcat

-----------------------------------------------------------------------------
(* The builds that score one query after the other on the default stream *)

LEMMA RunsPinnedMemory ==
    ASSUME NEW r \in Inputs, Roomy(r)
    PROVE  Runs(r, PinnedMemory(r), {}, 0, {}, NQ(r))
<1> DEFINE copies == IF r.build = "pinned_map_memory" THEN <<>>
                     ELSE Memcpy(Copy("d_docs", 0, "h_docs", 0, N(r) * MaxDocSize))
                          \o Memcpy(Copy("d_doc_lens", 0, "h_doc_lens", 0, N(r)))
           parts == [q \in 1..NQ(r) |-> PinnedQuery(r, q)]
<1>1. Runs(r, copies, {}, 0, {}, 0)
    <2>1. Runs(r, <<>>, {}, 0, {}, 0)
        BY NothingInFlight, RunsNothing
    <2>2. /\ Runs(r, Memcpy(Copy("d_docs", 0, "h_docs", 0, N(r) * MaxDocSize)), {}, 0, {}, 0)
          /\ Runs(r, Memcpy(Copy("d_doc_lens", 0, "h_doc_lens", 0, N(r))), {}, 0, {}, 0)
        BY DocOpsFit, RunsMemcpyIdle
    <2> QED BY <2>1, <2>2, RunsConcat
<1>2. ASSUME NEW q \in 1..NQ(r) PROVE Runs(r, PinnedQuery(r, q), {}, q - 1, {}, q)
    <2> DEFINE P == MemcpyPageable(r, Data("d_querys", 0, r.querys[q]))
                    \o <<Async(0, PinnedKernel(r, q)), Sync(Streams)>>
    <2>1. Fits(r, PinnedKernel(r, q))
        BY QueryOpsFit DEF PinnedKernel
    <2>2. q - 1 \in Nat
        BY Sizes
    <2>3. Runs(r, P, {}, q - 1, {}, q - 1)
        <3>1. \A x \in {} : x[1] = 0 /\ Fits(r, x[2])
            OBVIOUS
        <3> QED BY <2>1, <2>2, <3>1, QueryOpsFit, RunsScored
    <2>4. PinnedQuery(r, q) = P \o Memcpy(Copy("h_scores", 0, "d_scores", 0, N(r))) \o <<Select(0)>>
                                 \o CudaFree(r, "d_querys")
        BY DEF PinnedQuery
    <2> HIDE DEF P
    <2> QED BY <2>3, <2>4, RunsSelected
<1>3. Runs(r, FlattenSeq(parts), {}, 0, {}, NQ(r))
    <2>1. /\ Len(parts) = NQ(r) /\ DOMAIN parts = 1..NQ(r)
          /\ parts = [q \in 1..NQ(r) |-> parts[q]]
          /\ \A q \in 1..NQ(r) : Runs(r, parts[q], {}, q - 1, {}, q)
        BY <1>2, Sizes
    <2> HIDE DEF parts
    <2> QED BY <2>1, NothingInFlight, RunsQuerys
<1>4. Runs(r, CudaFree(r, "h_docs"), {}, NQ(r), {}, NQ(r))
    BY ArraySizes, Sizes, NothingInFlight, RunsFree DEF Names
<1>5. PinnedMemory(r) = Laid(r, GroupedDocs(r)) \o copies \o FlattenSeq(parts)
                            \o CudaFree(r, "h_docs")
    BY DEF PinnedMemory, ForQuerys, Laid
<1> HIDE DEF copies, parts
<1>6. Runs(r, Laid(r, GroupedDocs(r)) \o copies, {}, 0, {}, 0)
    BY <1>1, RunsLaid, RunsConcat
<1>7. Runs(r, Laid(r, GroupedDocs(r)) \o copies \o FlattenSeq(parts), {}, 0, {}, NQ(r))
    BY <1>3, <1>6, RunsConcat
<1> QED BY <1>4, <1>5, <1>7, RunsConcat

\* The documents copied from pageable memory with no operation in flight: the two
\* copies may be when the queries begin.
DocCopies(r, s) ==
    {<<s, Data("d_docs", 0, GroupedDocs(r))>>, <<s, Data("d_doc_lens", 0, DocLens(r))>>}

LEMMA DocCopiesSound ==
    ASSUME NEW r \in Inputs, NEW s \in Streams
    PROVE  Sound(r, DocCopies(r, s))
<1>1. \A x \in DocCopies(r, s) : x[1] = s /\ Fits(r, x[2])
    BY DocOpsFit DEF DocCopies
<1> QED BY <1>1, OneStream

LEMMA RunsDocsCopied ==
    ASSUME NEW r \in Inputs
    PROVE  Runs(r, Laid(r, GroupedDocs(r)) \o MemcpyPageable(r, Data("d_docs", 0, GroupedDocs(r)))
                   \o MemcpyPageable(r, Data("d_doc_lens", 0, DocLens(r))),
                {}, 0, DocCopies(r, 0), 0)
<1> DEFINE F == DocCopies(r, 0)
<1>1. Sound(r, F)
    BY DocCopiesSound, Sizes
<1>2. /\ {} \subseteq F /\ F \subseteq F
      /\ <<0, Data("d_docs", 0, GroupedDocs(r))>> \in F
      /\ <<0, Data("d_doc_lens", 0, DocLens(r))>> \in F
    BY DEF DocCopies
<1> HIDE DEF F
<1>3. Runs(r, MemcpyPageable(r, Data("d_docs", 0, GroupedDocs(r))), {}, 0, F, 0)
    BY <1>1, <1>2, RunsMemcpyPageable
<1>4. Runs(r, MemcpyPageable(r, Data("d_doc_lens", 0, DocLens(r))), F, 0, F, 0)
    BY <1>1, <1>2, RunsMemcpyPageable
<1>5. Runs(r, Laid(r, GroupedDocs(r)) \o MemcpyPageable(r, Data("d_docs", 0, GroupedDocs(r))),
           {}, 0, F, 0)
    BY <1>3, RunsLaid, RunsConcat
<1>6. Runs(r, Laid(r, GroupedDocs(r)) \o MemcpyPageable(r, Data("d_docs", 0, GroupedDocs(r)))
              \o MemcpyPageable(r, Data("d_doc_lens", 0, DocLens(r))), {}, 0, F, 0)
    BY <1>4, <1>5, RunsConcat
<1> QED BY <1>6 DEF F

\* Every query ends with nothing in flight, the first may start with the copies.
LEMMA RunsQuerysBehind ==
    ASSUME NEW r \in Inputs, NEW parts,
           Len(parts) = NQ(r), DOMAIN parts = 1..NQ(r), parts = [q \in 1..NQ(r) |-> parts[q]],
           \A q \in 1..NQ(r) : Runs(r, parts[q], DocCopies(r, 0), q - 1, {}, q)
    PROVE  Runs(r, FlattenSeq(parts), DocCopies(r, 0), 0, DocCopies(r, 0), NQ(r))
<1> DEFINE F == DocCopies(r, 0)
<1>1. Sound(r, F)
    BY DocCopiesSound, Sizes
<1> HIDE DEF F
<1>2. F \in SUBSET F /\ {} \subseteq F
    OBVIOUS
<1>3. \A q \in 1..NQ(r) : Runs(r, parts[q], F, q - 1, F, q)
    BY <1>2, Weaken DEF F
<1>4. Runs(r, FlattenSeq(parts), F, 0, F, NQ(r))
    BY <1>1, <1>3, RunsQuerys
<1> QED BY <1>4 DEF F

\* Three statements behind a program are two and one.
LEMMA TailPair ==
    ASSUME NEW P, IsProgram(P), NEW a, NEW b, NEW c
    PROVE  P \o <<a, b, c>> = P \o <<a, b>> \o <<c>>
<1> DEFINE S == Range(P) \cup {a, b, c}
<1>1. P \in Seq(S)
    BY SeqMonotonic DEF IsProgram
<1>2. <<a, b>> \in Seq(S) /\ <<c>> \in Seq(S)
    OBVIOUS
<1>3. <<a, b, c>> = <<a, b>> \o <<c>>
    BY Triple, Pair
<1> HIDE DEF S
<1> QED BY <1>1, <1>2, <1>3, ConcatAssociative

LEMMA RunsRaftSelectk ==
    ASSUME NEW r \in Inputs, Roomy(r)
    PROVE  Runs(r, RaftSelectk(r), {}, 0, DocCopies(r, 0), NQ(r))
<1> DEFINE parts == [q \in 1..NQ(r) |-> RaftQuery(r, q)]
<1>1. ASSUME NEW q \in 1..NQ(r) PROVE Runs(r, RaftQuery(r, q), DocCopies(r, 0), q - 1, {}, q)
    <2> DEFINE query == MemcpyPageable(r, Data("d_querys", 0, r.querys[q]))
               P == query \o <<Async(0, RaftKernel(r, q)), Sync(Streams)>>
    <2>1. Fits(r, RaftKernel(r, q))
        BY QueryOpsFit DEF RaftKernel
    <2>2. q - 1 \in Nat
        BY Sizes
    <2>3. Runs(r, P, DocCopies(r, 0), q - 1, {}, q - 1)
        <3>1. \A x \in DocCopies(r, 0) : x[1] = 0 /\ Fits(r, x[2])
            BY DocOpsFit DEF DocCopies
        <3> QED BY <2>1, <2>2, <3>1, QueryOpsFit, RunsScored
    <2>4. RaftQuery(r, q) = P \o <<SelectTwice(0)>> \o CudaFree(r, "d_querys")
        <3>1. RaftQuery(r, q) = query \o <<Async(0, RaftKernel(r, q)), Sync(Streams), SelectTwice(0)>>
                                   \o CudaFree(r, "d_querys")
            BY DEF RaftQuery
        <3>2. query \o <<Async(0, RaftKernel(r, q)), Sync(Streams), SelectTwice(0)>>
                 = P \o <<SelectTwice(0)>>
            <4>1. IsProgram(query)
                BY PageableIsProgram
            <4> QED BY <4>1, TailPair
        <3> QED BY <3>1, <3>2
    <2> HIDE DEF P, query
    <2> QED BY <2>3, <2>4, RunsSelected
<1>2. Runs(r, FlattenSeq(parts), DocCopies(r, 0), 0, DocCopies(r, 0), NQ(r))
    <2>1. /\ Len(parts) = NQ(r) /\ DOMAIN parts = 1..NQ(r)
          /\ parts = [q \in 1..NQ(r) |-> parts[q]]
          /\ \A q \in 1..NQ(r) : Runs(r, parts[q], DocCopies(r, 0), q - 1, {}, q)
        BY <1>1, Sizes
    <2> HIDE DEF parts
    <2> QED BY <2>1, RunsQuerysBehind
<1>3. RaftSelectk(r) = Laid(r, GroupedDocs(r))
                          \o MemcpyPageable(r, Data("d_docs", 0, GroupedDocs(r)))
                          \o MemcpyPageable(r, Data("d_doc_lens", 0, DocLens(r)))
                          \o FlattenSeq(parts)
    BY DEF RaftSelectk, ForQuerys, Laid
<1> HIDE DEF parts
<1> QED BY <1>2, <1>3, RunsDocsCopied, RunsConcat

\* The table of a query has a cell per token.
LEMMA TableOpsFit ==
    ASSUME NEW r \in Inputs, NEW q \in 1..NQ(r)
    PROVE  /\ "d_table" \in DOMAIN Arrays(r) /\ Arrays(r)["d_table"] \in Nat
           /\ Fits(r, Data("d_table", 0, [key \in 1..NTokens(r) |-> 0]))
           /\ Fits(r, Insert("d_table", NTokens(r), "d_querys", QLen(r, q)))
           /\ Roomy(r) => Fits(r, HashKernel(r, q))
<1> DEFINE zeros == [key \in 1..NTokens(r) |-> 0]
           ins == Insert("d_table", NTokens(r), "d_querys", QLen(r, q))
<1>1. /\ "d_table" \in DOMAIN Arrays(r) /\ Arrays(r)["d_table"] = NTokens(r)
      /\ NTokens(r) \in Nat
    BY ArraySizes, TokensAreCounted
<1>2. Fits(r, Data("d_table", 0, zeros))
    <2>1. Len(zeros) = NTokens(r)
        BY <1>1
    <2> HIDE DEF zeros
    <2>2. 0 + NTokens(r) <= NTokens(r)
        BY <1>1
    <2> QED BY <1>1, <2>1, <2>2, DataFits
<1>3. Fits(r, ins)
    <2>1. IsOp(ins) /\ ins.dst = "d_table" /\ Writes(ins) = Cells("d_table", 0, NTokens(r))
        BY InsertTouches
    <2> HIDE DEF ins
    <2> QED BY <1>1, <2>1, FitsIf
<1>4. ASSUME Roomy(r) PROVE Fits(r, HashKernel(r, q))
    <2> DEFINE op == HashKernel(r, q)
    <2>1. IsOp(op) /\ op.dst = "d_scores" /\ Writes(op) = Cells("d_scores", 0, N(r))
        BY HashScoreTouches DEF HashKernel
    <2> HIDE DEF op
    <2>2. /\ "d_scores" \in DOMAIN Arrays(r) /\ Arrays(r)["d_scores"] = ScoreRoom(r)
          /\ ScoreRoom(r) \in Nat /\ N(r) \in Nat
        BY ArraySizes, Sizes DEF Names
    <2>3. 0 + N(r) <= ScoreRoom(r)
        BY <1>4, <2>2, RoomForOne
    <2>4. Fits(r, op)
        BY <2>1, <2>2, <2>3, FitsIf
    <2> QED BY <2>4 DEF op
<1> QED BY <1>1, <1>2, <1>3, <1>4 DEF ins

LEMMA RunsHashTable ==
    ASSUME NEW r \in Inputs, Roomy(r)
    PROVE  Runs(r, HashTable(r), {}, 0, DocCopies(r, 0), NQ(r))
<1> DEFINE parts == [q \in 1..NQ(r) |-> HashQuery(r, q)]
<1>1. ASSUME NEW q \in 1..NQ(r) PROVE Runs(r, HashQuery(r, q), DocCopies(r, 0), q - 1, {}, q)
    <2> DEFINE data == Data("d_querys", 0, r.querys[q])
               zeros == Data("d_table", 0, [key \in 1..NTokens(r) |-> 0])
               ins == Insert("d_table", NTokens(r), "d_querys", QLen(r, q))
               kernel == HashKernel(r, q)
               F == DocCopies(r, 0)
               G == F \cup {<<0, data>>, <<0, zeros>>, <<0, ins>>, <<0, kernel>>}
               scored == <<Async(0, ins), Async(0, kernel), Sync(Streams)>>
               P == MemcpyPageable(r, data) \o NewTable(r) \o scored
    <2>1. Fits(r, data) /\ Fits(r, zeros) /\ Fits(r, ins) /\ Fits(r, kernel)
        BY TableOpsFit, QueryOpsFit
    <2>2. q - 1 \in Nat /\ q \in Nat
        BY Sizes
    <2>3. HashQuery(r, q) = P \o Memcpy(Copy("h_scores", 0, "d_scores", 0, N(r))) \o <<Select(0)>>
                               \o CudaFree(r, "d_querys") \o CudaFree(r, "d_table")
        BY DEF HashQuery
    <2>4. NewTable(r) = <<Async(0, zeros)>>
        BY DEF NewTable
    <2> HIDE DEF data, zeros, ins, kernel
    <2>5. Sound(r, G)
        <3>1. \A x \in G : x[1] = 0 /\ Fits(r, x[2])
            BY <2>1, DocOpsFit DEF DocCopies
        <3> HIDE DEF G
        <3> QED BY <3>1, Sizes, OneStream
    <2>6. /\ F \subseteq G /\ <<0, data>> \in G /\ <<0, zeros>> \in G
          /\ <<0, ins>> \in G /\ <<0, kernel>> \in G
        OBVIOUS
    <2> HIDE DEF F, G
    <2>7. Runs(r, MemcpyPageable(r, data), F, q - 1, G, q - 1)
        BY <2>2, <2>5, <2>6, RunsMemcpyPageable
    <2>8. /\ Runs(r, <<Async(0, zeros)>>, G, q - 1, G, q - 1)
          /\ Runs(r, <<Async(0, ins)>>, G, q - 1, G, q - 1)
          /\ Runs(r, <<Async(0, kernel)>>, G, q - 1, G, q - 1)
          /\ Runs(r, <<Sync(Streams)>>, G, q - 1, {}, q - 1)
        BY <2>2, <2>5, <2>6, RunsIssue, RunsSyncAll
    <2>9. Runs(r, scored, G, q - 1, {}, q - 1)
        <3>1. Runs(r, <<Async(0, ins)>> \o <<Async(0, kernel)>>, G, q - 1, G, q - 1)
            BY <2>8, RunsConcat
        <3>2. Runs(r, <<Async(0, ins)>> \o <<Async(0, kernel)>> \o <<Sync(Streams)>>,
                   G, q - 1, {}, q - 1)
            BY <2>8, <3>1, RunsConcat
        <3>3. scored = <<Async(0, ins)>> \o <<Async(0, kernel)>> \o <<Sync(Streams)>>
            BY Triple
        <3> QED BY <3>2, <3>3
    <2> HIDE DEF scored
    <2>10. Runs(r, P, F, q - 1, {}, q - 1)
        <3>1. Runs(r, MemcpyPageable(r, data) \o NewTable(r), F, q - 1, G, q - 1)
            BY <2>4, <2>7, <2>8, RunsConcat
        <3> QED BY <2>9, <3>1, RunsConcat
    <2> HIDE DEF P
    <2>11. Runs(r, P \o Memcpy(Copy("h_scores", 0, "d_scores", 0, N(r))) \o <<Select(0)>>
                     \o CudaFree(r, "d_querys"), F, q - 1, {}, q)
        BY <2>10, RunsSelected
    <2>12. Runs(r, CudaFree(r, "d_table"), {}, q, {}, q)
        BY <2>2, TableOpsFit, NothingInFlight, RunsFree
    <2> QED BY <2>3, <2>11, <2>12, RunsConcat DEF F
<1>2. Runs(r, FlattenSeq(parts), DocCopies(r, 0), 0, DocCopies(r, 0), NQ(r))
    <2>1. /\ Len(parts) = NQ(r) /\ DOMAIN parts = 1..NQ(r)
          /\ parts = [q \in 1..NQ(r) |-> parts[q]]
          /\ \A q \in 1..NQ(r) : Runs(r, parts[q], DocCopies(r, 0), q - 1, {}, q)
        BY <1>1, Sizes
    <2> HIDE DEF parts
    <2> QED BY <2>1, RunsQuerysBehind
<1>3. HashTable(r) = Laid(r, GroupedDocs(r))
                        \o MemcpyPageable(r, Data("d_docs", 0, GroupedDocs(r)))
                        \o MemcpyPageable(r, Data("d_doc_lens", 0, DocLens(r)))
                        \o FlattenSeq(parts)
    BY DEF HashTable, ForQuerys, Laid
<1> HIDE DEF parts
<1> QED BY <1>2, <1>3, RunsDocsCopied, RunsConcat

-----------------------------------------------------------------------------
(* The document stream *)

LEMMA RunsSelectBeside ==
    ASSUME NEW r, NEW F, Sound(r, F), NEW c \in Nat, NEW from,
           SelectSound(r, "h_scores", from, F)
    PROVE  Runs(r, <<Select(from)>>, F, c, F, c + 1)
<1>1. /\ Good(r, Select(from), F) /\ After(Select(from), F) = F
      /\ Selects(Select(from)) = 1
    BY DEF Good, After, Selects, Select, Kinds
<1> QED BY <1>1, RunsOne

\* What the copies of the documents have in flight.
DocStreamOps(r) ==
    IF r.pinned
    THEN {<<1, Copy("d_docs", 0, "h_docs", 0, N(r) * MaxDocSize)>>,
          <<1, Copy("d_doc_lens", 0, "h_doc_lens", 0, N(r))>>}
    ELSE DocCopies(r, 1)

LEMMA DocStreamOpsAre ==
    ASSUME NEW r \in Inputs, NEW x \in DocStreamOps(r)
    PROVE  /\ x[1] = 1 /\ Fits(r, x[2])
           /\ \E a \in {"d_docs", "d_doc_lens"} : \E n : Writes(x[2]) = Cells(a, 0, n)
           /\ Reads(x[2]) # {} => r.pinned
           /\ \E a \in {"h_docs", "h_doc_lens"} : \E n : Reads(x[2]) \in {{}, Cells(a, 0, n)}
<1>1. CASE r.pinned
    <2>1. x \in {<<1, Copy("d_docs", 0, "h_docs", 0, N(r) * MaxDocSize)>>,
                 <<1, Copy("d_doc_lens", 0, "h_doc_lens", 0, N(r))>>}
        BY <1>1 DEF DocStreamOps
    <2>2. x[1] = 1 /\ Fits(r, x[2])
        BY <2>1, DocOpsFit
    <2>3. CASE x = <<1, Copy("d_docs", 0, "h_docs", 0, N(r) * MaxDocSize)>>
        <3>1. /\ Writes(x[2]) = Cells("d_docs", 0, N(r) * MaxDocSize)
              /\ Reads(x[2]) = Cells("h_docs", 0, N(r) * MaxDocSize)
            BY <2>3, CopyTouches
        <3> QED BY <1>1, <2>2, <3>1
    <2>4. CASE x = <<1, Copy("d_doc_lens", 0, "h_doc_lens", 0, N(r))>>
        <3>1. /\ Writes(x[2]) = Cells("d_doc_lens", 0, N(r))
              /\ Reads(x[2]) = Cells("h_doc_lens", 0, N(r))
            BY <2>4, CopyTouches
        <3> QED BY <1>1, <2>2, <3>1
    <2> QED BY <2>1, <2>3, <2>4
<1>2. CASE ~r.pinned
    <2>1. x \in DocCopies(r, 1)
        BY <1>2 DEF DocStreamOps
    <2>2. x[1] = 1 /\ Fits(r, x[2])
        BY <2>1, DocOpsFit DEF DocCopies
    <2>3. CASE x = <<1, Data("d_docs", 0, GroupedDocs(r))>>
        <3>1. /\ Writes(x[2]) = Cells("d_docs", 0, N(r) * MaxDocSize)
              /\ Reads(x[2]) = {}
            BY <2>3, DataTouches, Lengths
        <3> QED BY <2>2, <3>1
    <2>4. CASE x = <<1, Data("d_doc_lens", 0, DocLens(r))>>
        <3>1. /\ Writes(x[2]) = Cells("d_doc_lens", 0, N(r))
              /\ Reads(x[2]) = {}
            BY <2>4, DataTouches, Lengths
        <3> QED BY <2>2, <3>1
    <2> QED BY <2>1, <2>3, <2>4 DEF DocCopies
<1> QED BY <1>1, <1>2

LEMMA RunsDocStreamCopies ==
    ASSUME NEW r \in Inputs
    PROVE  Sound(r, DocStreamOps(r)) /\ Runs(r, DocStreamCopies(r), {}, 0, DocStreamOps(r), 0)
<1> DEFINE F == DocStreamOps(r)
           one == IF r.pinned THEN Copy("d_docs", 0, "h_docs", 0, N(r) * MaxDocSize)
                  ELSE Data("d_docs", 0, GroupedDocs(r))
           two == IF r.pinned THEN Copy("d_doc_lens", 0, "h_doc_lens", 0, N(r))
                  ELSE Data("d_doc_lens", 0, DocLens(r))
<1>1. Sound(r, F)
    <2>1. \A x \in F : x[1] = 1 /\ Fits(r, x[2])
        BY DocStreamOpsAre
    <2> HIDE DEF F
    <2> QED BY <2>1, Sizes, OneStream
<1>2. <<1, one>> \in F /\ <<1, two>> \in F
    BY DEF DocStreamOps, DocCopies
<1>3. DocStreamCopies(r) = <<Async(1, one), Async(1, two)>>
    BY DEF DocStreamCopies
<1> HIDE DEF F, one, two
<1>4. Runs(r, <<Async(1, one)>>, F, 0, F, 0) /\ Runs(r, <<Async(1, two)>>, F, 0, F, 0)
    BY <1>1, <1>2, RunsIssue
<1>5. Runs(r, <<Async(1, one)>> \o <<Async(1, two)>>, F, 0, F, 0)
    BY <1>4, RunsConcat
<1>6. {} \in SUBSET F /\ F \subseteq F
    OBVIOUS
<1>7. Runs(r, DocStreamCopies(r), {}, 0, F, 0)
    <2>1. PICK a, b : a = Async(1, one) /\ b = Async(1, two)
        OBVIOUS
    <2>2. DocStreamCopies(r) = <<a>> \o <<b>>
        BY <1>3, <2>1, Pair
    <2>3. Runs(r, DocStreamCopies(r), F, 0, F, 0)
        BY <1>5, <2>1, <2>2
    <2> QED BY <1>6, <2>3, Weaken
<1> QED BY <1>1, <1>7 DEF F

\* Writing or releasing an array the copies do not touch.
LEMMA HostBesideDocs ==
    ASSUME NEW r \in Inputs, NEW op, Fits(r, op), Reads(op) = {}, NEW a, NEW n,
           Writes(op) = Cells(a, 0, n), a \notin {"d_docs", "d_doc_lens"},
           r.pinned => a \notin {"h_docs", "h_doc_lens"}
    PROVE  HostSound(r, op, DocStreamOps(r))
<1>1. ASSUME NEW x \in DocStreamOps(r) PROVE ~Conflict(op, x[2])
    <2>1. PICK b, m : b \in {"d_docs", "d_doc_lens"} /\ Writes(x[2]) = Cells(b, 0, m)
        BY DocStreamOpsAre
    <2>2. PICK e, l : e \in {"h_docs", "h_doc_lens"} /\ Reads(x[2]) \in {{}, Cells(e, 0, l)}
        BY DocStreamOpsAre
    <2>3. Writes(op) \cap Writes(x[2]) = {}
        BY <2>1, OtherArray
    <2>4. Writes(op) \cap Reads(x[2]) = {}
        <3>1. CASE Reads(x[2]) = {}
            BY <3>1
        <3>2. CASE Reads(x[2]) # {}
            BY <2>2, <3>2, DocStreamOpsAre, OtherArray
        <3> QED BY <3>1, <3>2
    <2> QED BY <2>3, <2>4 DEF Conflict
<1> QED BY <1>1 DEF HostSound

LEMMA RunsDocStreamQuery ==
    ASSUME NEW r \in Inputs, Roomy(r), r.build = "doc_stream", NEW q \in 1..NQ(r)
    PROVE  Runs(r, DocStreamQuery(r, q), DocStreamOps(r), q - 1, {}, q)
<1> DEFINE data == Data("d_querys", 0, r.querys[q])
           kernel == DocStreamKernel(r, q)
           copy == Copy("h_scores", 0, "d_scores", 0, N(r))
           F == DocStreamOps(r)
           X == IF r.staged THEN {<<0, data>>} ELSE {}
           G == F \cup X \cup {<<1, kernel>>, <<1, copy>>}
<1>1. Fits(r, data) /\ Fits(r, kernel) /\ Fits(r, copy)
    BY QueryOpsFit DEF DocStreamKernel
<1>2. q - 1 \in Nat /\ q \in Nat /\ (q - 1) + 1 = q
    BY Sizes
<1>3. HostSound(r, data, F)
    <2>1. Writes(data) = Cells("d_querys", 0, QLen(r, q)) /\ Reads(data) = {}
        BY DataTouches DEF QLen
    <2> HIDE DEF data
    <2> QED BY <1>1, <2>1, HostBesideDocs
<1>4. DocStreamQuery(r, q) = MemcpyPageable(r, data)
                                \o <<Async(1, kernel), Async(1, copy), Sync({1}), Select(0)>>
                                \o CudaFree(r, "d_querys")
    BY DEF DocStreamQuery
<1> HIDE DEF data, kernel, copy
<1>5. \A x \in F : x[1] = 1 /\ Fits(r, x[2])
    BY DocStreamOpsAre
<1>6. Sound(r, G)
    <2>1. CASE r.staged
        <3>1. ~Quiet(r)
            BY <2>1 DEF Quiet
        <3>2. \A x \in G : x[1] \in Streams /\ Fits(r, x[2])
            BY <1>1, <1>5, Sizes
        <3> HIDE DEF G
        <3> QED BY <3>1, <3>2 DEF Sound
    <2>2. CASE ~r.staged
        <3>1. \A x \in G : x[1] = 1 /\ Fits(r, x[2])
            BY <1>1, <1>5, <2>2
        <3> HIDE DEF G
        <3> QED BY <3>1, Sizes, OneStream
    <2> QED BY <2>1, <2>2
<1>7. /\ F \subseteq G /\ <<1, kernel>> \in G /\ <<1, copy>> \in G /\ (r.staged => <<0, data>> \in G)
      /\ X \in SUBSET G
    OBVIOUS
<1>8. Without(G, {1}) \subseteq X /\ (~r.staged => X = {})
    BY <1>5 DEF Without
<1>9. Sound(r, F)
    BY RunsDocStreamCopies
<1>10. Without(F, {0}) = F
    BY <1>5 DEF Without
<1> HIDE DEF F, X, G
<1>11. Runs(r, MemcpyPageable(r, data), F, q - 1, G, q - 1)
    <2>1. CASE r.staged
        BY <1>2, <1>6, <1>7, <2>1, RunsMemcpyPageable
    <2>2. CASE ~r.staged
        <3>1. Runs(r, Memcpy(data), F, q - 1, F, q - 1)
            BY <1>2, <1>3, <1>9, <1>10, RunsMemcpy
        <3>2. F \in SUBSET F
            OBVIOUS
        <3> QED BY <1>7, <2>2, <3>1, <3>2, Weaken DEF MemcpyPageable
    <2> QED BY <2>1, <2>2
<1>12. /\ Runs(r, <<Async(1, kernel)>>, G, q - 1, G, q - 1)
       /\ Runs(r, <<Async(1, copy)>>, G, q - 1, G, q - 1)
    BY <1>2, <1>6, <1>7, RunsIssue
<1>13. Runs(r, <<Sync({1})>>, G, q - 1, X, q - 1)
    <2>1. G \in SUBSET G
        OBVIOUS
    <2> QED BY <1>2, <1>6, <1>8, <2>1, RunsSync, Weaken
<1>14. Sound(r, X)
    BY <1>6, <1>7, SoundSubset
<1>15. Runs(r, <<Select(0)>>, X, q - 1, X, q)
    <2>1. SelectSound(r, "h_scores", 0, X)
        BY <1>8 DEF SelectSound, Quiet
    <2> QED BY <1>2, <1>14, <2>1, RunsSelectBeside
<1>16. Runs(r, CudaFree(r, "d_querys"), X, q, {}, q)
    BY <1>2, <1>14, ArraySizes, RunsFree DEF Names
<1>17. Runs(r, <<Async(1, kernel), Async(1, copy), Sync({1}), Select(0)>>, G, q - 1, X, q)
    <2>1. Runs(r, <<Async(1, kernel)>> \o <<Async(1, copy)>>, G, q - 1, G, q - 1)
        BY <1>12, RunsConcat
    <2>2. Runs(r, <<Async(1, kernel)>> \o <<Async(1, copy)>> \o <<Sync({1})>>, G, q - 1, X, q - 1)
        BY <1>13, <2>1, RunsConcat
    <2>3. Runs(r, <<Async(1, kernel)>> \o <<Async(1, copy)>> \o <<Sync({1})>> \o <<Select(0)>>,
               G, q - 1, X, q)
        BY <1>15, <2>2, RunsConcat
    <2>4. <<Async(1, kernel), Async(1, copy), Sync({1}), Select(0)>>
            = <<Async(1, kernel)>> \o <<Async(1, copy)>> \o <<Sync({1})>> \o <<Select(0)>>
        <3>1. PICK a, b, s, t : a = Async(1, kernel) /\ b = Async(1, copy) /\ s = Sync({1}) /\ t = Select(0)
            OBVIOUS
        <3>2. <<a, b, s, t>> = <<a>> \o <<b>> \o <<s>> \o <<t>>
            BY Quadruple
        <3> QED BY <3>1, <3>2
    <2> QED BY <2>3, <2>4
<1> DEFINE rest == <<Async(1, kernel), Async(1, copy), Sync({1}), Select(0)>>
<1> HIDE DEF rest
<1>18. Runs(r, MemcpyPageable(r, data) \o rest, F, q - 1, X, q)
    BY <1>11, <1>17, RunsConcat DEF rest
<1> QED BY <1>4, <1>16, <1>18, RunsConcat DEF rest, F

LEMMA RunsDocStream ==
    ASSUME NEW r \in Inputs, Roomy(r), r.build = "doc_stream"
    PROVE  Runs(r, DocStream(r), {}, 0, DocStreamOps(r), NQ(r))
<1> DEFINE parts == [q \in 1..NQ(r) |-> DocStreamQuery(r, q)]
           F == DocStreamOps(r)
           free == IF r.pinned THEN CudaFree(r, "h_docs") ELSE <<Scribble(r, "h_docs")>>
<1>1. Sound(r, F) /\ Runs(r, DocStreamCopies(r), {}, 0, F, 0)
    BY RunsDocStreamCopies
<1>2. Runs(r, free, F, NQ(r), F, NQ(r))
    <2>1. "h_docs" \in DOMAIN Arrays(r) /\ Arrays(r)["h_docs"] \in Nat /\ NQ(r) \in Nat
        BY ArraySizes, Sizes DEF Names
    <2>2. F \in SUBSET F /\ {} \subseteq F
        OBVIOUS
    <2>3. CASE r.pinned
        <3> HIDE DEF F
        <3>1. Runs(r, CudaFree(r, "h_docs"), F, NQ(r), {}, NQ(r))
            BY <1>1, <2>1, RunsFree
        <3> QED BY <2>2, <2>3, <3>1, Weaken
    <2>4. CASE ~r.pinned
        <3>1. PICK op : /\ Scribble(r, "h_docs") = Host(op) /\ Fits(r, op)
                        /\ Writes(op) = Cells("h_docs", 0, Arrays(r)["h_docs"])
                        /\ Reads(op) = {}
            BY <2>1, ScribbleFits
        <3>2. HostSound(r, op, F)
            BY <2>4, <3>1, HostBesideDocs
        <3> HIDE DEF F
        <3>3. Runs(r, <<Host(op)>>, F, NQ(r), F, NQ(r))
            BY <1>1, <2>1, <3>2, RunsHost
        <3> QED BY <2>4, <3>1, <3>3
    <2> QED BY <2>3, <2>4
<1> HIDE DEF F, free
<1>3. ASSUME NEW q \in 1..NQ(r) PROVE Runs(r, parts[q], F, q - 1, F, q)
    <2>1. Runs(r, DocStreamQuery(r, q), F, q - 1, {}, q)
        BY RunsDocStreamQuery DEF F
    <2>2. F \in SUBSET F /\ {} \subseteq F
        OBVIOUS
    <2> QED BY <2>1, <2>2, Weaken
<1>4. Runs(r, FlattenSeq(parts), F, 0, F, NQ(r))
    <2>1. /\ Len(parts) = NQ(r) /\ DOMAIN parts = 1..NQ(r)
          /\ parts = [q \in 1..NQ(r) |-> parts[q]]
        BY Sizes
    <2> HIDE DEF parts
    <2> QED BY <1>1, <1>3, <2>1, RunsQuerys
<1>5. DocStream(r) = Laid(r, GroupedDocs(r)) \o DocStreamCopies(r) \o FlattenSeq(parts) \o free
    BY DEF DocStream, ForQuerys, Laid, free
<1> HIDE DEF parts
<1>6. Runs(r, Laid(r, GroupedDocs(r)) \o DocStreamCopies(r), {}, 0, F, 0)
    BY <1>1, RunsLaid, RunsConcat
<1>7. Runs(r, Laid(r, GroupedDocs(r)) \o DocStreamCopies(r) \o FlattenSeq(parts), {}, 0, F, NQ(r))
    BY <1>4, <1>6, RunsConcat
<1>8. Runs(r, DocStream(r), {}, 0, F, NQ(r))
    BY <1>2, <1>5, <1>7, RunsConcat
<1> QED BY <1>8 DEF F

-----------------------------------------------------------------------------
(* The device lays the documents out *)

\* What the block has in flight.
AlignOps(r) ==
    (IF r.pinned
     THEN {<<1, Copy("d_in_docs", 0, "h_docs", 0, N(r) * MaxDocSize)>>,
           <<1, Copy("d_doc_lens", 0, "h_doc_lens", 0, N(r))>>}
     ELSE {<<1, Data("d_in_docs", 0, DocRows(r))>>, <<1, Data("d_doc_lens", 0, DocLens(r))>>})
    \cup {<<1, AlignLaunch(r)>>}

LEMMA AlignOpsAre ==
    ASSUME NEW r \in Inputs, NEW x \in AlignOps(r)
    PROVE  /\ x[1] = 1 /\ Fits(r, x[2])
           /\ ~r.pinned => \A cell \in Reads(x[2]) \cup Writes(x[2]) :
                                 cell[1] \notin {"h_docs", "h_doc_lens"}
<1>1. CASE x = <<1, AlignLaunch(r)>>
    <2> DEFINE op == AlignLaunch(r)
    <2>1. /\ IsOp(op) /\ op.dst = "d_docs" /\ Writes(op) = Cells("d_docs", 0, N(r) * MaxDocSize)
          /\ Reads(op) = Cells("d_in_docs", 0, N(r) * MaxDocSize) \cup Cells("d_doc_lens", 0, N(r))
        BY Sizes, AlignTouches DEF AlignLaunch
    <2>2. x[1] = 1 /\ x[2] = op
        BY <1>1
    <2> HIDE DEF op
    <2>3. Fits(r, op)
        <3>1. /\ "d_docs" \in DOMAIN Arrays(r) /\ Arrays(r)["d_docs"] = N(r) * MaxDocSize
              /\ N(r) * MaxDocSize \in Nat /\ 0 + N(r) * MaxDocSize <= N(r) * MaxDocSize
            BY ArraySizes, Sizes DEF Names
        <3> QED BY <2>1, <3>1, FitsIf
    <2>4. \A cell \in Reads(op) \cup Writes(op) : cell[1] \notin {"h_docs", "h_doc_lens"}
        BY <2>1 DEF Cells
    <2> QED BY <2>2, <2>3, <2>4
<1>2. CASE r.pinned /\ x # <<1, AlignLaunch(r)>>
    BY <1>2, DocOpsFit DEF AlignOps
<1>3. CASE ~r.pinned /\ x # <<1, AlignLaunch(r)>>
    <2>1. x \in {<<1, Data("d_in_docs", 0, DocRows(r))>>, <<1, Data("d_doc_lens", 0, DocLens(r))>>}
        BY <1>3 DEF AlignOps
    <2>2. CASE x = <<1, Data("d_in_docs", 0, DocRows(r))>>
        <3>1. Writes(x[2]) = Cells("d_in_docs", 0, Len(DocRows(r))) /\ Reads(x[2]) = {}
            BY <2>2, DataTouches
        <3>2. x[1] = 1 /\ Fits(r, x[2])
            BY <2>2, DocOpsFit
        <3>3. \A cell \in Reads(x[2]) \cup Writes(x[2]) : cell[1] \notin {"h_docs", "h_doc_lens"}
            BY <3>1 DEF Cells
        <3> QED BY <3>2, <3>3
    <2>3. CASE x = <<1, Data("d_doc_lens", 0, DocLens(r))>>
        <3>1. Writes(x[2]) = Cells("d_doc_lens", 0, Len(DocLens(r))) /\ Reads(x[2]) = {}
            BY <2>3, DataTouches
        <3>2. x[1] = 1 /\ Fits(r, x[2])
            BY <2>3, DocOpsFit
        <3>3. \A cell \in Reads(x[2]) \cup Writes(x[2]) : cell[1] \notin {"h_docs", "h_doc_lens"}
            BY <3>1 DEF Cells
        <3> QED BY <3>2, <3>3
    <2> QED BY <2>1, <2>2, <2>3
<1> QED BY <1>1, <1>2, <1>3

\* Pinned buffers are released when the device is idle; pageable ones have been
\* read when the copies out of them return.
LEMMA RunsAlignFree ==
    ASSUME NEW r \in Inputs, NEW F, F = AlignOps(r), Sound(r, F)
    PROVE  Runs(r, AlignFree(r), F, 0, F, 0)
<1>1. /\ "h_docs" \in DOMAIN Arrays(r) /\ Arrays(r)["h_docs"] \in Nat
      /\ "h_doc_lens" \in DOMAIN Arrays(r) /\ Arrays(r)["h_doc_lens"] \in Nat
    BY ArraySizes DEF Names
<1>2. F \in SUBSET F /\ {} \subseteq F
    OBVIOUS
<1>3. CASE r.pinned
    <2>1. Runs(r, CudaFree(r, "h_docs"), F, 0, {}, 0)
        BY <1>1, RunsFree
    <2>2. Runs(r, CudaFree(r, "h_doc_lens"), {}, 0, {}, 0)
        BY <1>1, NothingInFlight, RunsFree
    <2>3. Runs(r, AlignFree(r), F, 0, {}, 0)
        BY <1>3, <2>1, <2>2, RunsConcat DEF AlignFree
    <2> QED BY <1>2, <2>3, Weaken
<1>4. CASE ~r.pinned
    <2>1. ASSUME NEW a \in {"h_docs", "h_doc_lens"}
          PROVE  Runs(r, <<Scribble(r, a)>>, F, 0, F, 0)
        <3>1. PICK op : /\ Scribble(r, a) = Host(op) /\ Fits(r, op)
                        /\ Writes(op) = Cells(a, 0, Arrays(r)[a]) /\ Reads(op) = {}
            BY <1>1, ScribbleFits
        <3>2. ASSUME NEW x \in F PROVE ~Conflict(op, x[2])
            <4>1. \A cell \in Reads(x[2]) \cup Writes(x[2]) : cell[1] \notin {"h_docs", "h_doc_lens"}
                BY <1>4, AlignOpsAre
            <4>2. \A cell \in Writes(op) : cell[1] \in {"h_docs", "h_doc_lens"}
                BY <3>1 DEF Cells
            <4> QED BY <3>1, <4>1, <4>2 DEF Conflict
        <3>3. HostSound(r, op, F)
            BY <3>1, <3>2 DEF HostSound
        <3> QED BY <3>1, <3>3, RunsHost
    <2>2. AlignFree(r) = <<Scribble(r, "h_docs")>> \o <<Scribble(r, "h_doc_lens")>>
        BY <1>4, Pair DEF AlignFree
    <2> QED BY <2>1, <2>2, RunsConcat
<1> QED BY <1>3, <1>4

LEMMA RunsAlignBlock ==
    ASSUME NEW r \in Inputs
    PROVE  Runs(r, AlignBlock(r), {}, 0, {}, 0) /\ StreamedAlignBlock(r) = AlignBlock(r)
<1> DEFINE F == AlignOps(r)
           one == IF r.pinned THEN Copy("d_in_docs", 0, "h_docs", 0, N(r) * MaxDocSize)
                  ELSE Data("d_in_docs", 0, DocRows(r))
           two == IF r.pinned THEN Copy("d_doc_lens", 0, "h_doc_lens", 0, N(r))
                  ELSE Data("d_doc_lens", 0, DocLens(r))
           launch == AlignLaunch(r)
           copies == <<Async(1, one), Async(1, two)>>
<1>1. Sound(r, F)
    <2>1. \A x \in F : x[1] = 1 /\ Fits(r, x[2])
        BY AlignOpsAre
    <2> HIDE DEF F
    <2> QED BY <2>1, Sizes, OneStream
<1>2. <<1, one>> \in F /\ <<1, two>> \in F /\ <<1, launch>> \in F /\ {} \in SUBSET F /\ F \subseteq F
    BY DEF AlignOps
<1>3. AlignBlock(r) = Laid(r, DocRows(r)) \o copies \o <<Async(1, launch)>> \o AlignFree(r)
                          \o CudaFree(r, "d_in_docs")
    BY DEF AlignBlock, Laid
<1>4. StreamedAlignBlock(r) = AlignBlock(r)
    BY DEF AlignBlock, StreamedAlignBlock, AlignLaunch, StreamedAlignLaunch
<1>5. Runs(r, AlignFree(r), F, 0, F, 0)
    BY <1>1, RunsAlignFree
<1> HIDE DEF F, one, two, launch
<1>6. /\ Runs(r, <<Async(1, one)>>, F, 0, F, 0) /\ Runs(r, <<Async(1, two)>>, F, 0, F, 0)
      /\ Runs(r, <<Async(1, launch)>>, F, 0, F, 0)
    BY <1>1, <1>2, RunsIssue
<1>7. Runs(r, copies, {}, 0, F, 0)
    <2>1. Runs(r, copies, F, 0, F, 0)
        BY <1>6, RunsConcat, Pair
    <2> HIDE DEF copies
    <2> QED BY <1>2, <2>1, Weaken
<1>8. Runs(r, CudaFree(r, "d_in_docs"), F, 0, {}, 0)
    BY <1>1, ArraySizes, RunsFree DEF Names
<1> HIDE DEF copies
<1>9. Runs(r, Laid(r, DocRows(r)) \o copies, {}, 0, F, 0)
    BY <1>7, RunsLaid, RunsConcat
<1>10. Runs(r, Laid(r, DocRows(r)) \o copies \o <<Async(1, launch)>>, {}, 0, F, 0)
    BY <1>6, <1>9, RunsConcat
<1>11. Runs(r, Laid(r, DocRows(r)) \o copies \o <<Async(1, launch)>> \o AlignFree(r), {}, 0, F, 0)
    BY <1>5, <1>10, RunsConcat
<1>12. Runs(r, AlignBlock(r), {}, 0, {}, 0)
    BY <1>3, <1>8, <1>11, RunsConcat
<1> QED BY <1>4, <1>12

LEMMA RunsAlignLocality ==
    ASSUME NEW r \in Inputs, Roomy(r)
    PROVE  Runs(r, AlignLocality(r), {}, 0, {}, NQ(r))
<1> DEFINE parts == [q \in 1..NQ(r) |-> AlignQuery(r, q)]
<1>1. ASSUME NEW q \in 1..NQ(r) PROVE Runs(r, AlignQuery(r, q), {}, q - 1, {}, q)
    <2> DEFINE P == MemcpyPageable(r, Data("d_querys", 0, r.querys[q]))
                    \o <<Async(0, AlignKernel(r, q)), Sync(Streams)>>
    <2>1. Fits(r, AlignKernel(r, q))
        BY QueryOpsFit DEF AlignKernel
    <2>2. q - 1 \in Nat
        BY Sizes
    <2>3. Runs(r, P, {}, q - 1, {}, q - 1)
        <3>1. \A x \in {} : x[1] = 0 /\ Fits(r, x[2])
            OBVIOUS
        <3> QED BY <2>1, <2>2, <3>1, QueryOpsFit, RunsScored
    <2>4. AlignQuery(r, q) = P \o Memcpy(Copy("h_scores", 0, "d_scores", 0, N(r))) \o <<Select(0)>>
                                \o CudaFree(r, "d_querys")
        BY DEF AlignQuery
    <2> HIDE DEF P
    <2> QED BY <2>3, <2>4, RunsSelected
<1>2. Runs(r, FlattenSeq(parts), {}, 0, {}, NQ(r))
    <2>1. /\ Len(parts) = NQ(r) /\ DOMAIN parts = 1..NQ(r)
          /\ parts = [q \in 1..NQ(r) |-> parts[q]]
          /\ \A q \in 1..NQ(r) : Runs(r, parts[q], {}, q - 1, {}, q)
        BY <1>1, Sizes
    <2> HIDE DEF parts
    <2> QED BY <2>1, NothingInFlight, RunsQuerys
<1>3. AlignLocality(r) = AlignBlock(r) \o FlattenSeq(parts)
    BY DEF AlignLocality, ForQuerys
<1> HIDE DEF parts
<1> QED BY <1>2, <1>3, RunsAlignBlock, RunsConcat

-----------------------------------------------------------------------------
(* A stream per query *)

\* What the bodies of a parallel loop issue.
BodyOps(bodies) ==
    UNION {{<<q, bodies[q][i]>> : i \in 1..Len(bodies[q])} : q \in DOMAIN bodies}

\* What belongs to a query, and what its kernel reads with those of the others.
Own(r, q) ==
    Cells("h_querys", (q - 1) * MaxQuerySize, MaxQuerySize)
    \cup Cells("d_querys", QueryAt(r, q), MaxDocSize)
    \cup Cells("d_scores", ScoresAt(r, q), N(r)) \cup Cells("h_scores", ScoresAt(r, q), N(r))

Shared(r) == Cells("d_docs", 0, N(r) * MaxDocSize) \cup Cells("d_doc_lens", 0, N(r))

\* op stays within what belongs to query q.
Stays(r, q, op) == Writes(op) \subseteq Own(r, q) /\ Reads(op) \subseteq Own(r, q) \cup Shared(r)

\* Queries own different cells.
LEMMA OwnApart ==
    ASSUME NEW r \in Inputs, NEW p \in 1..NQ(r), NEW q \in 1..NQ(r), p # q
    PROVE  Own(r, p) \cap Own(r, q) = {} /\ Own(r, p) \cap Shared(r) = {}
<1>1. N(r) \in 0..N(r) /\ MaxDocSize \in 0..MaxDocSize /\ MaxQuerySize \in 0..MaxQuerySize
    BY Sizes
<1>2. Cells("h_querys", (p - 1) * MaxQuerySize, MaxQuerySize)
          \cap Cells("h_querys", (q - 1) * MaxQuerySize, MaxQuerySize) = {}
    BY <1>1, Sizes, RegionsApart
<1>3. Cells("d_querys", QueryAt(r, p), MaxDocSize) \cap Cells("d_querys", QueryAt(r, q), MaxDocSize) = {}
    BY <1>1, Sizes, RegionsApart DEF QueryAt
<1>4. Cells("d_scores", ScoresAt(r, p), N(r)) \cap Cells("d_scores", ScoresAt(r, q), N(r)) = {}
    BY <1>1, Sizes, RegionsApart DEF ScoresAt
<1>5. Cells("h_scores", ScoresAt(r, p), N(r)) \cap Cells("h_scores", ScoresAt(r, q), N(r)) = {}
    BY <1>1, Sizes, RegionsApart DEF ScoresAt
<1>6. ASSUME NEW a, NEW f, NEW m, NEW c \in Cells(a, f, m) PROVE c[1] = a
    BY DEF Cells
<1>7. Own(r, p) \cap Own(r, q) = {}
    <2> SUFFICES ASSUME NEW c \in Own(r, p), c \in Own(r, q) PROVE FALSE
        OBVIOUS
    <2>1. CASE c[1] = "h_querys"
        BY <1>2, <1>6, <2>1 DEF Own
    <2>2. CASE c[1] = "d_querys"
        BY <1>3, <1>6, <2>2 DEF Own
    <2>3. CASE c[1] = "d_scores"
        BY <1>4, <1>6, <2>3 DEF Own
    <2>4. CASE c[1] = "h_scores"
        BY <1>5, <1>6, <2>4 DEF Own
    <2>5. c[1] \in {"h_querys", "d_querys", "d_scores", "h_scores"}
        BY <1>6 DEF Own
    <2> QED BY <2>1, <2>2, <2>3, <2>4, <2>5
<1>8. Own(r, p) \cap Shared(r) = {}
    <2>1. \A c \in Own(r, p) : c[1] \in {"h_querys", "d_querys", "d_scores", "h_scores"}
        BY <1>6 DEF Own
    <2>2. \A c \in Shared(r) : c[1] \in {"d_docs", "d_doc_lens"}
        BY <1>6 DEF Shared
    <2> QED BY <2>1, <2>2
<1> QED BY <1>7, <1>8

\* Operations of different queries do not conflict.
LEMMA StaysApart ==
    ASSUME NEW r \in Inputs, NEW p \in 1..NQ(r), NEW q \in 1..NQ(r), p # q,
           NEW o, Stays(r, p, o), NEW op, Stays(r, q, op)
    PROVE  ~Conflict(o, op)
<1>1. Own(r, p) \cap Own(r, q) = {} /\ Own(r, p) \cap Shared(r) = {} /\ Own(r, q) \cap Shared(r) = {}
    BY OwnApart
<1> QED BY <1>1 DEF Conflict, Stays

LEMMA FewerCells ==
    ASSUME NEW a, NEW from \in Nat, NEW m \in Nat, NEW n \in Nat, n <= m
    PROVE  Cells(a, from, n) \subseteq Cells(a, from, m)
<1>1. Span(from, n) \subseteq Span(from, m)
    BY DEF Span
<1> QED BY <1>1 DEF Cells

\* The cells of a query, and the operations on them.
LEMMA OwnOps ==
    ASSUME NEW r \in Inputs, Roomy(r), StreamPerQuery(r), NEW q \in 1..NQ(r)
    PROVE  /\ Fits(r, Data("d_querys", QueryAt(r, q), r.querys[q]))
           /\ Stays(r, q, Data("d_querys", QueryAt(r, q), r.querys[q]))
           /\ Fits(r, QueryKernel(r, q)) /\ Stays(r, q, QueryKernel(r, q))
           /\ Fits(r, Copy("h_scores", ScoresAt(r, q), "d_scores", ScoresAt(r, q), N(r)))
           /\ Stays(r, q, Copy("h_scores", ScoresAt(r, q), "d_scores", ScoresAt(r, q), N(r)))
           /\ Fits(r, Copy("d_querys", QueryAt(r, q), "h_querys", (q - 1) * MaxQuerySize, QLen(r, q)))
           /\ Stays(r, q, Copy("d_querys", QueryAt(r, q), "h_querys", (q - 1) * MaxQuerySize,
                               QLen(r, q)))
           /\ Fits(r, Data("h_querys", (q - 1) * MaxQuerySize, r.querys[q]))
           /\ Stays(r, q, Data("h_querys", (q - 1) * MaxQuerySize, r.querys[q]))
<1> DEFINE n == NQ(r)
           w == (q - 1) * MaxQuerySize
           d == QueryAt(r, q)
           s == ScoresAt(r, q)
           l == QLen(r, q)
<1>1. /\ n \in Nat /\ N(r) \in Nat /\ MaxDocSize \in Nat /\ MaxQuerySize \in Nat /\ l \in Nat
      /\ l <= MaxDocSize /\ l <= MaxQuerySize
      /\ n * MaxDocSize \in Nat /\ n * MaxQuerySize \in Nat /\ n * N(r) \in Nat
    BY Sizes DEF Roomy
<1>2. /\ w \in Nat /\ w + MaxQuerySize <= n * MaxQuerySize
      /\ d \in Nat /\ d + MaxDocSize <= n * MaxDocSize
      /\ s \in Nat /\ s + N(r) <= n * N(r)
    BY <1>1, Regions DEF QueryAt, ScoresAt
<1>3. w + l <= n * MaxQuerySize /\ d + l <= n * MaxDocSize
    <2> HIDE DEF n, w, d, l
    <2> QED BY <1>1, <1>2
<1>4. /\ {"h_querys", "d_querys", "h_scores", "d_scores"} \subseteq DOMAIN Arrays(r)
      /\ Arrays(r)["h_querys"] = n * MaxQuerySize /\ Arrays(r)["d_querys"] = n * MaxDocSize
      /\ Arrays(r)["h_scores"] = n * N(r) /\ Arrays(r)["d_scores"] = n * N(r)
    BY ArraySizes DEF Names, QueryRoom, ScoreRoom
<1>5. Own(r, q) = Cells("h_querys", w, MaxQuerySize) \cup Cells("d_querys", d, MaxDocSize)
                      \cup Cells("d_scores", s, N(r)) \cup Cells("h_scores", s, N(r))
    BY DEF Own
<1>6. Len(r.querys[q]) = l
    BY DEF QLen
<1>7. QueryKernel(r, q) = Score("d_docs", "d_doc_lens", N(r), "d_querys", d, l, "d_scores", s)
    BY DEF QueryKernel
<1> HIDE DEF n, w, d, s, l
<1>8. /\ Cells("h_querys", w, l) \subseteq Own(r, q) /\ Cells("d_querys", d, l) \subseteq Own(r, q)
      /\ Cells("d_scores", s, N(r)) \subseteq Own(r, q) /\ Cells("h_scores", s, N(r)) \subseteq Own(r, q)
    BY <1>1, <1>2, <1>5, FewerCells
<1>9. /\ Fits(r, Data("d_querys", d, r.querys[q])) /\ Fits(r, Data("h_querys", w, r.querys[q]))
    BY <1>1, <1>2, <1>3, <1>4, <1>6, DataFits
<1>10. /\ Stays(r, q, Data("d_querys", d, r.querys[q])) /\ Stays(r, q, Data("h_querys", w, r.querys[q]))
    BY <1>6, <1>8, DataTouches DEF Stays
<1>11. /\ Fits(r, Copy("h_scores", s, "d_scores", s, N(r)))
       /\ Fits(r, Copy("d_querys", d, "h_querys", w, l))
    BY <1>1, <1>2, <1>3, <1>4, CopyFits
<1>12. /\ Stays(r, q, Copy("h_scores", s, "d_scores", s, N(r)))
       /\ Stays(r, q, Copy("d_querys", d, "h_querys", w, l))
    BY <1>8, CopyTouches DEF Stays
<1>13. Fits(r, QueryKernel(r, q))
    BY <1>1, <1>2, <1>4, <1>7, ScoreFits
<1>14. Stays(r, q, QueryKernel(r, q))
    BY <1>7, <1>8, ScoreTouches DEF Stays, Shared
<1> QED BY <1>9, <1>10, <1>11, <1>12, <1>13, <1>14 DEF w, d, s, l

\* Bodies that stay within their query may all be in flight together.
LEMMA BodiesSound ==
    ASSUME NEW r \in Inputs, NEW bodies, DOMAIN bodies = 1..NQ(r),
           \A q \in 1..NQ(r) : Len(bodies[q]) \in Nat,
           \A q \in 1..NQ(r) : \A i \in 1..Len(bodies[q]) :
              Fits(r, bodies[q][i]) /\ Stays(r, q, bodies[q][i])
    PROVE  /\ Sound(r, BodyOps(bodies)) /\ ParallelSound(bodies, BodyOps(bodies))
           /\ \A x \in BodyOps(bodies) : x[1] \in 1..NQ(r) /\ Stays(r, x[1], x[2])
<1>1. ASSUME NEW x \in BodyOps(bodies)
      PROVE  x[1] \in 1..NQ(r) /\ Fits(r, x[2]) /\ Stays(r, x[1], x[2])
    <2>1. PICK q \in 1..NQ(r) : x \in {<<q, bodies[q][i]>> : i \in 1..Len(bodies[q])}
        BY DEF BodyOps
    <2>2. PICK i \in 1..Len(bodies[q]) : x = <<q, bodies[q][i]>>
        BY <2>1
    <2> QED BY <2>2
<1>2. Sound(r, BodyOps(bodies))
    <2>1. \A x \in BodyOps(bodies) : x[1] \in Streams /\ Fits(r, x[2])
        BY <1>1, Sizes
    <2>2. \A x, y \in BodyOps(bodies) : x[1] # y[1] => ~Conflict(x[2], y[2])
        BY <1>1, StaysApart
    <2> QED BY <2>1, <2>2 DEF Sound
<1>3. ParallelSound(bodies, BodyOps(bodies))
    <2>1. ASSUME NEW q \in DOMAIN bodies, NEW i \in 1..Len(bodies[q])
          PROVE  <<q, bodies[q][i]>> \in BodyOps(bodies)
        <3>1. <<q, bodies[q][i]>> \in {<<q, bodies[q][j]>> : j \in 1..Len(bodies[q])}
            OBVIOUS
        <3> QED BY <3>1 DEF BodyOps
    <2> QED BY <2>1 DEF ParallelSound
<1> QED BY <1>1, <1>2, <1>3

\* What is in flight when the streams up to q have been waited for.
Behind(F, q) == {x \in F : x[1] > q}

\* The streams are waited for one after the other.
LEMMA RunsWaits ==
    ASSUME NEW r \in Inputs, NEW F, Sound(r, F), \A x \in F : x[1] \in 1..NQ(r), NEW parts,
           Len(parts) = NQ(r), DOMAIN parts = 1..NQ(r), parts = [q \in 1..NQ(r) |-> parts[q]],
           \A q \in 1..NQ(r) : Runs(r, parts[q], Behind(F, q - 1), 0, Behind(F, q), 0)
    PROVE  Runs(r, FlattenSeq(parts), F, 0, {}, 0)
<1> DEFINE n == NQ(r)
           B == [i \in 0..n |-> Behind(F, i)]
           c == [i \in 0..n |-> 0]
<1>1. n \in Nat
    BY Sizes
<1>2. Behind(F, 0) = F /\ Behind(F, n) = {}
    BY <1>1 DEF Behind
<1> HIDE DEF n
<1>3. /\ B[0] = F /\ c[0] = 0 /\ B[n] = {} /\ c[n] = 0
      /\ \A q \in 1..n : B[q - 1] = Behind(F, q - 1) /\ c[q - 1] = 0 /\ B[q] = Behind(F, q) /\ c[q] = 0
    BY <1>1, <1>2
<1> HIDE DEF B, c
<1>4. \A q \in 1..n : Runs(r, parts[q], B[q - 1], c[q - 1], B[q], c[q])
    BY <1>3 DEF n
<1>5. /\ Len(parts) = n /\ DOMAIN parts = 1..n /\ parts = [q \in 1..n |-> parts[q]]
      /\ Sound(r, B[0]) /\ c[0] \in Nat
    BY <1>3 DEF n
<1>6. Runs(r, FlattenSeq(parts), B[0], c[0], B[n], c[n])
    BY <1>1, <1>4, <1>5, RunsLoop
<1> QED BY <1>3, <1>6

LEMMA RunsWait ==
    ASSUME NEW r \in Inputs, NEW F, Sound(r, F), \A x \in F : x[1] \in 1..NQ(r),
           NEW q \in 1..NQ(r)
    PROVE  /\ Runs(r, <<Sync({q})>>, Behind(F, q - 1), 0, Behind(F, q), 0)
           /\ Sound(r, Behind(F, q))
<1>1. Behind(F, q - 1) \in SUBSET F /\ Behind(F, q) \in SUBSET F
    BY DEF Behind
<1>2. Sound(r, Behind(F, q - 1)) /\ Sound(r, Behind(F, q))
    BY <1>1, SoundSubset
<1>3. Without(Behind(F, q - 1), {q}) = Behind(F, q)
    <2>1. NQ(r) \in Nat
        BY Sizes
    <2> QED BY <2>1 DEF Without, Behind
<1> QED BY <1>2, <1>3, RunsSync

\* The selection, a query after the other.
LEMMA RunsSelections ==
    ASSUME NEW r \in Inputs
    PROVE  /\ Runs(r, ForQuerys(r, LAMBDA q : <<Select(ScoresAt(r, q))>>), {}, 0, {}, NQ(r))
           /\ Runs(r, ForQuerys(r, LAMBDA q : <<SelectTwice(ScoresAt(r, q))>>), {}, 0, {}, NQ(r))
<1> DEFINE one == [q \in 1..NQ(r) |-> <<Select(ScoresAt(r, q))>>]
           two == [q \in 1..NQ(r) |-> <<SelectTwice(ScoresAt(r, q))>>]
<1>1. ASSUME NEW q \in 1..NQ(r)
      PROVE  Runs(r, one[q], {}, q - 1, {}, q) /\ Runs(r, two[q], {}, q - 1, {}, q)
    <2>1. q - 1 \in Nat /\ (q - 1) + 1 = q
        BY Sizes
    <2> QED BY <2>1, RunsSelect
<1>2. /\ Len(one) = NQ(r) /\ DOMAIN one = 1..NQ(r) /\ one = [q \in 1..NQ(r) |-> one[q]]
      /\ Len(two) = NQ(r) /\ DOMAIN two = 1..NQ(r) /\ two = [q \in 1..NQ(r) |-> two[q]]
    BY Sizes
<1>3. /\ ForQuerys(r, LAMBDA q : <<Select(ScoresAt(r, q))>>) = FlattenSeq(one)
      /\ ForQuerys(r, LAMBDA q : <<SelectTwice(ScoresAt(r, q))>>) = FlattenSeq(two)
    BY DEF ForQuerys
<1> HIDE DEF one, two
<1>4. Runs(r, FlattenSeq(one), {}, 0, {}, NQ(r))
    BY <1>1, <1>2, NothingInFlight, RunsQuerys
<1>5. Runs(r, FlattenSeq(two), {}, 0, {}, NQ(r))
    BY <1>1, <1>2, NothingInFlight, RunsQuerys
<1> QED BY <1>3, <1>4, <1>5

LEMMA RunsQueryStream ==
    ASSUME NEW r \in Inputs, Roomy(r), StreamPerQuery(r)
    PROVE  Runs(r, QueryStream(r), {}, 0, {}, NQ(r))
<1> DEFINE bodies == [q \in 1..NQ(r) |-> QueryBody(r, q)]
           F == BodyOps(bodies)
           waits == [q \in 1..NQ(r) |-> <<Sync({q})>>]
           selects == ForQuerys(r, LAMBDA q : <<Select(ScoresAt(r, q))>>)
           docs == Memcpy(Copy("d_docs", 0, "h_docs", 0, N(r) * MaxDocSize))
           lens == Memcpy(Copy("d_doc_lens", 0, "h_doc_lens", 0, N(r)))
<1>1. DOMAIN bodies = 1..NQ(r)
    OBVIOUS
<1>0. ASSUME NEW q \in 1..NQ(r) PROVE Len(bodies[q]) \in Nat
    <2>1. bodies[q] = QueryBody(r, q)
        OBVIOUS
    <2> HIDE DEF bodies
    <2>2. Len(QueryBody(r, q)) = 3
        BY DEF QueryBody
    <2> QED BY <2>1, <2>2
<1>2. ASSUME NEW q \in 1..NQ(r), NEW i \in 1..Len(bodies[q])
      PROVE  Fits(r, bodies[q][i]) /\ Stays(r, q, bodies[q][i])
    <2>1. bodies[q] = QueryBody(r, q)
        OBVIOUS
    <2> HIDE DEF bodies
    <2>2. Len(QueryBody(r, q)) = 3
        BY DEF QueryBody
    <2>3. /\ QueryBody(r, q)[1] = Data("d_querys", QueryAt(r, q), r.querys[q])
          /\ QueryBody(r, q)[2] = QueryKernel(r, q)
          /\ QueryBody(r, q)[3]
               = Copy("h_scores", ScoresAt(r, q), "d_scores", ScoresAt(r, q), N(r))
        BY DEF QueryBody
    <2>4. i \in {1, 2, 3}
        BY <2>1, <2>2
    <2>5. CASE i = 1
        BY <2>1, <2>3, <2>5, OwnOps
    <2>6. CASE i = 2
        BY <2>1, <2>3, <2>6, OwnOps
    <2>7. CASE i = 3
        BY <2>1, <2>3, <2>7, OwnOps
    <2> QED BY <2>4, <2>5, <2>6, <2>7
<1>3. QueryStream(r) = Laid(r, GroupedDocs(r)) \o docs \o lens \o <<ParallelFor(bodies)>>
                          \o FlattenSeq(waits) \o selects
                          \o CudaFree(r, "d_querys") \o CudaFree(r, "h_docs")
    BY DEF QueryStream, Laid, SyncQuerys, ForQuerys
<1> HIDE DEF bodies
<1>4. /\ Sound(r, F) /\ ParallelSound(bodies, F)
      /\ \A x \in F : x[1] \in 1..NQ(r)
    BY <1>0, <1>1, <1>2, BodiesSound
<1> HIDE DEF F
<1>5. {} \in SUBSET F /\ F \subseteq F
    OBVIOUS
<1>6. Runs(r, <<ParallelFor(bodies)>>, {}, 0, F, 0)
    BY <1>4, <1>5, RunsParallel, Weaken
<1>7. Runs(r, FlattenSeq(waits), F, 0, {}, 0)
    <2>0. NQ(r) \in Nat
        BY Sizes
    <2>1. /\ Len(waits) = NQ(r) /\ DOMAIN waits = 1..NQ(r)
          /\ waits = [q \in 1..NQ(r) |-> waits[q]]
        BY <2>0
    <2>2. \A q \in 1..NQ(r) : waits[q] = <<Sync({q})>>
        OBVIOUS
    <2> HIDE DEF waits
    <2>3. \A q \in 1..NQ(r) : Runs(r, waits[q], Behind(F, q - 1), 0, Behind(F, q), 0)
        BY <1>4, <2>2, RunsWait
    <2> QED BY <1>4, <2>1, <2>3, RunsWaits
<1>8. Runs(r, docs, {}, 0, {}, 0) /\ Runs(r, lens, {}, 0, {}, 0)
    BY DocOpsFit, RunsMemcpyIdle
<1>9. Runs(r, selects, {}, 0, {}, NQ(r))
    BY RunsSelections
<1>10. /\ Runs(r, CudaFree(r, "d_querys"), {}, NQ(r), {}, NQ(r))
       /\ Runs(r, CudaFree(r, "h_docs"), {}, NQ(r), {}, NQ(r))
    BY ArraySizes, Sizes, NothingInFlight, RunsFree DEF Names
<1> HIDE DEF waits, selects, docs, lens
<1>11. Runs(r, Laid(r, GroupedDocs(r)) \o docs, {}, 0, {}, 0)
    BY <1>8, RunsLaid, RunsConcat
<1>12. Runs(r, Laid(r, GroupedDocs(r)) \o docs \o lens, {}, 0, {}, 0)
    BY <1>8, <1>11, RunsConcat
<1>13. Runs(r, Laid(r, GroupedDocs(r)) \o docs \o lens \o <<ParallelFor(bodies)>>, {}, 0, F, 0)
    BY <1>6, <1>12, RunsConcat
<1>14. Runs(r, Laid(r, GroupedDocs(r)) \o docs \o lens \o <<ParallelFor(bodies)>>
                  \o FlattenSeq(waits), {}, 0, {}, 0)
    BY <1>7, <1>13, RunsConcat
<1>15. Runs(r, Laid(r, GroupedDocs(r)) \o docs \o lens \o <<ParallelFor(bodies)>>
                  \o FlattenSeq(waits) \o selects, {}, 0, {}, NQ(r))
    BY <1>9, <1>14, RunsConcat
<1>16. Runs(r, Laid(r, GroupedDocs(r)) \o docs \o lens \o <<ParallelFor(bodies)>>
                  \o FlattenSeq(waits) \o selects \o CudaFree(r, "d_querys"), {}, 0, {}, NQ(r))
    BY <1>10, <1>15, RunsConcat
<1> QED BY <1>3, <1>10, <1>16, RunsConcat

LEMMA RunsAlignQueryStreamRaft ==
    ASSUME NEW r \in Inputs, Roomy(r), StreamPerQuery(r)
    PROVE  Runs(r, AlignQueryStreamRaft(r), {}, 0, {}, NQ(r))
<1> DEFINE bodies == [q \in 1..NQ(r) |-> StreamedBody(r, q)]
           F == BodyOps(bodies)
           waits == [q \in 1..NQ(r) |-> <<Sync({q}), Unregister(r, q)>>]
           selects == ForQuerys(r, LAMBDA q : <<SelectTwice(ScoresAt(r, q))>>)
<1>1. DOMAIN bodies = 1..NQ(r)
    OBVIOUS
<1>0. ASSUME NEW q \in 1..NQ(r) PROVE Len(bodies[q]) \in Nat
    <2>1. bodies[q] = StreamedBody(r, q)
        OBVIOUS
    <2> HIDE DEF bodies
    <2>2. Len(StreamedBody(r, q)) = 2
        BY DEF StreamedBody
    <2> QED BY <2>1, <2>2
<1>2. ASSUME NEW q \in 1..NQ(r), NEW i \in 1..Len(bodies[q])
      PROVE  Fits(r, bodies[q][i]) /\ Stays(r, q, bodies[q][i])
    <2>1. bodies[q] = StreamedBody(r, q)
        OBVIOUS
    <2> HIDE DEF bodies
    <2>2. Len(StreamedBody(r, q)) = 2
        BY DEF StreamedBody
    <2>3. /\ StreamedBody(r, q)[1]
               = Copy("d_querys", QueryAt(r, q), "h_querys", (q - 1) * MaxQuerySize, QLen(r, q))
          /\ StreamedBody(r, q)[2] = QueryKernel(r, q)
        BY DEF StreamedBody, StreamedKernel, QueryKernel
    <2>4. i \in {1, 2}
        BY <2>1, <2>2
    <2>5. CASE i = 1
        BY <2>1, <2>3, <2>5, OwnOps
    <2>6. CASE i = 2
        BY <2>1, <2>3, <2>6, OwnOps
    <2> QED BY <2>4, <2>5, <2>6
<1>3. AlignQueryStreamRaft(r) = StreamedAlignBlock(r) \o <<ParallelFor(bodies)>>
                                   \o FlattenSeq(waits) \o selects \o CudaFree(r, "d_querys")
    BY DEF AlignQueryStreamRaft, ForQuerys
<1> HIDE DEF bodies
<1>4. /\ Sound(r, F) /\ ParallelSound(bodies, F)
      /\ \A x \in F : x[1] \in 1..NQ(r) /\ Stays(r, x[1], x[2])
    BY <1>0, <1>1, <1>2, BodiesSound
<1> HIDE DEF F
<1>5. {} \in SUBSET F /\ F \subseteq F
    OBVIOUS
<1>6. Runs(r, <<ParallelFor(bodies)>>, {}, 0, F, 0)
    BY <1>4, <1>5, RunsParallel, Weaken
<1>7. ASSUME NEW q \in 1..NQ(r)
      PROVE  Runs(r, <<Sync({q}), Unregister(r, q)>>, Behind(F, q - 1), 0, Behind(F, q), 0)
    <2> DEFINE op == Data("h_querys", (q - 1) * MaxQuerySize, r.querys[q])
    <2>1. Fits(r, op) /\ Stays(r, q, op)
        BY OwnOps
    <2>2. Unregister(r, q) = Host(op)
        BY DEF Unregister
    <2> HIDE DEF op
    <2>3. \A x \in Behind(F, q) : ~Conflict(op, x[2])
        <3>1. NQ(r) \in Nat
            BY Sizes
        <3>2. \A x \in Behind(F, q) : x \in F /\ x[1] # q
            BY <3>1 DEF Behind
        <3> QED BY <1>4, <2>1, <3>2, StaysApart
    <2>4. HostSound(r, op, Behind(F, q))
        BY <2>1, <2>3 DEF HostSound
    <2>5. Runs(r, <<Sync({q})>>, Behind(F, q - 1), 0, Behind(F, q), 0) /\ Sound(r, Behind(F, q))
        BY <1>4, RunsWait
    <2>6. Runs(r, <<Host(op)>>, Behind(F, q), 0, Behind(F, q), 0)
        BY <2>4, <2>5, RunsHost
    <2>7. <<Sync({q}), Unregister(r, q)>> = <<Sync({q})>> \o <<Host(op)>>
        BY <2>2, Pair
    <2> QED BY <2>5, <2>6, <2>7, RunsConcat
<1>8. Runs(r, FlattenSeq(waits), F, 0, {}, 0)
    <2>0. NQ(r) \in Nat
        BY Sizes
    <2>1. /\ Len(waits) = NQ(r) /\ DOMAIN waits = 1..NQ(r)
          /\ waits = [q \in 1..NQ(r) |-> waits[q]]
        BY <2>0
    <2>2. \A q \in 1..NQ(r) : waits[q] = <<Sync({q}), Unregister(r, q)>>
        OBVIOUS
    <2> HIDE DEF waits
    <2>3. \A q \in 1..NQ(r) : Runs(r, waits[q], Behind(F, q - 1), 0, Behind(F, q), 0)
        BY <1>7, <2>2
    <2> QED BY <1>4, <2>1, <2>3, RunsWaits
<1>9. Runs(r, selects, {}, 0, {}, NQ(r))
    BY RunsSelections
<1>10. Runs(r, CudaFree(r, "d_querys"), {}, NQ(r), {}, NQ(r))
    BY ArraySizes, Sizes, NothingInFlight, RunsFree DEF Names
<1> HIDE DEF waits, selects
<1>11. Runs(r, StreamedAlignBlock(r) \o <<ParallelFor(bodies)>>, {}, 0, F, 0)
    BY <1>6, RunsAlignBlock, RunsConcat
<1>12. Runs(r, StreamedAlignBlock(r) \o <<ParallelFor(bodies)>> \o FlattenSeq(waits), {}, 0, {}, 0)
    BY <1>8, <1>11, RunsConcat
<1>13. Runs(r, StreamedAlignBlock(r) \o <<ParallelFor(bodies)>> \o FlattenSeq(waits) \o selects,
            {}, 0, {}, NQ(r))
    BY <1>9, <1>12, RunsConcat
<1> QED BY <1>3, <1>10, <1>13, RunsConcat

-----------------------------------------------------------------------------
(* The inductive invariant *)

\* Every build runs from nothing in flight and no list, with a list per query at most.
LEMMA ProgramRuns ==
    ASSUME NEW r \in Inputs, Roomy(r)
    PROVE  \E G, d : d <= NQ(r) /\ Runs(r, Program(r), {}, 0, G, d)
<1>1. NQ(r) \in Nat /\ 0 <= NQ(r) /\ NQ(r) <= NQ(r)
    BY Sizes
<1>2. Runs(r, <<>>, {}, 0, {}, 0)
    BY NothingInFlight, RunsNothing
<1>3. CASE r.build \in {"pinned_memory", "pinned_map_memory"}
    <2>1. Program(r) = PinnedMemory(r)
        BY <1>3 DEF Program
    <2> QED BY <1>1, <2>1, RunsPinnedMemory
<1>4. CASE r.build = "hashtable"
    <2>1. Program(r) = HashTable(r)
        BY <1>4 DEF Program
    <2> QED BY <1>1, <2>1, RunsHashTable
<1>5. CASE r.build = "query_stream"
    <2>1. Program(r) = IF r.overlap THEN QueryStream(r) ELSE <<>>
        BY <1>5 DEF Program
    <2> QED BY <1>1, <1>2, <1>5, <2>1, RunsQueryStream DEF StreamPerQuery
<1>6. CASE r.build = "doc_stream"
    <2>1. Program(r) = IF r.overlap THEN DocStream(r) ELSE <<>>
        BY <1>6 DEF Program
    <2> QED BY <1>1, <1>2, <1>6, <2>1, RunsDocStream
<1>7. CASE r.build = "align_locality"
    <2>1. Program(r) = AlignLocality(r)
        BY <1>7 DEF Program
    <2> QED BY <1>1, <2>1, RunsAlignLocality
<1>8. CASE r.build = "raft_selectk"
    <2>1. Program(r) = RaftSelectk(r)
        BY <1>8 DEF Program
    <2> QED BY <1>1, <2>1, RunsRaftSelectk
<1>9. CASE r.build = "align_query_stream_raft"
    <2>1. Program(r) = AlignQueryStreamRaft(r)
        BY <1>9 DEF Program
    <2> QED BY <1>1, <1>9, <2>1, RunsAlignQueryStreamRaft DEF StreamPerQuery
<1>10. r.build \in {"pinned_memory", "pinned_map_memory", "hashtable", "query_stream",
                    "doc_stream", "align_locality", "raft_selectk", "align_query_stream_raft"}
    BY BuildsAssumption
<1> QED BY <1>3, <1>4, <1>5, <1>6, <1>7, <1>8, <1>9, <1>10

\* Lists are only added.
LEMMA DoneGrows ==
    ASSUME NEW r, NEW P, IsProgram(P), NEW Z, Outline(r, P, Z), NEW k \in 1..(Len(P) + 1)
    PROVE  Z[k].done <= Z[Len(P) + 1].done
<1> DEFINE l == Len(P)
           Wrong == {j \in 0..l : ~(Z[l + 1 - j].done <= Z[l + 1].done)}
<1>1. l \in Nat
    BY ProgramIs
<1>2. /\ \A i \in 1..(l + 1) : Z[i].done \in Nat
      /\ \A i \in 1..l : Z[i].done <= Z[i + 1].done
    <2>1. \A i \in 1..(l + 1) : Z[i].done \in Nat
        BY DEF Outline
    <2>2. ASSUME NEW i \in 1..l PROVE Z[i].done <= Z[i + 1].done
        <3>1. Z[i + 1].done = Z[i].done + Selects(P[i])
            BY DEF Outline
        <3>2. Z[i].done \in Nat /\ Selects(P[i]) \in Nat
            BY <1>1, <2>1 DEF Selects
        <3> QED BY <3>1, <3>2
    <2> QED BY <2>1, <2>2
<1> HIDE DEF l
<1>3. Wrong = {}
    <2> SUFFICES ASSUME Wrong # {} PROVE FALSE
        OBVIOUS
    <2>1. Wrong \in SUBSET Nat
        OBVIOUS
    <2>2. PICK i \in Wrong : \A j \in Wrong : i <= j
        BY <2>1, Smallest
    <2>3. i # 0
        <3>1. l + 1 - 0 = l + 1 /\ l + 1 \in 1..(l + 1)
            BY <1>1
        <3> QED BY <1>2, <2>2, <3>1
    <2>4. i - 1 \in 0..l /\ i - 1 \notin Wrong
        <3>1. i \in 0..l /\ i - 1 \in 0..l /\ ~(i <= i - 1)
            BY <1>1, <2>2, <2>3
        <3> QED BY <2>2, <3>1
    <2>5. Z[l + 1 - (i - 1)].done <= Z[l + 1].done
        BY <2>4
    <2>6. /\ l + 1 - i \in 1..l /\ l + 1 - (i - 1) = (l + 1 - i) + 1
          /\ l + 1 - i \in 1..(l + 1) /\ l + 1 - (i - 1) \in 1..(l + 1) /\ l + 1 \in 1..(l + 1)
        BY <1>1, <2>2, <2>3
    <2>7. Z[l + 1 - i].done <= Z[l + 1].done
        <3> DEFINE b == l + 1 - i
                   e == Z[l + 1].done
        <3>1. Z[b].done <= Z[b + 1].done /\ Z[b + 1].done <= e
            BY <1>2, <2>5, <2>6
        <3>2. Z[b].done \in Nat /\ Z[b + 1].done \in Nat /\ e \in Nat
            BY <1>2, <2>6
        <3> HIDE DEF b, e
        <3>3. Z[b].done <= e
            BY <3>1, <3>2
        <3> QED BY <3>3 DEF b, e
    <2> QED BY <2>2, <2>7
<1>4. l + 1 - k \in 0..l /\ l + 1 - (l + 1 - k) = k
    BY <1>1 DEF l
<1>5. Z[l + 1 - (l + 1 - k)].done <= Z[l + 1].done
    BY <1>3, <1>4
<1> QED BY <1>4, <1>5 DEF l

\* An outline of the program of r, with a list per query at most.
Outlines(r, Z) ==
    /\ IsProgram(Program(r))
    /\ Outline(r, Program(r), Z)
    /\ Z[Len(Program(r)) + 1].done <= NQ(r)

\* The operations of stream s.
Flying(F, s) == {x[2] : x \in {y \in F : y[1] = s}}

\* The outline is true of the state.
Placed(Z) ==
    /\ Len(lists) = Z[at].done
    /\ \A s \in Streams : queue[s] \in Seq(Flying(Z[at].flight, s))

IInv ==
    /\ in \in Inputs
    /\ DOMAIN mem = DOMAIN Arrays(in)
    /\ \A a \in DOMAIN mem : DOMAIN mem[a] = Span(0, Arrays(in)[a])
    /\ at \in 1..(Len(Program(in)) + 1)
    /\ issued \in [Streams -> Nat]
    /\ DOMAIN queue = Streams
    /\ lists \in Seq(Range(lists))
    /\ \A q \in DOMAIN lists : Len(lists[q]) <= TOPK
    /\ \E Z : Outlines(in, Z) /\ Placed(Z)

LEMMA InitIInv ==
    ASSUME \A r \in Inputs : Roomy(r), Init
    PROVE  IInv
<1>1. in \in Inputs /\ Roomy(in)
    BY DEF Init
<1>2. PICK G, d : d <= NQ(in) /\ Runs(in, Program(in), {}, 0, G, d)
    BY <1>1, ProgramRuns
<1>3. PICK Z : /\ Outline(in, Program(in), Z) /\ Z[1].done = 0
               /\ Z[Len(Program(in)) + 1].done = d
    BY <1>2 DEF Runs
<1>4. Outlines(in, Z)
    BY <1>2, <1>3 DEF Outlines, Runs
<1>5. Placed(Z)
    BY <1>3 DEF Placed, Init
<1>6. DOMAIN mem = DOMAIN Arrays(in) /\ \A a \in DOMAIN mem : DOMAIN mem[a] = Span(0, Arrays(in)[a])
    BY DEF Init, Memory
<1>7. at \in 1..(Len(Program(in)) + 1)
    <2>1. Len(Program(in)) \in Nat
        BY <1>4, ProgramIs DEF Outlines
    <2> QED BY <2>1 DEF Init
<1>8. lists \in Seq(Range(lists)) /\ \A q \in DOMAIN lists : Len(lists[q]) <= TOPK
    BY DEF Init, Range
<1>9. issued \in [Streams -> Nat] /\ DOMAIN queue = Streams
    BY DEF Init
<1> QED BY <1>1, <1>4, <1>5, <1>6, <1>7, <1>8, <1>9 DEF IInv

\* The statement the host is at, and what the outline says of it.
LEMMA AtStatement ==
    ASSUME IInv, ~Over, NEW Z, Outlines(in, Z)
    PROVE  /\ at \in 1..Len(Program(in)) /\ at + 1 \in 1..(Len(Program(in)) + 1)
           /\ Good(in, Statement, Z[at].flight) /\ Sound(in, Z[at].flight)
           /\ After(Statement, Z[at].flight) \subseteq Z[at + 1].flight
           /\ Z[at + 1].done = Z[at].done + Selects(Statement)
           /\ Z[at].done \in Nat
<1>1. Programs[in] = Program(in)
    BY DEF IInv, Programs
<1>2. Len(Program(in)) \in Nat
    BY ProgramIs DEF Outlines
<1>3. /\ at \in 1..Len(Program(in)) /\ at + 1 \in 1..(Len(Program(in)) + 1)
      /\ at \in 1..(Len(Program(in)) + 1)
    BY <1>1, <1>2 DEF IInv, Over
<1> QED BY <1>1, <1>3 DEF Outlines, Outline, Statement

\* What stays true when the host goes on and only some of these change.
LEMMA StepKeeps ==
    ASSUME IInv, in' = in, DOMAIN mem' = DOMAIN mem,
           \A a \in DOMAIN mem : DOMAIN mem'[a] = DOMAIN mem[a],
           at' \in 1..(Len(Program(in)) + 1), issued' \in [Streams -> Nat],
           DOMAIN queue' = Streams, lists' \in Seq(Range(lists')),
           \A q \in DOMAIN lists' : Len(lists'[q]) <= TOPK,
           NEW Z, Outlines(in, Z), Len(lists') = Z[at'].done,
           \A s \in Streams : queue'[s] \in Seq(Flying(Z[at'].flight, s))
    PROVE  IInv'
<1>1. Outlines(in', Z)
    OBVIOUS
<1>2. Placed(Z)'
    BY DEF Placed
<1> QED BY <1>1, <1>2 DEF IInv

\* An operation that fits leaves every array its size.
LEMMA RunKeepsSizes ==
    ASSUME IInv, NEW op, Fits(in, op), Run(op)
    PROVE  DOMAIN mem' = DOMAIN mem /\ \A a \in DOMAIN mem : DOMAIN mem'[a] = DOMAIN mem[a]
<1>0. PICK junk \in OnShm(op) :
         mem' = [mem EXCEPT ![op.dst] =
                    [o \in DOMAIN Effect(op, mem, junk) \cup DOMAIN @ |->
                        IF o \in DOMAIN Effect(op, mem, junk)
                        THEN Effect(op, mem, junk)[o] ELSE @[o]]]
    BY DEF Run
<1> DEFINE part == Effect(op, mem, junk)
           old == mem[op.dst]
           new == [o \in DOMAIN part \cup DOMAIN old |-> IF o \in DOMAIN part THEN part[o] ELSE old[o]]
           size == Arrays(in)[op.dst]
<1>1. mem' = [mem EXCEPT ![op.dst] = new]
    BY <1>0
<1>2. op.dst \in DOMAIN mem /\ DOMAIN old = Span(0, size)
    BY DEF IInv, Fits
<1>3. DOMAIN part \subseteq Span(0, size)
    <2>1. {op.dst} \X DOMAIN part \subseteq Writes(op)
        BY EffectWithinWrites DEF Fits
    <2>2. Writes(op) \subseteq Cells(op.dst, 0, size)
        BY DEF Fits
    <2> HIDE DEF part, size
    <2>3. ASSUME NEW o \in DOMAIN part PROVE o \in Span(0, size)
        <3>1. <<op.dst, o>> \in Cells(op.dst, 0, size)
            BY <2>1, <2>2
        <3> QED BY <3>1 DEF Cells
    <2> QED BY <2>3
<1>4. DOMAIN new = DOMAIN old
    BY <1>2, <1>3
<1> HIDE DEF new
<1> QED BY <1>1, <1>2, <1>4

\* The oldest operation of a stream is one of those the outline has in flight.
LEMMA HeadFlies ==
    ASSUME NEW F, NEW s, NEW ops \in Seq(Flying(F, s)), ops # <<>>
    PROVE  \E x \in F : x[1] = s /\ x[2] = Head(ops)
<1>1. Head(ops) \in Flying(F, s)
    BY HeadTailProperties
<1> QED BY <1>1 DEF Flying

LEMMA FliesOn ==
    ASSUME NEW F, NEW G, NEW s, {x \in F : x[1] = s} \subseteq G, NEW ops \in Seq(Flying(F, s))
    PROVE  ops \in Seq(Flying(G, s))
<1>1. Flying(F, s) \subseteq Flying(G, s)
    BY DEF Flying
<1> QED BY <1>1, SeqMonotonic

LEMMA HostOpKeeps ==
    ASSUME IInv, HostOp
    PROVE  IInv'
<1>1. PICK Z : Outlines(in, Z) /\ Placed(Z)
    BY DEF IInv
<1>2. ~Over /\ Statement.do = "host"
    BY DEF HostOp, Now, Statement
<1>3. /\ at + 1 \in 1..(Len(Program(in)) + 1) /\ Good(in, Statement, Z[at].flight)
      /\ After(Statement, Z[at].flight) \subseteq Z[at + 1].flight
      /\ Z[at + 1].done = Z[at].done + Selects(Statement) /\ Z[at].done \in Nat
    BY <1>1, <1>2, AtStatement
<1>4. Fits(in, Statement.op)
    BY <1>2, <1>3 DEF Good, HostSound
<1>5. Run(Statement.op) /\ at' = at + 1 /\ UNCHANGED <<queue, in, issued, lists, returned>>
    BY DEF HostOp
<1>6. DOMAIN mem' = DOMAIN mem /\ \A a \in DOMAIN mem : DOMAIN mem'[a] = DOMAIN mem[a]
    BY <1>4, <1>5, RunKeepsSizes
<1>7. Z[at].flight \subseteq Z[at + 1].flight /\ Z[at + 1].done = Z[at].done
    BY <1>2, <1>3 DEF After, Selects
<1>8. \A s \in Streams : queue[s] \in Seq(Flying(Z[at + 1].flight, s))
    BY <1>1, <1>7, FliesOn DEF Placed
<1>9. Len(lists) = Z[at + 1].done
    BY <1>1, <1>7 DEF Placed
<1> QED BY <1>1, <1>3, <1>5, <1>6, <1>8, <1>9, StepKeeps DEF IInv

\* op goes to the end of stream s.
LEMMA IssueKeeps ==
    ASSUME IInv, NEW s \in Streams, NEW op, Issue(s, op), NEW F, <<s, op>> \in F,
           \A t \in Streams : queue[t] \in Seq(Flying(F, t))
    PROVE  DOMAIN queue' = Streams /\ \A t \in Streams : queue'[t] \in Seq(Flying(F, t))
<1>1. op \in Flying(F, s)
    <2>1. <<s, op>> \in {y \in F : y[1] = s}
        OBVIOUS
    <2> QED BY <2>1 DEF Flying
<1>2. DOMAIN queue = Streams /\ queue' = [queue EXCEPT ![s] = Append(@, op)]
    BY DEF IInv, Issue
<1>3. Append(queue[s], op) \in Seq(Flying(F, s))
    BY <1>1, AppendProperties
<1> QED BY <1>2, <1>3

LEMMA IssueOpKeeps ==
    ASSUME IInv, IssueOp
    PROVE  IInv'
<1>1. PICK Z : Outlines(in, Z) /\ Placed(Z)
    BY DEF IInv
<1>2. ~Over /\ Statement.do = "issue"
    BY DEF IssueOp, Now, Statement
<1>3. /\ at + 1 \in 1..(Len(Program(in)) + 1) /\ Good(in, Statement, Z[at].flight)
      /\ After(Statement, Z[at].flight) \subseteq Z[at + 1].flight /\ Sound(in, Z[at].flight)
      /\ Z[at + 1].done = Z[at].done + Selects(Statement) /\ Z[at].done \in Nat
    BY <1>1, <1>2, AtStatement
<1>4. <<Statement.s, Statement.op>> \in Z[at].flight
    BY <1>2, <1>3 DEF Good
<1>5. Statement.s \in Streams
    BY <1>3, <1>4 DEF Sound
<1>6. /\ Issue(Statement.s, Statement.op) /\ at' = at + 1
      /\ UNCHANGED <<mem, in, issued, lists, returned>>
    BY DEF IssueOp
<1>7. Z[at].flight \subseteq Z[at + 1].flight /\ Z[at + 1].done = Z[at].done
    BY <1>2, <1>3 DEF After, Selects
<1>8. \A s \in Streams : queue[s] \in Seq(Flying(Z[at + 1].flight, s))
    BY <1>1, <1>7, FliesOn DEF Placed
<1>9. DOMAIN queue' = Streams /\ \A s \in Streams : queue'[s] \in Seq(Flying(Z[at + 1].flight, s))
    BY <1>4, <1>5, <1>6, <1>7, <1>8, IssueKeeps
<1>10. Len(lists) = Z[at + 1].done
    BY <1>1, <1>7 DEF Placed
<1> QED BY <1>1, <1>3, <1>6, <1>9, <1>10, StepKeeps DEF IInv

LEMMA SyncKeeps ==
    ASSUME IInv, SyncReturns
    PROVE  IInv'
<1>1. PICK Z : Outlines(in, Z) /\ Placed(Z)
    BY DEF IInv
<1>2. ~Over /\ Statement.do = "sync"
    BY DEF SyncReturns, Now, Statement
<1>3. /\ at + 1 \in 1..(Len(Program(in)) + 1)
      /\ After(Statement, Z[at].flight) \subseteq Z[at + 1].flight
      /\ Z[at + 1].done = Z[at].done + Selects(Statement) /\ Z[at].done \in Nat
    BY <1>1, <1>2, AtStatement
<1>4. /\ Idle(Statement.ss) /\ at' = at + 1
      /\ UNCHANGED <<mem, queue, in, issued, lists, returned>>
    BY DEF SyncReturns
<1>5. ASSUME NEW s \in Streams PROVE queue[s] \in Seq(Flying(Z[at + 1].flight, s))
    <2>1. CASE s \in Statement.ss
        <3>1. queue[s] = <<>>
            BY <1>4, <2>1 DEF Idle
        <3> QED BY <3>1
    <2>2. CASE s \notin Statement.ss
        <3>1. {x \in Z[at].flight : x[1] = s} \subseteq Z[at + 1].flight
            BY <1>2, <1>3, <2>2 DEF After
        <3> QED BY <1>1, <3>1, FliesOn DEF Placed
    <2> QED BY <2>1, <2>2
<1>6. Len(lists) = Z[at + 1].done
    BY <1>1, <1>2, <1>3 DEF Placed, Selects
<1> QED BY <1>1, <1>3, <1>4, <1>5, <1>6, StepKeeps DEF IInv

LEMMA ParallelKeeps ==
    ASSUME IInv, (\E q \in Streams : ParallelIssue(q)) \/ ParallelJoin
    PROVE  IInv'
<1>1. PICK Z : Outlines(in, Z) /\ Placed(Z)
    BY DEF IInv
<1>2. ~Over /\ Statement.do = "parallel"
    BY DEF ParallelIssue, ParallelJoin, Now, Statement
<1>3. /\ at + 1 \in 1..(Len(Program(in)) + 1) /\ Good(in, Statement, Z[at].flight)
      /\ After(Statement, Z[at].flight) \subseteq Z[at + 1].flight /\ Sound(in, Z[at].flight)
      /\ Z[at + 1].done = Z[at].done + Selects(Statement) /\ Z[at].done \in Nat
    BY <1>1, <1>2, AtStatement
<1>4. ASSUME NEW q \in Streams, ParallelIssue(q) PROVE IInv'
    <2> DEFINE op == Statement.bodies[q][issued[q] + 1]
    <2>1. /\ q \in DOMAIN Statement.bodies /\ issued[q] < Len(Statement.bodies[q])
          /\ Issue(q, op) /\ issued' = [issued EXCEPT ![q] = @ + 1]
          /\ UNCHANGED <<mem, in, at, lists, returned>>
        BY <1>4 DEF ParallelIssue
    <2>2. ParallelSound(Statement.bodies, Z[at].flight)
        BY <1>2, <1>3 DEF Good
    <2>3. <<q, op>> \in Z[at].flight /\ issued[q] \in Nat
        <3>1. Len(Statement.bodies[q]) \in Nat /\ issued[q] \in Nat
            BY <2>1, <2>2 DEF ParallelSound, IInv
        <3>2. issued[q] + 1 \in 1..Len(Statement.bodies[q])
            BY <2>1, <3>1
        <3> QED BY <2>1, <2>2, <3>1, <3>2 DEF ParallelSound
    <2> HIDE DEF op
    <2>4. DOMAIN queue' = Streams /\ \A s \in Streams : queue'[s] \in Seq(Flying(Z[at].flight, s))
        BY <1>1, <2>1, <2>3, IssueKeeps DEF Placed
    <2>5. issued' \in [Streams -> Nat]
        BY <2>1, <2>3 DEF IInv
    <2>6. Len(lists) = Z[at].done
        BY <1>1 DEF Placed
    <2> QED BY <1>1, <2>1, <2>4, <2>5, <2>6, StepKeeps DEF IInv
<1>5. ASSUME ParallelJoin PROVE IInv'
    <2>1. /\ issued' = [s \in Streams |-> 0] /\ at' = at + 1
          /\ UNCHANGED <<mem, queue, in, lists, returned>>
        BY <1>5 DEF ParallelJoin
    <2>2. issued' \in [Streams -> Nat]
        BY <2>1
    <2>3. Z[at].flight \subseteq Z[at + 1].flight /\ Z[at + 1].done = Z[at].done
        BY <1>2, <1>3 DEF After, Selects
    <2>4. \A s \in Streams : queue[s] \in Seq(Flying(Z[at + 1].flight, s))
        BY <1>1, <2>3, FliesOn DEF Placed
    <2>5. Len(lists) = Z[at + 1].done
        BY <1>1, <2>3 DEF Placed
    <2> QED BY <1>1, <1>3, <2>1, <2>2, <2>4, <2>5, StepKeeps DEF IInv
<1> QED BY <1>4, <1>5

\* However the lists to choose from come about, K entries are kept.
LEMMA KeptLength ==
    ASSUME IInv, NEW list
    PROVE  Len(PartialSort(list, K)) <= TOPK
<1>1. K \in Nat /\ K <= TOPK
    <2>1. N(in) \in Nat
        BY Sizes DEF IInv
    <2>2. TOPK \in Nat
        BY BuildsAssumption
    <2> QED BY <2>1, <2>2 DEF K, MinOf
<1> HIDE DEF K
<1>2. PartialSort(list, K)
        = [p \in 1..K |-> list[CHOOSE n \in 1..Len(list) : Rank(list, n) = p]]
    BY DEF PartialSort
<1>3. K \in Nat
    BY <1>1
<1>4. DOMAIN PartialSort(list, K) = 1..K
    BY <1>2
<1>5. Len(PartialSort(list, K)) = K
    BY ONLY <1>2, <1>3, <1>4
<1> QED BY <1>1, <1>5

LEMMA SelectKeeps ==
    ASSUME IInv, SelectTopk \/ SelectTwiceTopk
    PROVE  IInv'
<1>1. PICK Z : Outlines(in, Z) /\ Placed(Z)
    BY DEF IInv
<1>2. ~Over /\ Statement.do \in {"select", "select_twice"}
    BY DEF SelectTopk, SelectTwiceTopk, Now, Statement
<1>3. /\ at + 1 \in 1..(Len(Program(in)) + 1)
      /\ After(Statement, Z[at].flight) \subseteq Z[at + 1].flight
      /\ Z[at + 1].done = Z[at].done + Selects(Statement) /\ Z[at].done \in Nat
    BY <1>1, <1>2, AtStatement
<1>4. PICK list : lists' = Append(lists, PartialSort(list, K))
    BY DEF SelectTopk, SelectTwiceTopk
<1>5. at' = at + 1 /\ UNCHANGED <<mem, queue, in, issued, returned>>
    BY DEF SelectTopk, SelectTwiceTopk
<1> DEFINE kept == PartialSort(list, K)
<1>6. Len(kept) <= TOPK
    BY KeptLength
<1> HIDE DEF kept
<1>7. Z[at].flight \subseteq Z[at + 1].flight /\ Z[at + 1].done = Z[at].done + 1
    BY <1>2, <1>3 DEF After, Selects
<1>8. \A s \in Streams : queue[s] \in Seq(Flying(Z[at + 1].flight, s))
    BY <1>1, <1>7, FliesOn DEF Placed
<1>9. lists \in Seq(Range(lists) \cup {kept}) /\ lists' = Append(lists, kept)
    BY <1>4, SeqMonotonic DEF IInv, kept
<1>10. /\ lists' \in Seq(Range(lists) \cup {kept}) /\ Len(lists') = Len(lists) + 1
       /\ \A q \in 1..Len(lists) : lists'[q] = lists[q]
       /\ lists'[Len(lists) + 1] = kept
    BY <1>9, AppendProperties
<1>11. lists' \in Seq(Range(lists'))
    BY <1>10, SeqOfRange
<1>12. \A q \in DOMAIN lists' : Len(lists'[q]) <= TOPK
    <2>1. Len(lists) \in Nat /\ DOMAIN lists = 1..Len(lists) /\ DOMAIN lists' = 1..(Len(lists) + 1)
        BY <1>9, <1>10, LenProperties
    <2> SUFFICES ASSUME NEW q \in DOMAIN lists' PROVE Len(lists'[q]) <= TOPK
        OBVIOUS
    <2>2. CASE q \in 1..Len(lists)
        BY <1>10, <2>1, <2>2 DEF IInv
    <2>3. CASE q = Len(lists) + 1
        BY <1>6, <1>10, <2>3
    <2> QED BY <2>1, <2>2, <2>3
<1>13. Len(lists') = Z[at + 1].done
    BY <1>1, <1>7, <1>10 DEF Placed
<1>14. issued' \in [Streams -> Nat] /\ DOMAIN queue' = Streams
    BY <1>5 DEF IInv
<1> QED BY <1>1, <1>3, <1>5, <1>8, <1>11, <1>12, <1>13, <1>14, StepKeeps

LEMMA RetireKeeps ==
    ASSUME IInv, NEW s \in Streams, DeviceStep(s)
    PROVE  IInv'
<1>1. PICK Z : Outlines(in, Z) /\ Placed(Z)
    BY DEF IInv
<1>2. /\ queue[s] # <<>> /\ Run(Head(queue[s])) /\ queue' = [queue EXCEPT ![s] = Tail(@)]
      /\ UNCHANGED <<in, at, issued, lists, returned>>
    BY DEF DeviceStep, Retire
<1>3. at \in 1..(Len(Program(in)) + 1) /\ DOMAIN queue = Streams
    BY DEF IInv
<1>4. Sound(in, Z[at].flight)
    BY <1>1, <1>3 DEF Outlines, Outline
<1>5. Fits(in, Head(queue[s]))
    <2>1. queue[s] \in Seq(Flying(Z[at].flight, s))
        BY <1>1 DEF Placed
    <2>2. PICK x \in Z[at].flight : x[1] = s /\ x[2] = Head(queue[s])
        BY <1>2, <2>1, HeadFlies
    <2> QED BY <1>4, <2>2 DEF Sound
<1>6. DOMAIN mem' = DOMAIN mem /\ \A a \in DOMAIN mem : DOMAIN mem'[a] = DOMAIN mem[a]
    BY <1>2, <1>5, RunKeepsSizes
<1>7. \A t \in Streams : queue'[t] \in Seq(Flying(Z[at].flight, t))
    <2>1. Tail(queue[s]) \in Seq(Flying(Z[at].flight, s))
        BY <1>1, <1>2, HeadTailProperties DEF Placed
    <2> QED BY <1>1, <1>2, <1>3, <2>1 DEF Placed
<1>8. DOMAIN queue' = Streams
    BY <1>2, <1>3
<1>9. Len(lists) = Z[at].done
    BY <1>1 DEF Placed
<1> QED BY <1>1, <1>2, <1>3, <1>6, <1>7, <1>8, <1>9, StepKeeps DEF IInv

LEMMA NextIInv ==
    ASSUME IInv, [Next]_vars
    PROVE  IInv'
<1>1. ASSUME UNCHANGED vars PROVE IInv'
    BY <1>1 DEF IInv, Placed, vars
<1>2. ASSUME Return PROVE IInv'
    BY <1>2 DEF IInv, Placed, Return
<1>3. ASSUME HostStep PROVE IInv'
    BY <1>2, <1>3, HostOpKeeps, IssueOpKeeps, SyncKeeps, ParallelKeeps, SelectKeeps DEF HostStep
<1>4. ASSUME NEW s \in Streams, DeviceStep(s) PROVE IInv'
    BY <1>4, RetireKeeps
<1> QED BY <1>1, <1>3, <1>4 DEF Next, Done

-----------------------------------------------------------------------------
(* The theorems *)

\* No operation of a build writes outside its array, no query keeps more than TOPK
\* entries and no build makes more lists than there are queries, if no query is
\* longer than the device's room for it.
THEOREM TypeCorrect ==
    ASSUME \A r \in Inputs : Roomy(r)
    PROVE  Spec => []TypeOK
<1>1. Init => IInv
    BY InitIInv
<1>2. IInv /\ [Next]_vars => IInv'
    BY NextIInv
<1>3. IInv => TypeOK
    <2> SUFFICES ASSUME IInv PROVE TypeOK
        OBVIOUS
    <2>1. PICK Z : Outlines(in, Z) /\ Placed(Z)
        BY DEF IInv
    <2>2. Programs[in] = Program(in)
        BY DEF IInv, Programs
    <2>3. Z[at].done <= Z[Len(Program(in)) + 1].done
        BY <2>1, DoneGrows DEF Outlines, IInv
    <2>4. Len(lists) <= NQ(in)
        <3>1. Len(Program(in)) + 1 \in 1..(Len(Program(in)) + 1)
            BY <2>1, ProgramIs DEF Outlines
        <3>2. Z[at].done \in Nat /\ Z[Len(Program(in)) + 1].done \in Nat /\ NQ(in) \in Nat
            BY <2>1, <3>1, Sizes DEF Outlines, Outline, IInv
        <3>3. Len(lists) = Z[at].done /\ Z[Len(Program(in)) + 1].done <= NQ(in)
            BY <2>1 DEF Placed, Outlines
        <3> DEFINE m == Z[at].done
                   n == Z[Len(Program(in)) + 1].done
        <3>4. m \in Nat /\ n \in Nat /\ m <= n /\ n <= NQ(in) /\ Len(lists) = m
            BY <2>3, <3>2, <3>3
        <3> HIDE DEF m, n
        <3> QED BY <3>2, <3>4
    <2> QED BY <2>2, <2>4 DEF IInv, TypeOK
<1> QED BY <1>1, <1>2, <1>3, PTL DEF Spec

\* Nothing races in any build: not two streams, nor the host and a stream.  The
\* document stream build is covered where the copy of a query is over when it
\* returns; see Quiet.
THEOREM NoRace ==
    ASSUME \A r \in Inputs : Roomy(r) /\ Quiet(r)
    PROVE  Spec => []RaceFree
<1>1. Init => IInv
    BY InitIInv
<1>2. IInv /\ [Next]_vars => IInv'
    BY NextIInv
<1>3. IInv => RaceFree
    <2> SUFFICES ASSUME IInv, NEW s \in Streams, queue[s] # <<>>
                 PROVE  LET op == Head(queue[s])
                        IN  /\ HostWrites \cap (Reads(op) \cup Writes(op)) = {}
                            /\ HostReads \cap Writes(op) = {}
                            /\ \A t \in Streams \ {s} :
                                  queue[t] # <<>> => ~Conflict(op, Head(queue[t]))
        BY DEF RaceFree
    <2> DEFINE op == Head(queue[s])
    <2>1. PICK Z : Outlines(in, Z) /\ Placed(Z)
        BY DEF IInv
    <2> DEFINE F == Z[at].flight
    <2>2. Sound(in, F) /\ Quiet(in)
        BY <2>1 DEF IInv, Outlines, Outline
    <2>3. ASSUME NEW t \in Streams, queue[t] # <<>>
          PROVE  \E x \in F : x[1] = t /\ x[2] = Head(queue[t])
        <3>1. queue[t] \in Seq(Flying(F, t))
            BY <2>1 DEF Placed
        <3> HIDE DEF F
        <3> QED BY <2>3, <3>1, HeadFlies
    <2>4. PICK x \in F : x[1] = s /\ x[2] = op
        BY <2>3
    <2>5. ~Over => Good(in, Statement, F)
        BY <2>1, AtStatement
    <2> HIDE DEF F, op
    <2>6. \A t \in Streams \ {s} : queue[t] # <<>> => ~Conflict(op, Head(queue[t]))
        BY <2>2, <2>3, <2>4 DEF Sound
    <2>7. CASE Now("host")
        <3>1. ~Conflict(Statement.op, op)
            BY <2>2, <2>4, <2>5, <2>7 DEF Good, HostSound, Now, Statement
        <3>2. HostWrites = Writes(Statement.op) /\ HostReads = Reads(Statement.op)
            <4>1. ~Now("select") /\ ~Now("select_twice")
                BY <2>7 DEF Now
            <4> QED BY <2>7, <4>1 DEF HostWrites, HostReads
        <3> QED BY <2>6, <3>1, <3>2 DEF Conflict, op
    <2>8. CASE Now("select")
        <3>1. Cells("h_scores", Statement.from, N(in)) \cap Writes(op) = {}
            BY <2>2, <2>4, <2>5, <2>8 DEF Good, SelectSound, Now, Statement
        <3>2. HostWrites = {} /\ HostReads = Cells("h_scores", Statement.from, N(in))
            <4>1. ~Now("host") /\ ~Now("select_twice")
                BY <2>8 DEF Now
            <4> QED BY <2>8, <4>1 DEF HostWrites, HostReads
        <3> QED BY <2>6, <3>1, <3>2 DEF op
    <2>9. CASE Now("select_twice")
        <3>1. Cells("d_scores", Statement.from, N(in)) \cap Writes(op) = {}
            BY <2>2, <2>4, <2>5, <2>9 DEF Good, SelectSound, Now, Statement
        <3>2. HostWrites = {} /\ HostReads = Cells("d_scores", Statement.from, N(in))
            <4>1. ~Now("host") /\ ~Now("select")
                BY <2>9 DEF Now
            <4> QED BY <2>9, <4>1 DEF HostWrites, HostReads
        <3> QED BY <2>6, <3>1, <3>2 DEF op
    <2>10. CASE ~Now("host") /\ ~Now("select") /\ ~Now("select_twice")
        <3>1. HostWrites = {} /\ HostReads = {}
            BY <2>10 DEF HostWrites, HostReads
        <3> QED BY <2>6, <3>1 DEF op
    <2> QED BY <2>7, <2>8, <2>9, <2>10
<1> QED BY <1>1, <1>2, <1>3, PTL DEF Spec

=============================================================================
