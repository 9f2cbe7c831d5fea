---------------------------- MODULE IoPipelineProofs ----------------------------
(***************************************************************************)
(* Reading in chunks, for every file, every buffer a line fits, every      *)
(* number of chunks and of queries, and whatever the order in which the    *)
(* tasks of the pool run.                                                  *)
(***************************************************************************)
EXTENDS IoPipeline, ScoringProofs

-----------------------------------------------------------------------------
(* Sequences *)

\* Two sequences, one behind the other.
LEMMA ConcatIs ==
    ASSUME NEW S, NEW s \in Seq(S), NEW t \in Seq(S)
    PROVE  /\ s \o t \in Seq(S)
           /\ Len(s \o t) = Len(s) + Len(t)
           /\ \A n \in 1..Len(s) : (s \o t)[n] = s[n]
           /\ \A n \in 1..Len(t) : (s \o t)[Len(s) + n] = t[n]
<1> DEFINE all == s \o t
<1>1. Len(s) \in Nat /\ Len(t) \in Nat
    BY LenProperties
<1>2. /\ all \in Seq(S)
      /\ Len(all) = Len(s) + Len(t)
      /\ \A n \in 1..(Len(s) + Len(t)) : all[n] = IF n <= Len(s) THEN s[n] ELSE t[n - Len(s)]
    BY ConcatProperties
<1> HIDE DEF all
<1>3. \A n \in 1..Len(s) : all[n] = s[n]
    BY <1>1, <1>2
<1>4. ASSUME NEW n \in 1..Len(t) PROVE all[Len(s) + n] = t[n]
    <2>1. Len(s) + n \in 1..(Len(s) + Len(t)) /\ ~(Len(s) + n <= Len(s)) /\ Len(s) + n - Len(s) = n
        BY <1>1
    <2> QED BY <1>2, <2>1
<1> QED BY <1>2, <1>3, <1>4 DEF all

-----------------------------------------------------------------------------
(* Rows *)

\* The recursive function Rows is built from.
IsRows(text, n, f) ==
    f = [p \in 0..n |->
            IF p = 0 THEN <<>>
            ELSE IF p = 1 \/ text[p - 1] = NL THEN Append(f[p - 1], <<text[p]>>)
            ELSE AddTo(f[p - 1], text[p])]

LEMMA RowsExist ==
    ASSUME NEW text, NEW n \in Nat
    PROVE  \E f : IsRows(text, n, f)
<1> DEFINE Without == {m \in Nat : ~\E f : IsRows(text, m, f)}
<1> SUFFICES ASSUME Without # {} PROVE FALSE
    OBVIOUS
<1>1. PICK m \in Without : \A k \in Without : m <= k
    BY Smallest
<1>2. CASE m = 0
    <2> DEFINE g == [p \in 0..0 |-> <<>>]
    <2>1. g = [p \in 0..0 |->
                 IF p = 0 THEN <<>>
                 ELSE IF p = 1 \/ text[p - 1] = NL THEN Append(g[p - 1], <<text[p]>>)
                 ELSE AddTo(g[p - 1], text[p])]
        OBVIOUS
    <2> QED BY <1>1, <1>2, <2>1 DEF IsRows
<1>3. CASE m # 0
    <2>1. m \in Nat /\ m - 1 \in Nat /\ m - 1 \notin Without
        BY <1>1, <1>3
    <2>2. PICK f : IsRows(text, m - 1, f)
        BY <2>1
    <2> DEFINE g == [p \in 0..m |->
                       IF p = m THEN (IF p = 1 \/ text[p - 1] = NL THEN Append(f[p - 1], <<text[p]>>)
                                      ELSE AddTo(f[p - 1], text[p]))
                       ELSE f[p]]
    <2>3. \A p \in 0..(m - 1) :
             f[p] = IF p = 0 THEN <<>>
                    ELSE IF p = 1 \/ text[p - 1] = NL THEN Append(f[p - 1], <<text[p]>>)
                    ELSE AddTo(f[p - 1], text[p])
        BY <2>2 DEF IsRows
    <2>4. \A p \in 0..m :
             g[p] = IF p = 0 THEN <<>>
                    ELSE IF p = 1 \/ text[p - 1] = NL THEN Append(g[p - 1], <<text[p]>>)
                    ELSE AddTo(g[p - 1], text[p])
        BY <1>3, <2>1, <2>3
    <2>5. g = [p \in 0..m |->
                 IF p = 0 THEN <<>>
                 ELSE IF p = 1 \/ text[p - 1] = NL THEN Append(g[p - 1], <<text[p]>>)
                 ELSE AddTo(g[p - 1], text[p])]
        BY <2>4
    <2> QED BY <1>1, <2>5 DEF IsRows
<1> QED BY <1>2, <1>3

\* What Rows computes: its rows after each character.
LEMMA RowsIs ==
    ASSUME NEW text \in Seq(Nat)
    PROVE  \E f : /\ Rows(text) = f[Len(text)]
                  /\ f[0] = <<>>
                  /\ \A p \in 1..Len(text) :
                        f[p] = IF p = 1 \/ text[p - 1] = NL THEN Append(f[p - 1], <<text[p]>>)
                               ELSE AddTo(f[p - 1], text[p])
<1>1. Len(text) \in Nat
    BY LenProperties
<1>2. Rows(text) = (CHOOSE f : IsRows(text, Len(text), f))[Len(text)]
    BY DEF Rows, IsRows
<1>3. PICK f : IsRows(text, Len(text), f) /\ Rows(text) = f[Len(text)]
    <2> DEFINE g == CHOOSE f : IsRows(text, Len(text), f)
    <2>1. \E f : IsRows(text, Len(text), f)
        BY <1>1, RowsExist
    <2>2. IsRows(text, Len(text), g)
        BY <2>1
    <2> QED BY <1>2, <2>2
<1>4. \A p \in 0..Len(text) :
         f[p] = IF p = 0 THEN <<>>
                ELSE IF p = 1 \/ text[p - 1] = NL THEN Append(f[p - 1], <<text[p]>>)
                ELSE AddTo(f[p - 1], text[p])
    BY <1>3 DEF IsRows
<1>5. /\ f[0] = <<>>
      /\ \A p \in 1..Len(text) :
            f[p] = IF p = 1 \/ text[p - 1] = NL THEN Append(f[p - 1], <<text[p]>>)
                   ELSE AddTo(f[p - 1], text[p])
    <2>1. 0 \in 0..Len(text) /\ \A p \in 1..Len(text) : p \in 0..Len(text) /\ p # 0
        BY <1>1
    <2> QED BY <1>4, <2>1
<1> QED BY <1>3, <1>5

\* One character more in the last row.
LEMMA AddToIs ==
    ASSUME NEW rows \in Seq(Seq(Nat)), rows # <<>>, NEW c \in Nat
    PROVE  /\ AddTo(rows, c) \in Seq(Seq(Nat))
           /\ AddTo(rows, c) # <<>>
           /\ Len(AddTo(rows, c)) = Len(rows)
           /\ \A n \in 1..Len(rows) :
                 AddTo(rows, c)[n] = IF n = Len(rows) THEN Append(rows[n], c) ELSE rows[n]
<1> DEFINE T == Seq(Nat)
           l == Len(rows)
           e == Append(rows[l], c)
           more == [rows EXCEPT ![l] = e]
<1>1. l \in Nat /\ l \in 1..Len(rows)
    BY EmptySeq, LenProperties
<1>2. rows[l] \in Seq(Nat)
    BY <1>1, ElementOfSeq
<1>3. e \in T
    BY <1>2, AppendProperties
<1>4. AddTo(rows, c) = more
    BY DEF AddTo
<1>5. /\ more \in Seq(T) /\ Len(more) = Len(rows)
      /\ \A n \in 1..Len(rows) : more[n] = IF n = l THEN e ELSE rows[n]
    <2>1. rows \in Seq(T)
        OBVIOUS
    <2> HIDE DEF e, T, l
    <2> QED BY <1>1, <1>3, <2>1, ExceptSeq
<1>6. more # <<>>
    <2>1. Len(more) # 0
        BY <1>1, <1>5
    <2> HIDE DEF more
    <2> QED BY <2>1, EmptySeq
<1> HIDE DEF more
<1> QED BY <1>4, <1>5, <1>6
\* After each character the rows hold characters, and after the first there is a row.
LEMMA RowsTyped ==
    ASSUME NEW text \in Seq(Nat), NEW f, f[0] = <<>>,
           \A p \in 1..Len(text) :
              f[p] = IF p = 1 \/ text[p - 1] = NL THEN Append(f[p - 1], <<text[p]>>)
                     ELSE AddTo(f[p - 1], text[p])
    PROVE  \A p \in 0..Len(text) : f[p] \in Seq(Seq(Nat)) /\ (p # 0 => f[p] # <<>>)
<1> DEFINE Good(p) == f[p] \in Seq(Seq(Nat)) /\ (p # 0 => f[p] # <<>>)
           Wrong == {p \in 0..Len(text) : ~Good(p)}
<1> SUFFICES ASSUME Wrong # {} PROVE FALSE
    OBVIOUS
<1>1. Len(text) \in Nat
    BY LenProperties
<1>2. PICK p \in Wrong : \A k \in Wrong : p <= k
    <2>1. Wrong \in SUBSET Nat
        BY <1>1
    <2> HIDE DEF Wrong
    <2> QED BY <2>1, Smallest
<1>3. p \in 0..Len(text) /\ ~Good(p)
    OBVIOUS
<1>4. p # 0
    <2>1. Good(0)
        BY EmptySeq
    <2> QED BY <1>3, <2>1
<1>5. PICK k \in Nat : k = p - 1 /\ p = k + 1 /\ k \in 0..Len(text) /\ ~(p <= k) /\ p \in 1..Len(text)
    BY <1>1, <1>3, <1>4
<1>6. Good(k)
    BY <1>2, <1>5
<1>7. text[p] \in Nat /\ <<text[p]>> \in Seq(Nat)
    BY <1>5, ElementOfSeq
<1>8. f[p] = IF p = 1 \/ text[k] = NL THEN Append(f[k], <<text[p]>>) ELSE AddTo(f[k], text[p])
    BY <1>5
<1>9. CASE p = 1 \/ text[k] = NL
    <2> DEFINE T == Seq(Nat)
               e == <<text[p]>>
    <2>1. f[k] \in Seq(T) /\ e \in T
        BY <1>6, <1>7
    <2>2. Append(f[k], e) \in Seq(T) /\ Append(f[k], e) # <<>>
        <3> HIDE DEF e, T
        <3> QED BY ONLY <2>1, AppendProperties
    <2>3. f[p] = Append(f[k], e)
        BY <1>8, <1>9
    <2> QED BY <1>3, <2>2, <2>3
<1>10. CASE ~(p = 1 \/ text[k] = NL)
    <2>1. f[k] # <<>>
        BY <1>5, <1>6, <1>10
    <2>2. AddTo(f[k], text[p]) \in Seq(Seq(Nat)) /\ AddTo(f[k], text[p]) # <<>>
        BY <1>6, <1>7, <2>1, AddToIs
    <2> QED BY <1>3, <1>8, <1>10, <2>2
<1> QED BY <1>9, <1>10

LEMMA RowsAreSeq ==
    ASSUME NEW text \in Seq(Nat)
    PROVE  Rows(text) \in Seq(Seq(Nat)) /\ (text # <<>> => Rows(text) # <<>>)
<1>1. PICK f : /\ Rows(text) = f[Len(text)]
               /\ f[0] = <<>>
               /\ \A p \in 1..Len(text) :
                     f[p] = IF p = 1 \/ text[p - 1] = NL THEN Append(f[p - 1], <<text[p]>>)
                            ELSE AddTo(f[p - 1], text[p])
    BY RowsIs
<1>2. \A p \in 0..Len(text) : f[p] \in Seq(Seq(Nat)) /\ (p # 0 => f[p] # <<>>)
    BY <1>1, RowsTyped
<1>3. Len(text) \in 0..Len(text) /\ (text # <<>> => Len(text) # 0)
    BY LenProperties, EmptySeq
<1> QED BY <1>1, <1>2, <1>3

\* The last element of the second of two sequences is the last of both.
LEMMA ExceptBehind ==
    ASSUME NEW T, NEW s \in Seq(T), NEW t \in Seq(T), t # <<>>, NEW e \in T
    PROVE  /\ s \o [t EXCEPT ![Len(t)] = e] = [s \o t EXCEPT ![Len(s \o t)] = e]
           /\ (s \o t)[Len(s \o t)] = t[Len(t)]
<1> DEFINE all == s \o t
           t2 == [t EXCEPT ![Len(t)] = e]
           left == s \o t2
           right == [all EXCEPT ![Len(all)] = e]
<1>1. Len(s) \in Nat /\ Len(t) \in Nat \ {0} /\ Len(t) \in 1..Len(t)
    BY LenProperties, EmptySeq
<1>2. /\ all \in Seq(T) /\ Len(all) = Len(s) + Len(t)
      /\ \A n \in 1..Len(s) : all[n] = s[n]
      /\ \A n \in 1..Len(t) : all[Len(s) + n] = t[n]
    BY ConcatIs
<1>3. /\ t2 \in Seq(T) /\ Len(t2) = Len(t)
      /\ \A n \in 1..Len(t) : t2[n] = IF n = Len(t) THEN e ELSE t[n]
    BY <1>1, ExceptSeq
<1> HIDE DEF all, t2
<1>4. /\ left \in Seq(T) /\ Len(left) = Len(s) + Len(t2)
      /\ \A n \in 1..Len(s) : left[n] = s[n]
      /\ \A n \in 1..Len(t2) : left[Len(s) + n] = t2[n]
    <2>1. t2 \in Seq(T)
        BY <1>3
    <2> QED BY <2>1, ConcatIs
<1>5. /\ right \in Seq(T) /\ Len(right) = Len(all)
      /\ \A n \in 1..Len(all) : right[n] = IF n = Len(all) THEN e ELSE all[n]
    <2>1. Len(all) \in 1..Len(all)
        BY <1>1, <1>2
    <2> QED BY <1>2, <2>1, ExceptSeq
<1> HIDE DEF left, right
<1>6. ASSUME NEW n \in 1..Len(left) PROVE left[n] = right[n]
    <2>1. n \in 1..(Len(s) + Len(t))
        BY <1>3, <1>4
    <2>2. CASE n <= Len(s)
        <3>1. n \in 1..Len(s) /\ n \in 1..Len(all) /\ n # Len(all)
            BY <1>1, <1>2, <2>1, <2>2
        <3>2. left[n] = s[n] /\ right[n] = all[n] /\ all[n] = s[n]
            BY <1>2, <1>4, <1>5, <3>1
        <3> QED BY <3>2
    <2>3. CASE ~(n <= Len(s))
        <3>1. PICK k \in 1..Len(t) : n = Len(s) + k
            <4>1. n - Len(s) \in 1..Len(t) /\ n = Len(s) + (n - Len(s))
                BY <1>1, <2>1, <2>3
            <4> QED BY <4>1
        <3>2. left[n] = t2[k] /\ all[n] = t[k]
            BY <1>2, <1>3, <1>4, <3>1
        <3>3. right[n] = IF n = Len(all) THEN e ELSE all[n]
            BY <1>2, <1>5, <2>1
        <3>4. n = Len(all) <=> k = Len(t)
            <4>1. /\ Len(all) = Len(s) + Len(t) /\ Len(s) \in Nat /\ Len(t) \in Nat
                  /\ n = Len(s) + k /\ k \in Nat
                BY <1>1, <1>2, <3>1
            <4> QED BY <4>1
        <3> QED BY <1>3, <3>1, <3>2, <3>3, <3>4
    <2> QED BY <2>2, <2>3
<1>7. left = right
    <2>1. Len(left) = Len(right)
        BY <1>2, <1>3, <1>4, <1>5
    <2> QED BY <1>4, <1>5, <1>6, <2>1, SeqEqual
<1>8. all[Len(all)] = t[Len(t)]
    BY <1>1, <1>2
<1> QED BY <1>7, <1>8 DEF all, t2, left, right

\* Behind other rows it is still the last row that gets the character.
LEMMA AddBehind ==
    ASSUME NEW rows \in Seq(Seq(Nat)), NEW more \in Seq(Seq(Nat)), more # <<>>, NEW c \in Nat
    PROVE  rows \o AddTo(more, c) = AddTo(rows \o more, c)
<1> DEFINE T == Seq(Nat)
           e == Append(more[Len(more)], c)
<1>1. e \in T
    <2>1. Len(more) \in 1..Len(more)
        BY EmptySeq
    <2>2. more[Len(more)] \in Seq(Nat)
        BY <2>1, ElementOfSeq
    <2> QED BY <2>2, AppendProperties
<1>2. rows \in Seq(T) /\ more \in Seq(T)
    OBVIOUS
<1>3. /\ rows \o [more EXCEPT ![Len(more)] = e]
           = [rows \o more EXCEPT ![Len(rows \o more)] = e]
      /\ (rows \o more)[Len(rows \o more)] = more[Len(more)]
    <2> HIDE DEF T, e
    <2> QED BY <1>1, <1>2, ExceptBehind
<1>4. AddTo(more, c) = [more EXCEPT ![Len(more)] = e]
    BY DEF AddTo
<1>5. AddTo(rows \o more, c) = [rows \o more EXCEPT ![Len(rows \o more)] = e]
    BY <1>3 DEF AddTo
<1> QED BY <1>3, <1>4, <1>5

\* The recursion of Rows, for all its arguments but the first.
RowsOf(text, f) ==
    /\ f[0] = <<>>
    /\ \A p \in 1..Len(text) :
          f[p] = IF p = 1 \/ text[p - 1] = NL THEN Append(f[p - 1], <<text[p]>>)
                 ELSE AddTo(f[p - 1], text[p])

\* A text whose first part ends a line: the first part's rows are there first.
LEMMA RowsInFront ==
    ASSUME NEW a \in Seq(Nat), NEW b \in Seq(Nat), NEW f, NEW g,
           RowsOf(a, f), RowsOf(a \o b, g)
    PROVE  g[Len(a)] = f[Len(a)]
<1> DEFINE all == a \o b
           Wrong == {p \in 0..Len(a) : g[p] # f[p]}
<1>1. /\ Len(a) \in Nat /\ Len(b) \in Nat /\ Len(all) = Len(a) + Len(b)
      /\ \A p \in 1..Len(a) : all[p] = a[p]
    BY LenProperties, ConcatIs
<1>2. RowsOf(all, g)
    OBVIOUS
<1> HIDE DEF all
<1>3. Wrong = {}
    <2> SUFFICES ASSUME Wrong # {} PROVE FALSE
        OBVIOUS
    <2>1. PICK p \in Wrong : \A k \in Wrong : p <= k
        <3>1. Wrong \in SUBSET Nat
            BY <1>1
        <3> HIDE DEF Wrong
        <3> QED BY <3>1, Smallest
    <2>2. p \in 0..Len(a) /\ g[p] # f[p]
        OBVIOUS
    <2>3. p # 0
        BY <2>2 DEF RowsOf
    <2>4. p - 1 \in 0..Len(a) /\ ~(p <= p - 1) /\ p \in 1..Len(a) /\ p \in 1..Len(all)
        BY <1>1, <2>2, <2>3
    <2>5. g[p - 1] = f[p - 1]
        BY <2>1, <2>4
    <2>6. g[p] = IF p = 1 \/ all[p - 1] = NL THEN Append(g[p - 1], <<all[p]>>)
                 ELSE AddTo(g[p - 1], all[p])
        BY <1>2, <2>4 DEF RowsOf
    <2>7. f[p] = IF p = 1 \/ a[p - 1] = NL THEN Append(f[p - 1], <<a[p]>>)
                 ELSE AddTo(f[p - 1], a[p])
        BY <2>4 DEF RowsOf
    <2>8. all[p] = a[p] /\ (p # 1 => all[p - 1] = a[p - 1])
        <3>1. p # 1 => p - 1 \in 1..Len(a)
            BY <1>1, <2>4
        <3> QED BY <1>1, <2>4, <3>1
    <2> QED BY <2>2, <2>5, <2>6, <2>7, <2>8
<1>4. Len(a) \in 0..Len(a)
    BY <1>1
<1> QED BY <1>3, <1>4

EndsLine(a) == a = <<>> \/ a[Len(a)] = NL

\* Then the rows of the second part follow.
LEMMA RowsBehind ==
    ASSUME NEW a \in Seq(Nat), NEW b \in Seq(Nat), EndsLine(a)
    PROVE  \A g, h : /\ RowsOf(a \o b, g)
                     /\ RowsOf(b, h)
                     /\ g[Len(a)] \in Seq(Seq(Nat))
                     => g[Len(a) + Len(b)] = g[Len(a)] \o h[Len(b)]
<1> SUFFICES ASSUME NEW g, NEW h,
                    RowsOf(a \o b, g), RowsOf(b, h), g[Len(a)] \in Seq(Seq(Nat))
             PROVE  g[Len(a) + Len(b)] = g[Len(a)] \o h[Len(b)]
    OBVIOUS
<1> DEFINE all == a \o b
           first == g[Len(a)]
           Wrong == {p \in 0..Len(b) : g[Len(a) + p] # first \o h[p]}
<1>1. /\ Len(a) \in Nat /\ Len(b) \in Nat /\ Len(all) = Len(a) + Len(b)
      /\ \A p \in 1..Len(a) : all[p] = a[p]
      /\ \A p \in 1..Len(b) : all[Len(a) + p] = b[p]
    BY LenProperties, ConcatIs
<1>2. RowsOf(all, g) /\ first \in Seq(Seq(Nat))
    OBVIOUS
<1>3. \A p \in 0..Len(b) : h[p] \in Seq(Seq(Nat)) /\ (p # 0 => h[p] # <<>>)
    <2>1. /\ h[0] = <<>>
          /\ \A p \in 1..Len(b) :
                h[p] = IF p = 1 \/ b[p - 1] = NL THEN Append(h[p - 1], <<b[p]>>)
                       ELSE AddTo(h[p - 1], b[p])
        BY DEF RowsOf
    <2> QED BY <2>1, RowsTyped
<1> HIDE DEF all
<1> SUFFICES ASSUME Wrong # {} PROVE FALSE
    <2>1. Len(b) \in 0..Len(b)
        BY <1>1
    <2> QED BY <2>1
<1>4. PICK p \in Wrong : \A k \in Wrong : p <= k
    <2>1. Wrong \in SUBSET Nat
        <3>1. 0..Len(b) \subseteq Nat
            BY <1>1
        <3> QED BY <3>1
    <2> HIDE DEF Wrong
    <2> QED BY <2>1, Smallest
<1>5. p \in 0..Len(b) /\ g[Len(a) + p] # first \o h[p]
    OBVIOUS
<1>6. p # 0
    <2>1. first \o h[0] = first
        <3>1. h[0] = <<>>
            BY DEF RowsOf
        <3>2. first \o <<>> = first
            BY <1>2, ConcatEmptySeq
        <3> QED BY <3>1, <3>2
    <2>2. Len(a) + 0 = Len(a)
        BY <1>1
    <2> QED BY <1>5, <2>1, <2>2
<1>7. PICK k \in Nat : /\ p = k + 1 /\ k \in 0..Len(b) /\ p \in 1..Len(b) /\ ~(p <= k)
                       /\ p - 1 = k /\ Len(a) + p \in 1..Len(all) /\ Len(a) + p - 1 = Len(a) + k
    <2>1. PICK m \in Nat, n \in Nat : m = Len(a) /\ n = Len(b)
        BY <1>1
    <2>2. p \in 0..n
        BY <1>5, <2>1
    <2>3. p - 1 \in Nat /\ p = (p - 1) + 1 /\ p - 1 \in 0..n /\ p \in 1..n /\ ~(p <= p - 1)
             /\ m + p \in 1..(m + n) /\ m + p - 1 = m + (p - 1)
        BY <1>6, <2>2
    <2> QED BY <1>1, <2>1, <2>3
<1>8. g[Len(a) + k] = first \o h[k]
    BY <1>4, <1>7
<1> HIDE DEF first, Wrong
<1>9. g[Len(a) + p] = IF Len(a) + p = 1 \/ all[Len(a) + k] = NL
                      THEN Append(first \o h[k], <<b[p]>>)
                      ELSE AddTo(first \o h[k], b[p])
    <2>1. g[Len(a) + p] = IF Len(a) + p = 1 \/ all[Len(a) + p - 1] = NL
                          THEN Append(g[Len(a) + p - 1], <<all[Len(a) + p]>>)
                          ELSE AddTo(g[Len(a) + p - 1], all[Len(a) + p])
        BY <1>2, <1>7 DEF RowsOf
    <2>2. all[Len(a) + p] = b[p]
        BY <1>1, <1>7
    <2> QED BY <1>7, <1>8, <2>1, <2>2
<1>10. h[p] = IF p = 1 \/ b[k] = NL THEN Append(h[k], <<b[p]>>) ELSE AddTo(h[k], b[p])
    BY <1>7 DEF RowsOf
<1>11. (Len(a) + p = 1 \/ all[Len(a) + k] = NL) <=> (p = 1 \/ b[k] = NL)
    <2>1. CASE k = 0
        <3>1. p = 1 /\ Len(a) + k = Len(a)
            BY <1>1, <1>7, <2>1
        <3>2. CASE a = <<>>
            <4>1. Len(a) = 0
                BY <3>2, EmptySeq
            <4> QED BY <3>1, <4>1
        <3>3. CASE a # <<>>
            <4>1. Len(a) \in 1..Len(a)
                BY <3>3, EmptySeq, LenProperties
            <4> QED BY <1>1, <3>1, <3>3, <4>1 DEF EndsLine
        <3> QED BY <3>2, <3>3
    <2>2. CASE k # 0
        <3>1. k \in 1..Len(b) /\ p # 1 /\ Len(a) + p # 1
            BY <1>1, <1>7, <2>2
        <3>2. all[Len(a) + k] = b[k]
            BY <1>1, <3>1
        <3> QED BY <3>1, <3>2
    <2> QED BY <2>1, <2>2
<1>12. b[p] \in Nat /\ <<b[p]>> \in Seq(Nat)
    BY <1>7, ElementOfSeq
<1>13. h[k] \in Seq(Seq(Nat))
    BY <1>3, <1>7
<1>14. first \o Append(h[k], <<b[p]>>) = Append(first \o h[k], <<b[p]>>)
    <2> DEFINE T == Seq(Nat)
               e == <<b[p]>>
    <2>1. first \in Seq(T) /\ h[k] \in Seq(T) /\ e \in T
        BY <1>2, <1>12, <1>13
    <2> HIDE DEF T, e
    <2>2. first \o Append(h[k], e) = Append(first \o h[k], e)
        <3>1. PICK s \in Seq(T), t \in Seq(T) : s = first /\ t = h[k]
            BY <2>1
        <3>2. s \o Append(t, e) = Append(s \o t, e)
            BY <2>1, ConcatAppend
        <3> QED BY <3>1, <3>2
    <2> QED BY <2>2 DEF e
<1>15. CASE p = 1 \/ b[k] = NL
    BY <1>5, <1>9, <1>10, <1>11, <1>14, <1>15
<1>16. CASE ~(p = 1 \/ b[k] = NL)
    <2>1. h[k] # <<>>
        BY <1>3, <1>7, <1>16
    <2>2. first \o AddTo(h[k], b[p]) = AddTo(first \o h[k], b[p])
        BY <1>2, <1>12, <1>13, <2>1, AddBehind
    <2> QED BY <1>5, <1>9, <1>10, <1>11, <1>16, <2>2
<1> QED BY <1>15, <1>16

\* Cut behind a newline, a text has the rows of its two parts.
LEMMA RowsConcat ==
    ASSUME NEW a \in Seq(Nat), NEW b \in Seq(Nat), EndsLine(a)
    PROVE  Rows(a \o b) = Rows(a) \o Rows(b)
<1>1. PICK f : Rows(a) = f[Len(a)] /\ RowsOf(a, f)
    BY RowsIs DEF RowsOf
<1>2. PICK h : Rows(b) = h[Len(b)] /\ RowsOf(b, h)
    BY RowsIs DEF RowsOf
<1>3. a \o b \in Seq(Nat) /\ Len(a \o b) = Len(a) + Len(b)
    BY ConcatIs
<1>4. PICK g : Rows(a \o b) = g[Len(a \o b)] /\ RowsOf(a \o b, g)
    BY <1>3, RowsIs DEF RowsOf
<1>5. g[Len(a)] = Rows(a)
    BY <1>1, <1>4, RowsInFront
<1>6. g[Len(a)] \in Seq(Seq(Nat))
    BY <1>5, RowsAreSeq
<1>7. g[Len(a) + Len(b)] = g[Len(a)] \o h[Len(b)]
    <2>1. \A x, y : /\ RowsOf(a \o b, x)
                   /\ RowsOf(b, y)
                   /\ x[Len(a)] \in Seq(Seq(Nat))
                   => x[Len(a) + Len(b)] = x[Len(a)] \o y[Len(b)]
        BY RowsBehind, ZenonT(40)
    <2>2. RowsOf(a \o b, g)
        BY <1>4
    <2>3. RowsOf(b, h)
        BY <1>2
    <2> QED BY ONLY <1>6, <2>1, <2>2, <2>3
<1> QED BY <1>2, <1>3, <1>4, <1>5, <1>7

-----------------------------------------------------------------------------
(* Documents *)

Map(f, s) == [n \in DOMAIN s |-> f[s[n]]]

Maps(f, S, T) == f \in [S -> T]

\* A function applied to each element of two sequences, one behind the other.
LEMMA MapTyped ==
    ASSUME NEW S, NEW T, NEW f, Maps(f, S, T), NEW s \in Seq(S)
    PROVE  Map(f, s) \in Seq(T) /\ Len(Map(f, s)) = Len(s) /\ \A n \in 1..Len(s) : Map(f, s)[n] = f[s[n]]
<1> DEFINE m == Map(f, s)
<1>1. DOMAIN s = 1..Len(s) /\ Len(s) \in Nat /\ \A n \in 1..Len(s) : s[n] \in S
    BY LenProperties, ElementOfSeq
<1>2. m \in [1..Len(s) -> T] /\ \A n \in 1..Len(s) : m[n] = f[s[n]]
    BY <1>1 DEF Map, Maps
<1> HIDE DEF m
<1>3. m \in Seq(T)
    BY <1>1, <1>2, SeqDef
<1>4. Len(m) = Len(s)
    BY <1>1, <1>2, <1>3, LenProperties
<1> QED BY <1>2, <1>3, <1>4 DEF m

LEMMA MapConcat ==
    ASSUME NEW S, NEW T, NEW f, Maps(f, S, T), NEW s \in Seq(S), NEW t \in Seq(S)
    PROVE  Map(f, s \o t) = Map(f, s) \o Map(f, t)
<1> DEFINE all == s \o t
           left == Map(f, s)
           right == Map(f, t)
           both == left \o right
           mapped == Map(f, all)
<1>1. Len(s) \in Nat /\ Len(t) \in Nat
    BY LenProperties
<1>2. /\ all \in Seq(S) /\ Len(all) = Len(s) + Len(t)
      /\ \A n \in 1..Len(s) : all[n] = s[n]
      /\ \A n \in 1..Len(t) : all[Len(s) + n] = t[n]
    BY ConcatIs
<1>3. left \in Seq(T) /\ Len(left) = Len(s) /\ \A n \in 1..Len(s) : left[n] = f[s[n]]
    BY MapTyped
<1>4. right \in Seq(T) /\ Len(right) = Len(t) /\ \A n \in 1..Len(t) : right[n] = f[t[n]]
    BY MapTyped
<1> HIDE DEF all, left, right
<1>5. mapped \in Seq(T) /\ Len(mapped) = Len(all) /\ \A n \in 1..Len(all) : mapped[n] = f[all[n]]
    <2>1. all \in Seq(S)
        BY <1>2
    <2> QED BY <2>1, MapTyped
<1>6. /\ both \in Seq(T) /\ Len(both) = Len(left) + Len(right)
      /\ \A n \in 1..Len(left) : both[n] = left[n]
      /\ \A n \in 1..Len(right) : both[Len(left) + n] = right[n]
    <2>1. left \in Seq(T)
        BY <1>3
    <2>2. right \in Seq(T)
        BY <1>4
    <2> QED BY <2>1, <2>2, ConcatIs
<1> HIDE DEF both, mapped
<1>7. ASSUME NEW n \in 1..Len(mapped) PROVE mapped[n] = both[n]
    <2>1. n \in 1..(Len(s) + Len(t)) /\ n \in 1..Len(all)
        BY <1>2, <1>5
    <2>2. CASE n <= Len(s)
        <3>1. n \in 1..Len(s) /\ n \in 1..Len(left)
            BY <1>1, <1>3, <2>1, <2>2
        <3> QED BY <1>2, <1>3, <1>5, <1>6, <2>1, <3>1
    <2>3. CASE ~(n <= Len(s))
        <3>1. PICK k \in 1..Len(t) : n = Len(s) + k
            <4>1. n - Len(s) \in 1..Len(t) /\ n = Len(s) + (n - Len(s))
                BY <1>1, <2>1, <2>3
            <4> QED BY <4>1
        <3>2. mapped[n] = f[t[k]]
            BY <1>2, <1>5, <2>1, <3>1
        <3>3. both[n] = right[k]
            BY <1>3, <1>4, <1>6, <3>1
        <3> QED BY <1>4, <3>1, <3>2, <3>3
    <2> QED BY <2>2, <2>3
<1>8. mapped = both
    <2>1. Len(mapped) = Len(both)
        BY <1>2, <1>3, <1>4, <1>5, <1>6
    <2> QED BY <1>5, <1>6, <1>7, <2>1, SeqEqual
<1> QED BY <1>8 DEF both, mapped, left, right, all

\* Whatever a loader makes of a row.
Document == {StoredDoc(row) : row \in Seq(Nat)} \cup {CudfDoc(row) : row \in Seq(Nat)}
              \cup {Numbers(row) : row \in Seq(Nat)}

LEMMA StoredConcat ==
    ASSUME NEW s \in Seq(Seq(Nat)), NEW t \in Seq(Seq(Nat))
    PROVE  /\ Docs(s, StoredDoc) \in Seq(Document)
           /\ Docs(s \o t, StoredDoc) = Docs(s, StoredDoc) \o Docs(t, StoredDoc)
<1> DEFINE S == Seq(Nat)
           f == [row \in S |-> StoredDoc(row)]
<1>1. Maps(f, S, Document)
    BY DEF Document, Maps
<1>2. ASSUME NEW r \in Seq(S) PROVE Docs(r, StoredDoc) = Map(f, r)
    <2>1. DOMAIN r = 1..Len(r) /\ \A n \in 1..Len(r) : r[n] \in S
        <3> HIDE DEF S
        <3> QED BY LenProperties, ElementOfSeq
    <2> QED BY <2>1 DEF Docs, Map
<1>3. s \in Seq(S) /\ t \in Seq(S)
    OBVIOUS
<1>4. s \o t \in Seq(S) /\ Map(f, s \o t) = Map(f, s) \o Map(f, t) /\ Map(f, s) \in Seq(Document)
    <2> HIDE DEF S, f
    <2>1. s \o t \in Seq(S)
        BY <1>3, ConcatIs
    <2>2. Map(f, s \o t) = Map(f, s) \o Map(f, t)
        BY <1>1, <1>3, MapConcat
    <2>3. Map(f, s) \in Seq(Document)
        BY <1>1, <1>3, MapTyped
    <2> QED BY <2>1, <2>2, <2>3
<1> HIDE DEF f
<1> QED BY <1>2, <1>3, <1>4

LEMMA CudfConcat ==
    ASSUME NEW s \in Seq(Seq(Nat)), NEW t \in Seq(Seq(Nat))
    PROVE  /\ Docs(s, CudfDoc) \in Seq(Document)
           /\ Docs(s \o t, CudfDoc) = Docs(s, CudfDoc) \o Docs(t, CudfDoc)
<1> DEFINE S == Seq(Nat)
           f == [row \in S |-> CudfDoc(row)]
<1>1. Maps(f, S, Document)
    BY DEF Document, Maps
<1>2. ASSUME NEW r \in Seq(S) PROVE Docs(r, CudfDoc) = Map(f, r)
    <2>1. DOMAIN r = 1..Len(r) /\ \A n \in 1..Len(r) : r[n] \in S
        <3> HIDE DEF S
        <3> QED BY LenProperties, ElementOfSeq
    <2> QED BY <2>1 DEF Docs, Map
<1>3. s \in Seq(S) /\ t \in Seq(S)
    OBVIOUS
<1>4. s \o t \in Seq(S) /\ Map(f, s \o t) = Map(f, s) \o Map(f, t) /\ Map(f, s) \in Seq(Document)
    <2> HIDE DEF S, f
    <2>1. s \o t \in Seq(S)
        BY <1>3, ConcatIs
    <2>2. Map(f, s \o t) = Map(f, s) \o Map(f, t)
        BY <1>1, <1>3, MapConcat
    <2>3. Map(f, s) \in Seq(Document)
        BY <1>1, <1>3, MapTyped
    <2> QED BY <2>1, <2>2, <2>3
<1> HIDE DEF f
<1> QED BY <1>2, <1>3, <1>4

LEMMA GetlineConcat ==
    ASSUME NEW s \in Seq(Seq(Nat)), NEW t \in Seq(Seq(Nat))
    PROVE  /\ GetlineDocs(s) \in Seq(Document)
           /\ GetlineDocs(s \o t) = GetlineDocs(s) \o GetlineDocs(t)
<1> DEFINE S == Seq(Nat)
           T == Seq(Document)
           f == [row \in S |-> IF Numbers(row) = <<>> THEN <<>> ELSE <<Numbers(row)>>]
<1>1. Maps(f, S, T)
    <2>1. ASSUME NEW row \in S PROVE f[row] \in T
        <3>1. Numbers(row) \in Document
            BY DEF Document
        <3> QED BY <3>1
    <2> QED BY <2>1 DEF Maps
<1>2. ASSUME NEW r \in Seq(S) PROVE GetlineDocs(r) = FlattenSeq(Map(f, r))
    <2>1. DOMAIN r = 1..Len(r) /\ \A n \in 1..Len(r) : r[n] \in S
        <3> HIDE DEF S
        <3> QED BY LenProperties, ElementOfSeq
    <2>2. Map(f, r) = [n \in DOMAIN r |-> IF Numbers(r[n]) = <<>> THEN <<>> ELSE <<Numbers(r[n])>>]
        BY <2>1 DEF Map
    <2> QED BY <2>2 DEF GetlineDocs
<1>3. s \in Seq(S) /\ t \in Seq(S)
    OBVIOUS
<1>4. /\ s \o t \in Seq(S) /\ Map(f, s \o t) = Map(f, s) \o Map(f, t)
      /\ Map(f, s) \in Seq(T) /\ Map(f, t) \in Seq(T)
    <2> HIDE DEF S, T, f
    <2>1. s \o t \in Seq(S)
        BY <1>3, ConcatIs
    <2>2. Map(f, s \o t) = Map(f, s) \o Map(f, t)
        BY <1>1, <1>3, MapConcat
    <2>3. Map(f, s) \in Seq(T) /\ Map(f, t) \in Seq(T)
        BY <1>1, <1>3, MapTyped
    <2> QED BY <2>1, <2>2, <2>3
<1> HIDE DEF f
<1>5. /\ FlattenSeq(Map(f, s)) \in Seq(Document)
      /\ FlattenSeq(Map(f, s) \o Map(f, t)) = FlattenSeq(Map(f, s)) \o FlattenSeq(Map(f, t))
    <2>1. Map(f, s) \in Seq(Seq(Document)) /\ Map(f, t) \in Seq(Seq(Document))
        BY <1>4
    <2> QED BY <2>1, FlattenTyped, FlattenConcat
<1> QED BY <1>2, <1>3, <1>4, <1>5

\* Each loader makes of a text cut behind a newline what it makes of the two parts.
LEMMA ChunkDocsConcat ==
    ASSUME NEW load \in {"chunk", "stream", "buffer", "topk"},
           NEW a \in Seq(Nat), NEW b \in Seq(Nat), EndsLine(a)
    PROVE  /\ ChunkDocs(load, a) \in Seq(Document)
           /\ ChunkDocs(load, a \o b) = ChunkDocs(load, a) \o ChunkDocs(load, b)
<1>1. Rows(a) \in Seq(Seq(Nat)) /\ Rows(b) \in Seq(Seq(Nat))
    BY RowsAreSeq
<1>2. Rows(a \o b) = Rows(a) \o Rows(b)
    BY RowsConcat
<1>3. CASE load = "buffer"
    <2>1. /\ ChunkDocs(load, a) = GetlineDocs(Rows(a))
          /\ ChunkDocs(load, b) = GetlineDocs(Rows(b))
          /\ ChunkDocs(load, a \o b) = GetlineDocs(Rows(a \o b))
        BY <1>3, Zenon DEF ChunkDocs
    <2>2. /\ GetlineDocs(Rows(a)) \in Seq(Document)
          /\ GetlineDocs(Rows(a) \o Rows(b)) = GetlineDocs(Rows(a)) \o GetlineDocs(Rows(b))
        BY <1>1, GetlineConcat
    <2> QED BY <1>2, <2>1, <2>2
<1>4. CASE load = "chunk"
    <2>1. /\ ChunkDocs(load, a) = Docs(Rows(a), StoredDoc)
          /\ ChunkDocs(load, b) = Docs(Rows(b), StoredDoc)
          /\ ChunkDocs(load, a \o b) = Docs(Rows(a \o b), StoredDoc)
        BY <1>4, Zenon DEF ChunkDocs
    <2>2. /\ Docs(Rows(a), StoredDoc) \in Seq(Document)
          /\ Docs(Rows(a) \o Rows(b), StoredDoc) = Docs(Rows(a), StoredDoc) \o Docs(Rows(b), StoredDoc)
        BY <1>1, StoredConcat
    <2> QED BY <1>2, <2>1, <2>2
<1>5. CASE load \in {"stream", "topk"}
    <2>1. /\ ChunkDocs(load, a) = Docs(Rows(a), CudfDoc)
          /\ ChunkDocs(load, b) = Docs(Rows(b), CudfDoc)
          /\ ChunkDocs(load, a \o b) = Docs(Rows(a \o b), CudfDoc)
        BY <1>5, Zenon DEF ChunkDocs
    <2>2. /\ Docs(Rows(a), CudfDoc) \in Seq(Document)
          /\ Docs(Rows(a) \o Rows(b), CudfDoc) = Docs(Rows(a), CudfDoc) \o Docs(Rows(b), CudfDoc)
        BY <1>1, CudfConcat
    <2> QED BY <1>2, <2>1, <2>2
<1> QED BY <1>3, <1>4, <1>5

\* A text that ends no line, the last chunk's, gives documents as well.
LEMMA ChunkDocsTyped ==
    ASSUME NEW load \in {"chunk", "stream", "buffer", "topk"}, NEW text \in Seq(Nat)
    PROVE  ChunkDocs(load, text) \in Seq(Document)
<1>1. Rows(text) \in Seq(Seq(Nat))
    BY RowsAreSeq
<1>2. CASE load = "buffer"
    <2>1. ChunkDocs(load, text) = GetlineDocs(Rows(text))
        BY <1>2, Zenon DEF ChunkDocs
    <2> QED BY <1>1, <2>1, GetlineConcat
<1>3. CASE load = "chunk"
    <2>1. ChunkDocs(load, text) = Docs(Rows(text), StoredDoc)
        BY <1>3, Zenon DEF ChunkDocs
    <2> QED BY <1>1, <2>1, StoredConcat
<1>4. CASE load \in {"stream", "topk"}
    <2>1. ChunkDocs(load, text) = Docs(Rows(text), CudfDoc)
        BY <1>4, Zenon DEF ChunkDocs
    <2> QED BY <1>1, <2>1, CudfConcat
<1> QED BY <1>2, <1>3, <1>4

-----------------------------------------------------------------------------
(* Reading *)

\* What lies behind a full buffer, before a NUL, holds no newline.
NoLineBehind == \A rest \in Behind : \A c \in 1..Len(rest) : rest[c] # NL

\* No document is cleared after it was converted: the loader that clears its array on another
\* stream does not run, or its memset is over in time.
MemsetInTime == MemsetLate => \A r \in Inputs : r.load # "chunk"

\* Every window of the buffer's size holds a newline.
LineFits(text) ==
    \A p \in 1..(Len(text) - BuffSize + 1) : \E c \in p..(p + BuffSize - 1) : text[c] = NL

\* Between two iterations the position is behind a newline or, when the loop is over, at
\* the end of the file.
ReadInv ==
    /\ in \in Inputs /\ file = in.text
    /\ pos \in 0..Len(file) /\ eof \in BOOLEAN
    /\ eof => pos = Len(file)
    /\ eof \/ pos = 0 \/ file[pos] = NL
    /\ pc \in {"read", "iterate", "loaded", "collect", "selected", "aborted"}
    /\ pc \notin {"read", "iterate"} => eof
    /\ pc \in {"collect", "selected", "aborted"} => in.load = "topk"

LEMMA InputFacts ==
    ASSUME ReadInv
    PROVE  /\ file \in Seq(Nat) /\ LineFits(file)
           /\ in.load \in {"chunk", "stream", "buffer", "topk"}
           /\ in.raft \/ in.pool => in.load = "topk"
BY PipelineAssumption DEF ReadInv, LineFits

\* The buffer is a part of the file, whole if the end was not reached.
LEMMA BufferIs ==
    ASSUME ReadInv
    PROVE  /\ Buffer \in Seq(Nat)
           /\ \/ HitsEof /\ Buffer = SubSeq(file, pos + 1, Len(file)) /\ Len(Buffer) = Len(file) - pos
              \/ /\ ~HitsEof /\ pos + BuffSize <= Len(file) /\ Len(Buffer) = BuffSize
                 /\ Buffer = SubSeq(file, pos + 1, pos + BuffSize)
                 /\ \A c \in 1..BuffSize : Buffer[c] = file[pos + c]
<1>1. PICK l \in Nat, p \in Nat, b \in Nat \ {0} : l = Len(file) /\ p = pos /\ b = BuffSize /\ p <= l
    <2>1. Len(file) \in Nat
        BY InputFacts, LenProperties
    <2> QED BY <2>1, ReaderAssumption DEF ReadInv
<1>2. \A c \in 1..l : file[c] \in Nat
    BY <1>1, InputFacts, ElementOfSeq
<1>3. ASSUME NEW hi \in p..l
      PROVE  /\ SubSeq(file, p + 1, hi) \in Seq(Nat) /\ Len(SubSeq(file, p + 1, hi)) = hi - p
             /\ \A c \in 1..(hi - p) : SubSeq(file, p + 1, hi)[c] = file[p + c]
    <2>1. p + 1 \in Int /\ hi \in Int /\ \A c \in (p + 1)..hi : file[c] \in Nat
        BY <1>2
    <2>2. /\ SubSeq(file, p + 1, hi) \in Seq(Nat)
          /\ Len(SubSeq(file, p + 1, hi)) = IF p + 1 <= hi THEN hi - (p + 1) + 1 ELSE 0
          /\ \A c \in 1..(hi - (p + 1) + 1) : SubSeq(file, p + 1, hi)[c] = file[p + 1 + c - 1]
        BY <2>1, SubSeqProperties
    <2>3. hi - (p + 1) + 1 = hi - p /\ (~(p + 1 <= hi) => hi - p = 0)
        OBVIOUS
    <2>4. \A c \in 1..(hi - p) : p + 1 + c - 1 = p + c
        OBVIOUS
    <2> QED BY <2>2, <2>3, <2>4
<1>4. CASE p + b < l \/ p + b = l
    <2>1. p + b \in p..l /\ p + b - p = b
        BY <1>4
    <2>2. MinOf(p + b, l) = p + b
        BY <1>4 DEF MinOf
    <2>3. Buffer = SubSeq(file, p + 1, p + b)
        BY <1>1, <2>2 DEF Buffer
    <2>4. /\ Buffer \in Seq(Nat) /\ Len(Buffer) = b
          /\ \A c \in 1..b : Buffer[c] = file[p + c]
        BY <1>3, <2>1, <2>3
    <2>5. ~HitsEof
        BY <1>1, <2>4 DEF HitsEof
    <2> QED BY <1>1, <1>4, <2>3, <2>4, <2>5
<1>5. CASE l < p + b
    <2>1. l \in p..l
        BY <1>1
    <2>2. MinOf(p + b, l) = l
        BY <1>5 DEF MinOf
    <2>3. Buffer = SubSeq(file, p + 1, l)
        BY <1>1, <2>2 DEF Buffer
    <2>4. Buffer \in Seq(Nat) /\ Len(Buffer) = l - p
        BY <1>3, <2>1, <2>3
    <2>5. HitsEof
        BY <1>1, <1>5, <2>4 DEF HitsEof
    <2> QED BY <1>1, <2>3, <2>4, <2>5
<1> QED BY <1>4, <1>5

\* In a text of a full buffer the last newline is one of the buffer's.
LEMMA LastNewlineIs ==
    ASSUME NoLineBehind, ReadInv, ~HitsEof, NEW text \in ChunkTexts
    PROVE  /\ LastNewline(text) \in 1..BuffSize
           /\ file[pos + LastNewline(text)] = NL
           /\ SubSeq(text, 1, LastNewline(text)) = SubSeq(file, pos + 1, pos + LastNewline(text))
<1> DEFINE Ends == {p \in DOMAIN text : text[p] = NL} \cup {0}
           m == LastNewline(text)
<1>1. PICK p \in Nat, b \in Nat \ {0} : p = pos /\ b = BuffSize /\ p + b <= Len(file)
    BY BufferIs, ReaderAssumption DEF ReadInv
<1>2. /\ file \in Seq(Nat) /\ Len(file) \in Nat
      /\ Buffer \in Seq(Nat) /\ Len(Buffer) = b
      /\ Buffer = SubSeq(file, p + 1, p + b)
      /\ \A c \in 1..b : Buffer[c] = file[p + c]
    BY <1>1, BufferIs, InputFacts, LenProperties
<1>3. PICK rest \in Behind : text = Buffer \o rest
    BY DEF ChunkTexts
<1>4. rest \in Seq(Nat)
    BY ReaderAssumption
<1>5. /\ text \in Seq(Nat) /\ Len(text) = b + Len(rest) /\ DOMAIN text = 1..Len(text) /\ Len(rest) \in Nat
      /\ \A c \in 1..b : text[c] = Buffer[c]
      /\ \A c \in 1..Len(rest) : text[b + c] = rest[c]
    <2>1. Buffer \in Seq(Nat)
        BY <1>2
    <2>2. /\ Buffer \o rest \in Seq(Nat)
          /\ Len(Buffer \o rest) = Len(Buffer) + Len(rest)
          /\ \A c \in 1..Len(Buffer) : (Buffer \o rest)[c] = Buffer[c]
          /\ \A c \in 1..Len(rest) : (Buffer \o rest)[Len(Buffer) + c] = rest[c]
        BY <1>4, <2>1, ConcatIs
    <2>3. text \in Seq(Nat)
        BY <1>3, <2>2
    <2>4. DOMAIN text = 1..Len(text) /\ Len(rest) \in Nat
        BY <1>4, <2>3, LenProperties
    <2> QED BY <1>2, <1>3, <2>2, <2>3, <2>4
<1>6. m \in Ends /\ \A c \in Ends : m >= c
    <2>1. Ends \in SUBSET Nat /\ Ends # {}
        BY <1>5
    <2>2. IsFiniteSet(Ends)
        <3>1. IsFiniteSet(0..Len(text))
            BY <1>1, <1>5, FS_Interval
        <3>2. Ends \in SUBSET (0..Len(text))
            BY <1>1, <1>5
        <3> QED BY <3>1, <3>2, FS_Subset
    <2>3. m = Max(Ends)
        BY DEF LastNewline
    <2> HIDE DEF Ends, m
    <2> QED BY <2>1, <2>2, <2>3, MaxIs
<1>7. PICK c \in 1..b : Buffer[c] = NL
    <2>1. p + 1 \in 1..(Len(file) - b + 1)
        BY <1>1, <1>2
    <2>2. PICK d \in (p + 1)..(p + 1 + b - 1) : file[d] = NL
        BY <1>1, <2>1, InputFacts DEF LineFits
    <2>3. d - p \in 1..b /\ p + (d - p) = d
        BY <2>2
    <2> QED BY <1>2, <2>2, <2>3
<1>8. c \in Ends
    BY <1>1, <1>5, <1>7
<1>9. m \in 1..Len(text) /\ text[m] = NL
    <2>1. m >= c /\ m \in Ends
        BY <1>6, <1>8
    <2>2. m # 0
        BY <2>1
    <2> QED BY <1>5, <2>1, <2>2
<1> HIDE DEF m, Ends
<1>10. m \in 1..b
    <2> SUFFICES ASSUME m > b PROVE FALSE
        BY <1>9
    <2>1. m - b \in 1..Len(rest) /\ b + (m - b) = m
        BY <1>1, <1>5, <1>9
    <2>2. text[m] = rest[m - b]
        BY <1>5, <2>1
    <2> QED BY <1>9, <2>1, <2>2 DEF NoLineBehind
<1>11. file[p + m] = NL
    BY <1>2, <1>5, <1>9, <1>10
<1>12. SubSeq(text, 1, m) = SubSeq(file, p + 1, p + m)
    <2>1. SubSeq(text, 1, m) = SubSeq(Buffer, 1, m)
        <3>1. 1 \in 1..Len(Buffer) /\ m \in 1..Len(Buffer)
            BY <1>2, <1>10
        <3>2. Buffer \in Seq(Nat)
            BY <1>2
        <3>3. SubSeq(Buffer \o rest, 1, m) = SubSeq(Buffer, 1, m)
            BY <1>4, <3>1, <3>2, SubSeqOfConcat1
        <3> QED BY <1>3, <3>3
    <2>2. SubSeq(SubSeq(file, p + 1, p + b), 1, m) = SubSeq(file, p + 1, p + m)
        <3>1. /\ p + 1 \in 1..Len(file) /\ p + b \in 1..Len(file)
              /\ 1 \in 1..(p + b - (p + 1) + 1) /\ m \in 1..(p + b - (p + 1) + 1)
              /\ p + 1 + 1 - 1 = p + 1 /\ p + 1 + m - 1 = p + m
            BY <1>1, <1>2, <1>10
        <3>2. file \in Seq(Nat)
            BY <1>2
        <3>3. SubSeq(SubSeq(file, p + 1, p + b), 1, m) = SubSeq(file, p + 1 + 1 - 1, p + 1 + m - 1)
            BY <3>1, <3>2, SubSeqOfSubSeq
        <3> QED BY <3>1, <3>3
    <2> QED BY <1>2, <2>1, <2>2
<1> QED BY <1>1, <1>10, <1>11, <1>12 DEF m

\* The characters left for the chunk are those the position moved over; without the end of
\* the file they end a line.
LEMMA TakenIs ==
    ASSUME NoLineBehind, ReadInv, NEW text, Read(text)
    PROVE  /\ pos' \in pos..Len(file) /\ eof' \in BOOLEAN
           /\ Taken(text) = SubSeq(file, pos + 1, pos')
           /\ eof' => pos' = Len(file)
           /\ ~eof' => pos' # 0 /\ file[pos'] = NL
<1>1. PICK l \in Nat, p \in Nat, b \in Nat \ {0} : l = Len(file) /\ p = pos /\ b = BuffSize /\ p <= l
    <2>1. Len(file) \in Nat
        BY InputFacts, LenProperties
    <2> QED BY <2>1, ReaderAssumption DEF ReadInv
<1>2. text \in ChunkTexts /\ pos' = NextPos(text) /\ eof' = HitsEof
    BY DEF Read
<1>3. CASE HitsEof
    <2>1. text = Buffer /\ Buffer = SubSeq(file, p + 1, l) /\ Len(Buffer) = l - p
        BY <1>1, <1>2, <1>3, BufferIs DEF ChunkTexts
    <2>2. ~Cuts(text)
        BY <1>3 DEF Cuts
    <2>3. Taken(text) = SubSeq(file, p + 1, l) /\ NextPos(text) = p + (l - p)
        BY <1>1, <2>1, <2>2 DEF Taken, NextPos
    <2>4. p + (l - p) = l
        BY <1>1
    <2> QED BY <1>1, <1>2, <1>3, <2>3, <2>4
<1>4. CASE ~HitsEof
    <2>1. PICK m \in 1..b :
             /\ m = LastNewline(text) /\ file[p + m] = NL
             /\ SubSeq(text, 1, m) = SubSeq(file, p + 1, p + m)
        <3>1. /\ LastNewline(text) \in 1..BuffSize
              /\ file[pos + LastNewline(text)] = NL
              /\ SubSeq(text, 1, LastNewline(text)) = SubSeq(file, pos + 1, pos + LastNewline(text))
            BY <1>2, <1>4, LastNewlineIs
        <3> QED BY <1>1, <3>1
    <2>2. Len(Buffer) = b /\ p + b <= l
        BY <1>1, <1>4, BufferIs
    <2>3. Cuts(text)
        BY <1>4, <2>1 DEF Cuts
    <2>4. Taken(text) = SubSeq(file, p + 1, p + m)
        BY <2>1, <2>3 DEF Taken
    <2>5. NextPos(text) = p + b - (b - (m - 1)) + 1
        BY <1>1, <2>1, <2>2, <2>3 DEF NextPos
    <2>6. p + b - (b - (m - 1)) + 1 = p + m /\ p + m \in p..l /\ p + m # 0
        BY <2>2
    <2>7. pos' = p + m /\ ~eof' /\ eof' \in BOOLEAN
        <3>1. eof' \in BOOLEAN
            BY <1>2 DEF HitsEof
        <3>2. ~eof'
            BY <1>2, <1>4
        <3>3. pos' = p + m
            BY <1>2, <2>5, <2>6
        <3> QED BY <3>1, <3>2, <3>3
    <2>8. Taken(text) = SubSeq(file, pos + 1, pos') /\ file[pos'] = NL
        BY <1>1, <2>1, <2>4, <2>7
    <2> QED BY <1>1, <2>6, <2>7, <2>8
<1> QED BY <1>3, <1>4

LEMMA ReadStep == NoLineBehind /\ ReadInv /\ [Next]_vars => ReadInv' /\ UNCHANGED <<in, file>>
<1> SUFFICES ASSUME NoLineBehind, ReadInv, [Next]_vars PROVE ReadInv' /\ UNCHANGED <<in, file>>
    OBVIOUS
<1>1. CASE ReadChunk
    <2>1. PICK text : Read(text)
        BY <1>1 DEF ReadChunk
    <2>2. /\ pos' \in pos..Len(file) /\ eof' \in BOOLEAN
          /\ eof' => pos' = Len(file)
          /\ ~eof' => pos' # 0 /\ file[pos'] = NL
        BY <2>1, TakenIs
    <2>3. UNCHANGED <<in, file>> /\ pc' = "iterate"
        BY <1>1, <2>1 DEF ReadChunk, Read
    <2>4. pos' \in 0..Len(file)
        BY <2>2 DEF ReadInv
    <2> QED BY <2>2, <2>3, <2>4 DEF ReadInv
<1>2. ASSUME UNCHANGED <<in, file, pos, eof>>,
             /\ pc' \in {"read", "iterate", "loaded", "collect", "selected", "aborted"}
             /\ pc' \notin {"read", "iterate"} => eof
             /\ pc' \in {"collect", "selected", "aborted"} => in.load = "topk"
      PROVE  ReadInv' /\ UNCHANGED <<in, file>>
    BY <1>2 DEF ReadInv
<1>5. CASE EndIteration
    <2>1. UNCHANGED <<in, file, pos, eof>> /\ pc' = "read"
        BY <1>5 DEF EndIteration
    <2> QED BY <1>2, <2>1
<1>6. CASE ReadingOver
    <2>1. /\ UNCHANGED <<in, file, pos, eof>> /\ eof
          /\ pc' = IF in.load = "topk" THEN "collect" ELSE "loaded"
        BY <1>6 DEF ReadingOver
    <2> QED BY <1>2, <2>1
<1>7. CASE Collect
    <2>1. UNCHANGED <<in, file, pos, eof, pc>>
        BY <1>7 DEF Collect
    <2> QED BY <1>2, <2>1 DEF ReadInv
<1>8. CASE Abort
    <2>1. UNCHANGED <<in, file, pos, eof>> /\ pc = "collect" /\ pc' = "aborted"
        BY <1>8 DEF Abort, Collecting
    <2> QED BY <1>2, <2>1 DEF ReadInv
<1>9. CASE Reduce
    <2>1. UNCHANGED <<in, file, pos, eof>> /\ pc = "collect" /\ pc' = "selected"
        BY <1>9 DEF Reduce
    <2> QED BY <1>2, <2>1 DEF ReadInv
<1>3. CASE UNCHANGED loopVars
    BY <1>3 DEF ReadInv, loopVars
<1>4. CASE \E t \in Tasks : TaskFinishes(t)
    BY <1>4 DEF ReadInv, TaskFinishes
<1> QED
    BY <1>1, <1>3, <1>4, <1>5, <1>6, <1>7, <1>8, <1>9
    DEF Next, Loop, Exit, TaskStarts, PoolCloses, Over, vars, loopVars

-----------------------------------------------------------------------------
(* The chunks *)

Chunk == [start : Nat, docs : Seq(Document)]

\* The documents of the first t chunks of a list.
Joined(list, t) == FlattenSeq([u \in 1..t |-> list[u].docs])

LEMMA ChunkDocsOf ==
    ASSUME NEW list \in Seq(Chunk), NEW t \in 0..Len(list)
    PROVE  [u \in 1..t |-> list[u].docs] \in Seq(Seq(Document)) /\ Joined(list, t) \in Seq(Document)
<1> DEFINE d == [u \in 1..t |-> list[u].docs]
<1>1. ASSUME NEW u \in 1..t PROVE list[u].docs \in Seq(Document)
    <2>1. u \in 1..Len(list)
        BY LenProperties
    <2>2. list[u] \in Chunk
        BY <2>1, ElementOfSeq
    <2> QED BY <2>2 DEF Chunk
<1>2. d \in Seq(Seq(Document))
    <2> DEFINE T == Seq(Document)
    <2>1. d \in [1..t -> T] /\ t \in Nat
        BY <1>1, LenProperties
    <2> HIDE DEF d, T
    <2>2. d \in Seq(T)
        BY <2>1, SeqDef
    <2> QED BY <2>2 DEF T
<1>3. Joined(list, t) = FlattenSeq(d)
    BY DEF Joined
<1> HIDE DEF d
<1>4. FlattenSeq(d) \in Seq(Document)
    BY <1>2, FlattenTyped
<1> QED BY <1>2, <1>3, <1>4 DEF d

LEMMA JoinedIs ==
    ASSUME NEW list \in Seq(Chunk), NEW t \in 1..Len(list)
    PROVE  /\ list[t].docs \in Seq(Document)
           /\ Joined(list, t - 1) \in Seq(Document) /\ Joined(list, t) \in Seq(Document)
           /\ Joined(list, t) = Joined(list, t - 1) \o list[t].docs
           /\ Len(Joined(list, t)) = Len(Joined(list, t - 1)) + Len(list[t].docs)
<1> DEFINE T == Seq(Document)
           d(k) == [u \in 1..k |-> list[u].docs]
           e == list[t].docs
<1>1. t \in 0..Len(list) /\ t - 1 \in 0..Len(list) /\ t \in Nat /\ t - 1 \in Nat /\ t - 1 + 1 = t
    BY LenProperties
<1>2. e \in Seq(Document)
    <2>1. list[t] \in Chunk
        BY ElementOfSeq
    <2> QED BY <2>1 DEF Chunk
<1>3. d(t) \in Seq(T) /\ d(t - 1) \in Seq(T)
    BY <1>1, ChunkDocsOf
<1>4. d(t) = Append(d(t - 1), e)
    <2>1. Len(d(t)) = t
        <3>1. DOMAIN d(t) = 1..t
            OBVIOUS
        <3>2. DOMAIN d(t) = 1..Len(d(t)) /\ Len(d(t)) \in Nat
            <4> HIDE DEF d, T
            <4> QED BY <1>3, LenProperties
        <3> HIDE DEF d
        <3> QED BY <1>1, <3>1, <3>2
    <2>2. Len(d(t - 1)) = t - 1
        <3>1. DOMAIN d(t - 1) = 1..(t - 1)
            OBVIOUS
        <3>2. DOMAIN d(t - 1) = 1..Len(d(t - 1)) /\ Len(d(t - 1)) \in Nat
            <4> HIDE DEF d, T
            <4> QED BY <1>3, LenProperties
        <3> HIDE DEF d
        <3> QED BY <1>1, <3>1, <3>2
    <2>3. \A u \in 1..(t - 1) : d(t)[u] = d(t - 1)[u]
        BY <1>1
    <2>4. d(t)[t] = e
        BY <1>1
    <2> HIDE DEF d
    <2>5. e \in T
        BY <1>2
    <2> HIDE DEF e, T
    <2>6. /\ Append(d(t - 1), e) \in Seq(T) /\ Len(Append(d(t - 1), e)) = Len(d(t - 1)) + 1
          /\ \A u \in 1..Len(d(t - 1)) : Append(d(t - 1), e)[u] = d(t - 1)[u]
          /\ Append(d(t - 1), e)[Len(d(t - 1)) + 1] = e
        BY <1>3, <2>5, AppendProperties
    <2>7. \A u \in 1..t : d(t)[u] = Append(d(t - 1), e)[u]
        BY <1>1, <2>2, <2>3, <2>4, <2>6
    <2>8. Len(d(t)) = Len(Append(d(t - 1), e))
        BY <1>1, <2>1, <2>2, <2>6
    <2> QED BY <1>3, <2>1, <2>6, <2>7, <2>8, SeqEqual
<1>5. Joined(list, t) = FlattenSeq(d(t)) /\ Joined(list, t - 1) = FlattenSeq(d(t - 1))
    BY DEF Joined
<1> HIDE DEF d, e
<1>6. FlattenSeq(Append(d(t - 1), e)) = FlattenSeq(d(t - 1)) \o e
    <2>1. d(t - 1) \in Seq(Seq(Document))
        BY <1>3
    <2> QED BY <1>2, <2>1, FlattenAppend
<1>7. Joined(list, t - 1) \in Seq(Document) /\ Joined(list, t) \in Seq(Document)
    BY <1>1, ChunkDocsOf
<1>8. Joined(list, t) = Joined(list, t - 1) \o e
    BY <1>4, <1>5, <1>6
<1>9. Len(Joined(list, t - 1) \o e) = Len(Joined(list, t - 1)) + Len(e)
    BY <1>2, <1>7, ConcatIs
<1> QED BY <1>2, <1>7, <1>8, <1>9 DEF e

\* A chunk appended moves nothing in front of it.
LEMMA JoinedStays ==
    ASSUME NEW list \in Seq(Chunk), NEW chunk \in Chunk, NEW t \in 0..Len(list)
    PROVE  Joined(Append(list, chunk), t) = Joined(list, t)
<1>1. \A u \in 1..t : Append(list, chunk)[u] = list[u]
    <2>1. \A u \in 1..t : u \in 1..Len(list)
        BY LenProperties
    <2>2. \A u \in 1..Len(list) : Append(list, chunk)[u] = list[u]
        BY AppendProperties
    <2> QED BY <2>1, <2>2
<1>2. [u \in 1..t |-> Append(list, chunk)[u].docs] = [u \in 1..t |-> list[u].docs]
    BY <1>1
<1> QED BY <1>2 DEF Joined

\* A text in two parts.
LEMMA CutText ==
    ASSUME NEW text \in Seq(Nat), NEW p \in 0..Len(text), NEW r \in p..Len(text)
    PROVE  /\ SubSeq(text, 1, p) \in Seq(Nat) /\ SubSeq(text, p + 1, r) \in Seq(Nat)
           /\ SubSeq(text, 1, p) \o SubSeq(text, p + 1, r) = SubSeq(text, 1, r)
           /\ p = 0 \/ text[p] = NL => EndsLine(SubSeq(text, 1, p))
<1>1. Len(text) \in Nat /\ p \in Nat /\ r \in Nat /\ p <= r /\ r <= Len(text)
    BY LenProperties
<1>2. \A c \in 1..Len(text) : text[c] \in Nat
    BY ElementOfSeq
<1>3. /\ SubSeq(text, 1, p) \in Seq(Nat)
      /\ Len(SubSeq(text, 1, p)) = IF 1 <= p THEN p - 1 + 1 ELSE 0
      /\ \A c \in 1..(p - 1 + 1) : SubSeq(text, 1, p)[c] = text[1 + c - 1]
    <2>1. 1 \in Int /\ p \in Int /\ \A c \in 1..p : text[c] \in Nat
        BY <1>1, <1>2
    <2> QED BY <2>1, SubSeqProperties
<1>4. SubSeq(text, p + 1, r) \in Seq(Nat)
    <2>1. p + 1 \in Int /\ r \in Int /\ \A c \in (p + 1)..r : text[c] \in Nat
        BY <1>1, <1>2
    <2> QED BY <2>1, SubSeqProperties
<1>5. SubSeq(text, 1, p) \o SubSeq(text, p + 1, r) = SubSeq(text, 1, r)
    <2>1. 1 \in 1..(Len(text) + 1) /\ p \in (1 - 1)..Len(text)
        BY <1>1
    <2> QED BY <2>1, ConcatAdjacentSubSeq
<1>6. ASSUME p = 0 \/ text[p] = NL PROVE EndsLine(SubSeq(text, 1, p))
    <2>1. CASE p = 0
        <3>1. SubSeq(text, 1, p) = <<>>
            BY <2>1, SubSeqEmpty
        <3> QED BY <3>1 DEF EndsLine
    <2>2. CASE p # 0
        <3>1. Len(SubSeq(text, 1, p)) = p /\ p \in 1..(p - 1 + 1) /\ 1 + p - 1 = p
            BY <1>1, <1>3, <2>2
        <3>2. SubSeq(text, 1, p)[p] = text[p]
            BY <1>3, <3>1
        <3> QED BY <1>6, <2>2, <3>1, <3>2 DEF EndsLine
    <2> QED BY <2>1, <2>2
<1> QED BY <1>3, <1>4, <1>5, <1>6

\* The chunks read so far hold the documents of the file up to the position, and each knows
\* how many came before it.
ChunkInv ==
    /\ chunks \in Seq(Chunk) /\ Len(chunks) <= MaxChunks
    /\ Joined(chunks, Len(chunks)) = ChunkDocs(in.load, SubSeq(file, 1, pos))
    /\ \A t \in 1..Len(chunks) : chunks[t].start = Len(Joined(chunks, t - 1))
    /\ pc = "iterate" => chunks # <<>> /\ doccnt = chunks[Len(chunks)].start
    /\ pc # "iterate" => doccnt = Len(Joined(chunks, Len(chunks)))

LEMMA JoinedLast ==
    ASSUME NEW list \in Seq(Chunk), NEW n \in Nat, Len(list) = n + 1
    PROVE  Joined(list, n + 1) = Joined(list, n) \o list[n + 1].docs
<1>1. PICK t \in 1..Len(list) : t = n + 1 /\ t - 1 = n
    OBVIOUS
<1>2. Joined(list, t) = Joined(list, t - 1) \o list[t].docs
    BY JoinedIs
<1> QED BY <1>1, <1>2

\* What one more chunk of documents does.
Extends(more, list, start, docs) ==
    /\ more \in Seq(Chunk) /\ Len(more) = Len(list) + 1
    /\ more # <<>> /\ more[Len(more)] = [start |-> start, docs |-> docs]
    /\ \A t \in 1..Len(list) : more[t] = list[t]
    /\ \A t \in 0..Len(list) : Joined(more, t) = Joined(list, t)
    /\ Joined(more, Len(more)) = Joined(list, Len(list)) \o docs

LEMMA OneMoreChunk ==
    ASSUME NEW list \in Seq(Chunk), NEW start \in Nat, NEW docs \in Seq(Document),
           NEW more, more = Append(list, [start |-> start, docs |-> docs])
    PROVE  Extends(more, list, start, docs)
<1> DEFINE chunk == [start |-> start, docs |-> docs]
<1>1. chunk \in Chunk /\ chunk.docs = docs
    BY DEF Chunk
<1> HIDE DEF chunk
<1>2. /\ more \in Seq(Chunk) /\ Len(more) = Len(list) + 1
      /\ \A t \in 1..Len(list) : more[t] = list[t]
      /\ more[Len(list) + 1] = chunk
    BY <1>1, AppendProperties DEF chunk
<1>3. \A t \in 0..Len(list) : Joined(more, t) = Joined(list, t)
    BY <1>1, JoinedStays DEF chunk
<1>4. PICK n \in Nat : n = Len(list)
    BY LenProperties
<1>6. Joined(more, n + 1) = Joined(more, n) \o more[n + 1].docs
    BY <1>2, <1>4, JoinedLast
<1>7. Joined(more, n) = Joined(list, n)
    BY <1>3, <1>4
<1>8. Joined(more, n + 1) = Joined(list, n) \o docs
    BY <1>1, <1>2, <1>4, <1>6, <1>7
<1>9. more # <<>>
    BY <1>2, <1>4, EmptySeq
<1> QED BY <1>2, <1>3, <1>4, <1>8, <1>9 DEF chunk, Extends

\* An iteration turns the characters it took over into the next documents of the file.
LEMMA ReadAppends ==
    ASSUME NoLineBehind, ReadInv, NEW text, Read(text)
    PROVE  /\ ChunkDocs(in.load, Taken(text)) \in Seq(Document)
           /\ ChunkDocs(in.load, SubSeq(file, 1, pos')) =
                 ChunkDocs(in.load, SubSeq(file, 1, pos)) \o ChunkDocs(in.load, Taken(text))
<1>1. pos' \in pos..Len(file) /\ Taken(text) = SubSeq(file, pos + 1, pos')
    BY TakenIs
<1>2. file \in Seq(Nat) /\ pos \in 0..Len(file) /\ in.load \in {"chunk", "stream", "buffer", "topk"}
    BY InputFacts DEF ReadInv
<1>3. pos = 0 \/ file[pos] = NL
    BY DEF ReadInv, Read
<1>4. /\ SubSeq(file, 1, pos) \in Seq(Nat) /\ Taken(text) \in Seq(Nat)
      /\ SubSeq(file, 1, pos) \o Taken(text) = SubSeq(file, 1, pos')
      /\ EndsLine(SubSeq(file, 1, pos))
    BY <1>1, <1>2, <1>3, CutText
<1>5. ChunkDocs(in.load, SubSeq(file, 1, pos) \o Taken(text)) =
         ChunkDocs(in.load, SubSeq(file, 1, pos)) \o ChunkDocs(in.load, Taken(text))
    BY <1>2, <1>4, ChunkDocsConcat
<1>6. ChunkDocs(in.load, Taken(text)) \in Seq(Document)
    BY <1>2, <1>4, ChunkDocsTyped
<1> QED BY <1>4, <1>5, <1>6

\* The chunk an iteration reads begins where the chunks before it end.
LEMMA ReadExtends ==
    ASSUME NoLineBehind, MemsetInTime, ReadInv, ChunkInv, ReadChunk
    PROVE  \E docs \in Seq(Document) :
              /\ Extends(chunks', chunks, doccnt, docs)
              /\ doccnt = Len(Joined(chunks, Len(chunks))) /\ doccnt \in Nat
              /\ ChunkDocs(in.load, SubSeq(file, 1, pos')) =
                    ChunkDocs(in.load, SubSeq(file, 1, pos)) \o docs
              /\ pos' \in 0..Len(file) /\ (pos' = Len(file) \/ file[pos'] = NL)
<1>1. PICK text \in ChunkTexts : /\ Read(text)
                   /\ \E docs \in CopiedBack(in.load, ChunkDocs(in.load, Taken(text))) :
                         chunks' = Append(chunks, [start |-> doccnt, docs |-> docs])
    BY DEF ReadChunk
<1>2. CopiedBack(in.load, ChunkDocs(in.load, Taken(text))) = {ChunkDocs(in.load, Taken(text))}
    <2>1. ~(in.load = "chunk" /\ MemsetLate)
        BY DEF MemsetInTime, ReadInv
    <2> QED BY <2>1 DEF CopiedBack
<1>3. /\ Read(text)
      /\ chunks' = Append(chunks, [start |-> doccnt, docs |-> ChunkDocs(in.load, Taken(text))])
    BY <1>1, <1>2
<1>4. PICK docs \in Seq(Document) :
         /\ docs = ChunkDocs(in.load, Taken(text))
         /\ ChunkDocs(in.load, SubSeq(file, 1, pos')) =
               ChunkDocs(in.load, SubSeq(file, 1, pos)) \o docs
    BY <1>3, ReadAppends
<1>5. chunks \in Seq(Chunk)
    BY DEF ChunkInv
<1>6. doccnt = Len(Joined(chunks, Len(chunks))) /\ doccnt \in Nat
    <2>1. Len(chunks) \in 0..Len(chunks)
        BY <1>5, LenProperties
    <2>2. Joined(chunks, Len(chunks)) \in Seq(Document)
        BY <1>5, <2>1, ChunkDocsOf
    <2>3. doccnt = Len(Joined(chunks, Len(chunks)))
        BY DEF ReadChunk, ChunkInv
    <2> QED BY <2>2, <2>3, LenProperties
<1>7. Extends(chunks', chunks, doccnt, docs)
    <2>1. chunks' = Append(chunks, [start |-> doccnt, docs |-> docs])
        BY <1>3, <1>4
    <2> QED BY <1>4, <1>5, <1>6, <2>1, OneMoreChunk
<1>8. pos' \in 0..Len(file) /\ (pos' = Len(file) \/ file[pos'] = NL)
    <2>1. /\ pos' \in pos..Len(file) /\ eof' \in BOOLEAN
          /\ eof' => pos' = Len(file)
          /\ ~eof' => file[pos'] = NL
        BY <1>3, TakenIs
    <2> QED BY <2>1 DEF ReadInv
<1> QED BY <1>4, <1>6, <1>7, <1>8

LEMMA ChunkStep == NoLineBehind /\ MemsetInTime /\ ReadInv /\ ChunkInv /\ [Next]_vars => ChunkInv'
<1> SUFFICES ASSUME NoLineBehind, MemsetInTime, ReadInv, ChunkInv, [Next]_vars PROVE ChunkInv'
    OBVIOUS
<1>1. PICK n \in Nat : n = Len(chunks)
    BY LenProperties DEF ChunkInv
<1>2. /\ chunks \in Seq(Chunk) /\ n <= MaxChunks
      /\ Joined(chunks, n) = ChunkDocs(in.load, SubSeq(file, 1, pos))
      /\ \A t \in 1..n : chunks[t].start = Len(Joined(chunks, t - 1))
      /\ UNCHANGED <<in, file>>
    BY <1>1, ReadStep DEF ChunkInv
<1>3. Joined(chunks, n) \in Seq(Document) /\ Len(Joined(chunks, n)) \in Nat
    <2>1. n \in 0..Len(chunks)
        BY <1>1
    <2>2. Joined(chunks, n) \in Seq(Document)
        BY <1>2, <2>1, ChunkDocsOf
    <2> QED BY <2>2, LenProperties
<1>4. ASSUME ReadChunk PROVE ChunkInv'
    <2>1. PICK docs \in Seq(Document) :
             /\ Extends(chunks', chunks, doccnt, docs)
             /\ doccnt = Len(Joined(chunks, Len(chunks))) /\ doccnt \in Nat
             /\ ChunkDocs(in.load, SubSeq(file, 1, pos')) =
                   ChunkDocs(in.load, SubSeq(file, 1, pos)) \o docs
        BY <1>4, ReadExtends
    <2>2. n < MaxChunks /\ pc' = "iterate" /\ doccnt' = doccnt
        BY <1>1, <1>4 DEF ReadChunk
    <2>4. /\ chunks' \in Seq(Chunk) /\ Len(chunks') = n + 1 /\ chunks' # <<>>
          /\ chunks'[Len(chunks')] = [start |-> doccnt, docs |-> docs]
          /\ \A t \in 1..n : chunks'[t] = chunks[t]
          /\ \A t \in 0..n : Joined(chunks', t) = Joined(chunks, t)
          /\ Joined(chunks', Len(chunks')) = Joined(chunks, n) \o docs
        BY <1>1, <2>1 DEF Extends
    <2>3. doccnt = Len(Joined(chunks, n))
        BY <1>1, <2>1
    <2>5. Len(chunks') <= MaxChunks
        BY <2>2, <2>4, PipelineAssumption
    <2>6. Joined(chunks', Len(chunks')) = ChunkDocs(in'.load, SubSeq(file', 1, pos'))
        BY <1>2, <2>1, <2>4
    <2>7. ASSUME NEW t \in 1..(n + 1)
          PROVE  chunks'[t].start = Len(Joined(chunks', t - 1))
        <3>1. CASE t \in 1..n
            <4>1. t - 1 \in 0..n
                BY <3>1
            <4> QED BY <1>2, <2>4, <3>1, <4>1
        <3>2. CASE t = n + 1
            <4>1. t - 1 = n /\ n \in 0..n
                BY <3>2
            <4>2. chunks'[t].start = doccnt
                BY <2>4, <3>2
            <4> QED BY <2>3, <2>4, <4>1, <4>2
        <3> QED BY <3>1, <3>2
    <2>8. doccnt' = chunks'[Len(chunks')].start
        BY <2>2, <2>4
    <2> QED BY <2>2, <2>4, <2>5, <2>6, <2>7, <2>8 DEF ChunkInv
<1>5. ASSUME UNCHANGED <<pos, chunks>>, pc' = "iterate" => pc = "iterate" /\ doccnt' = doccnt,
             pc' # "iterate" => doccnt' = Len(Joined(chunks, Len(chunks)))
      PROVE  ChunkInv'
    BY <1>2, <1>5 DEF ChunkInv
<1>6. ASSUME UNCHANGED <<pos, chunks, doccnt>>, pc' = "iterate" <=> pc = "iterate" PROVE ChunkInv'
    BY <1>5, <1>6 DEF ChunkInv
<1>7. ASSUME EndIteration PROVE ChunkInv'
    <2>1. /\ chunks # <<>> /\ doccnt = chunks[n].start
          /\ doccnt' = doccnt + Len(chunks[n].docs) /\ pc' = "read" /\ UNCHANGED <<pos, chunks>>
        BY <1>1, <1>7 DEF EndIteration, ChunkInv
    <2>2. n \in 1..n
        BY <1>1, <1>2, <2>1, EmptySeq
    <2>3. Len(Joined(chunks, n)) = Len(Joined(chunks, n - 1)) + Len(chunks[n].docs)
        BY <1>1, <1>2, <2>2, JoinedIs
    <2>4. doccnt' = Len(Joined(chunks, n))
        BY <1>2, <2>1, <2>2, <2>3
    <2> QED BY <1>1, <1>5, <2>1, <2>4
<1>8. CASE ReadingOver
    BY <1>6, <1>8 DEF ReadingOver
<1>9. CASE Collect
    BY <1>6, <1>9 DEF Collect
<1>10. CASE Abort
    BY <1>6, <1>10 DEF Abort, Collecting
<1>11. CASE Reduce
    BY <1>6, <1>11 DEF Reduce
<1>12. CASE UNCHANGED loopVars
    BY <1>6, <1>12 DEF loopVars
<1>13. ASSUME NEW t \in Tasks, TaskFinishes(t) PROVE ChunkInv'
    BY <1>6, <1>13 DEF TaskFinishes
<1> QED
    BY <1>4, <1>7, <1>8, <1>9, <1>10, <1>11, <1>12, <1>13
    DEF Next, Loop, Exit, TaskStarts, PoolCloses, Over, vars, loopVars

\* Nothing is read yet.
LEMMA NothingRead ==
    ASSUME NEW load \in {"chunk", "stream", "buffer", "topk"}
    PROVE  ChunkDocs(load, <<>>) = <<>> /\ Joined(<<>>, 0) = <<>>
<1>1. <<>> \in Seq(Nat) /\ EndsLine(<<>>) /\ <<>> \in Seq(Chunk) /\ Len(<<>>) = 0
    BY EmptySeq DEF EndsLine
<1>2. <<>> \o <<>> = <<>>
    BY <1>1, ConcatEmptySeq
<1>3. PICK docs \in Seq(Document) : docs = ChunkDocs(load, <<>>) /\ docs = docs \o docs
    <2>1. /\ ChunkDocs(load, <<>>) \in Seq(Document)
          /\ ChunkDocs(load, <<>> \o <<>>) = ChunkDocs(load, <<>>) \o ChunkDocs(load, <<>>)
        BY <1>1, ChunkDocsConcat
    <2> QED BY <1>2, <2>1
<1>4. docs = <<>>
    <2>1. Len(docs) = Len(docs) + Len(docs) /\ Len(docs) \in Nat
        BY <1>3, ConcatIs, LenProperties
    <2>2. Len(docs) = 0
        BY <2>1
    <2> QED BY <2>2, EmptySeq
<1> DEFINE none == [u \in 1..0 |-> <<>>[u].docs]
<1>5. none = <<>>
    <2>1. 0 \in 0..Len(<<>>)
        BY <1>1
    <2>2. none \in Seq(Seq(Document))
        BY <1>1, <2>1, ChunkDocsOf
    <2>3. DOMAIN none = {}
        OBVIOUS
    <2> HIDE DEF none
    <2>4. Len(none) = 0
        <3>1. DOMAIN none = 1..Len(none) /\ Len(none) \in Nat
            BY <2>2, LenProperties
        <3> QED BY <2>3, <3>1
    <2> QED BY <2>2, <2>4, EmptySeq
<1>6. Joined(<<>>, 0) = FlattenSeq(none)
    BY DEF Joined
<1> QED BY <1>3, <1>4, <1>5, <1>6, FlattenEmpty

LEMMA ReadInitially == Init => ReadInv /\ ChunkInv
<1> SUFFICES ASSUME Init PROVE ReadInv /\ ChunkInv
    OBVIOUS
<1>1. /\ in \in Inputs /\ file = in.text /\ pos = 0 /\ eof = FALSE /\ pc = "read"
      /\ chunks = <<>> /\ doccnt = 0
    BY DEF Init, ReaderInit
<1>2. ReadInv
    <2>1. file \in Seq(Nat)
        BY <1>1, PipelineAssumption
    <2>2. Len(file) \in Nat
        BY <2>1, LenProperties
    <2>3. pos \in 0..Len(file)
        BY <1>1, <2>2
    <2> QED BY <1>1, <2>3 DEF ReadInv
<1>3. ChunkInv
    <2>1. SubSeq(file, 1, pos) = <<>>
        BY <1>1, SubSeqEmpty
    <2>2. ChunkDocs(in.load, <<>>) = <<>> /\ Joined(<<>>, 0) = <<>>
        BY <1>2, InputFacts, NothingRead
    <2>3. chunks \in Seq(Chunk) /\ Len(chunks) = 0 /\ Len(<<>>) = 0
        BY <1>1, EmptySeq
    <2>4. 1..Len(chunks) = {} /\ 0 <= MaxChunks
        BY <2>3, PipelineAssumption
    <2> QED BY <1>1, <2>1, <2>2, <2>3, <2>4 DEF ChunkInv
<1> QED BY <1>2, <1>3

LEMMA ChunkInvariant ==
    ASSUME NoLineBehind, MemsetInTime
    PROVE  Spec => [](ReadInv /\ ChunkInv)
<1>1. ReadInv /\ ChunkInv /\ [Next]_vars => (ReadInv /\ ChunkInv)'
    BY ReadStep, ChunkStep
<1> QED BY ReadInitially, <1>1, PTL DEF Spec

\* The file read at once goes through the same parser.
LEMMA WholeFileIs == WholeFile = ChunkDocs(in.load, file)
<1>1. CASE in.load = "buffer"
    <2>1. ChunkDocs(in.load, file) = GetlineDocs(Rows(file))
        BY <1>1, Zenon DEF ChunkDocs
    <2> QED BY <1>1, <2>1 DEF WholeFile, LoadFileLine
<1> QED BY <1>1 DEF WholeFile

\* What is in front of a newline is where the documents of the file begin.
LEMMA FilePrefix ==
    ASSUME ReadInv, NEW p \in 0..Len(file), p = 0 \/ file[p] = NL \/ p = Len(file)
    PROVE  \E rest \in Seq(Document) :
              WholeFile = ChunkDocs(in.load, SubSeq(file, 1, p)) \o rest
<1>1. file \in Seq(Nat) /\ in.load \in {"chunk", "stream", "buffer", "topk"}
    BY InputFacts
<1>2. SubSeq(file, 1, Len(file)) = file /\ Len(file) \in Nat
    BY <1>1, SubSeqFull, LenProperties
<1>3. CASE p = Len(file)
    <2>1. WholeFile \in Seq(Document) /\ <<>> \in Seq(Document)
        BY <1>1, WholeFileIs, ChunkDocsTyped, EmptySeq
    <2>2. WholeFile \o <<>> = WholeFile
        BY <2>1, ConcatEmptySeq
    <2>3. WholeFile = ChunkDocs(in.load, SubSeq(file, 1, p))
        BY <1>2, <1>3, WholeFileIs
    <2> QED BY <2>1, <2>2, <2>3
<1>4. CASE p = 0 \/ file[p] = NL
    <2>1. Len(file) \in p..Len(file)
        <3>1. Len(file) \in Nat
            BY <1>2
        <3> QED BY <3>1
    <2>2. PICK a \in Seq(Nat), b \in Seq(Nat) :
             /\ a = SubSeq(file, 1, p) /\ a \o b = file /\ EndsLine(a)
        <3>1. /\ SubSeq(file, 1, p) \in Seq(Nat) /\ SubSeq(file, p + 1, Len(file)) \in Seq(Nat)
              /\ SubSeq(file, 1, p) \o SubSeq(file, p + 1, Len(file)) = SubSeq(file, 1, Len(file))
              /\ EndsLine(SubSeq(file, 1, p))
            BY <1>1, <1>4, <2>1, CutText
        <3> QED BY <1>2, <3>1
    <2>3. ChunkDocs(in.load, a \o b) = ChunkDocs(in.load, a) \o ChunkDocs(in.load, b)
        BY <1>1, <2>2, ChunkDocsConcat
    <2>4. ChunkDocs(in.load, b) \in Seq(Document)
        BY <1>1, ChunkDocsTyped
    <2> QED BY <2>2, <2>3, <2>4, WholeFileIs
<1> QED BY <1>3, <1>4

\* Whatever was read so far is where the file begins, all of it once the loop is over.
LEMMA ReadSoFar ==
    ASSUME ReadInv, ChunkInv
    PROVE  /\ Loaded = Joined(chunks, Len(chunks))
           /\ Loaded \in Seq(Document) /\ WholeFile \in Seq(Document)
           /\ eof => Loaded = WholeFile
           /\ \E rest \in Seq(Document) : WholeFile = Loaded \o rest
<1>1. /\ file \in Seq(Nat) /\ pos \in 0..Len(file)
      /\ in.load \in {"chunk", "stream", "buffer", "topk"}
    BY InputFacts DEF ReadInv
<1>2. chunks \in Seq(Chunk) /\ Len(chunks) \in Nat /\ Len(file) \in Nat
    BY <1>1, LenProperties DEF ChunkInv
<1>3. Loaded = Joined(chunks, Len(chunks))
    <2>1. DOMAIN chunks = 1..Len(chunks)
        BY <1>2, LenProperties
    <2> QED BY <2>1 DEF Loaded, Joined
<1>4. Loaded = ChunkDocs(in.load, SubSeq(file, 1, pos))
    BY <1>3 DEF ChunkInv
<1>5. Loaded \in Seq(Document)
    <2>1. Len(chunks) \in 0..Len(chunks)
        BY <1>2
    <2> QED BY <1>2, <1>3, <2>1, ChunkDocsOf
<1>6. WholeFile \in Seq(Document)
    BY <1>1, WholeFileIs, ChunkDocsTyped
<1>7. SubSeq(file, 1, Len(file)) = file
    BY <1>1, SubSeqFull
<1>8. eof => Loaded = WholeFile
    BY <1>4, <1>7, WholeFileIs DEF ReadInv
<1>9. \E rest \in Seq(Document) : WholeFile = Loaded \o rest
    <2>1. pos = 0 \/ file[pos] = NL \/ pos = Len(file)
        BY DEF ReadInv
    <2> QED BY <1>1, <1>4, <2>1, FilePrefix
<1> QED BY <1>3, <1>5, <1>6, <1>8, <1>9

LEMMA ConcatPrefix ==
    ASSUME NEW S, NEW s \in Seq(S), NEW t \in Seq(S)
    PROVE  IsPrefix(s, s \o t)
<1>1. Len(s) \in Nat /\ Len(t) \in Nat /\ Len(s \o t) = Len(s) + Len(t)
    BY LenProperties, ConcatIs
<1>2. SubSeq(s, 1, Len(s)) = SubSeq(s \o t, 1, Len(s))
    <2>1. CASE Len(s) = 0
        <3>1. SubSeq(s, 1, 0) = <<>> /\ SubSeq(s \o t, 1, 0) = <<>>
            BY SubSeqEmpty
        <3> QED BY <2>1, <3>1
    <2>2. CASE Len(s) # 0
        <3>1. 1 \in 1..Len(s) /\ Len(s) \in 1..Len(s)
            BY <1>1, <2>2
        <3> QED BY <3>1, SubSeqOfConcat1
    <2> QED BY <2>1, <2>2
<1>3. Len(s) <= Len(s \o t)
    BY <1>1
<1> QED BY <1>2, <1>3 DEF IsPrefix

\* The chunks of every loader are the lines of the file, each once and in order, however long
\* the file, the buffer and the lines are, as long as each line fits the buffer: where the
\* position moves back to, no line is lost, doubled or split, and every chunk knows how many
\* documents came before it.
THEOREM ReadingLosesNoLine ==
    ASSUME NoLineBehind, MemsetInTime
    PROVE  Spec => []ChunksAreLines
<1>1. ReadInv /\ ChunkInv => ChunksAreLines
    <2> SUFFICES ASSUME ReadInv, ChunkInv PROVE ChunksAreLines
        OBVIOUS
    <2>1. /\ Loaded = Joined(chunks, Len(chunks))
          /\ Loaded \in Seq(Document)
          /\ eof => Loaded = WholeFile
        BY ReadSoFar
    <2>2. IsPrefix(Loaded, WholeFile)
        <3>1. PICK rest \in Seq(Document) : WholeFile = Loaded \o rest
            BY ReadSoFar
        <3> QED BY <2>1, <3>1, ConcatPrefix
    <2>3. pc \notin {"read", "iterate"} => Loaded = WholeFile /\ doccnt = Len(WholeFile)
        BY <2>1 DEF ReadInv, ChunkInv
    <2>4. \A t \in DOMAIN chunks : chunks[t].start = Len(FlattenSeq([u \in 1..(t - 1) |-> chunks[u].docs]))
        <3>1. DOMAIN chunks = 1..Len(chunks)
            BY LenProperties DEF ChunkInv
        <3>2. \A t \in 1..Len(chunks) : chunks[t].start = Len(Joined(chunks, t - 1))
            BY DEF ChunkInv
        <3>3. \A t \in 1..Len(chunks) :
                 Joined(chunks, t - 1) = FlattenSeq([u \in 1..(t - 1) |-> chunks[u].docs])
            BY DEF Joined
        <3> QED BY <3>1, <3>2, <3>3
    <2> QED BY <2>2, <2>3, <2>4 DEF ChunksAreLines
<1> QED BY ChunkInvariant, <1>1, PTL

-----------------------------------------------------------------------------
(* The pool *)

\* The pool knows only chunks that were read.
PoolInv ==
    /\ status \in [Tasks -> Pool!Status]
    /\ backlog \in Seq(1..Len(chunks))
    /\ phase \in {"open", "closing", "closed"}
    /\ \A t \in Tasks : status[t] # "new" => t \in 1..Len(chunks)

LEMMA PoolStep == NoLineBehind /\ MemsetInTime /\ ReadInv /\ ChunkInv /\ PoolInv /\ [Next]_vars => PoolInv'
<1> SUFFICES ASSUME NoLineBehind, MemsetInTime, ReadInv, ChunkInv, PoolInv, [Next]_vars PROVE PoolInv'
    OBVIOUS
<1>0. PICK n \in Nat : n = Len(chunks) /\ n <= MaxChunks /\ chunks \in Seq(Chunk)
    BY LenProperties DEF ChunkInv
<1>1. /\ status \in [Tasks -> Pool!Status]
      /\ backlog \in Seq(1..n)
      /\ phase \in {"open", "closing", "closed"}
      /\ \A t \in Tasks : status[t] # "new" => t \in 1..n
    BY <1>0 DEF PoolInv
<1>2. ASSUME UNCHANGED chunks, UNCHANGED poolVars PROVE PoolInv'
    BY <1>2 DEF PoolInv, poolVars
<1>3. ASSUME ReadChunk PROVE PoolInv'
    <2>1. Len(chunks') = n + 1
        <3>1. PICK chunk : chunks' = Append(chunks, chunk)
            BY <1>3 DEF ReadChunk
        <3>2. chunks' \in Seq(Chunk)
            BY ChunkStep DEF ChunkInv
        <3> QED BY <1>0, <3>1
    <2>2. n + 1 \in Tasks
        BY <1>0, <1>3, PipelineAssumption DEF ReadChunk, Tasks
    <2>3. backlog \in Seq(1..(n + 1)) /\ n + 1 \in 1..(n + 1)
        BY <1>0, <1>1, SeqMonotonic
    <2>4. CASE in.pool
        <3>1. /\ status' = [status EXCEPT ![n + 1] = "queued"]
              /\ backlog' = Append(backlog, n + 1)
              /\ UNCHANGED phase
            BY <1>0, <1>3, <2>4 DEF ReadChunk, EnqueueTask, Pool!Accept
        <3>2. backlog' \in Seq(1..(n + 1))
            BY <2>3, <3>1, AppendProperties
        <3>3. status' \in [Tasks -> Pool!Status]
            BY <1>1, <3>1 DEF Pool!Status
        <3>4. \A t \in Tasks : status'[t] # "new" => t \in 1..(n + 1)
            BY <1>1, <3>1
        <3> QED BY <1>1, <2>1, <3>1, <3>2, <3>3, <3>4 DEF PoolInv
    <2>5. CASE ~in.pool
        <3>1. UNCHANGED <<status, backlog, phase>>
            BY <1>3, <2>5 DEF ReadChunk, EnqueueTask, poolVars
        <3>2. \A t \in Tasks : status'[t] # "new" => t \in 1..(n + 1)
            BY <1>1, <3>1
        <3> QED BY <1>1, <2>1, <2>3, <3>1, <3>2 DEF PoolInv
    <2> QED BY <2>4, <2>5
<1>4. CASE EndIteration
    BY <1>2, <1>4 DEF EndIteration, poolVars
<1>5. CASE ReadingOver \/ Collect \/ Abort \/ Reduce
    BY <1>2, <1>5 DEF ReadingOver, Collect, Abort, Reduce, poolVars
<1>6. CASE TaskStarts
    <2>1. /\ backlog # <<>> /\ UNCHANGED <<chunks, phase>>
          /\ status' = [status EXCEPT ![Head(backlog)] = "running"]
          /\ backlog' = Tail(backlog)
        BY <1>6 DEF TaskStarts, Pool!Start, loopVars
    <2>2. PICK t \in 1..n : t = Head(backlog)
        BY <1>1, <2>1, HeadTailProperties
    <2>3. backlog' \in Seq(1..n)
        BY <1>1, <2>1, HeadTailProperties
    <2>4. /\ status' \in [Tasks -> Pool!Status]
          /\ \A u \in Tasks : status'[u] # "new" => u \in 1..n
        BY <1>1, <2>1, <2>2 DEF Pool!Status
    <2> QED BY <1>0, <1>1, <2>1, <2>3, <2>4 DEF PoolInv
<1>7. ASSUME NEW t \in Tasks, TaskFinishes(t) PROVE PoolInv'
    <2>1. /\ status[t] = "running" /\ UNCHANGED <<chunks, backlog, phase>>
          /\ \E r \in Pool!Outcome : status' = [status EXCEPT ![t] = r]
        BY <1>7 DEF TaskFinishes, Pool!Finish
    <2>2. t \in 1..n
        BY <1>1, <2>1
    <2>3. /\ status' \in [Tasks -> Pool!Status]
          /\ \A u \in Tasks : status'[u] # "new" => u \in 1..n
        BY <1>1, <2>1, <2>2 DEF Pool!Status
    <2> QED BY <1>0, <1>1, <2>1, <2>3 DEF PoolInv
<1>8. CASE Exit \/ PoolCloses
    BY <1>8 DEF PoolInv, Exit, PoolCloses, Pool!BeginClose, Pool!Close, loopVars
<1>9. CASE UNCHANGED vars
    BY <1>2, <1>9 DEF vars, poolVars
<1> QED BY <1>3, <1>4, <1>5, <1>6, <1>7, <1>8, <1>9 DEF Next, Loop, Over

-----------------------------------------------------------------------------
(* The lists *)

IsSeq(s) == s \in Seq(Range(s))

\* A sequence of anything is one of its own elements.
LEMMA SeqIs ==
    ASSUME NEW S, NEW s \in Seq(S)
    PROVE  IsSeq(s)
<1>1. Len(s) \in Nat /\ DOMAIN s = 1..Len(s) /\ s = [n \in 1..Len(s) |-> s[n]]
    BY LenProperties, SeqDef
<1>2. \A n \in 1..Len(s) : s[n] \in Range(s)
    BY <1>1 DEF Range
<1>3. s \in [1..Len(s) -> Range(s)]
    BY <1>1, <1>2
<1>4. s \in Seq(Range(s))
    BY <1>1, <1>3, SeqDef
<1> QED BY <1>4 DEF IsSeq

LEMMA ConcatIsSeq ==
    ASSUME NEW s, NEW t, IsSeq(s), IsSeq(t)
    PROVE  /\ IsSeq(s \o t) /\ Len(s \o t) = Len(s) + Len(t)
           /\ Len(s) \in Nat /\ Len(t) \in Nat
<1> DEFINE S == Range(s) \cup Range(t)
<1>1. s \in Seq(S) /\ t \in Seq(S)
    <2>1. s \in Seq(Range(s)) /\ t \in Seq(Range(t))
        BY DEF IsSeq
    <2>2. Range(s) \subseteq S /\ Range(t) \subseteq S
        OBVIOUS
    <2> HIDE DEF S
    <2> QED BY <2>1, <2>2, SeqMonotonic
<1> HIDE DEF S
<1>2. s \o t \in Seq(S) /\ Len(s \o t) = Len(s) + Len(t)
    BY <1>1, ConcatIs
<1> QED BY <1>1, <1>2, SeqIs, LenProperties

\* partial_sort leaves k entries in front, whatever they are.
LEMMA PartialSortLen ==
    ASSUME NEW list, NEW k \in Nat
    PROVE  IsSeq(PartialSort(list, k)) /\ Len(PartialSort(list, k)) = k
<1> DEFINE f == [p \in 1..k |-> list[CHOOSE n \in 1..Len(list) : Rank(list, n) = p]]
           S == {f[p] : p \in 1..k}
<1>1. PartialSort(list, k) = f
    BY DEF PartialSort
<1>2. f \in [1..k -> S]
    OBVIOUS
<1>3. DOMAIN f = 1..k
    OBVIOUS
<1> HIDE DEF f, S
<1>4. f \in Seq(S)
    BY <1>2, SeqDef
<1>5. Len(f) = k
    BY <1>3, <1>4, LenProperties
<1>6. IsSeq(f)
    BY <1>4, SeqIs
<1> QED BY <1>1, <1>5, <1>6

\* Whatever was scored, a chunk gives its best TOPK, or all its documents.
LEMMA ResultLen ==
    ASSUME NEW start, NEW docs, Len(docs) \in Nat,
           NEW r \in ChunkResults(start, docs), NEW q \in DOMAIN Querys
    PROVE  IsSeq(r[q]) /\ Len(r[q]) = MinOf(TOPK, Len(docs)) /\ MinOf(TOPK, Len(docs)) \in 0..TOPK
<1>1. r[q] \in ChunkTopk(q, start, docs)
    BY DEF ChunkResults
<1>2. MinOf(TOPK, Len(docs)) \in 0..TOPK /\ MinOf(TOPK, Len(docs)) \in Nat
    BY PipelineAssumption DEF MinOf
<1>3. PICK list : r[q] = PartialSort(list, MinOf(TOPK, Len(docs)))
    <2>1. PICK entries : r[q] \in SelectedFrom(entries, MinOf(TOPK, Len(docs)))
        BY <1>1 DEF ChunkTopk
    <2> QED BY <2>1, Zenon DEF SelectedFrom
<1> QED BY <1>2, <1>3, PartialSortLen

LEMMA ChunkIs ==
    ASSUME NEW list \in Seq(Chunk), NEW t \in 1..Len(list)
    PROVE  list[t].start \in Nat /\ list[t].docs \in Seq(Document) /\ Len(list[t].docs) \in Nat
<1>1. list[t] \in Chunk
    BY ElementOfSeq
<1>2. list[t].start \in Nat /\ list[t].docs \in Seq(Document)
    BY <1>1 DEF Chunk
<1> QED BY <1>2, LenProperties

\* A task sees as many documents as its chunk has, its own or a later chunk's.
LEMMA SeenLen ==
    ASSUME ChunkInv, NEW t \in 1..Len(chunks), NEW docs \in DocsSeen(t)
    PROVE  Len(docs) = Len(chunks[t].docs) /\ Len(docs) \in Nat
<1> DEFINE own == chunks[t].docs
<1>1. Len(chunks) \in Nat /\ \A u \in 1..Len(chunks) : chunks[u].docs \in Seq(Document)
    <2>1. chunks \in Seq(Chunk)
        BY DEF ChunkInv
    <2> QED BY <2>1, LenProperties, ChunkIs
<1>2. own \in Seq(Document) /\ Len(own) \in Nat
    BY <1>1, LenProperties
<1>3. CASE docs = own
    BY <1>2, <1>3
<1>4. CASE docs # own
    <2>1. PICK u \in (t + 1)..Len(chunks) : docs = SubSeq(Overlay(own, chunks[u].docs), 1, Len(own))
        BY <1>4 DEF DocsSeen
    <2>2. PICK new \in Seq(Document) : new = chunks[u].docs
        BY <1>1
    <2> DEFINE rest == SubSeq(own, Len(new) + 1, Len(own))
    <2> HIDE DEF own
    <2>3. Len(new) \in Nat /\ \A i \in 1..Len(own) : own[i] \in Document
        BY <1>2, LenProperties, ElementOfSeq
    <2>4. /\ rest \in Seq(Document)
          /\ Len(rest) = IF Len(new) + 1 <= Len(own) THEN Len(own) - (Len(new) + 1) + 1 ELSE 0
        <3>1. Len(new) + 1 \in Int /\ Len(own) \in Int
              /\ \A i \in (Len(new) + 1)..Len(own) : own[i] \in Document
            BY <1>2, <2>3
        <3> QED BY <3>1, SubSeqProperties
    <2> HIDE DEF rest
    <2>5. new \o rest \in Seq(Document) /\ Len(new \o rest) = Len(new) + Len(rest)
        BY <2>2, <2>4, ConcatIs
    <2>6. Len(new \o rest) >= Len(own)
        BY <1>2, <2>3, <2>4, <2>5
    <2>7. \A i \in 1..Len(own) : (new \o rest)[i] \in Document
        <3>1. \A i \in 1..Len(own) : i \in 1..Len(new \o rest)
            BY <1>2, <2>3, <2>4, <2>5, <2>6
        <3> QED BY <2>5, <3>1, ElementOfSeq
    <2>8. Len(SubSeq(new \o rest, 1, Len(own))) = IF 1 <= Len(own) THEN Len(own) - 1 + 1 ELSE 0
        <3>1. 1 \in Int /\ Len(own) \in Int
            BY <1>2
        <3> QED BY <2>7, <3>1, SubSeqProperties
    <2>9. Len(SubSeq(new \o rest, 1, Len(own))) = Len(own)
        BY <1>2, <2>8
    <2>10. docs = SubSeq(new \o rest, 1, Len(own))
        BY <2>1, <2>2 DEF Overlay, own, rest
    <2> QED BY <1>2, <2>9, <2>10 DEF own
<1> QED BY <1>3, <1>4

-----------------------------------------------------------------------------
(* The scores *)

\* A row without its newline.
LEMMA NumbersIs ==
    ASSUME NEW row \in Seq(Nat)
    PROVE  /\ Numbers(row) \in Seq(Nat)
           /\ Len(Numbers(row)) = IF row # <<>> /\ row[Len(row)] = NL THEN Len(row) - 1 ELSE Len(row)
           /\ \A n \in 1..Len(Numbers(row)) : Numbers(row)[n] = row[n]
<1>1. PICK l \in Nat : l = Len(row) /\ \A n \in 1..l : row[n] \in Nat
    BY LenProperties, ElementOfSeq
<1>2. CASE row # <<>> /\ row[l] = NL
    <2>1. Numbers(row) = SubSeq(row, 1, l - 1)
        BY <1>1, <1>2 DEF Numbers, Last, Front
    <2>2. l # 0
        BY <1>1, <1>2, EmptySeq
    <2>3. /\ SubSeq(row, 1, l - 1) \in Seq(Nat)
          /\ Len(SubSeq(row, 1, l - 1)) = IF 1 <= l - 1 THEN l - 1 - 1 + 1 ELSE 0
          /\ \A n \in 1..(l - 1 - 1 + 1) : SubSeq(row, 1, l - 1)[n] = row[1 + n - 1]
        <3>1. 1 \in Int /\ l - 1 \in Int /\ \A n \in 1..(l - 1) : row[n] \in Nat
            BY <1>1
        <3> QED BY <3>1, SubSeqProperties
    <2>4. Len(SubSeq(row, 1, l - 1)) = l - 1
        BY <2>2, <2>3
    <2>5. \A n \in 1..(l - 1) : n \in 1..(l - 1 - 1 + 1) /\ 1 + n - 1 = n
        OBVIOUS
    <2> QED BY <1>1, <1>2, <2>1, <2>3, <2>4, <2>5
<1>3. CASE ~(row # <<>> /\ row[l] = NL)
    <2>1. Numbers(row) = row
        BY <1>1, <1>3 DEF Numbers, Last
    <2> QED BY <1>1, <1>3, <2>1
<1> QED BY <1>2, <1>3

\* A literal of this size is kept out of the other proofs.
LEMMA LargestIs == LargestInt \in Nat
BY SMT DEF LargestInt

LEMMA CudfTyped ==
    ASSUME NEW row \in Seq(Nat)
    PROVE  CudfDoc(row) \in Seq(Nat) /\ Items(row) \in Seq(Nat)
<1>1. Items(row) \in Seq(Nat)
    BY NumbersIs DEF Items
<1>2. \A n \in 1..Len(Items(row)) : Items(row)[n] \in Nat
    BY <1>1, ElementOfSeq
<1>3. \A n \in 1..Len(Items(row)) : Atoi(Items(row)[n]) \in Nat
    BY <1>2, LargestIs DEF Atoi
<1>4. Len(Items(row)) \in Nat /\ DOMAIN Items(row) = 1..Len(Items(row))
    BY <1>1, LenProperties
<1>5. CudfDoc(row) \in [1..Len(Items(row)) -> Nat]
    BY <1>3, <1>4 DEF CudfDoc
<1>6. CudfDoc(row) \in Seq(Nat)
    BY <1>4, <1>5, SeqDef
<1> QED BY <1>1, <1>6

\* Where the selection can be judged: with memory used again a task may score another chunk's
\* documents.
Exact ==
    /\ in.load = "topk" /\ (in.pool => ~Reuse)
    /\ \A q \in DOMAIN Querys : Querys[q] \in Seq(Nat) /\ Querys[q] # <<>>

Score(q) == [d \in 0..(Len(WholeFile) - 1) |-> CudfScore(Querys[q], WholeFile[d + 1])]

\* The documents of the file are its rows.
LEMMA WholeRows ==
    ASSUME ReadInv, in.load = "topk"
    PROVE  /\ Rows(file) \in Seq(Seq(Nat)) /\ Len(WholeFile) = Len(Rows(file))
           /\ Len(WholeFile) \in Nat
           /\ \A n \in 1..Len(WholeFile) :
                 Rows(file)[n] \in Seq(Nat) /\ WholeFile[n] = CudfDoc(Rows(file)[n])
<1>1. file \in Seq(Nat)
    BY InputFacts
<1> DEFINE T == Seq(Nat)
           rows == Rows(file)
<1>2. rows \in Seq(T)
    BY <1>1, RowsAreSeq
<1>3. DOMAIN rows = 1..Len(rows) /\ Len(rows) \in Nat /\ \A n \in 1..Len(rows) : rows[n] \in T
    <2> HIDE DEF rows, T
    <2> QED BY <1>2, LenProperties, ElementOfSeq
<1>4. WholeFile = Docs(rows, CudfDoc)
    <2>1. ChunkDocs(in.load, file) = Docs(Rows(file), CudfDoc)
        BY Zenon DEF ChunkDocs
    <2> QED BY <2>1, WholeFileIs
<1> HIDE DEF rows
<1>5. WholeFile = [n \in DOMAIN rows |-> CudfDoc(rows[n])]
    BY <1>4 DEF Docs
<1>6. WholeFile \in Seq(Document)
    BY <1>1, InputFacts, WholeFileIs, ChunkDocsTyped
<1>7. Len(WholeFile) = Len(rows)
    <2>1. DOMAIN WholeFile = 1..Len(WholeFile) /\ Len(WholeFile) \in Nat
        BY <1>6, LenProperties
    <2>2. DOMAIN WholeFile = 1..Len(rows)
        BY <1>3, <1>5
    <2>3. Len(rows) \in Nat
        BY <1>3
    <2> QED BY <2>1, <2>2, <2>3
<1>8. \A n \in 1..Len(rows) : WholeFile[n] = CudfDoc(rows[n])
    BY <1>3, <1>5
<1> QED BY <1>2, <1>3, <1>7, <1>8 DEF rows

LEMMA ScoreFacts ==
    ASSUME ReadInv, Exact, NEW q \in DOMAIN Querys, NEW d \in 0..(Len(WholeFile) - 1)
    PROVE  Score(q)[d] = CudfScore(Querys[q], WholeFile[d + 1]) /\ Score(q)[d] \in Scores
<1> DEFINE query == Querys[q]  doc == WholeFile[d + 1]  long == MaxOf(Len(query), Len(doc))
<1>1. doc \in Seq(Nat)
    <2>1. Len(WholeFile) \in Nat /\ \A n \in 1..Len(WholeFile) :
             Rows(file)[n] \in Seq(Nat) /\ WholeFile[n] = CudfDoc(Rows(file)[n])
        BY WholeRows DEF Exact
    <2>2. d + 1 \in 1..Len(WholeFile)
        BY <2>1
    <2> QED BY <2>1, <2>2, CudfTyped
<1>2. query \in Seq(Nat) /\ query # <<>>
    BY DEF Exact
<1>3. long \in Nat \ {0}
    <2>1. Len(query) \in Nat /\ Len(query) # 0 /\ Len(doc) \in Nat
        BY <1>1, <1>2, LenProperties, EmptySeq
    <2> HIDE DEF query, doc
    <2> QED BY <2>1 DEF MaxOf
<1>4. Walk(query, doc) \in Nat
    <2>1. Len(doc) \in Nat
        BY <1>1, LenProperties
    <2>2. Walk(query, doc) \in 0..Len(doc)
        BY <2>1, WalkBound
    <2> QED BY <2>1, <2>2
<1>5. Score(q)[d] = CudfScore(query, doc)
    BY DEF Score
<1>6. CudfScore(query, doc) = <<Walk(query, doc), long>>
    BY DEF CudfScore, Fraction
<1> HIDE DEF query, doc, long
<1>7. CudfScore(query, doc) \in Scores
    BY <1>3, <1>4, <1>6 DEF Scores
<1> QED BY <1>5, <1>7 DEF query, doc

-----------------------------------------------------------------------------
(* Chunks in their places *)

\* The documents of a chunk are those of the file from its start on.
InPlace(t) ==
    /\ chunks[t].start + Len(chunks[t].docs) <= Len(WholeFile)
    /\ \A n \in 1..Len(chunks[t].docs) : WholeFile[chunks[t].start + n] = chunks[t].docs[n]

PlaceInv == \A t \in 1..Len(chunks) : InPlace(t)

LEMMA PlaceStep == NoLineBehind /\ MemsetInTime /\ ReadInv /\ ChunkInv /\ PlaceInv /\ [Next]_vars => PlaceInv'
<1> SUFFICES ASSUME NoLineBehind, MemsetInTime, ReadInv, ChunkInv, PlaceInv, [Next]_vars PROVE PlaceInv'
    OBVIOUS
<1>1. WholeFile' = WholeFile
    BY ReadStep DEF WholeFile
<1>2. PICK n \in Nat : n = Len(chunks)
    BY LenProperties DEF ChunkInv
<1>3. CASE UNCHANGED chunks
    BY <1>1, <1>3 DEF PlaceInv, InPlace
<1>4. CASE ReadChunk
    <2>1. PICK docs \in Seq(Document) :
             /\ Extends(chunks', chunks, doccnt, docs)
             /\ doccnt = Len(Joined(chunks, Len(chunks))) /\ doccnt \in Nat
             /\ ChunkDocs(in.load, SubSeq(file, 1, pos')) =
                   ChunkDocs(in.load, SubSeq(file, 1, pos)) \o docs
             /\ pos' \in 0..Len(file) /\ (pos' = Len(file) \/ file[pos'] = NL)
        BY <1>4, ReadExtends
    <2>2. PICK rest \in Seq(Document) : WholeFile = ChunkDocs(in.load, SubSeq(file, 1, pos')) \o rest
        BY <2>1, FilePrefix
    <2>3. PICK before \in Seq(Document) :
             before = ChunkDocs(in.load, SubSeq(file, 1, pos)) /\ Len(before) = doccnt
        <3>1. Joined(chunks, n) = ChunkDocs(in.load, SubSeq(file, 1, pos)) /\ chunks \in Seq(Chunk)
            BY <1>2 DEF ChunkInv
        <3>2. n \in 0..Len(chunks)
            BY <1>2
        <3>3. Joined(chunks, n) \in Seq(Document)
            BY <3>1, <3>2, ChunkDocsOf
        <3> QED BY <1>2, <2>1, <3>1, <3>3
    <2>4. WholeFile = (before \o docs) \o rest
        BY <2>1, <2>2, <2>3
    <2>5. Len(docs) \in Nat /\ Len(rest) \in Nat
        BY LenProperties
    <2> DEFINE both == before \o docs
    <2>6. /\ both \in Seq(Document) /\ Len(both) = doccnt + Len(docs)
          /\ \A i \in 1..Len(docs) : both[doccnt + i] = docs[i]
        BY <2>3, ConcatIs
    <2> HIDE DEF both
    <2>7. /\ Len(both \o rest) = doccnt + Len(docs) + Len(rest)
          /\ \A i \in 1..Len(both) : (both \o rest)[i] = both[i]
        <3>1. both \in Seq(Document)
            BY <2>6
        <3>2. /\ Len(both \o rest) = Len(both) + Len(rest)
              /\ \A i \in 1..Len(both) : (both \o rest)[i] = both[i]
            BY <3>1, ConcatIs
        <3> QED BY <2>6, <3>2
    <2>8. ASSUME NEW i \in 1..Len(docs) PROVE WholeFile[doccnt + i] = docs[i]
        <3>1. doccnt + i \in 1..Len(both)
            BY <2>1, <2>5, <2>6
        <3> QED BY <2>4, <2>6, <2>7, <3>1 DEF both
    <2>9. doccnt + Len(docs) <= Len(WholeFile)
        <3>1. Len(WholeFile) = doccnt + Len(docs) + Len(rest)
            BY <2>4, <2>7 DEF both
        <3> QED BY <2>1, <2>5, <3>1
    <2>10. /\ Len(chunks') = n + 1
           /\ chunks'[n + 1] = [start |-> doccnt, docs |-> docs]
           /\ \A t \in 1..n : chunks'[t] = chunks[t]
        BY <1>2, <2>1 DEF Extends
    <2>11. ASSUME NEW t \in 1..(n + 1) PROVE InPlace(t)'
        <3>1. CASE t \in 1..n
            BY <1>1, <1>2, <2>10, <3>1 DEF PlaceInv, InPlace
        <3>2. CASE t = n + 1
            <4>1. chunks'[t].start = doccnt /\ chunks'[t].docs = docs
                BY <2>10, <3>2
            <4> QED BY <1>1, <2>8, <2>9, <4>1 DEF InPlace
        <3> QED BY <3>1, <3>2
    <2> QED BY <2>10, <2>11 DEF PlaceInv
<1>5. CASE EndIteration \/ ReadingOver \/ Collect \/ Abort \/ Reduce
    BY <1>3, <1>5 DEF EndIteration, ReadingOver, Collect, Abort, Reduce
<1>6. CASE \E t \in Tasks : TaskFinishes(t)
    BY <1>3, <1>6 DEF TaskFinishes
<1> QED
    BY <1>3, <1>4, <1>5, <1>6 DEF Next, Loop, Exit, TaskStarts, PoolCloses, Over, vars, loopVars

-----------------------------------------------------------------------------
(* What a chunk answers *)

EndOf(t) == chunks[t].start + Len(chunks[t].docs)

LEMMA ChunkFacts ==
    ASSUME ChunkInv, NEW t \in 1..Len(chunks)
    PROVE  /\ chunks[t].start \in Nat /\ chunks[t].docs \in Seq(Document) /\ Len(chunks[t].docs) \in Nat
           /\ chunks[t].start = Len(Joined(chunks, t - 1)) /\ EndOf(t) = Len(Joined(chunks, t))
<1>1. chunks \in Seq(Chunk) /\ chunks[t].start = Len(Joined(chunks, t - 1))
    BY DEF ChunkInv
<1>2. Len(Joined(chunks, t)) = Len(Joined(chunks, t - 1)) + Len(chunks[t].docs)
    BY <1>1, JoinedIs
<1>3. /\ chunks[t].start \in Nat /\ chunks[t].docs \in Seq(Document)
      /\ Len(chunks[t].docs) \in Nat
    BY <1>1, ChunkIs
<1> QED BY <1>1, <1>2, <1>3 DEF EndOf

\* What a selection keeps of a range of documents: RAFT decides ties as it likes.
Keeps(list, score, from, to) ==
    IF in.raft THEN CoversTwice(list, score, from, to, TOPK)
    ELSE Covers(list, score, from, to, TOPK)

\* Every block that scores chunk t loads all tokens of every query.
Filled(t) == \A q \in DOMAIN Querys : Missing(Len(chunks[t].docs), Len(Querys[q])) = {}

\* A list of the best documents of chunk t.
Best(list, q, t) ==
    /\ IsSeq(list) /\ Len(list) <= TOPK
    /\ Exact /\ Filled(t) =>
             /\ Len(list) <= Len(chunks[t].docs)
             /\ Keeps(list, Score(q), chunks[t].start, EndOf(t))

\* A list gathered from the first t chunks.
Gathers(list, q, t) ==
    /\ IsSeq(list) /\ Len(list) <= TOPK * t
    /\ Exact /\ (\A u \in 1..t : Filled(u)) =>
             /\ Len(list) <= Len(Joined(chunks, t))
             /\ Keeps(list, Score(q), 0, Len(Joined(chunks, t)))

\* A query whose every token is loaded is on the shared memory as it is.
LEMMA WholeQueryOnShm ==
    ASSUME NEW query \in Seq(Nat), NEW n \in Nat, NEW d \in 0..(n - 1), NEW junk,
           Missing(n, Len(query)) = {}
    PROVE  QueryOnShm(query, n, d, junk) = query
<1>1. \A i \in 1..Len(query) : LoadedByBlock(n, d, i)
    BY DEF Missing
<1>2. query = [i \in 1..Len(query) |-> query[i]]
    BY SeqDef, LenProperties
<1> QED BY <1>1, <1>2 DEF QueryOnShm

\* The scores of a chunk's documents are those of the documents at their places, where all
\* of the query was loaded.
LEMMA EntriesAreScores ==
    ASSUME ReadInv, ChunkInv, PlaceInv, Exact, NEW t \in 1..Len(chunks), Filled(t),
           NEW q \in DOMAIN Querys
    PROVE  /\ \A entries \in ChunkEntries(q, chunks[t].start, chunks[t].docs) :
                 entries = ChunkList(Score(q), chunks[t].start, Len(chunks[t].docs))
           /\ \A d \in chunks[t].start..(EndOf(t) - 1) : Score(q)[d] \in Scores
<1>1. PICK start \in Nat, docs \in Seq(Document), size \in Nat :
         start = chunks[t].start /\ docs = chunks[t].docs /\ size = Len(docs)
    BY ChunkFacts
<1>2. PICK l \in Nat : l = Len(WholeFile)
    BY WholeRows DEF Exact
<1>3. start + size <= l /\ \A n \in 1..size : WholeFile[start + n] = docs[n]
    BY <1>1, <1>2 DEF PlaceInv, InPlace
<1>4. \A d \in start..(start + size - 1) : d \in 0..(l - 1)
    BY <1>3
<1>5. \A d \in 0..(l - 1) :
         Score(q)[d] = CudfScore(Querys[q], WholeFile[d + 1]) /\ Score(q)[d] \in Scores
    BY <1>2, ScoreFacts
<1>6. ASSUME NEW n \in 1..size
      PROVE  Score(q)[start + n - 1] = CudfScore(Querys[q], docs[n])
    <2>1. start + n - 1 \in start..(start + size - 1) /\ start + n - 1 + 1 = start + n
        OBVIOUS
    <2> QED BY <1>3, <1>4, <1>5, <2>1
<1>7. DOMAIN docs = 1..size
    BY <1>1, LenProperties
<1>8. PICK query \in Seq(Nat) : query = Querys[q] /\ Missing(size, Len(query)) = {}
    BY <1>1 DEF Exact, Filled
<1>9. ASSUME NEW entries \in ChunkEntries(q, start, docs)
      PROVE  entries = ChunkList(Score(q), start, size)
    <2>1. PICK junk \in Unloaded(Len(docs), Len(Querys[q])) :
             entries = [n \in DOMAIN docs |->
                           [id |-> start + n - 1,
                            score |-> CudfScore(QueryOnShm(Querys[q], Len(docs), n - 1, junk),
                                                docs[n])]]
        BY <1>9, Zenon DEF ChunkEntries
    <2>2. entries = [n \in DOMAIN docs |->
                        [id |-> start + n - 1,
                         score |-> CudfScore(QueryOnShm(query, size, n - 1, junk), docs[n])]]
        BY <1>1, <1>8, <2>1, Zenon
    <2>3. ASSUME NEW n \in 1..size
          PROVE  QueryOnShm(query, size, n - 1, junk) = query
        <3>1. n - 1 \in 0..(size - 1)
            OBVIOUS
        <3> QED BY <1>8, <3>1, WholeQueryOnShm
    <2>4. entries = [n \in 1..size |->
                        [id |-> start + n - 1, score |-> CudfScore(query, docs[n])]]
        BY <1>7, <2>2, <2>3
    <2> QED BY <1>6, <1>8, <2>4 DEF ChunkList, Entry
<1>10. \A d \in start..(start + size - 1) : Score(q)[d] \in Scores
    BY <1>4, <1>5
<1> QED BY <1>1, <1>9, <1>10 DEF EndOf

\* A chunk's selection is its best, whatever was scored: exactly where only its own
\* documents were.
LEMMA ResultIsBest ==
    ASSUME ReadInv, ChunkInv, PlaceInv, NEW t \in 1..Len(chunks),
           NEW docs, Len(docs) = Len(chunks[t].docs), Exact => docs = chunks[t].docs,
           NEW r \in ChunkResults(chunks[t].start, docs), NEW q \in DOMAIN Querys
    PROVE  Best(r[q], q, t)
<1>1. /\ chunks[t].start \in Nat /\ Len(chunks[t].docs) \in Nat /\ Len(docs) \in Nat
    BY ChunkFacts
<1>2. IsSeq(r[q]) /\ Len(r[q]) = MinOf(TOPK, Len(docs)) /\ MinOf(TOPK, Len(docs)) \in 0..TOPK
    BY <1>1, ResultLen
<1>3. Len(r[q]) <= TOPK /\ Len(r[q]) <= Len(docs)
    BY <1>1, <1>2, PipelineAssumption DEF MinOf
<1>4. ASSUME Exact, Filled(t)
      PROVE  Keeps(r[q], Score(q), chunks[t].start, EndOf(t))
    <2>1. PICK start \in Nat, size \in Nat :
             start = chunks[t].start /\ size = Len(chunks[t].docs)
        BY <1>1
    <2>2. r[q] \in ChunkTopk(q, chunks[t].start, chunks[t].docs)
        BY <1>4 DEF ChunkResults
    <2>3. PICK list \in ChunkEntries(q, chunks[t].start, chunks[t].docs) :
             r[q] \in SelectedFrom(list, MinOf(TOPK, size))
        BY <2>1, <2>2 DEF ChunkTopk
    <2>4. /\ list = ChunkList(Score(q), start, size) /\ EndOf(t) = start + size
          /\ \A d \in start..(start + size - 1) : Score(q)[d] \in Scores
        <3>1. EndOf(t) = start + size
            BY <2>1 DEF EndOf
        <3>2. list = ChunkList(Score(q), start, size)
            BY <1>4, <2>1, <2>3, EntriesAreScores
        <3>3. \A d \in start..(EndOf(t) - 1) : Score(q)[d] \in Scores
            BY <1>4, <2>1, EntriesAreScores
        <3> QED BY <3>1, <3>2, <3>3
    <2>5. TOPK \in Nat /\ start \in Nat /\ size \in Nat
        BY <2>1, PipelineAssumption
    <2>6. CASE ~in.raft
        <3>1. r[q] = PartialSort(list, MinOf(TOPK, size))
            BY <2>3, <2>6 DEF SelectedFrom
        <3>2. Covers(PartialSort(list, MinOf(TOPK, size)), Score(q), start, start + size, TOPK)
            BY <2>4, <2>5, CoversChunk
        <3> QED BY <2>1, <2>4, <2>6, <3>1, <3>2 DEF Keeps
    <2>7. CASE in.raft
        <3>1. PICK best : /\ best \in SelectK(list, 2 * MinOf(TOPK, size))
                          /\ r[q] = PartialSort(best, MinOf(TOPK, size))
            BY <2>3, <2>7 DEF SelectedFrom
        <3>2. CoversTwice(PartialSort(best, MinOf(TOPK, size)), Score(q), start, start + size, TOPK)
            BY <2>4, <2>5, <3>1, CoversTwiceChunk
        <3> QED BY <2>1, <2>4, <2>7, <3>1, <3>2 DEF Keeps
    <2> QED BY <2>6, <2>7
<1> QED BY <1>2, <1>3, <1>4 DEF Best

\* One more chunk's best gathered.
LEMMA MergeOne ==
    ASSUME ChunkInv, NEW t \in 1..Len(chunks), NEW q, NEW list, NEW more,
           Gathers(list, q, t - 1), Best(more, q, t)
    PROVE  Gathers(list \o more, q, t)
<1>1. /\ IsSeq(list) /\ Len(list) <= TOPK * (t - 1) /\ IsSeq(more) /\ Len(more) <= TOPK
    BY DEF Gathers, Best
<1>2. IsSeq(list \o more) /\ Len(list \o more) = Len(list) + Len(more)
      /\ Len(list) \in Nat /\ Len(more) \in Nat
    BY <1>1, ConcatIsSeq
<1>3. t \in Nat /\ t - 1 \in Nat /\ TOPK \in Nat
    BY LenProperties, PipelineAssumption DEF ChunkInv
<1>4. Len(list \o more) <= TOPK * t
    <2>1. TOPK * t = TOPK * (t - 1) + TOPK /\ TOPK * (t - 1) \in Nat
        BY <1>3
    <2> QED BY <1>1, <1>2, <1>3, <2>1
<1>5. \A u \in 1..(t - 1) : u \in 1..t
    BY <1>3
<1>6. t \in 1..t
    BY <1>3
<1>7. ASSUME Exact, \A u \in 1..t : Filled(u)
      PROVE  /\ Len(list \o more) <= Len(Joined(chunks, t))
             /\ Keeps(list \o more, Score(q), 0, Len(Joined(chunks, t)))
    <2>1. PICK mid \in Nat, size \in Nat, to \in Nat :
             /\ mid = chunks[t].start /\ mid = Len(Joined(chunks, t - 1)) /\ size = Len(chunks[t].docs)
             /\ to = EndOf(t) /\ to = Len(Joined(chunks, t)) /\ to = mid + size
        BY ChunkFacts DEF EndOf
    <2>2. /\ Len(list) <= mid /\ Keeps(list, Score(q), 0, mid)
          /\ Len(more) <= size /\ Keeps(more, Score(q), mid, to)
        BY <1>7, <1>5, <1>6, <2>1 DEF Gathers, Best
    <2>3. to = mid + size /\ 0 \in Nat /\ 0 <= mid /\ mid <= to
        <3>1. to = mid + size
            BY <2>1
        <3> QED BY <3>1
    <2>4. Keeps(list \o more, Score(q), 0, to)
        <3>1. CASE ~in.raft
            <4>1. Covers(list, Score(q), 0, mid, TOPK) /\ Covers(more, Score(q), mid, to, TOPK)
                BY <2>2, <3>1 DEF Keeps
            <4>2. Covers(list \o more, Score(q), 0, to, TOPK)
                BY <1>3, <2>3, <4>1, CoversConcat
            <4> QED BY <3>1, <4>2 DEF Keeps
        <3>2. CASE in.raft
            <4>1. /\ CoversTwice(list, Score(q), 0, mid, TOPK)
                  /\ CoversTwice(more, Score(q), mid, to, TOPK)
                BY <2>2, <3>2 DEF Keeps
            <4>2. CoversTwice(list \o more, Score(q), 0, to, TOPK)
                BY <1>3, <2>3, <4>1, CoversTwiceConcat
            <4> QED BY <3>2, <4>2 DEF Keeps
        <3> QED BY <3>1, <3>2
    <2>5. Len(list \o more) <= to
        <3>1. Len(list) <= mid /\ Len(more) <= size
            BY <2>2
        <3> QED BY <1>2, <2>3, <3>1
    <2> QED BY <2>1, <2>4, <2>5
<1> QED BY <1>2, <1>4, <1>7 DEF Gathers

\* What was answered or gathered stays.
LEMMA BestStays ==
    ASSUME UNCHANGED <<in, file>>, NEW list, NEW q, NEW t, chunks'[t] = chunks[t], Best(list, q, t)
    PROVE  Best(list, q, t)'
BY DEF Best, Filled, Keeps, Exact, Score, WholeFile, EndOf

LEMMA GathersStays ==
    ASSUME UNCHANGED <<in, file>>, NEW list, NEW q, NEW t,
           Joined(chunks', t) = Joined(chunks, t), \A u \in 1..t : chunks'[u] = chunks[u],
           Gathers(list, q, t)
    PROVE  Gathers(list, q, t)'
BY DEF Gathers, Filled, Keeps, Exact, Score, WholeFile

-----------------------------------------------------------------------------
(* What the tasks return and what is merged *)

Answered(t, q) == Best(output[t][q], q, t)

\* What a finished task returned is the best of its chunk.
OutputInv ==
    /\ DOMAIN output = Tasks
    /\ \A t \in 1..Len(chunks), q \in DOMAIN Querys :
          status[t] = "value" /\ in.pool => Answered(t, q)

\* The chunks whose selections have been merged.
Gathered ==
    IF in.pool THEN next - 1 ELSE IF pc = "iterate" THEN Len(chunks) - 1 ELSE Len(chunks)

Merged(q) == Gathers(merged[q], q, Gathered)

MergeInv ==
    /\ next \in 1..(Len(chunks) + 1)
    /\ DOMAIN merged = DOMAIN Querys
    /\ \A q \in DOMAIN Querys : Merged(q)

SelectedInv ==
    pc = "selected" =>
        /\ in.pool => next = Len(chunks) + 1
        /\ indices = [q \in DOMAIN Querys |-> PartialSort(merged[q], MinOf(TOPK, Len(merged[q])))]

LEMMA AnswerStays ==
    ASSUME UNCHANGED <<in, file>>, NEW t, NEW q,
           chunks'[t] = chunks[t], output'[t] = output[t], Answered(t, q)
    PROVE  Answered(t, q)'
<1>1. PICK list : list = output[t][q] /\ list = output'[t][q]
    OBVIOUS
<1>2. Best(list, q, t)
    BY <1>1 DEF Answered
<1>3. Best(list, q, t)'
    BY <1>2, BestStays
<1> QED BY <1>1, <1>3 DEF Answered, Best

LEMMA OutputStep ==
    NoLineBehind /\ MemsetInTime /\ ReadInv /\ ChunkInv /\ PlaceInv /\ PoolInv /\ OutputInv /\ [Next]_vars => OutputInv'
<1> SUFFICES ASSUME NoLineBehind, MemsetInTime, ReadInv, ChunkInv, PlaceInv, PoolInv, OutputInv, [Next]_vars
             PROVE  OutputInv'
    OBVIOUS
<1>0. PICK n \in Nat : n = Len(chunks) /\ n <= MaxChunks /\ chunks \in Seq(Chunk)
    BY LenProperties DEF ChunkInv
<1>1. /\ DOMAIN output = Tasks /\ 1..n \subseteq Tasks
      /\ \A t \in 1..n, q \in DOMAIN Querys : status[t] = "value" /\ in.pool => Answered(t, q)
    BY <1>0, PipelineAssumption DEF OutputInv, Tasks
<1>2. /\ UNCHANGED <<in, file>> /\ status \in [Tasks -> Pool!Status]
      /\ \A t \in Tasks : status[t] # "new" => t \in 1..n
      /\ backlog \in Seq(1..n)
    BY <1>0, ReadStep DEF PoolInv
<1>3. ASSUME UNCHANGED chunks, DOMAIN output' = Tasks,
             \A t \in 1..n, q \in DOMAIN Querys :
                status'[t] = "value" /\ in.pool =>
                    Answered(t, q)' \/ (status[t] = "value" /\ output'[t] = output[t])
      PROVE  OutputInv'
    <2>1. ASSUME NEW t \in 1..n, NEW q \in DOMAIN Querys, status'[t] = "value", in.pool
          PROVE  Answered(t, q)'
        <3>1. CASE status[t] = "value" /\ output'[t] = output[t]
            <4>1. Answered(t, q) /\ chunks'[t] = chunks[t]
                BY <1>1, <1>3, <2>1, <3>1
            <4> QED BY <1>2, <3>1, <4>1, AnswerStays
        <3> QED BY <1>3, <2>1, <3>1
    <2>2. in' = in /\ Len(chunks') = n
        BY <1>0, <1>2, <1>3
    <2> QED BY <1>3, <2>1, <2>2 DEF OutputInv
<1>4. ASSUME UNCHANGED <<chunks, output, status>> PROVE OutputInv'
    BY <1>1, <1>3, <1>4
<1>5. CASE ReadChunk
    <2>1. PICK docs \in Seq(Document) : Extends(chunks', chunks, doccnt, docs)
        BY <1>5, ReadExtends
    <2>2. /\ Len(chunks') = n + 1 /\ \A t \in 1..n : chunks'[t] = chunks[t]
          /\ UNCHANGED output
        BY <1>0, <1>5, <2>1 DEF Extends, ReadChunk
    <2>3. n + 1 \in Tasks /\ status[n + 1] = "new"
        <3>1. n + 1 \in Tasks /\ n + 1 \notin 1..n
            BY <1>0, <1>5, PipelineAssumption DEF ReadChunk, Tasks
        <3> QED BY <1>2, <3>1
    <2>4. \/ status' = status
          \/ status' = [status EXCEPT ![n + 1] = "queued"]
        BY <1>0, <1>5 DEF ReadChunk, EnqueueTask, Pool!Accept, poolVars
    <2>5. status'[n + 1] # "value" /\ \A t \in 1..n : status'[t] = status[t]
        <3>1. CASE status' = status
            BY <2>3, <3>1
        <3>2. CASE status' = [status EXCEPT ![n + 1] = "queued"]
            <4>1. status'[n + 1] = "queued"
                BY <1>2, <2>3, <3>2
            <4>2. \A t \in 1..n : t # n + 1
                OBVIOUS
            <4> QED BY <1>2, <3>2, <4>1, <4>2
        <3> QED BY <2>4, <3>1, <3>2
    <2>6. ASSUME NEW t \in 1..(n + 1), NEW q \in DOMAIN Querys, status'[t] = "value", in.pool
          PROVE  Answered(t, q)'
        <3>1. t \in 1..n
            BY <2>5, <2>6
        <3>2. Answered(t, q)
            BY <1>1, <2>5, <2>6, <3>1
        <3> QED BY <1>2, <2>2, <3>1, <3>2, AnswerStays
    <2>7. in' = in
        BY <1>2
    <2> QED BY <1>1, <2>2, <2>6, <2>7 DEF OutputInv
<1>6. CASE EndIteration
    BY <1>4, <1>6 DEF EndIteration
<1>7. CASE ReadingOver \/ Collect \/ Abort \/ Reduce \/ Exit \/ PoolCloses
    BY <1>4, <1>7
    DEF ReadingOver, Collect, Abort, Reduce, Exit, PoolCloses, Pool!BeginClose, Pool!Close, loopVars
<1>8. CASE TaskStarts
    <2>1. /\ backlog # <<>> /\ UNCHANGED <<chunks, output>>
          /\ status' = [status EXCEPT ![Head(backlog)] = "running"]
        BY <1>8 DEF TaskStarts, Pool!Start, loopVars
    <2>2. \A t \in 1..n : status'[t] = "value" => status[t] = "value"
        BY <1>1, <1>2, <2>1
    <2> QED BY <1>1, <1>3, <2>1, <2>2
<1>9. ASSUME NEW t \in Tasks, TaskFinishes(t) PROVE OutputInv'
    <2>1. /\ status[t] = "running" /\ UNCHANGED chunks
          /\ \E r \in Pool!Outcome : status' = [status EXCEPT ![t] = r]
        BY <1>9 DEF TaskFinishes, Pool!Finish
    <2>2. t \in 1..n
        BY <1>2, <2>1
    <2>3. DOMAIN output' = Tasks
          /\ \A u \in Tasks : u # t => output'[u] = output[u] /\ status'[u] = status[u]
        BY <1>1, <1>2, <1>9, <2>1 DEF TaskFinishes
    <2>4. ASSUME NEW q \in DOMAIN Querys, status'[t] = "value", in.pool PROVE Answered(t, q)'
        <3>1. PICK docs \in DocsSeen(t) : \E r \in ChunkResults(FirstId(t), docs) :
                 output' = [output EXCEPT ![t] = r]
            BY <1>9, <2>4 DEF TaskFinishes
        <3>2. PICK r \in ChunkResults(FirstId(t), docs) : output' = [output EXCEPT ![t] = r]
            BY <3>1
        <3>3. output'[t] = r
            BY <1>1, <3>2
        <3>4. Len(docs) = Len(chunks[t].docs)
            BY <1>0, <2>2, SeenLen
        <3>5. Exact => docs = chunks[t].docs
            <4> SUFFICES ASSUME Exact PROVE docs = chunks[t].docs
                OBVIOUS
            <4>1. ~Reuse
                BY <2>4 DEF Exact
            <4> QED BY <3>1, <4>1 DEF DocsSeen
        <3>6. Best(r[q], q, t)
            <4>1. t \in 1..Len(chunks) /\ r \in ChunkResults(chunks[t].start, docs)
                BY <1>0, <2>2, <3>2 DEF FirstId
            <4> QED BY <3>4, <3>5, <4>1, ResultIsBest
        <3>7. PICK list : list = r[q]
            OBVIOUS
        <3>8. Best(list, q, t)
            BY <3>6, <3>7
        <3>9. Best(list, q, t)'
            BY <1>2, <2>1, <3>8, BestStays
        <3> QED BY <3>3, <3>7, <3>9 DEF Answered, Best
    <2> QED BY <1>1, <1>3, <2>1, <2>3, <2>4
<1>10. CASE UNCHANGED vars
    BY <1>4, <1>10 DEF vars
<1> QED BY <1>5, <1>6, <1>7, <1>8, <1>9, <1>10 DEF Next, Loop, Over

LEMMA MergedStays ==
    ASSUME UNCHANGED <<in, file>>, NEW q, NEW t, merged'[q] = merged[q], t = Gathered,
           t = Gathered', Joined(chunks', t) = Joined(chunks, t),
           \A u \in 1..t : chunks'[u] = chunks[u], Merged(q)
    PROVE  Merged(q)'
<1>1. PICK list : list = merged[q] /\ list = merged'[q]
    OBVIOUS
<1>2. Gathers(list, q, t)
    BY <1>1 DEF Merged
<1>3. Gathers(list, q, t)'
    BY <1>2, GathersStays
<1> QED BY <1>1, <1>3 DEF Merged, Gathers

\* The selection of one more chunk merged.
LEMMA MergedOneMore ==
    ASSUME UNCHANGED <<in, file, chunks>>, ChunkInv, NEW t \in 1..Len(chunks), NEW q, NEW more,
           t - 1 = Gathered, t = Gathered', merged'[q] = merged[q] \o more,
           Merged(q), Best(more, q, t)
    PROVE  Merged(q)'
<1>1. Gathers(merged[q], q, t - 1)
    BY DEF Merged
<1>2. PICK list : list = merged[q] \o more /\ list = merged'[q]
    OBVIOUS
<1>3. Gathers(list, q, t)
    BY <1>1, <1>2, MergeOne
<1>4. Joined(chunks', t) = Joined(chunks, t) /\ \A u \in 1..t : chunks'[u] = chunks[u]
    OBVIOUS
<1>5. Gathers(list, q, t)'
    BY <1>3, <1>4, GathersStays
<1> QED BY <1>2, <1>5 DEF Merged, Gathers

LEMMA MergeStep ==
    /\ NoLineBehind /\ MemsetInTime /\ ReadInv /\ ChunkInv /\ PlaceInv /\ PoolInv /\ OutputInv /\ MergeInv
    /\ [Next]_vars
    => MergeInv'
<1> SUFFICES ASSUME NoLineBehind, MemsetInTime, ReadInv, ChunkInv, PlaceInv, PoolInv, OutputInv, MergeInv,
                    [Next]_vars
             PROVE  MergeInv'
    OBVIOUS
<1>0. PICK n \in Nat : n = Len(chunks)
    BY LenProperties DEF ChunkInv
<1>1. /\ UNCHANGED <<in, file>> /\ next \in 1..(n + 1) /\ DOMAIN merged = DOMAIN Querys
      /\ \A q \in DOMAIN Querys : Merged(q)
    BY <1>0, ReadStep DEF MergeInv
<1>2. pc = "iterate" => n # 0
    BY <1>0, EmptySeq DEF ChunkInv
<1>3. PICK t \in 0..n : t = Gathered
    BY <1>0, <1>1, <1>2 DEF Gathered
<1>4. ASSUME UNCHANGED <<next, merged, chunks>>, pc' = "iterate" <=> pc = "iterate" PROVE MergeInv'
    <2>1. t = Gathered'
        BY <1>1, <1>3, <1>4 DEF Gathered
    <2>2. ASSUME NEW q \in DOMAIN Querys PROVE Merged(q)'
        BY <1>1, <1>3, <1>4, <2>1, MergedStays
    <2> QED BY <1>0, <1>1, <1>4, <2>2 DEF MergeInv
<1>5. CASE ReadChunk
    <2>1. PICK docs \in Seq(Document) : Extends(chunks', chunks, doccnt, docs)
        BY <1>5, ReadExtends
    <2>2. /\ Len(chunks') = n + 1 /\ \A u \in 0..n : Joined(chunks', u) = Joined(chunks, u)
          /\ \A u \in 1..n : chunks'[u] = chunks[u]
          /\ UNCHANGED <<next, merged>> /\ pc = "read" /\ pc' = "iterate"
        BY <1>0, <1>5, <2>1 DEF Extends, ReadChunk
    <2>3. t = Gathered'
        BY <1>0, <1>1, <1>3, <2>2 DEF Gathered
    <2>4. Joined(chunks', t) = Joined(chunks, t) /\ \A u \in 1..t : chunks'[u] = chunks[u]
        BY <1>3, <2>2
    <2>5. ASSUME NEW q \in DOMAIN Querys PROVE Merged(q)'
        BY <1>1, <1>3, <2>2, <2>3, <2>4, MergedStays
    <2>6. next' \in 1..(n + 1 + 1)
        BY <1>1, <2>2
    <2> QED BY <1>1, <2>2, <2>5, <2>6 DEF MergeInv
<1>6. CASE EndIteration
    <2>1. UNCHANGED <<next, chunks>> /\ pc = "iterate" /\ pc' = "read"
        BY <1>6 DEF EndIteration
    <2>2. CASE in.pool
        <3>1. merged' = merged /\ t = Gathered'
            BY <1>1, <1>3, <1>6, <2>1, <2>2 DEF EndIteration, Gathered
        <3>2. ASSUME NEW q \in DOMAIN Querys PROVE Merged(q)'
            BY <1>1, <1>3, <2>1, <3>1, MergedStays
        <3> QED BY <1>0, <1>1, <2>1, <3>1, <3>2 DEF MergeInv
    <2>3. CASE ~in.pool
        <3>1. n \in 1..n /\ n - 1 = Gathered /\ n = Gathered'
            BY <1>0, <1>1, <1>2, <2>1, <2>3 DEF Gathered
        <3>2. DOMAIN merged' = DOMAIN Querys
              /\ \A q \in DOMAIN Querys :
                    \E more : merged'[q] = merged[q] \o more /\ Best(more, q, n)
            <4>1. CASE in.load = "topk"
                <5>1. PICK r \in ChunkResults(chunks[n].start, chunks[n].docs) :
                         merged' = [q \in DOMAIN Querys |-> merged[q] \o r[q]]
                    BY <1>0, <1>6, <2>3, <4>1 DEF EndIteration
                <5>2. \A q \in DOMAIN Querys : Best(r[q], q, n)
                    BY <1>0, <3>1, ResultIsBest
                <5> QED BY <5>1, <5>2
            <4>2. CASE in.load # "topk"
                <5>1. merged' = merged
                    BY <1>6, <4>2 DEF EndIteration
                <5>2. ASSUME NEW q \in DOMAIN Querys PROVE merged[q] = merged[q] \o <<>>
                    <6>1. merged[q] \in Seq(Range(merged[q]))
                        BY <1>1 DEF Merged, Gathers, IsSeq
                    <6> QED BY <6>1, ConcatEmptySeq
                <5>3. ASSUME NEW q \in DOMAIN Querys PROVE Best(<<>>, q, n)
                    <6>1. IsSeq(<<>>) /\ Len(<<>>) = 0
                        BY EmptySeq DEF IsSeq
                    <6> QED BY <4>2, <6>1, PipelineAssumption DEF Best, Exact
                <5> QED BY <1>1, <5>1, <5>2, <5>3
            <4> QED BY <4>1, <4>2
        <3>3. ASSUME NEW q \in DOMAIN Querys PROVE Merged(q)'
            <4>1. PICK more : merged'[q] = merged[q] \o more /\ Best(more, q, n)
                BY <3>2
            <4>2. n \in 1..Len(chunks)
                BY <1>0, <3>1
            <4> QED BY <1>1, <2>1, <3>1, <4>1, <4>2, MergedOneMore
        <3> QED BY <1>0, <1>1, <2>1, <3>2, <3>3 DEF MergeInv
    <2> QED BY <2>2, <2>3
<1>7. CASE ReadingOver
    BY <1>4, <1>7 DEF ReadingOver
<1>8. CASE Collect
    <2>1. /\ in.pool /\ next <= n /\ status[next] = "value" /\ next' = next + 1
          /\ merged' = [q \in DOMAIN Querys |-> merged[q] \o output[next][q]]
          /\ UNCHANGED chunks
        BY <1>0, <1>8 DEF Collect, Collecting
    <2>2. PICK u \in 1..n : u = next
        BY <1>1, <2>1
    <2>3. u - 1 = Gathered /\ u = Gathered'
        BY <1>1, <2>1, <2>2 DEF Gathered
    <2>4. ASSUME NEW q \in DOMAIN Querys PROVE Merged(q)'
        <3>1. Best(output[u][q], q, u) /\ merged'[q] = merged[q] \o output[u][q]
            BY <1>0, <2>1, <2>2 DEF OutputInv, Answered
        <3>2. PICK more : more = output[u][q]
            OBVIOUS
        <3>3. u \in 1..Len(chunks) /\ Merged(q) /\ Best(more, q, u) /\ merged'[q] = merged[q] \o more
            BY <1>0, <1>1, <3>1, <3>2
        <3> QED BY <1>1, <2>1, <2>3, <3>3, MergedOneMore
    <2>5. next' \in 1..(n + 1)
        BY <2>1, <2>2
    <2> QED BY <1>0, <1>1, <2>1, <2>4, <2>5 DEF MergeInv
<1>9. CASE Abort
    BY <1>4, <1>9 DEF Abort, Collecting
<1>10. CASE Reduce
    BY <1>4, <1>10 DEF Reduce
<1>11. CASE UNCHANGED loopVars
    BY <1>4, <1>11 DEF loopVars
<1>12. ASSUME NEW u \in Tasks, TaskFinishes(u) PROVE MergeInv'
    BY <1>4, <1>12 DEF TaskFinishes
<1> QED
    BY <1>5, <1>6, <1>7, <1>8, <1>9, <1>10, <1>11, <1>12
    DEF Next, Loop, Exit, TaskStarts, PoolCloses, Over, vars, loopVars

LEMMA SelectedStep ==
    NoLineBehind /\ MemsetInTime /\ ReadInv /\ ChunkInv /\ MergeInv /\ SelectedInv /\ [Next]_vars => SelectedInv'
<1> SUFFICES ASSUME NoLineBehind, MemsetInTime, ReadInv, ChunkInv, MergeInv, SelectedInv, [Next]_vars
             PROVE  SelectedInv'
    OBVIOUS
<1>1. in' = in
    BY ReadStep
<1>2. ASSUME pc' = "selected" => pc = "selected" /\ UNCHANGED <<next, chunks, merged, indices>>
      PROVE  SelectedInv'
    BY <1>1, <1>2 DEF SelectedInv
<1>3. CASE ReadChunk
    BY <1>2, <1>3 DEF ReadChunk
<1>4. CASE EndIteration
    BY <1>2, <1>4 DEF EndIteration
<1>5. CASE ReadingOver
    BY <1>2, <1>5 DEF ReadingOver
<1>6. CASE Collect
    BY <1>2, <1>6 DEF Collect, Collecting
<1>7. CASE Abort
    BY <1>2, <1>7 DEF Abort
<1>8. CASE Reduce
    <2>1. in.pool => next = Len(chunks) + 1
        <3>1. next \in 1..(Len(chunks) + 1) /\ Len(chunks) \in Nat
            BY LenProperties DEF MergeInv, ChunkInv
        <3>2. in.pool => ~(next <= Len(chunks))
            BY <1>8 DEF Reduce, Collecting
        <3> QED BY <3>1, <3>2
    <2>2. /\ indices' = [q \in DOMAIN Querys |-> PartialSort(merged[q], MinOf(TOPK, Len(merged[q])))]
          /\ UNCHANGED <<next, chunks, merged>>
        BY <1>8 DEF Reduce
    <2> QED BY <1>1, <2>1, <2>2 DEF SelectedInv
<1>9. CASE UNCHANGED loopVars
    BY <1>2, <1>9 DEF loopVars
<1>10. ASSUME NEW t \in Tasks, TaskFinishes(t) PROVE SelectedInv'
    BY <1>2, <1>10 DEF TaskFinishes
<1> QED
    BY <1>3, <1>4, <1>5, <1>6, <1>7, <1>8, <1>9, <1>10
    DEF Next, Loop, Exit, TaskStarts, PoolCloses, Over, vars, loopVars

-----------------------------------------------------------------------------
(* The invariant *)

\* All of it together: every part leans on the ones before it.
IInv ==
    ReadInv /\ ChunkInv /\ PlaceInv /\ PoolInv /\ OutputInv /\ MergeInv /\ SelectedInv

\* Nothing is the best of no documents.
LEMMA NothingGathered ==
    ASSUME NEW q, Joined(chunks, 0) = <<>>
    PROVE  Gathers(<<>>, q, 0)
<1>1. IsSeq(<<>>) /\ Len(<<>>) = 0
    BY EmptySeq DEF IsSeq
<1>2. TOPK \in Nat /\ TOPK * 0 = 0 /\ 0 <= 0
    BY PipelineAssumption
<1>3. PICK score : score = Score(q)
    OBVIOUS
<1>4. PICK none \in Nat : none = 0
    OBVIOUS
<1>5. Covers(<<>>, score, none, none, TOPK) /\ CoversTwice(<<>>, score, none, none, TOPK)
    BY <1>2, CoversNothing, CoversTwiceNothing
<1>6. Keeps(<<>>, score, none, none)
    BY <1>5 DEF Keeps
<1> QED BY <1>1, <1>2, <1>3, <1>4, <1>6 DEF Gathers

LEMMA Initially == Init => IInv
<1> SUFFICES ASSUME Init PROVE IInv
    OBVIOUS
<1>1. ReadInv /\ ChunkInv
    BY ReadInitially
<1>2. /\ chunks = <<>> /\ next = 1 /\ pc = "read"
      /\ output = [t \in Tasks |-> <<>>]
      /\ merged = [q \in DOMAIN Querys |-> <<>>]
    BY DEF Init
<1>3. Len(chunks) = 0 /\ 1..Len(chunks) = {}
    BY <1>2, EmptySeq
<1>4. PlaceInv /\ OutputInv /\ SelectedInv
    BY <1>2, <1>3 DEF PlaceInv, OutputInv, SelectedInv
<1>5. PoolInv
    <2>1. status = [t \in Tasks |-> "new"] /\ backlog = <<>> /\ phase = "open"
        BY DEF Init, Pool!Init
    <2>2. backlog \in Seq(1..Len(chunks))
        BY <2>1, EmptySeq
    <2> QED BY <2>1, <2>2 DEF PoolInv, Pool!Status
<1>6. MergeInv
    <2>1. Gathered = 0
        BY <1>2, <1>3 DEF Gathered
    <2>2. Joined(chunks, 0) = <<>>
        BY <1>1, <1>2, InputFacts, NothingRead
    <2>3. ASSUME NEW q \in DOMAIN Querys PROVE Merged(q)
        <3>1. Gathers(<<>>, q, 0) /\ merged[q] = <<>>
            BY <1>2, <2>2, NothingGathered
        <3> QED BY <2>1, <3>1 DEF Merged
    <2>4. next \in 1..(Len(chunks) + 1)
        BY <1>2, <1>3
    <2> QED BY <1>2, <2>3, <2>4 DEF MergeInv
<1> QED BY <1>1, <1>4, <1>5, <1>6 DEF IInv

\* The inductive invariant of the pipeline, whatever the files, the loader and the pool do:
\* what a chunk answers and what is merged is the best of its documents where the blocks
\* that scored them loaded all of the query.
THEOREM PipelineInvariant ==
    ASSUME NoLineBehind, MemsetInTime
    PROVE  Spec => []IInv
<1>1. IInv /\ [Next]_vars => IInv'
    BY ReadStep, ChunkStep, PlaceStep, PoolStep, OutputStep, MergeStep, SelectedStep DEF IInv
<1> QED BY Initially, <1>1, PTL DEF Spec

\* A product grows with its second factor.
LEMMA TimesMore ==
    ASSUME NEW a \in Nat, NEW b \in Nat, NEW c \in Nat, b <= c
    PROVE  a * b <= a * c
<1>1. PICK d \in Nat : c = b + d
    <2>1. c - b \in Nat /\ c = b + (c - b)
        OBVIOUS
    <2> QED BY <2>1
<1>2. a * (b + d) = a * b + a * d /\ a * b \in Nat /\ a * d \in Nat
    OBVIOUS
<1> QED BY <1>1, <1>2

\* The file position stays in the file and the merged lists within TOPK for each chunk, for
\* every file, buffer and TOPK.
THEOREM TypeCorrect ==
    ASSUME NoLineBehind, MemsetInTime
    PROVE  Spec => []TypeOK
<1>1. IInv => TypeOK
    <2> SUFFICES ASSUME IInv PROVE TypeOK
        OBVIOUS
    <2>1. ReadInv /\ ChunkInv /\ PoolInv /\ MergeInv
        BY DEF IInv
    <2>2. PICK n \in Nat : n = Len(chunks) /\ n <= MaxChunks
        BY <2>1, LenProperties DEF ChunkInv
    <2>3. next \in 1..(n + 1) /\ DOMAIN merged = DOMAIN Querys
          /\ \A q \in DOMAIN Querys : Gathers(merged[q], q, Gathered)
        BY <2>1, <2>2 DEF MergeInv, Merged
    <2>4. PICK t \in Nat : t = Gathered /\ t <= n
        <3>1. pc = "iterate" => n # 0
            BY <2>1, <2>2, EmptySeq DEF ChunkInv
        <3>2. Gathered \in Nat /\ Gathered <= n
            BY <2>2, <2>3, <3>1 DEF Gathered
        <3> QED BY <3>2
    <2>5. ASSUME NEW q \in DOMAIN merged PROVE Len(merged[q]) <= TOPK * n
        <3>1. IsSeq(merged[q]) /\ Len(merged[q]) <= TOPK * t
            BY <2>3, <2>4 DEF Gathers
        <3>2. Len(merged[q]) \in Nat
            BY <3>1, LenProperties DEF IsSeq
        <3>3. TOPK \in Nat
            BY PipelineAssumption
        <3>4. TOPK * t <= TOPK * n /\ TOPK * t \in Nat /\ TOPK * n \in Nat
            BY <2>4, <3>3, TimesMore
        <3> QED BY <3>1, <3>2, <3>4
    <2> QED BY <2>1, <2>2, <2>3, <2>5 DEF TypeOK, ReadInv, PoolInv
<1> QED BY PipelineInvariant, <1>1, PTL

-----------------------------------------------------------------------------
(* The scores are README.md's *)

\* A newline can only end a row.
OneLine(row) == \A c \in 1..(Len(row) - 1) : row[c] # NL

\* The last character of the last row.
EndsIn(rows, e) ==
    /\ rows # <<>> /\ rows[Len(rows)] # <<>>
    /\ rows[Len(rows)][Len(rows[Len(rows)])] = e

LEMMA RowBegun ==
    ASSUME NEW rows \in Seq(Seq(Nat)), \A n \in 1..Len(rows) : OneLine(rows[n]), NEW c \in Nat
    PROVE  /\ \A n \in 1..Len(Append(rows, <<c>>)) : OneLine(Append(rows, <<c>>)[n])
           /\ EndsIn(Append(rows, <<c>>), c)
<1> DEFINE T == Seq(Nat)
           row == <<c>>
           more == Append(rows, row)
<1>1. row \in T /\ Len(row) = 1 /\ row[1] = c /\ row # <<>>
    OBVIOUS
<1>2. OneLine(row)
    BY <1>1 DEF OneLine
<1>3. PICK l \in Nat : l = Len(rows)
    BY LenProperties
<1>4. /\ more \in Seq(T) /\ Len(more) = l + 1
      /\ \A n \in 1..l : more[n] = rows[n]
      /\ more[l + 1] = row
    <2>1. rows \in Seq(T)
        OBVIOUS
    <2> HIDE DEF row, T
    <2> QED BY <1>1, <1>3, <2>1, AppendProperties
<1>5. more # <<>>
    <2> HIDE DEF more, T, row
    <2> QED BY <1>3, <1>4, EmptySeq
<1> HIDE DEF more, row
<1>6. ASSUME NEW n \in 1..Len(more) PROVE OneLine(more[n])
    <2>1. n \in 1..l \/ n = l + 1
        BY <1>3, <1>4
    <2>2. CASE n \in 1..l
        <3>1. more[n] = rows[n]
            BY <1>4, <2>2
        <3>2. OneLine(rows[n])
            BY <1>3, <2>2
        <3> QED BY <3>1, <3>2
    <2>3. CASE n = l + 1
        <3>1. more[n] = row
            BY <1>4, <2>3
        <3> QED BY <1>2, <3>1
    <2> QED BY <2>1, <2>2, <2>3
<1>7. EndsIn(more, c)
    BY <1>1, <1>4, <1>5 DEF EndsIn
<1> QED BY <1>6, <1>7 DEF more, row

LEMMA RowContinued ==
    ASSUME NEW rows \in Seq(Seq(Nat)), \A n \in 1..Len(rows) : OneLine(rows[n]), NEW c \in Nat,
           NEW e, e # NL, EndsIn(rows, e)
    PROVE  /\ \A n \in 1..Len(AddTo(rows, c)) : OneLine(AddTo(rows, c)[n])
           /\ EndsIn(AddTo(rows, c), c)
<1>1. rows # <<>> /\ Len(rows) \in Nat
    BY LenProperties DEF EndsIn
<1>2. PICK more : more = AddTo(rows, c)
    OBVIOUS
<1>3. /\ more \in Seq(Seq(Nat)) /\ more # <<>> /\ Len(more) = Len(rows)
      /\ \A n \in 1..Len(rows) :
            more[n] = IF n = Len(rows) THEN Append(rows[n], c) ELSE rows[n]
    BY <1>1, <1>2, AddToIs
<1>4. PICK l \in Nat : l = Len(rows) /\ l \in 1..l
    BY <1>1, EmptySeq
<1>5. PICK row \in Seq(Nat) : row = rows[l]
    BY <1>4, ElementOfSeq
<1>6. PICK m \in Nat : m = Len(row) /\ row[m] # NL /\ row # <<>>
    BY <1>4, <1>5, LenProperties DEF EndsIn
<1>7. PICK longer \in Seq(Nat) : longer = Append(row, c) /\ longer # <<>>
    BY AppendProperties
<1>8. Len(longer) = m + 1 /\ longer[m + 1] = c /\ \A i \in 1..m : longer[i] = row[i]
    BY <1>6, <1>7, AppendProperties
<1>9. OneLine(longer)
    <2>1. OneLine(row)
        BY <1>4, <1>5
    <2>2. ASSUME NEW i \in 1..m PROVE row[i] # NL
        <3>1. i = m \/ i \in 1..(m - 1)
            OBVIOUS
        <3> QED BY <1>6, <2>1, <3>1 DEF OneLine
    <2>3. m + 1 - 1 = m
        BY <1>6
    <2> QED BY <1>8, <2>2, <2>3 DEF OneLine
<1>10. more[l] = longer
    BY <1>3, <1>4, <1>5, <1>7
<1>11. ASSUME NEW n \in 1..Len(more) PROVE OneLine(more[n])
    <2>1. CASE n = l
        BY <1>9, <1>10, <2>1
    <2>2. CASE n # l
        <3>1. n \in 1..Len(rows) /\ more[n] = rows[n]
            BY <1>3, <1>4, <2>2
        <3> QED BY <3>1
    <2> QED BY <2>1, <2>2
<1>12. EndsIn(more, c)
    BY <1>3, <1>4, <1>7, <1>8, <1>10 DEF EndsIn
<1> QED BY <1>2, <1>11, <1>12

\* So each row is one line of the text.
LEMMA RowsAreLines ==
    ASSUME NEW text \in Seq(Nat)
    PROVE  \A n \in 1..Len(Rows(text)) : OneLine(Rows(text)[n])
<1>1. PICK f : /\ Rows(text) = f[Len(text)]
               /\ f[0] = <<>>
               /\ \A p \in 1..Len(text) :
                     f[p] = IF p = 1 \/ text[p - 1] = NL THEN Append(f[p - 1], <<text[p]>>)
                            ELSE AddTo(f[p - 1], text[p])
    BY RowsIs
<1>2. \A p \in 0..Len(text) : f[p] \in Seq(Seq(Nat))
    BY <1>1, RowsTyped
<1> DEFINE Good(p) == /\ \A n \in 1..Len(f[p]) : OneLine(f[p][n])
                      /\ p # 0 => EndsIn(f[p], text[p])
           Wrong == {p \in 0..Len(text) : ~Good(p)}
<1>3. Len(text) \in Nat
    BY LenProperties
<1>4. Wrong = {}
    <2> SUFFICES ASSUME Wrong # {} PROVE FALSE
        OBVIOUS
    <2>1. PICK p \in Wrong : \A k \in Wrong : p <= k
        <3>1. Wrong \in SUBSET Nat
            BY <1>3
        <3> HIDE DEF Wrong
        <3> QED BY <3>1, Smallest
    <2>2. p \in 0..Len(text) /\ ~Good(p)
        OBVIOUS
    <2>3. p # 0
        <3>1. 1..Len(f[0]) = {}
            BY <1>1, EmptySeq
        <3> QED BY <2>2, <3>1
    <2>4. PICK k \in Nat :
             k = p - 1 /\ k \in 0..Len(text) /\ ~(p <= k) /\ p \in 1..Len(text) /\ (p = 1 <=> k = 0)
        BY <1>3, <2>2, <2>3
    <2>5. Good(k)
        BY <2>1, <2>4
    <2>6. PICK c \in Nat : c = text[p]
        BY <2>4, ElementOfSeq
    <2>7. f[p] = IF p = 1 \/ text[k] = NL THEN Append(f[k], <<c>>) ELSE AddTo(f[k], c)
        BY <1>1, <2>4, <2>6
    <2>8. PICK rows \in Seq(Seq(Nat)) : rows = f[k] /\ \A n \in 1..Len(rows) : OneLine(rows[n])
        BY <1>2, <2>4, <2>5
    <2>9. PICK more : more = f[p]
        OBVIOUS
    <2>10. (\A n \in 1..Len(more) : OneLine(more[n])) /\ EndsIn(more, c)
        <3>1. CASE p = 1 \/ text[k] = NL
            <4>1. more = Append(rows, <<c>>)
                BY <2>7, <2>8, <2>9, <3>1
            <4> QED BY <2>8, <4>1, RowBegun
        <3>2. CASE ~(p = 1 \/ text[k] = NL)
            <4>1. more = AddTo(rows, c)
                BY <2>7, <2>8, <2>9, <3>2
            <4>2. EndsIn(rows, text[k]) /\ text[k] # NL
                BY <2>4, <2>5, <2>8, <3>2
            <4> QED BY <2>8, <4>1, <4>2, RowContinued
        <3> QED BY <3>1, <3>2
    <2>11. Good(p)
        BY <2>6, <2>9, <2>10
    <2> QED BY <2>2, <2>11
<1>5. Good(Len(text))
    <2>1. Len(text) \in 0..Len(text)
        BY <1>3
    <2> QED BY <1>4, <2>1
<1> QED BY <1>1, <1>5

\* The kernels read a line of numbers as load_docs does.
LEMMA SameNumbers ==
    ASSUME NEW row \in Seq(Nat), OneLine(row), row # <<NL>>
    PROVE  CudfDoc(row) = Numbers(row)
<1>1. PICK doc \in Seq(Nat) : doc = Numbers(row)
    BY NumbersIs
<1>2. PICK l \in Nat : l = Len(doc) /\ DOMAIN doc = 1..l
    BY LenProperties
<1>3. ASSUME NEW n \in 1..l PROVE doc[n] # NL
    <2>1. PICK m \in Nat : m = Len(row)
        BY LenProperties
    <2>2. /\ l = IF row # <<>> /\ row[m] = NL THEN m - 1 ELSE m
          /\ doc[n] = row[n]
        BY <1>1, <1>2, <2>1, NumbersIs
    <2>3. row # <<>>
        <3>1. row = <<>> => m = 0
            BY <2>1, EmptySeq
        <3> QED BY <2>2, <3>1
    <2>4. n \in 1..(m - 1) \/ (n = m /\ row[m] # NL)
        BY <2>2, <2>3
    <2> QED BY <2>1, <2>2, <2>4 DEF OneLine
<1>4. CudfDoc(row) = [n \in 1..l |-> Atoi(doc[n])]
    BY <1>1, <1>2 DEF CudfDoc, Items
<1>5. \A n \in 1..l : Atoi(doc[n]) = doc[n]
    BY <1>3 DEF Atoi
<1>6. doc = [n \in 1..l |-> doc[n]]
    BY <1>2, SeqDef
<1>7. CudfDoc(row) = [n \in 1..l |-> doc[n]]
    BY <1>4, <1>5
<1> QED BY <1>1, <1>6, <1>7

\* A blank line is the number LargestInt to the kernels, which no query holds.
LEMMA BlankLine ==
    ASSUME NEW query \in Seq(Nat), Increasing(query), \A i \in 1..Len(query) : query[i] < LargestInt
    PROVE  /\ Len(CudfDoc(<<NL>>)) = 1 /\ Len(Numbers(<<NL>>)) = 0
           /\ Walk(query, CudfDoc(<<NL>>)) = 0 /\ PairCount(query, Numbers(<<NL>>)) = 0
<1>1. PICK row \in Seq(Nat) : row = <<NL>> /\ Len(row) = 1 /\ row[1] = NL /\ DOMAIN row = 1..1
    <2>1. <<NL>> \in Seq(Nat) /\ Len(<<NL>>) = 1 /\ <<NL>>[1] = NL /\ DOMAIN <<NL>> = 1..1
        BY DEF NL
    <2> QED BY <2>1
<1>2. PICK doc \in Seq(Nat) : doc = CudfDoc(row)
    BY CudfTyped
<1>3. doc = [n \in 1..1 |-> LargestInt]
    <2>1. Items(row) = row
        BY <1>1 DEF Items
    <2>2. Atoi(row[1]) = LargestInt
        BY <1>1 DEF Atoi
    <2>3. doc = [n \in 1..1 |-> Atoi(row[n])]
        BY <1>1, <1>2, <2>1 DEF CudfDoc
    <2>4. \A n \in 1..1 : Atoi(row[n]) = LargestInt
        BY <2>2
    <2> QED BY <2>3, <2>4
<1>4. Len(doc) = 1 /\ doc[1] = LargestInt
    <2>1. DOMAIN doc = 1..1 /\ doc[1] = LargestInt
        BY <1>3
    <2>2. DOMAIN doc = 1..Len(doc) /\ Len(doc) \in Nat
        BY LenProperties
    <2> QED BY <2>1, <2>2
<1>5. LargestInt \in Nat /\ \A i \in 1..Len(query) : query[i] \in Nat /\ query[i] < LargestInt
    BY ElementOfSeq, LargestIs
<1>6. Held(query, doc) = {}
    BY <1>4, <1>5 DEF Held
<1>7. NonDecreasing(doc)
    BY <1>4 DEF NonDecreasing
<1>8. NonDecreasing(query)
    BY <1>5 DEF Increasing, NonDecreasing
<1>9. Walk(query, doc) = 0
    BY <1>6, <1>7, <1>8, WalkCountsHeld, FS_EmptySet
<1>10. PICK none \in Seq(Nat) : none = Numbers(row) /\ Len(none) = 0
    <2>1. row # <<>> /\ row[Len(row)] = NL /\ Len(row) - 1 = 0
        <3>1. row # <<>>
            BY <1>1, EmptySeq
        <3> QED BY <1>1, <3>1
    <2> QED BY <2>1, NumbersIs
<1>11. PairCount(query, none) = 0
    <2>1. Held(query, none) = {}
        BY <1>10 DEF Held
    <2> QED BY <2>1, PairsAreHeld, FS_EmptySet
<1> QED BY <1>1, <1>2, <1>4, <1>9, <1>10, <1>11

\* So a row's score is README.md's score of the document load_docs would have read.
LEMMA RowScore ==
    ASSUME NEW query \in Seq(Nat), query # <<>>, Increasing(query),
           \A i \in 1..Len(query) : query[i] < LargestInt,
           NEW row \in Seq(Nat), OneLine(row), NonDecreasing(Numbers(row))
    PROVE  CudfScore(query, CudfDoc(row)) = ReadmeScore(query, Numbers(row))
<1>1. Len(query) \in Nat /\ Len(query) # 0
    BY LenProperties, EmptySeq
<1>2. CASE row = <<NL>>
    <2>1. PICK seen, doc : seen = CudfDoc(row) /\ doc = Numbers(row)
        OBVIOUS
    <2>2. /\ Len(seen) = 1 /\ Len(doc) = 0 /\ Walk(query, seen) = 0 /\ PairCount(query, doc) = 0
        BY <1>2, <2>1, BlankLine
    <2>3. MaxOf(Len(query), Len(seen)) = MaxOf(Len(query), Len(doc))
        BY <1>1, <2>2 DEF MaxOf
    <2> QED BY <2>1, <2>2, <2>3 DEF CudfScore, ReadmeScore, Fraction
<1>3. CASE row # <<NL>>
    <2>1. PICK doc \in Seq(Nat) : doc = Numbers(row) /\ doc = CudfDoc(row)
        BY <1>3, SameNumbers, NumbersIs
    <2>2. NonDecreasing(query)
        <3>1. \A i \in 1..Len(query) : query[i] \in Nat
            BY ElementOfSeq
        <3> QED BY <3>1 DEF Increasing, NonDecreasing
    <2>3. Walk(query, doc) = PairCount(query, doc)
        <3>1. NonDecreasing(doc)
            BY <2>1
        <3>2. Walk(query, doc) = Cardinality(Held(query, doc))
            BY <2>2, <3>1, WalkCountsHeld
        <3>3. PairCount(query, doc) = Cardinality(Held(query, doc))
            BY PairsAreHeld
        <3> QED BY <3>2, <3>3
    <2> QED BY <2>1, <2>3 DEF CudfScore, ReadmeScore
<1> QED BY <1>2, <1>3

\* What the selection can rest on: queries whose numbers differ, with at least one, none of
\* them the number a blank line is to the kernels.
QuerysFit ==
    \A q \in DOMAIN Querys :
        /\ Querys[q] \in Seq(Nat) /\ Querys[q] # <<>> /\ Increasing(Querys[q])
        /\ \A i \in 1..Len(Querys[q]) : Querys[q][i] < LargestInt

LinesSorted(text) == \A n \in 1..Len(Rows(text)) : NonDecreasing(Numbers(Rows(text)[n]))

\* The documents load_docs reads are the rows without their newlines.
LEMMA LoadedDocs ==
    ASSUME ReadInv, in.load = "topk"
    PROVE  /\ Len(LoadDocs(file)) = Len(WholeFile)
           /\ \A n \in 1..Len(WholeFile) : LoadDocs(file)[n] = Numbers(Rows(file)[n])
<1> DEFINE T == Seq(Nat)
           rows == Rows(file)
<1>1. rows \in Seq(T) /\ Len(WholeFile) = Len(rows)
    BY WholeRows
<1>2. DOMAIN rows = 1..Len(rows) /\ Len(rows) \in Nat /\ \A n \in 1..Len(rows) : rows[n] \in T
    <2> HIDE DEF rows, T
    <2> QED BY <1>1, LenProperties, ElementOfSeq
<1>3. LoadDocs(file) = [n \in DOMAIN rows |-> Numbers(rows[n])]
    BY DEF LoadDocs, Docs
<1>4. \A n \in 1..Len(rows) : Numbers(rows[n]) \in T
    BY <1>2, NumbersIs
<1> HIDE DEF rows, T
<1>5. LoadDocs(file) \in [1..Len(rows) -> T]
    BY <1>2, <1>3, <1>4
<1>6. LoadDocs(file) \in Seq(T)
    BY <1>2, <1>5, SeqDef
<1>7. Len(LoadDocs(file)) = Len(rows)
    <2>1. DOMAIN LoadDocs(file) = 1..Len(rows)
        BY <1>5
    <2>2. DOMAIN LoadDocs(file) = 1..Len(LoadDocs(file)) /\ Len(LoadDocs(file)) \in Nat
        BY <1>6, LenProperties
    <2> QED BY <1>2, <2>1, <2>2
<1>8. \A n \in 1..Len(rows) : LoadDocs(file)[n] = Numbers(rows[n])
    BY <1>2, <1>3
<1> QED BY <1>1, <1>7, <1>8 DEF rows

\* The scores of the pipeline are README.md's of those documents.
LEMMA ScoresAreReadmes ==
    ASSUME ReadInv, Exact, QuerysFit, LinesSorted(file), NEW q \in DOMAIN Querys
    PROVE  Score(q) = [d \in 0..(Len(LoadDocs(file)) - 1) |->
                          ReadmeScore(Querys[q], LoadDocs(file)[d + 1])]
<1>1. in.load = "topk" /\ file \in Seq(Nat)
    BY InputFacts DEF Exact
<1>2. PICK n \in Nat : n = Len(WholeFile)
    BY <1>1, WholeRows
<1>3. ASSUME NEW d \in 0..(n - 1)
      PROVE  CudfScore(Querys[q], WholeFile[d + 1]) = ReadmeScore(Querys[q], LoadDocs(file)[d + 1])
    <2>1. PICK m \in 1..n : m = d + 1
        BY <1>2
    <2>2. PICK row \in Seq(Nat) : row = Rows(file)[m] /\ WholeFile[m] = CudfDoc(row)
        BY <1>1, <1>2, WholeRows
    <2>3. LoadDocs(file)[m] = Numbers(row)
        BY <1>1, <1>2, <2>2, LoadedDocs
    <2>4. Len(Rows(file)) = n
        BY <1>1, <1>2, WholeRows
    <2>5. OneLine(row)
        BY <1>1, <2>2, <2>4, RowsAreLines
    <2>6. NonDecreasing(Numbers(row))
        BY <2>2, <2>4 DEF LinesSorted
    <2>7. PICK query \in Seq(Nat) :
             /\ query = Querys[q] /\ query # <<>> /\ Increasing(query)
             /\ \A i \in 1..Len(query) : query[i] < LargestInt
        BY DEF QuerysFit
    <2>8. CudfScore(query, CudfDoc(row)) = ReadmeScore(query, Numbers(row))
        BY <2>5, <2>6, <2>7, RowScore
    <2> QED BY <2>1, <2>2, <2>3, <2>7, <2>8
<1>4. Len(LoadDocs(file)) = n
    BY <1>1, <1>2, LoadedDocs
<1>5. Score(q) = [d \in 0..(n - 1) |-> CudfScore(Querys[q], WholeFile[d + 1])]
    BY <1>2 DEF Score
<1> QED BY <1>3, <1>4, <1>5

\* Every block that scored a chunk loaded all of the query: the chunk's last block has a
\* document for each thread, or for as many as the longest query has tokens.
QuerysLoaded == \A t \in DOMAIN chunks : Filled(t)

\* What was gathered from all chunks covers the whole file.
LEMMA GatheredAll ==
    ASSUME IInv, pc = "selected", Exact, QuerysLoaded, NEW q \in DOMAIN Querys
    PROVE  /\ Len(merged[q]) <= Len(WholeFile)
           /\ Keeps(merged[q], Score(q), 0, Len(WholeFile))
<1>1. ReadInv /\ ChunkInv /\ MergeInv /\ SelectedInv
    BY DEF IInv
<1>2. PICK n \in Nat : n = Len(chunks)
    BY <1>1, LenProperties DEF ChunkInv
<1>3. Gathered = n
    BY <1>1, <1>2 DEF Gathered, SelectedInv
<1>4. Joined(chunks, n) = WholeFile
    <2>1. eof
        BY <1>1 DEF ReadInv
    <2> QED BY <1>1, <1>2, <2>1, ReadSoFar
<1>5. Gathers(merged[q], q, n)
    BY <1>1, <1>3 DEF MergeInv, Merged
<1>6. \A u \in 1..n : Filled(u)
    <2>1. DOMAIN chunks = 1..n
        BY <1>1, <1>2, LenProperties DEF ChunkInv
    <2> QED BY <2>1 DEF QuerysLoaded
<1> QED BY <1>4, <1>5, <1>6 DEF Gathers

\* The chunked pipeline, with or without the pool, with or without RAFT, selects README.md's
\* top k of the whole file, for every file, buffer, k, number of threads and order of the
\* tasks: where freed device memory is not given to a later column while a task still reads
\* it, the last block of no chunk is too small to load the query, and the numbers of each
\* line are sorted.  Where RAFT cuts ties its own way, the
\* selection is the top k up to documents with equal scores, and exactly the top k if no more
\* than twice as many documents contend for it.
THEOREM PipelineSelectsTheTopk ==
    ASSUME NoLineBehind, MemsetInTime, QuerysFit
    PROVE  Spec => []((in.pool => ~Reuse) /\ QuerysLoaded /\ LinesSorted(file) => GlobalTopk)
<1>1. IInv => ((in.pool => ~Reuse) /\ QuerysLoaded /\ LinesSorted(file) => GlobalTopk)
    <2> SUFFICES ASSUME IInv, in.pool => ~Reuse, QuerysLoaded, LinesSorted(file), pc = "selected"
                 PROVE  \A q \in DOMAIN Querys :
                            Judge(indices[q], MinOf(TOPK, Len(LoadDocs(file))),
                                  [d \in 0..(Len(LoadDocs(file)) - 1) |->
                                      ReadmeScore(Querys[q], LoadDocs(file)[d + 1])])
        BY DEF GlobalTopk
    <2>1. ReadInv /\ SelectedInv
        BY DEF IInv
    <2>2. Exact
        BY <2>1 DEF Exact, ReadInv, QuerysFit
    <2>3. PICK n \in Nat : n = Len(WholeFile) /\ n = Len(LoadDocs(file))
        BY <2>1, <2>2, WholeRows, LoadedDocs DEF Exact
    <2> TAKE q \in DOMAIN Querys
    <2>4. PICK score : /\ score = Score(q)
                       /\ score = [d \in 0..(n - 1) |-> ReadmeScore(Querys[q], LoadDocs(file)[d + 1])]
        BY <2>1, <2>2, <2>3, ScoresAreReadmes
    <2>5. score \in [0..(n - 1) -> Scores]
        <3>1. \A d \in 0..(n - 1) : Score(q)[d] \in Scores
            BY <2>1, <2>2, <2>3, ScoreFacts
        <3> QED BY <2>4, <3>1
    <2>6. PICK list : list = merged[q] /\ Len(list) <= n /\ Keeps(list, score, 0, n)
        BY <2>2, <2>3, <2>4, GatheredAll
    <2>7. TOPK \in Nat
        BY PipelineAssumption
    <2>8. /\ list \in Seq(ScoredEntries)
          /\ MinOf(TOPK, n) <= Len(list)
          /\ Judge(PartialSort(list, MinOf(TOPK, n)), MinOf(TOPK, n), score)
        <3>1. CASE ~in.raft
            <4>1. Covers(list, score, 0, n, TOPK)
                BY <2>6, <3>1 DEF Keeps
            <4>2. /\ MinOf(TOPK, n) <= Len(list)
                  /\ IsTopk(PartialSort(list, MinOf(TOPK, n)), MinOf(TOPK, n), score)
                BY <2>5, <2>7, <4>1, BestOfTheBest
            <4> QED BY <3>1, <4>1, <4>2 DEF Judge, Covers
        <3>2. CASE in.raft
            <4>1. CoversTwice(list, score, 0, n, TOPK)
                BY <2>6, <3>2 DEF Keeps
            <4>2. /\ MinOf(TOPK, n) <= Len(list)
                  /\ IsTopkOfTwice(PartialSort(list, MinOf(TOPK, n)), MinOf(TOPK, n), score)
                BY <2>5, <2>7, <4>1, TwiceOfTheBest
            <4> QED BY <3>2, <4>1, <4>2 DEF Judge, CoversTwice, Covers
        <3> QED BY <3>1, <3>2
    <2>9. MinOf(TOPK, Len(list)) = MinOf(TOPK, n)
        <3>1. Len(list) \in Nat
            BY <2>8, LenProperties
        <3> QED BY <2>6, <2>7, <2>8, <3>1 DEF MinOf
    <2>10. indices[q] = PartialSort(list, MinOf(TOPK, n))
        BY <2>1, <2>6, <2>9 DEF SelectedInv
    <2> QED BY <2>3, <2>4, <2>8, <2>10
<1> QED BY PipelineInvariant, <1>1, PTL

=============================================================================
