--------------------------- MODULE ScoreKernelProofs ---------------------------
(***************************************************************************)
(* The scoring kernel for any documents, any query and any block size.     *)
(* What the threads share is right because of three things: every thread   *)
(* writes the query's own token to a place of the shared memory, no thread *)
(* is behind the barrier while one of its block is in front of it, and a   *)
(* document belongs to one thread.  What they compute is then a matter of  *)
(* the merging walk alone.                                                 *)
(***************************************************************************)
EXTENDS ScoreKernel, DocLayoutProofs

-----------------------------------------------------------------------------
(* The invariants *)

\* What the steps leave alone, and the shape of what they change.
ShapeInv ==
    /\ NDocs \in Nat
    /\ docs \in [0..(NDocs - 1) -> Seq(Nat)]
    /\ \A d \in 0..(NDocs - 1) : Len(docs[d]) <= MaxDocSize
    /\ query \in Seq(Nat)
    /\ d_docs = AlignDocs(docs)
    /\ query_on_shm \in [0..(Grid(NDocs) - 1) -> [1..Len(query) -> Junk \cup Nat]]
    /\ pc \in [Threads -> {"enter", "load", "sync", "score", "returned"}]
    /\ at \in [Threads -> Nat]
    /\ DOMAIN scores = 0..(NDocs - 1)

\* A score is a fraction of at most 1.
RatioInv ==
    \A d \in 0..(NDocs - 1) : scores[d] # Unwritten =>
        \E m \in 0..Len(docs[d]) : scores[d] = <<m, MaxOf(Len(query), Len(docs[d]))>>

\* Two numbers are at the same place of a block.
SamePlace(x, y) == x % BlockDim = y % BlockDim

\* A thread that got past the first test has a document, loads every BlockDim-th
\* token from its own place in the block on, and scores its document, no other.
PlaceInv ==
    \A t \in Threads :
        /\ pc[t] \in {"load", "sync", "score"} => t < NDocs
        /\ pc[t] = "load" => SamePlace(at[t], t)
        /\ pc[t] = "score" => at[t] = t \/ at[t] >= NDocs

\* A document has its score from when its thread has gone past it on.
OnceInv ==
    \A d \in 0..(NDocs - 1) :
        scores[d] # Unwritten <=> pc[d] = "returned" \/ (pc[d] = "score" /\ at[d] # d)

\* A token of the query is in the block's shared memory once the thread that loads
\* it is past it.
PastToken(t, i) == pc[t] \in {"sync", "score", "returned"} \/ (pc[t] = "load" /\ i < at[t])

LoadInv ==
    \A t \in Threads : t < NDocs =>
        \A i \in 0..(Len(query) - 1) :
            SamePlace(i, t) /\ PastToken(t, i) =>
                query_on_shm[BlockOf(t)][i + 1] = query[i + 1]

\* The barrier: no thread of a block loads while another one scores.
BarrierInv ==
    \A t \in Threads, u \in Threads :
        BlockOf(t) = BlockOf(u) /\ pc[t] = "score" => pc[u] \notin {"enter", "load"}

KernelInv == ShapeInv /\ PlaceInv /\ OnceInv /\ LoadInv /\ BarrierInv

-----------------------------------------------------------------------------
(* The grid *)

\* The grid has a thread for every document, and every thread a block and a place
\* in it.
LEMMA GridFacts ==
    ASSUME NEW n \in Nat
    PROVE  /\ Grid(n) \in Nat
           /\ Tnum(n) \in Nat
           /\ n <= Tnum(n)
           /\ 0..(n - 1) \subseteq ThreadsOf(n)
           /\ ThreadsOf(n) \subseteq Nat
           /\ ThreadsOf(n) = 0..(Tnum(n) - 1)
<1>1. BlockDim \in Nat \ {0}
    BY LoadAssumption
<1>2. n + BlockDim - 1 \in Nat
    BY <1>1
<1>3. PICK q \in Nat, m \in 0..(BlockDim - 1) :
         q = (n + BlockDim - 1) \div BlockDim /\ m = (n + BlockDim - 1) % BlockDim
         /\ n + BlockDim - 1 = q * BlockDim + m
    BY <1>1, <1>2, DivMod
<1>4. q * BlockDim \in Nat /\ n <= q * BlockDim
    BY <1>1, <1>3
<1> QED BY <1>3, <1>4 DEF Grid, Tnum, ThreadsOf

\* A thread's number is its block's times the block size plus its place.
LEMMA BlockFacts ==
    ASSUME NEW n \in Nat, NEW t \in ThreadsOf(n)
    PROVE  /\ BlockOf(t) \in 0..(Grid(n) - 1)
           /\ t % BlockDim \in 0..(BlockDim - 1)
           /\ t = BlockOf(t) * BlockDim + (t % BlockDim)
<1>1. BlockDim \in Nat \ {0} /\ Grid(n) \in Nat /\ t \in Nat /\ Grid(n) * BlockDim \in Nat
      /\ t < Grid(n) * BlockDim
    <2>1. BlockDim \in Nat \ {0}
        BY LoadAssumption
    <2>2. Grid(n) \in Nat /\ Tnum(n) \in Nat /\ t \in 0..(Tnum(n) - 1)
        BY GridFacts
    <2> QED BY <2>1, <2>2 DEF Tnum
<1>2. PICK q \in Nat, m \in 0..(BlockDim - 1) :
         q = t \div BlockDim /\ m = t % BlockDim /\ t = q * BlockDim + m
    BY <1>1, DivMod
<1>3. q < Grid(n)
    <2> SUFFICES ASSUME Grid(n) <= q PROVE FALSE
        BY <1>1
    <2>1. CASE Grid(n) = q
        BY <1>1, <1>2, <2>1
    <2>2. CASE Grid(n) < q
        <3>1. Grid(n) * BlockDim + BlockDim <= q * BlockDim
            BY <1>1, <2>2, TimesMonotone
        <3> QED BY <1>1, <1>2, <3>1
    <2> QED BY <1>1, <2>1, <2>2
<1>4. BlockOf(t) = q /\ t % BlockDim = m
    BY <1>2 DEF BlockOf
<1> QED BY <1>1, <1>2, <1>3, <1>4

-----------------------------------------------------------------------------
(* The invariant is inductive *)

\* The inputs are such that the invariants about them start true.
LEMMA InputFacts ==
    ASSUME Init
    PROVE  /\ ShapeInv
           /\ [docs |-> docs, query |-> query] \in
                {[docs |-> in.docs, query |-> in.query] : in \in Inputs}
           /\ pc = [t \in Threads |-> "enter"]
           /\ scores = [d \in 0..(NDocs - 1) |-> Unwritten]
<1>1. PICK in \in Inputs :
         /\ docs = in.docs
         /\ query = in.query
         /\ d_docs = AlignDocs(in.docs)
         /\ query_on_shm \in [0..(Grid(NDocs) - 1) -> [1..Len(in.query) -> Junk]]
         /\ pc = [t \in Threads |-> "enter"]
         /\ at = [t \in Threads |-> 0]
         /\ scores = [d \in 0..(NDocs - 1) |-> Unwritten]
    BY DEF Init, NDocs, Threads
<1>2. /\ NDocs \in Nat
      /\ docs \in [0..(NDocs - 1) -> Seq(Nat)]
      /\ \A d \in 0..(NDocs - 1) : Len(docs[d]) <= MaxDocSize
      /\ query \in Seq(Nat)
    BY <1>1, KernelAssumption DEF NDocs
<1>3. query_on_shm \in [0..(Grid(NDocs) - 1) -> [1..Len(query) -> Junk \cup Nat]]
    BY <1>1
<1> QED BY <1>1, <1>2, <1>3 DEF ShapeInv

LEMMA KernelInit ==
    ASSUME Init
    PROVE  KernelInv
<1>1. /\ ShapeInv
      /\ NDocs \in Nat
      /\ \A t \in Threads : pc[t] = "enter"
      /\ \A d \in 0..(NDocs - 1) : scores[d] = Unwritten
      /\ 0..(NDocs - 1) \subseteq Threads
    BY InputFacts, GridFacts DEF ShapeInv, Threads
<1>2. PlaceInv /\ LoadInv /\ BarrierInv
    BY <1>1 DEF PlaceInv, LoadInv, BarrierInv, PastToken
<1>3. OnceInv
    BY <1>1 DEF OnceInv
<1> QED BY <1>1, <1>2, <1>3 DEF KernelInv

\* No step changes the input or the layout, so the grid stays what it is.
LEMMA Frame ==
    ASSUME UNCHANGED <<docs, query, d_docs>>
    PROVE  /\ docs' = docs /\ query' = query /\ d_docs' = d_docs
           /\ NDocs' = NDocs /\ Threads' = Threads
BY DEF NDocs, Threads

\* What the steps' proofs need of the grid and of the constants.
Sizes ==
    /\ BlockDim \in Nat \ {0} /\ NDocs \in Nat /\ Len(query) \in Nat
    /\ Threads \subseteq Nat /\ 0..(NDocs - 1) \subseteq Threads
    /\ \A t \in Threads : BlockOf(t) \in 0..(Grid(NDocs) - 1)

LEMMA KernelSizes ==
    ASSUME ShapeInv
    PROVE  Sizes
<1>1. BlockDim \in Nat \ {0} /\ NDocs \in Nat /\ Len(query) \in Nat
    BY LoadAssumption, LenProperties DEF ShapeInv
<1>2. Threads \subseteq Nat /\ 0..(NDocs - 1) \subseteq Threads
    BY <1>1, GridFacts DEF Threads
<1>3. \A t \in Threads : BlockOf(t) \in 0..(Grid(NDocs) - 1)
    BY <1>1, BlockFacts DEF Threads
<1> QED BY <1>1, <1>2, <1>3 DEF Sizes

\* The tokens a thread loads: the first at its own place in the block, then every
\* BlockDim-th, and none in between.
LEMMA Places ==
    ASSUME NEW t \in Nat, NEW x \in Nat, NEW i \in Nat
    PROVE  /\ t % BlockDim \in Nat
           /\ SamePlace(t % BlockDim, t)
           /\ SamePlace(x, t) => SamePlace(x + BlockDim, t)
           /\ SamePlace(i, t) => ~(i < t % BlockDim)
           /\ SamePlace(i, t) /\ SamePlace(x, t) /\ x <= i /\ i < x + BlockDim => i = x
<1>1. BlockDim \in Nat \ {0}
    BY LoadAssumption
<1>2. PICK q \in Nat, m \in 0..(BlockDim - 1) :
         q = t \div BlockDim /\ m = t % BlockDim /\ t = q * BlockDim + m
    BY <1>1, DivMod
<1>3. m % BlockDim = m
    BY <1>1
<1>4. SamePlace(x, t) => SamePlace(x + BlockDim, t)
    BY <1>1, NextRemainder DEF SamePlace
<1>5. ASSUME SamePlace(i, t), i < m PROVE FALSE
    <2>1. i % BlockDim = i
        BY <1>1, <1>5
    <2> QED BY <1>2, <1>5, <2>1 DEF SamePlace
<1>6. SamePlace(i, t) /\ SamePlace(x, t) /\ x <= i /\ i < x + BlockDim => i = x
    BY <1>1, SameRemainder DEF SamePlace
<1> QED BY <1>2, <1>3, <1>4, <1>5, <1>6 DEF SamePlace

LEMMA EnterStep ==
    ASSUME KernelInv, NEW t \in Threads, Enter(t)
    PROVE  KernelInv'
<1>0. ShapeInv /\ PlaceInv /\ OnceInv /\ LoadInv /\ BarrierInv /\ Sizes /\ t \in Nat
    BY KernelSizes DEF KernelInv, Sizes
<1>1. /\ docs' = docs /\ query' = query /\ d_docs' = d_docs
      /\ NDocs' = NDocs /\ Threads' = Threads
      /\ query_on_shm' = query_on_shm /\ scores' = scores
    BY Frame DEF Enter
<1>2. pc[t] = "enter" /\ \A u \in Threads \ {t} : pc'[u] = pc[u] /\ at'[u] = at[u]
    BY <1>0 DEF Enter, ShapeInv
<1>3. PICK r \in Nat : r = t % BlockDim
    BY <1>0, Places
<1>4. /\ SamePlace(r, t)
      /\ \A i \in Nat : SamePlace(i, t) => ~(i < r)
    BY <1>0, <1>3, Places
<1>5. \/ t >= NDocs /\ pc'[t] = "returned" /\ at' = at
      \/ t < NDocs /\ pc'[t] = "load" /\ at' = [at EXCEPT ![t] = r]
    BY <1>0, <1>3 DEF Enter, ShapeInv
<1>6. ShapeInv'
    <2>1. pc' \in [Threads -> {"enter", "load", "sync", "score", "returned"}]
        BY <1>0 DEF ShapeInv, Enter
    <2>2. at' \in [Threads -> Nat]
        BY <1>0, <1>5 DEF ShapeInv
    <2> QED BY <1>0, <1>1, <2>1, <2>2 DEF ShapeInv
<1>7. PlaceInv'
    BY <1>0, <1>1, <1>2, <1>4, <1>5 DEF ShapeInv, PlaceInv
<1>8. OnceInv'
    BY <1>0, <1>1, <1>2, <1>5 DEF Sizes, OnceInv
<1>9. LoadInv'
    <2> SUFFICES ASSUME NEW u \in Threads, u < NDocs, NEW i \in 0..(Len(query) - 1),
                        SamePlace(i, u), PastToken(u, i)'
                 PROVE  query_on_shm[BlockOf(u)][i + 1] = query[i + 1]
        BY <1>1 DEF LoadInv
    <2>1. CASE u # t
        BY <1>0, <1>1, <1>2, <2>1 DEF LoadInv, PastToken
    <2>2. CASE u = t
        <3>1. i < r
            BY <1>0, <1>5, <2>2 DEF PastToken, ShapeInv
        <3> QED BY <1>0, <1>4, <2>2, <3>1 DEF Sizes
    <2> QED BY <2>1, <2>2
<1>10. BarrierInv'
    BY <1>0, <1>1, <1>2, <1>5 DEF BarrierInv
<1> QED BY <1>6, <1>7, <1>8, <1>9, <1>10 DEF KernelInv

LEMMA LoadStep ==
    ASSUME KernelInv, NEW t \in Threads, LoadQuery(t)
    PROVE  KernelInv'
<1>0. ShapeInv /\ PlaceInv /\ OnceInv /\ LoadInv /\ BarrierInv /\ Sizes /\ t \in Nat
    BY KernelSizes DEF KernelInv, Sizes
<1>1. /\ docs' = docs /\ query' = query /\ d_docs' = d_docs
      /\ NDocs' = NDocs /\ Threads' = Threads /\ scores' = scores
    BY Frame DEF LoadQuery
<1>2. pc[t] = "load" /\ t < NDocs /\ SamePlace(at[t], t)
    BY <1>0 DEF LoadQuery, PlaceInv
<1>3. PICK b \in 0..(Grid(NDocs) - 1) : b = BlockOf(t)
    BY <1>0 DEF Sizes
<1>4. PICK x \in Nat : x = at[t]
    BY <1>0 DEF ShapeInv
<1>5. /\ SamePlace(x + BlockDim, t)
      /\ \A i \in Nat : SamePlace(i, t) /\ x <= i /\ i < x + BlockDim => i = x
    BY <1>0, <1>2, <1>4, Places
<1>6. CASE x < Len(query)
    <2>1. /\ query_on_shm' = [query_on_shm EXCEPT ![b][x + 1] = query[x + 1]]
          /\ at' = [at EXCEPT ![t] = x + BlockDim]
          /\ pc' = pc
        BY <1>3, <1>4, <1>6 DEF LoadQuery
    <2>2. query[x + 1] \in Nat /\ x + 1 \in 1..Len(query)
        BY <1>0, <1>6, ElementOfSeq DEF ShapeInv, Sizes
    <2>3. ShapeInv'
        <3>1. query_on_shm' \in [0..(Grid(NDocs) - 1) -> [1..Len(query) -> Junk \cup Nat]]
            BY <1>0, <1>3, <2>1, <2>2 DEF ShapeInv
        <3>2. at' \in [Threads -> Nat]
            BY <1>0, <2>1 DEF ShapeInv, Sizes
        <3> QED BY <1>0, <1>1, <2>1, <3>1, <3>2 DEF ShapeInv
    <2>4. PlaceInv'
        BY <1>0, <1>1, <1>2, <1>5, <2>1 DEF ShapeInv, PlaceInv
    <2>5. OnceInv'
        BY <1>0, <1>1, <1>2, <2>1 DEF ShapeInv, Sizes, OnceInv
    <2>6. LoadInv'
        <3> SUFFICES ASSUME NEW u \in Threads, u < NDocs, NEW i \in 0..(Len(query) - 1),
                            SamePlace(i, u), PastToken(u, i)'
                     PROVE  query_on_shm'[BlockOf(u)][i + 1] = query[i + 1]
            BY <1>1 DEF LoadInv
        <3>1. i + 1 \in 1..Len(query) /\ BlockOf(u) \in 0..(Grid(NDocs) - 1)
            BY <1>0 DEF Sizes
        <3>2. query_on_shm'[BlockOf(u)][i + 1] =
                IF BlockOf(u) = b /\ i = x THEN query[x + 1] ELSE query_on_shm[BlockOf(u)][i + 1]
            <4>1. PICK c \in 0..(Grid(NDocs) - 1) : c = BlockOf(u)
                BY <3>1
            <4>2. /\ query_on_shm \in [0..(Grid(NDocs) - 1) -> [1..Len(query) -> Junk \cup Nat]]
                  /\ b \in 0..(Grid(NDocs) - 1)
                BY <1>0 DEF ShapeInv
            <4>3. query_on_shm'[c] =
                    IF c = b THEN [query_on_shm[b] EXCEPT ![x + 1] = query[x + 1]]
                             ELSE query_on_shm[c]
                BY <2>1, <4>2
            <4>4. query_on_shm[b] \in [1..Len(query) -> Junk \cup Nat]
                BY <4>2
            <4>5. i + 1 = x + 1 <=> i = x
                OBVIOUS
            <4> QED BY <3>1, <4>1, <4>3, <4>4, <4>5
        <3>3. CASE PastToken(u, i)
            <4>1. query_on_shm[BlockOf(u)][i + 1] = query[i + 1]
                BY <1>0, <3>3 DEF LoadInv
            <4> QED BY <3>2, <4>1
        <3>4. CASE ~PastToken(u, i)
            <4>1. u = t /\ i < x + BlockDim /\ ~(i < x)
                BY <1>0, <1>2, <1>4, <2>1, <3>4 DEF PastToken, ShapeInv
            <4>2. i = x
                BY <1>5, <4>1, <1>0 DEF Sizes
            <4> QED BY <1>3, <3>2, <4>1, <4>2
        <3> QED BY <3>3, <3>4
    <2>7. BarrierInv'
        BY <1>0, <1>1, <2>1 DEF BarrierInv
    <2> QED BY <2>3, <2>4, <2>5, <2>6, <2>7 DEF KernelInv
<1>7. CASE ~(x < Len(query))
    <2>1. /\ query_on_shm' = query_on_shm /\ at' = at
          /\ pc' = [pc EXCEPT ![t] = "sync"]
        BY <1>4, <1>7 DEF LoadQuery
    <2>2. ShapeInv'
        BY <1>0, <1>1, <2>1 DEF ShapeInv
    <2>3. PlaceInv'
        BY <1>0, <1>1, <1>2, <2>1 DEF ShapeInv, PlaceInv
    <2>4. OnceInv'
        BY <1>0, <1>1, <1>2, <2>1 DEF ShapeInv, Sizes, OnceInv
    <2>5. LoadInv'
        <3> SUFFICES ASSUME NEW u \in Threads, u < NDocs, NEW i \in 0..(Len(query) - 1),
                            SamePlace(i, u), PastToken(u, i)'
                     PROVE  query_on_shm[BlockOf(u)][i + 1] = query[i + 1]
            BY <1>1, <2>1 DEF LoadInv
        <3>1. PastToken(u, i)
            BY <1>0, <1>2, <1>4, <1>7, <2>1 DEF PastToken, ShapeInv, Sizes
        <3> QED BY <1>0, <3>1 DEF LoadInv
    <2>6. BarrierInv'
        BY <1>0, <1>1, <1>2, <2>1 DEF ShapeInv, BarrierInv
    <2> QED BY <2>2, <2>3, <2>4, <2>5, <2>6 DEF KernelInv
<1> QED BY <1>6, <1>7

LEMMA SyncStep ==
    ASSUME KernelInv, NEW t \in Threads, Sync(t)
    PROVE  KernelInv'
<1>0. ShapeInv /\ PlaceInv /\ OnceInv /\ LoadInv /\ BarrierInv /\ Sizes /\ t \in Nat
    BY KernelSizes DEF KernelInv, Sizes
<1>1. /\ docs' = docs /\ query' = query /\ d_docs' = d_docs
      /\ NDocs' = NDocs /\ Threads' = Threads
      /\ query_on_shm' = query_on_shm /\ scores' = scores
    BY Frame DEF Sync
<1>2. /\ pc[t] = "sync"
      /\ pc' = [pc EXCEPT ![t] = "score"]
      /\ at' = [at EXCEPT ![t] = t]
      /\ \A u \in Threads : BlockOf(u) = BlockOf(t) => pc[u] \notin {"enter", "load"}
    BY DEF Sync, BlockThreads
<1>3. ShapeInv'
    BY <1>0, <1>1, <1>2 DEF ShapeInv
<1>4. PlaceInv'
    BY <1>0, <1>1, <1>2 DEF ShapeInv, PlaceInv
<1>5. OnceInv'
    BY <1>0, <1>1, <1>2 DEF ShapeInv, Sizes, OnceInv
<1>6. LoadInv'
    BY <1>0, <1>1, <1>2 DEF ShapeInv, LoadInv, PastToken
<1>7. BarrierInv'
    BY <1>0, <1>1, <1>2 DEF ShapeInv, BarrierInv
<1> QED BY <1>3, <1>4, <1>5, <1>6, <1>7 DEF KernelInv

\* A score is written at most once, by the document's own thread, which is past the
\* document then.
LEMMA ScoreStep ==
    ASSUME KernelInv, NEW t \in Threads, ScoreDoc(t)
    PROVE  /\ KernelInv'
           /\ \/ scores' = scores
              \/ /\ t \in 0..(NDocs - 1)
                 /\ scores' = [scores EXCEPT ![t] = ScoreOf(BlockOf(t), t)]
<1>0. ShapeInv /\ PlaceInv /\ OnceInv /\ LoadInv /\ BarrierInv /\ Sizes /\ t \in Nat
    BY KernelSizes DEF KernelInv, Sizes
<1>1. /\ docs' = docs /\ query' = query /\ d_docs' = d_docs
      /\ NDocs' = NDocs /\ Threads' = Threads
      /\ query_on_shm' = query_on_shm
    BY Frame DEF ScoreDoc
<1>2. pc[t] = "score" /\ t < NDocs /\ (at[t] = t \/ at[t] >= NDocs)
    BY <1>0 DEF ScoreDoc, PlaceInv
<1>3. CASE at[t] < NDocs
    <2>1. at[t] = t /\ t \in 0..(NDocs - 1)
        BY <1>0, <1>2, <1>3 DEF Sizes, ShapeInv
    <2>2. PICK y \in Nat : y = t + Tnum(NDocs) /\ y >= NDocs /\ y # t
        <3>1. Tnum(NDocs) \in Nat /\ NDocs <= Tnum(NDocs)
            BY <1>0, GridFacts DEF Sizes
        <3> QED BY <1>0, <1>2, <3>1 DEF Sizes
    <2>3. /\ scores' = [scores EXCEPT ![t] = ScoreOf(BlockOf(t), t)]
          /\ at' = [at EXCEPT ![t] = y]
          /\ pc' = pc
        BY <1>3, <2>1, <2>2 DEF ScoreDoc
    <2>4. ScoreOf(BlockOf(t), t) # Unwritten
        BY DEF ScoreOf, Fraction, Unwritten
    <2>5. ShapeInv'
        BY <1>0, <1>1, <2>1, <2>3 DEF ShapeInv
    <2>6. PlaceInv'
        BY <1>0, <1>1, <1>2, <2>2, <2>3 DEF ShapeInv, PlaceInv
    <2>7. OnceInv'
        <3> SUFFICES ASSUME NEW d \in 0..(NDocs - 1)
                     PROVE  scores'[d] # Unwritten
                              <=> pc[d] = "returned" \/ (pc[d] = "score" /\ at'[d] # d)
            BY <1>1, <2>3 DEF OnceInv
        <3>1. d \in Threads
            BY <1>0 DEF Sizes
        <3>2. CASE d = t
            BY <1>0, <1>2, <2>2, <2>3, <2>4, <3>2 DEF ShapeInv
        <3>3. CASE d # t
            BY <1>0, <2>3, <3>1, <3>3 DEF ShapeInv, OnceInv
        <3> QED BY <3>2, <3>3
    <2>8. LoadInv'
        BY <1>0, <1>1, <1>2, <2>3 DEF ShapeInv, LoadInv, PastToken
    <2>9. BarrierInv'
        BY <1>0, <1>1, <2>3 DEF BarrierInv
    <2> QED BY <2>1, <2>3, <2>5, <2>6, <2>7, <2>8, <2>9 DEF KernelInv
<1>4. CASE ~(at[t] < NDocs)
    <2>1. /\ scores' = scores /\ at' = at
          /\ pc' = [pc EXCEPT ![t] = "returned"]
        BY <1>4 DEF ScoreDoc
    <2>2. ShapeInv'
        BY <1>0, <1>1, <2>1 DEF ShapeInv
    <2>3. PlaceInv'
        BY <1>0, <1>1, <2>1 DEF ShapeInv, PlaceInv
    <2>4. OnceInv'
        BY <1>0, <1>1, <1>2, <1>4, <2>1 DEF ShapeInv, Sizes, OnceInv
    <2>5. LoadInv'
        BY <1>0, <1>1, <1>2, <2>1 DEF ShapeInv, LoadInv, PastToken
    <2>6. BarrierInv'
        BY <1>0, <1>1, <1>2, <2>1 DEF ShapeInv, BarrierInv
    <2> QED BY <2>1, <2>2, <2>3, <2>4, <2>5, <2>6 DEF KernelInv
<1> QED BY <1>3, <1>4

LEMMA KernelStep ==
    ASSUME KernelInv, [Next]_vars
    PROVE  KernelInv'
<1>1. CASE UNCHANGED vars
    <2>1. NDocs' = NDocs /\ Threads' = Threads
        BY <1>1 DEF vars, NDocs, Threads
    <2> QED BY <1>1, <2>1 DEF vars, KernelInv, ShapeInv, PlaceInv, OnceInv, LoadInv, BarrierInv, PastToken
<1>2. ASSUME NEW t \in Threads, Step(t) PROVE KernelInv'
    BY <1>2, EnterStep, LoadStep, SyncStep, ScoreStep DEF Step
<1> QED BY <1>1, <1>2 DEF Next, Over

\* Threads are where the code has them, every block waits at its barrier, and a document
\* belongs to one thread, in every reachable state and for any inputs.
THEOREM KernelInvariant == Spec => []KernelInv
<1>1. Init => KernelInv
    BY KernelInit
<1>2. KernelInv /\ [Next]_vars => KernelInv'
    BY KernelStep
<1> QED BY <1>1, <1>2, PTL DEF Spec

-----------------------------------------------------------------------------
(* What follows *)

\* The scores change by the document's own thread alone.
LEMMA ScoresStep ==
    ASSUME KernelInv, [Next]_vars
    PROVE  /\ docs' = docs /\ query' = query /\ d_docs' = d_docs /\ NDocs' = NDocs
           /\ \/ scores' = scores
              \/ \E t \in 0..(NDocs - 1) :
                    /\ t \in Threads /\ pc[t] = "score"
                    /\ scores' = [scores EXCEPT ![t] = ScoreOf(BlockOf(t), t)]
<1>1. CASE UNCHANGED vars
    BY <1>1 DEF vars, NDocs
<1>2. ASSUME NEW t \in Threads, Enter(t) \/ LoadQuery(t) \/ Sync(t)
      PROVE  UNCHANGED <<docs, query, d_docs, scores>>
    BY <1>2 DEF Enter, LoadQuery, Sync
<1>3. ASSUME NEW t \in Threads, ScoreDoc(t)
      PROVE  /\ UNCHANGED <<docs, query, d_docs>>
             /\ \/ scores' = scores
                \/ /\ t \in 0..(NDocs - 1) /\ pc[t] = "score"
                   /\ scores' = [scores EXCEPT ![t] = ScoreOf(BlockOf(t), t)]
    <2>1. UNCHANGED <<docs, query, d_docs>> /\ pc[t] = "score"
        BY <1>3 DEF ScoreDoc
    <2>2. \/ scores' = scores
          \/ /\ t \in 0..(NDocs - 1)
             /\ scores' = [scores EXCEPT ![t] = ScoreOf(BlockOf(t), t)]
        BY <1>3, ScoreStep
    <2> QED BY <2>1, <2>2
<1>4. NDocs' = NDocs
    BY <1>1, <1>2, <1>3, Frame DEF Next, Step, Over, vars, NDocs
<1> QED BY <1>1, <1>2, <1>3, <1>4 DEF Next, Step, Over, vars

\* Whatever the shared memory holds, a score is a fraction of at most 1.
LEMMA ScoreOfRatio ==
    ASSUME KernelInv, NEW d \in 0..(NDocs - 1), NEW b
    PROVE  \E m \in 0..Len(docs[d]) : ScoreOf(b, d) = <<m, MaxOf(Len(query), Len(docs[d]))>>
<1>1. /\ NDocs \in Nat
      /\ docs \in [0..(NDocs - 1) -> Seq(Nat)]
      /\ \A e \in 0..(NDocs - 1) : Len(docs[e]) <= MaxDocSize
      /\ d_docs = AlignDocs(docs)
    BY DEF KernelInv, ShapeInv
<1>2. MergeJoin(query_on_shm[b], LoadedDoc(d_docs, NDocs, d)) = MergeJoin(query_on_shm[b], docs[d])
    BY <1>1, WalkSeesTheDocument
<1>3. docs[d] \in Seq(Nat)
    BY <1>1
<1>4. MergeJoin(query_on_shm[b], docs[d]) \in 0..Len(docs[d])
    BY <1>3, MergeJoinBound
<1> QED BY <1>2, <1>4 DEF ScoreOf, Fraction

LEMMA RatioStep ==
    ASSUME KernelInv, RatioInv, [Next]_vars
    PROVE  RatioInv'
<1>1. docs' = docs /\ query' = query /\ NDocs' = NDocs /\ DOMAIN scores = 0..(NDocs - 1)
    BY ScoresStep DEF KernelInv, ShapeInv
<1>2. CASE scores' = scores
    BY <1>1, <1>2 DEF RatioInv
<1>3. ASSUME NEW t \in 0..(NDocs - 1), scores' = [scores EXCEPT ![t] = ScoreOf(BlockOf(t), t)]
      PROVE  RatioInv'
    <2>1. PICK m \in 0..Len(docs[t]) :
             ScoreOf(BlockOf(t), t) = <<m, MaxOf(Len(query), Len(docs[t]))>>
        BY ScoreOfRatio
    <2> QED BY <1>1, <1>3, <2>1 DEF RatioInv
<1> QED BY <1>2, <1>3, ScoresStep

\* The walk's offset of a token is inside the layout, as the token's place is.
LEMMA LoadedInRange ==
    ASSUME NEW n \in Nat, NEW d \in 0..(n - 1), NEW j \in 0..(MaxDocSize - 1)
    PROVE  LoadedOffset(n, d, j) \in 0..(MaxDocSize * n - 1)
<1>1. d \in Nat /\ j \in Nat
    BY LayoutAssumption
<1>2. LoadedOffset(n, d, j) = FinalOffset(n, d, j)
    BY <1>1, LoadedOffsetIsFinal
<1> QED BY <1>2, OffsetsInRange

\* No thread is about to read or write outside an array, and no score is above 1, in
\* any state and for any inputs: a thread copies one of the query's tokens into a block
\* of the grid, and the stride never takes it to a document, or a token of a document,
\* that the layout does not hold.
THEOREM TypeCorrect == Spec => []TypeOK
<1>1. Init => RatioInv
    BY InputFacts DEF RatioInv
<1>2. KernelInv /\ RatioInv /\ [Next]_vars => RatioInv'
    BY RatioStep
<1>3. KernelInv /\ RatioInv => TypeOK
    <2> SUFFICES ASSUME KernelInv, RatioInv PROVE TypeOK
        OBVIOUS
    <2>1. /\ d_docs = AlignDocs(docs) /\ NDocs \in Nat /\ DOMAIN scores = 0..(NDocs - 1)
          /\ query_on_shm \in [0..(Grid(NDocs) - 1) -> [1..Len(query) -> Junk \cup Nat]]
          /\ pc \in [Threads -> {"enter", "load", "sync", "score", "returned"}]
          /\ at \in [Threads -> Nat]
          /\ Sizes
        BY KernelSizes DEF KernelInv, ShapeInv
    <2>2. ASSUME NEW t \in Threads, pc[t] = "load", at[t] < Len(query)
          PROVE  BlockOf(t) \in DOMAIN query_on_shm /\ at[t] + 1 \in DOMAIN query_on_shm[BlockOf(t)]
        <3>1. BlockOf(t) \in DOMAIN query_on_shm /\ at[t] \in Nat /\ Len(query) \in Nat
            BY <2>1 DEF Sizes
        <3>2. DOMAIN query_on_shm[BlockOf(t)] = 1..Len(query)
            BY <2>1, <3>1
        <3> QED BY <2>2, <3>1, <3>2
    <2>3. ASSUME NEW t \in Threads, pc[t] = "score", at[t] < NDocs
          PROVE  /\ at[t] \in DOMAIN scores
                 /\ \A j \in 0..(MaxDocSize - 1) : LoadedOffset(NDocs, at[t], j) \in DOMAIN d_docs
        <3>1. at[t] \in 0..(NDocs - 1)
            BY <2>1, <2>3
        <3>2. DOMAIN d_docs = 0..(MaxDocSize * NDocs - 1)
            BY <2>1 DEF AlignDocs, NDocs
        <3> QED BY <2>1, <3>1, <3>2, LoadedInRange
    <2>4. \A d \in DOMAIN scores : scores[d] # Unwritten => scores[d][1] <= scores[d][2]
        <3> SUFFICES ASSUME NEW d \in DOMAIN scores, scores[d] # Unwritten
                     PROVE  scores[d][1] <= scores[d][2]
            OBVIOUS
        <3>1. /\ d \in 0..(NDocs - 1) /\ docs[d] \in Seq(Nat) /\ query \in Seq(Nat)
            BY DEF KernelInv, ShapeInv
        <3>2. PICK m \in 0..Len(docs[d]) : scores[d] = <<m, MaxOf(Len(query), Len(docs[d]))>>
            BY <3>1 DEF RatioInv
        <3>3. Len(docs[d]) \in Nat /\ Len(query) \in Nat
            BY <3>1, LenProperties
        <3> QED BY <3>2, <3>3 DEF MaxOf
    <2> QED BY <2>1, <2>2, <2>3, <2>4 DEF TypeOK
<1> QED BY <1>1, <1>2, <1>3, KernelInvariant, PTL DEF Spec

\* No document is scored twice: its thread is the only one that writes its score,
\* and the stride takes that thread past all documents.
THEOREM EveryDocumentScoredOnce == Spec => []ScoredOnce
<1>1. KernelInv => ScoredOnce
    <2> SUFFICES ASSUME KernelInv, NEW t \in Threads, pc[t] = "score", at[t] < NDocs
                 PROVE  scores[at[t]] = Unwritten
        BY DEF ScoredOnce
    <2>1. /\ at[t] \in Nat /\ NDocs \in Nat /\ t < NDocs /\ (at[t] = t \/ at[t] >= NDocs)
          /\ t \in Nat
        BY KernelSizes DEF KernelInv, ShapeInv, PlaceInv, Sizes
    <2>2. at[t] = t /\ t \in 0..(NDocs - 1)
        BY <2>1
    <2> QED BY <2>2 DEF KernelInv, OnceInv
<1> QED BY <1>1, KernelInvariant, PTL

-----------------------------------------------------------------------------
(* Whatever the last block loads *)

\* The places that no thread with a document loads keep what they held.
KeptInv(junk) ==
    \A d \in 0..(NDocs - 1), i \in 1..Len(query) :
        ~LoadedByBlock(NDocs, d, i) => query_on_shm[BlockOf(d)][i] = junk[i]

LoadedScore(junk, d) ==
    Fraction(MergeJoin(QueryOnShm(query, NDocs, d, junk), docs[d]), query, docs[d])

JunkInv ==
    \E junk \in Unloaded(NDocs, Len(query)) :
        /\ KeptInv(junk)
        /\ \A d \in 0..(NDocs - 1) : scores[d] # Unwritten => scores[d] = LoadedScore(junk, d)

\* Token i of a block's query is loaded by the thread at its place in the block.
LEMMA LoaderOf ==
    ASSUME NEW n \in Nat, NEW d \in 0..(n - 1), NEW i \in Nat \ {0}, LoadedByBlock(n, d, i)
    PROVE  \E u \in ThreadsOf(n) : u < n /\ BlockOf(u) = BlockOf(d) /\ SamePlace(i - 1, u)
<1>1. BlockDim \in Nat \ {0} /\ d \in Nat /\ i - 1 \in Nat
    BY LoadAssumption
<1>2. PICK q \in Nat, m \in 0..(BlockDim - 1) :
         q = d \div BlockDim /\ m = d % BlockDim /\ d = q * BlockDim + m
    BY <1>1, DivMod
<1>3. PICK p \in Nat, l \in 0..(BlockDim - 1) :
         p = (i - 1) \div BlockDim /\ l = (i - 1) % BlockDim /\ i - 1 = p * BlockDim + l
    BY <1>1, DivMod
<1>4. q * BlockDim + l < n
    BY <1>2, <1>3 DEF LoadedByBlock
<1>5. /\ (q * BlockDim + l) \div BlockDim = q
      /\ (q * BlockDim + l) % BlockDim = l
      /\ q * BlockDim + l \in Nat
    BY <1>1, <1>2, <1>3, DivModUnique
<1>6. q * BlockDim + l \in ThreadsOf(n)
    BY <1>4, <1>5, GridFacts
<1> QED BY <1>2, <1>3, <1>4, <1>5, <1>6 DEF BlockOf, SamePlace

\* A thread that has a document loads none of the places nobody loads.
LEMMA LoaderLoads ==
    ASSUME NEW n \in Nat, NEW t \in Nat, NEW d \in Nat, NEW x \in Nat,
           t < n, BlockOf(d) = BlockOf(t), SamePlace(x, t)
    PROVE  LoadedByBlock(n, d, x + 1)
<1>1. BlockDim \in Nat \ {0}
    BY LoadAssumption
<1>2. PICK q \in Nat, m \in 0..(BlockDim - 1) :
         q = t \div BlockDim /\ m = t % BlockDim /\ t = q * BlockDim + m
    BY <1>1, DivMod
<1>3. d \div BlockDim = q /\ ((x + 1) - 1) % BlockDim = m
    BY <1>2 DEF BlockOf, SamePlace
<1> QED BY <1>2, <1>3 DEF LoadedByBlock

\* Only the last block of the grid may lack a thread.
LEMMA LacksOnlyInTheLast ==
    ASSUME NEW n \in Nat, NEW d \in 0..(n - 1), NEW i \in Nat \ {0}, ~LoadedByBlock(n, d, i)
    PROVE  BlockOf(d) = Grid(n) - 1
<1>1. BlockDim \in Nat \ {0} /\ d \in Nat /\ d < n /\ i - 1 \in Nat
    BY LoadAssumption
<1>2. PICK q \in Nat, m \in 0..(BlockDim - 1) :
         q = d \div BlockDim /\ m = d % BlockDim /\ d = q * BlockDim + m
    BY <1>1, DivMod
<1>3. PICK p \in Nat, l \in 0..(BlockDim - 1) :
         p = (i - 1) \div BlockDim /\ l = (i - 1) % BlockDim /\ i - 1 = p * BlockDim + l
    BY <1>1, DivMod
<1>4. q * BlockDim \in Nat
    BY <1>1, <1>2
<1>5. n <= q * BlockDim + l
    BY <1>1, <1>2, <1>3, <1>4 DEF LoadedByBlock
<1>6. PICK r \in 0..(BlockDim - 1) : n = q * BlockDim + r + 1
    <2>1. n - 1 - q * BlockDim \in 0..(BlockDim - 1)
        BY <1>1, <1>2, <1>3, <1>4, <1>5
    <2> QED BY <1>4, <2>1
<1>7. n + BlockDim - 1 = (q + 1) * BlockDim + r
    <2>1. (q + 1) * BlockDim = q * BlockDim + BlockDim
        BY <1>1, <1>2
    <2> QED BY <1>1, <1>4, <1>6, <2>1
<1>8. Grid(n) = q + 1
    <2>1. q + 1 \in Nat /\ r \in 0..(BlockDim - 1)
        BY <1>2, <1>6
    <2>2. ((q + 1) * BlockDim + r) \div BlockDim = q + 1
        BY <1>1, <2>1, DivModUnique
    <2> QED BY <1>7, <2>2 DEF Grid
<1>9. BlockOf(d) = q /\ q \in Nat
    BY <1>2 DEF BlockOf
<1> QED BY <1>8, <1>9

\* What the last block held at the start explains what it has not loaded.
LEMMA JunkInit ==
    ASSUME Init
    PROVE  JunkInv
<1>1. /\ NDocs \in Nat /\ Len(query) \in Nat
      /\ \A d \in 0..(NDocs - 1) : scores[d] = Unwritten
    BY InputFacts, LenProperties DEF ShapeInv
<1>2. query_on_shm \in [0..(Grid(NDocs) - 1) -> [1..Len(query) -> Junk]]
    BY DEF Init, NDocs
<1> DEFINE junk == [i \in Missing(NDocs, Len(query)) |-> query_on_shm[Grid(NDocs) - 1][i]]
<1>3. ASSUME NEW d \in 0..(NDocs - 1), NEW i \in 1..Len(query), ~LoadedByBlock(NDocs, d, i)
      PROVE  i \in Missing(NDocs, Len(query)) /\ query_on_shm[BlockOf(d)][i] = junk[i]
    <2>1. i \in Missing(NDocs, Len(query))
        BY <1>3 DEF Missing
    <2>2. BlockOf(d) = Grid(NDocs) - 1
        BY <1>1, <1>3, LacksOnlyInTheLast
    <2> QED BY <2>1, <2>2
<1>4. junk \in Unloaded(NDocs, Len(query))
    <2> SUFFICES ASSUME NEW i \in Missing(NDocs, Len(query))
                 PROVE  query_on_shm[Grid(NDocs) - 1][i] \in Junk
        BY DEF Unloaded
    <2>1. i \in 1..Len(query)
        BY DEF Missing
    <2>2. PICK d \in 0..(NDocs - 1) : ~LoadedByBlock(NDocs, d, i)
        BY DEF Missing
    <2>3. d \in ThreadsOf(NDocs) /\ BlockOf(d) \in 0..(Grid(NDocs) - 1)
        BY <1>1, GridFacts, BlockFacts
    <2>4. BlockOf(d) = Grid(NDocs) - 1
        BY <1>1, <2>1, <2>2, LacksOnlyInTheLast
    <2> QED BY <1>2, <2>1, <2>3, <2>4
<1>5. KeptInv(junk)
    BY <1>3 DEF KeptInv
<1> QED BY <1>1, <1>4, <1>5 DEF JunkInv

\* No thread overwrites them.
LEMMA KeptStep ==
    ASSUME KernelInv, NEW junk, KeptInv(junk), [Next]_vars
    PROVE  KeptInv(junk)'
<1>1. query' = query /\ NDocs' = NDocs
    BY ScoresStep
<1>2. CASE query_on_shm' = query_on_shm
    BY <1>1, <1>2 DEF KeptInv
<1>3. ASSUME NEW t \in Threads, LoadQuery(t), query_on_shm' # query_on_shm
      PROVE  KeptInv(junk)'
    <2>1. /\ at[t] < Len(query) /\ pc[t] = "load"
          /\ query_on_shm' = [query_on_shm EXCEPT ![BlockOf(t)][at[t] + 1] = query[at[t] + 1]]
        BY <1>3 DEF LoadQuery
    <2>2. /\ NDocs \in Nat /\ t \in Nat /\ at[t] \in Nat /\ t < NDocs /\ SamePlace(at[t], t)
        BY <2>1, KernelSizes DEF KernelInv, ShapeInv, PlaceInv, Sizes
    <2>3. /\ query_on_shm \in [0..(Grid(NDocs) - 1) -> [1..Len(query) -> Junk \cup Nat]]
          /\ BlockOf(t) \in 0..(Grid(NDocs) - 1)
        BY KernelSizes DEF KernelInv, ShapeInv, Sizes
    <2> SUFFICES ASSUME NEW d \in 0..(NDocs - 1), NEW i \in 1..Len(query),
                        ~LoadedByBlock(NDocs, d, i)
                 PROVE  query_on_shm'[BlockOf(d)][i] = junk[i]
        BY <1>1 DEF KeptInv
    <2>4. query_on_shm[BlockOf(d)][i] = junk[i]
        BY DEF KeptInv
    <2>5. d \in Nat /\ BlockOf(d) \in 0..(Grid(NDocs) - 1)
        BY KernelSizes DEF Sizes, KernelInv
    <2>6. ~(BlockOf(d) = BlockOf(t) /\ i = at[t] + 1)
        BY <2>2, <2>5, LoaderLoads
    <2>7. query_on_shm'[BlockOf(d)][i] = query_on_shm[BlockOf(d)][i]
        BY <2>1, <2>3, <2>5, <2>6
    <2> QED BY <2>4, <2>7
<1>4. ASSUME NEW t \in Threads, Enter(t) \/ Sync(t) \/ ScoreDoc(t)
      PROVE  query_on_shm' = query_on_shm
    BY <1>4 DEF Enter, Sync, ScoreDoc
<1> QED BY <1>2, <1>3, <1>4 DEF Next, Step, Over, vars

\* Behind the barrier every token that a thread of the block loads is in its memory: the
\* thread is past it.
LEMMA SharedIsQuery ==
    ASSUME KernelInv
    PROVE  SharedHoldsQuery
<1> SUFFICES ASSUME NEW t \in Threads, pc[t] = "score",
                    NEW i \in 1..Len(query), LoadedByBlock(NDocs, t, i)
             PROVE  query_on_shm[BlockOf(t)][i] = query[i]
    BY DEF SharedHoldsQuery
<1>1. ShapeInv /\ PlaceInv /\ LoadInv /\ BarrierInv /\ Sizes
    BY KernelSizes DEF KernelInv
<1>2. t \in 0..(NDocs - 1) /\ NDocs \in Nat /\ Len(query) \in Nat
    BY <1>1 DEF PlaceInv, Sizes
<1>3. i \in Nat \ {0} /\ i - 1 \in 0..(Len(query) - 1) /\ (i - 1) + 1 = i
    BY <1>2
<1>4. PICK u \in Threads : u < NDocs /\ BlockOf(u) = BlockOf(t) /\ SamePlace(i - 1, u)
    BY <1>2, <1>3, LoaderOf DEF Threads
<1>5. pc[u] \in {"sync", "score", "returned"}
    BY <1>1, <1>4 DEF ShapeInv, BarrierInv
<1>6. query_on_shm[BlockOf(u)][(i - 1) + 1] = query[(i - 1) + 1]
    BY <1>1, <1>3, <1>4, <1>5 DEF LoadInv, PastToken
<1> QED BY <1>3, <1>4, <1>6

\* And all of it is what QueryOnShm says.
LEMMA SharedIsLoaded ==
    ASSUME KernelInv, NEW junk, KeptInv(junk), NEW t \in 0..(NDocs - 1), pc[t] = "score"
    PROVE  query_on_shm[BlockOf(t)] = QueryOnShm(query, NDocs, t, junk)
<1>1. ShapeInv /\ Sizes /\ t \in Threads
    BY KernelSizes DEF KernelInv, Sizes
<1>2. query_on_shm[BlockOf(t)] \in [1..Len(query) -> Junk \cup Nat]
    BY <1>1 DEF ShapeInv, Sizes
<1>3. \A i \in 1..Len(query) :
         query_on_shm[BlockOf(t)][i] = IF LoadedByBlock(NDocs, t, i) THEN query[i] ELSE junk[i]
    BY <1>1, SharedIsQuery DEF SharedHoldsQuery, KeptInv
<1> QED BY <1>2, <1>3 DEF QueryOnShm

LEMMA JunkStep ==
    ASSUME KernelInv, JunkInv, [Next]_vars
    PROVE  JunkInv'
<1>1. PICK junk \in Unloaded(NDocs, Len(query)) :
        /\ KeptInv(junk)
        /\ \A d \in 0..(NDocs - 1) : scores[d] # Unwritten => scores[d] = LoadedScore(junk, d)
    BY DEF JunkInv
<1>2. /\ docs' = docs /\ query' = query /\ NDocs' = NDocs
      /\ docs \in [0..(NDocs - 1) -> Seq(Nat)] /\ NDocs \in Nat
      /\ \A d \in 0..(NDocs - 1) : Len(docs[d]) <= MaxDocSize
      /\ d_docs = AlignDocs(docs)
      /\ DOMAIN scores = 0..(NDocs - 1)
    BY ScoresStep DEF KernelInv, ShapeInv
<1>3. KeptInv(junk)'
    BY <1>1, KeptStep
<1>4. ASSUME NEW d \in 0..(NDocs - 1) PROVE LoadedScore(junk, d)' = LoadedScore(junk, d)
    BY <1>2 DEF LoadedScore
<1>5. \A d \in 0..(NDocs - 1) : scores'[d] # Unwritten => scores'[d] = LoadedScore(junk, d)
    <2>1. CASE scores' = scores
        BY <1>1, <2>1
    <2>2. ASSUME NEW t \in 0..(NDocs - 1), pc[t] = "score",
                 scores' = [scores EXCEPT ![t] = ScoreOf(BlockOf(t), t)]
          PROVE  \A d \in 0..(NDocs - 1) : scores'[d] # Unwritten => scores'[d] = LoadedScore(junk, d)
        <3>1. query_on_shm[BlockOf(t)] = QueryOnShm(query, NDocs, t, junk)
            BY <1>1, <2>2, SharedIsLoaded
        <3>2. \A q : MergeJoin(q, LoadedDoc(d_docs, NDocs, t)) = MergeJoin(q, docs[t])
            BY <1>2, WalkSeesTheDocument
        <3>3. ScoreOf(BlockOf(t), t) = LoadedScore(junk, t)
            BY <3>1, <3>2 DEF ScoreOf, LoadedScore
        <3> QED BY <1>1, <1>2, <2>2, <3>3
    <2> QED BY <2>1, <2>2, ScoresStep
<1> QED BY <1>1, <1>2, <1>3, <1>4, <1>5 DEF JunkInv

\* For any inputs, block size and contents of the memory: what a score is made of
\* depends on how many documents and tokens there are, not on the order of the threads.
\* A block's memory holds the tokens that its threads with a document load, and what it
\* held before in the other places, which only the last block has.  The modules that
\* take a launch as one step use this.
THEOREM KernelLoadsByBlocks == Spec => []ScoresAreTheLoaded
<1>1. Init => JunkInv
    BY JunkInit
<1>2. KernelInv /\ JunkInv /\ [Next]_vars => JunkInv'
    BY JunkStep
<1>3. KernelInv /\ JunkInv => ScoresAreTheLoaded
    <2> SUFFICES ASSUME KernelInv, JunkInv PROVE ScoresAreTheLoaded
        OBVIOUS
    <2>1. PICK junk \in Unloaded(NDocs, Len(query)) :
            \A d \in 0..(NDocs - 1) : scores[d] # Unwritten => scores[d] = LoadedScore(junk, d)
        BY DEF JunkInv
    <2>2. DOMAIN docs = 0..(NDocs - 1)
        BY DEF KernelInv, ShapeInv
    <2>3. \A d \in 0..(NDocs - 1) : scores[d] = Unwritten => ~Returned
        BY KernelSizes DEF KernelInv, Sizes, OnceInv, Returned
    <2> QED BY <2>1, <2>2, <2>3 DEF ScoresAreTheLoaded, LoadedScore
<1> QED BY <1>1, <1>2, <1>3, KernelInvariant, PTL DEF Spec

\* No thread reads a token of the query before the thread that loads it has written
\* it, and none is overtaken by a write, for any query and any last block.
THEOREM BarrierIsEnough == Spec => []SharedHoldsQuery
<1>1. KernelInv => SharedHoldsQuery
    BY SharedIsQuery
<1> QED BY <1>1, KernelInvariant, PTL

-----------------------------------------------------------------------------
(* Where the input is as the README describes it *)

\* The documents are sorted and hold no 0, and the query is sorted and holds no token
\* twice.
MergeableInput(q, ds) ==
    /\ Increasing(q)
    /\ \A d \in DOMAIN ds : NonDecreasing(ds[d]) /\ \A j \in 1..Len(ds[d]) : ds[d][j] # 0

\* If every block loads the whole query, it is what every document is scored against.
LEMMA WholeQueryOnShm ==
    ASSUME Missing(NDocs, Len(query)) = {}, query \in Seq(Nat), NEW d \in 0..(NDocs - 1), NEW junk
    PROVE  QueryOnShm(query, NDocs, d, junk) = query
<1>1. \A i \in 1..Len(query) : LoadedByBlock(NDocs, d, i)
    BY DEF Missing
<1>2. query = [i \in 1..Len(query) |-> query[i]]
    OBVIOUS
<1> QED BY <1>1, <1>2 DEF QueryOnShm

\* Where the last block loads the whole query every document gets the score the README
\* defines, for any number of documents and any tokens, block size and group size.  Each
\* condition is needed: a partial last block scores with unwritten memory, and a token
\* that is twice in the query is counted once.
THEOREM KernelMatchesReadme ==
    ASSUME \A in \in Inputs : MergeableInput(in.query, in.docs)
    PROVE  Spec => []LoadedMatchReadme
<1>1. Init => MergeableInput(query, docs)
    BY DEF Init
<1>2. KernelInv /\ MergeableInput(query, docs) /\ [Next]_vars => MergeableInput(query, docs)'
    BY ScoresStep DEF MergeableInput
<1>3. KernelInv /\ MergeableInput(query, docs) /\ ScoresAreTheLoaded => LoadedMatchReadme
    <2> SUFFICES ASSUME KernelInv, MergeableInput(query, docs), ScoresAreTheLoaded,
                        Missing(NDocs, Len(query)) = {}, Returned, NEW d \in DOMAIN docs
                 PROVE  scores[d] # Unwritten /\ SameScore(scores[d], ReadmeScore(query, docs[d]))
        BY DEF LoadedMatchReadme, ScoresMatchReadme
    <2>1. d \in 0..(NDocs - 1) /\ docs[d] \in Seq(Nat) /\ query \in Seq(Nat)
        BY DEF KernelInv, ShapeInv
    <2>2. PICK junk : /\ scores[d] # Unwritten
                      /\ scores[d] = Fraction(MergeJoin(QueryOnShm(query, NDocs, d, junk), docs[d]),
                                              query, docs[d])
        BY DEF ScoresAreTheLoaded
    <2>3. QueryOnShm(query, NDocs, d, junk) = query
        BY <2>1, WholeQueryOnShm
    <2>4. MergeJoin(query, docs[d]) = PairCount(query, docs[d])
        BY <2>1, MergeJoinIsPairCount DEF MergeableInput
    <2>5. scores[d] = ReadmeScore(query, docs[d])
        BY <2>2, <2>3, <2>4 DEF ReadmeScore
    <2> QED BY <2>2, <2>5 DEF SameScore, ReadmeScore, Fraction
<1> QED BY <1>1, <1>2, <1>3, KernelLoadsByBlocks, KernelInvariant, PTL DEF Spec
=============================================================================
