------------------------- MODULE QueryHashTableProofs -------------------------
(***************************************************************************)
(* The hash table of the query for any capacity, any tokens and any number *)
(* of inserting threads.  Token 0 is the mark of an empty cell: what holds *)
(* only without it says so.                                                *)
(***************************************************************************)
EXTENDS QueryHashTable, FiniteSetTheorems, SequenceTheorems, TLAPS

\* The cells a search for key that has come to cell s has walked over hold other
\* keys.
Passed(key, s) ==
    \A r \in Slots :
        Distance(hash(key), r) < Distance(hash(key), s) => table_keys[r] \notin {EMPTY_CELL, key}

InsertionsPassed == \A t \in Idx : Passed(query[t], slot[t])

\* A cell's value is the number of threads that have counted there.
Counted(s) == {t \in Idx : pc[t] = "done" /\ slot[t] = s}
ValuesCount == \A s \in Slots : table_vals[s] = Cardinality(Counted(s))

LookType == look \in [key : Nat, slot : Slots, state : {"none", "probe", "done"}, result : Nat]

\* The part that any tokens keep.
TableInv ==
    /\ TypeOK
    /\ LookType
    /\ OneCellPerKey
    /\ Reachable
    /\ InsertionsPassed

\* The part that needs keys to differ from the mark of an empty cell.
LookupInv ==
    /\ CellsAgree
    /\ ValuesCount
    /\ look.state # "none" => Inserted /\ look.key # 0 /\ Passed(look.key, look.slot)
    /\ LookupExact
-----------------------------------------------------------------------------
(* The circle of cells *)

\* hash() gives a cell.
LEMMA HashIsSlot == ASSUME NEW k \in Nat PROVE hash(k) \in Slots
BY TableAssumption DEF hash, Slots

\* The next cell is the neighbour, or the first one after the last.
LEMMA NextSlotCases ==
    ASSUME NEW s \in Slots
    PROVE  /\ NextSlot(s) \in Slots
           /\ NextSlot(s) = IF s = Capacity - 1 THEN 0 ELSE s + 1
BY TableAssumption DEF NextSlot, Slots

\* How far it is from one cell to another, without the remainder.
LEMMA DistanceCases ==
    ASSUME NEW r \in Slots, NEW s \in Slots
    PROVE  /\ Distance(r, s) \in 0..(Capacity - 1)
           /\ Distance(r, s) = IF r <= s THEN s - r ELSE s + Capacity - r
BY TableAssumption DEF Distance, Slots

\* Two cells at the same distance are the same.
LEMMA DistanceInjective ==
    ASSUME NEW h \in Slots, NEW r \in Slots, NEW s \in Slots, Distance(h, r) = Distance(h, s)
    PROVE  r = s
<1>1. /\ Distance(h, r) = IF h <= r THEN r - h ELSE r + Capacity - h
      /\ Distance(h, s) = IF h <= s THEN s - h ELSE s + Capacity - h
    BY DistanceCases
<1>2. (IF h <= r THEN r - h ELSE r + Capacity - h) = (IF h <= s THEN s - h ELSE s + Capacity - h)
    BY <1>1
<1> QED BY <1>2, TableAssumption DEF Slots

\* A step along the probe sequence goes one cell further, or is back at the start.
LEMMA DistanceNext ==
    ASSUME NEW h \in Slots, NEW s \in Slots
    PROVE  Distance(h, NextSlot(s)) \in {0, Distance(h, s) + 1}
<1>1. NextSlot(s) \in Slots /\ NextSlot(s) = IF s = Capacity - 1 THEN 0 ELSE s + 1
    BY NextSlotCases
<1>2. /\ Distance(h, s) = IF h <= s THEN s - h ELSE s + Capacity - h
      /\ Distance(h, NextSlot(s)) = IF h <= NextSlot(s) THEN NextSlot(s) - h
                                                        ELSE NextSlot(s) + Capacity - h
    BY <1>1, DistanceCases
<1> QED BY <1>1, <1>2, TableAssumption DEF Slots

\* The cells walked over by a search that moves on from a cell with another key.
LEMMA PassedNext ==
    ASSUME NEW key \in Nat, NEW s \in Slots, Passed(key, s), table_keys[s] \notin {EMPTY_CELL, key}
    PROVE  Passed(key, NextSlot(s))
<1>1. hash(key) \in Slots
    BY HashIsSlot
<1>2. Distance(hash(key), NextSlot(s)) \in {0, Distance(hash(key), s) + 1}
    BY <1>1, DistanceNext
<1> SUFFICES ASSUME NEW r \in Slots, Distance(hash(key), r) < Distance(hash(key), NextSlot(s))
             PROVE  table_keys[r] \notin {EMPTY_CELL, key}
    BY DEF Passed
<1>3. Distance(hash(key), r) \in Nat /\ Distance(hash(key), s) \in Nat
    BY <1>1, DistanceCases, TableAssumption
<1>4. Distance(hash(key), r) < Distance(hash(key), s) \/ Distance(hash(key), r) = Distance(hash(key), s)
    BY <1>2, <1>3
<1>5. CASE Distance(hash(key), r) < Distance(hash(key), s)
    BY <1>5 DEF Passed
<1>6. CASE Distance(hash(key), r) = Distance(hash(key), s)
    BY <1>1, <1>6, DistanceInjective
<1> QED BY <1>4, <1>5, <1>6

\* A search starts without having walked over any cell.
LEMMA PassedStart == ASSUME NEW key \in Nat PROVE Passed(key, hash(key))
<1>1. hash(key) \in Slots
    BY HashIsSlot
<1>2. Distance(hash(key), hash(key)) = 0
    BY <1>1, DistanceCases, TableAssumption DEF Slots
<1>3. \A r \in Slots : Distance(hash(key), r) \in Nat
    BY <1>1, DistanceCases, TableAssumption
<1> QED BY <1>2, <1>3 DEF Passed

\* A key found nowhere short of an empty cell, and not in it, is nowhere.
LEMMA NotBehindEmpty ==
    ASSUME TableInv, NEW key \in Nat \ {EMPTY_CELL}, NEW s \in Slots,
           Passed(key, s), table_keys[s] = EMPTY_CELL
    PROVE  \A r \in Slots : table_keys[r] # key
<1> SUFFICES ASSUME NEW r \in Slots, table_keys[r] = key
             PROVE  FALSE
    OBVIOUS
<1>1. hash(key) \in Slots
    BY HashIsSlot
<1>2. Distance(hash(key), r) \in Nat /\ Distance(hash(key), s) \in Nat
    BY <1>1, DistanceCases, TableAssumption
<1>3. Distance(hash(key), s) >= Distance(hash(key), r)
    BY <1>2 DEF TableInv, Reachable
<1>4. Distance(hash(key), s) <= Distance(hash(key), r)
    BY <1>2 DEF Passed
<1>5. r = s
    BY <1>1, <1>2, <1>3, <1>4, DistanceInjective
<1> QED BY <1>5
-----------------------------------------------------------------------------
(* The insertions *)

\* The three outcomes of atomicCAS: the cell was empty and is taken, it held the
\* key already, or it holds another key and the thread moves on.
LEMMA ProbeCases ==
    ASSUME NEW t \in Idx, Probe(t)
    PROVE  /\ pc[t] = "probe" /\ UNCHANGED <<query, table_vals, look>>
           /\ \/ /\ table_keys[slot[t]] = EMPTY_CELL
                 /\ table_keys' = [table_keys EXCEPT ![slot[t]] = query[t]]
                 /\ pc' = [pc EXCEPT ![t] = "count"] /\ UNCHANGED slot
              \/ /\ table_keys[slot[t]] = query[t] /\ UNCHANGED table_keys
                 /\ pc' = [pc EXCEPT ![t] = "count"] /\ UNCHANGED slot
              \/ /\ table_keys[slot[t]] \notin {EMPTY_CELL, query[t]}
                 /\ slot' = [slot EXCEPT ![t] = NextSlot(slot[t])]
                 /\ UNCHANGED <<table_keys, pc>>
BY DEF Probe

\* No other action touches the keys or moves a thread.
LEMMA OtherSteps ==
    ASSUME [Next]_vars, ~\E t \in Idx : Probe(t)
    PROVE  UNCHANGED <<query, table_keys, slot>>
BY DEF Next, Count, BeginLookup, LookupStep, Over, vars

\* What the types say about a thread's key and cell.
LEMMA ThreadTypes ==
    ASSUME TypeOK, NEW t \in Idx
    PROVE  query[t] \in Tokens /\ query[t] \in Nat /\ slot[t] \in Slots
<1>1. t \in 1..Len(query)
    BY LenProperties DEF TypeOK, Idx
<1> QED BY <1>1, TableAssumption, ElementOfSeq DEF TypeOK

\* The query is never written.
LEMMA QueryKept == [Next]_vars => UNCHANGED query /\ UNCHANGED Idx
BY DEF Next, Probe, Count, BeginLookup, LookupStep, Over, vars, Idx

\* Every step keeps the types.
LEMMA TypeStep == TypeOK /\ LookType /\ [Next]_vars => TypeOK' /\ LookType'
<1> SUFFICES ASSUME TypeOK, LookType, [Next]_vars PROVE TypeOK' /\ LookType'
    OBVIOUS
<1>0. UNCHANGED query /\ UNCHANGED Idx
    BY QueryKept
<1> USE TableAssumption DEF TypeOK, LookType
<1>1. ASSUME NEW t \in Idx, Probe(t) PROVE TypeOK' /\ LookType'
    <2>1. NextSlot(slot[t]) \in Slots /\ query[t] \in Tokens
        BY ThreadTypes, NextSlotCases
    <2>2. /\ table_keys \in [Slots -> Tokens \cup {EMPTY_CELL}]
          /\ pc \in [Idx -> {"probe", "count", "done"}]
          /\ slot \in [Idx -> Slots]
        OBVIOUS
    <2>3. table_keys' \in [Slots -> Tokens \cup {EMPTY_CELL}]
        BY ONLY <1>1, <2>1, <2>2, ProbeCases, t \in Idx
    <2>4. pc' \in [Idx -> {"probe", "count", "done"}]
        BY <1>1, <2>2, ProbeCases
    <2>5. slot' \in [Idx -> Slots]
        BY ONLY <1>1, <2>1, <2>2, ProbeCases, t \in Idx
    <2> QED BY <1>0, <1>1, <2>3, <2>4, <2>5, ProbeCases
<1>2. ASSUME NEW t \in Idx, Count(t) PROVE TypeOK' /\ LookType'
    BY <1>0, <1>2 DEF Count
<1>3. ASSUME NEW key \in Tokens, BeginLookup(key) PROVE TypeOK' /\ LookType'
    BY <1>0, <1>3, HashIsSlot DEF BeginLookup
<1>4. CASE LookupStep
    <2>1. NextSlot(look.slot) \in Slots /\ table_vals[look.slot] \in Nat /\ EMPTY_CELL \in Nat
        BY NextSlotCases DEF EMPTY_CELL
    <2> QED BY <1>0, <1>4, <2>1 DEF LookupStep
<1>5. CASE UNCHANGED vars
    BY <1>0, <1>5 DEF vars
<1> QED BY <1>1, <1>2, <1>3, <1>4, <1>5 DEF Next, Over

\* A cell once taken keeps its key.
LEMMA KeptStep ==
    TypeOK /\ [Next]_vars =>
        \A s \in Slots : table_keys[s] # EMPTY_CELL => table_keys'[s] = table_keys[s]
<1> SUFFICES ASSUME TypeOK, [Next]_vars, NEW s \in Slots, table_keys[s] # EMPTY_CELL
             PROVE  table_keys'[s] = table_keys[s]
    OBVIOUS
<1>1. ASSUME NEW t \in Idx, Probe(t) PROVE table_keys'[s] = table_keys[s]
    BY <1>1, ProbeCases DEF TypeOK
<1> QED BY <1>1, OtherSteps

\* A thread that takes an empty cell has met its key nowhere on the way, so the
\* key is in no other cell, and the way to the new one is full.
LEMMA TakeCell ==
    ASSUME TableInv, NEW t \in Idx, table_keys[slot[t]] = EMPTY_CELL, UNCHANGED <<query, slot>>,
           table_keys' = [table_keys EXCEPT ![slot[t]] = query[t]]
    PROVE  OneCellPerKey' /\ Reachable' /\ InsertionsPassed'
<1> DEFINE k == query[t]
           c == slot[t]
<1>1. k \in Nat /\ c \in Slots /\ table_keys \in [Slots -> Tokens \cup {EMPTY_CELL}]
    BY ThreadTypes DEF TableInv, TypeOK
<1>2. \A s \in Slots : table_keys'[s] = IF s = c THEN k ELSE table_keys[s]
    BY <1>1
<1>3. Passed(k, c)
    BY DEF TableInv, InsertionsPassed
<1>4. CASE k = EMPTY_CELL
    <2>1. table_keys' = table_keys
        BY <1>1, <1>4
    <2> QED BY <2>1 DEF TableInv, OneCellPerKey, Reachable, InsertionsPassed, Passed, Idx
<1>5. CASE k # EMPTY_CELL
    <2>1. \A s \in Slots : table_keys[s] # k
        BY <1>1, <1>3, <1>5, NotBehindEmpty
    <2>2. OneCellPerKey'
        BY <1>2, <1>5, <2>1 DEF TableInv, OneCellPerKey
    <2>3. Reachable'
        <3> SUFFICES ASSUME NEW s \in Slots, table_keys'[s] # EMPTY_CELL, NEW r \in Slots,
                            Distance(hash(table_keys'[s]), r) < Distance(hash(table_keys'[s]), s)
                     PROVE  table_keys'[r] # EMPTY_CELL
            BY DEF Reachable
        <3>1. CASE s = c
            BY <1>1, <1>2, <1>3, <1>5, <3>1 DEF Passed
        <3>2. CASE s # c
            BY <1>1, <1>2, <1>5, <3>2 DEF TableInv, Reachable
        <3> QED BY <3>1, <3>2
    <2>4. InsertionsPassed'
        <3> SUFFICES ASSUME NEW u \in Idx, NEW r \in Slots,
                            Distance(hash(query[u]), r) < Distance(hash(query[u]), slot[u])
                     PROVE  table_keys'[r] \notin {EMPTY_CELL, query[u]}
            BY DEF InsertionsPassed, Passed, Idx
        <3>1. table_keys[r] \notin {EMPTY_CELL, query[u]}
            BY DEF TableInv, InsertionsPassed, Passed
        <3> QED BY <1>2, <3>1
    <2> QED BY <2>2, <2>3, <2>4
<1> QED BY <1>4, <1>5

\* Every step keeps the keys in one cell each, reachable, and the threads on
\* their way.
LEMMA TableStep == TableInv /\ [Next]_vars => TableInv'
<1> SUFFICES ASSUME TableInv, [Next]_vars PROVE TableInv'
    OBVIOUS
<1>1. TypeOK' /\ LookType'
    BY TypeStep DEF TableInv
<1>2. ASSUME NEW t \in Idx, Probe(t) PROVE OneCellPerKey' /\ Reachable' /\ InsertionsPassed'
    <2>1. query[t] \in Nat /\ slot[t] \in Slots
        BY ThreadTypes DEF TableInv
    <2>2. CASE /\ table_keys[slot[t]] = EMPTY_CELL
               /\ table_keys' = [table_keys EXCEPT ![slot[t]] = query[t]]
               /\ UNCHANGED slot
        BY <1>2, <2>2, ProbeCases, TakeCell
    <2>3. CASE UNCHANGED <<table_keys, slot>>
        BY <1>2, <2>3, ProbeCases
        DEF TableInv, OneCellPerKey, Reachable, InsertionsPassed, Passed, Idx
    <2>4. CASE /\ table_keys[slot[t]] \notin {EMPTY_CELL, query[t]}
               /\ slot' = [slot EXCEPT ![t] = NextSlot(slot[t])]
               /\ UNCHANGED table_keys
        <3>1. Passed(query[t], NextSlot(slot[t]))
            BY <2>1, <2>4, PassedNext DEF TableInv, InsertionsPassed
        <3>2. UNCHANGED query /\ slot \in [Idx -> Slots]
            BY <1>2, ProbeCases DEF TableInv, TypeOK
        <3>3. \A u \in Idx : slot'[u] = IF u = t THEN NextSlot(slot[t]) ELSE slot[u]
            BY <2>4, <3>2
        <3>4. \A u \in Idx : Passed(query[u], slot'[u])
            BY <3>1, <3>3 DEF TableInv, InsertionsPassed
        <3>5. InsertionsPassed'
            BY <2>4, <3>2, <3>4 DEF InsertionsPassed, Passed, Idx
        <3> QED BY <2>4, <3>5 DEF TableInv, OneCellPerKey, Reachable
    <2> QED BY <1>2, <2>2, <2>3, <2>4, ProbeCases
<1>3. ASSUME ~\E t \in Idx : Probe(t) PROVE OneCellPerKey' /\ Reachable' /\ InsertionsPassed'
    BY <1>3, OtherSteps DEF TableInv, OneCellPerKey, Reachable, InsertionsPassed, Passed, Idx
<1> QED BY <1>1, <1>2, <1>3 DEF TableInv
-----------------------------------------------------------------------------
(* The counts and the lookups *)

\* The threads can be counted.
LEMMA CountedFinite ==
    ASSUME TypeOK, NEW s
    PROVE  /\ IsFiniteSet(Idx)
           /\ IsFiniteSet(Counted(s)) /\ Cardinality(Counted(s)) \in Nat
<1>1. Len(query) \in Nat /\ Idx = 1..Len(query)
    BY LenProperties DEF TypeOK, Idx
<1>2. IsFiniteSet(Idx)
    BY <1>1, FS_Interval
<1>3. Counted(s) \in SUBSET Idx
    BY DEF Counted
<1>4. IsFiniteSet(Counted(s))
    BY <1>2, <1>3, FS_Subset
<1> QED BY <1>2, <1>4, FS_CardinalityType

\* A thread past its probe keeps sitting on its token: the cell it met or took is
\* never taken over.
LEMMA AgreeStep ==
    ASSUME 0 \notin Tokens, TableInv, CellsAgree, [Next]_vars
    PROVE  CellsAgree'
<1>1. UNCHANGED query /\ UNCHANGED Idx
    BY QueryKept
<1>2. \A u \in Idx : query[u] # EMPTY_CELL /\ slot[u] \in Slots
    BY ThreadTypes DEF TableInv, EMPTY_CELL
<1>3. \A u \in Idx : pc[u] # "probe" => table_keys'[slot[u]] = query[u]
    BY <1>2, KeptStep DEF TableInv, CellsAgree
<1>4. ASSUME NEW t \in Idx, Probe(t) PROVE CellsAgree'
    <2>1. table_keys \in [Slots -> Tokens \cup {EMPTY_CELL}] /\ pc \in [Idx -> {"probe", "count", "done"}]
          /\ slot \in [Idx -> Slots] /\ slot[t] \in Slots
        BY <1>2 DEF TableInv, TypeOK
    <2>2. CASE pc' = [pc EXCEPT ![t] = "count"] /\ UNCHANGED slot
        <3>1. table_keys'[slot[t]] = query[t]
            BY <1>4, <2>1, <2>2, ProbeCases
        <3> QED BY <1>1, <1>3, <2>1, <2>2, <3>1 DEF CellsAgree
    <2>3. CASE slot' = [slot EXCEPT ![t] = NextSlot(slot[t])] /\ UNCHANGED <<table_keys, pc>>
        BY <1>1, <1>4, <2>1, <2>3, ProbeCases DEF CellsAgree
    <2> QED BY <1>4, <2>2, <2>3, ProbeCases
<1>5. ASSUME NEW t \in Idx, Count(t) PROVE CellsAgree'
    BY <1>1, <1>3, <1>5 DEF Count, CellsAgree, TableInv, TypeOK
<1>6. ASSUME UNCHANGED <<query, table_keys, pc, slot>> PROVE CellsAgree'
    BY <1>6 DEF CellsAgree, Idx
<1> QED BY <1>4, <1>5, <1>6 DEF Next, BeginLookup, LookupStep, Over, vars

\* atomicAdd adds the thread to those counted in its cell, and no other action
\* changes who is counted where.
LEMMA ValuesStep == TableInv /\ ValuesCount /\ [Next]_vars => ValuesCount'
<1> SUFFICES ASSUME TableInv, ValuesCount, [Next]_vars PROVE ValuesCount'
    OBVIOUS
<1>0. UNCHANGED query /\ UNCHANGED Idx
    BY QueryKept
<1>1. /\ pc \in [Idx -> {"probe", "count", "done"}] /\ slot \in [Idx -> Slots]
      /\ table_vals \in [Slots -> Nat]
    BY DEF TableInv, TypeOK
<1>2. ASSUME NEW t \in Idx, Probe(t) PROVE ValuesCount'
    <2>1. \A u \in Idx : pc'[u] = "done" <=> pc[u] = "done"
        BY <1>1, <1>2, ProbeCases
    <2>2. \A u \in Idx : pc[u] = "done" => slot'[u] = slot[u]
        BY <1>1, <1>2, ProbeCases
    <2>3. \A s \in Slots : Counted(s)' = Counted(s)
        BY <1>0, <2>1, <2>2 DEF Counted
    <2> QED BY <1>2, <2>3, ProbeCases DEF ValuesCount
<1>3. ASSUME NEW t \in Idx, Count(t) PROVE ValuesCount'
    <2> SUFFICES ASSUME NEW s \in Slots PROVE table_vals'[s] = Cardinality(Counted(s)')
        BY DEF ValuesCount
    <2>1. /\ pc[t] = "count" /\ pc' = [pc EXCEPT ![t] = "done"] /\ UNCHANGED slot
          /\ table_vals' = [table_vals EXCEPT ![slot[t]] = table_vals[slot[t]] + 1]
        BY <1>3 DEF Count
    <2>2. CASE s = slot[t]
        <3>1. t \notin Counted(s) /\ Counted(s)' = Counted(s) \cup {t}
            BY <1>0, <1>1, <2>1, <2>2 DEF Counted
        <3>2. Cardinality(Counted(s)') = Cardinality(Counted(s)) + 1
            BY <3>1, CountedFinite, FS_AddElement DEF TableInv
        <3> QED BY <1>1, <2>1, <2>2, <3>2 DEF ValuesCount
    <2>3. CASE s # slot[t]
        <3>1. Counted(s)' = Counted(s)
            BY <1>0, <1>1, <2>1, <2>3 DEF Counted
        <3> QED BY <1>1, <2>1, <2>3, <3>1 DEF ValuesCount
    <2> QED BY <2>2, <2>3
<1>4. ASSUME UNCHANGED <<query, table_vals, pc, slot>> PROVE ValuesCount'
    BY <1>4 DEF ValuesCount, Counted, Idx
<1> QED BY <1>2, <1>3, <1>4 DEF Next, BeginLookup, LookupStep, Over, vars

\* After the insertions a cell with a key holds the key's multiplicity in the query.
LEMMA ValueOfKey ==
    ASSUME 0 \notin Tokens, TableInv, CellsAgree, ValuesCount, Inserted,
           NEW s \in Slots, table_keys[s] # EMPTY_CELL
    PROVE  table_vals[s] = MapQuery(query, table_keys[s])
<1>1. Idx = 1..Len(query)
    BY LenProperties DEF TableInv, TypeOK, Idx
<1>2. \A t \in Idx : slot[t] \in Slots /\ table_keys[slot[t]] = query[t]
    BY ThreadTypes DEF TableInv, CellsAgree, Inserted
<1>3. \A t \in Idx : slot[t] = s <=> query[t] = table_keys[s]
    BY <1>2 DEF TableInv, OneCellPerKey
<1>4. Counted(s) = {i \in 1..Len(query) : query[i] = table_keys[s]}
    BY <1>1, <1>3 DEF Counted, Inserted
<1> QED BY <1>4 DEF ValuesCount, MapQuery

\* After the insertions a key that is in no cell is not in the query.
LEMMA AbsentKey ==
    ASSUME TableInv, CellsAgree, Inserted, NEW key, \A s \in Slots : table_keys[s] # key
    PROVE  MapQuery(query, key) = 0
<1>1. Idx = 1..Len(query)
    BY LenProperties DEF TableInv, TypeOK, Idx
<1>2. \A t \in Idx : slot[t] \in Slots /\ table_keys[slot[t]] = query[t]
    BY ThreadTypes DEF TableInv, CellsAgree, Inserted
<1>3. {i \in 1..Len(query) : query[i] = key} = {}
    BY <1>1, <1>2
<1> QED BY <1>3, FS_EmptySet DEF MapQuery

\* Every step of a lookup keeps it on its way, and the step that ends it gives the
\* multiplicity of its token.
LEMMA LookupStepExact ==
    ASSUME 0 \notin Tokens, TableInv, LookupInv, LookupStep
    PROVE  /\ look'.state # "none" => Inserted' /\ look'.key # 0 /\ Passed(look.key, look.slot)'
           /\ LookupExact'
<1>1. /\ look \in [key : Nat, slot : Slots, state : {"none", "probe", "done"}, result : Nat]
      /\ look.state = "probe" /\ UNCHANGED <<query, table_keys, table_vals, pc, slot>>
      /\ Inserted /\ look.key # 0 /\ Passed(look.key, look.slot)
    BY DEF LookupStep, LookupInv, TableInv, LookType
<1>2. Inserted'
    BY <1>1 DEF Inserted, Idx
<1>3. CASE table_keys[look.slot] = look.key
    <2>1. look' = [look EXCEPT !.state = "done", !.result = table_vals[look.slot]]
        BY <1>3 DEF LookupStep
    <2>2. table_vals[look.slot] = MapQuery(query, look.key)
        BY <1>1, <1>3, ValueOfKey DEF LookupInv, EMPTY_CELL
    <2> QED BY <1>1, <1>2, <2>1, <2>2 DEF Passed, LookupExact
<1>4. CASE table_keys[look.slot] # look.key /\ table_keys[look.slot] = EMPTY_CELL
    <2>1. look' = [look EXCEPT !.state = "done", !.result = EMPTY_CELL]
        BY <1>4 DEF LookupStep
    <2>2. \A s \in Slots : table_keys[s] # look.key
        BY <1>1, <1>4, NotBehindEmpty DEF EMPTY_CELL
    <2>3. MapQuery(query, look.key) = EMPTY_CELL
        BY <1>1, <2>2, AbsentKey DEF LookupInv, EMPTY_CELL
    <2> QED BY <1>1, <1>2, <2>1, <2>3 DEF Passed, LookupExact
<1>5. CASE table_keys[look.slot] \notin {EMPTY_CELL, look.key}
    <2>1. look' = [look EXCEPT !.slot = NextSlot(look.slot)]
        BY <1>5 DEF LookupStep
    <2>2. Passed(look.key, NextSlot(look.slot))
        BY <1>1, <1>5, PassedNext
    <2> QED BY <1>1, <1>2, <2>1, <2>2 DEF Passed, LookupExact
<1> QED BY <1>3, <1>4, <1>5

\* Every step keeps the lookups exact.
LEMMA LookupInvStep == 0 \notin Tokens /\ TableInv /\ LookupInv /\ [Next]_vars => LookupInv'
<1> SUFFICES ASSUME 0 \notin Tokens, TableInv, LookupInv, [Next]_vars PROVE LookupInv'
    OBVIOUS
<1> DEFINE Way == look.state # "none" => Inserted /\ look.key # 0 /\ Passed(look.key, look.slot)
<1>1. CellsAgree' /\ ValuesCount'
    BY AgreeStep, ValuesStep DEF LookupInv
<1>2. ASSUME NEW t \in Idx, Probe(t) \/ Count(t) PROVE Way' /\ LookupExact'
    <2>1. look.state = "none" /\ look' = look
        BY <1>2 DEF LookupInv, Inserted, Probe, Count
    <2> QED BY <2>1 DEF LookupExact
<1>3. ASSUME NEW key \in Tokens, BeginLookup(key) PROVE Way' /\ LookupExact'
    <2>1. /\ look' = [key |-> key, slot |-> hash(key), state |-> "probe", result |-> 0]
          /\ Inserted' /\ key # 0 /\ UNCHANGED table_keys
        BY <1>3 DEF BeginLookup, Inserted, Idx
    <2>2. Passed(key, hash(key))
        BY PassedStart, TableAssumption
    <2> QED BY <2>1, <2>2 DEF Passed, LookupExact
<1>4. ASSUME LookupStep PROVE Way' /\ LookupExact'
    BY <1>4, LookupStepExact
<1>5. ASSUME UNCHANGED vars PROVE Way' /\ LookupExact'
    BY <1>5 DEF vars, LookupInv, Inserted, Idx, Passed, LookupExact
<1> QED BY <1>1, <1>2, <1>3, <1>4, <1>5 DEF Next, Over, LookupInv

-----------------------------------------------------------------------------
(* The theorems *)

\* The empty table with every thread on the cell of its token is inside both
\* invariants.
LEMMA Initially == Init => TableInv /\ LookupInv
<1> SUFFICES ASSUME Init PROVE TableInv /\ LookupInv
    OBVIOUS
<1>1. PICK n \in 0..MaxQuery : query \in [1..n -> Tokens]
    BY DEF Init, SortedQueries
<1>2. n \in Nat /\ query \in Seq(Tokens) /\ Idx = 1..n
    BY <1>1, TableAssumption DEF Idx
<1>3. \A t \in Idx : query[t] \in Nat /\ hash(query[t]) \in Slots
    BY <1>1, <1>2, TableAssumption, HashIsSlot
<1>4. 0 \in Slots
    BY TableAssumption DEF Slots
<1>5. TypeOK /\ LookType
    BY <1>2, <1>3, <1>4 DEF Init, TypeOK, LookType, NoLookup
<1>6. OneCellPerKey /\ Reachable
    BY DEF Init, OneCellPerKey, Reachable
<1>7. InsertionsPassed
    BY <1>3, PassedStart DEF Init, InsertionsPassed
<1>8. CellsAgree
    BY DEF Init, CellsAgree
<1>9. ValuesCount
    <2>1. \A s : Counted(s) = {}
        BY DEF Init, Counted
    <2> QED BY <2>1, FS_EmptySet DEF Init, ValuesCount
<1>10. look.state = "none"
    BY DEF Init, NoLookup
<1> QED BY <1>5, <1>6, <1>7, <1>8, <1>9, <1>10 DEF TableInv, LookupInv, LookupExact

\* No step leaves the invariant of the table.
LEMMA TableInductive == Spec => []TableInv
<1>1. TableInv /\ [Next]_vars => TableInv'
    BY TableStep
<1> QED BY Initially, <1>1, PTL DEF Spec

\* Without the token 0 no step leaves the invariant of the lookups.
LEMMA LookupInductive == ASSUME 0 \notin Tokens PROVE Spec => []LookupInv
<1>1. TableInv /\ LookupInv /\ [Next]_vars => LookupInv'
    BY LookupInvStep
<1> QED BY Initially, <1>1, TableInductive, PTL DEF Spec

\* The table, the threads and the lookup keep their types: every cell a thread or
\* a lookup comes to is inside the table.
THEOREM TypeCorrect == Spec => []TypeOK
<1>1. TableInv => TypeOK
    BY DEF TableInv
<1> QED BY TableInductive, <1>1, PTL

\* For any capacity, tokens and threads: two threads that insert the same token
\* never end in two cells, whatever the order of their atomicCAS.
THEOREM NoTokenInTwoCells == Spec => []OneCellPerKey
<1>1. TableInv => OneCellPerKey
    BY DEF TableInv
<1> QED BY TableInductive, <1>1, PTL

\* A lookup cannot stop short of a key: the cells before it are full.
THEOREM EveryKeyReachable == Spec => []Reachable
<1>1. TableInv => Reachable
    BY DEF TableInv
<1> QED BY TableInductive, <1>1, PTL

\* A taken cell keeps its key.
THEOREM TakenCellsKeepTheirKey == Spec => CellsKept
<1>1. TableInv /\ [Next]_vars =>
         [\A s \in Slots : table_keys[s] # EMPTY_CELL => table_keys'[s] = table_keys[s]]_vars
    BY KeptStep DEF TableInv
<1> QED BY TableInductive, <1>1, PTL DEF Spec, CellsKept

\* A thread counts in the cell that holds its token.  A query with the token 0
\* breaks this: the cell it meets stays free for others.
THEOREM ThreadsSitOnTheirToken == ASSUME 0 \notin Tokens PROVE Spec => []CellsAgree
<1>1. LookupInv => CellsAgree
    BY DEF LookupInv
<1> QED BY LookupInductive, <1>1, PTL

\* Whenever a lookup ends, after whatever interleaving of the insertions and even
\* in a full table, it gives the multiplicity of its token in the query.
THEOREM LookupsAreExact == ASSUME 0 \notin Tokens PROVE Spec => []LookupExact
<1>1. LookupInv => LookupExact
    BY DEF LookupInv
<1> QED BY LookupInductive, <1>1, PTL
=============================================================================
