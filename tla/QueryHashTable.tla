---------------------------- MODULE QueryHashTable ----------------------------
(***************************************************************************)
(* GPUHashTable of hashtable.h as topk_hashtable.cu uses it: one GPU       *)
(* thread per query token inserts it by atomicCAS and linear probing and   *)
(* counts it by atomicAdd; when all are through, the scoring kernel looks  *)
(* tokens of documents up.  One action is one memory operation of one      *)
(* thread.                                                                 *)
(***************************************************************************)
EXTENDS Scoring

CONSTANTS Capacity,    \* MAX_DOC_SIZE cells
          Tokens,      \* the tokens that occur in queries and documents
          MaxQuery,    \* bound on the length of a query
          MaxDistinct  \* bound on the number of its distinct tokens

ASSUME TableAssumption ==
    /\ Capacity \in Nat \ {0}
    /\ Tokens \subseteq Nat
    /\ MaxQuery \in Nat
    /\ MaxDistinct \in Nat

VARIABLES query,       \* the keys array of insert_unique_cn_kernel
          table_keys, table_vals,
          pc, slot,    \* of each inserting thread
          look         \* the lookup in progress: its key, cell and result

vars == <<query, table_keys, table_vals, pc, slot, look>>

EMPTY_CELL == 0
Slots == 0..(Capacity - 1)
Idx == DOMAIN query

hash(key) == key % Capacity

\* Bug: no wrap-around.
NextSlotClamped(s) == MinOf(s + 1, Capacity - 1)

\* Bug: wrap-around one cell too late.
NextSlotLate(s) == (s + 1) % (Capacity + 1)

\* Bug: insertion and lookup step by two.
NextSlotByTwo(s) == (s + 2) % Capacity

NextSlot(s) == (s + 1) % Capacity

\* main() sorts every query it loads.
SortedQueries ==
    {q \in UNION {[1..n -> Tokens] : n \in 0..MaxQuery} :
        /\ \A m, n \in DOMAIN q : m < n => q[m] <= q[n]
        /\ Cardinality({q[n] : n \in DOMAIN q}) <= MaxDistinct}

NoLookup == [key |-> 0, slot |-> 0, state |-> "none", result |-> 0]

Init ==
    /\ query \in SortedQueries
    /\ table_keys = [s \in Slots |-> EMPTY_CELL]
    /\ table_vals = [s \in Slots |-> 0]
    /\ pc = [t \in Idx |-> "probe"]
    /\ slot = [t \in Idx |-> hash(query[t])]
    /\ look = NoLookup

-----------------------------------------------------------------------------
(* insert_unique_cn_kernel *)

\* Bug: compare and swap as a read and a write, with another thread in between.
ProbeRacy(t) ==
    /\ pc[t] = "probe"
    /\ pc' = [pc EXCEPT ![t] = "count"]
    /\ table_keys' = [table_keys EXCEPT ![slot[t]] = query[t]]
    /\ UNCHANGED <<query, table_vals, slot, look>>

\* Bug: a key that is already there is not recognised.
ProbeForEmpty(t) ==
    /\ pc[t] = "probe"
    /\ IF table_keys[slot[t]] = EMPTY_CELL
       THEN /\ table_keys' = [table_keys EXCEPT ![slot[t]] = query[t]]
            /\ pc' = [pc EXCEPT ![t] = "count"]
            /\ UNCHANGED slot
       ELSE /\ slot' = [slot EXCEPT ![t] = NextSlot(@)]
            /\ UNCHANGED <<table_keys, pc>>
    /\ UNCHANGED <<query, table_vals, look>>

\* atomicCAS(&table_keys[slot], EMPTY_CELL, key) and what its result decides.
Probe(t) ==
    /\ pc[t] = "probe"
    /\ LET prev == table_keys[slot[t]]
       IN  /\ table_keys' = IF prev = EMPTY_CELL
                            THEN [table_keys EXCEPT ![slot[t]] = query[t]]
                            ELSE table_keys
           /\ IF prev \in {EMPTY_CELL, query[t]}
              THEN pc' = [pc EXCEPT ![t] = "count"] /\ UNCHANGED slot
              ELSE slot' = [slot EXCEPT ![t] = NextSlot(@)] /\ UNCHANGED pc
    /\ UNCHANGED <<query, table_vals, look>>

\* Bug: the value is stored, not added.
CountOnce(t) ==
    /\ pc[t] = "count"
    /\ table_vals' = [table_vals EXCEPT ![slot[t]] = 1]
    /\ pc' = [pc EXCEPT ![t] = "done"]
    /\ UNCHANGED <<query, table_keys, slot, look>>

\* atomicAdd(&table_vals[slot], 1)
Count(t) ==
    /\ pc[t] = "count"
    /\ table_vals' = [table_vals EXCEPT ![slot[t]] = @ + 1]
    /\ pc' = [pc EXCEPT ![t] = "done"]
    /\ UNCHANGED <<query, table_keys, slot, look>>

-----------------------------------------------------------------------------
(* device_view::lookup, from a kernel launched after the insertions *)

Inserted == \A t \in Idx : pc[t] = "done"

\* A document token 0 ends the document and is never looked up.
BeginLookup(key) ==
    /\ Inserted
    /\ look.state = "none"
    /\ key # 0
    /\ look' = [key |-> key, slot |-> hash(key), state |-> "probe", result |-> 0]
    /\ UNCHANGED <<query, table_keys, table_vals, pc, slot>>

\* Bug: only a match ends the search.
LookupStepForMatch ==
    /\ look.state = "probe"
    /\ look' = IF table_keys[look.slot] = look.key
               THEN [look EXCEPT !.state = "done", !.result = table_vals[look.slot]]
               ELSE [look EXCEPT !.slot = NextSlot(@)]
    /\ UNCHANGED <<query, table_keys, table_vals, pc, slot>>

LookupStep ==
    /\ look.state = "probe"
    /\ LET cur_key == table_keys[look.slot]
       IN  look' = IF cur_key = look.key
                   THEN [look EXCEPT !.state = "done", !.result = table_vals[look.slot]]
                   ELSE IF cur_key = EMPTY_CELL
                   THEN [look EXCEPT !.state = "done", !.result = EMPTY_CELL]
                   ELSE [look EXCEPT !.slot = NextSlot(@)]
    /\ UNCHANGED <<query, table_keys, table_vals, pc, slot>>

Over == look.state = "done" /\ UNCHANGED vars

Next ==
    \/ \E t \in Idx : Probe(t) \/ Count(t)
    \/ \E key \in Tokens : BeginLookup(key)
    \/ LookupStep
    \/ Over

\* The GPU runs every resident thread.
Fairness ==
    /\ \A t \in 1..MaxQuery : WF_vars(t \in Idx /\ (Probe(t) \/ Count(t)))
    /\ WF_vars(LookupStep)

Spec == Init /\ [][Next]_vars /\ Fairness

-----------------------------------------------------------------------------
(* Properties *)

TypeOK ==
    /\ query \in Seq(Tokens)
    /\ table_keys \in [Slots -> Tokens \cup {EMPTY_CELL}]
    /\ table_vals \in [Slots -> Nat]
    /\ pc \in [Idx -> {"probe", "count", "done"}]
    /\ slot \in [Idx -> Slots]
    /\ look.slot \in Slots /\ look.state \in {"none", "probe", "done"} /\ look.result \in Nat

\* Threads that race to insert one token, each from its own probe, never end in two
\* cells.
OneCellPerKey ==
    \A s, r \in Slots :
        s # r /\ table_keys[s] # EMPTY_CELL => table_keys[s] # table_keys[r]

\* How far cell s is from cell r along the probe sequence.
Distance(r, s) == (s + Capacity - r) % Capacity

\* Between the cell a token hashes to and the cell it is in, no cell is empty: a
\* lookup cannot stop short of it.
Reachable ==
    \A s \in Slots : table_keys[s] # EMPTY_CELL =>
        \A r \in Slots :
            Distance(hash(table_keys[s]), r) < Distance(hash(table_keys[s]), s)
                => table_keys[r] # EMPTY_CELL

\* A thread past its probe sits on a cell that holds its token, whoever put it
\* there and whatever the others do before it counts.
CellsAgree ==
    \A t \in Idx : pc[t] # "probe" => table_keys[slot[t]] = query[t]

\* A taken cell keeps its key.
CellsKept ==
    [][\A s \in Slots : table_keys[s] # EMPTY_CELL => table_keys'[s] = table_keys[s]]_vars

\* A lookup gives the multiplicity of its token in the query, so the kernel adds
\* what doc_query_scoring_cpu adds for it.
LookupExact == look.state = "done" => look.result = MapQuery(query, look.key)

\* Every insertion and every lookup ends: the probing meets its key or an empty
\* cell.
InsertionsEnd == <>Inserted
LookupsEnd == look.state = "probe" ~> look.state = "done"
=============================================================================
