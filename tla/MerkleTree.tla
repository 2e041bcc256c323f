----------------------------- MODULE MerkleTree -----------------------------
(***************************************************************************)
(* The sparse Merkle tree of balances, orders and accounts                 *)
(* (types/merkle_tree.rs).                                                 *)
(*                                                                         *)
(* Nodes live in one map keyed by a flattened index; a node that is not in *)
(* the map has the default value of its level.  set_value writes a leaf    *)
(* and recomputes its ancestors.  set_value_parallel works in chunks: the  *)
(* hashes of all updates of a chunk are precalculated in parallel on the   *)
(* tree as it is before the chunk, then the updates are applied one after  *)
(* the other, and a precalculated hash is used only as long as its inputs  *)
(* are still those of the tree.                                            *)
(*                                                                         *)
(* A step is one iteration of one of the loops, so that the tree can be    *)
(* looked at between them; the parallel precalculations interleave.        *)
(***************************************************************************)
EXTENDS Integers, Sequences, FiniteSetsExt

CONSTANTS
  Height,        \* levels above the leaves
  Values,        \* leaf values
  Default,       \* the leaf value of an empty tree
  Hash(_, _),    \* Fr::hash of two nodes
  Parallels,     \* chunk sizes callers ask for
  Written,       \* bound: the leaves that are written
  MaxUpdates     \* bound: updates in one behaviour

Pow2(n) == 2 ^ n

\* Besides the parameters, the powers of two as far as the tree uses them.
ASSUME TreeAssumption ==
  /\ Height \in Nat \ {0} /\ MaxUpdates \in Nat
  /\ Default \in Values
  /\ Written \subseteq 0 .. Pow2(Height) - 1
  /\ Parallels \subseteq Nat
  /\ \A n \in 0 .. Height + 1 : Pow2(n) \in Nat \ {0}
  /\ Pow2(0) = 1
  /\ \A n \in 0 .. Height : Pow2(n + 1) = 2 * Pow2(n)
  /\ \A m, n \in 0 .. Height + 1 : m <= n => Pow2(m) <= Pow2(n)

VARIABLES
  default_nodes,   \* values of the absent nodes, by level
  data,            \* flattened index -> node
  pc,              \* the loop the tree is in
  todo,            \* updates of the call not yet taken up
  chunk,           \* updates being precalculated or waiting to be applied
  job,             \* the update being applied
  calls,           \* the updates of all calls so far, in order
  parallel         \* chunk size of the call

vars == <<default_nodes, data, pc, todo, chunk, job, calls, parallel>>

Leaf    == 0 .. Pow2(Height) - 1
Indices(level) == 0 .. Pow2(Height - level) - 1
Update  == [idx : Written, value : Values]

-----------------------------------------------------------------------------
(* Reading the tree. *)

\* Mutants of LevelOffset: a level starts one early, one late.
LevelOffsetEarly(level) == Pow2(Height + 1) - Pow2(Height - level + 1) - level
LevelOffsetLate(level)  == Pow2(Height + 1) - Pow2(Height - level + 1) + level

LevelOffset(level) == Pow2(Height + 1) - Pow2(Height - level + 1)

\* get_flattened_idx
Flattened(level, idx) == LevelOffset(level) + idx

\* get_value
GetValue(level, idx) ==
  IF Flattened(level, idx) \in DOMAIN data THEN data[Flattened(level, idx)]
                                           ELSE default_nodes[level + 1]

Root == GetValue(Height, 0)

SiblingIdx(n) == IF n % 2 = 1 THEN n - 1 ELSE n + 1
ParentIdx(n)  == n \div 2

\* the two children hashed into the parent of node idx
Pair(level, idx) ==
  IF idx % 2 = 0 THEN <<GetValue(level, idx), GetValue(level, idx + 1)>>
                 ELSE <<GetValue(level, idx - 1), GetValue(level, idx)>>

\* the same with another value at node idx
PairWith(level, idx, value) ==
  IF idx % 2 = 0 THEN <<value, GetValue(level, idx + 1)>>
                 ELSE <<GetValue(level, idx - 1), value>>

HashOf(pair) == Hash(pair[1], pair[2])

\* get_proof: the siblings on the way up
PathElements(idx) ==
  [l \in 0 .. Height - 1 |-> GetValue(l, SiblingIdx(idx \div Pow2(l)))]

-----------------------------------------------------------------------------
(* Writing. *)

Insert(key, value) ==
  data' = [k \in DOMAIN data \cup {key} |-> IF k = key THEN value ELSE data[k]]

\* where the loop over the updates goes on when the last leaf reached the root
AfterJob(mode) ==
  CASE chunk # <<>> -> "prepare"
    [] chunk = <<>> /\ todo # <<>> -> mode
    [] OTHER -> "idle"

\* Tree::new, one level of default_nodes
NewLevel ==
  LET last == default_nodes[Len(default_nodes)]
  IN
  /\ pc = "new"
  /\ default_nodes' = Append(default_nodes, Hash(last, last))
  /\ pc' = IF Len(default_nodes) = Height THEN "idle" ELSE "new"
  /\ UNCHANGED <<data, todo, chunk, job, calls, parallel>>

\* set_value_parallel is called; a chunk of one is updated by set_value
SetValueParallel(updates, p) ==
  /\ pc = "idle" /\ updates # <<>>
  /\ Len(calls) + Len(updates) <= MaxUpdates
  /\ todo' = updates /\ calls' = calls \o updates
  /\ parallel' = IF p = 0 THEN 8 ELSE p
  /\ pc' = IF p = 1 THEN "next" ELSE "chunk"
  /\ UNCHANGED <<default_nodes, data, chunk, job>>

NewJob(update, cache) ==
  [idx |-> update.idx, cur |-> update.idx, level |-> 0, cache |-> cache,
   miss |-> cache = <<>>]

\* set_value: the leaf has the value already
SetUnchanged ==
  /\ pc = "next"
  /\ GetValue(0, Head(todo).idx) = Head(todo).value
  /\ todo' = Tail(todo)
  /\ pc' = IF Len(todo) = 1 THEN "idle" ELSE "next"
  /\ UNCHANGED <<default_nodes, data, chunk, job, calls, parallel>>

\* set_value: write the leaf
SetLeaf ==
  /\ pc = "next"
  /\ GetValue(0, Head(todo).idx) # Head(todo).value
  /\ Insert(Head(todo).idx, Head(todo).value)
  /\ job' = NewJob(Head(todo), <<>>)
  /\ todo' = Tail(todo)
  /\ pc' = "set"
  /\ UNCHANGED <<default_nodes, chunk, calls, parallel>>

\* set_value: recalculate_parent of one level
RecalculateParent ==
  LET parent == ParentIdx(job.cur)
  IN
  /\ pc = "set"
  /\ Insert(Flattened(job.level + 1, parent),
            Hash(GetValue(job.level, parent * 2), GetValue(job.level, parent * 2 + 1)))
  /\ job' = [job EXCEPT !.cur = parent, !.level = @ + 1]
  /\ pc' = IF job.level + 1 = Height THEN AfterJob("next") ELSE "set"
  /\ UNCHANGED <<default_nodes, todo, chunk, calls, parallel>>

\* Mutant of ChunkSize: chunks_exact, an incomplete last chunk is dropped.
ChunkSizeExact == IF Len(todo) < parallel THEN 0 ELSE parallel

ChunkSize == IF Len(todo) < parallel THEN Len(todo) ELSE parallel

\* the next chunk of updates
TakeChunk ==
  /\ pc = "chunk"
  /\ chunk' = [k \in 1 .. ChunkSize |->
                 [idx |-> todo[k].idx, value |-> todo[k].value,
                  cur |-> todo[k].idx, top |-> todo[k].value, cache |-> <<>>]]
  /\ todo' = SubSeq(todo, ChunkSize + 1, Len(todo))
  /\ pc' = IF ChunkSize = 0 THEN "idle" ELSE "prepare"
  /\ UNCHANGED <<default_nodes, data, job, calls, parallel>>

Prepared(k) == Len(chunk[k].cache) = Height

\* set_value_prepare_diff of the k-th update, one level; the tree is not changed
PrepareLevel(k) ==
  LET level == Len(chunk[k].cache)
      pair  == PairWith(level, chunk[k].cur, chunk[k].top)
      item  == [inputs |-> pair, result |-> HashOf(pair)]
  IN
  /\ pc = "prepare" /\ ~Prepared(k)
  /\ chunk' = [chunk EXCEPT ![k].cache = Append(@, item),
                            ![k].cur = ParentIdx(@), ![k].top = HashOf(pair)]
  /\ UNCHANGED <<default_nodes, data, pc, todo, job, calls, parallel>>

\* set_value_apply_diff: write the leaf
ApplyLeaf ==
  /\ pc = "prepare" /\ \A k \in DOMAIN chunk : Prepared(k)
  /\ Insert(Head(chunk).idx, Head(chunk).value)
  /\ job' = NewJob(Head(chunk), Head(chunk).cache)
  /\ chunk' = Tail(chunk)
  /\ pc' = "apply"
  /\ UNCHANGED <<default_nodes, todo, calls, parallel>>

\* Mutant of Miss: the inputs of the precalculated hash are not compared.
MissNever == job.miss

\* once a precalculated hash is wrong, so are those above it
Miss == job.miss \/ job.cache[job.level + 1].inputs # Pair(job.level, job.cur)

\* set_value_apply_diff: one level
ApplyLevel ==
  /\ pc = "apply"
  /\ Insert(Flattened(job.level + 1, ParentIdx(job.cur)),
            IF Miss THEN HashOf(Pair(job.level, job.cur))
                    ELSE job.cache[job.level + 1].result)
  /\ job' = [job EXCEPT !.cur = ParentIdx(@), !.level = @ + 1, !.miss = Miss]
  /\ pc' = IF job.level + 1 = Height THEN AfterJob("chunk") ELSE "apply"
  /\ UNCHANGED <<default_nodes, todo, chunk, calls, parallel>>

-----------------------------------------------------------------------------
NoJob == [idx |-> 0, cur |-> 0, level |-> 0, cache |-> <<>>, miss |-> FALSE]

Init ==
  /\ default_nodes = <<Default>> /\ data = <<>>
  /\ pc = "new" /\ todo = <<>> /\ chunk = <<>> /\ job = NoJob
  /\ calls = <<>> /\ parallel = 1

Calls == UNION {[1 .. n -> Update] : n \in 1 .. MaxUpdates}

Next ==
  \/ NewLevel
  \/ \E updates \in Calls, p \in Parallels : SetValueParallel(updates, p)
  \/ SetUnchanged \/ SetLeaf \/ RecalculateParent
  \/ TakeChunk \/ (\E k \in DOMAIN chunk : PrepareLevel(k)) \/ ApplyLeaf \/ ApplyLevel

Spec == Init /\ [][Next]_vars

-----------------------------------------------------------------------------
(* Properties. *)

Pcs == {"new", "idle", "next", "set", "chunk", "prepare", "apply"}

\* Nodes are keyed within the tree, and the loops stay within its height.
TypeOK ==
  /\ Len(default_nodes) \in 1 .. Height + 1
  /\ pc # "new" => Len(default_nodes) = Height + 1
  /\ DOMAIN data \subseteq 0 .. Pow2(Height + 1) - 2
  /\ pc \in Pcs /\ parallel \in Nat
  /\ todo \in Seq(Update) /\ calls \in Seq(Update)
  /\ pc \in {"next", "chunk"} => todo # <<>>
  /\ pc = "prepare" => chunk # <<>>
  /\ \A k \in DOMAIN chunk :
       /\ chunk[k].idx \in Leaf /\ chunk[k].value \in Values
       /\ chunk[k].cur \in Indices(Len(chunk[k].cache))
  /\ job.idx \in Leaf /\ job.level \in 0 .. Height /\ job.cur \in Indices(job.level)
  /\ pc \in {"set", "apply"} => job.level < Height

\* what a leaf should be: the value of its last update
LastUpdates(idx) == {i \in DOMAIN calls : calls[i].idx = idx}
Expected(idx) ==
  IF LastUpdates(idx) = {} THEN Default ELSE calls[Max(LastUpdates(idx))].value

\* Between calls the leaves are those a sequence of plain updates would have
\* written, also when one call updates a leaf twice or spans chunks.
UpdatesApplied ==
  pc = "idle" => \A idx \in Leaf : GetValue(0, idx) = Expected(idx)

\* the root a circuit computes from a leaf and a path
RootFrom(idx, leaf, path) ==
  LET up[l \in 0 .. Height] ==
        IF l = 0 THEN leaf
        ELSE IF (idx \div Pow2(l - 1)) % 2 = 0 THEN Hash(up[l - 1], path[l - 1])
                                               ELSE Hash(path[l - 1], up[l - 1])
  IN  up[Height]

\* Between calls the proof of every leaf leads to the root, so every inner node is
\* the hash of its children, whatever stale hashes the parallel updates had
\* precalculated.
ProofsVerify ==
  pc = "idle" =>
    \A idx \in Leaf : RootFrom(idx, GetValue(0, idx), PathElements(idx)) = Root

\* While a leaf is updated its own path does not change: a proof taken before
\* the update verifies the new leaf against the new root, which is how a block
\* proves a balance before and after a transaction with one path.
Updating == pc \in {"set", "apply"}
PathStable ==
  [][\A idx \in Leaf :
       (Updating \/ Updating') /\ idx = job'.idx
         => PathElements(idx)' = PathElements(idx)]_vars

=============================================================================
