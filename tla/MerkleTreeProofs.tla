-------------------------- MODULE MerkleTreeProofs --------------------------
(***************************************************************************)
(* Proofs about MerkleTree, for a tree of any height, any leaf values, any *)
(* chunk sizes and any hash: nothing is assumed of Hash, two inputs may    *)
(* collide, because a precalculated hash is compared by its inputs.        *)
(*                                                                         *)
(* What the runs check between calls is not inductive, so Inv says what    *)
(* holds in the middle of a call.  The updates still to be made are the    *)
(* tail of the calls, those of the chunk before those not yet taken up     *)
(* (QueueInv); the leaves are as after the others (LeavesInv).  Every      *)
(* inner node is the hash of its children, but those between the level the *)
(* loop has reached and the root, on the way up from the leaf being        *)
(* updated (NodesInv).  A precalculated hash is the hash of its inputs,    *)
(* however old they are (IsCache), which with the comparison of            *)
(* set_value_apply_diff is enough for every node written to be the hash of *)
(* its children.                                                           *)
(*                                                                         *)
(* Under it lies the arithmetic of the flattened indices: levels do not    *)
(* overlap (FlattenedDistinct), parents and siblings stay within their     *)
(* level (Family), a leaf's ancestors are halved one by one (AncStep).     *)
(* RootFrom defines a function by recursion; whatever CHOOSE picks for it  *)
(* agrees with the values of the ancestors, by taking the least level on   *)
(* which two such functions would differ (UpUnique).                       *)
(***************************************************************************)
EXTENDS MerkleTree, FiniteSetTheorems, SequenceTheorems, WellFoundedInduction, TLAPS

\* the ancestor of a leaf on a level
Anc(idx, level) == idx \div Pow2(level)

IsSeq(s) == \E S : s \in Seq(S)

\* Defaults are the hashes of equal children; nothing is written before they are all there.
DefaultsInv ==
  /\ IsSeq(default_nodes) /\ default_nodes[1] = Default
  /\ \A l \in 1 .. Height : l < Len(default_nodes) =>
       default_nodes[l + 1] = Hash(default_nodes[l], default_nodes[l])
  /\ pc = "new" => /\ Len(default_nodes) <= Height
                   /\ data = <<>> /\ calls = <<>>

\* which loop has what left to do
StageInv ==
  /\ parallel > 0
  /\ pc \in {"new", "idle"} => todo = <<>>
  /\ pc \notin {"prepare", "apply"} => chunk = <<>>

\* a precalculated hash is the hash of its inputs
IsCache(cache) ==
  /\ IsSeq(cache)
  /\ \A l \in DOMAIN cache : cache[l].result = HashOf(cache[l].inputs)

IsEntry(entry) ==
  /\ entry = [idx |-> entry.idx, value |-> entry.value, cur |-> entry.cur,
              top |-> entry.top, cache |-> entry.cache]
  /\ entry.idx \in Written
  /\ IsCache(entry.cache) /\ Len(entry.cache) \in 0 .. Height

ChunkInv == IsSeq(chunk) /\ \A k \in DOMAIN chunk : IsEntry(chunk[k])

JobInv ==
  /\ job = [idx |-> job.idx, cur |-> job.cur, level |-> job.level,
            cache |-> job.cache, miss |-> job.miss]
  /\ job.cur = Anc(job.idx, job.level)
  /\ IsCache(job.cache)
  /\ pc = "apply" => Len(job.cache) = Height

\* The updates still to be made are the last ones of the calls: first those of the chunk,
\* then those not yet taken up.
Made == Len(calls) - Len(todo) - Len(chunk)

QueueInv ==
  /\ Made \in Nat
  /\ \A k \in 1 .. Len(chunk) : /\ chunk[k].idx = calls[Made + k].idx
                                /\ chunk[k].value = calls[Made + k].value
  /\ \A k \in 1 .. Len(todo) : todo[k] = calls[Made + Len(chunk) + k]

\* value is the value of the leaf's last update among the first n
LastIs(idx, n, value) ==
  \/ value = Default /\ \A i \in 1 .. n : calls[i].idx # idx
  \/ \E i \in 1 .. n : /\ calls[i].idx = idx /\ calls[i].value = value
                       /\ \A j \in i + 1 .. n : calls[j].idx # idx

LeavesInv == pc # "new" => \A idx \in Leaf : LastIs(idx, Made, GetValue(0, idx))

\* Every inner node is the hash of its children, but those on the way from the leaf being
\* updated to the root that the loop has not reached.
HashesChildren(l, q) ==
  GetValue(l + 1, q) = Hash(GetValue(l, 2 * q), GetValue(l, 2 * q + 1))

NodesInv ==
  pc # "new" =>
    \A l \in 0 .. Height - 1 : \A q \in Indices(l + 1) :
      \/ HashesChildren(l, q)
      \/ Updating /\ l >= job.level /\ q = Anc(job.idx, l + 1)

Inv == /\ TypeOK /\ DefaultsInv /\ StageInv /\ ChunkInv /\ JobInv
       /\ QueueInv /\ LeavesInv /\ NodesInv

-----------------------------------------------------------------------------
(* Arithmetic of levels and indices. *)

\* The least element of a set of natural numbers: what induction is made of here.
LEMMA Least ==
  ASSUME NEW S \in SUBSET Nat, S # {}
  PROVE  \E m \in S : \A n \in S : m <= n
<1> DEFINE T == {0 .. n : n \in S}
           R == StrictSubsetOrdering(Nat)
<1>1. T \subseteq FiniteSubsetsOf(Nat) /\ T # {}
  <2>1. ASSUME NEW n \in S PROVE 0 .. n \in FiniteSubsetsOf(Nat)
    BY FS_Interval DEF FiniteSubsetsOf
  <2> QED BY <2>1
<1>2. \E x \in T : \A y \in T : ~ (<<y, x>> \in R)
  <2> HIDE DEF T, R
  <2> QED BY <1>1, FS_StrictSubsetOrderingWellFounded, WFMin DEF R
<1>3. PICK m \in S : \A n \in S : ~ (<<0 .. n, 0 .. m>> \in R)
  BY <1>2
<1>4. ASSUME NEW n \in S PROVE m <= n
  <2> SUFFICES ASSUME n < m PROVE FALSE
    OBVIOUS
  <2>1. (0 .. n) \subseteq (0 .. m) /\ m \in 0 .. m /\ m \notin 0 .. n
    OBVIOUS
  <2>2. <<0 .. n, 0 .. m>> \in R
    BY <2>1 DEF StrictSubsetOrdering
  <2> QED BY <2>2, <1>3
<1> QED
  BY <1>4

\* Dividing by d and then by two is dividing by twice d.
LEMMA DivTwice ==
  ASSUME NEW n \in Nat, NEW d \in Nat \ {0}
  PROVE  (n \div d) \div 2 = n \div (2 * d)
<1>1. PICK q \in Nat, r \in Nat : n = d * q + r /\ r < d /\ q = n \div d
  OBVIOUS
<1>2. PICK h \in Nat, s \in {0, 1} : q = 2 * h + s /\ h = q \div 2
  OBVIOUS
<1>3. n = (2 * d) * h + (d * s + r) /\ d * s + r < 2 * d /\ d * s + r >= 0
  BY <1>1, <1>2
<1>4. n \div (2 * d) = h
  BY <1>3
<1> QED BY <1>1, <1>2, <1>4

\* Level l has Pow2(Height - l) nodes, and they start 2 * Pow2(Height - l) before the end.
LEMMA LevelSize ==
  ASSUME NEW l \in 0 .. Height
  PROVE  LET size == Pow2(Height - l)
         IN  /\ size \in Nat \ {0} /\ Indices(l) = 0 .. size - 1
             /\ LevelOffset(l) = Pow2(Height + 1) - 2 * size
             /\ Pow2(Height + 1) \in Nat /\ 2 * size <= Pow2(Height + 1)
             /\ l < Height => size = 2 * Pow2(Height - (l + 1))
<1>1. PICK n \in 0 .. Height : n = Height - l
  BY TreeAssumption
<1>2. /\ n + 1 = Height - l + 1 /\ n \in 0 .. Height + 1
      /\ n + 1 \in 0 .. Height + 1 /\ Height + 1 \in 0 .. Height + 1
      /\ n + 1 <= Height + 1
  BY <1>1, TreeAssumption
<1>3. /\ Pow2(n) \in Nat \ {0} /\ Pow2(n + 1) = 2 * Pow2(n)
      /\ Pow2(Height + 1) \in Nat /\ Pow2(n + 1) <= Pow2(Height + 1)
  BY <1>2, TreeAssumption
<1>4. l < Height => Pow2(n) = 2 * Pow2(Height - (l + 1))
  <2> SUFFICES ASSUME l < Height PROVE Pow2(n) = 2 * Pow2(Height - (l + 1))
    OBVIOUS
  <2>1. PICK m \in 0 .. Height : m = Height - (l + 1) /\ n = m + 1
    BY <1>1, TreeAssumption
  <2> QED BY <2>1, TreeAssumption
<1> QED BY <1>1, <1>2, <1>3, <1>4 DEF Indices, LevelOffset

\* Indices of parents, children and siblings.
LEMMA Family ==
  ASSUME NEW l \in 0 .. Height, l < Height
  PROVE  /\ l + 1 \in 0 .. Height
         /\ \A q \in Indices(l + 1) : /\ 2 * q \in Indices(l) /\ 2 * q + 1 \in Indices(l)
                                     /\ q \in Nat
         /\ \A n \in Indices(l) : /\ ParentIdx(n) \in Indices(l + 1)
                                 /\ SiblingIdx(n) \in Indices(l) /\ SiblingIdx(n) # n
                                 /\ n \in Nat
<1>1. PICK size \in Nat \ {0} :
        /\ Indices(l) = 0 .. 2 * size - 1 /\ Indices(l + 1) = 0 .. size - 1
  <2>1. l + 1 \in 0 .. Height
    BY TreeAssumption
  <2> QED BY <2>1, LevelSize
<1>2. l + 1 \in 0 .. Height
  BY TreeAssumption
<1>3. ASSUME NEW q \in Indices(l + 1)
      PROVE  2 * q \in Indices(l) /\ 2 * q + 1 \in Indices(l) /\ q \in Nat
  BY <1>1
<1>4. ASSUME NEW n \in Indices(l)
      PROVE  /\ ParentIdx(n) \in Indices(l + 1)
             /\ SiblingIdx(n) \in Indices(l) /\ SiblingIdx(n) # n /\ n \in Nat
  <2>1. PICK q \in Nat, s \in {0, 1} : n = 2 * q + s /\ q = n \div 2 /\ s = n % 2
    BY <1>1
  <2>2. q \in 0 .. size - 1
    BY <1>1, <2>1
  <2> QED BY <1>1, <2>1, <2>2 DEF ParentIdx, SiblingIdx
<1> QED BY <1>2, <1>3, <1>4

\* get_flattened_idx gives every node a key of its own.
LEMMA FlattenedDistinct ==
  ASSUME NEW l \in 0 .. Height, NEW i \in Indices(l),
         NEW m \in 0 .. Height, NEW j \in Indices(m),
         Flattened(l, i) = Flattened(m, j)
  PROVE  l = m /\ i = j
<1>1. ASSUME NEW a \in 0 .. Height, NEW b \in 0 .. Height, a < b,
             NEW x \in Indices(a), NEW y \in Indices(b)
      PROVE  Flattened(a, x) < Flattened(b, y)
  <2>1. PICK big, small \in Nat : big = Pow2(Height - a) /\ small = Pow2(Height - b)
    BY LevelSize
  <2>2. 2 * small <= big
    <3>1. PICK n \in 0 .. Height : n = Height - b
      BY TreeAssumption
    <3>2. n + 1 <= Height - a /\ n + 1 \in 0 .. Height + 1 /\ Height - a \in 0 .. Height + 1
      BY <1>1, <3>1, TreeAssumption
    <3>3. Pow2(n + 1) <= Pow2(Height - a) /\ Pow2(n + 1) = 2 * Pow2(n)
      BY <3>2, TreeAssumption
    <3> QED BY <2>1, <3>1, <3>3
  <2>3. /\ x \in 0 .. big - 1 /\ y \in 0 .. small - 1
        /\ LevelOffset(a) = Pow2(Height + 1) - 2 * big
        /\ LevelOffset(b) = Pow2(Height + 1) - 2 * small
        /\ Pow2(Height + 1) \in Nat
    BY <2>1, LevelSize
  <2>4. PICK total \in Nat : total = Pow2(Height + 1)
    BY <2>3
  <2>5. (total - 2 * big) + x < (total - 2 * small) + y
    BY <2>1, <2>2, <2>3
  <2> QED BY <2>3, <2>4, <2>5 DEF Flattened
<1>2. Flattened(l, i) \in Int
  BY LevelSize DEF Flattened
<1>3. l = m
  <2>1. ~ (l < m) /\ ~ (m < l)
    BY <1>1, <1>2
  <2> QED BY <2>1, TreeAssumption
<1>4. LevelOffset(l) \in Int /\ i \in Int /\ j \in Int
  BY <1>3, LevelSize
<1> QED BY <1>3, <1>4 DEF Flattened

\* and the keys are those of a vector of 2 * Pow2(Height) - 1 nodes.
LEMMA FlattenedBounds ==
  ASSUME NEW l \in 0 .. Height, NEW i \in Indices(l)
  PROVE  Flattened(l, i) \in 0 .. Pow2(Height + 1) - 2
<1>1. PICK size \in Nat \ {0}, total \in Nat :
        /\ size = Pow2(Height - l) /\ total = Pow2(Height + 1)
        /\ i \in 0 .. size - 1 /\ LevelOffset(l) = total - 2 * size
        /\ 2 * size <= total
  BY LevelSize
<1>2. (total - 2 * size) + i \in 0 .. total - 2
  BY <1>1
<1> QED BY <1>1, <1>2 DEF Flattened

\* The leaves are the nodes of level 0, keyed by their indices.
LEMMA Leaves ==
  /\ Indices(0) = Leaf /\ 0 \in 0 .. Height
  /\ \A idx \in Leaf : Flattened(0, idx) = idx /\ idx \in Nat
<1>1. 0 \in 0 .. Height /\ Height - 0 = Height /\ Height \in 0 .. Height
  BY TreeAssumption
<1>2. Pow2(Height) \in Nat /\ Pow2(Height + 1) = 2 * Pow2(Height)
      /\ Pow2(Height + 1) \in Nat
  <2>1. Height \in 0 .. Height + 1 /\ Height + 1 \in 0 .. Height + 1
    BY TreeAssumption
  <2> QED BY <1>1, <2>1, TreeAssumption
<1>3. LevelOffset(0) = 0 /\ Indices(0) = Leaf
  BY <1>1, <1>2, LevelSize DEF Leaf
<1>4. \A idx \in Leaf : idx \in Nat
  BY <1>2 DEF Leaf
<1> QED BY <1>1, <1>3, <1>4 DEF Flattened

\* The ancestors of a leaf: on level 0 it is the leaf, and then one is the parent of the
\* other, up to the root.
LEMMA AncStep ==
  ASSUME NEW idx \in Leaf, NEW l \in 0 .. Height, l < Height
  PROVE  Anc(idx, l + 1) = ParentIdx(Anc(idx, l))
<1>1. Pow2(l) \in Nat \ {0} /\ Pow2(l + 1) = 2 * Pow2(l)
  <2>1. l \in 0 .. Height + 1
    BY TreeAssumption
  <2> QED BY <2>1, TreeAssumption
<1>2. idx \in Nat
  BY Leaves
<1> QED BY <1>1, <1>2, DivTwice DEF Anc, ParentIdx

LEMMA AncZero ==
  ASSUME NEW idx \in Leaf
  PROVE  Anc(idx, 0) = idx
<1>1. idx \in Nat /\ Pow2(0) = 1
  BY Leaves, TreeAssumption
<1> QED BY <1>1 DEF Anc

LEMMA AncIndex ==
  ASSUME NEW idx \in Leaf, NEW l \in 0 .. Height
  PROVE  Anc(idx, l) \in Indices(l)
<1> DEFINE S == {m \in 0 .. Height : Anc(idx, m) \notin Indices(m)}
<1>1. S = {}
  <2> SUFFICES ASSUME S # {} PROVE FALSE
    OBVIOUS
  <2>1. PICK m \in S : \A n \in S : m <= n
    <3>1. S \in SUBSET Nat
      BY TreeAssumption
    <3> HIDE DEF S
    <3> QED BY <3>1, Least
  <2>2. m # 0
    BY AncZero, Leaves
  <2>3. m - 1 \in 0 .. Height /\ m - 1 < Height /\ (m - 1) + 1 = m /\ ~(m <= m - 1)
    BY <2>2, TreeAssumption
  <2>4. Anc(idx, m - 1) \in Indices(m - 1)
    BY <2>1, <2>3
  <2>5. Anc(idx, m) \in Indices(m)
    BY <2>3, <2>4, AncStep, Family
  <2> QED BY <2>5
<1> QED BY <1>1

LEMMA AncRoot ==
  ASSUME NEW idx \in Leaf
  PROVE  Anc(idx, Height) = 0
<1>1. Height \in 0 .. Height /\ Height - Height = 0
  BY TreeAssumption
<1>2. Indices(Height) = {0}
  BY <1>1, TreeAssumption DEF Indices
<1> QED BY <1>1, <1>2, AncIndex

-----------------------------------------------------------------------------
(* Proofs of leaves. *)

\* RootFrom, as a function f with up[l] = f[l]: the values of the ancestors are one, and
\* there is no other.
UpFrom(idx, leaf, path, f) ==
  f = [l \in 0 .. Height |->
         IF l = 0 THEN leaf
         ELSE IF (idx \div Pow2(l - 1)) % 2 = 0 THEN Hash(f[l - 1], path[l - 1])
                                                ELSE Hash(path[l - 1], f[l - 1])]

LEMMA UpUnique ==
  ASSUME NEW idx, NEW leaf, NEW path, NEW f, NEW g,
         UpFrom(idx, leaf, path, f), UpFrom(idx, leaf, path, g)
  PROVE  f[Height] = g[Height]
<1> DEFINE S == {l \in 0 .. Height : f[l] # g[l]}
<1>1. S = {}
  <2> SUFFICES ASSUME S # {} PROVE FALSE
    OBVIOUS
  <2>1. PICK m \in S : \A n \in S : m <= n
    <3>1. S \in SUBSET Nat
      BY TreeAssumption
    <3> HIDE DEF S
    <3> QED BY <3>1, Least
  <2>2. f[0] = leaf /\ g[0] = leaf /\ 0 \in 0 .. Height
    BY Leaves DEF UpFrom
  <2>3. m # 0
    BY <2>2
  <2>4. m - 1 \in 0 .. Height /\ ~(m <= m - 1)
    BY <2>3, TreeAssumption
  <2>5. f[m - 1] = g[m - 1]
    BY <2>1, <2>4
  <2>6. /\ f[m] = IF (idx \div Pow2(m - 1)) % 2 = 0 THEN Hash(f[m - 1], path[m - 1])
                                                   ELSE Hash(path[m - 1], f[m - 1])
        /\ g[m] = IF (idx \div Pow2(m - 1)) % 2 = 0 THEN Hash(g[m - 1], path[m - 1])
                                                   ELSE Hash(path[m - 1], g[m - 1])
    BY <2>3 DEF UpFrom
  <2> QED BY <2>5, <2>6
<1>2. Height \in 0 .. Height
  BY TreeAssumption
<1> QED BY <1>1, <1>2

LEMMA RootFromUp ==
  ASSUME NEW idx, NEW leaf, NEW path, NEW f, UpFrom(idx, leaf, path, f)
  PROVE  RootFrom(idx, leaf, path) = f[Height]
<1> DEFINE up == CHOOSE g : UpFrom(idx, leaf, path, g)
<1>1. UpFrom(idx, leaf, path, up)
  OBVIOUS
<1>2. RootFrom(idx, leaf, path) = up[Height]
  BY Zenon DEF RootFrom, UpFrom
<1> HIDE DEF up
<1> QED BY <1>1, <1>2, UpUnique

\* When every node is the hash of its children, every leaf's path leads to the root.
LEMMA PathsLead ==
  ASSUME \A l \in 0 .. Height - 1 : \A q \in Indices(l + 1) : HashesChildren(l, q),
         NEW idx \in Leaf
  PROVE  RootFrom(idx, GetValue(0, idx), PathElements(idx)) = Root
<1> DEFINE f == [l \in 0 .. Height |-> GetValue(l, Anc(idx, l))]
           path == PathElements(idx)
<1>1. ASSUME NEW l \in 0 .. Height, l # 0
      PROVE  f[l] = IF (idx \div Pow2(l - 1)) % 2 = 0 THEN Hash(f[l - 1], path[l - 1])
                                                      ELSE Hash(path[l - 1], f[l - 1])
  <2>1. PICK k \in 0 .. Height : k = l - 1 /\ l = k + 1 /\ k < Height /\ k \in 0 .. Height - 1
    BY <1>1, TreeAssumption
  <2>2. PICK n \in Nat : n = Anc(idx, k) /\ n \in Indices(k)
    BY <2>1, AncIndex, Family
  <2>3. PICK q \in Indices(l) : q = ParentIdx(n) /\ q = Anc(idx, l) /\ q \in Nat
    BY <2>1, <2>2, AncStep, Family
  <2>4. GetValue(l, q) = Hash(GetValue(k, 2 * q), GetValue(k, 2 * q + 1))
    BY <2>1, <2>3 DEF HashesChildren
  <2>5. f[l] = GetValue(l, q) /\ f[k] = GetValue(k, n)
    BY <2>2, <2>3
  <2>6. path[k] = GetValue(k, SiblingIdx(n))
    BY <2>1, <2>2 DEF PathElements, Anc
  <2>7. idx \div Pow2(l - 1) = n
    BY <2>1, <2>2 DEF Anc
  <2>8. CASE n % 2 = 0
    <3>1. n = 2 * q /\ SiblingIdx(n) = 2 * q + 1
      BY <2>3, <2>8 DEF ParentIdx, SiblingIdx
    <3> QED BY <2>1, <2>4, <2>5, <2>6, <2>7, <2>8, <3>1
  <2>9. CASE n % 2 # 0
    <3>1. n = 2 * q + 1 /\ SiblingIdx(n) = 2 * q
      BY <2>3, <2>9 DEF ParentIdx, SiblingIdx
    <3> QED BY <2>1, <2>4, <2>5, <2>6, <2>7, <2>9, <3>1
  <2> QED BY <2>8, <2>9
<1>2. f[0] = GetValue(0, idx)
  BY AncZero, Leaves
<1>3. UpFrom(idx, GetValue(0, idx), path, f)
  BY <1>1, <1>2 DEF UpFrom
<1>4. RootFrom(idx, GetValue(0, idx), path) = f[Height]
  BY <1>3, RootFromUp
<1>5. f[Height] = Root
  <2>1. Height \in 0 .. Height
    BY TreeAssumption
  <2> QED BY <2>1, AncRoot DEF Root
<1> QED BY <1>4, <1>5

-----------------------------------------------------------------------------
(* Writing a node. *)

\* A node is written and no other: keys are distinct and levels share nothing.
LEMMA InsertNode ==
  ASSUME NEW level \in 0 .. Height, NEW idx \in Indices(level), NEW value,
         Insert(Flattened(level, idx), value), default_nodes' = default_nodes,
         DOMAIN data \subseteq 0 .. Pow2(Height + 1) - 2
  PROVE  /\ DOMAIN data' \subseteq 0 .. Pow2(Height + 1) - 2
         /\ \A l \in 0 .. Height : \A i \in Indices(l) :
              GetValue(l, i)' = IF l = level /\ i = idx THEN value ELSE GetValue(l, i)
<1>1. PICK key : key = Flattened(level, idx) /\ key \in 0 .. Pow2(Height + 1) - 2
  BY FlattenedBounds
<1>2. data' = [k \in DOMAIN data \cup {key} |-> IF k = key THEN value ELSE data[k]]
  BY <1>1 DEF Insert
<1>3. DOMAIN data' \subseteq 0 .. Pow2(Height + 1) - 2
  BY <1>1, <1>2
<1>4. ASSUME NEW l \in 0 .. Height, NEW i \in Indices(l)
      PROVE  GetValue(l, i)' = IF l = level /\ i = idx THEN value ELSE GetValue(l, i)
  <2>1. PICK k : k = Flattened(l, i)
    OBVIOUS
  <2>2. k = key <=> l = level /\ i = idx
    BY <1>1, <2>1, FlattenedDistinct
  <2>3. GetValue(l, i)' = IF k \in DOMAIN data' THEN data'[k] ELSE default_nodes[l + 1]
    BY <2>1 DEF GetValue
  <2>4. GetValue(l, i) = IF k \in DOMAIN data THEN data[k] ELSE default_nodes[l + 1]
    BY <2>1 DEF GetValue
  <2>5. /\ k \in DOMAIN data' <=> k \in DOMAIN data \/ k = key
        /\ k \in DOMAIN data' => data'[k] = IF k = key THEN value ELSE data[k]
    BY <1>2
  <2> QED BY <2>2, <2>3, <2>4, <2>5
<1> QED BY <1>3, <1>4

\* Nothing is written.
LEMMA NothingWritten ==
  ASSUME data' = data, default_nodes' = default_nodes
  PROVE  /\ \A l, i : GetValue(l, i)' = GetValue(l, i)
         /\ \A idx : PathElements(idx)' = PathElements(idx)
<1>1. ASSUME NEW l, NEW i PROVE GetValue(l, i)' = GetValue(l, i)
  BY DEF GetValue
<1>2. ASSUME NEW idx PROVE PathElements(idx)' = PathElements(idx)
  BY <1>1 DEF PathElements
<1> QED BY <1>1, <1>2

\* An ancestor of a leaf is not on the leaf's path, so that writing it leaves the path alone.
LEMMA OwnPath ==
  ASSUME NEW idx \in Leaf, NEW level \in 0 .. Height, NEW value,
         \A l \in 0 .. Height : \A i \in Indices(l) :
           GetValue(l, i)' = IF l = level /\ i = Anc(idx, level) THEN value
                             ELSE GetValue(l, i)
  PROVE  PathElements(idx)' = PathElements(idx)
<1>1. ASSUME NEW l \in 0 .. Height - 1
      PROVE  GetValue(l, SiblingIdx(Anc(idx, l)))' = GetValue(l, SiblingIdx(Anc(idx, l)))
  <2>1. l \in 0 .. Height /\ l < Height
    BY TreeAssumption
  <2>2. SiblingIdx(Anc(idx, l)) \in Indices(l) /\ SiblingIdx(Anc(idx, l)) # Anc(idx, l)
    BY <2>1, AncIndex, Family
  <2> QED BY <2>1, <2>2
<1> QED BY <1>1 DEF PathElements, Anc

\* A leaf is written while no update is under way: only its ancestors may now not be the
\* hashes of their children.
LEMMA LeafWritten ==
  ASSUME Inv, pc \in {"next", "prepare"}, NEW idx \in Leaf, NEW value,
         Insert(idx, value), default_nodes' = default_nodes,
         job'.idx = idx, job'.level = 0, pc' \in {"set", "apply"}
  PROVE  /\ NodesInv'
         /\ DOMAIN data' \subseteq 0 .. Pow2(Height + 1) - 2
         /\ \A i \in Leaf : GetValue(0, i)' = IF i = idx THEN value ELSE GetValue(0, i)
         /\ PathElements(idx)' = PathElements(idx)
<1>1. DOMAIN data \subseteq 0 .. Pow2(Height + 1) - 2
  BY DEF Inv, TypeOK
<1>2. /\ 0 \in 0 .. Height /\ idx \in Indices(0) /\ Flattened(0, idx) = idx
      /\ Anc(idx, 0) = idx
  BY Leaves, AncZero
<1>3. /\ DOMAIN data' \subseteq 0 .. Pow2(Height + 1) - 2
      /\ \A l \in 0 .. Height : \A i \in Indices(l) :
           GetValue(l, i)' = IF l = 0 /\ i = idx THEN value ELSE GetValue(l, i)
  BY <1>1, <1>2, InsertNode
<1>4. PathElements(idx)' = PathElements(idx)
  BY <1>2, <1>3, OwnPath
<1>5. ASSUME NEW l \in 0 .. Height - 1, NEW q \in Indices(l + 1)
      PROVE  HashesChildren(l, q)' \/ (Updating' /\ l >= job'.level /\ q = Anc(job'.idx, l + 1))
  <2>1. /\ l \in 0 .. Height /\ l < Height /\ l + 1 \in 0 .. Height /\ l + 1 # 0
        /\ l \in Nat
    BY TreeAssumption
  <2>2. 2 * q \in Indices(l) /\ 2 * q + 1 \in Indices(l) /\ q \in Nat
    BY <2>1, Family
  <2>3. HashesChildren(l, q)
    BY DEF Inv, NodesInv, Updating
  <2>4. GetValue(l + 1, q)' = GetValue(l + 1, q)
    BY <1>3, <2>1
  <2>5. CASE l = 0 /\ idx \in {2 * q, 2 * q + 1}
    <3>1. q = ParentIdx(idx)
      BY <2>2, <2>5 DEF ParentIdx
    <3>2. q = Anc(idx, l + 1)
      BY <1>2, <2>1, <2>5, <3>1, AncStep
    <3> QED BY <2>5, <3>2 DEF Updating
  <2>6. CASE ~(l = 0 /\ idx \in {2 * q, 2 * q + 1})
    <3>1. /\ GetValue(l, 2 * q)' = GetValue(l, 2 * q)
          /\ GetValue(l, 2 * q + 1)' = GetValue(l, 2 * q + 1)
      BY <1>3, <2>1, <2>2, <2>6
    <3> QED BY <2>3, <2>4, <3>1 DEF HashesChildren
  <2> QED BY <2>5, <2>6
<1>6. NodesInv'
  BY <1>5 DEF NodesInv
<1> QED BY <1>2, <1>3, <1>4, <1>6, Leaves

\* The loop of an update writes one more level: the node is the hash of its children again,
\* and the one above it may not be.
LEMMA LevelWritten ==
  ASSUME Inv, Updating, NEW value,
         value = Hash(GetValue(job.level, 2 * ParentIdx(job.cur)),
                      GetValue(job.level, 2 * ParentIdx(job.cur) + 1)),
         Insert(Flattened(job.level + 1, ParentIdx(job.cur)), value),
         default_nodes' = default_nodes,
         job'.idx = job.idx, job'.level = job.level + 1,
         job.level + 1 < Height => Updating'
  PROVE  /\ NodesInv'
         /\ DOMAIN data' \subseteq 0 .. Pow2(Height + 1) - 2
         /\ \A i \in Leaf : GetValue(0, i)' = GetValue(0, i)
         /\ PathElements(job.idx)' = PathElements(job.idx)
         /\ ParentIdx(job.cur) = Anc(job.idx, job.level + 1)
         /\ ParentIdx(job.cur) \in Indices(job.level + 1)
         /\ job.level + 1 \in 0 .. Height
<1>0. PICK cur : cur = job.cur
  OBVIOUS
<1>1. PICK idx \in Leaf, level \in 0 .. Height :
        /\ idx = job.idx /\ level = job.level /\ cur = job.cur /\ level < Height
        /\ cur = Anc(idx, level) /\ cur \in Indices(level)
  BY <1>0 DEF Inv, TypeOK, JobInv, Updating
<1>2. level + 1 \in 0 .. Height /\ level \in Nat /\ level \in 0 .. Height - 1 /\ level + 1 # 0
  BY <1>1, TreeAssumption
<1>3. PICK parent \in Nat :
        /\ parent = ParentIdx(cur) /\ parent \in Indices(level + 1)
        /\ parent = Anc(idx, level + 1)
  BY <1>1, <1>2, Family, AncStep
<1>4. DOMAIN data \subseteq 0 .. Pow2(Height + 1) - 2
  BY DEF Inv, TypeOK
<1>5. /\ DOMAIN data' \subseteq 0 .. Pow2(Height + 1) - 2
      /\ \A l \in 0 .. Height : \A i \in Indices(l) :
           GetValue(l, i)' = IF l = level + 1 /\ i = parent THEN value ELSE GetValue(l, i)
  BY <1>1, <1>2, <1>3, <1>4, InsertNode
<1>6. value = Hash(GetValue(level, 2 * parent), GetValue(level, 2 * parent + 1))
  BY <1>1, <1>3
<1>7. PathElements(idx)' = PathElements(idx)
  BY <1>2, <1>3, <1>5, OwnPath
<1>8. ASSUME NEW l \in 0 .. Height - 1, NEW q \in Indices(l + 1)
      PROVE  HashesChildren(l, q)' \/ (Updating' /\ l >= job'.level /\ q = Anc(job'.idx, l + 1))
  <2>1. /\ l \in 0 .. Height /\ l < Height /\ l + 1 \in 0 .. Height
        /\ l \in Nat
    BY TreeAssumption
  <2>2. 2 * q \in Indices(l) /\ 2 * q + 1 \in Indices(l) /\ q \in Nat
    BY <2>1, Family
  <2>3. HashesChildren(l, q) \/ (l >= level /\ q = Anc(idx, l + 1))
    BY <1>1 DEF Inv, NodesInv, Updating
  <2>4. CASE l = level
    <3>1. /\ GetValue(l, 2 * q)' = GetValue(l, 2 * q)
          /\ GetValue(l, 2 * q + 1)' = GetValue(l, 2 * q + 1)
      BY <1>2, <1>5, <2>1, <2>2, <2>4
    <3>2. GetValue(l + 1, q)' = IF q = parent THEN value ELSE GetValue(l + 1, q)
      BY <1>5, <2>1, <2>4
    <3>3. CASE q = parent
      BY <1>6, <2>4, <3>1, <3>2, <3>3 DEF HashesChildren
    <3>4. CASE q # parent
      <4>1. HashesChildren(l, q)
        BY <1>3, <2>3, <2>4, <3>4
      <4> QED BY <3>1, <3>2, <3>4, <4>1 DEF HashesChildren
    <3> QED BY <3>3, <3>4
  <2>5. CASE l = level + 1 /\ parent \in {2 * q, 2 * q + 1}
    <3>1. q = ParentIdx(parent)
      BY <2>2, <2>5 DEF ParentIdx
    <3>2. q = Anc(idx, l + 1)
      BY <1>2, <1>3, <2>1, <2>5, <3>1, AncStep
    <3>3. Updating' /\ l >= job'.level
      BY <1>1, <2>1, <2>5
    <3> QED BY <1>1, <3>2, <3>3
  <2>6. CASE l # level /\ ~(l = level + 1 /\ parent \in {2 * q, 2 * q + 1})
    <3>1. GetValue(l + 1, q)' = GetValue(l + 1, q)
      <4>1. l + 1 # level + 1
        BY <1>2, <2>1, <2>6
      <4> QED BY <1>5, <2>1, <4>1
    <3>2. /\ GetValue(l, 2 * q)' = GetValue(l, 2 * q)
          /\ GetValue(l, 2 * q + 1)' = GetValue(l, 2 * q + 1)
      BY <1>5, <2>1, <2>2, <2>6
    <3>3. HashesChildren(l, q) => HashesChildren(l, q)'
      BY <3>1, <3>2 DEF HashesChildren
    <3>4. ASSUME l >= level, q = Anc(idx, l + 1)
          PROVE  Updating' /\ l >= job'.level /\ q = Anc(job'.idx, l + 1)
      <4>1. l >= level + 1
        BY <1>2, <2>1, <2>6, <3>4
      <4>2. level + 1 < Height
        BY <1>2, <2>1, <4>1, TreeAssumption
      <4>3. Updating' /\ job'.level = level + 1 /\ job'.idx = idx
        BY <1>1, <4>2
      <4> QED BY <3>4, <4>1, <4>3
    <3> QED BY <2>3, <3>3, <3>4
  <2> QED BY <2>4, <2>5, <2>6
<1>9. NodesInv'
  BY <1>8 DEF NodesInv
<1>10. \A i \in Leaf : GetValue(0, i)' = GetValue(0, i)
  BY <1>2, <1>5, Leaves
<1> QED BY <1>1, <1>2, <1>3, <1>5, <1>7, <1>9, <1>10

-----------------------------------------------------------------------------
(* The queue of updates. *)

LEMMA LastIsSame ==
  ASSUME NEW n \in Nat, \A i \in 1 .. n : calls'[i] = calls[i],
         NEW idx, NEW value, LastIs(idx, n, value)
  PROVE  LastIs(idx, n, value)'
BY DEF LastIs

\* One more update makes its value the last of its leaf.
LEMMA LastIsNext ==
  ASSUME NEW n \in Nat, NEW idx, NEW old, LastIs(idx, n, old),
         NEW value, value = IF calls[n + 1].idx = idx THEN calls[n + 1].value ELSE old
  PROVE  LastIs(idx, n + 1, value)
<1>1. n + 1 \in 1 .. n + 1 /\ \A i \in 1 .. n + 1 : i \in 1 .. n \/ i = n + 1
  OBVIOUS
<1>2. \A i \in 1 .. n : i \in 1 .. n + 1
  OBVIOUS
<1>3. CASE calls[n + 1].idx = idx
  <2>1. \A j \in (n + 1) + 1 .. n + 1 : calls[j].idx # idx
    OBVIOUS
  <2> QED BY <1>1, <1>3, <2>1 DEF LastIs
<1>4. CASE calls[n + 1].idx # idx
  <2>1. CASE old = Default /\ \A i \in 1 .. n : calls[i].idx # idx
    BY <1>1, <1>4, <2>1 DEF LastIs
  <2>2. CASE \E i \in 1 .. n : /\ calls[i].idx = idx /\ calls[i].value = old
                               /\ \A j \in i + 1 .. n : calls[j].idx # idx
    <3>1. PICK i \in 1 .. n : /\ calls[i].idx = idx /\ calls[i].value = old
                              /\ \A j \in i + 1 .. n : calls[j].idx # idx
      BY <2>2
    <3>2. \A j \in i + 1 .. n + 1 : j \in i + 1 .. n \/ j = n + 1
      OBVIOUS
    <3>3. \A j \in i + 1 .. n + 1 : calls[j].idx # idx
      BY <1>4, <3>1, <3>2
    <3> QED BY <1>2, <1>4, <3>1, <3>3 DEF LastIs
  <2> QED BY <2>1, <2>2 DEF LastIs
<1> QED BY <1>3, <1>4

\* When the next update of the queue is written, the leaves are as after one update more.
LEMMA UpdateMade ==
  ASSUME Inv, pc # "new", calls' = calls, Made' = Made + 1,
         NEW idx, NEW value, calls[Made + 1].idx = idx, calls[Made + 1].value = value,
         \A i \in Leaf : GetValue(0, i)' = IF i = idx THEN value ELSE GetValue(0, i)
  PROVE  LeavesInv'
<1>1. PICK n \in Nat : n = Made
  BY DEF Inv, QueueInv
<1>2. ASSUME NEW i \in Leaf PROVE LastIs(i, n + 1, GetValue(0, i)')
  <2>1. PICK old : old = GetValue(0, i)
    OBVIOUS
  <2>2. PICK new : new = GetValue(0, i)'
    OBVIOUS
  <2>3. LastIs(i, n, old)
    BY <1>1, <2>1 DEF Inv, LeavesInv
  <2>4. new = IF calls[n + 1].idx = i THEN calls[n + 1].value ELSE old
    BY <1>1, <2>1, <2>2
  <2> QED BY <2>2, <2>3, <2>4, LastIsNext
<1>3. ASSUME NEW i \in Leaf PROVE LastIs(i, Made, GetValue(0, i))'
  <2>1. PICK new : new = GetValue(0, i)'
    OBVIOUS
  <2>2. LastIs(i, n + 1, new)
    BY <1>2, <2>1
  <2>3. LastIs(i, n + 1, new)'
    BY <2>2 DEF LastIs
  <2>4. Made' = n + 1
    BY <1>1
  <2> QED BY <2>1, <2>3, <2>4 DEF LastIs
<1> QED BY <1>3 DEF LeavesInv

\* The leaves and the queue stay as they are.
LEMMA LeavesSame ==
  ASSUME Inv, pc # "new", UNCHANGED <<calls, todo, chunk>>,
         \A i \in Leaf : GetValue(0, i)' = GetValue(0, i)
  PROVE  LeavesInv' /\ QueueInv'
<1>1. Made' = Made
  BY DEF Made
<1>2. QueueInv'
  BY <1>1 DEF Inv, QueueInv
<1>3. ASSUME NEW i \in Leaf PROVE LastIs(i, Made, GetValue(0, i))'
  <2>0. PICK value : value = GetValue(0, i)
    OBVIOUS
  <2>1. PICK n \in Nat : n = Made /\ value = GetValue(0, i)
    BY <2>0 DEF Inv, QueueInv
  <2>2. LastIs(i, n, value)
    BY <2>1 DEF Inv, LeavesInv
  <2>3. LastIs(i, n, value)'
    BY <2>2 DEF LastIs
  <2>4. GetValue(0, i)' = value /\ Made' = n
    BY <1>1, <2>1
  <2> QED BY <2>3, <2>4 DEF LastIs
<1> QED BY <1>2, <1>3 DEF LeavesInv

\* An update is taken from the call, by set_value.
LEMMA PopTodo ==
  ASSUME Inv, pc = "next", todo' = Tail(todo), UNCHANGED <<calls, chunk>>
  PROVE  /\ QueueInv' /\ Made' = Made + 1
         /\ Head(todo) \in Update /\ calls[Made + 1] = Head(todo)
         /\ todo' \in Seq(Update)
         /\ Len(todo) = 1 => todo' = <<>>
         /\ Len(todo) # 1 => todo' # <<>>
<1>1. todo \in Seq(Update) /\ todo # <<>> /\ chunk = <<>> /\ calls \in Seq(Update)
  BY DEF Inv, TypeOK, StageInv
<1>2. PICK n \in Nat, m \in Nat, k \in Nat :
        n = Len(todo) /\ m = Len(calls) /\ k = Made /\ n > 0
  <2>1. Len(todo) \in Nat /\ Len(calls) \in Nat /\ Len(todo) > 0
    BY <1>1
  <2> QED BY <2>1 DEF Inv, QueueInv
<1>3. Len(chunk) = 0 /\ k = m - n
  BY <1>1, <1>2 DEF Made
<1>4. /\ todo' \in Seq(Update) /\ Len(todo') = n - 1 /\ Head(todo) = todo[1]
      /\ \A i \in 1 .. n - 1 : todo'[i] = todo[i + 1]
      /\ \A i \in 1 .. n : todo[i] \in Update
  BY <1>1, <1>2
<1>5. \A i \in 1 .. n : todo[i] = calls[k + i]
  <2>1. \A i \in 1 .. n : todo[i] = calls[k + 0 + i]
    BY <1>2, <1>3 DEF Inv, QueueInv
  <2>2. \A i \in 1 .. n : k + 0 + i = k + i
    BY <1>2
  <2> QED BY <2>1, <2>2
<1>6. Made' = k + 1
  BY <1>1, <1>2, <1>3, <1>4 DEF Made
<1>7. Head(todo) \in Update /\ calls[k + 1] = Head(todo)
  <2>1. 1 \in 1 .. n
    BY <1>2
  <2> QED BY <1>4, <1>5, <2>1
<1>8. QueueInv'
  <2>1. \A i \in 1 .. n - 1 : todo'[i] = calls[(k + 1) + 0 + i]
    <3> SUFFICES ASSUME NEW i \in 1 .. n - 1
                 PROVE  todo'[i] = calls[(k + 1) + 0 + i]
      OBVIOUS
    <3>1. i + 1 \in 1 .. n /\ k + (i + 1) = (k + 1) + 0 + i
      BY <1>2
    <3> QED BY <1>4, <1>5, <3>1
  <2>2. k + 1 \in Nat
    BY <1>2
  <2>3. chunk' = <<>> /\ Len(chunk') = 0 /\ calls' = calls
    BY <1>1
  <2> QED BY <1>4, <1>6, <2>1, <2>2, <2>3 DEF QueueInv
<1>9. (n = 1 => todo' = <<>>) /\ (n # 1 => todo' # <<>>)
  <2>1. n - 1 = 0 <=> n = 1
    BY <1>2
  <2>2. ASSUME NEW rest \in Seq(Update) PROVE rest = <<>> <=> Len(rest) = 0
    OBVIOUS
  <2> QED BY <1>4, <2>1, <2>2
<1> QED BY <1>2, <1>4, <1>6, <1>7, <1>8, <1>9

\* An update is taken from the chunk.
LEMMA PopChunk ==
  ASSUME Inv, chunk # <<>>, chunk' = Tail(chunk), UNCHANGED <<calls, todo>>
  PROVE  /\ QueueInv' /\ ChunkInv' /\ Made' = Made + 1
         /\ 1 \in DOMAIN chunk /\ Head(chunk) = chunk[1]
         /\ calls[Made + 1].idx = Head(chunk).idx
         /\ calls[Made + 1].value = Head(chunk).value
         /\ \A k \in DOMAIN chunk' : \E i \in DOMAIN chunk : chunk'[k] = chunk[i]
<1>1. PICK S : chunk \in Seq(S)
  BY DEF Inv, ChunkInv, IsSeq
<1>2. todo \in Seq(Update) /\ calls \in Seq(Update)
  BY DEF Inv, TypeOK
<1>3. PICK n \in Nat, m \in Nat, t \in Nat, k \in Nat :
        /\ n = Len(chunk) /\ m = Len(calls) /\ t = Len(todo) /\ k = Made /\ n > 0
        /\ DOMAIN chunk = 1 .. n
  <2>1. Len(todo) \in Nat /\ Len(calls) \in Nat
    BY <1>2
  <2>2. Len(chunk) \in Nat /\ Len(chunk) > 0 /\ DOMAIN chunk = 1 .. Len(chunk)
    BY <1>1
  <2> QED BY <2>1, <2>2 DEF Inv, QueueInv
<1>4. k = m - t - n
  BY <1>3 DEF Made
<1>5. /\ chunk' \in Seq(S) /\ Len(chunk') = n - 1 /\ DOMAIN chunk' = 1 .. n - 1
      /\ Head(chunk) = chunk[1]
      /\ \A i \in 1 .. n - 1 : chunk'[i] = chunk[i + 1]
  BY <1>1, <1>3
<1>6. /\ \A i \in 1 .. n : /\ chunk[i].idx = calls[k + i].idx
                           /\ chunk[i].value = calls[k + i].value
      /\ \A i \in 1 .. t : todo[i] = calls[k + n + i]
  BY <1>3 DEF Inv, QueueInv
<1>7. Made' = k + 1
  BY <1>2, <1>3, <1>4, <1>5 DEF Made
<1>8. \A i \in 1 .. n - 1 : i + 1 \in 1 .. n /\ k + (i + 1) = (k + 1) + i
  BY <1>3
<1>9. 1 \in 1 .. n
  BY <1>3
<1>10. QueueInv'
  <2>1. \A i \in 1 .. n - 1 : /\ chunk'[i].idx = calls[(k + 1) + i].idx
                              /\ chunk'[i].value = calls[(k + 1) + i].value
    BY <1>5, <1>6, <1>8
  <2>2. \A i \in 1 .. t : todo[i] = calls[(k + 1) + (n - 1) + i]
    <3>1. \A i \in 1 .. t : k + n + i = (k + 1) + (n - 1) + i
      BY <1>3
    <3> QED BY <1>6, <3>1
  <2>3. k + 1 \in Nat
    BY <1>3
  <2> QED BY <1>3, <1>5, <1>7, <2>1, <2>2, <2>3 DEF QueueInv
<1>11. \A i \in DOMAIN chunk' : i + 1 \in DOMAIN chunk /\ chunk'[i] = chunk[i + 1]
  BY <1>3, <1>5, <1>8
<1>12. ChunkInv'
  <2>1. IsSeq(chunk)'
    BY <1>5 DEF IsSeq
  <2>2. \A i \in DOMAIN chunk' : IsEntry(chunk'[i])
    BY <1>11 DEF Inv, ChunkInv
  <2> QED BY <2>1, <2>2 DEF ChunkInv
<1> QED BY <1>3, <1>5, <1>6, <1>7, <1>9, <1>10, <1>11, <1>12


-----------------------------------------------------------------------------
(* The invariant, action by action. *)

LEMMA InitInv == Init => Inv
<1> SUFFICES ASSUME Init PROVE Inv
  OBVIOUS
<1>1. /\ default_nodes = <<Default>> /\ data = <<>> /\ pc = "new" /\ todo = <<>>
      /\ chunk = <<>> /\ job = NoJob /\ calls = <<>> /\ parallel = 1
  BY DEF Init
<1>2. /\ 0 \in Leaf /\ 0 \in Indices(0) /\ 0 \in 0 .. Height
  <2>1. 0 \in 0 .. Height /\ 0 \in Leaf
    <3>1. Height \in Nat /\ Height \in 0 .. Height + 1
      BY TreeAssumption
    <3>2. Pow2(Height) \in Nat \ {0}
      BY <3>1, TreeAssumption
    <3> QED BY <3>1, <3>2 DEF Leaf
  <2> QED BY <2>1, Leaves
<1>3. <<>> \in Seq(Update) /\ Len(<<>>) = 0 /\ DOMAIN <<>> = {}
  OBVIOUS
<1>4. Len(default_nodes) = 1 /\ default_nodes \in Seq({Default}) /\ default_nodes[1] = Default
  BY <1>1
<1>5. TypeOK
  <2>1. 1 \in 1 .. Height + 1 /\ 0 \in 0 .. Height
    BY TreeAssumption
  <2>2. DOMAIN data \subseteq 0 .. Pow2(Height + 1) - 2
    BY <1>1
  <2>3. job.idx \in Leaf /\ job.level \in 0 .. Height /\ job.cur \in Indices(job.level)
    BY <1>1, <1>2 DEF NoJob
  <2> QED BY <1>1, <1>3, <1>4, <2>1, <2>2, <2>3 DEF TypeOK, Pcs
<1>6. DefaultsInv
  <2>1. 1 <= Height /\ \A l \in 1 .. Height : ~ (l < 1)
    BY TreeAssumption
  <2> QED BY <1>1, <1>4, <2>1 DEF DefaultsInv, IsSeq
<1>7. StageInv
  BY <1>1 DEF StageInv
<1>8. ChunkInv
  BY <1>1, <1>3 DEF ChunkInv, IsSeq
<1>9. JobInv
  BY <1>1, <1>2, <1>3, AncZero DEF JobInv, NoJob, IsCache, IsSeq
<1>10. QueueInv
  BY <1>1, <1>3 DEF QueueInv, Made
<1> QED BY <1>1, <1>5, <1>6, <1>7, <1>8, <1>9, <1>10 DEF Inv, LeavesInv, NodesInv

LEMMA NewLevelInv == Inv /\ NewLevel => Inv'
<1> SUFFICES ASSUME Inv, NewLevel PROVE Inv'
  OBVIOUS
<1>1. PICK hash : default_nodes' = Append(default_nodes, hash)
                  /\ hash = Hash(default_nodes[Len(default_nodes)],
                                 default_nodes[Len(default_nodes)])
  BY DEF NewLevel
<1>2. /\ pc = "new" /\ pc' = IF Len(default_nodes) = Height THEN "idle" ELSE "new"
      /\ UNCHANGED <<data, todo, chunk, job, calls, parallel>>
  BY DEF NewLevel
<1>3. /\ todo = <<>> /\ chunk = <<>> /\ calls = <<>> /\ data = <<>>
      /\ todo' = <<>> /\ chunk' = <<>> /\ calls' = <<>> /\ data' = <<>>
  BY <1>2 DEF Inv, DefaultsInv, StageInv
<1>4. PICK n \in 1 .. Height : n = Len(default_nodes) /\ n \in Nat
  <2>1. Len(default_nodes) \in 1 .. Height + 1 /\ Len(default_nodes) <= Height
    BY <1>2 DEF Inv, TypeOK, DefaultsInv
  <2> QED BY <2>1, TreeAssumption
<1>5. PICK S : default_nodes \in Seq(S)
  BY DEF Inv, DefaultsInv, IsSeq
<1>6. /\ default_nodes' \in Seq(S \cup {hash}) /\ Len(default_nodes') = n + 1
      /\ \A l \in 1 .. n : default_nodes'[l] = default_nodes[l]
      /\ default_nodes'[n + 1] = hash
  <2>1. default_nodes \in Seq(S \cup {hash}) /\ hash \in S \cup {hash}
    BY <1>5
  <2> QED BY <1>1, <1>4, <2>1
<1>7. default_nodes'[1] = Default
  <2>1. 1 \in 1 .. n
    BY <1>4
  <2> QED BY <1>6, <2>1 DEF Inv, DefaultsInv
<1>8. ASSUME NEW l \in 1 .. Height, l < n + 1
      PROVE  default_nodes'[l + 1] = Hash(default_nodes'[l], default_nodes'[l])
  <2>1. l \in 1 .. n /\ (l = n \/ (l < n /\ l + 1 \in 1 .. n))
    BY <1>4, <1>8
  <2>2. CASE l = n
    BY <1>1, <1>4, <1>6, <2>1, <2>2
  <2>3. CASE l < n /\ l + 1 \in 1 .. n
    <3>1. default_nodes[l + 1] = Hash(default_nodes[l], default_nodes[l])
      BY <1>4, <2>3 DEF Inv, DefaultsInv
    <3> QED BY <1>6, <2>1, <2>3, <3>1
  <2> QED BY <2>1, <2>2, <2>3
<1>9. pc' = "new" => n + 1 <= Height
  BY <1>2, <1>4, TreeAssumption
<1>10. DefaultsInv'
  <2>1. IsSeq(default_nodes)'
    BY <1>6 DEF IsSeq
  <2> QED BY <1>3, <1>6, <1>7, <1>8, <1>9, <2>1 DEF DefaultsInv
<1>11. TypeOK'
  <2>1. n + 1 \in 1 .. Height + 1
    BY <1>4, TreeAssumption
  <2>2. pc' # "new" => n + 1 = Height + 1
    BY <1>2, <1>4
  <2>3. pc' \in {"new", "idle"}
    BY <1>2
  <2> QED BY <1>2, <1>3, <1>6, <2>1, <2>2, <2>3 DEF Inv, TypeOK, Pcs
<1>12. StageInv'
  BY <1>2, <1>3 DEF Inv, StageInv
<1>13. ChunkInv'
  BY <1>2 DEF Inv, ChunkInv
<1>14. JobInv'
  <2>1. pc' # "apply"
    BY <1>2
  <2> QED BY <1>2, <2>1 DEF Inv, JobInv
<1>15. Made' = 0 /\ QueueInv'
  <2>1. Len(<<>>) = 0
    OBVIOUS
  <2>2. Len(calls') = 0 /\ Len(todo') = 0 /\ Len(chunk') = 0 /\ 0 - 0 - 0 = 0
    BY <1>3, <2>1
  <2>3. Made' = 0
    BY ONLY <2>2 DEF Made
  <2> QED BY <1>3, <2>1, <2>3 DEF QueueInv
<1>16. ASSUME pc' # "new", NEW l \in 0 .. Height, NEW i
       PROVE  GetValue(l, i)' = default_nodes'[l + 1]
  <2>1. DOMAIN data' = {}
    BY <1>3
  <2> QED BY <2>1 DEF GetValue
<1>17. LeavesInv'
  <2> SUFFICES ASSUME pc' # "new", NEW idx \in Leaf
               PROVE  LastIs(idx, Made, GetValue(0, idx))'
    BY DEF LeavesInv
  <2>1. GetValue(0, idx)' = Default
    <3>1. 0 \in 0 .. Height /\ 0 + 1 = 1
      BY TreeAssumption
    <3> QED BY <1>7, <1>16, <3>1
  <2> QED BY <1>15, <2>1 DEF LastIs
<1>18. NodesInv'
  <2> SUFFICES ASSUME pc' # "new", NEW l \in 0 .. Height - 1, NEW q \in Indices(l + 1)
               PROVE  HashesChildren(l, q)'
    BY DEF NodesInv
  <2>1. n = Height
    BY <1>2, <1>4
  <2>2. /\ l \in 0 .. Height /\ l + 1 \in 0 .. Height /\ l + 1 \in 1 .. Height /\ l + 1 < n + 1
    BY <2>1, TreeAssumption
  <2>3. default_nodes'[l + 1 + 1] = Hash(default_nodes'[l + 1], default_nodes'[l + 1])
    BY <1>8, <2>2
  <2> QED BY <1>16, <2>2, <2>3 DEF HashesChildren
<1> QED BY <1>10, <1>11, <1>12, <1>13, <1>14, <1>15, <1>17, <1>18 DEF Inv

\* The loops that only move updates around leave the tree alone.
LEMMA TreeSame ==
  ASSUME Inv, UNCHANGED <<default_nodes, data, job>>, pc # "new", pc' # "new",
         Updating = Updating'
  PROVE  /\ DefaultsInv' /\ NodesInv'
         /\ DOMAIN data' \subseteq 0 .. Pow2(Height + 1) - 2
         /\ Len(default_nodes') = Height + 1
         /\ job'.idx \in Leaf /\ job'.level \in 0 .. Height /\ job'.cur \in Indices(job'.level)
<1>1. \A l, i : GetValue(l, i)' = GetValue(l, i)
  BY NothingWritten
<1>2. NodesInv'
  <2> SUFFICES ASSUME NEW l \in 0 .. Height - 1, NEW q \in Indices(l + 1)
               PROVE  HashesChildren(l, q)'
                      \/ (Updating' /\ l >= job'.level /\ q = Anc(job'.idx, l + 1))
    BY DEF NodesInv
  <2>1. HashesChildren(l, q) \/ (Updating /\ l >= job.level /\ q = Anc(job.idx, l + 1))
    BY DEF Inv, NodesInv
  <2>2. HashesChildren(l, q) => HashesChildren(l, q)'
    BY <1>1 DEF HashesChildren
  <2> QED BY <2>1, <2>2
<1> QED BY <1>2 DEF Inv, TypeOK, DefaultsInv

LEMMA SetValueParallelInv ==
  ASSUME Inv, NEW updates \in Calls, NEW p \in Parallels, SetValueParallel(updates, p)
  PROVE  Inv'
<1>1. /\ pc = "idle" /\ updates # <<>>
      /\ todo' = updates /\ calls' = calls \o updates
      /\ parallel' = IF p = 0 THEN 8 ELSE p
      /\ pc' \in {"next", "chunk"}
      /\ default_nodes' = default_nodes /\ data' = data /\ chunk' = chunk /\ job' = job
  BY DEF SetValueParallel
<1>2. updates \in Seq(Update)
  <2>1. PICK n \in 1 .. MaxUpdates : updates \in [1 .. n -> Update]
    BY DEF Calls
  <2>2. n \in Nat
    BY TreeAssumption
  <2> QED BY <2>1, <2>2
<1>3. todo = <<>> /\ chunk = <<>> /\ calls \in Seq(Update)
  BY <1>1 DEF Inv, TypeOK, StageInv
<1>4. PICK n \in Nat, m \in Nat : n = Len(updates) /\ m = Len(calls)
  <2>1. Len(updates) \in Nat /\ Len(calls) \in Nat
    BY <1>2, <1>3
  <2> QED BY <2>1
<1>5. /\ calls' \in Seq(Update) /\ Len(calls') = m + n
      /\ \A i \in 1 .. m : calls'[i] = calls[i]
      /\ \A i \in 1 .. n : calls'[m + i] = updates[i]
  BY <1>1, <1>2, <1>3, <1>4
<1>6. Made = m /\ Made' = m
  <2>1. Len(<<>>) = 0
    OBVIOUS
  <2> QED BY <1>1, <1>3, <1>4, <1>5, <2>1 DEF Made
<1>7. QueueInv'
  <2>1. chunk' = <<>> /\ Len(chunk') = 0
    BY <1>1, <1>3
  <2>2. \A i \in 1 .. n : m + 0 + i = m + i
    BY <1>4
  <2> QED BY <1>1, <1>4, <1>5, <1>6, <2>1, <2>2 DEF QueueInv
<1>8. LeavesInv'
  <2> SUFFICES ASSUME NEW idx \in Leaf PROVE LastIs(idx, Made, GetValue(0, idx))'
    BY DEF LeavesInv
  <2>1. PICK value : value = GetValue(0, idx)
    OBVIOUS
  <2>2. LastIs(idx, m, value)
    BY <1>1, <1>6, <2>1 DEF Inv, LeavesInv
  <2>3. LastIs(idx, m, value)'
    BY <1>5, <2>2, LastIsSame
  <2>4. GetValue(0, idx)' = value
    BY <1>1, <2>1, NothingWritten
  <2> QED BY <1>6, <2>3, <2>4 DEF LastIs
<1>9. /\ DefaultsInv' /\ NodesInv'
      /\ DOMAIN data' \subseteq 0 .. Pow2(Height + 1) - 2
      /\ Len(default_nodes') = Height + 1
      /\ job'.idx \in Leaf /\ job'.level \in 0 .. Height /\ job'.cur \in Indices(job'.level)
  BY <1>1, TreeSame DEF Updating
<1>10. parallel' \in Nat /\ parallel' > 0
  <2>1. p \in Nat
    BY TreeAssumption
  <2> QED BY <1>1, <2>1
<1>11. TypeOK'
  <2>1. Height + 1 \in 1 .. Height + 1
    BY TreeAssumption
  <2>2. DOMAIN chunk' = {}
    BY <1>1, <1>3
  <2> QED BY <1>1, <1>2, <1>5, <1>9, <1>10, <2>1, <2>2 DEF TypeOK, Pcs
<1>12. StageInv' /\ ChunkInv'
  BY <1>1, <1>3, <1>10 DEF Inv, StageInv, ChunkInv
<1>13. JobInv'
  BY <1>1 DEF Inv, JobInv
<1> QED BY <1>7, <1>8, <1>9, <1>11, <1>12, <1>13 DEF Inv

\* The path of the leaf being updated does not change.
PathSame == \A idx \in Leaf : idx = job'.idx => PathElements(idx)' = PathElements(idx)

LEMMA SetUnchangedInv == Inv /\ SetUnchanged => Inv'
<1> SUFFICES ASSUME Inv, SetUnchanged PROVE Inv'
  OBVIOUS
<1>1. /\ pc = "next" /\ GetValue(0, Head(todo).idx) = Head(todo).value
      /\ todo' = Tail(todo) /\ pc' = IF Len(todo) = 1 THEN "idle" ELSE "next"
      /\ default_nodes' = default_nodes /\ data' = data /\ chunk' = chunk /\ job' = job
      /\ calls' = calls /\ parallel' = parallel
  BY DEF SetUnchanged
<1>2. /\ QueueInv' /\ Made' = Made + 1
      /\ Head(todo) \in Update /\ calls[Made + 1] = Head(todo)
      /\ todo' \in Seq(Update)
      /\ Len(todo) = 1 => todo' = <<>>
      /\ Len(todo) # 1 => todo' # <<>>
  BY <1>1, PopTodo
<1>3. chunk = <<>>
  BY <1>1 DEF Inv, StageInv
<1>4. LeavesInv'
  <2>1. \A i \in Leaf : GetValue(0, i)' = IF i = Head(todo).idx THEN Head(todo).value
                                          ELSE GetValue(0, i)
    BY <1>1, NothingWritten
  <2> QED BY <1>1, <1>2, <2>1, UpdateMade
<1>5. /\ DefaultsInv' /\ NodesInv'
      /\ DOMAIN data' \subseteq 0 .. Pow2(Height + 1) - 2
      /\ Len(default_nodes') = Height + 1
      /\ job'.idx \in Leaf /\ job'.level \in 0 .. Height /\ job'.cur \in Indices(job'.level)
  BY <1>1, TreeSame DEF Updating
<1>6. TypeOK'
  <2>1. Height + 1 \in 1 .. Height + 1
    BY TreeAssumption
  <2>2. DOMAIN chunk' = {}
    BY <1>1, <1>3
  <2>3. calls' \in Seq(Update) /\ parallel' \in Nat
    BY <1>1 DEF Inv, TypeOK
  <2> QED BY <1>1, <1>2, <1>5, <2>1, <2>2, <2>3 DEF TypeOK, Pcs
<1>7. StageInv' /\ ChunkInv' /\ JobInv'
  BY <1>1, <1>2 DEF Inv, StageInv, ChunkInv, JobInv
<1> QED BY <1>2, <1>4, <1>5, <1>6, <1>7 DEF Inv

\* A new update starts at the leaf.
LEMMA NewJobOK ==
  ASSUME NEW update, NEW cache, job' = NewJob(update, cache),
         update.idx \in Leaf, IsCache(cache), pc' = "apply" => Len(cache) = Height
  PROVE  /\ JobInv'
         /\ job'.idx = update.idx /\ job'.level = 0
         /\ job'.idx \in Leaf /\ job'.level \in 0 .. Height /\ job'.cur \in Indices(job'.level)
         /\ job'.level < Height
<1>1. PICK idx \in Leaf : idx = update.idx
  OBVIOUS
<1>2. PICK miss : miss = (cache = <<>>)
  OBVIOUS
<1>3. job' = [idx |-> idx, cur |-> idx, level |-> 0, cache |-> cache, miss |-> miss]
  BY <1>1, <1>2, Zenon DEF NewJob
<1>4. /\ job'.idx = idx /\ job'.cur = idx /\ job'.level = 0 /\ job'.cache = cache
      /\ job'.miss = miss
  BY ONLY <1>3
<1>5. 0 \in 0 .. Height /\ 0 < Height /\ idx \in Indices(0) /\ Anc(idx, 0) = idx
  BY TreeAssumption, Leaves, AncZero
<1>6. job' = [idx |-> job'.idx, cur |-> job'.cur, level |-> job'.level,
              cache |-> job'.cache, miss |-> job'.miss]
  BY ONLY <1>3, <1>4
<1>7. JobInv'
  BY <1>4, <1>5, <1>6 DEF JobInv
<1> QED BY <1>1, <1>4, <1>5, <1>7

LEMMA SetLeafInv ==
  Inv /\ SetLeaf => Inv' /\ PathSame
<1> SUFFICES ASSUME Inv, SetLeaf
             PROVE  Inv' /\ PathSame
  OBVIOUS
<1>1. /\ pc = "next" /\ Insert(Head(todo).idx, Head(todo).value)
      /\ job' = NewJob(Head(todo), <<>>)
      /\ todo' = Tail(todo) /\ pc' = "set"
      /\ default_nodes' = default_nodes /\ chunk' = chunk
      /\ calls' = calls /\ parallel' = parallel
  BY DEF SetLeaf
<1>2. /\ QueueInv' /\ Made' = Made + 1
      /\ Head(todo) \in Update /\ calls[Made + 1] = Head(todo)
      /\ todo' \in Seq(Update)
  BY <1>1, PopTodo
<1>3. chunk = <<>>
  BY <1>1 DEF Inv, StageInv
<1>4. PICK idx \in Leaf : idx = Head(todo).idx
  BY <1>2, TreeAssumption DEF Update, Leaf
<1>5. PICK value : value = Head(todo).value
  OBVIOUS
<1>6. /\ JobInv' /\ job'.idx = idx /\ job'.level = 0
      /\ job'.idx \in Leaf /\ job'.level \in 0 .. Height /\ job'.cur \in Indices(job'.level)
      /\ job'.level < Height
  <2>1. IsCache(<<>>)
    <3>1. <<>> \in Seq({}) /\ DOMAIN <<>> = {}
      OBVIOUS
    <3> QED BY <3>1 DEF IsCache, IsSeq
  <2>2. pc' # "apply"
    BY <1>1
  <2> QED BY <1>1, <1>4, <2>1, <2>2, NewJobOK
<1>7. /\ NodesInv'
      /\ DOMAIN data' \subseteq 0 .. Pow2(Height + 1) - 2
      /\ \A i \in Leaf : GetValue(0, i)' = IF i = idx THEN value ELSE GetValue(0, i)
      /\ PathElements(idx)' = PathElements(idx)
  BY <1>1, <1>4, <1>5, <1>6, LeafWritten
<1>8. LeavesInv'
  BY <1>1, <1>2, <1>4, <1>5, <1>7, UpdateMade
<1>9. DefaultsInv'
  BY <1>1 DEF Inv, DefaultsInv
<1>10. TypeOK'
  <2>1. Len(default_nodes') \in 1 .. Height + 1 /\ Len(default_nodes') = Height + 1
    BY <1>1 DEF Inv, TypeOK
  <2>2. DOMAIN chunk' = {}
    BY <1>1, <1>3
  <2>3. calls' \in Seq(Update) /\ parallel' \in Nat
    BY <1>1 DEF Inv, TypeOK
  <2> QED BY <1>1, <1>2, <1>6, <1>7, <2>1, <2>2, <2>3 DEF TypeOK, Pcs
<1>11. StageInv' /\ ChunkInv'
  BY <1>1, <1>3 DEF Inv, StageInv, ChunkInv
<1>12. PathSame
  BY <1>6, <1>7 DEF PathSame
<1> QED BY <1>2, <1>6, <1>7, <1>8, <1>9, <1>10, <1>11, <1>12 DEF Inv

\* The loop over the levels of an update goes on; cache and miss are the code's business.
LEMMA LevelDone ==
  ASSUME Inv, Updating, NEW value, NEW miss,
         value = Hash(GetValue(job.level, 2 * ParentIdx(job.cur)),
                      GetValue(job.level, 2 * ParentIdx(job.cur) + 1)),
         Insert(Flattened(job.level + 1, ParentIdx(job.cur)), value),
         job' = [idx |-> job.idx, cur |-> ParentIdx(job.cur), level |-> job.level + 1,
                 cache |-> job.cache, miss |-> miss],
         NEW mode, \/ pc = "set" /\ mode = "next"
                   \/ pc = "apply" /\ mode = "chunk",
         pc' = IF job.level + 1 = Height THEN AfterJob(mode) ELSE pc,
         UNCHANGED <<default_nodes, todo, chunk, calls, parallel>>
  PROVE  Inv' /\ PathSame
<1>1. PICK level \in 0 .. Height :
        level = job.level /\ level < Height /\ level \in Nat /\ level + 1 \in 0 .. Height
  <2>1. job.level \in 0 .. Height /\ job.level < Height
    BY DEF Inv, TypeOK, Updating
  <2> QED BY <2>1, TreeAssumption
<1>2. /\ job'.idx = job.idx /\ job'.cur = ParentIdx(job.cur) /\ job'.level = level + 1
      /\ job'.cache = job.cache /\ job'.miss = miss
  BY <1>1
<1>3. level + 1 < Height => Updating'
  BY <1>1, TreeAssumption DEF Updating
<1>4. /\ NodesInv'
      /\ DOMAIN data' \subseteq 0 .. Pow2(Height + 1) - 2
      /\ \A i \in Leaf : GetValue(0, i)' = GetValue(0, i)
      /\ PathElements(job.idx)' = PathElements(job.idx)
      /\ ParentIdx(job.cur) = Anc(job.idx, job.level + 1)
      /\ ParentIdx(job.cur) \in Indices(job.level + 1)
      /\ job.level + 1 \in 0 .. Height
  BY <1>1, <1>2, <1>3, LevelWritten
<1>5. LeavesInv' /\ QueueInv'
  BY <1>4, LeavesSame DEF Updating
<1>6. /\ pc \in {"set", "apply"}
      /\ pc = "set" => mode = "next" /\ chunk = <<>>
      /\ pc = "apply" => mode = "chunk"
  BY DEF Inv, StageInv
<1>7. /\ pc' \in {"prepare", "next", "chunk", "idle", "set", "apply"}
      /\ pc' \in {"set", "apply"} => level + 1 # Height /\ pc' = pc
      /\ pc' = "prepare" => chunk # <<>>
      /\ pc' \in {"next", "chunk"} => todo # <<>>
      /\ pc' = "idle" => todo = <<>>
      /\ pc' \notin {"prepare", "apply"} => chunk = <<>>
  BY <1>1, <1>6 DEF AfterJob
<1>8. TypeOK'
  <2>1. /\ Len(default_nodes') \in 1 .. Height + 1 /\ Len(default_nodes') = Height + 1
        /\ calls' \in Seq(Update) /\ todo' \in Seq(Update) /\ parallel' \in Nat
    BY DEF Inv, TypeOK, Updating
  <2>2. \A k \in DOMAIN chunk' :
          /\ chunk'[k].idx \in Leaf /\ chunk'[k].value \in Values
          /\ chunk'[k].cur \in Indices(Len(chunk'[k].cache))
    BY DEF Inv, TypeOK
  <2>3. job'.idx \in Leaf /\ job'.level \in 0 .. Height /\ job'.cur \in Indices(job'.level)
    BY <1>1, <1>2, <1>4 DEF Inv, TypeOK
  <2>4. pc' \in {"set", "apply"} => job'.level < Height
    BY <1>1, <1>2, <1>7, TreeAssumption
  <2>5. pc' \in Pcs /\ (pc' \in {"next", "chunk"} => todo' # <<>>)
        /\ (pc' = "prepare" => chunk' # <<>>)
    BY <1>7 DEF Pcs
  <2> QED BY <1>4, <2>1, <2>2, <2>3, <2>4, <2>5 DEF TypeOK
<1>9. DefaultsInv'
  BY <1>7 DEF Inv, DefaultsInv
<1>10. StageInv'
  BY <1>7 DEF Inv, StageInv
<1>11. ChunkInv'
  BY DEF Inv, ChunkInv
<1>12. JobInv'
  <2>1. job' = [idx |-> job'.idx, cur |-> job'.cur, level |-> job'.level,
                cache |-> job'.cache, miss |-> job'.miss]
    BY <1>1, <1>2
  <2>2. job'.cur = Anc(job'.idx, job'.level)
    BY <1>1, <1>2, <1>4
  <2>3. IsCache(job'.cache) /\ (pc' = "apply" => Len(job'.cache) = Height)
    BY <1>2, <1>7 DEF Inv, JobInv
  <2> QED BY <2>1, <2>2, <2>3 DEF JobInv
<1>13. PathSame
  BY <1>2, <1>4 DEF PathSame
<1> QED BY <1>4, <1>5, <1>8, <1>9, <1>10, <1>11, <1>12, <1>13 DEF Inv

LEMMA RecalculateParentInv ==
  Inv /\ RecalculateParent => Inv' /\ PathSame
<1> SUFFICES ASSUME Inv, RecalculateParent
             PROVE  Inv' /\ PathSame
  OBVIOUS
<1>0. PICK parent : parent = ParentIdx(job.cur) /\ parent \in Nat
  <2>1. job.level \in 0 .. Height /\ job.level < Height /\ job.cur \in Indices(job.level)
    BY DEF Inv, TypeOK, RecalculateParent
  <2> QED BY <2>1, Family
<1>1. /\ pc = "set"
      /\ Insert(Flattened(job.level + 1, parent),
                Hash(GetValue(job.level, parent * 2), GetValue(job.level, parent * 2 + 1)))
      /\ job' = [job EXCEPT !.cur = parent, !.level = @ + 1]
      /\ pc' = IF job.level + 1 = Height THEN AfterJob("next") ELSE "set"
      /\ UNCHANGED <<default_nodes, todo, chunk, calls, parallel>>
  BY <1>0 DEF RecalculateParent
<1>2. PICK idx, cur, level, cache, miss :
        job = [idx |-> idx, cur |-> cur, level |-> level, cache |-> cache, miss |-> miss]
  BY DEF Inv, JobInv
<1>3. /\ job.idx = idx /\ job.cur = cur /\ job.level = level /\ job.cache = cache
      /\ job.miss = miss
  BY ONLY <1>2
<1>4. job' = [idx |-> idx, cur |-> parent, level |-> level + 1, cache |-> cache, miss |-> miss]
  BY ONLY <1>1, <1>2
<1>5. parent * 2 = 2 * parent
  BY <1>0
<1>6. PICK value :
        value = Hash(GetValue(job.level, 2 * parent), GetValue(job.level, 2 * parent + 1))
  OBVIOUS
<1>7. Insert(Flattened(job.level + 1, parent), value)
  BY <1>1, <1>5, <1>6
<1>8. Updating
  BY <1>1 DEF Updating
<1>9. job' = [idx |-> job.idx, cur |-> ParentIdx(job.cur), level |-> job.level + 1,
              cache |-> job.cache, miss |-> miss]
  BY <1>0, <1>3, <1>4
<1> QED BY <1>0, <1>1, <1>6, <1>7, <1>8, <1>9, LevelDone

\* Updates move from the call to the chunk; none is made.
LEMMA MovedOnly ==
  ASSUME Inv, pc # "new", UNCHANGED <<default_nodes, data, calls>>, Made' = Made
  PROVE  LeavesInv'
<1> SUFFICES ASSUME NEW i \in Leaf PROVE LastIs(i, Made, GetValue(0, i))'
  BY DEF LeavesInv
<1>1. PICK value : value = GetValue(0, i)
  OBVIOUS
<1>2. PICK n \in Nat : n = Made
  BY DEF Inv, QueueInv
<1>3. LastIs(i, n, value)
  BY <1>1, <1>2 DEF Inv, LeavesInv
<1>4. LastIs(i, n, value)'
  BY <1>3 DEF LastIs
<1>5. GetValue(0, i)' = value /\ Made' = n
  BY <1>1, <1>2, NothingWritten
<1> QED BY <1>4, <1>5 DEF LastIs

LEMMA TakeChunkInv == Inv /\ TakeChunk => Inv'
<1> SUFFICES ASSUME Inv, TakeChunk PROVE Inv'
  OBVIOUS
<1>1. /\ pc = "chunk" /\ todo # <<>> /\ chunk = <<>> /\ Len(chunk) = 0
      /\ todo \in Seq(Update) /\ calls \in Seq(Update)
  <2>1. Len(<<>>) = 0
    OBVIOUS
  <2> QED BY <2>1 DEF TakeChunk, Inv, TypeOK, StageInv
<1>2. PICK n \in Nat, m \in Nat, made \in Nat :
        n = Len(todo) /\ m = Len(calls) /\ made = Made /\ n > 0
  <2>1. Len(todo) \in Nat /\ Len(calls) \in Nat /\ Len(todo) > 0
    BY <1>1
  <2> QED BY <2>1 DEF Inv, QueueInv
<1>3. PICK c \in 1 .. n : c = ChunkSize /\ c \in Nat
  <2>1. parallel \in Nat /\ parallel > 0
    BY DEF Inv, TypeOK, StageInv
  <2>2. ChunkSize = IF n < parallel THEN n ELSE parallel
    BY <1>2 DEF ChunkSize
  <2>3. ChunkSize \in 1 .. n /\ ChunkSize \in Nat
    BY <1>2, <2>1, <2>2
  <2> QED BY <2>3
<1>4. /\ chunk' = [k \in 1 .. c |->
                     [idx |-> todo[k].idx, value |-> todo[k].value,
                      cur |-> todo[k].idx, top |-> todo[k].value, cache |-> <<>>]]
      /\ todo' = SubSeq(todo, c + 1, n)
      /\ pc' = "prepare"
      /\ UNCHANGED <<default_nodes, data, job, calls, parallel>>
  <2>1. c # 0
    OBVIOUS
  <2> QED BY <1>2, <1>3, <2>1 DEF TakeChunk
<1>5. /\ todo' \in Seq(Update) /\ Len(todo') = n - c
      /\ \A i \in 1 .. n - c : todo'[i] = todo[c + i]
  <2>1. c + 1 \in 1 .. n + 1 /\ n \in 0 .. n
    BY <1>2, <1>3
  <2>2. todo' \in Seq(Update) /\ Len(todo') = n - c
    BY <1>1, <1>2, <1>3, <1>4, <2>1, SubSeqProperties
  <2>3. \A i \in 1 .. n - c : todo'[i] = todo[c + i]
    BY <1>1, <1>2, <1>3, <1>4, <2>1
  <2> QED BY <2>2, <2>3
<1>6. \A k \in 1 .. c : todo[k] \in Update /\ todo[k].idx \in Leaf /\ todo[k].value \in Values
                        /\ todo[k].idx \in Written
  <2>1. \A k \in 1 .. c : k \in 1 .. n
    BY <1>2, <1>3
  <2>2. \A k \in 1 .. n : todo[k] \in Update
    BY <1>1, <1>2
  <2> QED BY <2>1, <2>2, TreeAssumption DEF Update, Leaf
<1>7. chunk' \in Seq({chunk'[k] : k \in 1 .. c}) /\ Len(chunk') = c /\ DOMAIN chunk' = 1 .. c
  <2> DEFINE S == {chunk'[k] : k \in 1 .. c}
  <2>1. DOMAIN chunk' = 1 .. c /\ chunk' = [k \in 1 .. c |-> chunk'[k]]
    BY <1>4
  <2>2. chunk' \in [1 .. c -> S]
    BY <2>1
  <2> HIDE DEF S
  <2>3. chunk' \in Seq(S) /\ Len(chunk') = c
    BY <1>3, <2>1, <2>2
  <2> QED BY <2>1, <2>3 DEF S
<1>8. ASSUME NEW k \in 1 .. c
      PROVE  /\ chunk'[k] = [idx |-> todo[k].idx, value |-> todo[k].value,
                             cur |-> todo[k].idx, top |-> todo[k].value, cache |-> <<>>]
             /\ chunk'[k].idx = todo[k].idx /\ chunk'[k].value = todo[k].value
             /\ chunk'[k].cur = todo[k].idx /\ chunk'[k].cache = <<>>
             /\ Len(chunk'[k].cache) = 0
  <2>1. chunk'[k] = [idx |-> todo[k].idx, value |-> todo[k].value,
                     cur |-> todo[k].idx, top |-> todo[k].value, cache |-> <<>>]
    BY <1>4
  <2>2. Len(<<>>) = 0
    OBVIOUS
  <2> QED BY <2>1, <2>2
<1>9. Made' = made
  <2>1. m - (n - c) - c = m - n - 0
    BY <1>2, <1>3
  <2> QED BY <1>1, <1>2, <1>4, <1>5, <1>7, <2>1 DEF Made
<1>10. \A i \in 1 .. n : todo[i] = calls[made + i]
  <2>1. \A i \in 1 .. n : todo[i] = calls[made + 0 + i]
    BY <1>1, <1>2 DEF Inv, QueueInv
  <2>2. \A i \in 1 .. n : made + 0 + i = made + i
    BY <1>2
  <2> QED BY <2>1, <2>2
<1>11. QueueInv'
  <2>1. \A k \in 1 .. c : chunk'[k].idx = calls[made + k].idx
                          /\ chunk'[k].value = calls[made + k].value
    <3>1. \A k \in 1 .. c : k \in 1 .. n
      BY <1>2, <1>3
    <3> QED BY <1>8, <1>10, <3>1
  <2>2. \A k \in 1 .. n - c : todo'[k] = calls[made + c + k]
    <3> SUFFICES ASSUME NEW k \in 1 .. n - c PROVE todo'[k] = calls[made + c + k]
      OBVIOUS
    <3>1. c + k \in 1 .. n /\ made + (c + k) = made + c + k
      BY <1>2, <1>3
    <3> QED BY <1>5, <1>10, <3>1
  <2> QED BY <1>2, <1>4, <1>5, <1>7, <1>9, <2>1, <2>2 DEF QueueInv
<1>12. ChunkInv'
  <2>1. IsCache(<<>>) /\ Len(<<>>) \in 0 .. Height
    <3>1. <<>> \in Seq({}) /\ DOMAIN <<>> = {} /\ Len(<<>>) = 0
      OBVIOUS
    <3> QED BY <3>1, TreeAssumption DEF IsCache, IsSeq
  <2>2. ASSUME NEW k \in 1 .. c PROVE IsEntry(chunk'[k])
    <3>1. PICK entry : entry = chunk'[k]
      OBVIOUS
    <3>2. entry = [idx |-> todo[k].idx, value |-> todo[k].value,
                   cur |-> todo[k].idx, top |-> todo[k].value, cache |-> <<>>]
      BY <1>8, <3>1
    <3>3. /\ entry = [idx |-> entry.idx, value |-> entry.value, cur |-> entry.cur,
                      top |-> entry.top, cache |-> entry.cache]
          /\ entry.cache = <<>> /\ entry.idx = todo[k].idx
      BY ONLY <3>2
    <3>4. IsEntry(entry)
      BY <1>6, <2>1, <3>3 DEF IsEntry
    <3> QED BY <3>1, <3>4
  <2>3. IsSeq(chunk)'
    BY <1>7 DEF IsSeq
  <2> QED BY <1>7, <2>2, <2>3 DEF ChunkInv
<1>13. /\ DefaultsInv' /\ NodesInv'
       /\ DOMAIN data' \subseteq 0 .. Pow2(Height + 1) - 2
       /\ Len(default_nodes') = Height + 1
       /\ job'.idx \in Leaf /\ job'.level \in 0 .. Height /\ job'.cur \in Indices(job'.level)
  BY <1>1, <1>4, TreeSame DEF Updating
<1>14. TypeOK'
  <2>1. Height + 1 \in 1 .. Height + 1
    BY TreeAssumption
  <2>2. \A k \in DOMAIN chunk' :
          /\ chunk'[k].idx \in Leaf /\ chunk'[k].value \in Values
          /\ chunk'[k].cur \in Indices(Len(chunk'[k].cache))
    BY <1>6, <1>7, <1>8, Leaves
  <2>3. calls' \in Seq(Update) /\ parallel' \in Nat
    BY <1>1, <1>4 DEF Inv, TypeOK
  <2>4. chunk' # <<>>
    <3>1. Len(<<>>) = 0
      OBVIOUS
    <3> QED BY <1>3, <1>7, <3>1
  <2> QED BY <1>4, <1>5, <1>13, <2>1, <2>2, <2>3, <2>4 DEF TypeOK, Pcs
<1>15. StageInv' /\ JobInv'
  BY <1>4 DEF Inv, StageInv, JobInv
<1>16. LeavesInv'
  BY <1>1, <1>2, <1>4, <1>9, MovedOnly
<1> QED BY <1>11, <1>12, <1>13, <1>14, <1>15, <1>16 DEF Inv

LEMMA PrepareLevelInv ==
  ASSUME Inv, NEW k \in DOMAIN chunk, PrepareLevel(k)
  PROVE  Inv'
<1>1. PICK S : chunk \in Seq(S)
  BY DEF Inv, ChunkInv, IsSeq
<1>2. PICK n \in Nat : n = Len(chunk) /\ DOMAIN chunk = 1 .. n
  <2>1. Len(chunk) \in Nat /\ DOMAIN chunk = 1 .. Len(chunk)
    BY <1>1
  <2> QED BY <2>1
<1>3. PICK idx, value, cur, top, cache :
        /\ chunk[k] = [idx |-> idx, value |-> value, cur |-> cur, top |-> top, cache |-> cache]
        /\ idx \in Written /\ IsCache(cache) /\ Len(cache) \in 0 .. Height
        /\ idx \in Leaf /\ value \in Values /\ cur \in Indices(Len(cache))
  <2>1. IsEntry(chunk[k])
    BY DEF Inv, ChunkInv
  <2>2. chunk[k].idx \in Leaf /\ chunk[k].value \in Values
        /\ chunk[k].cur \in Indices(Len(chunk[k].cache))
    BY DEF Inv, TypeOK
  <2> QED BY <2>1, <2>2 DEF IsEntry
<1>4. /\ chunk[k].idx = idx /\ chunk[k].value = value /\ chunk[k].cur = cur
      /\ chunk[k].top = top /\ chunk[k].cache = cache
  BY ONLY <1>3
<1>5. PICK level \in 0 .. Height : level = Len(cache) /\ level < Height /\ level \in Nat
  <2>1. Len(cache) # Height
    BY <1>4 DEF PrepareLevel, Prepared
  <2> QED BY <1>3, <2>1, TreeAssumption
<1>6. PICK pair : pair = PairWith(level, cur, top)
  OBVIOUS
<1>7. PICK item : item = [inputs |-> pair, result |-> HashOf(pair)]
  OBVIOUS
<1>8. PICK parent, hash : parent = ParentIdx(cur) /\ hash = HashOf(pair)
  OBVIOUS
<1>9. PICK longer : longer = Append(cache, item)
  OBVIOUS
<1>10. /\ pc = "prepare" /\ UNCHANGED <<default_nodes, data, pc, todo, job, calls, parallel>>
  BY DEF PrepareLevel
<1>11. chunk' = [chunk EXCEPT ![k].cache = longer, ![k].cur = parent, ![k].top = hash]
  BY <1>4, <1>5, <1>6, <1>7, <1>8, <1>9 DEF PrepareLevel
<1>12. chunk' = [chunk EXCEPT ![k] = [idx |-> idx, value |-> value, cur |-> parent,
                                      top |-> hash, cache |-> longer]]
  <2>1. k \in DOMAIN chunk /\ chunk = [i \in DOMAIN chunk |-> chunk[i]]
    BY <1>1
  <2>2. PICK first : first = [chunk EXCEPT ![k].cache = longer]
    OBVIOUS
  <2>3. PICK second : second = [first EXCEPT ![k].cur = parent]
    OBVIOUS
  <2>4. chunk' = [second EXCEPT ![k].top = hash]
    BY ONLY <1>11, <2>2, <2>3
  <2>5. /\ first = [i \in DOMAIN chunk |-> IF i = k THEN first[k] ELSE chunk[i]]
        /\ first[k] = [idx |-> idx, value |-> value, cur |-> cur, top |-> top,
                       cache |-> longer]
    <3>1. chunk[k] = [idx |-> idx, value |-> value, cur |-> cur, top |-> top,
                      cache |-> cache]
      BY <1>3
    <3>2. PICK old, new : /\ old = chunk[k] /\ new = [old EXCEPT !.cache = longer]
      OBVIOUS
    <3>3. new = [idx |-> idx, value |-> value, cur |-> cur, top |-> top,
                 cache |-> longer]
      BY ONLY <3>1, <3>2
    <3>4. first = [i \in DOMAIN chunk |-> IF i = k THEN new ELSE chunk[i]]
      BY ONLY <2>1, <2>2, <3>2
    <3> QED BY ONLY <2>1, <3>3, <3>4
  <2>6. /\ second = [i \in DOMAIN chunk |-> IF i = k THEN second[k] ELSE chunk[i]]
        /\ second[k] = [idx |-> idx, value |-> value, cur |-> parent, top |-> top,
                        cache |-> longer]
    BY ONLY <2>1, <2>3, <2>5
  <2>7. /\ chunk' = [i \in DOMAIN chunk |-> IF i = k THEN chunk'[k] ELSE chunk[i]]
        /\ chunk'[k] = [idx |-> idx, value |-> value, cur |-> parent, top |-> hash,
                        cache |-> longer]
    BY ONLY <2>1, <2>4, <2>6
  <2> QED BY ONLY <2>1, <2>7
<1>13. PICK entry : entry = [idx |-> idx, value |-> value, cur |-> parent,
                             top |-> hash, cache |-> longer]
  OBVIOUS
<1>14. /\ entry.idx = idx /\ entry.value = value /\ entry.cur = parent /\ entry.cache = longer
       /\ entry = [idx |-> entry.idx, value |-> entry.value, cur |-> entry.cur,
                   top |-> entry.top, cache |-> entry.cache]
  BY ONLY <1>13
<1>15. /\ Len(chunk') = n /\ DOMAIN chunk' = 1 .. n /\ chunk' \in Seq(S \cup {entry})
       /\ chunk'[k] = entry /\ \A i \in 1 .. n : i # k => chunk'[i] = chunk[i]
  <2>1. chunk \in Seq(S \cup {entry}) /\ k \in 1 .. Len(chunk)
    BY <1>1, <1>2
  <2>2. chunk' = [chunk EXCEPT ![k] = entry]
    BY <1>12, <1>13
  <2> QED BY <1>2, <2>1, <2>2
<1>16. IsCache(longer) /\ Len(longer) = level + 1 /\ level + 1 \in 0 .. Height
  <2>1. PICK T : cache \in Seq(T)
    BY <1>3 DEF IsCache, IsSeq
  <2>2. /\ longer \in Seq(T \cup {item}) /\ Len(longer) = level + 1
        /\ DOMAIN longer = 1 .. level + 1 /\ longer[level + 1] = item
        /\ \A l \in 1 .. level : longer[l] = cache[l]
        /\ DOMAIN cache = 1 .. level
    <3>1. cache \in Seq(T \cup {item}) /\ item \in T \cup {item}
      BY <2>1
    <3> QED BY <1>5, <1>9, <3>1
  <2>3. \A l \in 1 .. level : cache[l].result = HashOf(cache[l].inputs)
    BY <1>3, <2>2 DEF IsCache
  <2>4. item.result = HashOf(item.inputs)
    BY <1>7
  <2>5. \A l \in 1 .. level + 1 : l \in 1 .. level \/ l = level + 1
    BY <1>5
  <2>6. \A l \in DOMAIN longer : longer[l].result = HashOf(longer[l].inputs)
    BY <2>2, <2>3, <2>4, <2>5
  <2>7. IsCache(longer)
    BY <2>2, <2>6 DEF IsCache, IsSeq
  <2>8. level + 1 \in 0 .. Height
    <3>1. Height \in Nat
      BY TreeAssumption
    <3> QED BY ONLY <1>5, <3>1
  <2> QED BY <2>2, <2>7, <2>8
<1>17. parent \in Indices(level + 1)
  BY <1>3, <1>5, <1>8, Family
<1>18. ChunkInv'
  <2>1. IsEntry(entry)
    BY <1>3, <1>14, <1>16 DEF IsEntry
  <2>2. \A i \in DOMAIN chunk' : IsEntry(chunk'[i])
    BY <1>2, <1>15, <2>1 DEF Inv, ChunkInv
  <2>3. IsSeq(chunk)'
    BY <1>15 DEF IsSeq
  <2> QED BY <2>2, <2>3 DEF ChunkInv
<1>19. /\ DefaultsInv' /\ NodesInv'
       /\ DOMAIN data' \subseteq 0 .. Pow2(Height + 1) - 2
       /\ Len(default_nodes') = Height + 1
       /\ job'.idx \in Leaf /\ job'.level \in 0 .. Height /\ job'.cur \in Indices(job'.level)
  BY <1>10, TreeSame DEF Updating
<1>20. TypeOK'
  <2>1. Height + 1 \in 1 .. Height + 1
    BY TreeAssumption
  <2>2. \A i \in DOMAIN chunk' :
          /\ chunk'[i].idx \in Leaf /\ chunk'[i].value \in Values
          /\ chunk'[i].cur \in Indices(Len(chunk'[i].cache))
    <3>1. \A i \in 1 .. n :
          /\ chunk[i].idx \in Leaf /\ chunk[i].value \in Values
          /\ chunk[i].cur \in Indices(Len(chunk[i].cache))
      BY <1>2 DEF Inv, TypeOK
    <3> QED BY <1>3, <1>14, <1>15, <1>16, <1>17, <3>1
  <2>3. /\ calls' \in Seq(Update) /\ todo' \in Seq(Update) /\ parallel' \in Nat
    BY <1>10 DEF Inv, TypeOK
  <2>4. chunk' # <<>>
    <3>1. DOMAIN <<>> = {} /\ k \in 1 .. n
      BY <1>2
    <3> QED BY <1>15, <3>1
  <2> QED BY <1>10, <1>19, <2>1, <2>2, <2>3, <2>4 DEF TypeOK, Pcs
<1>21. StageInv' /\ JobInv'
  BY <1>10 DEF Inv, StageInv, JobInv
<1>22. Made' = Made
  BY <1>2, <1>10, <1>15 DEF Made
<1>23. QueueInv'
  <2>1. \A i \in 1 .. n : chunk'[i].idx = chunk[i].idx /\ chunk'[i].value = chunk[i].value
    BY <1>4, <1>14, <1>15
  <2> QED BY <1>2, <1>10, <1>15, <1>22, <2>1 DEF Inv, QueueInv
<1>24. LeavesInv'
  BY <1>10, <1>22, MovedOnly
<1> QED BY <1>18, <1>19, <1>20, <1>21, <1>23, <1>24 DEF Inv

LEMMA ApplyLeafInv == Inv /\ ApplyLeaf => Inv' /\ PathSame
<1> SUFFICES ASSUME Inv, ApplyLeaf PROVE Inv' /\ PathSame
  OBVIOUS
<1>1. /\ pc = "prepare" /\ Insert(Head(chunk).idx, Head(chunk).value)
      /\ job' = NewJob(Head(chunk), Head(chunk).cache)
      /\ chunk' = Tail(chunk) /\ pc' = "apply"
      /\ default_nodes' = default_nodes /\ todo' = todo
      /\ calls' = calls /\ parallel' = parallel
  BY DEF ApplyLeaf
<1>2. chunk # <<>>
  BY <1>1 DEF Inv, TypeOK
<1>3. /\ QueueInv' /\ ChunkInv' /\ Made' = Made + 1
      /\ 1 \in DOMAIN chunk /\ Head(chunk) = chunk[1]
      /\ calls[Made + 1].idx = Head(chunk).idx
      /\ calls[Made + 1].value = Head(chunk).value
      /\ \A k \in DOMAIN chunk' : \E i \in DOMAIN chunk : chunk'[k] = chunk[i]
  BY <1>1, <1>2, PopChunk
<1>4. PICK entry : entry = Head(chunk)
  OBVIOUS
<1>5. IsCache(entry.cache) /\ Len(entry.cache) = Height
  <2>1. IsEntry(chunk[1]) /\ Prepared(1)
    BY <1>3 DEF Inv, ChunkInv, ApplyLeaf
  <2> QED BY <1>3, <1>4, <2>1 DEF IsEntry, Prepared
<1>6. PICK idx \in Leaf : idx = entry.idx
  BY <1>3, <1>4 DEF Inv, TypeOK
<1>7. PICK value : value = entry.value
  OBVIOUS
<1>8. /\ JobInv' /\ job'.idx = idx /\ job'.level = 0
      /\ job'.idx \in Leaf /\ job'.level \in 0 .. Height /\ job'.cur \in Indices(job'.level)
      /\ job'.level < Height
  BY <1>1, <1>4, <1>5, <1>6, NewJobOK
<1>9. /\ NodesInv'
      /\ DOMAIN data' \subseteq 0 .. Pow2(Height + 1) - 2
      /\ \A i \in Leaf : GetValue(0, i)' = IF i = idx THEN value ELSE GetValue(0, i)
      /\ PathElements(idx)' = PathElements(idx)
  BY <1>1, <1>4, <1>6, <1>7, <1>8, LeafWritten
<1>10. LeavesInv'
  BY <1>1, <1>3, <1>4, <1>6, <1>7, <1>9, UpdateMade
<1>11. DefaultsInv'
  BY <1>1 DEF Inv, DefaultsInv
<1>12. TypeOK'
  <2>1. Len(default_nodes') \in 1 .. Height + 1 /\ Len(default_nodes') = Height + 1
    BY <1>1 DEF Inv, TypeOK
  <2>2. \A k \in DOMAIN chunk' :
          /\ chunk'[k].idx \in Leaf /\ chunk'[k].value \in Values
          /\ chunk'[k].cur \in Indices(Len(chunk'[k].cache))
    <3> SUFFICES ASSUME NEW k \in DOMAIN chunk'
                 PROVE  /\ chunk'[k].idx \in Leaf /\ chunk'[k].value \in Values
                        /\ chunk'[k].cur \in Indices(Len(chunk'[k].cache))
      OBVIOUS
    <3>1. PICK i \in DOMAIN chunk : chunk'[k] = chunk[i]
      BY <1>3
    <3>2. /\ chunk[i].idx \in Leaf /\ chunk[i].value \in Values
          /\ chunk[i].cur \in Indices(Len(chunk[i].cache))
      BY DEF Inv, TypeOK
    <3> QED BY <3>1, <3>2
  <2>3. /\ calls' \in Seq(Update) /\ todo' \in Seq(Update) /\ parallel' \in Nat
    BY <1>1 DEF Inv, TypeOK
  <2> QED BY <1>1, <1>8, <1>9, <2>1, <2>2, <2>3 DEF TypeOK, Pcs
<1>13. StageInv'
  BY <1>1 DEF Inv, StageInv
<1>14. PathSame
  BY <1>8, <1>9 DEF PathSame
<1> QED BY <1>3, <1>8, <1>9, <1>10, <1>11, <1>12, <1>13, <1>14 DEF Inv

\* The node set_value_apply_diff writes is the hash of its children, from the cache or not:
\* a cached hash is used when its inputs are the pair of the node, and the pair is the
\* children of the parent.
LEMMA ApplyLevelInv == Inv /\ ApplyLevel => Inv' /\ PathSame
<1> SUFFICES ASSUME Inv, ApplyLevel PROVE Inv' /\ PathSame
  OBVIOUS
<1>1. PICK value, next :
        /\ next = Miss
        /\ value = IF Miss THEN HashOf(Pair(job.level, job.cur))
                           ELSE job.cache[job.level + 1].result
  OBVIOUS
<1>2. /\ pc = "apply"
      /\ Insert(Flattened(job.level + 1, ParentIdx(job.cur)), value)
      /\ job' = [job EXCEPT !.cur = ParentIdx(@), !.level = @ + 1, !.miss = next]
      /\ pc' = IF job.level + 1 = Height THEN AfterJob("chunk") ELSE "apply"
      /\ UNCHANGED <<default_nodes, todo, chunk, calls, parallel>>
  BY <1>1 DEF ApplyLevel
<1>3. PICK idx, cur, level, cache, miss :
        job = [idx |-> idx, cur |-> cur, level |-> level, cache |-> cache, miss |-> miss]
  BY DEF Inv, JobInv
<1>4. /\ job.idx = idx /\ job.cur = cur /\ job.level = level /\ job.cache = cache
      /\ job.miss = miss
  BY ONLY <1>3
<1>5. PICK parent : parent = ParentIdx(cur)
  OBVIOUS
<1>6. job' = [idx |-> idx, cur |-> parent, level |-> level + 1, cache |-> cache, miss |-> next]
  BY ONLY <1>2, <1>3, <1>5
<1>7. job' = [idx |-> job.idx, cur |-> ParentIdx(job.cur), level |-> job.level + 1,
              cache |-> job.cache, miss |-> next]
  BY <1>4, <1>5, <1>6
<1>8. level \in 0 .. Height /\ level < Height /\ level \in Nat /\ cur \in Indices(level)
  BY <1>2, <1>4, TreeAssumption DEF Inv, TypeOK
<1>9. Pair(level, cur) = <<GetValue(level, 2 * parent), GetValue(level, 2 * parent + 1)>>
  <2>1. cur \in Nat
    BY <1>8, Family
  <2>2. CASE cur % 2 = 0
    <3>1. 2 * parent = cur
      BY <1>5, <2>1, <2>2 DEF ParentIdx
    <3> QED BY <2>2, <3>1 DEF Pair
  <2>3. CASE cur % 2 # 0
    <3>1. 2 * parent = cur - 1 /\ 2 * parent + 1 = cur
      BY <1>5, <2>1, <2>3 DEF ParentIdx
    <3> QED BY <2>3, <3>1 DEF Pair
  <2> QED BY <2>2, <2>3
<1>10. HashOf(Pair(level, cur)) =
         Hash(GetValue(level, 2 * parent), GetValue(level, 2 * parent + 1))
  BY <1>9 DEF HashOf
<1>11. value = HashOf(Pair(level, cur))
  <2>1. CASE Miss
    BY <1>1, <1>4, <2>1
  <2>2. CASE ~ Miss
    <3>1. value = cache[level + 1].result /\ cache[level + 1].inputs = Pair(level, cur)
      BY <1>1, <1>4, <2>2 DEF Miss
    <3>2. level + 1 \in DOMAIN cache
      <4>1. IsCache(cache) /\ Len(cache) = Height
        BY <1>2, <1>4 DEF Inv, JobInv
      <4>2. DOMAIN cache = 1 .. Len(cache)
        BY <4>1 DEF IsCache, IsSeq
      <4> QED BY <1>8, <4>1, <4>2, TreeAssumption
    <3>3. cache[level + 1].result = HashOf(cache[level + 1].inputs)
      BY <1>4, <3>2 DEF Inv, JobInv, IsCache
    <3> QED BY <3>1, <3>3
  <2> QED BY <2>1, <2>2
<1>12. value = Hash(GetValue(job.level, 2 * ParentIdx(job.cur)),
                    GetValue(job.level, 2 * ParentIdx(job.cur) + 1))
  BY <1>4, <1>5, <1>10, <1>11
<1>13. Updating
  BY <1>2 DEF Updating
<1> QED BY <1>2, <1>7, <1>12, <1>13, LevelDone

-----------------------------------------------------------------------------
(* The theorems. *)

LEMMA StepKeepsInv ==
  ASSUME Inv, [Next]_vars
  PROVE  Inv' /\ (data' = data \/ PathSame \/ ~ (Updating \/ Updating'))
<1>1. CASE NewLevel
  <2>1. ~ (Updating \/ Updating')
    BY <1>1 DEF NewLevel, Updating
  <2> QED BY <1>1, <2>1, NewLevelInv
<1>2. CASE \E updates \in Calls, p \in Parallels : SetValueParallel(updates, p)
  <2>1. PICK updates \in Calls, p \in Parallels : SetValueParallel(updates, p)
    BY <1>2
  <2>2. data' = data
    BY <2>1 DEF SetValueParallel
  <2> QED BY <2>1, <2>2, SetValueParallelInv
<1>3. CASE SetUnchanged
  BY <1>3, SetUnchangedInv DEF SetUnchanged
<1>4. CASE SetLeaf
  BY <1>4, SetLeafInv
<1>5. CASE RecalculateParent
  BY <1>5, RecalculateParentInv
<1>6. CASE TakeChunk
  BY <1>6, TakeChunkInv DEF TakeChunk
<1>7. CASE \E k \in DOMAIN chunk : PrepareLevel(k)
  <2>1. PICK k \in DOMAIN chunk : PrepareLevel(k)
    BY <1>7
  <2>2. data' = data
    BY <2>1 DEF PrepareLevel
  <2> QED BY <2>1, <2>2, PrepareLevelInv
<1>8. CASE ApplyLeaf
  BY <1>8, ApplyLeafInv
<1>9. CASE ApplyLevel
  BY <1>9, ApplyLevelInv
<1>10. CASE UNCHANGED vars
  <2>1. data' = data
    BY <1>10 DEF vars
  <2>2. Inv'
    BY <1>10 DEF vars, Inv, TypeOK, DefaultsInv, StageInv, ChunkInv, JobInv, QueueInv, Made,
                 LeavesInv, LastIs, NodesInv, HashesChildren, GetValue, Updating, IsSeq
  <2> QED BY <2>1, <2>2
<1> QED BY <1>1, <1>2, <1>3, <1>4, <1>5, <1>6, <1>7, <1>8, <1>9, <1>10 DEF Next

LEMMA InvAlways == Spec => []Inv
<1>1. Init => Inv
  BY InitInv
<1>2. Inv /\ [Next]_vars => Inv'
  BY StepKeepsInv
<1> QED BY <1>1, <1>2, PTL DEF Spec

\* Nodes are written within the tree and the loops stay within its height.
THEOREM TypeCorrect == Spec => []TypeOK
<1>1. Inv => TypeOK
  BY DEF Inv
<1> QED BY <1>1, InvAlways, PTL

\* Between calls every leaf has the value of its last update, as if set_value had been called
\* for each update in turn, whatever the chunk size, and however often a call updates a leaf.
THEOREM ParallelAsSequential == Spec => []UpdatesApplied
<1>1. ASSUME Inv PROVE UpdatesApplied
  <2> SUFFICES ASSUME pc = "idle", NEW idx \in Leaf PROVE GetValue(0, idx) = Expected(idx)
    BY DEF UpdatesApplied
  <2>1. todo = <<>> /\ chunk = <<>> /\ Len(<<>>) = 0 /\ calls \in Seq(Update)
    <3>1. Len(<<>>) = 0
      OBVIOUS
    <3> QED BY <1>1, <3>1 DEF Inv, StageInv, TypeOK
  <2>2. PICK n \in Nat : n = Len(calls) /\ DOMAIN calls = 1 .. n
    <3>1. Len(calls) \in Nat /\ DOMAIN calls = 1 .. Len(calls)
      BY <2>1
    <3> QED BY <3>1
  <2>3. Made = n
    BY <2>1, <2>2 DEF Made
  <2>4. PICK value : value = GetValue(0, idx)
    OBVIOUS
  <2>5. LastIs(idx, n, value)
    BY <1>1, <2>3, <2>4 DEF Inv, LeavesInv
  <2>6. CASE value = Default /\ \A i \in 1 .. n : calls[i].idx # idx
    <3>1. LastUpdates(idx) = {}
      BY <2>2, <2>6 DEF LastUpdates
    <3> QED BY <2>4, <2>6, <3>1 DEF Expected
  <2>7. CASE \E i \in 1 .. n : /\ calls[i].idx = idx /\ calls[i].value = value
                               /\ \A j \in i + 1 .. n : calls[j].idx # idx
    <3>1. PICK i \in 1 .. n : /\ calls[i].idx = idx /\ calls[i].value = value
                              /\ \A j \in i + 1 .. n : calls[j].idx # idx
      BY <2>7
    <3>2. i \in LastUpdates(idx) /\ LastUpdates(idx) # {} /\ LastUpdates(idx) \subseteq 1 .. n
      BY <2>2, <3>1 DEF LastUpdates
    <3>3. \A j \in LastUpdates(idx) : i >= j
      <4> SUFFICES ASSUME NEW j \in LastUpdates(idx) PROVE i >= j
        OBVIOUS
      <4>1. j \in 1 .. n /\ calls[j].idx = idx
        BY <2>2 DEF LastUpdates
      <4>2. j \notin i + 1 .. n
        BY <3>1, <4>1
      <4> QED BY <4>1, <4>2
    <3>4. Max(LastUpdates(idx)) = i
      <4>1. PICK S : S = LastUpdates(idx)
        OBVIOUS
      <4>2. \A j \in S : (\A k \in S : j >= k) => j = i
        BY <3>2, <3>3, <4>1
      <4>3. Max(S) = CHOOSE j \in S : \A k \in S : j >= k
        BY DEF Max
      <4> QED BY <3>2, <3>3, <4>1, <4>2, <4>3
    <3> QED BY <2>4, <3>1, <3>2, <3>4 DEF Expected
  <2> QED BY <2>5, <2>6, <2>7 DEF LastIs
<1> QED BY <1>1, InvAlways, PTL

\* Between calls the path of every leaf leads from its value to the root, so that every inner
\* node is the hash of its children, whichever stale hashes had been precalculated.
THEOREM ProofsOfLeaves == Spec => []ProofsVerify
<1>1. ASSUME Inv PROVE ProofsVerify
  <2> SUFFICES ASSUME pc = "idle", NEW idx \in Leaf
               PROVE  RootFrom(idx, GetValue(0, idx), PathElements(idx)) = Root
    BY DEF ProofsVerify
  <2>1. \A l \in 0 .. Height - 1 : \A q \in Indices(l + 1) : HashesChildren(l, q)
    BY <1>1 DEF Inv, NodesInv, Updating
  <2> QED BY <2>1, PathsLead
<1> QED BY <1>1, InvAlways, PTL

\* While a leaf is updated the siblings on its way to the root keep their values, so that a
\* path taken before the update also proves the new value against the new root.
THEOREM PathsStay == Spec => PathStable
<1>1. Inv /\ [Next]_vars =>
        [\A idx \in Leaf : (Updating \/ Updating') /\ idx = job'.idx
                             => PathElements(idx)' = PathElements(idx)]_vars
  <2> SUFFICES ASSUME Inv, [Next]_vars, NEW idx \in Leaf, Updating \/ Updating',
                      idx = job'.idx
               PROVE  PathElements(idx)' = PathElements(idx) \/ UNCHANGED vars
    OBVIOUS
  <2>1. CASE data' = data
    <3>1. default_nodes' = default_nodes \/ NewLevel
      BY DEF Next, vars, SetValueParallel, SetUnchanged, SetLeaf, RecalculateParent, TakeChunk,
             PrepareLevel, ApplyLeaf, ApplyLevel
    <3>2. ~ NewLevel
      BY DEF NewLevel, Updating
    <3> QED BY <2>1, <3>1, <3>2, NothingWritten
  <2>2. CASE PathSame
    BY <2>2 DEF PathSame
  <2> QED BY <2>1, <2>2, StepKeepsInv
<1> QED BY <1>1, InvAlways, PTL DEF Spec, PathStable

=============================================================================
