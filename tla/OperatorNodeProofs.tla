------------------------- MODULE OperatorNodeProofs -------------------------
(***************************************************************************)
(* Proofs about OperatorNode, for any block size, any dump interval and    *)
(* any number of messages, errors, timeouts and crashes, as long as        *)
(* retention deletes nothing (no step of the node is an Expire, logStart   *)
(* stays 0).                                                               *)
(*                                                                         *)
(* A root is some first transactions of the topic, each with an outcome it *)
(* may have (IsRoot): whatever was crashed, rewound or replayed, any two   *)
(* roots the node ever computes have the same transactions as far as both  *)
(* go, and differ there only in the outcomes of transfers to oneself. IInv *)
(* follows them through the pipeline: what is buffered leads from          *)
(* BufferRoot to the state (BufferInv), the blocks in hand and in the      *)
(* channel lead up to BufferRoot (PipelineInv), and the database ends      *)
(* where the channel begins, or is ahead of it while a restarted node      *)
(* forges its blocks again (BlocksInv).                                    *)
(*                                                                         *)
(* Two parts tie the runs of the node together.  A block starts, in        *)
(* whichever run it was forged, where the dump of its number says          *)
(* (StartsInv), so the blocks before and after a restart fit; and a block  *)
(* a dump is due after is handed on only with that dump complete (DueInv), *)
(* so a restarted node never begins before a block that is numbered from   *)
(* an older dump.  ChainLinked alone says none of this, and is not         *)
(* inductive.                                                              *)
(***************************************************************************)
EXTENDS OperatorNode, FiniteSetTheorems, SequenceTheorems, WellFoundedInduction, TLAPS

\* the loader's proofs, for the loader of the node
LP == INSTANCE MsgLoaderProofs WITH receiverUp <- pc \notin Ended

-----------------------------------------------------------------------------
(* The inductive invariant. *)

\* transactions that leave none out: some first ones of the topic
IsFirst(offsets) ==
  /\ offsets \in Seq(Loader!Offsets) /\ InOrder(offsets)
  /\ \A o \in Range(offsets) : IsTx(o)
  /\ \A i \in DOMAIN offsets : TxsUpTo(offsets[i]) \subseteq Range(offsets)

\* some first transactions with outcomes they may have
IsRoot(root) ==
  /\ root \in Roots /\ IsFirst(TxsOf(root))
  /\ \A i \in DOMAIN root : root[i].raised => IsSelf(root[i].tx)

\* the entries of a block, or of the buffer, between two roots
Fits(offsets, n, before, after) ==
  /\ IsRoot(before) /\ IsRoot(after)
  /\ Len(before) <= Len(after) /\ Len(after) <= Len(before) + n
  /\ \A i \in 1 .. Len(before) : after[i] = before[i]
  /\ \A i \in 1 .. n : offsets[i] = IF Len(before) + i <= Len(after)
                                    THEN after[Len(before) + i].tx ELSE Nop

GoodRow(row) ==
  /\ row \in Rows
  /\ Fits(row.txs, NTx, row.oldRoot, row.newRoot)
  /\ Len(row.oldRoot) < Len(row.newRoot)

BufferRoot == IF buffer = <<>> THEN applied ELSE buffer[1].before
BufferOffsets == [i \in 1 .. Len(buffer) |-> buffer[i].offset]

\* What the processor buffers is what it applied since the last block; only a full
\* buffer has Nops.
BufferInv ==
  /\ Fits(BufferOffsets, Len(buffer), BufferRoot, applied)
  /\ buffer # <<>> => buffer[Len(buffer)].after = applied
                      /\ Len(BufferRoot) < Len(applied)
  /\ Len(buffer) < NTx => Len(applied) = Len(BufferRoot) + Len(buffer)
  /\ \A i \in 1 .. Len(buffer) : buffer[i] \in Entries

\* the blocks between the database and the buffer
Queued(q, num, root) ==
  \A i \in 1 .. Len(q) :
    /\ GoodRow(q[i]) /\ q[i].id = num - Len(q) + i - 1
    /\ q[i].newRoot = IF i = Len(q) THEN root ELSE q[i + 1].oldRoot

ReadyNum  == blockNum - Len(ready)
ReadyRoot == IF ready = <<>> THEN BufferRoot ELSE ready[1].oldRoot
QueueNum  == ReadyNum - Len(blkq)
QueueRoot == IF blkq = <<>> THEN ReadyRoot ELSE blkq[1].oldRoot

PipelineInv ==
  /\ QueueNum \in Nat
  /\ Queued(ready, blockNum, BufferRoot)
  /\ Queued(blkq, ReadyNum, ReadyRoot)

Persisting == {"persist", "persist block", "persist kafka", "persist state"}

\* keys in the dump that is being written
Keys == CASE pc = "persist block" -> {}
          [] pc = "persist kafka" -> {"block"}
          [] OTHER -> {"block", "kafka"}

\* Where the processor is.
PcInv ==
  /\ Len(ready) <= 1 /\ Len(buffer) <= NTx
  /\ pc \in {"recv", "done"} => ready = <<>> /\ Len(buffer) < NTx
  /\ pc \in {"pop", "send"} /\ ready # <<>> => Len(buffer) < NTx
  /\ pc \in {"send", "not deterministic"} => ready # <<>>
  /\ pc \in Persisting => ready # <<>> /\ buffer = <<>> /\ DumpDue(blockNum)
  /\ pc = "persist" => blockNum \notin DOMAIN dumps
  /\ pc \in Persisting \ {"persist"} =>
       blockNum \in DOMAIN dumps /\ DOMAIN dumps[blockNum] = Keys
  /\ pc \in {"persist kafka", "persist state"} => dumps[blockNum].block = blockNum
  /\ pc = "persist state" => dumps[blockNum].kafka = applied[Len(applied)].tx
  /\ pc # "no kafka offset"

DumpOf(n) == n \in DOMAIN dumps /\ Complete(n)

DumpsInv ==
  \A n \in DOMAIN dumps :
    /\ n \in 1 .. blockNum /\ DumpDue(n)
    /\ ~Complete(n) => n = blockNum /\ pc \in Persisting
    /\ Complete(n) =>
         /\ DOMAIN dumps[n] = {"block", "kafka", "state"}
         /\ dumps[n].block = n /\ dumps[n].kafka \in Loader!Offsets
         /\ IsRoot(dumps[n].state) /\ MadeOf(dumps[n].state, dumps[n].kafka)
         /\ (\A m \in DOMAIN dumps : m <= n) => dumps[n].kafka \in Range(received)

\* A block starts, and one ends, where the dump says the block of that number does.
StartsAt(num, root) ==
  /\ num = 0 => root = <<>>
  /\ DumpOf(num) => root = dumps[num].state

RowStarts(row) == StartsAt(row.id, row.oldRoot) /\ StartsAt(row.id + 1, row.newRoot)

StartsInv ==
  /\ StartsAt(blockNum, BufferRoot)
  /\ \A i \in 1 .. Len(ready) : RowStarts(ready[i])
  /\ \A i \in 1 .. Len(blkq) : RowStarts(blkq[i])
  /\ \A id \in DOMAIN blocks : RowStarts(blocks[id])

\* Blocks that a dump is due after are handed on when it is complete.
DueInv ==
  /\ \A id \in DOMAIN blocks : DumpDue(id + 1) => DumpOf(id + 1)
  /\ \A num \in QueueNum .. blockNum - 1 :
       DumpDue(num + 1) => DumpOf(num + 1) \/ (num + 1 = blockNum /\ pc \in Persisting)

\* the block before is in the database, or before a dump
Follows(num) == num = 0 \/ num - 1 \in DOMAIN blocks \/ \E n \in DOMAIN dumps : num <= n

BlocksInv ==
  /\ DOMAIN blocks \subseteq Nat /\ IsFiniteSet(DOMAIN blocks)
  /\ \A id \in DOMAIN blocks :
       /\ GoodRow(blocks[id]) /\ blocks[id].id = id
       /\ id + 1 \in DOMAIN blocks => blocks[id + 1].oldRoot = blocks[id].newRoot
       /\ Follows(id)
  /\ Follows(QueueNum)
  /\ QueueNum - 1 \in DOMAIN blocks => blocks[QueueNum - 1].newRoot = QueueRoot
  /\ checkOld =>
       /\ blkq = <<>>
       /\ \A id \in DOMAIN blocks : id > QueueNum => id - 1 \in DOMAIN blocks
       /\ QueueNum \in DOMAIN blocks => blocks[QueueNum].oldRoot = QueueRoot
  /\ ~checkOld => \A id \in DOMAIN blocks : id < QueueNum

NodeInv ==
  /\ node \in {"up", "crashed", "exited"}
  /\ node = "exited" => blkq = <<>> /\ pc \in Ended
  /\ saving \in Rows \cup {NoBlock}
  /\ saving # NoBlock => saving.id \in DOMAIN blocks
  /\ tasks \in Seq(DOMAIN blocks)
  /\ blockNum \in Nat /\ checkOld \in BOOLEAN /\ pc \in Pcs
  /\ buffer \in Seq(Entries) /\ ready \in Seq(Rows) /\ blkq \in Seq(Rows)

IInv ==
  /\ LP!IInv /\ logStart = 0
  /\ AppliedExactlyOnce
  /\ NodeInv /\ BufferInv /\ PipelineInv /\ PcInv
  /\ DumpsInv /\ StartsInv /\ DueInv /\ BlocksInv
  /\ DivergenceExplained

-----------------------------------------------------------------------------
(* Natural numbers and roots. *)

\* A set of natural numbers has a least element.
LEMMA Least ==
  ASSUME NEW S \in SUBSET Nat, S # {}
  PROVE  \E m \in S : \A x \in S : m <= x
<1> DEFINE T == {0 .. i : i \in S}
           R == StrictSubsetOrdering(Nat)
<1>1. T \subseteq FiniteSubsetsOf(Nat) /\ T # {}
  <2>1. ASSUME NEW i \in S PROVE 0 .. i \in FiniteSubsetsOf(Nat)
    BY FS_Interval DEF FiniteSubsetsOf
  <2> QED BY <2>1
<1>2. \E x \in T : \A y \in T : ~ (<<y, x>> \in R)
  <2> HIDE DEF T, R
  <2> QED BY <1>1, FS_StrictSubsetOrderingWellFounded, WFMin DEF R
<1>3. PICK m \in S : \A i \in S : ~ (<<0 .. i, 0 .. m>> \in R)
  BY <1>2
<1>4. ASSUME NEW i \in S PROVE m <= i
  <2> SUFFICES ASSUME i < m PROVE FALSE
    OBVIOUS
  <2>1. (0 .. i) \subseteq (0 .. m) /\ m \in 0 .. m /\ m \notin 0 .. i
    OBVIOUS
  <2>2. <<0 .. i, 0 .. m>> \in R
    BY <2>1 DEF StrictSubsetOrdering
  <2> QED BY <2>2, <1>3
<1> QED BY <1>4

\* Of finitely many numbers one is the greatest.
LEMMA Greatest ==
  ASSUME NEW n \in Nat, NEW S \in SUBSET (0 .. n), S # {}
  PROVE  Max(S) \in S /\ \A x \in S : x <= Max(S)
<1> DEFINE T == {n - i : i \in S}
<1>1. T \in SUBSET Nat /\ T # {}
  <2>1. ASSUME NEW i \in S PROVE n - i \in Nat
    <3>1. i \in 0 .. n  OBVIOUS
    <3> QED BY <3>1
  <2>2. \A x \in T : x \in Nat  BY <2>1
  <2>3. T # {}  OBVIOUS
  <2> HIDE DEF T
  <2> QED BY <2>2, <2>3
<1>2. PICK k \in T : \A x \in T : k <= x
  <2> HIDE DEF T
  <2> QED BY <1>1, Least
<1>3. PICK m \in S : k = n - m  OBVIOUS
<1>4. ASSUME NEW i \in S PROVE m >= i
  <2>1. n - i \in T  OBVIOUS
  <2>2. k <= n - i  BY <1>2, <2>1
  <2> QED BY <1>3, <2>2
<1>5. Max(S) \in S /\ \A x \in S : Max(S) >= x  BY <1>4 DEF Max
<1> QED BY <1>5

\* Offsets are natural numbers.
LEMMA OffsetsType ==
  ASSUME NEW offsets \in Seq(Loader!Offsets)
  PROVE  /\ Len(offsets) \in Nat /\ DOMAIN offsets = 1 .. Len(offsets)
         /\ \A i \in 1 .. Len(offsets) : offsets[i] \in Loader!Offsets /\ offsets[i] \in Nat
<1>1. \A o \in Loader!Offsets : o \in Nat  BY DEF Loader!Offsets
<1> QED BY <1>1

\* The transactions of a root are offsets.
LEMMA RootType ==
  ASSUME NEW root \in Roots
  PROVE  /\ Len(root) \in Nat /\ DOMAIN root = 1 .. Len(root)
         /\ \A i \in 1 .. Len(root) :
              /\ root[i] \in AnyEffect
              /\ root[i].tx \in Loader!Offsets /\ root[i].tx \in Nat
         /\ TxsOf(root) \in Seq(Loader!Offsets) /\ Len(TxsOf(root)) = Len(root)
         /\ DOMAIN TxsOf(root) = 1 .. Len(root)
         /\ \A i \in 1 .. Len(root) : TxsOf(root)[i] = root[i].tx
<1>1. \A o \in Loader!Offsets : o \in Nat  BY DEF Loader!Offsets
<1>2. root \in Seq(AnyEffect)  BY DEF Roots
<1>3. /\ Len(root) \in Nat /\ DOMAIN root = 1 .. Len(root)
      /\ \A i \in 1 .. Len(root) : root[i] \in AnyEffect
  BY <1>2
<1>4. \A i \in 1 .. Len(root) : root[i].tx \in Loader!Offsets  BY <1>3 DEF AnyEffect
<1>5. TxsOf(root) = [i \in 1 .. Len(root) |-> root[i].tx]  BY <1>3 DEF TxsOf
<1>6. TxsOf(root) \in [1 .. Len(root) -> Loader!Offsets]  BY <1>4, <1>5
<1>7. TxsOf(root) \in Seq(Loader!Offsets) /\ Len(TxsOf(root)) = Len(root)
  BY <1>3, <1>6
<1> QED BY <1>1, <1>3, <1>4, <1>5, <1>7

\* Any two agree as far as both go.
LEMMA FirstAgree ==
  ASSUME NEW r, NEW t, IsFirst(r), IsFirst(t), Len(r) <= Len(t)
  PROVE  \A i \in 1 .. Len(r) : r[i] = t[i]
<1>1. r \in Seq(Loader!Offsets) /\ t \in Seq(Loader!Offsets)  BY DEF IsFirst
<1>2. /\ Len(r) \in Nat /\ DOMAIN r = 1 .. Len(r) /\ \A i \in 1 .. Len(r) : r[i] \in Nat
      /\ Len(t) \in Nat /\ DOMAIN t = 1 .. Len(t) /\ \A i \in 1 .. Len(t) : t[i] \in Nat
  BY <1>1, OffsetsType
<1> DEFINE Bad == {i \in 1 .. Len(r) : r[i] # t[i]}
<1> SUFFICES ASSUME Bad # {} PROVE FALSE  OBVIOUS
<1>3. PICK m \in Bad : \A i \in Bad : m <= i
  <2>1. Bad \in SUBSET Nat  BY <1>2
  <2> HIDE DEF Bad
  <2> QED BY <2>1, Least
<1>4. \A i \in 1 .. (m - 1) : r[i] = t[i]
  <2>1. ASSUME NEW i \in 1 .. (m - 1), r[i] # t[i] PROVE FALSE
    <3>1. i \in Bad  BY <1>2, <2>1
    <3> QED BY <1>2, <1>3, <3>1
  <2> QED BY <2>1
<1>5. m \in 1 .. Len(r) /\ m \in 1 .. Len(t) /\ r[m] # t[m]  BY <1>2
<1>6. ASSUME NEW a, NEW b, IsFirst(a), IsFirst(b), DOMAIN a = 1 .. Len(a),
             DOMAIN b = 1 .. Len(b), m \in 1 .. Len(a), m \in 1 .. Len(b),
             Len(a) \in Nat, Len(b) \in Nat,
             \A i \in 1 .. Len(a) : a[i] \in Nat, \A i \in 1 .. Len(b) : b[i] \in Nat,
             \A i \in 1 .. (m - 1) : a[i] = b[i], a[m] < b[m]
      PROVE  FALSE
  <2>1. a[m] \in Range(a) /\ a[m] \in Nat /\ b[m] \in Nat  BY <1>6 DEF Range
  <2>2. IsTx(a[m])  BY <1>6, <2>1 DEF IsFirst
  <2>a. a[m] \in 0 .. b[m]  BY <1>6, <2>1
  <2>3. a[m] \in TxsUpTo(b[m])  BY <2>a, <2>2 DEF TxsUpTo
  <2>4. a[m] \in Range(b)  BY <1>6, <2>3 DEF IsFirst
  <2>5. PICK k \in 1 .. Len(b) : b[k] = a[m]  BY <1>6, <2>4 DEF Range
  <2>6. k < m
    <3>1. CASE k = m  BY <1>6, <2>1, <2>5, <3>1
    <3>2. CASE k > m
      <4>1. b[m] < b[k]  BY <1>6, <2>5, <3>2 DEF IsFirst, InOrder
      <4> QED BY <1>6, <2>1, <2>5, <4>1
    <3> QED BY <3>1, <3>2, <1>6
  <2>7. k \in 1 .. (m - 1) /\ k \in 1 .. Len(a)  BY <1>6, <2>6
  <2>8. a[k] = a[m]  BY <1>6, <2>5, <2>7
  <2>9. a[k] < a[m]  BY <1>6, <2>6, <2>7 DEF IsFirst, InOrder
  <2> QED BY <2>1, <2>8, <2>9
<1>7. r[m] < t[m] \/ t[m] < r[m]  BY <1>2, <1>5
<1> HIDE DEF Bad
<1>8. CASE r[m] < t[m]  BY <1>2, <1>4, <1>5, <1>6, <1>8
<1>9. CASE t[m] < r[m]
  <2>1. \A i \in 1 .. (m - 1) : t[i] = r[i]  BY <1>4
  <2> QED BY <1>2, <2>1, <1>5, <1>6, <1>9
<1> QED BY <1>7, <1>8, <1>9

\* Two roots are made of the same transactions as far as both go.
LEMMA RootsAgree ==
  ASSUME NEW r, NEW t, IsRoot(r), IsRoot(t), Len(r) <= Len(t)
  PROVE  \A i \in 1 .. Len(r) : r[i].tx = t[i].tx
<1>1. /\ r \in Roots /\ t \in Roots /\ IsFirst(TxsOf(r)) /\ IsFirst(TxsOf(t))
  BY DEF IsRoot
<1>2. /\ Len(r) \in Nat /\ Len(TxsOf(r)) = Len(r)
      /\ \A i \in 1 .. Len(r) : TxsOf(r)[i] = r[i].tx
  BY <1>1, RootType
<1>3. /\ Len(t) \in Nat /\ Len(TxsOf(t)) = Len(t)
      /\ \A i \in 1 .. Len(t) : TxsOf(t)[i] = t[i].tx
  BY <1>1, RootType
<1>4. \A i \in 1 .. Len(r) : TxsOf(r)[i] = TxsOf(t)[i]  BY <1>1, <1>2, <1>3, FirstAgree
<1>5. \A i \in 1 .. Len(r) : i \in 1 .. Len(t)  BY <1>2, <1>3
<1> QED BY <1>2, <1>3, <1>4, <1>5

\* What is made of all transactions up to an offset is a root.
LEMMA MadeIsRoot ==
  ASSUME NEW root \in Roots, NEW offset \in Int, MadeOf(root, offset),
         \A i \in DOMAIN root : root[i].raised => IsSelf(root[i].tx)
  PROVE  IsRoot(root)
<1>0. PICK txs : txs = TxsOf(root)  OBVIOUS
<1>1. txs \in Seq(Loader!Offsets) /\ InOrder(txs) /\ Range(txs) = TxsUpTo(offset)
  BY <1>0, RootType DEF MadeOf
<1>2. \A o \in Range(txs) : IsTx(o)  BY <1>1 DEF TxsUpTo
<1>3. ASSUME NEW i \in DOMAIN txs, NEW o \in TxsUpTo(txs[i])
      PROVE  o \in Range(txs)
  <2>1. txs[i] \in Range(txs)  BY DEF Range
  <2>2. txs[i] \in 0 .. offset  BY <1>1, <2>1 DEF TxsUpTo
  <2>3. o \in 0 .. txs[i] /\ IsTx(o)  BY DEF TxsUpTo
  <2>4. o \in 0 .. offset  BY <2>2, <2>3
  <2> QED BY <1>1, <2>3, <2>4 DEF TxsUpTo
<1>4. IsFirst(txs)  BY <1>1, <1>2, <1>3 DEF IsFirst
<1> QED BY <1>0, <1>4 DEF IsRoot

\* A root is made of the transactions up to its last one.
LEMMA RootIsMade ==
  ASSUME NEW root, IsRoot(root), Len(root) > 0
  PROVE  MadeOf(root, root[Len(root)].tx) /\ root[Len(root)].tx \in Loader!Offsets
<1>0. PICK txs : txs = TxsOf(root)  OBVIOUS
<1>1. root \in Roots /\ IsFirst(txs)  BY <1>0 DEF IsRoot
<1>2. /\ Len(root) \in Nat /\ DOMAIN txs = 1 .. Len(root)
      /\ \A i \in 1 .. Len(root) : txs[i] \in Loader!Offsets /\ txs[i] \in Nat
      /\ \A i \in 1 .. Len(root) : txs[i] = root[i].tx
  BY <1>0, <1>1, RootType
<1>3. Len(root) \in 1 .. Len(root)  BY <1>2
<1>4. TxsUpTo(txs[Len(root)]) \subseteq Range(txs)  BY <1>1, <1>2, <1>3 DEF IsFirst
<1>5. ASSUME NEW o \in Range(txs)
      PROVE  o \in TxsUpTo(txs[Len(root)])
  <2>1. PICK i \in 1 .. Len(root) : o = txs[i]  BY <1>2, <1>5 DEF Range
  <2>2. i = Len(root) \/ txs[i] < txs[Len(root)]
    <3>1. InOrder(txs)  BY <1>1 DEF IsFirst
    <3>2. \A j, k \in 1 .. Len(root) : j < k => txs[j] < txs[k]  BY <1>2, <3>1 DEF InOrder
    <3>a. Len(root) \in Nat  BY <1>2
    <3>3. i \in Int /\ Len(root) \in Int /\ (i < Len(root) \/ i = Len(root))  BY <3>a
    <3> QED BY <1>3, <2>1, <3>2, <3>3
  <2>3. txs[i] \in Nat /\ txs[Len(root)] \in Nat  BY <1>2, <1>3, <2>1
  <2>4. o \in 0 .. txs[Len(root)]  BY <2>1, <2>2, <2>3
  <2> QED BY <1>1, <1>5, <2>4 DEF IsFirst, TxsUpTo
<1>6. MadeOf(root, txs[Len(root)])  BY <1>0, <1>1, <1>4, <1>5 DEF MadeOf, IsFirst
<1> QED BY <1>2, <1>3, <1>6

\* Nothing applied is a root.
LEMMA EmptyRoot == <<>> \in Roots /\ IsRoot(<<>>) /\ MadeOf(<<>>, -1)
<1>1. <<>> \in Roots /\ DOMAIN <<>> = {}  BY DEF Roots
<1>2. TxsOf(<<>>) = <<>>
  <2>1. TxsOf(<<>>) \in Seq(Loader!Offsets) /\ Len(TxsOf(<<>>)) = 0  BY <1>1, RootType
  <2> QED BY <2>1
<1>3. Range(<<>>) = {}  BY <1>1 DEF Range
<1>4. TxsUpTo(-1) = {}  BY DEF TxsUpTo
<1>5. IsFirst(<<>>)  BY <1>1, <1>3 DEF IsFirst, InOrder
<1> QED BY <1>1, <1>2, <1>3, <1>4, <1>5 DEF IsRoot, IsFirst, MadeOf

-----------------------------------------------------------------------------
(* The topic only grows: what was said of published offsets stays true. *)

Kept ==
  /\ Loader!Offsets \subseteq Loader!Offsets' /\ Roots \subseteq Roots'
  /\ Rows \subseteq Rows' /\ Entries \subseteq Entries'
  /\ \A o \in Loader!Offsets : IsSelf(o) => IsSelf(o)'
  /\ \A root : IsRoot(root) => IsRoot(root)'
  /\ \A root, offset : MadeOf(root, offset) /\ offset \in Loader!Offsets \cup {-1}
                         => MadeOf(root, offset)'
  /\ \A offsets, n, before, after :
       Fits(offsets, n, before, after) => Fits(offsets, n, before, after)'
  /\ \A row : GoodRow(row) => GoodRow(row)'

LEMMA TopicKept ==
  ASSUME topic \in Seq(Kinds), topic' = topic \/ \E kind \in Kinds : topic' = Append(topic, kind)
  PROVE  Kept
<1>1. /\ Len(topic) \in Nat /\ Len(topic') \in Nat /\ Len(topic) <= Len(topic')
      /\ \A i \in 1 .. Len(topic) : topic'[i] = topic[i]
  <2>1. CASE topic' = topic  BY <2>1
  <2>2. ASSUME NEW kind \in Kinds, topic' = Append(topic, kind)
        PROVE  <1>1!1 /\ <1>1!2
    BY <2>2
  <2> QED BY <2>1, <2>2
<1>2. Loader!Offsets \subseteq Loader!Offsets'  BY <1>1 DEF Loader!Offsets
<1>3. ASSUME NEW o \in Loader!Offsets
      PROVE  /\ IsTx(o)' <=> IsTx(o)
             /\ IsSelf(o)' <=> IsSelf(o)
             /\ TxsUpTo(o)' = TxsUpTo(o)
  <2>1. ASSUME NEW p \in 0 .. o PROVE (IsTx(p)' <=> IsTx(p)) /\ (IsSelf(p)' <=> IsSelf(p))
    <3>1. p + 1 \in 1 .. Len(topic)  BY <1>1 DEF Loader!Offsets
    <3> QED BY <1>1, <3>1 DEF IsTx, IsSelf
  <2>2. o \in 0 .. o  BY DEF Loader!Offsets
  <2> QED BY <2>1, <2>2 DEF TxsUpTo
<1>a. AnyEffect \subseteq AnyEffect'  BY <1>2 DEF AnyEffect
<1>4. Roots \subseteq Roots'  BY <1>a DEF Roots
<1>5. Rows \subseteq Rows' /\ Entries \subseteq Entries'  BY <1>2, <1>4 DEF Rows, Entries
<1>6. ASSUME NEW root, IsRoot(root)
      PROVE  IsRoot(root)'
  <2>0. PICK txs : txs = TxsOf(root)  OBVIOUS
  <2>1. root \in Roots /\ IsFirst(txs)  BY <1>6, <2>0 DEF IsRoot
  <2>2. /\ DOMAIN root = 1 .. Len(root) /\ DOMAIN txs = 1 .. Len(root)
        /\ \A i \in 1 .. Len(root) : txs[i] \in Loader!Offsets /\ root[i].tx \in Loader!Offsets
    BY <2>0, <2>1, RootType
  <2>3. \A o \in Range(txs) : o \in Loader!Offsets  BY <2>2 DEF Range
  <2>4. \A o \in Range(txs) : IsTx(o)'  BY <1>3, <2>1, <2>3 DEF IsFirst
  <2>5. \A i \in DOMAIN txs : TxsUpTo(txs[i])' \subseteq Range(txs)
    BY <1>3, <2>1, <2>2 DEF IsFirst
  <2>6. txs \in Seq(Loader!Offsets')  BY <1>2, <2>1 DEF IsFirst
  <2>7. IsFirst(txs)'  BY <2>1, <2>4, <2>5, <2>6 DEF IsFirst, InOrder
  <2>8. \A i \in DOMAIN root : root[i].raised => IsSelf(root[i].tx)'
    BY <1>3, <1>6, <2>2 DEF IsRoot
  <2>9. TxsOf(root)' = txs  BY <2>0 DEF TxsOf
  <2> QED BY <1>4, <2>1, <2>7, <2>8, <2>9 DEF IsRoot
<1>7. ASSUME NEW root, NEW offset, MadeOf(root, offset), offset \in Loader!Offsets \cup {-1}
      PROVE  MadeOf(root, offset)'
  <2>1. CASE offset \in Loader!Offsets  BY <1>3, <1>7, <2>1 DEF MadeOf, InOrder, TxsOf
  <2>2. CASE offset = -1
    <3>1. TxsUpTo(offset) = {} /\ TxsUpTo(offset)' = {}  BY <2>2 DEF TxsUpTo
    <3> QED BY <1>7, <3>1 DEF MadeOf, InOrder, TxsOf
  <2> QED BY <1>7, <2>1, <2>2
<1>8. ASSUME NEW offsets, NEW n, NEW before, NEW after, Fits(offsets, n, before, after)
      PROVE  Fits(offsets, n, before, after)'
  BY <1>6, <1>8 DEF Fits
<1>9. ASSUME NEW row, GoodRow(row)
      PROVE  GoodRow(row)'
  <2>1. Fits(row.txs, NTx, row.oldRoot, row.newRoot)'  BY <1>8, <1>9 DEF GoodRow
  <2> QED BY <1>5, <1>9, <2>1 DEF GoodRow
<1> QED BY <1>2, <1>3, <1>4, <1>5, <1>6, <1>7, <1>8, <1>9 DEF Kept

-----------------------------------------------------------------------------
(* The node's steps are steps of the loader. *)

LEMMA LoaderHolds == LP!LoaderAssumption
  BY NodeAssumption DEF LP!LoaderAssumption

LEMMA LoaderVars ==
  /\ UNCHANGED loaderVars => UNCHANGED LP!loaderVars
  /\ Loader!Offsets = LP!Offsets /\ Loader!NoOffset = -1 /\ LP!NoOffset = -1
  BY DEF LP!loaderVars, loaderVars, LP!threadVars, LP!faultVars, Loader!Offsets, LP!Offsets,
         Loader!NoOffset, LP!NoOffset

\* Every step of the loader keeps its invariant.
LEMMA LoaderNext == LP!IInv /\ [LP!Next]_(LP!vars) => LP!IInv'
  BY LP!NextInv, LoaderHolds

LEMMA LoaderInit == LP!Init => LP!IInv
  BY LP!InitInv, LoaderHolds

\* steps that leave the loader alone
LEMMA LoaderIdle ==
  ASSUME LP!IInv, UNCHANGED loaderVars, pc' \in Ended \/ pc \notin Ended
  PROVE  LP!IInv'
<1>1. UNCHANGED LP!loaderVars  BY LoaderVars
<1>2. CASE pc \notin Ended /\ pc' \in Ended
  <2>1. LP!DropReceiver  BY <1>1, <1>2 DEF LP!DropReceiver
  <2> QED BY <2>1, LoaderNext DEF LP!Next
<1>3. CASE (pc \in Ended) = (pc' \in Ended)
  <2>1. UNCHANGED LP!vars  BY <1>1, <1>3 DEF LP!vars
  <2> QED BY <2>1, LoaderNext
<1> QED BY <1>2, <1>3

\* messages published, looked at or skipped, and stream errors
LEMMA LoaderRuns ==
  ASSUME LP!IInv, UNCHANGED pc,
         \/ \E kind \in Kinds : Loader!Publish(kind)
         \/ Loader!OnMessage \/ Loader!StreamError \/ Loader!Shutdown
  PROVE  LP!IInv'
<1>1. UNCHANGED (pc \notin Ended)  OBVIOUS
<1>2. ASSUME NEW kind \in Kinds, Loader!Publish(kind) PROVE LP!IInv'
  <2>1. LP!Publish(kind)
    BY <1>2 DEF Loader!Publish, LP!Publish, Loader!threadVars, LP!threadVars,
                Loader!faultVars, LP!faultVars
  <2> QED BY <1>1, <2>1, LoaderNext DEF LP!Next
<1>3. CASE Loader!OnMessage
  <2>1. LP!OnMessage
    BY <1>3 DEF Loader!OnMessage, LP!OnMessage, Loader!Stored, LP!Stored, Loader!Consume,
                LP!Consume, Loader!SkipRewound, LP!SkipRewound, Loader!PanicOnGap,
                LP!PanicOnGap, Loader!SkipUnknown, LP!SkipUnknown, Loader!Send, LP!Send,
                Loader!PanicOnSend, LP!PanicOnSend, Loader!Rewound, LP!Rewound,
                Loader!Gap, LP!Gap, Loader!Kind, LP!Kind, Loader!faultVars, LP!faultVars
  <2> QED BY <1>1, <2>1, LoaderNext DEF LP!Next
<1>4. CASE Loader!StreamError
  <2>1. LP!StreamError
    BY <1>4 DEF Loader!StreamError, LP!StreamError, Loader!Assigned, LP!Assigned,
                Loader!threadVars, LP!threadVars
  <2> QED BY <1>1, <2>1, LoaderNext DEF LP!Next
<1>5. CASE Loader!Shutdown
  <2>1. LP!Shutdown
    BY <1>5 DEF Loader!Shutdown, LP!Shutdown, Loader!faultVars, LP!faultVars
  <2> QED BY <1>1, <2>1, LoaderNext DEF LP!Next
<1> QED BY <1>2, <1>3, <1>4, <1>5

\* a message received
LEMMA LoaderRecv ==
  ASSUME LP!IInv, Loader!Recv, pc \notin Ended, pc' \notin Ended
  PROVE  LP!IInv'
<1>1. UNCHANGED (pc \notin Ended)  OBVIOUS
<1>2. LP!Recv
  BY DEF Loader!Recv, LP!Recv, Loader!threadVars, LP!threadVars, Loader!faultVars, LP!faultVars
<1> QED BY <1>1, <1>2, LoaderNext DEF LP!Next

\* a restart from nothing, or from an offset that was received
LEMMA LoaderStart ==
  ASSUME LP!IInv, NEW offset \in Range(received) \cup {-1}, Loader!Start(offset),
         pc' \notin Ended
  PROVE  LP!IInv'
<1>1. LP!Start(offset)
  BY DEF Loader!Start, LP!Start, Loader!Assigned, LP!Assigned, Loader!NoOffset, LP!NoOffset,
         Loader!KeepUpTo, LP!KeepUpTo
<1>2. (pc \notin Ended)' = TRUE  OBVIOUS
<1>3. LP!Restart  BY <1>1, <1>2, LoaderVars DEF LP!Restart, LP!Range, Range
<1> QED BY <1>3, LoaderNext DEF LP!Next

-----------------------------------------------------------------------------
(* What was received. *)

LoaderInv == LP!IInv /\ logStart = 0

\* The loader's variables have the types it says.
LEMMA LoaderTypes ==
  ASSUME LP!IInv
  PROVE  /\ topic \in Seq(Kinds) /\ received \in Seq(Loader!Offsets)
         /\ msgq \in Seq(Loader!Offsets) /\ Len(topic) \in Nat
         /\ last \in Int /\ Loader!TypeOK
<1>1. LP!TypeOK  BY DEF LP!IInv
<1>2. Loader!TypeOK
  BY <1>1 DEF LP!TypeOK, Loader!TypeOK, LP!Offsets, Loader!Offsets, LP!NoOffset,
              Loader!NoOffset, LP!LoaderEnds, Loader!LoaderEnds
<1>3. last \in Int /\ Len(topic) \in Nat  BY <1>1, LP!LastType, LoaderHolds
<1> QED BY <1>2, <1>3 DEF Loader!TypeOK

\* Messages are received in order, those in the channel come after them, and the
\* transactions before any of them were handed over too.
LEMMA HandedOver ==
  ASSUME LoaderInv
  PROVE  /\ InOrder(received) /\ InOrder(msgq)
         /\ \A i \in 1 .. Len(received), j \in 1 .. Len(msgq) : received[i] < msgq[j]
         /\ \A o \in Range(received) \cup Range(msgq) : \A p \in 0 .. o :
              IsTx(p) => p \in Range(received) \cup Range(msgq)
<1>1. /\ received \in Seq(Loader!Offsets) /\ msgq \in Seq(Loader!Offsets)
      /\ Len(topic) \in Nat /\ last \in Int
  BY LoaderTypes DEF LoaderInv
<1>2. /\ LP!Handed = received \o msgq
      /\ LP!Range(LP!Handed) = Range(received) \cup Range(msgq)
  <2>1. LP!TypeOK  BY DEF LoaderInv, LP!IInv
  <2>2. LP!Range(LP!Handed) = LP!Range(received) \cup LP!Range(msgq)
    BY <2>1, LP!HandedType, LoaderHolds
  <2> QED BY <2>2 DEF LP!Handed, LP!Range, Range
<1>3. /\ Len(LP!Handed) = Len(received) + Len(msgq)
      /\ DOMAIN LP!Handed = 1 .. Len(received) + Len(msgq)
      /\ \A i \in 1 .. Len(received) : LP!Handed[i] = received[i]
      /\ \A i \in 1 .. Len(msgq) : LP!Handed[Len(received) + i] = msgq[i]
  BY <1>1, <1>2
<1>4. /\ \A i, j \in DOMAIN LP!Handed : i < j => LP!Handed[i] < LP!Handed[j]
      /\ \A i \in DOMAIN LP!Handed : LP!Handed[i] <= last
  BY DEF LoaderInv, LP!IInv, LP!InOrder
<1>5. DOMAIN received = 1 .. Len(received) /\ Len(received) \in Nat
      /\ DOMAIN msgq = 1 .. Len(msgq) /\ Len(msgq) \in Nat
  BY <1>1
<1>6. InOrder(received)
  <2> SUFFICES ASSUME NEW i \in 1 .. Len(received), NEW j \in 1 .. Len(received), i < j
               PROVE  received[i] < received[j]
    BY <1>5 DEF InOrder
  <2>1. i \in DOMAIN LP!Handed /\ j \in DOMAIN LP!Handed  BY <1>3, <1>5
  <2> QED BY <1>3, <1>4, <2>1
<1>7. InOrder(msgq)
  <2> SUFFICES ASSUME NEW i \in 1 .. Len(msgq), NEW j \in 1 .. Len(msgq), i < j
               PROVE  msgq[i] < msgq[j]
    BY <1>5 DEF InOrder
  <2>1. Len(received) + i \in DOMAIN LP!Handed /\ Len(received) + j \in DOMAIN LP!Handed
        /\ Len(received) + i < Len(received) + j
    BY <1>3, <1>5
  <2>2. LP!Handed[Len(received) + i] < LP!Handed[Len(received) + j]  BY <1>4, <2>1
  <2> QED BY <1>3, <2>2
<1>8. ASSUME NEW i \in 1 .. Len(received), NEW j \in 1 .. Len(msgq)
      PROVE  received[i] < msgq[j]
  <2>1. i \in DOMAIN LP!Handed /\ Len(received) + j \in DOMAIN LP!Handed
        /\ i < Len(received) + j
    BY <1>3, <1>5
  <2>2. LP!Handed[i] < LP!Handed[Len(received) + j]  BY <1>4, <2>1
  <2> QED BY <1>3, <2>2
<1>9. ASSUME NEW o \in Range(received) \cup Range(msgq), NEW p \in 0 .. o, IsTx(p),
             p \notin Range(received) \cup Range(msgq)
      PROVE  FALSE
  <2>1. PICK k \in DOMAIN LP!Handed : o = LP!Handed[k]
    BY <1>2 DEF LP!Range
  <2>2. o <= last  BY <1>4, <2>1
  <2>3. o \in Nat
    <3>1. \A i \in 1 .. Len(received) : received[i] \in Nat  BY <1>1 DEF Loader!Offsets
    <3>2. \A i \in 1 .. Len(msgq) : msgq[i] \in Nat  BY <1>1 DEF Loader!Offsets
    <3> QED BY <3>1, <3>2, <1>5 DEF Range
  <2>4. p \in 0 .. last /\ (p = last => p = o)  BY <1>1, <2>2, <2>3
  <2>5. p # o /\ p # last  BY <1>9, <2>4
  <2>6. LP!Kind(p) # "unknown"  BY <1>9 DEF LP!Kind, IsTx, IsSelf
  <2>7. p \in LP!Missed  BY <1>2, <1>9, <2>4, <2>5, <2>6 DEF LP!Missed
  <2>8. logStart > 0  BY <2>7 DEF LoaderInv, LP!IInv, LP!NothingSkipped
  <2> QED BY <2>8 DEF LoaderInv
<1> QED BY <1>6, <1>7, <1>8, <1>9

\* LastReceived is the last offset received, and none received is above it.
LEMMA LastReceivedType ==
  ASSUME LoaderInv
  PROVE  /\ LastReceived \in Loader!Offsets \cup {-1}
         /\ \A o \in Range(received) : o <= LastReceived
         /\ received # <<>> => LastReceived \in Range(received)
<1>1. received \in Seq(Loader!Offsets)  BY LoaderTypes DEF LoaderInv
<1>2. DOMAIN received = 1 .. Len(received) /\ Len(received) \in Nat
      /\ \A i \in 1 .. Len(received) : received[i] \in Loader!Offsets /\ received[i] \in Nat
  BY <1>1 DEF Loader!Offsets
<1>3. CASE received = <<>>
  <2>1. Range(received) = {}  BY <1>3 DEF Range
  <2> QED BY <1>3, <2>1 DEF LastReceived, Loader!NoOffset
<1>4. CASE received # <<>>
  <2>1. Len(received) \in 1 .. Len(received)  BY <1>1, <1>4
  <2>2. LastReceived = received[Len(received)]  BY <1>4 DEF LastReceived, Last
  <2>3. ASSUME NEW o \in Range(received) PROVE o <= LastReceived
    <3>1. PICK i \in 1 .. Len(received) : o = received[i]  BY <1>2 DEF Range
    <3>a. Len(received) \in Nat  BY <1>2
    <3>2. i = Len(received) \/ i < Len(received)  BY <3>a
    <3>3. InOrder(received)  BY HandedOver
    <3>4. i < Len(received) => received[i] < received[Len(received)]
      BY <1>2, <2>1, <3>3 DEF InOrder
    <3>5. received[i] \in Nat /\ received[Len(received)] \in Nat  BY <1>2, <2>1
    <3>6. received[i] <= received[Len(received)]  BY <3>2, <3>4, <3>5
    <3> QED BY <2>2, <3>1, <3>6
  <2> QED BY <1>2, <2>1, <2>2, <2>3 DEF Range
<1> QED BY <1>3, <1>4

\* What was applied was received.
LEMMA AppliedReceived ==
  ASSUME LoaderInv, AppliedExactlyOnce
  PROVE  Range(TxsOf(applied)) \subseteq Range(received)
<1>1. ASSUME NEW p \in Range(TxsOf(applied)) PROVE p \in Range(received)
  <2>1. IsTx(p) /\ p \in 0 .. LastReceived  BY <1>1 DEF AppliedExactlyOnce, MadeOf, TxsUpTo
  <2>2. received # <<>>
    BY <2>1 DEF LastReceived, Loader!NoOffset
  <2>3. LastReceived \in Range(received)  BY <2>2, LastReceivedType
  <2>4. p \in Range(received) \cup Range(msgq)  BY <2>1, <2>3, HandedOver
  <2>5. p \notin Range(msgq)
    <3>1. /\ received \in Seq(Loader!Offsets) /\ msgq \in Seq(Loader!Offsets)
      BY LoaderTypes DEF LoaderInv
    <3>2. SUFFICES ASSUME NEW j \in 1 .. Len(msgq), p = msgq[j] PROVE FALSE
      BY <3>1 DEF Range
    <3>3. PICK i \in 1 .. Len(received) : LastReceived = received[i]
      BY <2>3, <3>1 DEF Range
    <3>4. received[i] < msgq[j]  BY HandedOver
    <3>5. received[i] \in Nat  BY <3>1 DEF Loader!Offsets
    <3> QED BY <2>1, <3>2, <3>3, <3>4, <3>5
  <2> QED BY <2>4, <2>5
<1> QED BY <1>1

\* The next message takes the applied transactions to its offset.
LEMMA RecvApplies ==
  ASSUME LoaderInv, AppliedExactlyOnce, IsRoot(applied), msgq # <<>>
  PROVE  LET o == Head(msgq)
         IN  /\ o \in Loader!Offsets
             /\ received' = Append(received, o) => LastReceived' = o
             /\ IsTx(o) => \A effect \in Effects(o) :
                  /\ effect.tx = o /\ IsRoot(Append(applied, effect))
                  /\ MadeOf(Append(applied, effect), o)
             /\ ~IsTx(o) => MadeOf(applied, o)
<1> DEFINE o == Head(msgq)
<1>1. /\ received \in Seq(Loader!Offsets) /\ msgq \in Seq(Loader!Offsets)
  BY LoaderTypes DEF LoaderInv
<1>2. o = msgq[1] /\ 1 \in 1 .. Len(msgq) /\ o \in Loader!Offsets /\ o \in Range(msgq)
  BY <1>1 DEF Range
<1>3. o \in Nat /\ Loader!Offsets \subseteq Nat  BY <1>2 DEF Loader!Offsets
<1>4. LastReceived \in Int /\ LastReceived < o
  <2>1. CASE received = <<>>
    <3>1. LastReceived = -1  BY <2>1 DEF LastReceived, Loader!NoOffset
    <3> QED BY <1>3, <3>1
  <2>2. CASE received # <<>>
    <3>1. LastReceived \in Range(received)  BY <2>2, LastReceivedType
    <3>2. PICK i \in 1 .. Len(received) : LastReceived = received[i]
      BY <1>1, <3>1 DEF Range
    <3>3. received[i] < msgq[1]  BY <1>2, HandedOver
    <3>4. received[i] \in Nat  BY <1>1 DEF Loader!Offsets
    <3> QED BY <1>2, <3>2, <3>3, <3>4
  <2> QED BY <2>1, <2>2
<1>5. \A p \in TxsUpTo(o) : p = o \/ p \in TxsUpTo(LastReceived)
  <2> SUFFICES ASSUME NEW p \in TxsUpTo(o), p # o PROVE p \in TxsUpTo(LastReceived)
    OBVIOUS
  <2>1. p \in 0 .. o /\ IsTx(p)  BY DEF TxsUpTo
  <2>2. p \in Range(received) \cup Range(msgq)  BY <1>2, <2>1, HandedOver
  <2>3. p \notin Range(msgq)
    <3>1. SUFFICES ASSUME NEW j \in 1 .. Len(msgq), p = msgq[j] PROVE FALSE
      BY <1>1 DEF Range
    <3>2. j # 1  BY <1>2, <3>1
    <3>3. msgq[1] < msgq[j]
      <4>1. InOrder(msgq) /\ DOMAIN msgq = 1 .. Len(msgq)  BY <1>1, HandedOver
      <4>2. 1 < j  BY <3>2
      <4> QED BY <1>2, <4>1, <4>2 DEF InOrder
    <3> QED BY <1>2, <1>3, <2>1, <3>1, <3>3
  <2>4. p <= LastReceived  BY <2>2, <2>3, LastReceivedType
  <2>5. p \in 0 .. LastReceived  BY <1>4, <2>1, <2>4
  <2> QED BY <2>1, <2>5 DEF TxsUpTo
<1>6. \A p \in TxsUpTo(LastReceived) : p \in TxsUpTo(o) /\ p < o
  BY <1>3, <1>4 DEF TxsUpTo
<1>7. received' = Append(received, o) => LastReceived' = o
  BY <1>1, <1>2 DEF LastReceived, Last
<1>b. PICK txs : txs = TxsOf(applied)  OBVIOUS
<1>a. InOrder(txs) /\ Range(txs) = TxsUpTo(LastReceived)
  BY <1>b DEF AppliedExactlyOnce, MadeOf
<1>8. ASSUME ~IsTx(o) PROVE MadeOf(applied, o)
  <2>1. o \notin TxsUpTo(o)  BY <1>8 DEF TxsUpTo
  <2> HIDE DEF o
  <2> QED BY <2>1, <1>a, <1>b, <1>5, <1>6 DEF MadeOf
<1>9. ASSUME IsTx(o)
      PROVE  /\ Append(txs, o) \in Seq(Loader!Offsets) /\ InOrder(Append(txs, o))
             /\ Range(Append(txs, o)) = TxsUpTo(o)
  <2>1. txs \in Seq(Loader!Offsets)  BY <1>b, RootType DEF IsRoot
  <2> HIDE DEF o
  <2>2. /\ Append(txs, o) \in Seq(Loader!Offsets)
        /\ DOMAIN Append(txs, o) = 1 .. Len(txs) + 1 /\ Len(txs) \in Nat
        /\ \A i \in 1 .. Len(txs) : Append(txs, o)[i] = txs[i]
        /\ Append(txs, o)[Len(txs) + 1] = o
        /\ DOMAIN txs = 1 .. Len(txs)
    BY <1>2, <2>1
  <2>3. Range(Append(txs, o)) = Range(txs) \cup {o}
    <3>1. ASSUME NEW x \in Range(Append(txs, o)) PROVE x \in Range(txs) \cup {o}
      <4>1. PICK i \in 1 .. Len(txs) + 1 : x = Append(txs, o)[i]
        BY <2>2, <3>1 DEF Range
      <4>2. i \in 1 .. Len(txs) \/ i = Len(txs) + 1  BY <2>2
      <4> QED BY <2>2, <4>1, <4>2 DEF Range
    <3>2. o \in Range(Append(txs, o))
      <4>1. Len(txs) + 1 \in DOMAIN Append(txs, o)  BY <2>2
      <4> QED BY <2>2, <4>1 DEF Range
    <3>3. ASSUME NEW x \in Range(txs) PROVE x \in Range(Append(txs, o))
      <4>1. PICK i \in 1 .. Len(txs) : x = txs[i]  BY <2>2, <3>3 DEF Range
      <4>2. i \in DOMAIN Append(txs, o)  BY <2>2
      <4> QED BY <2>2, <4>1, <4>2 DEF Range
    <3> QED BY <3>1, <3>2, <3>3
  <2>4. o \in TxsUpTo(o)  BY <1>3, <1>9 DEF TxsUpTo
  <2>5. Range(Append(txs, o)) = TxsUpTo(o)  BY <1>a, <1>5, <1>6, <2>3, <2>4
  <2>6. ASSUME NEW i \in 1 .. Len(txs) + 1, NEW j \in 1 .. Len(txs) + 1, i < j
        PROVE  Append(txs, o)[i] < Append(txs, o)[j]
    <3>1. i \in 1 .. Len(txs)  BY <2>2, <2>6
    <3>2. CASE j = Len(txs) + 1
      <4>1. txs[i] \in Range(txs)  BY <2>2, <3>1 DEF Range
      <4> QED BY <1>a, <1>6, <2>2, <3>1, <3>2, <4>1
    <3>3. CASE j \in 1 .. Len(txs)
      BY <1>a, <2>2, <2>6, <3>1, <3>3 DEF InOrder
    <3> QED BY <2>2, <3>2, <3>3
  <2>7. InOrder(Append(txs, o))  BY <2>2, <2>6 DEF InOrder
  <2> QED BY <2>2, <2>5, <2>7
<1>10. ASSUME IsTx(o), NEW effect \in Effects(o)
       PROVE  /\ effect.tx = o /\ IsRoot(Append(applied, effect))
              /\ MadeOf(Append(applied, effect), o)
  <2> HIDE DEF o
  <2>1. /\ effect.tx = o /\ effect.raised \in {FALSE} \cup {IsSelf(o)}
        /\ effect \in AnyEffect
    BY <1>2 DEF Effects, IsSelf, AnyEffect
  <2>2. PICK root : root = Append(applied, effect)  OBVIOUS
  <2>3. /\ applied \in Seq(AnyEffect)
        /\ \A i \in 1 .. Len(applied) : applied[i].raised => IsSelf(applied[i].tx)
    BY DEF IsRoot, Roots
  <2>4. /\ root \in Roots /\ Len(applied) \in Nat /\ Len(root) = Len(applied) + 1
        /\ \A i \in 1 .. Len(applied) : root[i] = applied[i]
        /\ root[Len(applied) + 1] = effect
    BY <2>1, <2>2, <2>3 DEF Roots
  <2>5. /\ txs \in Seq(Loader!Offsets) /\ Len(txs) = Len(applied)
        /\ \A i \in 1 .. Len(applied) : txs[i] = applied[i].tx
    BY <1>b, RootType DEF IsRoot
  <2>6. /\ TxsOf(root) \in Seq(Loader!Offsets) /\ Len(TxsOf(root)) = Len(applied) + 1
        /\ \A i \in 1 .. Len(applied) + 1 : TxsOf(root)[i] = root[i].tx
    BY <2>4, RootType
  <2>7. TxsOf(root) = Append(txs, o)
    <3>1. Append(txs, o) \in Seq(Loader!Offsets) /\ Len(Append(txs, o)) = Len(applied) + 1
      BY <1>2, <2>4, <2>5
    <3>2. ASSUME NEW i \in 1 .. Len(applied) + 1 PROVE TxsOf(root)[i] = Append(txs, o)[i]
      <4>1. CASE i = Len(applied) + 1
        <5>1. Append(txs, o)[i] = o  BY <1>2, <2>4, <2>5, <4>1
        <5> QED BY <2>1, <2>4, <2>6, <4>1, <5>1
      <4>2. CASE i \in 1 .. Len(applied)
        <5>1. Append(txs, o)[i] = txs[i]  BY <1>2, <2>5, <4>2
        <5> QED BY <2>4, <2>5, <2>6, <4>2, <5>1
      <4>a. Len(applied) \in Nat  BY <2>4
      <4>3. i \in 1 .. Len(applied) \/ i = Len(applied) + 1  BY <4>a
      <4> QED BY <4>1, <4>2, <4>3
    <3>3. PICK a, b : a = TxsOf(root) /\ b = Append(txs, o)  OBVIOUS
    <3>4. /\ a \in Seq(Loader!Offsets) /\ b \in Seq(Loader!Offsets) /\ Len(a) = Len(b)
          /\ \A i \in 1 .. Len(a) : a[i] = b[i]
      BY <2>6, <3>1, <3>2, <3>3
    <3>5. a = b  BY <3>4, SeqEqual
    <3> QED BY <3>3, <3>5
  <2>8. MadeOf(root, o)  BY <1>9, <1>10, <2>7 DEF MadeOf
  <2>9. ASSUME NEW i \in 1 .. Len(applied) + 1, root[i].raised PROVE IsSelf(root[i].tx)
    <3>1. CASE i = Len(applied) + 1  BY <2>1, <2>4, <2>9, <3>1
    <3>2. CASE i \in 1 .. Len(applied)  BY <2>3, <2>4, <2>9, <3>2
    <3> QED BY <2>4, <3>1, <3>2
  <2>10. DOMAIN root = 1 .. Len(applied) + 1  BY <2>4 DEF Roots
  <2>11. IsRoot(root)  BY <1>3, <2>4, <2>8, <2>9, <2>10, MadeIsRoot
  <2> QED BY <2>1, <2>2, <2>8, <2>11
<1> QED BY <1>2, <1>7, <1>8, <1>10

-----------------------------------------------------------------------------
(* Steps that leave a part of the node alone. *)

LEMMA BufferSame ==
  ASSUME BufferInv, Kept, UNCHANGED <<buffer, applied>>
  PROVE  BufferInv' /\ UNCHANGED BufferRoot
<1>1. UNCHANGED <<BufferOffsets, BufferRoot>>  BY DEF BufferOffsets, BufferRoot
<1>2. Fits(BufferOffsets, Len(buffer), BufferRoot, applied)'
  BY <1>1 DEF BufferInv, Kept
<1> QED BY <1>1, <1>2 DEF BufferInv, Kept

\* the numbers and roots of the pipeline
LEMMA StagesSame ==
  ASSUME UNCHANGED <<BufferRoot, ready, blkq, blockNum>>
  PROVE  UNCHANGED <<ReadyNum, ReadyRoot, QueueNum, QueueRoot>>
BY DEF ReadyNum, ReadyRoot, QueueNum, QueueRoot

LEMMA QueuedSame ==
  ASSUME Kept, NEW q, NEW num, NEW root, Queued(q, num, root)
  PROVE  Queued(q, num, root)'
BY DEF Queued, Kept

LEMMA PipelineSame ==
  ASSUME PipelineInv, Kept, UNCHANGED <<BufferRoot, ready, blkq, blockNum>>
  PROVE  PipelineInv'
<1>1. UNCHANGED <<ReadyNum, ReadyRoot, QueueNum>>  BY StagesSame
<1>2. Queued(ready, blockNum, BufferRoot)' /\ Queued(blkq, ReadyNum, ReadyRoot)'
  BY <1>1 DEF PipelineInv, Queued, Kept
<1> QED BY <1>1, <1>2 DEF PipelineInv

\* All dumps are complete while none is being written.
LEMMA AllComplete ==
  ASSUME DumpsInv, pc \notin Persisting
  PROVE  \A n \in DOMAIN dumps : Complete(n)
BY DEF DumpsInv

LEMMA DumpsSame ==
  ASSUME DumpsInv, Kept, UNCHANGED <<dumps, blockNum>>,
         Range(received) \subseteq Range(received'), pc \notin Persisting \/ UNCHANGED pc
  PROVE  DumpsInv'
<1> SUFFICES ASSUME NEW n \in DOMAIN dumps
             PROVE  (/\ n \in 1 .. blockNum /\ DumpDue(n)
                     /\ ~Complete(n) => n = blockNum /\ pc \in Persisting
                     /\ Complete(n) =>
                          /\ DOMAIN dumps[n] = {"block", "kafka", "state"}
                          /\ dumps[n].block = n /\ dumps[n].kafka \in Loader!Offsets
                          /\ IsRoot(dumps[n].state) /\ MadeOf(dumps[n].state, dumps[n].kafka)
                          /\ (\A m \in DOMAIN dumps : m <= n) =>
                               dumps[n].kafka \in Range(received))'
  BY DEF DumpsInv
<1>1. n \in 1 .. blockNum' /\ DumpDue(n) /\ (Complete(n)' <=> Complete(n))
  BY DEF DumpsInv, Complete
<1>2. ~Complete(n) => n = blockNum' /\ pc' \in Persisting  BY DEF DumpsInv
<1>3. ASSUME Complete(n)
      PROVE  /\ DOMAIN dumps[n] = {"block", "kafka", "state"}
             /\ dumps[n].block = n /\ dumps[n].kafka \in Loader!Offsets'
             /\ IsRoot(dumps[n].state)' /\ MadeOf(dumps[n].state, dumps[n].kafka)'
             /\ (\A m \in DOMAIN dumps : m <= n) => dumps[n].kafka \in Range(received')
  <2>1. /\ MadeOf(dumps[n].state, dumps[n].kafka) /\ dumps[n].kafka \in Loader!Offsets
        /\ IsRoot(dumps[n].state)
    BY <1>3 DEF DumpsInv
  <2>2. MadeOf(dumps[n].state, dumps[n].kafka)'
    <3>1. \A root, offset : MadeOf(root, offset) /\ offset \in Loader!Offsets \cup {-1}
                              => MadeOf(root, offset)'
      BY DEF Kept
    <3> QED BY <2>1, <3>1
  <2> QED BY <1>3, <2>1, <2>2 DEF DumpsInv, Kept
<1> QED BY <1>1, <1>2, <1>3 DEF DumpDue

LEMMA StartsSame ==
  ASSUME StartsInv, UNCHANGED <<BufferRoot, blockNum, ready, blkq, blocks, dumps>>
  PROVE  StartsInv'
BY DEF StartsInv, RowStarts, StartsAt, DumpOf, Complete

LEMMA DueSame ==
  ASSUME DueInv, UNCHANGED <<blockNum, ready, blkq, blocks, dumps>>,
         pc \notin Persisting \/ UNCHANGED pc
  PROVE  DueInv'
<1>1. UNCHANGED QueueNum  BY DEF QueueNum, ReadyNum
<1>2. \A n : DumpOf(n)' <=> DumpOf(n)  BY DEF DumpOf, Complete
<1> QED BY <1>1, <1>2 DEF DueInv, DumpDue

LEMMA BlocksSame ==
  ASSUME BlocksInv, Kept, UNCHANGED <<BufferRoot, blockNum, ready, blkq, blocks, checkOld>>,
         DOMAIN dumps \subseteq DOMAIN dumps'
  PROVE  BlocksInv'
<1>1. UNCHANGED <<QueueNum, QueueRoot>>  BY StagesSame
<1>2. \A num : Follows(num) => Follows(num)'  BY DEF Follows
<1>3. \A row : GoodRow(row) => GoodRow(row)'  BY DEF Kept
<1> QED BY <1>1, <1>2, <1>3 DEF BlocksInv

LEMMA HeadRow ==
  ASSUME ready \in Seq(Rows), ready # <<>>
  PROVE  Head(ready) \in Rows
OBVIOUS

LEMMA DivergenceSame ==
  ASSUME DivergenceExplained, Kept, NodeInv, PcInv, UNCHANGED ready,
         \A id \in DOMAIN blocks : id \in DOMAIN blocks' /\ blocks'[id] = blocks[id],
         pc' # "not deterministic" \/ UNCHANGED pc
  PROVE  DivergenceExplained'
<1> SUFFICES ASSUME pc = "not deterministic" PROVE DivergenceExplained'
  BY DEF DivergenceExplained
<1>1. PICK block : block = Head(ready)  OBVIOUS
<1>2. block \in Rows  BY <1>1, HeadRow DEF NodeInv, PcInv
<1>3. /\ block.id \in DOMAIN blocks' /\ blocks'[block.id] = blocks[block.id]
      /\ blocks[block.id].oldRoot = block.oldRoot
      /\ IF blocks[block.id].txs = block.txs
         THEN \E o \in Range(block.txs) \ {Nop} : IsSelf(o)
         ELSE Padded(blocks[block.id]) \/ Padded(block)
  BY <1>1 DEF DivergenceExplained
<1>4. ASSUME NEW o \in Range(block.txs) \ {Nop}, IsSelf(o) PROVE IsSelf(o)'
  <2>1. block.txs \in [1 .. NTx -> Loader!Offsets \cup {Nop}]  BY <1>2 DEF Rows
  <2>2. o \in Loader!Offsets  BY <2>1 DEF Range
  <2> QED BY <1>4, <2>2 DEF Kept
<1> QED BY <1>1, <1>3, <1>4 DEF DivergenceExplained, Padded

LEMMA AppliedSame ==
  ASSUME LoaderInv, AppliedExactlyOnce, Kept, UNCHANGED <<applied, received>>
  PROVE  AppliedExactlyOnce'
<1>1. LastReceived' = LastReceived  BY DEF LastReceived, Loader!NoOffset
<1>2. LastReceived \in Loader!Offsets \cup {-1}  BY LastReceivedType
<1>3. \A root, offset : MadeOf(root, offset) /\ offset \in Loader!Offsets \cup {-1}
                          => MadeOf(root, offset)'
  BY DEF Kept
<1> QED BY <1>1, <1>2, <1>3 DEF AppliedExactlyOnce

-----------------------------------------------------------------------------
(* Steps that change neither the state nor the blocks. *)

LEMMA KeptSame ==
  ASSUME LP!IInv, topic' = topic
  PROVE  Kept
BY LoaderTypes, TopicKept

LEMMA NodeSame ==
  ASSUME NodeInv, Kept,
         UNCHANGED <<saving, blocks, tasks, blockNum, checkOld, buffer, ready, blkq>>,
         node' \in {"up", "crashed", "exited"}, pc' \in Pcs,
         node' = "exited" => blkq = <<>> /\ pc' \in Ended
  PROVE  NodeInv'
<1>1. Entries \subseteq Entries' /\ Rows \subseteq Rows'  BY DEF Kept
<1>2. buffer' \in Seq(Entries') /\ ready' \in Seq(Rows') /\ blkq' \in Seq(Rows')
  BY <1>1 DEF NodeInv
<1> QED BY <1>1, <1>2 DEF NodeInv, NoBlock, Pcs, Ended

LEMMA PcSame ==
  ASSUME PcInv, UNCHANGED <<ready, buffer, pc, blockNum, dumps, applied>>
  PROVE  PcInv'
BY DEF PcInv, Keys, Persisting, DumpDue

\* A step that leaves the blocks and the dumps as they are.
LEMMA BufferStep ==
  ASSUME IInv, Kept, LP!IInv', UNCHANGED <<logStart, BufferRoot, blockNum, ready, checkOld,
                                          blkq, blocks, dumps>>,
         pc \notin Persisting \/ UNCHANGED pc, Range(received) \subseteq Range(received'),
         AppliedExactlyOnce', BufferInv', NodeInv', PcInv', DivergenceExplained'
  PROVE  IInv'
<1>1. PipelineInv' /\ DumpsInv'  BY PipelineSame, DumpsSame DEF IInv
<1>2. StartsInv' /\ DueInv' /\ BlocksInv'  BY StartsSame, DueSame, BlocksSame DEF IInv
<1> QED BY <1>1, <1>2 DEF IInv

\* A step that changes neither the state, the blocks nor the dumps.
LEMMA CalmStep ==
  ASSUME IInv, Kept, LP!IInv', UNCHANGED <<logStart, received, applied, buffer, blockNum,
                                          ready, checkOld, blkq, blocks, dumps>>,
         pc \notin Persisting \/ UNCHANGED pc,
         NodeInv', PcInv', DivergenceExplained'
  PROVE  IInv'
<1>1. LoaderInv  BY DEF IInv, LoaderInv
<1>2. AppliedExactlyOnce'  BY <1>1, AppliedSame DEF IInv
<1>3. BufferInv' /\ UNCHANGED BufferRoot  BY BufferSame DEF IInv
<1> QED BY <1>2, <1>3, BufferStep

LEMMA PublishInv == IInv /\ Publish => IInv'
<1> SUFFICES ASSUME IInv, Publish PROVE IInv'  OBVIOUS
<1>1. PICK kind \in Kinds : Loader!Publish(kind)  BY DEF Publish
<1>2. UNCHANGED <<node, procVars, mainVars, dbVars, dumps, logStart, received>>
  BY <1>1 DEF Publish, Loader!Publish
<1>3. topic' = Append(topic, kind)  BY <1>1 DEF Loader!Publish
<1>4. LP!IInv  BY DEF IInv
<1>5. Kept  BY <1>3, <1>4, LoaderTypes, TopicKept
<1>6. LP!IInv'  BY <1>1, <1>2, <1>4, LoaderRuns DEF procVars
<1>7. NodeInv'
  BY <1>2, <1>5, NodeSame DEF IInv, NodeInv, procVars, mainVars, dbVars
<1>8. PcInv' /\ DivergenceExplained'
  BY <1>2, <1>5, PcSame, DivergenceSame DEF IInv, procVars, mainVars, dbVars
<1> QED BY <1>2, <1>5, <1>6, <1>7, <1>8, CalmStep DEF procVars, mainVars, dbVars

LEMMA LoaderStepInv == IInv /\ LoaderStep => IInv'
<1> SUFFICES ASSUME IInv, LoaderStep PROVE IInv'  OBVIOUS
<1>1. Loader!OnMessage \/ Loader!StreamError \/ Loader!Shutdown  BY DEF LoaderStep
<1>2. UNCHANGED <<node, procVars, mainVars, dbVars, dumps, logStart, received, topic>>
  BY <1>1 DEF LoaderStep, Loader!OnMessage, Loader!StreamError, Loader!Shutdown, Loader!Consume
<1>4. LP!IInv  BY DEF IInv
<1>5. Kept  BY <1>2, <1>4, KeptSame
<1>6. LP!IInv'  BY <1>1, <1>2, <1>4, LoaderRuns DEF procVars
<1>7. NodeInv'
  BY <1>2, <1>5, NodeSame DEF IInv, NodeInv, procVars, mainVars, dbVars
<1>8. PcInv' /\ DivergenceExplained'
  BY <1>2, <1>5, PcSame, DivergenceSame DEF IInv, procVars, mainVars, dbVars
<1> QED BY <1>2, <1>5, <1>6, <1>7, <1>8, CalmStep DEF procVars, mainVars, dbVars

\* the loader, the state and the blocks are as before
Quiet == UNCHANGED <<loaderVars, applied, buffer, blockNum, ready, checkOld, blkq, blocks, dumps>>

LEMMA QuietStep ==
  ASSUME IInv, Quiet, pc \notin Persisting \/ UNCHANGED pc,
         pc \notin Ended \/ pc' \in Ended
  PROVE  /\ LP!IInv' /\ Kept
         /\ NodeInv' /\ PcInv' /\ DivergenceExplained' => IInv'
<1>1. LP!IInv  BY DEF IInv
<1>2. UNCHANGED <<logStart, received, topic>>  BY DEF Quiet, loaderVars
<1>3. Kept  BY <1>1, <1>2, KeptSame
<1>4. LP!IInv'  BY <1>1, LoaderIdle DEF Quiet
<1> QED BY <1>2, <1>3, <1>4, CalmStep DEF Quiet

LEMMA CrashInv == IInv /\ Crash => IInv'
<1> SUFFICES ASSUME IInv, Crash PROVE IInv'  OBVIOUS
<1>1. Quiet /\ UNCHANGED <<pc, saving, tasks>> /\ node' = "crashed"
  BY DEF Crash, Quiet, procVars, mainVars, dbVars
<1>2. Kept /\ (NodeInv' /\ PcInv' /\ DivergenceExplained' => IInv')  BY <1>1, QuietStep
<1>3. NodeInv'  BY <1>1, <1>2, NodeSame DEF Quiet, IInv, NodeInv
<1>4. PcInv' /\ DivergenceExplained'  BY <1>1, <1>2, PcSame, DivergenceSame DEF Quiet, IInv
<1> QED BY <1>2, <1>3, <1>4

LEMMA ExitInv == IInv /\ Exit => IInv'
<1> SUFFICES ASSUME IInv, Exit PROVE IInv'  OBVIOUS
<1>1. Quiet /\ UNCHANGED <<pc, saving, tasks>> /\ node' = "exited" /\ blkq = <<>> /\ pc \in Ended
  BY DEF Exit, Quiet, procVars, mainVars, dbVars
<1>2. Kept /\ (NodeInv' /\ PcInv' /\ DivergenceExplained' => IInv')  BY <1>1, QuietStep
<1>3. NodeInv'  BY <1>1, <1>2, NodeSame DEF Quiet, IInv, NodeInv
<1>4. PcInv' /\ DivergenceExplained'  BY <1>1, <1>2, PcSame, DivergenceSame DEF Quiet, IInv
<1> QED BY <1>2, <1>3, <1>4

LEMMA SaveTaskInv == IInv /\ SaveTask => IInv'
<1> SUFFICES ASSUME IInv, SaveTask PROVE IInv'  OBVIOUS
<1>1. /\ Quiet /\ UNCHANGED <<node, pc>> /\ saving # NoBlock /\ saving' = NoBlock
      /\ tasks' = Append(tasks, saving.id)
  BY DEF SaveTask, Quiet, procVars, dbVars
<1>2. Kept /\ (NodeInv' /\ PcInv' /\ DivergenceExplained' => IInv')  BY <1>1, QuietStep
<1>3. NodeInv'
  <2>1. Entries \subseteq Entries' /\ Rows \subseteq Rows'  BY <1>2 DEF Kept
  <2>2. buffer' \in Seq(Entries') /\ ready' \in Seq(Rows') /\ blkq' \in Seq(Rows')
    BY <1>1, <2>1 DEF IInv, NodeInv, Quiet
  <2>3. tasks' \in Seq(DOMAIN blocks')  BY <1>1 DEF IInv, NodeInv, Quiet
  <2> QED BY <1>1, <2>2, <2>3 DEF IInv, NodeInv, Quiet, NoBlock
<1>4. PcInv' /\ DivergenceExplained'  BY <1>1, <1>2, PcSame, DivergenceSame DEF Quiet, IInv
<1> QED BY <1>2, <1>3, <1>4

LEMMA ProcDisconnectedInv == IInv /\ ProcDisconnected => IInv'
<1> SUFFICES ASSUME IInv, ProcDisconnected PROVE IInv'  OBVIOUS
<1>1. /\ Quiet /\ UNCHANGED <<node, saving, tasks>> /\ pc = "recv" /\ pc' = "done" /\ node = "up"
  BY DEF ProcDisconnected, Quiet, mainVars, dbVars
<1>2. pc \notin Persisting /\ pc \notin Ended  BY <1>1 DEF Persisting, Ended
<1>3. Kept /\ (NodeInv' /\ PcInv' /\ DivergenceExplained' => IInv')  BY <1>1, <1>2, QuietStep
<1>4. NodeInv'  BY <1>1, <1>3, NodeSame DEF Quiet, IInv, NodeInv, Pcs, Ended
<1>5. PcInv'  BY <1>1 DEF PcInv, Quiet, IInv, Persisting
<1>6. DivergenceExplained'  BY <1>1, <1>3, DivergenceSame DEF Quiet, IInv
<1> QED BY <1>3, <1>4, <1>5, <1>6

LEMMA PopDoneInv == IInv /\ PopDone => IInv'
<1> SUFFICES ASSUME IInv, PopDone PROVE IInv'  OBVIOUS
<1>1. /\ Quiet /\ UNCHANGED <<node, saving, tasks>> /\ pc = "pop" /\ node = "up"
      /\ pc' = (IF ready = <<>> THEN "recv" ELSE "send") /\ Len(buffer) < NTx
  BY DEF PopDone, Quiet, mainVars, dbVars
<1>2. pc \notin Persisting /\ pc \notin Ended  BY <1>1 DEF Persisting, Ended
<1>3. Kept /\ (NodeInv' /\ PcInv' /\ DivergenceExplained' => IInv')  BY <1>1, <1>2, QuietStep
<1>4. NodeInv'  BY <1>1, <1>3, NodeSame DEF Quiet, IInv, NodeInv, Pcs, Ended
<1>5. PcInv'
  <2>1. CASE ready = <<>>  BY <1>1, <2>1 DEF PcInv, Quiet, IInv, Persisting
  <2>2. CASE ready # <<>>  BY <1>1, <2>2 DEF PcInv, Quiet, IInv, Persisting
  <2> QED BY <2>1, <2>2
<1>6. DivergenceExplained'  BY <1>1, <1>3, DivergenceSame DEF Quiet, IInv
<1> QED BY <1>3, <1>4, <1>5, <1>6

\* A full block takes its root NTx transactions further.
LEMMA UnpaddedLength ==
  ASSUME NEW row, GoodRow(row), ~Padded(row)
  PROVE  /\ IsRoot(row.oldRoot) /\ IsRoot(row.newRoot)
         /\ Len(row.newRoot) = Len(row.oldRoot) + NTx
<1>1. row \in Rows /\ Fits(row.txs, NTx, row.oldRoot, row.newRoot)  BY DEF GoodRow
<1>2. IsRoot(row.oldRoot) /\ IsRoot(row.newRoot)  BY <1>1 DEF Fits
<1>3. row.txs \in [1 .. NTx -> Loader!Offsets \cup {Nop}] /\ NTx \in 1 .. NTx
  BY <1>1, NodeAssumption DEF Rows
<1>4. row.txs[NTx] # Nop
  <2>1. row.txs[NTx] \in Range(row.txs)  BY <1>3 DEF Range
  <2> QED BY <2>1 DEF Padded
<1>5. Len(row.oldRoot) + NTx <= Len(row.newRoot) /\ Len(row.newRoot) <= Len(row.oldRoot) + NTx
  BY <1>1, <1>3, <1>4 DEF Fits
<1>6. Len(row.oldRoot) \in Nat /\ Len(row.newRoot) \in Nat
  BY <1>2, RootType DEF IsRoot
<1>7. NTx \in Nat  BY NodeAssumption
<1> QED BY <1>2, <1>5, <1>6, <1>7

\* A block waiting to be checked is the newest one.
LEMMA ReadyBlock ==
  ASSUME PcInv, PipelineInv, NodeInv, ready # <<>>
  PROVE  /\ Len(ready) = 1 /\ DOMAIN ready = {1} /\ Head(ready) = ready[1]
         /\ GoodRow(ready[1]) /\ ready[1].id = blockNum - 1 /\ ready[1].newRoot = BufferRoot
         /\ blockNum \in Nat /\ ReadyNum = blockNum - 1 /\ ReadyRoot = ready[1].oldRoot
<1>1. ready \in Seq(Rows) /\ blockNum \in Nat  BY DEF NodeInv
<1>2. Len(ready) <= 1  BY DEF PcInv
<1>3. Len(ready) = 1 /\ DOMAIN ready = {1} /\ Head(ready) = ready[1]
  <2>1. Len(ready) \in Nat /\ Len(ready) # 0 /\ DOMAIN ready = 1 .. Len(ready)  BY <1>1
  <2>2. Len(ready) = 1  BY <1>2, <2>1
  <2>3. DOMAIN ready = {1}  BY <2>1, <2>2
  <2>4. Head(ready) = ready[1]  BY <1>1
  <2> QED BY <2>2, <2>3, <2>4
<1>4. Queued(ready, blockNum, BufferRoot)  BY DEF PipelineInv
<1>5. GoodRow(ready[1]) /\ ready[1].id = blockNum - 1 /\ ready[1].newRoot = BufferRoot
  BY <1>1, <1>3, <1>4 DEF Queued
<1> QED BY <1>1, <1>3, <1>5 DEF ReadyNum, ReadyRoot

\* The types of a block, and where its roots agree.
LEMMA RowTypes ==
  ASSUME NEW row, GoodRow(row)
  PROVE  /\ IsRoot(row.oldRoot) /\ IsRoot(row.newRoot)
         /\ Len(row.oldRoot) \in Nat /\ Len(row.newRoot) \in Nat
         /\ Len(row.oldRoot) < Len(row.newRoot) /\ Len(row.newRoot) <= Len(row.oldRoot) + NTx
         /\ row.txs \in [1 .. NTx -> Loader!Offsets \cup {Nop}]
         /\ \A i \in 1 .. Len(row.oldRoot) : row.newRoot[i] = row.oldRoot[i]
         /\ \A i \in 1 .. NTx :
              IF Len(row.oldRoot) + i <= Len(row.newRoot)
              THEN /\ row.txs[i] = row.newRoot[Len(row.oldRoot) + i].tx
                   /\ row.txs[i] \in Loader!Offsets /\ row.txs[i] # Nop
              ELSE row.txs[i] = Nop
<1>1. row \in Rows /\ Fits(row.txs, NTx, row.oldRoot, row.newRoot)
      /\ Len(row.oldRoot) < Len(row.newRoot)
  BY DEF GoodRow
<1>2. IsRoot(row.oldRoot) /\ IsRoot(row.newRoot)  BY <1>1 DEF Fits
<1>3. /\ Len(row.oldRoot) \in Nat /\ Len(row.newRoot) \in Nat
      /\ \A i \in 1 .. Len(row.newRoot) :
           row.newRoot[i].tx \in Loader!Offsets /\ row.newRoot[i].tx \in Nat
  BY <1>2, RootType DEF IsRoot
<1>4. \A i \in 1 .. NTx : Len(row.oldRoot) + i <= Len(row.newRoot) =>
        Len(row.oldRoot) + i \in 1 .. Len(row.newRoot)
  BY <1>3, NodeAssumption
<1>5. row.txs \in [1 .. NTx -> Loader!Offsets \cup {Nop}]  BY <1>1 DEF Rows
<1>6. ASSUME NEW i \in 1 .. NTx
      PROVE  IF Len(row.oldRoot) + i <= Len(row.newRoot)
             THEN /\ row.txs[i] = row.newRoot[Len(row.oldRoot) + i].tx
                  /\ row.txs[i] \in Loader!Offsets /\ row.txs[i] # Nop
             ELSE row.txs[i] = Nop
  <2>1. row.txs[i] = IF Len(row.oldRoot) + i <= Len(row.newRoot)
                     THEN row.newRoot[Len(row.oldRoot) + i].tx ELSE Nop
    BY <1>1 DEF Fits
  <2> QED BY <1>3, <1>4, <2>1 DEF Nop
<1> QED BY <1>1, <1>2, <1>3, <1>5, <1>6 DEF Fits

\* Full blocks from one root hold the same transactions.
LEMMA UnpaddedSame ==
  ASSUME NEW row, NEW block, GoodRow(row), GoodRow(block), row.oldRoot = block.oldRoot,
         row.txs # block.txs
  PROVE  Padded(row) \/ Padded(block)
<1> SUFFICES ASSUME ~Padded(row), ~Padded(block) PROVE FALSE  OBVIOUS
<1>1. PICK n : n = Len(row.oldRoot)  OBVIOUS
<1>2. /\ Len(row.newRoot) = n + NTx /\ Len(block.newRoot) = n + NTx
      /\ IsRoot(row.newRoot) /\ IsRoot(block.newRoot)
  BY <1>1, UnpaddedLength
<1>3. n \in Nat /\ NTx \in Nat  BY <1>1, RowTypes, NodeAssumption
<1>4. \A i \in 1 .. n + NTx : row.newRoot[i].tx = block.newRoot[i].tx
  BY <1>2, <1>3, RootsAgree
<1>5. ASSUME NEW i \in 1 .. NTx PROVE row.txs[i] = block.txs[i]
  <2>1. n + i <= n + NTx /\ n + i \in 1 .. n + NTx  BY <1>3
  <2>2. row.txs[i] = row.newRoot[n + i].tx  BY <1>1, <1>2, <2>1, RowTypes
  <2>3. block.txs[i] = block.newRoot[n + i].tx  BY <1>1, <1>2, <2>1, RowTypes
  <2> QED BY <1>4, <2>1, <2>2, <2>3
<1>6. /\ row.txs \in [1 .. NTx -> Loader!Offsets \cup {Nop}]
      /\ block.txs \in [1 .. NTx -> Loader!Offsets \cup {Nop}]
  BY RowTypes
<1>7. /\ row.txs = [i \in 1 .. NTx |-> row.txs[i]]
      /\ block.txs = [i \in 1 .. NTx |-> block.txs[i]]
  BY <1>6
<1>8. [i \in 1 .. NTx |-> row.txs[i]] = [i \in 1 .. NTx |-> block.txs[i]]  BY <1>5
<1> QED BY <1>7, <1>8

\* Blocks from one root with the same transactions and different ends hold a transfer
\* to oneself.
LEMMA SameTxsDiffer ==
  ASSUME NEW row, NEW block, GoodRow(row), GoodRow(block), row.oldRoot = block.oldRoot,
         row.txs = block.txs, row.newRoot # block.newRoot
  PROVE  \E o \in Range(block.txs) \ {Nop} : IsSelf(o)
<1>1. PICK n, a, b : n = Len(row.oldRoot) /\ a = row.newRoot /\ b = block.newRoot  OBVIOUS
<1>2. /\ n \in Nat /\ Len(a) \in Nat /\ Len(b) \in Nat /\ NTx \in Nat
      /\ n < Len(a) /\ Len(a) <= n + NTx /\ n < Len(b) /\ Len(b) <= n + NTx
      /\ IsRoot(a) /\ IsRoot(b) /\ a # b
  BY <1>1, RowTypes, NodeAssumption
<1>3. \A i \in 1 .. NTx : n + i <= Len(a) <=> n + i <= Len(b)
  <2> SUFFICES ASSUME NEW i \in 1 .. NTx PROVE n + i <= Len(a) <=> n + i <= Len(b)
    OBVIOUS
  <2>1. n + i <= Len(a) <=> row.txs[i] # Nop  BY <1>1, RowTypes
  <2>2. n + i <= Len(b) <=> block.txs[i] # Nop  BY <1>1, RowTypes
  <2> QED BY <2>1, <2>2
<1>4. Len(a) = Len(b)
  <2>1. Len(a) - n \in 1 .. NTx /\ Len(b) - n \in 1 .. NTx  BY <1>2
  <2>2. n + (Len(a) - n) <= Len(b) /\ n + (Len(b) - n) <= Len(a)  BY <1>2, <1>3, <2>1
  <2> QED BY <1>2, <2>2
<1>5. PICK k \in 1 .. Len(a) : a[k] # b[k]
  <2>1. /\ a \in Seq(AnyEffect)
        /\ b \in Seq(AnyEffect)
    BY <1>2 DEF IsRoot, Roots
  <2> QED BY <1>2, <1>4, <2>1, SeqEqual
<1>6. \A i \in 1 .. n : a[i] = b[i]  BY <1>1, RowTypes
<1>7. PICK j \in 1 .. NTx : k = n + j
  <2>1. k - n \in 1 .. NTx /\ k = n + (k - n)  BY <1>2, <1>5, <1>6
  <2> QED BY <2>1
<1>8. block.txs[j] = b[k].tx /\ block.txs[j] # Nop
  BY <1>1, <1>2, <1>4, <1>5, <1>7, RowTypes
<1>9. block.txs[j] \in Range(block.txs) \ {Nop}
  <2>1. block.txs \in [1 .. NTx -> Loader!Offsets \cup {Nop}]  BY RowTypes
  <2> QED BY <1>7, <1>8, <2>1 DEF Range
<1>10. a[k].tx = b[k].tx  BY <1>2, <1>4, <1>5, RootsAgree
<1>11. /\ a[k] \in AnyEffect
       /\ b[k] \in AnyEffect
       /\ k \in DOMAIN a /\ k \in DOMAIN b
  BY <1>2, <1>4, <1>5, RootType DEF IsRoot
<1>12. a[k].raised # b[k].raised  BY <1>5, <1>10, <1>11 DEF AnyEffect
<1>13. a[k].raised \/ b[k].raised
  <2>1. a[k].raised \in BOOLEAN /\ b[k].raised \in BOOLEAN  BY <1>11 DEF AnyEffect
  <2> QED BY <1>12, <2>1
<1>14. IsSelf(b[k].tx)  BY <1>2, <1>10, <1>11, <1>13 DEF IsRoot
<1> QED BY <1>8, <1>9, <1>14

\* The assertion compares two blocks that start from the same root.
LEMMA NotDeterministicInv == IInv /\ NotDeterministic => IInv'
<1> SUFFICES ASSUME IInv, NotDeterministic PROVE IInv'  OBVIOUS
<1>1. /\ Quiet /\ UNCHANGED <<node, saving, tasks>> /\ pc = "send" /\ pc' = "not deterministic"
      /\ node = "up" /\ Present(Head(ready)) /\ ~SameRoot(Head(ready))
  BY DEF NotDeterministic, Quiet, mainVars, dbVars
<1>2. pc \notin Persisting /\ pc \notin Ended  BY <1>1 DEF Persisting, Ended
<1>3. Kept /\ (NodeInv' /\ PcInv' /\ DivergenceExplained' => IInv')  BY <1>1, <1>2, QuietStep
<1>4. NodeInv'  BY <1>1, <1>3, NodeSame DEF Quiet, IInv, NodeInv, Pcs, Ended
<1>5. PcInv'  BY <1>1 DEF PcInv, Quiet, IInv, Persisting
<1>6. /\ ready # <<>> /\ Len(ready) = 1 /\ Head(ready) = ready[1] /\ DOMAIN ready = {1}
      /\ GoodRow(ready[1]) /\ ready[1].id = blockNum - 1
      /\ blockNum \in Nat /\ ReadyNum = blockNum - 1 /\ ReadyRoot = ready[1].oldRoot
  <2>1. ready # <<>>  BY <1>1 DEF IInv, PcInv
  <2> QED BY <2>1, ReadyBlock DEF IInv
<1>7. blkq = <<>> /\ ready[1].id \in DOMAIN blocks /\ checkOld
  BY <1>1, <1>6 DEF Present, IInv, BlocksInv
<1>9. QueueNum = ready[1].id /\ QueueRoot = ready[1].oldRoot
  BY <1>6, <1>7 DEF QueueNum, QueueRoot
<1>10. /\ GoodRow(blocks[ready[1].id])
       /\ blocks[ready[1].id].oldRoot = ready[1].oldRoot
  BY <1>7, <1>9 DEF IInv, BlocksInv
<1>11. blocks[ready[1].id].newRoot # ready[1].newRoot  BY <1>1, <1>6 DEF SameRoot
<1>12. PICK row, block : row = blocks[ready[1].id] /\ block = ready[1]  OBVIOUS
<1>13. /\ GoodRow(row) /\ GoodRow(block) /\ row.oldRoot = block.oldRoot
       /\ row.newRoot # block.newRoot
  BY <1>6, <1>10, <1>11, <1>12
<1>15. /\ topic' = topic /\ Head(ready)' = block /\ blocks'[block.id] = row
       /\ block.id \in DOMAIN blocks'
  BY <1>1, <1>6, <1>7, <1>12 DEF Quiet, loaderVars
<1>14. DivergenceExplained'
  <2>1. CASE row.txs = block.txs
    <3>1. PICK o \in Range(block.txs) \ {Nop} : IsSelf(o)  BY <1>13, <2>1, SameTxsDiffer
    <3>2. IsSelf(o)'  BY <1>15, <3>1 DEF IsSelf
    <3> QED BY <1>13, <1>15, <2>1, <3>2 DEF DivergenceExplained
  <2>2. CASE row.txs # block.txs
    <3>1. Padded(row) \/ Padded(block)  BY <1>13, <2>2, UnpaddedSame
    <3> QED BY <1>13, <1>15, <2>2, <3>1 DEF DivergenceExplained, Padded
  <2> QED BY <2>1, <2>2
<1> QED BY <1>3, <1>4, <1>5, <1>14

-----------------------------------------------------------------------------
(* Messages applied, and blocks cut. *)

\* The types of the buffer and of the roots around it.
LEMMA BufferTypes ==
  ASSUME BufferInv, NodeInv
  PROVE  /\ Len(buffer) \in Nat /\ DOMAIN buffer = 1 .. Len(buffer)
         /\ IsRoot(BufferRoot) /\ IsRoot(applied) /\ applied \in Roots /\ BufferRoot \in Roots
         /\ Len(BufferRoot) \in Nat /\ Len(applied) \in Nat
         /\ BufferOffsets \in [1 .. Len(buffer) -> Loader!Offsets \cup {Nop}]
<1>1. buffer \in Seq(Entries)  BY DEF NodeInv
<1>2. IsRoot(BufferRoot) /\ IsRoot(applied)  BY DEF BufferInv, Fits
<1>3. applied \in Roots /\ BufferRoot \in Roots  BY <1>2 DEF IsRoot
<1>4. Len(BufferRoot) \in Nat /\ Len(applied) \in Nat  BY <1>3, RootType
<1>5. ASSUME NEW i \in 1 .. Len(buffer) PROVE buffer[i].offset \in Loader!Offsets \cup {Nop}
  <2>1. buffer[i] \in Entries  BY DEF BufferInv
  <2> QED BY <2>1 DEF Entries
<1>6. BufferOffsets \in [1 .. Len(buffer) -> Loader!Offsets \cup {Nop}]
  BY <1>5 DEF BufferOffsets
<1> QED BY <1>1, <1>2, <1>3, <1>4, <1>6

\* A transaction makes the buffer and the state one longer.
LEMMA BufferGrows ==
  ASSUME BufferInv, NodeInv, NEW effect, effect.tx \in Loader!Offsets,
         Len(buffer) < NTx, IsRoot(applied)', applied' = Append(applied, effect),
         buffer' = Append(buffer, Entry(effect)), Kept
  PROVE  BufferInv' /\ UNCHANGED BufferRoot /\ buffer' \in Seq(Entries')
<1>1. /\ Len(buffer) \in Nat /\ DOMAIN buffer = 1 .. Len(buffer)
      /\ IsRoot(BufferRoot) /\ applied \in Roots
      /\ Len(BufferRoot) \in Nat /\ Len(applied) \in Nat
  BY BufferTypes
<1>11. Entry(effect) \in Entries'
  <2>1. applied \in Roots'  BY <1>1 DEF Kept
  <2>2. Append(applied, effect) \in Roots'  BY DEF IsRoot
  <2>3. effect.tx \in Loader!Offsets'  BY DEF Kept
  <2> QED BY <2>1, <2>2, <2>3 DEF Entries, Entry
<1>12. buffer \in Seq(Entries') /\ buffer' \in Seq(Entries')
  <2>1. Entries \subseteq Entries'  BY DEF Kept
  <2>2. buffer \in Seq(Entries')  BY <2>1 DEF NodeInv
  <2> QED BY <1>11, <2>2
<1>2. /\ Len(buffer') = Len(buffer) + 1 /\ buffer' # <<>>
      /\ \A i \in 1 .. Len(buffer) : buffer'[i] = buffer[i]
      /\ buffer'[Len(buffer) + 1] = Entry(effect)
  BY <1>11, <1>12
<1>3. /\ Len(applied') = Len(applied) + 1
      /\ \A i \in 1 .. Len(applied) : applied'[i] = applied[i]
      /\ applied'[Len(applied) + 1] = effect
  BY <1>1 DEF Roots
<1>4. BufferRoot' = BufferRoot
  <2>1. CASE buffer = <<>>
    <3>1. buffer'[1] = Entry(effect)  BY <1>2, <2>1
    <3> QED BY <1>2, <2>1, <3>1 DEF BufferRoot, Entry
  <2>2. CASE buffer # <<>>
    <3>1. buffer'[1] = buffer[1]  BY <1>1, <1>2, <2>2 DEF NodeInv
    <3> QED BY <1>2, <2>2, <3>1 DEF BufferRoot
  <2> QED BY <2>1, <2>2
<1>5. Len(applied) = Len(BufferRoot) + Len(buffer)  BY DEF BufferInv
<1>6. \A i \in 1 .. Len(buffer) : buffer[i].offset = applied[Len(BufferRoot) + i].tx
  <2> SUFFICES ASSUME NEW i \in 1 .. Len(buffer)
               PROVE  buffer[i].offset = applied[Len(BufferRoot) + i].tx
    OBVIOUS
  <2>1. BufferOffsets[i] = buffer[i].offset  BY DEF BufferOffsets
  <2>2. Len(BufferRoot) + i <= Len(applied)  BY <1>1, <1>5
  <2> QED BY <2>1, <2>2 DEF BufferInv, Fits
<1>7. \A i \in 1 .. Len(buffer') : buffer'[i].offset = applied'[Len(BufferRoot) + i].tx
  <2> SUFFICES ASSUME NEW i \in 1 .. Len(buffer) + 1
               PROVE  buffer'[i].offset = applied'[Len(BufferRoot) + i].tx
    BY <1>2
  <2>1. CASE i \in 1 .. Len(buffer)
    <3>1. Len(BufferRoot) + i \in 1 .. Len(applied)  BY <1>1, <1>5, <2>1
    <3>2. applied'[Len(BufferRoot) + i] = applied[Len(BufferRoot) + i]  BY <1>3, <3>1
    <3>3. buffer'[i].offset = buffer[i].offset  BY <1>2, <2>1
    <3> QED BY <1>6, <2>1, <3>2, <3>3
  <2>2. CASE i = Len(buffer) + 1
    <3>1. Len(BufferRoot) + i = Len(applied) + 1  BY <1>1, <1>5, <2>2
    <3>2. buffer'[i] = Entry(effect)  BY <1>2, <2>2
    <3>3. buffer'[i].offset = effect.tx  BY <3>2 DEF Entry
    <3>4. applied'[Len(applied) + 1] = effect  BY <1>3
    <3>5. applied'[Len(BufferRoot) + i] = effect  BY <3>1, <3>4
    <3> QED BY <3>3, <3>5
  <2>3. i \in 1 .. Len(buffer) \/ i = Len(buffer) + 1  BY <1>1
  <2> QED BY <2>1, <2>2, <2>3
<1>8. IsRoot(BufferRoot)'  BY <1>1, <1>4 DEF Kept
<1>9. /\ Len(BufferRoot) < Len(applied')
      /\ Len(applied') = Len(BufferRoot) + Len(buffer')
  BY <1>1, <1>2, <1>3, <1>5
<1>10. Fits(BufferOffsets, Len(buffer), BufferRoot, applied)'
  <2>1. \A i \in 1 .. Len(buffer') : BufferOffsets'[i] = buffer'[i].offset
    BY DEF BufferOffsets
  <2>2. \A i \in 1 .. Len(buffer') : Len(BufferRoot) + i <= Len(applied')
    BY <1>1, <1>2, <1>9
  <2>3. IsRoot(applied)'  OBVIOUS
  <2>4. Len(BufferRoot) <= Len(applied') /\ Len(applied') <= Len(BufferRoot) + Len(buffer')
    BY <1>1, <1>2, <1>9
  <2>5. \A i \in 1 .. Len(BufferRoot) : applied'[i] = BufferRoot[i]
    <3>1. \A i \in 1 .. Len(BufferRoot) : i \in 1 .. Len(applied)  BY <1>1, <1>5
    <3>2. \A i \in 1 .. Len(BufferRoot) : applied[i] = BufferRoot[i]  BY DEF BufferInv, Fits
    <3> QED BY <1>3, <3>1, <3>2
  <2> QED BY <1>4, <1>7, <1>8, <2>1, <2>2, <2>3, <2>4, <2>5 DEF Fits
<1>13. \A i \in 1 .. Len(buffer') : buffer'[i] \in Entries'  BY <1>12
<1>14. buffer'[Len(buffer')].after = applied'  BY <1>2 DEF Entry
<1> QED BY <1>4, <1>9, <1>10, <1>12, <1>13, <1>14 DEF BufferInv

\* A message applied.
LEMMA ProcRecvInv == IInv /\ ProcRecv => IInv'
<1> SUFFICES ASSUME IInv, ProcRecv PROVE IInv'  OBVIOUS
<1>0. PICK o : o = Head(msgq)  OBVIOUS
<1>1. /\ node = "up" /\ pc = "recv" /\ pc' = "pop" /\ Loader!Recv
      /\ UNCHANGED <<node, blockNum, ready, checkOld, blkq, saving, blocks, tasks, dumps>>
      /\ IF IsTx(o) THEN \E effect \in Effects(o) : Apply(effect) ELSE UNCHANGED <<applied, buffer>>
  BY <1>0 DEF ProcRecv, mainVars, dbVars
<1>2. /\ msgq # <<>> /\ received' = Append(received, o) /\ UNCHANGED <<topic, logStart>>
  BY <1>0, <1>1 DEF Loader!Recv
<1>3. LP!IInv /\ LoaderInv  BY DEF IInv, LoaderInv
<1>4. Kept  BY <1>2, <1>3, KeptSame
<1>5. LP!IInv'  BY <1>1, <1>3, LoaderRecv DEF Ended
<1>6. ready = <<>> /\ Len(buffer) < NTx  BY <1>1 DEF IInv, PcInv
<1>7. /\ Len(buffer) \in Nat /\ IsRoot(applied) /\ applied \in Roots /\ Len(applied) \in Nat
  BY BufferTypes DEF IInv
<1>8. /\ o \in Loader!Offsets /\ LastReceived' = o
      /\ IsTx(o) => \A effect \in Effects(o) :
           /\ effect.tx = o /\ IsRoot(Append(applied, effect))
           /\ MadeOf(Append(applied, effect), o)
      /\ ~IsTx(o) => MadeOf(applied, o)
  BY <1>0, <1>2, <1>3, <1>7, RecvApplies DEF IInv
<1>9. Range(received) \subseteq Range(received')
  <2>1. received \in Seq(Loader!Offsets)  BY <1>3, LoaderTypes
  <2>2. DOMAIN received = 1 .. Len(received) /\ Len(received) \in Nat
        /\ DOMAIN received' = 1 .. Len(received) + 1
        /\ \A i \in 1 .. Len(received) : received'[i] = received[i]
    BY <1>2, <1>8, <2>1
  <2>3. \A i \in DOMAIN received : i \in DOMAIN received' /\ received'[i] = received[i]
    BY <2>2
  <2> QED BY <2>3 DEF Range
<1>10. AppliedExactlyOnce'
  <2>1. PICK root : root = applied'  OBVIOUS
  <2>2. MadeOf(root, o)
    <3>1. CASE IsTx(o)
      <4>1. PICK effect \in Effects(o) : Apply(effect)  BY <1>1, <3>1
      <4> QED BY <1>8, <2>1, <3>1, <4>1 DEF Apply
    <3>2. CASE ~IsTx(o)  BY <1>1, <1>8, <2>1, <3>2
    <3> QED BY <3>1, <3>2
  <2>3. MadeOf(root, o)'
    <3>1. \A r, offset : MadeOf(r, offset) /\ offset \in Loader!Offsets \cup {-1}
                           => MadeOf(r, offset)'
      BY <1>4 DEF Kept
    <3> QED BY <1>8, <2>2, <3>1
  <2> QED BY <1>8, <2>1, <2>3 DEF AppliedExactlyOnce
<1>11. BufferInv' /\ UNCHANGED BufferRoot /\ buffer' \in Seq(Entries')
  <2>1. CASE IsTx(o)
    <3>0. PICK effect \in Effects(o) : Apply(effect)  BY <1>1, <2>1
    <3>1. effect.tx \in Loader!Offsets /\ IsRoot(Append(applied, effect))  BY <1>8, <2>1
    <3>2. PICK root : root = Append(applied, effect)  OBVIOUS
    <3>3. IsRoot(root)'  BY <1>4, <3>1, <3>2 DEF Kept
    <3>4. /\ applied' = Append(applied, effect) /\ buffer' = Append(buffer, Entry(effect))
          /\ IsRoot(applied)'
      BY <3>0, <3>2, <3>3 DEF Apply
    <3> QED BY <1>4, <1>6, <3>1, <3>4, BufferGrows DEF IInv
  <2>2. CASE ~IsTx(o)
    <3>1. UNCHANGED <<buffer, applied>>  BY <1>1, <2>2
    <3>2. Entries \subseteq Entries'  BY <1>4 DEF Kept
    <3>3. buffer' \in Seq(Entries')  BY <3>1, <3>2 DEF IInv, NodeInv
    <3> QED BY <1>4, <3>1, <3>3, BufferSame DEF IInv
  <2> QED BY <2>1, <2>2
<1>12. NodeInv'
  <2>1. Rows \subseteq Rows'  BY <1>4 DEF Kept
  <2>2. ready' \in Seq(Rows') /\ blkq' \in Seq(Rows')  BY <1>1, <2>1 DEF IInv, NodeInv
  <2>3. saving' \in Rows' \cup {NoBlock}  BY <1>1, <2>1 DEF IInv, NodeInv
  <2> QED BY <1>1, <1>11, <2>2, <2>3 DEF IInv, NodeInv, Pcs, NoBlock
<1>13. PcInv'
  <2>1. Len(buffer') <= NTx
    <3>1. CASE IsTx(o)
      <4>1. Len(buffer') = Len(buffer) + 1  BY <1>1, <3>1 DEF IInv, NodeInv, Apply
      <4>2. NTx \in Nat  BY NodeAssumption
      <4> QED BY <1>6, <1>7, <4>1, <4>2
    <3>2. CASE ~IsTx(o)
      <4>1. buffer' = buffer /\ NTx \in Nat  BY <1>1, <3>2, NodeAssumption
      <4> QED BY <1>6, <1>7, <4>1
    <3> QED BY <3>1, <3>2
  <2> QED BY <1>1, <1>6, <2>1 DEF PcInv, Persisting
<1>14. DivergenceExplained'  BY <1>1, <1>4, DivergenceSame DEF IInv
<1>15. pc \notin Persisting  BY <1>1 DEF Persisting
<1> QED BY <1>1, <1>2, <1>4, <1>5, <1>9, <1>10, <1>11, <1>12, <1>13, <1>14, <1>15, BufferStep

\* Nops fill the buffer up to a block.
LEMMA PaddingFills ==
  ASSUME NEW n \in Nat, n < NTx
  PROVE  n = 0 \/ (-n) % NTx = NTx - n
<1>1. NTx \in Nat \ {0}  BY NodeAssumption
<1> QED BY <1>1

\* Two minutes without a message.
LEMMA ProcTimeoutInv == IInv /\ ProcTimeout => IInv'
<1> SUFFICES ASSUME IInv, ProcTimeout PROVE IInv'  OBVIOUS
<1>1. /\ node = "up" /\ pc = "recv" /\ pc' = "pop" /\ buffer # <<>>
      /\ UNCHANGED <<loaderVars, node, applied, blockNum, ready, checkOld, blkq, saving,
                     blocks, tasks, dumps>>
      /\ buffer' = buffer \o Padding
  BY DEF ProcTimeout, mainVars, dbVars
<1>2. UNCHANGED <<topic, logStart, received>>  BY <1>1 DEF loaderVars
<1>3. LP!IInv /\ LoaderInv  BY DEF IInv, LoaderInv
<1>4. Kept  BY <1>2, <1>3, KeptSame
<1>5. LP!IInv'  BY <1>1, <1>3, LoaderIdle DEF Ended
<1>6. ready = <<>> /\ Len(buffer) < NTx  BY <1>1 DEF IInv, PcInv
<1>7. /\ Len(buffer) \in Nat /\ DOMAIN buffer = 1 .. Len(buffer)
      /\ IsRoot(BufferRoot) /\ IsRoot(applied) /\ applied \in Roots
      /\ Len(BufferRoot) \in Nat /\ Len(applied) \in Nat
  BY BufferTypes DEF IInv
<1>8. buffer \in Seq(Entries)  BY DEF IInv, NodeInv
<1>9. Len(buffer) \in Nat \ {0} /\ NTx \in Nat  BY <1>1, <1>8, NodeAssumption
<1>10. PICK k : k = (-Len(buffer)) % NTx  OBVIOUS
<1>11. k = NTx - Len(buffer) /\ k \in Nat
  <2>1. PICK n \in Nat : n = Len(buffer)  BY <1>9
  <2>2. n # 0 /\ n < NTx  BY <1>6, <1>9, <2>1
  <2>3. (-n) % NTx = NTx - n  BY <2>2, PaddingFills
  <2> QED BY <1>9, <1>10, <2>1, <2>2, <2>3
<1>12. Padding = [i \in 1 .. k |-> NopEntry]  BY <1>10 DEF Padding
<1>13. NopEntry \in Entries  BY <1>7 DEF NopEntry, Entries
<1>14. Padding \in Seq(Entries) /\ Len(Padding) = k /\ \A i \in 1 .. k : Padding[i] = NopEntry
  BY <1>11, <1>12, <1>13
<1>15. /\ buffer' \in Seq(Entries) /\ Len(buffer') = Len(buffer) + k /\ buffer' # <<>>
       /\ \A i \in 1 .. Len(buffer) : buffer'[i] = buffer[i]
       /\ \A i \in 1 .. k : buffer'[Len(buffer) + i] = NopEntry
  <2>1. /\ (buffer \o Padding) \in Seq(Entries) /\ Len(buffer \o Padding) = Len(buffer) + k
        /\ \A i \in 1 .. Len(buffer) : (buffer \o Padding)[i] = buffer[i]
    BY <1>8, <1>11, <1>14
  <2>2. ASSUME NEW i \in 1 .. k PROVE (buffer \o Padding)[Len(buffer) + i] = NopEntry
    <3>1. (buffer \o Padding)[Len(buffer) + i] = Padding[i]
      BY <1>8, <1>9, <1>11, <1>14
    <3> QED BY <1>14, <3>1
  <2>3. Len(buffer') # 0  BY <1>1, <1>9, <1>11, <2>1
  <2> QED BY <1>1, <2>1, <2>2, <2>3
<1>16. Len(buffer') = NTx  BY <1>9, <1>11, <1>15
<1>17. UNCHANGED BufferRoot
  <2>1. buffer'[1] = buffer[1]  BY <1>9, <1>15
  <2> QED BY <1>1, <1>15, <2>1 DEF BufferRoot
<1>18. Len(applied) = Len(BufferRoot) + Len(buffer) /\ Len(BufferRoot) < Len(applied)
  BY <1>1, <1>6 DEF IInv, BufferInv
<1>19. ASSUME NEW i \in 1 .. NTx
       PROVE  buffer'[i].offset = IF Len(BufferRoot) + i <= Len(applied)
                                  THEN applied[Len(BufferRoot) + i].tx ELSE Nop
  <2>1. CASE i \in 1 .. Len(buffer)
    <3>1. BufferOffsets[i] = buffer'[i].offset  BY <1>15, <2>1 DEF BufferOffsets
    <3> QED BY <2>1, <3>1 DEF IInv, BufferInv, Fits
  <2>2. CASE i \notin 1 .. Len(buffer)
    <3>1. i - Len(buffer) \in 1 .. k  BY <1>9, <1>11, <2>2
    <3>2. buffer'[Len(buffer) + (i - Len(buffer))] = NopEntry  BY <1>15, <3>1
    <3>3. Len(buffer) + (i - Len(buffer)) = i  BY <1>9
    <3>4. buffer'[i] = NopEntry  BY <3>2, <3>3
    <3>5. buffer'[i].offset = Nop  BY <3>4 DEF NopEntry
    <3>6. ~ (Len(BufferRoot) + i <= Len(applied))  BY <1>7, <1>9, <1>18, <2>2
    <3> QED BY <3>5, <3>6
  <2> QED BY <2>1, <2>2
<1>20. BufferInv'
  <2>1. Fits(BufferOffsets, Len(buffer), BufferRoot, applied)'
    <3>1. IsRoot(BufferRoot)' /\ IsRoot(applied)'
      <4>1. \A root : IsRoot(root) => IsRoot(root)'  BY <1>4 DEF Kept
      <4> QED BY <1>1, <1>7, <1>17, <4>1
    <3>2. \A i \in 1 .. NTx : BufferOffsets'[i] = buffer'[i].offset
      BY <1>16 DEF BufferOffsets
    <3>3. Len(BufferRoot) <= Len(applied) /\ Len(applied) <= Len(BufferRoot) + NTx
      BY <1>6, <1>7, <1>9, <1>18
    <3>4. \A i \in 1 .. Len(BufferRoot) : applied[i] = BufferRoot[i]
      BY DEF IInv, BufferInv, Fits
    <3> QED BY <1>1, <1>16, <1>17, <1>19, <3>1, <3>2, <3>3, <3>4 DEF Fits
  <2>2. buffer'[Len(buffer')].after = applied
    <3>1. k \in 1 .. k /\ Len(buffer) + k = NTx  BY <1>6, <1>9, <1>11
    <3>2. buffer'[NTx] = NopEntry  BY <1>15, <3>1
    <3>3. buffer'[Len(buffer')] = NopEntry  BY <1>16, <3>2
    <3> QED BY <3>3 DEF NopEntry
  <2>3. \A i \in 1 .. Len(buffer') : buffer'[i] \in Entries'
    BY <1>4, <1>15 DEF Kept
  <2>4. ~ (Len(buffer') < NTx)  BY <1>9, <1>16
  <2> QED BY <1>1, <1>17, <1>18, <2>1, <2>2, <2>3, <2>4 DEF BufferInv
<1>21. NodeInv'
  <2>1. Rows \subseteq Rows' /\ Entries \subseteq Entries'  BY <1>4 DEF Kept
  <2>2. ready' \in Seq(Rows') /\ blkq' \in Seq(Rows')  BY <1>1, <2>1 DEF IInv, NodeInv
  <2>3. saving' \in Rows' \cup {NoBlock}  BY <1>1, <2>1 DEF IInv, NodeInv
  <2>4. buffer' \in Seq(Entries')  BY <1>15, <2>1
  <2> QED BY <1>1, <2>2, <2>3, <2>4 DEF IInv, NodeInv, Pcs, NoBlock
<1>22. PcInv'
  <2>1. Len(buffer') <= NTx  BY <1>9, <1>16
  <2> QED BY <1>1, <1>6, <2>1 DEF PcInv, Persisting
<1>23. DivergenceExplained'  BY <1>1, <1>4, DivergenceSame DEF IInv
<1>24. AppliedExactlyOnce'  BY <1>1, <1>2, <1>3, <1>4, AppliedSame DEF IInv
<1>25. pc \notin Persisting  BY <1>1 DEF Persisting
<1> QED BY <1>1, <1>2, <1>4, <1>5, <1>17, <1>20, <1>21, <1>22, <1>23, <1>24, <1>25, BufferStep

\* The block cut from a full buffer.
LEMMA BlockCut ==
  ASSUME BufferInv, NodeInv, Len(buffer) = NTx, NEW id \in Nat
  PROVE  LET row == Block(id, SubSeq(buffer, 1, NTx))
         IN  /\ GoodRow(row) /\ row.id = id
             /\ row.oldRoot = BufferRoot /\ row.newRoot = applied
             /\ SubSeq(buffer, NTx + 1, Len(buffer)) = <<>>
<1>1. NTx \in Nat \ {0}  BY NodeAssumption
<1>2. buffer \in Seq(Entries) /\ buffer # <<>>  BY <1>1 DEF NodeInv
<1>3. SubSeq(buffer, 1, NTx) = buffer  BY <1>1, <1>2
<1>4. SubSeq(buffer, NTx + 1, Len(buffer)) = <<>>  BY <1>1, <1>2
<1>5. Head(buffer) = buffer[1] /\ Last(buffer) = buffer[Len(buffer)]
  BY <1>2 DEF Last
<1>6. BufferRoot = buffer[1].before  BY <1>2 DEF BufferRoot
<1>7. applied = buffer[Len(buffer)].after /\ Len(BufferRoot) < Len(applied)
  BY <1>2 DEF BufferInv
<1>8. BufferOffsets = [i \in 1 .. NTx |-> buffer[i].offset]  BY DEF BufferOffsets
<1>9. PICK row : row = Block(id, SubSeq(buffer, 1, NTx))  OBVIOUS
<1>10. row = [id |-> id, oldRoot |-> BufferRoot, newRoot |-> applied, txs |-> BufferOffsets]
  BY <1>3, <1>5, <1>6, <1>7, <1>8, <1>9 DEF Block
<1>11. /\ row.id = id /\ row.oldRoot = BufferRoot /\ row.newRoot = applied
       /\ row.txs = BufferOffsets
  BY <1>10
<1>12. row \in Rows
  <2>1. /\ BufferRoot \in Roots /\ applied \in Roots
        /\ BufferOffsets \in [1 .. NTx -> Loader!Offsets \cup {Nop}]
    BY BufferTypes
  <2> QED BY <1>10, <2>1 DEF Rows
<1>13. Fits(row.txs, NTx, row.oldRoot, row.newRoot)
  BY <1>11 DEF BufferInv
<1> QED BY <1>4, <1>7, <1>9, <1>11, <1>12, <1>13 DEF GoodRow

\* A block cut from the buffer.
LEMMA ForgeInv == IInv /\ Forge => IInv'
<1> SUFFICES ASSUME IInv, Forge PROVE IInv'  OBVIOUS
<1>1. PICK row : row = Block(blockNum, SubSeq(buffer, 1, NTx))  OBVIOUS
<1>2. /\ node = "up" /\ pc = "pop" /\ Len(buffer) >= NTx
      /\ UNCHANGED <<loaderVars, node, applied, checkOld, blkq, saving, blocks, tasks, dumps>>
      /\ ready' = Append(ready, row) /\ blockNum' = blockNum + 1
      /\ buffer' = SubSeq(buffer, NTx + 1, Len(buffer))
      /\ pc' = IF DumpDue(blockNum + 1) THEN "persist" ELSE "pop"
  BY <1>1 DEF Forge, mainVars, dbVars
<1>3. UNCHANGED <<topic, logStart, received>>  BY <1>2 DEF loaderVars
<1>4. LP!IInv /\ LoaderInv  BY DEF IInv, LoaderInv
<1>5. Kept  BY <1>3, <1>4, KeptSame
<1>6. LP!IInv'  BY <1>2, <1>4, LoaderIdle DEF Ended
<1>7. NTx \in Nat \ {0} /\ blockNum \in Nat /\ Len(buffer) \in Nat
  BY NodeAssumption, BufferTypes DEF IInv, NodeInv
<1>8. Len(buffer) = NTx /\ ready = <<>>
  <2>1. Len(buffer) <= NTx /\ (ready # <<>> => Len(buffer) < NTx)
    BY <1>2 DEF IInv, PcInv
  <2> QED BY <1>2, <1>7, <2>1
<1>9. /\ GoodRow(row) /\ row.id = blockNum
      /\ row.oldRoot = BufferRoot /\ row.newRoot = applied /\ buffer' = <<>>
  BY <1>1, <1>2, <1>7, <1>8, BlockCut DEF IInv
<1>10. ready' = <<row>> /\ ready' # <<>> /\ Len(ready') = 1 /\ ready'[1] = row
  BY <1>2, <1>8
<1>11. BufferRoot' = applied /\ Len(buffer') = 0  BY <1>2, <1>9 DEF BufferRoot
<1>12. ReadyNum' = ReadyNum /\ ReadyRoot' = ReadyRoot /\ ReadyNum = blockNum
  BY <1>2, <1>7, <1>8, <1>9, <1>10 DEF ReadyNum, ReadyRoot
<1>13. QueueNum' = QueueNum /\ QueueRoot' = QueueRoot
  BY <1>2, <1>12 DEF QueueNum, QueueRoot
<1>14. GoodRow(row)' /\ row \in Rows'
  BY <1>5, <1>9 DEF Kept, GoodRow
<1>15. AppliedExactlyOnce'  BY <1>2, <1>3, <1>4, <1>5, AppliedSame DEF IInv
<1>16. NodeInv'
  <2>1. Rows \subseteq Rows'  BY <1>5 DEF Kept
  <2>2. ready' \in Seq(Rows') /\ blkq' \in Seq(Rows')
    BY <1>2, <1>10, <1>14, <2>1 DEF IInv, NodeInv
  <2>3. saving' \in Rows' \cup {NoBlock}  BY <1>2, <2>1 DEF IInv, NodeInv
  <2>4. buffer' \in Seq(Entries')  BY <1>9
  <2>5. pc' \in Pcs  BY <1>2 DEF Pcs
  <2> QED BY <1>2, <1>7, <2>2, <2>3, <2>4, <2>5 DEF IInv, NodeInv, NoBlock
<1>17. BufferInv'
  <2>1. IsRoot(applied)'
    <3>1. IsRoot(applied)  BY BufferTypes DEF IInv
    <3> QED BY <1>2, <1>5, <3>1 DEF Kept
  <2>2. Len(applied) \in Nat  BY BufferTypes DEF IInv
  <2>3. /\ Len(applied) <= Len(applied) /\ Len(applied) <= Len(applied) + 0
        /\ Len(applied) = Len(applied) + 0 /\ 1 .. 0 = {}
    BY <2>2
  <2>4. Fits(BufferOffsets, 0, BufferRoot, applied)'
    BY <1>2, <1>11, <2>1, <2>3 DEF Fits
  <2>5. Fits(BufferOffsets, Len(buffer), BufferRoot, applied)'  BY <1>11, <2>4
  <2> QED BY <1>2, <1>9, <1>11, <2>3, <2>5 DEF BufferInv
<1>18. PipelineInv'
  <2>1. Queued(ready, blockNum, BufferRoot)'
    BY <1>2, <1>7, <1>9, <1>10, <1>11, <1>14 DEF Queued
  <2>2. Queued(blkq, ReadyNum, ReadyRoot)'
    BY <1>2, <1>5, <1>12 DEF IInv, PipelineInv, Queued, Kept
  <2> QED BY <1>13, <2>1, <2>2 DEF IInv, PipelineInv
<1>19. blockNum + 1 \notin DOMAIN dumps
  BY <1>7 DEF IInv, DumpsInv
<1>20. PcInv'
  <2>1. CASE DumpDue(blockNum + 1)
    <3>1. pc' = "persist" /\ DumpDue(blockNum)'  BY <1>2, <2>1 DEF DumpDue
    <3> QED BY <1>2, <1>7, <1>9, <1>10, <1>11, <1>19, <3>1 DEF PcInv, Persisting
  <2>2. CASE ~DumpDue(blockNum + 1)
    <3>1. pc' = "pop"  BY <1>2, <2>2
    <3> QED BY <1>2, <1>7, <1>9, <1>10, <1>11, <3>1 DEF PcInv, Persisting
  <2> QED BY <2>1, <2>2
<1>21. DumpsInv'
  <2> SUFFICES ASSUME NEW n \in DOMAIN dumps
               PROVE  (/\ n \in 1 .. blockNum /\ DumpDue(n)
                       /\ ~Complete(n) => n = blockNum /\ pc \in Persisting
                       /\ Complete(n) =>
                            /\ DOMAIN dumps[n] = {"block", "kafka", "state"}
                            /\ dumps[n].block = n /\ dumps[n].kafka \in Loader!Offsets
                            /\ IsRoot(dumps[n].state)
                            /\ MadeOf(dumps[n].state, dumps[n].kafka)
                            /\ (\A m \in DOMAIN dumps : m <= n) =>
                                 dumps[n].kafka \in Range(received))'
    BY <1>2 DEF DumpsInv
  <2>1. pc \notin Persisting  BY <1>2 DEF Persisting
  <2>2. Complete(n)  BY <2>1, AllComplete DEF IInv
  <2>3. Complete(n)'  BY <1>2, <2>2 DEF Complete
  <2>4. n \in 1 .. blockNum' /\ DumpDue(n)'
    BY <1>2, <1>7 DEF IInv, DumpsInv, DumpDue
  <2>5. MadeOf(dumps[n].state, dumps[n].kafka)'
    <3>1. PICK root, offset : root = dumps[n].state /\ offset = dumps[n].kafka  OBVIOUS
    <3>2. MadeOf(root, offset) /\ offset \in Loader!Offsets
      BY <2>2, <3>1 DEF IInv, DumpsInv
    <3>3. MadeOf(root, offset)'  BY <1>5, <3>2 DEF Kept
    <3> QED BY <1>2, <3>1, <3>3
  <2>6. dumps[n].kafka \in Loader!Offsets' /\ IsRoot(dumps[n].state)'
    <3>1. PICK root, offset : root = dumps[n].state /\ offset = dumps[n].kafka  OBVIOUS
    <3>2. IsRoot(root) /\ offset \in Loader!Offsets
      BY <2>2, <3>1 DEF IInv, DumpsInv
    <3>3. IsRoot(root)' /\ offset \in Loader!Offsets'  BY <1>5, <3>2 DEF Kept
    <3>4. dumps' = dumps  BY <1>2
    <3> QED BY <3>1, <3>3, <3>4
  <2> QED BY <1>2, <1>3, <2>2, <2>3, <2>4, <2>5, <2>6 DEF IInv, DumpsInv
<1>22. \A n : DumpOf(n)' <=> DumpOf(n)  BY <1>2 DEF DumpOf, Complete
<1>23. \A num, root : StartsAt(num, root)' <=> StartsAt(num, root)
  BY <1>2, <1>22 DEF StartsAt
<1>24. StartsInv'
  <2>1. ~DumpOf(blockNum + 1)  BY <1>19 DEF DumpOf
  <2>2. StartsAt(blockNum + 1, applied)  BY <1>7, <2>1 DEF StartsAt
  <2>3. StartsAt(blockNum, BufferRoot)  BY DEF IInv, StartsInv
  <2>4. RowStarts(row)'  BY <1>9, <1>23, <2>2, <2>3 DEF RowStarts
  <2>5. \A r : RowStarts(r) => RowStarts(r)'  BY <1>23 DEF RowStarts
  <2>6. StartsAt(blockNum, BufferRoot)'  BY <1>2, <1>11, <1>23, <2>2
  <2>7. \A i \in 1 .. Len(ready') : RowStarts(ready[i])'  BY <1>10, <2>4
  <2>8. \A i \in 1 .. Len(blkq) : RowStarts(blkq[i])'  BY <1>2, <2>5 DEF IInv, StartsInv
  <2>9. \A id \in DOMAIN blocks : RowStarts(blocks[id])'
    BY <1>2, <2>5 DEF IInv, StartsInv
  <2> QED BY <1>2, <2>6, <2>7, <2>8, <2>9 DEF StartsInv
<1>25. DueInv'
  <2>1. \A id \in DOMAIN blocks : DumpDue(id + 1)' => DumpOf(id + 1)'
    BY <1>22 DEF IInv, DueInv, DumpDue
  <2>2. ASSUME NEW num \in QueueNum .. blockNum, DumpDue(num + 1)
        PROVE  DumpOf(num + 1) \/ (num + 1 = blockNum' /\ pc' \in Persisting)
    <3>1. CASE num = blockNum  BY <1>2, <2>2, <3>1 DEF Persisting
    <3>2. CASE num # blockNum
      <4>1. QueueNum \in Nat  BY DEF IInv, PipelineInv
      <4>2. num \in QueueNum .. blockNum - 1  BY <1>7, <3>2, <4>1
      <4>3. pc \notin Persisting  BY <1>2 DEF Persisting
      <4> QED BY <2>2, <4>2, <4>3 DEF IInv, DueInv
    <3> QED BY <3>1, <3>2
  <2>3. QueueNum' .. blockNum' - 1 = QueueNum .. blockNum  BY <1>2, <1>7, <1>13
  <2> QED BY <1>2, <1>22, <2>1, <2>2, <2>3 DEF DueInv, DumpDue
<1>26. BlocksInv'
  <2>1. \A num : Follows(num) => Follows(num)'  BY <1>2 DEF Follows
  <2>2. \A r : GoodRow(r) => GoodRow(r)'  BY <1>5 DEF Kept
  <2> QED BY <1>2, <1>13, <2>1, <2>2 DEF IInv, BlocksInv
<1>27. DivergenceExplained'  BY <1>2 DEF DivergenceExplained
<1> QED BY <1>3, <1>6, <1>15, <1>16, <1>17, <1>18, <1>20, <1>21, <1>24, <1>25, <1>26, <1>27
        DEF IInv

-----------------------------------------------------------------------------
(* Dumps written. *)

\* A key written to the dump of the next block.
LEMMA WrittenKey ==
  ASSUME NEW key, NEW value, blockNum \in DOMAIN dumps, dumps' = Written(key, value)
  PROVE  /\ DOMAIN dumps' = DOMAIN dumps
         /\ \A n \in DOMAIN dumps : n # blockNum => dumps'[n] = dumps[n]
         /\ DOMAIN dumps'[blockNum] = DOMAIN dumps[blockNum] \cup {key}
         /\ dumps'[blockNum][key] = value
         /\ \A k \in DOMAIN dumps[blockNum] :
              k # key => dumps'[blockNum][k] = dumps[blockNum][k]
BY DEF Written

\* the step writes only to the dump of the next block
Persist ==
  /\ node = "up" /\ pc \in Persisting
  /\ UNCHANGED <<loaderVars, node, applied, buffer, blockNum, ready, checkOld, blkq, saving,
                 blocks, tasks>>
  /\ DOMAIN dumps' = DOMAIN dumps \cup {blockNum}
  /\ \A n \in DOMAIN dumps : n # blockNum => dumps'[n] = dumps[n]

\* The block whose dump is being written is the one just forged, with the state as it is.
LEMMA Dumping ==
  ASSUME IInv, pc \in Persisting
  PROVE  /\ blockNum \in Nat /\ Len(ready) = 1 /\ GoodRow(ready[1]) /\ Last(ready) = ready[1]
         /\ DOMAIN ready = {1} /\ ready[1].id = blockNum - 1 /\ ready[1].newRoot = applied
         /\ buffer = <<>> /\ BufferRoot = applied /\ ReadyNum = blockNum - 1
         /\ ready # <<>> /\ DumpDue(blockNum) /\ ~DumpOf(blockNum)
<1>1. ready # <<>> /\ buffer = <<>> /\ DumpDue(blockNum)  BY DEF IInv, PcInv
<1>2. BufferRoot = applied  BY <1>1 DEF BufferRoot
<1>3. /\ Len(ready) = 1 /\ DOMAIN ready = {1} /\ GoodRow(ready[1])
      /\ ready[1].id = blockNum - 1 /\ ready[1].newRoot = BufferRoot
      /\ blockNum \in Nat /\ ReadyNum = blockNum - 1
  BY <1>1, ReadyBlock DEF IInv
<1>4. Last(ready) = ready[1]  BY <1>3 DEF Last
<1>5. ~DumpOf(blockNum)
  <2>1. CASE pc = "persist"  BY <2>1 DEF IInv, PcInv, DumpOf
  <2>2. CASE pc # "persist"
    <3>1. DOMAIN dumps[blockNum] = Keys /\ "state" \notin Keys
      BY <2>2 DEF IInv, PcInv, Persisting, Keys
    <3> QED BY <3>1 DEF DumpOf, Complete
  <2> QED BY <2>1, <2>2
<1> QED BY <1>1, <1>2, <1>3, <1>4, <1>5

\* While a dump is not complete, the database has neither the block before it nor the
\* one after it.
LEMMA NotStored ==
  ASSUME IInv, pc \in Persisting
  PROVE  \A id \in DOMAIN blocks : id + 1 # blockNum /\ id # blockNum
<1>1. /\ blockNum \in Nat /\ ready # <<>> /\ ReadyNum = blockNum - 1
      /\ DumpDue(blockNum) /\ ~DumpOf(blockNum)
  BY Dumping
<1>2. DOMAIN blocks \subseteq Nat  BY DEF IInv, BlocksInv
<1>3. ASSUME NEW id \in DOMAIN blocks PROVE id + 1 # blockNum
  BY <1>1 DEF IInv, DueInv
<1>4. ASSUME NEW id \in DOMAIN blocks, id = blockNum PROVE FALSE
  <2>1. CASE checkOld
    <3>1. blkq = <<>>  BY <2>1 DEF IInv, BlocksInv
    <3>2. QueueNum = blockNum - 1  BY <1>1, <3>1 DEF QueueNum
    <3>3. id > QueueNum  BY <1>1, <1>4, <3>2
    <3>4. id - 1 \in DOMAIN blocks  BY <2>1, <3>3 DEF IInv, BlocksInv
    <3>5. (id - 1) + 1 = blockNum  BY <1>1, <1>4
    <3> QED BY <1>3, <3>4, <3>5
  <2>2. CASE ~checkOld
    <3>1. id < QueueNum  BY <2>2 DEF IInv, BlocksInv
    <3>2. blkq \in Seq(Rows)  BY DEF IInv, NodeInv
    <3>3. Len(blkq) \in Nat  BY <3>2
    <3>4. QueueNum <= blockNum  BY <1>1, <3>3 DEF QueueNum
    <3>5. QueueNum \in Nat  BY DEF IInv, PipelineInv
    <3> QED BY <1>1, <1>4, <3>1, <3>4, <3>5
  <2> QED BY <2>1, <2>2 DEF IInv, NodeInv
<1> QED BY <1>3, <1>4

\* What every step of persist leaves as it was.
LEMMA PersistSame ==
  ASSUME IInv, Persist, pc' \in Persisting \cup {"pop"}
  PROVE  /\ Kept /\ LP!IInv' /\ AppliedExactlyOnce' /\ NodeInv' /\ BufferInv'
         /\ PipelineInv' /\ BlocksInv' /\ DivergenceExplained'
         /\ UNCHANGED <<BufferRoot, QueueNum, logStart, received>>
<1>1. UNCHANGED <<topic, logStart, received>>  BY DEF Persist, loaderVars
<1>2. LP!IInv /\ LoaderInv  BY DEF IInv, LoaderInv
<1>3. Kept  BY <1>1, <1>2, KeptSame
<1>4. pc \notin Ended /\ pc' # "not deterministic"  BY DEF Persist, Persisting, Ended
<1>5. LP!IInv'  BY <1>2, <1>4, LoaderIdle DEF Persist
<1>6. AppliedExactlyOnce'  BY <1>1, <1>2, <1>3, AppliedSame DEF IInv, Persist
<1>7. BufferInv' /\ UNCHANGED BufferRoot  BY <1>3, BufferSame DEF IInv, Persist
<1>8. PipelineInv' /\ UNCHANGED QueueNum
  BY <1>3, <1>7, PipelineSame, StagesSame DEF IInv, Persist
<1>9. BlocksInv'
  <2>1. DOMAIN dumps \subseteq DOMAIN dumps'  BY DEF Persist
  <2> QED BY <1>3, <1>7, <2>1, BlocksSame DEF IInv, Persist
<1>10. DivergenceExplained'
  <2>1. blocks' = blocks /\ ready' = ready  BY DEF Persist
  <2>2. pc' # "not deterministic"  BY DEF Persisting
  <2> QED BY <1>3, <2>1, <2>2, DivergenceSame DEF IInv
<1>11. NodeInv'
  <2>1. pc' \in Pcs  BY DEF Pcs, Persisting
  <2>2. node' = "up"  BY DEF Persist
  <2> QED BY <1>3, <2>1, <2>2, NodeSame DEF IInv, Persist
<1> QED BY <1>1, <1>3, <1>5, <1>6, <1>7, <1>8, <1>9, <1>10, <1>11

\* A complete dump stays what it says.
DumpGood(n) ==
  /\ DOMAIN dumps[n] = {"block", "kafka", "state"}
  /\ dumps[n].block = n /\ dumps[n].kafka \in Loader!Offsets
  /\ IsRoot(dumps[n].state) /\ MadeOf(dumps[n].state, dumps[n].kafka)

LEMMA DumpStays ==
  ASSUME NEW n, DumpGood(n), Kept, dumps'[n] = dumps[n]
  PROVE  DumpGood(n)'
<1>1. PICK root, offset : root = dumps[n].state /\ offset = dumps[n].kafka  OBVIOUS
<1>2. MadeOf(root, offset) /\ offset \in Loader!Offsets  BY <1>1 DEF DumpGood
<1>3. MadeOf(root, offset)'  BY <1>2 DEF Kept
<1>4. dumps[n].kafka \in Loader!Offsets' /\ IsRoot(dumps[n].state)'  BY DEF DumpGood, Kept
<1> QED BY <1>1, <1>3, <1>4 DEF DumpGood

\* A step of persist that does not complete the dump.
LEMMA PersistKeeps ==
  ASSUME IInv, Persist, pc' \in Persisting, "state" \notin DOMAIN dumps'[blockNum], PcInv'
  PROVE  IInv'
<1>1. /\ Kept /\ LP!IInv' /\ AppliedExactlyOnce' /\ NodeInv' /\ BufferInv'
      /\ PipelineInv' /\ BlocksInv' /\ DivergenceExplained'
      /\ UNCHANGED <<BufferRoot, QueueNum, logStart, received>>
  BY PersistSame
<1>2. blockNum \in Nat /\ ready # <<>> /\ DumpDue(blockNum) /\ ~DumpOf(blockNum)
      /\ ready[1].id = blockNum - 1 /\ GoodRow(ready[1]) /\ pc \in Persisting
  BY Dumping DEF Persist
<1>3. blockNum' = blockNum  BY DEF Persist
<1>4. ~DumpOf(blockNum)'  BY <1>3 DEF DumpOf, Complete
<1>5. \A n : DumpOf(n)' <=> DumpOf(n)
  BY <1>2, <1>4 DEF DumpOf, Complete, Persist
<1>6. DumpsInv'
  <2> SUFFICES ASSUME NEW n \in DOMAIN dumps'
               PROVE  (/\ n \in 1 .. blockNum /\ DumpDue(n)
                       /\ ~Complete(n) => n = blockNum /\ pc \in Persisting
                       /\ Complete(n) => /\ DumpGood(n)
                                         /\ (\A m \in DOMAIN dumps : m <= n) =>
                                              dumps[n].kafka \in Range(received))'
    BY DEF DumpsInv, DumpGood
  <2>1. CASE n = blockNum
    <3>1. blockNum \in 1 .. blockNum
      <4>1. blockNum - 1 \in Nat  BY <1>2 DEF GoodRow, Rows
      <4> QED BY <1>2, <4>1
    <3>2. ~Complete(n)'  BY <2>1 DEF Complete
    <3> QED BY <1>2, <1>3, <2>1, <3>1, <3>2 DEF DumpDue
  <2>2. CASE n # blockNum
    <3>1. n \in DOMAIN dumps /\ dumps'[n] = dumps[n]  BY <2>2 DEF Persist
    <3>2. n \in 1 .. blockNum /\ DumpDue(n) /\ Complete(n)
      BY <2>2, <3>1 DEF IInv, DumpsInv
    <3>3. DumpGood(n)  BY <3>1, <3>2 DEF IInv, DumpsInv, DumpGood
    <3>4. DumpGood(n)'  BY <1>1, <3>1, <3>3, DumpStays
    <3>5. Complete(n)'  BY <3>1, <3>2 DEF Complete
    <3>6. (\A m \in DOMAIN dumps' : m <= n) => dumps'[n].kafka \in Range(received')
      BY <1>1, <3>1, <3>2 DEF IInv, DumpsInv, Persist
    <3> QED BY <1>3, <3>2, <3>4, <3>5, <3>6 DEF DumpDue
  <2> QED BY <2>1, <2>2
<1>7. \A num, root : StartsAt(num, root)' <=> StartsAt(num, root)
  BY <1>5, <1>2, <1>3 DEF StartsAt, DumpOf, Persist, Complete
<1>8. StartsInv'
  <2>1. \A row : RowStarts(row) => RowStarts(row)'  BY <1>7 DEF RowStarts
  <2> QED BY <1>1, <1>3, <1>7, <2>1 DEF IInv, StartsInv, Persist
<1>9. DueInv'
  BY <1>1, <1>3, <1>5 DEF IInv, DueInv, DumpDue, Persist
<1> QED BY <1>1, <1>6, <1>8, <1>9 DEF IInv

\* The directory of the dump.
LEMMA PersistOpenInv == IInv /\ PersistOpen => IInv'
<1> SUFFICES ASSUME IInv, PersistOpen PROVE IInv'  OBVIOUS
<1>1. /\ pc = "persist" /\ pc' = "persist block" /\ node = "up"
      /\ UNCHANGED <<loaderVars, node, applied, buffer, blockNum, ready, checkOld, blkq,
                     saving, blocks, tasks>>
      /\ dumps' = [n \in DOMAIN dumps \cup {blockNum} |->
                     IF n \in DOMAIN dumps THEN dumps[n] ELSE <<>>]
  BY DEF PersistOpen, PersistUnchanged, mainVars, dbVars
<1>2. pc \in Persisting /\ pc' \in Persisting  BY <1>1 DEF Persisting
<1>3. Persist  BY <1>1, <1>2 DEF Persist
<1>4. blockNum \notin DOMAIN dumps  BY <1>1 DEF IInv, PcInv
<1>a. dumps'[blockNum] = <<>>  BY <1>1, <1>4
<1>b. DOMAIN <<>> = {}  OBVIOUS
<1>5. DOMAIN dumps'[blockNum] = {}  BY <1>a, <1>b
<1>6. Keys' = {}  BY <1>1 DEF Keys
<1>7. PcInv'
  BY <1>1, <1>2, <1>5, <1>6 DEF IInv, PcInv, Persisting, DumpDue
<1> QED BY <1>2, <1>3, <1>5, <1>7, PersistKeeps

\* The number of the next block.
LEMMA PersistBlockOffsetInv == IInv /\ PersistBlockOffset => IInv'
<1> SUFFICES ASSUME IInv, PersistBlockOffset PROVE IInv'  OBVIOUS
<1>1. /\ pc = "persist block" /\ pc' = "persist kafka" /\ node = "up"
      /\ UNCHANGED <<loaderVars, node, applied, buffer, blockNum, ready, checkOld, blkq,
                     saving, blocks, tasks>>
      /\ dumps' = Written("block", blockNum)
  BY DEF PersistBlockOffset, PersistUnchanged, mainVars, dbVars
<1>2. pc \in Persisting /\ pc' \in Persisting  BY <1>1 DEF Persisting
<1>3. blockNum \in DOMAIN dumps /\ DOMAIN dumps[blockNum] = {}
  BY <1>1 DEF IInv, PcInv, Persisting, Keys
<1>4. /\ DOMAIN dumps' = DOMAIN dumps
      /\ \A n \in DOMAIN dumps : n # blockNum => dumps'[n] = dumps[n]
      /\ DOMAIN dumps'[blockNum] = {"block"} /\ dumps'[blockNum]["block"] = blockNum
  BY <1>1, <1>3, WrittenKey
<1>5. Persist  BY <1>1, <1>2, <1>3, <1>4 DEF Persist
<1>6. Keys' = {"block"}  BY <1>1 DEF Keys
<1>7. PcInv'
  <2>1. blockNum' \in DOMAIN dumps' /\ DOMAIN dumps'[blockNum'] = Keys'
    BY <1>1, <1>3, <1>4, <1>6
  <2>2. dumps'[blockNum'].block = blockNum'  BY <1>1, <1>4
  <2> QED BY <1>1, <1>2, <2>1, <2>2 DEF IInv, PcInv, Persisting, DumpDue
<1> QED BY <1>2, <1>4, <1>5, <1>7, PersistKeeps

\* The last message of the block is the last one applied.
LEMMA LastOffsetApplied ==
  ASSUME IInv, pc \in Persisting
  PROVE  WithOffset # {} /\ LastOffset = applied[Len(applied)].tx /\ Len(applied) > 0
<1> DEFINE row == ready[1]
<1>1. GoodRow(row) /\ Last(ready) = row /\ row.newRoot = applied  BY Dumping
<1> HIDE DEF row
<1>2. PICK before : before = row.oldRoot  OBVIOUS
<1>3. /\ Fits(row.txs, NTx, before, applied) /\ Len(before) < Len(applied)
      /\ IsRoot(before) /\ IsRoot(applied)
  BY <1>1, <1>2 DEF GoodRow, Fits
<1>4. /\ Len(before) \in Nat /\ Len(applied) \in Nat /\ NTx \in Nat \ {0}
      /\ \A i \in 1 .. Len(applied) : applied[i].tx \in Nat
  BY <1>3, RootType, NodeAssumption DEF IsRoot
<1>5. PICK d : d = Len(applied) - Len(before)  OBVIOUS
<1>6. d \in 1 .. NTx /\ Len(before) + d = Len(applied)  BY <1>3, <1>4, <1>5 DEF Fits
<1>7. \A i \in 1 .. NTx : row.txs[i] = IF i <= d THEN applied[Len(before) + i].tx ELSE Nop
  <2>1. ASSUME NEW i \in 1 .. NTx PROVE Len(before) + i <= Len(applied) <=> i <= d
    BY <1>4, <1>6
  <2> QED BY <1>3, <2>1 DEF Fits
<1>8. WithOffset = {i \in 1 .. NTx : row.txs[i] # Nop}  BY <1>1 DEF WithOffset
<1>9. \A i \in 1 .. NTx : i \in WithOffset <=> i <= d
  <2> SUFFICES ASSUME NEW i \in 1 .. NTx PROVE i \in WithOffset <=> i <= d
    OBVIOUS
  <2>1. CASE i <= d
    <3>1. Len(before) + i \in 1 .. Len(applied)  BY <1>4, <1>6, <2>1
    <3>2. applied[Len(before) + i].tx \in Nat  BY <1>4, <3>1
    <3>3. row.txs[i] # Nop  BY <1>7, <2>1, <3>2 DEF Nop
    <3> QED BY <1>8, <2>1, <3>3
  <2>2. CASE ~ (i <= d)  BY <1>7, <1>8, <2>2
  <2> QED BY <2>1, <2>2
<1>10. WithOffset \in SUBSET (0 .. NTx) /\ d \in WithOffset
  <2>1. WithOffset \subseteq 1 .. NTx  BY <1>8
  <2>2. d <= d /\ d \in 1 .. NTx  BY <1>6
  <2> QED BY <1>4, <1>9, <2>1, <2>2
<1>11. Max(WithOffset) \in WithOffset /\ \A i \in WithOffset : i <= Max(WithOffset)
  BY <1>4, <1>10, Greatest
<1>12. Max(WithOffset) = d
  <2>1. Max(WithOffset) \in 1 .. NTx  BY <1>8, <1>11
  <2>2. Max(WithOffset) <= d  BY <1>9, <1>11, <2>1
  <2>3. d <= Max(WithOffset)  BY <1>10, <1>11
  <2> QED BY <1>6, <2>1, <2>2, <2>3
<1>13. row.txs[d] = applied[Len(applied)].tx
  <2>1. d <= d  BY <1>6
  <2>2. row.txs[d] = applied[Len(before) + d].tx  BY <1>6, <1>7, <2>1
  <2> QED BY <1>6, <2>2
<1>14. LastOffset = row.txs[d]  BY <1>1, <1>12 DEF LastOffset
<1> QED BY <1>3, <1>4, <1>10, <1>13, <1>14

\* The Kafka offset; there always is one.
LEMMA PersistKafkaOffsetInv == IInv /\ PersistKafkaOffset => IInv'
<1> SUFFICES ASSUME IInv, PersistKafkaOffset PROVE IInv'  OBVIOUS
<1>1. pc = "persist kafka" /\ pc \in Persisting  BY DEF PersistKafkaOffset, Persisting
<1>2. WithOffset # {} /\ LastOffset = applied[Len(applied)].tx  BY <1>1, LastOffsetApplied
<1>3. /\ pc' = "persist state" /\ node = "up"
      /\ UNCHANGED <<loaderVars, node, applied, buffer, blockNum, ready, checkOld, blkq,
                     saving, blocks, tasks>>
      /\ dumps' = Written("kafka", LastOffset)
  BY <1>2 DEF PersistKafkaOffset, PersistUnchanged, mainVars, dbVars
<1>4. pc' \in Persisting  BY <1>3 DEF Persisting
<1>5. blockNum \in DOMAIN dumps /\ DOMAIN dumps[blockNum] = {"block"}
      /\ dumps[blockNum].block = blockNum
  BY <1>1 DEF IInv, PcInv, Persisting, Keys
<1>6. /\ DOMAIN dumps' = DOMAIN dumps
      /\ \A n \in DOMAIN dumps : n # blockNum => dumps'[n] = dumps[n]
      /\ DOMAIN dumps'[blockNum] = DOMAIN dumps[blockNum] \cup {"kafka"}
      /\ dumps'[blockNum]["kafka"] = LastOffset
      /\ \A k \in DOMAIN dumps[blockNum] :
           k # "kafka" => dumps'[blockNum][k] = dumps[blockNum][k]
  BY <1>3, <1>5, WrittenKey
<1>7. DOMAIN dumps'[blockNum] = {"block", "kafka"} /\ dumps'[blockNum]["block"] = blockNum
  BY <1>5, <1>6
<1>8. Persist  BY <1>1, <1>3, <1>5, <1>6 DEF Persist
<1>9. Keys' = {"block", "kafka"}  BY <1>3 DEF Keys
<1>10. PcInv'
  <2>1. blockNum' \in DOMAIN dumps' /\ DOMAIN dumps'[blockNum'] = Keys'
    BY <1>3, <1>5, <1>6, <1>7, <1>9
  <2>2. dumps'[blockNum'].block = blockNum'  BY <1>3, <1>7
  <2>3. dumps'[blockNum'].kafka = applied'[Len(applied')].tx  BY <1>2, <1>3, <1>6
  <2> QED BY <1>1, <1>3, <1>4, <2>1, <2>2, <2>3 DEF IInv, PcInv, Persisting, DumpDue
<1> QED BY <1>4, <1>7, <1>8, <1>10, PersistKeeps

\* The state, which makes the dump complete.
LEMMA PersistStateInv == IInv /\ PersistState => IInv'
<1> SUFFICES ASSUME IInv, PersistState PROVE IInv'  OBVIOUS
<1>1. /\ pc = "persist state" /\ pc \in Persisting /\ pc' = "pop" /\ node = "up"
      /\ UNCHANGED <<loaderVars, node, applied, buffer, blockNum, ready, checkOld, blkq,
                     saving, blocks, tasks>>
      /\ dumps' = Written("state", applied)
  BY DEF PersistState, PersistUnchanged, mainVars, dbVars, Persisting
<1>2. /\ blockNum \in DOMAIN dumps /\ DOMAIN dumps[blockNum] = {"block", "kafka"}
      /\ dumps[blockNum].block = blockNum
      /\ dumps[blockNum].kafka = applied[Len(applied)].tx
  BY <1>1 DEF IInv, PcInv, Persisting, Keys
<1>3. /\ DOMAIN dumps' = DOMAIN dumps
      /\ \A n \in DOMAIN dumps : n # blockNum => dumps'[n] = dumps[n]
      /\ DOMAIN dumps'[blockNum] = DOMAIN dumps[blockNum] \cup {"state"}
      /\ dumps'[blockNum]["state"] = applied
      /\ \A k \in DOMAIN dumps[blockNum] :
           k # "state" => dumps'[blockNum][k] = dumps[blockNum][k]
  BY <1>1, <1>2, WrittenKey
<1>4. /\ DOMAIN dumps'[blockNum] = {"block", "kafka", "state"}
      /\ dumps'[blockNum].block = blockNum /\ dumps'[blockNum].state = applied
      /\ dumps'[blockNum].kafka = applied[Len(applied)].tx
  BY <1>2, <1>3
<1>5. Persist  BY <1>1, <1>2, <1>3 DEF Persist
<1>6. /\ Kept /\ LP!IInv' /\ AppliedExactlyOnce' /\ NodeInv' /\ BufferInv'
      /\ PipelineInv' /\ BlocksInv' /\ DivergenceExplained'
      /\ UNCHANGED <<BufferRoot, QueueNum, logStart, received>>
  BY <1>1, <1>5, PersistSame
<1>7. /\ blockNum \in Nat /\ Len(ready) = 1 /\ ready[1].id = blockNum - 1
      /\ ready[1].newRoot = applied /\ GoodRow(ready[1])
      /\ buffer = <<>> /\ BufferRoot = applied /\ ReadyNum = blockNum - 1
      /\ ready # <<>> /\ DumpDue(blockNum) /\ ~DumpOf(blockNum)
  BY <1>1, Dumping
<1>8. /\ IsRoot(applied) /\ Len(applied) > 0
  <2>1. Len(applied) > 0  BY <1>1, LastOffsetApplied
  <2> QED BY <2>1, BufferTypes DEF IInv
<1>9. /\ MadeOf(applied, applied[Len(applied)].tx)
      /\ applied[Len(applied)].tx \in Loader!Offsets /\ applied \in Roots
  BY <1>8, RootIsMade DEF IsRoot
<1>10. DumpGood(blockNum)'
  <2>1. PICK root, offset : root = applied /\ offset = applied[Len(applied)].tx  OBVIOUS
  <2>2. MadeOf(root, offset)'  BY <1>6, <1>9, <2>1 DEF Kept
  <2>3. offset \in Loader!Offsets' /\ IsRoot(root)'  BY <1>6, <1>8, <1>9, <2>1 DEF Kept
  <2>4. dumps'[blockNum].state = root /\ dumps'[blockNum].kafka = offset  BY <1>4, <2>1
  <2>5. blockNum' = blockNum  BY <1>1
  <2> QED BY <1>4, <2>2, <2>3, <2>4, <2>5 DEF DumpGood
<1>11. applied[Len(applied)].tx \in Range(received)
  <2>a. PICK txs : txs = TxsOf(applied)  OBVIOUS
  <2>b. /\ Len(applied) \in Nat /\ DOMAIN txs = 1 .. Len(applied)
        /\ \A i \in 1 .. Len(applied) : txs[i] = applied[i].tx
    BY <1>9, <2>a, RootType
  <2>1. Len(applied) \in 1 .. Len(applied)  BY <1>8, <2>b
  <2>2. applied[Len(applied)].tx \in Range(TxsOf(applied))
    BY <2>a, <2>b, <2>1 DEF Range
  <2>3. LoaderInv  BY DEF IInv, LoaderInv
  <2> QED BY <2>2, <2>3, AppliedReceived DEF IInv
<1>12. blockNum \in 1 .. blockNum
  <2>1. blockNum - 1 \in Nat  BY <1>7 DEF GoodRow, Rows
  <2> QED BY <1>7, <2>1
<1>13. \A n \in DOMAIN dumps : Complete(n)'
  <2>1. ASSUME NEW n \in DOMAIN dumps, n # blockNum PROVE Complete(n)'
    BY <1>3, <2>1 DEF IInv, DumpsInv, Complete
  <2>2. Complete(blockNum)'  BY <1>1, <1>4 DEF Complete
  <2>3. blockNum' = blockNum  BY <1>1
  <2> QED BY <2>1, <2>2, <2>3
<1>14. DumpsInv'
  <2> SUFFICES ASSUME NEW n \in DOMAIN dumps'
               PROVE  (/\ n \in 1 .. blockNum /\ DumpDue(n)
                       /\ ~Complete(n) => n = blockNum /\ pc \in Persisting
                       /\ Complete(n) => /\ DumpGood(n)
                                         /\ (\A m \in DOMAIN dumps : m <= n) =>
                                              dumps[n].kafka \in Range(received))'
    BY DEF DumpsInv, DumpGood
  <2>1. n \in DOMAIN dumps /\ Complete(n)'  BY <1>3, <1>13
  <2>2. CASE n = blockNum
    <3>1. DumpGood(n)' /\ dumps'[n].kafka \in Range(received')
      BY <1>1, <1>4, <1>6, <1>10, <1>11, <2>2
    <3> QED BY <1>1, <1>7, <1>12, <2>1, <2>2, <3>1 DEF DumpDue
  <2>3. CASE n # blockNum
    <3>1. dumps'[n] = dumps[n]  BY <1>3, <2>1, <2>3
    <3>2. n \in 1 .. blockNum /\ DumpDue(n) /\ Complete(n)
      BY <2>1, <2>3 DEF IInv, DumpsInv
    <3>3. DumpGood(n)  BY <2>1, <3>2 DEF IInv, DumpsInv, DumpGood
    <3>4. DumpGood(n)'  BY <1>6, <3>1, <3>3, DumpStays
    <3>5. (\A m \in DOMAIN dumps' : m <= n) => dumps'[n].kafka \in Range(received')
      BY <1>3, <1>6, <2>1, <3>1, <3>2 DEF IInv, DumpsInv
    <3> QED BY <1>1, <2>1, <3>2, <3>4, <3>5 DEF DumpDue
  <2> QED BY <2>2, <2>3
<1>15. /\ DumpOf(blockNum)' /\ dumps'[blockNum].state = applied
       /\ \A n : n # blockNum => (DumpOf(n)' <=> DumpOf(n))
  <2>1. \A n : n # blockNum => (DumpOf(n)' <=> DumpOf(n))
    BY <1>3 DEF DumpOf, Complete
  <2>2. blockNum' = blockNum  BY <1>1
  <2>3. DumpOf(blockNum)'  BY <1>2, <1>3, <1>13, <2>2 DEF DumpOf
  <2> QED BY <1>4, <2>1, <2>3
<1>16. \A num, root : num # blockNum => (StartsAt(num, root)' <=> StartsAt(num, root))
  BY <1>3, <1>15 DEF StartsAt, DumpOf
<1>17. StartsAt(blockNum, applied)'
  <2>1. blockNum' = blockNum /\ applied' = applied  BY <1>1
  <2>2. blockNum # 0  BY <1>12
  <2> QED BY <1>4, <2>1, <2>2 DEF StartsAt
<1>18. StartsInv'
  <2>1. StartsAt(blockNum, BufferRoot)'
    <3>1. BufferRoot' = applied /\ applied' = applied /\ blockNum' = blockNum
      BY <1>1, <1>6, <1>7
    <3> QED BY <1>17, <3>1
  <2>2. \A row : row.id # blockNum /\ row.id + 1 # blockNum /\ RowStarts(row) => RowStarts(row)'
    BY <1>16 DEF RowStarts
  <2>3. ASSUME NEW i \in 1 .. Len(ready') PROVE RowStarts(ready[i])'
    <3>a. ready' = ready /\ blockNum' = blockNum  BY <1>1
    <3>b. i \in 1 .. 1  BY <1>7, <3>a
    <3>1. i = 1 /\ ready' = ready /\ blockNum' = blockNum  BY <3>a, <3>b
    <3>2. ready[1].id # blockNum /\ ready[1].id + 1 = blockNum  BY <1>7
    <3>3. RowStarts(ready[1])  BY <1>7 DEF IInv, StartsInv
    <3>4. PICK row : row = ready[1]  OBVIOUS
    <3>5. StartsAt(row.id, row.oldRoot)'  BY <1>16, <3>2, <3>3, <3>4 DEF RowStarts
    <3>6. StartsAt(row.id + 1, row.newRoot)'
      <4>1. row.id + 1 = blockNum' /\ row.newRoot = applied'  BY <1>1, <1>7, <3>2, <3>4
      <4> QED BY <1>17, <4>1
    <3>7. RowStarts(row)'  BY <3>5, <3>6 DEF RowStarts
    <3> QED BY <3>1, <3>4, <3>7
  <2>4. ASSUME NEW i \in 1 .. Len(blkq') PROVE RowStarts(blkq[i])'
    <3>1. blkq' = blkq  BY <1>1
    <3>2. blkq[i].id = ReadyNum - Len(blkq) + i - 1 /\ RowStarts(blkq[i])
      BY <3>1 DEF IInv, PipelineInv, Queued, StartsInv
    <3>3. Len(blkq) \in Nat
      <4>1. blkq \in Seq(Rows)  BY DEF IInv, NodeInv
      <4> QED BY <4>1
    <3>4. blkq[i].id # blockNum /\ blkq[i].id + 1 # blockNum
      BY <1>7, <3>1, <3>2, <3>3
    <3>5. PICK row : row = blkq[i]  OBVIOUS
    <3>6. RowStarts(row)'  BY <2>2, <3>2, <3>4, <3>5
    <3> QED BY <3>1, <3>5, <3>6
  <2>5. ASSUME NEW id \in DOMAIN blocks' PROVE RowStarts(blocks[id])'
    <3>1. blocks' = blocks /\ id \in DOMAIN blocks  BY <1>1
    <3>2. blocks[id].id = id /\ RowStarts(blocks[id])
      BY <3>1 DEF IInv, BlocksInv, StartsInv
    <3>3. id # blockNum /\ id + 1 # blockNum  BY <1>1, <3>1, NotStored
    <3>4. PICK row : row = blocks[id]  OBVIOUS
    <3>5. RowStarts(row)'  BY <2>2, <3>2, <3>3, <3>4
    <3> QED BY <3>1, <3>4, <3>5
  <2> QED BY <1>1, <2>1, <2>3, <2>4, <2>5 DEF StartsInv
<1>19. DueInv'
  <2>1. \A n : DumpOf(n) => DumpOf(n)'  BY <1>7, <1>15
  <2>2. \A id \in DOMAIN blocks' : DumpDue(id + 1)' => DumpOf(id + 1)'
    BY <1>1, <2>1 DEF IInv, DueInv, DumpDue
  <2>3. ASSUME NEW num \in QueueNum' .. blockNum' - 1, DumpDue(num + 1)
        PROVE  DumpOf(num + 1)'
    <3>1. num \in QueueNum .. blockNum - 1  BY <1>1, <1>6
    <3>2. DumpOf(num + 1) \/ num + 1 = blockNum  BY <2>3, <3>1 DEF IInv, DueInv
    <3>3. PICK n : n = num + 1  OBVIOUS
    <3>4. DumpOf(n)'
      <4>1. CASE n = blockNum
        <5>1. blockNum' = blockNum  BY <1>1
        <5> QED BY <1>15, <4>1, <5>1
      <4>2. CASE n # blockNum  BY <2>1, <3>2, <3>3, <4>2
      <4> QED BY <4>1, <4>2
    <3> QED BY <3>3, <3>4
  <2> QED BY <2>2, <2>3 DEF DueInv, DumpDue
<1>20. PcInv'
  <2>1. Len(buffer') = 0 /\ NTx \in Nat \ {0}
    <3>1. buffer' = <<>>  BY <1>1, <1>7
    <3> QED BY <3>1, NodeAssumption
  <2>2. Len(buffer') <= NTx /\ Len(buffer') < NTx  BY <2>1
  <2>3. Len(ready') <= 1
    <3>1. ready' = ready  BY <1>1
    <3>2. Len(ready') = 1  BY <1>7, <3>1
    <3> QED BY <3>2
  <2> QED BY <1>1, <2>2, <2>3 DEF PcInv, Persisting
<1> QED BY <1>6, <1>14, <1>18, <1>19, <1>20 DEF IInv

-----------------------------------------------------------------------------
(* Blocks handed on and stored. *)

\* A block the database does not have is above all it has.
LEMMA NoneAbove ==
  ASSUME IInv, QueueNum \notin DOMAIN blocks
  PROVE  \A id \in DOMAIN blocks : id < QueueNum
<1>1. CASE ~checkOld  BY <1>1 DEF IInv, BlocksInv
<1>2. CASE checkOld
  <2> DEFINE Above == {id \in DOMAIN blocks : id > QueueNum}
  <2>1. DOMAIN blocks \subseteq Nat /\ QueueNum \in Nat
    BY DEF IInv, BlocksInv, PipelineInv
  <2>2. Above = {}
    <3> SUFFICES ASSUME Above # {} PROVE FALSE  OBVIOUS
    <3>1. Above \in SUBSET Nat  BY <2>1
    <3>2. PICK m \in Above : \A id \in Above : m <= id
      <4> HIDE DEF Above
      <4> QED BY <3>1, Least
    <3>3. m \in Nat /\ m > QueueNum /\ m - 1 \in DOMAIN blocks
      BY <1>2, <2>1 DEF IInv, BlocksInv
    <3>4. m - 1 # QueueNum  BY <3>3
    <3>5. m - 1 \in Above  BY <2>1, <3>3, <3>4
    <3>6. m <= m - 1  BY <3>2, <3>5
    <3> QED BY <3>3, <3>6
  <2>3. ASSUME NEW id \in DOMAIN blocks PROVE id < QueueNum
    <3>1. ~ (id > QueueNum)  BY <2>2
    <3> QED BY <2>1, <3>1
  <2> QED BY <2>3
<1> QED BY <1>1, <1>2 DEF IInv, NodeInv

\* What sending or skipping the block in hand does.
LEMMA SentBlock ==
  ASSUME IInv, pc = "send", Sent, UNCHANGED <<loaderVars, applied, buffer, blockNum, dumps>>
  PROVE  /\ ready # <<>> /\ ready' = <<>> /\ pc' = "recv" /\ pc \notin Persisting
         /\ Len(ready) = 1 /\ DOMAIN ready = {1} /\ Head(ready) = ready[1]
         /\ GoodRow(ready[1]) /\ ready[1].id = blockNum - 1 /\ ready[1].newRoot = BufferRoot
         /\ blockNum \in Nat /\ ReadyNum = blockNum - 1 /\ ReadyRoot = ready[1].oldRoot
         /\ Kept /\ LP!IInv' /\ AppliedExactlyOnce' /\ BufferInv' /\ DumpsInv' /\ PcInv'
         /\ UNCHANGED <<BufferRoot, logStart>>
         /\ ReadyNum' = blockNum /\ ReadyRoot' = BufferRoot
<1>1. ready # <<>> /\ Len(buffer) < NTx  BY DEF IInv, PcInv
<1>2. /\ Len(ready) = 1 /\ DOMAIN ready = {1} /\ Head(ready) = ready[1]
      /\ GoodRow(ready[1]) /\ ready[1].id = blockNum - 1 /\ ready[1].newRoot = BufferRoot
      /\ blockNum \in Nat /\ ReadyNum = blockNum - 1 /\ ReadyRoot = ready[1].oldRoot
  BY <1>1, ReadyBlock DEF IInv
<1>3. ready' = <<>> /\ pc' = "recv"
  <2>1. ready \in Seq(Rows)  BY DEF IInv, NodeInv
  <2>2. Tail(ready) = <<>>
    <3>1. Tail(ready) \in Seq(Rows) /\ Len(Tail(ready)) = Len(ready) - 1  BY <1>1, <2>1
    <3>2. Len(Tail(ready)) = 0  BY <1>2, <3>1
    <3> QED BY <3>1, <3>2, EmptySeq
  <2> QED BY <1>2, <2>2 DEF Sent
<1>4. pc \notin Persisting /\ pc \notin Ended  BY DEF Persisting, Ended
<1>5. UNCHANGED <<topic, logStart, received>>  BY DEF loaderVars
<1>6. LP!IInv /\ LoaderInv  BY DEF IInv, LoaderInv
<1>7. Kept  BY <1>5, <1>6, KeptSame
<1>8. LP!IInv'  BY <1>4, <1>6, LoaderIdle
<1>9. AppliedExactlyOnce'  BY <1>5, <1>6, <1>7, AppliedSame DEF IInv
<1>10. BufferInv' /\ UNCHANGED BufferRoot  BY <1>7, BufferSame DEF IInv
<1>11. DumpsInv'  BY <1>4, <1>5, <1>7, DumpsSame DEF IInv
<1>12. PcInv'
  <2>1. Len(ready') = 0  BY <1>3
  <2>2. Len(ready') <= 1  BY <2>1
  <2> QED BY <1>1, <1>3, <2>2 DEF IInv, PcInv, Persisting
<1>13. ReadyNum' = blockNum /\ ReadyRoot' = BufferRoot
  BY <1>2, <1>3, <1>10 DEF ReadyNum, ReadyRoot
<1> QED BY <1>1, <1>2, <1>3, <1>4, <1>5, <1>7, <1>8, <1>9, <1>10, <1>11, <1>12, <1>13

\* a queue with nothing in it
LEMMA QueuedNone == \A num, root : Queued(<<>>, num, root)
  BY DEF Queued

\* A block that the database has is skipped.
LEMMA SkipOldInv == IInv /\ SkipOld => IInv'
<1> SUFFICES ASSUME IInv, SkipOld PROVE IInv'  OBVIOUS
<1>1. /\ node = "up" /\ pc = "send" /\ Present(Head(ready)) /\ SameRoot(Head(ready)) /\ Sent
      /\ UNCHANGED <<loaderVars, node, applied, buffer, blockNum, checkOld, blkq, saving,
                     blocks, tasks, dumps>>
  BY DEF SkipOld, mainVars, dbVars
<1>2. /\ ready # <<>> /\ ready' = <<>> /\ pc' = "recv" /\ pc \notin Persisting
      /\ Head(ready) = ready[1] /\ DOMAIN ready = {1}
      /\ ready[1].id = blockNum - 1 /\ ready[1].newRoot = BufferRoot
      /\ blockNum \in Nat /\ ReadyNum = blockNum - 1
      /\ Kept /\ LP!IInv' /\ AppliedExactlyOnce' /\ BufferInv' /\ DumpsInv' /\ PcInv'
      /\ UNCHANGED <<BufferRoot, logStart>>
      /\ ReadyNum' = blockNum /\ ReadyRoot' = BufferRoot
  BY <1>1, SentBlock
<1>3. /\ checkOld /\ blkq = <<>> /\ blockNum - 1 \in DOMAIN blocks
      /\ blocks[blockNum - 1].newRoot = BufferRoot
  <2>1. checkOld /\ blockNum - 1 \in DOMAIN blocks /\ blocks[blockNum - 1].newRoot = BufferRoot
    BY <1>1, <1>2 DEF Present, SameRoot
  <2> QED BY <2>1 DEF IInv, BlocksInv
<1>4. QueueNum = blockNum - 1 /\ QueueNum' = blockNum /\ QueueRoot' = BufferRoot
  BY <1>1, <1>2, <1>3 DEF QueueNum, QueueRoot
<1>5. NodeInv'
  <2>1. Rows \subseteq Rows' /\ Entries \subseteq Entries'  BY <1>2 DEF Kept
  <2>2. blkq' \in Seq(Rows') /\ buffer' \in Seq(Entries') /\ saving' \in Rows' \cup {NoBlock}
    BY <1>1, <2>1 DEF IInv, NodeInv
  <2>3. ready' \in Seq(Rows')  BY <1>2
  <2> QED BY <1>1, <1>2, <2>2, <2>3 DEF IInv, NodeInv, Pcs, NoBlock
<1>6. PipelineInv'
  <2>1. Queued(ready, blockNum, BufferRoot)' /\ Queued(blkq, ReadyNum, ReadyRoot)'
    BY <1>1, <1>2, <1>3 DEF Queued
  <2> QED BY <1>2, <1>4, <2>1 DEF PipelineInv
<1>7. StartsInv'
  BY <1>1, <1>2 DEF IInv, StartsInv, RowStarts, StartsAt, DumpOf, Complete
<1>8. DueInv'
  <2>1. QueueNum' .. blockNum' - 1 = {}  BY <1>1, <1>2, <1>4
  <2> QED BY <1>1, <2>1 DEF IInv, DueInv, DumpOf, Complete, DumpDue
<1>9. BlocksInv'
  <2>1. \A num : Follows(num) => Follows(num)'  BY <1>1 DEF Follows
  <2>2. \A row : GoodRow(row) => GoodRow(row)'  BY <1>2 DEF Kept
  <2>3. /\ DOMAIN blocks' \subseteq Nat /\ IsFiniteSet(DOMAIN blocks')
        /\ \A id \in DOMAIN blocks' :
             /\ GoodRow(blocks[id])' /\ blocks'[id].id = id
             /\ id + 1 \in DOMAIN blocks' => blocks'[id + 1].oldRoot = blocks'[id].newRoot
             /\ Follows(id)'
    BY <1>1, <2>1, <2>2 DEF IInv, BlocksInv
  <2>4. Follows(blockNum)  BY <1>3 DEF Follows
  <2>5. blockNum \in DOMAIN blocks => blocks[blockNum].oldRoot = BufferRoot
    <3>1. (blockNum - 1) + 1 = blockNum  BY <1>2
    <3> QED BY <1>3, <3>1 DEF IInv, BlocksInv
  <2>6. \A id \in DOMAIN blocks : id > blockNum => id - 1 \in DOMAIN blocks
    <3> SUFFICES ASSUME NEW id \in DOMAIN blocks, id > blockNum PROVE id - 1 \in DOMAIN blocks
      OBVIOUS
    <3>1. id \in Nat  BY DEF IInv, BlocksInv
    <3>2. id > QueueNum  BY <1>2, <1>4, <3>1
    <3> QED BY <1>3, <3>2 DEF IInv, BlocksInv
  <2>7. Follows(QueueNum)'
    <3>1. PICK num : num = blockNum  OBVIOUS
    <3> QED BY <1>4, <2>1, <2>4, <3>1
  <2> QED BY <1>1, <1>3, <1>4, <2>3, <2>5, <2>6, <2>7 DEF BlocksInv
<1>10. DivergenceExplained'  BY <1>2 DEF DivergenceExplained
<1> QED BY <1>2, <1>5, <1>6, <1>7, <1>8, <1>9, <1>10 DEF IInv

\* A block that the database does not have goes to the main thread.
LEMMA SendBlockInv == IInv /\ SendBlock => IInv'
<1> SUFFICES ASSUME IInv, SendBlock PROVE IInv'  OBVIOUS
<1>1. /\ node = "up" /\ pc = "send" /\ ~Present(Head(ready)) /\ Sent
      /\ checkOld' = FALSE /\ blkq' = Append(blkq, Head(ready))
      /\ UNCHANGED <<loaderVars, node, applied, buffer, blockNum, saving, blocks, tasks, dumps>>
  BY DEF SendBlock, dbVars
<1>2. /\ ready # <<>> /\ ready' = <<>> /\ pc' = "recv" /\ pc \notin Persisting
      /\ Head(ready) = ready[1] /\ Len(ready) = 1 /\ DOMAIN ready = {1} /\ GoodRow(ready[1])
      /\ ready[1].id = blockNum - 1 /\ ready[1].newRoot = BufferRoot
      /\ blockNum \in Nat /\ ReadyNum = blockNum - 1 /\ ReadyRoot = ready[1].oldRoot
      /\ Kept /\ LP!IInv' /\ AppliedExactlyOnce' /\ BufferInv' /\ DumpsInv' /\ PcInv'
      /\ UNCHANGED <<BufferRoot, logStart>>
      /\ ReadyNum' = blockNum /\ ReadyRoot' = BufferRoot
  BY <1>1, SentBlock
<1>3. PICK row : row = ready[1]  OBVIOUS
<1>4. row \in Rows /\ GoodRow(row)  BY <1>2, <1>3 DEF GoodRow
<1>5. /\ blkq \in Seq(Rows) /\ Len(blkq) \in Nat /\ Len(blkq') = Len(blkq) + 1
      /\ \A i \in 1 .. Len(blkq) : blkq'[i] = blkq[i]
      /\ blkq'[Len(blkq) + 1] = row /\ blkq' # <<>>
  <2>1. blkq \in Seq(Rows)  BY DEF IInv, NodeInv
  <2>2. blkq' = Append(blkq, row)  BY <1>1, <1>2, <1>3
  <2> QED BY <1>4, <2>1, <2>2
<1>6. QueueNum' = QueueNum
  BY <1>2, <1>5 DEF QueueNum
<1>7. QueueRoot' = QueueRoot
  <2>1. CASE blkq = <<>>
    <3>1. blkq'[1] = row  BY <1>5, <2>1
    <3> QED BY <1>2, <1>3, <1>5, <2>1, <3>1 DEF QueueRoot
  <2>2. CASE blkq # <<>>
    <3>1. blkq'[1] = blkq[1]  BY <1>5, <2>2
    <3> QED BY <1>5, <2>2, <3>1 DEF QueueRoot
  <2> QED BY <2>1, <2>2
<1>8. NodeInv'
  <2>1. Rows \subseteq Rows' /\ Entries \subseteq Entries'  BY <1>2 DEF Kept
  <2>2. buffer' \in Seq(Entries') /\ saving' \in Rows' \cup {NoBlock}
    BY <1>1, <2>1 DEF IInv, NodeInv
  <2>3. ready' \in Seq(Rows')  BY <1>2
  <2>4. blkq' \in Seq(Rows')
    <3>1. blkq' = Append(blkq, row)  BY <1>1, <1>2, <1>3
    <3>2. blkq' \in Seq(Rows)  BY <1>4, <1>5, <3>1
    <3> QED BY <2>1, <3>2
  <2> QED BY <1>1, <1>2, <2>2, <2>3, <2>4 DEF IInv, NodeInv, Pcs, NoBlock
<1>9. PipelineInv'
  <2>1. Queued(ready, blockNum, BufferRoot)'  BY <1>2 DEF Queued
  <2>2. Queued(blkq, ReadyNum, ReadyRoot)'
    <3> SUFFICES ASSUME NEW i \in 1 .. Len(blkq')
                 PROVE  /\ GoodRow(blkq[i])' /\ blkq'[i].id = ReadyNum' - Len(blkq') + i - 1
                        /\ blkq'[i].newRoot = IF i = Len(blkq') THEN ReadyRoot'
                                              ELSE blkq'[i + 1].oldRoot
      BY DEF Queued
    <3>a. \A r : GoodRow(r) => GoodRow(r)'  BY <1>2 DEF Kept
    <3>b. i \in 1 .. Len(blkq) \/ i = Len(blkq) + 1  BY <1>5
    <3>1. CASE i = Len(blkq) + 1
      <4>1. blkq'[i] = row  BY <1>5, <3>1
      <4>2. row.id = blockNum - 1 /\ row.newRoot = BufferRoot  BY <1>2, <1>3
      <4>3. ReadyNum' - Len(blkq') + i - 1 = blockNum - 1  BY <1>2, <1>5, <3>1
      <4>4. i = Len(blkq')  BY <1>5, <3>1
      <4>5. GoodRow(row)'  BY <1>4, <3>a
      <4> QED BY <1>2, <4>1, <4>2, <4>3, <4>4, <4>5
    <3>2. CASE i \in 1 .. Len(blkq)
      <4>1. PICK r : r = blkq[i]  OBVIOUS
      <4>2. /\ GoodRow(r) /\ r.id = ReadyNum - Len(blkq) + i - 1
            /\ r.newRoot = IF i = Len(blkq) THEN ReadyRoot ELSE blkq[i + 1].oldRoot
        BY <3>2, <4>1 DEF IInv, PipelineInv, Queued
      <4>3. blkq'[i] = r /\ GoodRow(r)'  BY <1>5, <3>2, <3>a, <4>1, <4>2
      <4>4. ReadyNum' - Len(blkq') + i - 1 = ReadyNum - Len(blkq) + i - 1
        BY <1>2, <1>5, <3>2
      <4>5. i # Len(blkq')  BY <1>5, <3>2
      <4>6. r.newRoot = blkq'[i + 1].oldRoot
        <5>1. CASE i = Len(blkq)
          <6>1. blkq'[i + 1] = row  BY <1>5, <5>1
          <6> QED BY <1>2, <1>3, <4>2, <5>1, <6>1
        <5>2. CASE i # Len(blkq)
          <6>1. i + 1 \in 1 .. Len(blkq)  BY <1>5, <3>2, <5>2
          <6>2. blkq'[i + 1] = blkq[i + 1]  BY <1>5, <6>1
          <6> QED BY <4>2, <5>2, <6>2
        <5> QED BY <5>1, <5>2
      <4> QED BY <4>2, <4>3, <4>4, <4>5, <4>6
    <3> QED BY <3>b, <3>1, <3>2
  <2>3. QueueNum' \in Nat  BY <1>6 DEF IInv, PipelineInv
  <2> QED BY <2>1, <2>2, <2>3 DEF PipelineInv
<1>10. StartsInv'
  <2>1. \A r : RowStarts(r) => RowStarts(r)'
    BY <1>1 DEF RowStarts, StartsAt, DumpOf, Complete
  <2>2. RowStarts(row)  BY <1>2, <1>3 DEF IInv, StartsInv
  <2>3. ASSUME NEW i \in 1 .. Len(blkq') PROVE RowStarts(blkq[i])'
    <3>b. i \in 1 .. Len(blkq) \/ i = Len(blkq) + 1  BY <1>5
    <3>1. CASE i = Len(blkq) + 1
      <4>1. blkq'[i] = row  BY <1>5, <3>1
      <4> QED BY <2>1, <2>2, <4>1
    <3>2. CASE i \in 1 .. Len(blkq)
      <4>1. PICK r : r = blkq[i]  OBVIOUS
      <4>2. RowStarts(r)  BY <3>2, <4>1 DEF IInv, StartsInv
      <4>3. blkq'[i] = r  BY <1>5, <3>2, <4>1
      <4> QED BY <2>1, <4>2, <4>3
    <3> QED BY <3>b, <3>1, <3>2
  <2>4. \A id \in DOMAIN blocks' : RowStarts(blocks[id])'
    BY <1>1, <2>1 DEF IInv, StartsInv
  <2>5. StartsAt(blockNum, BufferRoot)'
    BY <1>1, <1>2 DEF IInv, StartsInv, StartsAt, DumpOf, Complete
  <2> QED BY <1>2, <2>3, <2>4, <2>5 DEF StartsInv
<1>11. DueInv'
  BY <1>1, <1>2, <1>6 DEF IInv, DueInv, DumpOf, Complete, DumpDue
<1>12. \A id \in DOMAIN blocks : id < QueueNum
  <2>1. CASE ~checkOld  BY <2>1 DEF IInv, BlocksInv
  <2>2. CASE checkOld
    <3>1. blkq = <<>>  BY <2>2 DEF IInv, BlocksInv
    <3>2. QueueNum = ready[1].id  BY <1>2, <3>1 DEF QueueNum
    <3>3. QueueNum \notin DOMAIN blocks  BY <1>1, <1>2, <2>2, <3>2 DEF Present
    <3> QED BY <3>3, NoneAbove
  <2> QED BY <2>1, <2>2
<1>13. BlocksInv'
  <2>1. \A num : Follows(num) => Follows(num)'  BY <1>1 DEF Follows
  <2>2. \A r : GoodRow(r) => GoodRow(r)'  BY <1>2 DEF Kept
  <2> QED BY <1>1, <1>6, <1>7, <1>12, <2>1, <2>2 DEF IInv, BlocksInv
<1>14. DivergenceExplained'  BY <1>2 DEF DivergenceExplained
<1> QED BY <1>2, <1>8, <1>9, <1>10, <1>11, <1>13, <1>14 DEF IInv

\* what the main thread does with the first block of its channel
Saved(row) ==
  /\ node = "up" /\ saving = NoBlock /\ blkq # <<>>
  /\ blkq \in Seq(Rows) /\ Len(blkq) \in Nat \ {0} /\ blkq[1] = row
  /\ Len(blkq') = Len(blkq) - 1 /\ blkq' \in Seq(Rows)
  /\ \A i \in 1 .. Len(blkq') : blkq'[i] = blkq[i + 1]
  /\ GoodRow(row) /\ row.id = QueueNum /\ row.oldRoot = QueueRoot /\ RowStarts(row)
  /\ row.newRoot = IF Len(blkq) = 1 THEN ReadyRoot ELSE blkq[2].oldRoot
  /\ QueueNum \in Nat /\ QueueNum \notin DOMAIN blocks
  /\ ~checkOld /\ \A id \in DOMAIN blocks : id < QueueNum
  /\ UNCHANGED <<loaderVars, node, pc, applied, buffer, blockNum, ready, checkOld,
                 tasks, dumps>>
  /\ saving' = row
  /\ DOMAIN blocks' = DOMAIN blocks \cup {QueueNum} /\ blocks'[QueueNum] = row
  /\ \A id \in DOMAIN blocks : blocks'[id] = blocks[id]

\* The main thread inserts the next block; no row has its number.
LEMMA SavedBlock ==
  ASSUME IInv, SaveBlock
  PROVE  \E row : Saved(row)
<1>1. PICK row : row = blkq[1]  OBVIOUS
<1>2. node = "up" /\ saving = NoBlock /\ blkq # <<>>  BY DEF SaveBlock
<1>3. /\ blkq \in Seq(Rows) /\ Len(blkq) \in Nat \ {0} /\ Head(blkq) = row
      /\ blkq' = Tail(blkq) /\ Len(blkq') = Len(blkq) - 1 /\ blkq' \in Seq(Rows)
      /\ \A i \in 1 .. Len(blkq') : blkq'[i] = blkq[i + 1]
  <2>1. blkq \in Seq(Rows)  BY DEF IInv, NodeInv
  <2>2. blkq' = Tail(blkq)  BY DEF SaveBlock
  <2>3. Len(blkq) \in Nat \ {0} /\ Head(blkq) = row  BY <1>1, <1>2, <2>1
  <2>4. Len(Tail(blkq)) = Len(blkq) - 1 /\ Tail(blkq) \in Seq(Rows)  BY <1>2, <2>1
  <2>5. \A i \in 1 .. Len(blkq) - 1 : Tail(blkq)[i] = blkq[i + 1]  BY <1>2, <2>1
  <2> QED BY <2>1, <2>2, <2>3, <2>4, <2>5
<1>4. /\ GoodRow(row) /\ row.id = QueueNum /\ row.oldRoot = QueueRoot /\ RowStarts(row)
      /\ row.newRoot = IF Len(blkq) = 1 THEN ReadyRoot ELSE blkq[2].oldRoot
      /\ QueueNum \in Nat
  <2>1. 1 \in 1 .. Len(blkq)  BY <1>3
  <2>2. Queued(blkq, ReadyNum, ReadyRoot) /\ QueueNum \in Nat  BY DEF IInv, PipelineInv
  <2>3. row.id = ReadyNum - Len(blkq) + 1 - 1 /\ GoodRow(row)
    BY <1>1, <2>1, <2>2 DEF Queued
  <2>4. row.newRoot = IF Len(blkq) = 1 THEN ReadyRoot ELSE blkq[2].oldRoot
    <3>1. row.newRoot = IF 1 = Len(blkq) THEN ReadyRoot ELSE blkq[1 + 1].oldRoot
      BY <1>1, <2>1, <2>2 DEF Queued
    <3> QED BY <3>1
  <2>5. row.oldRoot = QueueRoot  BY <1>1, <1>2 DEF QueueRoot
  <2>6. RowStarts(row)  BY <1>1, <2>1 DEF IInv, StartsInv
  <2>7. row.id = QueueNum
    <3>1. ready \in Seq(Rows) /\ blockNum \in Nat  BY DEF IInv, NodeInv
    <3>2. Len(ready) \in Nat  BY <3>1
    <3>3. ReadyNum \in Int  BY <3>1, <3>2 DEF ReadyNum
    <3> QED BY <1>3, <2>3, <3>3 DEF QueueNum
  <2> QED BY <2>2, <2>3, <2>4, <2>5, <2>6, <2>7
<1>5. ~checkOld /\ \A id \in DOMAIN blocks : id < QueueNum
  BY <1>2 DEF IInv, BlocksInv, NodeInv
<1>7. QueueNum \notin DOMAIN blocks  BY <1>4, <1>5
<1>8. /\ UNCHANGED <<loaderVars, node, pc, applied, buffer, blockNum, ready, checkOld,
                     tasks, dumps>>
      /\ saving' = row
      /\ blocks' = [id \in DOMAIN blocks \cup {QueueNum} |->
                      IF id = QueueNum THEN row ELSE blocks[id]]
  BY <1>3, <1>4, <1>7 DEF SaveBlock, procVars
<1>9. /\ DOMAIN blocks' = DOMAIN blocks \cup {QueueNum} /\ blocks'[QueueNum] = row
      /\ \A id \in DOMAIN blocks : blocks'[id] = blocks[id]
  BY <1>7, <1>8
<1> QED BY <1>1, <1>2, <1>3, <1>4, <1>5, <1>7, <1>8, <1>9 DEF Saved

LEMMA SaveBlockInv == IInv /\ SaveBlock => IInv'
<1> SUFFICES ASSUME IInv, SaveBlock PROVE IInv'  OBVIOUS
<1>1. PICK row : Saved(row)  BY SavedBlock
<1> USE DEF Saved
<1>6. DOMAIN blocks \subseteq Nat /\ IsFiniteSet(DOMAIN blocks)  BY DEF IInv, BlocksInv
<1>10. UNCHANGED <<topic, logStart, received>>  BY <1>1 DEF loaderVars
<1>11. LP!IInv /\ LoaderInv  BY DEF IInv, LoaderInv
<1>12. Kept  BY <1>10, <1>11, KeptSame
<1>13. LP!IInv'  BY <1>1, <1>11, LoaderIdle
<1>14. AppliedExactlyOnce'  BY <1>1, <1>10, <1>11, <1>12, AppliedSame DEF IInv
<1>15. BufferInv' /\ UNCHANGED BufferRoot  BY <1>1, <1>12, BufferSame DEF IInv
<1>16. ReadyNum' = ReadyNum /\ ReadyRoot' = ReadyRoot
  BY <1>1, <1>15 DEF ReadyNum, ReadyRoot
<1>17. blockNum \in Nat /\ Len(ready) \in Nat /\ ReadyNum \in Int /\ ReadyNum <= blockNum
  <2>1. ready \in Seq(Rows) /\ blockNum \in Nat  BY DEF IInv, NodeInv
  <2>2. Len(ready) \in Nat  BY <2>1
  <2> QED BY <2>1, <2>2 DEF ReadyNum
<1>18. QueueNum' = QueueNum + 1
  BY <1>1, <1>16, <1>17 DEF QueueNum
<1>19. QueueRoot' = row.newRoot
  <2>1. CASE Len(blkq) = 1
    <3>1. Len(blkq') = 0  BY <1>1, <2>1
    <3>2. blkq' = <<>>  BY <1>1, <3>1
    <3> QED BY <1>1, <1>16, <2>1, <3>2 DEF QueueRoot
  <2>2. CASE Len(blkq) # 1
    <3>1. 1 \in 1 .. Len(blkq')  BY <1>1, <2>2
    <3>2. blkq' # <<>>  BY <1>1, <3>1
    <3>3. blkq'[1] = blkq[1 + 1]  BY <1>1, <3>1
    <3> QED BY <1>1, <2>2, <3>2, <3>3 DEF QueueRoot
  <2> QED BY <2>1, <2>2
<1>20. NodeInv'
  <2>1. Rows \subseteq Rows' /\ Entries \subseteq Entries'  BY <1>12 DEF Kept
  <2>2. buffer' \in Seq(Entries') /\ ready' \in Seq(Rows') /\ blkq' \in Seq(Rows')
    BY <1>1, <2>1 DEF IInv, NodeInv
  <2>3. saving' \in Rows' \cup {NoBlock}  BY <1>1, <2>1 DEF GoodRow
  <2>4. saving'.id \in DOMAIN blocks'  BY <1>1
  <2>5. tasks' \in Seq(DOMAIN blocks')
    <3>1. DOMAIN blocks \subseteq DOMAIN blocks'  BY <1>1
    <3> QED BY <1>1, <3>1 DEF IInv, NodeInv
  <2>6. NoBlock' = NoBlock  BY DEF NoBlock
  <2> QED BY <1>1, <2>2, <2>3, <2>4, <2>5, <2>6 DEF IInv, NodeInv
<1>21. PipelineInv'
  <2>1. Queued(ready, blockNum, BufferRoot)'
    BY <1>1, <1>12, <1>15 DEF IInv, PipelineInv, Queued, Kept
  <2>2. Queued(blkq, ReadyNum, ReadyRoot)'
    <3> SUFFICES ASSUME NEW i \in 1 .. Len(blkq')
                 PROVE  /\ GoodRow(blkq[i])' /\ blkq'[i].id = ReadyNum' - Len(blkq') + i - 1
                        /\ blkq'[i].newRoot = IF i = Len(blkq') THEN ReadyRoot'
                                              ELSE blkq'[i + 1].oldRoot
      BY DEF Queued
    <3>1. PICK r : r = blkq[i + 1]  OBVIOUS
    <3>2. i + 1 \in 1 .. Len(blkq) /\ blkq'[i] = r  BY <1>1, <3>1
    <3>3. /\ GoodRow(r) /\ r.id = ReadyNum - Len(blkq) + (i + 1) - 1
          /\ r.newRoot = IF i + 1 = Len(blkq) THEN ReadyRoot ELSE blkq[(i + 1) + 1].oldRoot
      BY <3>1, <3>2 DEF IInv, PipelineInv, Queued
    <3>4. GoodRow(r)'  BY <1>12, <3>3 DEF Kept
    <3>5. ReadyNum' - Len(blkq') + i - 1 = ReadyNum - Len(blkq) + (i + 1) - 1
      BY <1>1, <1>16, <1>17, <3>2
    <3>6. i = Len(blkq') <=> i + 1 = Len(blkq)  BY <1>1, <3>2
    <3>7. i # Len(blkq') => blkq'[i + 1] = blkq[(i + 1) + 1]
      <4>a. Len(blkq') \in Nat  BY <1>1
      <4>1. i # Len(blkq') => i + 1 \in 1 .. Len(blkq')  BY <4>a
      <4> QED BY <1>1, <4>1
    <3> QED BY <1>16, <3>2, <3>3, <3>4, <3>5, <3>6, <3>7
  <2>3. QueueNum' \in Nat  BY <1>1, <1>18
  <2> QED BY <2>1, <2>2, <2>3 DEF PipelineInv
<1>22. PcInv'
  BY <1>1, PcSame DEF IInv
<1>23. DumpsInv'  BY <1>1, <1>10, <1>12, DumpsSame DEF IInv
<1>24. \A n : DumpOf(n)' <=> DumpOf(n)  BY <1>1 DEF DumpOf, Complete
<1>25. StartsInv'
  <2>1. \A r : RowStarts(r) => RowStarts(r)'
    BY <1>1, <1>24 DEF RowStarts, StartsAt
  <2>2. ASSUME NEW id \in DOMAIN blocks' PROVE RowStarts(blocks[id])'
    <3>1. PICK r : r = blocks'[id]  OBVIOUS
    <3>2. RowStarts(r)  BY <1>1, <3>1 DEF IInv, StartsInv
    <3> QED BY <2>1, <3>1, <3>2
  <2>3. ASSUME NEW i \in 1 .. Len(blkq') PROVE RowStarts(blkq[i])'
    <3>1. PICK r : r = blkq[i + 1]  OBVIOUS
    <3>2. i + 1 \in 1 .. Len(blkq) /\ blkq'[i] = r  BY <1>1, <3>1
    <3>3. RowStarts(r)  BY <3>1, <3>2 DEF IInv, StartsInv
    <3> QED BY <2>1, <3>2, <3>3
  <2>4. ASSUME NEW i \in 1 .. Len(ready') PROVE RowStarts(ready[i])'
    BY <1>1, <2>1 DEF IInv, StartsInv
  <2>5. StartsAt(blockNum, BufferRoot)'
    BY <1>1, <1>15, <1>24 DEF IInv, StartsInv, StartsAt
  <2> QED BY <2>2, <2>3, <2>4, <2>5 DEF StartsInv
<1>26. DueInv'
  <2>1. DumpDue(QueueNum + 1) => DumpOf(QueueNum + 1)
    <3> SUFFICES ASSUME DumpDue(QueueNum + 1) PROVE DumpOf(QueueNum + 1)  OBVIOUS
    <3>1. QueueNum \in QueueNum .. blockNum - 1
      BY <1>1, <1>17 DEF QueueNum
    <3>2. DumpOf(QueueNum + 1) \/ (QueueNum + 1 = blockNum /\ pc \in Persisting)
      BY <3>1 DEF IInv, DueInv
    <3>3. ASSUME pc \in Persisting PROVE QueueNum + 1 # blockNum
      <4>1. ReadyNum = blockNum - 1  BY <3>3, Dumping
      <4> QED BY <1>1, <1>17, <4>1 DEF QueueNum
    <3> QED BY <3>2, <3>3
  <2>2. \A id \in DOMAIN blocks' : DumpDue(id + 1)' => DumpOf(id + 1)'
    BY <1>1, <1>24, <2>1 DEF IInv, DueInv, DumpDue
  <2>3. \A num \in QueueNum' .. blockNum' - 1 : num \in QueueNum .. blockNum - 1
    BY <1>1, <1>17, <1>18
  <2> QED BY <1>1, <1>24, <2>2, <2>3 DEF IInv, DueInv, DumpDue
<1>27. BlocksInv'
  <2>1. \A num : Follows(num) => Follows(num)'  BY <1>1 DEF Follows
  <2>2. \A r : GoodRow(r) => GoodRow(r)'  BY <1>12 DEF Kept
  <2>3. DOMAIN blocks' \subseteq Nat /\ IsFiniteSet(DOMAIN blocks')
    BY <1>1, <1>6, FS_AddElement
  <2>4. ASSUME NEW id \in DOMAIN blocks'
        PROVE  /\ GoodRow(blocks[id])' /\ blocks'[id].id = id
               /\ id + 1 \in DOMAIN blocks' => blocks'[id + 1].oldRoot = blocks'[id].newRoot
               /\ Follows(id)'
    <3>1. CASE id = QueueNum
      <4>1. GoodRow(row)'  BY <1>1, <2>2
      <4>2. id + 1 \notin DOMAIN blocks'  BY <1>1, <3>1
      <4>3. Follows(id)'
        <5>1. Follows(id)  BY <3>1 DEF IInv, BlocksInv
        <5> QED BY <2>1, <5>1
      <4> QED BY <1>1, <3>1, <4>1, <4>2, <4>3
    <3>2. CASE id # QueueNum
      <4>1. id \in DOMAIN blocks /\ blocks'[id] = blocks[id]  BY <1>1, <3>2
      <4>2. PICK r : r = blocks[id]  OBVIOUS
      <4>3. GoodRow(r)' /\ r.id = id /\ Follows(id)'
        BY <2>1, <2>2, <4>1, <4>2 DEF IInv, BlocksInv
      <4>4. ASSUME id + 1 \in DOMAIN blocks'
            PROVE  blocks'[id + 1].oldRoot = blocks[id].newRoot
        <5>1. CASE id + 1 = QueueNum
          <6>1. id \in Nat /\ QueueNum - 1 = id  BY <1>6, <4>1, <5>1
          <6>2. blocks[QueueNum - 1].newRoot = QueueRoot
            BY <4>1, <6>1 DEF IInv, BlocksInv
          <6> QED BY <1>1, <5>1, <6>1, <6>2
        <5>2. CASE id + 1 # QueueNum
          <6>1. id + 1 \in DOMAIN blocks /\ blocks'[id + 1] = blocks[id + 1]
            BY <1>1, <4>4, <5>2
          <6> QED BY <4>1, <6>1 DEF IInv, BlocksInv
        <5> QED BY <5>1, <5>2
      <4> QED BY <4>1, <4>2, <4>3, <4>4
    <3> QED BY <3>1, <3>2
  <2>5. Follows(QueueNum)'
    <3>1. QueueNum' - 1 = QueueNum  BY <1>1, <1>18
    <3>2. QueueNum' - 1 \in DOMAIN blocks'  BY <1>1, <3>1
    <3> QED BY <3>2 DEF Follows
  <2>6. blocks'[QueueNum' - 1].newRoot = QueueRoot'
    <3>1. QueueNum' - 1 = QueueNum  BY <1>1, <1>18
    <3> QED BY <1>1, <1>19, <3>1
  <2>7. \A id \in DOMAIN blocks' : id < QueueNum'
    BY <1>1, <1>6, <1>18
  <2> QED BY <1>1, <2>3, <2>4, <2>5, <2>6, <2>7 DEF BlocksInv
<1>28. DivergenceExplained'
  <2>1. UNCHANGED <<ready, pc>>  BY <1>1
  <2>2. \A id \in DOMAIN blocks : id \in DOMAIN blocks' /\ blocks'[id] = blocks[id]
    BY <1>1
  <2> QED BY <1>12, <2>1, <2>2, DivergenceSame DEF IInv
<1> QED BY <1>10, <1>11, <1>13, <1>14, <1>15, <1>20, <1>21, <1>22, <1>23, <1>25,
           <1>26, <1>27, <1>28 DEF IInv, LoaderInv

-----------------------------------------------------------------------------
(* Restarts. *)

\* Of what was received, a restart keeps all up to the offset it starts from.
LEMMA ReceivedKept ==
  ASSUME LoaderInv, NEW offset \in Range(received) \cup {-1}, Loader!Start(offset)
  PROVE  /\ LastReceived' = offset
         /\ offset # -1 => offset \in Range(received')
<1>1. received \in Seq(Loader!Offsets)  BY LoaderTypes DEF LoaderInv
<1>2. /\ DOMAIN received = 1 .. Len(received) /\ Len(received) \in Nat
      /\ \A i \in 1 .. Len(received) : received[i] \in Nat
  BY <1>1 DEF Loader!Offsets
<1>3. PICK n \in 0 .. Len(received) :
        /\ n > 0 => received[n] <= offset
        /\ \A i \in n + 1 .. Len(received) : received[i] > offset
        /\ received' = SubSeq(received, 1, n)
  BY DEF Loader!Start, Loader!KeepUpTo
<1>4. CASE offset = -1
  <2>1. n = 0
    <3>1. ~ (n > 0)
      <4>1. ASSUME n > 0 PROVE FALSE
        <5>1. n \in 1 .. Len(received)  BY <1>2, <4>1
        <5>2. received[n] \in Nat /\ received[n] <= -1  BY <1>2, <1>3, <1>4, <4>1, <5>1
        <5> QED BY <5>2
      <4> QED BY <4>1
    <3> QED BY <1>2, <3>1
  <2>2. received' = <<>>  BY <1>1, <1>3, <2>1
  <2> QED BY <1>4, <2>2 DEF LastReceived, Loader!NoOffset
<1>5. CASE offset # -1
  <2>1. PICK j \in 1 .. Len(received) : offset = received[j]  BY <1>2, <1>5 DEF Range
  <2>2. j <= n
    <3>1. ASSUME j > n PROVE FALSE
      <4>1. j \in n + 1 .. Len(received)  BY <1>2, <3>1
      <4>2. received[j] > received[j] /\ received[j] \in Nat  BY <1>2, <1>3, <2>1, <4>1
      <4> QED BY <4>2
    <3> QED BY <1>2, <3>1
  <2>3. n \in 1 .. Len(received) /\ n > 0  BY <1>2, <2>2
  <2>4. n = j
    <3>1. ASSUME j < n PROVE FALSE
      <4>1. InOrder(received)  BY HandedOver
      <4>2. received[j] < received[n]  BY <1>2, <2>3, <3>1, <4>1 DEF InOrder
      <4>3. received[n] <= received[j]  BY <1>3, <2>1, <2>3
      <4>4. received[n] \in Nat /\ received[j] \in Nat  BY <1>2, <2>3
      <4> QED BY <4>2, <4>3, <4>4
    <3> QED BY <1>2, <2>2, <3>1
  <2>5. received' # <<>> /\ Last(received') = received[n] /\ n \in DOMAIN received'
        /\ received'[n] = received[n]
    <3>1. /\ received' \in Seq(Loader!Offsets) /\ Len(received') = n
          /\ \A i \in 1 .. n : received'[i] = received[i]
      BY <1>1, <1>3, <2>3
    <3>2. n \in 1 .. n  BY <2>3
    <3>3. DOMAIN received' = 1 .. n  BY <3>1
    <3>4. received' # <<>>  BY <2>3, <3>1
    <3> QED BY <3>1, <3>2, <3>3, <3>4 DEF Last
  <2>6. LastReceived' = offset  BY <2>1, <2>4, <2>5 DEF LastReceived
  <2>7. offset \in Range(received')  BY <2>1, <2>4, <2>5 DEF Range
  <2> QED BY <2>6, <2>7
<1> QED BY <1>4, <1>5

\* A restart from a state and block number that fit the dumps, if there are any.
LEMMA StartInv ==
  ASSUME IInv, NEW root, IsRoot(root), NEW num \in Nat,
         NEW offset \in Range(received) \cup {-1},
         StartFrom(root, num, offset), MadeOf(root, offset),
         \A n \in DOMAIN dumps : n <= num /\ Complete(n),
         num = 0 => root = <<>>,
         num # 0 => DumpOf(num) /\ root = dumps[num].state /\ offset = dumps[num].kafka
  PROVE  IInv'
<1>1. /\ Loader!Start(offset) /\ node' = "up" /\ pc' = "recv"
      /\ applied' = root /\ blockNum' = num
      /\ buffer' = <<>> /\ ready' = <<>> /\ checkOld' = TRUE
      /\ blkq' = <<>> /\ saving' = NoBlock /\ UNCHANGED <<blocks, tasks, dumps>>
  BY DEF StartFrom, dbVars
<1>2. UNCHANGED <<topic, logStart>>  BY <1>1 DEF Loader!Start
<1>3. LP!IInv /\ LoaderInv  BY DEF IInv, LoaderInv
<1>4. Kept  BY <1>2, <1>3, KeptSame
<1>5. LP!IInv'
  <2>1. pc' \notin Ended  BY <1>1 DEF Ended
  <2> QED BY <1>1, <1>3, <2>1, LoaderStart
<1>6. offset \in Loader!Offsets \cup {-1} /\ offset \in Int
  <2>1. received \in Seq(Loader!Offsets)  BY <1>3, LoaderTypes
  <2>2. offset \in Loader!Offsets \cup {-1}  BY <2>1 DEF Range
  <2> QED BY <2>2 DEF Loader!Offsets
<1>7. LastReceived' = offset /\ (offset # -1 => offset \in Range(received'))
  BY <1>1, <1>3, ReceivedKept
<1>8. AppliedExactlyOnce'
  <2>1. MadeOf(root, offset)'  BY <1>4, <1>6 DEF Kept
  <2> QED BY <1>1, <1>7, <2>1 DEF AppliedExactlyOnce
<1>9. NodeInv'
  <2>1. ready' \in Seq(Rows') /\ blkq' \in Seq(Rows') /\ buffer' \in Seq(Entries')  BY <1>1
  <2> QED BY <1>1, <2>1 DEF IInv, NodeInv, Pcs, NoBlock
<1>10. /\ BufferRoot' = root /\ ReadyNum' = num /\ ReadyRoot' = root
       /\ QueueNum' = num /\ QueueRoot' = root
  <2>1. Len(<<>>) = 0 /\ num - 0 = num  OBVIOUS
  <2> QED BY <1>1, <2>1 DEF BufferRoot, ReadyNum, ReadyRoot, QueueNum, QueueRoot
<1>11. IsRoot(root) /\ IsRoot(root)'
  BY <1>4 DEF Kept
<1>12. BufferInv'
  <2>1. Len(root) \in Nat  BY RootType DEF IsRoot
  <2>2. /\ Len(root) <= Len(root) /\ Len(root) <= Len(root) + 0
        /\ Len(root) = Len(root) + 0 /\ 1 .. 0 = {}
    BY <2>1
  <2>3. Len(buffer') = 0  BY <1>1
  <2>4. Fits(BufferOffsets, 0, BufferRoot, applied)'
    BY <1>1, <1>10, <1>11, <2>2 DEF Fits
  <2>5. Fits(BufferOffsets, Len(buffer), BufferRoot, applied)'  BY <2>3, <2>4
  <2> QED BY <1>1, <1>10, <2>2, <2>3, <2>5 DEF BufferInv
<1>13. PipelineInv'
  <2>1. Queued(ready, blockNum, BufferRoot)' /\ Queued(blkq, ReadyNum, ReadyRoot)'
    BY <1>1 DEF Queued
  <2> QED BY <1>10, <2>1 DEF PipelineInv
<1>14. PcInv'
  <2>1. Len(ready') <= 1 /\ Len(buffer') <= NTx /\ Len(buffer') < NTx
    <3>1. Len(ready') = 0 /\ Len(buffer') = 0  BY <1>1
    <3> QED BY <3>1, NodeAssumption
  <2> QED BY <1>1, <2>1 DEF PcInv, Persisting
<1>15. DumpsInv'
  <2> SUFFICES ASSUME NEW n \in DOMAIN dumps
               PROVE  (/\ n \in 1 .. blockNum /\ DumpDue(n)
                       /\ ~Complete(n) => n = blockNum /\ pc \in Persisting
                       /\ Complete(n) => /\ DumpGood(n)
                                         /\ (\A m \in DOMAIN dumps : m <= n) =>
                                              dumps[n].kafka \in Range(received))'
    BY <1>1 DEF DumpsInv, DumpGood
  <2>1. Complete(n) /\ n <= num  OBVIOUS
  <2>2. Complete(n)'  BY <1>1, <2>1 DEF Complete
  <2>3. DumpGood(n)'
    <3>1. DumpGood(n)  BY <2>1 DEF IInv, DumpsInv, DumpGood
    <3> QED BY <1>1, <1>4, <3>1, DumpStays
  <2>4. n \in 1 .. num /\ DumpDue(n)
    <3>1. n \in 1 .. blockNum /\ blockNum \in Nat /\ DumpDue(n)
      BY DEF IInv, DumpsInv, NodeInv
    <3> QED BY <2>1, <3>1
  <2>5. ASSUME \A m \in DOMAIN dumps : m <= n
        PROVE  dumps[n].kafka \in Range(received')
    <3>1. num # 0  BY <2>4
    <3>2. num \in DOMAIN dumps  BY <3>1 DEF DumpOf
    <3>3. num <= n  BY <2>5, <3>2
    <3>4. n = num  BY <2>4, <3>3
    <3>5. offset = dumps[n].kafka  BY <3>1, <3>4
    <3>6. DumpGood(n)  BY <2>1 DEF IInv, DumpsInv, DumpGood
    <3>7. offset # -1  BY <3>5, <3>6 DEF DumpGood, Loader!Offsets
    <3> QED BY <1>7, <3>5, <3>7
  <2> QED BY <1>1, <2>2, <2>3, <2>4, <2>5 DEF DumpDue
<1>16. \A n, r : StartsAt(n, r)' <=> StartsAt(n, r)
  BY <1>1 DEF StartsAt, DumpOf, Complete
<1>17. StartsInv'
  <2>1. StartsAt(num, root)
    <3>1. DumpOf(0) => FALSE  BY DEF IInv, DumpsInv, DumpOf
    <3> QED BY <3>1 DEF StartsAt
  <2>2. StartsAt(blockNum, BufferRoot)'  BY <1>1, <1>10, <1>16, <2>1
  <2>3. \A id \in DOMAIN blocks' : RowStarts(blocks[id])'
    BY <1>1, <1>16 DEF IInv, StartsInv, RowStarts
  <2> QED BY <1>1, <2>2, <2>3 DEF StartsInv
<1>18. DueInv'
  <2>1. QueueNum' .. blockNum' - 1 = {}  BY <1>1, <1>10
  <2> QED BY <1>1, <2>1 DEF IInv, DueInv, DumpOf, Complete, DumpDue
<1>19. BlocksInv'
  <2>1. \A n : Follows(n) => Follows(n)'  BY <1>1 DEF Follows
  <2>2. \A r : GoodRow(r) => GoodRow(r)'  BY <1>4 DEF Kept
  <2>3. /\ DOMAIN blocks' \subseteq Nat /\ IsFiniteSet(DOMAIN blocks')
        /\ \A id \in DOMAIN blocks' :
             /\ GoodRow(blocks[id])' /\ blocks'[id].id = id
             /\ id + 1 \in DOMAIN blocks' => blocks'[id + 1].oldRoot = blocks'[id].newRoot
             /\ Follows(id)'
    BY <1>1, <2>1, <2>2 DEF IInv, BlocksInv
  <2>4. Follows(num)
    <3>1. num # 0 => \E n \in DOMAIN dumps : num <= n  BY DEF DumpOf
    <3> QED BY <3>1 DEF Follows
  <2>5. num - 1 \in DOMAIN blocks => blocks[num - 1].newRoot = root
    <3> SUFFICES ASSUME num - 1 \in DOMAIN blocks PROVE blocks[num - 1].newRoot = root
      OBVIOUS
    <3>1. num - 1 \in Nat /\ blocks[num - 1].id = num - 1  BY DEF IInv, BlocksInv
    <3>2. num # 0 /\ blocks[num - 1].id + 1 = num  BY <3>1
    <3>3. RowStarts(blocks[num - 1])  BY DEF IInv, StartsInv
    <3>4. DumpOf(num) /\ root = dumps[num].state  BY <3>2
    <3> QED BY <3>2, <3>3, <3>4 DEF RowStarts, StartsAt
  <2>6. num \in DOMAIN blocks => blocks[num].oldRoot = root
    <3> SUFFICES ASSUME num \in DOMAIN blocks PROVE blocks[num].oldRoot = root
      OBVIOUS
    <3>1. blocks[num].id = num /\ RowStarts(blocks[num])  BY DEF IInv, BlocksInv, StartsInv
    <3> QED BY <3>1 DEF RowStarts, StartsAt
  <2>7. \A id \in DOMAIN blocks : id > num => id - 1 \in DOMAIN blocks
    <3> SUFFICES ASSUME NEW id \in DOMAIN blocks, id > num PROVE id - 1 \in DOMAIN blocks
      OBVIOUS
    <3>1. id \in Nat /\ Follows(id)  BY DEF IInv, BlocksInv
    <3>2. id # 0  BY <3>1
    <3>3. ASSUME NEW n \in DOMAIN dumps, id <= n PROVE FALSE
      <4>1. n \in Nat /\ n <= num  BY DEF IInv, DumpsInv, NodeInv
      <4> QED BY <3>1, <3>3, <4>1
    <3> QED BY <3>1, <3>2, <3>3 DEF Follows
  <2> QED BY <1>1, <1>10, <2>1, <2>3, <2>4, <2>5, <2>6, <2>7 DEF BlocksInv
<1>20. DivergenceExplained'  BY <1>1 DEF DivergenceExplained
<1> QED BY <1>2, <1>3, <1>5, <1>8, <1>9, <1>12, <1>13, <1>14, <1>15, <1>17, <1>18, <1>19,
           <1>20 DEF IInv, LoaderInv

\* Without a dump the node starts from nothing.
LEMMA StartFreshInv == IInv /\ StartFresh => IInv'
<1> SUFFICES ASSUME IInv, StartFresh PROVE IInv'  OBVIOUS
<1>1. DOMAIN dumps = {} /\ StartFrom(<<>>, 0, Loader!NoOffset)  BY DEF StartFresh
<1>2. Loader!NoOffset = -1  BY DEF Loader!NoOffset
<1>3. PICK root : root = <<>>  OBVIOUS
<1>4. IsRoot(root) /\ MadeOf(root, -1)  BY <1>3, EmptyRoot
<1>5. StartFrom(root, 0, -1)  BY <1>1, <1>2, <1>3
<1> QED BY <1>1, <1>3, <1>4, <1>5, StartInv

\* It starts from the newest dump only when that one is complete, and then all are.
LEMMA StartFromDumpInv == IInv /\ StartFromDump => IInv'
<1> SUFFICES ASSUME IInv, StartFromDump PROVE IInv'  OBVIOUS
<1>1. PICK top : top = Max(DOMAIN dumps)  OBVIOUS
<1>2. /\ DOMAIN dumps # {} /\ Complete(top)
      /\ StartFrom(dumps[top].state, dumps[top].block, dumps[top].kafka)
  BY <1>1 DEF StartFromDump, LatestDump
<1>3. \A n \in DOMAIN dumps : n \in 1 .. blockNum  BY DEF IInv, DumpsInv
<1>4. blockNum \in Nat  BY DEF IInv, NodeInv
<1>5. DOMAIN dumps \in SUBSET (0 .. blockNum)  BY <1>3, <1>4
<1>6. top \in DOMAIN dumps /\ \A n \in DOMAIN dumps : n <= top
  BY <1>1, <1>2, <1>4, <1>5, Greatest
<1>7. top \in 1 .. blockNum  BY <1>3, <1>6
<1>8. \A n \in DOMAIN dumps : Complete(n)
  <2> SUFFICES ASSUME NEW n \in DOMAIN dumps, ~Complete(n) PROVE FALSE  OBVIOUS
  <2>1. n = blockNum  BY DEF IInv, DumpsInv
  <2>2. n = top  BY <1>4, <1>6, <1>7, <2>1
  <2> QED BY <1>2, <2>2
<1>9. /\ dumps[top].block = top /\ IsRoot(dumps[top].state)
      /\ MadeOf(dumps[top].state, dumps[top].kafka) /\ dumps[top].kafka \in Range(received)
  BY <1>2, <1>6 DEF IInv, DumpsInv
<1>10. DumpOf(top) /\ top \in Nat /\ top # 0  BY <1>2, <1>6, <1>7 DEF DumpOf
<1>11. PICK root, offset : root = dumps[top].state /\ offset = dumps[top].kafka  OBVIOUS
<1>12. /\ IsRoot(root) /\ offset \in Range(received) /\ MadeOf(root, offset)
       /\ StartFrom(root, top, offset)
  BY <1>2, <1>9, <1>11
<1> QED BY <1>6, <1>8, <1>10, <1>11, <1>12, StartInv

-----------------------------------------------------------------------------
(* Every step keeps the invariant. *)

LEMMA InitInv == Init => IInv
<1> SUFFICES ASSUME Init PROVE IInv  OBVIOUS
<1>1. /\ node = "up" /\ pc = "recv" /\ applied = <<>> /\ buffer = <<>> /\ blockNum = 0
      /\ ready = <<>> /\ checkOld = TRUE /\ blkq = <<>> /\ saving = NoBlock
      /\ blocks = <<>> /\ tasks = <<>> /\ dumps = <<>>
      /\ Loader!Init
  BY DEF Init
<1>2. logStart = 0 /\ received = <<>>  BY <1>1 DEF Loader!Init
<1>3. LP!IInv
  <2>1. LP!Init
    BY <1>1 DEF Loader!Init, LP!Init, Loader!NoOffset, LP!NoOffset, Ended
  <2> QED BY <2>1, LoaderInit
<1>4. DOMAIN blocks = {} /\ DOMAIN dumps = {} /\ IsFiniteSet({})
  BY <1>1, FS_EmptySet
<1>5. PICK root : root = <<>>  OBVIOUS
<1>6. root \in Roots /\ IsRoot(root) /\ MadeOf(root, -1)  BY <1>5, EmptyRoot
<1>7. AppliedExactlyOnce
  <2>1. LastReceived = -1  BY <1>2 DEF LastReceived, Loader!NoOffset
  <2> QED BY <1>1, <1>5, <1>6, <2>1 DEF AppliedExactlyOnce
<1>8. Len(root) = 0 /\ Len(buffer) = 0 /\ Len(ready) = 0 /\ Len(blkq) = 0 /\ 1 .. 0 = {}
  BY <1>1, <1>5
<1>9. NodeInv
  BY <1>1, <1>4 DEF NodeInv, Pcs, NoBlock
<1>10. BufferRoot = root /\ applied = root  BY <1>1, <1>5 DEF BufferRoot
<1>11. BufferInv
  <2>1. Fits(BufferOffsets, 0, BufferRoot, applied)  BY <1>6, <1>8, <1>10 DEF Fits
  <2>2. Len(applied) = Len(BufferRoot) + Len(buffer)  BY <1>8, <1>10
  <2> QED BY <1>1, <1>8, <2>1, <2>2 DEF BufferInv
<1>12. ReadyNum = 0 /\ QueueNum = 0 /\ ReadyRoot = root /\ QueueRoot = root
  <2>1. ReadyNum = 0
    <3>1. blockNum = 0 /\ Len(ready) = 0  BY <1>1, <1>8
    <3> QED BY <3>1 DEF ReadyNum
  <2>2. QueueNum = 0  BY <1>8, <2>1 DEF QueueNum
  <2> QED BY <1>1, <1>10, <2>1, <2>2 DEF ReadyRoot, QueueRoot
<1>13. PipelineInv  BY <1>8, <1>12 DEF PipelineInv, Queued
<1>14. PcInv
  <2>1. Len(ready) <= 1 /\ Len(buffer) <= NTx /\ Len(buffer) < NTx
    BY <1>8, NodeAssumption
  <2> QED BY <1>1, <2>1 DEF PcInv, Persisting
<1>15. DumpsInv  BY <1>4 DEF DumpsInv
<1>16. StartsInv
  <2>1. StartsAt(blockNum, BufferRoot)  BY <1>4, <1>5, <1>10 DEF StartsAt, DumpOf
  <2> QED BY <1>4, <1>8, <2>1 DEF StartsInv
<1>17. DueInv
  <2>1. QueueNum .. blockNum - 1 = {}  BY <1>1, <1>12
  <2> QED BY <1>4, <2>1 DEF DueInv
<1>18. BlocksInv
  <2>1. Follows(QueueNum)  BY <1>12 DEF Follows
  <2> QED BY <1>1, <1>4, <2>1 DEF BlocksInv
<1>19. DivergenceExplained  BY <1>1 DEF DivergenceExplained
<1> QED BY <1>2, <1>3, <1>7, <1>9, <1>11, <1>13, <1>14, <1>15, <1>16, <1>17, <1>18, <1>19
        DEF IInv

\* A step that changes nothing.
LEMMA StutterInv == IInv /\ UNCHANGED vars => IInv'
<1> SUFFICES ASSUME IInv, UNCHANGED vars PROVE IInv'  OBVIOUS
<1>1. Quiet /\ UNCHANGED <<node, pc, saving, tasks>>
  BY DEF vars, Quiet, procVars, mainVars, dbVars
<1>2. Kept /\ (NodeInv' /\ PcInv' /\ DivergenceExplained' => IInv')  BY <1>1, QuietStep
<1>3. NodeInv'  BY <1>1, <1>2, NodeSame DEF Quiet, IInv, NodeInv
<1>4. PcInv' /\ DivergenceExplained'  BY <1>1, <1>2, PcSame, DivergenceSame DEF Quiet, IInv
<1> QED BY <1>2, <1>3, <1>4

LEMMA NextInv == IInv /\ [Next]_vars => IInv'
<1> SUFFICES ASSUME IInv, [Next]_vars PROVE IInv'  OBVIOUS
<1>1. CASE Publish  BY <1>1, PublishInv
<1>2. CASE LoaderStep  BY <1>2, LoaderStepInv
<1>3. CASE ProcStep
  <2>1. CASE ProcRecv  BY <2>1, ProcRecvInv
  <2>2. CASE ProcDisconnected  BY <2>2, ProcDisconnectedInv
  <2>3. CASE Forge  BY <2>3, ForgeInv
  <2>4. CASE PopDone  BY <2>4, PopDoneInv
  <2>5. CASE PersistOpen  BY <2>5, PersistOpenInv
  <2>6. CASE PersistBlockOffset  BY <2>6, PersistBlockOffsetInv
  <2>7. CASE PersistKafkaOffset  BY <2>7, PersistKafkaOffsetInv
  <2>8. CASE PersistState  BY <2>8, PersistStateInv
  <2>9. CASE SkipOld  BY <2>9, SkipOldInv
  <2>10. CASE NotDeterministic  BY <2>10, NotDeterministicInv
  <2>11. CASE SendBlock  BY <2>11, SendBlockInv
  <2> QED BY <1>3, <2>1, <2>2, <2>3, <2>4, <2>5, <2>6, <2>7, <2>8, <2>9, <2>10, <2>11
          DEF ProcStep
<1>4. CASE ProcTimeout  BY <1>4, ProcTimeoutInv
<1>5. CASE MainStep
  <2>1. CASE SaveBlock  BY <2>1, SaveBlockInv
  <2>2. CASE SaveTask  BY <2>2, SaveTaskInv
  <2>3. CASE Exit  BY <2>3, ExitInv
  <2> QED BY <1>5, <2>1, <2>2, <2>3 DEF MainStep
<1>6. CASE Crash  BY <1>6, CrashInv
<1>7. CASE StartFresh  BY <1>7, StartFreshInv
<1>8. CASE StartFromDump  BY <1>8, StartFromDumpInv
<1>9. CASE UNCHANGED vars  BY <1>9, StutterInv
<1> QED BY <1>1, <1>2, <1>3, <1>4, <1>5, <1>6, <1>7, <1>8, <1>9 DEF Next

\* The inductive invariant: no step of the loader, the processor or the main thread, no
\* timeout, crash or restart breaks it.
THEOREM Invariance == Spec => []IInv
<1>1. Init => IInv  BY InitInv
<1>2. IInv /\ [Next]_vars => IInv'  BY NextInv
<1> QED BY <1>1, <1>2, PTL DEF Spec

-----------------------------------------------------------------------------
(* What the invariant shows. *)

LEMMA InvTypes == IInv => TypeOK
<1> SUFFICES ASSUME IInv PROVE TypeOK
  OBVIOUS
<1>1. Loader!TypeOK
  BY LoaderTypes DEF IInv
<1>2. applied \in Roots
  BY BufferTypes DEF IInv
<1>3. /\ pc = "recv" => ready = <<>> /\ Len(buffer) < NTx
      /\ pc = "send" => ready # <<>>
  BY DEF IInv, PcInv
<1>4. \A id \in DOMAIN blocks : blocks[id] \in Rows /\ blocks[id].id = id
  BY DEF IInv, BlocksInv, GoodRow
<1>5. ASSUME NEW n \in DOMAIN dumps
      PROVE  DOMAIN dumps[n] \subseteq {"block", "kafka", "state"}
  <2>1. CASE Complete(n)
    BY <2>1 DEF IInv, DumpsInv
  <2>2. CASE ~Complete(n)
    <3>1. n = blockNum /\ pc \in Persisting
      BY <2>2 DEF IInv, DumpsInv
    <3>2. pc # "persist"
      BY <3>1 DEF IInv, PcInv
    <3>3. DOMAIN dumps[n] = Keys
      BY <3>1, <3>2 DEF IInv, PcInv
    <3> QED BY <3>3 DEF Keys
  <2> QED BY <2>1, <2>2
<1>6. node \in Nodes
  BY DEF IInv, NodeInv, Nodes
<1> QED BY <1>1, <1>2, <1>3, <1>4, <1>5, <1>6 DEF IInv, NodeInv, TypeOK

\* The node's variables have the types it says, and between messages less than one
\* block is buffered.
THEOREM TypeCorrect == Spec => []TypeOK
BY Invariance, InvTypes, PTL

\* Every transaction up to the last message processed was applied exactly once and in
\* order, whatever was rewound, crashed or reloaded.
THEOREM AppliedOnce == Spec => []AppliedExactlyOnce
<1>1. IInv => AppliedExactlyOnce
  BY DEF IInv
<1> QED BY <1>1, Invariance, PTL

LEMMA InvDumps == IInv => DumpExact
<1> SUFFICES ASSUME IInv, NEW n \in DOMAIN dumps
             PROVE  IF Complete(n)
                    THEN /\ dumps[n].block = n
                         /\ MadeOf(dumps[n].state, dumps[n].kafka)
                         /\ n - 1 \in DOMAIN blocks => blocks[n - 1].newRoot = dumps[n].state
                    ELSE n = Max(DOMAIN dumps)
  BY DEF DumpExact, IInv, PcInv
<1>1. n \in 1 .. blockNum /\ blockNum \in Nat
  BY DEF IInv, DumpsInv, NodeInv
<1>2. CASE Complete(n)
  <2>1. dumps[n].block = n /\ MadeOf(dumps[n].state, dumps[n].kafka)
    BY <1>2 DEF IInv, DumpsInv
  <2>2. ASSUME n - 1 \in DOMAIN blocks
        PROVE  blocks[n - 1].newRoot = dumps[n].state
    <3>1. blocks[n - 1].id = n - 1 /\ RowStarts(blocks[n - 1])
      BY <2>2 DEF IInv, BlocksInv, StartsInv
    <3>2. StartsAt(n, blocks[n - 1].newRoot)
      <4>1. blocks[n - 1].id + 1 = n
        BY <1>1, <3>1
      <4> QED BY <3>1, <4>1 DEF RowStarts
    <3> QED BY <1>2, <3>2 DEF StartsAt, DumpOf
  <2> QED BY <1>2, <2>1, <2>2
<1>3. CASE ~Complete(n)
  <2>1. n = blockNum
    BY <1>3 DEF IInv, DumpsInv
  <2>2. \A m \in DOMAIN dumps : m \in 1 .. blockNum
    BY DEF IInv, DumpsInv
  <2>3. DOMAIN dumps \in SUBSET (0 .. blockNum)
    BY <1>1, <2>2
  <2>4. Max(DOMAIN dumps) \in 1 .. blockNum /\ n <= Max(DOMAIN dumps)
    BY <1>1, <2>2, <2>3, Greatest
  <2>5. n = Max(DOMAIN dumps)
    BY <1>1, <2>1, <2>4
  <2> QED BY <1>3, <2>5
<1> QED BY <1>2, <1>3

\* A complete dump is a consistent cut at a block, only the newest may be incomplete, and
\* persist always finds the Kafka offset of the block it dumps.
THEOREM DumpsExact == Spec => []DumpExact
BY Invariance, InvDumps, PTL

\* Neighbouring blocks of the database fit together, and none is inserted twice.
THEOREM ChainsLinked == Spec => []ChainLinked
<1>1. IInv => ChainLinked
  BY DEF IInv, NodeInv, BlocksInv, ChainLinked
<1> QED BY <1>1, Invariance, PTL

\* The assertion of deterministic blocks stops a node only at a block that starts from
\* the same root as the row of its number, and that either has the same transactions,
\* a transfer to oneself among them, or differs from it by the padding of one of the
\* two; no other block of the database or of the node counts.
THEOREM DivergencesExplained == Spec => []DivergenceExplained
<1>1. IInv => DivergenceExplained
  BY DEF IInv
<1> QED BY <1>1, Invariance, PTL

=============================================================================
