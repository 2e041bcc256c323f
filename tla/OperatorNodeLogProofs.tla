----------------------- MODULE OperatorNodeLogProofs ------------------------
(***************************************************************************)
(* Proofs about the database of the operator node: no block is missing     *)
(* above the newest dump, a client that pages through the blocks while     *)
(* they are inserted misses none, and without dumps the database is the    *)
(* chain of blocks of BlockLog.                                            *)
(***************************************************************************)
EXTENDS OperatorNodeProofs

-----------------------------------------------------------------------------
(* No block of the database is missing above the newest dump. *)

LEMMA Contiguous ==
  ASSUME IInv, NEW id \in Nat, id < QueueNum, \A n \in DOMAIN dumps : n <= id
  PROVE  id \in DOMAIN blocks
<1> DEFINE Bad == {k \in 0 .. QueueNum - 1 : k \notin DOMAIN blocks /\ k >= id}
<1> SUFFICES ASSUME Bad # {} PROVE FALSE
  <2>1. QueueNum \in Nat  BY DEF IInv, PipelineInv
  <2>2. id \in 0 .. QueueNum - 1 /\ id >= id  BY <2>1
  <2> QED BY <2>2
<1>1. QueueNum \in Nat  BY DEF IInv, PipelineInv
<1>2. Bad \in SUBSET (0 .. QueueNum)  BY <1>1
<1>3. PICK m \in Bad : \A k \in Bad : k <= m
  <2> HIDE DEF Bad
  <2> QED BY <1>1, <1>2, Greatest
<1>4. m \in Nat /\ m + 1 <= QueueNum /\ m >= id /\ m \notin DOMAIN blocks
  BY <1>1, <1>3
<1>5. Follows(m + 1)
  <2>1. CASE m + 1 = QueueNum  BY <2>1 DEF IInv, BlocksInv
  <2>2. CASE m + 1 # QueueNum
    <3>1. m + 1 \in 0 .. QueueNum - 1 /\ m + 1 >= id /\ ~ (m + 1 <= m)
      BY <1>1, <1>4, <2>2
    <3>2. m + 1 \in DOMAIN blocks  BY <1>3, <3>1
    <3> QED BY <3>2 DEF IInv, BlocksInv
  <2> QED BY <2>1, <2>2
<1>6. ASSUME NEW n \in DOMAIN dumps, m + 1 <= n PROVE FALSE
  <2>1. n \in Nat  BY DEF IInv, DumpsInv, NodeInv
  <2>2. n <= id  OBVIOUS
  <2> QED BY <1>4, <1>6, <2>1, <2>2
<1>7. (m + 1) - 1 = m /\ m + 1 # 0  BY <1>4
<1> QED BY <1>4, <1>5, <1>6, <1>7 DEF Follows

\* When the node has shut down by itself, every block it forged, and every one forged
\* before by any run of the node, is in the database or before a dump.
DrainedToDump ==
  node = "exited" /\ pc = "done" =>
    \A id \in 0 .. blockNum - 1 : id \in DOMAIN blocks \/ \E n \in DOMAIN dumps : id < n

LEMMA InvDrained == IInv => DrainedToDump
<1> SUFFICES ASSUME IInv, node = "exited", pc = "done", NEW id \in 0 .. blockNum - 1,
                    ~ \E n \in DOMAIN dumps : id < n
             PROVE  id \in DOMAIN blocks
  BY DEF DrainedToDump
<1>1. ready = <<>> /\ blkq = <<>>  BY DEF IInv, PcInv, NodeInv
<1>2. blockNum \in Nat  BY DEF IInv, NodeInv
<1>3. QueueNum = blockNum
  <2>1. Len(ready) = 0 /\ Len(blkq) = 0  BY <1>1
  <2> QED BY <1>2, <2>1 DEF QueueNum, ReadyNum
<1>4. id \in Nat /\ id < QueueNum  BY <1>2, <1>3
<1>5. \A n \in DOMAIN dumps : n <= id
  <2>1. \A n \in DOMAIN dumps : n \in Nat  BY DEF IInv, DumpsInv, NodeInv
  <2> QED BY <1>4, <2>1
<1> QED BY <1>4, <1>5, Contiguous

\* When the node has shut down by itself, every block forged since the newest dump, in
\* whatever run of the node, is in the database.
THEOREM ExitDrainsToDump == Spec => []DrainedToDump
BY Invariance, InvDrained, PTL

LEMMA InvExit == PersistEvery = 0 /\ IInv => ExitDrains
<1> SUFFICES ASSUME PersistEvery = 0, IInv PROVE ExitDrains
  OBVIOUS
<1>1. DOMAIN dumps = {}  BY DEF IInv, DumpsInv, DumpDue
<1> QED BY <1>1, InvDrained DEF ExitDrains, DrainedToDump

\* Without dumps the database has every block when the node has shut down by itself.
THEOREM ExitDrainsAll == ASSUME PersistEvery = 0 PROVE Spec => []ExitDrains
<1>1. IInv => ExitDrains  BY InvExit
<1> QED BY <1>1, Invariance, PTL

-----------------------------------------------------------------------------
(* Pages of blocks. *)

\* A finite set of natural numbers has a bound.
LEMMA FiniteBounded ==
  ASSUME NEW S \in SUBSET Nat, IsFiniteSet(S)
  PROVE  \E n \in Nat : \A x \in S : x <= n
<1> DEFINE Unbounded(T) == IsFiniteSet(T) /\ ~ \E n \in Nat : \A x \in T : x <= n
           Cards == {Cardinality(T) : T \in {U \in SUBSET Nat : Unbounded(U)}}
<1> SUFFICES ASSUME Cards # {} PROVE FALSE
  OBVIOUS
<1>1. Cards \in SUBSET Nat  BY FS_CardinalityType
<1>2. PICK c \in Cards : \A d \in Cards : c <= d
  <2> HIDE DEF Cards
  <2> QED BY <1>1, Least
<1>3. PICK T \in SUBSET Nat : Unbounded(T) /\ Cardinality(T) = c
  OBVIOUS
<1>4. PICK x \in T : TRUE
  <2>1. T # {}  BY <1>3
  <2> QED BY <2>1
<1>5. IsFiniteSet(T \ {x}) /\ Cardinality(T \ {x}) = c - 1 /\ c \in Nat
  BY <1>1, <1>3, <1>4, FS_RemoveElement, FS_CardinalityType
<1>6. ~Unbounded(T \ {x})
  <2> SUFFICES ASSUME Unbounded(T \ {x}) PROVE FALSE  OBVIOUS
  <2>1. Cardinality(T \ {x}) \in Cards  OBVIOUS
  <2>2. c <= c - 1  BY <1>2, <1>5, <2>1
  <2> QED BY <1>5, <2>2
<1>7. PICK n \in Nat : \A y \in T \ {x} : y <= n  BY <1>5, <1>6
<1>8. PICK k \in Nat : k >= n /\ k >= x
  <2>1. x \in Nat  OBVIOUS
  <2>2. CASE n >= x  BY <2>1, <2>2
  <2>3. CASE ~ (n >= x)  BY <2>1, <2>3
  <2> QED BY <2>2, <2>3
<1>9. \A y \in T : y <= k  BY <1>7, <1>8
<1> QED BY <1>3, <1>8, <1>9

\* The total is one more than the highest block.
LEMMA TotalTop ==
  ASSUME NEW rows, DOMAIN rows \subseteq Nat, IsFiniteSet(DOMAIN rows)
  PROVE  Total(rows) \in Nat /\ \A id \in DOMAIN rows : id < Total(rows)
<1>1. CASE DOMAIN rows = {}  BY <1>1 DEF Total
<1>2. CASE DOMAIN rows # {}
  <2>1. PICK n \in Nat : \A id \in DOMAIN rows : id <= n
    BY FiniteBounded
  <2>2. DOMAIN rows \in SUBSET (0 .. n)  BY <2>1
  <2>3. Max(DOMAIN rows) \in DOMAIN rows /\ \A id \in DOMAIN rows : id <= Max(DOMAIN rows)
    BY <1>2, <2>2, Greatest
  <2>4. Total(rows) = Max(DOMAIN rows) + 1  BY <1>2 DEF Total
  <2>5. Max(DOMAIN rows) \in Nat  BY <2>3
  <2> QED BY <2>3, <2>4, <2>5
<1> QED BY <1>1, <1>2

\* the rows a page is taken from, and those newer than one of them
Below(rows, offset) == {id \in DOMAIN rows : id <= Total(rows) - offset}
NewerThan(ids, id)  == {newer \in ids : newer > id}

\* A page has the newest of its rows.
LEMMA PageRows ==
  ASSUME NEW rows, NEW offset, NEW limit
  PROVE  Page(rows, offset, limit) =
           {id \in Below(rows, offset) : Cardinality(NewerThan(Below(rows, offset), id)) < limit}
BY DEF Page, Newest, Below, NewerThan

\* Rows passed over lie above the page's offset.
LEMMA PassedAbove ==
  ASSUME NEW rows, DOMAIN rows \subseteq Nat, IsFiniteSet(DOMAIN rows),
         NEW offset \in 0 .. Total(rows), NEW limit \in Nat \ {0},
         NEW id \in DOMAIN rows, \A row \in Page(rows, offset, limit) : id > row
  PROVE  id > Total(rows) - offset
<1>1. Total(rows) \in Nat  BY TotalTop
<1> DEFINE ids == Below(rows, offset)
<1> SUFFICES ASSUME id <= Total(rows) - offset PROVE FALSE
  <2>1. id \in Nat  OBVIOUS
  <2> QED BY <1>1, <2>1
<1>2. id \in ids /\ ids \subseteq DOMAIN rows  BY DEF Below
<1>3. PICK n \in Nat : \A x \in DOMAIN rows : x <= n  BY FiniteBounded
<1>4. ids \in SUBSET (0 .. n)  BY <1>2, <1>3
<1> HIDE DEF ids
<1>5. PICK top \in ids : \A x \in ids : x <= top  BY <1>2, <1>4, Greatest
<1>6. NewerThan(ids, top) = {}
  <2>1. ASSUME NEW x \in ids, x > top PROVE FALSE
    <3>1. x \in Nat /\ top \in Nat /\ x <= top  BY <1>4, <1>5
    <3> QED BY <2>1, <3>1
  <2> QED BY <2>1 DEF NewerThan
<1>7. Cardinality(NewerThan(ids, top)) < limit  BY <1>6, FS_EmptySet
<1>8. top \in Page(rows, offset, limit)
  BY <1>5, <1>7, PageRows DEF ids
<1>9. id > top /\ id <= top /\ top \in Nat  BY <1>2, <1>4, <1>5, <1>8
<1> QED BY <1>9

\* An offset passes over at most as many rows.
LEMMA PassedFew ==
  ASSUME NEW rows, DOMAIN rows \subseteq Nat, IsFiniteSet(DOMAIN rows),
         NEW offset \in 0 .. Total(rows), NEW limit \in Nat \ {0},
         NEW passed \in SUBSET DOMAIN rows,
         \A id \in passed : \A row \in Page(rows, offset, limit) : id > row
  PROVE  Cardinality(passed) <= offset
<1>1. Total(rows) \in Nat /\ \A id \in DOMAIN rows : id < Total(rows)  BY TotalTop
<1>2. PICK total \in Nat : total = Total(rows)  BY <1>1
<1>3. ASSUME NEW id \in passed PROVE id \in total - offset + 1 .. total - 1
  <2>1. id > total - offset  BY <1>2, <1>3, PassedAbove
  <2>2. id \in Nat /\ id < total  BY <1>1, <1>2
  <2> QED BY <1>2, <2>1, <2>2
<1>4. passed \in SUBSET (total - offset + 1 .. total - 1)  BY <1>3
<1>5. /\ IsFiniteSet(total - offset + 1 .. total - 1)
      /\ Cardinality(total - offset + 1 .. total - 1) <= offset
  <2>1. total - offset + 1 \in Int /\ total - 1 \in Int /\ offset \in Nat  BY <1>2
  <2>2. /\ IsFiniteSet(total - offset + 1 .. total - 1)
        /\ Cardinality(total - offset + 1 .. total - 1) =
             IF total - offset + 1 > total - 1 THEN 0
             ELSE (total - 1) - (total - offset + 1) + 1
    BY <2>1, FS_Interval
  <2> QED BY <2>1, <2>2
<1>6. Cardinality(passed) <= Cardinality(total - offset + 1 .. total - 1)
  BY <1>4, <1>5, FS_Subset
<1>7. Cardinality(passed) \in Nat /\ Cardinality(total - offset + 1 .. total - 1) \in Nat
  BY <1>4, <1>5, FS_Subset, FS_CardinalityType
<1> QED BY <1>5, <1>6, <1>7

\* No row lies between a page and the next, though rows were added between them.
LEMMA NoneBetween ==
  ASSUME NEW rows, DOMAIN rows \subseteq Nat, IsFiniteSet(DOMAIN rows),
         NEW later, DOMAIN later \subseteq Nat, IsFiniteSet(DOMAIN later),
         DOMAIN rows \subseteq DOMAIN later,
         NEW offset \in 0 .. Total(rows), NEW limit \in Nat \ {0},
         NEW id \in DOMAIN rows,
         NEW above \in Page(rows, offset, limit), id <= above,
         NEW below \in Page(later, offset + limit, limit), below < id
  PROVE  id \in Page(rows, offset, limit) \cup Page(later, offset + limit, limit)
<1> DEFINE ids == Below(rows, offset)
           next == Below(later, offset + limit)
<1>1. PICK total \in Nat : total = Total(rows)  BY TotalTop
<1>2. PICK total2 \in Nat : total2 = Total(later)  BY TotalTop
<1>3. total <= total2
  <2>1. CASE DOMAIN rows = {}  BY <1>1, <1>2, <2>1 DEF Total
  <2>2. CASE DOMAIN rows # {}
    <3>1. PICK n \in Nat : \A x \in DOMAIN rows : x <= n  BY FiniteBounded
    <3>2. DOMAIN rows \in SUBSET (0 .. n)  BY <3>1
    <3>3. Max(DOMAIN rows) \in DOMAIN rows  BY <2>2, <3>2, Greatest
    <3>4. total = Max(DOMAIN rows) + 1  BY <1>1, <2>2 DEF Total
    <3>5. Max(DOMAIN rows) < total2 /\ Max(DOMAIN rows) \in Nat
      BY <1>2, <3>3, TotalTop
    <3> QED BY <3>4, <3>5
  <2> QED BY <2>1, <2>2
<1>4. id \in ids
  <2>1. above \in Below(rows, offset)  BY PageRows
  <2>2. above \in Nat /\ above <= Total(rows) - offset  BY <2>1 DEF Below
  <2>3. id <= Total(rows) - offset  BY <1>1, <2>2
  <2> QED BY <2>3 DEF Below
<1>5. /\ below \in next /\ Cardinality(NewerThan(next, below)) < limit
  BY PageRows
<1>6. ids \subseteq DOMAIN rows /\ next \subseteq DOMAIN later  BY DEF Below
<1>7. ids = {x \in DOMAIN rows : x <= total - offset}
      /\ next = {x \in DOMAIN later : x <= total2 - (offset + limit)}
  BY <1>1, <1>2 DEF Below
<1> HIDE DEF ids, next
<1>8. SUFFICES ASSUME ~ (Cardinality(NewerThan(ids, id)) < limit)
               PROVE  id \in Page(later, offset + limit, limit)
  BY <1>4, PageRows DEF ids
<1>9. id \in Nat /\ total - offset \in Int /\ id \in DOMAIN later  BY <1>1
<1>10. NewerThan(ids, id) \in SUBSET (id + 1 .. total - offset)
  <2>1. ASSUME NEW x \in NewerThan(ids, id) PROVE x \in id + 1 .. total - offset
    <3>1. x \in Nat /\ x > id /\ x <= total - offset  BY <1>7 DEF NewerThan
    <3> QED BY <1>9, <3>1
  <2> QED BY <2>1
<1>11. id + limit <= total - offset
  <2>1. IsFiniteSet(id + 1 .. total - offset)
        /\ Cardinality(id + 1 .. total - offset) =
             IF id + 1 > total - offset THEN 0 ELSE (total - offset) - (id + 1) + 1
    <3>1. id + 1 \in Int /\ total - offset \in Int  BY <1>9
    <3> QED BY <3>1, FS_Interval
  <2>2. /\ Cardinality(NewerThan(ids, id)) <= Cardinality(id + 1 .. total - offset)
        /\ IsFiniteSet(NewerThan(ids, id))
    BY <1>10, <2>1, FS_Subset
  <2>3. Cardinality(NewerThan(ids, id)) \in Nat  BY <2>2, FS_CardinalityType
  <2> QED BY <1>8, <1>9, <2>1, <2>2, <2>3
<1>12. id \in next
  <2>1. id <= total2 - (offset + limit)  BY <1>1, <1>2, <1>3, <1>9, <1>11
  <2> QED BY <1>7, <1>9, <2>1
<1>13. Cardinality(NewerThan(next, id)) < limit
  <2>1. next \in SUBSET Nat /\ IsFiniteSet(next)  BY <1>6, FS_Subset
  <2>2. IsFiniteSet(NewerThan(next, below))  BY <2>1, FS_Subset DEF NewerThan
  <2>3. NewerThan(next, id) \in SUBSET NewerThan(next, below)
    <3>1. ASSUME NEW x \in next, x > id PROVE x > below
      <4>1. x \in Nat /\ below \in Nat  BY <1>5, <2>1
      <4> QED BY <1>9, <3>1, <4>1
    <3> QED BY <3>1 DEF NewerThan
  <2>4. Cardinality(NewerThan(next, id)) <= Cardinality(NewerThan(next, below))
        /\ IsFiniteSet(NewerThan(next, id))
    BY <2>2, <2>3, FS_Subset
  <2>5. Cardinality(NewerThan(next, id)) \in Nat /\ Cardinality(NewerThan(next, below)) \in Nat
    BY <2>2, <2>4, FS_CardinalityType
  <2> QED BY <1>5, <2>4, <2>5
<1> QED BY <1>12, <1>13, PageRows DEF next

-----------------------------------------------------------------------------
(* Paging through the blocks while they are inserted. *)

\* Rows of the database stay.
LEMMA RowsStay ==
  ASSUME [Next]_vars
  PROVE  DOMAIN blocks \subseteq DOMAIN blocks'
<1>1. CASE SaveBlock
  <2>1. DOMAIN blocks' = DOMAIN blocks \cup {Head(blkq).id} \/ blocks' = blocks
    BY <1>1 DEF SaveBlock
  <2> QED BY <2>1
<1>2. CASE Publish  BY <1>2 DEF Publish, dbVars
<1>3. CASE LoaderStep  BY <1>3 DEF LoaderStep, dbVars
<1>4. CASE ProcStep
  BY <1>4 DEF ProcStep, ProcRecv, ProcDisconnected, Forge, PopDone, PersistOpen,
              PersistBlockOffset, PersistKafkaOffset, PersistState, PersistUnchanged,
              SkipOld, NotDeterministic, SendBlock, dbVars
<1>5. CASE ProcTimeout  BY <1>5 DEF ProcTimeout, dbVars
<1>6. CASE SaveTask  BY <1>6 DEF SaveTask
<1>7. CASE Exit \/ Crash  BY <1>7 DEF Exit, Crash, dbVars
<1>8. CASE StartFresh \/ StartFromDump  BY <1>8 DEF StartFresh, StartFromDump, StartFrom, dbVars
<1>9. CASE UNCHANGED vars  BY <1>9 DEF vars, dbVars
<1> QED BY <1>1, <1>2, <1>3, <1>4, <1>5, <1>6, <1>7, <1>8, <1>9 DEF Next, MainStep

\* what two requests of pages read, the second one when some more rows are there
PagesMeet(rows, later) ==
  \A offset \in 0 .. Total(rows), limit \in 1 .. 2 :
    LET page == Page(rows, offset, limit)
        next == Page(later, offset + limit, limit)
        passed == {id \in DOMAIN rows : \A row \in page : id > row}
    IN  /\ Cardinality(passed) <= offset
        /\ \A id \in DOMAIN rows \ passed :
             (\E row \in next : row < id) => id \in page \cup next

LEMMA PageStep ==
  ASSUME IInv, IInv', [Next]_vars
  PROVE  PagesMeet(blocks, blocks')
<1>1. DOMAIN blocks \subseteq DOMAIN blocks'  BY RowsStay
<1>2. PICK rows : rows = blocks  OBVIOUS
<1>3. PICK later : later = blocks'  OBVIOUS
<1>4. /\ DOMAIN rows \subseteq Nat /\ IsFiniteSet(DOMAIN rows)
      /\ DOMAIN later \subseteq Nat /\ IsFiniteSet(DOMAIN later)
      /\ DOMAIN rows \subseteq DOMAIN later
  <2>1. DOMAIN blocks \subseteq Nat /\ IsFiniteSet(DOMAIN blocks)
    BY DEF IInv, BlocksInv
  <2>2. DOMAIN blocks' \subseteq Nat /\ IsFiniteSet(DOMAIN blocks')
    BY DEF IInv, BlocksInv
  <2> QED BY <1>1, <1>2, <1>3, <2>1, <2>2
<1>5. ASSUME NEW offset \in 0 .. Total(rows), NEW limit \in 1 .. 2
      PROVE  LET page == Page(rows, offset, limit)
                 next == Page(later, offset + limit, limit)
                 passed == {id \in DOMAIN rows : \A row \in page : id > row}
             IN  /\ Cardinality(passed) <= offset
                 /\ \A id \in DOMAIN rows \ passed :
                      (\E row \in next : row < id) => id \in page \cup next
  <2> DEFINE page == Page(rows, offset, limit)
             next == Page(later, offset + limit, limit)
             passed == {id \in DOMAIN rows : \A row \in page : id > row}
  <2>1. limit \in Nat \ {0}  OBVIOUS
  <2>2. Cardinality(passed) <= offset
    <3>1. passed \in SUBSET DOMAIN rows /\ \A id \in passed : \A row \in page : id > row
      OBVIOUS
    <3> HIDE DEF passed
    <3> QED BY <1>4, <2>1, <3>1, PassedFew
  <2>3. ASSUME NEW id \in DOMAIN rows \ passed, NEW below \in next, below < id
        PROVE  id \in page \cup next
    <3>1. PICK above \in page : ~ (id > above)  BY <2>3
    <3>2. id <= above
      <4>1. above \in DOMAIN rows  BY DEF Page, Newest
      <4>2. above \in Nat /\ id \in Nat  BY <1>4, <4>1
      <4> QED BY <3>1, <4>2
    <3> QED BY <1>4, <2>1, <2>3, <3>1, <3>2, NoneBetween
  <2> QED BY <2>2, <2>3
<1>6. PagesMeet(rows, later)  BY <1>5 DEF PagesMeet
<1> QED BY <1>2, <1>3, <1>6

\* A client that reads the blocks page by page, with blocks inserted between two of its
\* requests, misses none of those there were.
THEOREM PagesComplete == Spec => PagesSkipNothing
<1>1. IInv /\ [Next]_vars => IInv'  BY NextInv
<1>2. IInv /\ IInv' /\ [Next]_vars =>
        [\A offset \in 0 .. Total(blocks), limit \in 1 .. 2 :
           LET page == Page(blocks, offset, limit)
               next == Page(blocks', offset + limit, limit)
               passed == {id \in DOMAIN blocks : \A row \in page : id > row}
           IN  /\ Cardinality(passed) <= offset
               /\ \A id \in DOMAIN blocks \ passed :
                    (\E row \in next : row < id) => id \in page \cup next]_blocks
  BY PageStep DEF PagesMeet
<1> QED BY <1>1, <1>2, Invariance, PTL DEF Spec, PagesSkipNothing
-----------------------------------------------------------------------------
(* Without dumps the database is the chain of blocks of BlockLog. *)

\* the chain that the database stands for
Chain == [i \in 1 .. Cardinality(DOMAIN blocks) |-> blocks[i - 1]]

\* BlockLog counts as this module does.
LEMMA SameCount == \A S : Log!Cardinality(S) = Cardinality(S)
BY DEF Log!Cardinality, Cardinality, Log!IsFiniteSet, IsFiniteSet

\* A function on 1 .. n is a sequence of length n.
LEMMA FunctionSeq ==
  ASSUME NEW n \in Nat, NEW f, f = [i \in 1 .. n |-> f[i]]
  PROVE  f \in Seq({f[i] : i \in 1 .. n}) /\ Len(f) = n
<1> DEFINE S == {f[i] : i \in 1 .. n}
<1>1. f \in [1 .. n -> S]  OBVIOUS
<1> HIDE DEF S
<1>2. f \in Seq(S) /\ DOMAIN f = 1 .. n  BY <1>1, SeqDef
<1>3. Len(f) = n  BY <1>2
<1> QED BY <1>2, <1>3 DEF S

\* Of some first transactions, those before one are the earlier ones.
LEMMA EarlierCount ==
  ASSUME NEW txs, IsFirst(txs), NEW i \in 1 .. Len(txs)
  PROVE  /\ Log!Earlier(txs[i]) = {txs[j] : j \in 1 .. i - 1}
         /\ Cardinality(Log!Earlier(txs[i])) = i - 1
         /\ txs[i] \in Log!TxOffsets
<1>1. txs \in Seq(Loader!Offsets) /\ InOrder(txs)  BY DEF IsFirst
<1>2. /\ Len(txs) \in Nat /\ DOMAIN txs = 1 .. Len(txs)
      /\ \A j \in 1 .. Len(txs) : txs[j] \in Loader!Offsets /\ txs[j] \in Nat
  BY <1>1, OffsetsType
<1>3. \A j, k \in 1 .. Len(txs) : j < k => txs[j] < txs[k]
  BY <1>1, <1>2 DEF InOrder
<1>4. \A j \in 1 .. Len(txs) : txs[j] \in Log!TxOffsets
  <2> SUFFICES ASSUME NEW j \in 1 .. Len(txs) PROVE txs[j] \in Log!TxOffsets  OBVIOUS
  <2>1. txs[j] \in Range(txs)  BY <1>2 DEF Range
  <2>2. IsTx(txs[j])  BY <2>1 DEF IsFirst
  <2> QED BY <1>2, <2>2 DEF IsTx, IsSelf, Log!TxOffsets, Loader!Offsets
<1>5. ASSUME NEW j \in 1 .. i - 1 PROVE j \in 1 .. Len(txs) /\ j < i
  BY <1>2
<1>6. ASSUME NEW o \in Log!Earlier(txs[i]) PROVE o \in {txs[j] : j \in 1 .. i - 1}
  <2>1. o \in Log!TxOffsets /\ o < txs[i]  BY <1>6 DEF Log!Earlier
  <2>2. o \in Int /\ o >= 0 /\ IsTx(o)  BY <2>1 DEF Log!TxOffsets, IsTx, IsSelf
  <2>3. o \in TxsUpTo(txs[i])  BY <1>2, <2>1, <2>2 DEF TxsUpTo
  <2>4. o \in Range(txs)  BY <1>2, <2>3 DEF IsFirst
  <2>5. PICK j \in 1 .. Len(txs) : o = txs[j]  BY <1>2, <2>4 DEF Range
  <2>6. j < i
    <3>1. CASE j = i  BY <1>2, <2>1, <2>5, <3>1
    <3>2. CASE i < j
      <4>1. txs[i] < txs[j]  BY <1>3, <3>2
      <4>2. txs[i] \in Nat /\ txs[j] \in Nat  BY <1>2
      <4> QED BY <2>1, <2>5, <4>1, <4>2
    <3> QED BY <3>1, <3>2
  <2>7. j \in 1 .. i - 1  BY <2>6
  <2> QED BY <2>5, <2>7
<1>7. ASSUME NEW j \in 1 .. i - 1 PROVE txs[j] \in Log!Earlier(txs[i])
  BY <1>3, <1>4, <1>5 DEF Log!Earlier
<1>8. Log!Earlier(txs[i]) = {txs[j] : j \in 1 .. i - 1}
  BY <1>6, <1>7
<1>9. Cardinality({txs[j] : j \in 1 .. i - 1}) = i - 1
  <2> DEFINE T == {txs[j] : j \in 1 .. i - 1}
             f == [j \in 1 .. i - 1 |-> txs[j]]
  <2>1. ASSUME NEW j \in 1 .. i - 1, NEW k \in 1 .. i - 1, f[j] = f[k] PROVE j = k
    <3>1. txs[j] = txs[k]  BY <2>1
    <3>2. j \in 1 .. Len(txs) /\ k \in 1 .. Len(txs)  BY <1>5
    <3>3. txs[j] \in Nat  BY <1>2, <3>2
    <3>4. ~ (j < k) /\ ~ (k < j)  BY <1>3, <3>1, <3>2, <3>3
    <3> QED BY <3>4
  <2>2. f \in Bijection(1 .. i - 1, T)
    BY <2>1 DEF Bijection, Injection, Surjection, IsInjective
  <2>3. ExistsBijection(1 .. i - 1, T)  BY <2>2 DEF ExistsBijection
  <2>4. i - 1 \in Nat  BY <1>2
  <2>5. Cardinality(T) = i - 1
    <3> HIDE DEF T
    <3> QED BY <2>3, <2>4, FS_CountingElements
  <2> QED BY <2>5
<1> QED BY <1>4, <1>8, <1>9

\* Counting the transactions before it tells a transaction.
LEMMA EarlierLess ==
  ASSUME NEW o \in Log!TxOffsets, NEW p \in Log!TxOffsets, o < p
  PROVE  /\ Cardinality(Log!Earlier(o)) \in Nat /\ Cardinality(Log!Earlier(p)) \in Nat
         /\ Cardinality(Log!Earlier(o)) < Cardinality(Log!Earlier(p))
<1>1. o \in Nat /\ p \in Nat  BY DEF Log!TxOffsets
<1>2. IsFiniteSet(0 .. p)  BY <1>1, FS_Interval
<1>3. Log!Earlier(p) \in SUBSET (0 .. p) /\ Log!Earlier(o) \in SUBSET (0 .. p)
  <2>1. \A x \in Log!TxOffsets : x \in Nat  BY DEF Log!TxOffsets
  <2>2. ASSUME NEW x \in Log!TxOffsets, x < p \/ x < o PROVE x \in 0 .. p
    <3>1. x \in Nat  BY <2>1
    <3> QED BY <1>1, <2>2, <3>1
  <2> QED BY <2>2 DEF Log!Earlier
<1>4. IsFiniteSet(Log!Earlier(p)) /\ IsFiniteSet(Log!Earlier(o))
  BY <1>2, <1>3, FS_Subset
<1>5. Log!Earlier(o) \cup {o} \in SUBSET Log!Earlier(p) /\ o \notin Log!Earlier(o)
  <2>1. \A x \in Log!TxOffsets : x \in Nat  BY DEF Log!TxOffsets
  <2>2. o \notin Log!Earlier(o)  BY <1>1 DEF Log!Earlier
  <2>3. ASSUME NEW x \in Log!Earlier(o) \cup {o} PROVE x \in Log!Earlier(p)
    BY <1>1, <2>1 DEF Log!Earlier
  <2> QED BY <2>2, <2>3
<1>6. Cardinality(Log!Earlier(o) \cup {o}) = Cardinality(Log!Earlier(o)) + 1
  BY <1>4, <1>5, FS_AddElement
<1>7. Cardinality(Log!Earlier(o) \cup {o}) <= Cardinality(Log!Earlier(p))
  BY <1>4, <1>5, FS_Subset
<1>8. Cardinality(Log!Earlier(o)) \in Nat /\ Cardinality(Log!Earlier(p)) \in Nat
  BY <1>4, FS_CardinalityType
<1> QED BY <1>6, <1>7, <1>8

\* They are the first ones of the log.
LEMMA FirstIsPrefix ==
  ASSUME NEW txs, IsFirst(txs), topic \in Seq(Kinds)
  PROVE  /\ Len(txs) \in Nat /\ Cardinality(Log!TxOffsets) \in Nat
         /\ Len(txs) <= Cardinality(Log!TxOffsets)
         /\ Len(Log!Txs) = Cardinality(Log!TxOffsets)
         /\ \A i \in 1 .. Len(txs) : Log!Txs[i] = txs[i]
<1> DEFINE Nth(i) == CHOOSE o \in Log!TxOffsets : Cardinality(Log!Earlier(o)) = i - 1
<1>a. Log!Txs = [i \in 1 .. Cardinality(Log!TxOffsets) |-> Nth(i)]
  BY SameCount DEF Log!Txs
<1>1. txs \in Seq(Loader!Offsets)  BY DEF IsFirst
<1>2. Len(txs) \in Nat /\ DOMAIN txs = 1 .. Len(txs)
  BY <1>1, OffsetsType
<1>3. IsFiniteSet(Log!TxOffsets) /\ Cardinality(Log!TxOffsets) \in Nat
  <2>2. Len(topic) - 1 \in Int  OBVIOUS
  <2>3. IsFiniteSet(0 .. Len(topic) - 1)  BY <2>2, FS_Interval
  <2>4. Log!TxOffsets \in SUBSET (0 .. Len(topic) - 1)  BY DEF Log!TxOffsets
  <2>5. IsFiniteSet(Log!TxOffsets)  BY <2>3, <2>4, FS_Subset
  <2> QED BY <2>5, FS_CardinalityType
<1>4. Len(txs) <= Cardinality(Log!TxOffsets)
  <2>1. CASE Len(txs) = 0  BY <1>3, <2>1
  <2>2. CASE Len(txs) # 0
    <3>1. Len(txs) \in 1 .. Len(txs)  BY <1>2, <2>2
    <3>2. Cardinality(Log!Earlier(txs[Len(txs)])) = Len(txs) - 1
          /\ txs[Len(txs)] \in Log!TxOffsets
      BY <3>1, EarlierCount
    <3>3. Log!Earlier(txs[Len(txs)]) \in SUBSET Log!TxOffsets
          /\ txs[Len(txs)] \notin Log!Earlier(txs[Len(txs)])
      BY <3>2 DEF Log!Earlier, Log!TxOffsets
    <3>4. Cardinality(Log!Earlier(txs[Len(txs)])) # Cardinality(Log!TxOffsets)
          /\ Cardinality(Log!Earlier(txs[Len(txs)])) <= Cardinality(Log!TxOffsets)
      BY <1>3, <3>2, <3>3, FS_Subset
    <3>5. Len(txs) - 1 # Cardinality(Log!TxOffsets)
          /\ Len(txs) - 1 <= Cardinality(Log!TxOffsets)
      BY <3>2, <3>4
    <3> QED BY <1>2, <1>3, <3>5
  <2> QED BY <2>1, <2>2
<1>5. ASSUME NEW i \in 1 .. Len(txs) PROVE Log!Txs[i] = txs[i]
  <2>1. Cardinality(Log!Earlier(txs[i])) = i - 1 /\ txs[i] \in Log!TxOffsets
    BY EarlierCount
  <2>2. ASSUME NEW o \in Log!TxOffsets, Cardinality(Log!Earlier(o)) = i - 1
        PROVE  o = txs[i]
    <3>1. o \in Nat /\ txs[i] \in Nat  BY <2>1 DEF Log!TxOffsets
    <3>2. ~ (o < txs[i])  BY <2>1, <2>2, EarlierLess
    <3>3. ~ (txs[i] < o)  BY <2>1, <2>2, EarlierLess
    <3> QED BY <3>1, <3>2, <3>3
  <2>3. (CHOOSE o \in Log!TxOffsets : Cardinality(Log!Earlier(o)) = i - 1) = txs[i]
    BY <2>1, <2>2
  <2>4. i \in 1 .. Cardinality(Log!TxOffsets)  BY <1>2, <1>3, <1>4
  <2>5. Log!Txs[i] = Nth(i)
    <3> HIDE DEF Nth
    <3> QED BY <1>a, <2>4
  <2> QED BY <2>3, <2>4, <2>5
<1>6. Len(Log!Txs) = Cardinality(Log!TxOffsets)
  <2>1. PICK all : all = Log!Txs  OBVIOUS
  <2>2. all = [j \in 1 .. Cardinality(Log!TxOffsets) |-> all[j]]
    <3> HIDE DEF Nth
    <3> QED BY <1>a, <2>1
  <2> QED BY <1>3, <2>1, <2>2, FunctionSeq
<1> QED BY <1>2, <1>3, <1>4, <1>5, <1>6

\* A root is the first transactions of the log, with their outcomes.
LEMMA RootIsPrefix ==
  ASSUME NEW root, IsRoot(root), topic \in Seq(Kinds)
  PROVE  /\ Len(root) \in Nat /\ Len(Log!Txs) \in Nat /\ Len(root) <= Len(Log!Txs)
         /\ \A i \in 1 .. Len(root) : Log!Txs[i] = root[i].tx
<1>1. PICK txs : txs = TxsOf(root)  OBVIOUS
<1>2. IsFirst(txs) /\ Len(txs) = Len(root)
      /\ \A i \in 1 .. Len(root) : txs[i] = root[i].tx
  BY <1>1, RootType DEF IsRoot
<1> QED BY <1>2, FirstIsPrefix

\* The blocks of the database have the numbers up to the next that it gets.
LEMMA NoneMissing ==
  ASSUME PersistEvery = 0, IInv
  PROVE  /\ Cardinality(DOMAIN blocks) \in Nat
         /\ DOMAIN blocks = 0 .. Cardinality(DOMAIN blocks) - 1
<1>1. DOMAIN blocks \subseteq Nat /\ IsFiniteSet(DOMAIN blocks)  BY DEF IInv, BlocksInv
<1>2. DOMAIN dumps = {}  BY DEF IInv, DumpsInv, DumpDue
<1>3. ASSUME NEW id \in DOMAIN blocks, id # 0 PROVE id - 1 \in DOMAIN blocks
  <2>1. Follows(id)  BY DEF IInv, BlocksInv
  <2> QED BY <1>2, <1>3, <2>1 DEF Follows
<1>4. CASE DOMAIN blocks = {}
  <2>1. Cardinality(DOMAIN blocks) = 0  BY <1>4, FS_EmptySet
  <2>2. 0 .. 0 - 1 = {}  OBVIOUS
  <2> QED BY <1>4, <2>1, <2>2
<1>5. CASE DOMAIN blocks # {}
  <2>1. PICK n \in Nat : \A id \in DOMAIN blocks : id <= n  BY <1>1, FiniteBounded
  <2>2. DOMAIN blocks \in SUBSET (0 .. n)
    <3>1. ASSUME NEW id \in DOMAIN blocks PROVE id \in 0 .. n
      <4>1. id \in Nat /\ id <= n  BY <1>1, <2>1
      <4> QED BY <2>1, <4>1
    <3> QED BY <3>1
  <2>3. PICK top \in DOMAIN blocks : \A id \in DOMAIN blocks : id <= top
    BY <1>5, <2>2, Greatest
  <2>4. top \in Nat  BY <1>1
  <2> DEFINE Bad == {id \in 0 .. top : id \notin DOMAIN blocks}
  <2>5. Bad = {}
    <3> SUFFICES ASSUME Bad # {} PROVE FALSE  OBVIOUS
    <3>1. Bad \in SUBSET (0 .. top)  OBVIOUS
    <3>2. PICK m \in Bad : \A id \in Bad : id <= m
      <4> HIDE DEF Bad
      <4> QED BY <2>4, <3>1, Greatest
    <3>3. m \in Nat /\ m <= top /\ m \notin DOMAIN blocks  BY <2>4
    <3>4. m # top  BY <3>3
    <3>5. m + 1 \in 0 .. top /\ ~ (m + 1 <= m)  BY <2>4, <3>3, <3>4
    <3>6. m + 1 \in DOMAIN blocks  BY <3>2, <3>5
    <3>7. m + 1 # 0 /\ (m + 1) - 1 = m  BY <3>3
    <3> QED BY <1>3, <3>3, <3>6, <3>7
  <2>6. DOMAIN blocks = 0 .. top
    <3>1. ASSUME NEW id \in DOMAIN blocks PROVE id \in 0 .. top
      <4>1. id \in Nat /\ id <= top  BY <1>1, <2>3
      <4> QED BY <2>4, <4>1
    <3>2. \A id \in 0 .. top : id \in DOMAIN blocks  BY <2>5
    <3> QED BY <3>1, <3>2
  <2>7. Cardinality(0 .. top) = top + 1
    <3>1. 0 \in Int /\ top \in Int /\ ~ (0 > top)  BY <2>4
    <3>2. Cardinality(0 .. top) = top - 0 + 1  BY <3>1, FS_Interval
    <3> QED BY <2>4, <3>2
  <2>8. Cardinality(DOMAIN blocks) = top + 1  BY <2>6, <2>7
  <2>9. (top + 1) - 1 = top /\ top + 1 \in Nat  BY <2>4
  <2> QED BY <2>6, <2>8, <2>9
<1> QED BY <1>4, <1>5

\* What the chain is.
LEMMA ChainIs ==
  ASSUME Cardinality(DOMAIN blocks) \in Nat
  PROVE  /\ Len(Chain) = Cardinality(DOMAIN blocks)
         /\ DOMAIN Chain = 1 .. Cardinality(DOMAIN blocks)
         /\ \A i \in 1 .. Cardinality(DOMAIN blocks) : Chain[i] = blocks[i - 1]
         /\ Chain \in Seq({Chain[i] : i \in 1 .. Cardinality(DOMAIN blocks)})
<1>1. PICK n \in Nat : n = Cardinality(DOMAIN blocks)  OBVIOUS
<1>2. PICK chain : chain = Chain  OBVIOUS
<1>3. chain = [i \in 1 .. n |-> blocks[i - 1]]  BY <1>1, <1>2 DEF Chain
<1>4. chain = [i \in 1 .. n |-> chain[i]]  BY <1>3
<1>5. Len(chain) = n /\ chain \in Seq({chain[i] : i \in 1 .. n})  BY <1>4, FunctionSeq
<1> QED BY <1>1, <1>2, <1>3, <1>5

\* The database starts as the empty chain.
LEMMA LogInit == Init => Log!Init
<1> SUFFICES ASSUME Init PROVE topic = <<>> /\ Chain = <<>>
  BY SameCount DEF Log!Init, Chain
<1>1. topic = <<>> /\ DOMAIN blocks = {}  BY DEF Init, Loader!Init
<1>2. Cardinality(DOMAIN blocks) = 0  BY <1>1, FS_EmptySet
<1> QED BY <1>1, <1>2 DEF Chain

\* A root that goes on from another one.
GoesOn(before, more, after) ==
  /\ IsRoot(before) /\ IsRoot(after) /\ more \in Seq(AnyEffect)
  /\ Len(after) = Len(before) + Len(more)
  /\ \A i \in 1 .. Len(before) : after[i] = before[i]
  /\ \A i \in 1 .. Len(more) : after[Len(before) + i] = more[i]

LEMMA RootGrows ==
  ASSUME NEW before, NEW more, NEW after, GoesOn(before, more, after)
  PROVE  after = before \o more
<1>1. /\ before \in Seq(AnyEffect) /\ after \in Seq(AnyEffect)
      /\ Len(before) \in Nat /\ Len(after) \in Nat
      /\ \A i \in 1 .. Len(after) : after[i] \in AnyEffect
  BY RootType DEF GoesOn, IsRoot, Roots
<1>2. PICK d : d = Len(more)  OBVIOUS
<1>3. /\ more \in Seq(AnyEffect) /\ d \in Nat /\ Len(after) = Len(before) + d
      /\ \A i \in 1 .. Len(before) : after[i] = before[i]
      /\ \A i \in 1 .. d : after[Len(before) + i] = more[i]
  BY <1>2 DEF GoesOn
<1>4. PICK both : both = before \o more  OBVIOUS
<1>5. /\ both \in Seq(AnyEffect) /\ Len(both) = Len(before) + d
      /\ \A i \in 1 .. Len(before) + d :
           both[i] = IF i <= Len(before) THEN before[i] ELSE more[i - Len(before)]
  BY <1>1, <1>2, <1>4, <1>3, ConcatProperties
<1>6. ASSUME NEW i \in 1 .. Len(after) PROVE after[i] = both[i]
  <2>1. CASE i <= Len(before)
    <3>1. i \in 1 .. Len(before)  BY <1>1, <2>1
    <3> QED BY <1>5, <1>3, <2>1, <3>1
  <2>2. CASE ~ (i <= Len(before))
    <3>1. i - Len(before) \in 1 .. d /\ Len(before) + (i - Len(before)) = i
      BY <1>1, <1>3, <2>2
    <3> QED BY <1>5, <1>3, <2>2, <3>1
  <2> QED BY <2>1, <2>2
<1>7. after = both  BY <1>1, <1>5, <1>6, <1>3, SeqEqual
<1> QED BY <1>4, <1>7

\* BlockLog's range is this module's.
LEMMA SameRange == \A f : Log!Range(f) = Range(f)
BY DEF Log!Range, Range

\* A block of the log's next transactions, with outcomes they may have.
IsNextBlock(row, n, next, raised) ==
  /\ Len(row.oldRoot) + n <= Len(Log!Txs)
  /\ next = SubSeq(Log!Txs, Len(row.oldRoot) + 1, Len(row.oldRoot) + n)
  /\ raised \in SUBSET {o \in Range(next) : topic[o + 1] = "self"}
  /\ row = Log!Block(next, raised)

\* A good row that starts where the chain ends is one.
LEMMA BlockOfLog ==
  ASSUME topic \in Seq(Kinds), NEW row, GoodRow(row), row.id = Len(Chain),
         Log!Applied = row.oldRoot
  PROVE  \E n \in 1 .. NTx : \E next, raised : IsNextBlock(row, n, next, raised)
<1>1. PICK before, after : before = row.oldRoot /\ after = row.newRoot  OBVIOUS
<1>2. /\ row \in Rows /\ IsRoot(before) /\ IsRoot(after)
      /\ Len(before) < Len(after) /\ Len(after) <= Len(before) + NTx
      /\ \A i \in 1 .. Len(before) : after[i] = before[i]
      /\ \A i \in 1 .. NTx : row.txs[i] = IF Len(before) + i <= Len(after)
                                          THEN after[Len(before) + i].tx ELSE Nop
  BY <1>1 DEF GoodRow, Fits
<1>3. PICK m, d : m = Len(before) /\ d = Len(after) - m  OBVIOUS
<1>4. /\ m \in Nat /\ Len(after) \in Nat /\ Len(Log!Txs) \in Nat
      /\ Len(after) <= Len(Log!Txs)
      /\ \A i \in 1 .. Len(after) : Log!Txs[i] = after[i].tx
  BY <1>2, <1>3, RootIsPrefix
<1>5. d \in 1 .. NTx /\ d \in Nat /\ m + d = Len(after)
  BY <1>2, <1>3, <1>4, NodeAssumption
<1>6. PICK txs : txs = TxsOf(after)  OBVIOUS
<1>7. /\ \A i \in 1 .. Len(after) : /\ after[i] = [tx |-> after[i].tx, raised |-> after[i].raised]
                                    /\ after[i].raised \in BOOLEAN
                                    /\ after[i].tx \in Nat /\ txs[i] = after[i].tx
                                    /\ after[i].tx \in Loader!Offsets
                                    /\ after[i].raised => IsSelf(after[i].tx)
      /\ \A i, k \in 1 .. Len(after) : i < k => txs[i] < txs[k]
  <2>1. /\ after \in Roots /\ InOrder(txs)
        /\ \A i \in DOMAIN after : after[i].raised => IsSelf(after[i].tx)
    BY <1>2, <1>6 DEF IsRoot, IsFirst
  <2>2. /\ DOMAIN after = 1 .. Len(after) /\ DOMAIN txs = 1 .. Len(after)
        /\ \A i \in 1 .. Len(after) : /\ after[i] \in AnyEffect /\ txs[i] = after[i].tx
                                      /\ after[i].tx \in Loader!Offsets /\ after[i].tx \in Nat
    BY <1>6, <2>1, RootType
  <2>3. \A e \in AnyEffect : e = [tx |-> e.tx, raised |-> e.raised] /\ e.raised \in BOOLEAN
    BY DEF AnyEffect
  <2>4. \A i, k \in 1 .. Len(after) : i < k => txs[i] < txs[k]
    BY <2>1, <2>2 DEF InOrder
  <2> QED BY <2>1, <2>2, <2>3, <2>4
<1>8. \A i \in 1 .. d : m + i \in 1 .. Len(after)  BY <1>4, <1>5
<1>9. PICK next : next = SubSeq(Log!Txs, m + 1, m + d)  OBVIOUS
<1>10. Len(next) = d /\ DOMAIN next = 1 .. d
       /\ \A i \in 1 .. d : next[i] = after[m + i].tx
  <2>1. PICK all : all = Log!Txs  OBVIOUS
  <2>2. \A i \in m + 1 .. m + d : all[i] \in Loader!Offsets
    <3>1. \A i \in m + 1 .. m + d : i \in 1 .. Len(after)  BY <1>4, <1>5
    <3> QED BY <1>4, <1>7, <2>1, <3>1
  <2>3. m + 1 \in Int /\ m + d \in Int /\ m + 1 <= m + d
        /\ (m + d) - (m + 1) + 1 = d /\ \A i \in 1 .. d : (m + 1) + i - 1 = m + i
    BY <1>4, <1>5
  <2>4. PICK a, b : a = m + 1 /\ b = m + d  OBVIOUS
  <2>5. /\ SubSeq(all, a, b) \in Seq(Loader!Offsets)
        /\ Len(SubSeq(all, a, b)) = IF a <= b THEN b - a + 1 ELSE 0
        /\ \A i \in 1 .. b - a + 1 : SubSeq(all, a, b)[i] = all[a + i - 1]
    BY <2>2, <2>3, <2>4, SubSeqProperties
  <2>6. next = SubSeq(all, a, b)  BY <1>9, <2>1, <2>4
  <2>7. Len(next) = d /\ next \in Seq(Loader!Offsets)  BY <2>3, <2>4, <2>5, <2>6
  <2>8. \A i \in 1 .. d : next[i] = all[m + i]  BY <2>3, <2>4, <2>5, <2>6
  <2> QED BY <1>4, <1>8, <2>1, <2>7, <2>8
<1>11. PICK raised : raised = {o \in Range(next) : \E i \in 1 .. d : o = next[i] /\ after[m + i].raised}
  OBVIOUS
<1>12. raised \in SUBSET {o \in Range(next) : topic[o + 1] = "self"}
  <2>1. ASSUME NEW o \in raised PROVE o \in Range(next) /\ topic[o + 1] = "self"
    <3>1. PICK i \in 1 .. d : o = next[i] /\ after[m + i].raised  BY <1>11, <2>1
    <3>2. IsSelf(o)  BY <1>7, <1>8, <1>10, <3>1
    <3> QED BY <1>11, <2>1, <3>2 DEF IsSelf
  <2> QED BY <2>1
<1>13. ASSUME NEW i \in 1 .. d PROVE (next[i] \in raised) = after[m + i].raised
  <2>1. next[i] \in Range(next)  BY <1>10 DEF Range
  <2>2. ASSUME NEW k \in 1 .. d, next[i] = next[k] PROVE i = k
    <3>1. txs[m + i] = txs[m + k] /\ txs[m + i] \in Nat
      BY <1>7, <1>8, <1>10, <2>2
    <3>2. ~ (m + i < m + k) /\ ~ (m + k < m + i)
      <4>1. m + i \in 1 .. Len(after) /\ m + k \in 1 .. Len(after)  BY <1>8
      <4> QED BY <1>7, <3>1, <4>1
    <3> QED BY <1>4, <1>5, <3>2
  <2>3. next[i] \in raised <=> after[m + i].raised  BY <1>11, <2>1, <2>2
  <2>4. after[m + i].raised \in BOOLEAN  BY <1>7, <1>8
  <2> QED BY <2>3, <2>4
<1>14. PICK more : more = [i \in 1 .. d |-> [tx |-> next[i], raised |-> next[i] \in raised]]
  OBVIOUS
<1>15. more = [i \in 1 .. d |-> after[m + i]]
  <2>1. ASSUME NEW i \in 1 .. d
        PROVE  [tx |-> next[i], raised |-> next[i] \in raised] = after[m + i]
    <3>1. after[m + i] = [tx |-> after[m + i].tx, raised |-> after[m + i].raised]
      BY <1>7, <1>8
    <3> QED BY <1>10, <1>13, <3>1
  <2> QED BY <1>14, <2>1
<1>16. after = before \o more
  <2>1. IsRoot(before) /\ IsRoot(after)  BY <1>2
  <2>2. \A i \in 1 .. Len(before) : after[i] = before[i]  BY <1>2
  <2>3. Len(after) = Len(before) + d /\ d \in Nat  BY <1>3, <1>5
  <2>a. \A i \in 1 .. d : after[m + i] \in AnyEffect
    BY <1>2, <1>8, RootType DEF IsRoot
  <2>b. more \in [1 .. d -> AnyEffect]  BY <1>15, <2>a
  <2>4. more \in Seq(AnyEffect) /\ Len(more) = d  BY <2>3, <2>b, LenProperties, SeqDef
  <2>5. \A i \in 1 .. d : more[i] = after[Len(before) + i]  BY <1>3, <1>15
  <2>6. GoesOn(before, more, after)  BY <2>1, <2>2, <2>3, <2>4, <2>5 DEF GoesOn
  <2> QED BY <2>6, RootGrows
<1>17. PICK entries : entries = [i \in 1 .. NTx |-> IF i <= d THEN next[i] ELSE Nop]  OBVIOUS
<1>18. row.txs = entries
  <2>1. row.txs = [i \in 1 .. NTx |-> row.txs[i]]  BY <1>2 DEF Rows
  <2>2. ASSUME NEW i \in 1 .. NTx PROVE row.txs[i] = IF i <= d THEN next[i] ELSE Nop
    <3>1. (m + i <= Len(after)) <=> i <= d  BY <1>4, <1>5, NodeAssumption
    <3>2. row.txs[i] = IF i <= d THEN after[m + i].tx ELSE Nop  BY <1>2, <1>3, <3>1
    <3>3. i <= d => i \in 1 .. d  BY <1>5, NodeAssumption
    <3> QED BY <1>10, <3>2, <3>3
  <2> QED BY <1>17, <2>1, <2>2
<1>19. Log!Block(next, raised) =
         [id |-> Len(Chain), oldRoot |-> before, newRoot |-> before \o more, txs |-> entries]
  <2>1. Log!Block(next, raised) =
          [id |-> Len(Chain), oldRoot |-> Log!Applied,
           newRoot |-> Log!Applied \o [i \in 1 .. Len(next) |->
                                       [tx |-> next[i], raised |-> next[i] \in raised]],
           txs |-> [i \in 1 .. NTx |-> IF i <= Len(next) THEN next[i] ELSE Nop]]
    BY SameCount DEF Log!Block, Chain, Log!Nop, Nop
  <2> QED BY <1>1, <1>10, <1>14, <1>17, <2>1
<1>20. row = [id |-> row.id, oldRoot |-> row.oldRoot, newRoot |-> row.newRoot, txs |-> row.txs]
  BY <1>2 DEF Rows
<1>21. row = Log!Block(next, raised)  BY <1>1, <1>16, <1>18, <1>19, <1>20
<1>22. IsNextBlock(row, d, next, raised)
  BY <1>1, <1>3, <1>4, <1>5, <1>9, <1>12, <1>21 DEF IsNextBlock
<1> QED BY <1>5, <1>22

\* The insert of a block is a step of the log.
LEMMA LogAppend ==
  ASSUME PersistEvery = 0, IInv, SaveBlock
  PROVE  Log!AppendSome
<1>1. PICK row : Saved(row)  BY SavedBlock
<1>2. PICK n \in Nat : n = Cardinality(DOMAIN blocks)  BY NoneMissing
<1>3. DOMAIN blocks = 0 .. n - 1  BY <1>2, NoneMissing
<1>4. topic \in Seq(Kinds)  BY LoaderTypes DEF IInv
<1>5. QueueNum = n
  <2>1. QueueNum \in Nat /\ \A id \in DOMAIN blocks : id < QueueNum  BY <1>1 DEF Saved
  <2>2. Follows(QueueNum)  BY DEF IInv, BlocksInv
  <2>3. DOMAIN dumps = {}  BY DEF IInv, DumpsInv, DumpDue
  <2>4. QueueNum = 0 \/ QueueNum - 1 \in 0 .. n - 1  BY <1>3, <2>2, <2>3 DEF Follows
  <2>5. QueueNum <= n  BY <1>2, <2>1, <2>4
  <2>6. ~ (QueueNum < n)
    <3>1. ASSUME QueueNum < n PROVE QueueNum \in 0 .. n - 1  BY <1>2, <2>1, <3>1
    <3> QED BY <1>3, <2>1, <3>1
  <2> QED BY <1>2, <2>1, <2>5, <2>6
<1>6. /\ GoodRow(row) /\ row.id = n /\ RowStarts(row) /\ row.oldRoot = QueueRoot
      /\ DOMAIN blocks' = DOMAIN blocks \cup {n} /\ blocks'[n] = row
      /\ \A id \in DOMAIN blocks : blocks'[id] = blocks[id]
      /\ topic' = topic
  BY <1>1, <1>5 DEF Saved, loaderVars
<1>7. Len(Chain) = n /\ DOMAIN Chain = 1 .. n /\ \A i \in 1 .. n : Chain[i] = blocks[i - 1]
  BY <1>2, ChainIs
<1>8. Log!Applied = row.oldRoot
  <2>1. Log!Applied = IF Chain = <<>> THEN <<>> ELSE Log!Last(Chain).newRoot
    BY SameCount DEF Log!Applied, Chain
  <2>2. CASE n = 0
    <3>1. Chain = <<>>  BY <1>7, <2>2
    <3>2. StartsAt(0, row.oldRoot)  BY <1>6, <2>2 DEF RowStarts
    <3> QED BY <2>1, <3>1, <3>2 DEF StartsAt
  <2>3. CASE n # 0
    <3>1. n \in 1 .. n /\ n - 1 \in 0 .. n - 1  BY <1>2, <2>3
    <3>2. Chain # <<>> /\ Log!Last(Chain) = blocks[n - 1]  BY <1>7, <3>1 DEF Log!Last
    <3>3. blocks[n - 1].newRoot = QueueRoot
      BY <1>3, <1>5, <3>1 DEF IInv, BlocksInv
    <3> QED BY <1>6, <2>1, <3>2, <3>3
  <2> QED BY <2>2, <2>3
<1>9. PICK m \in 1 .. NTx : \E next, raised : IsNextBlock(row, m, next, raised)
  <2>1. GoodRow(row) /\ row.id = Len(Chain)  BY <1>6, <1>7
  <2> QED BY <1>4, <1>8, <2>1, BlockOfLog
<1>10. Chain' = Append(Chain, row)
  <2>1. PICK now : now = Chain  OBVIOUS
  <2>2. Chain' = [i \in 1 .. n + 1 |-> blocks'[i - 1]]
    <3>1. Cardinality(DOMAIN blocks') = n + 1
      <4>1. IsFiniteSet(DOMAIN blocks)  BY DEF IInv, BlocksInv
      <4>a. n \in Nat  OBVIOUS
      <4>b. n \notin 0 .. n - 1  BY <4>a
      <4>2. n \notin DOMAIN blocks  BY <1>3, <4>b
      <4> QED BY <1>2, <1>6, <4>1, <4>2, FS_AddElement
    <3> QED BY <3>1 DEF Chain
  <2>3. now \in Seq({now[i] : i \in 1 .. n}) /\ Len(now) = n
    BY <1>2, <2>1, ChainIs
  <2>4. Append(now, row) = [i \in 1 .. n + 1 |-> IF i <= n THEN now[i] ELSE row]
    <3>1. PICK T : T = {now[i] : i \in 1 .. n} \cup {row}  OBVIOUS
    <3>2. now \in Seq(T) /\ row \in T /\ n \in Nat  BY <2>3, <3>1, SeqMonotonic
    <3>3. /\ Append(now, row) \in Seq(T) /\ Len(Append(now, row)) = n + 1
          /\ \A i \in 1 .. n : Append(now, row)[i] = now[i]
          /\ Append(now, row)[n + 1] = row
      BY <2>3, <3>2, AppendProperties
    <3>4. Append(now, row) = [i \in 1 .. n + 1 |-> Append(now, row)[i]]
      <4>1. PICK seq : seq = Append(now, row)  OBVIOUS
      <4>2. seq \in [1 .. n + 1 -> T]  BY <3>3, <4>1, LenProperties
      <4>3. seq = [i \in 1 .. n + 1 |-> seq[i]]  BY <4>2
      <4> QED BY <4>1, <4>3
    <3>5. ASSUME NEW i \in 1 .. n + 1
          PROVE  Append(now, row)[i] = IF i <= n THEN now[i] ELSE row
      <4>1. i \in 1 .. n \/ (i = n + 1 /\ ~ (i <= n))  BY <3>2
      <4>2. i \in 1 .. n => i <= n  BY <3>2
      <4> QED BY <3>3, <4>1, <4>2
    <3> QED BY <3>4, <3>5
  <2>5. ASSUME NEW i \in 1 .. n + 1
        PROVE  blocks'[i - 1] = IF i <= n THEN now[i] ELSE row
    <3>1. CASE i <= n
      <4>a. n \in Nat  OBVIOUS
      <4>b. i \in 1 .. n /\ i - 1 \in 0 .. n - 1  BY <3>1, <4>a
      <4>1. i \in 1 .. n /\ i - 1 \in DOMAIN blocks  BY <1>3, <4>b
      <4> QED BY <1>6, <1>7, <2>1, <3>1, <4>1
    <3>2. CASE ~ (i <= n)
      <4>1. i - 1 = n  BY <1>2, <3>2
      <4> QED BY <1>6, <3>2, <4>1
    <3> QED BY <3>1, <3>2
  <2> QED BY <2>1, <2>2, <2>4, <2>5
<1>11. PICK next, raised : IsNextBlock(row, m, next, raised)  BY <1>9
<1>12. /\ Len(row.oldRoot) + m <= Len(Log!Txs)
       /\ next = SubSeq(Log!Txs, Len(row.oldRoot) + 1, Len(row.oldRoot) + m)
       /\ raised \in SUBSET {o \in Range(next) : topic[o + 1] = "self"}
       /\ row = Log!Block(next, raised)
  BY <1>11 DEF IsNextBlock
<1>13. Log!AppendBlock(m)
  <2>1. Chain' = Append(Chain, Log!Block(next, raised)) /\ topic' = topic
    BY <1>6, <1>10, <1>12
  <2>2. PICK more : more = SubSeq(Log!Txs, Len(Log!Applied) + 1, Len(Log!Applied) + m)
    OBVIOUS
  <2>3. /\ more = next /\ Len(Log!Applied) + m <= Len(Log!Txs)
        /\ raised \in SUBSET {o \in Log!Range(more) : topic[o + 1] = "self"}
    BY <1>8, <1>12, <2>2, SameRange
  <2> QED BY <2>1, <2>2, <2>3, SameCount DEF Log!AppendBlock, Chain
<1> QED BY <1>13 DEF Log!AppendSome

\* A step of the node is a step of the log or changes nothing of it.
LEMMA LogStep ==
  ASSUME PersistEvery = 0, IInv, [Next]_vars
  PROVE  [Log!Next]_(Log!vars)
<1>1. ASSUME UNCHANGED <<topic, blocks>> PROVE UNCHANGED Log!vars
  BY <1>1 DEF Log!vars
<1>2. CASE Publish
  <2>1. PICK kind \in Kinds : Loader!Publish(kind)  BY <1>2 DEF Publish
  <2>2. UNCHANGED blocks  BY <1>2 DEF Publish, dbVars
  <2>3. Log!Publish(kind)  BY <2>1, <2>2 DEF Log!Publish, Loader!Publish
  <2> QED BY <2>3 DEF Log!Next
<1>3. CASE LoaderStep
  <2>1. UNCHANGED <<topic, blocks>>
    BY <1>3 DEF LoaderStep, Loader!OnMessage, Loader!StreamError, Loader!Shutdown,
                Loader!Consume, dbVars
  <2> QED BY <1>1, <2>1
<1>4. CASE ProcStep
  <2>1. UNCHANGED <<topic, blocks>>
    BY <1>4 DEF ProcStep, ProcRecv, Loader!Recv, ProcDisconnected, Forge, PopDone,
                PersistOpen, PersistBlockOffset, PersistKafkaOffset, PersistState,
                PersistUnchanged, SkipOld, NotDeterministic, SendBlock, loaderVars, dbVars
  <2> QED BY <1>1, <2>1
<1>5. CASE SaveBlock
  <2>1. Log!AppendSome  BY <1>5, LogAppend
  <2> QED BY <2>1 DEF Log!Next
<1>6. CASE ProcTimeout \/ SaveTask \/ Exit \/ Crash \/ UNCHANGED vars
  <2>1. UNCHANGED <<topic, blocks>>
    BY <1>6 DEF ProcTimeout, SaveTask, Exit, Crash, vars, loaderVars, dbVars
  <2> QED BY <1>1, <2>1
<1>7. CASE StartFresh \/ StartFromDump
  <2>1. UNCHANGED <<topic, blocks>>
    BY <1>7 DEF StartFresh, StartFromDump, StartFrom, Loader!Start, dbVars
  <2> QED BY <1>1, <2>1
<1> QED BY <1>2, <1>3, <1>4, <1>5, <1>6, <1>7 DEF Next, MainStep

\* Without dumps the blocks of the database are the transactions of the topic, in order
\* and each once, cut into a chain: the node implements BlockLog.
THEOREM ImplementsBlockLog == ASSUME PersistEvery = 0 PROVE Spec => IsBlockLog
<1>1. Init => Log!Init  BY LogInit
<1>2. IInv /\ [Next]_vars => [Log!Next]_(Log!vars)  BY LogStep
<1> QED BY <1>1, <1>2, Invariance, PTL DEF Spec, IsBlockLog, Log!Spec
=============================================================================
