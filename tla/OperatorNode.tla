---------------------------- MODULE OperatorNode ----------------------------
(***************************************************************************)
(* The operator node (bin/main.rs, manager_wrapper.rs): message loader,    *)
(* message processor and main thread, the database of blocks and proving   *)
(* tasks, the dumps of the state, crashes and restarts.                    *)
(*                                                                         *)
(* The processor applies each message to the global state, buffers one     *)
(* entry per transaction, cuts the buffer into blocks of NTx entries and   *)
(* sends those the database does not have to the main thread, which        *)
(* inserts the block and then a proving task for it.  Two minutes without  *)
(* a message pad the last block with Nops.  Every PersistEvery blocks the  *)
(* processor writes a dump: a new database directory with the number of    *)
(* the next block, the Kafka offset of the block's last transaction and    *)
(* the state.  A restart loads the newest dump and reads the topic from    *)
(* its offset, or starts from nothing.                                     *)
(*                                                                         *)
(* A message is its offset in the topic; the Merkle root is represented by *)
(* what determines it, the sequence of the transactions applied, each with *)
(* its outcome.  A transfer to oneself has two: both of its updates write  *)
(* one balance, and the thread pool decides whether the one that lowers it *)
(* or the one that raises it is the last (see Ledger).                     *)
(***************************************************************************)
EXTENDS Integers, Sequences, FiniteSets, SequencesExt, FiniteSetsExt

CONSTANTS
  Kinds, MaxMsgs, MaxErrors, MaxExpired, MaxRestarts,   \* see MsgLoader
  NTx,            \* entries of a block
  PersistEvery,   \* persist_every_n_block; 0: built without persist_sled
  Timeouts        \* FALSE: messages never stay away for two minutes

ASSUME NodeAssumption ==
  /\ Kinds \subseteq {"tx", "self", "order", "unknown"}
  /\ {MaxMsgs, MaxErrors, MaxExpired, MaxRestarts} \subseteq Nat
  /\ NTx \in Nat \ {0} /\ PersistEvery \in Nat /\ Timeouts \in BOOLEAN

VARIABLES
  topic, logStart, cursor, earliest, last, loader, msgq, received,
  errors, restarts,   \* see MsgLoader
  node,        \* "up", or how the process ended
  pc,          \* where the processor thread is
  applied,     \* transactions applied to the global state: its root
  buffer,      \* buffered_txs: entries [offset, before, after]
  blockNum,    \* block_generate_num
  ready,       \* blocks of pop_all_blocks not yet checked and sent
  checkOld,    \* old_block_check
  blkq,        \* channel to the main thread
  saving,      \* main thread: block inserted, its task not yet; or NoBlock
  blocks,      \* database: block id -> row
  tasks,       \* database: block ids of the tasks
  dumps        \* persist_dir: dump number -> what was written to it

loaderVars == <<topic, logStart, cursor, earliest, last, loader, msgq, received,
                errors, restarts>>
procVars == <<pc, applied, buffer, blockNum, ready, checkOld>>
mainVars == <<blkq, saving>>
dbVars   == <<blocks, tasks>>

\* the processor drops its end of the message channel when it ends
Ended == {"done", "not deterministic", "no kafka offset"}

Loader == INSTANCE MsgLoader WITH receiverUp <- pc \notin Ended
vars == <<loaderVars, node, procVars, mainVars, dbVars, dumps>>

Nop     == -1
NoBlock == [id |-> -1]

\* a transfer to oneself
IsSelf(o) == topic[o + 1] = "self"

IsTx(o) == topic[o + 1] = "tx" \/ IsSelf(o)

\* what a transaction may do to the state
Effects(o) == [tx : {o}, raised : {FALSE} \cup {IsSelf(o)}]

-----------------------------------------------------------------------------
(* Processor thread: messages. *)

Entry(effect) ==
  [offset |-> effect.tx, before |-> applied, after |-> Append(applied, effect)]
NopEntry == [offset |-> Nop, before |-> applied, after |-> applied]

\* the state changes and the transaction is buffered
Apply(effect) ==
  /\ applied' = Append(applied, effect)
  /\ buffer'  = Append(buffer, Entry(effect))

\* Mutant of ProcRecv: blocks are cut only when the channel is drained.
ProcRecvBatch ==
  LET o == Head(msgq)
  IN
  /\ node = "up" /\ pc = "recv"
  /\ Loader!Recv
  /\ IF IsTx(o) THEN \E effect \in Effects(o) : Apply(effect) ELSE UNCHANGED <<applied, buffer>>
  /\ pc' = IF Len(msgq) > 1 THEN "recv" ELSE "pop"
  /\ UNCHANGED <<node, blockNum, ready, checkOld, mainVars, dbVars, dumps>>

\* A transaction message changes the state; an order message changes no balance, no
\* order tree and no root (cancel_order marks the order).
ProcRecv ==
  LET o == Head(msgq)
  IN
  /\ node = "up" /\ pc = "recv"
  /\ Loader!Recv
  /\ IF IsTx(o) THEN \E effect \in Effects(o) : Apply(effect) ELSE UNCHANGED <<applied, buffer>>
  /\ pc' = "pop"
  /\ UNCHANGED <<node, blockNum, ready, checkOld, mainVars, dbVars, dumps>>

\* Mutant of Padding: the flush adds nothing.
PaddingNone == <<>>

Padding == [i \in 1 .. (-Len(buffer)) % NTx |-> NopEntry]

\* RecvTimeoutError::Timeout: flush_with_nop
ProcTimeout ==
  /\ node = "up" /\ pc = "recv" /\ Timeouts
  /\ msgq = <<>> /\ loader = "up"
  /\ buffer # <<>>
  /\ buffer' = buffer \o Padding
  /\ pc' = "pop"
  /\ UNCHANGED <<loaderVars, node, applied, blockNum, ready, checkOld, mainVars,
                 dbVars, dumps>>

\* RecvTimeoutError::Disconnected
ProcDisconnected ==
  /\ node = "up" /\ pc = "recv"
  /\ msgq = <<>> /\ loader # "up"
  /\ pc' = "done"
  /\ UNCHANGED <<loaderVars, node, applied, buffer, blockNum, ready, checkOld,
                 mainVars, dbVars, dumps>>

-----------------------------------------------------------------------------
(* Processor thread: pop_all_blocks and persist. *)

\* Mutant of Block: the old root of the last entry, not of the first.
BlockLastRoot(id, entries) ==
  [id      |-> id,
   oldRoot |-> Last(entries).before,
   newRoot |-> Last(entries).after,
   txs     |-> [i \in 1 .. NTx |-> entries[i].offset]]

\* forge_with_txs
Block(id, entries) ==
  [id      |-> id,
   oldRoot |-> Head(entries).before,
   newRoot |-> Last(entries).after,
   txs     |-> [i \in 1 .. NTx |-> entries[i].offset]]

DumpDue(n) == PersistEvery # 0 /\ n % PersistEvery = 0

Forge ==
  /\ node = "up" /\ pc = "pop" /\ Len(buffer) >= NTx
  /\ ready' = Append(ready, Block(blockNum, SubSeq(buffer, 1, NTx)))
  /\ buffer' = SubSeq(buffer, NTx + 1, Len(buffer))
  /\ blockNum' = blockNum + 1
  /\ pc' = IF DumpDue(blockNum + 1) THEN "persist" ELSE "pop"
  /\ UNCHANGED <<loaderVars, node, applied, checkOld, mainVars, dbVars, dumps>>

\* the dump being written, with one more key in it
Written(key, value) ==
  [dumps EXCEPT ![blockNum] =
     [k \in DOMAIN @ \cup {key} |-> IF k = key THEN value ELSE @[k]]]

\* entries of the block just forged that came with a message
WithOffset == {i \in 1 .. NTx : Last(ready).txs[i] # Nop}

\* Mutant of LastOffset: the first transaction of the block.
LastOffsetFirst == Last(ready).txs[Min(WithOffset)]

\* last_offset of persist
LastOffset == Last(ready).txs[Max(WithOffset)]

PersistUnchanged == UNCHANGED <<loaderVars, node, applied, buffer, blockNum, ready,
                                checkOld, mainVars, dbVars>>

\* sled::open creates the directory
PersistOpen ==
  /\ node = "up" /\ pc = "persist"
  /\ pc' = "persist block"
  /\ dumps' = [n \in DOMAIN dumps \cup {blockNum} |->
                 IF n \in DOMAIN dumps THEN dumps[n] ELSE <<>>]
  /\ PersistUnchanged

PersistBlockOffset ==
  /\ node = "up" /\ pc = "persist block"
  /\ pc' = "persist kafka"
  /\ dumps' = Written("block", blockNum)
  /\ PersistUnchanged

\* the last transaction of the block; a block without any would be a panic
PersistKafkaOffset ==
  /\ node = "up" /\ pc = "persist kafka"
  /\ pc' = IF WithOffset = {} THEN "no kafka offset" ELSE "persist state"
  /\ dumps' = IF WithOffset = {} THEN dumps ELSE Written("kafka", LastOffset)
  /\ PersistUnchanged

\* Mutant of PersistState: goes on before the state is written.
PersistStateLost ==
  /\ node = "up" /\ pc = "persist state"
  /\ pc' = "pop"
  /\ UNCHANGED dumps
  /\ PersistUnchanged

\* GlobalState::persist, one transaction
PersistState ==
  /\ node = "up" /\ pc = "persist state"
  /\ pc' = "pop"
  /\ dumps' = Written("state", applied)
  /\ PersistUnchanged

PopDone ==
  /\ node = "up" /\ pc = "pop" /\ Len(buffer) < NTx
  /\ pc' = IF ready = <<>> THEN "recv" ELSE "send"
  /\ UNCHANGED <<loaderVars, node, applied, buffer, blockNum, ready, checkOld,
                 mainVars, dbVars, dumps>>

-----------------------------------------------------------------------------
(* Processor thread: is_present_block and sending. *)

\* Mutant of Present: the database is never asked.
PresentNever(block) == FALSE

\* The query and the send are one step: as long as checkOld holds, the
\* processor has sent nothing and the main thread inserts nothing.
Present(block) == checkOld /\ block.id \in DOMAIN blocks

SameRoot(block) == blocks[block.id].newRoot = block.newRoot

Sent == /\ ready' = Tail(ready)
        /\ pc' = IF Len(ready) = 1 THEN "recv" ELSE "send"

SkipOld ==
  /\ node = "up" /\ pc = "send"
  /\ Present(Head(ready)) /\ SameRoot(Head(ready))
  /\ Sent
  /\ UNCHANGED <<loaderVars, node, applied, buffer, blockNum, checkOld, mainVars,
                 dbVars, dumps>>

\* the assertion "l2 block generation must be deterministic!"
NotDeterministic ==
  /\ node = "up" /\ pc = "send"
  /\ Present(Head(ready)) /\ ~SameRoot(Head(ready))
  /\ pc' = "not deterministic"
  /\ UNCHANGED <<loaderVars, node, applied, buffer, blockNum, ready, checkOld,
                 mainVars, dbVars, dumps>>

SendBlock ==
  /\ node = "up" /\ pc = "send"
  /\ ~Present(Head(ready))
  /\ Sent
  /\ checkOld' = FALSE
  /\ blkq' = Append(blkq, Head(ready))
  /\ UNCHANGED <<loaderVars, node, applied, buffer, blockNum, saving, dbVars, dumps>>

-----------------------------------------------------------------------------
(* Main thread. *)

\* save_block_to_db; a second row of a block id makes unwrap end the process
SaveBlock ==
  LET block == Head(blkq)
      new == block.id \notin DOMAIN blocks
  IN
  /\ node = "up" /\ saving = NoBlock /\ blkq # <<>>
  /\ node'   = IF new THEN node ELSE "insert failed"
  /\ saving' = IF new THEN block ELSE saving
  /\ blocks' = IF new THEN [id \in DOMAIN blocks \cup {block.id} |->
                              IF id = block.id THEN block ELSE blocks[id]]
               ELSE blocks
  /\ blkq' = Tail(blkq)
  /\ UNCHANGED <<loaderVars, procVars, tasks, dumps>>

\* save_task_to_db
SaveTask ==
  /\ node = "up" /\ saving # NoBlock
  /\ tasks' = Append(tasks, saving.id)
  /\ saving' = NoBlock
  /\ UNCHANGED <<loaderVars, node, procVars, blkq, blocks, dumps>>

\* Mutant of Exit: the channel is closed but not drained.
ExitEarly ==
  /\ node = "up" /\ pc \in Ended /\ loader # "up"
  /\ saving = NoBlock
  /\ node' = "exited"
  /\ UNCHANGED <<loaderVars, procVars, mainVars, dbVars, dumps>>

\* the channel is closed and empty and both threads are joined
Exit ==
  /\ node = "up" /\ pc \in Ended /\ loader # "up"
  /\ blkq = <<>> /\ saving = NoBlock
  /\ node' = "exited"
  /\ UNCHANGED <<loaderVars, procVars, mainVars, dbVars, dumps>>

-----------------------------------------------------------------------------
(* Loader thread, environment, crash and restart. *)

LoaderStep ==
  /\ node = "up"
  /\ Loader!OnMessage \/ Loader!StreamError \/ Loader!Shutdown
  /\ UNCHANGED <<node, procVars, mainVars, dbVars, dumps>>

Publish ==
  /\ \E kind \in Kinds : Loader!Publish(kind)
  /\ UNCHANGED <<node, procVars, mainVars, dbVars, dumps>>

Crash ==
  /\ node = "up" /\ restarts < MaxRestarts
  /\ node' = "crashed"
  /\ UNCHANGED <<loaderVars, procVars, mainVars, dbVars, dumps>>

\* a fresh process of the given state, block number and Kafka offset
StartFrom(root, num, offset) ==
  /\ Loader!Start(offset)
  /\ node' = "up" /\ pc' = "recv"
  /\ applied' = root /\ blockNum' = num
  /\ buffer' = <<>> /\ ready' = <<>> /\ checkOld' = TRUE
  /\ blkq' = <<>> /\ saving' = NoBlock
  /\ UNCHANGED <<dbVars, dumps>>

Complete(n) == "state" \in DOMAIN dumps[n]

\* get_latest_dump
LatestDump == dumps[Max(DOMAIN dumps)]

StartFresh ==
  /\ node # "up" /\ DOMAIN dumps = {}
  /\ StartFrom(<<>>, 0, Loader!NoOffset)

\* load_persist fails on a dump without state, and the node does not start
StartFromDump ==
  /\ node # "up" /\ DOMAIN dumps # {}
  /\ Complete(Max(DOMAIN dumps))
  /\ StartFrom(LatestDump.state, LatestDump.block, LatestDump.kafka)

-----------------------------------------------------------------------------
(* gRPC server: get_l2_blocks reads the rows of the main thread.            *)

\* Mutant of Total: the number of rows.
TotalRows(rows) == Cardinality(DOMAIN rows)

\* the highest block, not the number of rows
Total(rows) == IF DOMAIN rows = {} THEN 0 ELSE Max(DOMAIN rows) + 1

\* order by block_id desc limit
Newest(ids, limit) == {id \in ids : Cardinality({newer \in ids : newer > id}) < limit}

Page(rows, offset, limit) ==
  Newest({id \in DOMAIN rows : id <= Total(rows) - offset}, limit)

-----------------------------------------------------------------------------
Init ==
  /\ node = "up" /\ pc = "recv"
  /\ Loader!Init
  /\ applied = <<>> /\ buffer = <<>> /\ blockNum = 0 /\ ready = <<>>
  /\ checkOld = TRUE /\ blkq = <<>> /\ saving = NoBlock
  /\ blocks = <<>> /\ tasks = <<>> /\ dumps = <<>>

ProcStep ==
  \/ ProcRecv \/ ProcDisconnected
  \/ Forge \/ PopDone
  \/ PersistOpen \/ PersistBlockOffset \/ PersistKafkaOffset \/ PersistState
  \/ SkipOld \/ NotDeterministic \/ SendBlock

MainStep == SaveBlock \/ SaveTask \/ Exit

Next ==
  \/ Publish \/ LoaderStep
  \/ ProcStep \/ ProcTimeout
  \/ MainStep
  \/ Crash \/ StartFresh \/ StartFromDump

Spec == Init /\ [][Next]_vars

\* the three threads are scheduled; a buffered transaction is at last flushed
Fairness ==
  /\ WF_vars(node = "up" /\ Loader!OnMessage
               /\ UNCHANGED <<node, procVars, mainVars, dbVars, dumps>>)
  /\ WF_vars(ProcStep) /\ WF_vars(ProcTimeout)
  /\ WF_vars(MainStep)

FairSpec == Spec /\ Fairness

-----------------------------------------------------------------------------
(* Properties. *)

Nodes == {"up", "crashed", "exited", "insert failed"}
Pcs   == {"recv", "pop", "persist", "persist block", "persist kafka",
          "persist state", "send"} \cup Ended
AnyEffect == [tx : Loader!Offsets, raised : BOOLEAN]
Roots == Seq(AnyEffect)
Entries == [offset : Loader!Offsets \cup {Nop}, before : Roots, after : Roots]
Rows  == [id : Nat, oldRoot : Roots, newRoot : Roots,
          txs : [1 .. NTx -> Loader!Offsets \cup {Nop}]]

\* Roots, buffered entries, blocks and dumps are made of published offsets; between
\* messages no block is held and less than one is buffered ("0 <= len(buffered_txs)
\* < n_tx").
TypeOK ==
  /\ Loader!TypeOK
  /\ node \in Nodes /\ pc \in Pcs
  /\ applied \in Roots /\ buffer \in Seq(Entries) /\ blockNum \in Nat
  /\ ready \in Seq(Rows) /\ checkOld \in BOOLEAN
  /\ (pc = "recv" => ready = <<>> /\ Len(buffer) < NTx) /\ (pc = "send" => ready # <<>>)
  /\ blkq \in Seq(Rows) /\ saving \in Rows \cup {NoBlock}
  /\ \A id \in DOMAIN blocks : blocks[id] \in Rows /\ blocks[id].id = id
  /\ tasks \in Seq(DOMAIN blocks)
  /\ \A n \in DOMAIN dumps : DOMAIN dumps[n] \subseteq {"block", "kafka", "state"}

\* the transactions among the first messages of the topic, up to an offset
TxsUpTo(offset) == {o \in 0 .. offset : IsTx(o)}

InOrder(offsets) == \A i, j \in DOMAIN offsets : i < j => offsets[i] < offsets[j]

\* the transactions of a root
TxsOf(root) == [i \in DOMAIN root |-> root[i].tx]

\* every transaction up to an offset was applied, each once and in order
MadeOf(root, offset) == InOrder(TxsOf(root)) /\ Range(TxsOf(root)) = TxsUpTo(offset)

LastReceived == IF received = <<>> THEN Loader!NoOffset ELSE Last(received)

\* The state is made of every transaction up to the last message processed,
\* each applied once and in order, whatever was rewound, crashed or reloaded.
AppliedExactlyOnce == MadeOf(applied, LastReceived)

\* A complete dump is a consistent cut: its state is made of the transactions up
\* to its Kafka offset, it ends at a block, and the next block has its number.  Only
\* the newest dump may be incomplete, so that removing it lets the node start again.
\* A dump always finds its offset: a block it is due after came with a message.
DumpExact ==
  /\ \A n \in DOMAIN dumps :
       IF Complete(n)
       THEN /\ dumps[n].block = n
            /\ MadeOf(dumps[n].state, dumps[n].kafka)
            /\ n - 1 \in DOMAIN blocks => blocks[n - 1].newRoot = dumps[n].state
       ELSE n = Max(DOMAIN dumps)
  /\ pc # "no kafka offset"

\* Neighbouring blocks of the database fit together, also when they were
\* written by different runs of the node, and none is inserted twice, so that the
\* main thread's unwrap of the insert holds.
ChainLinked ==
  /\ node # "insert failed"
  /\ \A id \in DOMAIN blocks :
       id + 1 \in DOMAIN blocks => blocks[id + 1].oldRoot = blocks[id].newRoot

\* A client that reads the blocks page by page misses none of those there were when
\* it began, with blocks inserted between two requests and with numbers missing from
\* the table: an offset passes over at most as many rows, and no row lies between a
\* page and the next (pages overlap instead: rows up to total - offset are read).
PagesSkipNothing ==
  [][\A offset \in 0 .. Total(blocks), limit \in 1 .. 2 :
       LET page == Page(blocks, offset, limit)
           next == Page(blocks', offset + limit, limit)
           passed == {id \in DOMAIN blocks : \A row \in page : id > row}
       IN  /\ Cardinality(passed) <= offset
           /\ \A id \in DOMAIN blocks \ passed :
                (\E row \in next : row < id) => id \in page \cup next]_blocks

\* When the node shuts down by itself, the database has every block it forged.
ExitDrains ==
  node = "exited" /\ pc = "done" => 0 .. blockNum - 1 \subseteq DOMAIN blocks

Padded(block) == Nop \in Range(block.txs)

\* A restarted node forges a block that differs from the database's, and stops,
\* in two cases only.  Both blocks start from the same root; either they hold the
\* same transactions, among them a transfer to oneself, or one of the two was
\* padded by a timeout.
DivergenceExplained ==
  pc = "not deterministic" =>
    LET block == Head(ready)
        row == blocks[block.id]
    IN  /\ block.id \in DOMAIN blocks /\ row.oldRoot = block.oldRoot
        /\ IF row.txs = block.txs
           THEN \E o \in Range(block.txs) \ {Nop} : IsSelf(o)
           ELSE Padded(row) \/ Padded(block)

\* Replaying the topic forges the blocks of the database again ("l2 block
\* generation must be deterministic!").
Deterministic == pc # "not deterministic"

\* The database has every block up to its highest.
NoBlockMissing == DOMAIN blocks = 0 .. Cardinality(DOMAIN blocks) - 1

\* A block skipped as already present has its proving task.
SkippedHaveTask ==
  pc = "send" /\ Present(Head(ready)) => Head(ready).id \in Range(tasks)

\* The database is the chain of blocks of BlockLog.
Log == INSTANCE BlockLog WITH
         BlockSize <- NTx,
         chain <- [i \in 1 .. Cardinality(DOMAIN blocks) |-> blocks[i - 1]]
IsBlockLog == Log!Spec

\* Every transaction gets into a block with a proving task, unless the loader is
\* shut down or the node crashes.
EveryTxProved ==
  \A o \in 0 .. MaxMsgs - 1 :
    (o \in Loader!Offsets /\ IsTx(o))
      ~> \/ \E id \in Range(tasks) : o \in Range(blocks[id].txs)
         \/ loader # "up" \/ node = "crashed" \/ restarts > 0

=============================================================================
