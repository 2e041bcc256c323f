# A verification development of the rollup state manager

TLA+ models of the FluiDex operator node (`src/`), the TLC runs that check them and
the TLAPS proofs about them. `PROJECT.json` is the index: components, runs, the
source lines behind every definition, hazards, findings and theorems.

    tlc -workers 2 -config MCLedger.cfg MCLedger      # one run
    tlapm LedgerProofs.tla                            # one module of proofs

## The system

The node reads one Kafka topic that a matching engine writes: new users, deposits,
withdrawals, transfers, trades and order events. It applies them to a state whose
Merkle root commits to all accounts, balances and orders, cuts the transactions into
blocks of fixed size, stores each block with a proving task in a database and now and
then dumps its state to disk. A circuit, outside the repository, later proves every
block from the witness the node recorded.

Three threads and a server:

| part | code | state it keeps | operations |
|---|---|---|---|
| message loader | `msg/msg_loader.rs` | consumer position, last offset | read, skip re-read messages, send, resume after an error |
| message processor | `bin/main.rs`, `msg/msg_processor.rs` | `old_block_check` | handle a message, flush after 120 s of silence, compare with and send blocks |
| manager | `state/manager_wrapper.rs` | buffered raw transactions, number of the next block | one function per transaction, cut blocks, dump |
| global state | `state/global.rs`, `state/account.rs` | accounts, balance trees, order trees, slots of orders | reads, updates, batch update, load and save |
| Merkle tree | `types/merkle_tree.rs` | default nodes, nodes | get, set, set in parallel, path |
| main thread | `bin/main.rs` | — | insert the block, insert the task, join |
| public data | `types/l2/tx.rs`, `tx_encode.rs` | bit buffer | encode a transaction, hash a block |
| gRPC server | `grpc/` | — | read-only queries |

They are joined by two unbounded channels (loader → processor → main thread), a
read-write lock around the global state (processor and server), the database (main
thread writes; processor and server read) and the dump directory.

What is hard about it: messages come again after every stream error; a crash may hit
between any two of *state changed*, *dump written*, *block sent*, *block inserted*,
*task inserted*; restart replays the topic and must forge the same blocks; a timeout
changes where blocks end; the node and the engine compute the same balances and fills
independently and the node stops when they differ; order slots are reused while
messages about their old owners are still on the way; witness paths must be taken at
exactly the right moment of a handler; precalculated hashes go stale; a batch of updates
runs on a pool of workers that lock trees and steal halves of each other's work, while
queries wait for the state; a block's bytes are all a reader has of its transactions.

What makes each part correct:

- *loader*: the processor gets every message once, in order, or the thread stops;
- *node*: the state is the transactions up to the last message; blocks chain up and are
  never inserted twice; a dump is a consistent cut; a replay forges the same blocks but for
  known reasons; every transaction is proved at last;
- *order slots*: an order that may still trade is where its id says it is; slots are a
  prefix of the tree and go to newer orders only; a reload changes no answer that matters
  (the code keeps the first and the last of these only in part, see the violations);
- *ledger*: balances equal the engine's and never go negative; each transaction's witness
  leads from the root before to the root after; roots chain up (balances and witness not
  for a transfer to oneself);
- *Merkle tree*: a parallel update gives the tree of the plain updates; paths verify;
- *global state*: the roots an account remembers are those of its trees; a batch ends, with
  the result of its updates made one by one; readers see no half of a transaction; a dump
  gives the state back;
- *public data*: the bytes of a block decode to its transactions, and encoding never stops
  for a transaction a handler may make;
- *queries*: decoded balances are those of the states; pages leave no block out.

## The modules

| module | models | main correspondence |
|---|---|---|
| `MsgLoader` | `load_msgs_from_mq`, `MessageWriter`; Kafka as its environment | `last` is `MessageWriter.offset`; `OnMessage` is `on_message`, one disjunct per exit; `StreamError` is one turn of the assign loop; `Start` a restarted loader |
| `OperatorNode` | `main.rs`, the block half of `ManagerWrapper`, dumps, crash, restart, the pages of `l2_blocks_query`; contains `MsgLoader` (`INSTANCE`) | `pc` is where the processor thread is; `buffer`, `blockNum` are `buffered_txs`, `block_generate_num`; `ready` are the blocks returned by `pop_all_blocks`; `blkq`, `saving` the main thread; `dumps` the directory, key by key |
| `BlockLog` | nothing in the code: what the node promises, a chain of blocks of the topic's transactions | `OperatorNode` implements it (`IsBlockLog`) with the database's rows as the chain |
| `OrderSlots` | order half of `GlobalState`, `handle_order_msg`, `handle_trade_msg`, `check_state`; the engine's books as environment | variables are `order_states`, `order_id_to_pos`, `next_order_positions`; `Trade` is one trade message, `Finish`/`UserCancel` a FINISH, `Restart` is `load_persist` |
| `Ledger` | the transactions that change balances, their checks and witnesses | `accounts` is what the root commits to; one action per handler; `rawTx` the raw transaction with the moves the circuit replays |
| `BlockQuery` | payloads of raw transactions, `l2_block_query`; extends `Ledger` | `payload` is the `encoded_tx` of the last transaction; `Decoded` the balances the query reports |
| `GlobalState` | updates of `GlobalState`, `batch_update` on a pool of workers, the locks, `save_account_state` and `load_persist`, `token_balance_query` | `state` holds the four maps; `writing` is the write lock, `todo` the calls left to a handler; `stack[w]` the jobs worker `w` is inside of, one frame per nested job |
| `PublicData` | `BitEncodeContext`, `compress_fr`, `encode_rawtx_to_pubdata`, `encode_pubdata` | `encoder` is the context; `Encode` one transaction of `forge_with_txs`, `Finish` is `finish_with_raw` |
| `MerkleTree` | `types/merkle_tree.rs` | `data` is the node map; one action per loop iteration of `set_value`, `prepare_diff`, `apply_diff` |
| `OrderSlotsProofs`, `LedgerProofs`, `MsgLoaderProofs`, `OperatorNodeProofs`, `OperatorNodeLogProofs`, `MerkleTreeProofs`, `GlobalStateProofs`, `PublicDataProofs` | theorems about the module they are named after | `LedgerProofs` has those about `BlockQuery` too, `OperatorNodeLogProofs` those about the database and the refinement |
| `MC*` | values of the constants | |

Abstractions that need a word:

- *Roots are what determines them.* In `OperatorNode` a root is the sequence of
  transactions applied, each with its outcome, in `Ledger` the accounts themselves. A
  transaction has one outcome, but a transfer to oneself has two, by the order in which the
  pool writes its two balances (`Effects`). Distinct states have
  distinct roots, the usual assumption about the hash. In `MerkleTree` the hash is a
  constant; the run takes the pair of two nodes, the proofs assume nothing of it.
- *The engine is modelled from the messages the node accepts.* `OrderSlots` matches one
  incoming order with resting ones, a trade message per match, and sends the FINISH of
  the filled orders after the last of the trades; this is the order of the recorded
  messages in `tests/global_state/testdata/data.txt`. Several of the makers may be of one
  account. The engine's own checks (an account
  has the balance) are guards; the node's checks are never guards but outcomes.
- *Producing and handling a message are one step* in `OrderSlots` and `Ledger`: one
  thread handles the messages in order. That messages arrive in order and once, after
  crashes too, is what `MsgLoader` and `OperatorNode` are about. `OperatorNode` in turn leaves
  the checks of the handlers to those two: there every message is accepted.
- *History variables.* `harmed`, `forgotten` and `refused` of `OrderSlots`, `selfSent` and
  `refused` of `Ledger` record what happened so that properties can say why a check failed
  or which account is concerned; no guard reads them.
- *A panic of the processor* ends its thread and drops the receiver; the loader panics at
  its next send; the main thread leaves its loop when the channel is empty and its joins
  end the process. Release builds keep `debug_assert`s.
- *The query for an old block and the send* are one step: while `old_block_check` holds
  nothing has been sent and the main thread inserts nothing.
- *A torn dump* has a directory but no state. `load_persist(..).unwrap()` then fails at
  every restart, so `StartFromDump` is disabled until someone removes the directory.
- *Order messages* are not transactions. After a flush, an order message behind the
  dump's offset may be handled again by a restarted node; `cancel_order` is idempotent.
- `next_order_positions` is saved with the dump and survives `Restart`; `order_id_to_pos`
  is rebuilt.
- *A job of `batch_update`* waits for its tree's mutex, may split a chunk of two leaves,
  keeps or gives away the half, and writes when both halves are there. A worker whose half
  was taken looks for other work, a new job or another's half, on top of its stack and with
  its mutex held: this is what rayon may do, not what it must. The leaves are written in one step,
  because nobody else can read the tree meanwhile; `MerkleTree` has the steps between.
- *A dump's account states* are a map from hash to state and id; which of two ids with
  equal states is left depends on the order of a hash map, so `SavedStates` has them all.
- *Handlers of `GlobalState` write any values.* Whether a balance is right is `Ledger`'s
  question; here it is whether what was to be written is written, remembered and read.
- *Widths of public data* are CONSTANTS; the run narrows them so that every field has
  values at both ends. The messages cut an order id to 32 bits;
  the encoder would cut it again without an error.
- In `Ledger` the after-state check of a trade stops the node before the new state is
  stored; the code stores it first, and nothing reads it after the panic.

## The runs

| run | instance | shows |
|---|---|---|
| `slots` | 3 accounts, 2 slots, sizes 1–2, 5 orders, 2 makers per batch, 1 restart (1.0 M states) | the maps fit, slots are a prefix and only get newer owners, open orders keep theirs, what a reload forgets, why the checks may stop the node |
| `slots_finish` | 2 accounts, 1 slot, 6 orders, no restart | **violation**: a FINISH hits an open order, whose fills are then another's |
| `loader` | 4 messages, 1 error, retention, 1 restart | once, in order, no gap but the one at offset 0; every message arrives |
| `node` | 4 messages with transfers to oneself, blocks of 2, dump every 2 blocks, 2 crashes (2.2 M) | state, blocks and dumps across crashes at any step; why a replay may differ; pages of a growing table |
| `block_log` | 3 messages with transfers to oneself, blocks of 2, no dumps, 1 error, 1 crash (366 k) | refinement of `BlockLog`; every transaction proved; clean shutdown |
| `node_timeout` | 4 messages, 1 crash, timeouts | **violation**: blocks are not deterministic |
| `node_gap` | 4 messages, dumps, 1 crash | **violation**: a block is missing for ever |
| `node_task` | 4 messages, 1 crash | **violation**: a skipped block without a task |
| `merkle` | height 3, 4 of the 8 leaves written, 2 values, 3 updates, chunks of 1 and 2 | the parallel update equals the plain one; paths |
| `ledger` | 2 accounts, 2 tokens, amounts 1–2, 8 transactions (473 k) | balances, checks, witnesses, roots; what the block query decodes |
| `global_state` | 2 accounts, 2 tokens, 1 slot, 2 values, 2 workers, 3 transactions | roots agree, batches are serial and end, queries see committed balances, dumps load back |
| `public_data` | blocks of 2 transactions of every type, fields of 1 to 4 bits, 4-bit significands, 1-bit exponents | bytes decode to transactions; what encoding may stop for; the two encoders agree |

Why the bounds are enough for the cases that matter: two slots and five orders fill a
tree, evict, evict the evictor and wrap the search; size 2 against 1 leaves partly filled
makers and takers; an order is evicted before its FINISH, an open one is harmed, and a
restart forgets one. One slot and six orders are what it takes to evict the harmed order
as well and to trade it again. Four messages with blocks of two give two full blocks and
the dump after them, or with padding a dump and a partial block behind it, and two
crashes allow a crash during the recovery of the first. Without dumps, three messages are a
full block and one that only padding ends.
Four messages pass the special offset 0 and leave room for a hole, an error and a rewind.
Three updates in a tree of eight leaves give a full chunk with a neighbour or the same leaf
in it and an incomplete chunk; the leaves written (0, 1, 3, 6) are two siblings, a cousin
and a leaf of the other half, and all eight are compared. Eight transactions register both accounts, fund them in both
tokens and leave two for transfers, to oneself too, and trades; larger instances add only repetitions
(and the proofs need none of these bounds). Three transactions of `global_state` register
two accounts and leave one for a transfer or a trade, the only kinds of batch: four jobs,
of which two workers hold, split and steal up to three at a time; queries come between any
two steps and a restart before and between the transactions. The transactions of
`public_data` take every field at zero and at its largest value, order totals that compress
(15, 150), that have a significand (16, 160) or an exponent (1500) too large, and one (100)
that only a significand which ends in a zero makes; second records start where any first
one ends.

`CHECK_DEADLOCK` is off in every run because every instance really stops: bounds on
messages, orders and transactions are reached, or the node has ended.

Symmetry is used where accounts are interchangeable (`slots`, `ledger`); neither checks
liveness, and tokens are not permuted because token 0 is special.

### Fairness

`MsgLoader`: weak fairness of `OnMessage`, `ResetPosition` and `Recv`: the threads are
scheduled, and Kafka delivers what it stores. Publishing, errors, retention, shutdown
and crashes are never forced. `OperatorNode`: weak fairness of the loader, the processor's
steps, the main thread, and of `ProcTimeout`: when no message comes the 120 seconds pass.
A restart is not fair, so `EveryTxProved` promises nothing after a crash. `GlobalState`:
weak fairness of a handler's next call, of the end of its batch, of the release of its lock
and of each worker's steps: the processor thread and the threads of the pool are scheduled.
No handler is ever forced to begin and no query to come.

### What the violations show

1. `FillsAgree`: the entry of an evicted order in `order_id_to_pos` leads to another order. A
   batch fills maker A, then trades B of the same account, which takes A's slot and stays
   open. The FINISH of A follows the entry of A and marks B as inactive. The account's next
   order takes the slot, and the next trade of B is compared with that order's fills.
2. `Deterministic`: a padded block depends on the clock. A replay that finds the next message
   waiting forges another block of the same number and stops, on every restart.
3. `NoBlockMissing`: the dump is ahead of the database. A crash in between loses a block.
   `ChainLinked` still holds, because the neighbours of the gap are not compared.
4. `SkippedHaveTask`: block and task are two inserts, and only the block is looked for.

Three configurations beside the runs show more of what the invariants except:

| configuration | module | violates |
|---|---|---|
| `MCOrderSlotsReload.cfg` | `MCOrderSlots` | `FinishFindsOrder` (`msg_processor.rs:135`, "manager should have traded order"): a restart drops the entry of an order that was evicted before its FINISH, and the FINISH stops the node |
| `MCLedgerSelf.cfg` | `MCLedger` | `BalanceBeforeHolds` (`assert_eq!` at `msg_processor.rs:74` and `:109`): of the two updates of a transfer to oneself one is lost, and the next deposit or withdrawal finds a balance the engine does not have |
| `MCOperatorNodeSelf.cfg` | `MCOperatorNode` | `Deterministic` (`main.rs:190`) without a timeout: which of the two updates is lost depends on the thread pool, so a replay of the same transactions may end in another root |

The passing runs say that there is no more to it. `ChecksPass` of `OrderSlots` lists the harmed
account, the forgotten entry and the full account as the reasons for a check to fail, and
`OpenOrderKept` and `ReloadAgrees` except no other orders. `ChecksPass` of `Ledger` lists a balance sent
to itself and the trade of a whole balance, and `BalancesAgree` bounds by how much the first
can be off. `DivergenceExplained` says of the two blocks that were compared that they begin
alike, and that padding or a transfer to oneself made them differ. `DumpExact` says that after
a crash in the middle of a dump removing the newest directory is enough.

### What the properties leave room for

Some properties hold only because they say what the code does not promise:

- `OpenOrderKept`, `ReloadAgrees` and `ChecksPass` of `OrderSlots` except what `slots_finish` and
  `MCOrderSlotsReload.cfg` show; `ChecksPass` allows besides the panic of an account without a
  slot for an older order (`global.rs:281-286`).
- `BalancesAgree`, `ChecksPass` and `WitnessChecks` of `Ledger` except a transfer to oneself,
  which neither `handle_transfer_msg` nor `ManagerWrapper::transfer` refuses.
  `WitnessChecks` says that its witness never verifies: the second move starts from the nonce
  and the balance before the first, so the circuits would refuse the block. A trade has
  `a # b`, because `full_spot_trade` asserts it (`manager_wrapper.rs:597`).
- `DecodedAgrees` excepts the receiver of a transfer: `grpc/controller.rs:125` computes his
  balances from `BALANCE1`, the sender's old balance, while `manager_wrapper.rs:452` puts
  the receiver's new one into `BALANCE2`. In a transfer to oneself the receiver is the sender,
  and neither balance is checked.
- `PagesSkipNothing` says that nothing is left out, not that pages are disjoint: a page
  reads the rows up to `total - offset`, one more than it should, so that the last row of a
  page comes again as the first of the next, even without inserts. A client who asks for
  pages only while `offset < total` never sees block 0 when the limit divides the total.
- `BatchIsSerial` allows two results of a transfer to oneself: both jobs write the same
  leaf, in the order the pool takes them. `main.rs:190` promises that blocks are deterministic;
  `MCOperatorNodeSelf.cfg` shows that because of this they are not. In the public data such a transfer
  reads as a deposit (`PublicData`).
- `LoadsBack` speaks of accounts with a twin (equal key, nonce, balances and orders): they
  share an entry of the dump, so only one of them is loaded, and once one is lost that way
  a later dump may not load at all, because the leaf of the lost one stays in the tree.
- `EncodersAgree` assumes that `Order::is_filled`, which looks at the order's own side,
  agrees with the header, which takes either side.
- `EncodingStops` allows two stops a handler does not prevent: an amount of an order that
  does not compress, and a deposit, transfer or withdrawal of more than 128 bits.
  `compress_fr` divides by ten as often as it can, so an amount that is made only by a
  significand which ends in a zero (10 · 10^31 with 5-bit exponents) is refused as well,
  although a significand and an exponent for it exist. An order id is the one field that is
  cut in silence: `ForSpotTradeTx` drops its error.

## The proofs

The eight proof modules hold for every value of the constants that meets the module's
named assumption; the bounds play no role. The one hypothesis beyond that is in the statement
of two theorems of `OperatorNodeLogProofs`: `PersistEvery = 0`. What a property excepts, its
theorem excepts.

**`LedgerProofs`.** The induction is on `IInv`: types, balances within `selfSent` of the
engine's (`BalancesAgree`), the reasons to stop (`ChecksPass`), the last witness verifies
unless it is of a transfer to oneself, and the last root is the current state. The last
conjunct is what makes roots chain up; balances that are equal where nothing was sent to oneself
make the checks pass there, and the checks of the node itself keep its balances natural
numbers. Each transaction is one lemma: the state after it is well-formed, agrees
with the engine, and its moves replay. For a transfer between two accounts the order of the
two writes does not matter (`WritesCommute`, `EitherOrder`); for one to oneself either
balance is within the amount (`SelfTransferState`), and the moves break where the
second starts from the old nonce (`SelfTransferWitness`).
The witness lemmas rest on a small theory of paths: putting the old leaf back into a
leaf's own path gives the state (`OwnLeaf`), changing one leaf leaves its own path alone
(`OneMove`), and a trade is four such moves (`FourMoves`).

Its last part is about `BlockQuery`. Every step of the query's module is one of the ledger's,
so `IInv` holds of it too. What is decoded of a payload is compared balance by balance (`Told`) with
the states before and after the handler (`HandleTells`, `HandleTradeTells`); old balances
are computed back from new ones by subtraction, and `IInv` is what makes them meaningful.

**`OrderSlotsProofs`.** There are two inductions. The first is on `TypeOK`,
`SlotsContiguous` and `SlotMapConsistent` together: the slot given out lies in the tree only
because the slots in use are a prefix; the prefix is kept because a known id's slot is in
use; and the map stays right after an eviction because the new id was unknown.
`SlotIdsIncrease` follows step by step, from the search's condition on ids.

The second, on top of it, is on `OInv` and gives `OpenOrderKept`, `ReloadAgrees` and
`ChecksPass`, whatever the engine matches. It relates the trees to the engine's book: the map
knows traded orders only, and every one that is not finished, unless a restart forgot it; in an
account that is not harmed an open order that traded is in its slot, with its fill and its active
mark, and a filled one whose FINISH is to come is in its slot or was evicted by a later maker
of its batch; and the filled orders whose FINISH has not come are exactly those of the
batch. The search for a victim passes over open orders, so a FINISH through a stale entry is the
only way for one to lose its mark, and with it its slot. That is what `harmed` records, and
a restart that drops an evicted order's entry is what `forgotten` records; so each check that
can fail names the event behind it.

**`MsgLoaderProofs`.** The induction is on `TypeOK`, `InOrder`, `NothingSkipped` and
`CursorFollows`: as long as retention has deleted nothing, the consumer's position is at
most one past the last offset. Without it `NothingSkipped` is not inductive, since a cursor
that had run ahead would raise the continuity panic with a whole topic. `InOrder` bounds
what was handed over by the last offset, which is why a message that passes the rewind
check is new. The steps fall into three classes: those of Kafka and of the assign loop change
neither the offset nor the channel (`Calm`); `OnMessage` looks at one message (`Looked`); a
restart keeps a prefix of what was received.

**`OperatorNodeProofs`.** The loader's lemmas are used for the loader inside the node through
`INSTANCE`. Retention is off in `OperatorNode`, and `logStart = 0` is part of the induction.
Every root a node computes is made of the first transactions of the topic, each with an
outcome it may have (`IsRoot`), so two roots, of whichever runs of the node, have the same
transactions as far as both go and differ there only in the outcomes of transfers to oneself
(`RootsAgree`). `IInv` follows them through the pipeline: the buffer leads from `BufferRoot` to the
state (`BufferInv`), the blocks in hand and in the channel lead up to `BufferRoot`
(`PipelineInv`), and the database ends where the channel begins, or is ahead of it while a
restarted node forges its blocks again (`BlocksInv`).

`ChainLinked` says of the database alone what is true of its neighbours, and is far from
inductive: a node that restarts from a dump forges blocks the database has not seen, next to
blocks another run inserted. Two parts tie runs together. `StartsInv`: a block starts, in
whichever run it was forged, where the dump of its number says. `DueInv`: a block that a dump
is due after is handed on only when that dump is complete, so no restart begins before a block
that is numbered from an older dump. `DumpExact` and `AppliedExactlyOnce` come out of the same
induction. For `DivergenceExplained` it knows that a block in hand starts where the row of its
number does. Without Nops both then hold the next transactions of the topic, as many
as a block has (`UnpaddedSame`), so they are the same, and only an outcome can differ
(`SameTxsDiffer`).

**`OperatorNodeLogProofs`.** `Contiguous`: above the newest dump no block is missing, by
taking the greatest missing one and what the block after it says of its predecessor.
Hence a node that ends by itself leaves every block in the database or before a dump
(`ExitDrainsToDump`), and without dumps leaves them all (`ExitDrains`). `PagesSkipNothing` is
a statement about any two finite tables of which the second has the rows of the first
(`PassedFew`, `NoneBetween`), whatever numbers are missing; that no step removes a row is
`RowsStay`. `ImplementsBlockLog` is the refinement: without dumps the rows of the
database are a chain from 0, every insert appends the next block of the topic's transactions,
and every other step leaves the chain alone. `BlockLog` leaves the outcome of a transfer to
oneself open, and the witness for it is read off the row (`BlockOfLog`).

**`MerkleTreeProofs`.** What the run checks between calls is false in the middle of one, so
`Inv` says what holds there: which updates are still to be made (`QueueInv`), that the leaves
are as after the others (`LeavesInv`), and that every inner node is the hash of its children
but those between the loop's level and the root, above the leaf being updated (`NodesInv`).
Nothing is assumed of the hash. A precalculated hash is the hash of its inputs, however old
(`IsCache`), and `set_value_apply_diff` compares the inputs before it takes one; so equal
roots need no collision resistance. Under it lies the arithmetic of the flattened indices:
levels do not overlap, siblings and parents stay on their level, and a node that an update
writes is on no path but its leaf's. `RootFrom` is recursive; that whatever `CHOOSE` picks
agrees with the ancestors is shown by the least level on which they would differ
(`UpUnique`).

**`GlobalStateProofs`.** The first half says what each operation does to a state: `Flush`
leaves an account whose remembered roots are its trees' and whose leaf is its hash, and
leaves every other account alone (`Same`); `JobDone` changes one tree and nothing that is
remembered; `AccountsUpdated` catches up for the accounts of a batch; `Loaded` gives back
what was saved. The second half is the induction on `IInv`. `RootsAgree` alone is not
inductive, because it is false in the middle of a handler: `RootsBehind` says which
accounts may disagree (those of the batch), `PoolOK` that the pool works on these only,
`KeyPending` that an account without a key belongs to the handler that registers it (an
empty account has no leaf of its own, so `TypeOK` and `AnswersCommitted` need this), and
`NoncesOK` keeps room for the increment a withdrawal still owes. With the lock free nothing
is pending (`FreeState`), and `RootsAgree`, `LoadsBack` and `AnswersCommitted` follow.
Which update of a leaf wins needs only that a last position exists (`LastPosition`), from
the well-foundedness of finite sets.

A second induction, on `SerialInv`, gives `BatchIsSerial`. Half-way through a batch the
balances are the old ones, those after one of the two updates, or one of the two results; and
as long as an update is missing its job is pending (`Halfway`): in the queue, or on the stack
of a worker that will write it, since who took half of a job does not write. No other balance
job is about (`Pool`), so an empty pool leaves one of the results. That a job which
is on two stacks, or equals the other one, does no harm is `AfterTwice`: writing an update again
after any other changes no more than writing it last.

**`PublicDataProofs`.** The encoder is a function of bits. Three facts about it carry
everything: it appends as many bits as it is told (`TotalBits`), behind whole bytes it
does what it does on an empty buffer (`Behind`), and it changes no bit that is written
(`Kept`). Each is shown of `ApplyBit`, then by induction of a number, of the fields of a
record, and of padding (`ApplyBitResult` to `PaddingResult`, `ApplyBitWrites` to
`PaddingWrites`). That no scheme is longer than a record (`FieldsResult`) makes every
record begin where the last one ended, and its bytes the same wherever it is
(`EncodeTxAppends`).

What the bits mean comes from two recursive functions. The bits written of a number are
those of its halves (`Halved`), and `Number`, which a reader computes, puts the halves
together again (`NumberResult`). Of powers the proof needs how they add up and grow
(`PowAdd`, `PowGrows`): that gives the one exponent and significand of a number
(`ExponentUnique`), and that `decompress_fr` undoes `compress_fr` where the latter accepts,
while no significand without a zero at its end makes what it refuses (`CompressResult`,
`IncompressibleResult`). Where each field of a record lies and what is read there is
`RecordWrites`, `FieldRead` and `RecordReads`.

`IInv` says of what is buffered and of the finished block that the record of each
transaction is in its place (`Recorded`) and that none of them was refused (`Accepted`,
without which a reader would find amounts cut off), and of a panic that it is what
its transaction is refused for on an empty buffer (`PanicInv`). `TypeOK`, `EncodersAgree`,
`DecodesBack` and `EncodingStops` follow. `TxsAssumption` says which transactions handlers
make: accounts, tokens and positions are leaves of their trees, order ids have 32 bits
(`u32`), keys are coordinates of points, nobody trades with himself
(`manager_wrapper.rs:597` panics), and a deposit or withdrawal names its account twice.
Amounts are any natural numbers.

**Induction.** The library's induction theorems cannot be used with the installed provers.
Where a proof needs one, it takes the least or greatest counterexample instead, which exists
because the subsets of a finite interval are well-founded (`Least`, `Greatest`). In the same
way `NatRecursion` shows that a function on all natural numbers exists which follows given
steps, and `Agree` that the recursive functions of `PublicData`, each on an interval, are
parts of it.

Only model-checked: liveness (`EventuallyReceived`, `EveryTxProved`, `BatchEnds`), which is
out of the prover's reach. Every invariant and every action property of a passing run is a
theorem. The properties that a run refutes are false and have no theorem.

## Not modelled

Signatures, decimal places of amounts, rounding of quote amounts, the price of an order,
the order half of a trade's witness in `Ledger` (`OrderSlots` has the orders, `GlobalState`
their roots), errors of the database other than a duplicate key, malformed messages, the
circuit status and transport of a gRPC answer, the layout of messages and blocks in JSON
and the database (`serialize.rs`, `messages.rs`: field-by-field conversions without state),
keys (`account.rs`: calls of a cryptographic library), configuration, tools, and the
circuits (an empty submodule). "Deposit and transfer to a new account" exist in
`ManagerWrapper`, but no handler uses them. Task ids (the clock), ids above 32 bits, and
what a panic does to the server's locks are listed as hazards without a property.

## Plan

Done: order slots, loader, node, tree, ledger; then the global state with its locks, pool
and dump, public data, queries; then proofs about all of them, among them the refinement of
`BlockLog` and what the bits of public data mean. Left, in this order:

1. A trade with both halves: order roots and order paths in the witness of `Ledger`.
2. The fill of an order against its price and the rounding of quote amounts.
