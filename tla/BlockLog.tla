------------------------------ MODULE BlockLog ------------------------------
(***************************************************************************)
(* What the operator node promises: the transactions of the topic, in      *)
(* order and each exactly once, cut into a chain of blocks.  A block has   *)
(* BlockSize entries; unused ones at its end are Nops.  Its roots are the  *)
(* transactions applied before and after it, each with its outcome: that   *)
(* of a transfer to oneself is not determined by the topic.                *)
(***************************************************************************)
EXTENDS Integers, Sequences, FiniteSets, SequencesExt

CONSTANTS
  BlockSize,   \* entries of a block
  Kinds,       \* kinds of messages; "tx" and "self" messages are transactions
  MaxMsgs      \* bound: messages published

VARIABLES
  topic,   \* kinds of the messages published
  chain    \* the blocks, oldest first

vars == <<topic, chain>>

Nop == -1

\* offsets of the transactions published
TxOffsets == {o \in 0 .. Len(topic) - 1 : topic[o + 1] \in {"tx", "self"}}

\* transactions published before a message
Earlier(offset) == {o \in TxOffsets : o < offset}

\* the transactions published, in order
Txs == [i \in 1 .. Cardinality(TxOffsets) |->
          CHOOSE o \in TxOffsets : Cardinality(Earlier(o)) = i - 1]

\* transactions in the chain
Applied == IF chain = <<>> THEN <<>> ELSE Last(chain).newRoot

\* the block of the next transactions, of which some raised the balance
Block(next, raised) ==
  [id      |-> Len(chain),
   oldRoot |-> Applied,
   newRoot |-> Applied \o [i \in 1 .. Len(next) |->
                              [tx |-> next[i], raised |-> next[i] \in raised]],
   txs     |-> [i \in 1 .. BlockSize |-> IF i <= Len(next) THEN next[i] ELSE Nop]]

Publish(kind) ==
  /\ Len(topic) < MaxMsgs
  /\ topic' = Append(topic, kind)
  /\ UNCHANGED chain

AppendBlock(n) ==
  LET next == SubSeq(Txs, Len(Applied) + 1, Len(Applied) + n)
  IN
  /\ Len(Applied) + n <= Len(Txs)
  /\ \E raised \in SUBSET {o \in Range(next) : topic[o + 1] = "self"} :
       chain' = Append(chain, Block(next, raised))
  /\ UNCHANGED topic

AppendSome == \E n \in 1 .. BlockSize : AppendBlock(n)

Init == topic = <<>> /\ chain = <<>>

Next == (\E kind \in Kinds : Publish(kind)) \/ AppendSome

Spec == Init /\ [][Next]_vars

=============================================================================
