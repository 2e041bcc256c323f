----------------------------- MODULE PublicData -----------------------------
(***************************************************************************)
(* The public data of a block (tx.rs, tx_encode.rs, manager_wrapper.rs):   *)
(* forge_with_txs encodes the transactions of a block bit by bit, least    *)
(* significant bit first, each into a record of the same number of bits.   *)
(* The bytes and their hash are all that is published of a block.          *)
(*                                                                         *)
(* The widths of the fields are CONSTANTS; the amounts of orders are       *)
(* compressed to a significand and a decimal exponent.                     *)
(***************************************************************************)
EXTENDS Integers, Sequences, FiniteSetsExt

CONSTANTS
  AccountBits, TokenBits, OrderBits,  \* heights of the trees
  AmountBits,    \* 128: an amount
  OrderIdBits,   \* 32: an order id
  KeyBits,       \* 254: the y coordinate of a key
  SigBits,       \* 35: significand of a compressed amount
  ExpBits,       \* 5: exponent of a compressed amount
  NTx,           \* transactions of a block
  Txs            \* the transactions that may be made

ASSUME PublicDataAssumption ==
  {AccountBits, TokenBits, OrderBits, AmountBits, OrderIdBits, KeyBits, SigBits, ExpBits, NTx}
    \subseteq Nat \ {0}

VARIABLES
  encoder,    \* BitEncodeContext
  encoded,    \* transactions encoded for the next block
  block,      \* the block just finished: its transactions and its public data
  panic       \* "none", or what stopped the node

vars == <<encoder, encoded, block, panic>>

-----------------------------------------------------------------------------
(* BitEncodeContext: whole bytes, and the byte that is being filled.        *)

New == [encoding_buf |-> <<>>, applying_bit |-> 0, encoding_char |-> 0]

TotalBits(enc) == Len(enc.encoding_buf) * 8 + enc.applying_bit

\* Mutant of NextByte: the byte being filled is not cleared.
NextByteKept(enc) ==
  [enc EXCEPT !.encoding_buf = Append(@, enc.encoding_char), !.applying_bit = 0]

NextByte(enc) ==
  [encoding_buf |-> Append(enc.encoding_buf, enc.encoding_char),
   applying_bit |-> 0, encoding_char |-> 0]

\* the first bit of a byte is its highest
mask == <<128, 64, 32, 16, 8, 4, 2, 1>>

ApplyBit(enc, bit) ==
  LET applied == [encoding_buf  |-> enc.encoding_buf,
                  applying_bit  |-> enc.applying_bit + 1,
                  encoding_char |-> IF bit = 0 THEN enc.encoding_char
                                    ELSE enc.encoding_char + mask[enc.applying_bit + 1]]
  IN  IF applied.applying_bit = 8 THEN NextByte(applied) ELSE applied

\* n after i shifts to the right, and what encode_primint and encode_big ask after the last
Halved(n, i) ==
  LET half[k \in 0 .. i] == IF k = 0 THEN n ELSE half[k - 1] \div 2
  IN  half[i]

Fits(n, bits) == Halved(n, bits) = 0

\* encode_primint, encode_big: the lowest bits first
EncodeInt(enc, n, bits) ==
  LET after[i \in 0 .. bits] ==
        IF i = 0 THEN enc ELSE ApplyBit(after[i - 1], Halved(n, i - 1) % 2)
  IN  after[bits]

\* values and widths
EncodeFields(enc, fields) ==
  LET after[i \in 0 .. Len(fields)] ==
        IF i = 0 THEN enc ELSE EncodeInt(after[i - 1], fields[i][1], fields[i][2])
  IN  after[Len(fields)]

Zeros(enc, n) == EncodeInt(enc, 0, n)

Aligned(enc, at) == TotalBits(enc) % at = 0

\* the context of the byte being filled is kept
PutBytes(enc, bytes) ==
  [encoding_buf  |-> enc.encoding_buf \o bytes, applying_bit |-> enc.applying_bit,
   encoding_char |-> enc.encoding_char]

\* up to the next multiple: bits to the end of the byte, then whole bytes
Padding(enc, at) ==
  LET missing == IF Aligned(enc, at) THEN 0 ELSE at - (TotalBits(enc) % at)
      toByte  == (8 - enc.applying_bit) % 8
      first   == IF missing < toByte THEN missing ELSE toByte
      bytes   == (missing - first) \div 8
  IN  Zeros(PutBytes(Zeros(enc, first), [i \in 1 .. bytes |-> 0]), (missing - first) % 8)

Seal(enc) ==
  IF enc.applying_bit = 0 THEN enc.encoding_buf
  ELSE Append(enc.encoding_buf, enc.encoding_char)

-----------------------------------------------------------------------------
(* Amounts of orders.                                                       *)

\* b ^ n, in a form that can be reasoned about
Pow(b, n) ==
  LET power[i \in 0 .. n] == IF i = 0 THEN 1 ELSE b * power[i - 1]
  IN  power[n]

\* trailing decimal zeros of a number but 0, and what is left without them
Exponent(x) == CHOOSE e \in 0 .. x : x % Pow(10, e) = 0 /\ x % Pow(10, e + 1) # 0
Significand(x) == x \div Pow(10, Exponent(x))

\* Mutant of Compressible: the largest significand is one too large.
CompressibleUpTo(x) ==
  x = 0 \/ (Significand(x) <= Pow(2, SigBits) /\ Exponent(x) < Pow(2, ExpBits))

Compressible(x) == x = 0 \/ (Significand(x) < Pow(2, SigBits) /\ Exponent(x) < Pow(2, ExpBits))

\* compress_fr, decompress_fr
Compress(x)   == IF x = 0 THEN 0 ELSE Exponent(x) * Pow(2, SigBits) + Significand(x)
Decompress(c) == (c % Pow(2, SigBits)) * Pow(10, c \div Pow(2, SigBits))

-----------------------------------------------------------------------------
(* Records: a header of three bits and the fields of one of three schemes.  *)

HeadBits  == 3
FloatBits == SigBits + ExpBits

CommonBits == AmountBits + 2 * AccountBits + TokenBits
TradeBits  == 2 * OrderIdBits + 2 * AccountBits + 2 * TokenBits + 4 * FloatBits + 2 * OrderBits
L2KeyBits  == 1 + KeyBits + AccountBits
RoundUp(n) == n + ((8 - (n % 8)) % 8)

\* data_bits: the longest scheme, in whole bytes
DataBits == RoundUp(Max({CommonBits, TradeBits, L2KeyBits}) + HeadBits)

Filled(order) ==
  \/ order.filledBuy = Decompress(Compress(order.buy))
  \/ order.filledSell = Decompress(Compress(order.sell))

\* encode_heading: 4 is a withdrawal, and a trade that fills only order 2
Header(tx) ==
  CASE tx.type = "key"      -> 1
    [] tx.type = "withdraw" -> 4
    [] tx.type = "trade"    -> (IF Filled(tx.order1) THEN 2 ELSE 0) + (IF Filled(tx.order2) THEN 4 ELSE 0)
    [] OTHER                -> 0

OrderFields(order) ==
  <<<<Compress(order.sell), FloatBits>>, <<Compress(order.buy), FloatBits>>,
    <<order.pos, OrderBits>>, <<order.id, OrderIdBits>>>>

Fields(tx) ==
  CASE tx.type = "key" ->
         <<<<tx.from, AccountBits>>, <<tx.sign, 1>>, <<tx.ay, KeyBits>>>>
    [] tx.type = "trade" ->
         <<<<tx.from, AccountBits>>, <<tx.to, AccountBits>>,
           <<tx.order1.token, TokenBits>>, <<tx.order2.token, TokenBits>>>>
           \o OrderFields(tx.order1) \o OrderFields(tx.order2)
    [] tx.type = "nop" -> <<>>
    [] OTHER ->
         <<<<tx.from, AccountBits>>, <<tx.to, AccountBits>>,
           <<tx.token, TokenBits>>, <<tx.amount, AmountBits>>>>

\* the errors of these fields are dropped: an order id is cut, not refused
Cut(tx) == IF tx.type = "trade" THEN {8, 12} ELSE {}

\* Mutant of Padded: a Nop is not padded.
PaddedUnlessNop(enc, tx) == IF tx.type = "nop" THEN enc ELSE Padding(enc, DataBits)

Padded(enc, tx) == Padding(enc, DataBits)

EncodeTx(enc, tx) ==
  Padded(EncodeFields(EncodeInt(enc, Header(tx), HeadBits), Fields(tx)), tx)

\* what stops the node: full_spot_trade's unwrap of compress_fr, the assertion
\* and the errors of encode_rawtx_to_pubdata
EncodeCheck(enc, tx) ==
  CASE tx.type = "trade" /\ \E o \in {tx.order1, tx.order2} :
                              ~Compressible(o.sell) \/ ~Compressible(o.buy) -> "too big to compress"
    [] OTHER ->
  CASE tx.type = "trade" /\ Header(tx) = 0 -> "no order filled"
    [] ~Aligned(enc, DataBits)             -> "not align"
    [] \E i \in DOMAIN Fields(tx) \ Cut(tx) : ~Fits(Fields(tx)[i][1], Fields(tx)[i][2])
                                           -> "can not encode number"
    [] OTHER                               -> "none"

-----------------------------------------------------------------------------
(* encode_pubdata: the second encoder, of typed transactions.               *)

\* Order::is_filled looks at the side of the order only
IsFilled(order) ==
  \/ order.side = "buy" /\ order.filledBuy >= order.buy
  \/ order.side = "sell" /\ order.filledSell >= order.sell

TypedHeader(tx) ==
  CASE tx.type = "key"      -> 1
    [] tx.type = "withdraw" -> 4
    [] tx.type = "trade"    -> (IF IsFilled(tx.order1) THEN 2 ELSE 0) + (IF IsFilled(tx.order2) THEN 4 ELSE 0)
    [] OTHER                -> 0

\* Mutant of TypedCommon: the account is encoded once.
TypedCommonOnce(tx, to) ==
  <<<<tx.from, AccountBits>>, <<tx.token, TokenBits>>, <<tx.amount, AmountBits>>>>

TypedCommon(tx, to) ==
  <<<<tx.from, AccountBits>>, <<to, AccountBits>>, <<tx.token, TokenBits>>, <<tx.amount, AmountBits>>>>

TypedFields(tx) ==
  CASE tx.type = "nop"                     -> <<>>
    [] tx.type = "key"                     -> <<<<tx.from, AccountBits>>, <<tx.sign, 1>>, <<tx.ay, KeyBits>>>>
    [] tx.type \in {"deposit", "withdraw"} -> TypedCommon(tx, tx.from)
    [] tx.type = "transfer"                -> TypedCommon(tx, tx.to)
    [] tx.type = "trade" ->
         LET order(o) == <<<<Compress(o.sell), FloatBits>>, <<Compress(o.buy), FloatBits>>,
                           <<o.pos, OrderBits>>, <<o.id, OrderIdBits>>>>
         IN  <<<<tx.from, AccountBits>>, <<tx.to, AccountBits>>,
               <<tx.order1.token, TokenBits>>, <<tx.order2.token, TokenBits>>>>
               \o order(tx.order1) \o order(tx.order2)

TypedEncoded(tx) ==
  Seal(Padding(EncodeFields(EncodeInt(New, TypedHeader(tx), HeadBits), TypedFields(tx)),
               DataBits))

-----------------------------------------------------------------------------
(* The transactions that handlers make: accounts, tokens and positions are  *)
(* leaves of their trees, order ids have 32 bits, keys are those of points. *)

Within(n, bits) == n \in Nat /\ Fits(n, bits)

IsOrder(o) ==
  /\ {o.sell, o.buy, o.filledSell, o.filledBuy} \subseteq Nat
  /\ Within(o.token, TokenBits) /\ Within(o.pos, OrderBits) /\ Within(o.id, OrderIdBits)

\* manager_wrapper.rs names the same account twice in a deposit and in a withdrawal, and
\* refuses a trade with oneself
ASSUME TxsAssumption ==
  \A tx \in Txs :
    \/ tx.type = "nop"
    \/ /\ tx.type = "key"
       /\ Within(tx.from, AccountBits) /\ Within(tx.sign, 1) /\ Within(tx.ay, KeyBits)
    \/ /\ tx.type \in {"deposit", "transfer", "withdraw"}
       /\ Within(tx.from, AccountBits) /\ Within(tx.to, AccountBits)
       /\ Within(tx.token, TokenBits) /\ tx.amount \in Nat
       /\ tx.type # "transfer" => tx.to = tx.from
    \/ /\ tx.type = "trade" /\ tx.from # tx.to
       /\ Within(tx.from, AccountBits) /\ Within(tx.to, AccountBits)
       /\ IsOrder(tx.order1) /\ IsOrder(tx.order2)

-----------------------------------------------------------------------------
NoBlock == [txs |-> <<>>, public_data |-> <<>>]
NoPanic == [why |-> "none", tx |-> [type |-> "nop"]]

Running == panic = NoPanic

\* a transaction of forge_with_txs
Encode(tx) ==
  /\ Running /\ block = NoBlock /\ Len(encoded) < NTx
  /\ IF EncodeCheck(encoder, tx) = "none"
     THEN /\ encoder' = EncodeTx(encoder, tx) /\ encoded' = Append(encoded, tx)
          /\ UNCHANGED panic
     ELSE /\ panic' = [why |-> EncodeCheck(encoder, tx), tx |-> tx]
          /\ UNCHANGED <<encoder, encoded>>
  /\ UNCHANGED block

\* finish_with_raw leaves a new context
Finish ==
  /\ Running /\ Len(encoded) = NTx
  /\ block' = [txs |-> encoded, public_data |-> Seal(encoder)]
  /\ encoder' = New /\ encoded' = <<>>
  /\ UNCHANGED panic

\* the block goes to the caller, and the next is begun
Return ==
  /\ Running /\ block # NoBlock
  /\ block' = NoBlock /\ UNCHANGED <<encoder, encoded, panic>>

Init == encoder = New /\ encoded = <<>> /\ block = NoBlock /\ panic = NoPanic

Next == (\E tx \in Txs : Encode(tx)) \/ Finish \/ Return

Spec == Init /\ [][Next]_vars

-----------------------------------------------------------------------------
(* Properties.                                                              *)

\* the bits of a finished block, the number in bits at .. at + n - 1
Bit(bytes, i) == (bytes[i \div 8 + 1] \div mask[(i % 8) + 1]) % 2

Number(bytes, at, n) ==
  LET highest[i \in 0 .. n] ==
        IF i = 0 THEN 0 ELSE 2 * highest[i - 1] + Bit(bytes, at + (n - i))
  IN  highest[n]

\* the encoder is between two bits: the byte being filled has room for the next
\* one and zeros from it on (a bit is added, never set), and what is buffered is
\* one record for each transaction encoded, so that no transaction moves the next.
TypeOK ==
  /\ encoder.applying_bit \in 0 .. 7
  /\ encoder.encoding_char \in 0 .. 255
  /\ encoder.encoding_char % (2 * mask[encoder.applying_bit + 1]) = 0
  /\ \A i \in DOMAIN encoder.encoding_buf : encoder.encoding_buf[i] \in 0 .. 255
  /\ encoded \in Seq(Txs) /\ Len(encoded) <= NTx
  /\ TotalBits(encoder) = Len(encoded) * DataBits
  /\ panic.why \in {"none", "too big to compress", "no order filled", "not align",
                    "can not encode number"}

\* what a record says to a reader who has only its bits: header 4 is a trade when
\* the accounts differ (full_spot_trade refuses a trade with oneself), a record of
\* zeros is no transaction, and header 0 is a deposit when the accounts are equal
DecodedOrder(bytes, at) ==
  [sell |-> Decompress(Number(bytes, at, FloatBits)),
   buy  |-> Decompress(Number(bytes, at + FloatBits, FloatBits)),
   pos  |-> Number(bytes, at + 2 * FloatBits, OrderBits),
   id   |-> Number(bytes, at + 2 * FloatBits + OrderBits, OrderIdBits)]

DecodedTrade(bytes, at, head) ==
  LET tokens == at + 2 * AccountBits
      orders == tokens + 2 * TokenBits
  IN  [type |-> "trade",
       tokens  |-> <<Number(bytes, tokens, TokenBits), Number(bytes, tokens + TokenBits, TokenBits)>>,
       orders  |-> <<DecodedOrder(bytes, orders),
                     DecodedOrder(bytes, orders + 2 * FloatBits + OrderBits + OrderIdBits)>>,
       filled  |-> <<(head \div 2) % 2 = 1, head \div 4 = 1>>]

DecodedCommon(bytes, at, type) ==
  [type |-> type, token |-> Number(bytes, at + 2 * AccountBits, TokenBits),
   amount |-> Number(bytes, at + 2 * AccountBits + TokenBits, AmountBits)]

Decoded(bytes, n) ==
  LET head == Number(bytes, n * DataBits, HeadBits)
      at   == n * DataBits + HeadBits
      from == Number(bytes, at, AccountBits)
      to   == Number(bytes, at + AccountBits, AccountBits)
      what == CASE head = 1 ->
                     [type |-> "key", sign |-> Number(bytes, at + AccountBits, 1),
                      ay   |-> Number(bytes, at + AccountBits + 1, KeyBits)]
                [] head = 0 ->
                     DecodedCommon(bytes, at, IF from = to THEN "deposit" ELSE "transfer")
                [] head = 4 /\ from = to -> DecodedCommon(bytes, at, "withdraw")
                [] OTHER -> DecodedTrade(bytes, at, head)
  IN  <<from, IF head = 1 THEN from ELSE to, what>>

\* what a transaction publishes.  Two are not what they were made as: a Nop reads as
\* an empty deposit, and a transfer to oneself, which no handler refuses, as a deposit
Published(tx) ==
  CASE tx.type = "key"   -> <<tx.from, tx.from, [type |-> "key", sign |-> tx.sign, ay |-> tx.ay]>>
    [] tx.type = "nop"   -> <<0, 0, [type |-> "deposit", token |-> 0, amount |-> 0]>>
    [] tx.type = "trade" ->
         LET Order(o) == [sell |-> o.sell, buy |-> o.buy, pos |-> o.pos, id |-> o.id]
             Done(o)  == o.filledBuy = o.buy \/ o.filledSell = o.sell
         IN  <<tx.from, tx.to,
               [type |-> "trade", tokens |-> <<tx.order1.token, tx.order2.token>>,
                orders |-> <<Order(tx.order1), Order(tx.order2)>>,
                filled |-> <<Done(tx.order1), Done(tx.order2)>>]>>
    [] OTHER             ->
         LET type == IF tx.type = "transfer" /\ tx.from = tx.to THEN "deposit" ELSE tx.type
         IN  <<tx.from, tx.to, [type |-> type, token |-> tx.token, amount |-> tx.amount]>>

\* The bytes of a block, and nothing else, tell its transactions: records of the
\* three schemes have the same length, no two transactions that differ in what they
\* publish have the same bits, and an order's amounts come back from their
\* compressed form as they were (encode_rawtx_to_pubdata, tx_encode.rs, compress_fr).
DecodesBack ==
  block # NoBlock =>
    /\ Len(block.public_data) * 8 = NTx * DataBits
    /\ \A n \in 1 .. NTx : Decoded(block.public_data, n - 1) = Published(block.txs[n])

\* Encoding stops the node only for what the transaction itself is: an order's
\* amount that has no compressed form, a trade that fills neither order, or an amount of
\* more than AmountBits; never because of where the transaction before it ended, and
\* never for a field of fixed range.  compress_fr divides by ten as often as it can: an
\* amount that is only made by a significand that ends in a zero has no compressed form.
EncodingStops ==
  CASE panic.why = "none"                -> TRUE
    [] panic.why = "too big to compress" ->
         \E o \in {panic.tx.order1, panic.tx.order2} : \E x \in {o.sell, o.buy} :
           \A sig \in 0 .. Pow(2, SigBits) - 1, e \in 0 .. Pow(2, ExpBits) - 1 :
             sig % 10 # 0 => sig * Pow(10, e) # x
    [] panic.why = "no order filled"     ->
         \A o \in {panic.tx.order1, panic.tx.order2} : o.filledBuy # o.buy /\ o.filledSell # o.sell
    [] panic.why = "can not encode number" ->
         panic.tx.type \in {"deposit", "transfer", "withdraw"} /\ ~Fits(panic.tx.amount, AmountBits)
    [] OTHER                             -> FALSE

\* The encoder of raw transactions writes what the encoder of typed ones does (tests
\* record a few hashes of each), as long as is_filled, which counts one side of an
\* order, agrees with the header of the raw transaction, which takes either ("one
\* side fill is enough", order.rs).
EncodersAgree ==
  \A n \in DOMAIN block.txs :
    LET tx     == block.txs[n]
        record == DataBits \div 8
    IN  (tx.type = "trade" => \A o \in {tx.order1, tx.order2} : Filled(o) = IsFilled(o))
          => SubSeq(block.public_data, (n - 1) * record + 1, n * record) = TypedEncoded(tx)

=============================================================================
