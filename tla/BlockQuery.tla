----------------------------- MODULE BlockQuery -----------------------------
(***************************************************************************)
(* What the gRPC server tells of a block's transactions (controller.rs).   *)
(* A handler of Ledger fills the payload of its raw transaction with the   *)
(* amounts and, of every balance it changes, either the old or the new     *)
(* value; l2_block_query computes the other one.                           *)
(***************************************************************************)
EXTENDS Ledger

VARIABLE payload  \* payload of the last raw transaction

queryVars == <<vars, payload>>

-----------------------------------------------------------------------------
(* ManagerWrapper: payloads.  A trade sells x of token s for y of token t.  *)

NoPayload == [type |-> "nop"]

OneAccount(type, a, t, x, old, new) ==
  [type |-> type, account1 |-> a, account2 |-> a, token1 |-> t, token2 |-> t,
   amount1 |-> x, amount2 |-> 0,
   balance1 |-> old, balance2 |-> new, balance3 |-> 0, balance4 |-> 0]

\* the nonce, the key and the order fields are left out
KeyUpdatePayload(a) ==
  OneAccount("deposit", a, FakeToken, 0, TokenBalance(a, FakeToken), TokenBalance(a, FakeToken))

DepositPayload(a, t, x) ==
  OneAccount("deposit", a, t, x, TokenBalance(a, t), TokenBalance(a, t) + x)

WithdrawPayload(a, t, x) ==
  OneAccount("withdraw", a, t, x, TokenBalance(a, t), TokenBalance(a, t) - x)

TransferPayload(a, b, t, x) ==
  [OneAccount("transfer", a, t, x, TokenBalance(a, t), TokenBalance(b, t) + x)
     EXCEPT !.account2 = b]

TradePayload(a, b, s, t, x, y) ==
  [type |-> "trade", account1 |-> a, account2 |-> b, token1 |-> s, token2 |-> t,
   amount1 |-> x, amount2 |-> y,
   balance1 |-> TokenBalance(a, s), balance2 |-> TokenBalance(b, s) + x,
   balance3 |-> TokenBalance(b, t), balance4 |-> TokenBalance(a, t) + y]

-----------------------------------------------------------------------------
(* l2_block_query: the balances a payload is decoded to. *)

Change(a, t, old, new) == [account |-> a, token |-> t, old |-> old, new |-> new]

\* the receiver's new balance is read from the sender's field
DecodedTransfer(p) ==
  {Change(p.account1, p.token1, p.balance1, p.balance1 - p.amount1),
   Change(p.account2, p.token1, p.balance1 - p.amount1, p.balance1)}

\* Mutant of DecodedTrade: balances of one token instead of one account.
DecodedTradeByToken(p) ==
  {Change(p.account1, p.token1, p.balance1, p.balance1 - p.amount1),
   Change(p.account1, p.token2, p.balance2 - p.amount2, p.balance2),
   Change(p.account2, p.token2, p.balance3, p.balance3 - p.amount2),
   Change(p.account2, p.token1, p.balance4 - p.amount1, p.balance4)}

DecodedTrade(p) ==
  {Change(p.account1, p.token1, p.balance1, p.balance1 - p.amount1),
   Change(p.account1, p.token2, p.balance4 - p.amount2, p.balance4),
   Change(p.account2, p.token2, p.balance3, p.balance3 - p.amount2),
   Change(p.account2, p.token1, p.balance2 - p.amount1, p.balance2)}

Decoded(p) ==
  CASE p.type \in {"deposit", "withdraw"} ->
         {Change(p.account1, p.token1, p.balance1, p.balance2)}
    [] p.type = "transfer" -> DecodedTransfer(p)
    [] p.type = "trade"    -> DecodedTrade(p)
    [] OTHER               -> {}

-----------------------------------------------------------------------------
\* the payload of a transaction that was made
Pays(p) == payload' = IF panic' = "none" THEN p ELSE payload

QueryInit == Init /\ payload = NoPayload

QueryNext ==
  \/ \E a \in Accounts : Register(a) /\ Pays(KeyUpdatePayload(a))
  \/ \E a \in Accounts, t \in Tokens, x \in Amounts :
       \/ Deposit(a, t, x) /\ Pays(DepositPayload(a, t, x))
       \/ Withdraw(a, t, x) /\ Pays(WithdrawPayload(a, t, x))
  \/ \E a, b \in Accounts, t \in Tokens, x \in Amounts :
       Transfer(a, b, t, x) /\ Pays(TransferPayload(a, b, t, x))
  \/ \E a, b \in Accounts, s, t \in Tokens, x, y \in Amounts :
       Trade(a, b, s, t, x, y) /\ Pays(TradePayload(a, b, s, t, x, y))
  \/ Nop /\ Pays(NoPayload)

QuerySpec == QueryInit /\ [][QueryNext]_queryVars

-----------------------------------------------------------------------------
(* Properties. *)

\* Every balance l2_block_query reports is the account's balance in the state the
\* transaction started from, respectively ended in, although a payload has only
\* half of them; but for the receiver of a transfer, whose balances the code computes
\* from the sender's field (BALANCE1, where the handler put the receiver's in BALANCE2),
\* and who is its sender when an account transfers to itself.
DecodedAgrees ==
  \A change \in Decoded(payload) :
    \/ /\ change.old = rawTx.before[change.account].balances[change.token]
       /\ change.new = rawTx.after[change.account].balances[change.token]
    \/ payload.type = "transfer" /\ change.account = payload.account2

=============================================================================
