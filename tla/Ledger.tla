------------------------------- MODULE Ledger -------------------------------
(***************************************************************************)
(* The transactions that change accounts and balances (msg_processor.rs,   *)
(* manager_wrapper.rs, global.rs) and the witness each leaves in its raw   *)
(* transaction for the prover.                                             *)
(*                                                                         *)
(* The state root commits to all accounts, so it is represented by them; a *)
(* Merkle path of a leaf is everything in the tree but that leaf.  A raw   *)
(* transaction carries the roots before and after it and, for every        *)
(* balance it touches, the old and the new leaf with one path.  The        *)
(* circuits (external) replay those moves one after the other.             *)
(*                                                                         *)
(* The matching engine (external) keeps balances of its own; its messages  *)
(* name the balances they start from, and the handlers compare.  Messages  *)
(* are handled in order, so producing and handling one is one step.  The   *)
(* order half of a trade is in OrderSlots.                                 *)
(*                                                                         *)
(* Nothing refuses a transfer of an account to itself.  The two jobs of    *)
(* its batch_update write the same leaf, each the balance before plus or   *)
(* minus the amount, and the thread pool decides which is written last.    *)
(***************************************************************************)
EXTENDS Integers, Sequences

CONSTANTS
  Accounts,   \* account ids
  Tokens,     \* token ids
  FakeToken,  \* token 0, whose balance a key update proves
  Amounts,    \* amounts of the engine's messages
  MaxTxs      \* bound: transactions

ASSUME LedgerAssumption ==
  /\ FakeToken \in Tokens
  /\ Amounts \subseteq Nat \ {0}
  /\ MaxTxs \in Nat

VARIABLES
  accounts,    \* account_states and balance_trees: what the root commits to
  engine,      \* the engine's balances
  registered,  \* the engine's users
  rawTx,       \* the last raw transaction
  numTxs,      \* transactions so far
  panic,       \* "none", or the check that stopped the node
  selfSent,    \* history: of each balance, the sum of its transfers to itself
  refused      \* history: the balances <<a, t>> of the message that stopped the node

history == <<selfSent, refused>>
vars == <<accounts, engine, registered, rawTx, numTxs, panic, history>>

-----------------------------------------------------------------------------
(* GlobalState. *)

EmptyAccount == [key |-> FALSE, nonce |-> 0, balances |-> [t \in Tokens |-> 0]]

HasAccount(a)         == accounts[a].key
TokenBalance(a, t)    == accounts[a].balances[t]

\* set_token_balance, increase_nonce, set_account_l2_addr of a state
SetTokenBalance(state, a, t, balance) ==
  [state EXCEPT ![a].balances = [@ EXCEPT ![t] = balance]]
IncreaseNonce(state, a) == [state EXCEPT ![a].nonce = @ + 1]
SetL2Addr(state, a)     == [state EXCEPT ![a].key = TRUE]

\* balance_full_proof: the paths of a balance leaf and of its account
BalancePath(state, a, t) == [u \in Tokens \ {t} |-> state[a].balances[u]]
AccountPath(state, a)    == [b \in Accounts \ {a} |-> state[b]]

\* old and new leaf of one balance, and the paths both are checked with
Leaf(key, nonce, balance) == [key |-> key, nonce |-> nonce, balance |-> balance]
Move(a, t, old, new, balancePath, accountPath) ==
  [account |-> a, token |-> t, old |-> old, new |-> new,
   balancePath |-> balancePath, accountPath |-> accountPath]

RawTx(moves, before, after) == [moves |-> moves, before |-> before, after |-> after]

-----------------------------------------------------------------------------
(* ManagerWrapper: the state after a transaction, and its moves. *)

\* key_update: the key is set, the balance is written as it was
KeyUpdateState(a) ==
  SetL2Addr(SetTokenBalance(accounts, a, FakeToken, TokenBalance(a, FakeToken)), a)
KeyUpdateMoves(a) ==
  LET acc == accounts[a]
  IN  <<Move(a, FakeToken, Leaf(acc.key, acc.nonce, acc.balances[FakeToken]),
                           Leaf(TRUE, acc.nonce, acc.balances[FakeToken]),
             BalancePath(accounts, a, FakeToken), AccountPath(accounts, a))>>

DepositState(a, t, x) == SetTokenBalance(accounts, a, t, TokenBalance(a, t) + x)
DepositMoves(a, t, x) ==
  LET acc == accounts[a]
  IN  <<Move(a, t, Leaf(acc.key, acc.nonce, acc.balances[t]),
                   Leaf(acc.key, acc.nonce, acc.balances[t] + x),
             BalancePath(accounts, a, t), AccountPath(accounts, a))>>

\* the balance is set, the nonce not yet increased
Withdrawn(a, t, x) ==
  SetTokenBalance(accounts, a, t, TokenBalance(a, t) - x)

WithdrawState(a, t, x) == IncreaseNonce(Withdrawn(a, t, x), a)
WithdrawMoves(a, t, x) ==
  LET acc == accounts[a]
  IN  <<Move(a, t, Leaf(acc.key, acc.nonce, acc.balances[t]),
                   Leaf(acc.key, acc.nonce + 1, acc.balances[t] - x),
             BalancePath(accounts, a, t), AccountPath(accounts, a))>>

\* Mutants of TransferState: the sender is charged twice; the sender's balance
\* update is lost.
TransferStateTwice(a, b, t, x, toLast) ==
  LET sent == IncreaseNonce(SetTokenBalance(accounts, a, t, TokenBalance(a, t) - 2 * x), a)
  IN  SetTokenBalance(sent, b, t, TokenBalance(b, t) + x)
TransferStateLost(a, b, t, x, toLast) ==
  SetTokenBalance(IncreaseNonce(accounts, a), b, t, TokenBalance(b, t) + x)

\* the batch_update: both new balances are computed before it, and the jobs that
\* write them run in parallel; the receiver's is the last to be written, or the sender's
TransferState(a, b, t, x, toLast) ==
  LET sent(state) == SetTokenBalance(state, a, t, TokenBalance(a, t) - x)
      got(state)  == SetTokenBalance(state, b, t, TokenBalance(b, t) + x)
  IN  IncreaseNonce(IF toLast THEN got(sent(accounts)) ELSE sent(got(accounts)), a)

\* Mutant of ProofTo: taken before the batch_update.
ProofToEarly(a, b, t, x, toLast) == accounts

\* the state proof_to is taken from
ProofTo(a, b, t, x, toLast) == TransferState(a, b, t, x, toLast)

\* the receiver's old leaf was read before the batch_update
TransferMoves(a, b, t, x, toLast) ==
  LET from  == accounts[a]
      to    == accounts[b]
      proof == ProofTo(a, b, t, x, toLast)
  IN  <<Move(a, t, Leaf(from.key, from.nonce, from.balances[t]),
                   Leaf(from.key, from.nonce + 1, from.balances[t] - x),
             BalancePath(accounts, a, t), AccountPath(accounts, a)),
        Move(b, t, Leaf(to.key, to.nonce, to.balances[t]),
                   Leaf(to.key, to.nonce, to.balances[t] + x),
             BalancePath(proof, b, t), AccountPath(proof, b))>>

\* Mutant of TradeState: the amounts of the buyers' sides are swapped.
TradeStateSwapped(a, b, s, t, x, y) ==
  LET sold == SetTokenBalance(accounts, a, s, TokenBalance(a, s) - x)
      one  == SetTokenBalance(sold, a, t, TokenBalance(a, t) + x)
      two  == SetTokenBalance(one, b, s, TokenBalance(b, s) + y)
  IN  SetTokenBalance(two, b, t, TokenBalance(b, t) - y)

\* full_spot_trade: account a sells x of token s to b for y of token t
TradeState(a, b, s, t, x, y) ==
  LET sold == SetTokenBalance(accounts, a, s, TokenBalance(a, s) - x)
      one  == SetTokenBalance(sold, a, t, TokenBalance(a, t) + y)
      two  == SetTokenBalance(one, b, s, TokenBalance(b, s) + x)
  IN  SetTokenBalance(two, b, t, TokenBalance(b, t) - y)

\* the sold balances are proved from the old state, the bought ones and the
\* second account from the new
TradeMoves(a, b, s, t, x, y) ==
  LET after == TradeState(a, b, s, t, x, y)
      leaf(acc, u, d) == Leaf(acc.key, acc.nonce, acc.balances[u] + d)
  IN  <<Move(a, s, leaf(accounts[a], s, 0), leaf(accounts[a], s, -x),
             BalancePath(accounts, a, s), AccountPath(accounts, a)),
        Move(a, t, leaf(accounts[a], t, 0), leaf(accounts[a], t, y),
             BalancePath(after, a, t), AccountPath(accounts, a)),
        Move(b, t, leaf(accounts[b], t, 0), leaf(accounts[b], t, -y),
             BalancePath(accounts, b, t), AccountPath(after, b)),
        Move(b, s, leaf(accounts[b], s, 0), leaf(accounts[b], s, x),
             BalancePath(after, b, s), AccountPath(after, b))>>

-----------------------------------------------------------------------------
(* Handlers: what the engine does, the checks, the transaction. *)

Running == panic = "none" /\ numTxs < MaxTxs

\* the checks of a handler either all hold and the transaction is made ...
Apply(state, moves) ==
  /\ accounts' = state
  /\ rawTx' = RawTx(moves, accounts, state)
  /\ numTxs' = numTxs + 1
  /\ UNCHANGED <<panic, refused>>

\* ... or the first that fails stops the node
Stop(check, balances) ==
  /\ panic' = check /\ refused' = balances
  /\ UNCHANGED <<accounts, rawTx, numTxs>>

\* balances: those the message is about
Handle(check, balances, state, moves) ==
  IF check = "none" THEN Apply(state, moves) ELSE Stop(check, balances)

EngineAdds(a, t, d) == engine' = [engine EXCEPT ![a][t] = @ + d]

Register(a) ==
  /\ Running /\ a \notin registered
  /\ registered' = registered \cup {a}
  /\ UNCHANGED <<engine, selfSent>>
  /\ Handle(IF HasAccount(a) THEN "account exists" ELSE "none",
            {<<a, FakeToken>>}, KeyUpdateState(a), KeyUpdateMoves(a))

\* balance and change of the message give the engine's balance before
BalanceCheck(a, t) ==
  IF TokenBalance(a, t) # engine[a][t] THEN "balance before"
  ELSE IF ~HasAccount(a)               THEN "account missing"
  ELSE                                      "none"

Deposit(a, t, x) ==
  /\ Running /\ a \in registered
  /\ EngineAdds(a, t, x)
  /\ UNCHANGED <<registered, selfSent>>
  /\ Handle(BalanceCheck(a, t), {<<a, t>>}, DepositState(a, t, x), DepositMoves(a, t, x))

\* Mutant of Withdraw: the new root is read before the nonce is increased.
WithdrawRootEarly(a, t, x) ==
  /\ Running /\ a \in registered /\ engine[a][t] >= x
  /\ BalanceCheck(a, t) = "none"
  /\ EngineAdds(a, t, -x)
  /\ accounts' = WithdrawState(a, t, x)
  /\ rawTx' = RawTx(WithdrawMoves(a, t, x), accounts, Withdrawn(a, t, x))
  /\ numTxs' = numTxs + 1
  /\ UNCHANGED <<registered, panic, history>>

Withdraw(a, t, x) ==
  /\ Running /\ a \in registered /\ engine[a][t] >= x
  /\ EngineAdds(a, t, -x)
  /\ UNCHANGED <<registered, selfSent>>
  /\ Handle(BalanceCheck(a, t), {<<a, t>>}, WithdrawState(a, t, x), WithdrawMoves(a, t, x))

\* the engine's balances after a transfer
Transferred(a, b, t, x) ==
  LET sent == [engine EXCEPT ![a][t] = @ - x] IN [sent EXCEPT ![b][t] = @ + x]

\* only the sender's account is asked for; batch_update asserts the receiver's trees,
\* which an account has from its key update on
TransferCheck(a, b, t, x) ==
  IF TokenBalance(a, t) < x THEN "sufficient balance"
  ELSE IF ~HasAccount(a)    THEN "account missing"
  ELSE IF ~HasAccount(b)    THEN "set_token_balance"
  ELSE                           "none"

Transfer(a, b, t, x) ==
  /\ Running /\ {a, b} \subseteq registered /\ engine[a][t] >= x
  /\ engine' = Transferred(a, b, t, x)
  /\ selfSent' = IF a = b /\ TransferCheck(a, b, t, x) = "none"
                 THEN [selfSent EXCEPT ![a][t] = @ + x] ELSE selfSent
  /\ UNCHANGED registered
  /\ \E toLast \in BOOLEAN :
       Handle(TransferCheck(a, b, t, x), {<<a, t>>, <<b, t>>},
              TransferState(a, b, t, x, toLast), TransferMoves(a, b, t, x, toLast))

\* the engine's balances after a trade
Traded(a, b, s, t, x, y) ==
  [engine EXCEPT ![a][s] = @ - x, ![a][t] = @ + y,
                 ![b][s] = @ + x, ![b][t] = @ - y]

\* check_state: the balances of both accounts are those the engine names
StateAgrees(state, balances, a, b, s, t) ==
  \A c \in {a, b}, u \in {s, t} : state[c].balances[u] = balances[c][u]

\* more than the amount: an account cannot spend its whole balance in a trade
Covered(a, t, x) == TokenBalance(a, t) > x

TradeCheck(a, b, s, t, x, y) ==
  IF ~StateAgrees(accounts, engine, a, b, s, t)   THEN "check_state"
  ELSE IF ~HasAccount(a) \/ ~HasAccount(b)        THEN "account missing"
  ELSE IF ~Covered(a, s, x)                       THEN "balance_1to2"
  ELSE IF ~Covered(b, t, y)                       THEN "balance_2to1"
  ELSE IF ~StateAgrees(TradeState(a, b, s, t, x, y), Traded(a, b, s, t, x, y),
                       a, b, s, t)                THEN "check_state"
  ELSE                                                 "none"

Trade(a, b, s, t, x, y) ==
  /\ Running /\ {a, b} \subseteq registered /\ a # b /\ s # t
  /\ engine[a][s] >= x /\ engine[b][t] >= y
  /\ engine' = Traded(a, b, s, t, x, y)
  /\ UNCHANGED <<registered, selfSent>>
  /\ Handle(TradeCheck(a, b, s, t, x, y), {a, b} \X {s, t}, TradeState(a, b, s, t, x, y),
            TradeMoves(a, b, s, t, x, y))

\* nop
Nop ==
  /\ Running /\ numTxs > 0
  /\ Handle("none", {}, accounts, <<>>)
  /\ UNCHANGED <<engine, registered, selfSent>>

-----------------------------------------------------------------------------
Empty == [a \in Accounts |-> EmptyAccount]

Init ==
  /\ accounts = Empty
  /\ engine = [a \in Accounts |-> [t \in Tokens |-> 0]]
  /\ selfSent = [a \in Accounts |-> [t \in Tokens |-> 0]] /\ refused = {}
  /\ registered = {}
  /\ rawTx = RawTx(<<>>, Empty, Empty)
  /\ numTxs = 0 /\ panic = "none"

Next ==
  \/ \E a \in Accounts : Register(a)
  \/ \E a \in Accounts, t \in Tokens, x \in Amounts : Deposit(a, t, x)
  \/ \E a \in Accounts, t \in Tokens, x \in Amounts : Withdraw(a, t, x)
  \/ \E a, b \in Accounts, t \in Tokens, x \in Amounts : Transfer(a, b, t, x)
  \/ \E a, b \in Accounts, s, t \in Tokens, x, y \in Amounts : Trade(a, b, s, t, x, y)
  \/ Nop

Spec == Init /\ [][Next]_vars

-----------------------------------------------------------------------------
(* Properties. *)

Account == [key : BOOLEAN, nonce : Nat, balances : [Tokens -> Nat]]
State   == [Accounts -> Account]
Panics  == {"account exists", "account missing", "balance before", "check_state",
            "sufficient balance", "set_token_balance", "balance_1to2", "balance_2to1"}

\* No balance, of the node or the engine, becomes negative; roots commit to
\* well-formed states; the engine's users are the accounts with a key.
TypeOK ==
  /\ accounts \in State
  /\ engine \in [Accounts -> [Tokens -> Nat]] /\ selfSent \in [Accounts -> [Tokens -> Nat]]
  /\ registered \subseteq Accounts
  /\ rawTx.before \in State /\ rawTx.after \in State
  /\ numTxs \in 0 .. MaxTxs
  /\ panic \in Panics \cup {"none"} /\ refused \subseteq Accounts \X Tokens
  /\ panic = "none" => \A a \in Accounts : HasAccount(a) <=> a \in registered

\* The node's balances are the engine's, although the two compute them in
\* different ways and only some messages compare them (handle_transfer_msg
\* compares nothing), but for what an account sent to itself: a balance is off by
\* no more than the sum of those amounts.
BalancesAgree ==
  panic = "none" =>
    \A a \in Accounts, t \in Tokens :
      accounts[a].balances[t] - engine[a][t] \in -selfSent[a][t] .. selfSent[a][t]

\* The engine's messages pass every check of the handlers, but two: a trade that
\* spends the whole balance of an account stops the node ("balance_1to2",
\* "balance_2to1"), and so may a message about a balance that was sent to itself.
ChecksPass ==
  \/ panic = "none"
  \/ \E a \in Accounts, t \in Tokens :
       /\ <<a, t>> \in refused
       /\ \/ /\ panic \in {"balance_1to2", "balance_2to1"}
             /\ engine[a][t] = 0 /\ accounts[a].balances[t] > 0
          \/ /\ panic \in {"balance before", "sufficient balance", "check_state"}
             /\ selfSent[a][t] > 0

\* The balance a deposit or withdrawal starts from is the one the node has
\* (assert_eq!(expected_balance_before, ..), handle_deposit_msg, handle_withdraw_msg).
BalanceBeforeHolds == panic # "balance before"

\* the leaf put back into a path
Rebuild(path, i, leaf) == [j \in DOMAIN path \cup {i} |-> IF j = i THEN leaf ELSE path[j]]

\* the root a circuit computes from the old or the new leaf of a move
RootOf(move, leaf) ==
  Rebuild(move.accountPath, move.account,
          [key |-> leaf.key, nonce |-> leaf.nonce,
           balances |-> Rebuild(move.balancePath, move.token, leaf.balance)])

\* the moves lead from one root to the other
Verifies(moves, before, after) ==
  LET n == Len(moves)
  IN  IF n = 0 THEN before = after
      ELSE /\ RootOf(moves[1], moves[1].old) = before
           /\ \A i \in 1 .. n - 1 :
                RootOf(moves[i], moves[i].new) = RootOf(moves[i + 1], moves[i + 1].old)
           /\ RootOf(moves[n], moves[n].new) = after

\* the moves of a transfer to oneself
ToOneself(moves) == Len(moves) = 2 /\ moves[1].account = moves[2].account

\* The moves of a raw transaction lead from the root before it to the root after
\* it, each with the one path that both its leaves are checked with: a path
\* taken at the wrong moment of the handler makes a block that cannot be proved.
\* Those of a transfer to oneself never do, because its second move starts from
\* the leaf as it was before the first (to_account, to_old_balance).
WitnessChecks ==
  Verifies(rawTx.moves, rawTx.before, rawTx.after) <=> ~ToOneself(rawTx.moves)

\* Every raw transaction starts from the root the one before it ended with, so
\* that the roots of a block and of its neighbours chain up.
RootsChain == [][rawTx' # rawTx => rawTx'.before = rawTx.after]_vars

=============================================================================
