---------------------------- MODULE LedgerProofs ----------------------------
(***************************************************************************)
(* Proofs about Ledger: whatever the accounts, tokens and amounts, the     *)
(* witness of every transaction but a transfer to oneself leads from its   *)
(* old root to its new one, the node's balances are the engine's but for   *)
(* what was sent to oneself, and roots chain up.  The last part is about   *)
(* BlockQuery, which reads the payloads back.                              *)
(***************************************************************************)
EXTENDS BlockQuery, TLAPS

-----------------------------------------------------------------------------
(* Paths: a leaf put back into its path gives the tree with that leaf.     *)

\* A balance put back into the path of a balance tree.
LEMMA RebuildBalances ==
  ASSUME NEW state \in State, NEW a \in Accounts, NEW t \in Tokens, NEW v
  PROVE  Rebuild(BalancePath(state, a, t), t, v)
           = [state[a].balances EXCEPT ![t] = v]
<1>1. PICK f \in [Tokens -> Nat] : state[a].balances = f  BY DEF State, Account
<1> QED BY <1>1 DEF Rebuild, BalancePath

\* An account put back into the path of the account tree.
LEMMA RebuildAccounts ==
  ASSUME NEW state \in State, NEW a \in Accounts, NEW v
  PROVE  Rebuild(AccountPath(state, a), a, v) = [state EXCEPT ![a] = v]
BY DEF Rebuild, AccountPath, State

\* the account of a leaf whose other balances are those of a state
AccountWith(state, a, t, leaf) ==
  [key |-> leaf.key, nonce |-> leaf.nonce,
   balances |-> [state[a].balances EXCEPT ![t] = leaf.balance]]

\* The root computed from a leaf, a balance path of one state and an account
\* path of another.
LEMMA RootOfMove ==
  ASSUME NEW s1 \in State, NEW s2 \in State, NEW a \in Accounts, NEW t \in Tokens,
         NEW old, NEW new, NEW leaf
  PROVE  RootOf(Move(a, t, old, new, BalancePath(s1, a, t), AccountPath(s2, a)), leaf)
           = [s2 EXCEPT ![a] = AccountWith(s1, a, t, leaf)]
BY RebuildBalances, RebuildAccounts DEF RootOf, Move, AccountWith

\* The leaf that is in the tree gives the tree.
LEMMA OwnLeaf ==
  ASSUME NEW state \in State, NEW a \in Accounts, NEW t \in Tokens
  PROVE  [state EXCEPT ![a] =
            AccountWith(state, a, t,
              Leaf(state[a].key, state[a].nonce, state[a].balances[t]))] = state
<1>1. AccountWith(state, a, t,
        Leaf(state[a].key, state[a].nonce, state[a].balances[t])) = state[a]
  BY DEF AccountWith, Leaf, State, Account
<1> QED BY <1>1 DEF State

\* A move with one path leads from a state to the state with its new leaf.
LEMMA OneMove ==
  ASSUME NEW state \in State, NEW a \in Accounts, NEW t \in Tokens, NEW new
  PROVE  Verifies(<<Move(a, t, Leaf(state[a].key, state[a].nonce, state[a].balances[t]),
                         new, BalancePath(state, a, t), AccountPath(state, a))>>,
                  state, [state EXCEPT ![a] = AccountWith(state, a, t, new)])
<1> DEFINE old == Leaf(state[a].key, state[a].nonce, state[a].balances[t])
           m == Move(a, t, old, new, BalancePath(state, a, t), AccountPath(state, a))
           after == [state EXCEPT ![a] = AccountWith(state, a, t, new)]
<1>1. RootOf(m, old) = state  BY RootOfMove, OwnLeaf
<1>2. RootOf(m, new) = after  BY RootOfMove
<1>3. m.old = old /\ m.new = new  BY DEF Move
<1>4. Verifies(<<m>>, state, after)
  <2> HIDE DEF m, old, after
  <2> QED BY <1>1, <1>2, <1>3 DEF Verifies
<1> QED BY <1>4

-----------------------------------------------------------------------------
(* Writing an account.                                                     *)

\* set_token_balance replaces one balance of one account.
LEMMA SetBalance ==
  ASSUME NEW state \in State, NEW a \in Accounts, NEW t \in Tokens, NEW v \in Nat
  PROVE  /\ SetTokenBalance(state, a, t, v) \in State
         /\ SetTokenBalance(state, a, t, v) =
              [state EXCEPT ![a] =
                 AccountWith(state, a, t, Leaf(state[a].key, state[a].nonce, v))]
<1>1. state[a] \in Account  BY DEF State
<1>2. [state[a] EXCEPT !.balances = [@ EXCEPT ![t] = v]] \in Account
  BY <1>1 DEF Account
<1>3. [state[a] EXCEPT !.balances = [@ EXCEPT ![t] = v]]
        = AccountWith(state, a, t, Leaf(state[a].key, state[a].nonce, v))
  BY <1>1 DEF Account, AccountWith, Leaf
<1>4. SetTokenBalance(state, a, t, v)
        = [state EXCEPT ![a] = [state[a] EXCEPT !.balances = [@ EXCEPT ![t] = v]]]
  BY DEF SetTokenBalance, State
<1> QED BY <1>2, <1>3, <1>4 DEF State

\* increase_nonce and set_account_l2_addr change one field of one account.
LEMMA SetNonce ==
  ASSUME NEW state \in State, NEW a \in Accounts
  PROVE  /\ IncreaseNonce(state, a) \in State
         /\ IncreaseNonce(state, a) =
              [state EXCEPT ![a] = [state[a] EXCEPT !.nonce = state[a].nonce + 1]]
<1>1. state[a] \in Account  BY DEF State
<1>2. [state[a] EXCEPT !.nonce = state[a].nonce + 1] \in Account  BY <1>1 DEF Account
<1>3. IncreaseNonce(state, a)
        = [state EXCEPT ![a] = [state[a] EXCEPT !.nonce = state[a].nonce + 1]]
  BY DEF IncreaseNonce, State
<1> QED BY <1>2, <1>3 DEF State

LEMMA WithKey ==
  ASSUME NEW acc \in Account, NEW k
  PROVE  [acc EXCEPT !.key = k]
           = [key |-> k, nonce |-> acc.nonce, balances |-> acc.balances]
BY DEF Account

LEMMA SetKey ==
  ASSUME NEW state \in State, NEW a \in Accounts
  PROVE  /\ SetL2Addr(state, a) \in State
         /\ SetL2Addr(state, a) = [state EXCEPT ![a] = [state[a] EXCEPT !.key = TRUE]]
<1>1. state[a] \in Account  BY DEF State
<1>2. [state[a] EXCEPT !.key = TRUE] \in Account  BY <1>1 DEF Account
<1>3. SetL2Addr(state, a) = [state EXCEPT ![a] = [state[a] EXCEPT !.key = TRUE]]
  BY DEF SetL2Addr, State
<1> QED BY <1>2, <1>3 DEF State

-----------------------------------------------------------------------------
(* The transactions: their states are well formed, their moves verify.     *)

\* key_update: the state it leads to and its witness.
LEMMA KeyUpdateWitness ==
  ASSUME TypeOK, NEW a \in Accounts
  PROVE  /\ KeyUpdateState(a) \in State
         /\ Verifies(KeyUpdateMoves(a), accounts, KeyUpdateState(a))
<1> DEFINE t == FakeToken
           acc == accounts[a]
           set == SetTokenBalance(accounts, a, t, TokenBalance(a, t))
           new == Leaf(TRUE, acc.nonce, acc.balances[t])
<1>1. /\ accounts \in State /\ t \in Tokens
      /\ acc \in Account /\ acc.balances[t] \in Nat
  BY LedgerAssumption DEF TypeOK, State, Account
<1>2. set \in State /\ set = accounts
  BY <1>1, SetBalance, OwnLeaf DEF TokenBalance
<1>3. [acc EXCEPT !.key = TRUE] = AccountWith(accounts, a, t, new)
  <2>1. [acc.balances EXCEPT ![t] = acc.balances[t]] = acc.balances
    BY <1>1 DEF Account
  <2>2. AccountWith(accounts, a, t, new)
          = [key |-> TRUE, nonce |-> acc.nonce, balances |-> acc.balances]
    BY <2>1 DEF AccountWith, Leaf
  <2>3. [acc EXCEPT !.key = TRUE]
          = [key |-> TRUE, nonce |-> acc.nonce, balances |-> acc.balances]
    <3> HIDE DEF acc
    <3> QED BY <1>1, WithKey
  <2> QED BY <2>2, <2>3
<1>4. KeyUpdateState(a) = SetL2Addr(accounts, a)  BY <1>2 DEF KeyUpdateState
<1>5. /\ KeyUpdateState(a) \in State
      /\ KeyUpdateState(a) = [accounts EXCEPT ![a] = AccountWith(accounts, a, t, new)]
  BY <1>1, <1>3, <1>4, SetKey
<1>6. Verifies(<<Move(a, t, Leaf(acc.key, acc.nonce, acc.balances[t]), new,
                      BalancePath(accounts, a, t), AccountPath(accounts, a))>>,
               accounts, [accounts EXCEPT ![a] = AccountWith(accounts, a, t, new)])
  BY <1>1, OneMove
<1> QED BY <1>5, <1>6 DEF KeyUpdateMoves

\* deposit: the same.
LEMMA DepositWitness ==
  ASSUME TypeOK, NEW a \in Accounts, NEW t \in Tokens, NEW x \in Nat
  PROVE  /\ DepositState(a, t, x) \in State
         /\ Verifies(DepositMoves(a, t, x), accounts, DepositState(a, t, x))
<1> DEFINE acc == accounts[a]
           new == Leaf(acc.key, acc.nonce, acc.balances[t] + x)
<1>1. accounts \in State /\ acc.balances[t] + x \in Nat
  BY DEF TypeOK, State, Account
<1>2. /\ DepositState(a, t, x) \in State
      /\ DepositState(a, t, x) = [accounts EXCEPT ![a] = AccountWith(accounts, a, t, new)]
  BY <1>1, SetBalance DEF DepositState, TokenBalance
<1>3. Verifies(<<Move(a, t, Leaf(acc.key, acc.nonce, acc.balances[t]), new,
                      BalancePath(accounts, a, t), AccountPath(accounts, a))>>,
               accounts, [accounts EXCEPT ![a] = AccountWith(accounts, a, t, new)])
  BY <1>1, OneMove
<1> QED BY <1>2, <1>3 DEF DepositMoves

\* set_token_balance followed by increase_nonce.
LEMMA SetBalanceAndNonce ==
  ASSUME NEW state \in State, NEW a \in Accounts, NEW t \in Tokens, NEW v \in Nat
  PROVE  LET s == IncreaseNonce(SetTokenBalance(state, a, t, v), a)
         IN  /\ s \in State
             /\ s = [state EXCEPT ![a] =
                       AccountWith(state, a, t,
                                   Leaf(state[a].key, state[a].nonce + 1, v))]
<1> DEFINE mid == SetTokenBalance(state, a, t, v)
           one == AccountWith(state, a, t, Leaf(state[a].key, state[a].nonce, v))
           two == AccountWith(state, a, t, Leaf(state[a].key, state[a].nonce + 1, v))
<1>1. mid \in State /\ mid = [state EXCEPT ![a] = one]  BY SetBalance
<1>2. [one EXCEPT !.nonce = one.nonce + 1] = two  BY DEF AccountWith, Leaf
<1>3. /\ IncreaseNonce(mid, a) \in State
      /\ IncreaseNonce(mid, a) = [mid EXCEPT ![a] = [mid[a] EXCEPT !.nonce = mid[a].nonce + 1]]
  <2> HIDE DEF mid
  <2> QED BY <1>1, SetNonce
<1>4. [mid EXCEPT ![a] = [mid[a] EXCEPT !.nonce = mid[a].nonce + 1]]
        = [state EXCEPT ![a] = two]
  <2> HIDE DEF mid, one, two
  <2>1. mid[a] = one  BY <1>1 DEF State
  <2>2. [mid EXCEPT ![a] = two] = [state EXCEPT ![a] = two]  BY <1>1 DEF State
  <2> QED BY <1>2, <2>1, <2>2
<1> QED BY <1>3, <1>4

\* withdraw: the same, of a balance that covers the amount.
LEMMA WithdrawWitness ==
  ASSUME TypeOK, NEW a \in Accounts, NEW t \in Tokens, NEW x \in Nat,
         accounts[a].balances[t] >= x
  PROVE  /\ WithdrawState(a, t, x) \in State
         /\ Verifies(WithdrawMoves(a, t, x), accounts, WithdrawState(a, t, x))
<1> DEFINE acc == accounts[a]
           new == Leaf(acc.key, acc.nonce + 1, acc.balances[t] - x)
<1>1. accounts \in State /\ acc.balances[t] - x \in Nat
  BY DEF TypeOK, State, Account
<1>2. /\ WithdrawState(a, t, x) \in State
      /\ WithdrawState(a, t, x) = [accounts EXCEPT ![a] = AccountWith(accounts, a, t, new)]
  BY <1>1, SetBalanceAndNonce DEF WithdrawState, Withdrawn, TokenBalance
<1>3. Verifies(<<Move(a, t, Leaf(acc.key, acc.nonce, acc.balances[t]), new,
                      BalancePath(accounts, a, t), AccountPath(accounts, a))>>,
               accounts, [accounts EXCEPT ![a] = AccountWith(accounts, a, t, new)])
  BY <1>1, OneMove
<1> QED BY <1>2, <1>3 DEF WithdrawMoves

\* Writes to two accounts commute.
LEMMA WritesCommute ==
  ASSUME NEW state \in State, NEW a \in Accounts, NEW b \in Accounts, a # b,
         NEW t \in Tokens, NEW v, NEW w
  PROVE  /\ SetTokenBalance(SetTokenBalance(state, a, t, v), b, t, w)
              = SetTokenBalance(SetTokenBalance(state, b, t, w), a, t, v)
         /\ IncreaseNonce(SetTokenBalance(state, b, t, w), a)
              = SetTokenBalance(IncreaseNonce(state, a), b, t, w)
<1> DEFINE paid(acc, z) == [acc EXCEPT !.balances = [@ EXCEPT ![t] = z]]
           spent(acc) == [acc EXCEPT !.nonce = @ + 1]
<1>1. \A st, c, z : SetTokenBalance(st, c, t, z) = [st EXCEPT ![c] = paid(st[c], z)]
  BY DEF SetTokenBalance
<1>2. \A st, c : IncreaseNonce(st, c) = [st EXCEPT ![c] = spent(st[c])]
  BY DEF IncreaseNonce
<1> HIDE DEF paid, spent
<1> DEFINE p == paid(state[a], v)
           q == paid(state[b], w)
           sa == [state EXCEPT ![a] = p]
           sb == [state EXCEPT ![b] = q]
<1>3. /\ SetTokenBalance(state, a, t, v) = sa /\ SetTokenBalance(state, b, t, w) = sb
      /\ sa[b] = state[b] /\ sb[a] = state[a]
  BY <1>1 DEF State
<1>4. [sa EXCEPT ![b] = q] = [sb EXCEPT ![a] = p]
  <2> HIDE DEF p, q
  <2> QED BY DEF State
<1>5. SetTokenBalance(sa, b, t, w) = [sa EXCEPT ![b] = q] /\ SetTokenBalance(sb, a, t, v) = [sb EXCEPT ![a] = p]
  <2> HIDE DEF sa, sb
  <2> QED BY <1>1, <1>3
<1>6. IncreaseNonce(sb, a) = SetTokenBalance(IncreaseNonce(state, a), b, t, w)
  <2> DEFINE n == spent(state[a])
             sn == [state EXCEPT ![a] = n]
  <2>1. IncreaseNonce(state, a) = sn /\ sn[b] = state[b]  BY <1>2 DEF State
  <2>2. [sb EXCEPT ![a] = n] = [sn EXCEPT ![b] = q]
    <3> HIDE DEF n, q
    <3> QED BY DEF State
  <2> HIDE DEF sb, sn
  <2>3. IncreaseNonce(sb, a) = [sb EXCEPT ![a] = n]  BY <1>2, <1>3
  <2>4. SetTokenBalance(sn, b, t, w) = [sn EXCEPT ![b] = q]  BY <1>1, <2>1
  <2> QED BY <2>1, <2>2, <2>3, <2>4
<1> HIDE DEF sa, sb
<1> QED BY <1>3, <1>4, <1>5, <1>6

\* Between two accounts the order of the two jobs of a transfer is not seen.
LEMMA EitherOrder ==
  ASSUME accounts \in State, NEW a \in Accounts, NEW b \in Accounts, a # b,
         NEW t \in Tokens, NEW x \in Nat, NEW toLast \in BOOLEAN,
         accounts[a].balances[t] - x \in Nat
  PROVE  TransferState(a, b, t, x, toLast) =
           SetTokenBalance(IncreaseNonce(SetTokenBalance(accounts, a, t,
                                                         TokenBalance(a, t) - x), a),
                           b, t, TokenBalance(b, t) + x)
<1> DEFINE v == TokenBalance(a, t) - x
           w == TokenBalance(b, t) + x
           sent == SetTokenBalance(accounts, a, t, v)
<1>1. sent \in State  BY SetBalance DEF TokenBalance
<1>2. TransferState(a, b, t, x, toLast)
        = IncreaseNonce(IF toLast THEN SetTokenBalance(sent, b, t, w)
                        ELSE SetTokenBalance(SetTokenBalance(accounts, b, t, w), a, t, v), a)
  BY DEF TransferState
<1> HIDE DEF v, w
<1>3. SetTokenBalance(sent, b, t, w) = SetTokenBalance(SetTokenBalance(accounts, b, t, w), a, t, v)
  BY WritesCommute
<1>4. IncreaseNonce(SetTokenBalance(sent, b, t, w), a) = SetTokenBalance(IncreaseNonce(sent, a), b, t, w)
  <2> HIDE DEF sent
  <2> QED BY <1>1, WritesCommute
<1>5. TransferState(a, b, t, x, toLast) = SetTokenBalance(IncreaseNonce(sent, a), b, t, w)
  <2> HIDE DEF sent
  <2> QED BY <1>2, <1>3, <1>4
<1> QED BY <1>5 DEF v, w

\* transfer: the second path is that of the new state, where both balances
\* are set; the state between the moves is the sender's.
LEMMA TransferWitness ==
  ASSUME TypeOK, NEW a \in Accounts, NEW b \in Accounts, a # b,
         NEW t \in Tokens, NEW x \in Nat, NEW toLast \in BOOLEAN,
         accounts[a].balances[t] >= x
  PROVE  /\ TransferState(a, b, t, x, toLast) \in State
         /\ Verifies(TransferMoves(a, b, t, x, toLast), accounts, TransferState(a, b, t, x, toLast))
<1> DEFINE from == accounts[a]
           to == accounts[b]
           oldFrom == Leaf(from.key, from.nonce, from.balances[t])
           newFrom == Leaf(from.key, from.nonce + 1, from.balances[t] - x)
           oldTo == Leaf(to.key, to.nonce, to.balances[t])
           newTo == Leaf(to.key, to.nonce, to.balances[t] + x)
           sent == IncreaseNonce(SetTokenBalance(accounts, a, t, from.balances[t] - x), a)
           done == TransferState(a, b, t, x, toLast)
           m1 == Move(a, t, oldFrom, newFrom,
                      BalancePath(accounts, a, t), AccountPath(accounts, a))
           m2 == Move(b, t, oldTo, newTo, BalancePath(done, b, t), AccountPath(done, b))
<1>1. /\ accounts \in State /\ to \in Account
      /\ from.balances[t] - x \in Nat /\ to.balances[t] + x \in Nat
  BY DEF TypeOK, State, Account
<1>2. /\ sent \in State
      /\ sent = [accounts EXCEPT ![a] = AccountWith(accounts, a, t, newFrom)]
  <2>1. ASSUME NEW v \in Nat, v = from.balances[t] - x
        PROVE  /\ IncreaseNonce(SetTokenBalance(accounts, a, t, v), a) \in State
               /\ IncreaseNonce(SetTokenBalance(accounts, a, t, v), a)
                    = [accounts EXCEPT ![a] =
                         AccountWith(accounts, a, t, Leaf(from.key, from.nonce + 1, v))]
    BY <1>1, SetBalanceAndNonce
  <2> QED BY <1>1, <2>1
<1>3. sent[b] = to  BY <1>1, <1>2 DEF State
<1>4. /\ done \in State
      /\ done = [sent EXCEPT ![b] = AccountWith(sent, b, t, newTo)]
  <2>1. done = SetTokenBalance(sent, b, t, to.balances[t] + x)
    BY <1>1, EitherOrder DEF TokenBalance
  <2> DEFINE v == to.balances[t] + x
  <2>2. v \in Nat  BY <1>1
  <2>3. \A st \in State : st[b] = to =>
          /\ SetTokenBalance(st, b, t, v) \in State
          /\ SetTokenBalance(st, b, t, v) =
               [st EXCEPT ![b] = AccountWith(st, b, t, Leaf(to.key, to.nonce, v))]
    <3> HIDE DEF to, v
    <3> TAKE st \in State
    <3> HAVE st[b] = to
    <3> QED BY <2>2, SetBalance
  <2> HIDE DEF sent, done
  <2>4. /\ SetTokenBalance(sent, b, t, v) \in State
        /\ SetTokenBalance(sent, b, t, v) = [sent EXCEPT ![b] = AccountWith(sent, b, t, newTo)]
    BY <1>2, <1>3, <2>3
  <2> QED BY <2>1, <2>4
<1>5. AccountWith(done, b, t, newTo) = AccountWith(sent, b, t, newTo)
      /\ AccountWith(done, b, t, oldTo) = to
  <2>1. done[b] = AccountWith(sent, b, t, newTo)
    <3> HIDE DEF done, sent, newTo
    <3> QED BY <1>2, <1>4 DEF State
  <2>2. done[b].balances = [to.balances EXCEPT ![t] = to.balances[t] + x]
    BY <1>3, <2>1 DEF AccountWith, Leaf
  <2> HIDE DEF done, sent
  <2>3. [done[b].balances EXCEPT ![t] = to.balances[t] + x]
          = [to.balances EXCEPT ![t] = to.balances[t] + x]
        /\ [done[b].balances EXCEPT ![t] = to.balances[t]] = to.balances
    <3> HIDE DEF to
    <3> QED BY <1>1, <2>2 DEF Account
  <2> QED BY <1>1, <1>3, <2>3 DEF AccountWith, Leaf, Account
<1>6. RootOf(m1, oldFrom) = accounts  BY <1>1, RootOfMove, OwnLeaf
<1>7. RootOf(m1, newFrom) = sent  BY <1>1, <1>2, RootOfMove
<1>8. RootOf(m2, oldTo) = sent
  <2>1. RootOf(m2, oldTo) = [done EXCEPT ![b] = to]  BY <1>4, <1>5, RootOfMove
  <2> HIDE DEF done, sent, m2, oldTo, newTo
  <2> QED BY <1>1, <1>2, <1>3, <1>4, <2>1 DEF State
<1>9. RootOf(m2, newTo) = done
  <2>1. RootOf(m2, newTo) = [done EXCEPT ![b] = AccountWith(sent, b, t, newTo)]
    BY <1>4, <1>5, RootOfMove
  <2> HIDE DEF done, sent, m2, newTo
  <2> QED BY <1>2, <1>4, <2>1 DEF State
<1>10. Verifies(<<m1, m2>>, accounts, done)
  <2>1. m1.old = oldFrom /\ m1.new = newFrom /\ m2.old = oldTo /\ m2.new = newTo
    BY DEF Move
  <2> HIDE DEF m1, m2, oldFrom, newFrom, oldTo, newTo, sent, done
  <2> QED BY <1>6, <1>7, <1>8, <1>9, <2>1 DEF Verifies
<1>11. TransferMoves(a, b, t, x, toLast) = <<m1, m2>>  BY DEF TransferMoves, ProofTo
<1> QED BY <1>4, <1>10, <1>11

\* the balance a transfer to oneself ends with
SelfBalance(a, t, x, toLast) ==
  IF toLast THEN TokenBalance(a, t) + x ELSE TokenBalance(a, t) - x

\* A transfer to oneself writes the one balance twice.
LEMMA SelfTransferState ==
  ASSUME TypeOK, NEW a \in Accounts, NEW t \in Tokens, NEW x \in Nat,
         NEW toLast \in BOOLEAN, accounts[a].balances[t] >= x
  PROVE  LET state == TransferState(a, a, t, x, toLast)
             v     == SelfBalance(a, t, x, toLast)
         IN  /\ state = IncreaseNonce(SetTokenBalance(accounts, a, t, v), a)
             /\ state \in State
             /\ state[a].nonce = accounts[a].nonce + 1
             /\ v \in Nat
<1> DEFINE v == SelfBalance(a, t, x, toLast)
           state == TransferState(a, a, t, x, toLast)
<1>1. accounts \in State /\ v \in Nat
  BY DEF TypeOK, State, Account, SelfBalance, TokenBalance
<1>2. \A y, z : SetTokenBalance(SetTokenBalance(accounts, a, t, y), a, t, z)
                 = SetTokenBalance(accounts, a, t, z)
  <2> TAKE y, z
  <2> DEFINE paid(acc, u) == [acc EXCEPT !.balances = [@ EXCEPT ![t] = u]]
             record(g) == [key |-> accounts[a].key, nonce |-> accounts[a].nonce, balances |-> g]
  <2>1. PICK f \in [Tokens -> Nat] : accounts[a] = record(f)  BY <1>1 DEF State, Account
  <2>2. \A g, u : paid(record(g), u) = record([g EXCEPT ![t] = u])  OBVIOUS
  <2>3. [[f EXCEPT ![t] = y] EXCEPT ![t] = z] = [f EXCEPT ![t] = z]  OBVIOUS
  <2>4. \A st, u : SetTokenBalance(st, a, t, u) = [st EXCEPT ![a] = paid(st[a], u)]
    BY DEF SetTokenBalance
  <2> HIDE DEF paid, record
  <2>5. paid(paid(accounts[a], y), z) = paid(accounts[a], z)
    <3>1. paid(accounts[a], y) = record([f EXCEPT ![t] = y])  BY <2>1, <2>2
    <3>2. paid(accounts[a], z) = record([f EXCEPT ![t] = z])  BY <2>1, <2>2
    <3>3. paid(record([f EXCEPT ![t] = y]), z) = record([[f EXCEPT ![t] = y] EXCEPT ![t] = z])
      BY <2>2
    <3> QED BY <2>3, <3>1, <3>2, <3>3
  <2> QED BY <1>1, <2>4, <2>5 DEF State
<1>3. state = IncreaseNonce(SetTokenBalance(accounts, a, t, v), a)
  BY <1>2 DEF TransferState, SelfBalance
<1>4. /\ state \in State
      /\ state = [accounts EXCEPT ![a] =
                    AccountWith(accounts, a, t,
                                Leaf(accounts[a].key, accounts[a].nonce + 1, v))]
  <2> HIDE DEF v, state
  <2> QED BY <1>1, <1>3, SetBalanceAndNonce
<1>5. state[a].nonce = accounts[a].nonce + 1
  BY <1>1, <1>4 DEF State, AccountWith, Leaf
<1> QED BY <1>1, <1>3, <1>4, <1>5

\* Its second move starts from the old nonce, its first ends with the new one.
LEMMA SelfTransferWitness ==
  ASSUME TypeOK, NEW a \in Accounts, NEW t \in Tokens, NEW x \in Nat,
         NEW toLast \in BOOLEAN, accounts[a].balances[t] >= x
  PROVE  /\ ToOneself(TransferMoves(a, a, t, x, toLast))
         /\ \A before, after : ~Verifies(TransferMoves(a, a, t, x, toLast), before, after)
<1> DEFINE acc == accounts[a]
           old == Leaf(acc.key, acc.nonce, acc.balances[t])
           newFrom == Leaf(acc.key, acc.nonce + 1, acc.balances[t] - x)
           newTo == Leaf(acc.key, acc.nonce, acc.balances[t] + x)
           done == TransferState(a, a, t, x, toLast)
           m1 == Move(a, t, old, newFrom,
                      BalancePath(accounts, a, t), AccountPath(accounts, a))
           m2 == Move(a, t, old, newTo, BalancePath(done, a, t), AccountPath(done, a))
<1>1. accounts \in State /\ done \in State /\ acc.nonce \in Nat
  BY SelfTransferState DEF TypeOK, State, Account
<1>2. RootOf(m1, newFrom)[a].nonce = acc.nonce + 1
  <2>1. RootOf(m1, newFrom) = [accounts EXCEPT ![a] = AccountWith(accounts, a, t, newFrom)]
    BY <1>1, RootOfMove
  <2>2. AccountWith(accounts, a, t, newFrom).nonce = acc.nonce + 1  BY DEF AccountWith, Leaf
  <2> HIDE DEF acc, newFrom, m1
  <2> QED BY <1>1, <2>1, <2>2 DEF State
<1>3. RootOf(m2, old)[a].nonce = acc.nonce
  <2>1. RootOf(m2, old) = [done EXCEPT ![a] = AccountWith(done, a, t, old)]
    <3> HIDE DEF done
    <3> QED BY <1>1, RootOfMove
  <2>2. AccountWith(done, a, t, old).nonce = acc.nonce  BY DEF AccountWith, Leaf
  <2> HIDE DEF done, acc, old, m2
  <2> QED BY <1>1, <2>1, <2>2 DEF State
<1>4. /\ m1.new = newFrom /\ m2.old = old /\ m1.account = a /\ m2.account = a
  BY DEF Move
<1>5. TransferMoves(a, a, t, x, toLast) = <<m1, m2>>  BY DEF TransferMoves, ProofTo
<1> HIDE DEF m1, m2, acc, old, newFrom
<1>6. RootOf(m1, m1.new) # RootOf(m2, m2.old)  BY <1>1, <1>2, <1>3, <1>4
<1>7. \A before, after : ~Verifies(<<m1, m2>>, before, after)
  BY <1>6 DEF Verifies
<1>8. ToOneself(<<m1, m2>>)  BY <1>4 DEF ToOneself
<1> QED BY <1>5, <1>7, <1>8

\* an account with one balance leaf replaced
WithLeaf(acc, t, leaf) ==
  [key |-> leaf.key, nonce |-> leaf.nonce,
   balances |-> [acc.balances EXCEPT ![t] = leaf.balance]]

\* an account with one balance replaced
WithBalance(acc, t, v) == WithLeaf(acc, t, Leaf(acc.key, acc.nonce, v))

\* Two balances of one account are set, and either is put back.
LEMMA TwoBalances ==
  ASSUME NEW acc \in Account, NEW s \in Tokens, NEW t \in Tokens, s # t,
         NEW v \in Nat, NEW w \in Nat
  PROVE  /\ WithBalance(acc, s, v).key = acc.key
         /\ WithBalance(acc, s, v).nonce = acc.nonce
         /\ WithBalance(WithBalance(acc, s, v), t, w).key = acc.key
         /\ WithBalance(WithBalance(acc, s, v), t, w).nonce = acc.nonce
         /\ WithBalance(acc, s, acc.balances[s]) = acc
         /\ WithBalance(acc, t, acc.balances[t]) = acc
         /\ WithBalance(WithBalance(WithBalance(acc, s, v), t, w), t, acc.balances[t])
              = WithBalance(acc, s, v)
         /\ WithBalance(WithBalance(WithBalance(acc, s, v), t, w), t, w)
              = WithBalance(WithBalance(acc, s, v), t, w)
         /\ WithBalance(WithBalance(WithBalance(acc, s, v), t, w), s, acc.balances[s])
              = WithBalance(acc, t, w)
         /\ WithBalance(WithBalance(WithBalance(acc, s, v), t, w), s, v)
              = WithBalance(WithBalance(acc, s, v), t, w)
<1> DEFINE one == WithBalance(acc, s, v)
           two == WithBalance(one, t, w)
           record(g) == [key |-> acc.key, nonce |-> acc.nonce, balances |-> g]
<1> PICK f \in [Tokens -> Nat] : f = acc.balances  BY DEF Account
<1>1. acc = record(f)  BY DEF Account
<1>2. /\ one = record([f EXCEPT ![s] = v])
      /\ two = record([f EXCEPT ![s] = v, ![t] = w])
  BY DEF WithBalance, WithLeaf, Leaf
<1>3. /\ one.key = acc.key /\ one.nonce = acc.nonce
      /\ two.key = acc.key /\ two.nonce = acc.nonce
  BY <1>2
<1>4. \A g, u, z : WithBalance(record(g), u, z) = record([g EXCEPT ![u] = z])
  BY DEF WithBalance, WithLeaf, Leaf
<1>5. [f EXCEPT ![t] = f[t]] = f /\ [f EXCEPT ![s] = f[s]] = f  OBVIOUS
<1>6. [[f EXCEPT ![s] = v, ![t] = w] EXCEPT ![t] = f[t]] = [f EXCEPT ![s] = v]  OBVIOUS
<1>7. [[f EXCEPT ![s] = v, ![t] = w] EXCEPT ![t] = w] = [f EXCEPT ![s] = v, ![t] = w]  OBVIOUS
<1>8. [[f EXCEPT ![s] = v, ![t] = w] EXCEPT ![s] = f[s]] = [f EXCEPT ![t] = w]  OBVIOUS
<1>9. [[f EXCEPT ![s] = v, ![t] = w] EXCEPT ![s] = v] = [f EXCEPT ![s] = v, ![t] = w]  OBVIOUS
<1>10. /\ WithBalance(acc, s, f[s]) = acc
       /\ WithBalance(acc, t, f[t]) = acc
       /\ WithBalance(two, t, f[t]) = one
       /\ WithBalance(two, t, w) = two
       /\ WithBalance(two, s, f[s]) = WithBalance(acc, t, w)
       /\ WithBalance(two, s, v) = two
  <2> HIDE DEF one, two, record
  <2>1. WithBalance(acc, s, f[s]) = acc /\ WithBalance(acc, t, f[t]) = acc
    BY <1>1, <1>4, <1>5
  <2>2. WithBalance(two, t, f[t]) = one  BY <1>2, <1>4, <1>6
  <2>3. WithBalance(two, t, w) = two  BY <1>2, <1>4, <1>7
  <2>4. WithBalance(two, s, f[s]) = WithBalance(acc, t, w)
    <3>1. WithBalance(two, s, f[s]) = record([f EXCEPT ![t] = w])
      BY <1>2, <1>4, <1>8
    <3>2. WithBalance(acc, t, w) = record([f EXCEPT ![t] = w])
      BY <1>1, <1>4
    <3> QED BY <3>1, <3>2
  <2>5. WithBalance(two, s, v) = two  BY <1>2, <1>4, <1>9
  <2> QED BY <2>1, <2>2, <2>3, <2>4, <2>5
<1> QED BY <1>3, <1>10

\* set_token_balance, account by account.
LEMMA SetBalanceAt ==
  ASSUME NEW state \in State, NEW a \in Accounts, NEW t \in Tokens, NEW v \in Nat
  PROVE  LET after == SetTokenBalance(state, a, t, v)
         IN  /\ after \in State
             /\ after[a] = WithBalance(state[a], t, v)
             /\ \A c \in Accounts \ {a} : after[c] = state[c]
BY SetBalance DEF AccountWith, WithBalance, WithLeaf, State

\* the four writes of a trade: two balances of a, then two of b
FourWrites(state, a, b, s, t, v, w, x, y) ==
  LET sold == SetTokenBalance(state, a, s, v)
      one  == SetTokenBalance(sold, a, t, w)
      two  == SetTokenBalance(one, b, s, x)
  IN  SetTokenBalance(two, b, t, y)

\* Each account changes in its two balances.
LEMMA TradeStates ==
  ASSUME NEW state \in State, NEW a \in Accounts, NEW b \in Accounts, a # b,
         NEW s \in Tokens, NEW t \in Tokens,
         NEW v \in Nat, NEW w \in Nat, NEW x \in Nat, NEW y \in Nat
  PROVE  /\ FourWrites(state, a, b, s, t, v, w, x, y) \in State
         /\ FourWrites(state, a, b, s, t, v, w, x, y)[a]
              = WithBalance(WithBalance(state[a], s, v), t, w)
         /\ FourWrites(state, a, b, s, t, v, w, x, y)[b]
              = WithBalance(WithBalance(state[b], s, x), t, y)
<1> DEFINE sold  == SetTokenBalance(state, a, s, v)
           one   == SetTokenBalance(sold, a, t, w)
           two   == SetTokenBalance(one, b, s, x)
           after == SetTokenBalance(two, b, t, y)
<1>1. \A st \in State, c \in Accounts, u \in Tokens, z \in Nat :
        /\ SetTokenBalance(st, c, u, z) \in State
        /\ SetTokenBalance(st, c, u, z)[c] = WithBalance(st[c], u, z)
        /\ \A d \in Accounts \ {c} : SetTokenBalance(st, c, u, z)[d] = st[d]
  BY SetBalanceAt
<1>2. /\ sold \in State /\ sold[a] = WithBalance(state[a], s, v)
      /\ \A d \in Accounts \ {a} : sold[d] = state[d]
  BY <1>1
<1> HIDE DEF sold
<1>3. /\ one \in State /\ one[a] = WithBalance(sold[a], t, w)
      /\ \A d \in Accounts \ {a} : one[d] = sold[d]
  BY <1>1, <1>2
<1> HIDE DEF one
<1>4. /\ two \in State /\ two[b] = WithBalance(one[b], s, x)
      /\ \A d \in Accounts \ {b} : two[d] = one[d]
  BY <1>1, <1>3
<1> HIDE DEF two
<1>5. /\ after \in State /\ after[b] = WithBalance(two[b], t, y)
      /\ \A d \in Accounts \ {b} : after[d] = two[d]
  BY <1>1, <1>4
<1> HIDE DEF after
<1>6. /\ after \in State
      /\ after[a] = WithBalance(WithBalance(state[a], s, v), t, w)
      /\ after[b] = WithBalance(WithBalance(state[b], s, x), t, y)
  BY <1>2, <1>3, <1>4, <1>5
<1>7. FourWrites(state, a, b, s, t, v, w, x, y) = after
  BY DEF FourWrites, after, two, one, sold
<1> QED BY <1>6, <1>7

\* No other account changes.
LEMMA TradeOthers ==
  ASSUME NEW state \in State, NEW a \in Accounts, NEW b \in Accounts,
         NEW s, NEW t, NEW v, NEW w, NEW x, NEW y,
         NEW c \in Accounts, c # a, c # b
  PROVE  FourWrites(state, a, b, s, t, v, w, x, y)[c] = state[c]
BY DEF FourWrites, SetTokenBalance, State

\* The root computed from a leaf with the key and the nonce of the account
\* whose balance path is taken.
LEMMA RootOfLeaf ==
  ASSUME NEW s1 \in State, NEW s2 \in State, NEW a \in Accounts, NEW t \in Tokens,
         NEW old, NEW new, NEW v
  PROVE  RootOf(Move(a, t, old, new, BalancePath(s1, a, t), AccountPath(s2, a)),
                Leaf(s1[a].key, s1[a].nonce, v))
           = [s2 EXCEPT ![a] = WithBalance(s1[a], t, v)]
<1> DEFINE leaf == Leaf(s1[a].key, s1[a].nonce, v)
<1>1. AccountWith(s1, a, t, leaf) = WithBalance(s1[a], t, v)
  BY DEF AccountWith, WithBalance, WithLeaf
<1>2. RootOf(Move(a, t, old, new, BalancePath(s1, a, t), AccountPath(s2, a)), leaf)
        = [s2 EXCEPT ![a] = AccountWith(s1, a, t, leaf)]
  <2> HIDE DEF leaf
  <2> QED BY RootOfMove
<1> QED BY <1>1, <1>2

\* Four moves that chain up.
LEMMA FourMoves ==
  ASSUME NEW before, NEW after, NEW m1, NEW m2, NEW m3, NEW m4,
         RootOf(m1, m1.old) = before,
         RootOf(m1, m1.new) = RootOf(m2, m2.old),
         RootOf(m2, m2.new) = RootOf(m3, m3.old),
         RootOf(m3, m3.new) = RootOf(m4, m4.old),
         RootOf(m4, m4.new) = after
  PROVE  Verifies(<<m1, m2, m3, m4>>, before, after)
<1> DEFINE ms == <<m1, m2, m3, m4>>
<1>1. /\ Len(ms) = 4 /\ ms[1] = m1 /\ ms[2] = m2 /\ ms[3] = m3 /\ ms[4] = m4
  OBVIOUS
<1> HIDE DEF ms
<1>2. \A i \in 1 .. Len(ms) - 1 : i = 1 \/ i = 2 \/ i = 3  BY <1>1
<1>3. Verifies(ms, before, after)  BY <1>1, <1>2 DEF Verifies
<1> QED BY <1>3 DEF ms

\* full_spot_trade: the moves of the first account, then those of the second.
LEMMA TradeWitness ==
  ASSUME TypeOK, NEW a \in Accounts, NEW b \in Accounts, a # b,
         NEW s \in Tokens, NEW t \in Tokens, s # t,
         NEW x \in Nat, NEW y \in Nat,
         accounts[a].balances[s] >= x, accounts[b].balances[t] >= y
  PROVE  /\ TradeState(a, b, s, t, x, y) \in State
         /\ Verifies(TradeMoves(a, b, s, t, x, y), accounts, TradeState(a, b, s, t, x, y))
<1> DEFINE A == accounts[a]
           B == accounts[b]
           after == TradeState(a, b, s, t, x, y)
           As == A.balances[s]
           At == A.balances[t]
           Bs == B.balances[s]
           Bt == B.balances[t]
           nAs == As - x
           nAt == At + y
           nBs == Bs + x
           nBt == Bt - y
           oneA == WithBalance(A, s, nAs)
           oneB == WithBalance(B, t, nBt)
           leafA(z) == Leaf(A.key, A.nonce, z)
           leafB(z) == Leaf(B.key, B.nonce, z)
           m1 == Move(a, s, leafA(As + 0), leafA(As + (-x)),
                      BalancePath(accounts, a, s), AccountPath(accounts, a))
           m2 == Move(a, t, leafA(At + 0), leafA(At + y),
                      BalancePath(after, a, t), AccountPath(accounts, a))
           m3 == Move(b, t, leafB(Bt + 0), leafB(Bt + (-y)),
                      BalancePath(accounts, b, t), AccountPath(after, b))
           m4 == Move(b, s, leafB(Bs + 0), leafB(Bs + x),
                      BalancePath(after, b, s), AccountPath(after, b))
<1>1. /\ accounts \in State /\ A \in Account /\ B \in Account
      /\ As \in Nat /\ At \in Nat /\ Bs \in Nat /\ Bt \in Nat
      /\ nAs \in Nat /\ nAt \in Nat /\ nBs \in Nat /\ nBt \in Nat
  BY DEF TypeOK, State, Account
<1>2. /\ As + 0 = As /\ At + 0 = At /\ Bs + 0 = Bs /\ Bt + 0 = Bt
      /\ As + (-x) = nAs /\ At + y = nAt
      /\ Bs + x = nBs /\ Bt + (-y) = nBt
  BY <1>1
<1>3. /\ after \in State
      /\ after[a] = WithBalance(oneA, t, nAt)
      /\ after[b] = WithBalance(WithBalance(B, s, nBs), t, nBt)
      /\ \A c \in Accounts : c # a /\ c # b => after[c] = accounts[c]
  <2>1. after = FourWrites(accounts, a, b, s, t, nAs, nAt, nBs, nBt)
    BY DEF TradeState, TokenBalance, FourWrites
  <2> HIDE DEF after, nAs, nAt, nBs, nBt
  <2>2. accounts \in State /\ nAs \in Nat /\ nAt \in Nat /\ nBs \in Nat /\ nBt \in Nat
    BY <1>1
  <2> DEFINE writes == FourWrites(accounts, a, b, s, t, nAs, nAt, nBs, nBt)
  <2>3. /\ writes \in State
        /\ writes[a] = WithBalance(WithBalance(accounts[a], s, nAs), t, nAt)
        /\ writes[b] = WithBalance(WithBalance(accounts[b], s, nBs), t, nBt)
        /\ \A c \in Accounts : c # a /\ c # b => writes[c] = accounts[c]
    <3> HIDE DEF A, B
    <3>1. writes \in State  BY <2>2, TradeStates
    <3>2. writes[a] = WithBalance(WithBalance(accounts[a], s, nAs), t, nAt)
      BY <2>2, TradeStates
    <3>3. writes[b] = WithBalance(WithBalance(accounts[b], s, nBs), t, nBt)
      BY <2>2, TradeStates
    <3>4. ASSUME NEW c \in Accounts, c # a, c # b
          PROVE  writes[c] = accounts[c]
      BY <2>2, <3>4, TradeOthers
    <3> HIDE DEF writes
    <3> QED BY <3>1, <3>2, <3>3, <3>4
  <2> HIDE DEF writes
  <2> QED BY <2>1, <2>3 DEF writes
\* the first account, and the second
<1>4. /\ after[a].key = A.key /\ after[a].nonce = A.nonce
      /\ WithBalance(A, s, As) = A
      /\ WithBalance(after[a], t, At) = oneA
      /\ WithBalance(after[a], t, nAt) = after[a]
  <2> HIDE DEF A, nAs, nAt, after
  <2> QED BY <1>1, <1>3, TwoBalances
<1>5. /\ after[b].key = B.key /\ after[b].nonce = B.nonce
      /\ WithBalance(B, t, Bt) = B
      /\ WithBalance(after[b], s, Bs) = oneB
      /\ WithBalance(after[b], s, nBs) = after[b]
  <2> HIDE DEF B, nBs, nBt, after
  <2> QED BY <1>1, <1>3, TwoBalances
\* the roots of the moves
<1>6. /\ m1.old = leafA(As) /\ m1.new = leafA(nAs)
      /\ m2.old = leafA(At) /\ m2.new = leafA(nAt)
      /\ m3.old = leafB(Bt) /\ m3.new = leafB(nBt)
      /\ m4.old = leafB(Bs) /\ m4.new = leafB(nBs)
  BY <1>2 DEF Move
<1>7. \A z : /\ RootOf(m1, leafA(z)) = [accounts EXCEPT ![a] = WithBalance(A, s, z)]
             /\ RootOf(m3, leafB(z)) = [after EXCEPT ![b] = WithBalance(B, t, z)]
  <2>1. accounts \in State /\ after \in State  BY <1>1, <1>3
  <2> HIDE DEF after
  <2> TAKE z
  <2>2. RootOf(m1, leafA(z)) = [accounts EXCEPT ![a] = WithBalance(A, s, z)]
    BY <2>1, RootOfLeaf
  <2>3. RootOf(m3, leafB(z)) = [after EXCEPT ![b] = WithBalance(B, t, z)]
    BY <2>1, RootOfLeaf
  <2> QED BY <2>2, <2>3
<1>8. \A z : /\ RootOf(m2, leafA(z)) = [accounts EXCEPT ![a] = WithBalance(after[a], t, z)]
             /\ RootOf(m4, leafB(z)) = [after EXCEPT ![b] = WithBalance(after[b], s, z)]
  <2> TAKE z
  <2>1. /\ leafA(z) = Leaf(after[a].key, after[a].nonce, z)
        /\ leafB(z) = Leaf(after[b].key, after[b].nonce, z)
    BY <1>4, <1>5
  <2>2. accounts \in State /\ after \in State  BY <1>1, <1>3
  <2>3. RootOf(m2, Leaf(after[a].key, after[a].nonce, z))
          = [accounts EXCEPT ![a] = WithBalance(after[a], t, z)]
    <3> HIDE DEF after
    <3> QED BY <2>2, RootOfLeaf
  <2>4. RootOf(m4, Leaf(after[b].key, after[b].nonce, z))
          = [after EXCEPT ![b] = WithBalance(after[b], s, z)]
    <3> HIDE DEF after
    <3> QED BY <2>2, RootOfLeaf
  <2> HIDE DEF after, leafA, leafB, m2, m4
  <2> QED BY <2>1, <2>3, <2>4
<1>9. /\ [accounts EXCEPT ![a] = A] = accounts
      /\ [accounts EXCEPT ![a] = after[a]] = [after EXCEPT ![b] = B]
      /\ [after EXCEPT ![b] = after[b]] = after
  <2> HIDE DEF after
  <2> QED BY <1>1, <1>3 DEF State
<1>10. Verifies(<<m1, m2, m3, m4>>, accounts, after)
  <2> HIDE DEF m1, m2, m3, m4, after, A, B, oneA, oneB, leafA, leafB,
               As, At, Bs, Bt, nAs, nAt, nBs, nBt
  <2>0. RootOf(m1, m1.old) = accounts
    BY <1>4, <1>6, <1>7, <1>9
  <2>1. RootOf(m1, m1.new) = RootOf(m2, m2.old)
    BY <1>4, <1>6, <1>7, <1>8 DEF oneA
  <2>2. RootOf(m2, m2.new) = RootOf(m3, m3.old)
    BY <1>4, <1>5, <1>6, <1>7, <1>8, <1>9
  <2>3. /\ RootOf(m3, m3.new) = RootOf(m4, m4.old)
        /\ RootOf(m4, m4.new) = after
    BY <1>5, <1>6, <1>7, <1>8, <1>9 DEF oneB
  <2> QED BY <2>0, <2>1, <2>2, <2>3, FourMoves
<1>11. TradeMoves(a, b, s, t, x, y) = <<m1, m2, m3, m4>>  BY DEF TradeMoves
<1> QED BY <1>3, <1>10, <1>11

-----------------------------------------------------------------------------
(* The balances and keys each transaction leaves behind. *)

LEMMA SetBalancePoint ==
  ASSUME NEW state \in State, NEW a \in Accounts, NEW t \in Tokens, NEW v,
         NEW c \in Accounts, NEW u \in Tokens
  PROVE  /\ SetTokenBalance(state, a, t, v)[c].balances[u]
              = IF c = a /\ u = t THEN v ELSE state[c].balances[u]
         /\ SetTokenBalance(state, a, t, v)[c].key = state[c].key
<1>1. state[a] \in Account /\ state[c] \in Account  BY DEF State
<1>2. CASE c = a
  <2>1. SetTokenBalance(state, a, t, v)[c]
          = [state[a] EXCEPT !.balances = [@ EXCEPT ![t] = v]]
    BY <1>2 DEF SetTokenBalance, State
  <2> QED BY <1>1, <1>2, <2>1 DEF Account
<1>3. CASE c # a
  BY <1>3 DEF SetTokenBalance, State
<1> QED BY <1>2, <1>3

LEMMA IncreaseNoncePoint ==
  ASSUME NEW state \in State, NEW a \in Accounts, NEW c \in Accounts
  PROVE  /\ IncreaseNonce(state, a)[c].balances = state[c].balances
         /\ IncreaseNonce(state, a)[c].key = state[c].key
BY DEF IncreaseNonce, State, Account

LEMMA SetL2AddrPoint ==
  ASSUME NEW state \in State, NEW a \in Accounts, NEW c \in Accounts
  PROVE  /\ SetL2Addr(state, a)[c].balances = state[c].balances
         /\ SetL2Addr(state, a)[c].key <=> c = a \/ state[c].key
BY DEF SetL2Addr, State, Account

LEMMA KeyUpdatePoint ==
  ASSUME TypeOK, NEW a \in Accounts, NEW c \in Accounts, NEW u \in Tokens
  PROVE  /\ KeyUpdateState(a)[c].balances[u] = accounts[c].balances[u]
         /\ KeyUpdateState(a)[c].key <=> c = a \/ accounts[c].key
<1> DEFINE set == SetTokenBalance(accounts, a, FakeToken, TokenBalance(a, FakeToken))
<1>1. /\ accounts \in State /\ FakeToken \in Tokens
      /\ TokenBalance(a, FakeToken) \in Nat
  BY LedgerAssumption DEF TypeOK, State, Account, TokenBalance
<1>2. /\ set \in State
      /\ set[c].balances[u] = accounts[c].balances[u]
      /\ set[c].key = accounts[c].key
  BY <1>1, SetBalance, SetBalancePoint DEF TokenBalance
<1>3. KeyUpdateState(a) = SetL2Addr(set, a)  BY DEF KeyUpdateState
<1> HIDE DEF set
<1> QED BY <1>2, <1>3, SetL2AddrPoint

LEMMA DepositPoint ==
  ASSUME TypeOK, NEW a \in Accounts, NEW t \in Tokens, NEW x \in Nat,
         NEW c \in Accounts, NEW u \in Tokens
  PROVE  /\ DepositState(a, t, x)[c].balances[u]
              = IF c = a /\ u = t THEN accounts[a].balances[t] + x
                                  ELSE accounts[c].balances[u]
         /\ DepositState(a, t, x)[c].key = accounts[c].key
<1>1. /\ accounts \in State /\ TokenBalance(a, t) + x \in Nat
  BY DEF TypeOK, State, Account, TokenBalance
<1>2. DepositState(a, t, x)[c].balances[u]
        = IF c = a /\ u = t THEN accounts[a].balances[t] + x
                            ELSE accounts[c].balances[u]
  BY <1>1, SetBalancePoint DEF DepositState, TokenBalance
<1>3. DepositState(a, t, x)[c].key = accounts[c].key
  BY <1>1, SetBalancePoint DEF DepositState
<1> QED BY <1>2, <1>3

LEMMA WithdrawPoint ==
  ASSUME TypeOK, NEW a \in Accounts, NEW t \in Tokens, NEW x \in Nat,
         accounts[a].balances[t] >= x,
         NEW c \in Accounts, NEW u \in Tokens
  PROVE  /\ WithdrawState(a, t, x)[c].balances[u]
              = IF c = a /\ u = t THEN accounts[a].balances[t] - x
                                  ELSE accounts[c].balances[u]
         /\ WithdrawState(a, t, x)[c].key = accounts[c].key
<1>1. /\ accounts \in State /\ TokenBalance(a, t) - x \in Nat
  BY DEF TypeOK, State, Account, TokenBalance
<1>2. /\ Withdrawn(a, t, x) \in State
      /\ Withdrawn(a, t, x)[c].balances[u]
           = IF c = a /\ u = t THEN accounts[a].balances[t] - x
                               ELSE accounts[c].balances[u]
      /\ Withdrawn(a, t, x)[c].key = accounts[c].key
  <2>1. Withdrawn(a, t, x) \in State  BY <1>1, SetBalance DEF Withdrawn
  <2>2. Withdrawn(a, t, x)[c].balances[u]
          = IF c = a /\ u = t THEN accounts[a].balances[t] - x
                              ELSE accounts[c].balances[u]
    BY <1>1, SetBalancePoint DEF Withdrawn, TokenBalance
  <2>3. Withdrawn(a, t, x)[c].key = accounts[c].key
    BY <1>1, SetBalancePoint DEF Withdrawn
  <2> QED BY <2>1, <2>2, <2>3
<1> QED BY <1>2, IncreaseNoncePoint DEF WithdrawState

LEMMA TransferPoint ==
  ASSUME TypeOK, NEW a \in Accounts, NEW b \in Accounts, a # b,
         NEW t \in Tokens, NEW x \in Nat, NEW toLast \in BOOLEAN,
         accounts[a].balances[t] >= x,
         NEW c \in Accounts, NEW u \in Tokens
  PROVE  /\ TransferState(a, b, t, x, toLast)[c].balances[u]
              = IF c = a /\ u = t THEN accounts[a].balances[t] - x
                ELSE IF c = b /\ u = t THEN accounts[b].balances[t] + x
                ELSE accounts[c].balances[u]
         /\ TransferState(a, b, t, x, toLast)[c].key = accounts[c].key
<1> DEFINE paid == SetTokenBalance(accounts, a, t, TokenBalance(a, t) - x)
           sent == IncreaseNonce(paid, a)
<1>1. /\ accounts \in State /\ TokenBalance(a, t) - x \in Nat
  BY DEF TypeOK, State, Account, TokenBalance
<1>2. /\ paid \in State
      /\ paid[c].balances[u] = IF c = a /\ u = t THEN accounts[a].balances[t] - x
                                                 ELSE accounts[c].balances[u]
      /\ paid[c].key = accounts[c].key
  <2>1. paid \in State  BY <1>1, SetBalance
  <2>2. paid[c].balances[u] = IF c = a /\ u = t THEN accounts[a].balances[t] - x
             ELSE accounts[c].balances[u]
    BY <1>1, SetBalancePoint DEF TokenBalance
  <2>3. paid[c].key = accounts[c].key  BY <1>1, SetBalancePoint
  <2> QED BY <2>1, <2>2, <2>3
<1> HIDE DEF paid
<1>3. /\ sent \in State
      /\ sent[c].balances = paid[c].balances /\ sent[c].key = paid[c].key
  BY <1>2, SetNonce, IncreaseNoncePoint
<1> HIDE DEF sent
<1>4. TransferState(a, b, t, x, toLast) = SetTokenBalance(sent, b, t, TokenBalance(b, t) + x)
  BY <1>1, EitherOrder DEF sent, paid, TokenBalance
<1> QED BY <1>2, <1>3, <1>4, SetBalancePoint DEF TokenBalance

LEMMA SelfTransferPoint ==
  ASSUME TypeOK, NEW a \in Accounts, NEW t \in Tokens, NEW x \in Nat,
         NEW toLast \in BOOLEAN, accounts[a].balances[t] >= x,
         NEW c \in Accounts, NEW u \in Tokens
  PROVE  /\ TransferState(a, a, t, x, toLast)[c].balances[u]
              = IF c = a /\ u = t THEN SelfBalance(a, t, x, toLast) ELSE accounts[c].balances[u]
         /\ TransferState(a, a, t, x, toLast)[c].key = accounts[c].key
<1> DEFINE v == SelfBalance(a, t, x, toLast)
           set == SetTokenBalance(accounts, a, t, v)
<1>1. /\ accounts \in State /\ v \in Nat
      /\ TransferState(a, a, t, x, toLast) = IncreaseNonce(set, a)
  BY SelfTransferState DEF TypeOK
<1> HIDE DEF v
<1>2. set \in State  BY <1>1, SetBalance
<1>3. /\ set[c].balances[u] = IF c = a /\ u = t THEN v ELSE accounts[c].balances[u]
      /\ set[c].key = accounts[c].key
  BY <1>1, SetBalancePoint
<1> HIDE DEF set
<1> QED BY <1>1, <1>2, <1>3, IncreaseNoncePoint DEF v

LEMMA TradePoint ==
  ASSUME TypeOK, NEW a \in Accounts, NEW b \in Accounts, a # b,
         NEW s \in Tokens, NEW t \in Tokens, s # t,
         NEW x \in Nat, NEW y \in Nat,
         accounts[a].balances[s] >= x, accounts[b].balances[t] >= y,
         NEW c \in Accounts, NEW u \in Tokens
  PROVE  /\ TradeState(a, b, s, t, x, y)[c].balances[u]
              = IF c = a /\ u = s THEN accounts[a].balances[s] - x
                ELSE IF c = a /\ u = t THEN accounts[a].balances[t] + y
                ELSE IF c = b /\ u = s THEN accounts[b].balances[s] + x
                ELSE IF c = b /\ u = t THEN accounts[b].balances[t] - y
                ELSE accounts[c].balances[u]
         /\ TradeState(a, b, s, t, x, y)[c].key = accounts[c].key
<1> DEFINE nas == TokenBalance(a, s) - x
           nat == TokenBalance(a, t) + y
           nbs == TokenBalance(b, s) + x
           nbt == TokenBalance(b, t) - y
           sold == SetTokenBalance(accounts, a, s, nas)
           one  == SetTokenBalance(sold, a, t, nat)
           two  == SetTokenBalance(one, b, s, nbs)
<1>1. accounts \in State /\ nas \in Nat /\ nat \in Nat /\ nbs \in Nat
  BY DEF TypeOK, State, Account, TokenBalance
<1> HIDE DEF nas, nat, nbs, nbt
<1>2. /\ sold \in State
      /\ sold[c].balances[u] = IF c = a /\ u = s THEN nas ELSE accounts[c].balances[u]
      /\ sold[c].key = accounts[c].key
  <2>1. sold \in State  BY <1>1, SetBalance
  <2>2. sold[c].balances[u] = IF c = a /\ u = s THEN nas ELSE accounts[c].balances[u]
    BY <1>1, SetBalancePoint
  <2>3. sold[c].key = accounts[c].key  BY <1>1, SetBalancePoint
  <2> QED BY <2>1, <2>2, <2>3
<1> HIDE DEF sold
<1>3. /\ one \in State
      /\ one[c].balances[u] = IF c = a /\ u = t THEN nat ELSE sold[c].balances[u]
      /\ one[c].key = sold[c].key
  <2>1. one \in State  BY <1>1, <1>2, SetBalance
  <2>2. one[c].balances[u] = IF c = a /\ u = t THEN nat ELSE sold[c].balances[u]
    BY <1>1, <1>2, SetBalancePoint
  <2>3. one[c].key = sold[c].key  BY <1>1, <1>2, SetBalancePoint
  <2> QED BY <2>1, <2>2, <2>3
<1> HIDE DEF one
<1>4. /\ two \in State
      /\ two[c].balances[u] = IF c = b /\ u = s THEN nbs ELSE one[c].balances[u]
      /\ two[c].key = one[c].key
  <2>1. two \in State  BY <1>1, <1>3, SetBalance
  <2>2. two[c].balances[u] = IF c = b /\ u = s THEN nbs ELSE one[c].balances[u]
    BY <1>1, <1>3, SetBalancePoint
  <2>3. two[c].key = one[c].key  BY <1>1, <1>3, SetBalancePoint
  <2> QED BY <2>1, <2>2, <2>3
<1> HIDE DEF two
<1>5. /\ SetTokenBalance(two, b, t, nbt)[c].balances[u]
           = IF c = b /\ u = t THEN nbt ELSE two[c].balances[u]
      /\ SetTokenBalance(two, b, t, nbt)[c].key = two[c].key
  BY <1>4, SetBalancePoint
<1>6. TradeState(a, b, s, t, x, y) = SetTokenBalance(two, b, t, nbt)
  BY DEF TradeState, two, one, sold, nas, nat, nbs, nbt
<1> QED BY <1>2, <1>3, <1>4, <1>5, <1>6 DEF nas, nat, nbs, nbt, TokenBalance

-----------------------------------------------------------------------------
(* The invariant. *)

\* The last raw transaction ends with the current root; TypeOK and BalancesAgree
\* make the checks of the handlers hold, or name a balance that was sent to
\* itself, whence ChecksPass; the last conjunct but one is a lemma of every transaction.
IInv ==
  /\ TypeOK
  /\ BalancesAgree
  /\ ChecksPass
  /\ WitnessChecks
  /\ rawTx.after = accounts

\* what a step must establish
Step ==
  /\ IInv'
  /\ rawTx' # rawTx => rawTx'.before = rawTx.after

\* balances of the node and the engine that differ by at most s
Near(node, other, s) == node - other \in -s .. s

\* the witness of a transaction is as WitnessChecks has it
Witnessed(moves, state) == Verifies(moves, accounts, state) <=> ~ToOneself(moves)

\* A transaction that changes the engine's balances and users alike keeps the invariant.
LEMMA ApplyStep ==
  ASSUME IInv, Running, NEW state \in State, NEW moves,
         Witnessed(moves, state),
         Apply(state, moves),
         engine' \in [Accounts -> [Tokens -> Nat]],
         selfSent' \in [Accounts -> [Tokens -> Nat]],
         registered' \subseteq Accounts,
         \A c \in Accounts, u \in Tokens :
           Near(state[c].balances[u], engine'[c][u], selfSent'[c][u]),
         \A c \in Accounts : state[c].key <=> c \in registered'
  PROVE  Step
<1>1. /\ accounts' = state /\ numTxs' = numTxs + 1 /\ panic' = "none" /\ refused' = refused
      /\ rawTx' = RawTx(moves, accounts, state)
  BY DEF Apply, Running
<1>2. /\ rawTx'.moves = moves /\ rawTx'.before = accounts /\ rawTx'.after = state
  BY <1>1 DEF RawTx
<1>3. TypeOK'
  <2>1. numTxs' \in 0 .. MaxTxs
    BY <1>1, LedgerAssumption DEF IInv, TypeOK, Running
  <2>2. accounts \in State /\ refused' \subseteq Accounts \X Tokens
    BY <1>1 DEF IInv, TypeOK
  <2> QED BY <1>1, <1>2, <2>1, <2>2 DEF TypeOK, HasAccount
<1>4. BalancesAgree'  BY <1>1 DEF BalancesAgree, Near
<1>5. ChecksPass'  BY <1>1 DEF ChecksPass
<1>6. WitnessChecks'  BY <1>2 DEF WitnessChecks, Witnessed
<1> QED BY <1>1, <1>2, <1>3, <1>4, <1>5, <1>6 DEF Step, IInv

\* So does a check that stops the node for one of the two reasons of ChecksPass.
LEMMA StopStep ==
  ASSUME IInv, NEW check \in Panics, NEW balances \in SUBSET (Accounts \X Tokens),
         Stop(check, balances),
         engine' \in [Accounts -> [Tokens -> Nat]], selfSent' = selfSent,
         registered' = registered,
         NEW c \in Accounts, NEW u \in Tokens, <<c, u>> \in balances,
         \/ /\ check \in {"balance_1to2", "balance_2to1"}
            /\ engine'[c][u] = 0 /\ accounts[c].balances[u] > 0
         \/ /\ check \in {"balance before", "sufficient balance", "check_state"}
            /\ selfSent[c][u] > 0
  PROVE  Step
<1>1. /\ panic' = check /\ check # "none" /\ refused' = balances
      /\ accounts' = accounts /\ rawTx' = rawTx /\ numTxs' = numTxs
  BY DEF Stop, Panics
<1>2. TypeOK'
  <2>1. /\ rawTx.before \in State /\ rawTx.after \in State /\ numTxs \in 0 .. MaxTxs
        /\ accounts \in State /\ selfSent \in [Accounts -> [Tokens -> Nat]]
        /\ registered \subseteq Accounts
    BY DEF IInv, TypeOK
  <2> QED BY <1>1, <2>1 DEF TypeOK
<1>3. BalancesAgree'  BY <1>1 DEF BalancesAgree
<1>4. ChecksPass'  BY <1>1 DEF ChecksPass
<1>5. WitnessChecks' /\ rawTx'.after = accounts'
  BY <1>1 DEF IInv, WitnessChecks
<1> QED BY <1>1, <1>2, <1>3, <1>4, <1>5 DEF Step, IInv

\* The engine's balances after its own steps.
LEMMA EngineAddsPoint ==
  ASSUME engine \in [Accounts -> [Tokens -> Nat]],
         NEW a \in Accounts, NEW t \in Tokens, NEW d \in Int,
         engine[a][t] + d \in Nat, EngineAdds(a, t, d)
  PROVE  /\ engine' \in [Accounts -> [Tokens -> Nat]]
         /\ \A c \in Accounts, u \in Tokens :
              engine'[c][u] = IF c = a /\ u = t THEN engine[a][t] + d ELSE engine[c][u]
BY DEF EngineAdds

\* One balance of the engine's changes.
EngineWith(e, a, t, v) == [e EXCEPT ![a][t] = v]

\* A transfer, and a trade, between two accounts of the engine.
LEMMA EngineTransfer ==
  ASSUME engine \in [Accounts -> [Tokens -> Nat]],
         NEW a \in Accounts, NEW b \in Accounts, a # b, NEW t \in Tokens,
         NEW x \in Nat, engine[a][t] >= x,
         NEW c \in Accounts, NEW u \in Tokens
  PROVE  /\ Transferred(a, b, t, x) \in [Accounts -> [Tokens -> Nat]]
         /\ Transferred(a, b, t, x)[c][u]
              = IF c = a /\ u = t THEN engine[a][t] - x
                ELSE IF c = b /\ u = t THEN engine[b][t] + x
                ELSE engine[c][u]
<1>1. PICK v \in Nat, w \in Nat : v = engine[a][t] - x /\ w = engine[b][t] + x  OBVIOUS
<1> DEFINE mid == EngineWith(engine, a, t, v)
           end == EngineWith(mid, b, t, w)
<1>2. Transferred(a, b, t, x) = end
  <2>1. Transferred(a, b, t, x) = EngineWith(mid, b, t, mid[b][t] + x)
    BY <1>1 DEF EngineWith, Transferred
  <2>2. mid[b][t] + x = w  BY <1>1 DEF EngineWith
  <2> QED BY <2>1, <2>2
<1>3. /\ mid \in [Accounts -> [Tokens -> Nat]]
      /\ \A d \in Accounts, r \in Tokens :
           mid[d][r] = IF d = a /\ r = t THEN v ELSE engine[d][r]
  BY DEF EngineWith
<1> HIDE DEF mid
<1>4. /\ end \in [Accounts -> [Tokens -> Nat]]
      /\ \A d \in Accounts, r \in Tokens :
           end[d][r] = IF d = b /\ r = t THEN w ELSE mid[d][r]
  BY <1>3 DEF EngineWith
<1> HIDE DEF end
<1> QED BY <1>1, <1>2, <1>3, <1>4

LEMMA EngineTrade ==
  ASSUME engine \in [Accounts -> [Tokens -> Nat]],
         NEW a \in Accounts, NEW b \in Accounts, a # b,
         NEW s \in Tokens, NEW t \in Tokens, s # t,
         NEW x \in Nat, NEW y \in Nat, engine[a][s] >= x, engine[b][t] >= y,
         NEW c \in Accounts, NEW u \in Tokens
  PROVE  /\ Traded(a, b, s, t, x, y) \in [Accounts -> [Tokens -> Nat]]
         /\ Traded(a, b, s, t, x, y)[c][u]
              = IF c = a /\ u = s THEN engine[a][s] - x
                ELSE IF c = a /\ u = t THEN engine[a][t] + y
                ELSE IF c = b /\ u = s THEN engine[b][s] + x
                ELSE IF c = b /\ u = t THEN engine[b][t] - y
                ELSE engine[c][u]
<1>1. PICK n1 \in Nat, n2 \in Nat, n3 \in Nat, n4 \in Nat :
        n1 = engine[a][s] - x /\ n2 = engine[a][t] + y /\ n3 = engine[b][s] + x /\ n4 = engine[b][t] - y
  OBVIOUS
<1> DEFINE e1 == EngineWith(engine, a, s, n1)
           e2 == EngineWith(e1, a, t, n2)
           e3 == EngineWith(e2, b, s, n3)
           e4 == EngineWith(e3, b, t, n4)
<1>2. Traded(a, b, s, t, x, y) = e4  BY <1>1 DEF EngineWith, Traded
<1>3. /\ e1 \in [Accounts -> [Tokens -> Nat]]
      /\ \A d \in Accounts, r \in Tokens :
           e1[d][r] = IF d = a /\ r = s THEN n1 ELSE engine[d][r]
  BY DEF EngineWith
<1> HIDE DEF e1
<1>4. /\ e2 \in [Accounts -> [Tokens -> Nat]]
      /\ \A d \in Accounts, r \in Tokens :
           e2[d][r] = IF d = a /\ r = t THEN n2 ELSE e1[d][r]
  BY <1>3 DEF EngineWith
<1> HIDE DEF e2
<1>5. /\ e3 \in [Accounts -> [Tokens -> Nat]]
      /\ \A d \in Accounts, r \in Tokens :
           e3[d][r] = IF d = b /\ r = s THEN n3 ELSE e2[d][r]
  BY <1>4 DEF EngineWith
<1> HIDE DEF e3
<1>6. /\ e4 \in [Accounts -> [Tokens -> Nat]]
      /\ \A d \in Accounts, r \in Tokens :
           e4[d][r] = IF d = b /\ r = t THEN n4 ELSE e3[d][r]
  BY <1>5 DEF EngineWith
<1> HIDE DEF e4
<1> QED BY <1>1, <1>2, <1>3, <1>4, <1>5, <1>6

\* What the invariant says of a running node.
RunningFacts ==
  /\ TypeOK /\ panic = "none"
  /\ accounts \in State
  /\ engine \in [Accounts -> [Tokens -> Nat]]
  /\ selfSent \in [Accounts -> [Tokens -> Nat]]
  /\ registered \subseteq Accounts
  /\ \A c \in Accounts, u \in Tokens :
       /\ accounts[c].balances[u] \in Nat /\ engine[c][u] \in Nat /\ selfSent[c][u] \in Nat
       /\ Near(accounts[c].balances[u], engine[c][u], selfSent[c][u])
  /\ \A c \in Accounts : accounts[c].key <=> c \in registered

LEMMA RunningInv == IInv /\ Running => RunningFacts
<1> SUFFICES ASSUME IInv, Running PROVE RunningFacts  OBVIOUS
<1>1. ASSUME NEW c \in Accounts, NEW u \in Tokens
      PROVE  /\ accounts[c].balances[u] \in Nat /\ engine[c][u] \in Nat /\ selfSent[c][u] \in Nat
             /\ Near(accounts[c].balances[u], engine[c][u], selfSent[c][u])
  BY DEF IInv, TypeOK, State, Account, BalancesAgree, Running, Near
<1> QED BY <1>1 DEF IInv, TypeOK, HasAccount, Running, RunningFacts

\* Differing balances have been sent to themselves; both sides may change alike.
LEMMA NearFacts ==
  ASSUME NEW n \in Int, NEW e \in Int, NEW s \in Nat, Near(n, e, s)
  PROVE  /\ n # e => s > 0
         /\ \A d \in Int : Near(n + d, e + d, s) /\ Near(n - d, e - d, s)
         /\ \A d \in Nat : Near(n + d, e, s + d) /\ Near(n - d, e, s + d)
BY DEF Near

LEMMA RegisterStep ==
  ASSUME IInv, NEW a \in Accounts, Register(a)
  PROVE  Step
<1>1. /\ Running /\ a \notin registered /\ registered' = registered \cup {a}
      /\ engine' = engine /\ selfSent' = selfSent
  BY DEF Register
<1>f. RunningFacts  BY <1>1, RunningInv
<1> USE <1>f, <1>1 DEF RunningFacts
<1>2. Apply(KeyUpdateState(a), KeyUpdateMoves(a))
  BY DEF Register, Handle, HasAccount
<1>3. /\ KeyUpdateState(a) \in State
      /\ Witnessed(KeyUpdateMoves(a), KeyUpdateState(a))
  <2>1. ~ToOneself(KeyUpdateMoves(a))  BY DEF ToOneself, KeyUpdateMoves
  <2> QED BY <2>1, KeyUpdateWitness DEF Witnessed
<1>4. \A c \in Accounts, u \in Tokens :
        Near(KeyUpdateState(a)[c].balances[u], engine'[c][u], selfSent'[c][u])
  BY KeyUpdatePoint
<1>5. \A c \in Accounts : KeyUpdateState(a)[c].key <=> c \in registered'
  BY KeyUpdatePoint, LedgerAssumption
<1> QED BY <1>2, <1>3, <1>4, <1>5, ApplyStep

\* The check of a deposit or withdrawal passes, or stops the node at a balance that was
\* sent to itself.
LEMMA BalanceCheckStep ==
  ASSUME IInv, Running, NEW a \in registered, NEW t \in Tokens, NEW state, NEW moves,
         Handle(BalanceCheck(a, t), {<<a, t>>}, state, moves),
         engine' \in [Accounts -> [Tokens -> Nat]],
         registered' = registered, selfSent' = selfSent
  PROVE  Step \/ (Apply(state, moves) /\ accounts[a].balances[t] = engine[a][t])
<1>f. RunningFacts  BY RunningInv
<1> USE <1>f DEF RunningFacts
<1>1. CASE accounts[a].balances[t] = engine[a][t]
  BY <1>1 DEF Handle, BalanceCheck, TokenBalance, HasAccount
<1>2. CASE accounts[a].balances[t] # engine[a][t]
  <2>1. Stop("balance before", {<<a, t>>})
    BY <1>2 DEF Handle, BalanceCheck, TokenBalance
  <2>2. selfSent[a][t] > 0  BY <1>2, NearFacts
  <2>3. a \in Accounts /\ "balance before" \in Panics /\ <<a, t>> \in {<<a, t>>}
        /\ {<<a, t>>} \in SUBSET (Accounts \X Tokens)
    BY DEF Panics
  <2> QED BY ONLY IInv, <2>1, <2>2, <2>3, StopStep, registered' = registered, selfSent' = selfSent,
               engine' \in [Accounts -> [Tokens -> Nat]], t \in Tokens
<1> QED BY <1>1, <1>2

LEMMA DepositStep ==
  ASSUME IInv, NEW a \in Accounts, NEW t \in Tokens, NEW x \in Amounts, Deposit(a, t, x)
  PROVE  Step
<1>1. /\ Running /\ a \in registered /\ registered' = registered /\ x \in Nat
      /\ selfSent' = selfSent /\ EngineAdds(a, t, x)
      /\ Handle(BalanceCheck(a, t), {<<a, t>>}, DepositState(a, t, x), DepositMoves(a, t, x))
  BY LedgerAssumption DEF Deposit
<1>f. RunningFacts  BY <1>1, RunningInv
<1> USE <1>f, <1>1 DEF RunningFacts
<1>2. /\ engine' \in [Accounts -> [Tokens -> Nat]]
      /\ \A c \in Accounts, u \in Tokens :
           engine'[c][u] = IF c = a /\ u = t THEN engine[a][t] + x ELSE engine[c][u]
  BY EngineAddsPoint
<1>3. /\ DepositState(a, t, x) \in State
      /\ Witnessed(DepositMoves(a, t, x), DepositState(a, t, x))
  <2>1. ~ToOneself(DepositMoves(a, t, x))  BY DEF ToOneself, DepositMoves
  <2> QED BY <2>1, DepositWitness DEF Witnessed
<1>4. ASSUME NEW c \in Accounts, NEW u \in Tokens
      PROVE  Near(DepositState(a, t, x)[c].balances[u], engine'[c][u], selfSent'[c][u])
  <2>1. DepositState(a, t, x)[c].balances[u]
          = IF c = a /\ u = t THEN accounts[a].balances[t] + x ELSE accounts[c].balances[u]
    BY DepositPoint
  <2> QED BY <1>2, <2>1, NearFacts
<1>5. ASSUME NEW c \in Accounts
      PROVE  DepositState(a, t, x)[c].key <=> c \in registered'
  <2>1. DepositState(a, t, x)[c].key = accounts[c].key  BY DepositPoint
  <2> QED BY <2>1
<1>6. CASE Apply(DepositState(a, t, x), DepositMoves(a, t, x))
  BY <1>2, <1>3, <1>4, <1>5, <1>6, ApplyStep
<1> QED BY <1>2, <1>6, BalanceCheckStep

LEMMA WithdrawStep ==
  ASSUME IInv, NEW a \in Accounts, NEW t \in Tokens, NEW x \in Amounts, Withdraw(a, t, x)
  PROVE  Step
<1>1. /\ Running /\ a \in registered /\ registered' = registered /\ x \in Nat
      /\ engine[a][t] >= x /\ selfSent' = selfSent /\ EngineAdds(a, t, -x)
      /\ Handle(BalanceCheck(a, t), {<<a, t>>}, WithdrawState(a, t, x), WithdrawMoves(a, t, x))
  BY LedgerAssumption DEF Withdraw
<1>f. RunningFacts  BY <1>1, RunningInv
<1> USE <1>f, <1>1 DEF RunningFacts
<1>2. /\ engine' \in [Accounts -> [Tokens -> Nat]]
      /\ \A c \in Accounts, u \in Tokens :
           engine'[c][u] = IF c = a /\ u = t THEN engine[a][t] + (-x) ELSE engine[c][u]
  <2>1. engine[a][t] + (-x) \in Nat /\ -x \in Int  OBVIOUS
  <2> QED BY <2>1, EngineAddsPoint
<1>3. CASE /\ Apply(WithdrawState(a, t, x), WithdrawMoves(a, t, x))
           /\ accounts[a].balances[t] = engine[a][t]
  <2>1. accounts[a].balances[t] >= x  BY <1>3
  <2>2. /\ WithdrawState(a, t, x) \in State
        /\ Witnessed(WithdrawMoves(a, t, x), WithdrawState(a, t, x))
    <3>1. ~ToOneself(WithdrawMoves(a, t, x))  BY DEF ToOneself, WithdrawMoves
    <3> QED BY <2>1, <3>1, WithdrawWitness DEF Witnessed
  <2>3. ASSUME NEW c \in Accounts, NEW u \in Tokens
        PROVE  Near(WithdrawState(a, t, x)[c].balances[u], engine'[c][u], selfSent'[c][u])
    <3>1. WithdrawState(a, t, x)[c].balances[u]
            = IF c = a /\ u = t THEN accounts[a].balances[t] - x ELSE accounts[c].balances[u]
      BY <2>1, WithdrawPoint
    <3> QED BY <1>2, <3>1, NearFacts
  <2>4. ASSUME NEW c \in Accounts
        PROVE  WithdrawState(a, t, x)[c].key <=> c \in registered'
    <3>1. WithdrawState(a, t, x)[c].key = accounts[c].key  BY <2>1, WithdrawPoint
    <3> QED BY <3>1
  <2> QED BY <1>2, <1>3, <2>2, <2>3, <2>4, ApplyStep
<1> QED BY <1>2, <1>3, BalanceCheckStep

\* The engine's balances do not change.
LEMMA EngineSelfTransfer ==
  ASSUME engine \in [Accounts -> [Tokens -> Nat]], NEW a \in Accounts, NEW t \in Tokens,
         NEW x \in Nat
  PROVE  Transferred(a, a, t, x) = engine
<1> DEFINE mid == EngineWith(engine, a, t, engine[a][t] - x)
<1>1. Transferred(a, a, t, x) = EngineWith(mid, a, t, mid[a][t] + x)
  BY DEF EngineWith, Transferred
<1>2. mid[a][t] + x = engine[a][t]  BY DEF EngineWith
<1>3. EngineWith(mid, a, t, engine[a][t]) = engine  BY DEF EngineWith
<1> QED BY <1>1, <1>2, <1>3

\* A transfer the node can pay is made.  To another account it changes the balances of
\* node and engine alike; to oneself only the node's, by its amount.
LEMMA TransferMade ==
  ASSUME IInv, Running, NEW a \in registered, NEW b \in registered,
         NEW t \in Tokens, NEW x \in Nat, NEW toLast \in BOOLEAN,
         engine[a][t] >= x, accounts[a].balances[t] >= x,
         engine' = Transferred(a, b, t, x), registered' = registered,
         selfSent' = IF a = b THEN [selfSent EXCEPT ![a][t] = @ + x] ELSE selfSent,
         Apply(TransferState(a, b, t, x, toLast), TransferMoves(a, b, t, x, toLast))
  PROVE  Step
<1>f. RunningFacts  BY RunningInv
<1> USE <1>f DEF RunningFacts
<1>1. a \in Accounts /\ b \in Accounts  OBVIOUS
<1>2. CASE a # b
  <2> USE <1>1, <1>2
  <2>1. /\ TransferState(a, b, t, x, toLast) \in State
        /\ Witnessed(TransferMoves(a, b, t, x, toLast), TransferState(a, b, t, x, toLast))
    <3>1. ~ToOneself(TransferMoves(a, b, t, x, toLast))
      BY DEF ToOneself, TransferMoves, Move
    <3> QED BY <3>1, TransferWitness DEF Witnessed
  <2>2. engine' \in [Accounts -> [Tokens -> Nat]]
    BY EngineTransfer
  <2>3. ASSUME NEW c \in Accounts, NEW u \in Tokens
        PROVE  Near(TransferState(a, b, t, x, toLast)[c].balances[u], engine'[c][u], selfSent'[c][u])
    <3>1. TransferState(a, b, t, x, toLast)[c].balances[u]
            = IF c = a /\ u = t THEN accounts[a].balances[t] - x
              ELSE IF c = b /\ u = t THEN accounts[b].balances[t] + x
              ELSE accounts[c].balances[u]
      BY TransferPoint
    <3>2. engine'[c][u] = IF c = a /\ u = t THEN engine[a][t] - x
                          ELSE IF c = b /\ u = t THEN engine[b][t] + x
                          ELSE engine[c][u]
      BY EngineTransfer
    <3> QED BY <3>1, <3>2, NearFacts
  <2>4. ASSUME NEW c \in Accounts
        PROVE  TransferState(a, b, t, x, toLast)[c].key <=> c \in registered'
    <3>1. TransferState(a, b, t, x, toLast)[c].key = accounts[c].key  BY TransferPoint
    <3> QED BY <3>1
  <2> QED BY <2>1, <2>2, <2>3, <2>4, ApplyStep
<1>3. CASE a = b
  <2> DEFINE state == TransferState(a, a, t, x, toLast)
             moves == TransferMoves(a, a, t, x, toLast)
  <2>1. state \in State /\ Witnessed(moves, state)
    BY <1>1, SelfTransferState, SelfTransferWitness DEF Witnessed
  <2>2. engine' = engine  BY <1>1, <1>3, EngineSelfTransfer
  <2>3. /\ selfSent' \in [Accounts -> [Tokens -> Nat]]
        /\ \A c \in Accounts, u \in Tokens :
             selfSent'[c][u] = IF c = a /\ u = t THEN selfSent[a][t] + x ELSE selfSent[c][u]
    BY <1>1, <1>3
  <2>4. ASSUME NEW c \in Accounts, NEW u \in Tokens
        PROVE  Near(state[c].balances[u], engine'[c][u], selfSent'[c][u])
    <3>1. state[c].balances[u]
            = IF c = a /\ u = t THEN SelfBalance(a, t, x, toLast) ELSE accounts[c].balances[u]
      BY <1>1, SelfTransferPoint
    <3> QED BY <2>2, <2>3, <3>1, NearFacts DEF SelfBalance, TokenBalance
  <2>5. ASSUME NEW c \in Accounts
        PROVE  state[c].key <=> c \in registered'
    <3>1. state[c].key = accounts[c].key  BY <1>1, SelfTransferPoint
    <3> QED BY <3>1
  <2>6. Apply(state, moves)  BY <1>3
  <2> HIDE DEF state, moves
  <2> QED BY <2>1, <2>2, <2>3, <2>4, <2>5, <2>6, ApplyStep
<1> QED BY <1>2, <1>3

LEMMA TransferStep ==
  ASSUME IInv, NEW a \in Accounts, NEW b \in Accounts, NEW t \in Tokens,
         NEW x \in Amounts, Transfer(a, b, t, x)
  PROVE  Step
<1>1. /\ Running /\ a \in registered /\ b \in registered /\ registered' = registered
      /\ x \in Nat /\ engine[a][t] >= x
      /\ engine' = Transferred(a, b, t, x)
  BY LedgerAssumption DEF Transfer
<1>2. PICK toLast \in BOOLEAN :
        Handle(TransferCheck(a, b, t, x), {<<a, t>>, <<b, t>>},
               TransferState(a, b, t, x, toLast), TransferMoves(a, b, t, x, toLast))
  BY DEF Transfer
<1>f. RunningFacts  BY <1>1, RunningInv
<1> USE <1>f, <1>1 DEF RunningFacts
<1>3. CASE accounts[a].balances[t] >= x
  <2>1. TransferCheck(a, b, t, x) = "none"
    BY <1>3 DEF TransferCheck, HasAccount, TokenBalance
  <2>2. Apply(TransferState(a, b, t, x, toLast), TransferMoves(a, b, t, x, toLast))
    BY <1>2, <2>1 DEF Handle
  <2>3. selfSent' = IF a = b THEN [selfSent EXCEPT ![a][t] = @ + x] ELSE selfSent
    BY <2>1 DEF Transfer
  <2> QED BY <1>3, <2>2, <2>3, TransferMade
<1>4. CASE ~(accounts[a].balances[t] >= x)
  <2>1. TransferCheck(a, b, t, x) = "sufficient balance"
    BY <1>4 DEF TransferCheck, TokenBalance
  <2>2. Stop("sufficient balance", {<<a, t>>, <<b, t>>}) /\ selfSent' = selfSent
    BY <1>2, <2>1 DEF Handle, Transfer
  <2>3. selfSent[a][t] > 0  BY <1>4, NearFacts
  <2>4. engine' \in [Accounts -> [Tokens -> Nat]]
    <3>1. CASE a = b  BY <3>1, EngineSelfTransfer
    <3>2. CASE a # b  BY <3>2, EngineTransfer
    <3> QED BY <3>1, <3>2
  <2>5. /\ "sufficient balance" \in Panics /\ <<a, t>> \in {<<a, t>>, <<b, t>>}
        /\ {<<a, t>>, <<b, t>>} \in SUBSET (Accounts \X Tokens)
    BY DEF Panics
  <2> QED BY ONLY IInv, <1>1, <2>2, <2>3, <2>4, <2>5, StopStep, a \in Accounts, t \in Tokens
<1> QED BY <1>3, <1>4

\* Where node and engine agree before a trade, they agree after it.
LEMMA TradeAgrees ==
  ASSUME IInv, Running,
         NEW a \in Accounts, NEW b \in Accounts, a # b,
         NEW s \in Tokens, NEW t \in Tokens, s # t, NEW x \in Nat, NEW y \in Nat,
         engine[a][s] >= x, engine[b][t] >= y,
         StateAgrees(accounts, engine, a, b, s, t),
         NEW c \in Accounts, NEW u \in Tokens
  PROVE  /\ c \in {a, b} /\ u \in {s, t} =>
              TradeState(a, b, s, t, x, y)[c].balances[u] = Traded(a, b, s, t, x, y)[c][u]
         /\ Near(TradeState(a, b, s, t, x, y)[c].balances[u], Traded(a, b, s, t, x, y)[c][u],
                 selfSent[c][u])
         /\ TradeState(a, b, s, t, x, y)[c].key = accounts[c].key
<1>f. RunningFacts  BY RunningInv
<1> USE <1>f DEF RunningFacts
<1>1. /\ accounts[a].balances[s] = engine[a][s] /\ accounts[a].balances[t] = engine[a][t]
      /\ accounts[b].balances[s] = engine[b][s] /\ accounts[b].balances[t] = engine[b][t]
  BY DEF StateAgrees
<1>s. accounts[a].balances[s] >= x /\ accounts[b].balances[t] >= y  BY <1>1
<1>2. TradeState(a, b, s, t, x, y)[c].balances[u]
        = IF c = a /\ u = s THEN accounts[a].balances[s] - x
          ELSE IF c = a /\ u = t THEN accounts[a].balances[t] + y
          ELSE IF c = b /\ u = s THEN accounts[b].balances[s] + x
          ELSE IF c = b /\ u = t THEN accounts[b].balances[t] - y
          ELSE accounts[c].balances[u]
  BY <1>s, TradePoint
<1>3. TradeState(a, b, s, t, x, y)[c].key = accounts[c].key
  BY <1>s, TradePoint
<1>4. Traded(a, b, s, t, x, y)[c][u]
        = IF c = a /\ u = s THEN engine[a][s] - x
          ELSE IF c = a /\ u = t THEN engine[a][t] + y
          ELSE IF c = b /\ u = s THEN engine[b][s] + x
          ELSE IF c = b /\ u = t THEN engine[b][t] - y
          ELSE engine[c][u]
  BY EngineTrade
<1> QED BY <1>1, <1>2, <1>3, <1>4, NearFacts

\* A trade passes all checks but those that each side keeps some of its balance, if node
\* and engine agree.
LEMMA TradeChecks ==
  ASSUME IInv, NEW a \in Accounts, NEW b \in Accounts, NEW s \in Tokens, NEW t \in Tokens,
         NEW x \in Amounts, NEW y \in Amounts, Trade(a, b, s, t, x, y),
         StateAgrees(accounts, engine, a, b, s, t)
  PROVE  TradeCheck(a, b, s, t, x, y) =
           IF ~Covered(a, s, x) THEN "balance_1to2"
           ELSE IF ~Covered(b, t, y) THEN "balance_2to1"
           ELSE "none"
<1>1. /\ Running /\ a \in registered /\ b \in registered
      /\ a # b /\ s # t /\ x \in Nat /\ y \in Nat
      /\ engine[a][s] >= x /\ engine[b][t] >= y
  BY LedgerAssumption DEF Trade
<1>f. RunningFacts  BY <1>1, RunningInv
<1> USE <1>f, <1>1 DEF RunningFacts
<1>2. HasAccount(a) /\ HasAccount(b)  BY DEF HasAccount
<1>3. ASSUME NEW c \in {a, b}, NEW u \in {s, t}
      PROVE  TradeState(a, b, s, t, x, y)[c].balances[u] = Traded(a, b, s, t, x, y)[c][u]
  BY TradeAgrees
<1>4. StateAgrees(TradeState(a, b, s, t, x, y), Traded(a, b, s, t, x, y), a, b, s, t)
  BY <1>3 DEF StateAgrees
<1> QED BY <1>2, <1>4 DEF TradeCheck

LEMMA TradeStep ==
  ASSUME IInv, NEW a \in Accounts, NEW b \in Accounts, NEW s \in Tokens, NEW t \in Tokens,
         NEW x \in Amounts, NEW y \in Amounts, Trade(a, b, s, t, x, y)
  PROVE  Step
<1>1. /\ Running /\ a \in registered /\ b \in registered /\ registered' = registered
      /\ a # b /\ s # t /\ selfSent' = selfSent
      /\ x \in Nat \ {0} /\ y \in Nat \ {0} /\ x \in Nat /\ y \in Nat
      /\ engine[a][s] >= x /\ engine[b][t] >= y
      /\ engine' = Traded(a, b, s, t, x, y)
      /\ Handle(TradeCheck(a, b, s, t, x, y), {a, b} \X {s, t}, TradeState(a, b, s, t, x, y),
                TradeMoves(a, b, s, t, x, y))
  BY LedgerAssumption DEF Trade
<1>f. RunningFacts  BY <1>1, RunningInv
<1> USE <1>f, <1>1 DEF RunningFacts
<1>2. engine' \in [Accounts -> [Tokens -> Nat]]  BY EngineTrade
<1>3. ASSUME NEW check \in Panics, TradeCheck(a, b, s, t, x, y) = check,
             NEW c \in {a, b}, NEW u \in {s, t},
             \/ /\ check \in {"balance_1to2", "balance_2to1"}
                /\ engine'[c][u] = 0 /\ accounts[c].balances[u] > 0
             \/ /\ check \in {"balance before", "sufficient balance", "check_state"}
                /\ selfSent[c][u] > 0
      PROVE  Step
  <2>1. Stop(check, {a, b} \X {s, t})
    BY <1>3 DEF Handle, Panics
  <2>2. /\ {a, b} \X {s, t} \in SUBSET (Accounts \X Tokens) /\ <<c, u>> \in {a, b} \X {s, t}
        /\ c \in Accounts /\ u \in Tokens
    OBVIOUS
  <2> QED BY ONLY IInv, <1>1, <1>2, <1>3, <2>1, <2>2, StopStep
<1>4. CASE ~StateAgrees(accounts, engine, a, b, s, t)
  <2>1. TradeCheck(a, b, s, t, x, y) = "check_state"  BY <1>4 DEF TradeCheck
  <2>2. PICK c \in {a, b}, u \in {s, t} : accounts[c].balances[u] # engine[c][u]
    BY <1>4 DEF StateAgrees
  <2>3. selfSent[c][u] > 0  BY <2>2, NearFacts
  <2> QED BY <1>3, <2>1, <2>3 DEF Panics
<1> SUFFICES ASSUME StateAgrees(accounts, engine, a, b, s, t) PROVE Step
  BY <1>4
<1>5. /\ accounts[a].balances[s] = engine[a][s] /\ accounts[b].balances[t] = engine[b][t]
  BY DEF StateAgrees
<1>6. CASE Covered(a, s, x) /\ Covered(b, t, y)
  <2>1. Apply(TradeState(a, b, s, t, x, y), TradeMoves(a, b, s, t, x, y))
    BY <1>6, TradeChecks DEF Handle
  <2>2. /\ TradeState(a, b, s, t, x, y) \in State
        /\ Witnessed(TradeMoves(a, b, s, t, x, y), TradeState(a, b, s, t, x, y))
    <3>1. ~ToOneself(TradeMoves(a, b, s, t, x, y))
      <4>1. Len(TradeMoves(a, b, s, t, x, y)) = 4  BY DEF TradeMoves
      <4> QED BY <4>1 DEF ToOneself
    <3> QED BY <1>5, <3>1, TradeWitness DEF Witnessed
  <2>3. ASSUME NEW c \in Accounts, NEW u \in Tokens
        PROVE  Near(TradeState(a, b, s, t, x, y)[c].balances[u], engine'[c][u], selfSent'[c][u])
    BY TradeAgrees
  <2>4. ASSUME NEW c \in Accounts
        PROVE  TradeState(a, b, s, t, x, y)[c].key <=> c \in registered'
    <3>1. TradeState(a, b, s, t, x, y)[c].key = accounts[c].key  BY TradeAgrees
    <3> QED BY <3>1
  <2> QED BY <1>2, <2>1, <2>2, <2>3, <2>4, ApplyStep
<1>7. CASE ~Covered(a, s, x)
  <2>1. TradeCheck(a, b, s, t, x, y) = "balance_1to2"  BY <1>7, TradeChecks
  <2>2. engine'[a][s] = 0 /\ accounts[a].balances[s] > 0
    BY <1>5, <1>7, EngineTrade DEF Covered, TokenBalance
  <2> QED BY <1>3, <2>1, <2>2 DEF Panics
<1>8. CASE Covered(a, s, x) /\ ~Covered(b, t, y)
  <2>1. TradeCheck(a, b, s, t, x, y) = "balance_2to1"  BY <1>8, TradeChecks
  <2>2. engine'[b][t] = 0 /\ accounts[b].balances[t] > 0
    BY <1>5, <1>8, EngineTrade DEF Covered, TokenBalance
  <2> QED BY <1>3, <2>1, <2>2 DEF Panics
<1> QED BY <1>6, <1>7, <1>8

LEMMA NopStep ==
  ASSUME IInv, Nop
  PROVE  Step
<1>1. /\ Running /\ engine' = engine /\ registered' = registered /\ selfSent' = selfSent
      /\ Apply(accounts, <<>>)
  BY DEF Nop, Handle
<1>f. RunningFacts  BY <1>1, RunningInv
<1> USE <1>f, <1>1 DEF RunningFacts
<1>2. Witnessed(<<>>, accounts)  BY DEF Witnessed, Verifies, ToOneself
<1> QED BY <1>1, <1>2, ApplyStep

-----------------------------------------------------------------------------
LEMMA InitInv == Init => IInv
<1> SUFFICES ASSUME Init PROVE IInv  OBVIOUS
<1>1. Empty \in State
  BY DEF Empty, State, Account, EmptyAccount
<1>2. /\ rawTx.moves = <<>> /\ rawTx.before = Empty /\ rawTx.after = Empty
      /\ accounts = Empty
  BY DEF Init, RawTx
<1>3. TypeOK
  <2>1. 0 \in 0 .. MaxTxs  BY LedgerAssumption
  <2> QED BY <1>1, <1>2, <2>1 DEF Init, TypeOK, HasAccount, Empty, EmptyAccount
<1>4. BalancesAgree  BY <1>2 DEF Init, BalancesAgree, Empty, EmptyAccount
<1>5. ChecksPass  BY DEF Init, ChecksPass
<1>6. WitnessChecks  BY <1>2 DEF WitnessChecks, Verifies, ToOneself
<1> QED BY <1>2, <1>3, <1>4, <1>5, <1>6 DEF IInv

LEMMA NextInv == IInv /\ [Next]_vars => Step
<1> SUFFICES ASSUME IInv, [Next]_vars PROVE Step  OBVIOUS
<1>1. ASSUME NEW a \in Accounts, Register(a) PROVE Step  BY <1>1, RegisterStep
<1>2. ASSUME NEW a \in Accounts, NEW t \in Tokens, NEW x \in Amounts, Deposit(a, t, x)
      PROVE  Step
  BY <1>2, DepositStep
<1>3. ASSUME NEW a \in Accounts, NEW t \in Tokens, NEW x \in Amounts, Withdraw(a, t, x)
      PROVE  Step
  BY <1>3, WithdrawStep
<1>4. ASSUME NEW a \in Accounts, NEW b \in Accounts, NEW t \in Tokens, NEW x \in Amounts,
             Transfer(a, b, t, x)
      PROVE  Step
  BY <1>4, TransferStep
<1>5. ASSUME NEW a \in Accounts, NEW b \in Accounts, NEW s \in Tokens, NEW t \in Tokens,
             NEW x \in Amounts, NEW y \in Amounts, Trade(a, b, s, t, x, y)
      PROVE  Step
  BY <1>5, TradeStep
<1>6. CASE Nop  BY <1>6, NopStep
<1>7. CASE UNCHANGED vars
  BY <1>7 DEF vars, history, Step, IInv, TypeOK, BalancesAgree, ChecksPass, WitnessChecks,
              HasAccount
<1> QED BY <1>1, <1>2, <1>3, <1>4, <1>5, <1>6, <1>7 DEF Next

THEOREM Invariance == Spec => []IInv
<1>1. IInv /\ [Next]_vars => IInv'  BY NextInv DEF Step
<1> QED BY InitInv, <1>1, PTL DEF Spec

\* Accounts, balances and roots stay well formed: no balance, of the node or of
\* the engine, ever becomes negative, and a registered user has an account.
THEOREM TypeCorrect == Spec => []TypeOK
<1>1. IInv => TypeOK  BY DEF IInv
<1> QED BY Invariance, <1>1, PTL

\* The balances the node computes are those of the matching engine, for any
\* number of accounts, tokens and transactions, but for what an account sent to itself.
THEOREM BalancesStayNear == Spec => []BalancesAgree
<1>1. IInv => BalancesAgree  BY DEF IInv
<1> QED BY Invariance, <1>1, PTL

\* The only checks of the handlers that the engine's messages can fail are the one
\* of full_spot_trade, on a trade that spends a whole balance, and those of a balance
\* that was sent to itself.
THEOREM TwoReasonsToStop == Spec => []ChecksPass
<1>1. IInv => ChecksPass  BY DEF IInv
<1> QED BY Invariance, <1>1, PTL

\* The paths of every raw transaction are taken at the moment the circuits need:
\* its moves lead from the root before it to the root after it, unless it is a
\* transfer to oneself, whose moves never do.
THEOREM WitnessesVerify == Spec => []WitnessChecks
<1>1. IInv => WitnessChecks  BY DEF IInv
<1> QED BY Invariance, <1>1, PTL

\* The roots of consecutive raw transactions chain up.
THEOREM RootsChainUp == Spec => RootsChain
<1>1. IInv /\ [Next]_vars => [rawTx' # rawTx => rawTx'.before = rawTx.after]_vars
  BY NextInv DEF Step
<1> QED BY Invariance, <1>1, PTL DEF Spec, RootsChain

-----------------------------------------------------------------------------
(* The query of a block.  A step either makes a transaction, from the      *)
(* accounts to the state of its handler, and remembers its payload, or     *)
(* stops the node and leaves both alone; so the balances a payload is      *)
(* decoded to need only be compared with the accounts and with what was    *)
(* said of that state above, balance by balance.  The invariant of Ledger  *)
(* is what makes the new balances natural numbers, from which the old ones *)
(* are computed back.                                                      *)


\* what DecodedAgrees says of one balance, of a transaction from one state to another
Told(p, change, before, after) ==
  \/ /\ change.old = before[change.account].balances[change.token]
     /\ change.new = after[change.account].balances[change.token]
  \/ p.type = "transfer" /\ change.account = p.account2

LEMMA ChangeFields ==
  ASSUME NEW a, NEW t, NEW old, NEW new
  PROVE  LET change == Change(a, t, old, new)
         IN  /\ change.account = a /\ change.token = t
             /\ change.old = old /\ change.new = new
BY DEF Change

\* A handler that makes its transaction leaves a payload of that transaction; one
\* that stops the node leaves the payload of the last.
LEMMA HandleTells ==
  ASSUME DecodedAgrees, Running, NEW check, NEW balances, NEW state, NEW moves, NEW p,
         Handle(check, balances, state, moves), Pays(p),
         check = "none" => \A change \in Decoded(p) : Told(p, change, accounts, state)
  PROVE  DecodedAgrees'
<1>1. CASE check = "none"
  <2>1. /\ rawTx'.before = accounts /\ rawTx'.after = state /\ payload' = p
    BY <1>1 DEF Handle, Apply, RawTx, Pays, Running
  <2>2. \A change \in Decoded(payload') : Told(payload', change, rawTx'.before, rawTx'.after)
    BY <1>1, <2>1
  <2> QED BY <2>2 DEF DecodedAgrees, Told, Decoded, DecodedTransfer, DecodedTrade, Change
<1>2. CASE check # "none"
  <2>1. rawTx' = rawTx /\ payload' = payload
    BY <1>2 DEF Handle, Stop, Pays
  <2> QED BY <2>1 DEF DecodedAgrees, Decoded, DecodedTransfer, DecodedTrade, Change
<1> QED BY <1>1, <1>2

-----------------------------------------------------------------------------
(* The payloads, field by field, and what they are decoded to. *)

LEMMA OneAccountDecoded ==
  ASSUME NEW type \in {"deposit", "withdraw"}, NEW a, NEW t, NEW x, NEW old, NEW new
  PROVE  Decoded(OneAccount(type, a, t, x, old, new)) = {Change(a, t, old, new)}
<1> DEFINE p == OneAccount(type, a, t, x, old, new)
<1>1. /\ p.type = type /\ p.account1 = a /\ p.token1 = t
      /\ p.balance1 = old /\ p.balance2 = new
  BY DEF OneAccount
<1> HIDE DEF p
<1>2. Decoded(p) = {Change(a, t, old, new)}
  BY <1>1 DEF Decoded
<1> QED BY <1>2 DEF p

LEMMA TransferDecoded ==
  ASSUME NEW a, NEW b, NEW t, NEW x
  PROVE  LET p == TransferPayload(a, b, t, x)
         IN  /\ p.type = "transfer" /\ p.account2 = b
             /\ Decoded(p) =
                  {Change(a, t, TokenBalance(a, t), TokenBalance(a, t) - x),
                   Change(b, t, TokenBalance(a, t) - x, TokenBalance(a, t))}
<1> DEFINE p == TransferPayload(a, b, t, x)
<1>1. PICK old : old = TokenBalance(a, t)
  OBVIOUS
<1>2. /\ p.type = "transfer" /\ p.account1 = a /\ p.account2 = b /\ p.token1 = t
      /\ p.amount1 = x /\ p.balance1 = old
  BY <1>1 DEF TransferPayload, OneAccount
<1> HIDE DEF p
<1>3. Decoded(p) = DecodedTransfer(p)
  BY <1>2 DEF Decoded
<1>4. DecodedTransfer(p) = {Change(a, t, old, old - x), Change(b, t, old - x, old)}
  BY <1>2 DEF DecodedTransfer
<1> QED BY <1>1, <1>2, <1>3, <1>4 DEF p

LEMMA TradeDecoded ==
  ASSUME NEW a, NEW b, NEW s, NEW t, NEW x, NEW y
  PROVE  Decoded(TradePayload(a, b, s, t, x, y)) =
           {Change(a, s, TokenBalance(a, s), TokenBalance(a, s) - x),
            Change(a, t, (TokenBalance(a, t) + y) - y, TokenBalance(a, t) + y),
            Change(b, t, TokenBalance(b, t), TokenBalance(b, t) - y),
            Change(b, s, (TokenBalance(b, s) + x) - x, TokenBalance(b, s) + x)}
<1> DEFINE p == TradePayload(a, b, s, t, x, y)
<1>1. PICK b1, b2, b3, b4 :
        /\ b1 = TokenBalance(a, s) /\ b2 = TokenBalance(b, s) + x
        /\ b3 = TokenBalance(b, t) /\ b4 = TokenBalance(a, t) + y
  OBVIOUS
<1>2. /\ p.type = "trade" /\ p.account1 = a /\ p.account2 = b
      /\ p.token1 = s /\ p.token2 = t /\ p.amount1 = x /\ p.amount2 = y
      /\ p.balance1 = b1 /\ p.balance2 = b2 /\ p.balance3 = b3 /\ p.balance4 = b4
  BY <1>1 DEF TradePayload
<1> HIDE DEF p
<1>3. Decoded(p) = DecodedTrade(p)
  BY <1>2 DEF Decoded
<1>4. DecodedTrade(p) = {Change(a, s, b1, b1 - x), Change(a, t, b4 - y, b4),
                         Change(b, t, b3, b3 - y), Change(b, s, b2 - x, b2)}
  BY <1>2 DEF DecodedTrade
<1> QED BY <1>1, <1>3, <1>4 DEF p

-----------------------------------------------------------------------------
(* The transactions. *)

LEMMA RegisterTells ==
  ASSUME IInv, DecodedAgrees, NEW a \in Accounts, Register(a), Pays(KeyUpdatePayload(a))
  PROVE  DecodedAgrees'
<1> DEFINE p == KeyUpdatePayload(a)
<1>1. Running /\ TypeOK /\ FakeToken \in Tokens
  BY LedgerAssumption DEF Register, IInv
<1>2. Decoded(p) = {Change(a, FakeToken, TokenBalance(a, FakeToken), TokenBalance(a, FakeToken))}
  BY OneAccountDecoded DEF KeyUpdatePayload
<1>3. KeyUpdateState(a)[a].balances[FakeToken] = TokenBalance(a, FakeToken)
  BY <1>1, KeyUpdatePoint DEF TokenBalance
<1>4. \A change \in Decoded(p) : Told(p, change, accounts, KeyUpdateState(a))
  BY <1>2, <1>3, ChangeFields DEF Told, TokenBalance
<1> HIDE DEF p
<1>5. PICK check, balances : Handle(check, balances, KeyUpdateState(a), KeyUpdateMoves(a))
  BY DEF Register
<1> QED BY <1>1, <1>4, <1>5, HandleTells DEF p

LEMMA DepositTells ==
  ASSUME IInv, DecodedAgrees, NEW a \in Accounts, NEW t \in Tokens, NEW x \in Amounts,
         Deposit(a, t, x), Pays(DepositPayload(a, t, x))
  PROVE  DecodedAgrees'
<1> DEFINE p == DepositPayload(a, t, x)
<1>1. Running /\ TypeOK /\ x \in Nat
  BY LedgerAssumption DEF Deposit, IInv
<1>2. Decoded(p) = {Change(a, t, TokenBalance(a, t), TokenBalance(a, t) + x)}
  BY OneAccountDecoded DEF DepositPayload
<1>3. DepositState(a, t, x)[a].balances[t] = TokenBalance(a, t) + x
  BY <1>1, DepositPoint DEF TokenBalance
<1>4. \A change \in Decoded(p) : Told(p, change, accounts, DepositState(a, t, x))
  BY <1>2, <1>3, ChangeFields DEF Told, TokenBalance
<1> HIDE DEF p
<1>5. PICK check, balances : Handle(check, balances, DepositState(a, t, x), DepositMoves(a, t, x))
  BY DEF Deposit
<1> QED BY <1>1, <1>4, <1>5, HandleTells DEF p

LEMMA WithdrawTells ==
  ASSUME IInv, DecodedAgrees, NEW a \in Accounts, NEW t \in Tokens, NEW x \in Amounts,
         Withdraw(a, t, x), Pays(WithdrawPayload(a, t, x))
  PROVE  DecodedAgrees'
<1> DEFINE p == WithdrawPayload(a, t, x)
<1>1. /\ Running /\ TypeOK /\ x \in Nat /\ engine[a][t] >= x
      /\ Handle(BalanceCheck(a, t), {<<a, t>>}, WithdrawState(a, t, x), WithdrawMoves(a, t, x))
  BY LedgerAssumption DEF Withdraw, IInv
<1>2. Decoded(p) = {Change(a, t, TokenBalance(a, t), TokenBalance(a, t) - x)}
  BY OneAccountDecoded DEF WithdrawPayload
<1>3. ASSUME BalanceCheck(a, t) = "none"
      PROVE  \A change \in Decoded(p) : Told(p, change, accounts, WithdrawState(a, t, x))
  <2>1. accounts[a].balances[t] >= x  BY <1>1, <1>3 DEF BalanceCheck, TokenBalance
  <2>2. WithdrawState(a, t, x)[a].balances[t] = TokenBalance(a, t) - x
    BY <1>1, <2>1, WithdrawPoint DEF TokenBalance
  <2> QED BY <1>2, <2>2, ChangeFields DEF Told, TokenBalance
<1> HIDE DEF p
<1> QED BY <1>1, <1>3, HandleTells DEF p

\* Of a transfer to oneself both balances are those of the receiver.
LEMMA TransferTells ==
  ASSUME IInv, DecodedAgrees, NEW a \in Accounts, NEW b \in Accounts,
         NEW t \in Tokens, NEW x \in Amounts,
         Transfer(a, b, t, x), Pays(TransferPayload(a, b, t, x))
  PROVE  DecodedAgrees'
<1> DEFINE p == TransferPayload(a, b, t, x)
           check == TransferCheck(a, b, t, x)
<1>1. Running /\ TypeOK /\ x \in Nat
  BY LedgerAssumption DEF Transfer, IInv
<1>2. PICK toLast \in BOOLEAN :
        Handle(check, {<<a, t>>, <<b, t>>}, TransferState(a, b, t, x, toLast),
               TransferMoves(a, b, t, x, toLast))
  BY DEF Transfer
<1>3. /\ p.type = "transfer" /\ p.account2 = b
      /\ Decoded(p) = {Change(a, t, TokenBalance(a, t), TokenBalance(a, t) - x),
                       Change(b, t, TokenBalance(a, t) - x, TokenBalance(a, t))}
  BY TransferDecoded
<1>4. ASSUME check = "none"
      PROVE  \A change \in Decoded(p) :
               Told(p, change, accounts, TransferState(a, b, t, x, toLast))
  <2>1. accounts[a].balances[t] >= x
    <3>1. accounts[a].balances[t] \in Nat  BY <1>1 DEF TypeOK, State, Account
    <3> QED BY <1>1, <1>4, <3>1 DEF TransferCheck, TokenBalance
  <2> HIDE DEF p
  <2>2. CASE a # b
    <3>1. TransferState(a, b, t, x, toLast)[a].balances[t] = TokenBalance(a, t) - x
      BY <1>1, <2>1, <2>2, TransferPoint DEF TokenBalance
    <3> QED BY <1>3, <3>1, ChangeFields DEF Told, TokenBalance
  <2>3. CASE a = b
    BY <1>3, <2>3, ChangeFields DEF Told
  <2> QED BY <2>2, <2>3
<1> HIDE DEF p, check
<1> QED BY <1>1, <1>2, <1>4, HandleTells DEF p

LEMMA TradeTells ==
  ASSUME IInv, DecodedAgrees, NEW a \in Accounts, NEW b \in Accounts,
         NEW s \in Tokens, NEW t \in Tokens, NEW x \in Amounts, NEW y \in Amounts,
         Trade(a, b, s, t, x, y), Pays(TradePayload(a, b, s, t, x, y))
  PROVE  DecodedAgrees'
<1> DEFINE p     == TradePayload(a, b, s, t, x, y)
           after == TradeState(a, b, s, t, x, y)
           check == TradeCheck(a, b, s, t, x, y)
<1>1. /\ Running /\ TypeOK /\ a # b /\ s # t /\ x \in Nat /\ y \in Nat
      /\ engine[a][s] >= x /\ engine[b][t] >= y
      /\ \A c \in Accounts, u \in Tokens : accounts[c].balances[u] \in Nat
      /\ Handle(check, {a, b} \X {s, t}, after, TradeMoves(a, b, s, t, x, y))
  <2>1. /\ Running /\ a # b /\ s # t /\ engine[a][s] >= x /\ engine[b][t] >= y
        /\ Handle(check, {a, b} \X {s, t}, after, TradeMoves(a, b, s, t, x, y))
    BY DEF Trade
  <2> QED BY <2>1, RunningInv, LedgerAssumption DEF RunningFacts
<1>2. Decoded(p) =
        {Change(a, s, TokenBalance(a, s), TokenBalance(a, s) - x),
         Change(a, t, (TokenBalance(a, t) + y) - y, TokenBalance(a, t) + y),
         Change(b, t, TokenBalance(b, t), TokenBalance(b, t) - y),
         Change(b, s, (TokenBalance(b, s) + x) - x, TokenBalance(b, s) + x)}
  BY TradeDecoded
<1>3. /\ (TokenBalance(a, t) + y) - y = TokenBalance(a, t)
      /\ (TokenBalance(b, s) + x) - x = TokenBalance(b, s)
  BY <1>1 DEF TokenBalance
<1>4. ASSUME check = "none"
      PROVE  \A change \in Decoded(p) : Told(p, change, accounts, after)
  <2>1. accounts[a].balances[s] >= x /\ accounts[b].balances[t] >= y
    <3>1. StateAgrees(accounts, engine, a, b, s, t)  BY <1>4 DEF TradeCheck
    <3> QED BY <1>1, <3>1 DEF StateAgrees
  <2>2. /\ after[a].balances[s] = TokenBalance(a, s) - x
        /\ after[a].balances[t] = TokenBalance(a, t) + y
        /\ after[b].balances[t] = TokenBalance(b, t) - y
        /\ after[b].balances[s] = TokenBalance(b, s) + x
    BY <1>1, <2>1, TradePoint DEF TokenBalance
  <2> HIDE DEF p, after
  <2> SUFFICES ASSUME NEW change \in Decoded(p)
               PROVE  /\ change.old = accounts[change.account].balances[change.token]
                      /\ change.new = after[change.account].balances[change.token]
    BY DEF Told
  <2>3. \/ change = Change(a, s, TokenBalance(a, s), TokenBalance(a, s) - x)
        \/ change = Change(a, t, TokenBalance(a, t), TokenBalance(a, t) + y)
        \/ change = Change(b, t, TokenBalance(b, t), TokenBalance(b, t) - y)
        \/ change = Change(b, s, TokenBalance(b, s), TokenBalance(b, s) + x)
    BY <1>2, <1>3
  <2> QED BY <2>2, <2>3, ChangeFields DEF TokenBalance
<1> HIDE DEF p, after, check
<1> QED BY <1>1, <1>4, HandleTells DEF p

LEMMA NopTells ==
  ASSUME DecodedAgrees, Nop, Pays(NoPayload)
  PROVE  DecodedAgrees'
<1>1. Decoded(NoPayload) = {}
  BY DEF Decoded, NoPayload
<1>2. Running /\ Handle("none", {}, accounts, <<>>)
  BY DEF Nop
<1> QED BY <1>1, <1>2, HandleTells

-----------------------------------------------------------------------------
(* The theorem. *)

\* A behaviour of BlockQuery is one of Ledger: payloads change nothing.
LEMMA QueryIsLedger ==
  /\ QueryInit => Init
  /\ [QueryNext]_queryVars => [Next]_vars
BY DEF QueryInit, QueryNext, Next, queryVars

LEMMA NextTells ==
  ASSUME IInv, DecodedAgrees, [QueryNext]_queryVars
  PROVE  DecodedAgrees'
<1>1. CASE \E a \in Accounts : Register(a) /\ Pays(KeyUpdatePayload(a))
  BY <1>1, RegisterTells
<1>2. CASE \E a \in Accounts, t \in Tokens, x \in Amounts :
             Deposit(a, t, x) /\ Pays(DepositPayload(a, t, x))
  BY <1>2, DepositTells
<1>3. CASE \E a \in Accounts, t \in Tokens, x \in Amounts :
             Withdraw(a, t, x) /\ Pays(WithdrawPayload(a, t, x))
  BY <1>3, WithdrawTells
<1>4. CASE \E a, b \in Accounts, t \in Tokens, x \in Amounts :
             Transfer(a, b, t, x) /\ Pays(TransferPayload(a, b, t, x))
  BY <1>4, TransferTells
<1>5. CASE \E a, b \in Accounts, s, t \in Tokens, x, y \in Amounts :
             Trade(a, b, s, t, x, y) /\ Pays(TradePayload(a, b, s, t, x, y))
  BY <1>5, TradeTells
<1>6. CASE Nop /\ Pays(NoPayload)
  BY <1>6, NopTells
<1>7. CASE UNCHANGED queryVars
  <2>1. rawTx' = rawTx /\ payload' = payload
    BY <1>7 DEF queryVars, vars
  <2> QED BY <2>1 DEF DecodedAgrees, Decoded, DecodedTransfer, DecodedTrade, Change
<1> QED BY <1>1, <1>2, <1>3, <1>4, <1>5, <1>6, <1>7 DEF QueryNext

\* For any accounts, tokens and amounts, l2_block_query reports of every transaction the
\* balances its account had before and after it, but for the receiver of a transfer.
THEOREM BlocksToldRight == QuerySpec => []DecodedAgrees
<1>1. QueryInit => IInv /\ DecodedAgrees
  <2>1. QueryInit => IInv
    BY QueryIsLedger, InitInv
  <2>2. QueryInit => DecodedAgrees
    BY DEF QueryInit, DecodedAgrees, Decoded, NoPayload
  <2> QED BY <2>1, <2>2
<1>2. IInv /\ DecodedAgrees /\ [QueryNext]_queryVars => (IInv /\ DecodedAgrees)'
  <2>1. ASSUME IInv, [QueryNext]_queryVars PROVE IInv'
    BY <2>1, QueryIsLedger, NextInv DEF Step
  <2> QED BY <2>1, NextTells
<1> QED BY <1>1, <1>2, PTL DEF QuerySpec

=============================================================================
