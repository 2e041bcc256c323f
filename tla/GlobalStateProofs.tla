-------------------------- MODULE GlobalStateProofs --------------------------
(***************************************************************************)
(* Proofs about GlobalState, for any accounts, tokens, slots, values,      *)
(* workers and number of transactions: the two truths of every root agree, *)
(* a dump gives back every account without a twin, queries see committed   *)
(* balances, and a parallel batch is serial.                               *)
(*                                                                         *)
(* First the operations on a state, then the steps.  An account's roots    *)
(* are behind its trees only while a batch holds it (Touched), and an      *)
(* account has no key only while the handler that registers it is on its   *)
(* way (KeyPending): that is what the inductive invariant adds to types.   *)
(***************************************************************************)
EXTENDS GlobalState, FiniteSetTheorems, WellFoundedInduction, TLAPS

Account(n) ==
  [key : Keys \cup {NoKey}, nonce : 0 .. n,
   balanceRoot : [Tokens -> Balances], orderRoot : [Slots -> OrderHashes]]

\* a record of the four maps
Shaped(st) ==
  st = [accountTree |-> st.accountTree, accountStates |-> st.accountStates,
        balanceTrees |-> st.balanceTrees, orderTrees |-> st.orderTrees]

\* a state whose nonces are at most n
Typed(st, n) ==
  /\ Shaped(st)
  /\ Known(st) \subseteq Accounts
  /\ st.accountStates \in [Known(st) -> Account(n)]
  /\ st.balanceTrees \in [Known(st) -> [Tokens -> Balances]]
  /\ st.orderTrees \in [Known(st) -> [Slots -> OrderHashes]]
  /\ DOMAIN st.accountTree \subseteq Accounts

Agrees(st, a) ==
  /\ st.accountStates[a].balanceRoot = st.balanceTrees[a]
  /\ st.accountStates[a].orderRoot = st.orderTrees[a]
  /\ LeafOf(st, a) = Hash(st.accountStates[a])

\* nothing of account a differs
Same(st, new, a) ==
  /\ new.accountStates[a] = st.accountStates[a]
  /\ new.balanceTrees[a] = st.balanceTrees[a]
  /\ new.orderTrees[a] = st.orderTrees[a]
  /\ LeafOf(new, a) = LeafOf(st, a)

\* updates of a batch
Updates(n) ==
  [account : Accounts, balances : Seq(Tokens \X Balances),
   orders : Seq(Slots \X OrderHashes), nonce : {-1} \cup 0 .. n]

-----------------------------------------------------------------------------
(* Operations on a state. *)

\* set_value on the account tree writes one leaf and nothing else.
LEMMA SetLeafResult ==
  ASSUME NEW n \in Nat, NEW st, Typed(st, n), NEW a \in Known(st)
  PROVE  /\ Typed(SetLeaf(st, a), n)
         /\ SetLeaf(st, a).accountStates = st.accountStates
         /\ SetLeaf(st, a).balanceTrees = st.balanceTrees
         /\ SetLeaf(st, a).orderTrees = st.orderTrees
         /\ LeafOf(SetLeaf(st, a), a) = Hash(st.accountStates[a])
         /\ \A b \in Accounts \ {a} : LeafOf(SetLeaf(st, a), b) = LeafOf(st, b)
<1> DEFINE new == InsertLeaf(st, a)
<1>1. /\ new.accountStates = st.accountStates
      /\ new.balanceTrees = st.balanceTrees
      /\ new.orderTrees = st.orderTrees
      /\ new.accountTree = Put(st.accountTree, a, Hash(st.accountStates[a]))
      /\ Shaped(new)
  BY DEF InsertLeaf, Typed, Shaped
<1>2. /\ DOMAIN new.accountTree = DOMAIN st.accountTree \cup {a}
      /\ new.accountTree[a] = Hash(st.accountStates[a])
      /\ \A b \in DOMAIN st.accountTree \ {a} : new.accountTree[b] = st.accountTree[b]
  BY <1>1 DEF Put
<1> HIDE DEF new
<1>3. Typed(new, n)
  BY <1>1, <1>2 DEF Typed, Known
<1>4. /\ LeafOf(new, a) = Hash(st.accountStates[a])
      /\ \A b \in Accounts \ {a} : LeafOf(new, b) = LeafOf(st, b)
  BY <1>2 DEF LeafOf
<1>5. CASE LeafOf(st, a) = Hash(st.accountStates[a])
  BY <1>5 DEF SetLeaf
<1>6. CASE LeafOf(st, a) # Hash(st.accountStates[a])
  BY <1>6, <1>1, <1>3, <1>4 DEF SetLeaf, new
<1> QED BY <1>5, <1>6

\* A flushed account agrees, whatever its state remembered; others are untouched.
LEMMA FlushResult ==
  ASSUME NEW n \in Nat, NEW st, Typed(st, n), NEW a \in Known(st)
  PROVE  /\ Typed(Flush(st, a), n) /\ Known(Flush(st, a)) = Known(st)
         /\ Agrees(Flush(st, a), a)
         /\ Flush(st, a).accountStates[a].key = st.accountStates[a].key
         /\ Flush(st, a).balanceTrees = st.balanceTrees
         /\ \A b \in Known(st) \ {a} : Same(st, Flush(st, a), b)
<1> DEFINE account == [st.accountStates[a] EXCEPT !.balanceRoot = st.balanceTrees[a],
                                                  !.orderRoot = st.orderTrees[a]]
           mid == [st EXCEPT !.accountStates[a] = account]
<1>1. account \in Account(n) /\ account.key = st.accountStates[a].key
      /\ account.balanceRoot = st.balanceTrees[a] /\ account.orderRoot = st.orderTrees[a]
  BY DEF Typed, Account
<1>5. Flush(st, a) = SetLeaf(mid, a)  BY DEF Flush, Recalculated
<1> HIDE DEF account
<1>2. /\ mid.accountTree = st.accountTree
      /\ mid.balanceTrees = st.balanceTrees /\ mid.orderTrees = st.orderTrees
      /\ mid.accountStates = [st.accountStates EXCEPT ![a] = account]
      /\ Shaped(mid)
  <2>1. Shaped(st)  BY DEF Typed
  <2> QED BY <2>1 DEF Shaped
<1> HIDE DEF mid
<1>3. /\ Known(mid) = Known(st)
      /\ \A b \in Known(st) \ {a} : mid.accountStates[b] = st.accountStates[b]
      /\ mid.accountStates[a] = account
  BY <1>2 DEF Known, Typed
<1>4. Typed(mid, n)
  BY <1>1, <1>2, <1>3 DEF Typed, Known
<1>6. a \in Known(mid)  BY <1>3
<1> DEFINE new == SetLeaf(mid, a)
<1>7. /\ Typed(new, n)
      /\ new.accountStates = mid.accountStates
      /\ new.balanceTrees = mid.balanceTrees
      /\ new.orderTrees = mid.orderTrees
      /\ LeafOf(new, a) = Hash(mid.accountStates[a])
      /\ \A b \in Accounts \ {a} : LeafOf(new, b) = LeafOf(mid, b)
  BY <1>4, <1>6, SetLeafResult
<1> HIDE DEF new
<1>8. \A b \in Accounts : LeafOf(mid, b) = LeafOf(st, b)
  BY <1>2 DEF LeafOf
<1>9. Known(st) \subseteq Accounts  BY DEF Typed
<1>10. Agrees(new, a)
  BY <1>1, <1>2, <1>3, <1>7 DEF Agrees
<1>11. \A b \in Known(st) \ {a} : Same(st, new, b)
  BY <1>2, <1>3, <1>7, <1>8, <1>9 DEF Same
<1>12. Known(new) = Known(st)
  BY <1>3, <1>7 DEF Known
<1> QED BY <1>1, <1>2, <1>3, <1>5, <1>7, <1>10, <1>11, <1>12 DEF new

\* More transactions may make larger nonces.
LEMMA TypedMore ==
  ASSUME NEW n \in Nat, NEW st, Typed(st, n)
  PROVE  Typed(st, n + 1)
<1>1. Account(n) \subseteq Account(n + 1)  BY DEF Account
<1> QED BY <1>1 DEF Typed

\* init_account leaves a known account alone and makes an unknown one empty.
LEMMA InitAccountResult ==
  ASSUME NEW n \in Nat, NEW st, Typed(st, n), NEW a \in Accounts
  PROVE  /\ Typed(InitAccount(st, a), n)
         /\ Known(InitAccount(st, a)) = Known(st) \cup {a}
         /\ InitAccount(st, a).accountStates[a].key
              = IF a \in Known(st) THEN st.accountStates[a].key ELSE NoKey
         /\ InitAccount(st, a).balanceTrees[a]
              = IF a \in Known(st) THEN st.balanceTrees[a] ELSE EmptyBalances
         /\ \A b \in Known(st) \ {a} : Same(st, InitAccount(st, a), b)
<1>1. CASE a \in Known(st)
  BY <1>1 DEF InitAccount, Same
<1>2. CASE a \notin Known(st)
  <2> DEFINE states == Put(st.accountStates, a, EmptyAccount)
             balances == Put(st.balanceTrees, a, EmptyBalances)
             orders == Put(st.orderTrees, a, EmptyOrders)
             mid == [accountTree |-> st.accountTree, accountStates |-> states,
                     balanceTrees |-> balances, orderTrees |-> orders]
  <2>1. InitAccount(st, a) = SetLeaf(mid, a)  BY <1>2 DEF InitAccount
  <2>2. EmptyAccount \in Account(n) /\ EmptyAccount.key = NoKey
        /\ EmptyBalances \in [Tokens -> Balances] /\ EmptyOrders \in [Slots -> OrderHashes]
    BY GlobalStateAssumption DEF EmptyAccount, Account, EmptyBalances, EmptyOrders
  <2>3. /\ states \in [Known(st) \cup {a} -> Account(n)]
        /\ balances \in [Known(st) \cup {a} -> [Tokens -> Balances]]
        /\ orders \in [Known(st) \cup {a} -> [Slots -> OrderHashes]]
        /\ states[a] = EmptyAccount /\ balances[a] = EmptyBalances
        /\ \A b \in Known(st) \ {a} : /\ states[b] = st.accountStates[b]
                                      /\ balances[b] = st.balanceTrees[b]
                                      /\ orders[b] = st.orderTrees[b]
    BY <2>2 DEF Put, Typed, Known
  <2> HIDE DEF states, balances, orders
  <2>4. /\ mid.accountTree = st.accountTree /\ mid.accountStates = states
        /\ mid.balanceTrees = balances /\ mid.orderTrees = orders
        /\ Shaped(mid)
    BY DEF Shaped
  <2> HIDE DEF mid
  <2>5. Known(mid) = Known(st) \cup {a}  BY <2>3, <2>4 DEF Known
  <2>6. Typed(mid, n)
    BY <2>3, <2>4, <2>5 DEF Typed
  <2>7. a \in Known(mid)  BY <2>5
  <2> DEFINE new == SetLeaf(mid, a)
  <2>8. /\ Typed(new, n)
        /\ new.accountStates = states /\ new.balanceTrees = balances
        /\ new.orderTrees = orders
        /\ \A b \in Accounts \ {a} : LeafOf(new, b) = LeafOf(mid, b)
    BY <2>4, <2>6, <2>7, SetLeafResult
  <2> HIDE DEF new
  <2>9. \A b \in Accounts : LeafOf(mid, b) = LeafOf(st, b)  BY <2>4 DEF LeafOf
  <2>10. Known(st) \subseteq Accounts  BY DEF Typed
  <2>11. \A b \in Known(st) \ {a} : Same(st, new, b)
    BY <2>3, <2>8, <2>9, <2>10 DEF Same
  <2>12. Known(new) = Known(st) \cup {a}  BY <2>3, <2>8 DEF Known
  <2> QED BY <1>2, <2>1, <2>2, <2>3, <2>8, <2>11, <2>12 DEF new
<1> QED BY <1>1, <1>2

\* set_token_balance leaves an account that agrees, known from now on.
LEMMA SetTokenBalanceResult ==
  ASSUME NEW n \in Nat, NEW st, Typed(st, n), NEW a \in Accounts,
         NEW t \in Tokens, NEW x \in Balances
  PROVE  /\ Typed(SetTokenBalance(st, a, t, x), n)
         /\ Known(SetTokenBalance(st, a, t, x)) = Known(st) \cup {a}
         /\ Agrees(SetTokenBalance(st, a, t, x), a)
         /\ SetTokenBalance(st, a, t, x).accountStates[a].key
              = IF a \in Known(st) THEN st.accountStates[a].key ELSE NoKey
         /\ \A b \in Known(st) \ {a} : Same(st, SetTokenBalance(st, a, t, x), b)
<1> DEFINE init == InitAccount(st, a)
           tree == [init.balanceTrees[a] EXCEPT ![t] = x]
           mid == [init EXCEPT !.balanceTrees[a] = tree]
           new == Flush(mid, a)
<1>1. SetTokenBalance(st, a, t, x) = new  BY DEF SetTokenBalance
<1>2. /\ Typed(init, n) /\ Known(init) = Known(st) \cup {a}
      /\ init.accountStates[a].key
           = IF a \in Known(st) THEN st.accountStates[a].key ELSE NoKey
      /\ \A b \in Known(st) \ {a} : Same(st, init, b)
  BY InitAccountResult
<1> HIDE DEF init
<1>3. tree \in [Tokens -> Balances]  BY <1>2 DEF Typed
<1> HIDE DEF tree
<1>4. /\ mid.accountTree = init.accountTree /\ mid.accountStates = init.accountStates
      /\ mid.balanceTrees = [init.balanceTrees EXCEPT ![a] = tree]
      /\ mid.orderTrees = init.orderTrees /\ Shaped(mid)
  <2>1. Shaped(init)  BY <1>2 DEF Typed
  <2> QED BY <2>1 DEF Shaped
<1> HIDE DEF mid
<1>5. Known(mid) = Known(init)  BY <1>4 DEF Known
<1>6. Typed(mid, n)
  BY <1>2, <1>3, <1>4, <1>5 DEF Typed
<1>7. a \in Known(mid)  BY <1>2, <1>5
<1>8. /\ Typed(new, n) /\ Known(new) = Known(mid) /\ Agrees(new, a)
      /\ new.accountStates[a].key = mid.accountStates[a].key
      /\ new.balanceTrees = mid.balanceTrees
      /\ \A b \in Known(mid) \ {a} : Same(mid, new, b)
  BY <1>6, <1>7, FlushResult
<1> HIDE DEF new
<1>9. \A b \in Known(init) \ {a} : Same(init, mid, b)
  BY <1>2, <1>4 DEF Same, LeafOf, Typed
<1>10. \A b \in Known(st) \ {a} : Same(st, new, b)
  BY <1>2, <1>5, <1>8, <1>9 DEF Same
<1> QED BY <1>1, <1>2, <1>3, <1>4, <1>5, <1>8, <1>10

\* It writes one leaf of a balance tree, a new one if the account was unknown.
LEMMA SetTokenBalanceTree ==
  ASSUME NEW n \in Nat, NEW st, Typed(st, n), NEW a \in Accounts,
         NEW t \in Tokens, NEW x \in Balances
  PROVE  SetTokenBalance(st, a, t, x).balanceTrees[a]
           = [IF a \in Known(st) THEN st.balanceTrees[a] ELSE EmptyBalances EXCEPT ![t] = x]
<1> DEFINE init == InitAccount(st, a)
           tree == [init.balanceTrees[a] EXCEPT ![t] = x]
           mid == [init EXCEPT !.balanceTrees[a] = tree]
<1>1. SetTokenBalance(st, a, t, x) = Flush(mid, a)  BY DEF SetTokenBalance
<1>2. /\ Typed(init, n) /\ Known(init) = Known(st) \cup {a}
      /\ init.balanceTrees[a] = IF a \in Known(st) THEN st.balanceTrees[a] ELSE EmptyBalances
  BY InitAccountResult
<1> HIDE DEF init
<1>3. tree \in [Tokens -> Balances]  BY <1>2 DEF Typed
<1>4. tree = [IF a \in Known(st) THEN st.balanceTrees[a] ELSE EmptyBalances EXCEPT ![t] = x]
  BY <1>2
<1> HIDE DEF tree
<1>5. /\ mid.accountTree = init.accountTree /\ mid.accountStates = init.accountStates
      /\ mid.balanceTrees = [init.balanceTrees EXCEPT ![a] = tree]
      /\ mid.orderTrees = init.orderTrees /\ Shaped(mid)
  <2>1. Shaped(init)  BY <1>2 DEF Typed
  <2> QED BY <2>1 DEF Shaped
<1> HIDE DEF mid
<1>6. Known(mid) = Known(init)  BY <1>5 DEF Known
<1>7. Typed(mid, n) /\ a \in Known(mid)
  BY <1>2, <1>3, <1>5, <1>6 DEF Typed
<1>8. Flush(mid, a).balanceTrees = mid.balanceTrees  BY <1>7, FlushResult
<1>9. mid.balanceTrees[a] = tree  BY <1>2, <1>5 DEF Typed
<1> QED BY <1>1, <1>4, <1>8, <1>9

\* set_account_l2_addr does not look at the trees: an account that agreed agrees.
LEMMA SetL2AddrResult ==
  ASSUME NEW n \in Nat, NEW st, Typed(st, n), NEW a \in Known(st), Agrees(st, a),
         NEW key \in Keys
  PROVE  /\ Typed(SetL2Addr(st, a, key), n) /\ Known(SetL2Addr(st, a, key)) = Known(st)
         /\ Agrees(SetL2Addr(st, a, key), a)
         /\ SetL2Addr(st, a, key).accountStates[a].key = key
         /\ SetL2Addr(st, a, key).balanceTrees = st.balanceTrees
         /\ \A b \in Known(st) \ {a} : Same(st, SetL2Addr(st, a, key), b)
<1> DEFINE account == [st.accountStates[a] EXCEPT !.key = key]
           mid == [st EXCEPT !.accountStates[a] = account]
           new == SetLeaf(mid, a)
<1>1. SetL2Addr(st, a, key) = new  BY DEF SetL2Addr
<1>2. account \in Account(n) /\ account.key = key
      /\ account.balanceRoot = st.balanceTrees[a] /\ account.orderRoot = st.orderTrees[a]
  BY DEF Typed, Account, Agrees
<1> HIDE DEF account
<1>3. /\ mid.accountTree = st.accountTree
      /\ mid.balanceTrees = st.balanceTrees /\ mid.orderTrees = st.orderTrees
      /\ mid.accountStates = [st.accountStates EXCEPT ![a] = account]
      /\ Shaped(mid)
  <2>1. Shaped(st)  BY DEF Typed
  <2> QED BY <2>1 DEF Shaped
<1> HIDE DEF mid
<1>4. /\ Known(mid) = Known(st) /\ mid.accountStates[a] = account
      /\ \A b \in Known(st) \ {a} : mid.accountStates[b] = st.accountStates[b]
  BY <1>3 DEF Known, Typed
<1>5. Typed(mid, n)
  BY <1>2, <1>3, <1>4 DEF Typed, Known
<1>6. a \in Known(mid) /\ Known(st) \subseteq Accounts  BY <1>4 DEF Typed
<1>7. /\ Typed(new, n) /\ new.accountStates = mid.accountStates
      /\ new.balanceTrees = mid.balanceTrees /\ new.orderTrees = mid.orderTrees
      /\ LeafOf(new, a) = Hash(mid.accountStates[a])
      /\ \A b \in Accounts \ {a} : LeafOf(new, b) = LeafOf(mid, b)
  BY <1>5, <1>6, SetLeafResult
<1> HIDE DEF new
<1>8. \A b \in Accounts : LeafOf(mid, b) = LeafOf(st, b)  BY <1>3 DEF LeafOf
<1>9. Agrees(new, a)  BY <1>2, <1>3, <1>4, <1>7 DEF Agrees
<1>10. \A b \in Known(st) \ {a} : Same(st, new, b)
  BY <1>3, <1>4, <1>6, <1>7, <1>8 DEF Same
<1>11. Known(new) = Known(st)  BY <1>4, <1>7 DEF Known
<1> QED BY <1>1, <1>2, <1>3, <1>4, <1>7, <1>9, <1>10, <1>11

\* increase_nonce flushes the account.
LEMMA IncreaseNonceResult ==
  ASSUME NEW n \in Nat, NEW st, Typed(st, n), NEW a \in Known(st)
  PROVE  /\ Typed(IncreaseNonce(st, a), n + 1)
         /\ Known(IncreaseNonce(st, a)) = Known(st)
         /\ Agrees(IncreaseNonce(st, a), a)
         /\ IncreaseNonce(st, a).accountStates[a].key = st.accountStates[a].key
         /\ IncreaseNonce(st, a).balanceTrees = st.balanceTrees
         /\ \A b \in Known(st) \ {a} : Same(st, IncreaseNonce(st, a), b)
<1> DEFINE account == [st.accountStates[a] EXCEPT !.nonce = @ + 1]
           mid == [st EXCEPT !.accountStates[a] = account]
           new == Flush(mid, a)
<1>1. IncreaseNonce(st, a) = new  BY DEF IncreaseNonce
<1>2. account \in Account(n + 1) /\ account.key = st.accountStates[a].key
  <2>1. st.accountStates[a] \in Account(n)  BY DEF Typed
  <2>2. st.accountStates[a].nonce + 1 \in 0 .. n + 1  BY <2>1 DEF Account
  <2> QED BY <2>1, <2>2 DEF Account
<1> HIDE DEF account
<1>3. /\ mid.accountTree = st.accountTree
      /\ mid.balanceTrees = st.balanceTrees /\ mid.orderTrees = st.orderTrees
      /\ mid.accountStates = [st.accountStates EXCEPT ![a] = account]
      /\ Shaped(mid)
  <2>1. Shaped(st)  BY DEF Typed
  <2> QED BY <2>1 DEF Shaped
<1> HIDE DEF mid
<1>4. /\ Known(mid) = Known(st) /\ mid.accountStates[a] = account
      /\ \A b \in Known(st) \ {a} : Same(st, mid, b)
  BY <1>3 DEF Known, Typed, Same, LeafOf
<1>5. Typed(mid, n + 1)
  <2>1. Typed(st, n + 1)  BY TypedMore
  <2> QED BY <1>2, <1>3, <1>4, <2>1 DEF Typed, Known
<1>6. a \in Known(mid)  BY <1>4
<1>7. /\ Typed(new, n + 1) /\ Known(new) = Known(mid) /\ Agrees(new, a)
      /\ new.accountStates[a].key = mid.accountStates[a].key
      /\ new.balanceTrees = mid.balanceTrees
      /\ \A b \in Known(mid) \ {a} : Same(mid, new, b)
  BY <1>5, <1>6, FlushResult
<1> HIDE DEF new
<1>8. \A b \in Known(st) \ {a} : Same(st, new, b)
  BY <1>4, <1>7 DEF Same
<1> QED BY <1>1, <1>2, <1>3, <1>4, <1>7, <1>8

-----------------------------------------------------------------------------
(* Batches. *)

\* Of finitely many positions one is the last.
LEMMA LastPosition ==
  ASSUME NEW n \in Nat, NEW S \in SUBSET (1 .. n), S # {}
  PROVE  Max(S) \in S
<1> DEFINE T == {0 .. (n - i) : i \in S}
           R == StrictSubsetOrdering(Nat)
<1>1. T \subseteq FiniteSubsetsOf(Nat) /\ T # {}
  <2>1. ASSUME NEW i \in S PROVE 0 .. (n - i) \in FiniteSubsetsOf(Nat)
    BY FS_Interval DEF FiniteSubsetsOf
  <2> QED BY <2>1
<1>2. \E x \in T : \A y \in T : ~ (<<y, x>> \in R)
  <2> HIDE DEF T, R
  <2> QED BY <1>1, FS_StrictSubsetOrderingWellFounded, WFMin DEF R
<1>3. PICK m \in S : \A i \in S : ~ (<<0 .. (n - i), 0 .. (n - m)>> \in R)
  BY <1>2
<1>4. ASSUME NEW i \in S PROVE m >= i
  <2> SUFFICES ASSUME m < i PROVE FALSE
    OBVIOUS
  <2>1. (0 .. (n - i)) \subseteq (0 .. (n - m)) /\ n - m \in 0 .. (n - m) /\ n - m \notin 0 .. (n - i)
    OBVIOUS
  <2>2. <<0 .. (n - i), 0 .. (n - m)>> \in R
    BY <2>1 DEF StrictSubsetOrdering
  <2> QED BY <2>2, <1>3
<1> QED
  BY <1>4 DEF Max

\* set_value_parallel writes values of its updates, whatever their order.
LEMMA WrittenTyped ==
  ASSUME NEW D, NEW R, NEW tree \in [D -> R], NEW updates \in Seq(D \X R)
  PROVE  Written(tree, updates) \in [D -> R]
<1> DEFINE Writes(k) == {i \in DOMAIN updates : updates[i][1] = k}
<1>1. \A i \in DOMAIN updates : updates[i][2] \in R  OBVIOUS
<1>2. \A k \in D : Writes(k) # {} => Max(Writes(k)) \in DOMAIN updates
  <2>1. DOMAIN updates = 1 .. Len(updates) /\ Len(updates) \in Nat  OBVIOUS
  <2>2. ASSUME NEW k \in D, Writes(k) # {} PROVE Max(Writes(k)) \in Writes(k)
    <3>1. Writes(k) \in SUBSET (1 .. Len(updates))  BY <2>1
    <3> QED BY <2>1, <2>2, <3>1, LastPosition
  <2> QED BY <2>2
<1>3. Written(tree, updates)
        = [k \in D |-> IF Writes(k) = {} THEN tree[k] ELSE updates[Max(Writes(k))][2]]
  BY DEF Written
<1> HIDE DEF Writes
<1> QED BY <1>1, <1>2, <1>3

\* The jobs of a batch are on trees of its accounts.
LEMMA JobsOfTyped ==
  ASSUME NEW n \in Nat, NEW updates \in Seq(Updates(n))
  PROVE  /\ JobsOf(updates) \in Seq(Jobs)
         /\ \A i \in DOMAIN JobsOf(updates) : JobsOf(updates)[i].account \in Touched(updates)
<1>1. ASSUME NEW i \in 1 .. 2 * Len(updates)
      PROVE  JobsOf(updates)[i] \in Jobs /\ JobsOf(updates)[i].account \in Touched(updates)
  <2>1. (i + 1) \div 2 \in 1 .. Len(updates)  OBVIOUS
  <2> DEFINE u == updates[(i + 1) \div 2]
  <2>2. u \in Updates(n) /\ u.account \in Touched(updates)  BY <2>1 DEF Touched
  <2>3. JobsOf(updates)[i] = IF i % 2 = 1 THEN Job("balance", u.account, u.balances, 2)
                                          ELSE Job("order", u.account, u.orders, 1)
    BY DEF JobsOf
  <2> HIDE DEF u
  <2> QED BY <2>2, <2>3 DEF Updates, Jobs, Job
<1>2. DOMAIN JobsOf(updates) = 1 .. 2 * Len(updates) /\ 2 * Len(updates) \in Nat
  BY DEF JobsOf
<1>3. JobsOf(updates) = [i \in 1 .. 2 * Len(updates) |-> JobsOf(updates)[i]]
  BY DEF JobsOf
<1> QED BY <1>1, <1>2, <1>3

\* A job changes one tree of its account and nothing the account remembers.
LEMMA JobDoneResult ==
  ASSUME NEW n \in Nat, NEW st, Typed(st, n), NEW job \in Jobs, job.account \in Known(st)
  PROVE  /\ Typed(JobDone(st, job), n) /\ Known(JobDone(st, job)) = Known(st)
         /\ JobDone(st, job).accountStates = st.accountStates
         /\ JobDone(st, job).balanceTrees =
              IF job.kind = "balance"
              THEN [st.balanceTrees EXCEPT ![job.account] = Written(@, job.updates)]
              ELSE st.balanceTrees
         /\ \A b \in Known(st) \ {job.account} : Same(st, JobDone(st, job), b)
<1> DEFINE a == job.account
<1>0. Shaped(st)  BY DEF Typed
<1>1. CASE job.kind = "balance"
  <2> DEFINE tree == Written(st.balanceTrees[a], job.updates)
             new == [st EXCEPT !.balanceTrees[a] = tree]
  <2>1. tree \in [Tokens -> Balances]
    <3>1. job.updates \in Seq(Tokens \X Balances)  BY <1>1 DEF Jobs
    <3>2. st.balanceTrees[a] \in [Tokens -> Balances]  BY DEF Typed
    <3> QED BY <3>1, <3>2, WrittenTyped
  <2>2. JobDone(st, job) = new  BY <1>1 DEF JobDone
  <2> HIDE DEF tree
  <2>3. /\ new.accountTree = st.accountTree /\ new.accountStates = st.accountStates
        /\ new.balanceTrees = [st.balanceTrees EXCEPT ![a] = tree]
        /\ new.orderTrees = st.orderTrees /\ Shaped(new)
    BY <1>0 DEF Shaped
  <2> HIDE DEF new
  <2>4. Known(new) = Known(st)  BY <2>3 DEF Known
  <2>5. Typed(new, n)  BY <2>1, <2>3, <2>4 DEF Typed
  <2>6. \A b \in Known(st) \ {a} : Same(st, new, b)  BY <2>3 DEF Same, LeafOf, Typed
  <2> QED BY <1>1, <2>2, <2>3, <2>4, <2>5, <2>6 DEF tree
<1>2. CASE job.kind = "order"
  <2> DEFINE tree == Written(st.orderTrees[a], job.updates)
             new == [st EXCEPT !.orderTrees[a] = tree]
  <2>1. tree \in [Slots -> OrderHashes]
    <3>1. job.updates \in Seq(Slots \X OrderHashes)  BY <1>2 DEF Jobs
    <3>2. st.orderTrees[a] \in [Slots -> OrderHashes]  BY DEF Typed
    <3> QED BY <3>1, <3>2, WrittenTyped
  <2>2. JobDone(st, job) = new  BY <1>2 DEF JobDone
  <2> HIDE DEF tree
  <2>3. /\ new.accountTree = st.accountTree /\ new.accountStates = st.accountStates
        /\ new.orderTrees = [st.orderTrees EXCEPT ![a] = tree]
        /\ new.balanceTrees = st.balanceTrees /\ Shaped(new)
    BY <1>0 DEF Shaped
  <2> HIDE DEF new
  <2>4. Known(new) = Known(st)  BY <2>3 DEF Known
  <2>5. Typed(new, n)  BY <2>1, <2>3, <2>4 DEF Typed
  <2>6. \A b \in Known(st) \ {a} : Same(st, new, b)  BY <2>3 DEF Same, LeafOf, Typed
  <2> QED BY <1>2, <2>2, <2>3, <2>4, <2>5, <2>6
<1> QED BY <1>1, <1>2 DEF Jobs

\* After a batch all of its accounts agree again.
LEMMA AccountsUpdatedResult ==
  ASSUME NEW n \in Nat, NEW st, Typed(st, n), NEW updates \in Seq(Updates(n)),
         Touched(updates) \subseteq Known(st)
  PROVE  /\ Typed(AccountsUpdated(st, updates), n)
         /\ Known(AccountsUpdated(st, updates)) = Known(st)
         /\ AccountsUpdated(st, updates).balanceTrees = st.balanceTrees
         /\ \A a \in Known(st) :
              AccountsUpdated(st, updates).accountStates[a].key = st.accountStates[a].key
         /\ \A a \in Touched(updates) : Agrees(AccountsUpdated(st, updates), a)
         /\ \A b \in Known(st) \ Touched(updates) : Same(st, AccountsUpdated(st, updates), b)
<1> DEFINE T == Touched(updates)
           Next1(a) == [Recalculated(st, a).accountStates[a] EXCEPT
                          !.nonce = NonceAfter(st, updates, a)]
           states == [a \in Known(st) |-> IF a \in T THEN Next1(a) ELSE st.accountStates[a]]
           leaves == [a \in DOMAIN st.accountTree \cup T |->
                        IF a \in T THEN Hash(states[a]) ELSE st.accountTree[a]]
           new == [accountTree |-> leaves, accountStates |-> states,
                   balanceTrees |-> st.balanceTrees, orderTrees |-> st.orderTrees]
<1>0. Shaped(st)  BY DEF Typed
<1>1. AccountsUpdated(st, updates) = new  BY DEF AccountsUpdated
<1>2. ASSUME NEW a \in Known(st)
      PROVE  /\ Next1(a) \in Account(n)
             /\ Next1(a).key = st.accountStates[a].key
             /\ Next1(a).balanceRoot = st.balanceTrees[a]
             /\ Next1(a).orderRoot = st.orderTrees[a]
  <2>1. NonceAfter(st, updates, a) \in 0 .. n
    <3> DEFINE given == {i \in DOMAIN updates : updates[i].account = a /\ updates[i].nonce # -1}
    <3>1. CASE given = {}
      <4>1. st.accountStates[a] \in Account(n)  BY DEF Typed
      <4> QED BY <3>1, <4>1 DEF NonceAfter, Account
    <3>2. CASE given # {}
      <4>1. given \in SUBSET (1 .. Len(updates)) /\ Len(updates) \in Nat  OBVIOUS
      <4>2. Max(given) \in given  BY <3>2, <4>1, LastPosition
      <4>3. updates[Max(given)] \in Updates(n) /\ updates[Max(given)].nonce # -1  BY <4>2
      <4>4. NonceAfter(st, updates, a) = updates[Max(given)].nonce  BY <3>2 DEF NonceAfter
      <4> HIDE DEF given
      <4> QED BY <4>3, <4>4 DEF Updates
    <3> QED BY <3>1, <3>2
  <2> DEFINE x == NonceAfter(st, updates, a)
             r == [st.accountStates[a] EXCEPT !.balanceRoot = st.balanceTrees[a],
                                              !.orderRoot = st.orderTrees[a]]
             mid == [st EXCEPT !.accountStates[a] = r]
  <2>2. r \in Account(n) /\ r.key = st.accountStates[a].key
        /\ r.balanceRoot = st.balanceTrees[a] /\ r.orderRoot = st.orderTrees[a]
    BY DEF Typed, Account
  <2>3. Recalculated(st, a) = mid  BY DEF Recalculated
  <2> HIDE DEF x, r
  <2>4. mid.accountStates = [st.accountStates EXCEPT ![a] = r]  BY <1>0 DEF Shaped
  <2>5. mid.accountStates[a] = r  BY <2>4 DEF Known
  <2> HIDE DEF mid
  <2>6. Next1(a) = [r EXCEPT !.nonce = x]  BY <2>3, <2>5 DEF x
  <2> HIDE DEF Next1
  <2> QED BY <2>1, <2>2, <2>6 DEF Account, x
<1> HIDE DEF Next1
<1>3. T \subseteq Known(st) /\ Known(st) \subseteq Accounts  BY DEF Typed
<1>4. states \in [Known(st) -> Account(n)]
  BY <1>2 DEF Typed
<1>5. /\ \A a \in T : states[a] = Next1(a)
      /\ \A b \in Known(st) \ T : states[b] = st.accountStates[b]
  BY <1>3
<1> HIDE DEF states
<1>6. /\ DOMAIN leaves = DOMAIN st.accountTree \cup T
      /\ \A a \in T : leaves[a] = Hash(states[a])
      /\ \A b \in DOMAIN st.accountTree \ T : leaves[b] = st.accountTree[b]
  OBVIOUS
<1> HIDE DEF leaves
<1>7. /\ new.accountTree = leaves /\ new.accountStates = states
      /\ new.balanceTrees = st.balanceTrees /\ new.orderTrees = st.orderTrees
      /\ Shaped(new)
  BY DEF Shaped
<1> HIDE DEF new
<1>8. Known(new) = Known(st)  BY <1>4, <1>7 DEF Known
<1>9. Typed(new, n)
  BY <1>3, <1>4, <1>6, <1>7, <1>8 DEF Typed
<1>10. ASSUME NEW a \in Known(st) PROVE new.accountStates[a].key = st.accountStates[a].key
  BY <1>2, <1>5, <1>7
<1>11. ASSUME NEW a \in T PROVE Agrees(new, a)
  BY <1>2, <1>3, <1>5, <1>6, <1>7 DEF Agrees, LeafOf
<1>12. ASSUME NEW b \in Known(st) \ T PROVE Same(st, new, b)
  BY <1>5, <1>6, <1>7 DEF Same, LeafOf
<1> QED BY <1>1, <1>7, <1>8, <1>9, <1>10, <1>11, <1>12

-----------------------------------------------------------------------------
(* Dumps. *)

\* What load_persist gives back of an account is what was saved of it.
LEMMA LoadedResult ==
  ASSUME NEW n \in Nat, NEW st, Typed(st, n), NEW ids \in SavedStates(st), Loads(st, ids)
  PROVE  /\ Typed(Loaded(st, ids), n)
         /\ Known(Loaded(st, ids)) = LoadedIds(st, ids)
         /\ LoadedIds(st, ids) \subseteq Known(st)
         /\ \A a \in LoadedIds(st, ids) : Same(st, Loaded(st, ids), a)
<1> DEFINE L == LoadedIds(st, ids)
           new == Loaded(st, ids)
<1>1. L \subseteq Known(st)
  BY DEF LoadedIds, SavedStates, Loads
<1> HIDE DEF L
<1>2. /\ new.accountTree = st.accountTree
      /\ new.accountStates = [a \in L |-> st.accountStates[a]]
      /\ new.balanceTrees = [a \in L |-> st.balanceTrees[a]]
      /\ new.orderTrees = [a \in L |-> st.orderTrees[a]]
      /\ Shaped(new)
  BY DEF Loaded, Restrict, L, Shaped
<1> HIDE DEF new
<1>3. Known(new) = L  BY <1>2 DEF Known
<1>4. Typed(new, n)  BY <1>1, <1>2, <1>3 DEF Typed
<1>5. \A a \in L : Same(st, new, a)  BY <1>2 DEF Same, LeafOf
<1> QED BY <1>1, <1>3, <1>4, <1>5 DEF L, new

\* A dump of accounts that agree loads, and of twins at least one comes back.
LEMMA DumpGivesBack ==
  ASSUME NEW n \in Nat, NEW st, Typed(st, n), DOMAIN st.accountTree = Known(st),
         \A a \in Known(st) : Agrees(st, a), NEW ids \in SavedStates(st)
  PROVE  /\ Loads(st, ids)
         /\ \A a \in Known(st) : \E b \in LoadedIds(st, ids) :
              b \in Known(st) /\ st.accountStates[b] = st.accountStates[a]
<1>1. ASSUME NEW a \in Known(st)
      PROVE  st.accountTree[a] = SavedKey(st.accountStates[a])
  BY <1>1 DEF Agrees, LeafOf, SavedKey
<1>2. DOMAIN ids = {SavedKey(st.accountStates[a]) : a \in Known(st)}
      /\ \A k \in DOMAIN ids : ids[k] \in Known(st) /\ SavedKey(st.accountStates[ids[k]]) = k
  BY DEF SavedStates
<1>3. Loads(st, ids)  BY <1>1, <1>2 DEF Loads
<1>4. ASSUME NEW a \in Known(st)
      PROVE  \E b \in LoadedIds(st, ids) :
               b \in Known(st) /\ st.accountStates[b] = st.accountStates[a]
  <2> DEFINE b == ids[st.accountTree[a]]
  <2>1. b \in Known(st) /\ SavedKey(st.accountStates[b]) = SavedKey(st.accountStates[a])
    BY <1>1, <1>2
  <2>2. b \in LoadedIds(st, ids)  BY DEF LoadedIds
  <2> QED BY <2>1, <2>2 DEF SavedKey, Hash
<1> QED BY <1>3, <1>4

-----------------------------------------------------------------------------
(* The inductive invariant. *)

BalanceCalls == [call : {"set_token_balance"}, account : Accounts, token : Tokens, balance : Balances]
KeyCalls     == [call : {"set_account_l2_addr"}, account : Accounts, key : Keys]
NonceCalls   == [call : {"increase_nonce"}, account : Accounts]

\* what a handler may still have to do
CallsOK ==
  \/ todo = <<>>
  \/ \E c \in BalanceCalls : todo = <<c>> /\ c.account \in Known(state)
  \/ \E c \in BalanceCalls, d \in NonceCalls :
       todo = <<c, d>> /\ d.account = c.account /\ c.account \in Known(state)
  \/ \E c \in BalanceCalls, d \in KeyCalls : todo = <<c, d>> /\ d.account = c.account
  \/ \E d \in NonceCalls \cup KeyCalls : todo = <<d>> /\ d.account \in Known(state)
  \/ \E updates \in Seq(Updates(numTxs)) :
       /\ todo = <<BatchCall(updates)>> /\ updates # <<>>
       /\ Touched(updates) \subseteq Known(state)

NoncePending == \E i \in DOMAIN todo : todo[i].call = "increase_nonce"

\* a nonce that is still to be increased has room
NoncesOK ==
  IF NoncePending THEN numTxs - 1 \in Nat /\ Typed(state, numTxs - 1) ELSE Typed(state, numTxs)

KeyPending ==
  \A a \in Known(state) :
    state.accountStates[a].key = NoKey
      => \E i \in DOMAIN todo : todo[i].call = "set_account_l2_addr" /\ todo[i].account = a

\* only accounts in a batch have trees ahead of their roots
RootsBehind == \A a \in Known(state) \ Touched(batch) : Agrees(state, a)

BatchOK ==
  /\ batch \in Seq(Updates(numTxs)) /\ Touched(batch) \subseteq Known(state)
  /\ batch # <<>> => writing /\ todo = <<>>

BatchJobs == {job \in Jobs : job.account \in Touched(batch)}

PoolOK ==
  /\ jobs \in Seq(BatchJobs)
  /\ stack \in [Workers -> Seq([job : BatchJobs, at : Places])]
  /\ batch = <<>> => jobs = <<>> /\ \A w \in Workers : stack[w] = <<>>

LockOK ==
  ~writing => todo = <<>> /\ batch = <<>> /\ committed = BalancesOf(state)

OthersOK ==
  /\ registered \subseteq Accounts /\ numTxs \in 0 .. MaxTxs
  /\ answer \in {NoAnswer} \cup [account : Accounts, token : Tokens, balance : Balances]

IInv == /\ CallsOK /\ NoncesOK /\ KeyPending /\ RootsBehind /\ BatchOK
        /\ PoolOK /\ LockOK /\ OthersOK

\* Every state of the invariant is typed.
LEMMA StateTyped ==
  ASSUME IInv
  PROVE  numTxs \in Nat /\ Typed(state, numTxs)
<1>1. numTxs \in Nat  BY GlobalStateAssumption DEF IInv, OthersOK
<1>2. CASE NoncePending
  BY <1>1, <1>2, TypedMore, numTxs - 1 + 1 = numTxs DEF IInv, NoncesOK
<1>3. CASE ~NoncePending
  BY <1>1, <1>3 DEF IInv, NoncesOK
<1> QED BY <1>1, <1>2, <1>3

\* Once the lock is free all accounts agree and have a key.
LEMMA FreeState ==
  ASSUME IInv, ~writing
  PROVE  /\ todo = <<>> /\ batch = <<>> /\ committed = BalancesOf(state)
         /\ \A a \in Known(state) : Agrees(state, a) /\ state.accountStates[a].key # NoKey
<1>1. todo = <<>> /\ batch = <<>>  BY DEF IInv, LockOK
<1>2. Touched(batch) = {}  BY <1>1 DEF Touched
<1>3. DOMAIN todo = {}  BY <1>1
<1> QED BY <1>1, <1>2, <1>3 DEF IInv, LockOK, RootsBehind, KeyPending

LEMMA TypeOKFollows ==
  ASSUME IInv
  PROVE  TypeOK
<1>1. Typed(state, numTxs) /\ numTxs \in Nat /\ numTxs <= MaxTxs
  BY StateTyped, GlobalStateAssumption DEF IInv, OthersOK
<1>2. Account(numTxs) \subseteq AccountStates
  BY <1>1, GlobalStateAssumption DEF Account, AccountStates
<1>3. /\ Known(state) \subseteq Accounts
      /\ state.accountStates \in [Known(state) -> AccountStates]
      /\ state.balanceTrees \in [Known(state) -> [Tokens -> Balances]]
      /\ state.orderTrees \in [Known(state) -> [Slots -> OrderHashes]]
      /\ DOMAIN state.accountTree \subseteq Accounts
  BY <1>1, <1>2 DEF Typed
<1>4. jobs \in Seq(Jobs) /\ stack \in [Workers -> Seq([job : Jobs, at : Places])]
  <2>1. BatchJobs \subseteq Jobs  BY DEF BatchJobs
  <2>2. [job : BatchJobs, at : Places] \subseteq [job : Jobs, at : Places]  BY <2>1
  <2>3. jobs \in Seq(BatchJobs) /\ stack \in [Workers -> Seq([job : BatchJobs, at : Places])]
    BY DEF IInv, PoolOK
  <2>4. Seq(BatchJobs) \subseteq Seq(Jobs)  BY <2>1
  <2>5. Seq([job : BatchJobs, at : Places]) \subseteq Seq([job : Jobs, at : Places])
    <3> DEFINE A == [job : BatchJobs, at : Places]
               B == [job : Jobs, at : Places]
    <3>1. A \subseteq B  BY <2>2
    <3> HIDE DEF A, B
    <3>2. Seq(A) \subseteq Seq(B)  BY <3>1
    <3> QED BY <3>2 DEF A, B
  <2> QED BY <2>3, <2>4, <2>5
<1>5. ASSUME ~writing
      PROVE  /\ todo = <<>> /\ batch = <<>> /\ jobs = <<>>
             /\ Known(state) \subseteq DOMAIN state.accountTree
  <2>1. ASSUME NEW a \in Known(state) PROVE a \in DOMAIN state.accountTree
    <3>1. LeafOf(state, a) = state.accountStates[a] /\ state.accountStates[a].key # NoKey
      BY <1>5, FreeState DEF Agrees, Hash
    <3>2. Hash(EmptyAccount).key = NoKey  BY DEF Hash, EmptyAccount
    <3> QED BY <3>1, <3>2 DEF LeafOf
  <2> QED BY <1>5, <2>1, FreeState DEF IInv, PoolOK
<1> QED BY <1>3, <1>4, <1>5 DEF TypeOK, IInv, OthersOK

-----------------------------------------------------------------------------
(* Steps: handlers and their calls. *)

LEMMA InitInv == Init => IInv
<1> SUFFICES ASSUME Init PROVE IInv  OBVIOUS
<1>1. Known(state) = {} /\ DOMAIN state.accountTree = {} /\ DOMAIN state.balanceTrees = {}
      /\ DOMAIN state.orderTrees = {} /\ Shaped(state)
  BY DEF Init, EmptyState, Known, Shaped
<1>2. Typed(state, numTxs)
  <2>1. /\ state.accountStates = <<>> /\ state.balanceTrees = <<>> /\ state.orderTrees = <<>>
    BY DEF Init, EmptyState
  <2> QED BY <1>1, <2>1 DEF Typed, Known
<1>3. Touched(batch) = {} /\ DOMAIN todo = {}  BY DEF Init, Touched
<1>4. CallsOK /\ KeyPending /\ RootsBehind  BY <1>1 DEF Init, CallsOK, KeyPending, RootsBehind
<1>5. NoncesOK  BY <1>2, <1>3 DEF NoncesOK, NoncePending
<1>6. BatchOK  BY <1>3 DEF Init, BatchOK
<1>7. PoolOK  BY DEF Init, PoolOK
<1>8. LockOK  BY DEF Init, LockOK
<1>9. OthersOK  BY GlobalStateAssumption DEF Init, OthersOK
<1> QED BY <1>4, <1>5, <1>6, <1>7, <1>8, <1>9 DEF IInv

\* A handler that begins with calls it may make keeps the invariant.
LEMMA BeginInv ==
  ASSUME IInv, Free, NEW calls, NEW outcomes, Begin(calls, outcomes),
         registered' \subseteq Accounts, CallsOK'
  PROVE  IInv'
<1>1. /\ todo = <<>> /\ batch = <<>>
      /\ \A a \in Known(state) : state.accountStates[a].key # NoKey
  BY FreeState DEF Free
<1>2. numTxs \in Nat /\ Typed(state, numTxs) /\ numTxs' = numTxs + 1
  BY StateTyped DEF Begin
<1>3. UNCHANGED <<state, batch, jobs, stack, committed>> /\ answer' = NoAnswer /\ writing' = TRUE
  BY DEF Begin, Silent
<1>4. NoncesOK'
  <2>1. Typed(state, numTxs + 1)  BY <1>2, TypedMore
  <2> QED BY <1>2, <1>3, <2>1 DEF NoncesOK
<1>5. KeyPending'  BY <1>1, <1>3 DEF KeyPending
<1>6. RootsBehind'  BY <1>3 DEF IInv, RootsBehind
<1>7. BatchOK'  BY <1>1, <1>3 DEF BatchOK, Touched
<1>8. PoolOK'  BY <1>3 DEF IInv, PoolOK, BatchJobs
<1>9. LockOK'  BY <1>3 DEF LockOK
<1>10. OthersOK'
  BY <1>2, <1>3, GlobalStateAssumption DEF IInv, OthersOK, Free
<1> QED BY <1>4, <1>5, <1>6, <1>7, <1>8, <1>9, <1>10 DEF IInv

LEMMA KeyUpdateInv ==
  ASSUME IInv, NEW a \in Accounts, NEW key \in Keys, KeyUpdate(a, key)
  PROVE  IInv'
<1> DEFINE c == BalanceCall(a, FakeToken, TokenBalance(state, a, FakeToken))
           d == KeyCall(a, key)
<1>1. c \in BalanceCalls /\ d \in KeyCalls /\ d.account = c.account
  BY GlobalStateAssumption
  DEF KeyUpdate, TokenBalance, BalanceCall, KeyCall, BalanceCalls, KeyCalls
<1>2. Begin(<<c, d>>, {committed}) /\ Free /\ registered' \subseteq Accounts
  BY DEF KeyUpdate, IInv, OthersOK
<1> HIDE DEF c, d
<1>3. todo' = <<c, d>>  BY <1>2 DEF Begin
<1>4. CallsOK'  BY <1>1, <1>3 DEF CallsOK
<1> QED BY <1>2, <1>4, BeginInv

LEMMA DepositInv ==
  ASSUME IInv, NEW a \in Accounts, NEW t \in Tokens, NEW x \in Balances,
         Deposit(a, t, x) \/ Withdraw(a, t, x)
  PROVE  IInv'
<1> DEFINE c == BalanceCall(a, t, x)
           d == NonceCall(a)
<1>1. c \in BalanceCalls /\ d \in NonceCalls /\ d.account = c.account /\ c.account = a
  BY DEF BalanceCall, NonceCall, BalanceCalls, NonceCalls
<1>2. Free /\ a \in Known(state) /\ registered' \subseteq Accounts
      /\ (Begin(<<c>>, Single(a, t, x)) \/ Begin(<<c, d>>, Single(a, t, x)))
  BY DEF Deposit, Withdraw, HasAccount, IInv, OthersOK
<1> HIDE DEF c, d
<1>3. (todo' = <<c>> \/ todo' = <<c, d>>) /\ state' = state  BY <1>2 DEF Begin
<1>4. CallsOK'  BY <1>1, <1>2, <1>3 DEF CallsOK
<1> QED BY <1>2, <1>4, BeginInv

LEMMA BatchInv ==
  ASSUME IInv, Free, NEW u, NEW v, Batch(u, v),
         u \in Updates(numTxs + 1), v \in Updates(numTxs + 1),
         u.account \in Known(state), v.account \in Known(state)
  PROVE  IInv'
<1> DEFINE us == <<u, v>>
           outcomes == EitherOrder(u, v)
<1>1. Begin(<<BatchCall(us)>>, outcomes) /\ registered' \subseteq Accounts
  BY DEF Batch, IInv, OthersOK
<1> HIDE DEF outcomes
<1>2. todo' = <<BatchCall(us)>> /\ state' = state /\ numTxs' = numTxs + 1
  BY <1>1 DEF Begin
<1>3. us \in Seq(Updates(numTxs')) /\ us # <<>>  BY <1>2
<1>4. Touched(us) \subseteq Known(state)
  <2>1. DOMAIN us = {1, 2} /\ us[1] = u /\ us[2] = v  OBVIOUS
  <2> QED BY <2>1 DEF Touched
<1> HIDE DEF us
<1>5. CallsOK'  BY <1>2, <1>3, <1>4 DEF CallsOK
<1> QED BY <1>1, <1>5, BeginInv

LEMMA TransferInv ==
  ASSUME IInv, NEW a \in Accounts, NEW b \in Accounts, NEW t \in Tokens,
         NEW x \in Balances, NEW y \in Balances, Transfer(a, b, t, x, y)
  PROVE  IInv'
<1> DEFINE nonce == state.accountStates[a].nonce + 1
           u == Update(a, <<<<t, x>>>>, <<>>, nonce)
           v == Update(b, <<<<t, y>>>>, <<>>, -1)
<1>1. Free /\ a \in Known(state) /\ b \in Known(state) /\ Batch(u, v)
  BY DEF Transfer, HasAccount
<1>2. nonce \in 0 .. numTxs + 1
  <2>1. numTxs \in Nat /\ state.accountStates[a] \in Account(numTxs)
    BY <1>1, StateTyped DEF Typed
  <2> QED BY <2>1 DEF Account
<1> HIDE DEF nonce
<1>3. /\ <<<<t, x>>>> \in Seq(Tokens \X Balances) /\ <<<<t, y>>>> \in Seq(Tokens \X Balances)
      /\ <<>> \in Seq(Slots \X OrderHashes)
  OBVIOUS
<1>4. u \in Updates(numTxs + 1) /\ v \in Updates(numTxs + 1) /\ u.account = a /\ v.account = b
  BY <1>2, <1>3 DEF Update, Updates
<1> HIDE DEF u, v
<1> QED BY <1>1, <1>4, BatchInv

LEMMA TradeInv ==
  ASSUME IInv, NEW a \in Accounts, NEW b \in Accounts, NEW s \in Tokens, NEW t \in Tokens,
         NEW new \in [1 .. 4 -> Balances], NEW slot \in Slots, NEW hash \in OrderHashes,
         Trade(a, b, s, t, new, slot, hash)
  PROVE  IInv'
<1> DEFINE u == Update(a, <<<<s, new[1]>>, <<t, new[2]>>>>, <<<<slot, hash>>>>, -1)
           v == Update(b, <<<<s, new[3]>>, <<t, new[4]>>>>, <<<<slot, hash>>>>, -1)
<1>1. Free /\ a \in Known(state) /\ b \in Known(state) /\ Batch(u, v)
  BY DEF Trade, HasAccount
<1>2. /\ <<<<s, new[1]>>, <<t, new[2]>>>> \in Seq(Tokens \X Balances)
      /\ <<<<s, new[3]>>, <<t, new[4]>>>> \in Seq(Tokens \X Balances)
      /\ <<<<slot, hash>>>> \in Seq(Slots \X OrderHashes)
  OBVIOUS
<1>3. u \in Updates(numTxs + 1) /\ v \in Updates(numTxs + 1) /\ u.account = a /\ v.account = b
  BY <1>2 DEF Update, Updates
<1> HIDE DEF u, v
<1> QED BY <1>1, <1>3, BatchInv

\* A call on one account leaves it agreeing and the others as they were.
LEMMA OneCallInv ==
  ASSUME IInv, writing, batch = <<>>, NEW a \in Accounts,
         Typed(state', numTxs), Known(state') = Known(state) \cup {a}, Agrees(state', a),
         \A b \in Known(state) \ {a} : Same(state, state', b),
         UNCHANGED <<registered, writing, batch, jobs, stack, committed, expected, numTxs>>,
         Silent, CallsOK', NoncesOK', KeyPending'
  PROVE  IInv'
<1>1. Touched(batch) = {} /\ Touched(batch') = {}  BY DEF Touched
<1>2. RootsBehind'
  BY <1>1 DEF IInv, RootsBehind, Same, Agrees
<1>3. BatchOK'  BY <1>1 DEF BatchOK
<1>4. PoolOK'  BY <1>1 DEF IInv, PoolOK, BatchJobs
<1>5. LockOK'  BY DEF LockOK
<1>6. OthersOK'  BY DEF IInv, OthersOK, Silent
<1> QED BY <1>2, <1>3, <1>4, <1>5, <1>6 DEF IInv

LEMMA CallInv ==
  ASSUME IInv, Call
  PROVE  IInv'
<1>1. /\ writing /\ todo # <<>> /\ batch = <<>> /\ todo' = Tail(todo) /\ Silent
      /\ UNCHANGED <<registered, writing, stack, committed, expected, numTxs>>
  BY DEF Call
<1>2. numTxs \in Nat /\ Typed(state, numTxs)  BY StateTyped
<1>3. \A a \in Known(state) : Agrees(state, a)
  BY <1>1 DEF IInv, RootsBehind, Touched
<1>4. Known(state) \subseteq Accounts  BY <1>2 DEF Typed
<1>5. ASSUME NEW c \in BalanceCalls,
             \/ todo = <<c>> /\ c.account \in Known(state)
             \/ \E d \in NonceCalls : /\ todo = <<c, d>> /\ d.account = c.account
                                     /\ c.account \in Known(state)
             \/ \E d \in KeyCalls : todo = <<c, d>> /\ d.account = c.account
      PROVE  IInv'
  <2> DEFINE a == c.account
             n == IF NoncePending THEN numTxs - 1 ELSE numTxs
  <2>0. /\ Head(todo) = c
        /\ \/ todo = <<c>> /\ todo' = <<>> /\ a \in Known(state)
           \/ \E d \in NonceCalls \cup KeyCalls :
                todo = <<c, d>> /\ todo' = <<d>> /\ d.account = a
    <3>1. CASE todo = <<c>> /\ a \in Known(state)
      <4>1. Head(todo) = c /\ todo' = <<>>  BY <1>1, <3>1
      <4> QED BY <3>1, <4>1
    <3>2. CASE \E d \in NonceCalls \cup KeyCalls : todo = <<c, d>> /\ d.account = a
      <4>1. PICK d \in NonceCalls \cup KeyCalls : todo = <<c, d>> /\ d.account = a  BY <3>2
      <4>2. Head(todo) = c /\ todo' = <<d>>  BY <1>1, <4>1
      <4> QED BY <4>1, <4>2
    <3> QED BY <1>5, <3>1, <3>2
  <2>1. Head(todo) = c /\ c.call = "set_token_balance"
        /\ a \in Accounts /\ c.token \in Tokens /\ c.balance \in Balances
    BY <2>0 DEF BalanceCalls
  <2>2. state' = SetTokenBalance(state, a, c.token, c.balance) /\ UNCHANGED <<batch, jobs>>
    BY <2>1 DEF Call
  <2>3. NoncePending' <=> NoncePending
    BY <2>0, <2>1 DEF NoncePending
  <2>4. n \in Nat /\ Typed(state, n)
    BY <1>2 DEF IInv, NoncesOK
  <2> HIDE DEF n
  <2>5. /\ Typed(state', n) /\ Known(state') = Known(state) \cup {a} /\ Agrees(state', a)
        /\ state'.accountStates[a].key
             = IF a \in Known(state) THEN state.accountStates[a].key ELSE NoKey
        /\ \A b \in Known(state) \ {a} : Same(state, state', b)
    BY <2>1, <2>2, <2>4, SetTokenBalanceResult
  <2>6. NoncesOK' /\ Typed(state', numTxs)
    <3>1. NoncesOK'  BY <1>1, <2>3, <2>4, <2>5 DEF NoncesOK, n
    <3>2. n = numTxs \/ (n + 1 = numTxs)  BY <1>2 DEF n
    <3>3. Typed(state', numTxs)  BY <2>4, <2>5, <3>2, TypedMore
    <3> QED BY <3>1, <3>3
  <2>7. CallsOK'
    <3>1. CASE todo' = <<>>  BY <3>1 DEF CallsOK
    <3>2. CASE todo' # <<>>
      <4>1. PICK d \in NonceCalls \cup KeyCalls :
              todo = <<c, d>> /\ todo' = <<d>> /\ d.account = a
        BY <2>0, <3>2
      <4>2. todo' = <<d>>  BY <1>1, <4>1
      <4> QED BY <2>5, <4>1, <4>2 DEF CallsOK
    <3> QED BY <3>1, <3>2
  <2>8. KeyPending'
    <3> SUFFICES ASSUME NEW b \in Known(state'), state'.accountStates[b].key = NoKey
                 PROVE  \E i \in DOMAIN todo' :
                          todo'[i].call = "set_account_l2_addr" /\ todo'[i].account = b
      BY DEF KeyPending
    <3>1. CASE b \in Known(state)
      <4>1. state.accountStates[b].key = NoKey  BY <2>5, <3>1 DEF Same
      <4>2. PICK i \in DOMAIN todo : todo[i].call = "set_account_l2_addr" /\ todo[i].account = b
        BY <3>1, <4>1 DEF IInv, KeyPending
      <4>3. PICK d : todo = <<c, d>> /\ todo' = <<d>>  BY <2>0, <2>1, <4>2
      <4>4. d.call = "set_account_l2_addr" /\ d.account = b  BY <2>1, <4>2, <4>3
      <4>5. 1 \in DOMAIN todo' /\ todo'[1] = d  BY <4>3
      <4> QED BY <4>4, <4>5
    <3>2. CASE b \notin Known(state)
      <4>1. b = a /\ a \notin Known(state)  BY <2>5, <3>2
      <4>2. PICK d \in KeyCalls : todo = <<c, d>> /\ d.account = a  BY <1>5, <4>1
      <4>3. todo' = <<d>>  BY <1>1, <4>2
      <4>4. 1 \in DOMAIN todo' /\ todo'[1] = d  BY <4>3
      <4> QED BY <4>1, <4>2, <4>4 DEF KeyCalls
    <3> QED BY <3>1, <3>2
  <2> QED BY <1>1, <2>1, <2>2, <2>5, <2>6, <2>7, <2>8, OneCallInv
<1>6. ASSUME NEW d \in NonceCalls, todo = <<d>>, d.account \in Known(state)
      PROVE  IInv'
  <2> DEFINE a == d.account
  <2>1. todo' = <<>> /\ Head(todo) = d /\ d.call = "increase_nonce" /\ a \in Accounts
    BY <1>1, <1>6 DEF NonceCalls
  <2>2. state' = IncreaseNonce(state, a) /\ UNCHANGED <<batch, jobs>>
    BY <2>1 DEF Call
  <2>3. NoncePending  BY <1>6, <2>1 DEF NoncePending
  <2>4. numTxs - 1 \in Nat /\ Typed(state, numTxs - 1) /\ numTxs - 1 + 1 = numTxs
    BY <1>2, <2>3 DEF IInv, NoncesOK
  <2>5. /\ Typed(state', numTxs) /\ Known(state') = Known(state) /\ Agrees(state', a)
        /\ state'.accountStates[a].key = state.accountStates[a].key
        /\ \A b \in Known(state) \ {a} : Same(state, state', b)
    BY <1>6, <2>2, <2>4, IncreaseNonceResult
  <2>6. NoncesOK'  BY <1>1, <2>1, <2>5 DEF NoncesOK, NoncePending
  <2>7. CallsOK'  BY <2>1 DEF CallsOK
  <2>8. KeyPending'
    <3>1. \A b \in Known(state) : state.accountStates[b].key # NoKey
      BY <1>6, <2>1 DEF IInv, KeyPending
    <3> QED BY <2>5, <3>1 DEF KeyPending, Same
  <2>9. Known(state') = Known(state) \cup {a}  BY <1>6, <2>5
  <2> QED BY <1>1, <2>1, <2>2, <2>5, <2>6, <2>7, <2>8, <2>9, OneCallInv
<1>7. ASSUME NEW d \in KeyCalls, todo = <<d>>, d.account \in Known(state)
      PROVE  IInv'
  <2> DEFINE a == d.account
  <2>1. todo' = <<>> /\ Head(todo) = d /\ d.call = "set_account_l2_addr" /\ a \in Accounts
        /\ d.key \in Keys
    BY <1>1, <1>7 DEF KeyCalls
  <2>2. state' = SetL2Addr(state, a, d.key) /\ UNCHANGED <<batch, jobs>>
    BY <2>1 DEF Call
  <2>3. Agrees(state, a)  BY <1>3, <1>7
  <2>4. /\ Typed(state', numTxs) /\ Known(state') = Known(state) /\ Agrees(state', a)
        /\ state'.accountStates[a].key = d.key
        /\ \A b \in Known(state) \ {a} : Same(state, state', b)
    <3>1. numTxs \in Nat /\ Typed(state, numTxs) /\ a \in Known(state) /\ d.key \in Keys
      BY <1>2, <1>7, <2>1
    <3> HIDE DEF a
    <3> QED BY <3>1, <2>2, <2>3, SetL2AddrResult
  <2>5. NoncesOK'  BY <1>1, <2>1, <2>4 DEF NoncesOK, NoncePending
  <2>6. CallsOK'  BY <2>1 DEF CallsOK
  <2>7. KeyPending'
    <3>1. \A b \in Known(state) \ {a} : state.accountStates[b].key # NoKey
      BY <1>7, <2>1 DEF IInv, KeyPending
    <3>2. d.key # NoKey  BY <2>1, GlobalStateAssumption
    <3> QED BY <2>4, <3>1, <3>2 DEF KeyPending, Same
  <2>8. Known(state') = Known(state) \cup {a}  BY <1>7, <2>4
  <2> QED BY <1>1, <2>1, <2>2, <2>4, <2>5, <2>6, <2>7, <2>8, OneCallInv
<1>8. ASSUME NEW updates \in Seq(Updates(numTxs)), todo = <<BatchCall(updates)>>,
             updates # <<>>, Touched(updates) \subseteq Known(state)
      PROVE  IInv'
  <2>1. /\ todo' = <<>> /\ Head(todo).call = "batch_update" /\ Head(todo).updates = updates
        /\ DOMAIN todo = {1} /\ todo[1].call = "batch_update"
    BY <1>1, <1>8 DEF BatchCall
  <2>2. batch' = updates /\ jobs' = JobsOf(updates) /\ state' = state
    BY <2>1 DEF Call
  <2>3. CallsOK'  BY <2>1 DEF CallsOK
  <2>4. NoncesOK'  BY <1>1, <1>2, <2>1, <2>2 DEF NoncesOK, NoncePending
  <2>5. KeyPending'
    BY <2>1, <2>2 DEF IInv, KeyPending
  <2>6. RootsBehind'  BY <1>3, <2>2 DEF RootsBehind
  <2>7. BatchOK'  BY <1>1, <1>8, <2>1, <2>2 DEF BatchOK
  <2>8. PoolOK'
    <3>1. JobsOf(updates) \in Seq(Jobs)
          /\ \A i \in DOMAIN JobsOf(updates) : JobsOf(updates)[i].account \in Touched(updates)
      BY <1>2, JobsOfTyped
    <3>2. jobs' \in Seq(BatchJobs')
      <4>1. \A i \in DOMAIN jobs' : jobs'[i] \in BatchJobs'
        BY <2>2, <3>1 DEF BatchJobs
      <4> QED BY <2>2, <3>1, <4>1
    <3>3. stack \in [Workers -> Seq([job : BatchJobs', at : Places])]
      <4> DEFINE F == [job : BatchJobs', at : Places]
      <4>1. stack = [w \in Workers |-> <<>>]  BY <1>1 DEF IInv, PoolOK
      <4> HIDE DEF F
      <4>2. <<>> \in Seq(F)  OBVIOUS
      <4>3. stack \in [Workers -> Seq(F)]  BY <4>1, <4>2
      <4> QED BY <4>3 DEF F
    <3> QED BY <1>1, <1>8, <2>2, <3>2, <3>3 DEF PoolOK
  <2>9. LockOK'  BY <1>1 DEF LockOK
  <2>10. OthersOK'  BY <1>1 DEF IInv, OthersOK, Silent
  <2> QED BY <2>3, <2>4, <2>5, <2>6, <2>7, <2>8, <2>9, <2>10 DEF IInv
<1>9. CASE \E c \in BalanceCalls : todo = <<c>> /\ c.account \in Known(state)
  <2> PICK c \in BalanceCalls : todo = <<c>> /\ c.account \in Known(state)  BY <1>9
  <2> QED BY <1>5
<1>10. CASE \E c \in BalanceCalls, d \in NonceCalls :
              todo = <<c, d>> /\ d.account = c.account /\ c.account \in Known(state)
  <2> PICK c \in BalanceCalls, d \in NonceCalls :
             todo = <<c, d>> /\ d.account = c.account /\ c.account \in Known(state)  BY <1>10
  <2> QED BY <1>5
<1>11. CASE \E c \in BalanceCalls, d \in KeyCalls : todo = <<c, d>> /\ d.account = c.account
  <2> PICK c \in BalanceCalls, d \in KeyCalls : todo = <<c, d>> /\ d.account = c.account
    BY <1>11
  <2> QED BY <1>5
<1> QED BY <1>1, <1>6, <1>7, <1>8, <1>9, <1>10, <1>11 DEF IInv, CallsOK

-----------------------------------------------------------------------------
(* Steps: the pool, the end of a batch, queries and restarts. *)

\* for_each returned: the accounts of the batch get their roots.
LEMMA EndBatchInv ==
  ASSUME IInv, EndBatch
  PROVE  IInv'
<1>1. /\ batch # <<>> /\ jobs = <<>> /\ \A w \in Workers : stack[w] = <<>>
      /\ state' = AccountsUpdated(state, batch) /\ batch' = <<>> /\ Silent
      /\ UNCHANGED <<registered, writing, todo, jobs, stack, committed, expected, numTxs>>
  BY DEF EndBatch, JobsDone, Busy
<1>2. /\ numTxs \in Nat /\ Typed(state, numTxs) /\ writing /\ todo = <<>>
      /\ batch \in Seq(Updates(numTxs)) /\ Touched(batch) \subseteq Known(state)
  BY <1>1, StateTyped DEF IInv, BatchOK
<1>3. /\ Typed(state', numTxs) /\ Known(state') = Known(state)
      /\ \A a \in Known(state) : state'.accountStates[a].key = state.accountStates[a].key
      /\ \A a \in Touched(batch) : Agrees(state', a)
      /\ \A b \in Known(state) \ Touched(batch) : Same(state, state', b)
  BY <1>1, <1>2, AccountsUpdatedResult
<1>4. CallsOK'  BY <1>1, <1>2 DEF CallsOK
<1>5. NoncesOK'  BY <1>1, <1>2, <1>3 DEF NoncesOK, NoncePending
<1>6. KeyPending'  BY <1>1, <1>3 DEF IInv, KeyPending
<1>7. RootsBehind'
  <2>1. \A a \in Known(state) : Agrees(state', a)
    BY <1>3 DEF IInv, RootsBehind, Agrees, Same
  <2> QED BY <1>3, <2>1 DEF RootsBehind
<1>8. BatchOK'
  <2>1. Touched(batch') = {}  BY <1>1 DEF Touched
  <2> QED BY <1>1, <2>1 DEF BatchOK
<1>9. PoolOK'
  <2> DEFINE F == [job : BatchJobs', at : Places]
  <2>1. stack' = [w \in Workers |-> <<>>]  BY <1>1 DEF IInv, PoolOK
  <2> HIDE DEF F
  <2>2. <<>> \in Seq(F)  OBVIOUS
  <2>3. stack' \in [Workers -> Seq(F)]  BY <2>1, <2>2
  <2>4. jobs' \in Seq(BatchJobs')  BY <1>1
  <2> QED BY <1>1, <2>1, <2>3, <2>4 DEF PoolOK, F
<1>10. LockOK'  BY <1>1, <1>2 DEF LockOK
<1>11. OthersOK'  BY <1>1 DEF IInv, OthersOK, Silent
<1> QED BY <1>4, <1>5, <1>6, <1>7, <1>8, <1>9, <1>10, <1>11 DEF IInv

Frames == [job : BatchJobs, at : Places]

\* A step of the pool during a batch writes trees of the batch's accounts only.
LEMMA PoolInv ==
  ASSUME IInv, batch # <<>>,
         Typed(state', numTxs), Known(state') = Known(state),
         state'.accountStates = state.accountStates,
         \A b \in Known(state) \ Touched(batch) : Same(state, state', b),
         UNCHANGED <<registered, writing, todo, batch, committed, expected, numTxs>>,
         Silent, jobs' \in Seq(BatchJobs), stack' \in [Workers -> Seq(Frames)]
  PROVE  IInv'
<1>1. writing /\ todo = <<>>  BY DEF IInv, BatchOK
<1>2. CallsOK'  BY <1>1 DEF CallsOK
<1>3. NoncesOK'  BY <1>1 DEF NoncesOK, NoncePending
<1>4. KeyPending'  BY DEF IInv, KeyPending
<1>5. RootsBehind'  BY DEF IInv, RootsBehind, Same, Agrees, Touched
<1>6. BatchOK'  BY DEF IInv, BatchOK, Touched
<1>7. PoolOK'
  <2>1. BatchJobs' = BatchJobs  BY DEF BatchJobs, Touched
  <2> HIDE DEF BatchJobs
  <2> QED BY <2>1 DEF PoolOK, Frames
<1>8. LockOK'  BY <1>1 DEF LockOK
<1>9. OthersOK'  BY DEF IInv, OthersOK, Silent
<1> QED BY <1>2, <1>3, <1>4, <1>5, <1>6, <1>7, <1>8, <1>9 DEF IInv

\* A worker's frames: the innermost one, and those below it.
LEMMA StackTyped ==
  ASSUME IInv, NEW w \in Workers
  PROVE  /\ stack \in [Workers -> Seq(Frames)]
         /\ Busy(w) => /\ batch # <<>> /\ Top(w) \in Frames
                       /\ Tail(stack[w]) \in Seq(Frames)
<1>1. stack \in [Workers -> Seq(Frames)]  BY DEF IInv, PoolOK, Frames
<1> HIDE DEF Frames
<1>2. ASSUME Busy(w) PROVE batch # <<>>  BY <1>2 DEF IInv, PoolOK, Busy
<1>3. ASSUME Busy(w) PROVE Top(w) \in Frames /\ Tail(stack[w]) \in Seq(Frames)
  <2>1. stack[w] \in Seq(Frames) /\ stack[w] # <<>>  BY <1>1, <1>3 DEF Busy
  <2> QED BY <2>1 DEF Top
<1> QED BY <1>1, <1>2, <1>3

\* A frame on top of frames.
LEMMA PushTyped ==
  ASSUME NEW S, NEW x \in S, NEW s \in Seq(S)
  PROVE  <<x>> \o s \in Seq(S)
OBVIOUS

\* Steps of a worker that write nothing.
LEMMA QuietInv ==
  ASSUME IInv, batch # <<>>, UNCHANGED rest, Silent,
         jobs' \in Seq(BatchJobs), stack' \in [Workers -> Seq(Frames)]
  PROVE  IInv'
<1>1. Typed(state', numTxs) /\ state' = state  BY StateTyped DEF rest
<1>2. \A b \in Known(state) : Same(state, state', b)  BY <1>1 DEF Same
<1> QED BY <1>1, <1>2, PoolInv DEF rest

LEMMA MoveTyped ==
  ASSUME IInv, NEW w \in Workers, Busy(w), NEW at \in Places, Move(w, at)
  PROVE  stack' \in [Workers -> Seq(Frames)]
<1>1. /\ stack \in [Workers -> Seq(Frames)] /\ Top(w) \in Frames
      /\ Tail(stack[w]) \in Seq(Frames)
  BY StackTyped
<1>2. Frame(Top(w).job, at) \in Frames  BY <1>1 DEF Frame, Frames
<1> HIDE DEF Frames
<1>3. <<Frame(Top(w).job, at)>> \o Tail(stack[w]) \in Seq(Frames)  BY <1>1, <1>2, PushTyped
<1> QED BY <1>1, <1>3 DEF Move

LEMMA TakeJobInv ==
  ASSUME IInv, NEW w \in Workers, TakeJob(w)
  PROVE  IInv'
<1>1. jobs \in Seq(BatchJobs) /\ jobs # <<>> /\ batch # <<>>
  BY DEF IInv, PoolOK, TakeJob
<1>2. Head(jobs) \in BatchJobs /\ Tail(jobs) \in Seq(BatchJobs)
  <2> HIDE DEF BatchJobs
  <2> QED BY <1>1
<1>3. stack \in [Workers -> Seq(Frames)]  BY StackTyped
<1>4. Frame(Head(jobs), "locks") \in Frames  BY <1>2 DEF Frame, Frames, Places
<1> HIDE DEF Frames, BatchJobs
<1>5. <<Frame(Head(jobs), "locks")>> \o stack[w] \in Seq(Frames)  BY <1>3, <1>4, PushTyped
<1>6. stack' \in [Workers -> Seq(Frames)]  BY <1>3, <1>5 DEF TakeJob
<1> QED BY <1>1, <1>2, <1>6, QuietInv DEF TakeJob

LEMMA MovesInv ==
  ASSUME IInv, NEW w \in Workers, LockTree(w) \/ KeepHalf(w)
  PROVE  IInv'
<1>1. Busy(w) /\ UNCHANGED <<rest, jobs>> /\ Silent
  BY DEF LockTree, KeepHalf, At
<1>2. batch # <<>> /\ jobs' \in Seq(BatchJobs)  BY <1>1, StackTyped DEF IInv, PoolOK
<1>3. \E at \in Places : Move(w, at)  BY DEF LockTree, KeepHalf, Places
<1>4. stack' \in [Workers -> Seq(Frames)]  BY <1>1, <1>3, MoveTyped
<1> QED BY <1>1, <1>2, <1>4, QuietInv

LEMMA StealHalfInv ==
  ASSUME IInv, NEW v \in Workers, NEW w \in Workers, StealHalf(v, w)
  PROVE  IInv'
<1>1. Busy(w) /\ UNCHANGED <<rest, jobs>> /\ Silent  BY DEF StealHalf, At
<1>2. batch # <<>> /\ jobs' \in Seq(BatchJobs)  BY <1>1, StackTyped DEF IInv, PoolOK
<1>3. /\ stack \in [Workers -> Seq(Frames)] /\ Top(w) \in Frames
      /\ Tail(stack[w]) \in Seq(Frames)
  BY <1>1, StackTyped
<1>4. Frame(Top(w).job, "steals") \in Frames /\ Frame(Top(w).job, "waits") \in Frames
  BY <1>3 DEF Frame, Frames, Places
<1> HIDE DEF Frames
<1>5. /\ <<Frame(Top(w).job, "steals")>> \o stack[v] \in Seq(Frames)
      /\ <<Frame(Top(w).job, "waits")>> \o Tail(stack[w]) \in Seq(Frames)
  BY <1>3, <1>4, PushTyped
<1>6. /\ v # w
      /\ stack' = [stack EXCEPT ![v] = <<Frame(Top(w).job, "steals")>> \o stack[v],
                                ![w] = <<Frame(Top(w).job, "waits")>> \o Tail(stack[w])]
  BY DEF StealHalf
<1>7. stack' \in [Workers -> Seq(Frames)]
  <2> DEFINE x == <<Frame(Top(w).job, "steals")>> \o stack[v]
             y == <<Frame(Top(w).job, "waits")>> \o Tail(stack[w])
  <2>1. x \in Seq(Frames) /\ y \in Seq(Frames) /\ stack' = [stack EXCEPT ![v] = x, ![w] = y]
    BY <1>5, <1>6
  <2> HIDE DEF x, y
  <2> QED BY <1>3, <2>1
<1> QED BY <1>1, <1>2, <1>7, QuietInv

LEMMA HalfDoneInv ==
  ASSUME IInv, NEW v \in Workers, HalfDone(v)
  PROVE  IInv'
<1>1. Busy(v) /\ UNCHANGED <<rest, jobs>> /\ Silent  BY DEF HalfDone, At
<1>2. batch # <<>> /\ jobs' \in Seq(BatchJobs)  BY <1>1, StackTyped DEF IInv, PoolOK
<1>3. stack \in [Workers -> Seq(Frames)] /\ Tail(stack[v]) \in Seq(Frames)
  BY <1>1, StackTyped
<1>4. PICK w \in Workers \ {v} :
        \E i \in DOMAIN stack[w] :
          stack' = [stack EXCEPT ![v] = Tail(stack[v]), ![w][i].at = "applies"]
  BY DEF HalfDone
<1>0. PICK i \in DOMAIN stack[w] :
        stack' = [stack EXCEPT ![v] = Tail(stack[v]), ![w][i].at = "applies"]
  BY <1>4
<1> DEFINE x == Tail(stack[v])
           f == [stack[w][i] EXCEPT !.at = "applies"]
           y == [stack[w] EXCEPT ![i] = f]
<1>5. f \in Frames
  <2>1. stack[w][i] \in Frames
    <3> HIDE DEF Frames
    <3> QED BY <1>0, <1>3, <1>4
  <2> QED BY <2>1 DEF Frames, Places
<1>6. stack' = [stack EXCEPT ![v] = x, ![w] = y]  BY <1>0, <1>3, <1>4
<1> HIDE DEF Frames, f
<1>7. y \in Seq(Frames)
  <2>1. stack[w] \in Seq(Frames)  BY <1>3, <1>4
  <2> QED BY <2>1, <1>0, <1>5
<1> HIDE DEF x, y
<1>8. x \in Seq(Frames)  BY <1>3 DEF x
<1>9. stack' \in [Workers -> Seq(Frames)]  BY <1>3, <1>4, <1>6, <1>7, <1>8
<1> QED BY <1>1, <1>2, <1>9, QuietInv

LEMMA ApplyJobInv ==
  ASSUME IInv, NEW w \in Workers, ApplyJob(w)
  PROVE  IInv'
<1>1. /\ Busy(w) /\ state' = JobDone(state, Top(w).job) /\ Silent
      /\ stack' = [stack EXCEPT ![w] = Tail(stack[w])]
      /\ UNCHANGED <<registered, writing, todo, batch, jobs, committed, expected, numTxs>>
  BY DEF ApplyJob, At
<1>2. /\ batch # <<>> /\ jobs' \in Seq(BatchJobs)
  BY <1>1, StackTyped DEF IInv, PoolOK
<1>3. /\ stack \in [Workers -> Seq(Frames)] /\ Top(w) \in Frames
      /\ Tail(stack[w]) \in Seq(Frames)
  BY <1>1, StackTyped
<1>4. Top(w).job \in Jobs /\ Top(w).job.account \in Touched(batch)
      /\ Touched(batch) \subseteq Known(state)
  BY <1>3 DEF Frames, BatchJobs, IInv, BatchOK
<1>5. numTxs \in Nat /\ Typed(state, numTxs)  BY StateTyped
<1>6. /\ Typed(state', numTxs) /\ Known(state') = Known(state)
      /\ state'.accountStates = state.accountStates
      /\ \A b \in Known(state) \ {Top(w).job.account} : Same(state, state', b)
  BY <1>1, <1>4, <1>5, JobDoneResult
<1>7. stack' \in [Workers -> Seq(Frames)]
  <2> HIDE DEF Frames
  <2> QED BY <1>1, <1>3
<1> QED BY <1>1, <1>2, <1>4, <1>6, <1>7, PoolInv

LEMMA WorkerInv ==
  ASSUME IInv, NEW w \in Workers, WorkerStep(w)
  PROVE  IInv'
BY TakeJobInv, MovesInv, StealHalfInv, HalfDoneInv, ApplyJobInv DEF WorkerStep

LEMMA UnlockInv ==
  ASSUME IInv, Unlock
  PROVE  IInv'
<1>1. /\ writing' = FALSE /\ committed' = BalancesOf(state) /\ todo = <<>> /\ batch = <<>>
      /\ UNCHANGED <<state, registered, todo, batch, jobs, stack, expected, numTxs>> /\ Silent
  BY DEF Unlock
<1>2. CallsOK' /\ NoncesOK' /\ KeyPending' /\ RootsBehind'
  BY <1>1 DEF IInv, CallsOK, NoncesOK, NoncePending, KeyPending, RootsBehind, Touched
<1>3. BatchOK'  BY <1>1 DEF IInv, BatchOK, Touched
<1>4. PoolOK'  BY <1>1 DEF IInv, PoolOK, BatchJobs, Touched
<1>5. LockOK'  BY <1>1 DEF LockOK, BalancesOf, Known
<1>6. OthersOK'  BY <1>1 DEF IInv, OthersOK, Silent
<1> QED BY <1>2, <1>3, <1>4, <1>5, <1>6 DEF IInv

LEMMA QueryInv ==
  ASSUME IInv, NEW a \in Accounts, NEW t \in Tokens, Query(a, t)
  PROVE  IInv'
<1>1. /\ UNCHANGED <<state, registered, writing, todo, batch, jobs, stack, committed,
                     expected, numTxs>>
      /\ answer' = [account |-> a, token |-> t, balance |-> TokenBalance(state, a, t)]
  BY DEF Query
<1>2. TokenBalance(state, a, t) \in Balances
  BY StateTyped, GlobalStateAssumption DEF TokenBalance, HasAccount, Typed
<1>3. CallsOK' /\ NoncesOK' /\ KeyPending' /\ RootsBehind'
  BY <1>1 DEF IInv, CallsOK, NoncesOK, NoncePending, KeyPending, RootsBehind, Touched
<1>4. BatchOK'  BY <1>1 DEF IInv, BatchOK, Touched
<1>5. PoolOK'  BY <1>1 DEF IInv, PoolOK, BatchJobs, Touched
<1>6. LockOK'  BY <1>1 DEF IInv, LockOK, BalancesOf, Known
<1>7. OthersOK'  BY <1>1, <1>2 DEF IInv, OthersOK
<1> QED BY <1>3, <1>4, <1>5, <1>6, <1>7 DEF IInv

LEMMA RestartInv ==
  ASSUME IInv, Restart
  PROVE  IInv'
<1>1. PICK ids \in SavedStates(state) : Loads(state, ids) /\ state' = Loaded(state, ids)
  BY DEF Restart
<1>2. /\ ~writing /\ committed' = BalancesOf(state') /\ Silent
      /\ UNCHANGED <<registered, writing, todo, batch, jobs, stack, numTxs>>
  BY DEF Restart, Free
<1>3. /\ todo = <<>> /\ batch = <<>>
      /\ \A a \in Known(state) : Agrees(state, a) /\ state.accountStates[a].key # NoKey
  BY <1>2, FreeState
<1>4. numTxs \in Nat /\ Typed(state, numTxs)  BY StateTyped
<1>5. /\ Typed(state', numTxs) /\ Known(state') \subseteq Known(state)
      /\ \A a \in Known(state') : Same(state, state', a)
  BY <1>1, <1>4, LoadedResult
<1>6. \A a \in Known(state') : Agrees(state', a) /\ state'.accountStates[a].key # NoKey
  BY <1>3, <1>5 DEF Agrees, Same
<1>7. CallsOK' /\ KeyPending' /\ RootsBehind'
  BY <1>2, <1>3, <1>6 DEF CallsOK, KeyPending, RootsBehind
<1>8. NoncesOK'  BY <1>2, <1>3, <1>5 DEF NoncesOK, NoncePending
<1>9. BatchOK'
  <2>1. Touched(batch') = {}  BY <1>2, <1>3 DEF Touched
  <2> QED BY <1>2, <1>3, <2>1 DEF BatchOK
<1>10. PoolOK'  BY <1>2 DEF IInv, PoolOK, BatchJobs, Touched
<1>11. LockOK'  BY <1>2, <1>3 DEF LockOK
<1>12. OthersOK'  BY <1>2 DEF IInv, OthersOK, Silent
<1> QED BY <1>7, <1>8, <1>9, <1>10, <1>11, <1>12 DEF IInv

LEMMA NextInv == IInv /\ [Next]_vars => IInv'
<1> SUFFICES ASSUME IInv, [Next]_vars PROVE IInv'  OBVIOUS
<1>1. CASE UNCHANGED vars
  <2>1. UNCHANGED <<state, registered, writing, todo, batch, jobs, stack, committed,
                    answer, numTxs>>
    BY <1>1 DEF vars
  <2>2. CallsOK' /\ NoncesOK' /\ KeyPending' /\ RootsBehind'
    BY <2>1 DEF IInv, CallsOK, NoncesOK, NoncePending, KeyPending, RootsBehind, Touched
  <2>3. BatchOK'  BY <2>1 DEF IInv, BatchOK, Touched
  <2>4. PoolOK'  BY <2>1 DEF IInv, PoolOK, BatchJobs, Touched
  <2>5. LockOK'  BY <2>1 DEF IInv, LockOK, BalancesOf, Known
  <2>6. OthersOK'  BY <2>1 DEF IInv, OthersOK
  <2> QED BY <2>2, <2>3, <2>4, <2>5, <2>6 DEF IInv
<1>2. CASE Handler
  BY <1>2, KeyUpdateInv, DepositInv, TransferInv, TradeInv DEF Handler
<1>3. CASE Call  BY <1>3, CallInv
<1>4. CASE EndBatch  BY <1>4, EndBatchInv
<1>5. CASE Unlock  BY <1>5, UnlockInv
<1>6. CASE Restart  BY <1>6, RestartInv
<1>7. CASE \E a \in Accounts, t \in Tokens : Query(a, t)  BY <1>7, QueryInv
<1>8. CASE \E w \in Workers : WorkerStep(w)  BY <1>8, WorkerInv
<1> QED BY <1>1, <1>2, <1>3, <1>4, <1>5, <1>6, <1>7, <1>8 DEF Next

-----------------------------------------------------------------------------
(* A batch is serial.  Every balance job of the pool is that of one of the  *)
(* two updates, and until both were done one that was not is still pending. *)

JobOf(u) == Job("balance", u.account, u.balances, 2)

\* the jobs on a worker's stack, and those of them it is still to write: of a stolen
\* half the owner writes both halves
JobsOn(frames)  == {frames[i].job : i \in DOMAIN frames}
WaitsOn(frames) == {frames[i].job : i \in {k \in DOMAIN frames : frames[k].at # "steals"}}

Pool    == Range(jobs) \cup UNION {JobsOn(stack[w]) : w \in Workers}
Pending == Range(jobs) \cup UNION {WaitsOn(stack[w]) : w \in Workers}

\* in the middle of a batch of two updates
Halfway(u, v) ==
  /\ expected = EitherOrder(u, v)
  /\ \A job \in Pool : job.kind = "balance" => job \in {JobOf(u), JobOf(v)}
  /\ \/ BalancesOf(state) = committed /\ {JobOf(u), JobOf(v)} \subseteq Pending
     \/ BalancesOf(state) = After(committed, u) /\ JobOf(v) \in Pending
     \/ BalancesOf(state) = After(committed, v) /\ JobOf(u) \in Pending
     \/ BalancesOf(state) \in expected

\* between two calls of a handler, or two handlers
Between ==
  \/ /\ todo # <<>> /\ Head(todo).call = "set_token_balance"
     /\ BalancesOf(state) = committed
     /\ LET c == Head(todo)
        IN  expected = {[committed EXCEPT ![c.account][c.token] = c.balance]}
  \/ /\ todo # <<>> /\ Head(todo).call = "batch_update"
     /\ BalancesOf(state) = committed
     /\ LET c == Head(todo)
        IN  Len(c.updates) = 2 /\ expected = EitherOrder(c.updates[1], c.updates[2])
  \/ /\ todo = <<>> \/ Head(todo).call \in {"set_account_l2_addr", "increase_nonce"}
     /\ BalancesOf(state) \in expected

BalanceMaps == [Accounts -> [Tokens -> Balances]]

SerialInv ==
  /\ committed \in BalanceMaps
  /\ batch = <<>> => Between
  /\ batch # <<>> => Len(batch) = 2 /\ Halfway(batch[1], batch[2])

\* Writing again what was overwritten since: the last update of a leaf wins.
LEMMA WrittenTwice ==
  ASSUME NEW tree, NEW first, NEW second
  PROVE  /\ Written(Written(tree, first), first) = Written(tree, first)
         /\ Written(Written(Written(tree, first), second), first)
              = Written(Written(tree, second), first)
<1> DEFINE Writes(k, us) == {i \in DOMAIN us : us[i][1] = k}
           Value(k, us) == us[Max(Writes(k, us))][2]
<1>1. ASSUME NEW t, NEW us
      PROVE  Written(t, us) = [k \in DOMAIN t |-> IF Writes(k, us) = {} THEN t[k] ELSE Value(k, us)]
  BY DEF Written
<1> HIDE DEF Writes, Value
<1>2. ASSUME NEW t, NEW us
      PROVE  /\ DOMAIN Written(t, us) = DOMAIN t
             /\ \A k \in DOMAIN t :
                  Written(t, us)[k] = IF Writes(k, us) = {} THEN t[k] ELSE Value(k, us)
  BY <1>1
<1>3. Written(Written(tree, first), first) = Written(tree, first)
  <2> DEFINE x == Written(tree, first)
             y == Written(x, first)
  <2>1. x = [k \in DOMAIN tree |-> IF Writes(k, first) = {} THEN tree[k] ELSE Value(k, first)]
    BY <1>1
  <2>2. y = [k \in DOMAIN x |-> IF Writes(k, first) = {} THEN x[k] ELSE Value(k, first)]
    BY <1>1
  <2> HIDE DEF x, y
  <2>3. y = x  BY <2>1, <2>2
  <2> QED BY <2>3 DEF x, y
<1>4. Written(Written(Written(tree, first), second), first)
        = Written(Written(tree, second), first)
  <2> DEFINE a == Written(tree, first)
             b == Written(a, second)
             c == Written(b, first)
             d == Written(tree, second)
             e == Written(d, first)
  <2>1. /\ DOMAIN a = DOMAIN tree
        /\ \A k \in DOMAIN tree : a[k] = IF Writes(k, first) = {} THEN tree[k] ELSE Value(k, first)
    BY <1>2
  <2>2. /\ DOMAIN b = DOMAIN a
        /\ \A k \in DOMAIN a : b[k] = IF Writes(k, second) = {} THEN a[k] ELSE Value(k, second)
    BY <1>2
  <2>3. c = [k \in DOMAIN b |-> IF Writes(k, first) = {} THEN b[k] ELSE Value(k, first)]
    BY <1>1
  <2>4. /\ DOMAIN d = DOMAIN tree
        /\ \A k \in DOMAIN tree : d[k] = IF Writes(k, second) = {} THEN tree[k] ELSE Value(k, second)
    BY <1>2
  <2>5. e = [k \in DOMAIN d |-> IF Writes(k, first) = {} THEN d[k] ELSE Value(k, first)]
    BY <1>1
  <2> HIDE DEF a, b, c, d, e
  <2>6. DOMAIN b = DOMAIN d  BY <2>1, <2>2, <2>4
  <2>7. ASSUME NEW k \in DOMAIN d, Writes(k, first) = {} PROVE b[k] = d[k]
    BY <2>1, <2>2, <2>4, <2>7
  <2>8. c = e  BY <2>3, <2>5, <2>6, <2>7
  <2> QED BY <2>8 DEF a, b, c, d, e
<1> QED BY <1>3, <1>4

\* The same of the balances of all accounts, whether or not the updates are of one account.
LEMMA AfterTwice ==
  ASSUME NEW bs, bs \in BalanceMaps, NEW u, NEW v, u.account \in Accounts, v.account \in Accounts
  PROVE  /\ After(After(bs, u), u) = After(bs, u)
         /\ After(After(After(bs, u), v), u) = After(After(bs, v), u)
<1> DEFINE a == u.account
           b == v.account
<1>1. /\ a \in DOMAIN bs /\ b \in DOMAIN bs
      /\ bs = [x \in DOMAIN bs |-> bs[x]]
  BY DEF BalanceMaps
<1>2. ASSUME NEW f, NEW w, w.account \in DOMAIN f
      PROVE  /\ DOMAIN After(f, w) = DOMAIN f
             /\ After(f, w) = [x \in DOMAIN f |-> IF x = w.account
                                                  THEN Written(f[x], w.balances) ELSE f[x]]
  BY <1>2 DEF After
<1> DEFINE f1 == After(bs, u)
           f2 == After(f1, u)
           g2 == After(f1, v)
           g3 == After(g2, u)
           h1 == After(bs, v)
           h2 == After(h1, u)
           D == DOMAIN bs
<1>3. DOMAIN f1 = D /\ f1 = [x \in D |-> IF x = a THEN Written(bs[x], u.balances) ELSE bs[x]]
  BY <1>1, <1>2
<1>4. DOMAIN h1 = D /\ h1 = [x \in D |-> IF x = b THEN Written(bs[x], v.balances) ELSE bs[x]]
  BY <1>1, <1>2
<1>5. a \in DOMAIN f1 /\ b \in DOMAIN f1 /\ a \in DOMAIN h1  BY <1>1, <1>3, <1>4
<1>6. DOMAIN f2 = D /\ f2 = [x \in D |-> IF x = a THEN Written(f1[x], u.balances) ELSE f1[x]]
  BY <1>2, <1>3, <1>5
<1>7. DOMAIN g2 = D /\ g2 = [x \in D |-> IF x = b THEN Written(f1[x], v.balances) ELSE f1[x]]
  BY <1>2, <1>3, <1>5
<1>8. DOMAIN h2 = D /\ h2 = [x \in D |-> IF x = a THEN Written(h1[x], u.balances) ELSE h1[x]]
  BY <1>2, <1>4, <1>5
<1>9. DOMAIN g3 = D /\ g3 = [x \in D |-> IF x = a THEN Written(g2[x], u.balances) ELSE g2[x]]
  BY <1>1, <1>2, <1>7
<1> HIDE DEF f1, f2, g2, g3, h1, h2, D
<1>10. f2 = f1
  <2>1. ASSUME NEW x \in D PROVE f2[x] = f1[x]
    <3>1. CASE x = a  BY <1>3, <1>6, <3>1, WrittenTwice
    <3>2. CASE x # a  BY <1>6, <3>2
    <3> QED BY <3>1, <3>2
  <2> QED BY <1>3, <1>6, <2>1
<1>11. g3 = h2
  <2>1. ASSUME NEW x \in D PROVE g3[x] = h2[x]
    <3>1. CASE x = a /\ x = b
      <4>1. /\ f1[x] = Written(bs[x], u.balances) /\ g2[x] = Written(f1[x], v.balances)
            /\ g3[x] = Written(g2[x], u.balances)
            /\ h1[x] = Written(bs[x], v.balances) /\ h2[x] = Written(h1[x], u.balances)
        BY <1>3, <1>4, <1>7, <1>8, <1>9, <3>1
      <4> QED BY <4>1, WrittenTwice
    <3>2. CASE x = a /\ x # b
      <4>1. /\ f1[x] = Written(bs[x], u.balances) /\ g2[x] = f1[x]
            /\ g3[x] = Written(g2[x], u.balances)
            /\ h1[x] = bs[x] /\ h2[x] = Written(h1[x], u.balances)
        BY <1>3, <1>4, <1>7, <1>8, <1>9, <3>2
      <4> QED BY <4>1, WrittenTwice
    <3>3. CASE x # a /\ x = b
      <4>1. /\ f1[x] = bs[x] /\ g2[x] = Written(f1[x], v.balances) /\ g3[x] = g2[x]
            /\ h1[x] = Written(bs[x], v.balances) /\ h2[x] = h1[x]
        BY <1>3, <1>4, <1>7, <1>8, <1>9, <3>3
      <4> QED BY <4>1
    <3>4. CASE x # a /\ x # b
      <4>1. f1[x] = bs[x] /\ g2[x] = f1[x] /\ g3[x] = g2[x] /\ h1[x] = bs[x] /\ h2[x] = h1[x]
        BY <1>3, <1>4, <1>7, <1>8, <1>9, <3>4
      <4> QED BY <4>1
    <3> QED BY <3>1, <3>2, <3>3, <3>4
  <2> QED BY <1>8, <1>9, <2>1
<1> QED BY <1>10, <1>11 DEF f1, f2, g2, g3, h1, h2

LEMMA AfterTyped ==
  ASSUME NEW bs \in BalanceMaps, NEW n \in Nat, NEW u \in Updates(n)
  PROVE  After(bs, u) \in BalanceMaps
<1>1. bs[u.account] \in [Tokens -> Balances] /\ u.account \in Accounts
      /\ u.balances \in Seq(Tokens \X Balances)
  BY DEF BalanceMaps, Updates
<1>2. Written(bs[u.account], u.balances) \in [Tokens -> Balances]
  BY <1>1, WrittenTyped
<1> QED BY <1>1, <1>2 DEF After, BalanceMaps

\* What BalancesOf says of a typed state.
LEMMA BalancesTyped ==
  ASSUME NEW n \in Nat, NEW st, Typed(st, n)
  PROVE  /\ BalancesOf(st) \in BalanceMaps
         /\ \A a \in Known(st) : BalancesOf(st)[a] = st.balanceTrees[a]
         /\ \A a \in Accounts \ Known(st) : BalancesOf(st)[a] = EmptyBalances
<1> DEFINE tree(a) == [t \in Tokens |-> IF a \in Known(st) THEN st.balanceTrees[a][t] ELSE 0]
<1>1. BalancesOf(st) = [a \in Accounts |-> tree(a)]  BY DEF BalancesOf
<1>2. ASSUME NEW a \in Known(st) PROVE tree(a) = st.balanceTrees[a]
  <2>1. st.balanceTrees[a] \in [Tokens -> Balances]  BY DEF Typed
  <2> QED BY <2>1
<1>3. ASSUME NEW a \in Accounts \ Known(st) PROVE tree(a) = EmptyBalances
  BY DEF EmptyBalances
<1>4. ASSUME NEW a \in Accounts PROVE tree(a) \in [Tokens -> Balances]
  <2>1. CASE a \in Known(st)  BY <1>2, <2>1 DEF Typed
  <2>2. CASE a \notin Known(st)
    BY <1>3, <2>2, GlobalStateAssumption DEF EmptyBalances
  <2> QED BY <2>1, <2>2
<1>5. Known(st) \subseteq Accounts  BY DEF Typed
<1> HIDE DEF tree
<1> QED BY <1>1, <1>2, <1>3, <1>4, <1>5 DEF BalanceMaps

\* The balances are those of the balance trees.
LEMMA BalancesSame ==
  ASSUME NEW st, NEW new, Known(new) = Known(st), new.balanceTrees = st.balanceTrees
  PROVE  BalancesOf(new) = BalancesOf(st)
BY DEF BalancesOf

\* set_token_balance changes one balance, also of an account it makes known.
LEMMA BalanceSet ==
  ASSUME NEW n \in Nat, NEW st, Typed(st, n), NEW a \in Accounts,
         NEW t \in Tokens, NEW x \in Balances
  PROVE  BalancesOf(SetTokenBalance(st, a, t, x)) = [BalancesOf(st) EXCEPT ![a][t] = x]
<1> DEFINE new == SetTokenBalance(st, a, t, x)
<1>1. /\ Typed(new, n) /\ Known(new) = Known(st) \cup {a}
      /\ new.balanceTrees[a]
           = [IF a \in Known(st) THEN st.balanceTrees[a] ELSE EmptyBalances EXCEPT ![t] = x]
      /\ \A b \in Known(st) \ {a} : Same(st, new, b)
  BY SetTokenBalanceResult, SetTokenBalanceTree
<1> HIDE DEF new
<1>2. /\ BalancesOf(st) \in BalanceMaps
      /\ \A b \in Known(st) : BalancesOf(st)[b] = st.balanceTrees[b]
      /\ \A b \in Accounts \ Known(st) : BalancesOf(st)[b] = EmptyBalances
  BY BalancesTyped
<1>3. /\ BalancesOf(new) \in BalanceMaps
      /\ \A b \in Known(new) : BalancesOf(new)[b] = new.balanceTrees[b]
      /\ \A b \in Accounts \ Known(new) : BalancesOf(new)[b] = EmptyBalances
  BY <1>1, BalancesTyped
<1>4. BalancesOf(new)[a] = [BalancesOf(st)[a] EXCEPT ![t] = x]
  BY <1>1, <1>2, <1>3
<1>5. ASSUME NEW b \in Accounts \ {a} PROVE BalancesOf(new)[b] = BalancesOf(st)[b]
  <2>1. CASE b \in Known(st)  BY <1>1, <1>2, <1>3, <2>1 DEF Same
  <2>2. CASE b \notin Known(st)  BY <1>1, <1>2, <1>3, <2>2
  <2> QED BY <2>1, <2>2
<1> DEFINE old == BalancesOf(st)
           now == BalancesOf(new)
<1>6. old \in BalanceMaps /\ now \in BalanceMaps  BY <1>2, <1>3
<1>7. now[a] = [old[a] EXCEPT ![t] = x] /\ \A b \in Accounts \ {a} : now[b] = old[b]
  BY <1>4, <1>5
<1> HIDE DEF old, now
<1>8. now = [old EXCEPT ![a][t] = x]
  BY <1>6, <1>7 DEF BalanceMaps
<1> QED BY <1>8 DEF old, now, new

\* A balance job makes its update, an order job changes no balance.
LEMMA BalancesAfterJob ==
  ASSUME NEW n \in Nat, NEW st, Typed(st, n), NEW job \in Jobs, job.account \in Known(st)
  PROVE  /\ job.kind # "balance" => BalancesOf(JobDone(st, job)) = BalancesOf(st)
         /\ \A u : job = JobOf(u) => BalancesOf(JobDone(st, job)) = After(BalancesOf(st), u)
<1> DEFINE new == JobDone(st, job)
<1>1. /\ Typed(new, n) /\ Known(new) = Known(st)
      /\ new.balanceTrees = IF job.kind = "balance"
                            THEN [st.balanceTrees EXCEPT ![job.account] = Written(@, job.updates)]
                            ELSE st.balanceTrees
  BY JobDoneResult
<1> HIDE DEF new
<1>2. ASSUME job.kind # "balance" PROVE BalancesOf(new) = BalancesOf(st)
  BY <1>1, <1>2, BalancesSame
<1>3. ASSUME NEW u, job = JobOf(u) PROVE BalancesOf(new) = After(BalancesOf(st), u)
  <2> DEFINE a == u.account
             old == BalancesOf(st)
             now == BalancesOf(new)
  <2>1. job.kind = "balance" /\ job.account = a /\ job.updates = u.balances
    BY <1>3 DEF JobOf, Job
  <2>2. st.balanceTrees \in [Known(st) -> [Tokens -> Balances]] /\ Known(st) \subseteq Accounts
    BY DEF Typed
  <2>3. /\ new.balanceTrees[a] = Written(st.balanceTrees[a], u.balances)
        /\ \A b \in Known(st) \ {a} : new.balanceTrees[b] = st.balanceTrees[b]
    BY <1>1, <2>1, <2>2
  <2>4. /\ old \in BalanceMaps
        /\ \A b \in Known(st) : old[b] = st.balanceTrees[b]
        /\ \A b \in Accounts \ Known(st) : old[b] = EmptyBalances
    BY BalancesTyped
  <2>5. /\ now \in BalanceMaps
        /\ \A b \in Known(new) : now[b] = new.balanceTrees[b]
        /\ \A b \in Accounts \ Known(new) : now[b] = EmptyBalances
    BY <1>1, BalancesTyped
  <2> HIDE DEF old, now
  <2>6. now[a] = Written(old[a], u.balances)  BY <1>1, <2>1, <2>3, <2>4, <2>5
  <2>7. ASSUME NEW b \in Accounts \ {a} PROVE now[b] = old[b]
    <3>1. CASE b \in Known(st)  BY <1>1, <2>3, <2>4, <2>5, <3>1
    <3>2. CASE b \notin Known(st)  BY <1>1, <2>4, <2>5, <3>2
    <3> QED BY <3>1, <3>2
  <2>8. now = After(old, u)
    BY <2>1, <2>2, <2>4, <2>5, <2>6, <2>7 DEF After, BalanceMaps
  <2> QED BY <2>8 DEF old, now
<1> QED BY <1>2, <1>3 DEF new

\* A frame put on a stack, and the one on top of it.
LEMMA JobsPushed ==
  ASSUME NEW S, NEW s \in Seq(S), NEW x \in S
  PROVE  /\ JobsOn(<<x>> \o s) = {x.job} \cup JobsOn(s)
         /\ WaitsOn(<<x>> \o s) = (IF x.at # "steals" THEN {x.job} ELSE {}) \cup WaitsOn(s)
<1> DEFINE new == <<x>> \o s
           n == Len(s)
<1>1. n \in Nat /\ DOMAIN s = 1 .. n  OBVIOUS
<1>2. DOMAIN new = 1 .. n + 1 /\ new[1] = x /\ \A i \in 1 .. n : new[i + 1] = s[i]
  OBVIOUS
<1> HIDE DEF new, n
<1>3. \A i \in DOMAIN new : i = 1 \/ (i - 1 \in DOMAIN s /\ new[i] = s[i - 1])
  <2> TAKE i \in DOMAIN new
  <2>1. CASE i # 1
    <3>1. i - 1 \in 1 .. n /\ i - 1 + 1 = i  BY <1>1, <1>2, <2>1
    <3> QED BY <1>1, <1>2, <3>1
  <2> QED BY <2>1
<1>4. 1 \in DOMAIN new /\ \A i \in DOMAIN s : i + 1 \in DOMAIN new /\ new[i + 1] = s[i]
  BY <1>1, <1>2
<1>5. JobsOn(new) = {x.job} \cup JobsOn(s)
  <2>1. ASSUME NEW j \in JobsOn(new) PROVE j = x.job \/ j \in JobsOn(s)
    BY <1>2, <1>3 DEF JobsOn
  <2>2. x.job \in JobsOn(new)  BY <1>2, <1>4 DEF JobsOn
  <2>3. ASSUME NEW j \in JobsOn(s) PROVE j \in JobsOn(new)
    BY <1>4 DEF JobsOn
  <2> QED BY <2>1, <2>2, <2>3
<1>6. WaitsOn(new) = (IF x.at # "steals" THEN {x.job} ELSE {}) \cup WaitsOn(s)
  <2>1. ASSUME NEW j \in WaitsOn(new)
        PROVE  (x.at # "steals" /\ j = x.job) \/ j \in WaitsOn(s)
    <3>1. PICK i \in DOMAIN new : new[i].at # "steals" /\ j = new[i].job  BY DEF WaitsOn
    <3> QED BY <1>2, <1>3, <3>1 DEF WaitsOn
  <2>2. x.at # "steals" => x.job \in WaitsOn(new)  BY <1>2, <1>4 DEF WaitsOn
  <2>3. ASSUME NEW j \in WaitsOn(s) PROVE j \in WaitsOn(new)
    <3>1. PICK i \in DOMAIN s : s[i].at # "steals" /\ j = s[i].job  BY DEF WaitsOn
    <3>2. i + 1 \in DOMAIN new /\ new[i + 1].at # "steals" /\ j = new[i + 1].job
      BY <1>4, <3>1
    <3> QED BY <3>2 DEF WaitsOn
  <2> QED BY <2>1, <2>2, <2>3
<1> QED BY <1>5, <1>6 DEF new

LEMMA JobsTop ==
  ASSUME NEW S, NEW s \in Seq(S), s # <<>>
  PROVE  /\ JobsOn(s) = {Head(s).job} \cup JobsOn(Tail(s))
         /\ WaitsOn(s) = (IF Head(s).at # "steals" THEN {Head(s).job} ELSE {}) \cup WaitsOn(Tail(s))
<1>1. PICK x, r : x = Head(s) /\ r = Tail(s)  OBVIOUS
<1>2. x \in S /\ r \in Seq(S) /\ s = <<x>> \o r  BY <1>1
<1>3. /\ JobsOn(<<x>> \o r) = {x.job} \cup JobsOn(r)
      /\ WaitsOn(<<x>> \o r) = (IF x.at # "steals" THEN {x.job} ELSE {}) \cup WaitsOn(r)
  BY <1>2, JobsPushed
<1>4. /\ JobsOn(s) = {x.job} \cup JobsOn(r)
      /\ WaitsOn(s) = (IF x.at # "steals" THEN {x.job} ELSE {}) \cup WaitsOn(r)
  BY ONLY <1>2, <1>3
<1> QED BY ONLY <1>1, <1>4

\* The stacks of two workers change, or that of one.
LEMMA PoolChanges ==
  ASSUME NEW v \in Workers, NEW w \in Workers,
         \A x \in Workers \ {v, w} : stack'[x] = stack[x],
         Range(jobs') \subseteq Pool, JobsOn(stack'[v]) \subseteq Pool, JobsOn(stack'[w]) \subseteq Pool
  PROVE  Pool' \subseteq Pool
<1>1. ASSUME NEW x \in Workers PROVE JobsOn(stack'[x]) \subseteq Pool
  <2>1. CASE x \in {v, w}  BY <2>1
  <2>2. CASE x \notin {v, w}
    <3>1. stack'[x] = stack[x]  BY <2>2
    <3>2. JobsOn(stack[x]) \subseteq Pool  BY DEF Pool
    <3> QED BY <3>1, <3>2
  <2> QED BY <2>1, <2>2
<1>2. ASSUME NEW job \in Pool' PROVE job \in Pool
  <2>1. job \in Range(jobs') \/ \E x \in Workers : job \in JobsOn(stack'[x])  BY DEF Pool
  <2> QED BY <1>1, <2>1
<1> QED BY <1>2

LEMMA PendingStays ==
  ASSUME NEW v \in Workers, NEW w \in Workers, NEW gone,
         \A x \in Workers \ {v, w} : stack'[x] = stack[x],
         Range(jobs) \subseteq Pending' \cup gone,
         WaitsOn(stack[v]) \subseteq Pending' \cup gone, WaitsOn(stack[w]) \subseteq Pending' \cup gone
  PROVE  Pending \subseteq Pending' \cup gone
<1>1. ASSUME NEW x \in Workers PROVE WaitsOn(stack[x]) \subseteq Pending' \cup gone
  <2>1. CASE x \in {v, w}  BY <2>1
  <2>2. CASE x \notin {v, w}
    <3>1. stack'[x] = stack[x]  BY <2>2
    <3>2. WaitsOn(stack'[x]) \subseteq Pending'  BY DEF Pending
    <3> QED BY <3>1, <3>2
  <2> QED BY <2>1, <2>2
<1>2. ASSUME NEW job \in Pending PROVE job \in Pending' \cup gone
  <2>1. job \in Range(jobs) \/ \E x \in Workers : job \in WaitsOn(stack[x])  BY DEF Pending
  <2> QED BY <1>1, <2>1
<1> QED BY <1>2

\* A step that leaves the state alone, adds no job and loses none.
LEMMA QuietSerial ==
  ASSUME IInv, SerialInv, batch # <<>>, UNCHANGED rest,
         Pool' \subseteq Pool, Pending \subseteq Pending'
  PROVE  SerialInv'
<1>1. UNCHANGED <<state, todo, batch, committed, expected>>  BY DEF rest
<1>2. BalancesOf(state') = BalancesOf(state)  BY <1>1
<1>3. Len(batch) = 2 /\ Halfway(batch[1], batch[2]) /\ committed \in BalanceMaps  BY DEF SerialInv
<1>4. PICK u, v : u = batch[1] /\ v = batch[2]  OBVIOUS
<1>5. \A job \in Pool' : job.kind = "balance" => job \in {JobOf(u), JobOf(v)}
  BY <1>3, <1>4 DEF Halfway
<1>6. \/ BalancesOf(state') = committed' /\ {JobOf(u), JobOf(v)} \subseteq Pending'
      \/ BalancesOf(state') = After(committed', u) /\ JobOf(v) \in Pending'
      \/ BalancesOf(state') = After(committed', v) /\ JobOf(u) \in Pending'
      \/ BalancesOf(state') \in expected'
  BY <1>1, <1>2, <1>3, <1>4 DEF Halfway
<1>7. expected' = {After(After(committed', u), v), After(After(committed', v), u)}
  BY <1>1, <1>3, <1>4 DEF Halfway, EitherOrder
<1>8. Halfway(batch[1], batch[2])'
  BY <1>1, <1>4, <1>5, <1>6, <1>7 DEF Halfway, EitherOrder
<1> QED BY <1>1, <1>3, <1>8 DEF SerialInv

LEMMA TakeJobSerial ==
  ASSUME IInv, SerialInv, NEW w \in Workers, TakeJob(w)
  PROVE  SerialInv'
<1>1. jobs \in Seq(BatchJobs) /\ jobs # <<>> /\ batch # <<>>
  BY DEF IInv, PoolOK, TakeJob
<1>2. Range(jobs) = {Head(jobs)} \cup Range(Tail(jobs))
  <2> DEFINE n == Len(jobs)
  <2> HIDE DEF BatchJobs
  <2>1. n \in Nat /\ DOMAIN jobs = 1 .. n /\ n >= 1 /\ Head(jobs) = jobs[1]
    BY <1>1
  <2>2. /\ DOMAIN Tail(jobs) = 1 .. n - 1
        /\ \A i \in 1 .. n - 1 : Tail(jobs)[i] = jobs[i + 1]
    BY <1>1
  <2> HIDE DEF n
  <2>3. ASSUME NEW i \in DOMAIN jobs PROVE jobs[i] \in {Head(jobs)} \cup Range(Tail(jobs))
    <3>1. CASE i # 1
      <4>1. i - 1 \in 1 .. n - 1 /\ i - 1 + 1 = i  BY <2>1, <3>1
      <4>2. Tail(jobs)[i - 1] = jobs[i]  BY <2>2, <4>1
      <4> QED BY <2>2, <4>1, <4>2 DEF Range
    <3> QED BY <2>1, <3>1
  <2>4. Head(jobs) \in Range(jobs)
    <3>1. 1 \in DOMAIN jobs  BY <2>1
    <3> QED BY <2>1, <3>1 DEF Range
  <2>5. ASSUME NEW i \in DOMAIN Tail(jobs) PROVE Tail(jobs)[i] \in Range(jobs)
    <3>1. i + 1 \in DOMAIN jobs /\ Tail(jobs)[i] = jobs[i + 1]  BY <2>1, <2>2
    <3> QED BY <3>1 DEF Range
  <2> QED BY <2>3, <2>4, <2>5 DEF Range
<1>3. stack \in [Workers -> Seq(Frames)]  BY StackTyped
<1> DEFINE x == Frame(Head(jobs), "locks")
<1>4. x \in Frames
  <2>1. Head(jobs) \in BatchJobs
    <3> HIDE DEF BatchJobs
    <3> QED BY <1>1
  <2> QED BY <2>1 DEF Frame, Frames, Places
<1>5. x.job = Head(jobs) /\ x.at # "steals"  BY DEF Frame
<1>6. /\ stack' = [stack EXCEPT ![w] = <<x>> \o stack[w]]
      /\ jobs' = Tail(jobs) /\ UNCHANGED rest
  BY DEF TakeJob
<1> HIDE DEF Frames, x
<1>7. /\ JobsOn(<<x>> \o stack[w]) = {Head(jobs)} \cup JobsOn(stack[w])
      /\ WaitsOn(<<x>> \o stack[w]) = {Head(jobs)} \cup WaitsOn(stack[w])
  BY <1>3, <1>4, <1>5, JobsPushed
<1>8. stack'[w] = <<x>> \o stack[w] /\ \A y \in Workers \ {w} : stack'[y] = stack[y]
  BY <1>3, <1>6
<1>9. Pool' \subseteq Pool
  <2>1. Range(jobs) \subseteq Pool /\ JobsOn(stack[w]) \subseteq Pool  BY DEF Pool
  <2>2. Range(jobs') \subseteq Pool /\ JobsOn(stack'[w]) \subseteq Pool
    BY <1>2, <1>6, <1>7, <1>8, <2>1
  <2> QED BY <1>8, <2>2, PoolChanges
<1>10. Pending \subseteq Pending'
  <2>1. Range(jobs') \subseteq Pending' /\ WaitsOn(stack'[w]) \subseteq Pending'  BY DEF Pending
  <2>2. Range(jobs) \subseteq Pending' /\ WaitsOn(stack[w]) \subseteq Pending'
    BY <1>2, <1>6, <1>7, <1>8, <2>1
  <2>3. Pending \subseteq Pending' \cup {}  BY <1>8, <2>2, PendingStays
  <2> QED BY <2>3
<1> QED BY <1>1, <1>6, <1>9, <1>10, QuietSerial

LEMMA MovesSerial ==
  ASSUME IInv, SerialInv, NEW w \in Workers, LockTree(w) \/ KeepHalf(w)
  PROVE  SerialInv'
<1>1. /\ Busy(w) /\ UNCHANGED rest /\ jobs' = jobs
      /\ Top(w).at # "steals" /\ \E at \in Places \ {"steals"} : Move(w, at)
  BY DEF LockTree, KeepHalf, At, Places
<1>2. PICK at \in Places \ {"steals"} : Move(w, at)  BY <1>1
<1>3. batch # <<>> /\ stack \in [Workers -> Seq(Frames)] /\ Top(w) \in Frames
      /\ Tail(stack[w]) \in Seq(Frames)
  BY <1>1, StackTyped
<1>4. PICK top, below : top = Top(w) /\ below = Tail(stack[w])  OBVIOUS
<1>5. PICK x : x = Frame(top.job, at)  OBVIOUS
<1>6. x \in Frames /\ x.job = top.job /\ x.at # "steals" /\ top.at # "steals"
  BY <1>1, <1>2, <1>3, <1>4, <1>5 DEF Frame, Frames
<1> HIDE DEF Frames
<1>7. /\ JobsOn(stack[w]) = {top.job} \cup JobsOn(below)
      /\ WaitsOn(stack[w]) = {top.job} \cup WaitsOn(below)
  <2>1. stack[w] \in Seq(Frames) /\ stack[w] # <<>>  BY <1>1, <1>3 DEF Busy
  <2> QED BY <1>4, <1>6, <2>1, JobsTop DEF Top
<1>8. /\ JobsOn(<<x>> \o below) = {top.job} \cup JobsOn(below)
      /\ WaitsOn(<<x>> \o below) = {top.job} \cup WaitsOn(below)
  <2>1. below \in Seq(Frames)  BY <1>3, <1>4
  <2> QED BY <1>6, <2>1, JobsPushed
<1>9. stack'[w] = <<x>> \o below /\ \A y \in Workers \ {w} : stack'[y] = stack[y]
  BY <1>2, <1>3, <1>4, <1>5 DEF Move
<1>10. JobsOn(stack'[w]) = JobsOn(stack[w]) /\ WaitsOn(stack'[w]) = WaitsOn(stack[w])
  BY <1>7, <1>8, <1>9
<1>11. Pool' \subseteq Pool
  <2>1. Range(jobs) \subseteq Pool /\ JobsOn(stack[w]) \subseteq Pool  BY DEF Pool
  <2>2. Range(jobs') \subseteq Pool /\ JobsOn(stack'[w]) \subseteq Pool
    BY <1>1, <1>10, <2>1
  <2> QED BY <1>9, <2>2, PoolChanges
<1>12. Pending \subseteq Pending'
  <2>1. Range(jobs') \subseteq Pending' /\ WaitsOn(stack'[w]) \subseteq Pending'  BY DEF Pending
  <2>2. Range(jobs) \subseteq Pending' /\ WaitsOn(stack[w]) \subseteq Pending'
    BY <1>1, <1>10, <2>1
  <2>3. Pending \subseteq Pending' \cup {}  BY <1>9, <2>2, PendingStays
  <2> QED BY <2>3
<1> QED BY <1>1, <1>3, <1>11, <1>12, QuietSerial

LEMMA StealHalfSerial ==
  ASSUME IInv, SerialInv, NEW v \in Workers, NEW w \in Workers, StealHalf(v, w)
  PROVE  SerialInv'
<1>1. /\ Busy(w) /\ UNCHANGED rest /\ jobs' = jobs /\ v # w /\ Top(w).at = "splits"
  BY DEF StealHalf, At
<1>2. batch # <<>> /\ stack \in [Workers -> Seq(Frames)] /\ Top(w) \in Frames
      /\ Tail(stack[w]) \in Seq(Frames)
  BY <1>1, StackTyped
<1>3. PICK top, below : top = Top(w) /\ below = Tail(stack[w])  OBVIOUS
<1>4. PICK x, y : x = Frame(top.job, "steals") /\ y = Frame(top.job, "waits")  OBVIOUS
<1>5. /\ x \in Frames /\ x.job = top.job /\ x.at = "steals"
      /\ y \in Frames /\ y.job = top.job /\ y.at # "steals" /\ top.at # "steals"
  BY <1>1, <1>2, <1>3, <1>4 DEF Frame, Frames, Places
<1>6. stack' = [stack EXCEPT ![v] = <<x>> \o stack[v], ![w] = <<y>> \o below]
  BY <1>1, <1>3, <1>4 DEF StealHalf
<1> HIDE DEF Frames
<1>7. /\ JobsOn(stack[w]) = {top.job} \cup JobsOn(below)
      /\ WaitsOn(stack[w]) = {top.job} \cup WaitsOn(below)
  <2>1. stack[w] \in Seq(Frames) /\ stack[w] # <<>>  BY <1>1, <1>2 DEF Busy
  <2> QED BY <1>3, <1>5, <2>1, JobsTop DEF Top
<1>8. /\ JobsOn(<<y>> \o below) = {top.job} \cup JobsOn(below)
      /\ WaitsOn(<<y>> \o below) = {top.job} \cup WaitsOn(below)
  <2>1. below \in Seq(Frames)  BY <1>2, <1>3
  <2> QED BY <1>5, <2>1, JobsPushed
<1>9. /\ JobsOn(<<x>> \o stack[v]) = {top.job} \cup JobsOn(stack[v])
      /\ WaitsOn(<<x>> \o stack[v]) = WaitsOn(stack[v])
  <2>1. PICK s : s = stack[v]  OBVIOUS
  <2>2. s \in Seq(Frames)  BY <1>2, <2>1
  <2>3. /\ JobsOn(<<x>> \o s) = {x.job} \cup JobsOn(s)
        /\ WaitsOn(<<x>> \o s) = (IF x.at # "steals" THEN {x.job} ELSE {}) \cup WaitsOn(s)
    BY <1>5, <2>2, JobsPushed
  <2>4. WaitsOn(<<x>> \o s) = WaitsOn(s)  BY <1>5, <2>3
  <2> QED BY <1>5, <2>1, <2>3, <2>4
<1>10. /\ stack'[w] = <<y>> \o below /\ stack'[v] = <<x>> \o stack[v]
       /\ \A z \in Workers \ {v, w} : stack'[z] = stack[z]
  BY <1>1, <1>2, <1>6
<1>11. Pool' \subseteq Pool
  <2>1. Range(jobs) \subseteq Pool /\ JobsOn(stack[w]) \subseteq Pool
        /\ JobsOn(stack[v]) \subseteq Pool
    BY DEF Pool
  <2>2. Range(jobs') \subseteq Pool /\ JobsOn(stack'[w]) \subseteq Pool
        /\ JobsOn(stack'[v]) \subseteq Pool
    BY <1>1, <1>7, <1>8, <1>9, <1>10, <2>1
  <2> QED BY <1>10, <2>2, PoolChanges
<1>12. Pending \subseteq Pending'
  <2>1. Range(jobs') \subseteq Pending' /\ WaitsOn(stack'[w]) \subseteq Pending'
        /\ WaitsOn(stack'[v]) \subseteq Pending'
    BY DEF Pending
  <2>2. Range(jobs) \subseteq Pending' /\ WaitsOn(stack[w]) \subseteq Pending'
        /\ WaitsOn(stack[v]) \subseteq Pending'
    BY <1>1, <1>7, <1>8, <1>9, <1>10, <2>1
  <2>3. Pending \subseteq Pending' \cup {}  BY <1>10, <2>2, PendingStays
  <2> QED BY <2>3
<1> QED BY <1>1, <1>2, <1>11, <1>12, QuietSerial

\* A frame inside a stack goes on to another place.
LEMMA JobsMoved ==
  ASSUME NEW s, NEW i \in DOMAIN s, NEW f, f.job = s[i].job, f.at # "steals"
  PROVE  /\ JobsOn([s EXCEPT ![i] = f]) = JobsOn(s)
         /\ WaitsOn(s) \subseteq WaitsOn([s EXCEPT ![i] = f])
<1> DEFINE new == [s EXCEPT ![i] = f]
<1>1. DOMAIN new = DOMAIN s /\ new[i] = f /\ \A k \in DOMAIN s \ {i} : new[k] = s[k]
  OBVIOUS
<1> HIDE DEF new
<1>2. \A k \in DOMAIN s : new[k].job = s[k].job  BY <1>1
<1>3. \A k \in DOMAIN s : s[k].at # "steals" => new[k].at # "steals"  BY <1>1
<1>4. JobsOn(new) = JobsOn(s)  BY <1>1, <1>2 DEF JobsOn
<1>5. ASSUME NEW j \in WaitsOn(s) PROVE j \in WaitsOn(new)
  <2>1. PICK k \in DOMAIN s : s[k].at # "steals" /\ j = s[k].job  BY DEF WaitsOn
  <2> QED BY <1>1, <1>2, <1>3, <2>1 DEF WaitsOn
<1> QED BY <1>4, <1>5 DEF new

LEMMA HalfDoneSerial ==
  ASSUME IInv, SerialInv, NEW v \in Workers, HalfDone(v)
  PROVE  SerialInv'
<1>1. Busy(v) /\ UNCHANGED rest /\ jobs' = jobs /\ Top(v).at = "steals"
  BY DEF HalfDone, At
<1>2. batch # <<>> /\ stack \in [Workers -> Seq(Frames)] /\ Top(v) \in Frames
      /\ Tail(stack[v]) \in Seq(Frames)
  BY <1>1, StackTyped
<1>3. PICK w \in Workers \ {v} :
        \E i \in DOMAIN stack[w] :
          stack' = [stack EXCEPT ![v] = Tail(stack[v]), ![w][i].at = "applies"]
  BY DEF HalfDone
<1>4. PICK i \in DOMAIN stack[w] :
        stack' = [stack EXCEPT ![v] = Tail(stack[v]), ![w][i].at = "applies"]
  BY <1>3
<1>5. PICK top, below : top = Top(v) /\ below = Tail(stack[v])  OBVIOUS
<1>6. PICK s : s = stack[w]  OBVIOUS
<1>7. PICK old : old = s[i]  OBVIOUS
<1>8. PICK f : f = [old EXCEPT !.at = "applies"]  OBVIOUS
<1>9. old \in Frames
  <2> HIDE DEF Frames
  <2>1. s \in Seq(Frames)  BY <1>2, <1>3, <1>6
  <2> QED BY <1>4, <1>6, <1>7, <2>1
<1>10. f.job = old.job /\ f.at # "steals"  BY <1>8, <1>9 DEF Frames
<1>11. PICK moved : moved = [s EXCEPT ![i] = f]  OBVIOUS
<1> HIDE DEF Frames
<1>12. stack' = [stack EXCEPT ![v] = below, ![w] = moved]
  BY <1>2, <1>3, <1>4, <1>5, <1>6, <1>7, <1>8, <1>11
<1>13. /\ stack'[v] = below /\ stack'[w] = moved
       /\ \A z \in Workers \ {v, w} : stack'[z] = stack[z]
  BY <1>2, <1>3, <1>12
<1>14. /\ JobsOn(stack[v]) = {top.job} \cup JobsOn(below)
       /\ WaitsOn(stack[v]) = WaitsOn(below)
  <2>1. stack[v] \in Seq(Frames) /\ stack[v] # <<>>  BY <1>1, <1>2 DEF Busy
  <2>2. top.at = "steals" /\ top = Head(stack[v])  BY <1>1, <1>5 DEF Top
  <2> QED BY <1>5, <2>1, <2>2, JobsTop
<1>15. JobsOn(moved) = JobsOn(stack[w]) /\ WaitsOn(stack[w]) \subseteq WaitsOn(moved)
  BY <1>4, <1>6, <1>7, <1>10, <1>11, JobsMoved
<1>16. Pool' \subseteq Pool
  <2>1. Range(jobs) \subseteq Pool /\ JobsOn(stack[w]) \subseteq Pool
        /\ JobsOn(stack[v]) \subseteq Pool
    BY <1>3 DEF Pool
  <2>2. Range(jobs') \subseteq Pool /\ JobsOn(stack'[w]) \subseteq Pool
        /\ JobsOn(stack'[v]) \subseteq Pool
    BY <1>1, <1>13, <1>14, <1>15, <2>1
  <2> QED BY <1>3, <1>13, <2>2, PoolChanges
<1>17. Pending \subseteq Pending'
  <2>1. Range(jobs') \subseteq Pending' /\ WaitsOn(stack'[w]) \subseteq Pending'
        /\ WaitsOn(stack'[v]) \subseteq Pending'
    BY <1>3 DEF Pending
  <2>2. Range(jobs) \subseteq Pending' /\ WaitsOn(stack[w]) \subseteq Pending'
        /\ WaitsOn(stack[v]) \subseteq Pending'
    BY <1>1, <1>13, <1>14, <1>15, <2>1
  <2>3. Pending \subseteq Pending' \cup {}  BY <1>3, <1>13, <2>2, PendingStays
  <2> QED BY <2>3
<1> QED BY <1>1, <1>2, <1>16, <1>17, QuietSerial

\* Equal jobs make the same update, as in a transfer to oneself of what changes nothing.
LEMMA EqualJobs ==
  ASSUME NEW u, NEW v, JobOf(u) = JobOf(v), NEW bs
  PROVE  After(bs, u) = After(bs, v)
<1>1. JobOf(u).account = u.account /\ JobOf(u).updates = u.balances
      /\ JobOf(v).account = v.account /\ JobOf(v).updates = v.balances
  BY DEF JobOf, Job
<1>2. u.account = v.account /\ u.balances = v.balances  BY <1>1
<1> QED BY <1>2 DEF After

\* One of two updates is made, with those before and after it pending.
LEMMA OneDone ==
  ASSUME NEW bs, bs \in BalanceMaps, NEW u, NEW v, u.account \in Accounts, v.account \in Accounts,
         NEW before, NEW after, before \subseteq after \cup {JobOf(u)},
         NEW now,
         \/ now = bs /\ {JobOf(u), JobOf(v)} \subseteq before
         \/ now = After(bs, u) /\ JobOf(v) \in before
         \/ now = After(bs, v) /\ JobOf(u) \in before
         \/ now \in {After(After(bs, u), v), After(After(bs, v), u)}
  PROVE  \/ After(now, u) = After(bs, u) /\ JobOf(v) \in after
         \/ After(now, u) \in {After(After(bs, u), v), After(After(bs, v), u)}
<1>1. /\ After(After(bs, u), u) = After(bs, u)
      /\ After(After(After(bs, u), v), u) = After(After(bs, v), u)
  BY AfterTwice
<1>2. CASE now \in {bs, After(bs, u)} /\ JobOf(v) \in before
  <2>1. After(now, u) = After(bs, u)  BY <1>1, <1>2
  <2>2. CASE JobOf(v) = JobOf(u)
    <3>1. After(After(bs, u), v) = After(After(bs, u), u)  BY <2>2, EqualJobs
    <3> QED BY <1>1, <2>1, <3>1
  <2>3. CASE JobOf(v) # JobOf(u)  BY <1>2, <2>1, <2>3
  <2> QED BY <2>2, <2>3
<1>3. CASE now = After(bs, v)  BY <1>3
<1>4. CASE now = After(After(bs, u), v)  BY <1>1, <1>4
<1>5. CASE now = After(After(bs, v), u)
  <2>1. PICK f : f = After(bs, v)  OBVIOUS
  <2>2. After(After(f, u), u) = After(f, u)
    <3>1. DOMAIN f = DOMAIN bs  BY <2>1 DEF After
    <3>2. u.account \in DOMAIN f  BY <3>1 DEF BalanceMaps
    <3>3. PICK g : g = After(f, u)  OBVIOUS
    <3>4. g = [f EXCEPT ![u.account] = Written(f[u.account], u.balances)]  BY <3>3 DEF After
    <3>5. g[u.account] = Written(f[u.account], u.balances) /\ u.account \in DOMAIN g
      BY <3>2, <3>4
    <3>6. Written(g[u.account], u.balances) = g[u.account]  BY <3>5, WrittenTwice
    <3>7. After(g, u) = [g EXCEPT ![u.account] = g[u.account]]  BY <3>6 DEF After
    <3>8. [g EXCEPT ![u.account] = g[u.account]] = g  BY <3>4, <3>5
    <3> QED BY <3>3, <3>7, <3>8
  <2> QED BY <1>5, <2>1, <2>2
<1> QED BY <1>2, <1>3, <1>4, <1>5

LEMMA ApplyJobSerial ==
  ASSUME IInv, SerialInv, NEW w \in Workers, ApplyJob(w)
  PROVE  SerialInv'
<1>1. /\ Busy(w) /\ Top(w).at = "applies" /\ state' = JobDone(state, Top(w).job)
      /\ stack' = [stack EXCEPT ![w] = Tail(stack[w])] /\ jobs' = jobs
      /\ UNCHANGED <<batch, todo, committed, expected>>
  BY DEF ApplyJob, At
<1>2. batch # <<>> /\ stack \in [Workers -> Seq(Frames)] /\ Top(w) \in Frames
      /\ Tail(stack[w]) \in Seq(Frames)
  BY <1>1, StackTyped
<1>3. PICK top, below : top = Top(w) /\ below = Tail(stack[w])  OBVIOUS
<1>4. PICK job : job = top.job  OBVIOUS
<1>5. job \in Jobs /\ job.account \in Known(state)
  BY <1>2, <1>3, <1>4 DEF Frames, BatchJobs, IInv, BatchOK
<1> HIDE DEF Frames
<1>6. /\ JobsOn(stack[w]) = {job} \cup JobsOn(below)
      /\ WaitsOn(stack[w]) = {job} \cup WaitsOn(below)
  <2>1. stack[w] \in Seq(Frames) /\ stack[w] # <<>>  BY <1>1, <1>2 DEF Busy
  <2>2. top.at # "steals" /\ top = Head(stack[w])  BY <1>1, <1>3 DEF Top
  <2> QED BY <1>3, <1>4, <2>1, <2>2, JobsTop
<1>7. stack'[w] = below /\ \A y \in Workers \ {w} : stack'[y] = stack[y]
  BY <1>1, <1>2, <1>3
<1>8. Pool' \subseteq Pool /\ job \in Pool
  <2>1. Range(jobs) \subseteq Pool /\ JobsOn(stack[w]) \subseteq Pool  BY DEF Pool
  <2>2. Range(jobs') \subseteq Pool /\ JobsOn(stack'[w]) \subseteq Pool
    BY <1>1, <1>6, <1>7, <2>1
  <2>3. Pool' \subseteq Pool  BY <1>7, <2>2, PoolChanges
  <2> QED BY <1>6, <2>1, <2>3
<1>9. Pending \subseteq Pending' \cup {job}
  <2>1. Range(jobs') \subseteq Pending' /\ WaitsOn(stack'[w]) \subseteq Pending'  BY DEF Pending
  <2>2. /\ Range(jobs) \subseteq Pending' \cup {job}
        /\ WaitsOn(stack[w]) \subseteq Pending' \cup {job}
    BY <1>1, <1>6, <1>7, <2>1
  <2> QED BY <1>7, <2>2, PendingStays
<1>10. PICK u, v : u = batch[1] /\ v = batch[2]  OBVIOUS
<1>11. Len(batch) = 2 /\ Halfway(u, v) /\ committed \in BalanceMaps
  BY <1>2, <1>10 DEF SerialInv
<1>12. u.account \in Accounts /\ v.account \in Accounts
  <2>1. batch \in Seq(Updates(numTxs))  BY DEF IInv, BatchOK
  <2> HIDE DEF Updates
  <2>2. u \in Updates(numTxs) /\ v \in Updates(numTxs)  BY <1>10, <1>11, <2>1
  <2> QED BY <2>2 DEF Updates
<1>13. PICK now, new : now = BalancesOf(state) /\ new = BalancesOf(state')  OBVIOUS
<1>14. /\ job.kind # "balance" => new = now
       /\ \A x : job = JobOf(x) => new = After(now, x)
  BY <1>1, <1>3, <1>4, <1>5, <1>13, StateTyped, BalancesAfterJob
<1>15. PICK bs, results : bs = committed /\ results = {After(After(bs, u), v), After(After(bs, v), u)}
  OBVIOUS
<1>16. expected = results  BY <1>11, <1>15 DEF Halfway, EitherOrder
<1>17. \/ now = bs /\ {JobOf(u), JobOf(v)} \subseteq Pending
       \/ now = After(bs, u) /\ JobOf(v) \in Pending
       \/ now = After(bs, v) /\ JobOf(u) \in Pending
       \/ now \in results
  BY <1>11, <1>13, <1>15, <1>16 DEF Halfway
<1>18. \/ new = bs /\ {JobOf(u), JobOf(v)} \subseteq Pending'
       \/ new = After(bs, u) /\ JobOf(v) \in Pending'
       \/ new = After(bs, v) /\ JobOf(u) \in Pending'
       \/ new \in results
  <2>1. CASE job.kind # "balance"
    <3>1. JobOf(u).kind = "balance" /\ JobOf(v).kind = "balance"  BY DEF JobOf, Job
    <3>2. job # JobOf(u) /\ job # JobOf(v)  BY <2>1, <3>1
    <3> QED BY <1>9, <1>14, <1>17, <2>1, <3>2
  <2>2. CASE job = JobOf(u)
    <3>1. new = After(now, u)  BY <1>14, <2>2
    <3>2. bs \in BalanceMaps  BY <1>11, <1>15
    <3>3. \/ After(now, u) = After(bs, u) /\ JobOf(v) \in Pending'
          \/ After(now, u) \in {After(After(bs, u), v), After(After(bs, v), u)}
      <4>1. PICK before, after : before = Pending /\ after = Pending'  OBVIOUS
      <4>2. before \subseteq after \cup {JobOf(u)}  BY <1>9, <2>2, <4>1
      <4>3. \/ now = bs /\ {JobOf(u), JobOf(v)} \subseteq before
            \/ now = After(bs, u) /\ JobOf(v) \in before
            \/ now = After(bs, v) /\ JobOf(u) \in before
            \/ now \in {After(After(bs, u), v), After(After(bs, v), u)}
        BY <1>15, <1>17, <4>1
      <4>4. \/ After(now, u) = After(bs, u) /\ JobOf(v) \in after
            \/ After(now, u) \in {After(After(bs, u), v), After(After(bs, v), u)}
        BY <1>12, <3>2, <4>2, <4>3, OneDone
      <4> QED BY <4>1, <4>4
    <3> QED BY <1>15, <3>1, <3>3
  <2>3. CASE job = JobOf(v)
    <3>1. new = After(now, v)  BY <1>14, <2>3
    <3>2. bs \in BalanceMaps  BY <1>11, <1>15
    <3>3. \/ After(now, v) = After(bs, v) /\ JobOf(u) \in Pending'
          \/ After(now, v) \in {After(After(bs, v), u), After(After(bs, u), v)}
      <4>1. PICK before, after : before = Pending /\ after = Pending'  OBVIOUS
      <4>2. before \subseteq after \cup {JobOf(v)}  BY <1>9, <2>3, <4>1
      <4>3. \/ now = bs /\ {JobOf(v), JobOf(u)} \subseteq before
            \/ now = After(bs, v) /\ JobOf(u) \in before
            \/ now = After(bs, u) /\ JobOf(v) \in before
            \/ now \in {After(After(bs, v), u), After(After(bs, u), v)}
        BY <1>15, <1>17, <4>1
      <4>4. \/ After(now, v) = After(bs, v) /\ JobOf(u) \in after
            \/ After(now, v) \in {After(After(bs, v), u), After(After(bs, u), v)}
        BY <1>12, <3>2, <4>2, <4>3, OneDone
      <4> QED BY <4>1, <4>4
    <3> QED BY <1>15, <3>1, <3>3
  <2>4. job.kind = "balance" => job \in {JobOf(u), JobOf(v)}
    BY <1>8, <1>11 DEF Halfway
  <2> QED BY <2>1, <2>2, <2>3, <2>4
<1>19. \A j \in Pool' : j.kind = "balance" => j \in {JobOf(u), JobOf(v)}
  BY <1>8, <1>11 DEF Halfway
<1>20. Halfway(batch[1], batch[2])'
  <2>1. /\ expected' = {After(After(committed', u), v), After(After(committed', v), u)}
        /\ committed' = bs /\ results = expected' /\ batch' = batch
    BY <1>1, <1>15, <1>16
  <2>2. \/ BalancesOf(state') = committed' /\ {JobOf(u), JobOf(v)} \subseteq Pending'
        \/ BalancesOf(state') = After(committed', u) /\ JobOf(v) \in Pending'
        \/ BalancesOf(state') = After(committed', v) /\ JobOf(u) \in Pending'
        \/ BalancesOf(state') \in expected'
    BY <1>13, <1>18, <2>1
  <2> QED BY <1>10, <1>19, <2>1, <2>2 DEF Halfway, EitherOrder
<1> QED BY <1>1, <1>2, <1>11, <1>20 DEF SerialInv

LEMMA InitSerial == Init => SerialInv
<1> SUFFICES ASSUME Init PROVE SerialInv  OBVIOUS
<1>1. numTxs \in Nat /\ Typed(state, numTxs)  BY InitInv, StateTyped
<1>2. committed = BalancesOf(state) /\ expected = {BalancesOf(state)} /\ todo = <<>> /\ batch = <<>>
  BY DEF Init
<1>3. BalancesOf(state) \in BalanceMaps  BY <1>1, BalancesTyped
<1>4. Between  BY <1>2 DEF Between
<1> QED BY <1>2, <1>3, <1>4 DEF SerialInv

\* A handler begins where the last one ended, and says what it may end with.
LEMMA BeginSerial ==
  ASSUME IInv, SerialInv, Free, NEW c, NEW calls, NEW outcomes,
         Begin(calls, outcomes), calls # <<>>, Head(calls) = c,
         \/ /\ c.call = "set_token_balance"
            /\ outcomes = {[committed EXCEPT ![c.account][c.token] = c.balance]}
         \/ /\ c.call = "batch_update" /\ Len(c.updates) = 2
            /\ outcomes = EitherOrder(c.updates[1], c.updates[2])
  PROVE  SerialInv'
<1>1. batch = <<>> /\ committed = BalancesOf(state)  BY FreeState DEF Free
<1>2. /\ todo' = calls /\ expected' = outcomes
      /\ state' = state /\ batch' = batch /\ committed' = committed
  BY DEF Begin
<1>3. BalancesOf(state') = committed'  BY <1>1, <1>2
<1>4. EitherOrder(c.updates[1], c.updates[2])' = EitherOrder(c.updates[1], c.updates[2])
  BY <1>2 DEF EitherOrder
<1>5. Between'
  <2>1. CASE c.call = "set_token_balance"
    <3>1. outcomes = {[committed EXCEPT ![c.account][c.token] = c.balance]}  BY <2>1
    <3> QED BY <1>2, <1>3, <2>1, <3>1 DEF Between
  <2>2. CASE c.call = "batch_update"
    <3>1. Len(c.updates) = 2 /\ outcomes = EitherOrder(c.updates[1], c.updates[2])  BY <2>2
    <3>2. expected' = EitherOrder(c.updates[1], c.updates[2])'  BY <1>2, <1>4, <3>1
    <3> QED BY <1>2, <1>3, <2>2, <3>1, <3>2 DEF Between
  <2> QED BY <2>1, <2>2
<1> QED BY <1>1, <1>2, <1>5 DEF SerialInv

\* An account that registers has no balance yet: writing 0 to its fake token is no change.
LEMMA KeyUpdateSerial ==
  ASSUME IInv, SerialInv, NEW a \in Accounts, NEW key \in Keys, KeyUpdate(a, key)
  PROVE  SerialInv'
<1> DEFINE c == BalanceCall(a, FakeToken, 0)
           calls == <<c, KeyCall(a, key)>>
<1>1. Free /\ ~HasAccount(state, a) /\ TokenBalance(state, a, FakeToken) = 0
  BY DEF KeyUpdate, TokenBalance
<1>2. Begin(calls, {committed})  BY <1>1 DEF KeyUpdate
<1>3. a \notin Known(state) /\ committed = BalancesOf(state)
  BY <1>1, FreeState DEF Free, HasAccount
<1>4. committed \in BalanceMaps /\ committed[a] = EmptyBalances
  BY <1>3, StateTyped, BalancesTyped
<1>5. [committed EXCEPT ![a][FakeToken] = 0] = committed
  BY <1>4, GlobalStateAssumption DEF BalanceMaps, EmptyBalances
<1>6. /\ c.call = "set_token_balance" /\ c.account = a /\ c.token = FakeToken /\ c.balance = 0
      /\ Head(calls) = c /\ calls # <<>>
  BY DEF BalanceCall
<1> HIDE DEF c, calls
<1>7. {committed} = {[committed EXCEPT ![c.account][c.token] = c.balance]}  BY <1>5, <1>6
<1> QED BY <1>1, <1>2, <1>6, <1>7, BeginSerial

LEMMA DepositSerial ==
  ASSUME IInv, SerialInv, NEW a \in Accounts, NEW t \in Tokens, NEW x \in Balances,
         Deposit(a, t, x) \/ Withdraw(a, t, x)
  PROVE  SerialInv'
<1> DEFINE c == BalanceCall(a, t, x)
<1>1. PICK calls : /\ calls \in {<<c>>, <<c, NonceCall(a)>>}
                   /\ Begin(calls, Single(a, t, x))
  BY DEF Deposit, Withdraw
<1>2. Free  BY DEF Deposit, Withdraw
<1>3. calls # <<>> /\ Head(calls) = c  BY <1>1
<1>4. c.call = "set_token_balance" /\ c.account = a /\ c.token = t /\ c.balance = x
  BY DEF BalanceCall
<1> HIDE DEF c
<1>5. Single(a, t, x) = {[committed EXCEPT ![c.account][c.token] = c.balance]}
  BY <1>4 DEF Single
<1> QED BY <1>1, <1>2, <1>3, <1>4, <1>5, BeginSerial

LEMMA BatchSerial ==
  ASSUME IInv, SerialInv, Free, NEW u, NEW v, Batch(u, v)
  PROVE  SerialInv'
<1> DEFINE c == BatchCall(<<u, v>>)
           calls == <<c>>
<1>1. Begin(calls, EitherOrder(u, v))  BY DEF Batch
<1>2. /\ c.call = "batch_update" /\ Len(c.updates) = 2
      /\ c.updates[1] = u /\ c.updates[2] = v
      /\ Head(calls) = c /\ calls # <<>>
  BY DEF BatchCall
<1> HIDE DEF c, calls
<1>3. EitherOrder(u, v) = EitherOrder(c.updates[1], c.updates[2])  BY <1>2
<1> QED BY <1>1, <1>2, <1>3, BeginSerial

LEMMA HandlerSerial ==
  ASSUME IInv, SerialInv, Handler
  PROVE  SerialInv'
<1>1. CASE \E a \in Accounts, key \in Keys : KeyUpdate(a, key)
  BY <1>1, KeyUpdateSerial
<1>2. CASE \E a \in Accounts, t \in Tokens, x \in Balances : Deposit(a, t, x) \/ Withdraw(a, t, x)
  BY <1>2, DepositSerial
<1>3. CASE \E a, b \in Accounts, t \in Tokens, x, y \in Balances : Transfer(a, b, t, x, y)
  <2>1. Free /\ \E u, v : Batch(u, v)  BY <1>3 DEF Transfer
  <2> QED BY <2>1, BatchSerial
<1>4. CASE \E a, b \in Accounts, s, t \in Tokens, new \in [1 .. 4 -> Balances],
              slot \in Slots, hash \in OrderHashes : Trade(a, b, s, t, new, slot, hash)
  <2>1. Free /\ \E u, v : Batch(u, v)  BY <1>4 DEF Trade
  <2> QED BY <2>1, BatchSerial
<1> QED BY <1>1, <1>2, <1>3, <1>4 DEF Handler

\* batch_update hands the pool both balance jobs, and the empty pool gets no others.
LEMMA BatchCallSerial ==
  ASSUME IInv, SerialInv, Call, Head(todo).call = "batch_update"
  PROVE  SerialInv'
<1>1. /\ todo # <<>> /\ batch = <<>>
      /\ UNCHANGED <<stack, committed, expected>>
      /\ batch' = Head(todo).updates /\ jobs' = JobsOf(Head(todo).updates) /\ state' = state
  BY DEF Call
<1>2. PICK us : us = Head(todo).updates  OBVIOUS
<1>3. /\ BalancesOf(state) = committed /\ committed \in BalanceMaps
      /\ Len(us) = 2 /\ expected = EitherOrder(us[1], us[2])
  BY <1>1, <1>2 DEF SerialInv, Between
<1>4. PICK u, v : u = us[1] /\ v = us[2]  OBVIOUS
<1>5. PICK js : js = JobsOf(us)  OBVIOUS
<1>6. DOMAIN js = 1 .. 4 /\ js[1] = JobOf(u) /\ js[3] = JobOf(v)
      /\ js[2].kind = "order" /\ js[4].kind = "order"
  <2>1. js = [i \in 1 .. 4 |->
                LET w == us[(i + 1) \div 2]
                IN  IF i % 2 = 1 THEN Job("balance", w.account, w.balances, 2)
                                 ELSE Job("order", w.account, w.orders, 1)]
    BY <1>3, <1>5 DEF JobsOf
  <2>2. DOMAIN js = 1 .. 4 /\ js[1] = JobOf(us[1]) /\ js[3] = JobOf(us[2])
    BY <2>1 DEF JobOf
  <2>3. js[2] = Job("order", us[1].account, us[1].orders, 1)
        /\ js[4] = Job("order", us[2].account, us[2].orders, 1)
    BY <2>1
  <2>4. js[2].kind = "order" /\ js[4].kind = "order"  BY <2>3 DEF Job
  <2> QED BY <1>4, <2>2, <2>4
<1>7. Range(js) = {js[1], js[2], js[3], js[4]}
  BY <1>6 DEF Range
<1>8. Pool' = Range(js) /\ Pending' = Range(js)
  <2>1. \A w \in Workers : stack'[w] = <<>>  BY <1>1 DEF IInv, PoolOK
  <2>2. JobsOn(<<>>) = {} /\ WaitsOn(<<>>) = {}  BY DEF JobsOn, WaitsOn
  <2>3. \A w \in Workers : JobsOn(stack'[w]) = {} /\ WaitsOn(stack'[w]) = {}  BY <2>1, <2>2
  <2>4. jobs' = js  BY <1>1, <1>2, <1>5
  <2> QED BY <2>3, <2>4 DEF Pool, Pending
<1>9. \A job \in Pool' : job.kind = "balance" => job \in {JobOf(u), JobOf(v)}
  BY <1>6, <1>7, <1>8
<1>10. {JobOf(u), JobOf(v)} \subseteq Pending'  BY <1>6, <1>7, <1>8
<1>11. BalancesOf(state') = committed'  BY <1>1, <1>3
<1>12. batch' = us /\ Len(batch') = 2  BY <1>1, <1>2, <1>3
<1>13. expected' = EitherOrder(u, v)'  BY <1>1, <1>3, <1>4 DEF EitherOrder
<1>14. Halfway(u, v)'  BY <1>9, <1>10, <1>11, <1>13 DEF Halfway
<1>15. Halfway(batch[1], batch[2])'
  BY <1>4, <1>9, <1>10, <1>11, <1>12, <1>13 DEF Halfway, EitherOrder
<1> QED BY <1>1, <1>3, <1>12, <1>15 DEF SerialInv

LEMMA CallSerial ==
  ASSUME IInv, SerialInv, Call
  PROVE  SerialInv'
<1>1. /\ todo # <<>> /\ batch = <<>> /\ todo' = Tail(todo)
      /\ UNCHANGED <<stack, committed, expected>>
  BY DEF Call
<1>2. Between /\ committed \in BalanceMaps  BY <1>1 DEF SerialInv
<1>3. numTxs \in Nat /\ Typed(state, numTxs)  BY StateTyped
<1>4. CASE Head(todo).call = "batch_update"  BY <1>4, BatchCallSerial
<1>5. CASE Head(todo).call = "set_token_balance"
  <2>1. PICK c : c = Head(todo)  OBVIOUS
  <2>2. /\ c \in BalanceCalls
        /\ \/ todo' = <<>>
           \/ todo' # <<>> /\ Head(todo').call \in {"set_account_l2_addr", "increase_nonce"}
    <3>1. CASE \E d \in BalanceCalls : todo = <<d>>
      <4>1. PICK d \in BalanceCalls : todo = <<d>>  BY <3>1
      <4>2. Head(todo) = d /\ Tail(todo) = <<>>  BY <4>1
      <4> QED BY <1>1, <2>1, <4>2
    <3>2. CASE \E d \in BalanceCalls, e \in NonceCalls \cup KeyCalls : todo = <<d, e>>
      <4>1. PICK d \in BalanceCalls, e \in NonceCalls \cup KeyCalls : todo = <<d, e>>  BY <3>2
      <4>2. Head(todo) = d /\ Tail(todo) = <<e>> /\ Head(<<e>>) = e  BY <4>1
      <4>3. e.call \in {"set_account_l2_addr", "increase_nonce"}  BY DEF NonceCalls, KeyCalls
      <4> QED BY <1>1, <2>1, <4>2, <4>3
    <3>3. CASE \E d \in NonceCalls \cup KeyCalls : todo = <<d>>
      <4>1. PICK d \in NonceCalls \cup KeyCalls : todo = <<d>>  BY <3>3
      <4>2. Head(todo) = d  BY <4>1
      <4> QED BY <1>5, <4>2 DEF NonceCalls, KeyCalls
    <3>4. CASE \E updates : todo = <<BatchCall(updates)>>
      <4>1. PICK updates : todo = <<BatchCall(updates)>>  BY <3>4
      <4>2. Head(todo).call = "batch_update"  BY <4>1 DEF BatchCall
      <4> QED BY <1>5, <4>2
    <3> QED BY <1>1, <3>1, <3>2, <3>3, <3>4 DEF IInv, CallsOK
  <2>3. /\ BalancesOf(state) = committed
        /\ expected = {[committed EXCEPT ![c.account][c.token] = c.balance]}
    BY <1>1, <1>2, <1>5, <2>1 DEF Between
  <2>4. state' = SetTokenBalance(state, c.account, c.token, c.balance) /\ batch' = batch
    BY <1>5, <2>1 DEF Call
  <2>5. BalancesOf(state') = [BalancesOf(state) EXCEPT ![c.account][c.token] = c.balance]
    BY <1>3, <2>2, <2>4, BalanceSet DEF BalanceCalls
  <2>6. BalancesOf(state') \in expected'  BY <1>1, <2>3, <2>5
  <2>7. Between'  BY <2>2, <2>6 DEF Between
  <2> QED BY <1>1, <1>2, <2>4, <2>7 DEF SerialInv
<1>6. CASE Head(todo).call \in {"set_account_l2_addr", "increase_nonce"}
  <2>1. PICK d \in NonceCalls \cup KeyCalls : todo = <<d>> /\ d.account \in Known(state)
    <3>1. CASE \E d \in NonceCalls \cup KeyCalls : todo = <<d>> /\ d.account \in Known(state)
      BY <3>1
    <3>2. CASE \E c \in BalanceCalls : todo = <<c>> \/ \E s : todo = <<c, s>>
      <4>1. PICK c \in BalanceCalls : todo = <<c>> \/ \E s : todo = <<c, s>>  BY <3>2
      <4>2. Head(todo) = c  BY <4>1
      <4> QED BY <1>6, <4>1, <4>2 DEF BalanceCalls
    <3>3. CASE \E updates : todo = <<BatchCall(updates)>>
      <4>1. PICK updates : todo = <<BatchCall(updates)>>  BY <3>3
      <4>2. Head(todo).call = "batch_update"  BY <4>1 DEF BatchCall
      <4> QED BY <1>6, <4>2
    <3> QED BY <1>1, <3>1, <3>2, <3>3 DEF IInv, CallsOK
  <2>2. Head(todo) = d /\ todo' = <<>>  BY <1>1, <2>1
  <2>3. BalancesOf(state) \in expected  BY <1>1, <1>2, <1>6 DEF Between
  <2>4. Known(state') = Known(state) /\ state'.balanceTrees = state.balanceTrees /\ batch' = batch
    <3>1. CASE d \in NonceCalls
      <4>1. d.call = "increase_nonce"  BY <3>1 DEF NonceCalls
      <4>2. state' = IncreaseNonce(state, d.account) /\ batch' = batch
        BY <2>2, <4>1 DEF Call
      <4> QED BY <1>3, <2>1, <4>2, IncreaseNonceResult
    <3>2. CASE d \in KeyCalls
      <4>1. d.call = "set_account_l2_addr" /\ d.key \in Keys  BY <3>2 DEF KeyCalls
      <4>2. state' = SetL2Addr(state, d.account, d.key) /\ batch' = batch
        BY <2>2, <4>1 DEF Call
      <4>3. Agrees(state, d.account)  BY <1>1, <2>1 DEF IInv, RootsBehind, Touched
      <4>4. PICK a, key : a = d.account /\ key = d.key  OBVIOUS
      <4>5. a \in Known(state) /\ key \in Keys /\ Agrees(state, a)  BY <2>1, <4>1, <4>3, <4>4
      <4>6. /\ Known(SetL2Addr(state, a, key)) = Known(state)
            /\ SetL2Addr(state, a, key).balanceTrees = state.balanceTrees
        BY <1>3, <4>5, SetL2AddrResult
      <4> QED BY <4>2, <4>4, <4>6
    <3> QED BY <2>1, <3>1, <3>2
  <2>5. BalancesOf(state') = BalancesOf(state)  BY <2>4, BalancesSame
  <2>6. Between'  BY <1>1, <2>2, <2>3, <2>5 DEF Between
  <2> QED BY <1>1, <1>2, <2>4, <2>6 DEF SerialInv
<1> QED BY <1>1, <1>2, <1>4, <1>5, <1>6 DEF Between

\* Nothing is pending when for_each returns: both updates were made.
LEMMA EndBatchSerial ==
  ASSUME IInv, SerialInv, EndBatch
  PROVE  SerialInv'
<1>1. /\ batch # <<>> /\ jobs = <<>> /\ \A w \in Workers : stack[w] = <<>>
      /\ state' = AccountsUpdated(state, batch) /\ batch' = <<>>
      /\ UNCHANGED <<todo, committed, expected>>
  BY DEF EndBatch, JobsDone, Busy
<1>2. Pending = {}
  <2>1. WaitsOn(<<>>) = {} /\ Range(<<>>) = {}  BY DEF WaitsOn, Range
  <2>2. \A w \in Workers : WaitsOn(stack[w]) = {}  BY <1>1, <2>1
  <2> QED BY <1>1, <2>1, <2>2 DEF Pending
<1>3. BalancesOf(state) \in expected
  <2>1. Halfway(batch[1], batch[2])  BY <1>1 DEF SerialInv
  <2> QED BY <1>2, <2>1 DEF Halfway
<1>4. /\ numTxs \in Nat /\ Typed(state, numTxs) /\ todo = <<>>
      /\ batch \in Seq(Updates(numTxs)) /\ Touched(batch) \subseteq Known(state)
  BY <1>1, StateTyped DEF IInv, BatchOK
<1>5. Known(state') = Known(state) /\ state'.balanceTrees = state.balanceTrees
  BY <1>1, <1>4, AccountsUpdatedResult
<1>6. BalancesOf(state') = BalancesOf(state)  BY <1>5, BalancesSame
<1>7. Between'  BY <1>1, <1>3, <1>4, <1>6 DEF Between
<1> QED BY <1>1, <1>7 DEF SerialInv

LEMMA UnlockSerial ==
  ASSUME IInv, SerialInv, Unlock
  PROVE  SerialInv'
<1>1. /\ todo = <<>> /\ batch = <<>> /\ committed' = BalancesOf(state)
      /\ UNCHANGED <<state, todo, batch, expected>>
  BY DEF Unlock
<1>2. BalancesOf(state) \in expected  BY <1>1 DEF SerialInv, Between
<1>3. BalancesOf(state) \in BalanceMaps  BY StateTyped, BalancesTyped
<1>4. Between'
  <2>1. BalancesOf(state') = BalancesOf(state)  BY <1>1
  <2> QED BY <1>1, <1>2, <2>1 DEF Between
<1> QED BY <1>1, <1>3, <1>4 DEF SerialInv

LEMMA RestartSerial ==
  ASSUME IInv, SerialInv, Restart
  PROVE  SerialInv'
<1>1. PICK ids \in SavedStates(state) : Loads(state, ids) /\ state' = Loaded(state, ids)
  BY DEF Restart
<1>2. /\ ~writing /\ committed' = BalancesOf(state') /\ expected' = {BalancesOf(state')}
      /\ UNCHANGED <<todo, batch>>
  BY DEF Restart, Free
<1>3. todo = <<>> /\ batch = <<>>  BY <1>2, FreeState
<1>4. numTxs \in Nat /\ Typed(state', numTxs)  BY <1>1, StateTyped, LoadedResult
<1>5. PICK st : st = state'  OBVIOUS
<1>6. BalancesOf(st) \in BalanceMaps  BY <1>4, <1>5, BalancesTyped
<1>7. Between'  BY <1>2, <1>3 DEF Between
<1> QED BY <1>2, <1>3, <1>5, <1>6, <1>7 DEF SerialInv

\* Queries and stuttering steps.
LEMMA StutterSerial ==
  ASSUME SerialInv, UNCHANGED <<state, todo, batch, jobs, stack, committed, expected>>
  PROVE  SerialInv'
<1>1. Pool' = Pool /\ Pending' = Pending /\ BalancesOf(state') = BalancesOf(state)
  BY DEF Pool, Pending
<1>2. \A u, v : EitherOrder(u, v)' = EitherOrder(u, v)  BY DEF EitherOrder
<1>3. batch = <<>> => Between'  BY <1>1, <1>2 DEF SerialInv, Between
<1>4. batch # <<>> => Halfway(batch[1], batch[2])'
  BY <1>1, <1>2 DEF SerialInv, Halfway
<1> QED BY <1>3, <1>4 DEF SerialInv

LEMMA NextSerial == IInv /\ SerialInv /\ [Next]_vars => SerialInv'
<1> SUFFICES ASSUME IInv, SerialInv, [Next]_vars PROVE SerialInv'  OBVIOUS
<1>1. CASE UNCHANGED vars  BY <1>1, StutterSerial DEF vars
<1>2. CASE Handler  BY <1>2, HandlerSerial
<1>3. CASE Call  BY <1>3, CallSerial
<1>4. CASE EndBatch  BY <1>4, EndBatchSerial
<1>5. CASE Unlock  BY <1>5, UnlockSerial
<1>6. CASE Restart  BY <1>6, RestartSerial
<1>7. CASE \E a \in Accounts, t \in Tokens : Query(a, t)  BY <1>7, StutterSerial DEF Query
<1>8. CASE \E w \in Workers : WorkerStep(w)
  BY <1>8, TakeJobSerial, MovesSerial, StealHalfSerial, HalfDoneSerial, ApplyJobSerial
  DEF WorkerStep
<1> QED BY <1>1, <1>2, <1>3, <1>4, <1>5, <1>6, <1>7, <1>8 DEF Next

-----------------------------------------------------------------------------
(* Theorems. *)

\* The inductive invariant holds in every reachable state, for any number of
\* accounts, workers and transactions.
THEOREM Invariance == Spec => []IInv
BY InitInv, NextInv, PTL DEF Spec

\* However handlers, workers, queries and restarts interleave, the maps of GlobalState
\* know the same accounts, every account has a leaf once the lock is free, and no
\* handler leaves a call, a job or a batch behind.
THEOREM TypeCorrect == Spec => []TypeOK
<1>1. IInv => TypeOK  BY TypeOKFollows
<1> QED BY <1>1, Invariance, PTL

\* Whenever the write lock is free, the roots every account state remembers are those of
\* its trees and its leaf is the hash of that state: what recalculate_account_state_hash
\* and batch_update leave behind.
THEOREM RootsStayEqual == Spec => []RootsAgree
<1>1. IInv => RootsAgree  BY FreeState DEF RootsAgree, Agrees
<1> QED BY <1>1, Invariance, PTL

\* A dump taken between two handlers loads, and gives back every account that has no
\* twin as it was: save_account_state may store several accounts under one hash, and
\* the accounts it merges have equal states.
THEOREM DumpsLoadBack == Spec => []LoadsBack
<1>1. IInv => LoadsBack
  <2> SUFFICES ASSUME IInv, ~writing, DOMAIN state.accountTree = Known(state),
                      NEW ids \in SavedStates(state)
               PROVE  /\ Loads(state, ids)
                      /\ \A a \in Known(state) : Twins(a) \cap Known(Loaded(state, ids)) # {}
                      /\ \A a \in Known(state) : Twins(a) = {a} =>
                           /\ Loaded(state, ids).accountStates[a] = state.accountStates[a]
                           /\ Loaded(state, ids).balanceTrees[a] = state.balanceTrees[a]
                           /\ Loaded(state, ids).orderTrees[a] = state.orderTrees[a]
    BY DEF LoadsBack
  <2>1. numTxs \in Nat /\ Typed(state, numTxs) /\ \A a \in Known(state) : Agrees(state, a)
    BY StateTyped, FreeState
  <2>2. /\ Loads(state, ids)
        /\ \A a \in Known(state) : \E b \in LoadedIds(state, ids) :
             b \in Known(state) /\ state.accountStates[b] = state.accountStates[a]
    BY <2>1, DumpGivesBack
  <2>3. /\ Known(Loaded(state, ids)) = LoadedIds(state, ids)
        /\ \A a \in LoadedIds(state, ids) : Same(state, Loaded(state, ids), a)
    BY <2>1, <2>2, LoadedResult
  <2>4. ASSUME NEW a \in Known(state) PROVE Twins(a) \cap Known(Loaded(state, ids)) # {}
    BY <2>2, <2>3 DEF Twins
  <2>5. ASSUME NEW a \in Known(state), Twins(a) = {a} PROVE a \in LoadedIds(state, ids)
    BY <2>2, <2>5 DEF Twins
  <2> QED BY <2>2, <2>3, <2>4, <2>5 DEF Same
<1> QED BY <1>1, Invariance, PTL

\* A query is answered with a balance from between two transactions: no handler is on its
\* way when the read lock is granted, and every known account then has its key.
THEOREM AnswersStayCommitted == Spec => AnswersCommitted
<1>1. ASSUME IInv, [Next]_vars, answer' # answer, answer' # NoAnswer
      PROVE  answer'.balance = committed[answer'.account][answer'.token]
  <2>1. answer' # answer /\ ~Silent  BY <1>1 DEF Silent
  <2>2. PICK a \in Accounts, t \in Tokens : Query(a, t)
    <3>1. ~(UNCHANGED vars)  BY <2>1 DEF vars
    <3>2. ~Handler
      <4>1. \A calls, outcomes : ~Begin(calls, outcomes)  BY <2>1 DEF Begin
      <4>2. \A u, v : ~Batch(u, v)  BY <4>1 DEF Batch
      <4>3. \A a, key : ~KeyUpdate(a, key)  BY <4>1 DEF KeyUpdate
      <4>4. \A a, t, x : ~Deposit(a, t, x) /\ ~Withdraw(a, t, x)
        BY <4>1 DEF Deposit, Withdraw
      <4>5. \A a, b, t, x, y : ~Transfer(a, b, t, x, y)  BY <4>2 DEF Transfer
      <4>6. \A a, b, s, t, new, slot, hash : ~Trade(a, b, s, t, new, slot, hash)
        BY <4>2 DEF Trade
      <4> QED BY <4>3, <4>4, <4>5, <4>6 DEF Handler
    <3>3. ~Call /\ ~EndBatch /\ ~Unlock /\ ~Restart
      BY <2>1 DEF Call, EndBatch, Unlock, Restart
    <3>4. \A w \in Workers : ~WorkerStep(w)
      BY <2>1 DEF WorkerStep, TakeJob, LockTree, KeepHalf, StealHalf, HalfDone, ApplyJob
    <3> QED BY <1>1, <3>1, <3>2, <3>3, <3>4 DEF Next
  <2>3. /\ answer' = [account |-> a, token |-> t, balance |-> TokenBalance(state, a, t)]
        /\ ~writing
    BY <2>2 DEF Query, ReadLock
  <2>4. /\ committed = BalancesOf(state)
        /\ \A b \in Known(state) : state.accountStates[b].key # NoKey
    BY <1>1, <2>3, FreeState
  <2>5. TokenBalance(state, a, t) = committed[a][t]
    BY <2>4 DEF TokenBalance, HasAccount, BalancesOf
  <2> QED BY <2>3, <2>5
<1>2. IInv /\ [Next]_vars
        => [answer' # answer /\ answer' # NoAnswer
              => answer'.balance = committed[answer'.account][answer'.token]]_vars
  BY <1>1
<1> QED BY <1>2, Invariance, PTL DEF Spec, AnswersCommitted

\* However the pool of batch_update takes, splits and steals the jobs, the balances are
\* those of its two updates made one after the other once the write lock is free; for two
\* updates of one account, either order.
THEOREM BatchesAreSerial == Spec => []BatchIsSerial
<1>1. IInv /\ SerialInv => BatchIsSerial
  BY FreeState DEF SerialInv, Between, BatchIsSerial
<1>2. Spec => []SerialInv
  BY Invariance, InitSerial, NextSerial, PTL DEF Spec
<1> QED BY <1>1, <1>2, Invariance, PTL

=============================================================================
