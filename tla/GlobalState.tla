----------------------------- MODULE GlobalState -----------------------------
(***************************************************************************)
(* The trees of GlobalState (global.rs) under its two levels of locks: the *)
(* read-write lock a handler of ManagerWrapper holds from its first read   *)
(* to its last write, and one mutex per tree, which the jobs of a parallel *)
(* batch_update take on a pool of workers; and the layout of a dump.       *)
(*                                                                         *)
(* A tree is its leaves and so is its root, a hash is what is hashed       *)
(* (MerkleTree models the nodes between them).  An account has two         *)
(* truths: its trees, and the roots of them that its state remembers.      *)
(* What the balances and orders are is in Ledger and OrderSlots: here a    *)
(* handler writes any values.                                              *)
(***************************************************************************)
EXTENDS Integers, Sequences, FiniteSetsExt, Functions

CONSTANTS
  Accounts,      \* account ids
  Tokens,        \* token ids
  FakeToken,     \* token 0, written by a key update
  Slots,         \* leaves of an order tree
  Balances,      \* values of a balance leaf
  OrderHashes,   \* values of an order leaf
  DefaultOrder,  \* hash of Order::default()
  Keys,          \* keys of users
  NoKey,         \* key of an account without a user
  Workers,       \* threads of the pool
  SelfTransfers, \* may a transfer name one account twice?
  MaxTxs         \* bound: transactions

ASSUME GlobalStateAssumption ==
  /\ FakeToken \in Tokens /\ 0 \in Balances
  /\ DefaultOrder \in OrderHashes /\ NoKey \notin Keys
  /\ SelfTransfers \in BOOLEAN /\ MaxTxs \in Nat

VARIABLES
  state,       \* account_tree, account_states, balance_trees, order_trees
  registered,  \* the engine's users
  writing,     \* a handler holds the write lock
  todo,        \* calls the handler still makes
  batch,       \* updates of the batch_update it is in
  jobs,        \* jobs no worker has taken
  stack,       \* per worker: the jobs it is in, the innermost first
  committed,   \* ghost: balances when the write lock was last free
  expected,    \* ghost: the balances the handler may end with
  answer,      \* what token_balance_query answered in the last step, or NoAnswer
  numTxs       \* transactions so far

vars == <<state, registered, writing, todo, batch, jobs, stack, committed,
          expected, answer, numTxs>>

-----------------------------------------------------------------------------
(* The state and its updates.  The four maps of a state share their keys,   *)
(* except that a leaf of the account tree with the default value is absent. *)

\* most steps answer no query
NoAnswer == [account |-> "none"]
Silent   == answer' = NoAnswer

EmptyBalances == [t \in Tokens |-> 0]
EmptyOrders   == [s \in Slots |-> DefaultOrder]
EmptyAccount  == [key |-> NoKey, nonce |-> 0,
                  balanceRoot |-> EmptyBalances, orderRoot |-> EmptyOrders]
Hash(account) == account

EmptyState == [accountTree |-> <<>>, accountStates |-> <<>>,
               balanceTrees |-> <<>>, orderTrees |-> <<>>]

Known(st)     == DOMAIN st.accountStates
LeafOf(st, a) == IF a \in DOMAIN st.accountTree THEN st.accountTree[a] ELSE Hash(EmptyAccount)

HasAccount(st, a) == a \in Known(st) /\ st.accountStates[a].key # NoKey
TokenBalance(st, a, t) == IF HasAccount(st, a) THEN st.balanceTrees[a][t] ELSE 0

\* insert of a map
Put(f, a, x) == [b \in DOMAIN f \cup {a} |-> IF b = a THEN x ELSE f[b]]

InsertLeaf(st, a) == [st EXCEPT !.accountTree = Put(@, a, Hash(st.accountStates[a]))]

\* account_tree.set_value leaves an equal leaf alone
SetLeaf(st, a) ==
  IF LeafOf(st, a) = Hash(st.accountStates[a]) THEN st ELSE InsertLeaf(st, a)

\* Mutant of Recalculated: the order root is forgotten.
RecalculatedBalance(st, a) ==
  [st EXCEPT !.accountStates[a].balanceRoot = st.balanceTrees[a]]

\* recalculate_account_state_hash: the remembered roots become those of the trees
Recalculated(st, a) ==
  [st EXCEPT !.accountStates[a] =
     [@ EXCEPT !.balanceRoot = st.balanceTrees[a], !.orderRoot = st.orderTrees[a]]]

Flush(st, a) == SetLeaf(Recalculated(st, a), a)

InitAccount(st, a) ==
  IF a \in Known(st) THEN st
  ELSE SetLeaf([accountTree   |-> st.accountTree,
                accountStates |-> Put(st.accountStates, a, EmptyAccount),
                balanceTrees  |-> Put(st.balanceTrees, a, EmptyBalances),
                orderTrees    |-> Put(st.orderTrees, a, EmptyOrders)], a)

SetTokenBalance(st, a, t, balance) ==
  Flush([InitAccount(st, a) EXCEPT !.balanceTrees[a][t] = balance], a)

\* Mutant of SetL2Addr: the account's leaf is not set.
SetL2AddrNoLeaf(st, a, key) == [st EXCEPT !.accountStates[a].key = key]

SetL2Addr(st, a, key) == SetLeaf([st EXCEPT !.accountStates[a].key = key], a)
IncreaseNonce(st, a)  == Flush([st EXCEPT !.accountStates[a].nonce = @ + 1], a)

-----------------------------------------------------------------------------
(* Dumps: account states are stored under their hash, trees under the id.   *)

\* Mutant of SavedKey: the nonce is left out.
SavedKeyNoNonce(account) == [account EXCEPT !.nonce = 0]

SavedKey(account) == Hash(account)

\* the possible contents of account_states: of equal states one id remains
SavedStates(st) ==
  LET keys == {SavedKey(st.accountStates[a]) : a \in Known(st)}
  IN  {ids \in [keys -> Known(st)] :
         \A k \in keys : SavedKey(st.accountStates[ids[k]]) = k}

\* load_account_state: the ids found under the leaves of the account tree
LoadedIds(st, ids) == {ids[st.accountTree[a]] : a \in DOMAIN st.accountTree}

\* load_persist fails when a leaf's state is not found
Loads(st, ids) == \A a \in DOMAIN st.accountTree : st.accountTree[a] \in DOMAIN ids

Loaded(st, ids) ==
  [accountTree   |-> st.accountTree,
   accountStates |-> Restrict(st.accountStates, LoadedIds(st, ids)),
   balanceTrees  |-> Restrict(st.balanceTrees, LoadedIds(st, ids)),
   orderTrees    |-> Restrict(st.orderTrees, LoadedIds(st, ids))]

-----------------------------------------------------------------------------
(* batch_update: a job per tree.                                            *)

\* an account's part of a batch; nonce is the new one, or -1
Update(a, balances, orders, nonce) ==
  [account |-> a, balances |-> balances, orders |-> orders, nonce |-> nonce]

Job(kind, a, updates, parallel) ==
  [kind |-> kind, account |-> a, updates |-> updates, parallel |-> parallel]

\* Mutant of MutexOf: one mutex per account.
MutexOfAccount(job) == job.account

MutexOf(job) == <<job.kind, job.account>>

\* balance jobs split chunks of two leaves, order jobs nothing
JobsOf(updates) ==
  [i \in 1 .. 2 * Len(updates) |->
     LET u == updates[(i + 1) \div 2]
     IN  IF i % 2 = 1 THEN Job("balance", u.account, u.balances, 2)
                      ELSE Job("order", u.account, u.orders, 1)]

\* set_value_parallel: the last update of a leaf wins
Written(tree, updates) ==
  [k \in DOMAIN tree |->
     LET at == {i \in DOMAIN updates : updates[i][1] = k}
     IN  IF at = {} THEN tree[k] ELSE updates[Max(at)][2]]

JobDone(st, job) ==
  IF job.kind = "balance"
  THEN [st EXCEPT !.balanceTrees[job.account] = Written(@, job.updates)]
  ELSE [st EXCEPT !.orderTrees[job.account] = Written(@, job.updates)]

Top(w)   == Head(stack[w])
Busy(w)  == stack[w] # <<>>
At(w, p) == Busy(w) /\ Top(w).at = p
Frame(job, at) == [job |-> job, at |-> at]
Move(w, at) == stack' = [stack EXCEPT ![w] = <<Frame(Top(w).job, at)>> \o Tail(@)]

\* a worker whose half chunk another one took looks for work meanwhile
Looks(w) == ~Busy(w) \/ At(w, "waits")

Locked(mutex) ==
  \E w \in Workers : \E i \in DOMAIN stack[w] :
    stack[w][i].at \notin {"locks", "steals"} /\ MutexOf(stack[w][i].job) = mutex

rest == <<state, registered, writing, todo, batch, committed, expected, numTxs>>

\* par_bridge: the closure gets the next item
TakeJob(w) ==
  /\ Looks(w) /\ jobs # <<>>
  /\ stack' = [stack EXCEPT ![w] = <<Frame(Head(jobs), "locks")>> \o @]
  /\ jobs' = Tail(jobs)
  /\ UNCHANGED rest /\ Silent

\* tree.lock(); a chunk of two leaves is split by par_iter
LockTree(w) ==
  /\ At(w, "locks") /\ ~Locked(MutexOf(Top(w).job))
  /\ Move(w, IF Top(w).job.parallel > 1 /\ Len(Top(w).job.updates) > 1
             THEN "splits" ELSE "applies")
  /\ UNCHANGED <<rest, jobs>> /\ Silent

\* no one took the other half: the worker precalculates both
KeepHalf(w) ==
  /\ At(w, "splits")
  /\ Move(w, "applies")
  /\ UNCHANGED <<rest, jobs>> /\ Silent

\* worker v takes the other half
StealHalf(v, w) ==
  /\ v # w /\ Looks(v) /\ At(w, "splits")
  /\ stack' = [stack EXCEPT ![v] = <<Frame(Top(w).job, "steals")>> \o @,
                            ![w] = <<Frame(Top(w).job, "waits")>> \o Tail(@)]
  /\ UNCHANGED <<rest, jobs>> /\ Silent

\* the half is precalculated; its owner goes on once it is back at that job
HalfDone(v) ==
  /\ At(v, "steals")
  /\ \E w \in Workers \ {v} : \E i \in DOMAIN stack[w] :
       /\ stack[w][i] = Frame(Top(v).job, "waits")
       /\ stack' = [stack EXCEPT ![v] = Tail(@), ![w][i].at = "applies"]
  /\ UNCHANGED <<rest, jobs>> /\ Silent

\* the leaves are written and the mutex is released
ApplyJob(w) ==
  /\ At(w, "applies")
  /\ state' = JobDone(state, Top(w).job)
  /\ stack' = [stack EXCEPT ![w] = Tail(@)]
  /\ UNCHANGED <<registered, writing, todo, batch, jobs, committed, expected, numTxs>> /\ Silent

WorkerStep(w) ==
  \/ TakeJob(w) \/ LockTree(w) \/ KeepHalf(w)
  \/ (\E v \in Workers : StealHalf(w, v)) \/ HalfDone(w) \/ ApplyJob(w)

\* Mutant of JobsDone: for_each returns when the last job is taken.
JobsTaken == jobs = <<>>

\* for_each returns
JobsDone == jobs = <<>> /\ \A w \in Workers : ~Busy(w)

\* then nonces, roots and the leaves of the account tree, for each update
NonceAfter(st, updates, a) ==
  LET given == {i \in DOMAIN updates : updates[i].account = a /\ updates[i].nonce # -1}
  IN  IF given = {} THEN st.accountStates[a].nonce ELSE updates[Max(given)].nonce

Touched(updates) == {updates[i].account : i \in DOMAIN updates}

AccountsUpdated(st, updates) ==
  LET states == [a \in Known(st) |->
                   IF a \in Touched(updates)
                   THEN [Recalculated(st, a).accountStates[a] EXCEPT
                           !.nonce = NonceAfter(st, updates, a)]
                   ELSE st.accountStates[a]]
      leaves == [a \in DOMAIN st.accountTree \cup Touched(updates) |->
                   IF a \in Touched(updates) THEN Hash(states[a]) ELSE st.accountTree[a]]
  IN  [accountTree |-> leaves, accountStates |-> states,
       balanceTrees |-> st.balanceTrees, orderTrees |-> st.orderTrees]

-----------------------------------------------------------------------------
(* The handlers of ManagerWrapper: what they write, between mut_state and   *)
(* drop(state).                                                             *)

BalancesOf(st) ==
  [a \in Accounts |-> [t \in Tokens |-> IF a \in Known(st) THEN st.balanceTrees[a][t] ELSE 0]]

\* balances after an update, and after two in either order
After(balances, u) == [balances EXCEPT ![u.account] = Written(@, u.balances)]
EitherOrder(u, v)  == {After(After(committed, u), v), After(After(committed, v), u)}

Free == ~writing /\ numTxs < MaxTxs

\* the calls of a handler
BalanceCall(a, t, balance) == [call |-> "set_token_balance", account |-> a, token |-> t, balance |-> balance]
KeyCall(a, key)            == [call |-> "set_account_l2_addr", account |-> a, key |-> key]
NonceCall(a)               == [call |-> "increase_nonce", account |-> a]
BatchCall(updates)         == [call |-> "batch_update", updates |-> updates]

\* a handler: the lock is taken, its calls follow
Begin(calls, outcomes) ==
  /\ writing' = TRUE /\ todo' = calls /\ expected' = outcomes
  /\ numTxs' = numTxs + 1
  /\ UNCHANGED <<state, batch, jobs, stack, committed>> /\ Silent

Single(a, t, balance) == {[committed EXCEPT ![a][t] = balance]}

KeyUpdate(a, key) ==
  /\ Free /\ a \notin registered /\ ~HasAccount(state, a)
  /\ registered' = registered \cup {a}
  /\ Begin(<<BalanceCall(a, FakeToken, TokenBalance(state, a, FakeToken)), KeyCall(a, key)>>,
           {committed})

Deposit(a, t, balance) ==
  /\ Free /\ HasAccount(state, a)
  /\ Begin(<<BalanceCall(a, t, balance)>>, Single(a, t, balance))
  /\ UNCHANGED registered

Withdraw(a, t, balance) ==
  /\ Free /\ HasAccount(state, a)
  /\ Begin(<<BalanceCall(a, t, balance), NonceCall(a)>>, Single(a, t, balance))
  /\ UNCHANGED registered

Batch(u, v) ==
  /\ Begin(<<BatchCall(<<u, v>>)>>, EitherOrder(u, v))
  /\ UNCHANGED registered

Transfer(a, b, t, x, y) ==
  /\ Free /\ HasAccount(state, a) /\ HasAccount(state, b) /\ (a = b => SelfTransfers)
  /\ Batch(Update(a, <<<<t, x>>>>, <<>>, state.accountStates[a].nonce + 1),
           Update(b, <<<<t, y>>>>, <<>>, -1))

\* both accounts write both tokens and a slot each
Trade(a, b, s, t, new, slot, hash) ==
  /\ Free /\ HasAccount(state, a) /\ HasAccount(state, b) /\ a # b /\ s # t
  /\ Batch(Update(a, <<<<s, new[1]>>, <<t, new[2]>>>>, <<<<slot, hash>>>>, -1),
           Update(b, <<<<s, new[3]>>, <<t, new[4]>>>>, <<<<slot, hash>>>>, -1))

\* one call of a handler; a batch hands its jobs to the pool
Call ==
  /\ writing /\ todo # <<>> /\ batch = <<>>
  /\ LET c == Head(todo) IN
     \/ /\ c.call = "set_token_balance"
        /\ state' = SetTokenBalance(state, c.account, c.token, c.balance)
        /\ UNCHANGED <<batch, jobs>>
     \/ /\ c.call = "set_account_l2_addr"
        /\ state' = SetL2Addr(state, c.account, c.key)
        /\ UNCHANGED <<batch, jobs>>
     \/ /\ c.call = "increase_nonce"
        /\ state' = IncreaseNonce(state, c.account)
        /\ UNCHANGED <<batch, jobs>>
     \/ /\ c.call = "batch_update"
        /\ batch' = c.updates /\ jobs' = JobsOf(c.updates)
        /\ UNCHANGED state
  /\ todo' = Tail(todo)
  /\ UNCHANGED <<registered, writing, stack, committed, expected, numTxs>> /\ Silent

EndBatch ==
  /\ batch # <<>> /\ JobsDone
  /\ state' = AccountsUpdated(state, batch)
  /\ batch' = <<>>
  /\ UNCHANGED <<registered, writing, todo, jobs, stack, committed, expected, numTxs>> /\ Silent

\* drop(state)
Unlock ==
  /\ writing /\ todo = <<>> /\ batch = <<>>
  /\ writing' = FALSE /\ committed' = BalancesOf(state)
  /\ UNCHANGED <<state, registered, todo, batch, jobs, stack, expected, numTxs>> /\ Silent

\* Mutant of ReadLock: only the mutex of the balance tree is taken.
ReadTreeLock(a) == a \in Known(state) => ~Locked(<<"balance", a>>)

\* self.state.read()
ReadLock(a) == ~writing

\* gRPC token_balance_query
Query(a, t) ==
  /\ ReadLock(a)
  /\ answer' = [account |-> a, token |-> t, balance |-> TokenBalance(state, a, t)]
  /\ UNCHANGED <<state, registered, writing, todo, batch, jobs, stack, committed,
                 expected, numTxs>>

\* persist between two handlers; a node started from that dump
Restart ==
  /\ Free
  /\ \E ids \in SavedStates(state) : Loads(state, ids) /\ state' = Loaded(state, ids)
  /\ committed' = BalancesOf(state') /\ expected' = {BalancesOf(state')}
  /\ UNCHANGED <<registered, writing, todo, batch, jobs, stack, numTxs>> /\ Silent

Init ==
  /\ state = EmptyState /\ registered = {}
  /\ writing = FALSE /\ todo = <<>> /\ batch = <<>>
  /\ jobs = <<>> /\ stack = [w \in Workers |-> <<>>]
  /\ committed = BalancesOf(EmptyState) /\ expected = {BalancesOf(EmptyState)}
  /\ answer = NoAnswer
  /\ numTxs = 0

Handler ==
  \/ \E a \in Accounts, key \in Keys : KeyUpdate(a, key)
  \/ \E a \in Accounts, t \in Tokens, x \in Balances : Deposit(a, t, x) \/ Withdraw(a, t, x)
  \/ \E a, b \in Accounts, t \in Tokens, x, y \in Balances : Transfer(a, b, t, x, y)
  \/ \E a, b \in Accounts, s, t \in Tokens, new \in [1 .. 4 -> Balances],
        slot \in Slots, hash \in OrderHashes : Trade(a, b, s, t, new, slot, hash)

Next ==
  \/ Handler \/ Call \/ EndBatch \/ Unlock \/ Restart
  \/ \E a \in Accounts, t \in Tokens : Query(a, t)
  \/ \E w \in Workers : WorkerStep(w)

Spec == Init /\ [][Next]_vars

\* a handler goes on and the pool's threads are scheduled
FairSpec ==
  /\ Spec
  /\ WF_vars(Call) /\ WF_vars(EndBatch) /\ WF_vars(Unlock)
  /\ \A w \in Workers : WF_vars(WorkerStep(w))

-----------------------------------------------------------------------------
(* Properties. *)

AccountStates ==
  [key : Keys \cup {NoKey}, nonce : 0 .. MaxTxs,
   balanceRoot : [Tokens -> Balances], orderRoot : [Slots -> OrderHashes]]

Jobs ==
  [kind : {"balance"}, account : Accounts, updates : Seq(Tokens \X Balances), parallel : {2}]
  \cup [kind : {"order"}, account : Accounts, updates : Seq(Slots \X OrderHashes), parallel : {1}]
Places == {"locks", "splits", "waits", "steals", "applies"}

\* Whatever was written or reloaded, the maps of the state know the same accounts,
\* every one of them has a leaf once the lock is free, and no lock, job or call is
\* left behind by a handler.
TypeOK ==
  /\ Known(state) \subseteq Accounts
  /\ state.accountStates \in [Known(state) -> AccountStates]
  /\ state.balanceTrees \in [Known(state) -> [Tokens -> Balances]]
  /\ state.orderTrees \in [Known(state) -> [Slots -> OrderHashes]]
  /\ DOMAIN state.accountTree \subseteq Accounts
  /\ registered \subseteq Accounts /\ numTxs \in 0 .. MaxTxs
  /\ answer \in {NoAnswer} \cup [account : Accounts, token : Tokens, balance : Balances]
  /\ stack \in [Workers -> Seq([job : Jobs, at : Places])] /\ jobs \in Seq(Jobs)
  /\ ~writing => /\ todo = <<>> /\ batch = <<>> /\ jobs = <<>>
                 /\ Known(state) \subseteq DOMAIN state.accountTree

\* The two truths agree whenever the lock is free: the roots an account's state
\* remembers are those of its trees, and its leaf is the hash of that state.
RootsAgree ==
  ~writing =>
    \A a \in Known(state) :
      /\ state.accountStates[a].balanceRoot = state.balanceTrees[a]
      /\ state.accountStates[a].orderRoot = state.orderTrees[a]
      /\ LeafOf(state, a) = Hash(state.accountStates[a])

\* However the pool runs the jobs of a batch, the balances are those of its updates
\* made one after the other.  The updates of a transfer to the same account may take
\* either order, and the balance depends on it.
BatchIsSerial == ~writing => committed = BalancesOf(state) /\ committed \in expected

Twins(a) == {b \in Known(state) : state.accountStates[b] = state.accountStates[a]}

\* A node started from a dump has the state that was saved, except that of accounts
\* with equal states (one key, one nonce, equal balances and orders) it knows only
\* one: they share an entry of the dump.  Once an account is lost that way its leaf
\* stays behind, and a later dump may not load at all.
LoadsBack ==
  ~writing /\ DOMAIN state.accountTree = Known(state) =>
    \A ids \in SavedStates(state) :
      /\ Loads(state, ids)
      /\ LET loaded == Loaded(state, ids) IN
         /\ \A a \in Known(state) : Twins(a) \cap Known(loaded) # {}
         /\ \A a \in Known(state) : Twins(a) = {a} =>
              /\ loaded.accountStates[a] = state.accountStates[a]
              /\ loaded.balanceTrees[a] = state.balanceTrees[a]
              /\ loaded.orderTrees[a] = state.orderTrees[a]

\* token_balance_query answers with a balance from between two transactions, never
\* with one that a handler is in the middle of changing.
AnswersCommitted ==
  [][answer' # answer /\ answer' # NoAnswer =>
       answer'.balance = committed[answer'.account][answer'.token]]_vars

\* A parallel batch ends: no worker waits for a mutex that it or a worker waiting for
\* it holds, although one that waits for its half chunk takes other jobs.
BatchEnds == batch # <<>> ~> batch = <<>>

=============================================================================
