----------------------------- MODULE OrderSlots -----------------------------
(***************************************************************************)
(* The order slots of the rollup's GlobalState and the messages that       *)
(* change them.                                                            *)
(*                                                                         *)
(* Every account owns a small Merkle tree of orders.  An order gets a slot *)
(* in it at its FIRST trade, never when it is posted; when all slots are   *)
(* taken, the slot of a closed order is given to the new one.  The node    *)
(* keeps two maps per account: order_states (slot -> order) and            *)
(* order_id_to_pos (order id -> slot).  Evicting an order overwrites the   *)
(* first and leaves a stale entry in the second; rebuilding the second     *)
(* from the first, as a restart from a dump does, drops the stale entries. *)
(*                                                                         *)
(* The messages come from the matching engine, which is not part of the    *)
(* repository: `book' and `batch' model what the node observes of it.  One *)
(* incoming (taker) order is matched against resting (maker) orders, one   *)
(* trade message per match; the FINISH messages of the makers it filled,   *)
(* and its own, follow after the LAST of those trades.  That order of      *)
(* messages is the one recorded in tests/global_state/testdata/data.txt.   *)
(* An account may have several of the makers, so that a later one may take *)
(* over the slot of one whose FINISH is still to come.                     *)
(* The topic is consumed in order by one thread, so producing a message    *)
(* and handling it are one step here.                                      *)
(*                                                                         *)
(* Amounts are small numbers of the traded base asset, the only quantity   *)
(* is_filled looks at.                                                     *)
(***************************************************************************)
EXTENDS Integers, Sequences, FiniteSets, FiniteSetsExt

CONSTANTS
  Users,        \* accounts
  NumSlots,     \* slots of an account's order tree, 2^order_levels
  Totals,       \* order sizes the engine accepts
  MaxOrders,    \* bound: orders posted in one behaviour
  MaxMatches,   \* bound: makers one taker order is matched with
  MaxRestarts   \* bound: restarts from a dump

ASSUME SlotsAssumption ==
  /\ NumSlots \in Nat \ {0}
  /\ Totals \subseteq Nat \ {0}
  /\ MaxOrders \in Nat /\ MaxMatches \in Nat /\ MaxRestarts \in Nat

VARIABLES
  orderStates,   \* account -> slot -> order, the slots in use only
  orderIdToPos,  \* account -> order id -> slot
  nextOrderPos,  \* account -> slot the search for a victim starts at
  book,          \* engine: order id -> [user, total, filled, finished]
  batch,         \* engine: the taker order in progress
  panic,         \* "none", or the check that stopped the node
  restarts,      \* restarts so far
  harmed,        \* history: accounts of which a FINISH deactivated another, open order
  forgotten,     \* history: orders that lost their stale map entry to a restart
  refused        \* history: orders of the message that stopped the node

rollupVars == <<orderStates, orderIdToPos, nextOrderPos>>
history    == <<harmed, forgotten, refused>>
vars == <<orderStates, orderIdToPos, nextOrderPos, book, batch, panic, restarts, history>>

Pos      == 0 .. NumSlots - 1
OrderIds == DOMAIN book

Checks ==
  {"check_state", "new order is known", "unknown order", "no order pos",
   "finish of unknown order"}

-----------------------------------------------------------------------------
(* Operators of GlobalState. *)

\* BTreeMap::insert and HashMap::insert
Put(f, k, v) == [x \in DOMAIN f \cup {k} |-> IF x = k THEN v ELSE f[x]]

\* Order::is_filled, or no longer active
Closed(order) == order.filled >= order.total \/ ~order.active

\* Order::trade_with
TradeWith(order, amount) == [order EXCEPT !.filled = @ + amount]

\* l2::Order::from(OrderInput)
NewOrder(id, total) ==
  [id |-> id, total |-> total, filled |-> 0, active |-> TRUE]

NumOrders(user) == Cardinality(DOMAIN orderStates[user])

HasOrder(user, id) == id \in DOMAIN orderIdToPos[user]

OrderById(user, id) == orderStates[user][orderIdToPos[user][id]]

\* the i-th slot the search looks at
Candidate(user, i) == (nextOrderPos[user] + i) % NumSlots

\* Mutants of Victims: any slot whose id is smaller, and any closed slot.
VictimsOpenToo(user, id) ==
  {i \in Pos : orderStates[user][Candidate(user, i)].id < id}
VictimsAnyId(user, id) ==
  {i \in Pos : Closed(orderStates[user][Candidate(user, i)])}

\* steps of the search at which a slot may be taken over
Victims(user, id) ==
  {i \in Pos : LET old == orderStates[user][Candidate(user, i)]
               IN  Closed(old) /\ old.id < id}

HasRoom(user) == NumOrders(user) < NumSlots

\* get_next_order_pos_for_user; NoOrderPos is its panic
NoOrderPos(user, id) == ~HasRoom(user) /\ Victims(user, id) = {}

\* Mutant of NextOrderPos: the first free slot is one past the number of orders.
NextOrderPosPastEnd(user, id) ==
  IF HasRoom(user) THEN NumOrders(user) + 1
                   ELSE Candidate(user, Min(Victims(user, id)))

NextOrderPos(user, id) ==
  IF HasRoom(user) THEN NumOrders(user)
                   ELSE Candidate(user, Min(Victims(user, id)))

\* find_or_insert_order: the slot, and the search start it leaves behind
SlotFor(user, id) ==
  IF HasOrder(user, id) THEN orderIdToPos[user][id] ELSE NextOrderPos(user, id)

\* Mutant of SearchStartAfter: advances by the steps searched, without wrapping.
SearchStartUnwrapped(user, id) ==
  IF HasOrder(user, id) \/ HasRoom(user) THEN nextOrderPos[user]
                    ELSE nextOrderPos[user] + Min(Victims(user, id)) + 1

SearchStartAfter(user, id) ==
  IF HasOrder(user, id) \/ HasRoom(user) THEN nextOrderPos[user]
                                         ELSE NextOrderPos(user, id) + 1

\* Mutant of Rebuilt: closed orders are left out of the map.
RebuiltOpenOnly(states) ==
  [id \in {states[p].id : p \in {q \in DOMAIN states : ~Closed(states[q])}} |->
     Max({p \in DOMAIN states : states[p].id = id})]

\* the order_id_to_pos rebuilt by load_persist; a later slot wins
Rebuilt(states) ==
  [id \in {states[p].id : p \in DOMAIN states} |->
     Max({p \in DOMAIN states : states[p].id = id})]

-----------------------------------------------------------------------------
(* The matching engine. *)

NoBatch == [taker |-> 0, matching |-> FALSE, makers |-> {}, finish |-> <<>>]
Idle    == batch.taker = 0

Remaining(id) == book[id].total - book[id].filled
Open(id)      == ~book[id].finished /\ Remaining(id) > 0

\* may the taker in progress trade with this resting order next?
Matches(maker) ==
  /\ batch.matching
  /\ Open(maker) /\ Remaining(batch.taker) > 0
  /\ maker # batch.taker
  /\ book[maker].user # book[batch.taker].user
  /\ Cardinality(batch.makers) < MaxMatches

\* a trade message carries the whole order when this is its first trade
IsNew(id) == book[id].filled = 0

NamedOrder(id) ==
  IF IsNew(id) THEN NewOrder(id, book[id].total) ELSE OrderById(book[id].user, id)

-----------------------------------------------------------------------------
(* Handlers. *)

\* check_state on state_before: what the engine and the node filled so far
StateBeforeAgrees(id) ==
  IF HasOrder(book[id].user, id)
  THEN OrderById(book[id].user, id).filled = book[id].filled
  ELSE book[id].filled = 0

\* the first check of handle_trade_msg and full_spot_trade that fails
TradeCheck(maker, taker) ==
  LET sides == {maker, taker}
      noPos(id) == LET user == book[id].user
                       named == NamedOrder(id).id
                   IN  ~HasOrder(user, named) /\ NoOrderPos(user, named)
  IN  IF \E id \in sides : ~StateBeforeAgrees(id) THEN "check_state"
      ELSE IF \E id \in sides : IsNew(id) /\ HasOrder(book[id].user, id)
        THEN "new order is known"
      ELSE IF \E id \in sides : ~IsNew(id) /\ ~HasOrder(book[id].user, id)
        THEN "unknown order"
      ELSE IF \E id \in sides : noPos(id) THEN "no order pos"
      ELSE "none"

\* order_states, order_id_to_pos and next_order_positions of the account
\* whose order `id' trades `amount'
StatesAfter(id, amount) ==
  LET user == book[id].user
      order == NamedOrder(id)
  IN  Put(orderStates[user], SlotFor(user, order.id), TradeWith(order, amount))

\* Mutant of IdToPosAfter: set_order_pos_for_id is skipped for a taken-over slot.
IdToPosAfterAppendOnly(id) ==
  LET user == book[id].user
      order == NamedOrder(id)
  IN  IF HasRoom(user) THEN Put(orderIdToPos[user], order.id, SlotFor(user, order.id))
                       ELSE orderIdToPos[user]

IdToPosAfter(id) ==
  LET user == book[id].user
      order == NamedOrder(id)
  IN  Put(orderIdToPos[user], order.id, SlotFor(user, order.id))

Trade(maker) ==
  LET taker  == batch.taker
      mUser  == book[maker].user
      tUser  == book[taker].user
      amount == Min({Remaining(maker), Remaining(taker)})
  IN
  /\ panic = "none" /\ ~Idle /\ Matches(maker)
  /\ TradeCheck(maker, taker) = "none"
  /\ orderStates'  = [orderStates EXCEPT ![mUser] = StatesAfter(maker, amount),
                                         ![tUser] = StatesAfter(taker, amount)]
  /\ orderIdToPos' = [orderIdToPos EXCEPT ![mUser] = IdToPosAfter(maker),
                                          ![tUser] = IdToPosAfter(taker)]
  /\ nextOrderPos' =
       [nextOrderPos EXCEPT
          ![mUser] = SearchStartAfter(mUser, NamedOrder(maker).id),
          ![tUser] = SearchStartAfter(tUser, NamedOrder(taker).id)]
  /\ book' = [book EXCEPT ![maker].filled = @ + amount,
                          ![taker].filled = @ + amount]
  /\ batch' = [batch EXCEPT
                 !.makers = @ \cup {maker},
                 !.finish = IF amount = Remaining(maker) THEN Append(@, maker) ELSE @]
  /\ UNCHANGED <<panic, restarts, history>>

TradePanics(maker) ==
  /\ panic = "none" /\ ~Idle /\ Matches(maker)
  /\ TradeCheck(maker, batch.taker) # "none"
  /\ panic' = TradeCheck(maker, batch.taker) /\ refused' = {maker, batch.taker}
  /\ UNCHANGED <<rollupVars, book, batch, restarts, harmed, forgotten>>

\* the debug_asserts of handle_order_msg on FINISH, compiled into releases too
FinishCheck(id) == HasOrder(book[id].user, id) <=> book[id].filled # 0

\* the slot the order had is another order's now, and the map entry stale
Evicted(id) ==
  LET user == book[id].user
  IN  HasOrder(user, id) /\ OrderById(user, id).id # id

\* FINISH of this order would clear the active mark of an open one
Harms(id) == Evicted(id) /\ Open(OrderById(book[id].user, id).id)

\* the FINISH message of an order: cancel_order when it traded, and nothing
\* when it never did, so that it never got a slot
FinishMsg(id) ==
  LET user == book[id].user
  IN
  /\ orderStates' =
       IF FinishCheck(id) /\ book[id].filled # 0
       THEN [orderStates EXCEPT ![user][orderIdToPos[user][id]].active = FALSE]
       ELSE orderStates
  /\ panic' = IF FinishCheck(id) THEN panic ELSE "finish of unknown order"
  /\ refused' = IF FinishCheck(id) THEN refused ELSE {id}
  /\ harmed' = IF Harms(id) THEN harmed \cup {user} ELSE harmed
  /\ book' = [book EXCEPT ![id].finished = TRUE]
  /\ UNCHANGED <<orderIdToPos, nextOrderPos, restarts, forgotten>>

\* FINISH of the next order the batch filled
Finish ==
  LET rest == Tail(batch.finish)
  IN
  /\ panic = "none" /\ ~Idle /\ ~batch.matching
  /\ FinishMsg(Head(batch.finish))
  /\ batch' = IF rest = <<>> THEN NoBatch ELSE [batch EXCEPT !.finish = rest]

\* FINISH of a resting order its owner cancelled
UserCancel(id) ==
  /\ panic = "none" /\ Idle /\ Open(id)
  /\ FinishMsg(id)
  /\ UNCHANGED batch

\* PUT: the handler does nothing; in the engine the order becomes the taker
PutOrder(user, total) ==
  /\ panic = "none" /\ Idle /\ Len(book) < MaxOrders
  /\ book' = Append(book, [user |-> user, total |-> total,
                           filled |-> 0, finished |-> FALSE])
  /\ batch' = [NoBatch EXCEPT !.taker = Len(book) + 1, !.matching = TRUE]
  /\ UNCHANGED <<rollupVars, panic, restarts, history>>

\* engine: nothing more to match; filled makers, then the taker, get FINISH
StopMatching ==
  LET finish == IF Remaining(batch.taker) = 0
                THEN Append(batch.finish, batch.taker) ELSE batch.finish
  IN
  /\ panic = "none" /\ batch.matching
  /\ batch' = IF finish = <<>> THEN NoBatch
              ELSE [batch EXCEPT !.matching = FALSE, !.finish = finish]
  /\ UNCHANGED <<rollupVars, book, panic, restarts, history>>

\* crash and restart from a dump of the current state
Restart ==
  /\ panic = "none" /\ restarts < MaxRestarts
  /\ restarts' = restarts + 1
  /\ orderIdToPos' = [user \in Users |-> Rebuilt(orderStates[user])]
  /\ forgotten' = forgotten \cup {id \in OrderIds : Evicted(id)}
  /\ UNCHANGED <<orderStates, nextOrderPos, book, batch, panic, harmed, refused>>

-----------------------------------------------------------------------------
Init ==
  /\ orderStates  = [user \in Users |-> <<>>]
  /\ orderIdToPos = [user \in Users |-> <<>>]
  /\ nextOrderPos = [user \in Users |-> 1]   \* default_next_order_id
  /\ book = <<>> /\ batch = NoBatch /\ panic = "none" /\ restarts = 0
  /\ harmed = {} /\ forgotten = {} /\ refused = {}

Next ==
  \/ \E user \in Users, total \in Totals : PutOrder(user, total)
  \/ \E maker \in OrderIds : Trade(maker) \/ TradePanics(maker)
  \/ StopMatching
  \/ Finish
  \/ \E id \in OrderIds : UserCancel(id)
  \/ Restart

Spec == Init /\ [][Next]_vars

-----------------------------------------------------------------------------
(* Properties. *)

Order     == [id : Nat, total : Nat, filled : Nat, active : BOOLEAN]
BookEntry == [user : Users, total : Nat, filled : Nat, finished : BOOLEAN]

\* The maps of GlobalState map slots to orders and order ids to slots; the
\* search for a victim starts at a slot or one past the last; the engine names
\* orders it has.
TypeOK ==
  /\ DOMAIN orderStates = Users /\ DOMAIN orderIdToPos = Users
  /\ \A user \in Users :
       /\ DOMAIN orderStates[user] \subseteq Pos
       /\ \A p \in DOMAIN orderStates[user] : orderStates[user][p] \in Order
       /\ DOMAIN orderIdToPos[user] \subseteq Nat
       /\ \A id \in DOMAIN orderIdToPos[user] : orderIdToPos[user][id] \in Pos
  /\ nextOrderPos \in [Users -> 0 .. NumSlots]
  /\ book \in Seq(BookEntry)
  /\ \A id \in OrderIds : book[id].filled <= book[id].total
  /\ batch \in [taker : OrderIds \cup {0}, matching : BOOLEAN,
                makers : SUBSET OrderIds, finish : Seq(OrderIds)]
  /\ batch.matching => ~Idle
  /\ ~Idle /\ ~batch.matching => batch.finish # <<>>
  /\ panic \in Checks \cup {"none"}
  /\ harmed \subseteq Users /\ forgotten \subseteq OrderIds /\ refused \subseteq OrderIds

\* The slots in use are a prefix of the tree, as get_next_order_pos_for_user
\* assumes when it takes the number of orders for the next free slot.
SlotsContiguous ==
  \A user \in Users : DOMAIN orderStates[user] = 0 .. NumOrders(user) - 1

\* Every order that holds a slot is found in that slot by its id, whatever was
\* evicted before: no slot is unreachable and no order holds two slots.
SlotMapConsistent ==
  \A user \in Users :
    /\ \A p \in DOMAIN orderStates[user] :
         LET id == orderStates[user][p].id
         IN  HasOrder(user, id) /\ orderIdToPos[user][id] = p
    /\ \A id \in DOMAIN orderIdToPos[user] :
         orderIdToPos[user][id] \in DOMAIN orderStates[user]

\* The id of the order in a slot never decreases: get_next_order_pos_for_user
\* gives a slot to a newer order only, also when it is given away again and again.
SlotIdsIncrease ==
  [][\A user \in Users : \A p \in DOMAIN orderStates[user] :
       /\ p \in DOMAIN orderStates'[user]
       /\ orderStates'[user][p].id >= orderStates[user][p].id]_vars

\* An order that has traded and that the engine may still trade keeps its
\* slot, its fill and its active mark, until the engine finishes it; but not in an
\* account of which a FINISH followed a stale map entry (cancel_order) to the slot
\* of another order, and deactivated that one while it was open.
OpenOrderKept ==
  \A id \in OrderIds :
    Open(id) /\ ~IsNew(id) /\ book[id].user \notin harmed =>
      /\ HasOrder(book[id].user, id)
      /\ OrderById(book[id].user, id) =
           [NewOrder(id, book[id].total) EXCEPT !.filled = book[id].filled]

\* its FINISH is still to come, and a later maker of its account has its slot
EvictedInBatch(id) ==
  LET user == book[id].user
  IN  /\ \E i \in DOMAIN batch.finish : batch.finish[i] = id
      /\ HasOrder(user, id)
      /\ OrderById(user, id).id \in batch.makers /\ OrderById(user, id).id > id

\* A node restarted from a dump answers has_order like the node that wrote it, for
\* every order a later message may still name; but for an order of an account
\* harmed as above, and for one a batch filled and evicted before its FINISH.
ReloadAgrees ==
  \A id \in OrderIds :
    ~book[id].finished =>
      LET user == book[id].user
      IN  \/ HasOrder(user, id) <=> id \in DOMAIN Rebuilt(orderStates[user])
          \/ user \in harmed
          \/ EvictedInBatch(id)

\* The engine's messages pass the checks of the handlers, but for three reasons: an
\* account runs out of slots; a restart dropped the entry of an order evicted before
\* its FINISH; or a FINISH deactivated an open order of the account, whose slot then
\* went to another one.
ChecksPass ==
  \/ panic \in {"none", "no order pos"}
  \/ panic = "finish of unknown order" /\ refused \cap forgotten # {}
  \/ panic = "check_state" /\ \E id \in refused : book[id].user \in harmed

\* FINISH of an order that traded finds the order ("manager should have traded
\* order", handle_order_msg).
FinishFindsOrder == panic # "finish of unknown order"

\* What the engine says of the fills of an order before a trade is what the node
\* recorded (assert_eq!(remote_filled_buy, local_filled_buy), check_state).
FillsAgree == panic # "check_state"

=============================================================================
