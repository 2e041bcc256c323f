-------------------------- MODULE OrderSlotsProofs --------------------------
(***************************************************************************)
(* Proofs about OrderSlots, for any accounts, any number of slots and any  *)
(* batches of the engine.                                                  *)
(*                                                                         *)
(* IInv, the invariant of the maps, is the conjunction of the type         *)
(* invariant, SlotsContiguous and SlotMapConsistent: an order that is      *)
(* traded again is found by its id, so its type and its slot come from the *)
(* map; a new order gets its slot from the number of slots in use or from  *)
(* the search, which is why the slots must be contiguous.                  *)
(*                                                                         *)
(* OInv is the invariant of what the engine's messages rely on.  It says   *)
(* that the map knows traded orders only, and every one that is not        *)
(* finished, but for those a restart forgot; that in an account no FINISH  *)
(* harmed an open order that traded is in its slot with its fill and its   *)
(* active mark, and a filled one whose FINISH is to come in its slot or    *)
(* evicted by a later maker of its batch; and that the filled orders whose *)
(* FINISH has not arrived are exactly those of the batch.  The search for  *)
(* a victim passes over open orders, so nothing but a FINISH that follows  *)
(* a stale entry can end this: harmed records exactly that.                *)
(***************************************************************************)
EXTENDS OrderSlots, FiniteSetTheorems, SequenceTheorems, WellFoundedInduction, TLAPS

IInv == TypeOK /\ SlotsContiguous /\ SlotMapConsistent

\* the parts of IInv that speak of one account
Contiguous(states) == DOMAIN states = 0 .. Cardinality(DOMAIN states) - 1

MapsAgree(states, idToPos) ==
  /\ \A p \in DOMAIN states :
       states[p].id \in DOMAIN idToPos /\ idToPos[states[p].id] = p
  /\ \A id \in DOMAIN idToPos : idToPos[id] \in DOMAIN states

MapsTyped(states, idToPos) ==
  /\ DOMAIN states \subseteq Pos
  /\ \A p \in DOMAIN states : states[p] \in Order
  /\ DOMAIN idToPos \subseteq Nat
  /\ \A id \in DOMAIN idToPos : idToPos[id] \in Pos

\* slots keep their order or get a newer one
IdsGrow(old, new) ==
  \A p \in DOMAIN old : p \in DOMAIN new /\ new[p].id >= old[p].id

-----------------------------------------------------------------------------
(* Lemmas about the operators. *)

\* A non-empty set of natural numbers contains its minimum.
LEMMA MinInSet ==
  ASSUME NEW S \in SUBSET Nat, S # {}
  PROVE  Min(S) \in S /\ \A n \in S : Min(S) <= n
<1> DEFINE T == {0 .. n : n \in S}
           R == StrictSubsetOrdering(Nat)
<1>1. T \subseteq FiniteSubsetsOf(Nat) /\ T # {}
  <2>1. ASSUME NEW n \in S PROVE 0 .. n \in FiniteSubsetsOf(Nat)
    BY FS_Interval DEF FiniteSubsetsOf
  <2> QED BY <2>1
<1>2. \E x \in T : \A y \in T : ~ (<<y, x>> \in R)
  <2> HIDE DEF T, R
  <2> QED BY <1>1, FS_StrictSubsetOrderingWellFounded, WFMin DEF R
<1>3. PICK m \in S : \A n \in S : ~ (<<0 .. n, 0 .. m>> \in R)
  BY <1>2
<1>4. ASSUME NEW n \in S PROVE m <= n
  <2> SUFFICES ASSUME n < m PROVE FALSE
    OBVIOUS
  <2>1. (0 .. n) \subseteq (0 .. m) /\ m \in 0 .. m /\ m \notin 0 .. n
    OBVIOUS
  <2>2. <<0 .. n, 0 .. m>> \in R
    BY <2>1 DEF StrictSubsetOrdering
  <2> QED BY <2>2, <1>3
<1> QED
  BY <1>4 DEF Min

\* The smaller of two natural numbers bounds neither from above.
LEMMA MinOfTwo ==
  ASSUME NEW a \in Nat, NEW b \in Nat
  PROVE  Min({a, b}) \in Nat /\ Min({a, b}) <= a /\ Min({a, b}) <= b
BY MinInSet, {a, b} \in SUBSET Nat, {a, b} # {}

\* The slots in use are finitely many.
LEMMA SlotsFinite ==
  ASSUME NEW D, D \subseteq Pos
  PROVE  IsFiniteSet(D) /\ Cardinality(D) \in Nat
<1>1. IsFiniteSet(Pos)
  BY FS_Interval, SlotsAssumption DEF Pos
<1>2. IsFiniteSet(D)
  BY <1>1, FS_Subset
<1> QED BY <1>2, FS_CardinalityType

\* Adding the next slot keeps the slots contiguous; overwriting one does too.
LEMMA PutContiguous ==
  ASSUME NEW S, Contiguous(S), DOMAIN S \subseteq Pos, NEW v, NEW p,
         p \in DOMAIN S \/ p = Cardinality(DOMAIN S)
  PROVE  Contiguous(Put(S, p, v))
<1> DEFINE n == Cardinality(DOMAIN S)
<1>1. n \in Nat
  BY SlotsFinite
<1>2. DOMAIN S = 0 .. n - 1
  BY DEF Contiguous
<1>3. DOMAIN Put(S, p, v) = DOMAIN S \cup {p}
  BY DEF Put
<1>4. CASE p \in DOMAIN S
  BY <1>3, <1>4, DOMAIN Put(S, p, v) = DOMAIN S DEF Contiguous
<1>5. CASE p = n
  <2>1. DOMAIN Put(S, p, v) = 0 .. n
    <3> HIDE DEF n
    <3> QED BY <1>1, <1>2, <1>3, <1>5
  <2>2. Cardinality(0 .. n) = n + 1
    <3> HIDE DEF n
    <3> QED BY <1>1, FS_Interval
  <2> QED BY <1>1, <2>1, <2>2 DEF Contiguous
<1> QED BY <1>4, <1>5

-----------------------------------------------------------------------------
(* One side of a trade. *)

\* What the checks of a trade message establish for one of its orders.
SideChecked(id) ==
  LET user == book[id].user
      named == NamedOrder(id).id
  IN  /\ IsNew(id) <=> ~HasOrder(user, id)
      /\ HasOrder(user, named) \/ ~NoOrderPos(user, named)

\* A trade message without a failing check has both its orders checked.
LEMMA TradeCheckNone ==
  ASSUME NEW maker, NEW taker, TradeCheck(maker, taker) = "none",
         NEW id \in {maker, taker}
  PROVE  SideChecked(id)
<1>1. ~(IsNew(id) /\ HasOrder(book[id].user, id))
  BY DEF TradeCheck
<1>2. ~(~IsNew(id) /\ ~HasOrder(book[id].user, id))
  BY DEF TradeCheck
<1>3. LET named == NamedOrder(id).id
      IN  ~(~HasOrder(book[id].user, named) /\ NoOrderPos(book[id].user, named))
  BY DEF TradeCheck
<1> QED BY <1>1, <1>2, <1>3 DEF SideChecked

\* The slot of a new order: the next free one, or the slot of a closed, older
\* order in a full tree.
LEMMA NewSlot ==
  ASSUME IInv, NEW user \in Users, NEW id \in Nat, ~NoOrderPos(user, id)
  PROVE  LET p == NextOrderPos(user, id)
             states == orderStates[user]
         IN  /\ p \in Pos
             /\ \/ p = NumOrders(user)
                \/ p \in DOMAIN states /\ Closed(states[p]) /\ states[p].id < id
<1> DEFINE D == DOMAIN orderStates[user]
           n == NumOrders(user)
<1>1. D \subseteq Pos /\ D = 0 .. n - 1
  BY DEF IInv, TypeOK, SlotsContiguous
<1>2. n \in Nat
  BY <1>1, SlotsFinite DEF NumOrders
<1>3. CASE HasRoom(user)
  BY <1>2, <1>3, SlotsAssumption DEF HasRoom, NextOrderPos, Pos
<1>4. CASE ~HasRoom(user)
  <2> DEFINE i == Min(Victims(user, id))
  <2>1. i \in Victims(user, id)
    <3>1. Victims(user, id) \subseteq Nat /\ Victims(user, id) # {}
      BY <1>4, SlotsAssumption DEF Victims, Pos, NoOrderPos
    <3> QED BY <3>1, MinInSet
  <2>2. NextOrderPos(user, id) = Candidate(user, i)
    BY <1>4 DEF NextOrderPos
  <2>3. Candidate(user, i) \in Pos
    <3>1. i \in Nat /\ nextOrderPos[user] \in Nat
      BY <2>1, SlotsAssumption DEF Victims, Pos, IInv, TypeOK
    <3> HIDE DEF i
    <3> QED BY <3>1, SlotsAssumption DEF Candidate, Pos
  <2>4. D = Pos
    <3>1. n >= NumSlots
      BY <1>2, <1>4, SlotsAssumption DEF HasRoom
    <3> HIDE DEF n, D
    <3> QED BY <1>1, <1>2, <3>1, SlotsAssumption DEF Pos
  <2>5. /\ Closed(orderStates[user][Candidate(user, i)])
        /\ orderStates[user][Candidate(user, i)].id < id
    BY <2>1 DEF Victims
  <2> HIDE DEF i
  <2> QED BY <2>2, <2>3, <2>4, <2>5
<1> QED BY <1>3, <1>4

\* One side of a trade keeps its account's maps typed, contiguous and in
\* agreement, and gives no slot to an older order.
LEMMA SideKeepsMaps ==
  ASSUME IInv, NEW id \in OrderIds, NEW amount \in Nat, SideChecked(id)
  PROVE  LET user   == book[id].user
             states == StatesAfter(id, amount)
             idToPos == IdToPosAfter(id)
         IN  /\ MapsTyped(states, idToPos)
             /\ Contiguous(states)
             /\ MapsAgree(states, idToPos)
             /\ IdsGrow(orderStates[user], states)
             /\ SearchStartAfter(user, NamedOrder(id).id) \in 0 .. NumSlots
<1> DEFINE user  == book[id].user
           S     == orderStates[user]
           M     == orderIdToPos[user]
           order == NamedOrder(id)
           p     == SlotFor(user, order.id)
           new   == TradeWith(order, amount)
<1>1. /\ user \in Users /\ id \in Nat /\ book[id].total \in Nat
  <2>1. book \in Seq(BookEntry)
    BY DEF IInv, TypeOK
  <2>2. book[id] \in BookEntry /\ id \in Nat
    BY <2>1 DEF OrderIds
  <2> QED BY <2>2 DEF BookEntry
<1>2. MapsTyped(S, M) /\ Contiguous(S) /\ MapsAgree(S, M)
  BY <1>1 DEF IInv, TypeOK, SlotsContiguous, SlotMapConsistent, MapsTyped,
              Contiguous, MapsAgree, NumOrders, HasOrder
<1>3. \/ /\ order.id \in DOMAIN M /\ p = M[order.id]
         /\ p \in DOMAIN S /\ S[p].id = order.id
      \/ /\ order.id \notin DOMAIN M
         /\ p \in Pos
         /\ p = NumOrders(user) \/ (p \in DOMAIN S /\ S[p].id < order.id)
  <2>1. CASE IsNew(id)
    <3>1. order.id = id /\ ~HasOrder(user, id)
      BY <2>1 DEF SideChecked, NamedOrder, NewOrder
    <3>2. ~NoOrderPos(user, id)
      BY <3>1 DEF SideChecked
    <3>3. p = NextOrderPos(user, id)
      BY <3>1 DEF SlotFor
    <3> HIDE DEF p, order, user
    <3> QED BY <1>1, <3>1, <3>2, <3>3, NewSlot DEF HasOrder
  <2>2. CASE ~IsNew(id)
    <3>1. HasOrder(user, id) /\ order = S[M[id]]
      BY <2>2 DEF SideChecked, NamedOrder, OrderById
    <3>2. M[id] \in DOMAIN S
      BY <1>2, <3>1 DEF MapsAgree, HasOrder
    <3>3. order.id \in DOMAIN M /\ M[order.id] = M[id]
      BY <1>2, <3>1, <3>2 DEF MapsAgree
    <3>4. p = M[order.id]
      BY <3>3 DEF SlotFor, HasOrder
    <3> QED BY <3>1, <3>2, <3>3, <3>4
  <2> QED BY <2>1, <2>2
<1>4. order \in Order
  <2>1. CASE IsNew(id)
    BY <1>1, <2>1 DEF NamedOrder, NewOrder, Order
  <2>2. CASE ~IsNew(id)
    <3>1. order = S[M[id]] /\ id \in DOMAIN M
      BY <2>2 DEF SideChecked, NamedOrder, OrderById, HasOrder
    <3> QED BY <1>2, <3>1 DEF MapsAgree, MapsTyped
  <2> QED BY <2>1, <2>2
<1>5. new \in Order /\ new.id = order.id
  <2> HIDE DEF order
  <2> QED BY <1>4 DEF TradeWith, Order
<1>6. StatesAfter(id, amount) = Put(S, p, new)
  BY DEF StatesAfter
<1>7. IdToPosAfter(id) = Put(M, order.id, p)
  BY DEF IdToPosAfter
<1>8. p \in DOMAIN S \/ p = Cardinality(DOMAIN S)
  BY <1>3 DEF NumOrders
<1>9. p \in Pos
  BY <1>2, <1>3 DEF MapsTyped
<1>10. order.id \in Nat
  BY <1>4 DEF Order
<1>11. NumOrders(user) \notin DOMAIN S
  <2>1. Cardinality(DOMAIN S) \in Nat
    BY <1>2, SlotsFinite DEF MapsTyped
  <2> QED BY <1>2, <2>1 DEF Contiguous, NumOrders
<1>12. Contiguous(Put(S, p, new))
  BY <1>2, <1>8, PutContiguous DEF MapsTyped
<1>16. SearchStartAfter(user, order.id) \in 0 .. NumSlots
  <2>1. nextOrderPos[user] \in 0 .. NumSlots
    BY <1>1 DEF IInv, TypeOK
  <2>2. CASE HasOrder(user, order.id) \/ HasRoom(user)
    BY <2>1, <2>2 DEF SearchStartAfter
  <2>3. CASE ~(HasOrder(user, order.id) \/ HasRoom(user))
    <3>1. ~NoOrderPos(user, order.id)
      BY <2>3 DEF SideChecked
    <3>2. NextOrderPos(user, order.id) \in Pos
      <4> HIDE DEF order, user
      <4> QED BY <1>1, <1>10, <3>1, NewSlot
    <3>3. SearchStartAfter(user, order.id) = NextOrderPos(user, order.id) + 1
      BY <2>3 DEF SearchStartAfter
    <3> HIDE DEF order, user
    <3> QED BY <3>2, <3>3, SlotsAssumption DEF Pos
  <2> QED BY <2>2, <2>3
<1> HIDE DEF S, M, p, order, new, user
<1>13. MapsTyped(Put(S, p, new), Put(M, order.id, p))
  BY <1>2, <1>5, <1>9, <1>10 DEF MapsTyped, Put
<1>14. MapsAgree(Put(S, p, new), Put(M, order.id, p))
  <2>1. CASE order.id \in DOMAIN M
    BY <1>2, <1>3, <1>5, <2>1 DEF MapsAgree, Put
  <2>2. CASE order.id \notin DOMAIN M
    BY <1>2, <1>3, <1>5, <1>11, <2>2 DEF MapsAgree, Put
  <2> QED BY <2>1, <2>2
<1>15. IdsGrow(S, Put(S, p, new))
  <2>1. ASSUME NEW q \in DOMAIN S PROVE S[q].id \in Nat
    BY <1>2 DEF MapsTyped, Order
  <2> QED BY <1>3, <1>5, <1>10, <1>11, <2>1 DEF IdsGrow, Put
<1> QED
  BY <1>6, <1>7, <1>12, <1>13, <1>14, <1>15, <1>16 DEF user, S, p, new, order, M

-----------------------------------------------------------------------------
(* The invariant is inductive. *)

\* The invariant, one account at a time.
MapsInv ==
  \A user \in Users :
    /\ MapsTyped(orderStates[user], orderIdToPos[user])
    /\ Contiguous(orderStates[user])
    /\ MapsAgree(orderStates[user], orderIdToPos[user])

LEMMA MapsInvEquiv ==
  /\ IInv => MapsInv
  /\ TypeOK /\ MapsInv => IInv
BY DEF IInv, TypeOK, SlotsContiguous, SlotMapConsistent, MapsInv, MapsTyped,
       Contiguous, MapsAgree, NumOrders, HasOrder

\* What every order of the book is.
LEMMA BookTyped ==
  ASSUME TypeOK, NEW id \in OrderIds
  PROVE  /\ id \in Nat /\ book[id].user \in Users
         /\ book[id].total \in Nat /\ book[id].filled \in Nat
         /\ book[id].finished \in BOOLEAN
         /\ book[id] \in BookEntry
         /\ Remaining(id) \in Nat
<1>1. book \in Seq(BookEntry) /\ book[id].filled <= book[id].total
  BY DEF TypeOK
<1>2. book[id] \in BookEntry /\ id \in Nat
  BY <1>1 DEF OrderIds
<1> QED BY <1>1, <1>2 DEF BookEntry, Remaining

\* A trade keeps the invariant and gives no slot to an older order.
LEMMA TradeKeeps ==
  ASSUME IInv, NEW maker \in OrderIds, Trade(maker)
  PROVE  /\ IInv'
         /\ \A user \in Users : IdsGrow(orderStates[user], orderStates'[user])
<1> DEFINE taker  == batch.taker
           mUser  == book[maker].user
           tUser  == book[taker].user
           amount == Min({Remaining(maker), Remaining(taker)})
<1>1. taker \in OrderIds /\ mUser # tUser /\ maker # taker
  BY DEF Trade, IInv, TypeOK, Idle, Matches
<1>2. mUser \in Users /\ tUser \in Users
  BY <1>1, BookTyped DEF IInv
<1>3. amount \in Nat /\ amount <= Remaining(maker) /\ amount <= Remaining(taker)
  <2>1. Remaining(maker) \in Nat /\ Remaining(taker) \in Nat
    BY <1>1, BookTyped DEF IInv
  <2> QED BY <2>1, MinOfTwo
<1>4. SideChecked(maker) /\ SideChecked(taker)
  BY TradeCheckNone DEF Trade
<1>5. /\ DOMAIN orderStates = Users /\ DOMAIN orderIdToPos = Users
      /\ nextOrderPos \in [Users -> 0 .. NumSlots]
  BY DEF IInv, TypeOK
<1>6. /\ DOMAIN orderStates' = Users /\ DOMAIN orderIdToPos' = Users
      /\ \A user \in Users :
           /\ orderStates'[user] = IF user = tUser THEN StatesAfter(taker, amount)
                                   ELSE IF user = mUser THEN StatesAfter(maker, amount)
                                   ELSE orderStates[user]
           /\ orderIdToPos'[user] = IF user = tUser THEN IdToPosAfter(taker)
                                    ELSE IF user = mUser THEN IdToPosAfter(maker)
                                    ELSE orderIdToPos[user]
  BY <1>1, <1>2, <1>5 DEF Trade
<1>7. MapsInv' /\ \A user \in Users : IdsGrow(orderStates[user], orderStates'[user])
  <2> SUFFICES ASSUME NEW user \in Users
               PROVE  /\ MapsTyped(orderStates'[user], orderIdToPos'[user])
                      /\ Contiguous(orderStates'[user])
                      /\ MapsAgree(orderStates'[user], orderIdToPos'[user])
                      /\ IdsGrow(orderStates[user], orderStates'[user])
    BY DEF MapsInv, MapsTyped, Contiguous, MapsAgree, Pos, Order
  <2> HIDE DEF taker, amount, mUser, tUser
  <2>1. CASE user = tUser
    BY <1>1, <1>3, <1>4, <1>6, <2>1, SideKeepsMaps DEF tUser
  <2>2. CASE user = mUser /\ user # tUser
    BY <1>3, <1>4, <1>6, <2>2, SideKeepsMaps DEF mUser
  <2>3. CASE user # mUser /\ user # tUser
    <3>1. /\ orderStates'[user] = orderStates[user]
          /\ orderIdToPos'[user] = orderIdToPos[user]
      BY <1>6, <2>3
    <3>2. \A p \in DOMAIN orderStates[user] : orderStates[user][p].id \in Nat
      BY DEF IInv, TypeOK, Order
    <3> QED BY <3>1, <3>2, MapsInvEquiv DEF MapsInv, IdsGrow
  <2> QED BY <2>1, <2>2, <2>3
<1>8. nextOrderPos' \in [Users -> 0 .. NumSlots]
  <2>1. /\ SearchStartAfter(mUser, NamedOrder(maker).id) \in 0 .. NumSlots
        /\ SearchStartAfter(tUser, NamedOrder(taker).id) \in 0 .. NumSlots
    <3> HIDE DEF taker, amount
    <3> QED BY <1>1, <1>3, <1>4, SideKeepsMaps
  <2> QED BY <1>2, <1>5, <2>1 DEF Trade
<1>9. /\ book' \in Seq(BookEntry) /\ OrderIds' = OrderIds
      /\ \A id \in OrderIds : book'[id].filled <= book'[id].total
  <2>1. book' = [book EXCEPT ![maker].filled = @ + amount,
                             ![taker].filled = @ + amount]
    BY DEF Trade
  <2>2. \A id \in OrderIds :
          book'[id] = IF id \in {maker, taker}
                      THEN [book[id] EXCEPT !.filled = @ + amount] ELSE book[id]
    <3> HIDE DEF amount, taker
    <3> QED BY <1>1, <2>1 DEF OrderIds
  <2>3. ASSUME NEW id \in OrderIds
        PROVE  book'[id] \in BookEntry /\ book'[id].filled <= book'[id].total
    <3>1. /\ book[id] \in BookEntry /\ book[id].filled \in Nat
          /\ book[id].filled <= book[id].total
      BY BookTyped DEF IInv, TypeOK
    <3>2. CASE id \in {maker, taker}
      <4>1. book[id].filled + amount <= book[id].total
        BY <1>3, <3>1, <3>2, BookTyped DEF Remaining, IInv
      <4>2. book'[id] = [book[id] EXCEPT !.filled = @ + amount]
        BY <2>2, <3>2
      <4> HIDE DEF amount, taker
      <4>3. book[id].filled + amount \in Nat
        BY <1>3, <3>1
      <4>4. book'[id].filled = book[id].filled + amount /\ book'[id].total = book[id].total
        BY <3>1, <4>2 DEF BookEntry
      <4>5. book'[id] \in BookEntry
        BY <3>1, <4>2, <4>3 DEF BookEntry
      <4> QED BY <4>1, <4>4, <4>5
    <3>3. CASE id \notin {maker, taker}
      BY <2>2, <3>1, <3>3
    <3> QED BY <3>2, <3>3
  <2>4. DOMAIN book' = DOMAIN book
    BY <2>1
  <2>5. book' \in Seq(BookEntry)
    <3>1. book \in Seq(BookEntry)
      BY DEF IInv, TypeOK
    <3>2. PICK n \in Nat : DOMAIN book = 1 .. n
      BY <3>1
    <3>3. book' \in [1 .. n -> BookEntry]
      BY <2>1, <2>3, <2>4, <3>2 DEF OrderIds
    <3> QED BY <3>3, SeqDef
  <2> QED BY <2>3, <2>4, <2>5 DEF OrderIds
<1>10. /\ batch' \in [taker : OrderIds \cup {0}, matching : BOOLEAN,
                       makers : SUBSET OrderIds, finish : Seq(OrderIds)]
       /\ batch'.taker \in OrderIds /\ batch'.matching = TRUE
  <2>1. /\ batch \in [taker : OrderIds \cup {0}, matching : BOOLEAN,
                      makers : SUBSET OrderIds, finish : Seq(OrderIds)]
        /\ batch.matching = TRUE
    BY DEF IInv, TypeOK, Trade, Matches
  <2>2. Append(batch.finish, maker) \in Seq(OrderIds)
    BY <2>1
  <2>3. batch' = [batch EXCEPT
                 !.makers = @ \cup {maker},
                 !.finish = IF amount = Remaining(maker) THEN Append(@, maker) ELSE @]
    BY DEF Trade
  <2> HIDE DEF amount
  <2> QED BY <1>1, <2>1, <2>2, <2>3
<1>11. panic' = "none" /\ UNCHANGED <<harmed, forgotten, refused>>
  BY DEF Trade, history
<1>12. TypeOK'
  <2>1. \A user \in Users :
          /\ DOMAIN orderStates'[user] \subseteq Pos
          /\ \A p \in DOMAIN orderStates'[user] : orderStates'[user][p] \in Order
          /\ DOMAIN orderIdToPos'[user] \subseteq Nat
          /\ \A id \in DOMAIN orderIdToPos'[user] : orderIdToPos'[user][id] \in Pos
    BY <1>7 DEF MapsInv, MapsTyped, Pos, Order
  <2>2. (~Idle /\ ~batch.matching => batch.finish # <<>>)' /\ (batch.matching => ~Idle)'
    <3>1. book \in Seq(BookEntry)
      BY DEF IInv, TypeOK
    <3>2. DOMAIN book = 1 .. Len(book) /\ Len(book) \in Nat
      BY <3>1
    <3>3. 0 \notin OrderIds
      BY <3>2 DEF OrderIds
    <3>4. batch'.taker # 0 /\ batch'.matching
      BY <1>10, <3>3
    <3> QED BY <3>4 DEF Idle
  <2>3. harmed' \subseteq Users /\ forgotten' \subseteq OrderIds' /\ refused' \subseteq OrderIds'
    BY <1>9, <1>11 DEF IInv, TypeOK
  <2> HIDE DEF taker, amount, mUser, tUser
  <2> QED BY <1>6, <1>8, <1>9, <1>10, <1>11, <2>1, <2>2, <2>3
          DEF TypeOK, Pos, Order, BookEntry, OrderIds, Checks
<1> QED
  <2>1. SlotsContiguous' /\ SlotMapConsistent'
    BY <1>7 DEF MapsInv, MapsTyped, Contiguous, MapsAgree, SlotsContiguous,
                SlotMapConsistent, NumOrders, HasOrder
  <2> QED BY <1>7, <1>12, <2>1 DEF IInv

-----------------------------------------------------------------------------
(* The steps other than trades. *)

\* The invariant, the node's part and the engine's part.
MapsOK ==
  /\ DOMAIN orderStates = Users /\ DOMAIN orderIdToPos = Users
  /\ nextOrderPos \in [Users -> 0 .. NumSlots]
  /\ MapsInv

EngineOK ==
  /\ book \in Seq(BookEntry)
  /\ \A id \in OrderIds : book[id].filled <= book[id].total
  /\ batch \in [taker : OrderIds \cup {0}, matching : BOOLEAN,
                makers : SUBSET OrderIds, finish : Seq(OrderIds)]
  /\ batch.matching => ~Idle
  /\ ~Idle /\ ~batch.matching => batch.finish # <<>>
  /\ panic \in Checks \cup {"none"}
  /\ harmed \subseteq Users /\ forgotten \subseteq OrderIds /\ refused \subseteq OrderIds

LEMMA IInvParts == (IInv <=> MapsOK /\ EngineOK) /\ (IInv' <=> MapsOK' /\ EngineOK')
<1>1. IInv <=> MapsOK /\ EngineOK
  BY DEF IInv, TypeOK, SlotsContiguous, SlotMapConsistent, MapsInv, MapsTyped,
         Contiguous, MapsAgree, NumOrders, HasOrder, MapsOK, EngineOK
<1>2. IInv' <=> MapsOK' /\ EngineOK'
  BY DEF IInv, TypeOK, SlotsContiguous, SlotMapConsistent, MapsInv, MapsTyped,
         Contiguous, MapsAgree, NumOrders, HasOrder, MapsOK, EngineOK, Pos, Order,
         OrderIds, Idle, Checks, BookEntry
<1> QED BY <1>1, <1>2

\* no slot changes hands
SlotsKept == \A user \in Users : IdsGrow(orderStates[user], orderStates'[user])

\* A step that leaves the slots alone keeps the node's part.
LEMMA MapsUnchanged ==
  ASSUME IInv, UNCHANGED rollupVars
  PROVE  MapsOK' /\ SlotsKept
<1>1. MapsOK
  BY IInvParts
<1>2. \A user \in Users : \A p \in DOMAIN orderStates[user] :
        orderStates[user][p].id \in Nat
  BY DEF IInv, TypeOK, Order
<1> QED
  BY <1>1, <1>2 DEF MapsOK, MapsInv, MapsTyped, Contiguous, MapsAgree, rollupVars,
                    SlotsKept, IdsGrow, Pos, Order

\* The order ids are positive.
LEMMA IdsPositive ==
  ASSUME IInv
  PROVE  0 \notin OrderIds /\ OrderIds = 1 .. Len(book) /\ Len(book) \in Nat
<1>1. book \in Seq(BookEntry)
  BY DEF IInv, TypeOK
<1> QED BY <1>1 DEF OrderIds

\* A FINISH message closes an order in its slot, or changes no slot.
LEMMA FinishMsgKeeps ==
  ASSUME IInv, NEW id \in OrderIds, FinishMsg(id)
  PROVE  /\ MapsOK' /\ SlotsKept
         /\ book' \in Seq(BookEntry) /\ OrderIds' = OrderIds
         /\ \A n \in OrderIds : book'[n].filled <= book'[n].total
         /\ panic' \in Checks \cup {"none"}
         /\ harmed' \subseteq Users /\ forgotten' \subseteq OrderIds
         /\ refused' \subseteq OrderIds
<1> DEFINE user == book[id].user
           p    == orderIdToPos[user][id]
           S    == orderStates[user]
           old  == S[p]
<1>1. user \in Users
  BY BookTyped DEF IInv
<1>2. MapsOK /\ EngineOK
  BY IInvParts
<1>3. MapsOK' /\ SlotsKept
  <2>1. CASE FinishCheck(id) /\ book[id].filled # 0
    <3>1. id \in DOMAIN orderIdToPos[user]
      BY <2>1 DEF FinishCheck, HasOrder
    <3>2. /\ MapsTyped(S, orderIdToPos[user]) /\ Contiguous(S)
          /\ MapsAgree(S, orderIdToPos[user])
      BY <1>1, <1>2 DEF MapsOK, MapsInv
    <3>3. p \in DOMAIN S /\ old \in Order
      BY <3>1, <3>2 DEF MapsAgree, MapsTyped
    <3>4. orderStates' = [orderStates EXCEPT ![user][p].active = FALSE]
      BY <2>1 DEF FinishMsg
    <3>5. UNCHANGED <<orderIdToPos, nextOrderPos>>
      BY DEF FinishMsg
    <3> DEFINE closed == [old EXCEPT !.active = FALSE]
               T      == [S EXCEPT ![p] = closed]
    <3>6. closed \in Order /\ closed.id = old.id
      <4> HIDE DEF old
      <4> QED BY <3>3 DEF Order
    <3>7. /\ DOMAIN orderStates' = Users
          /\ \A u \in Users : orderStates'[u] = IF u = user THEN T ELSE orderStates[u]
      <4> HIDE DEF user, p
      <4> QED BY <1>1, <1>2, <3>4 DEF MapsOK
    <3>8. /\ DOMAIN T = DOMAIN S
          /\ \A q \in DOMAIN S : T[q] \in Order /\ T[q].id = S[q].id
      <4> HIDE DEF closed, S
      <4> QED BY <3>2, <3>3, <3>6 DEF MapsTyped
    <3>9. /\ MapsTyped(T, orderIdToPos[user]) /\ Contiguous(T)
          /\ MapsAgree(T, orderIdToPos[user])
      <4> HIDE DEF T, S
      <4> QED BY <3>2, <3>8 DEF MapsTyped, Contiguous, MapsAgree
    <3>10. MapsInv'
      <4> SUFFICES ASSUME NEW u \in Users
                   PROVE  /\ MapsTyped(orderStates'[u], orderIdToPos'[u])
                          /\ Contiguous(orderStates'[u])
                          /\ MapsAgree(orderStates'[u], orderIdToPos'[u])
        BY DEF MapsInv, MapsTyped, Contiguous, MapsAgree, Pos, Order
      <4> HIDE DEF T, user
      <4> QED BY <1>2, <3>5, <3>7, <3>9 DEF MapsOK, MapsInv
    <3>11. \A u \in Users : \A q \in DOMAIN orderStates[u] :
             orderStates[u][q].id \in Nat
      BY DEF IInv, TypeOK, Order
    <3>12. SlotsKept
      <4> HIDE DEF T, user
      <4> QED BY <3>7, <3>8, <3>11 DEF SlotsKept, IdsGrow, S
    <3> QED BY <1>2, <3>5, <3>7, <3>10, <3>12 DEF MapsOK
  <2>2. CASE ~(FinishCheck(id) /\ book[id].filled # 0)
    <3>1. UNCHANGED rollupVars
      BY <2>2 DEF FinishMsg, rollupVars
    <3> QED BY <3>1, MapsUnchanged
  <2> QED BY <2>1, <2>2
<1>4. panic' \in Checks \cup {"none"}
  BY <1>2 DEF FinishMsg, EngineOK, Checks
<1>5. DOMAIN book' = DOMAIN book
  BY DEF FinishMsg
<1>6. ASSUME NEW n \in OrderIds
      PROVE  book'[n] \in BookEntry /\ book'[n].filled <= book'[n].total
  <2>1. book[n] \in BookEntry /\ book[n].filled <= book[n].total
    BY BookTyped DEF IInv, TypeOK
  <2>2. book'[n] = IF n = id THEN [book[n] EXCEPT !.finished = TRUE] ELSE book[n]
    BY DEF FinishMsg, OrderIds
  <2> QED BY <2>1, <2>2 DEF BookEntry
<1>7. book' \in Seq(BookEntry)
  <2>1. DOMAIN book = 1 .. Len(book) /\ Len(book) \in Nat
    BY IdsPositive DEF OrderIds
  <2>2. book' \in [1 .. Len(book) -> BookEntry]
    <3>1. book' = [book EXCEPT ![id].finished = TRUE]
      BY DEF FinishMsg
    <3> QED BY <1>5, <1>6, <2>1, <3>1 DEF OrderIds
  <2> QED BY <2>1, <2>2, SeqDef
<1>8. /\ harmed' \subseteq Users /\ forgotten' \subseteq OrderIds
      /\ refused' \subseteq OrderIds
  BY <1>1, <1>2 DEF FinishMsg, EngineOK
<1> QED BY <1>3, <1>4, <1>5, <1>6, <1>7, <1>8 DEF OrderIds

\* Rebuilding the map of an account whose orders have distinct slots gives the
\* map of exactly those orders.
LEMMA RebuiltAgrees ==
  ASSUME NEW S, NEW M, MapsTyped(S, M), MapsAgree(S, M)
  PROVE  MapsTyped(S, Rebuilt(S)) /\ MapsAgree(S, Rebuilt(S))
<1>1. ASSUME NEW p \in DOMAIN S
      PROVE  Max({q \in DOMAIN S : S[q].id = S[p].id}) = p
  <2>1. {q \in DOMAIN S : S[q].id = S[p].id} = {p}
    BY DEF MapsAgree
  <2>2. p \in Int
    BY SlotsAssumption DEF MapsTyped, Pos
  <2>3. Max({p}) = p
    BY <2>2 DEF Max
  <2> QED BY <2>1, <2>3
<1>2. ASSUME NEW p \in DOMAIN S
      PROVE  S[p].id \in DOMAIN Rebuilt(S) /\ Rebuilt(S)[S[p].id] = p
  BY <1>1 DEF Rebuilt
<1>3. ASSUME NEW id \in DOMAIN Rebuilt(S)
      PROVE  \E p \in DOMAIN S : S[p].id = id
  BY DEF Rebuilt
<1>4. MapsAgree(S, Rebuilt(S))
  BY <1>2, <1>3 DEF MapsAgree
<1>5. MapsTyped(S, Rebuilt(S))
  BY <1>2, <1>3 DEF MapsTyped, Order
<1> QED BY <1>4, <1>5

LEMMA RestartKeeps ==
  ASSUME IInv, Restart
  PROVE  IInv' /\ SlotsKept
<1>1. MapsOK /\ EngineOK
  BY IInvParts
<1>2. MapsInv'
  <2> SUFFICES ASSUME NEW user \in Users
               PROVE  /\ MapsTyped(orderStates'[user], orderIdToPos'[user])
                      /\ Contiguous(orderStates'[user])
                      /\ MapsAgree(orderStates'[user], orderIdToPos'[user])
    BY DEF MapsInv, MapsTyped, Contiguous, MapsAgree, Pos, Order
  <2>1. /\ orderStates'[user] = orderStates[user]
        /\ orderIdToPos'[user] = Rebuilt(orderStates[user])
    BY DEF Restart
  <2> QED BY <1>1, <2>1, RebuiltAgrees DEF MapsOK, MapsInv
<1>3. MapsOK'
  BY <1>1, <1>2 DEF Restart, MapsOK
<1>4. EngineOK'
  BY <1>1 DEF Restart, EngineOK, OrderIds, Idle, Checks, BookEntry
<1>5. SlotsKept
  <2>1. \A user \in Users : \A p \in DOMAIN orderStates[user] :
          orderStates[user][p].id \in Nat
    BY DEF IInv, TypeOK, Order
  <2> QED BY <2>1 DEF Restart, SlotsKept, IdsGrow
<1> QED BY <1>3, <1>4, <1>5, IInvParts

\* The steps of the engine that only change its batch.
LEMMA EngineKeeps ==
  ASSUME IInv,
         \/ \E maker \in OrderIds : TradePanics(maker)
         \/ StopMatching \/ Finish
         \/ \E id \in OrderIds : UserCancel(id)
         \/ \E user \in Users, total \in Totals : PutOrder(user, total)
  PROVE  IInv' /\ SlotsKept
<1>1. MapsOK /\ EngineOK
  BY IInvParts
<1>2. 0 \notin OrderIds /\ OrderIds = 1 .. Len(book) /\ Len(book) \in Nat
  BY IdsPositive
<1>3. CASE \E maker \in OrderIds : TradePanics(maker)
  <2>1. PICK maker \in OrderIds : TradePanics(maker)
    BY <1>3
  <2>2. MapsOK' /\ SlotsKept
    BY <2>1, MapsUnchanged DEF TradePanics
  <2>3. panic' \in Checks \cup {"none"}
    <3>1. TradeCheck(maker, batch.taker) \in Checks \cup {"none"}
      BY DEF TradeCheck, Checks
    <3> QED BY <2>1, <3>1 DEF TradePanics
  <2>4. UNCHANGED <<book, batch, harmed, forgotten>> /\ refused' \subseteq OrderIds
    BY <1>1, <2>1 DEF TradePanics, EngineOK, Idle
  <2>5. EngineOK'
    BY <1>1, <2>3, <2>4 DEF EngineOK, OrderIds, Idle, Checks, BookEntry
  <2> QED BY <2>2, <2>5, IInvParts
<1>4. CASE StopMatching
  <2> DEFINE finish == IF Remaining(batch.taker) = 0
                       THEN Append(batch.finish, batch.taker) ELSE batch.finish
  <2>1. MapsOK' /\ SlotsKept
    BY <1>4, MapsUnchanged DEF StopMatching
  <2>2. batch.taker \in OrderIds /\ batch.finish \in Seq(OrderIds)
    BY <1>1, <1>4 DEF EngineOK, StopMatching, Idle
  <2>3. finish \in Seq(OrderIds)
    BY <2>2
  <2>4. batch' = IF finish = <<>> THEN NoBatch
                 ELSE [batch EXCEPT !.matching = FALSE, !.finish = finish]
    BY <1>4 DEF StopMatching
  <2>5. UNCHANGED <<book, panic, harmed, forgotten, refused>>
    BY <1>4 DEF StopMatching, history
  <2>6. /\ batch' \in [taker : OrderIds \cup {0}, matching : BOOLEAN,
                       makers : SUBSET OrderIds, finish : Seq(OrderIds)]
        /\ batch'.matching = FALSE
        /\ batch'.taker # 0 => batch'.finish # <<>>
    <3> HIDE DEF finish
    <3> QED BY <1>1, <2>3, <2>4 DEF EngineOK, NoBatch
  <2>7. EngineOK'
    BY <1>1, <2>5, <2>6 DEF EngineOK, OrderIds, Idle, Checks, BookEntry
  <2> QED BY <2>1, <2>7, IInvParts
<1>5. CASE Finish
  <2>1. batch.finish \in Seq(OrderIds) /\ batch.finish # <<>>
    BY <1>1, <1>5 DEF EngineOK, Finish
  <2>2. /\ Head(batch.finish) \in OrderIds /\ FinishMsg(Head(batch.finish))
        /\ Tail(batch.finish) \in Seq(OrderIds)
    BY <1>5, <2>1 DEF Finish
  <2>3. batch' = IF Tail(batch.finish) = <<>> THEN NoBatch
                 ELSE [batch EXCEPT !.finish = Tail(batch.finish)]
    BY <1>5 DEF Finish
  <2>4. ~batch.matching
    BY <1>5 DEF Finish
  <2>5. /\ batch' \in [taker : OrderIds \cup {0}, matching : BOOLEAN,
                       makers : SUBSET OrderIds, finish : Seq(OrderIds)]
        /\ ~batch'.matching
        /\ batch'.taker # 0 => batch'.finish # <<>>
    <3> DEFINE rest == Tail(batch.finish)
    <3> HIDE DEF rest
    <3> QED BY <1>1, <2>2, <2>3, <2>4 DEF EngineOK, NoBatch, rest
  <2>6. /\ MapsOK' /\ SlotsKept
        /\ book' \in Seq(BookEntry) /\ OrderIds' = OrderIds
        /\ \A n \in OrderIds : book'[n].filled <= book'[n].total
        /\ panic' \in Checks \cup {"none"}
        /\ harmed' \subseteq Users /\ forgotten' \subseteq OrderIds
        /\ refused' \subseteq OrderIds
    BY <2>2, FinishMsgKeeps
  <2>7. EngineOK'
    BY <2>5, <2>6 DEF EngineOK, Idle, Checks, BookEntry
  <2> QED BY <2>6, <2>7, IInvParts
<1>6. CASE \E id \in OrderIds : UserCancel(id)
  <2>1. PICK id \in OrderIds : UserCancel(id)
    BY <1>6
  <2>2. FinishMsg(id) /\ UNCHANGED batch
    BY <2>1 DEF UserCancel
  <2>3. /\ MapsOK' /\ SlotsKept
        /\ book' \in Seq(BookEntry) /\ OrderIds' = OrderIds
        /\ \A n \in OrderIds : book'[n].filled <= book'[n].total
        /\ panic' \in Checks \cup {"none"}
        /\ harmed' \subseteq Users /\ forgotten' \subseteq OrderIds
        /\ refused' \subseteq OrderIds
    BY <2>2, FinishMsgKeeps
  <2>4. EngineOK'
    BY <1>1, <2>2, <2>3 DEF EngineOK, Idle, Checks, BookEntry
  <2> QED BY <2>3, <2>4, IInvParts
<1>7. CASE \E user \in Users, total \in Totals : PutOrder(user, total)
  <2>1. PICK user \in Users, total \in Totals : PutOrder(user, total)
    BY <1>7
  <2> DEFINE entry == [user |-> user, total |-> total, filled |-> 0, finished |-> FALSE]
  <2>2. MapsOK' /\ SlotsKept
    BY <2>1, MapsUnchanged DEF PutOrder
  <2>3. entry \in BookEntry /\ entry.filled <= entry.total
    BY SlotsAssumption DEF BookEntry
  <2>4. book \in Seq(BookEntry) /\ book' = Append(book, entry)
    BY <1>1, <2>1 DEF EngineOK, PutOrder
  <2>5. /\ book' \in Seq(BookEntry) /\ DOMAIN book' = 1 .. Len(book) + 1
        /\ \A id \in DOMAIN book' : book'[id].filled <= book'[id].total
    <3> HIDE DEF entry
    <3>1. \A id \in DOMAIN book : book[id].filled <= book[id].total
      BY <1>1 DEF EngineOK, OrderIds
    <3>2. book' \in Seq(BookEntry) /\ Len(book') = Len(book) + 1
      BY <2>3, <2>4
    <3>3. \A id \in 1 .. Len(book) + 1 :
            book'[id] = IF id = Len(book) + 1 THEN entry ELSE book[id]
      BY <2>4
    <3> QED BY <1>2, <2>3, <3>1, <3>2, <3>3 DEF OrderIds
  <2>6. batch' = [NoBatch EXCEPT !.taker = Len(book) + 1, !.matching = TRUE]
        /\ UNCHANGED <<panic, harmed, forgotten, refused>>
    BY <2>1 DEF PutOrder, history
  <2>7. /\ batch' \in [taker : DOMAIN book' \cup {0}, matching : BOOLEAN,
                       makers : SUBSET (DOMAIN book'), finish : Seq(DOMAIN book')]
        /\ batch'.taker # 0 /\ batch'.matching
    <3>1. batch' = [taker |-> Len(book) + 1, matching |-> TRUE,
                    makers |-> {}, finish |-> <<>>]
      BY <2>6 DEF NoBatch
    <3>2. Len(book) + 1 \in DOMAIN book' /\ Len(book) + 1 # 0
      BY <1>2, <2>5
    <3>3. <<>> \in Seq(DOMAIN book')
      OBVIOUS
    <3> QED BY <3>1, <3>2, <3>3
  <2>8. EngineOK'
    <3>1. OrderIds \subseteq DOMAIN book'
      BY <1>2, <2>5
    <3> QED BY <1>1, <2>5, <2>6, <2>7, <3>1 DEF EngineOK, OrderIds, Idle, Checks, BookEntry
  <2> QED BY <2>2, <2>8, IInvParts
<1> QED BY <1>3, <1>4, <1>5, <1>6, <1>7

-----------------------------------------------------------------------------
(* The theorems. *)

LEMMA InitIInv == Init => IInv
<1> SUFFICES ASSUME Init PROVE MapsOK /\ EngineOK
  BY IInvParts
<1>1. Cardinality({}) = 0
  BY FS_EmptySet
<1>2. MapsInv
  BY <1>1 DEF Init, MapsInv, MapsTyped, Contiguous, MapsAgree
<1>3. MapsOK
  BY <1>2, SlotsAssumption DEF Init, MapsOK
<1>4. EngineOK
  BY DEF Init, EngineOK, NoBatch, Idle, OrderIds
<1> QED BY <1>3, <1>4

LEMMA NextKeepsIInv == IInv /\ [Next]_vars => IInv' /\ SlotsKept
<1> SUFFICES ASSUME IInv, [Next]_vars PROVE IInv' /\ SlotsKept
  OBVIOUS
<1>1. CASE \E maker \in OrderIds : Trade(maker)
  BY <1>1, TradeKeeps DEF SlotsKept
<1>2. CASE Restart
  BY <1>2, RestartKeeps
<1>3. CASE \/ \E maker \in OrderIds : TradePanics(maker)
           \/ StopMatching \/ Finish
           \/ \E id \in OrderIds : UserCancel(id)
           \/ \E user \in Users, total \in Totals : PutOrder(user, total)
  BY <1>3, EngineKeeps
<1>4. CASE UNCHANGED vars
  <2>1. MapsOK' /\ SlotsKept
    BY <1>4, MapsUnchanged DEF vars, rollupVars
  <2>2. EngineOK'
    BY <1>4, IInvParts DEF vars, history, EngineOK, OrderIds, Idle, Checks, BookEntry
  <2> QED BY <2>1, <2>2, IInvParts
<1> QED BY <1>1, <1>2, <1>3, <1>4 DEF Next

\* The invariant holds in every state of every behaviour.
LEMMA IInvAlways == Spec => []IInv
<1> QED BY InitIInv, NextKeepsIInv, PTL DEF Spec

\* The maps of GlobalState and the engine's book stay well typed.
THEOREM TypeCorrect == Spec => []TypeOK
<1>1. IInv => TypeOK
  BY DEF IInv
<1> QED BY <1>1, IInvAlways, PTL

\* The slots in use stay a prefix of every account's order tree, so that
\* get_next_order_pos_for_user hands out a free slot.
THEOREM SlotsStayContiguous == Spec => []SlotsContiguous
<1>1. IInv => SlotsContiguous
  BY DEF IInv
<1> QED BY <1>1, IInvAlways, PTL

\* Every order in a slot is found by its id, across evictions and restarts.
THEOREM SlotMapStaysConsistent == Spec => []SlotMapConsistent
<1>1. IInv => SlotMapConsistent
  BY DEF IInv
<1> QED BY <1>1, IInvAlways, PTL

\* No step puts an older order in a slot.
THEOREM SlotIdsNeverDecrease == Spec => SlotIdsIncrease
<1> DEFINE A == \A user \in Users : \A p \in DOMAIN orderStates[user] :
                  /\ p \in DOMAIN orderStates'[user]
                  /\ orderStates'[user][p].id >= orderStates[user][p].id
<1>1. IInv /\ [Next]_vars => A
  BY NextKeepsIInv DEF SlotsKept, IdsGrow
<1>2. Spec => [][A]_vars
  <2> HIDE DEF A
  <2> QED BY <1>1, IInvAlways, PTL DEF Spec
<1> QED BY <1>2 DEF SlotIdsIncrease

-----------------------------------------------------------------------------
(* What the engine's messages rely on.                                      *)

\* every order the account's map knows has traded
Traded(user, idToPos, orders) ==
  \A id \in DOMAIN idToPos :
    id \in DOMAIN orders /\ orders[id].user = user /\ orders[id].filled > 0

\* the map knows the account's traded, unfinished orders, but for those a restart forgot
Known(user, idToPos, orders, lost) ==
  \A id \in DOMAIN orders :
    orders[id].user = user /\ ~orders[id].finished /\ orders[id].filled > 0 =>
      id \in DOMAIN idToPos \cup lost

\* what the node has of an order that the engine has not finished
InSlot(id, entry) ==
  [id |-> id, total |-> entry.total, filled |-> entry.filled, active |-> TRUE]

\* the account's open orders that have traded are in their slots
Held(user, states, idToPos, orders) ==
  \A id \in DOMAIN orders :
    /\ orders[id].user = user /\ ~orders[id].finished
    /\ orders[id].filled > 0 /\ orders[id].filled < orders[id].total
    => id \in DOMAIN idToPos /\ states[idToPos[id]] = InSlot(id, orders[id])

\* its filled orders whose FINISH is still to come, when the map knows them, are in
\* their slots, or a newer maker of the batch is
Placed(user, states, idToPos, orders, makers) ==
  \A id \in DOMAIN orders :
    /\ orders[id].user = user /\ ~orders[id].finished
    /\ orders[id].filled >= orders[id].total /\ id \in DOMAIN idToPos
    => LET slotId == states[idToPos[id]].id
       IN  slotId = id \/ (slotId \in makers /\ slotId > id)

AccountOK(user, states, idToPos, orders, makers, lost, hurt) ==
  /\ Traded(user, idToPos, orders) /\ Known(user, idToPos, orders, lost)
  /\ user \notin hurt => /\ Held(user, states, idToPos, orders)
                        /\ Placed(user, states, idToPos, orders, makers)

AccountsInv ==
  \A user \in Users :
    AccountOK(user, orderStates[user], orderIdToPos[user], book, batch.makers,
              forgotten, harmed)

Filled(entry) == ~entry.finished /\ entry.filled = entry.total

\* The filled orders are those of the batch in progress: its makers, which are of other
\* accounts than its taker, and the taker.
BatchInv ==
  /\ Idle => batch.finish = <<>>
  /\ \A id \in OrderIds : Filled(book[id]) =>
       \/ \E i \in DOMAIN batch.finish : batch.finish[i] = id
       \/ batch.matching /\ id = batch.taker
  /\ \A i \in DOMAIN batch.finish : Filled(book[batch.finish[i]])
  /\ \A i, j \in DOMAIN batch.finish : batch.finish[i] = batch.finish[j] => i = j
  /\ batch.matching =>
       /\ ~book[batch.taker].finished
       /\ \A i \in DOMAIN batch.finish : batch.finish[i] \in batch.makers
       /\ \A maker \in batch.makers : book[maker].user # book[batch.taker].user

OInv == AccountsInv /\ BatchInv /\ ChecksPass

\* A trade adds to what is filled, and changes nothing else of an order.
LEMMA TradeWithFields ==
  ASSUME NEW i, NEW t, NEW f, NEW a, NEW sum
  PROVE  [[id |-> i, total |-> t, filled |-> f, active |-> a] EXCEPT !.filled = sum]
           = [id |-> i, total |-> t, filled |-> sum, active |-> a]
OBVIOUS

LEMMA TradeWithSlot ==
  ASSUME NEW i, NEW entry, NEW order, order = InSlot(i, entry), NEW amount
  PROVE  TradeWith(order, amount) =
           [id |-> i, total |-> entry.total,
            filled |-> entry.filled + amount, active |-> TRUE]
<1> PICK t, f, a, sum :
      t = entry.total /\ f = entry.filled /\ a = TRUE /\ sum = entry.filled + amount
  OBVIOUS
<1>1. order = [id |-> i, total |-> t, filled |-> f, active |-> a]
  BY DEF InSlot
<1>2. order.filled + amount = sum
  BY <1>1
<1>3. TradeWith(order, amount) = [order EXCEPT !.filled = sum]
  BY <1>2 DEF TradeWith
<1>4. [order EXCEPT !.filled = sum] = [id |-> i, total |-> t, filled |-> sum, active |-> a]
  BY ONLY <1>1, TradeWithFields
<1> QED BY <1>3, <1>4

\* One side of a trade keeps the traded orders of its account: the order whose slot it
\* takes over is not open, and older.
LEMMA SideKeepsOrders ==
  ASSUME IInv, AccountsInv, NEW id \in OrderIds, NEW amount \in Nat \ {0},
         SideChecked(id), ~book[id].finished, book[id].filled < book[id].total,
         NEW makers, batch.makers \subseteq makers,
         \/ id \in makers
         \/ \A x \in OrderIds : book[x].user = book[id].user => ~Filled(book[x]),
         NEW orders, DOMAIN orders = OrderIds,
         orders[id] = [book[id] EXCEPT !.filled = @ + amount],
         \A x \in OrderIds : orders[x].user = book[x].user,
         \A x \in OrderIds : x # id /\ book[x].user = book[id].user => orders[x] = book[x]
  PROVE  AccountOK(book[id].user, StatesAfter(id, amount), IdToPosAfter(id), orders,
                   makers, forgotten, harmed)
<1>1. PICK user : user = book[id].user  OBVIOUS
<1>2. /\ user \in Users /\ id \in Nat /\ book[id] \in BookEntry
      /\ OrderIds = DOMAIN book /\ OrderIds \subseteq Nat
      /\ \A x \in OrderIds : book[x].filled \in Nat /\ book[x].total \in Nat
                             /\ book[x].filled <= book[x].total
  <2>1. book \in Seq(BookEntry) /\ \A x \in OrderIds : book[x].filled <= book[x].total
    BY DEF IInv, TypeOK
  <2>2. OrderIds \subseteq Nat /\ \A x \in OrderIds : book[x] \in BookEntry
    BY <2>1 DEF OrderIds
  <2> QED BY <1>1, <2>1, <2>2 DEF BookEntry, OrderIds
<1>3. PICK S : S = orderStates[user]  OBVIOUS
<1>4. PICK M : M = orderIdToPos[user]  OBVIOUS
<1>5. /\ MapsTyped(S, M) /\ MapsAgree(S, M)
      /\ AccountOK(user, S, M, book, batch.makers, forgotten, harmed)
  <2>1. MapsInv  BY MapsInvEquiv
  <2> QED BY <1>2, <1>3, <1>4, <2>1 DEF MapsInv, AccountsInv
<1>6. PICK order : order = NamedOrder(id)  OBVIOUS
<1>7. PICK p : p = SlotFor(user, order.id)  OBVIOUS
<1>8. /\ StatesAfter(id, amount) = Put(S, p, TradeWith(order, amount))
      /\ IdToPosAfter(id) = Put(M, order.id, p)
  BY <1>1, <1>3, <1>4, <1>6, <1>7 DEF StatesAfter, IdToPosAfter
<1>9. orders[id].filled = book[id].filled + amount /\ orders[id].total = book[id].total
      /\ orders[id].user = user /\ orders[id].finished = book[id].finished
  BY <1>1, <1>2 DEF BookEntry
<1>10. \/ /\ IsNew(id) /\ order = InSlot(id, book[id]) /\ order.id = id
          /\ id \notin DOMAIN M
          /\ p \notin DOMAIN S \/ (p \in DOMAIN S /\ Closed(S[p]) /\ S[p].id < id)
       \/ /\ ~IsNew(id) /\ id \in DOMAIN M /\ order = S[M[id]]
          /\ order.id \in DOMAIN M /\ p = M[order.id] /\ p = M[id]
  <2>1. CASE IsNew(id)
    <3>1. order = NewOrder(id, book[id].total) /\ ~HasOrder(user, id)
      BY <1>1, <1>6, <2>1 DEF SideChecked, NamedOrder
    <3>2. order = InSlot(id, book[id]) /\ order.id = id
      BY <2>1, <3>1 DEF NewOrder, InSlot, IsNew
    <3>3. ~NoOrderPos(user, id)
      BY <1>1, <1>6, <3>1, <3>2 DEF SideChecked
    <3>4. p = NextOrderPos(user, id)  BY <1>7, <3>1, <3>2 DEF SlotFor
    <3>5. p = NumOrders(user) \/ (p \in DOMAIN S /\ Closed(S[p]) /\ S[p].id < id)
      BY <1>2, <1>3, <3>3, <3>4, NewSlot
    <3>6. NumOrders(user) \notin DOMAIN S
      <4>1. DOMAIN S = 0 .. NumOrders(user) - 1
        BY <1>2, <1>3 DEF IInv, SlotsContiguous
      <4>2. NumOrders(user) \in Nat
        <5>1. DOMAIN S \subseteq Pos  BY <1>5 DEF MapsTyped
        <5> QED BY <1>3, <5>1, SlotsFinite DEF NumOrders
      <4>3. NumOrders(user) \notin 0 .. NumOrders(user) - 1  BY <4>2
      <4> QED BY <4>1, <4>3
    <3>7. id \notin DOMAIN M  BY <1>4, <3>1 DEF HasOrder
    <3> QED BY <2>1, <3>2, <3>5, <3>6, <3>7
  <2>2. CASE ~IsNew(id)
    <3>1. id \in DOMAIN M /\ order = S[M[id]]
      BY <1>1, <1>3, <1>4, <1>6, <2>2 DEF SideChecked, NamedOrder, OrderById, HasOrder
    <3>2. M[id] \in DOMAIN S
      BY <1>5, <3>1 DEF MapsAgree
    <3>3. order.id \in DOMAIN M /\ M[order.id] = M[id]
      BY <1>5, <3>1, <3>2 DEF MapsAgree
    <3>4. p = M[order.id]
      BY <1>4, <1>7, <3>3 DEF SlotFor, HasOrder
    <3> QED BY <2>2, <3>1, <3>3, <3>4
  <2> QED BY <2>1, <2>2
<1>11. /\ DOMAIN Put(M, order.id, p) = DOMAIN M \cup {id}
       /\ DOMAIN Put(M, order.id, p) = DOMAIN M \cup {order.id}
  BY <1>10 DEF Put
<1>12. Traded(user, Put(M, order.id, p), orders)
  <2> SUFFICES ASSUME NEW x \in DOMAIN M \cup {id}
               PROVE  x \in DOMAIN orders /\ orders[x].user = user /\ orders[x].filled > 0
    BY <1>11 DEF Traded
  <2>1. CASE x = id
    <3>1. book[id].filled + amount > 0  BY <1>2
    <3> QED BY <1>2, <1>9, <2>1, <3>1
  <2>2. CASE x # id
    <3>1. x \in OrderIds /\ book[x].user = user /\ book[x].filled > 0
      BY <1>2, <1>5, <2>2 DEF AccountOK, Traded
    <3> QED BY <1>1, <2>2, <3>1
  <2> QED BY <2>1, <2>2
<1>13. Known(user, Put(M, order.id, p), orders, forgotten)
  <2> SUFFICES ASSUME NEW x \in OrderIds, orders[x].user = user, ~orders[x].finished,
                      orders[x].filled > 0
               PROVE  x \in DOMAIN M \cup {id} \cup forgotten
    BY <1>11 DEF Known
  <2>1. CASE x # id
    <3>1. book[x].user = user /\ orders[x] = book[x]
      BY <1>1, <2>1
    <3> QED BY <1>2, <1>5, <3>1 DEF AccountOK, Known
  <2> QED BY <2>1
<1>14. ASSUME user \notin harmed
       PROVE  /\ Held(user, Put(S, p, TradeWith(order, amount)), Put(M, order.id, p), orders)
              /\ Placed(user, Put(S, p, TradeWith(order, amount)), Put(M, order.id, p),
                        orders, makers)
  <2>1. Traded(user, M, book) /\ Held(user, S, M, book)
        /\ Placed(user, S, M, book, batch.makers)
    BY <1>5, <1>14 DEF AccountOK
  <2>2. /\ order = InSlot(id, book[id]) /\ order.id = id
        /\ \/ id \in DOMAIN M /\ p = M[id] /\ p \in DOMAIN S /\ S[p].id = id
           \/ id \notin DOMAIN M /\ p \notin DOMAIN S
           \/ id \notin DOMAIN M /\ p \in DOMAIN S /\ Closed(S[p]) /\ S[p].id < id
    <3>1. CASE IsNew(id)
      BY <1>10, <3>1
    <3>2. CASE ~IsNew(id)
      <4>1. book[id].filled > 0
        BY <1>2, <3>2 DEF IsNew
      <4>2. S[M[id]] = InSlot(id, book[id])
        BY <1>1, <1>2, <2>1, <4>1 DEF Held
      <4>3. M[id] \in DOMAIN S
        BY <1>5, <1>10, <3>2 DEF MapsAgree
      <4>4. InSlot(id, book[id]).id = id
        BY DEF InSlot
      <4> QED BY <1>10, <3>2, <4>2, <4>3, <4>4
    <3> QED BY <3>1, <3>2
  <2>3. TradeWith(order, amount) = InSlot(id, orders[id])
    <3>1. PICK entry : entry = book[id]
      OBVIOUS
    <3>2. order = InSlot(id, entry)
      BY <2>2, <3>1
    <3>3. TradeWith(order, amount) =
            [id |-> id, total |-> entry.total,
             filled |-> entry.filled + amount, active |-> TRUE]
      BY ONLY <3>2, TradeWithSlot
    <3> QED BY <1>9, <3>1, <3>3 DEF InSlot
  <2>4. PICK states, idToPos :
          states = Put(S, p, TradeWith(order, amount)) /\ idToPos = Put(M, order.id, p)
    OBVIOUS
  <2>5. /\ DOMAIN idToPos = DOMAIN M \cup {id} /\ idToPos[id] = p
        /\ \A x \in DOMAIN M : x # id => idToPos[x] = M[x]
        /\ states[p] = InSlot(id, orders[id]) /\ states[p].id = id
        /\ \A q \in DOMAIN S : q # p => states[q] = S[q]
    BY <2>2, <2>3, <2>4 DEF Put, InSlot
  <2>6. ASSUME NEW x \in OrderIds, orders[x].user = user, x # id
        PROVE  book[x].user = user /\ orders[x] = book[x]
    BY <1>1, <2>6
  <2>7. Held(user, states, idToPos, orders)
    <3> SUFFICES ASSUME NEW x \in OrderIds, orders[x].user = user, ~orders[x].finished,
                        orders[x].filled > 0, orders[x].filled < orders[x].total
                 PROVE  x \in DOMAIN idToPos /\ states[idToPos[x]] = InSlot(x, orders[x])
      BY DEF Held
    <3>1. CASE x = id  BY <2>5, <3>1
    <3>2. CASE x # id
      <4>1. book[x].user = user /\ orders[x] = book[x]
        BY <2>6, <3>2
      <4>2. x \in DOMAIN M /\ S[M[x]] = InSlot(x, book[x])
        BY <1>2, <2>1, <4>1 DEF Held
      <4>3. M[x] \in DOMAIN S /\ S[M[x]].id = x /\ ~Closed(S[M[x]])
        <5>1. M[x] \in DOMAIN S
          BY <1>5, <4>2 DEF MapsAgree
        <5>2. ~(book[x].filled >= book[x].total)
          BY <1>2, <4>1
        <5> QED BY <4>2, <5>1, <5>2 DEF InSlot, Closed
      <4>4. M[x] # p
        BY <2>2, <3>2, <4>3
      <4> QED BY <2>5, <3>2, <4>1, <4>2, <4>3, <4>4
    <3> QED BY <3>1, <3>2
  <2>8. Placed(user, states, idToPos, orders, makers)
    <3> SUFFICES ASSUME NEW x \in OrderIds, orders[x].user = user, ~orders[x].finished,
                        orders[x].filled >= orders[x].total, x \in DOMAIN idToPos
                 PROVE  LET slotId == states[idToPos[x]].id
                        IN  slotId = x \/ (slotId \in makers /\ slotId > x)
      BY DEF Placed
    <3>1. CASE x = id  BY <2>5, <3>1
    <3>2. CASE x # id
      <4>1. book[x].user = user /\ orders[x] = book[x] /\ x \in DOMAIN M
        BY <2>5, <2>6, <3>2
      <4>2. PICK y : y = S[M[x]].id
        OBVIOUS
      <4>3. (y = x \/ (y \in batch.makers /\ y > x)) /\ M[x] \in DOMAIN S
        BY <1>2, <1>5, <2>1, <4>1, <4>2 DEF Placed, MapsAgree
      <4>4. CASE M[x] # p
        <5>1. states[idToPos[x]].id = y
          BY <2>5, <3>2, <4>1, <4>2, <4>3, <4>4
        <5> QED BY <4>3, <5>1
      <4>5. CASE M[x] = p
        <5>1. states[idToPos[x]].id = id
          BY <2>5, <3>2, <4>1, <4>5
        <5>2. Filled(book[x])
          BY <1>2, <4>1 DEF Filled
        <5>3. id \in makers
          BY <1>1, <4>1, <5>2
        <5>4. x \in Nat /\ y \in Nat
          BY <1>2, <1>5, <4>2, <4>3 DEF MapsTyped, Order
        <5>5. y = id \/ y < id
          BY <2>2, <4>2, <4>3, <4>5
        <5>6. id > x
          BY <1>2, <3>2, <4>3, <5>4, <5>5
        <5> QED BY <5>1, <5>3, <5>6
      <4> QED BY <4>4, <4>5
    <3> QED BY <3>1, <3>2
  <2> QED BY <2>4, <2>7, <2>8
<1> QED BY <1>1, <1>8, <1>12, <1>13, <1>14 DEF AccountOK

-----------------------------------------------------------------------------
(* A trade keeps OInv. *)

\* What a trade of `amount' finds and does, field by field.
TradeSides(maker, taker, amount) ==
  /\ taker \in OrderIds /\ maker # taker
  /\ book[maker].user # book[taker].user
  /\ amount \in Nat \ {0}
  /\ amount <= Remaining(maker) /\ amount <= Remaining(taker)
  /\ SideChecked(maker) /\ SideChecked(taker)
  /\ ~book[maker].finished

TradeMaps(maker, taker, amount) ==
  \A user \in Users :
    /\ orderStates'[user] = IF user = book[taker].user THEN StatesAfter(taker, amount)
                            ELSE IF user = book[maker].user
                            THEN StatesAfter(maker, amount) ELSE orderStates[user]
    /\ orderIdToPos'[user] = IF user = book[taker].user THEN IdToPosAfter(taker)
                             ELSE IF user = book[maker].user
                             THEN IdToPosAfter(maker) ELSE orderIdToPos[user]

TradeBook(maker, taker, amount) ==
  /\ DOMAIN book' = OrderIds
  /\ \A id \in OrderIds :
       /\ book'[id] = IF id \in {maker, taker}
                      THEN [book[id] EXCEPT !.filled = @ + amount] ELSE book[id]
       /\ book'[id].user = book[id].user /\ book'[id].total = book[id].total
       /\ book'[id].finished = book[id].finished
       /\ book'[id].filled = IF id \in {maker, taker}
                             THEN book[id].filled + amount ELSE book[id].filled

TradeBatch(maker, taker, amount) ==
  /\ batch'.taker = taker /\ batch'.matching = TRUE
  /\ batch'.makers = batch.makers \cup {maker}
  /\ batch'.finish = IF amount = Remaining(maker) THEN Append(batch.finish, maker)
                     ELSE batch.finish
  /\ panic' = "none" /\ UNCHANGED <<harmed, forgotten>>

LEMMA TradeEffect ==
  ASSUME IInv, NEW maker \in OrderIds, Trade(maker)
  PROVE  LET taker == batch.taker
             amount == Min({Remaining(maker), Remaining(taker)})
         IN  /\ TradeSides(maker, taker, amount)
             /\ TradeMaps(maker, taker, amount)
             /\ TradeBook(maker, taker, amount)
             /\ TradeBatch(maker, taker, amount)
<1> DEFINE taker == batch.taker
<1>0. PICK amount : amount = Min({Remaining(maker), Remaining(taker)})
  OBVIOUS
<1>1. /\ taker \in OrderIds /\ maker # taker
      /\ book[maker].user # book[taker].user
      /\ ~book[maker].finished
      /\ Remaining(maker) > 0 /\ Remaining(taker) > 0
  BY DEF Trade, IInv, TypeOK, Idle, Matches, Open
<1>2. /\ book[maker].user \in Users /\ book[taker].user \in Users
      /\ Remaining(maker) \in Nat /\ Remaining(taker) \in Nat
  BY <1>1, BookTyped DEF IInv
<1>3. /\ amount \in Nat \ {0}
      /\ amount <= Remaining(maker) /\ amount <= Remaining(taker)
      /\ amount = Remaining(maker) \/ amount = Remaining(taker)
  <2> DEFINE S == {Remaining(maker), Remaining(taker)}
  <2>1. S \in SUBSET Nat /\ S # {}
    BY <1>2
  <2>2. amount \in S /\ \A n \in S : amount <= n
    BY <1>0, <2>1, MinInSet
  <2> QED BY <1>1, <1>2, <2>2
<1>4. SideChecked(maker) /\ SideChecked(taker)
  BY TradeCheckNone DEF Trade
<1>5. /\ DOMAIN orderStates = Users /\ DOMAIN orderIdToPos = Users
      /\ batch \in [taker : OrderIds \cup {0}, matching : BOOLEAN,
                    makers : SUBSET OrderIds, finish : Seq(OrderIds)]
      /\ batch.matching = TRUE
  BY DEF IInv, TypeOK, Trade, Matches
<1>6. \A user \in Users :
        /\ orderStates'[user] = IF user = book[taker].user THEN StatesAfter(taker, amount)
                                ELSE IF user = book[maker].user
                                THEN StatesAfter(maker, amount) ELSE orderStates[user]
        /\ orderIdToPos'[user] = IF user = book[taker].user THEN IdToPosAfter(taker)
                                 ELSE IF user = book[maker].user
                                 THEN IdToPosAfter(maker) ELSE orderIdToPos[user]
  BY <1>0, <1>1, <1>2, <1>5 DEF Trade
<1>7. /\ book' = [book EXCEPT ![maker].filled = @ + amount,
                              ![taker].filled = @ + amount]
      /\ batch' = [batch EXCEPT
                     !.makers = @ \cup {maker},
                     !.finish = IF amount = Remaining(maker) THEN Append(@, maker) ELSE @]
      /\ panic' = "none" /\ UNCHANGED <<harmed, forgotten>>
  BY <1>0 DEF Trade, history
<1>8. /\ DOMAIN book' = OrderIds
      /\ \A id \in OrderIds :
           book'[id] = IF id \in {maker, taker}
                       THEN [book[id] EXCEPT !.filled = @ + amount] ELSE book[id]
  <2> HIDE DEF taker
  <2> QED BY <1>1, <1>7 DEF OrderIds
<1>9. ASSUME NEW id \in OrderIds
      PROVE  /\ book'[id].user = book[id].user /\ book'[id].total = book[id].total
             /\ book'[id].finished = book[id].finished
             /\ book'[id].filled = IF id \in {maker, taker}
                                   THEN book[id].filled + amount ELSE book[id].filled
  <2>1. book[id] \in BookEntry
    BY BookTyped DEF IInv
  <2>2. CASE id \in {maker, taker}
    <3> HIDE DEF taker
    <3> QED BY <1>8, <2>1, <2>2 DEF BookEntry
  <2>3. CASE id \notin {maker, taker}
    BY <1>8, <2>3
  <2> QED BY <2>2, <2>3
<1>10. /\ batch'.taker = taker /\ batch'.matching = TRUE
       /\ batch'.makers = batch.makers \cup {maker}
       /\ batch'.finish = IF amount = Remaining(maker) THEN Append(batch.finish, maker)
                          ELSE batch.finish
  BY <1>5, <1>7
<1>11. TradeSides(maker, taker, amount)
  BY <1>1, <1>3, <1>4 DEF TradeSides
<1>12. TradeMaps(maker, taker, amount)
  BY <1>6 DEF TradeMaps
<1>13. TradeBook(maker, taker, amount)
  BY <1>8, <1>9 DEF TradeBook
<1>14. TradeBatch(maker, taker, amount)
  BY <1>7, <1>10 DEF TradeBatch
<1> QED BY <1>0, <1>11, <1>12, <1>13, <1>14

\* A trade keeps every account's traded orders in their slots, and appends to the filled
\* orders of the batch the maker it fills.
LEMMA TradeKeepsOInv ==
  ASSUME IInv, OInv, NEW maker \in OrderIds, Trade(maker)
  PROVE  OInv'
<1> DEFINE taker == batch.taker
<1>1. PICK amount : amount = Min({Remaining(maker), Remaining(taker)})
  OBVIOUS
<1>2. PICK mUser, tUser : mUser = book[maker].user /\ tUser = book[taker].user
  OBVIOUS
<1>3. /\ taker \in OrderIds /\ maker # taker /\ mUser # tUser
      /\ amount \in Nat \ {0}
      /\ amount <= Remaining(maker) /\ amount <= Remaining(taker)
      /\ SideChecked(maker) /\ SideChecked(taker)
      /\ ~book[maker].finished
  BY <1>1, <1>2, TradeEffect DEF TradeSides
<1>4. /\ DOMAIN book' = OrderIds
      /\ \A id \in OrderIds :
           /\ book'[id] = IF id \in {maker, taker}
                          THEN [book[id] EXCEPT !.filled = @ + amount] ELSE book[id]
           /\ book'[id].user = book[id].user /\ book'[id].total = book[id].total
           /\ book'[id].finished = book[id].finished
           /\ book'[id].filled = IF id \in {maker, taker}
                                 THEN book[id].filled + amount ELSE book[id].filled
  BY <1>1, TradeEffect DEF TradeBook
<1>5. /\ batch'.taker = taker /\ batch'.matching = TRUE
      /\ batch'.makers = batch.makers \cup {maker}
      /\ batch'.finish = IF amount = Remaining(maker) THEN Append(batch.finish, maker)
                         ELSE batch.finish
      /\ panic' = "none" /\ harmed' = harmed /\ forgotten' = forgotten
  BY <1>1, TradeEffect DEF TradeBatch
<1>6. \A user \in Users :
        /\ orderStates'[user] = IF user = tUser THEN StatesAfter(taker, amount)
                                ELSE IF user = mUser THEN StatesAfter(maker, amount)
                                ELSE orderStates[user]
        /\ orderIdToPos'[user] = IF user = tUser THEN IdToPosAfter(taker)
                                 ELSE IF user = mUser THEN IdToPosAfter(maker)
                                 ELSE orderIdToPos[user]
  BY <1>1, <1>2, TradeEffect DEF TradeMaps
<1>7. batch.matching /\ Remaining(maker) > 0 /\ Remaining(taker) > 0
  BY <1>2 DEF Trade, Matches, Open
<1>8. \A id \in OrderIds : /\ book[id].filled \in Nat /\ book[id].total \in Nat
                           /\ Remaining(id) = book[id].total - book[id].filled
  BY BookTyped DEF IInv, Remaining
<1>9. /\ \A id \in OrderIds : Filled(book[id]) =>
           \/ \E i \in DOMAIN batch.finish : batch.finish[i] = id
           \/ id = taker
      /\ \A i \in DOMAIN batch.finish : /\ Filled(book[batch.finish[i]])
                                        /\ batch.finish[i] \in batch.makers
      /\ \A i, j \in DOMAIN batch.finish : batch.finish[i] = batch.finish[j] => i = j
      /\ ~book[taker].finished
      /\ \A m \in batch.makers : book[m].user # tUser
  BY <1>2, <1>7 DEF OInv, BatchInv
<1>10. ~Filled(book[maker]) /\ ~Filled(book[taker])
  BY <1>3, <1>7, <1>8 DEF Filled
<1>11. /\ book[maker].filled < book[maker].total /\ book[taker].filled < book[taker].total
       /\ \A id \in OrderIds : book[id].user = tUser => ~Filled(book[id])
  BY <1>3, <1>7, <1>8, <1>9, <1>10
<1> HIDE DEF taker
<1>12. PICK orders, makers : orders = book' /\ makers = batch'.makers
  OBVIOUS
<1>13. /\ AccountsInv /\ batch.makers \subseteq makers /\ maker \in makers
       /\ DOMAIN orders = OrderIds
       /\ \A x \in OrderIds : orders[x].user = book[x].user
  BY <1>4, <1>5, <1>12 DEF OInv
<1>14. AccountsInv'
  <2> SUFFICES ASSUME NEW user \in Users
               PROVE  AccountOK(user, orderStates'[user], orderIdToPos'[user], orders,
                                makers, forgotten, harmed)
    BY <1>5, <1>12 DEF AccountsInv, AccountOK, Traded, Known, Held, Placed, InSlot
  <2>1. CASE user = tUser
    <3>1. /\ orders[taker] = [book[taker] EXCEPT !.filled = @ + amount]
          /\ \A x \in OrderIds : x # taker /\ book[x].user = book[taker].user
                                 => orders[x] = book[x]
      BY <1>2, <1>3, <1>4, <1>12
    <3>2. \A x \in OrderIds : book[x].user = book[taker].user => ~Filled(book[x])
      BY <1>2, <1>11
    <3>3. AccountOK(book[taker].user, StatesAfter(taker, amount), IdToPosAfter(taker),
                    orders, makers, forgotten, harmed)
      BY <1>3, <1>9, <1>11, <1>13, <3>1, <3>2, SideKeepsOrders
    <3> QED BY <1>2, <1>6, <2>1, <3>3
  <2>2. CASE user = mUser /\ user # tUser
    <3>1. /\ orders[maker] = [book[maker] EXCEPT !.filled = @ + amount]
          /\ \A x \in OrderIds : x # maker /\ book[x].user = book[maker].user
                                 => orders[x] = book[x]
      BY <1>2, <1>3, <1>4, <1>12
    <3>2. AccountOK(book[maker].user, StatesAfter(maker, amount), IdToPosAfter(maker),
                    orders, makers, forgotten, harmed)
      BY <1>3, <1>11, <1>13, <3>1, SideKeepsOrders
    <3> QED BY <1>2, <1>6, <2>2, <3>2
  <2>3. CASE user # mUser /\ user # tUser
    <3>1. /\ orderStates'[user] = orderStates[user]
          /\ orderIdToPos'[user] = orderIdToPos[user]
      BY <1>6, <2>3
    <3>2. AccountOK(user, orderStates[user], orderIdToPos[user], book, batch.makers,
                    forgotten, harmed)
      BY <1>13 DEF AccountsInv
    <3>3. \A id \in OrderIds : orders[id].user = user => orders[id] = book[id]
      BY <1>2, <1>4, <1>12, <2>3
    <3>4. PICK S, M : S = orderStates[user] /\ M = orderIdToPos[user]
      OBVIOUS
    <3>5. Traded(user, M, orders)
      BY <1>13, <3>2, <3>3, <3>4 DEF AccountOK, Traded, OrderIds
    <3>6. Known(user, M, orders, forgotten)
      BY <1>13, <3>2, <3>3, <3>4 DEF AccountOK, Known, OrderIds
    <3>7. ASSUME user \notin harmed
          PROVE  Held(user, S, M, orders) /\ Placed(user, S, M, orders, makers)
      <4>1. Held(user, S, M, book) /\ Placed(user, S, M, book, batch.makers)
        BY <3>2, <3>4, <3>7 DEF AccountOK
      <4>2. Held(user, S, M, orders)
        BY <1>13, <3>3, <4>1 DEF Held, OrderIds
      <4>3. Placed(user, S, M, orders, makers)
        BY <1>13, <3>3, <4>1 DEF Placed, OrderIds
      <4> QED BY <4>2, <4>3
    <3> QED BY <3>1, <3>4, <3>5, <3>6, <3>7 DEF AccountOK
  <2> QED BY <2>1, <2>2, <2>3
<1>15. BatchInv'
  <2>1. batch.finish \in Seq(OrderIds)
    BY DEF IInv, TypeOK
  <2>2. PICK finish, done : finish = batch.finish /\ done = batch'.finish
    OBVIOUS
  <2>3. PICK n \in Nat : n = Len(finish) /\ DOMAIN finish = 1 .. n
    BY <2>1, <2>2
  <2>4. Filled(book'[maker]) <=> amount = Remaining(maker)
    BY <1>3, <1>4, <1>8 DEF Filled
  <2>5. \A id \in OrderIds : id \notin {maker, taker} => (Filled(book'[id]) <=> Filled(book[id]))
    BY <1>4
  <2>6. \A i \in 1 .. n : /\ finish[i] \in OrderIds /\ finish[i] \notin {maker, taker}
                          /\ Filled(book'[finish[i]]) /\ finish[i] \in batch.makers
    <3> SUFFICES ASSUME NEW i \in 1 .. n
                 PROVE  /\ finish[i] \in OrderIds /\ finish[i] \notin {maker, taker}
                        /\ Filled(book'[finish[i]]) /\ finish[i] \in batch.makers
      OBVIOUS
    <3>1. finish[i] \in OrderIds
      BY <2>1, <2>2, <2>3
    <3>2. Filled(book[finish[i]]) /\ finish[i] \in batch.makers
      BY <1>9, <2>2, <2>3
    <3> QED BY <1>10, <2>5, <3>1, <3>2
  <2> DEFINE Finishing ==
         /\ \A i \in DOMAIN done : Filled(book'[done[i]]) /\ done[i] \in batch'.makers
         /\ \A i, j \in DOMAIN done : done[i] = done[j] => i = j
         /\ \A id \in OrderIds : Filled(book'[id]) =>
              (\E i \in DOMAIN done : done[i] = id) \/ id = taker
  <2>7. ASSUME amount = Remaining(maker) PROVE Finishing
    <3>1. /\ DOMAIN done = 1 .. n + 1 /\ done[n + 1] = maker
          /\ \A i \in 1 .. n : done[i] = finish[i]
      BY <1>5, <2>1, <2>2, <2>3, <2>7
    <3>2. \A i \in DOMAIN done : Filled(book'[done[i]]) /\ done[i] \in batch'.makers
      <4> SUFFICES ASSUME NEW i \in 1 .. n + 1
                   PROVE  Filled(book'[done[i]]) /\ done[i] \in batch'.makers
        BY <3>1
      <4>1. i \in 1 .. n \/ i = n + 1
        BY <2>3
      <4> QED BY <1>5, <2>4, <2>6, <2>7, <3>1, <4>1
    <3>3. \A i, j \in DOMAIN done : done[i] = done[j] => i = j
      <4> SUFFICES ASSUME NEW i \in 1 .. n + 1, NEW j \in 1 .. n + 1, done[i] = done[j]
                   PROVE  i = j
        BY <3>1
      <4>1. (i \in 1 .. n \/ i = n + 1) /\ (j \in 1 .. n \/ j = n + 1)
        BY <2>3
      <4>2. \A k, l \in 1 .. n : finish[k] = finish[l] => k = l
        BY <1>9, <2>2, <2>3
      <4>3. \A k \in 1 .. n : done[k] = finish[k] /\ done[k] # maker
        BY <2>6, <3>1
      <4> QED BY <3>1, <4>1, <4>2, <4>3
    <3>4. \A id \in OrderIds : Filled(book'[id]) =>
            (\E i \in DOMAIN done : done[i] = id) \/ id = taker
      <4> SUFFICES ASSUME NEW id \in OrderIds, Filled(book'[id]), id # taker
                   PROVE  \E i \in 1 .. n + 1 : done[i] = id
        BY <3>1
      <4>1. CASE id = maker
        <5>1. n + 1 \in 1 .. n + 1
          BY <2>3
        <5> QED BY <3>1, <4>1, <5>1
      <4>2. CASE id # maker
        <5>1. PICK i \in 1 .. n : finish[i] = id
          BY <1>9, <2>2, <2>3, <2>5, <4>2
        <5>2. i \in 1 .. n + 1
          BY <2>3
        <5> QED BY <3>1, <5>1, <5>2
      <4> QED BY <4>1, <4>2
    <3> QED BY <3>2, <3>3, <3>4
  <2>8. ASSUME amount # Remaining(maker) PROVE Finishing
    <3>1. done = finish
      BY <1>5, <2>2, <2>8
    <3>2. \A i \in DOMAIN done : Filled(book'[done[i]]) /\ done[i] \in batch'.makers
      BY <1>5, <2>3, <2>6, <3>1
    <3>3. \A i, j \in DOMAIN done : done[i] = done[j] => i = j
      BY <1>9, <2>2, <3>1
    <3>4. \A id \in OrderIds : Filled(book'[id]) =>
            (\E i \in DOMAIN done : done[i] = id) \/ id = taker
      BY <1>9, <2>2, <2>4, <2>5, <2>8, <3>1
    <3> QED BY <3>2, <3>3, <3>4
  <2>9. /\ \A i \in DOMAIN done : Filled(book'[done[i]]) /\ done[i] \in batch'.makers
        /\ \A i, j \in DOMAIN done : done[i] = done[j] => i = j
        /\ \A id \in OrderIds : Filled(book'[id]) =>
             (\E i \in DOMAIN done : done[i] = id) \/ id = taker
    BY <2>7, <2>8
  <2>10. taker # 0
    BY <1>3, IdsPositive
  <2>11. ~book'[taker].finished
    BY <1>3, <1>4, <1>9
  <2>12. \A m \in batch'.makers : book'[m].user # book'[taker].user
    <3>1. batch.makers \subseteq OrderIds
      BY DEF IInv, TypeOK
    <3> SUFFICES ASSUME NEW m \in batch.makers \cup {maker}
                 PROVE  book'[m].user # book'[taker].user
      BY <1>5
    <3>2. m \in OrderIds /\ book[m].user # tUser
      BY <1>2, <1>3, <1>9, <3>1
    <3> QED BY <1>2, <1>3, <1>4, <3>2
  <2>13. OrderIds' = OrderIds
    BY <1>4 DEF OrderIds
  <2> QED BY <1>5, <2>2, <2>9, <2>10, <2>11, <2>12, <2>13
          DEF BatchInv, Idle, Filled
<1> QED BY <1>5, <1>14, <1>15 DEF OInv, ChecksPass

-----------------------------------------------------------------------------
(* The steps other than trades keep OInv. *)

\* What the map knows of an unfinished order: an order that never traded is unknown, and
\* one that did is known or forgotten; an open one of an unharmed account is in its slot.
LEMMA KnownIffTraded ==
  ASSUME IInv, AccountsInv, NEW id \in OrderIds, ~book[id].finished
  PROVE  LET user == book[id].user
         IN  /\ HasOrder(user, id) => book[id].filled > 0
             /\ book[id].filled # 0 => HasOrder(user, id) \/ id \in forgotten
             /\ book[id].filled # 0 /\ book[id].filled < book[id].total
                /\ user \notin harmed =>
                  HasOrder(user, id) /\ OrderById(user, id) = InSlot(id, book[id])
<1>1. PICK user : user = book[id].user
  OBVIOUS
<1>2. user \in Users /\ book[id].filled \in Nat
  BY <1>1, BookTyped DEF IInv
<1>3. AccountOK(user, orderStates[user], orderIdToPos[user], book, batch.makers,
                forgotten, harmed)
  BY <1>2 DEF AccountsInv
<1>4. HasOrder(user, id) => book[id].filled > 0
  BY <1>3 DEF AccountOK, Traded, HasOrder
<1>5. book[id].filled # 0 => HasOrder(user, id) \/ id \in forgotten
  BY <1>1, <1>2, <1>3 DEF AccountOK, Known, HasOrder, OrderIds
<1>6. book[id].filled # 0 /\ book[id].filled < book[id].total /\ user \notin harmed =>
        HasOrder(user, id) /\ OrderById(user, id) = InSlot(id, book[id])
  BY <1>1, <1>2, <1>3 DEF AccountOK, Held, HasOrder, OrderById, OrderIds
<1> QED BY <1>1, <1>4, <1>5, <1>6

\* FINISH clears an active mark of its own order, or of another one that is not open, or
\* harms the account; and it is refused for a forgotten order only.
LEMMA FinishMsgKeepsOrders ==
  ASSUME IInv, AccountsInv, panic = "none", NEW id \in OrderIds, FinishMsg(id),
         ~book[id].finished
  PROVE  /\ \A user \in Users :
              AccountOK(user, orderStates'[user], orderIdToPos'[user], book', batch.makers,
                        forgotten', harmed')
         /\ ChecksPass'
         /\ DOMAIN book' = OrderIds
         /\ book'[id].finished
         /\ \A x \in OrderIds : x # id => book'[x] = book[x]
<1> DEFINE user == book[id].user
<1>1. /\ user \in Users /\ book[id] \in BookEntry /\ book[id].filled \in Nat
      /\ \A x \in OrderIds : book[x].filled \in Nat /\ book[x].total \in Nat
                             /\ Remaining(x) = book[x].total - book[x].filled
  BY BookTyped DEF IInv, Remaining
<1>2. ChecksPass'
  <2>1. CASE FinishCheck(id)
    BY <2>1 DEF FinishMsg, ChecksPass
  <2>2. CASE ~FinishCheck(id)
    <3>1. id \in forgotten
      BY <1>1, <2>2, KnownIffTraded DEF FinishCheck
    <3>2. panic' = "finish of unknown order" /\ refused' = {id} /\ forgotten' = forgotten
      BY <2>2 DEF FinishMsg
    <3> QED BY <3>1, <3>2 DEF ChecksPass
  <2> QED BY <2>1, <2>2
<1>3. /\ book' = [book EXCEPT ![id].finished = TRUE]
      /\ orderIdToPos' = orderIdToPos /\ forgotten' = forgotten
      /\ harmed' = IF Harms(id) THEN harmed \cup {user} ELSE harmed
  BY DEF FinishMsg
<1>4. /\ DOMAIN book' = OrderIds
      /\ \A x \in OrderIds : x # id => book'[x] = book[x]
      /\ book'[id] = [book[id] EXCEPT !.finished = TRUE]
  BY <1>3 DEF OrderIds
<1>5. /\ book'[id].finished
      /\ book'[id].user = book[id].user /\ book'[id].filled = book[id].filled
  BY <1>1, <1>4 DEF BookEntry
<1>6. /\ \A x \in OrderIds : book'[x].user = book[x].user /\ book'[x].filled = book[x].filled
      /\ \A x \in OrderIds : ~book'[x].finished => x # id /\ book'[x] = book[x]
  BY <1>4, <1>5
<1>7. ASSUME NEW u \in Users, NEW q \in DOMAIN orderStates[u]
      PROVE  /\ orderStates'[u][q].id = orderStates[u][q].id
             /\ \/ orderStates'[u][q] = orderStates[u][q]
                \/ u = user /\ HasOrder(user, id) /\ q = orderIdToPos[user][id]
  <2>1. CASE FinishCheck(id) /\ book[id].filled # 0
    <3>1. PICK p : p = orderIdToPos[user][id]
      OBVIOUS
    <3>2. orderStates' = [orderStates EXCEPT ![user][p].active = FALSE]
      BY <2>1, <3>1 DEF FinishMsg
    <3>3. DOMAIN orderStates = Users /\ orderStates[u][q] \in Order
      BY DEF IInv, TypeOK
    <3>4. HasOrder(user, id)
      BY <2>1 DEF FinishCheck
    <3>5. PICK S : S = orderStates[u]
      OBVIOUS
    <3>6. orderStates'[u] = IF u = user THEN [S EXCEPT ![p].active = FALSE] ELSE S
      <4> HIDE DEF user
      <4> QED BY <1>1, <3>2, <3>3, <3>5
    <3>7. q # p => orderStates'[u][q] = S[q]
      <4> SUFFICES ASSUME q # p PROVE orderStates'[u][q] = S[q]
        OBVIOUS
      <4>1. [S EXCEPT ![p].active = FALSE][q] = S[q]
        BY <3>5
      <4> HIDE DEF user
      <4> QED BY <3>6, <4>1
    <3>8. orderStates'[u][q].id = S[q].id
      <4>1. q \in DOMAIN S /\ S[q] \in Order
        BY <3>3, <3>5
      <4>2. CASE u = user /\ q = p
        <5>1. orderStates'[u][q] = [S[q] EXCEPT !.active = FALSE]
          <6> HIDE DEF user
          <6> QED BY <3>6, <4>1, <4>2
        <5> QED BY <4>1, <5>1 DEF Order
      <4>3. CASE ~(u = user /\ q = p)
        <5> HIDE DEF user
        <5> QED BY <3>6, <3>7, <4>3
      <4> QED BY <4>2, <4>3
    <3>9. u # user => orderStates'[u][q] = S[q]
      <4> HIDE DEF user
      <4> QED BY <3>6
    <3>10. CASE u = user /\ q = p
      <4> HIDE DEF user
      <4> QED BY <3>1, <3>4, <3>5, <3>8, <3>10
    <3>11. CASE ~(u = user /\ q = p)
      <4> HIDE DEF user
      <4> QED BY <3>5, <3>7, <3>8, <3>9, <3>11
    <3> QED BY <3>10, <3>11
  <2>2. CASE ~(FinishCheck(id) /\ book[id].filled # 0)
    <3>1. orderStates' = orderStates
      BY <2>2 DEF FinishMsg
    <3> HIDE DEF user
    <3> QED BY <3>1
  <2> QED BY <2>1, <2>2
<1>8. ASSUME NEW u \in Users
      PROVE  AccountOK(u, orderStates'[u], orderIdToPos'[u], book', batch.makers,
                       forgotten', harmed')
  <2>1. PICK S, M, T, orders :
          S = orderStates[u] /\ M = orderIdToPos[u] /\ T = orderStates'[u] /\ orders = book'
    OBVIOUS
  <2>2. AccountOK(u, S, M, book, batch.makers, forgotten, harmed) /\ MapsAgree(S, M)
    BY <2>1, MapsInvEquiv DEF AccountsInv, MapsInv
  <2>3. /\ DOMAIN orders = OrderIds
        /\ \A x \in OrderIds : orders[x].user = book[x].user /\ orders[x].filled = book[x].filled
        /\ \A x \in OrderIds : ~orders[x].finished => x # id /\ orders[x] = book[x]
    BY <1>4, <1>6, <2>1
  <2>4. Traded(u, M, orders)
    BY <2>2, <2>3 DEF AccountOK, Traded, OrderIds
  <2>5. Known(u, M, orders, forgotten)
    BY <2>2, <2>3 DEF AccountOK, Known, OrderIds
  <2>6. ASSUME u \notin harmed'
        PROVE  Held(u, T, M, orders) /\ Placed(u, T, M, orders, batch.makers)
    <3>1. u \notin harmed /\ (u = user => ~Harms(id))
      BY <1>3, <2>6
    <3>2. Held(u, S, M, book) /\ Placed(u, S, M, book, batch.makers)
      BY <2>2, <3>1 DEF AccountOK
    <3>3. ASSUME NEW x \in OrderIds, orders[x].user = u, ~orders[x].finished,
                 orders[x].filled > 0, orders[x].filled < orders[x].total
          PROVE  x \in DOMAIN M /\ T[M[x]] = InSlot(x, orders[x])
      <4>1. x # id /\ orders[x] = book[x]
        BY <2>3, <3>3
      <4>2. x \in DOMAIN M /\ S[M[x]] = InSlot(x, book[x])
        BY <3>2, <3>3, <4>1 DEF Held, OrderIds
      <4>3. M[x] \in DOMAIN S /\ S[M[x]].id = x
        BY <2>2, <4>2 DEF MapsAgree, InSlot
      <4>4. ASSUME u = user, HasOrder(user, id), M[x] = orderIdToPos[user][id]
            PROVE  FALSE
        <5>1. OrderById(user, id).id = x
          BY <2>1, <4>3, <4>4 DEF OrderById
        <5>2. Open(x)
          BY <1>1, <3>3, <4>1 DEF Open
        <5>3. Harms(id)
          BY <4>1, <4>4, <5>1, <5>2 DEF Harms, Evicted
        <5> QED BY <3>1, <4>4, <5>3
      <4> QED BY <1>7, <2>1, <4>1, <4>2, <4>3, <4>4
    <3>4. Held(u, T, M, orders)
      BY <2>3, <3>3 DEF Held
    <3>5. \A q \in DOMAIN S : T[q].id = S[q].id
      BY <1>7, <2>1
    <3>6. \A x \in DOMAIN M : M[x] \in DOMAIN S
      BY <2>2 DEF MapsAgree
    <3>7. Placed(u, T, M, orders, batch.makers)
      BY <2>3, <3>2, <3>5, <3>6 DEF Placed, OrderIds
    <3> QED BY <3>4, <3>7
  <2> QED BY <1>3, <2>1, <2>4, <2>5, <2>6 DEF AccountOK
<1> QED BY <1>2, <1>4, <1>5, <1>8

LEMMA FinishKeepsOInv ==
  ASSUME IInv, OInv, Finish
  PROVE  OInv'
<1>1. PICK n \in Nat, finish \in Seq(OrderIds) :
        /\ finish = batch.finish /\ n = Len(finish) /\ DOMAIN finish = 1 .. n
        /\ finish # <<>> /\ n > 0
  <2>1. batch.finish \in Seq(OrderIds) /\ batch.finish # <<>>
    BY DEF IInv, TypeOK, Finish
  <2>2. Len(batch.finish) \in Nat /\ DOMAIN batch.finish = 1 .. Len(batch.finish)
        /\ Len(batch.finish) > 0
    BY <2>1
  <2> QED BY <2>1, <2>2
<1>2. PICK id : id = finish[1]
  OBVIOUS
<1>3. id \in OrderIds /\ FinishMsg(id)
  BY <1>1, <1>2 DEF Finish
<1>4. /\ \A x \in OrderIds : Filled(book[x]) => \E i \in 1 .. n : finish[i] = x
      /\ \A i \in 1 .. n : Filled(book[finish[i]])
      /\ \A i, j \in 1 .. n : finish[i] = finish[j] => i = j
  BY <1>1 DEF OInv, BatchInv, Finish
<1>5. Filled(book[id])
  BY <1>1, <1>2, <1>4
<1>6. /\ \A user \in Users :
           AccountOK(user, orderStates'[user], orderIdToPos'[user], book', batch.makers,
                     forgotten', harmed')
      /\ ChecksPass'
      /\ DOMAIN book' = OrderIds /\ book'[id].finished
      /\ \A x \in OrderIds : x # id => book'[x] = book[x]
  <2>1. panic = "none"
    BY DEF Finish
  <2> QED BY <1>3, <1>5, <2>1, FinishMsgKeepsOrders DEF Filled, OInv
<1>7. PICK rest : rest = Tail(finish)
  OBVIOUS
<1>8. /\ rest \in Seq(OrderIds) /\ DOMAIN rest = 1 .. n - 1
      /\ \A i \in 1 .. n - 1 : rest[i] = finish[i + 1]
  BY <1>1, <1>7
<1>9. batch' = IF rest = <<>> THEN NoBatch ELSE [batch EXCEPT !.finish = rest]
  BY <1>1, <1>7 DEF Finish
<1>10. /\ batch'.matching = FALSE /\ batch'.finish = rest
       /\ batch'.taker = 0 => rest = <<>>
  <2>1. /\ batch \in [taker : OrderIds \cup {0}, matching : BOOLEAN,
                      makers : SUBSET OrderIds, finish : Seq(OrderIds)]
        /\ batch.matching = FALSE /\ batch.taker # 0
    BY DEF IInv, TypeOK, Finish, Idle
  <2> QED BY <1>9, <2>1 DEF NoBatch
<1>11. \A i \in 1 .. n - 1 : /\ rest[i] \in OrderIds /\ rest[i] # id
                             /\ Filled(book'[rest[i]])
  <2> SUFFICES ASSUME NEW i \in 1 .. n - 1
               PROVE  /\ rest[i] \in OrderIds /\ rest[i] # id
                      /\ Filled(book'[rest[i]])
    OBVIOUS
  <2>1. i + 1 \in 1 .. n /\ 1 \in 1 .. n /\ i + 1 # 1
    BY <1>1
  <2>2. rest[i] \in OrderIds
    BY <1>8
  <2>3. rest[i] # id /\ Filled(book[rest[i]])
    BY <1>2, <1>4, <1>8, <2>1
  <2> QED BY <1>6, <2>2, <2>3
<1>12. \A i, j \in 1 .. n - 1 : rest[i] = rest[j] => i = j
  <2> SUFFICES ASSUME NEW i \in 1 .. n - 1, NEW j \in 1 .. n - 1, rest[i] = rest[j]
               PROVE  i = j
    OBVIOUS
  <2>1. i + 1 \in 1 .. n /\ j + 1 \in 1 .. n
    BY <1>1
  <2>2. i + 1 = j + 1
    BY <1>4, <1>8, <2>1
  <2> QED BY <2>2
<1>13. \A x \in OrderIds : Filled(book'[x]) => \E i \in 1 .. n - 1 : rest[i] = x
  <2> SUFFICES ASSUME NEW x \in OrderIds, Filled(book'[x])
               PROVE  \E i \in 1 .. n - 1 : rest[i] = x
    OBVIOUS
  <2>1. x # id /\ Filled(book[x])
    BY <1>6 DEF Filled
  <2>2. PICK k \in 1 .. n : finish[k] = x
    BY <1>4, <2>1
  <2>3. k - 1 \in 1 .. n - 1 /\ (k - 1) + 1 = k
    BY <1>1, <1>2, <2>1, <2>2
  <2>4. rest[k - 1] = x
    BY <1>8, <2>2, <2>3
  <2> QED BY <2>3, <2>4
<1>14. BatchInv'
  <2>1. /\ \A i \in DOMAIN rest : Filled(book'[rest[i]])
        /\ \A i, j \in DOMAIN rest : rest[i] = rest[j] => i = j
        /\ \A x \in OrderIds : Filled(book'[x]) => \E i \in DOMAIN rest : rest[i] = x
    BY <1>8, <1>11, <1>12, <1>13
  <2>2. OrderIds' = OrderIds
    BY <1>6 DEF OrderIds
  <2> QED BY <1>10, <2>1, <2>2 DEF BatchInv, Idle, Filled
<1>15. AccountsInv'
  <2> SUFFICES ASSUME NEW user \in Users
               PROVE  AccountOK(user, orderStates'[user], orderIdToPos'[user], book',
                                batch'.makers, forgotten', harmed')
    BY DEF AccountsInv, AccountOK, Traded, Known, Held, Placed, InSlot
  <2>1. CASE rest # <<>>
    <3>1. batch'.makers = batch.makers
      BY <1>9, <2>1 DEF IInv, TypeOK
    <3> QED BY <1>6, <3>1
  <2>2. CASE rest = <<>>
    <3>1. DOMAIN rest = {}
      BY <2>2
    <3>2. \A x \in OrderIds : ~Filled(book'[x])
      BY <1>8, <1>13, <3>1
    <3>3. TypeOK'
      BY NextKeepsIInv DEF Next, IInv
    <3>4. \A x \in OrderIds : book'[x].filled \in Nat /\ book'[x].total \in Nat
                             /\ book'[x].filled <= book'[x].total
      <4>1. /\ book' \in Seq(BookEntry)
            /\ \A x \in OrderIds : book'[x].filled <= book'[x].total
        BY <1>6, <3>3 DEF TypeOK, OrderIds, BookEntry
      <4>2. \A x \in OrderIds : book'[x] \in BookEntry
        BY <1>6, <4>1
      <4> QED BY <4>1, <4>2 DEF BookEntry
    <3>5. Placed(user, orderStates'[user], orderIdToPos'[user], book', batch'.makers)
      BY <1>6, <3>2, <3>4 DEF Placed, Filled
    <3> QED BY <1>6, <3>5 DEF AccountOK
  <2> QED BY <2>1, <2>2
<1> QED BY <1>6, <1>14, <1>15 DEF OInv

\* An idle engine has no filled order that is not finished.
LEMMA IdleNoneFilled ==
  ASSUME IInv, OInv, Idle
  PROVE  batch.finish = <<>> /\ batch.matching = FALSE
         /\ \A id \in OrderIds : ~Filled(book[id])
<1>1. batch.finish = <<>>
  BY DEF OInv, BatchInv
<1>2. batch.matching = FALSE
  BY DEF IInv, TypeOK
<1> QED BY <1>1, <1>2 DEF OInv, BatchInv

LEMMA UserCancelKeepsOInv ==
  ASSUME IInv, OInv, NEW id \in OrderIds, UserCancel(id)
  PROVE  OInv'
<1>1. Idle /\ Open(id) /\ FinishMsg(id) /\ UNCHANGED batch /\ panic = "none"
  BY DEF UserCancel
<1>2. /\ \A user \in Users :
           AccountOK(user, orderStates'[user], orderIdToPos'[user], book', batch.makers,
                     forgotten', harmed')
      /\ ChecksPass'
      /\ DOMAIN book' = OrderIds /\ book'[id].finished
      /\ \A x \in OrderIds : x # id => book'[x] = book[x]
  BY <1>1, FinishMsgKeepsOrders DEF Open, OInv
<1>3. batch.finish = <<>> /\ batch.matching = FALSE /\ \A x \in OrderIds : ~Filled(book[x])
  BY <1>1, IdleNoneFilled
<1>4. \A x \in OrderIds : ~Filled(book'[x])
  BY <1>2, <1>3 DEF Filled
<1>5. BatchInv'
  BY <1>1, <1>2, <1>3, <1>4 DEF BatchInv, Filled, OrderIds, Idle
<1>6. AccountsInv'
  BY <1>1, <1>2 DEF AccountsInv, AccountOK, Traded, Known, Held, Placed, InSlot
<1> QED BY <1>2, <1>5, <1>6 DEF OInv

LEMMA PutOrderKeepsOInv ==
  ASSUME IInv, OInv, NEW user \in Users, NEW total \in Totals, PutOrder(user, total)
  PROVE  OInv'
<1>1. PICK n \in Nat : n = Len(book) /\ OrderIds = 1 .. n
  BY IdsPositive
<1>2. PICK entry : entry = [user |-> user, total |-> total, filled |-> 0, finished |-> FALSE]
  OBVIOUS
<1>3. ~Filled(entry) /\ ~entry.finished /\ entry.filled = 0
  BY <1>2, SlotsAssumption DEF Filled
<1>4. /\ book' = Append(book, entry) /\ Idle
      /\ batch' = [NoBatch EXCEPT !.taker = Len(book) + 1, !.matching = TRUE]
      /\ UNCHANGED <<rollupVars, panic, harmed, forgotten>> /\ panic = "none"
  BY <1>2 DEF PutOrder, history
<1>5. book \in Seq(BookEntry)
  BY DEF IInv, TypeOK
<1>6. /\ DOMAIN book' = 1 .. n + 1 /\ book'[n + 1] = entry
      /\ \A id \in 1 .. n : book'[id] = book[id]
  BY <1>1, <1>4, <1>5
<1>7. /\ batch'.taker = n + 1 /\ batch'.matching = TRUE
      /\ batch'.makers = {} /\ batch'.finish = <<>>
  BY <1>1, <1>4 DEF NoBatch
<1>8. \A id \in 1 .. n + 1 : id \in 1 .. n \/ id = n + 1
  OBVIOUS
<1>9. BatchInv'
  <2>1. \A id \in 1 .. n : ~Filled(book[id])
    BY <1>1, <1>4, IdleNoneFilled
  <2>2. \A id \in 1 .. n + 1 : ~Filled(book'[id])
    BY <1>3, <1>6, <1>8, <2>1
  <2>3. n + 1 # 0
    OBVIOUS
  <2> QED BY <1>3, <1>6, <1>7, <2>2, <2>3 DEF BatchInv, Filled, OrderIds, Idle
<1>10. AccountsInv'
  <2> SUFFICES ASSUME NEW u \in Users
               PROVE  AccountOK(u, orderStates[u], orderIdToPos[u], book', batch'.makers,
                                forgotten, harmed)
    BY <1>4 DEF AccountsInv, AccountOK, Traded, Known, Held, Placed, InSlot, rollupVars
  <2>1. PICK S, M, orders : S = orderStates[u] /\ M = orderIdToPos[u] /\ orders = book'
    OBVIOUS
  <2>2. AccountOK(u, S, M, book, batch.makers, forgotten, harmed)
    BY <2>1 DEF OInv, AccountsInv
  <2>3. /\ DOMAIN book = 1 .. n /\ DOMAIN orders = 1 .. n + 1
        /\ \A id \in 1 .. n : id \in 1 .. n + 1 /\ orders[id] = book[id]
        /\ \A id \in 1 .. n + 1 : orders[id].filled > 0 => id \in 1 .. n
    BY <1>1, <1>3, <1>6, <1>8, <2>1 DEF OrderIds
  <2>4. Traded(u, M, orders)
    BY <2>2, <2>3 DEF AccountOK, Traded
  <2>5. Known(u, M, orders, forgotten)
    BY <2>2, <2>3 DEF AccountOK, Known
  <2>6. u \notin harmed => Held(u, S, M, orders)
    BY <2>2, <2>3 DEF AccountOK, Held
  <2>7. Placed(u, S, M, orders, batch'.makers)
    <3>1. \A id \in 1 .. n : ~Filled(book[id])
      BY <1>1, <1>4, IdleNoneFilled
    <3>2. \A id \in 1 .. n : book[id].filled \in Nat /\ book[id].total \in Nat
                             /\ book[id].filled <= book[id].total
      BY <1>1, BookTyped DEF IInv, TypeOK
    <3>3. \A id \in 1 .. n + 1 : ~(~orders[id].finished /\ orders[id].filled >= orders[id].total)
      <4> SUFFICES ASSUME NEW id \in 1 .. n + 1, ~orders[id].finished,
                          orders[id].filled >= orders[id].total
                   PROVE  FALSE
        OBVIOUS
      <4>1. CASE id \in 1 .. n
        BY <2>3, <3>1, <3>2, <4>1 DEF Filled
      <4>2. CASE id = n + 1
        <5>1. orders[id].filled = 0 /\ orders[id].total = total /\ total \in Nat \ {0}
          BY <1>2, <1>6, <2>1, <4>2, SlotsAssumption
        <5> QED BY <5>1
      <4> QED BY <1>8, <4>1, <4>2
    <3> QED BY <2>3, <3>3 DEF Placed
  <2> QED BY <2>1, <2>4, <2>5, <2>6, <2>7 DEF AccountOK
<1> QED BY <1>4, <1>9, <1>10 DEF OInv, ChecksPass

LEMMA StopMatchingKeepsOInv ==
  ASSUME IInv, OInv, StopMatching
  PROVE  OInv'
<1>1. PICK n \in Nat, finish \in Seq(OrderIds), taker \in OrderIds :
        /\ finish = batch.finish /\ n = Len(finish) /\ DOMAIN finish = 1 .. n
        /\ taker = batch.taker
  <2>1. batch.finish \in Seq(OrderIds) /\ batch.taker \in OrderIds
    BY DEF IInv, TypeOK, StopMatching, Idle
  <2>2. Len(batch.finish) \in Nat /\ DOMAIN batch.finish = 1 .. Len(batch.finish)
    BY <2>1
  <2> QED BY <2>1, <2>2
<1>2. PICK done : done = IF Remaining(taker) = 0 THEN Append(finish, taker) ELSE finish
  OBVIOUS
<1>3. /\ batch' = IF done = <<>> THEN NoBatch
                  ELSE [batch EXCEPT !.matching = FALSE, !.finish = done]
      /\ UNCHANGED <<rollupVars, book, panic, harmed, forgotten>> /\ batch.matching
      /\ panic = "none"
  BY <1>1, <1>2 DEF StopMatching, history
<1>4. /\ batch'.matching = FALSE /\ batch'.finish = done
      /\ batch'.taker = 0 => done = <<>>
  <2>1. /\ batch \in [taker : OrderIds \cup {0}, matching : BOOLEAN,
                      makers : SUBSET OrderIds, finish : Seq(OrderIds)]
        /\ batch.taker # 0
    BY <1>3 DEF IInv, TypeOK, Idle
  <2> QED BY <1>3, <2>1 DEF NoBatch
<1>5. /\ \A id \in OrderIds : Filled(book[id]) =>
           (\E i \in 1 .. n : finish[i] = id) \/ id = taker
      /\ \A i \in 1 .. n : Filled(book[finish[i]]) /\ finish[i] \in batch.makers
      /\ \A i, j \in 1 .. n : finish[i] = finish[j] => i = j
      /\ ~book[taker].finished
      /\ \A maker \in batch.makers : book[maker].user # book[taker].user
  BY <1>1, <1>3 DEF OInv, BatchInv
<1>6. Remaining(taker) = 0 <=> Filled(book[taker])
  BY <1>1, <1>5, BookTyped DEF IInv, Remaining, Filled
<1>7. \A i \in 1 .. n : finish[i] # taker
  BY <1>5
<1> DEFINE Finishing ==
      /\ \A i \in DOMAIN done : Filled(book[done[i]])
      /\ \A i, j \in DOMAIN done : done[i] = done[j] => i = j
      /\ \A id \in OrderIds : Filled(book[id]) => \E i \in DOMAIN done : done[i] = id
<1>8. ASSUME Filled(book[taker]) PROVE Finishing
  <2>1. /\ DOMAIN done = 1 .. n + 1 /\ done[n + 1] = taker
        /\ \A i \in 1 .. n : done[i] = finish[i]
    BY <1>1, <1>2, <1>6, <1>8
  <2>2. \A i \in 1 .. n + 1 : i \in 1 .. n \/ i = n + 1
    OBVIOUS
  <2>3. \A i \in 1 .. n : i \in 1 .. n + 1
    OBVIOUS
  <2>4. n + 1 \in 1 .. n + 1
    OBVIOUS
  <2>5. \A i \in 1 .. n + 1 : Filled(book[done[i]])
    BY <1>5, <1>8, <2>1, <2>2
  <2>6. \A i, j \in 1 .. n + 1 : done[i] = done[j] => i = j
    <3> SUFFICES ASSUME NEW i \in 1 .. n + 1, NEW j \in 1 .. n + 1, done[i] = done[j]
                 PROVE  i = j
      OBVIOUS
    <3>1. (i \in 1 .. n \/ i = n + 1) /\ (j \in 1 .. n \/ j = n + 1)
      BY <2>2
    <3>2. \A k \in 1 .. n : done[k] = finish[k] /\ done[k] # taker
      BY <1>7, <2>1
    <3> QED BY <1>5, <2>1, <3>1, <3>2
  <2>7. \A id \in OrderIds : Filled(book[id]) => \E i \in 1 .. n + 1 : done[i] = id
    BY <1>5, <2>1, <2>3, <2>4
  <2> QED BY <2>1, <2>5, <2>6, <2>7
<1>9. ASSUME ~Filled(book[taker]) PROVE Finishing
  <2>1. done = finish
    BY <1>2, <1>6, <1>9
  <2> QED BY <1>1, <1>5, <1>9, <2>1
<1>10. Finishing
  BY <1>8, <1>9
<1>11. BatchInv'
  BY <1>3, <1>4, <1>10 DEF BatchInv, Filled, OrderIds, Idle
<1>12. AccountsInv'
  <2>1. batch'.makers = batch.makers \/ \A id \in OrderIds : ~Filled(book[id])
    <3>1. CASE done = <<>>
      <4>1. DOMAIN done = {}
        BY <3>1
      <4> QED BY <1>10, <4>1
    <3>2. CASE done # <<>>
      BY <1>3, <3>2 DEF IInv, TypeOK
    <3> QED BY <3>1, <3>2
  <2> SUFFICES ASSUME NEW user \in Users
               PROVE  AccountOK(user, orderStates[user], orderIdToPos[user], book,
                                batch'.makers, forgotten, harmed)
    BY <1>3 DEF AccountsInv, AccountOK, Traded, Known, Held, Placed, InSlot, rollupVars
  <2>2. AccountOK(user, orderStates[user], orderIdToPos[user], book, batch.makers,
                  forgotten, harmed)
    BY DEF OInv, AccountsInv
  <2>3. ASSUME \A id \in OrderIds : ~Filled(book[id])
        PROVE  Placed(user, orderStates[user], orderIdToPos[user], book, batch'.makers)
    <3>1. \A id \in DOMAIN book : ~(~book[id].finished /\ book[id].filled >= book[id].total)
      BY <2>3, BookTyped DEF IInv, TypeOK, Filled, OrderIds
    <3> QED BY <3>1 DEF Placed
  <2> QED BY <2>1, <2>2, <2>3 DEF AccountOK
<1> QED BY <1>3, <1>11, <1>12 DEF OInv, ChecksPass

LEMMA RestartKeepsOInv ==
  ASSUME IInv, OInv, Restart
  PROVE  OInv'
<1>1. UNCHANGED <<orderStates, book, batch, panic, harmed>> /\ panic = "none"
      /\ forgotten' = forgotten \cup {id \in OrderIds : Evicted(id)}
  BY DEF Restart
<1>2. AccountsInv'
  <2> SUFFICES ASSUME NEW user \in Users
               PROVE  AccountOK(user, orderStates[user], orderIdToPos'[user], book,
                                batch.makers, forgotten', harmed)
    BY <1>1 DEF AccountsInv, AccountOK, Traded, Known, Held, Placed, InSlot
  <2>1. PICK S, M, R : /\ S = orderStates[user] /\ M = orderIdToPos[user]
                       /\ R = orderIdToPos'[user]
    OBVIOUS
  <2>2. R = Rebuilt(S)
    BY <2>1 DEF Restart
  <2>3. MapsTyped(S, M) /\ MapsAgree(S, M)
    BY <2>1, MapsInvEquiv DEF MapsInv
  <2>4. MapsAgree(S, R)
    BY <2>2, <2>3, RebuiltAgrees
  <2>5. AccountOK(user, S, M, book, batch.makers, forgotten, harmed)
    BY <2>1 DEF OInv, AccountsInv
  <2>6. \A id \in DOMAIN R : id \in DOMAIN M
    <3> SUFFICES ASSUME NEW id \in DOMAIN R PROVE id \in DOMAIN M
      OBVIOUS
    <3>1. id \in {S[p].id : p \in DOMAIN S}
      BY <2>2 DEF Rebuilt
    <3> QED BY <2>3, <3>1 DEF MapsAgree
  <2>7. \A id \in DOMAIN M : S[M[id]].id = id => id \in DOMAIN R /\ R[id] = M[id]
    BY <2>3, <2>4 DEF MapsAgree
  <2>8. Traded(user, R, book)
    BY <2>5, <2>6 DEF AccountOK, Traded
  <2>9. Known(user, R, book, forgotten')
    <3> SUFFICES ASSUME NEW id \in OrderIds, book[id].user = user, ~book[id].finished,
                        book[id].filled > 0
                 PROVE  id \in DOMAIN R \cup forgotten'
      BY DEF Known, OrderIds
    <3>1. id \in DOMAIN M \/ id \in forgotten
      BY <2>5 DEF AccountOK, Known, OrderIds
    <3>2. CASE id \in DOMAIN M /\ S[M[id]].id # id
      <4>1. Evicted(id)
        BY <2>1, <3>2 DEF Evicted, HasOrder, OrderById
      <4> QED BY <1>1, <4>1
    <3> QED BY <1>1, <2>7, <3>1, <3>2
  <2>10. ASSUME user \notin harmed
         PROVE  Held(user, S, R, book) /\ Placed(user, S, R, book, batch.makers)
    <3>1. Held(user, S, M, book)
      BY <2>5, <2>10 DEF AccountOK
    <3>2. Held(user, S, R, book)
      <4> SUFFICES ASSUME NEW id \in DOMAIN book, book[id].user = user,
                          ~book[id].finished, book[id].filled > 0,
                          book[id].filled < book[id].total
                   PROVE  id \in DOMAIN R /\ S[R[id]] = InSlot(id, book[id])
        BY DEF Held
      <4>1. id \in DOMAIN M /\ S[M[id]] = InSlot(id, book[id])
        BY <3>1 DEF Held
      <4>2. S[M[id]].id = id
        BY <4>1 DEF InSlot
      <4> QED BY <2>7, <4>1, <4>2
    <3>3. \A id \in DOMAIN R : S[R[id]].id = id
      <4> SUFFICES ASSUME NEW id \in DOMAIN R PROVE S[R[id]].id = id
        OBVIOUS
      <4>1. id \in {S[p].id : p \in DOMAIN S}
        BY <2>2 DEF Rebuilt
      <4> QED BY <2>4, <4>1 DEF MapsAgree
    <3>4. Placed(user, S, R, book, batch.makers)
      BY <3>3 DEF Placed
    <3> QED BY <3>2, <3>4
  <2> QED BY <2>1, <2>8, <2>9, <2>10 DEF AccountOK
<1>3. BatchInv'
  BY <1>1 DEF OInv, BatchInv, Filled, OrderIds, Idle
<1> QED BY <1>1, <1>2, <1>3 DEF OInv, ChecksPass

\* A trade message is refused for want of a slot, or when the fills of one of its orders
\* disagree, which is so in a harmed account only.
LEMMA TradePanicsKeepsOInv ==
  ASSUME IInv, OInv, NEW maker \in OrderIds, TradePanics(maker)
  PROVE  OInv'
<1>1. PICK taker : taker = batch.taker
  OBVIOUS
<1>2. /\ Matches(maker) /\ batch.matching
      /\ panic' = TradeCheck(maker, taker) /\ refused' = {maker, taker}
      /\ UNCHANGED <<rollupVars, book, batch, harmed, forgotten>>
  BY <1>1 DEF TradePanics, Matches
<1>3. /\ taker \in OrderIds
      /\ ~book[maker].finished /\ ~book[taker].finished
      /\ Remaining(maker) > 0 /\ Remaining(taker) > 0
  BY <1>1, <1>2 DEF IInv, TypeOK, Idle, Matches, Open, OInv, BatchInv
<1>4. ASSUME NEW id \in {maker, taker}
      PROVE  /\ StateBeforeAgrees(id) \/ book[id].user \in harmed
             /\ StateBeforeAgrees(id) => (IsNew(id) <=> ~HasOrder(book[id].user, id))
  <2>1. /\ ~book[id].finished /\ book[id].filled < book[id].total
        /\ book[id].filled \in Nat
    BY <1>3, BookTyped DEF IInv, Remaining
  <2>2. PICK user : user = book[id].user
    OBVIOUS
  <2>3. /\ HasOrder(user, id) => book[id].filled > 0
        /\ book[id].filled # 0 /\ user \notin harmed =>
             HasOrder(user, id) /\ OrderById(user, id) = InSlot(id, book[id])
    BY <1>3, <2>1, <2>2, KnownIffTraded DEF OInv
  <2>4. CASE book[id].filled = 0
    BY <2>2, <2>3, <2>4 DEF StateBeforeAgrees, IsNew
  <2>5. CASE book[id].filled # 0 /\ user \notin harmed
    <3>1. HasOrder(user, id) /\ OrderById(user, id).filled = book[id].filled
      BY <2>3, <2>5 DEF InSlot
    <3> QED BY <2>2, <2>5, <3>1 DEF StateBeforeAgrees, IsNew
  <2>6. CASE book[id].filled # 0 /\ user \in harmed
    BY <2>2, <2>6 DEF StateBeforeAgrees, IsNew
  <2> QED BY <2>4, <2>5, <2>6
<1>5. \/ TradeCheck(maker, taker) \in {"none", "no order pos"}
      \/ /\ TradeCheck(maker, taker) = "check_state"
         /\ \E id \in {maker, taker} : book[id].user \in harmed
  BY <1>4 DEF TradeCheck
<1>6. AccountsInv'
  BY <1>2 DEF OInv, AccountsInv, AccountOK, Traded, Known, Held, Placed, InSlot, rollupVars
<1>7. BatchInv'
  BY <1>2 DEF OInv, BatchInv, Filled, OrderIds, Idle
<1>8. ChecksPass'
  BY <1>2, <1>5 DEF ChecksPass
<1> QED BY <1>6, <1>7, <1>8 DEF OInv

LEMMA InitOInv == Init => OInv
<1> SUFFICES ASSUME Init PROVE OInv
  OBVIOUS
<1>1. AccountsInv
  BY DEF Init, AccountsInv, AccountOK, Traded, Known, Held, Placed
<1>2. BatchInv
  BY DEF Init, BatchInv, NoBatch, OrderIds
<1> QED BY <1>1, <1>2 DEF Init, OInv, ChecksPass

LEMMA NextKeepsOInv ==
  ASSUME IInv, OInv, [Next]_vars
  PROVE  OInv'
<1>1. CASE \E maker \in OrderIds : Trade(maker)
  BY <1>1, TradeKeepsOInv
<1>2. CASE \E maker \in OrderIds : TradePanics(maker)
  BY <1>2, TradePanicsKeepsOInv
<1>3. CASE StopMatching
  BY <1>3, StopMatchingKeepsOInv
<1>4. CASE Finish
  BY <1>4, FinishKeepsOInv
<1>5. CASE \E id \in OrderIds : UserCancel(id)
  BY <1>5, UserCancelKeepsOInv
<1>6. CASE \E user \in Users, total \in Totals : PutOrder(user, total)
  BY <1>6, PutOrderKeepsOInv
<1>7. CASE Restart
  BY <1>7, RestartKeepsOInv
<1>8. CASE UNCHANGED vars
  <2>1. AccountsInv'
    BY <1>8 DEF vars, rollupVars, history, OInv, AccountsInv, AccountOK, Traded, Known,
                Held, Placed, InSlot
  <2>2. BatchInv'
    BY <1>8 DEF vars, OInv, BatchInv, Filled, OrderIds, Idle
  <2> QED BY <1>8, <2>1, <2>2 DEF vars, history, OInv, ChecksPass
<1> QED BY <1>1, <1>2, <1>3, <1>4, <1>5, <1>6, <1>7, <1>8 DEF Next

LEMMA OInvAlways == Spec => [](IInv /\ OInv)
<1>1. IInv /\ OInv /\ [Next]_vars => (IInv /\ OInv)'
  BY NextKeepsIInv, NextKeepsOInv
<1>2. Init => IInv /\ OInv
  BY InitIInv, InitOInv
<1> QED BY <1>1, <1>2, PTL DEF Spec

\* An open order that has traded keeps its slot, its fill and its active mark, also when
\* its account is out of slots and every closed order is evicted, in every account but
\* those of which a FINISH deactivated an open order through a stale map entry.
THEOREM OpenOrdersKept == Spec => []OpenOrderKept
<1>1. ASSUME IInv, OInv PROVE OpenOrderKept
  <2> SUFFICES ASSUME NEW id \in OrderIds, Open(id), ~IsNew(id),
                      book[id].user \notin harmed
               PROVE  /\ HasOrder(book[id].user, id)
                      /\ OrderById(book[id].user, id) =
                           [NewOrder(id, book[id].total) EXCEPT !.filled = book[id].filled]
    BY DEF OpenOrderKept
  <2>1. ~book[id].finished /\ book[id].filled # 0 /\ book[id].filled < book[id].total
    BY <1>1, BookTyped DEF IInv, Open, Remaining, IsNew
  <2>2. /\ HasOrder(book[id].user, id)
        /\ OrderById(book[id].user, id) = InSlot(id, book[id])
    BY <1>1, <2>1, KnownIffTraded DEF OInv
  <2>3. [NewOrder(id, book[id].total) EXCEPT !.filled = book[id].filled]
          = InSlot(id, book[id])
    <3>1. PICK t, f, a : t = book[id].total /\ f = book[id].filled /\ a = TRUE
      OBVIOUS
    <3>2. [[id |-> id, total |-> t, filled |-> 0, active |-> a] EXCEPT !.filled = f]
            = [id |-> id, total |-> t, filled |-> f, active |-> a]
      BY ONLY TradeWithFields
    <3> QED BY <3>1, <3>2 DEF NewOrder, InSlot
  <2> QED BY <2>2, <2>3
<1> QED BY <1>1, OInvAlways, PTL

\* load_persist rebuilds order_id_to_pos from order_states: for every order a later
\* message may name, the rebuilt map knows it if and only if the old one did, but for the
\* orders of harmed accounts and the filled makers whose slot a later maker of their
\* batch took over.
THEOREM ReloadsAgree == Spec => []ReloadAgrees
<1>1. ASSUME IInv, OInv PROVE ReloadAgrees
  <2> SUFFICES ASSUME NEW id \in OrderIds, ~book[id].finished,
                      book[id].user \notin harmed, ~EvictedInBatch(id)
               PROVE  HasOrder(book[id].user, id)
                        <=> id \in DOMAIN Rebuilt(orderStates[book[id].user])
    BY DEF ReloadAgrees
  <2>1. PICK user : user = book[id].user
    OBVIOUS
  <2>2. PICK S, M : S = orderStates[user] /\ M = orderIdToPos[user]
    OBVIOUS
  <2>3. user \in Users /\ book[id].filled \in Nat /\ book[id].total \in Nat
        /\ book[id].filled <= book[id].total
    BY <1>1, <2>1, BookTyped DEF IInv, TypeOK
  <2>4. MapsAgree(S, M) /\ Traded(user, M, book) /\ Held(user, S, M, book)
        /\ Placed(user, S, M, book, batch.makers)
    BY <1>1, <2>1, <2>2, <2>3, MapsInvEquiv DEF MapsInv, OInv, AccountsInv, AccountOK
  <2>5. id \in DOMAIN M => M[id] \in DOMAIN S /\ S[M[id]].id = id
    <3> SUFFICES ASSUME id \in DOMAIN M PROVE M[id] \in DOMAIN S /\ S[M[id]].id = id
      OBVIOUS
    <3>1. M[id] \in DOMAIN S /\ book[id].filled > 0
      BY <2>4 DEF MapsAgree, Traded
    <3>2. CASE book[id].filled < book[id].total
      <4>1. S[M[id]] = InSlot(id, book[id])
        BY <2>1, <2>4, <3>1, <3>2 DEF Held, OrderIds
      <4> QED BY <3>1, <4>1 DEF InSlot
    <3>3. CASE book[id].filled = book[id].total
      <4>1. PICK slotId : slotId = S[M[id]].id
        OBVIOUS
      <4> SUFFICES ASSUME slotId # id PROVE FALSE
        BY <3>1, <4>1
      <4>2. slotId \in batch.makers /\ slotId > id
        BY <2>1, <2>3, <2>4, <3>3, <4>1 DEF Placed, OrderIds
      <4>3. Filled(book[id])
        BY <3>3 DEF Filled
      <4>4. CASE \E i \in DOMAIN batch.finish : batch.finish[i] = id
        <5>1. HasOrder(user, id) /\ OrderById(user, id).id = slotId
          BY <2>2, <4>1 DEF HasOrder, OrderById
        <5> QED BY <2>1, <4>2, <4>4, <5>1 DEF EvictedInBatch
      <4>5. CASE batch.matching /\ id = batch.taker
        <5>1. book[slotId].user # user
          BY <1>1, <2>1, <4>2, <4>5 DEF OInv, BatchInv
        <5>2. slotId \in DOMAIN M
          BY <2>4, <3>1, <4>1 DEF MapsAgree
        <5> QED BY <2>4, <5>1, <5>2 DEF Traded
      <4> QED BY <1>1, <4>3, <4>4, <4>5 DEF OInv, BatchInv
    <3> QED BY <2>3, <3>2, <3>3
  <2>6. DOMAIN Rebuilt(S) = {S[p].id : p \in DOMAIN S}
    BY DEF Rebuilt
  <2>7. id \in DOMAIN Rebuilt(S) => id \in DOMAIN M
    BY <2>4, <2>6 DEF MapsAgree
  <2>8. id \in DOMAIN M => id \in DOMAIN Rebuilt(S)
    BY <2>5, <2>6
  <2> QED BY <2>1, <2>2, <2>7, <2>8 DEF HasOrder
<1> QED BY <1>1, OInvAlways, PTL

\* The checks of handle_trade_msg and handle_order_msg stop the node for three reasons
\* only: no slot left; the FINISH of an order a restart forgot; and the fills of an order
\* of an account whose open order a FINISH deactivated.
THEOREM ThreeReasonsToStop == Spec => []ChecksPass
<1>1. IInv /\ OInv => ChecksPass
  BY DEF OInv
<1> QED BY <1>1, OInvAlways, PTL
=============================================================================
