---------------------------- MODULE CatalogStock ----------------------------
(***************************************************************************)
(* The counters of the catalog (apps/catalog/src/catalog.service.ts): the  *)
(* stock of its items with the reservations of orders, and the uses of one *)
(* promotion with their redemptions.  The order service and the cart call  *)
(* it, each order's calls from handlers that may run at the same time.     *)
(*                                                                         *)
(* Each call is a transaction: it reads the rows of the order, and then    *)
(* writes.  The counters change by conditional updates, which see the      *)
(* latest value; the rows are inserted or saved as they were read, under   *)
(* no lock.  Nothing it writes is seen before the commit, so the writes of *)
(* one call are one step.                                                  *)
(*                                                                         *)
(* Not modelled: the vendor's own changes of stock and promotion, items    *)
(* whose stock is not tracked, the period and the budget of a promotion.   *)
(***************************************************************************)
EXTENDS Integers, FiniteSets, Functions

CONSTANTS
  Caller,         \* calls, each made once
  Buyer,          \* orders
  Item,           \* items whose stock is tracked
  Stocked,        \* how many there are of each
  Quantity,       \* Quantity[o][i]: how many of an item an order wants
  RedemptionLimit \* how often the promotion may be used

ASSUME CatalogAssumption ==
  /\ IsFiniteSet(Caller) /\ IsFiniteSet(Buyer) /\ IsFiniteSet(Item)
  /\ Stocked \in Nat /\ RedemptionLimit \in Nat
  /\ Quantity \in [Buyer -> [Item -> Nat]]

VARIABLES
  stock,       \* stock of each item
  reservation, \* status of the row each reserve call inserted for an item
  used,        \* redemptionsUsed of the promotion
  redeemed,  \* status of each order's redemption (orderId is unique)
  call,        \* each call: what for, how far, and the rows it read
  crossed      \* history: orders whose rows changed between a read and its writes

catalogVars == <<stock, reservation, used, redeemed, call, crossed>>

StockCall == {"reserve", "release", "consume"}
PromotionCall == {"redeem", "releasePromotion"}
HoldStatus == {"RESERVED", "CONSUMED"}
RowId == Caller \X Item
NoCall == [op |-> "none", order |-> "nobody", at |-> "start", read |-> {}]

\* the reservations of an order, with their status
RowsOf(o) == {<<row, reservation[row]>> : row \in {id \in RowId : call[id[1]].order = o
                                                                  /\ reservation[id] # "none"}}

CatalogTypeOK ==
  /\ stock \in [Item -> Nat]
  /\ reservation \in [RowId -> {"none", "RESERVED", "CONSUMED", "RELEASED"}]
  /\ used \in 0..RedemptionLimit
  /\ redeemed \in [Buyer -> {"none", "REDEEMED", "RELEASED"}]
  /\ \A c \in Caller : /\ call[c].op \in StockCall \union PromotionCall \union {"none"}
                       /\ call[c].order \in Buyer \union {"nobody"}
                       /\ call[c].at \in {"start", "write", "ended"}
  /\ crossed \subseteq Buyer

CatalogInit ==
  /\ stock = [i \in Item |-> Stocked]
  /\ reservation = [row \in RowId |-> "none"]
  /\ used = 0
  /\ redeemed = [o \in Buyer |-> "none"]
  /\ call = [c \in Caller |-> NoCall]
  /\ crossed = {}

(***************************************************************************)
(* A call reads.  One that finds nothing to do ends.                       *)
(***************************************************************************)
Statuses(rows) == {row[2] : row \in rows}

Wants(op, o) ==
  /\ op = "reserve" => Statuses(RowsOf(o)) \intersect HoldStatus = {}
  /\ op = "release" => "RESERVED" \in Statuses(RowsOf(o))

Began(c, op, o, goesOn, rows) ==
  call' = [call EXCEPT ![c] = [op |-> op, order |-> o, read |-> rows,
                               at |-> IF goesOn THEN "write" ELSE "ended"]]

ReadReservations(c, op, o) ==
  /\ call[c].at = "start" /\ op \in {"reserve", "release"}
  /\ Began(c, op, o, Wants(op, o), RowsOf(o))
  /\ UNCHANGED <<stock, reservation, used, redeemed, crossed>>

\* consumeStock is one conditional update of the order's rows
ConsumeStock(c, o) ==
  /\ call[c].at = "start"
  /\ reservation' = [row \in RowId |-> IF <<row, "RESERVED">> \in RowsOf(o) THEN "CONSUMED"
                                       ELSE reservation[row]]
  /\ Began(c, "consume", o, FALSE, {})
  /\ UNCHANGED <<stock, used, redeemed, crossed>>

\* a redemption that exists is returned, whatever its status
ReadRedemption(c, op, o) ==
  /\ call[c].at = "start" /\ op \in PromotionCall
  /\ Began(c, op, o, redeemed[o] = (IF op = "redeem" THEN "none" ELSE "REDEEMED"), {redeemed[o]})
  /\ UNCHANGED <<stock, reservation, used, redeemed, crossed>>

(***************************************************************************)
(* A call writes.                                                          *)
(***************************************************************************)
Ends(c) == call' = [call EXCEPT ![c].at = "ended"]
Writes(c, op) == call[c].at = "write" /\ call[c].op = op
Rows(c) == RowsOf(call[c].order)
Crosses(c, changed) == crossed' = crossed \union (IF changed THEN {call[c].order} ELSE {})

\* UPDATE ... WHERE stock >= qty for each item; one that cannot rolls all back
ReserveStock(c) ==
  LET wanted == Quantity[call[c].order] IN
  /\ Writes(c, "reserve") /\ Ends(c)
  /\ IF \A i \in Item : stock[i] >= wanted[i]
       THEN /\ stock' = [i \in Item |-> stock[i] - wanted[i]]
            /\ reservation' = [row \in RowId |->
                 IF row[1] = c /\ wanted[row[2]] > 0 THEN "RESERVED" ELSE reservation[row]]
            /\ Crosses(c, Rows(c) # call[c].read)
       ELSE UNCHANGED <<stock, reservation, crossed>>
  /\ UNCHANGED <<used, redeemed>>

\* Mutant: what is released is not given back.
GivenBackNothing(c, i) == 0
\* what the rows read as reserved hold of an item
GivenBack(c, i) ==
  Quantity[call[c].order][i]
    * Cardinality({row \in RowId : row[2] = i /\ <<row, "RESERVED">> \in call[c].read})

ReleaseStock(c) ==
  /\ Writes(c, "release") /\ Ends(c)
  /\ stock' = [i \in Item |-> stock[i] + GivenBack(c, i)]
  /\ reservation' = [row \in RowId |->
       IF <<row, "RESERVED">> \in call[c].read THEN "RELEASED" ELSE reservation[row]]
  /\ Crosses(c, Rows(c) # call[c].read)
  /\ UNCHANGED <<used, redeemed>>

\* the limit is looked at again by the update, the row by its unique index
Redeem(c) ==
  /\ Writes(c, "redeem") /\ Ends(c)
  /\ IF used < RedemptionLimit /\ redeemed[call[c].order] = "none"
       THEN /\ used' = used + 1
            /\ redeemed' = [redeemed EXCEPT ![call[c].order] = "REDEEMED"]
       ELSE UNCHANGED <<used, redeemed>>
  /\ UNCHANGED <<stock, reservation, crossed>>

\* floored at zero in the update
OneFewer(n) == IF n > 0 THEN n - 1 ELSE 0

ReleasePromotion(c) ==
  /\ Writes(c, "releasePromotion") /\ Ends(c)
  /\ used' = OneFewer(used)
  /\ redeemed' = [redeemed EXCEPT ![call[c].order] = "RELEASED"]
  /\ Crosses(c, {redeemed[call[c].order]} # call[c].read)
  /\ UNCHANGED <<stock, reservation>>

CatalogNext ==
  \E c \in Caller :
    \/ \E o \in Buyer :
         \/ \E op \in {"reserve", "release"} : ReadReservations(c, op, o)
         \/ ConsumeStock(c, o)
         \/ \E op \in PromotionCall : ReadRedemption(c, op, o)
    \/ ReserveStock(c) \/ ReleaseStock(c) \/ Redeem(c) \/ ReleasePromotion(c)

CatalogSpec == CatalogInit /\ [][CatalogNext]_catalogVars

(***************************************************************************)
(* Properties.                                                             *)
(***************************************************************************)
\* the rows an order holds or took, and those of an item
Holding(o) == {w[1] : w \in {row \in RowsOf(o) : row[2] \in HoldStatus}}
HoldingOf(o, i) == {row \in Holding(o) : row[2] = i}
\* how many of an item orders hold or took
HeldTotal(i) == SumFunctionOnSet([o \in Buyer |-> Quantity[o][i] * Cardinality(HoldingOf(o, i))], Buyer)

\* The counters agree with the rows ("atomically reserve quantity-tracked
\* stock"), whatever calls of different orders do at the same time: what is in
\* stock and what orders hold or took is what there was; an order holds all of
\* what it wants or nothing, and once; the promotion's uses are its redemptions; no
\* counter is below zero.
\* Only two calls of one order may break it, when one writes between the other's
\* read and its writes.
CatalogBooks ==
  /\ CatalogTypeOK
  /\ crossed = {} =>
       /\ \A i \in Item : stock[i] + HeldTotal(i) = Stocked
       /\ used = Cardinality({o \in Buyer : redeemed[o] = "REDEEMED"})
  /\ \A o \in Buyer \ crossed :
       \/ Holding(o) = {}
       \/ \A i \in Item : Quantity[o][i] > 0 => Cardinality(HoldingOf(o, i)) = 1
=============================================================================
