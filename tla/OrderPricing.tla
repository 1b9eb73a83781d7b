----------------------------- MODULE OrderPricing -----------------------------
(***************************************************************************)
(* From the items a client names to the bill and its value added tax: the  *)
(* normal form that idempotency compares, the price snapshot, the units of *)
(* the bill and the tax of each.  These are pure functions; the state is   *)
(* only the list of items that a client puts together.                     *)
(*                                                                         *)
(* Amounts are whole cents and far from the safe-integer limit.  A taste   *)
(* is treated by the code as a size that costs nothing and is left out, as *)
(* are bills with a unit of unknown tax category, which carry no tax at    *)
(* all.  The SHA-256 fingerprint stands for the normal form itself.        *)
(* Tax groups are told apart by rate alone: each tax category has its own. *)
(***************************************************************************)
EXTENDS Naturals, Sequences, FiniteSets, SequencesExt

CONSTANTS
  Food,         \* catalog ids, numbers
  Size,         \* size ids, numbers; 0 is no size
  Note,         \* item notes
  Price,        \* Food -> cents
  moneyAdded,   \* Size -> cents
  rateBps,      \* Food -> tax rate in 1/10000
  MaxItems,     \* bound: the longest list
  MaxQuantity   \* bound: the largest quantity of one entry

ASSUME PricingAssumption ==
  /\ Food \subseteq Nat /\ Size \subseteq Nat /\ 0 \in Size
  /\ Price \in [Food -> Nat] /\ moneyAdded \in [Size -> Nat] /\ moneyAdded[0] = 0
  /\ rateBps \in [Food -> Nat \ {0}]
  /\ MaxItems \in Nat /\ MaxQuantity \in Nat

VARIABLE items   \* the request body's items, in the client's order

Item == [foodId : Food, foodSizeId : Size, note : Note, quantity : 1..MaxQuantity]

AddItem(item) == Len(items) < MaxItems /\ items' = Append(items, item)

Init == items = <<>>
Next == \E item \in Item : AddItem(item)
Spec == Init /\ [][Next]_items

-----------------------------------------------------------------------------
(* normalizeOrderIntent: equal selections are grouped, groups sorted.      *)

KeyWithoutNote(item) == <<item.foodId, item.foodSizeId>>      \* Variation
Key(item) == <<item.foodId, item.foodSizeId, item.note>>

AddToGroup(groups, item) ==
  IF \E n \in DOMAIN groups : Key(groups[n]) = Key(item)
  THEN [n \in DOMAIN groups |->
          IF Key(groups[n]) = Key(item)
          THEN [groups[n] EXCEPT !.quantity = @ + item.quantity] ELSE groups[n]]
  ELSE Append(groups, item)

grouped(list) ==
  LET after[n \in 0..Len(list)] ==
        IF n = 0 THEN <<>> ELSE AddToGroup(after[n - 1], list[n])
  IN after[Len(list)]

LessByFood(a, b) == a.foodId < b.foodId                       \* Variation
Less(a, b) ==
  \/ a.foodId < b.foodId
  \/ a.foodId = b.foodId /\ a.foodSizeId < b.foodSizeId

\* Equal elements keep their order.
Before(seq, m, n) == \/ Less(seq[m], seq[n])
                     \/ ~Less(seq[n], seq[m]) /\ m < n
Place(seq, n) == Cardinality({m \in DOMAIN seq : Before(seq, m, n)}) + 1
StableSort(seq) == [k \in DOMAIN seq |-> seq[CHOOSE n \in DOMAIN seq : Place(seq, n) = k]]

normalizeOrderIntent(list) == StableSort(grouped(list))

-----------------------------------------------------------------------------
(* buildSnapshot and expandBillDetails: prices, then one line per unit.    *)

unitTotal(item) == Price[item.foodId] + moneyAdded[item.foodSizeId]
lineTotal(item) == unitTotal(item) * item.quantity
total(list) == SumFunction([n \in DOMAIN list |-> lineTotal(list[n])])

UnitsOf(item) == [n \in 1..item.quantity |->
                    [gross |-> unitTotal(item), rate |-> rateBps[item.foodId]]]
expandBillDetails(list) == FlattenSeq([n \in DOMAIN list |-> UnitsOf(list[n])])

-----------------------------------------------------------------------------
(* finalizeBillVat: tax is rounded once per rate, and its cents go to the  *)
(* units with the largest remainders.                                      *)

GroupOf(units, rate) == {n \in DOMAIN units : units[n].rate = rate}
Gross(units, group) == SumFunction([n \in group |-> units[n].gross])
divisor(rate) == 10000 + rate

RoundedDown(gross, rate) == (gross * rate) \div divisor(rate)   \* Variation
Tax(gross, rate) == (gross * rate * 2 + divisor(rate)) \div (divisor(rate) * 2)

floor(unit) == (unit.gross * unit.rate) \div divisor(unit.rate)
remainder(unit) == (unit.gross * unit.rate) % divisor(unit.rate)

FirstInLine(units, group, n) == {m \in group : m < n}             \* Variation
\* The units that get a cent before unit n does.
Ahead(units, group, n) ==
  {m \in group : \/ remainder(units[m]) > remainder(units[n])
                 \/ remainder(units[m]) = remainder(units[n]) /\ m < n}

taxByUnit(units) ==
  LET rates == {units[n].rate : n \in DOMAIN units}
      left == [rate \in rates |->
                 LET group == GroupOf(units, rate)
                 IN Tax(Gross(units, group), rate)
                      - SumFunction([n \in group |-> floor(units[n])])]
  IN [n \in DOMAIN units |->
        LET rate == units[n].rate
            before == Ahead(units, GroupOf(units, rate), n)
        IN floor(units[n]) + IF Cardinality(before) < left[rate] THEN 1 ELSE 0]

-----------------------------------------------------------------------------
Intent == normalizeOrderIntent(items)
Bill == expandBillDetails(Intent)

\* Normalising loses and invents nothing: each selection, notes included, is there
\* once with the quantity the client asked for in all, and the units of the bill add up
\* to the price of the list as it was sent.
SelectionsKept ==
  LET selection(i) == <<i.foodId, i.foodSizeId, i.note>>
      quantity(list, s) ==
        SumFunction([n \in DOMAIN list |->
                       IF selection(list[n]) = s THEN list[n].quantity ELSE 0])
      intent == Intent
      bill == Bill
  IN
  /\ \A n \in DOMAIN items :
        quantity(intent, selection(items[n])) = quantity(items, selection(items[n]))
  /\ \A m, n \in DOMAIN intent : selection(intent[m]) = selection(intent[n]) => m = n
  /\ Gross(bill, DOMAIN bill) = total(items)

Reordered(list, p) == [n \in DOMAIN list |-> list[p[n]]]
Orderings(list) == {p \in [DOMAIN list -> DOMAIN list] :
                      \A m, n \in DOMAIN list : p[m] = p[n] => m = n}

\* What order-pricing.js says of the grouping: harmless item ordering cannot bypass
\* idempotency, as every order of the same items has the same fingerprint.
OrderIsHarmless ==
  LET intent == Intent
  IN \A p \in Orderings(items) : normalizeOrderIntent(Reordered(items, p)) = intent

\* It is so whenever no selection is there with two different notes.
OrderOfPlainItemsIsHarmless ==
  (\A m, n \in DOMAIN items :
      items[m].foodId = items[n].foodId /\ items[m].foodSizeId = items[n].foodSizeId
      => items[m].note = items[n].note)
  => OrderIsHarmless

\* The tax of all units of one rate is the tax contained in their gross sum, rounded
\* half up to a cent, however the units are split over items.
TaxRoundedOncePerRate ==
  LET bill == Bill
      taxes == taxByUnit(bill)
  IN
  \A rate \in {bill[n].rate : n \in DOMAIN bill} :
    LET group == GroupOf(bill, rate)
        tax == SumFunction([n \in group |-> taxes[n]])
        twice == 2 * Gross(bill, group) * rate
    IN /\ 2 * tax * divisor(rate) <= twice + divisor(rate)
       /\ twice + divisor(rate) < 2 * (tax + 1) * divisor(rate)

\* No unit is a cent or more away from its own exact share, what costs nothing bears
\* no tax, and a unit of higher price at one rate never bears less.
TaxSharesAreFair ==
  LET bill == Bill
      taxes == taxByUnit(bill)
  IN
  \A m, n \in DOMAIN bill :
    /\ taxes[n] - floor(bill[n]) \in {0, 1}
    /\ taxes[n] > floor(bill[n]) => remainder(bill[n]) > 0
    /\ bill[m].rate = bill[n].rate /\ bill[m].gross < bill[n].gross => taxes[m] <= taxes[n]
=============================================================================
