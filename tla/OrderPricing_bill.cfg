\* Lists of up to three entries over four foods.
SPECIFICATION Spec
CONSTANTS
  Food = {1, 2, 3, 4}
  Size = {0, 7}
  Note = {"", "no onion"}
  Price <- MCPrice
  moneyAdded <- MCMoneyAdded
  rateBps <- MCRate
  MaxItems = 3
  MaxQuantity = 2
CHECK_DEADLOCK FALSE
INVARIANTS
  SelectionsKept
  OrderOfPlainItemsIsHarmless
  TaxRoundedOncePerRate
  TaxSharesAreFair
