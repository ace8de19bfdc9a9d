CONSTANTS
  s1 = s1
  s2 = s2
  soup = soup
  Sales <- TillSales
  Baskets <- TillBaskets
  Basket <- TillBasket
SYMMETRY Same
SPECIFICATION Spec
INVARIANTS RefusedStaysOut
CHECK_DEADLOCK FALSE
