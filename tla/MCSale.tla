------------------------------- MODULE MCSale -------------------------------
(* A basket that is rung up twice.                                          *)
EXTENDS SaleJournal, TLC
CONSTANTS s1, s2, soup
TillSales == {s1, s2}
TillBaskets == {soup}
TillBasket == [s \in TillSales |-> soup]
Same == Permutations(TillSales)
=============================================================================
