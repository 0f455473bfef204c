---- MODULE MCStorefront ----
(* Storefront on small sets. *)
EXTENDS Storefront, TLC

CONSTANTS sku1, sku2, tab1, client1

TwoSkus == {sku1, sku2}
OneInJson == {sku1}
InStock == [s \in TwoSkus |-> IF s = sku1 THEN 2 ELSE 1]
(* Nothing, and as much as there may be, which is more than there is of one product. *)
SomeInputs == {Blank, MaxQuantity}
TabAndClient == {tab1, client1}

(* An order of one line, and one of two lines of the same product. *)
FewLines == {<<[sku |-> sku1, quantity |-> 2]>>,
             <<[sku |-> sku1, quantity |-> 1], [sku |-> sku1, quantity |-> 1]>>}
(* KB-IHMS's hold ids are interchangeable. *)
Symmetry == Permutations(HoldIds)
====
