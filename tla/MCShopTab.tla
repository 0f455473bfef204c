---- MODULE MCShopTab ----
(* ShopTab on small sets. *)
EXTENDS ShopTab, TLC

FromPage == {"checkout", "confirm"}

(* The members of each set are interchangeable, the tab's requests among themselves. *)
Symmetry == Permutations(Sessions) \cup Permutations(Shopper) \cup Permutations(Keys)
              \cup Permutations(HoldIds) \cup Permutations(OrderIds)
====
