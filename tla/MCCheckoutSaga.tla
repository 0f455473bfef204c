---- MODULE MCCheckoutSaga ----
(* CheckoutSaga on small sets. *)
EXTENDS CheckoutSaga, TLC

AllOps == {"hold", "confirm", "abandon", "place_order", "checkout"}
NoAbandon == AllOps \ {"abandon"}
FromCheckout == {"checkout", "confirm", "abandon"}

(* The members of each set are interchangeable. *)
Symmetry == Permutations(Sessions) \cup Permutations(Requests) \cup Permutations(Keys)
              \cup Permutations(HoldIds) \cup Permutations(OrderIds)
====
