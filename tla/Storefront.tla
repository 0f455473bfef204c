---- MODULE Storefront ----
(***************************************************************************)
(* The carts of several tabs on top of the stock they compete for, with    *)
(* clients of the API that send lines of their own.  What becomes of a     *)
(* hold is the saga's business (CheckoutSaga): here it may be released and *)
(* fulfilled at any time, and the answer to the tab may be any.            *)
(***************************************************************************)
EXTENDS IhmsStock, ShopCart

CONSTANTS
  Clients,      \* the other clients of the API
  ClientLines,  \* bound: the items they send
  JsonSkus      \* the SKUs of the JSON catalog

ASSUME ProductsAssumption == Products = Skus
ASSUME BuyersAssumption == Buyers = Tabs \cup Clients /\ Tabs \cap Clients = {}
ASSUME ClientsAssumption ==
  /\ JsonSkus \subseteq Skus
  /\ ClientLines \subseteq Seq(Line)
  /\ \A lines \in ClientLines : \A i \in DOMAIN lines : lines[i].quantity > 0

storeVars == <<stockVars, cartVars>>

(* placeOrder.isPending: the catalog's buttons and Place order are disabled. *)
Busy(t) == call[t].at # "idle"

Shopping(t) ==
  \/ \E s \in Skus, selected \in 1..MaxQuantity : ~Busy(t) /\ AddToCart(t, s, selected)
  \/ \E s \in Skus, value \in Typed : Type(t, s, value)
  \/ \E s \in Skus : RemoveLine(t, s)
  \/ Blur(t)

(* GET /catalog: KB-IHMS's stock, or the JSON catalog, joined with it, with no stock *)
(* or with unknown stock.                                                            *)
CatalogReplies ==
  {inventory, [s \in JsonSkus |-> inventory[s]],
   [s \in JsonSkus |-> 0], [s \in JsonSkus |-> Unknown]}

Browse(t) ==
  /\ Shopping(t) \/ \E rows \in CatalogReplies : SeeCatalog(t, rows)
  /\ UNCHANGED stockVars

(* What the cart says at the click, of each product. *)
DisplayedCart(lines) ==
  [s \in Skus |-> IF s \in DOMAIN lines THEN Displayed(lines[s]) ELSE 0]

PlaceOrder(t) ==
  /\ MayPlace(t)
  /\ PlaceHold(t, ItemsOf(CommittedCart(cart[t])), DisplayedCart(cart[t]))
  /\ cart' = [cart EXCEPT ![t] = CommittedCart(@)]
  /\ UNCHANGED <<seen, typing>>

(* Faulty: an emptied cart leaves an input to be committed. *)
Answered_KeepsFocus(t) ==
  /\ Returned(t)
  /\ call' = [call EXCEPT ![t] = NoCall]
  /\ cart' = [cart EXCEPT ![t] = Empty] \/ UNCHANGED cart
  /\ UNCHANGED <<inventory, holds, seen, typing>>
(* The answer: a completed order empties the cart, a pending one takes the panel, *)
(* and the focus, away; an error leaves everything to the user.                   *)
Answered(t) ==
  /\ Returned(t)
  /\ call' = [call EXCEPT ![t] = NoCall]
  /\ \/ /\ call[t].at = "held"
        /\ cart' = [cart EXCEPT ![t] = Empty] \/ UNCHANGED cart
        /\ typing' = [typing EXCEPT ![t] = Nobody]
     \/ UNCHANGED <<cart, typing>>
  /\ UNCHANGED <<inventory, holds, seen>>

ClientOrders(c) ==
  /\ \E lines \in ClientLines : PlaceHold(c, lines, Total(lines))
  /\ UNCHANGED cartVars

ClientAnswered(c) ==
  /\ Returned(c)
  /\ call' = [call EXCEPT ![c] = NoCall]
  /\ UNCHANGED <<inventory, holds, cartVars>>

StoreInit == StockInit /\ CartInit

StoreNext ==
  \/ \E t \in Tabs : Browse(t) \/ PlaceOrder(t) \/ Answered(t)
  \/ \E c \in Clients : ClientOrders(c) \/ ClientAnswered(c)
  \/ StockStep /\ UNCHANGED cartVars

StoreSpec == StoreInit /\ [][StoreNext]_storeVars

-----------------------------------------------------------------------------
StoreTypeOK == StockTypeOK /\ CartTypeOK

(* What the page orders is at least one of each product, or the API refuses it    *)
(* (routes.py:237), and of a product whose stock it shows no more than that, even *)
(* after a line was zeroed and the stock has come back (App.tsx:87, cart.ts:85).  *)
Orders(t) == call[t].at = "idle" /\ call'[t].at = "stock"
SentFits ==
  [][\A t \in Tabs : Orders(t) =>
       \A i \in DOMAIN call'[t].lines :
         LET line == call'[t].lines[i]
         IN /\ line.quantity >= 1
            /\ line.sku \in DOMAIN seen[t] /\ seen[t][line.sku] # Unknown
                 => line.quantity <= seen[t][line.sku]]_storeVars
====
