---- MODULE ShopCart ----
(***************************************************************************)
(* The cart of a browser tab: frontend/src/cart.ts with the components     *)
(* that call it, CatalogGrid.tsx and CartPanel.tsx, and the effect of      *)
(* App.tsx that follows the catalog.  The catalog a tab has seen is a copy *)
(* that is out of date as soon as somebody else buys.                      *)
(*                                                                         *)
(* One input has the focus at a time, and loses it, which commits its      *)
(* line, before a button is clicked.                                       *)
(***************************************************************************)
EXTENDS Integers, Sequences, FiniteSetsExt, SequencesExt

CONSTANTS
  Skus,         \* the products a catalog may list
  Tabs,         \* the tabs of the page
  Unknown,      \* availableQuantity = null
  Blank,        \* an input that is no number
  MaxQuantity,  \* bound: the quantities a user picks, and a line has by picking
  Typed         \* bound: what a user types

ASSUME SkusAssumption == IsFiniteSet(Skus)
ASSUME MaxQuantityAssumption == MaxQuantity \in Nat \ {0}
ASSUME InputsAssumption ==
  /\ Unknown \notin Int /\ Blank \notin Int
  /\ Typed \subseteq Nat \cup {Blank}

VARIABLES
  seen,    \* the catalog the tab shows: the quantity of each SKU listed
  cart,    \* its cart: the line of each SKU in it
  typing   \* the input with the focus, if any: its SKU and what was typed

cartVars == <<seen, cart, typing>>

CartLine == [quantity : Nat, max : Nat, unknown : BOOLEAN]
(* A catalog, and a cart: functions on some of the SKUs. *)
Maps(f, values) == DOMAIN f \subseteq Skus /\ f \in [DOMAIN f -> values]
Nobody == [sku |-> Blank, value |-> Blank]
Typing == [sku : Skus, value : Typed] \cup {Nobody}

Empty == [s \in {} |-> Blank]
With(lines, s, line) ==
  [x \in DOMAIN lines \cup {s} |-> IF x = s THEN line ELSE lines[x]]
Without(lines, s) == [x \in DOMAIN lines \ {s} |-> lines[x]]

-----------------------------------------------------------------------------
(* cart.ts *)

(* Faulty: what was typed is taken as it is. *)
ClampLine_AnyLow(line, quantity) ==
  IF line.unknown THEN quantity ELSE Min({quantity, line.max})
ClampLine(line, quantity) ==
  IF line.unknown THEN Max({quantity, 1}) ELSE Min({Max({quantity, 1}), line.max})

(* addToCart, when the SKU has a line already. *)
Joined(line, item) ==
  IF line.unknown \/ item.unknown
  THEN [quantity |-> line.quantity + item.quantity, unknown |-> TRUE,
        max |-> Max({line.max, item.max, line.quantity + item.quantity})]
  ELSE [line EXCEPT !.quantity = Min({@ + item.quantity, line.max, item.max})]

Updated(line, quantity) ==
  LET next == ClampLine(line, quantity)
  IN [line EXCEPT !.quantity = next, !.max = IF line.unknown THEN Max({@, next}) ELSE @]

(* Faulty: the quantity stays when the limit falls. *)
Synced_KeepsQuantity(line, available) ==
  [line EXCEPT !.unknown = available = Unknown, !.max = IF available = Unknown THEN @ ELSE available]
(* A line whose limit is 0, or was when the stock became unknown, is zeroed. *)
Synced(line, available) ==
  LET max == IF available = Unknown THEN line.max ELSE available
  IN [quantity |-> Min({line.quantity, max}), max |-> max, unknown |-> available = Unknown]

SyncCart(lines, rows) ==
  [s \in DOMAIN lines |-> IF s \in DOMAIN rows THEN Synced(lines[s], rows[s]) ELSE lines[s]]

-----------------------------------------------------------------------------
(* CatalogGrid.tsx *)

Item(available, selected) ==
  IF available = Unknown
  THEN [quantity |-> selected, max |-> selected, unknown |-> TRUE]
  ELSE [quantity |-> Min({selected, available}), max |-> available, unknown |-> FALSE]

AddToCart(t, s, selected) ==
  /\ typing[t] = Nobody
  /\ s \in DOMAIN seen[t]
  /\ seen[t][s] # 0
  /\ LET item == Item(seen[t][s], selected)
         line == IF s \in DOMAIN cart[t] THEN Joined(cart[t][s], item) ELSE item
     IN /\ line.quantity <= MaxQuantity
        /\ cart' = [cart EXCEPT ![t] = With(@, s, line)]
  /\ UNCHANGED <<seen, typing>>

-----------------------------------------------------------------------------
(* CartPanel.tsx *)

Type(t, s, value) ==
  /\ s \in DOMAIN cart[t]
  /\ typing[t] = Nobody \/ typing[t].sku = s
  /\ typing' = [typing EXCEPT ![t] = [sku |-> s, value |-> value]]
  /\ UNCHANGED <<seen, cart>>

(* commitLineQuantity: the line as it is to be bought.  An input that is no number *)
(* leaves the quantity in the cart as it is, 0 too, unless the limit moves.        *)
Committed(line, value) == Updated(line, IF value = Blank THEN line.quantity ELSE value)

Blur(t) ==
  /\ typing[t] # Nobody
  /\ LET line == cart[t][typing[t].sku]
         next == Committed(line, typing[t].value)
     IN cart' = IF typing[t].value = Blank /\ next.max = line.max THEN cart
                ELSE [cart EXCEPT ![t] = With(@, typing[t].sku, next)]
  /\ typing' = [typing EXCEPT ![t] = Nobody]
  /\ UNCHANGED seen

RemoveLine(t, s) ==
  /\ typing[t] = Nobody
  /\ s \in DOMAIN cart[t]
  /\ cart' = [cart EXCEPT ![t] = Without(@, s)]
  /\ UNCHANGED <<seen, typing>>

(* The button is enabled. *)
MayPlace(t) ==
  /\ typing[t] = Nobody
  /\ DOMAIN cart[t] # {}
  /\ \A s \in DOMAIN cart[t] : cart[t][s].unknown \/ cart[t][s].max # 0

(* resolveDisplayLines: what the line says when its input shows its quantity. *)
Displayed(line) == ClampLine(line, line.quantity)

(* commitAllLines, and the items of the request. *)
CommittedCart(lines) == [s \in DOMAIN lines |-> Committed(lines[s], lines[s].quantity)]
ItemsOf(lines) ==
  LET skus == SetToSeq(DOMAIN lines)
  IN [i \in DOMAIN skus |-> [sku |-> skus[i], quantity |-> lines[skus[i]].quantity]]

-----------------------------------------------------------------------------
(* App.tsx: a catalog arrives, and the cart follows it. *)
SeeCatalog(t, rows) ==
  /\ seen' = [seen EXCEPT ![t] = rows]
  /\ cart' = [cart EXCEPT ![t] = SyncCart(@, rows)]
  /\ UNCHANGED typing

CartInit ==
  /\ seen = [t \in Tabs |-> Empty]
  /\ cart = [t \in Tabs |-> Empty]
  /\ typing = [t \in Tabs |-> Nobody]

-----------------------------------------------------------------------------
CartTypeOK ==
  /\ DOMAIN seen = Tabs /\ \A t \in Tabs : Maps(seen[t], Nat \cup {Unknown})
  /\ DOMAIN cart = Tabs /\ \A t \in Tabs : Maps(cart[t], CartLine)
  /\ typing \in [Tabs -> Typing]
  /\ \A t \in Tabs : typing[t] # Nobody => typing[t].sku \in DOMAIN cart[t]

(* A line follows the catalog the tab shows: it is limited by the stock seen, and *)
(* unlimited only if that is unknown (cart.ts:71-103).                            *)
FollowsCatalog(lines, rows) ==
  \A s \in DOMAIN lines \cap DOMAIN rows :
    IF rows[s] = Unknown THEN lines[s].unknown
    ELSE ~lines[s].unknown /\ lines[s].max = rows[s]
LineFits(line) == line.quantity <= line.max
CartFits ==
  \A t \in Tabs : /\ FollowsCatalog(cart[t], seen[t])
                  /\ \A s \in DOMAIN cart[t] : LineFits(cart[t][s])
====
