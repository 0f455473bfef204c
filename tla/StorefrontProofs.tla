---- MODULE StorefrontProofs ----
(***************************************************************************)
(* Proofs about Storefront, for any number of tabs, clients, products and  *)
(* holds: the stock is never oversold, made or lost, a hold is what the    *)
(* cart asked for, and a cart stays within the catalog its tab shows.      *)
(***************************************************************************)
EXTENDS Storefront, IhmsStockProofs

-----------------------------------------------------------------------------
(* Arithmetic of cart.ts *)

LEMMA MaxOfTwo ==
  ASSUME NEW a \in Int, NEW b \in Int
  PROVE  Max({a, b}) = IF a >= b THEN a ELSE b
BY DEF Max

LEMMA MinOfTwo ==
  ASSUME NEW a \in Int, NEW b \in Int
  PROVE  Min({a, b}) = IF a <= b THEN a ELSE b
BY DEF Min

LEMMA MaxOfThree ==
  ASSUME NEW a \in Int, NEW b \in Int, NEW c \in Int
  PROVE  /\ Max({a, b, c}) \in {a, b, c}
         /\ Max({a, b, c}) >= a /\ Max({a, b, c}) >= b /\ Max({a, b, c}) >= c
<1>1. \E x \in {a, b, c} : \A y \in {a, b, c} : x >= y
  <2>1. CASE a >= b /\ a >= c BY <2>1
  <2>2. CASE b >= a /\ b >= c BY <2>2
  <2>3. CASE c >= a /\ c >= b BY <2>3
  <2> QED BY <2>1, <2>2, <2>3
<1> QED BY <1>1 DEF Max

(* clampLine: at least one, and within a known limit. *)
LEMMA Clamped ==
  ASSUME NEW line \in CartLine, NEW q \in Nat
  PROVE  /\ ClampLine(line, q) \in Nat
         /\ ~line.unknown => ClampLine(line, q) <= line.max
         /\ line.unknown \/ line.max # 0 => ClampLine(line, q) >= 1
<1> DEFINE low == Max({q, 1})
<1>1. line.max \in Nat /\ line.unknown \in BOOLEAN BY DEF CartLine
<1>2. low = IF q >= 1 THEN q ELSE 1 BY MaxOfTwo
<1>3. low \in Nat /\ low >= 1 BY <1>2
<1>4. CASE line.unknown
  <2>1. ClampLine(line, q) = low BY <1>4 DEF ClampLine
  <2> QED BY <1>3, <1>4, <2>1
<1>5. CASE ~line.unknown
  <2>1. ClampLine(line, q) = Min({low, line.max}) BY <1>5 DEF ClampLine
  <2> HIDE DEF low
  <2>2. ClampLine(line, q) = IF low <= line.max THEN low ELSE line.max
    BY <1>1, <1>3, <2>1, MinOfTwo
  <2> QED BY <1>1, <1>3, <1>5, <2>2
<1> QED BY <1>4, <1>5

(* A line that may be shown beside a row of the catalog. *)
Follows(line, available) ==
  IF available = Unknown THEN line.unknown ELSE ~line.unknown /\ line.max = available

LEMMA UpdatedFits ==
  ASSUME NEW line \in CartLine, LineFits(line), NEW q \in Nat
  PROVE  /\ Updated(line, q) \in CartLine /\ LineFits(Updated(line, q))
         /\ Updated(line, q).quantity = ClampLine(line, q)
         /\ Updated(line, q).unknown = line.unknown
         /\ ~line.unknown => Updated(line, q).max = line.max
<1> DEFINE n == ClampLine(line, q)
<1>1. n \in Nat /\ (~line.unknown => n <= line.max) BY Clamped
<1> HIDE DEF n
<1>2. Updated(line, q) =
        [line EXCEPT !.quantity = n, !.max = IF line.unknown THEN Max({line.max, n}) ELSE line.max]
  BY DEF Updated, n, CartLine
<1>3. line.max \in Nat /\ line.unknown \in BOOLEAN BY DEF CartLine
<1>4. Max({line.max, n}) = IF line.max >= n THEN line.max ELSE n BY <1>1, <1>3, MaxOfTwo
<1>5. Updated(line, q) = [quantity |-> n, unknown |-> line.unknown,
                          max |-> IF line.unknown THEN Max({line.max, n}) ELSE line.max]
  BY <1>2 DEF CartLine
<1> QED BY <1>1, <1>3, <1>4, <1>5 DEF CartLine, LineFits, n

LEMMA SyncedFits ==
  ASSUME NEW line \in CartLine, NEW available \in Nat \cup {Unknown}
  PROVE  /\ Synced(line, available) \in CartLine /\ LineFits(Synced(line, available))
         /\ Follows(Synced(line, available), available)
<1> DEFINE max == IF available = Unknown THEN line.max ELSE available
<1>1. max \in Nat /\ line.quantity \in Nat BY DEF CartLine
<1>2. Min({line.quantity, max}) = IF line.quantity <= max THEN line.quantity ELSE max
  BY <1>1, MinOfTwo
<1>3. Synced(line, available) =
        [quantity |-> Min({line.quantity, max}), max |-> max, unknown |-> available = Unknown]
  BY DEF Synced
<1> DEFINE least == Min({line.quantity, max})
           unknown == available = Unknown
<1>4. unknown \in BOOLEAN OBVIOUS
<1>5. IF available = Unknown THEN unknown ELSE ~unknown /\ max = available OBVIOUS
<1> HIDE DEF max, least, unknown
<1>6. least \in Nat /\ least <= max BY <1>1, <1>2 DEF least
<1>7. Synced(line, available) = [quantity |-> least, max |-> max, unknown |-> unknown]
  BY <1>3 DEF least, unknown
<1> QED BY <1>1, <1>4, <1>5, <1>6, <1>7 DEF CartLine, LineFits, Follows

LEMMA ItemFits ==
  ASSUME NEW available \in Nat \cup {Unknown}, NEW selected \in Nat
  PROVE  /\ Item(available, selected) \in CartLine /\ LineFits(Item(available, selected))
         /\ Follows(Item(available, selected), available)
<1>1. CASE available = Unknown BY <1>1 DEF Item, CartLine, LineFits, Follows
<1>2. CASE available \in Nat /\ available # Unknown
  <2>1. Min({selected, available}) = IF selected <= available THEN selected ELSE available
    BY <1>2, MinOfTwo
  <2> QED BY <1>2, <2>1 DEF Item, CartLine, LineFits, Follows
<1> QED BY <1>1, <1>2

LEMMA JoinedFits ==
  ASSUME NEW line \in CartLine, NEW item \in CartLine, LineFits(line),
         NEW available, Follows(line, available), Follows(item, available)
  PROVE  /\ Joined(line, item) \in CartLine /\ LineFits(Joined(line, item))
         /\ Follows(Joined(line, item), available)
<1>0. /\ line.quantity \in Nat /\ line.max \in Nat /\ line.unknown \in BOOLEAN
      /\ item.quantity \in Nat /\ item.max \in Nat /\ item.unknown \in BOOLEAN
  BY DEF CartLine
<1>1. CASE available = Unknown
  <2> DEFINE q == line.quantity + item.quantity
  <2>1. Joined(line, item) = [quantity |-> q, unknown |-> TRUE, max |-> Max({line.max, item.max, q})]
    BY <1>1 DEF Joined, Follows
  <2>2. q \in Nat BY <1>0
  <2> HIDE DEF q
  <2>3. /\ Max({line.max, item.max, q}) \in {line.max, item.max, q}
        /\ Max({line.max, item.max, q}) >= q
    <3> DEFINE a == line.max
               b == item.max
    <3>1. a \in Int /\ b \in Int /\ q \in Int BY <1>0, <2>2
    <3> HIDE DEF a, b
    <3>2. Max({a, b, q}) \in {a, b, q} /\ Max({a, b, q}) >= q BY <3>1, MaxOfThree
    <3> QED BY <3>2 DEF a, b
  <2>4. Max({line.max, item.max, q}) \in Nat BY <1>0, <2>2, <2>3
  <2> QED BY <1>1, <2>1, <2>2, <2>3, <2>4 DEF CartLine, LineFits, Follows
<1>2. CASE available # Unknown
  <2> DEFINE q == line.quantity + item.quantity
             n == Min({q, line.max, item.max})
  <2>1. ~line.unknown /\ ~item.unknown /\ line.max = available /\ item.max = available
    BY <1>2 DEF Follows
  <2>2. Joined(line, item) = [line EXCEPT !.quantity = n] BY <2>1 DEF Joined, CartLine
  <2>3. {q, line.max, item.max} = {q, line.max} BY <2>1
  <2>4. n = IF q <= line.max THEN q ELSE line.max BY <1>0, <2>3, MinOfTwo
  <2>5. Joined(line, item) = [quantity |-> n, max |-> line.max, unknown |-> line.unknown]
    BY <2>2 DEF CartLine
  <2> QED BY <1>0, <1>2, <2>1, <2>4, <2>5 DEF CartLine, LineFits, Follows
<1> QED BY <1>1, <1>2

-----------------------------------------------------------------------------
(* One tab *)

(* A tab shows catalog `rows` beside cart `lines`, with the focus in `input`. *)
GoodCart(lines, rows) ==
  /\ Maps(lines, CartLine)
  /\ FollowsCatalog(lines, rows)
  /\ \A s \in DOMAIN lines : LineFits(lines[s])
GoodTab(rows, lines, input) ==
  /\ Maps(rows, Nat \cup {Unknown})
  /\ GoodCart(lines, rows)
  /\ input \in Typing
  /\ input # Nobody => input.sku \in DOMAIN lines
TabInv ==
  /\ DOMAIN seen = Tabs /\ DOMAIN cart = Tabs /\ typing \in [Tabs -> Typing]
  /\ \A t \in Tabs : GoodTab(seen[t], cart[t], typing[t])

LEMMA TabInvIs == TabInv <=> CartTypeOK /\ CartFits
BY DEF TabInv, GoodTab, GoodCart, CartTypeOK, CartFits

(* A step of one tab, in terms of what the tab has after it. *)
LEMMA TabMoves ==
  ASSUME TabInv, NEW t \in Tabs, GoodTab(seen'[t], cart'[t], typing'[t]),
         DOMAIN seen' = Tabs, DOMAIN cart' = Tabs, typing' \in [Tabs -> Typing],
         \A u \in Tabs \ {t} : seen'[u] = seen[u] /\ cart'[u] = cart[u] /\ typing'[u] = typing[u]
  PROVE  TabInv'
<1>1. ASSUME NEW u \in Tabs PROVE GoodTab(seen'[u], cart'[u], typing'[u])
  <2>1. CASE u = t BY <2>1
  <2>2. CASE u # t
    <3>1. seen'[u] = seen[u] /\ cart'[u] = cart[u] /\ typing'[u] = typing[u] BY <2>2
    <3> QED BY <3>1 DEF TabInv
  <2> QED BY <2>1, <2>2
<1> QED BY <1>1 DEF TabInv, GoodTab, GoodCart, FollowsCatalog, Maps, LineFits

LEMMA WithGood ==
  ASSUME NEW lines, NEW rows, GoodCart(lines, rows), NEW s \in Skus, NEW line \in CartLine,
         LineFits(line), s \in DOMAIN rows => Follows(line, rows[s])
  PROVE  GoodCart(With(lines, s, line), rows)
<1> DEFINE w == With(lines, s, line)
<1>1. DOMAIN w = DOMAIN lines \cup {s} BY DEF With
<1>2. \A x \in DOMAIN w : w[x] = IF x = s THEN line ELSE lines[x] BY DEF With
<1>3. w = [x \in DOMAIN w |-> w[x]] BY DEF With
<1> HIDE DEF w
<1>4. \A x \in DOMAIN lines : lines[x] \in CartLine BY DEF GoodCart, Maps
<1>5. Maps(w, CartLine) BY <1>1, <1>2, <1>3, <1>4 DEF Maps, GoodCart
<1>6. FollowsCatalog(w, rows)
  <2> SUFFICES ASSUME NEW x \in DOMAIN w \cap DOMAIN rows PROVE Follows(w[x], rows[x])
    BY DEF FollowsCatalog, Follows
  <2>1. CASE x = s BY <1>2, <2>1
  <2>2. CASE x # s
    <3>1. w[x] = lines[x] /\ x \in DOMAIN lines BY <1>1, <1>2, <2>2
    <3> QED BY <3>1 DEF GoodCart, FollowsCatalog, Follows
  <2> QED BY <2>1, <2>2
<1>7. \A x \in DOMAIN w : LineFits(w[x]) BY <1>1, <1>2 DEF GoodCart
<1> QED BY <1>5, <1>6, <1>7 DEF GoodCart, w

LEMMA WithoutGood ==
  ASSUME NEW lines, NEW rows, GoodCart(lines, rows), NEW s
  PROVE  GoodCart(Without(lines, s), rows)
<1> DEFINE w == Without(lines, s)
<1>1. DOMAIN w = DOMAIN lines \ {s} /\ \A x \in DOMAIN w : w[x] = lines[x] BY DEF Without
<1>2. w = [x \in DOMAIN w |-> w[x]] BY DEF Without
<1> HIDE DEF w
<1>3. Maps(w, CartLine) BY <1>1, <1>2 DEF Maps, GoodCart
<1> QED BY <1>1, <1>3 DEF GoodCart, FollowsCatalog, w

LEMMA EmptyGood == ASSUME NEW rows PROVE GoodCart(Empty, rows)
<1>1. DOMAIN Empty = {} BY DEF Empty
<1>2. Empty \in [{} -> CartLine] BY DEF Empty
<1> QED BY <1>1, <1>2 DEF GoodCart, Maps, FollowsCatalog

LEMMA CommittedGood ==
  ASSUME NEW lines, NEW rows, GoodCart(lines, rows)
  PROVE  /\ GoodCart(CommittedCart(lines), rows)
         /\ DOMAIN CommittedCart(lines) = DOMAIN lines
         /\ \A s \in DOMAIN lines : CommittedCart(lines)[s].quantity = Displayed(lines[s])
<1> DEFINE w == CommittedCart(lines)
<1>1. DOMAIN w = DOMAIN lines /\ w = [x \in DOMAIN w |-> w[x]] BY DEF CommittedCart
<1>2. ASSUME NEW s \in DOMAIN lines
      PROVE  /\ w[s] \in CartLine /\ LineFits(w[s])
             /\ w[s].quantity = Displayed(lines[s])
             /\ s \in DOMAIN rows => Follows(w[s], rows[s])
  <2> DEFINE line == lines[s]
  <2>1. line \in CartLine /\ LineFits(line) /\ line.quantity \in Nat
    BY DEF GoodCart, Maps, CartLine
  <2>2. line.quantity # Blank BY <2>1, InputsAssumption
  <2>3. w[s] = Updated(line, line.quantity) BY <2>2 DEF CommittedCart, Committed
  <2>4. s \in DOMAIN rows => Follows(line, rows[s]) BY DEF GoodCart, FollowsCatalog, Follows
  <2> HIDE DEF line, w
  <2>5. /\ w[s] \in CartLine /\ LineFits(w[s])
        /\ w[s].quantity = ClampLine(line, line.quantity)
        /\ w[s].unknown = line.unknown
        /\ ~line.unknown => w[s].max = line.max
    BY <2>1, <2>3, UpdatedFits
  <2>6. s \in DOMAIN rows => Follows(w[s], rows[s]) BY <2>4, <2>5 DEF Follows
  <2> QED BY <2>5, <2>6 DEF Displayed, line
<1> HIDE DEF w
<1>3. Maps(w, CartLine) BY <1>1, <1>2 DEF Maps, GoodCart
<1>4. FollowsCatalog(w, rows) BY <1>1, <1>2 DEF FollowsCatalog, Follows
<1>5. \A s \in DOMAIN w : LineFits(w[s]) BY <1>1, <1>2
<1> QED BY <1>1, <1>2, <1>3, <1>4, <1>5 DEF GoodCart, w

LEMMA SyncedGood ==
  ASSUME NEW lines, NEW old, GoodCart(lines, old), NEW rows, Maps(rows, Nat \cup {Unknown})
  PROVE  GoodCart(SyncCart(lines, rows), rows) /\ DOMAIN SyncCart(lines, rows) = DOMAIN lines
<1> DEFINE w == SyncCart(lines, rows)
<1>1. DOMAIN w = DOMAIN lines /\ w = [x \in DOMAIN w |-> w[x]] BY DEF SyncCart
<1>2. ASSUME NEW s \in DOMAIN lines
      PROVE  /\ w[s] \in CartLine /\ LineFits(w[s])
             /\ s \in DOMAIN rows => Follows(w[s], rows[s])
  <2>1. lines[s] \in CartLine /\ LineFits(lines[s]) BY DEF GoodCart, Maps
  <2>2. CASE s \in DOMAIN rows
    <3>1. rows[s] \in Nat \cup {Unknown} BY <2>2 DEF Maps
    <3>2. w[s] = Synced(lines[s], rows[s]) BY <2>2 DEF SyncCart
    <3> HIDE DEF w
    <3> QED BY <2>1, <3>1, <3>2, SyncedFits
  <2>3. CASE s \notin DOMAIN rows
    <3>1. w[s] = lines[s] BY <2>3 DEF SyncCart
    <3> QED BY <2>1, <2>3, <3>1
  <2> QED BY <2>2, <2>3
<1> HIDE DEF w
<1>3. Maps(w, CartLine) BY <1>1, <1>2 DEF Maps, GoodCart
<1>4. FollowsCatalog(w, rows) BY <1>1, <1>2 DEF FollowsCatalog, Follows
<1>5. \A s \in DOMAIN w : LineFits(w[s]) BY <1>1, <1>2
<1> QED BY <1>1, <1>3, <1>4, <1>5 DEF GoodCart, w

-----------------------------------------------------------------------------
(* What a tab does *)

LEMMA AddToCartStep ==
  ASSUME TabInv, NEW t \in Tabs, NEW s \in Skus, NEW selected \in 1..MaxQuantity,
         AddToCart(t, s, selected)
  PROVE  TabInv'
<1> DEFINE rows == seen[t]
           item == Item(rows[s], selected)
           line == IF s \in DOMAIN cart[t] THEN Joined(cart[t][s], item) ELSE item
<1>1. GoodTab(rows, cart[t], typing[t]) /\ typing[t] = Nobody /\ s \in DOMAIN rows
  BY DEF TabInv, AddToCart
<1>2. rows[s] \in Nat \cup {Unknown} BY <1>1 DEF GoodTab, Maps
<1>3. selected \in Nat BY MaxQuantityAssumption
<1>4. /\ cart' = [cart EXCEPT ![t] = With(@, s, line)]
      /\ seen' = seen /\ typing' = typing
  BY DEF AddToCart
<1> HIDE DEF rows
<1>5. item \in CartLine /\ LineFits(item) /\ Follows(item, rows[s]) BY <1>2, <1>3, ItemFits
<1>6. line \in CartLine /\ LineFits(line) /\ Follows(line, rows[s])
  <2>1. CASE s \in DOMAIN cart[t]
    <3>1. cart[t][s] \in CartLine /\ LineFits(cart[t][s]) /\ Follows(cart[t][s], rows[s])
      BY <1>1, <2>1 DEF GoodTab, GoodCart, Maps, FollowsCatalog, Follows
    <3>2. line = Joined(cart[t][s], item) BY <2>1
    <3> HIDE DEF item, line
    <3> QED BY <1>5, <3>1, <3>2, JoinedFits
  <2>2. CASE s \notin DOMAIN cart[t] BY <1>5, <2>2
  <2> QED BY <2>1, <2>2
<1> HIDE DEF item, line
<1>7. GoodCart(With(cart[t], s, line), rows) BY <1>1, <1>6, WithGood DEF GoodTab
<1>8. GoodTab(seen'[t], cart'[t], typing'[t])
  <2>1. cart'[t] = With(cart[t], s, line) BY <1>4 DEF TabInv
  <2>2. seen'[t] = rows /\ typing'[t] = Nobody BY <1>1, <1>4 DEF rows
  <2>3. Nobody \in Typing BY DEF Typing
  <2> QED BY <1>1, <1>7, <2>1, <2>2, <2>3 DEF GoodTab
<1> QED BY <1>4, <1>8, TabMoves DEF TabInv

LEMMA TypeStep ==
  ASSUME TabInv, NEW t \in Tabs, NEW s \in Skus, NEW value \in Typed,
         Type(t, s, value)
  PROVE  TabInv'
<1> DEFINE input == [sku |-> s, value |-> value]
<1>1. /\ typing' = [typing EXCEPT ![t] = input] /\ s \in DOMAIN cart[t]
      /\ seen' = seen /\ cart' = cart
  BY DEF Type
<1>2. input \in Typing BY DEF Typing
<1>3. typing' \in [Tabs -> Typing] BY <1>1, <1>2 DEF TabInv
<1>4. typing'[t] = input /\ input.sku = s BY <1>1 DEF TabInv
<1>5. GoodTab(seen'[t], cart'[t], typing'[t]) BY <1>1, <1>2, <1>4 DEF TabInv, GoodTab
<1>6. \A u \in Tabs \ {t} : typing'[u] = typing[u] BY <1>1 DEF TabInv
<1> QED BY <1>1, <1>3, <1>5, <1>6, TabMoves DEF TabInv

LEMMA BlurStep ==
  ASSUME TabInv, NEW t \in Tabs, Blur(t)
  PROVE  TabInv'
<1> DEFINE s == typing[t].sku
           value == typing[t].value
           line == cart[t][s]
           next == Committed(line, value)
<1>1. GoodTab(seen[t], cart[t], typing[t]) /\ typing[t] # Nobody BY DEF TabInv, Blur
<1>2. typing[t] \in [sku : Skus, value : Typed]
  BY <1>1 DEF GoodTab, Typing
<1>3. s \in Skus /\ s \in DOMAIN cart[t] /\ value \in Typed
  BY <1>1, <1>2 DEF GoodTab
<1>4. line \in CartLine /\ LineFits(line) /\ line.quantity \in Nat
  BY <1>1, <1>3 DEF GoodTab, GoodCart, Maps, CartLine
<1>5. /\ cart' = IF value = Blank /\ next.max = line.max THEN cart
                 ELSE [cart EXCEPT ![t] = With(@, s, next)]
      /\ typing' = [typing EXCEPT ![t] = Nobody] /\ seen' = seen
  BY DEF Blur
<1>6. next \in CartLine /\ LineFits(next) /\ (s \in DOMAIN seen[t] => Follows(next, seen[t][s]))
  <2> DEFINE q == IF value = Blank THEN line.quantity ELSE value
  <2>1. q \in Nat BY <1>3, <1>4, InputsAssumption
  <2>2. next = Updated(line, q) BY DEF Committed
  <2>3. s \in DOMAIN seen[t] => Follows(line, seen[t][s])
    BY <1>1, <1>3 DEF GoodTab, GoodCart, FollowsCatalog, Follows
  <2> HIDE DEF q, line, next, s
  <2>4. /\ next \in CartLine /\ LineFits(next) /\ next.unknown = line.unknown
        /\ ~line.unknown => next.max = line.max
    BY <1>4, <2>1, <2>2, UpdatedFits
  <2> QED BY <2>3, <2>4 DEF Follows
<1> HIDE DEF next, line, s, value
<1>7. GoodCart(With(cart[t], s, next), seen[t]) BY <1>1, <1>3, <1>6, WithGood DEF GoodTab
<1>8. cart'[t] = cart[t] \/ cart'[t] = With(cart[t], s, next) BY <1>5 DEF TabInv
<1>9. Nobody \in Typing /\ typing'[t] = Nobody BY <1>5 DEF Typing, TabInv
<1>10. GoodTab(seen'[t], cart'[t], typing'[t]) BY <1>1, <1>5, <1>7, <1>8, <1>9 DEF GoodTab
<1>11. /\ DOMAIN cart' = Tabs /\ typing' \in [Tabs -> Typing]
       /\ \A u \in Tabs \ {t} : cart'[u] = cart[u] /\ typing'[u] = typing[u]
  BY <1>5, <1>9 DEF TabInv
<1> QED BY <1>5, <1>10, <1>11, TabMoves DEF TabInv

LEMMA RemoveLineStep ==
  ASSUME TabInv, NEW t \in Tabs, NEW s \in Skus, RemoveLine(t, s)
  PROVE  TabInv'
<1>1. /\ cart' = [cart EXCEPT ![t] = Without(@, s)] /\ typing[t] = Nobody
      /\ seen' = seen /\ typing' = typing
  BY DEF RemoveLine
<1>2. GoodTab(seen[t], cart[t], typing[t]) BY DEF TabInv
<1>3. GoodCart(Without(cart[t], s), seen[t]) BY <1>2, WithoutGood DEF GoodTab
<1>4. cart'[t] = Without(cart[t], s) BY <1>1 DEF TabInv
<1>5. GoodTab(seen'[t], cart'[t], typing'[t]) BY <1>1, <1>2, <1>3, <1>4 DEF GoodTab
<1> QED BY <1>1, <1>5, TabMoves DEF TabInv

LEMMA SeeCatalogStep ==
  ASSUME TabInv, NEW t \in Tabs, NEW rows, Maps(rows, Nat \cup {Unknown}), SeeCatalog(t, rows)
  PROVE  TabInv'
<1>1. /\ cart' = [cart EXCEPT ![t] = SyncCart(@, rows)]
      /\ seen' = [seen EXCEPT ![t] = rows] /\ typing' = typing
  BY DEF SeeCatalog
<1>2. GoodTab(seen[t], cart[t], typing[t]) BY DEF TabInv
<1>3. /\ GoodCart(SyncCart(cart[t], rows), rows)
      /\ DOMAIN SyncCart(cart[t], rows) = DOMAIN cart[t]
  BY <1>2, SyncedGood DEF GoodTab
<1>4. cart'[t] = SyncCart(cart[t], rows) /\ seen'[t] = rows BY <1>1 DEF TabInv
<1>5. GoodTab(seen'[t], cart'[t], typing'[t]) BY <1>1, <1>2, <1>3, <1>4 DEF GoodTab
<1> QED BY <1>1, <1>5, TabMoves DEF TabInv

LEMMA RepliesAreMaps ==
  ASSUME StockInv, NEW rows \in CatalogReplies
  PROVE  Maps(rows, Nat \cup {Unknown})
<1>1. CASE rows = inventory
  <2>1. rows \in [Skus -> Int] /\ \A s \in Skus : rows[s] >= 0
    BY <1>1, ProductsAssumption DEF StockInv, StockTypeOK, NeverOversold
  <2> QED BY <2>1 DEF Maps
<1>2. CASE rows = [s \in JsonSkus |-> 0] BY <1>2, ClientsAssumption DEF Maps
<1>3. CASE rows = [s \in JsonSkus |-> Unknown] BY <1>3, ClientsAssumption DEF Maps
<1>4. CASE rows = [s \in JsonSkus |-> inventory[s]]
  <2>1. \A s \in Skus : inventory[s] \in Int /\ inventory[s] >= 0
    BY ProductsAssumption DEF StockInv, StockTypeOK, NeverOversold
  <2>2. \A s \in JsonSkus : inventory[s] \in Nat BY <2>1, ClientsAssumption
  <2> QED BY <1>4, <2>2, ClientsAssumption DEF Maps
<1> QED BY <1>1, <1>2, <1>3, <1>4 DEF CatalogReplies

LEMMA BrowseStep ==
  ASSUME StockInv, TabInv, NEW t \in Tabs, Browse(t)
  PROVE  TabInv'
BY AddToCartStep, TypeStep, BlurStep, RemoveLineStep, SeeCatalogStep, RepliesAreMaps
   DEF Browse, Shopping

-----------------------------------------------------------------------------
(* The items of an order *)

LEMMA SetToSeqIs ==
  ASSUME NEW S, IsFiniteSet(S)
  PROVE  /\ SetToSeq(S) \in [1..Cardinality(S) -> S] /\ Cardinality(S) \in Nat
         /\ \A i, j \in 1..Cardinality(S) : SetToSeq(S)[i] = SetToSeq(S)[j] => i = j
         /\ \A x \in S : \E i \in 1..Cardinality(S) : SetToSeq(S)[i] = x
<1> DEFINE n == Cardinality(S)
<1>1. n \in Nat /\ ExistsBijection(1..n, S) BY FS_CardinalityType
<1>2. PICK g \in [1..n -> S] : IsInjective(g)
  BY <1>1 DEF ExistsBijection, Bijection, Injection, IsInjective
<1>3. SetToSeq(S) \in [1..n -> S] /\ IsInjective(SetToSeq(S)) BY <1>2 DEF SetToSeq
<1> DEFINE f == SetToSeq(S)
<1> HIDE DEF f, n
<1>4. f \in Injection(1..n, S) BY <1>3 DEF Injection, f
<1>5. IsFiniteSet(1..n) /\ Cardinality(1..n) = n BY <1>1, FS_Interval
<1>6. f \in Surjection(1..n, S)
  BY <1>4, <1>5, FS_Injection DEF n
<1>7. \A x \in S : \E i \in 1..n : f[i] = x BY <1>6 DEF Surjection
<1>8. \A i, j \in 1..n : f[i] = f[j] => i = j BY <1>3 DEF IsInjective, f
<1> QED BY <1>1, <1>3, <1>7, <1>8 DEF f, n

LEMMA ItemsAre ==
  ASSUME NEW lines, Maps(lines, CartLine)
  PROVE  /\ ItemsOf(lines) \in Seq(Line)
         /\ \A i \in DOMAIN ItemsOf(lines) : ItemsOf(lines)[i].sku \in DOMAIN lines
         /\ Total(ItemsOf(lines)) =
              [s \in Skus |-> IF s \in DOMAIN lines THEN lines[s].quantity ELSE 0]
<1> DEFINE S == DOMAIN lines
           f == SetToSeq(S)
           n == Cardinality(S)
           items == ItemsOf(lines)
<1>1. S \in SUBSET Skus /\ \A s \in S : lines[s].quantity \in Nat BY DEF Maps, CartLine
<1>2. IsFiniteSet(S) BY <1>1, FS_Subset, SkusAssumption
<1>3. /\ f \in [1..n -> S] /\ n \in Nat
      /\ \A i, j \in 1..n : f[i] = f[j] => i = j
      /\ \A x \in S : \E i \in 1..n : f[i] = x
  <2> HIDE DEF S
  <2> QED BY <1>2, SetToSeqIs
<1>4. items = [i \in DOMAIN f |-> [sku |-> f[i], quantity |-> lines[f[i]].quantity]]
  BY DEF ItemsOf
<1> HIDE DEF f, n, S, items
<1>5. items = [i \in 1..n |-> [sku |-> f[i], quantity |-> lines[f[i]].quantity]] BY <1>3, <1>4
<1>6. \A i \in 1..n : [sku |-> f[i], quantity |-> lines[f[i]].quantity] \in Line
  BY <1>1, <1>3, ProductsAssumption DEF Line
<1>7. items \in [1..n -> Line] BY <1>5, <1>6
<1>8. items \in Seq(Line) /\ DOMAIN items = 1..n BY <1>3, <1>7
<1>9. \A i \in 1..n : items[i].sku = f[i] /\ items[i].quantity = lines[f[i]].quantity BY <1>5
<1>10. ASSUME NEW s \in Skus
       PROVE  TotalIn(items, DOMAIN items, s) = IF s \in S THEN lines[s].quantity ELSE 0
  <2>1. CASE s \in S
    <3>1. PICK i \in 1..n : f[i] = s BY <1>3, <2>1
    <3> DEFINE rest == DOMAIN items \ {i}
    <3>2. \A j \in rest : items[j].sku # s BY <1>3, <1>8, <1>9, <3>1
    <3>3. TotalIn(items, rest, s) = 0 BY <3>2, TotalInNone
    <3>4. i \in DOMAIN items /\ items[i].sku = s BY <1>8, <1>9, <3>1
    <3>5. DOMAIN items \in SUBSET DOMAIN items OBVIOUS
    <3>6. TotalIn(items, DOMAIN items, s) = items[i].quantity + TotalIn(items, rest, s)
      BY <1>8, <3>4, <3>5, TotalWith
    <3>7. items[i].quantity = lines[s].quantity BY <1>9, <3>1
    <3>8. lines[s].quantity \in Nat BY <1>1, <2>1
    <3> HIDE DEF rest
    <3> QED BY <2>1, <3>3, <3>6, <3>7, <3>8
  <2>2. CASE s \notin S
    <3>1. \A j \in DOMAIN items : items[j].sku # s BY <1>3, <1>8, <1>9, <2>2
    <3> QED BY <2>2, <3>1, TotalInNone
  <2> QED BY <2>1, <2>2
<1>11. Total(items) = [s \in Skus |-> TotalIn(items, DOMAIN items, s)]
  BY ProductsAssumption DEF Total, TotalIn
<1>12. Total(items) = [s \in Skus |-> IF s \in S THEN lines[s].quantity ELSE 0]
  BY <1>10, <1>11
<1>13. \A i \in DOMAIN items : items[i].sku \in S BY <1>3, <1>8, <1>9
<1> QED BY <1>8, <1>12, <1>13 DEF S, items

(* What the page sends is what it shows. *)
LEMMA OrderIsDisplayed ==
  ASSUME NEW lines, NEW rows, GoodCart(lines, rows)
  PROVE  /\ ItemsOf(CommittedCart(lines)) \in Seq(Line)
         /\ \A i \in DOMAIN ItemsOf(CommittedCart(lines)) :
              ItemsOf(CommittedCart(lines))[i].sku \in DOMAIN lines
         /\ Total(ItemsOf(CommittedCart(lines))) = DisplayedCart(lines)
<1> DEFINE w == CommittedCart(lines)
<1>1. /\ Maps(w, CartLine) /\ DOMAIN w = DOMAIN lines
      /\ \A s \in DOMAIN lines : w[s].quantity = Displayed(lines[s])
  BY CommittedGood DEF GoodCart
<1> HIDE DEF w
<1>2. /\ ItemsOf(w) \in Seq(Line)
      /\ \A i \in DOMAIN ItemsOf(w) : ItemsOf(w)[i].sku \in DOMAIN w
      /\ Total(ItemsOf(w)) = [s \in Skus |-> IF s \in DOMAIN w THEN w[s].quantity ELSE 0]
  BY <1>1, ItemsAre
<1>3. DisplayedCart(lines) = [s \in Skus |-> IF s \in DOMAIN w THEN w[s].quantity ELSE 0]
  BY <1>1 DEF DisplayedCart
<1> QED BY <1>1, <1>2, <1>3 DEF w

-----------------------------------------------------------------------------
(* The stock and the carts together *)

StoreInv == StockInv /\ TabInv

LEMMA TabKept ==
  ASSUME TabInv, UNCHANGED cartVars
  PROVE  TabInv'
BY DEF TabInv, cartVars, GoodTab, GoodCart, FollowsCatalog, Maps, LineFits

LEMMA PlaceOrderStep ==
  ASSUME StoreInv, NEW t \in Tabs, PlaceOrder(t)
  PROVE  StoreInv'
<1> DEFINE lines == ItemsOf(CommittedCart(cart[t]))
<1>1. GoodTab(seen[t], cart[t], typing[t]) /\ t \in Buyers
  BY BuyersAssumption DEF StoreInv, TabInv
<1>2. lines \in Seq(Line) /\ Total(lines) = DisplayedCart(cart[t])
  BY <1>1, OrderIsDisplayed DEF GoodTab
<1>3. /\ PlaceHold(t, lines, DisplayedCart(cart[t]))
      /\ cart' = [cart EXCEPT ![t] = CommittedCart(@)] /\ seen' = seen /\ typing' = typing
  BY DEF PlaceOrder
<1> HIDE DEF lines
<1>4. PlaceHold(t, lines, Total(lines)) BY <1>2, <1>3
<1>5. StockInv' BY <1>1, <1>2, <1>4, PlaceHoldStep DEF StoreInv
<1>6. GoodCart(CommittedCart(cart[t]), seen[t]) /\ DOMAIN CommittedCart(cart[t]) = DOMAIN cart[t]
  BY <1>1, CommittedGood DEF GoodTab
<1>7. cart'[t] = CommittedCart(cart[t]) BY <1>3 DEF StoreInv, TabInv
<1>8. GoodTab(seen'[t], cart'[t], typing'[t]) BY <1>1, <1>3, <1>6, <1>7 DEF GoodTab
<1>9. TabInv' BY <1>3, <1>8, TabMoves DEF StoreInv, TabInv
<1> QED BY <1>5, <1>9 DEF StoreInv

LEMMA AnsweredStep ==
  ASSUME StoreInv, NEW t \in Tabs, Answered(t)
  PROVE  StoreInv'
<1>1. /\ call' = [call EXCEPT ![t] = NoCall] /\ UNCHANGED <<inventory, holds>> /\ seen' = seen
      /\ \/ /\ cart' = [cart EXCEPT ![t] = Empty] \/ cart' = cart
            /\ typing' = [typing EXCEPT ![t] = Nobody]
         \/ cart' = cart /\ typing' = typing
  BY DEF Answered
<1>2. call' \in [Buyers -> Call] /\ AsksAll' BY <1>1, CallForgotten, BuyersAssumption DEF StoreInv
<1>3. StockInv' BY <1>1, <1>2, CallStep DEF StoreInv
<1>4. GoodTab(seen[t], cart[t], typing[t]) BY DEF StoreInv, TabInv
<1>5. Nobody \in Typing BY DEF Typing
<1>6. GoodTab(seen[t], Empty, Nobody) /\ GoodTab(seen[t], cart[t], Nobody)
  BY <1>4, <1>5, EmptyGood DEF GoodTab
<1>7. \/ cart'[t] \in {Empty, cart[t]} /\ typing'[t] = Nobody
      \/ cart'[t] = cart[t] /\ typing'[t] = typing[t]
  BY <1>1 DEF StoreInv, TabInv
<1>8. GoodTab(seen'[t], cart'[t], typing'[t]) BY <1>1, <1>4, <1>6, <1>7
<1>9. /\ DOMAIN seen' = Tabs /\ DOMAIN cart' = Tabs /\ typing' \in [Tabs -> Typing]
      /\ \A u \in Tabs \ {t} : cart'[u] = cart[u] /\ typing'[u] = typing[u]
  BY <1>1, <1>5 DEF StoreInv, TabInv
<1>10. TabInv' BY <1>1, <1>8, <1>9, TabMoves DEF StoreInv
<1> QED BY <1>3, <1>10 DEF StoreInv

LEMMA ClientStep ==
  ASSUME StoreInv, NEW c \in Clients, ClientOrders(c) \/ ClientAnswered(c)
  PROVE  StoreInv'
<1>0. c \in Buyers BY BuyersAssumption
<1>1. CASE ClientOrders(c)
  <2>1. PICK lines \in ClientLines : PlaceHold(c, lines, Total(lines)) BY <1>1 DEF ClientOrders
  <2>2. lines \in Seq(Line) BY ClientsAssumption
  <2>3. StockInv' BY <1>0, <2>1, <2>2, PlaceHoldStep DEF StoreInv
  <2>4. TabInv' BY <1>1, TabKept DEF StoreInv, ClientOrders
  <2> QED BY <2>3, <2>4 DEF StoreInv
<1>2. CASE ClientAnswered(c)
  <2>1. /\ call' = [call EXCEPT ![c] = NoCall] /\ UNCHANGED <<inventory, holds>>
        /\ UNCHANGED cartVars
    BY <1>2 DEF ClientAnswered
  <2>2. call' \in [Buyers -> Call] /\ AsksAll' BY <1>0, <2>1, CallForgotten DEF StoreInv
  <2>3. StockInv' BY <2>1, <2>2, CallStep DEF StoreInv
  <2>4. TabInv' BY <2>1, TabKept DEF StoreInv
  <2> QED BY <2>3, <2>4 DEF StoreInv
<1> QED BY <1>1, <1>2

LEMMA StockKept ==
  ASSUME StockInv, UNCHANGED stockVars
  PROVE  StockInv'
<1>1. UNCHANGED <<inventory, holds>> /\ call' = call BY DEF stockVars
<1>2. AsksAll' BY <1>1, CallKept DEF StockInv
<1>3. call' \in [Buyers -> Call] BY <1>1 DEF StockInv, StockTypeOK
<1> QED BY <1>1, <1>2, <1>3, CallStep

LEMMA StoreInitInv == StoreInit => StoreInv
<1> SUFFICES ASSUME StoreInit PROVE StoreInv
  OBVIOUS
<1>1. StockInv BY StockInitInv DEF StoreInit
<1>2. Maps(Empty, Nat \cup {Unknown})
  <2>1. DOMAIN Empty = {} /\ Empty \in [{} -> Nat \cup {Unknown}] BY DEF Empty
  <2> QED BY <2>1 DEF Maps
<1>3. Nobody \in Typing BY DEF Typing
<1>4. GoodTab(Empty, Empty, Nobody) BY <1>2, <1>3, EmptyGood DEF GoodTab
<1>5. TabInv BY <1>3, <1>4 DEF TabInv, StoreInit, CartInit
<1> QED BY <1>1, <1>5 DEF StoreInv

LEMMA StoreNextInv == StoreInv /\ [StoreNext]_storeVars => StoreInv'
<1> SUFFICES ASSUME StoreInv, [StoreNext]_storeVars PROVE StoreInv'
  OBVIOUS
<1>1. CASE UNCHANGED storeVars
  BY <1>1, StockKept, TabKept DEF StoreInv, storeVars
<1>2. ASSUME NEW t \in Tabs, Browse(t) PROVE StoreInv'
  BY <1>2, BrowseStep, StockKept DEF StoreInv, Browse
<1>3. CASE StockStep /\ UNCHANGED cartVars BY <1>3, StockStepsKeepStock, TabKept DEF StoreInv
<1> QED BY <1>1, <1>2, <1>3, PlaceOrderStep, AnsweredStep, ClientStep DEF StoreNext

LEMMA StoreInvariant == StoreSpec => []StoreInv
BY StoreInitInv, StoreNextInv, PTL DEF StoreSpec

-----------------------------------------------------------------------------
(* Stock, holds, calls and carts keep their types. *)
THEOREM StoreTypeCorrect == StoreSpec => []StoreTypeOK
<1>1. StoreInv => StoreTypeOK BY TabInvIs DEF StoreInv, StockInv, StoreTypeOK
<1> QED BY <1>1, StoreInvariant, PTL

(* However many orders race, with whatever is released, fulfilled, lost or retried, *)
(* KB-IHMS never holds more of a product than it had.                               *)
THEOREM NothingIsOversold == StoreSpec => []NeverOversold
<1>1. StoreInv => NeverOversold BY DEF StoreInv, StockInv
<1> QED BY <1>1, StoreInvariant, PTL

(* What is on the shelf, in holds and sold is always the stock there was. *)
THEOREM StockIsConserved == StoreSpec => []StockConserved
<1>1. StoreInv => StockConserved BY DEF StoreInv, StockInv
<1> QED BY <1>1, StoreInvariant, PTL

(* Every hold keeps what the cart displayed at the click, or what the lines of the *)
(* client add up to.                                                               *)
THEOREM HoldIsWhatWasAsked == StoreSpec => []HeldAsAsked
<1>1. StoreInv => HeldAsAsked BY DEF StoreInv, StockInv
<1> QED BY <1>1, StoreInvariant, PTL

(* A cart follows the catalog its tab shows and exceeds none of its limits. *)
THEOREM CartsFit == StoreSpec => []CartFits
<1>1. StoreInv => CartFits BY TabInvIs DEF StoreInv
<1> QED BY <1>1, StoreInvariant, PTL

-----------------------------------------------------------------------------
(* The ledger *)

LEMMA StoreStepLedger ==
  ASSUME StoreInv, StoreInv', [StoreNext]_storeVars
  PROVE  [Ledger!LedgerNext]_(Ledger!ledgerVars)
<1>0. StockInv /\ StockInv' BY DEF StoreInv
<1>1. CASE UNCHANGED storeVars
  BY <1>1, LedgerStutters DEF storeVars, stockVars
<1>2. ASSUME NEW t \in Tabs, Browse(t) \/ PlaceOrder(t) \/ Answered(t)
      PROVE  UNCHANGED <<inventory, holds>>
  BY <1>2 DEF Browse, stockVars, PlaceOrder, PlaceHold, Answered
<1>3. ASSUME NEW c \in Clients, ClientOrders(c) \/ ClientAnswered(c)
      PROVE  UNCHANGED <<inventory, holds>>
  BY <1>3 DEF ClientOrders, PlaceHold, ClientAnswered
<1>4. CASE StockStep BY <1>0, <1>4, StockStepLedger
<1> QED BY <1>1, <1>2, <1>3, <1>4, LedgerStutters DEF StoreNext

(* However orders, releases, fulfilments and their retries interleave, every step *)
(* holds pieces from the shelf, puts held ones back or sells held ones: what was  *)
(* sold is never on the shelf or in a hold again.                                 *)
THEOREM StockImplementsLedger == StoreSpec => ImplementsLedger
<1>1. StoreInit => Ledger!LedgerInit BY StockInitLedger DEF StoreInit
<1>2. StoreInv /\ StoreInv' /\ [StoreNext]_storeVars => [Ledger!LedgerNext]_(Ledger!ledgerVars)
  BY StoreStepLedger
<1> QED BY <1>1, <1>2, StoreInvariant, PTL DEF StoreSpec, ImplementsLedger, Ledger!LedgerSpec

-----------------------------------------------------------------------------
(* What an order sends *)

SentRight ==
  \A t \in Tabs : Orders(t) =>
    \A i \in DOMAIN call'[t].lines :
      LET line == call'[t].lines[i]
      IN /\ line.quantity >= 1
         /\ line.sku \in DOMAIN seen[t] /\ seen[t][line.sku] # Unknown
              => line.quantity <= seen[t][line.sku]

(* Nothing but a click on Place order starts the call of a tab. *)
LEMMA OnlyPlaceOrderOrders ==
  ASSUME StoreInv, StoreNext, NEW t \in Tabs, Orders(t)
  PROVE  PlaceOrder(t)
<1>0. /\ t \in Buyers /\ call \in [Buyers -> Call] /\ \A c \in Clients : c # t
      /\ call[t].at = "idle" /\ call'[t].at = "stock"
  BY BuyersAssumption DEF StoreInv, StockInv, StockTypeOK, Orders
<1>1. ASSUME NEW u \in Tabs, Browse(u) PROVE FALSE
  BY <1>0, <1>1 DEF Browse, stockVars
<1>2. ASSUME NEW u \in Tabs, u # t, PlaceOrder(u) PROVE FALSE
  <2>1. call'[t] = call[t] BY <1>0, <1>2 DEF PlaceOrder, PlaceHold
  <2> QED BY <1>0, <2>1
<1>3. ASSUME NEW u \in Tabs, Answered(u) PROVE FALSE
  <2>1. call' = [call EXCEPT ![u] = NoCall] BY <1>3 DEF Answered
  <2>2. call'[t] \in {NoCall, call[t]} BY <1>0, <2>1
  <2> QED BY <1>0, <2>2 DEF NoCall
<1>4. ASSUME NEW c \in Clients, ClientOrders(c) \/ ClientAnswered(c) PROVE FALSE
  <2>1. \E new : call' = [call EXCEPT ![c] = new]
    BY <1>4 DEF ClientOrders, PlaceHold, ClientAnswered
  <2>2. call'[t] = call[t] BY <1>0, <2>1
  <2> QED BY <1>0, <2>2
<1>5. ASSUME StockStep PROVE FALSE
  <2>1. \/ call' = call
        \/ \E b \in Buyers, at \in {"createHold", "held", "failed"} :
             (Becomes(b, at) \/ Returns(b, at)) /\ call[b].at # "idle"
    BY <1>5 DEF StockStep, StockChecked, StockShort, CartRejected, HoldCreated, HoldConflict,
                HoldFails, LateHold, ReleaseHold, FulfillHold
  <2>2. call'[t] = call[t] BY <1>0, <2>1 DEF Becomes, Returns, NoCall
  <2> QED BY <1>0, <2>2
<1> QED BY <1>1, <1>2, <1>3, <1>4, <1>5 DEF StoreNext

LEMMA OrderIsRight ==
  ASSUME StoreInv, NEW t \in Tabs, PlaceOrder(t), NEW i \in DOMAIN call'[t].lines
  PROVE  LET line == call'[t].lines[i]
         IN /\ line.quantity >= 1
            /\ line.sku \in DOMAIN seen[t] /\ seen[t][line.sku] # Unknown
                 => line.quantity <= seen[t][line.sku]
<1> DEFINE items == ItemsOf(CommittedCart(cart[t]))
           m == Merged(items)
           s == m[i].sku
           line == cart[t][s]
<1>1. GoodCart(cart[t], seen[t]) /\ t \in Buyers
  BY BuyersAssumption DEF StoreInv, TabInv, GoodTab
<1>2. /\ items \in Seq(Line)
      /\ \A j \in DOMAIN items : items[j].sku \in DOMAIN cart[t]
      /\ Total(items) = DisplayedCart(cart[t])
  BY <1>1, OrderIsDisplayed
<1>3. call'[t].lines = m
  <2>1. PlaceHold(t, items, DisplayedCart(cart[t])) BY DEF PlaceOrder
  <2>2. call' = [call EXCEPT ![t] = [at |-> "stock", lines |-> m, asked |-> DisplayedCart(cart[t])]]
    BY <2>1 DEF PlaceHold
  <2>3. call \in [Buyers -> Call] BY DEF StoreInv, StockInv, StockTypeOK
  <2> QED BY <1>1, <2>2, <2>3
<1>4. \A x \in DOMAIN cart[t] : cart[t][x].unknown \/ cart[t][x].max # 0
  BY DEF PlaceOrder, MayPlace
<1> HIDE DEF items
<1>5. Merges(m, items, DOMAIN items) BY <1>2, MergingIsRight
<1> HIDE DEF m
<1>6. /\ \E j \in DOMAIN items : items[j].sku = s
      /\ m[i].quantity = TotalIn(items, DOMAIN items, s)
  BY <1>3, <1>5 DEF Merges
<1> HIDE DEF s
<1>7. s \in DOMAIN cart[t] BY <1>2, <1>6
<1>8. s \in Skus /\ line \in CartLine /\ line.quantity \in Nat
  BY <1>1, <1>7 DEF GoodCart, Maps, CartLine
<1>9. Total(items)[s] = TotalIn(items, DOMAIN items, s)
  BY <1>8, ProductsAssumption DEF Total, TotalIn
<1>10. DisplayedCart(cart[t])[s] = ClampLine(line, line.quantity)
  BY <1>7, <1>8 DEF DisplayedCart, Displayed
<1>11. m[i].quantity = ClampLine(line, line.quantity) BY <1>2, <1>6, <1>9, <1>10
<1>12. line.unknown \/ line.max # 0 BY <1>4, <1>7
<1>13. s \in DOMAIN seen[t] => Follows(line, seen[t][s])
  BY <1>1, <1>7 DEF GoodCart, FollowsCatalog, Follows
<1> HIDE DEF line
<1>14. m[i].quantity >= 1 /\ (~line.unknown => m[i].quantity <= line.max)
  BY <1>8, <1>11, <1>12, Clamped
<1>15. s \in DOMAIN seen[t] /\ seen[t][s] # Unknown => m[i].quantity <= seen[t][s]
  BY <1>13, <1>14 DEF Follows
<1> QED BY <1>3, <1>14, <1>15 DEF s

(* An order of the page is for one or more of each product, and for no more than *)
(* the page shows there to be.                                                   *)
THEOREM WhatIsSentFits == StoreSpec => SentFits
<1>1. StoreInv /\ [StoreNext]_storeVars => [SentRight]_storeVars
  <2> SUFFICES ASSUME StoreInv, StoreNext PROVE SentRight
    OBVIOUS
  <2> SUFFICES ASSUME NEW t \in Tabs, Orders(t), NEW i \in DOMAIN call'[t].lines
               PROVE  LET line == call'[t].lines[i]
                      IN /\ line.quantity >= 1
                         /\ line.sku \in DOMAIN seen[t] /\ seen[t][line.sku] # Unknown
                              => line.quantity <= seen[t][line.sku]
    BY DEF SentRight
  <2>1. PlaceOrder(t) BY OnlyPlaceOrderOrders
  <2> QED BY <2>1, OrderIsRight
<1> QED BY <1>1, StoreInvariant, PTL DEF StoreSpec, SentFits, SentRight
====
