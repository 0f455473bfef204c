---- MODULE LiveCatalog ----
(***************************************************************************)
(* The live catalog of src/src/catalog/ihms_live.py: one cache, shared by  *)
(* all requests, that every catalog request and every cart refreshes from  *)
(* KB-IHMS before it reads it (checkout/service.py).                       *)
(*                                                                         *)
(* A reply of KB-IHMS is taken when KB-IHMS serves it and arrives later:   *)
(* the replies of concurrent requests may overtake each other.             *)
(***************************************************************************)
EXTENDS Naturals

CONSTANTS
  Skus,       \* the SKUs KB-IHMS may sell
  JsonSkus,   \* the SKUs of the JSON catalog
  Requests,   \* HTTP requests, each handled once
  Quantities, \* bound: the stock levels
  Unknown,    \* available_quantity = None
  NoReply,    \* KB-IHMS has not answered
  Mode,       \* ihms_catalog_mode: "auto", "products" or "inventory"
  Fallback    \* catalog_fallback_to_json

ASSUME SkusAssumption == JsonSkus \subseteq Skus /\ JsonSkus # {}
ASSUME QuantitiesAssumption == Quantities \subseteq Nat /\ 0 \in Quantities
ASSUME ModeAssumption == Mode \in {"auto", "products", "inventory"}
ASSUME FallbackAssumption == Fallback \in BOOLEAN

VARIABLES
  stock,      \* KB-IHMS: the available quantity of each SKU it sells
  products,   \* _products_cache
  inventory,  \* _inventory_cache
  active,     \* _active: "none", "products" or "inventory"
  req,        \* what each request asks: operation and SKUs
  co          \* its coroutine: where it awaits, KB-IHMS's last reply, the answer

caches == <<products, inventory, active>>
vars == <<stock, products, inventory, active, req, co>>

(* A catalog maps the SKUs it has to their available quantities. *)
CatalogOver(quantities) == UNION {[S -> quantities] : S \in SUBSET Skus}
Catalog == CatalogOver(Quantities)
Shown == CatalogOver(Quantities \cup {Unknown})
ASSUME NoReplyAssumption == NoReply \notin Catalog
Empty == [s \in {} |-> 0]
Only(rows, S) == [s \in DOMAIN rows \cap S |-> rows[s]]

Asks == {"askProducts", "askInventory", "askJoin"}
Replies == {"products", "inventory", "join"}
Frame == [at : {"idle", "done"} \cup Asks \cup Replies,
          reply : Catalog \cup {NoReply},
          answer : {"none", "rows", "notFound", "error"}, rows : Shown]
Request == [op : {"list"}, skus : {{}}] \cup [op : {"sku"}, skus : {{s} : s \in Skus}]
             \cup [op : {"cart"}, skus : SUBSET Skus \ {{}}]

Active == CASE active = "products" -> products
            [] active = "inventory" -> inventory
            [] OTHER -> Empty

(* Faulty: the stock of a row cannot be null. *)
JsonRows_Null == [s \in JsonSkus |-> Unknown]
(* load_from_json_catalog: the SKUs of the JSON catalog, none in stock. *)
JsonRows == [s \in JsonSkus |-> 0]

(* The coroutine awaits at `place` next, or answers. *)
Goto(frame, place) == [frame EXCEPT !.at = place, !.reply = NoReply]
Answer(frame, answer, rows) ==
  [frame EXCEPT !.at = "done", !.answer = answer, !.rows = rows]
Becomes(r, frame) == co' = [co EXCEPT ![r] = frame]

(* What a handler does with the catalog its own refresh left active; no await is *)
(* between the two.                                                              *)
Read(r, frame, rows) ==
  LET skus == req[r].skus IN
  CASE req[r].op = "list" /\ (rows # Empty \/ ~Fallback) -> Answer(frame, "rows", rows)
    [] req[r].op = "list" /\ rows = Empty /\ Fallback -> Goto(frame, "askJoin")
    [] req[r].op = "sku" /\ skus \subseteq DOMAIN rows -> Answer(frame, "rows", Only(rows, skus))
    [] req[r].op = "sku" /\ ~(skus \subseteq DOMAIN rows) ->
         IF Fallback /\ skus \subseteq JsonSkus THEN Goto(frame, "askJoin")
         ELSE Answer(frame, "rows", [s \in skus |-> Unknown])
    [] req[r].op = "cart" /\ rows = Empty /\ ~Fallback -> Answer(frame, "error", Empty)
    [] req[r].op = "cart" /\ (rows # Empty \/ Fallback) ->
         IF skus \subseteq DOMAIN rows THEN Answer(frame, "rows", Only(rows, skus))
         ELSE Answer(frame, "notFound", Empty)

-----------------------------------------------------------------------------
(* GET /catalog/{sku} looks into the cache as it is before it refreshes it. *)
Begin(r) == Becomes(r, Goto(co[r], IF Mode = "inventory" THEN "askInventory" ELSE "askProducts"))

Arrive(r) ==
  /\ co[r].at = "idle"
  /\ IF req[r].op = "sku" /\ ~(req[r].skus \subseteq DOMAIN Active)
     THEN Becomes(r, Answer(co[r], "notFound", Empty)) ELSE Begin(r)
  /\ UNCHANGED <<stock, caches, req>>

(* Faulty: a reply already in the cache is taken for KB-IHMS's. *)
Serve_FromCache(r, ask, reply) ==
  /\ co[r].at = ask
  /\ Becomes(r, [co[r] EXCEPT !.at = reply, !.reply = IF Active # Empty THEN Active ELSE stock])
  /\ UNCHANGED <<stock, caches, req>>
(* KB-IHMS serves a request; the reply is on its way. *)
Serve(r, ask, reply) ==
  /\ co[r].at = ask
  /\ Becomes(r, [co[r] EXCEPT !.at = reply, !.reply = stock])
  /\ UNCHANGED <<stock, caches, req>>

ServeProducts(r) == Serve(r, "askProducts", "products")
ServeInventory(r) == Serve(r, "askInventory", "inventory")
ServeJoin(r) == Serve(r, "askJoin", "join")

(* Faulty: the inventory cache, once active, stays it. *)
ProductsArrive_KeepsActive(r) ==
  /\ co[r].at = "products"
  /\ products' = co[r].reply
  /\ co[r].reply # Empty
  /\ active' = IF active = "none" THEN "products" ELSE active
  /\ Becomes(r, Read(r, co[r], IF active = "inventory" THEN inventory ELSE co[r].reply))
  /\ UNCHANGED <<stock, inventory, req>>
ProductsArrive(r) ==
  /\ co[r].at = "products"
  /\ products' = co[r].reply
  /\ co[r].reply # Empty
  /\ active' = "products"
  /\ Becomes(r, Read(r, co[r], co[r].reply))
  /\ UNCHANGED <<stock, inventory, req>>

ProductsEmpty(r) ==
  /\ co[r].at = "products"
  /\ co[r].reply = Empty
  /\ products' = Empty
  /\ Becomes(r, Goto(co[r], "askInventory"))
  /\ UNCHANGED <<stock, inventory, active, req>>

(* refresh raises: the JSON catalog is loaded, if the fallback is enabled. *)
Raise(r, frame) ==
  IF Fallback
  THEN /\ products' = JsonRows
       /\ active' = "products"
       /\ Becomes(r, Read(r, frame, JsonRows))
  ELSE /\ Becomes(r, Answer(frame, "error", Empty))
       /\ UNCHANGED <<products, active>>

(* Faulty: GET /api/products is tried again. *)
ProductsFail_Retries(r) ==
  /\ co[r].at \in {"askProducts", "products"}
  /\ Becomes(r, Goto(co[r], "askProducts"))
  /\ UNCHANGED <<stock, caches, req>>
(* An error status, a transport error or a timeout, before or after the answer *)
(* was made; KB-IHMS main has no GET /api/products.                            *)
ProductsFail(r) ==
  /\ co[r].at \in {"askProducts", "products"}
  /\ IF Mode = "products" THEN Raise(r, Goto(co[r], "done"))
     ELSE Becomes(r, Goto(co[r], "askInventory")) /\ UNCHANGED <<products, active>>
  /\ UNCHANGED <<stock, inventory, req>>

InventoryArrives(r) ==
  /\ co[r].at = "inventory"
  /\ co[r].reply # Empty \/ Mode # "auto"
  /\ inventory' = co[r].reply
  /\ active' = "inventory"
  /\ Becomes(r, Read(r, co[r], co[r].reply))
  /\ UNCHANGED <<stock, products, req>>

(* Both endpoints are empty; the cache is emptied before refresh raises. *)
BothEmpty(r) ==
  /\ co[r].at = "inventory"
  /\ co[r].reply = Empty
  /\ Mode = "auto"
  /\ inventory' = Empty
  /\ Raise(r, co[r])
  /\ UNCHANGED <<stock, req>>

InventoryFails(r) ==
  /\ co[r].at \in {"askInventory", "inventory"}
  /\ Raise(r, Goto(co[r], "done"))
  /\ UNCHANGED <<stock, inventory, req>>

(* The JSON catalog joined with KB-IHMS's stock, or without it. *)
Wanted(r) == IF req[r].op = "sku" THEN req[r].skus ELSE JsonSkus
JoinArrives(r) ==
  /\ co[r].at = "join"
  /\ Becomes(r, Answer(co[r], "rows",
       [s \in Wanted(r) |-> IF s \in DOMAIN co[r].reply THEN co[r].reply[s] ELSE 0]))
  /\ UNCHANGED <<stock, caches, req>>

JoinFails(r) ==
  /\ co[r].at \in {"askJoin", "join"}
  /\ Becomes(r, Answer(Goto(co[r], "done"), "rows", [s \in Wanted(r) |-> Unknown]))
  /\ UNCHANGED <<stock, caches, req>>

(* KB-IHMS: stock moves, a product is listed or delisted. *)
StockMoves ==
  /\ stock' \in Catalog \ {stock}
  /\ UNCHANGED <<caches, req, co>>

Init ==
  /\ stock \in Catalog
  /\ products = Empty
  /\ inventory = Empty
  /\ active = "none"
  /\ req \in [Requests -> Request]
  /\ co = [r \in Requests |->
             [at |-> "idle", reply |-> NoReply, answer |-> "none", rows |-> Empty]]

Step(r) ==
  \/ ServeProducts(r) \/ ServeInventory(r) \/ ServeJoin(r)
  \/ ProductsArrive(r) \/ ProductsEmpty(r) \/ ProductsFail(r)
  \/ InventoryArrives(r) \/ BothEmpty(r) \/ InventoryFails(r)
  \/ JoinArrives(r) \/ JoinFails(r)

Next == StockMoves \/ \E r \in Requests : Arrive(r) \/ Step(r)
Spec == Init /\ [][Next]_vars

(* The event loop resumes a coroutine whose call has returned, and every call has *)
(* a client timeout.                                                              *)
FairSpec == Spec /\ \A r \in Requests : WF_vars(Step(r))

-----------------------------------------------------------------------------
TypeOK ==
  /\ stock \in Catalog /\ products \in Catalog /\ inventory \in Catalog
  /\ active \in {"none", "products", "inventory"}
  /\ req \in [Requests -> Request]
  /\ co \in [Requests -> Frame]

(* A SKU is shown with the stock KB-IHMS told this very request, and a SKU it did *)
(* not tell with none: the refreshes of other requests, however they overtake     *)
(* this one, never show through the shared cache.                                 *)
Told(reply, s) == reply # NoReply /\ s \in DOMAIN reply
ShownAsTold(reply, s, quantity) ==
  IF Told(reply, s) THEN quantity = reply[s]
  ELSE quantity = Unknown \/ (Fallback /\ s \in JsonSkus /\ quantity = 0)
AllAsTold(reply, rows) == \A s \in DOMAIN rows : ShownAsTold(reply, s, rows[s])
AnswerIsOwn ==
  \A r \in Requests : co[r].at = "done" => AllAsTold(co[r].reply, co[r].rows)

(* Each answer is one look at KB-IHMS's stock while the request is served: neither *)
(* what an earlier request left in the cache nor a mixture of two replies          *)
(* (ihms_live.py:28-55).                                                           *)
Stage(at) == CASE at = "idle" -> "idle" [] at = "done" -> "answered" [] OTHER -> "open"
Fresh ==
  INSTANCE FreshCatalog
    WITH Rows <- Shown,
         Default <- [s \in Skus |-> IF Fallback /\ s \in JsonSkus THEN {0, Unknown} ELSE {Unknown}],
         stage <- [r \in Requests |-> Stage(co[r].at)],
         look <- [r \in Requests |-> co[r].reply],
         shown <- [r \in Requests |-> co[r].rows]
ImplementsFresh == Fresh!FreshSpec

(* Every catalog request is answered, whatever KB-IHMS does. *)
EveryCatalogAnswered == \A r \in Requests : co[r].at # "idle" ~> co[r].at = "done"
====
