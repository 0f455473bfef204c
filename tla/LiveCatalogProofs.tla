---- MODULE LiveCatalogProofs ----
(***************************************************************************)
(* Proofs about LiveCatalog: its types, that no request's answer shows     *)
(* what another request's refresh left in the shared cache, and that each  *)
(* answer is one fresh look at KB-IHMS (FreshCatalog).                     *)
(***************************************************************************)
EXTENDS LiveCatalog, TLAPS

LEMMA CatalogIsShown == Catalog \subseteq Shown
  BY DEF Catalog, Shown, CatalogOver

LEMMA CatalogTypes == Empty \in Catalog /\ JsonRows \in Catalog
<1>1. Empty \in [{} -> Quantities] BY DEF Empty
<1>2. JsonRows \in [JsonSkus -> Quantities] BY QuantitiesAssumption DEF JsonRows
<1> QED BY <1>1, <1>2, SkusAssumption DEF Catalog, CatalogOver

LEMMA OnlyType ==
  ASSUME NEW rows \in Catalog, NEW S
  PROVE  Only(rows, S) \in Shown
<1>1. PICK D \in SUBSET Skus : rows \in [D -> Quantities] BY DEF Catalog, CatalogOver
<1>2. Only(rows, S) \in [D \cap S -> Quantities \cup {Unknown}] BY <1>1 DEF Only
<1> QED BY <1>2 DEF Shown, CatalogOver

LEMMA UnknownType ==
  ASSUME NEW S \in SUBSET Skus
  PROVE  [s \in S |-> Unknown] \in Shown
<1>1. [s \in S |-> Unknown] \in [S -> Quantities \cup {Unknown}] OBVIOUS
<1> QED BY <1>1 DEF Shown, CatalogOver

LEMMA GotoType ==
  ASSUME NEW frame \in Frame, NEW place \in Asks \cup {"done"}
  PROVE  /\ Goto(frame, place) \in Frame
         /\ Goto(frame, place).at = place /\ Goto(frame, place).reply = NoReply
         /\ Goto(frame, place).rows = frame.rows
  BY DEF Goto, Frame

LEMMA AnswerType ==
  ASSUME NEW frame \in Frame, NEW answer \in {"rows", "notFound", "error"}, NEW rows \in Shown
  PROVE  /\ Answer(frame, answer, rows) \in Frame
         /\ Answer(frame, answer, rows).at = "done"
         /\ Answer(frame, answer, rows).reply = frame.reply
         /\ Answer(frame, answer, rows).rows = rows
  BY DEF Answer, Frame

(* What AnswerIsOwn says of one frame; that a reply that arrives was served; and *)
(* when the JSON catalog is joined with the stock.                               *)
Joins(r) == Fallback /\ Wanted(r) \subseteq JsonSkus
FrameIsOwn(r, frame) ==
  /\ frame.at = "done" => AllAsTold(frame.reply, frame.rows)
  /\ frame.at \in Replies => frame.reply \in Catalog
  /\ frame.at \in {"askJoin", "join"} => Joins(r)
  /\ frame.at = "idle" => frame.reply = NoReply

LEMMA WaitingIsOwn ==
  ASSUME NEW r, NEW frame \in Frame, NEW place \in Asks, place = "askJoin" => Joins(r)
  PROVE  FrameIsOwn(r, Goto(frame, place))
<1>1. Goto(frame, place).at = place BY GotoType
<1> QED BY <1>1 DEF FrameIsOwn, Asks, Replies

LEMMA NothingShown ==
  ASSUME NEW r, NEW frame \in Frame, NEW answer \in {"rows", "notFound", "error"}
  PROVE  Answer(frame, answer, Empty) \in Frame /\ FrameIsOwn(r, Answer(frame, answer, Empty))
<1>1. Empty \in Shown BY CatalogTypes, CatalogIsShown
<1>2. DOMAIN Empty = {} BY DEF Empty
<1> QED BY <1>1, <1>2, AnswerType, SMTT(30) DEF FrameIsOwn, AllAsTold, Replies

(* A handler that reads a catalog consistent with its own reply answers with one. *)
LEMMA ReadIsOwn ==
  ASSUME NEW r \in Requests, req[r] \in Request, NEW frame \in Frame, NEW rows \in Catalog,
         AllAsTold(frame.reply, rows),
         frame.reply # NoReply => DOMAIN frame.reply \subseteq DOMAIN rows
  PROVE  Read(r, frame, rows) \in Frame /\ FrameIsOwn(r, Read(r, frame, rows))
<1> DEFINE skus == req[r].skus
           result == Read(r, frame, rows)
<1>1. req[r].op \in {"list", "sku", "cart"} /\ skus \in SUBSET Skus BY DEF Request
<1>2. /\ Goto(frame, "askJoin") \in Frame
      /\ Joins(r) => FrameIsOwn(r, Goto(frame, "askJoin"))
  BY GotoType, WaitingIsOwn DEF Asks
<1>3. Answer(frame, "rows", rows) \in Frame /\ FrameIsOwn(r, Answer(frame, "rows", rows))
  BY AnswerType, CatalogIsShown DEF FrameIsOwn, Replies
<1>4. /\ Answer(frame, "rows", Only(rows, skus)) \in Frame
      /\ FrameIsOwn(r, Answer(frame, "rows", Only(rows, skus)))
  <2>1. AllAsTold(frame.reply, Only(rows, skus)) BY DEF AllAsTold, Only
  <2> QED BY <2>1, AnswerType, OnlyType DEF FrameIsOwn, Replies
<1>5. ASSUME req[r].op = "sku", ~(skus \subseteq DOMAIN rows)
      PROVE  /\ Answer(frame, "rows", [s \in skus |-> Unknown]) \in Frame
             /\ FrameIsOwn(r, Answer(frame, "rows", [s \in skus |-> Unknown]))
  <2>1. PICK sku \in Skus : skus = {sku} BY <1>5 DEF Request
  <2>2. ~Told(frame.reply, sku) BY <1>5, <2>1 DEF Told
  <2>3. AllAsTold(frame.reply, [s \in skus |-> Unknown])
    BY <2>1, <2>2 DEF AllAsTold, ShownAsTold
  <2> QED BY <1>1, <2>3, AnswerType, UnknownType DEF FrameIsOwn, Replies
<1>6. CASE req[r].op = "list"
  <2>1. \/ result = Answer(frame, "rows", rows)
        \/ result = Goto(frame, "askJoin") /\ Joins(r)
    BY <1>6 DEF Read, Joins, Wanted
  <2> QED BY <1>2, <1>3, <2>1
<1>7. CASE req[r].op = "sku"
  <2>1. CASE skus \subseteq DOMAIN rows
    <3>1. result = Answer(frame, "rows", Only(rows, skus)) BY <1>7, <2>1 DEF Read
    <3> QED BY <1>4, <3>1
  <2>2. CASE ~(skus \subseteq DOMAIN rows)
    <3>1. \/ result = Goto(frame, "askJoin") /\ Joins(r)
          \/ result = Answer(frame, "rows", [s \in skus |-> Unknown])
      BY <1>7, <2>2 DEF Read, Joins, Wanted
    <3> QED BY <1>2, <1>5, <1>7, <2>2, <3>1
  <2> QED BY <2>1, <2>2
<1>8. CASE req[r].op = "cart"
  <2>1. result \in {Answer(frame, "error", Empty), Answer(frame, "rows", Only(rows, skus)),
                    Answer(frame, "notFound", Empty)}
    BY <1>8 DEF Read
  <2> QED BY <1>4, <2>1, NothingShown
<1> HIDE DEF result, skus
<1> QED BY <1>1, <1>6, <1>7, <1>8 DEF result

(* The catalog a reply is read from is the reply itself. *)
LEMMA ReplyIsOwn ==
  ASSUME NEW r \in Requests, req[r] \in Request, NEW frame \in Frame, frame.reply # NoReply
  PROVE  Read(r, frame, frame.reply) \in Frame /\ FrameIsOwn(r, Read(r, frame, frame.reply))
<1>1. frame.reply \in Catalog BY DEF Frame
<1>2. AllAsTold(frame.reply, frame.reply) BY DEF AllAsTold, ShownAsTold, Told
<1> QED BY <1>1, <1>2, ReadIsOwn

(* The JSON catalog is read by a request that has nothing from KB-IHMS. *)
LEMMA JsonIsOwn ==
  ASSUME NEW r \in Requests, req[r] \in Request, NEW frame \in Frame,
         Fallback, frame.reply \in {NoReply, Empty}
  PROVE  Read(r, frame, JsonRows) \in Frame /\ FrameIsOwn(r, Read(r, frame, JsonRows))
<1>1. DOMAIN Empty = {} BY DEF Empty
<1>2. \A s : ~Told(frame.reply, s) BY <1>1 DEF Told
<1>3. AllAsTold(frame.reply, JsonRows) BY <1>2 DEF AllAsTold, ShownAsTold, JsonRows
<1>4. frame.reply # NoReply => DOMAIN frame.reply \subseteq DOMAIN JsonRows BY <1>1
<1> QED BY <1>3, <1>4, CatalogTypes, ReadIsOwn

LEMMA RaiseIsOwn ==
  ASSUME TypeOK, NEW r \in Requests, NEW frame \in Frame,
         frame.reply \in {NoReply, Empty}, Raise(r, frame)
  PROVE  /\ products' \in Catalog /\ active' \in {"none", "products", "inventory"}
         /\ \E new \in Frame : FrameIsOwn(r, new) /\ co' = [co EXCEPT ![r] = new]
<1>1. req[r] \in Request BY DEF TypeOK
<1>2. CASE Fallback BY <1>1, <1>2, JsonIsOwn, CatalogTypes DEF Raise, Becomes
<1>3. CASE ~Fallback BY <1>3, NothingShown DEF Raise, Becomes, TypeOK
<1> QED BY <1>2, <1>3

-----------------------------------------------------------------------------
CatalogInv == TypeOK /\ \A r \in Requests : FrameIsOwn(r, co[r])

(* A coroutine's step gives it a frame whose answer, if it is one, is its own. *)
LEMMA FrameStep ==
  ASSUME CatalogInv, NEW r \in Requests, NEW new \in Frame,
         FrameIsOwn(r, new), co' = [co EXCEPT ![r] = new]
  PROVE  co' \in [Requests -> Frame] /\ \A q \in Requests : FrameIsOwn(q, co'[q])
  BY DEF CatalogInv, TypeOK

LEMMA KeptOwn ==
  ASSUME TypeOK', UNCHANGED req, \A q \in Requests : FrameIsOwn(q, co'[q])
  PROVE  CatalogInv'
  BY DEF CatalogInv, FrameIsOwn, Joins, Wanted, AllAsTold, ShownAsTold, Told

LEMMA ArriveIsOwn ==
  ASSUME CatalogInv, NEW r \in Requests, Arrive(r)
  PROVE  CatalogInv'
<1>0. co[r] \in Frame BY DEF CatalogInv, TypeOK
<1>1. \E new \in Frame : FrameIsOwn(r, new) /\ co' = [co EXCEPT ![r] = new]
  <2>1. CASE Becomes(r, Answer(co[r], "notFound", Empty))
    BY <1>0, <2>1, NothingShown DEF Becomes
  <2>2. CASE Begin(r)
    <3>1. ASSUME NEW place \in {"askInventory", "askProducts"}
          PROVE  Goto(co[r], place) \in Frame /\ FrameIsOwn(r, Goto(co[r], place))
      BY <1>0, GotoType, WaitingIsOwn DEF Asks
    <3>2. CASE Mode = "inventory" BY <2>2, <3>1, <3>2 DEF Begin, Becomes
    <3>3. CASE Mode # "inventory" BY <2>2, <3>1, <3>3 DEF Begin, Becomes
    <3> QED BY <3>2, <3>3
  <2> QED BY <2>1, <2>2 DEF Arrive
<1>2. co' \in [Requests -> Frame] /\ \A q \in Requests : FrameIsOwn(q, co'[q]) BY <1>1, FrameStep
<1>3. TypeOK' /\ UNCHANGED req BY <1>2 DEF Arrive, caches, CatalogInv, TypeOK
<1> QED BY <1>2, <1>3, KeptOwn

(* A reply is served, and nothing is answered yet. *)
LEMMA ServeIsOwn ==
  ASSUME CatalogInv, NEW r \in Requests, ServeProducts(r) \/ ServeInventory(r) \/ ServeJoin(r)
  PROVE  CatalogInv'
<1>0. co[r] \in Frame /\ stock \in Catalog BY DEF CatalogInv, TypeOK
<1>1. PICK place \in Replies :
        /\ Becomes(r, [co[r] EXCEPT !.at = place, !.reply = stock])
        /\ place = "join" => co[r].at = "askJoin"
  <2>1. CASE ServeProducts(r) BY <2>1, Zenon DEF ServeProducts, Serve, Replies
  <2>2. CASE ServeInventory(r) BY <2>2, Zenon DEF ServeInventory, Serve, Replies
  <2>3. CASE ServeJoin(r) BY <2>3, Zenon DEF ServeJoin, Serve, Replies
  <2> QED BY <2>1, <2>2, <2>3
<1>2. place = "join" => co[r].at = "askJoin" BY <1>1, Zenon
<1> DEFINE new == [co[r] EXCEPT !.at = place, !.reply = stock]
<1>3. new \in Frame /\ new.at = place /\ new.reply = stock BY <1>0 DEF Frame, Replies
<1>4. place = "join" => Joins(r) BY <1>2 DEF FrameIsOwn, CatalogInv
<1> HIDE DEF new
<1>5. co' \in [Requests -> Frame] /\ \A q \in Requests : FrameIsOwn(q, co'[q])
  <2>1. FrameIsOwn(r, new) BY <1>0, <1>3, <1>4 DEF FrameIsOwn, Replies
  <2>2. co' = [co EXCEPT ![r] = new] BY <1>1 DEF Becomes, new
  <2> QED BY <1>3, <2>1, <2>2, FrameStep
<1>6. TypeOK' /\ UNCHANGED req
  BY <1>5 DEF ServeProducts, ServeInventory, ServeJoin, Serve, caches, CatalogInv, TypeOK
<1> QED BY <1>5, <1>6, KeptOwn

(* The catalog goes on to the next call, or a reply is read. *)
LEMMA RefreshIsOwn ==
  ASSUME CatalogInv, NEW r \in Requests,
         ProductsArrive(r) \/ ProductsEmpty(r) \/ InventoryArrives(r)
  PROVE  CatalogInv'
<1>0. co[r] \in Frame /\ req[r] \in Request /\ TypeOK BY DEF CatalogInv, TypeOK
<1>1. co[r].reply \in Catalog /\ co[r].reply # NoReply
  BY NoReplyAssumption DEF ProductsArrive, ProductsEmpty, InventoryArrives, CatalogInv, FrameIsOwn, Replies
<1>2. CASE ProductsEmpty(r)
  <2>1. Goto(co[r], "askInventory") \in Frame /\ FrameIsOwn(r, Goto(co[r], "askInventory"))
    BY <1>0, GotoType, WaitingIsOwn DEF Asks
  <2>2. co' \in [Requests -> Frame] /\ \A q \in Requests : FrameIsOwn(q, co'[q])
    BY <1>2, <2>1, FrameStep DEF ProductsEmpty, Becomes
  <2>3. TypeOK' /\ UNCHANGED req BY <1>0, <1>2, <2>2, CatalogTypes DEF ProductsEmpty, TypeOK
  <2> QED BY <2>2, <2>3, KeptOwn
<1>3. CASE ProductsArrive(r) \/ InventoryArrives(r)
  <2>1. co' = [co EXCEPT ![r] = Read(r, co[r], co[r].reply)]
    BY <1>3 DEF ProductsArrive, InventoryArrives, Becomes
  <2>2. co' \in [Requests -> Frame] /\ \A q \in Requests : FrameIsOwn(q, co'[q])
    BY <1>0, <1>1, <2>1, ReplyIsOwn, FrameStep
  <2>3. TypeOK' /\ UNCHANGED req
    BY <1>0, <1>1, <1>3, <2>2 DEF ProductsArrive, InventoryArrives, TypeOK
  <2> QED BY <2>2, <2>3, KeptOwn
<1> QED BY <1>2, <1>3

(* refresh raises: the JSON catalog is read, or an error answered. *)
LEMMA RaiseStepIsOwn ==
  ASSUME CatalogInv, NEW r \in Requests, ProductsFail(r) \/ BothEmpty(r) \/ InventoryFails(r)
  PROVE  CatalogInv'
<1>0. co[r] \in Frame /\ TypeOK BY DEF CatalogInv, TypeOK
<1>1. CASE ProductsFail(r) /\ ~Raise(r, Goto(co[r], "done"))
  <2>1. Goto(co[r], "askInventory") \in Frame /\ FrameIsOwn(r, Goto(co[r], "askInventory"))
    BY <1>0, GotoType, WaitingIsOwn DEF Asks
  <2>2. co' \in [Requests -> Frame] /\ \A q \in Requests : FrameIsOwn(q, co'[q])
    BY <1>1, <2>1, FrameStep DEF ProductsFail, Becomes
  <2>3. TypeOK' /\ UNCHANGED req BY <1>0, <1>1, <2>2 DEF ProductsFail, TypeOK
  <2> QED BY <2>2, <2>3, KeptOwn
<1>2. ASSUME NEW frame \in Frame, frame.reply \in {NoReply, Empty}, Raise(r, frame),
             inventory' \in Catalog, UNCHANGED <<stock, req>>
      PROVE  CatalogInv'
  <2>1. PICK new \in Frame : FrameIsOwn(r, new) /\ co' = [co EXCEPT ![r] = new]
    BY <1>0, <1>2, RaiseIsOwn
  <2>2. co' \in [Requests -> Frame] /\ \A q \in Requests : FrameIsOwn(q, co'[q])
    BY <2>1, FrameStep
  <2>3. TypeOK' /\ UNCHANGED req BY <1>0, <1>2, <2>2, RaiseIsOwn DEF TypeOK
  <2> QED BY <2>2, <2>3, KeptOwn
<1>3. Goto(co[r], "done") \in Frame /\ Goto(co[r], "done").reply = NoReply
  BY <1>0, GotoType
<1>4. CASE BothEmpty(r) BY <1>0, <1>2, <1>4, CatalogTypes DEF BothEmpty
<1>5. CASE InventoryFails(r) BY <1>0, <1>2, <1>3, <1>5 DEF InventoryFails, TypeOK
<1>6. CASE ProductsFail(r) /\ Raise(r, Goto(co[r], "done"))
  BY <1>0, <1>2, <1>3, <1>6 DEF ProductsFail, TypeOK
<1> QED BY <1>1, <1>4, <1>5, <1>6

(* The JSON catalog joined with the reply, or without one. *)
LEMMA JoinIsOwn ==
  ASSUME CatalogInv, NEW r \in Requests, JoinArrives(r) \/ JoinFails(r)
  PROVE  CatalogInv'
<1>0. co[r] \in Frame /\ TypeOK /\ req[r] \in Request BY DEF CatalogInv, TypeOK
<1>1. Wanted(r) \in SUBSET Skus BY <1>0, SkusAssumption DEF Wanted, Request
<1>2. \E new \in Frame : FrameIsOwn(r, new) /\ co' = [co EXCEPT ![r] = new]
  <2>1. CASE JoinFails(r)
    <3>1. PICK frame \in Frame : frame = Goto(co[r], "done") /\ frame.reply = NoReply
      BY <1>0, GotoType
    <3>2. AllAsTold(NoReply, [s \in Wanted(r) |-> Unknown])
      BY DEF AllAsTold, ShownAsTold, Told
    <3> QED BY <1>1, <2>1, <3>1, <3>2, AnswerType, UnknownType DEF JoinFails, Becomes, FrameIsOwn, Replies
  <2>2. CASE JoinArrives(r)
    <3> DEFINE rows == [s \in Wanted(r) |-> IF s \in DOMAIN co[r].reply THEN co[r].reply[s] ELSE 0]
    <3>1. PICK D \in SUBSET Skus : co[r].reply \in [D -> Quantities]
      BY <2>2 DEF JoinArrives, CatalogInv, FrameIsOwn, Replies, Catalog, CatalogOver
    <3>2. rows \in [Wanted(r) -> Quantities \cup {Unknown}] BY <3>1, QuantitiesAssumption
    <3>3. rows \in Shown BY <1>1, <3>2 DEF Shown, CatalogOver
    <3>4. AllAsTold(co[r].reply, rows)
      <4>1. Joins(r) /\ co[r].reply # NoReply
        BY <2>2, NoReplyAssumption DEF JoinArrives, CatalogInv, FrameIsOwn, Replies
      <4> QED BY <4>1 DEF Joins, AllAsTold, ShownAsTold, Told
    <3>5. co' = [co EXCEPT ![r] = Answer(co[r], "rows", rows)] BY <2>2 DEF JoinArrives, Becomes
    <3> HIDE DEF rows
    <3> QED BY <1>0, <3>3, <3>4, <3>5, AnswerType DEF FrameIsOwn, Replies
  <2> QED BY <2>1, <2>2
<1>3. co' \in [Requests -> Frame] /\ \A q \in Requests : FrameIsOwn(q, co'[q]) BY <1>2, FrameStep
<1>4. TypeOK' /\ UNCHANGED req BY <1>0, <1>3 DEF JoinArrives, JoinFails, caches, TypeOK
<1> QED BY <1>3, <1>4, KeptOwn

LEMMA CatalogInvKept == CatalogInv /\ [Next]_vars => CatalogInv'
<1> SUFFICES ASSUME CatalogInv, [Next]_vars PROVE CatalogInv'
  OBVIOUS
<1>1. CASE \E r \in Requests : Arrive(r) BY <1>1, ArriveIsOwn
<1>2. CASE \E r \in Requests : Step(r)
  BY <1>2, ServeIsOwn, RefreshIsOwn, RaiseStepIsOwn, JoinIsOwn DEF Step
<1>3. CASE StockMoves
  BY <1>3 DEF StockMoves, caches, CatalogInv, TypeOK, FrameIsOwn, Joins, Wanted, AllAsTold, ShownAsTold, Told
<1>4. CASE UNCHANGED vars
  BY <1>4 DEF vars, CatalogInv, TypeOK, FrameIsOwn, Joins, Wanted, AllAsTold, ShownAsTold, Told
<1> QED BY <1>1, <1>2, <1>3, <1>4 DEF Next

LEMMA CatalogInvInit == Init => CatalogInv
<1> SUFFICES ASSUME Init PROVE CatalogInv
  OBVIOUS
<1>1. [at |-> "idle", reply |-> NoReply, answer |-> "none", rows |-> Empty] \in Frame
  BY CatalogTypes, CatalogIsShown DEF Frame
<1>2. TypeOK BY <1>1, CatalogTypes DEF Init, TypeOK
<1>3. \A r \in Requests : FrameIsOwn(r, co[r]) BY DEF Init, FrameIsOwn, Replies
<1> QED BY <1>2, <1>3 DEF CatalogInv

(* The frames, caches and KB-IHMS's stock keep their types. *)
THEOREM CatalogTypeCorrect == Spec => []TypeOK
<1>1. CatalogInv => TypeOK BY DEF CatalogInv
<1> QED BY <1>1, CatalogInvInit, CatalogInvKept, PTL DEF Spec

(* Whatever the order in which the replies of concurrent requests arrive, and in *)
(* every mode, a request shows only the stock that KB-IHMS told itself.          *)
THEOREM CatalogAnswersAreOwn == Spec => []AnswerIsOwn
<1>1. CatalogInv => AnswerIsOwn BY DEF CatalogInv, FrameIsOwn, AnswerIsOwn
<1> QED BY <1>1, CatalogInvInit, CatalogInvKept, PTL DEF Spec

-----------------------------------------------------------------------------
(* The catalog implements FreshCatalog *)

(* A coroutine goes on to its next call, or answers with the look it has or none. *)
GoesOn(old, new) == new.at \in Asks /\ new.reply = NoReply /\ new.rows = old.rows
Settles(old, new) == new.at = "done" /\ new.reply \in {old.reply, NoReply}

LEMMA AnswerSettles ==
  ASSUME NEW frame \in Frame, NEW answer \in {"rows", "notFound", "error"}, NEW rows \in Shown
  PROVE  Settles(frame, Answer(frame, answer, rows))
<1>1. /\ Answer(frame, answer, rows).at = "done"
      /\ Answer(frame, answer, rows).reply = frame.reply
  BY AnswerType
<1> QED BY <1>1 DEF Settles

LEMMA ReadGoes ==
  ASSUME NEW r \in Requests, req[r] \in Request, NEW frame \in Frame, NEW rows \in Catalog
  PROVE  GoesOn(frame, Read(r, frame, rows)) \/ Settles(frame, Read(r, frame, rows))
<1> DEFINE skus == req[r].skus
           result == Read(r, frame, rows)
<1>1. req[r].op \in {"list", "sku", "cart"} /\ skus \in SUBSET Skus BY DEF Request
<1>2. GoesOn(frame, Goto(frame, "askJoin")) BY GotoType DEF Asks, GoesOn
<1>3. /\ rows \in Shown /\ Only(rows, skus) \in Shown /\ Empty \in Shown
      /\ [s \in skus |-> Unknown] \in Shown
  BY <1>1, CatalogIsShown, CatalogTypes, OnlyType, UnknownType
<1>4. /\ Settles(frame, Answer(frame, "rows", rows))
      /\ Settles(frame, Answer(frame, "rows", Only(rows, skus)))
      /\ Settles(frame, Answer(frame, "rows", [s \in skus |-> Unknown]))
      /\ Settles(frame, Answer(frame, "notFound", Empty))
      /\ Settles(frame, Answer(frame, "error", Empty))
  BY <1>3, AnswerSettles
<1>5. result \in {Goto(frame, "askJoin"), Answer(frame, "rows", rows),
                  Answer(frame, "rows", Only(rows, skus)),
                  Answer(frame, "rows", [s \in skus |-> Unknown]),
                  Answer(frame, "notFound", Empty), Answer(frame, "error", Empty)}
  <2>1. CASE req[r].op = "list" BY <2>1 DEF Read
  <2>2. CASE req[r].op = "sku" BY <2>2 DEF Read
  <2>3. CASE req[r].op = "cart" BY <2>3 DEF Read
  <2> QED BY <1>1, <2>1, <2>2, <2>3
<1> HIDE DEF result, skus
<1> QED BY <1>2, <1>4, <1>5 DEF result

(* Each field of the frames is a variable of FreshCatalog. *)
LEMMA StageStep ==
  ASSUME TypeOK, NEW r \in Requests, NEW new \in Frame, co' = [co EXCEPT ![r] = new],
         NEW stage, Stage(new.at) = stage
  PROVE  /\ [q \in Requests |-> Stage(co'[q].at)] =
              [[q \in Requests |-> Stage(co[q].at)] EXCEPT ![r] = stage]
         /\ stage = Stage(co[r].at) => [q \in Requests |-> Stage(co'[q].at)] =
                                        [q \in Requests |-> Stage(co[q].at)]
<1>1. \A q \in Requests : Stage(co'[q].at) = IF q = r THEN stage ELSE Stage(co[q].at)
  BY DEF TypeOK
<1> QED BY <1>1

LEMMA LookStep ==
  ASSUME TypeOK, NEW r \in Requests, NEW new \in Frame, co' = [co EXCEPT ![r] = new],
         NEW look, new.reply = look
  PROVE  /\ [q \in Requests |-> co'[q].reply] =
              [[q \in Requests |-> co[q].reply] EXCEPT ![r] = look]
         /\ look = co[r].reply => [q \in Requests |-> co'[q].reply] =
                                   [q \in Requests |-> co[q].reply]
<1>1. \A q \in Requests : co'[q].reply = IF q = r THEN look ELSE co[q].reply
  BY DEF TypeOK
<1> QED BY <1>1

LEMMA ShownStep ==
  ASSUME TypeOK, NEW r \in Requests, NEW new \in Frame, co' = [co EXCEPT ![r] = new],
         NEW rows, new.rows = rows
  PROVE  /\ [q \in Requests |-> co'[q].rows] =
              [[q \in Requests |-> co[q].rows] EXCEPT ![r] = rows]
         /\ rows = co[r].rows => [q \in Requests |-> co'[q].rows] =
                                  [q \in Requests |-> co[q].rows]
<1>1. \A q \in Requests : co'[q].rows = IF q = r THEN rows ELSE co[q].rows
  BY DEF TypeOK
<1> QED BY <1>1

LEMMA GoesOnFresh ==
  ASSUME CatalogInv, NEW r \in Requests, NEW new \in Frame, co' = [co EXCEPT ![r] = new],
         UNCHANGED stock, co[r].at # "done", GoesOn(co[r], new)
  PROVE  Fresh!Open(r) \/ Fresh!Look(r)
<1>0. TypeOK /\ co[r] \in Frame BY DEF CatalogInv, TypeOK
<1>1. Stage(new.at) = "open" BY DEF GoesOn, Asks, Stage
<1>2. new.reply = NoReply /\ new.rows = co[r].rows BY DEF GoesOn
<1>3. [q \in Requests |-> co'[q].rows] = [q \in Requests |-> co[q].rows] BY <1>0, <1>2, ShownStep
<1>4. CASE co[r].at = "idle"
  <2>1. Stage(co[r].at) = "idle" /\ co[r].reply = NoReply
    BY <1>4 DEF Stage, CatalogInv, FrameIsOwn
  <2>2. [q \in Requests |-> co'[q].reply] = [q \in Requests |-> co[q].reply]
    BY <1>0, <1>2, <2>1, LookStep
  <2>3. [q \in Requests |-> Stage(co'[q].at)] =
          [[q \in Requests |-> Stage(co[q].at)] EXCEPT ![r] = "open"]
    BY <1>0, <1>1, StageStep
  <2>4. Fresh!Open(r) BY <1>3, <2>1, <2>2, <2>3 DEF Fresh!Open
  <2> QED BY <2>4
<1>5. CASE co[r].at # "idle"
  <2>1. Stage(co[r].at) = "open" BY <1>5 DEF Stage
  <2>2. [q \in Requests |-> co'[q].reply] =
          [[q \in Requests |-> co[q].reply] EXCEPT ![r] = NoReply]
    BY <1>0, <1>2, LookStep
  <2>3. [q \in Requests |-> Stage(co'[q].at)] = [q \in Requests |-> Stage(co[q].at)]
    BY <1>0, <1>1, <2>1, StageStep
  <2>4. Fresh!Look(r) BY <1>3, <2>1, <2>2, <2>3 DEF Fresh!Look
  <2> QED BY <2>4
<1> QED BY <1>4, <1>5

LEMMA ServeFresh ==
  ASSUME CatalogInv, NEW r \in Requests, NEW ask \in Asks, NEW reply \in Replies,
         Serve(r, ask, reply)
  PROVE  Fresh!Look(r)
<1> DEFINE new == [co[r] EXCEPT !.at = reply, !.reply = stock]
<1>0. TypeOK /\ co[r] \in Frame /\ stock \in Catalog BY DEF CatalogInv, TypeOK
<1>1. new \in Frame /\ new.at = reply /\ new.reply = stock /\ new.rows = co[r].rows
  BY <1>0 DEF Frame, Replies
<1>2. co' = [co EXCEPT ![r] = new] /\ stock' = stock /\ co[r].at = ask
  BY DEF Serve, Becomes
<1>3. Stage(co[r].at) = "open" /\ Stage(new.at) = "open"
  BY <1>1, <1>2 DEF Stage, Asks, Replies
<1> HIDE DEF new
<1>4. [q \in Requests |-> co'[q].rows] = [q \in Requests |-> co[q].rows]
  BY <1>0, <1>1, <1>2, ShownStep
<1>5. [q \in Requests |-> co'[q].reply] = [[q \in Requests |-> co[q].reply] EXCEPT ![r] = stock]
  BY <1>0, <1>1, <1>2, LookStep
<1>6. [q \in Requests |-> Stage(co'[q].at)] = [q \in Requests |-> Stage(co[q].at)]
  BY <1>0, <1>1, <1>2, <1>3, StageStep
<1> QED BY <1>2, <1>3, <1>4, <1>5, <1>6 DEF Fresh!Look

LEMMA SettlesFresh ==
  ASSUME CatalogInv, CatalogInv', NEW r \in Requests, NEW new \in Frame,
         co' = [co EXCEPT ![r] = new], UNCHANGED stock, co[r].at # "done", Settles(co[r], new)
  PROVE  Fresh!Answer(r)
<1>0. TypeOK /\ co[r] \in Frame /\ co'[r] = new BY DEF CatalogInv, TypeOK
<1>1. Stage(new.at) = "answered" /\ Stage(co[r].at) # "answered"
  BY DEF Settles, Stage
<1>2. AllAsTold(new.reply, new.rows) BY <1>0 DEF CatalogInv, FrameIsOwn, Settles
<1>3. new.rows \in Shown /\ DOMAIN new.rows \subseteq Skus
  BY DEF Frame, Shown, CatalogOver
<1>4. Fresh!IsOf(new.rows, new.reply)
  BY <1>2, <1>3 DEF Fresh!IsOf, AllAsTold, ShownAsTold, Told
<1>5. \/ [q \in Requests |-> co'[q].reply] = [q \in Requests |-> co[q].reply]
      \/ [q \in Requests |-> co'[q].reply] =
           [[q \in Requests |-> co[q].reply] EXCEPT ![r] = NoReply]
  <2>1. new.reply = co[r].reply \/ new.reply = NoReply BY DEF Settles
  <2> QED BY <1>0, <2>1, LookStep
<1>6. [q \in Requests |-> co'[q].rows] = [[q \in Requests |-> co[q].rows] EXCEPT ![r] = new.rows]
  BY <1>0, ShownStep
<1>7. [q \in Requests |-> Stage(co'[q].at)] =
        [[q \in Requests |-> Stage(co[q].at)] EXCEPT ![r] = "answered"]
  BY <1>0, <1>1, StageStep
<1> QED BY <1>0, <1>1, <1>3, <1>4, <1>5, <1>6, <1>7 DEF Fresh!Answer

(* Every step of a coroutine but KB-IHMS's serving it goes on or answers. *)
Advances(r) ==
  /\ UNCHANGED stock /\ co[r].at # "done"
  /\ \E new \in Frame : /\ co' = [co EXCEPT ![r] = new]
                       /\ (GoesOn(co[r], new) \/ Settles(co[r], new))

LEMMA AdvancesWith ==
  ASSUME NEW r \in Requests, NEW new \in Frame, Becomes(r, new), UNCHANGED stock,
         co[r].at # "done", GoesOn(co[r], new) \/ Settles(co[r], new)
  PROVE  Advances(r)
BY DEF Advances, Becomes

LEMMA NothingSettles ==
  ASSUME NEW frame \in Frame, NEW answer \in {"rows", "notFound", "error"}
  PROVE  Answer(frame, answer, Empty) \in Frame /\ Settles(frame, Answer(frame, answer, Empty))
<1>1. Empty \in Shown BY CatalogTypes, CatalogIsShown
<1>2. Answer(frame, answer, Empty) \in Frame BY <1>1, AnswerType
<1> QED BY <1>1, <1>2, AnswerSettles

(* The frame that an exception leaves has no reply to show. *)
LEMMA AfterReset ==
  ASSUME NEW old \in Frame, NEW new, NEW frame \in {old, Goto(old, "done")},
         GoesOn(frame, new) \/ Settles(frame, new)
  PROVE  GoesOn(old, new) \/ Settles(old, new)
BY GotoType DEF GoesOn, Settles

LEMMA ArriveAdvances ==
  ASSUME CatalogInv, NEW r \in Requests, Arrive(r)
  PROVE  Advances(r)
<1>0. co[r] \in Frame /\ UNCHANGED stock /\ co[r].at = "idle" BY DEF CatalogInv, TypeOK, Arrive
<1>1. CASE Becomes(r, Answer(co[r], "notFound", Empty))
  BY <1>0, <1>1, NothingSettles, AdvancesWith
<1>2. CASE Begin(r)
  <2>1. ASSUME NEW place \in {"askInventory", "askProducts"}
        PROVE  Goto(co[r], place) \in Frame /\ GoesOn(co[r], Goto(co[r], place))
    BY <1>0, GotoType DEF Asks, GoesOn
  <2>2. CASE Mode = "inventory" BY <1>0, <1>2, <2>1, <2>2, AdvancesWith DEF Begin
  <2>3. CASE Mode # "inventory" BY <1>0, <1>2, <2>1, <2>3, AdvancesWith DEF Begin
  <2> QED BY <2>2, <2>3
<1> QED BY <1>1, <1>2 DEF Arrive

LEMMA RaiseAdvances ==
  ASSUME CatalogInv, CatalogInv', NEW r \in Requests, NEW frame \in {co[r], Goto(co[r], "done")},
         Raise(r, frame), UNCHANGED stock, co[r].at # "done"
  PROVE  Advances(r)
<1>0. co[r] \in Frame /\ req[r] \in Request /\ co' \in [Requests -> Frame] /\ TypeOK
  BY DEF CatalogInv, TypeOK
<1>1. frame \in Frame BY <1>0, GotoType
<1>2. CASE Fallback
  <2> DEFINE new == Read(r, frame, JsonRows)
  <2>1. Becomes(r, new) BY <1>2 DEF Raise
  <2>2. new \in Frame BY <1>0, <2>1 DEF Becomes, TypeOK
  <2>3. GoesOn(frame, new) \/ Settles(frame, new) BY <1>0, <1>1, CatalogTypes, ReadGoes
  <2> HIDE DEF new
  <2>4. GoesOn(co[r], new) \/ Settles(co[r], new) BY <1>0, <2>3, AfterReset
  <2> QED BY <2>1, <2>2, <2>4, AdvancesWith
<1>3. CASE ~Fallback
  <2> DEFINE new == Answer(frame, "error", Empty)
  <2>1. Becomes(r, new) BY <1>3 DEF Raise
  <2>2. new \in Frame /\ Settles(frame, new) BY <1>1, NothingSettles
  <2> HIDE DEF new
  <2>3. GoesOn(co[r], new) \/ Settles(co[r], new) BY <1>0, <2>2, AfterReset
  <2> QED BY <2>1, <2>2, <2>3, AdvancesWith
<1> QED BY <1>2, <1>3

LEMMA RefreshAdvances ==
  ASSUME CatalogInv, CatalogInv', NEW r \in Requests,
         \/ ProductsArrive(r) \/ ProductsEmpty(r) \/ ProductsFail(r)
         \/ InventoryArrives(r) \/ BothEmpty(r) \/ InventoryFails(r)
  PROVE  Advances(r)
<1>0. co[r] \in Frame /\ req[r] \in Request /\ co' \in [Requests -> Frame] /\ TypeOK
  BY DEF CatalogInv, TypeOK
<1>1. UNCHANGED stock /\ co[r].at # "done"
  BY DEF ProductsArrive, ProductsEmpty, ProductsFail, InventoryArrives, BothEmpty, InventoryFails
<1>2. CASE ProductsArrive(r) \/ InventoryArrives(r)
  <2> DEFINE new == Read(r, co[r], co[r].reply)
  <2>1. Becomes(r, new) BY <1>2 DEF ProductsArrive, InventoryArrives
  <2>2. co[r].reply \in Catalog
    BY <1>2 DEF ProductsArrive, InventoryArrives, CatalogInv, FrameIsOwn, Replies
  <2>3. new \in Frame BY <1>0, <2>1 DEF Becomes, TypeOK
  <2>4. GoesOn(co[r], new) \/ Settles(co[r], new) BY <1>0, <2>2, ReadGoes
  <2> HIDE DEF new
  <2> QED BY <1>1, <2>1, <2>3, <2>4, AdvancesWith
<1>3. CASE Becomes(r, Goto(co[r], "askInventory"))
  <2>1. /\ Goto(co[r], "askInventory") \in Frame
        /\ GoesOn(co[r], Goto(co[r], "askInventory"))
    BY <1>0, GotoType DEF Asks, GoesOn
  <2> QED BY <1>1, <1>3, <2>1, AdvancesWith
<1>4. CASE \E frame \in {co[r], Goto(co[r], "done")} : Raise(r, frame)
  BY <1>1, <1>4, RaiseAdvances
<1> QED BY <1>2, <1>3, <1>4 DEF ProductsEmpty, ProductsFail, BothEmpty, InventoryFails

LEMMA JoinAdvances ==
  ASSUME CatalogInv, CatalogInv', NEW r \in Requests, JoinArrives(r) \/ JoinFails(r)
  PROVE  Advances(r)
<1>0. co[r] \in Frame /\ co' \in [Requests -> Frame] /\ TypeOK BY DEF CatalogInv, TypeOK
<1>1. UNCHANGED stock /\ co[r].at # "done" BY DEF JoinArrives, JoinFails
<1>2. PICK frame \in {co[r], Goto(co[r], "done")} : \E rows : Becomes(r, Answer(frame, "rows", rows))
  BY DEF JoinArrives, JoinFails
<1>3. PICK rows : Becomes(r, Answer(frame, "rows", rows)) BY <1>2
<1>4. frame \in Frame BY <1>0, GotoType
<1> DEFINE new == Answer(frame, "rows", rows)
<1>5. new \in Frame BY <1>0, <1>3 DEF Becomes, TypeOK
<1>6. Settles(frame, new) BY <1>4 DEF Settles, Answer, Frame
<1> HIDE DEF new
<1>7. GoesOn(co[r], new) \/ Settles(co[r], new) BY <1>0, <1>6, AfterReset
<1> QED BY <1>1, <1>5, <1>7, <1>3, AdvancesWith DEF new

LEMMA StepFresh ==
  ASSUME CatalogInv, CatalogInv', [Next]_vars
  PROVE  [Fresh!FreshNext]_(Fresh!freshVars)
<1>1. ASSUME NEW r \in Requests, Advances(r) PROVE Fresh!FreshNext
  BY <1>1, GoesOnFresh, SettlesFresh DEF Advances, Fresh!FreshNext
<1>2. ASSUME NEW r \in Requests, Arrive(r) PROVE Fresh!FreshNext
  BY <1>1, <1>2, ArriveAdvances
<1>3. ASSUME NEW r \in Requests, Step(r) PROVE Fresh!FreshNext
  <2>1. CASE ServeProducts(r) \/ ServeInventory(r) \/ ServeJoin(r)
    BY <2>1, ServeFresh DEF ServeProducts, ServeInventory, ServeJoin, Asks, Replies, Fresh!FreshNext
  <2>2. CASE ~(ServeProducts(r) \/ ServeInventory(r) \/ ServeJoin(r))
    <3>1. Advances(r) BY <1>3, <2>2, RefreshAdvances, JoinAdvances DEF Step
    <3> QED BY <1>1, <3>1
  <2> QED BY <2>1, <2>2
<1>4. CASE StockMoves BY <1>4 DEF StockMoves, Fresh!FreshNext, Fresh!StockMoves
<1>5. CASE UNCHANGED vars BY <1>5 DEF vars, Fresh!freshVars
<1> QED BY <1>2, <1>3, <1>4, <1>5 DEF Next

LEMMA InitFresh == Init => Fresh!FreshInit
<1> SUFFICES ASSUME Init PROVE Fresh!FreshInit
  OBVIOUS
<1>1. \A r \in Requests : /\ co[r].at = "idle" /\ Stage(co[r].at) = "idle"
                        /\ co[r].reply = NoReply /\ co[r].rows = Empty
  BY DEF Init, Stage
<1>2. DOMAIN Empty = {} BY DEF Empty
<1> QED BY <1>1, <1>2 DEF Fresh!FreshInit

(* However many requests refresh the shared cache at once, and whichever of their *)
(* replies overtake each other, fail or are empty, each answer is one look at     *)
(* KB-IHMS's stock that was taken while that request was served.                  *)
THEOREM CatalogImplementsFresh == Spec => ImplementsFresh
<1>1. CatalogInv /\ CatalogInv' /\ [Next]_vars => [Fresh!FreshNext]_(Fresh!freshVars)
  BY StepFresh
<1> QED BY <1>1, InitFresh, CatalogInvInit, CatalogInvKept, PTL
        DEF Spec, ImplementsFresh, Fresh!FreshSpec
====
