---- MODULE ShopTabProofs ----
(***************************************************************************)
(* Proofs about ShopTab: the page changes nothing of the saga beneath it,  *)
(* so every theorem about CheckoutSaga holds with the page on top; and     *)
(* ShopInv, from which the page's own safety properties follow.            *)
(***************************************************************************)
EXTENDS ShopTab, CheckoutSagaHoldProofs, FiniteSetTheorems

-----------------------------------------------------------------------------
(* The page on top of the saga is the saga with fewer requests. *)

LEMMA TabLeavesSaga == TabStep => UNCHANGED vars
<1> SUFFICES ASSUME TabStep PROVE UNCHANGED vars
  OBVIOUS
<1>1. CASE \E r \in Shopper : Click(r) \/ AnswerOk(r) \/ AnswerError(r) \/ AnswerLost(r)
  BY <1>1 DEF Click, AnswerOk, AnswerError, AnswerLost
<1>2. CASE LoadSession \/ PollSession BY <1>2 DEF LoadSession, PollSession, SessionArrives
<1>3. CASE AddToCart \/ RemoveFromCart \/ ContinueShopping \/ Retry \/ Reload
  BY <1>3 DEF AddToCart, RemoveFromCart, ContinueShopping, Retry, Reload, shopVars
<1> QED BY <1>1, <1>2, <1>3 DEF TabStep

LEMMA ShopStepIsSagaStep == [ShopNext]_shopVars => [Next]_vars
<1> SUFFICES ASSUME [ShopNext]_shopVars PROVE [Next]_vars
  OBVIOUS
<1>1. CASE TabStep BY <1>1, TabLeavesSaga
<1>2. CASE \E r \in Requests : Serve(r) BY <1>2 DEF Serve, Arrival, Next
<1>3. CASE \E h \in HoldIds : Elapse(h) BY <1>3 DEF Elapse, Next
<1>4. CASE UNCHANGED shopVars BY <1>4 DEF shopVars
<1> QED BY <1>1, <1>2, <1>3, <1>4 DEF ShopNext

(* Every theorem about the specification of the saga holds of the shop: a step *)
(* of the page is a stutter of the saga, and a served request a step of it.    *)
THEOREM ShopRunsTheSaga == ShopSpec => Spec
<1>1. ShopInit => Init BY DEF ShopInit
<1> QED BY <1>1, ShopStepIsSagaStep, PTL DEF ShopSpec, Spec

-----------------------------------------------------------------------------
(* The types of the page *)

LEMMA TabNames == None \notin Shopper /\ Nothing \in View /\ NoneAssumption
<1>1. None \notin Shopper BY NoneAssumption, ShopperAssumption
<1>2. Nothing \in View BY DEF Nothing, View, States
<1> QED BY <1>1, <1>2, NoneAssumption DEF NoneAssumption

LEMMA SaysType ==
  ASSUME NEW session \in SessionRec
  PROVE  Says(session) \in View
  BY DEF SessionRec, Says, View

LEMMA ClearedType ==
  ASSUME NEW view, NEW record \in Stored \cup {None}
  PROVE  Cleared(view, record) \in Stored \cup {None}
  BY DEF Cleared

LEMMA ShopperType ==
  ASSUME ShopTypeOK, NEW r \in Shopper
  PROVE  /\ r \in Requests /\ S(r) \in Sessions /\ K(r) \in Keys
         /\ [sid |-> S(r), key |-> K(r)] \in Stored
<1>1. r \in Requests BY ShopperAssumption
<1>2. S(r) \in Sessions /\ K(r) \in Keys BY <1>1, RequestType DEF ShopTypeOK
<1> QED BY <1>1, <1>2 DEF Stored

LEMMA TabTypeOK == ShopTypeOK /\ TypeOK' /\ TabStep => ShopTypeOK'
<1> SUFFICES ASSUME ShopTypeOK, TypeOK', TabStep PROVE ShopTypeOK'
  OBVIOUS
<1> USE DEF ShopTypeOK
<1>0. /\ tab \in Tab /\ stored \in Stored \cup {None} /\ shown \in View /\ reply \in View
      /\ Nothing \in View
  BY TabNames
<1>1. CASE AddToCart \/ RemoveFromCart BY <1>1 DEF AddToCart, RemoveFromCart, Tab
<1>2. CASE \E r \in Shopper : Click(r)
  <2>1. PICK r \in Shopper : Click(r) BY <1>2
  <2>2. tab' \in Tab BY <2>1, ShopperType DEF Click, Tab
  <2> QED BY <2>1, <2>2 DEF Click
<1>3. CASE \E r \in Shopper : AnswerOk(r)
  <2>1. PICK r \in Shopper : AnswerOk(r) BY <1>3
  <2>2. tab' \in Tab BY <2>1, ShopperType DEF AnswerOk, Tab
  <2>3. stored' \in Stored \cup {None} BY <2>1, ShopperType, ClearedType DEF AnswerOk
  <2> QED BY <1>0, <2>1, <2>2, <2>3 DEF AnswerOk
<1>4. CASE \E r \in Shopper : AnswerError(r) \/ AnswerLost(r)
  BY <1>0, <1>4 DEF AnswerError, AnswerLost, Tab
<1>5. CASE LoadSession \/ PollSession
  <2>1. tab.sid \in Sessions BY <1>5 DEF LoadSession, PollSession, Tab
  <2>2. shown' \in View
    BY <1>5, <2>1, SaysType DEF LoadSession, PollSession, SessionArrives, TypeOK
  <2>3. stored' \in Stored \cup {None}
    BY <1>5, ClearedType DEF LoadSession, PollSession, SessionArrives
  <2> QED BY <1>5, <2>2, <2>3 DEF LoadSession, PollSession, SessionArrives
<1>6. CASE ContinueShopping BY <1>0, <1>6 DEF ContinueShopping, Tab
<1>7. CASE Retry BY <1>7 DEF Retry, shopVars, page
<1>8. CASE Reload
  <2>1. tab' \in Tab BY <1>8 DEF Reload, Tab, Stored
  <2> QED BY <1>0, <1>8, <2>1 DEF Reload
<1> QED BY <1>1, <1>2, <1>3, <1>4, <1>5, <1>6, <1>7, <1>8 DEF TabStep

LEMMA ServeTypeOK ==
  ASSUME ShopTypeOK, TypeOK', NEW r \in Requests, Serve(r)
  PROVE  ShopTypeOK'
<1>1. reply' \in View
  <2>1. CASE reply' = reply BY <2>1 DEF ShopTypeOK
  <2>2. CASE tab.call # None /\ reply' = Says(sess'[S(tab.call)])
    <3>1. tab.call \in Shopper BY <2>2 DEF ShopTypeOK, Tab
    <3>2. S(tab.call) \in Sessions BY <3>1, ShopperType
    <3>3. sess'[S(tab.call)] \in SessionRec BY <3>2 DEF TypeOK
    <3> QED BY <2>2, <3>3, SaysType
  <2> QED BY <2>1, <2>2 DEF Serve, Respond
<1> QED BY <1>1 DEF Serve, ShopTypeOK

LEMMA ShopNextTypeOK == ShopTypeOK /\ [ShopNext]_shopVars => ShopTypeOK'
<1> SUFFICES ASSUME ShopTypeOK, [ShopNext]_shopVars PROVE ShopTypeOK'
  OBVIOUS
<1>0. TypeOK' BY ShopStepIsSagaStep, NextTypeOK DEF ShopTypeOK
<1>1. CASE TabStep BY <1>0, <1>1, TabTypeOK
<1>2. CASE \E r \in Requests : Serve(r) BY <1>0, <1>2, ServeTypeOK
<1>3. CASE \E h \in HoldIds : Elapse(h) BY <1>0, <1>3 DEF Elapse, page, ShopTypeOK
<1>4. CASE UNCHANGED shopVars BY <1>0, <1>4 DEF shopVars, page, ShopTypeOK
<1> QED BY <1>1, <1>2, <1>3, <1>4 DEF ShopNext

LEMMA ShopInitTypeOK == ShopInit => ShopTypeOK
  BY InitTypeOK, TabNames DEF ShopInit, ShopTypeOK, Tab

(* The page's state, what it has stored and what is in flight keep their types. *)
THEOREM ShopTypeCorrect == ShopSpec => []ShopTypeOK
  BY ShopInitTypeOK, ShopNextTypeOK, PTL DEF ShopSpec

-----------------------------------------------------------------------------
(* What a coroutine of the shop's requests does to its frame: it goes on to  *)
(* a place that no abandon reaches, or it answers, "ok" only with an order.  *)

Unreached == {"abandonLock", "abandonRelease"}
FrameFits(f) ==
  /\ f.at \notin Unreached
  /\ f.answer = "ok" => f.got # None
Turns(r) == \E f : co' = [co EXCEPT ![r] = f] /\ FrameFits(f)

LEMMA GoesOn ==
  ASSUME SagaInv, NEW r \in Requests, ~At(r, "done"), NEW place, place \notin Unreached,
         Goto(r, place)
  PROVE  Turns(r)
<1>1. co[r].answer = "none" BY Unanswered
<1>2. FrameFits(Moved(r, place)) BY <1>1, MovedFields DEF FrameFits, SagaInv, TypeOK
<1> QED BY <1>2 DEF Goto, Turns

LEMMA Enters ==
  ASSUME SagaInv, NEW r \in Requests, ~At(r, "done"), NEW place, place \notin Unreached,
         NEW session \in SessionRec, co' = [co EXCEPT ![r] = Loaded(r, place, session)]
  PROVE  Turns(r)
<1>1. co[r].answer = "none" BY Unanswered
<1>2. Loaded(r, place, session).at = place /\ Loaded(r, place, session).answer = "none"
  BY <1>1 DEF SagaInv, TypeOK, Loaded, Moved, Frame
<1>3. FrameFits(Loaded(r, place, session)) BY <1>2 DEF FrameFits
<1> QED BY <1>3 DEF Turns

LEMMA TriesAgain ==
  ASSUME SagaInv, NEW r \in Requests, ~At(r, "done"), co[r].at \notin Unreached, Again(r)
  PROVE  Turns(r)
<1>1. co[r].answer = "none" BY Unanswered
<1>2. PICK f : f = [co[r] EXCEPT !.tries = co[r].tries + 1] OBVIOUS
<1>3. f.at = co[r].at /\ f.answer = "none" BY <1>1, <1>2 DEF SagaInv, TypeOK, Frame
<1>4. FrameFits(f) BY <1>3 DEF FrameFits
<1> QED BY <1>2, <1>4 DEF Again, Turns

LEMMA Answers ==
  ASSUME SagaInv, NEW r \in Requests, NEW status, NEW o, Answer(r, status, o),
         status = "ok" => o # None
  PROVE  Turns(r)
<1>1. PICK f : f = [NewFrame EXCEPT !.at = "done", !.answer = status, !.got = o] OBVIOUS
<1>2. f.at = "done" /\ f.answer = status /\ f.got = o BY <1>1 DEF NewFrame
<1>3. FrameFits(f) BY <1>2 DEF FrameFits, Unreached
<1> QED BY <1>1, <1>3 DEF Answer, Turns

LEMMA ArriveTurns ==
  ASSUME SagaInv, NEW r \in Requests, req[r].op \in {"checkout", "confirm"}, Arrive(r)
  PROVE  Turns(r) /\ At(r, "idle")
<1>1. At(r, "idle") /\ ~At(r, "done") /\ Session(r) \in SessionRec
  BY RequestType DEF SagaInv, Arrive, ArriveCart, ArriveCheckout, ArriveConfirm, ArriveAbandon,
     Arrives, At
<1>2. CASE ArriveCart(r) BY <1>2 DEF ArriveCart, Arrives
<1>3. CASE ArriveCheckout(r) BY <1>1, <1>3, GoesOn DEF ArriveCheckout, Unreached
<1>4. CASE ArriveConfirm(r) /\ co' = [co EXCEPT ![r] = Loaded(r, "validate", Session(r))]
  BY <1>1, <1>4, Enters DEF Unreached
<1>5. CASE ArriveConfirm(r) /\ co' = [co EXCEPT ![r] = Moved(r, "confirmLock")]
  <2>1. Goto(r, "confirmLock") BY <1>5 DEF Goto
  <2> QED BY <1>1, <2>1, GoesOn DEF Unreached
<1>6. CASE ArriveAbandon(r) BY <1>6 DEF ArriveAbandon, Arrives
<1> QED BY <1>1, <1>2, <1>3, <1>4, <1>5, <1>6 DEF Arrive, ArriveConfirm

LEMMA TakeLockTurns ==
  ASSUME SagaInv, NEW r \in Requests, co[r].at \notin Unreached, TakeLock(r)
  PROVE  Turns(r) /\ co[r].at \notin {"idle", "done"}
<1>1. co[r].at \in {"holdLock", "confirmLock"}
  BY DEF TakeLock, HoldLocked, HoldTooLate, ConfirmReplay, ConfirmResumes, ConfirmFresh,
     ConfirmRefused, AbandonRefused, AbandonCreated, AbandonHeld, Confirming, Abandoning, At,
     Unreached
<1>2. ~At(r, "done") /\ Session(r) \in SessionRec BY <1>1, RequestType DEF At, SagaInv
<1>3. CASE HoldLocked(r) BY <1>1, <1>2, <1>3, Enters DEF HoldLocked, Enter, Unreached
<1>4. CASE HoldTooLate(r) BY <1>1, <1>4, Answers DEF HoldTooLate
<1>5. CASE ConfirmReplay(r)
  <2>1. PICK place \in {"retryFulfill", "cachedFulfill"} :
          \E stale : co' = [co EXCEPT ![r] = Loaded(r, place, FromCache(r, Session(r), stale))]
    BY <1>5 DEF ConfirmReplay
  <2>2. PICK stale : co' = [co EXCEPT ![r] = Loaded(r, place, FromCache(r, Session(r), stale))]
    BY <2>1
  <2>3. FromCache(r, Session(r), stale) = Session(r) BY <1>5, CacheHit DEF ConfirmReplay
  <2> QED BY <1>1, <1>2, <2>2, <2>3, Enters DEF Unreached
<1>6. CASE ConfirmResumes(r)
  <2>1. PICK place \in {"resolve", "retryFulfill"} : Enter(r, place) BY <1>6 DEF ConfirmResumes
  <2> QED BY <1>1, <1>2, <2>1, Enters DEF Enter, Unreached
<1>7. CASE ConfirmFresh(r) BY <1>1, <1>2, <1>7, Enters DEF ConfirmFresh, Enter, Unreached
<1>8. CASE ConfirmRefused(r) BY <1>1, <1>8, Answers DEF ConfirmRefused
<1>9. CASE AbandonRefused(r) \/ AbandonCreated(r) \/ AbandonHeld(r)
  BY <1>1, <1>9 DEF AbandonRefused, AbandonCreated, AbandonHeld, Abandoning, At
<1> QED BY <1>1, <1>3, <1>4, <1>5, <1>6, <1>7, <1>8, <1>9 DEF TakeLock

LEMMA ResumePlaces ==
  ASSUME NEW r \in Requests, Resume(r)
  PROVE  co[r].at \in Places \ {"idle", "done", "holdLock", "confirmLock", "abandonLock"}
<1>1. \/ co[r].at \in {"refresh", "validate", "stock", "createHold", "createOrder"}
      \/ co[r].at \in Lookups \cup Fulfills \cup Releases
  BY DEF Resume, RejectCart, ValidateActive, ValidateFails, PlaceOrder, PlaceOrderReplay,
     PlaceOrderRefused, PlaceOrderResumes, HoldRequested, HoldRefused, StockChecked, StockShort,
     HoldCreated, HoldCreateFails, LookupFound, LookupAgain, PreflightEmpty, LookupEmpty,
     LookupFails, StatusUnknown, StillUnknown, CreateOrder, CreateOrderReplayed,
     CreateOrderConflict, CreateOrderFails, CreateOrderTimeout, FulfillSucceeds, FulfillTimeout,
     FulfillGivesUp, ReleaseSucceeds, ReleaseTimeout, ReleaseGivesUp, ReplyUnreadable, At, Lookups
<1> QED BY <1>1 DEF Places, InLock, Lookups, Fulfills, Releases

LEMMA FulfillTurns ==
  ASSUME SagaInv, NEW r \in Requests, co[r].at \in Fulfills,
         (\E state : Record(r, state)) \/ AnswerAsIs(r)
  PROVE  Turns(r)
<1>1. co[r].at \in InLock BY DEF InLock
<1>2. co[r].got \in Listed(S(r)) BY <1>1, Holding DEF PlaceFits
<1>3. co[r].got # None BY <1>2, NoneAssumption DEF Listed
<1> QED BY <1>3, Answers DEF Record, AnswerAsIs

LEMMA ResumeTurns ==
  ASSUME SagaInv, NEW r \in Requests, co[r].at \notin Unreached,
         req[r].op \in {"checkout", "confirm"}, Resume(r)
  PROVE  Turns(r) /\ co[r].at \notin {"idle", "done"}
<1>1. ~At(r, "done") /\ co[r].at \notin {"idle", "done"} BY ResumePlaces DEF At
<1>2. CASE \/ RejectCart(r) \/ ValidateFails(r) \/ PlaceOrderRefused(r) \/ HoldRefused(r)
           \/ StockShort(r) \/ HoldCreateFails(r) \/ StatusUnknown(r) \/ StillUnknown(r)
           \/ ReleaseGivesUp(r) \/ ReplyUnreadable(r)
  BY <1>1, <1>2, Answers DEF RejectCart, ValidateFails, PlaceOrderRefused, HoldRefused, StockShort,
     HoldCreateFails, StatusUnknown, StillUnknown, ReleaseGivesUp, ReplyUnreadable
<1>3. CASE \/ ValidateActive(r) \/ PlaceOrderResumes(r) \/ HoldRequested(r) \/ StockChecked(r)
           \/ PreflightEmpty(r) \/ LookupEmpty(r) \/ LookupFails(r) \/ CreateOrderConflict(r)
           \/ CreateOrderFails(r) \/ CreateOrderTimeout(r)
  <2>1. PICK place : Goto(r, place) /\ place \notin Unreached
    BY <1>3 DEF ValidateActive, PlaceOrderResumes, HoldRequested, StockChecked, PreflightEmpty,
       LookupEmpty, LookupFails, CreateOrderConflict, CreateOrderFails, CreateOrderTimeout, Unreached
  <2> QED BY <1>1, <2>1, GoesOn
<1>4. CASE LookupAgain(r) \/ FulfillTimeout(r) \/ ReleaseTimeout(r)
  BY <1>1, <1>4, TriesAgain DEF LookupAgain, FulfillTimeout, ReleaseTimeout
<1>5. CASE PlaceOrderReplay(r) BY <1>1, <1>5, Answers DEF PlaceOrderReplay, Cached
<1>6. CASE HoldCreated(r)
  <2>1. Goto(r, "confirmLock") BY <1>6 DEF HoldCreated
  <2> QED BY <1>1, <2>1, GoesOn DEF Unreached
<1>7. CASE LookupFound(r) \/ CreateOrder(r) \/ CreateOrderReplayed(r)
  <2>1. PICK place \in {"fulfill", "fulfillFound"} :
          \E o : co' = [co EXCEPT ![r] = [Moved(r, place) EXCEPT !.got = o]]
    BY <1>7 DEF LookupFound, CreateOrder, CreateOrderReplayed, OrderPlaced
  <2>2. PICK o : co' = [co EXCEPT ![r] = [Moved(r, place) EXCEPT !.got = o]] BY <2>1
  <2>3. co[r].answer = "none" BY <1>1, Unanswered
  <2>4. PICK f : f = [Moved(r, place) EXCEPT !.got = o] OBVIOUS
  <2>5. f.at = place /\ f.answer = "none"
    BY <2>3, <2>4 DEF SagaInv, TypeOK, Moved, Frame
  <2>6. FrameFits(f) BY <2>5 DEF FrameFits, Unreached
  <2> QED BY <1>1, <2>2, <2>4, <2>6 DEF Turns
<1>8. CASE FulfillSucceeds(r) \/ FulfillGivesUp(r)
  BY <1>1, <1>8, FulfillTurns DEF FulfillSucceeds, FulfillGivesUp
<1>9. CASE ReleaseSucceeds(r)
  <2>1. Answer(r, "failed", None) BY <1>9 DEF ReleaseSucceeds, At, Unreached
  <2> QED BY <1>1, <2>1, Answers
<1> QED BY <1>1, <1>2, <1>3, <1>4, <1>5, <1>6, <1>7, <1>8, <1>9 DEF Resume

-----------------------------------------------------------------------------
(* What a step of the orchestrator keeps of ShopInv *)

(* A session is pinned to the key of its own requests only. *)
LEMMA KeysKept ==
  ASSUME SagaInv, RequestsFit, SessionStep, req' = req,
         \A q \in Requests : Session(q).key \in {None, K(q)}
  PROVE  \A q \in Requests : Session(q)'.key \in {None, K(q)}
<1> SUFFICES ASSUME NEW q \in Requests PROVE sess'[S(q)].key \in {None, K(q)}
  BY DEF Session, S
<1>1. S(q) \in Sessions /\ sess[S(q)].key \in {None, K(q)}
  BY RequestType DEF SagaInv, Session
<1>2. CASE UNCHANGED sess BY <1>1, <1>2
<1>3. CASE ~UNCHANGED sess
  <2>1. PICK s \in Sessions, new \in SessionRec :
          sess' = [sess EXCEPT ![s] = new] /\ SessionMove(s, new)
    BY <1>3 DEF SessionStep
  <2>2. CASE s # S(q) BY <1>1, <2>1, <2>2 DEF SagaInv, TypeOK
  <2>3. CASE s = S(q)
    <3>1. sess'[S(q)] = new BY <1>1, <2>1, <2>3 DEF SagaInv, TypeOK
    <3>2. \A r \in Requests : S(r) = s => K(r) = K(q) BY <2>3 DEF RequestsFit
    <3>3. new.key \in {sess[s].key, None} \/ \E r \in Requests : S(r) = s /\ new.key = K(r)
      BY <2>1 DEF SessionMove
    <3> QED BY <1>1, <2>3, <3>1, <3>2, <3>3
  <2> QED BY <2>2, <2>3
<1> QED BY <1>2, <1>3

(* A view of a sold session stays one: a sold session only completes. *)
LEMMA ViewKept ==
  ASSUME SagaInv, SessionStep, NEW s \in Sessions, sess[s].state \in Finished
  PROVE  /\ sess'[s].state \in Finished
         /\ sess'[s].key = sess[s].key
         /\ \A view : ViewFits(view, sess[s]) => ViewFits(view, sess'[s])
<1>1. CASE UNCHANGED sess BY <1>1
<1>2. CASE ~UNCHANGED sess
  <2>1. PICK t \in Sessions, new \in SessionRec :
          sess' = [sess EXCEPT ![t] = new] /\ SessionMove(t, new)
    BY <1>2 DEF SessionStep
  <2>2. CASE t # s BY <2>1, <2>2 DEF SagaInv, TypeOK
  <2>3. CASE t = s
    <3>1. sess'[s] = new BY <2>1, <2>3 DEF SagaInv, TypeOK
    <3>2. /\ sess[s].state = "FULFILL_PENDING" /\ new.state = "CONFIRMED"
          /\ new.order = sess[s].order /\ new.key = sess[s].key
      BY <2>1, <2>3 DEF SessionMove, Finished
    <3> QED BY <3>1, <3>2 DEF ViewFits, Finished
  <2> QED BY <2>2, <2>3
<1> QED BY <1>1, <1>2

(* EC-OPS makes orders for requests, and none with a key it has seen. *)
LEMMA OrdersFitKept ==
  ASSUME SagaInv, OrdersFit, [Next]_vars, req' = req
  PROVE  OrdersFit'
<1>1. CASE UNCHANGED order BY <1>1 DEF OrdersFit, Placed, S, K
<1>2. CASE ~UNCHANGED order
  <2>1. PICK r \in Requests, o \in OrderIds : OrderMade(r, o) BY <1>2, OrderStep
  <2>2. /\ order'[o] = [ref |-> S(r), key |-> K(r)]
        /\ \A p \in OrderIds \ {o} : order'[p] = order[p]
    BY <2>1 DEF OrderMade, SagaInv, TypeOK
  <2>3. EnforceUnique => \A p \in OrderIds : Placed(p) => order[p].key # K(r)
    BY <2>1 DEF OrderMade, Accepts, KeyTaken
  <2>4. order'[o].ref = S(r) /\ order'[o].key = K(r) BY <2>2
  <2> SUFFICES ASSUME NEW p \in OrderIds, Placed(p)'
               PROVE  /\ \E q \in Requests : order'[p].ref = S(q) /\ order'[p].key = K(q)
                      /\ \A x \in OrderIds :
                           EnforceUnique /\ Placed(x)' /\ order'[x].key = order'[p].key => x = p
    BY DEF OrdersFit, S, K
  <2>5. p = o \/ (Placed(p) /\ order'[p] = order[p]) BY <2>2 DEF Placed
  <2>6. \E q \in Requests : order'[p].ref = S(q) /\ order'[p].key = K(q)
    BY <2>4, <2>5 DEF OrdersFit
  <2>7. ASSUME NEW x \in OrderIds, EnforceUnique, Placed(x)', order'[x].key = order'[p].key
        PROVE  x = p
    <3>1. x = o \/ (Placed(x) /\ order'[x] = order[x]) BY <2>2, <2>7 DEF Placed
    <3> QED BY <2>3, <2>4, <2>5, <2>7, <3>1 DEF OrdersFit
  <2> QED BY <2>6, <2>7
<1> QED BY <1>1, <1>2

(* A request that is served changes its own frame only, and is one the tab sent. *)
LEMMA ServeTurns ==
  ASSUME SagaInv, RequestsFit, ServerFits, NEW r \in Requests, Serve(r)
  PROVE  \/ UNCHANGED co
         \/ Turns(r) /\ ~At(r, "done") /\ r \notin Shopper \ sent
<1>0. req[r].op \in {"checkout", "confirm"} /\ co[r].at \notin Unreached
  BY DEF RequestsFit, ServerFits, Unreached
<1>1. CASE Arrival(r)
  BY <1>0, <1>1, ArriveTurns DEF Arrival, At
<1>2. CASE TakeLock(r)
  <2>1. Turns(r) /\ co[r].at \notin {"idle", "done"} BY <1>0, <1>2, TakeLockTurns
  <2> QED BY <2>1 DEF ServerFits, At
<1>3. CASE Resume(r)
  <2>1. Turns(r) /\ co[r].at \notin {"idle", "done"} BY <1>0, <1>3, ResumeTurns
  <2> QED BY <2>1 DEF ServerFits, At
<1>4. CASE LateOrderTakesEffect(r) BY <1>4 DEF LateOrderTakesEffect
<1> QED BY <1>1, <1>2, <1>3, <1>4 DEF Serve

LEMMA ServeFrames ==
  ASSUME SagaInv, RequestsFit, ServerFits, req' = req, NEW r \in Requests, Serve(r)
  PROVE  \A q \in Requests :
           /\ co'[q].at \notin Unreached
           /\ co'[q].answer = "ok" => co'[q].got # None
           /\ q \in Shopper \ sent => co'[q].at = "idle"
           /\ At(q, "done") => co'[q] = co[q]
<1> SUFFICES ASSUME NEW q \in Requests
             PROVE  /\ co'[q].at \notin Unreached
                    /\ co'[q].answer = "ok" => co'[q].got # None
                    /\ q \in Shopper \ sent => co'[q].at = "idle"
                    /\ At(q, "done") => co'[q] = co[q]
  OBVIOUS
<1>1. CASE co'[q] = co[q] BY <1>1 DEF ServerFits, Unreached, At
<1>2. CASE co'[q] # co[q]
  <2>1. Turns(r) /\ ~At(r, "done") /\ r \notin Shopper \ sent BY <1>2, ServeTurns
  <2>2. PICK f : co' = [co EXCEPT ![r] = f] /\ FrameFits(f) BY <2>1 DEF Turns
  <2>3. q = r /\ co'[q] = f BY <1>2, <2>2 DEF SagaInv, TypeOK
  <2> QED BY <2>1, <2>2, <2>3 DEF FrameFits
<1> QED BY <1>1, <1>2

PageFits == CallFits /\ ShownFits /\ StoredFits /\ AttemptsFit

(* The orchestrator's steps leave the page as it is, but for the response. *)
LEMMA ServePage ==
  ASSUME ShopInv, SagaInv', ShopTypeOK', NEW r \in Requests, Serve(r), req' = req, SessionStep
  PROVE  PageFits'
<1>0. /\ SagaInv /\ TypeOK /\ RequestsFit /\ ServerFits /\ CallFits /\ ShownFits
      /\ StoredFits /\ AttemptsFit
      /\ UNCHANGED <<tab, shown, stored, sent, attempts>>
      /\ tab \in Tab /\ stored \in Stored \cup {None}
  BY DEF ShopInv, SagaInv, Serve, ShopTypeOK
<1>1. \A q \in Requests : S(q)' = S(q) /\ K(q)' = K(q) BY DEF S, K
<1>2. CallFits'
  <2>1. CASE tab.call = None BY <1>0, <2>1 DEF CallFits, Serve, Respond, At
  <2>2. CASE tab.call # None
    <3>1. PICK c \in Shopper : c = tab.call BY <1>0, <2>2 DEF Tab
    <3>2. c \in Requests /\ c \in sent /\ S(c) \in Sessions
      BY <1>0, <2>2, <3>1, ShopperType DEF CallFits, ShopInv
    <3>3. CASE Returns(c) /\ co'[c].answer = "ok"
      <4>1. reply' = Says(sess'[S(c)]) BY <2>2, <3>1, <3>3 DEF Serve, Respond
      <4>2. co'[c].got # None BY <1>0, <3>2, <3>3, ServeFrames
      <4>3. sess'[S(c)].state \in Finished
        BY <1>1, <3>2, <3>3, <4>2 DEF SagaInv, AnswerStands, AnswerFits, Session
      <4>4. ViewFits(reply', sess'[S(c)]) /\ reply' # Nothing
        BY <4>1, <4>3 DEF Says, ViewFits, Nothing, Finished
      <4> QED BY <1>0, <1>1, <2>2, <3>1, <3>2, <4>4 DEF CallFits
    <3>4. CASE ~(Returns(c) /\ co'[c].answer = "ok")
      <4>1. reply' = reply BY <3>1, <3>4 DEF Serve, Respond
      <4>2. reply # Nothing => ViewFits(reply, sess'[S(c)])
        BY <1>0, <3>1, <3>2, ViewKept DEF CallFits, ViewFits
      <4>3. co'[c].at = "done" /\ co'[c].answer = "ok" => reply # Nothing
        <5> SUFFICES ASSUME co'[c].at = "done", co'[c].answer = "ok" PROVE reply # Nothing
          OBVIOUS
        <5>1. At(c, "done") BY <3>4 DEF Returns
        <5>2. co'[c] = co[c] BY <1>0, <3>2, <5>1, ServeFrames
        <5> QED BY <1>0, <2>2, <3>1, <5>1, <5>2 DEF CallFits
      <4> QED BY <1>0, <1>1, <2>2, <3>1, <3>2, <4>1, <4>2, <4>3 DEF CallFits, At
    <3> QED BY <3>3, <3>4
  <2> QED BY <2>1, <2>2
<1>3. ShownFits'
  <2>1. tab.sid \in Sessions \cup {None} BY <1>0 DEF Tab
  <2>2. tab.sid # None => /\ sess'[tab.sid].state \in Finished
                         /\ \A view : ViewFits(view, sess[tab.sid]) => ViewFits(view, sess'[tab.sid])
    BY <1>0, <2>1, ViewKept DEF ShownFits
  <2> QED BY <1>0, <2>2 DEF ShownFits
<1>4. StoredFits'
  <2>1. stored # None => tab.sid = stored.sid /\ stored.sid \in Sessions
    BY <1>0 DEF StoredFits, Stored
  <2>2. stored # None => sess'[stored.sid].key = sess[stored.sid].key
    BY <1>0, <2>1, NoneAssumption, ViewKept DEF ShownFits
  <2> QED BY <1>0, <2>2 DEF StoredFits, Shopping, Complete, Pending
<1>5. AttemptsFit'
  <2>1. attempts \subseteq Requests /\ (tab.call # None => tab.call \in Requests)
    BY <1>0, ShopperAssumption DEF ShopInv, ShopTypeOK, Tab
  <2> QED BY <1>0, <1>1, <2>1 DEF AttemptsFit
<1> QED BY <1>2, <1>3, <1>4, <1>5 DEF PageFits

(* So does time. *)
LEMMA IdlePage ==
  ASSUME ShopInv, UNCHANGED <<sess, req, co, page>>
  PROVE  PageFits'
<1>1. CallFits' BY DEF ShopInv, page, CallFits, At, S
<1>2. ShownFits' BY DEF ShopInv, page, ShownFits
<1>3. StoredFits' BY DEF ShopInv, page, StoredFits, Shopping, Complete, Pending
<1>4. AttemptsFit' BY DEF ShopInv, page, AttemptsFit, K
<1> QED BY <1>1, <1>2, <1>3, <1>4 DEF PageFits

-----------------------------------------------------------------------------
(* What a step of the page keeps of it *)

LEMMA ClickPage ==
  ASSUME ShopInv, NEW r \in Shopper, Click(r)
  PROVE  PageFits'
<1>0. /\ S(r) \in Sessions /\ K(r) \in Keys /\ r \in Requests
      /\ tab \in Tab /\ stored \in Stored \cup {None}
      /\ attempts \subseteq Shopper
  BY ShopperType DEF ShopInv, ShopTypeOK
<1>1. /\ UNCHANGED <<vars, shown, stored, reply>>
      /\ tab.call = None /\ Shopping
      /\ tab'.call = r /\ tab'.key = K(r) /\ tab'.sid = tab.sid
      /\ sent' = sent \cup {r} /\ attempts' = attempts \cup {r}
  BY <1>0 DEF Click, Busy, Tab
<1>2. \A q : S(q)' = S(q) /\ K(q)' = K(q) BY <1>1 DEF vars, S, K
<1>3. CallFits'
  <2>1. At(r, "idle") BY <1>0 DEF Click, ShopInv, ServerFits
  <2>2. reply = Nothing BY <1>1 DEF ShopInv, CallFits
  <2> QED BY <1>1, <2>1, <2>2 DEF CallFits, vars, At
<1>4. ShownFits' BY <1>1 DEF ShopInv, ShownFits, vars
<1>5. \A q \in attempts : K(q) = K(r)
  <2> SUFFICES ASSUME NEW q \in attempts PROVE K(q) = K(r)
    OBVIOUS
  <2>1. K(q) = tab.key BY DEF ShopInv, AttemptsFit
  <2>2. K(q) \in Keys BY <1>0, ShopperType DEF ShopInv
  <2>3. tab.key # None BY <2>1, <2>2, NoneAssumption
  <2> QED BY <2>1, <2>3 DEF Click, KeyFits
<1>6. stored # None => K(r) = stored.key
  <2> SUFFICES ASSUME stored # None PROVE K(r) = stored.key
    OBVIOUS
  <2>1. tab.key = stored.key BY <1>1 DEF ShopInv, StoredFits
  <2>2. tab.key # None BY <1>0, <2>1, NoneAssumption DEF Stored
  <2> QED BY <2>1, <2>2 DEF Click, KeyFits
<1>7. StoredFits' BY <1>1, <1>6 DEF ShopInv, StoredFits, Shopping, Complete, Pending, vars
<1>8. AttemptsFit' BY <1>1, <1>2, <1>5, <1>6 DEF ShopInv, AttemptsFit
<1> QED BY <1>3, <1>4, <1>7, <1>8 DEF PageFits

LEMMA AnswerOkPage ==
  ASSUME ShopInv, NEW r \in Shopper, AnswerOk(r)
  PROVE  PageFits'
<1>0. /\ S(r) \in Sessions /\ K(r) \in Keys /\ r \in Requests /\ r # None
      /\ tab \in Tab /\ attempts \subseteq Shopper
  BY ShopperType, TabNames DEF ShopInv, ShopTypeOK
<1>1. /\ UNCHANGED <<vars, sent, attempts>>
      /\ tab.call = r /\ At(r, "done") /\ co[r].answer = "ok"
      /\ tab'.call = None /\ tab'.key = tab.key /\ tab'.sid = S(r)
      /\ shown' = reply /\ reply' = Nothing
      /\ stored' \in {None, [sid |-> S(r), key |-> K(r)]}
  BY <1>0 DEF AnswerOk, Tab, Cleared
<1>2. \A q : S(q)' = S(q) /\ K(q)' = K(q) BY <1>1 DEF vars, S, K
<1>3. reply # Nothing /\ ViewFits(reply, sess[S(r)])
  BY <1>0, <1>1 DEF ShopInv, CallFits
<1>4. CallFits' BY <1>1 DEF CallFits
<1>5. ShownFits' BY <1>0, <1>1, <1>3, NoneAssumption DEF ShownFits, ViewFits, vars
<1>6. sess[S(r)].key = K(r)
  <2>1. sess[S(r)].key \in Keys
    BY <1>0, <1>3 DEF ViewFits, ShopInv, SagaInv, SessionShape, ShapeOf
  <2> QED BY <1>0, <2>1, NoneAssumption DEF ShopInv, ServerFits, Session
<1>7. ~Shopping' BY <1>1, <1>3 DEF Shopping, Complete, Pending, ViewFits, Finished
<1>8. StoredFits' BY <1>1, <1>6, <1>7 DEF StoredFits, vars
<1>9. AttemptsFit' BY <1>0, <1>1, <1>2 DEF ShopInv, AttemptsFit
<1> QED BY <1>4, <1>5, <1>8, <1>9 DEF PageFits

LEMMA SessionArrivesPage ==
  ASSUME ShopInv, tab.sid # None, SessionArrives
  PROVE  PageFits'
<1>1. /\ shown' = Says(sess[tab.sid]) /\ stored' \in {None, stored}
      /\ UNCHANGED <<vars, tab, reply, sent, attempts>>
  BY DEF SessionArrives, Cleared
<1>2. \A q : S(q)' = S(q) /\ K(q)' = K(q) BY <1>1 DEF vars, S, K
<1>3. ViewFits(shown', sess[tab.sid]) BY <1>1 DEF ShopInv, ShownFits, Says, ViewFits
<1>4. CallFits' BY <1>1, <1>2 DEF ShopInv, CallFits, vars, At
<1>5. ShownFits' BY <1>1, <1>3 DEF ShopInv, ShownFits, vars
<1>6. ~Shopping' BY <1>3 DEF Shopping, Complete, Pending, ViewFits, Finished
<1>7. StoredFits' BY <1>1, <1>6 DEF ShopInv, StoredFits, vars
<1>8. AttemptsFit' BY <1>1, <1>2 DEF ShopInv, AttemptsFit
<1> QED BY <1>4, <1>5, <1>7, <1>8 DEF PageFits

LEMMA ReloadPage ==
  ASSUME ShopInv, Reload
  PROVE  PageFits'
<1>0. stored \in Stored \cup {None} BY DEF ShopInv, ShopTypeOK
<1>1. /\ UNCHANGED <<vars, stored, sent>> /\ shown' = Nothing /\ reply' = Nothing
      /\ tab'.call = None
      /\ stored = None => tab'.sid = None /\ tab'.key = None /\ attempts' = {}
      /\ stored # None => tab'.sid = stored.sid /\ tab'.key = stored.key /\ attempts' = attempts
  BY DEF Reload
<1>2. \A q : S(q)' = S(q) /\ K(q)' = K(q) BY <1>1 DEF vars, S, K
<1>3. CallFits' BY <1>1 DEF CallFits
<1>4. stored # None => sess[stored.sid].state \in Finished
  BY <1>0, NoneAssumption DEF ShopInv, StoredFits, ShownFits, Stored
<1>5. ShownFits' BY <1>1, <1>4 DEF ShownFits, vars
<1>6. StoredFits' BY <1>1 DEF ShopInv, StoredFits, vars
<1>7. AttemptsFit' BY <1>1, <1>2 DEF ShopInv, AttemptsFit
<1> QED BY <1>3, <1>5, <1>6, <1>7 DEF PageFits

LEMMA TabPage ==
  ASSUME ShopInv, TabStep
  PROVE  PageFits'
<1>0. UNCHANGED vars /\ tab \in Tab BY TabLeavesSaga DEF ShopInv, ShopTypeOK
<1>1. \A q : S(q)' = S(q) /\ K(q)' = K(q) BY <1>0 DEF vars, S, K
<1>2. CASE AddToCart \/ RemoveFromCart
  <2>1. /\ UNCHANGED <<vars, shown, stored, reply, sent, attempts>>
        /\ tab'.call = tab.call /\ tab'.sid = tab.sid /\ tab'.key = tab.key
    BY <1>0, <1>2 DEF AddToCart, RemoveFromCart, Tab
  <2>2. CallFits' BY <1>1, <2>1 DEF ShopInv, CallFits, At, vars
  <2>3. ShownFits' BY <2>1 DEF ShopInv, ShownFits, vars
  <2>4. StoredFits' BY <2>1 DEF ShopInv, StoredFits, Shopping, Complete, Pending, vars
  <2>5. AttemptsFit' BY <1>1, <2>1 DEF ShopInv, AttemptsFit
  <2> QED BY <2>2, <2>3, <2>4, <2>5 DEF PageFits
<1>3. CASE \E r \in Shopper : AnswerError(r) \/ AnswerLost(r)
  <2>1. /\ UNCHANGED <<vars, shown, stored, sent, attempts>> /\ reply' = Nothing
        /\ tab'.call = None /\ tab'.sid = tab.sid /\ tab'.key = tab.key
    BY <1>0, <1>3 DEF AnswerError, AnswerLost, Tab
  <2>2. CallFits' BY <2>1 DEF CallFits
  <2>3. ShownFits' BY <2>1 DEF ShopInv, ShownFits, vars
  <2>4. StoredFits' BY <2>1 DEF ShopInv, StoredFits, Shopping, Complete, Pending, vars
  <2>5. AttemptsFit' BY <1>1, <2>1 DEF ShopInv, AttemptsFit
  <2> QED BY <2>2, <2>3, <2>4, <2>5 DEF PageFits
<1>4. CASE ContinueShopping
  <2>1. /\ UNCHANGED <<vars, reply, sent>> /\ shown' = Nothing /\ stored' = None /\ attempts' = {}
        /\ tab'.call = tab.call /\ tab'.sid = None
    BY <1>0, <1>4 DEF ContinueShopping, Tab
  <2>2. CallFits' BY <1>1, <2>1 DEF ShopInv, CallFits, At, vars
  <2>3. ShownFits' /\ StoredFits' /\ AttemptsFit' BY <2>1 DEF ShownFits, StoredFits, AttemptsFit
  <2> QED BY <2>2, <2>3 DEF PageFits
<1>5. CASE Retry BY <1>5, IdlePage DEF Retry, shopVars, vars
<1>6. CASE LoadSession \/ PollSession
  BY <1>6, SessionArrivesPage DEF LoadSession, PollSession
<1> QED BY <1>2, <1>3, <1>4, <1>5, <1>6, ClickPage, AnswerOkPage, ReloadPage DEF TabStep

LEMMA ShopNextInv == ShopInv /\ [ShopNext]_shopVars => ShopInv'
<1> SUFFICES ASSUME ShopInv, [ShopNext]_shopVars PROVE ShopInv'
  OBVIOUS
<1>0. SagaInv /\ ShopTypeOK /\ RequestsFit /\ ServerFits /\ OrdersFit BY DEF ShopInv
<1>1. [Next]_vars BY ShopStepIsSagaStep
<1>2. SagaInv' /\ SessionStep /\ req' = req /\ OrdersFit'
  BY <1>0, <1>1, NextInv, NextMoves, RequestsStay, OrdersFitKept
<1>3. ShopTypeOK' BY <1>0, ShopNextTypeOK
<1>4. RequestsFit' BY <1>0, <1>2 DEF RequestsFit, S, K
<1>5. \A q \in Requests : Session(q)'.key \in {None, K(q)'}
  <2>1. \A q \in Requests : Session(q)'.key \in {None, K(q)}
    BY <1>0, <1>2, KeysKept DEF ServerFits
  <2> QED BY <1>2, <2>1 DEF K
<1>6. CASE TabStep
  <2>1. UNCHANGED vars /\ sent \subseteq sent'
    BY <1>6, TabLeavesSaga DEF TabStep, AddToCart, RemoveFromCart, Click, AnswerOk, AnswerError,
       AnswerLost, LoadSession, PollSession, SessionArrives, ContinueShopping, Retry, Reload,
       shopVars, page
  <2>2. ServerFits' BY <1>0, <1>5, <2>1 DEF ServerFits, vars, At
  <2> QED BY <1>2, <1>3, <1>4, <1>6, <2>2, TabPage DEF ShopInv, PageFits
<1>7. CASE \E r \in Requests : Serve(r)
  <2>1. PICK r \in Requests : Serve(r) BY <1>7
  <2>2. sent' = sent BY <2>1 DEF Serve
  <2>3. ServerFits' BY <1>0, <1>2, <1>5, <2>1, <2>2, ServeFrames DEF ServerFits, At, Unreached
  <2> QED BY <1>2, <1>3, <1>4, <2>1, <2>3, ServePage DEF ShopInv, PageFits
<1>8. CASE (\E h \in HoldIds : Elapse(h)) \/ UNCHANGED shopVars
  <2>1. UNCHANGED <<sess, req, co, page>>
    BY <1>8 DEF Elapse, TtlElapses, stores, shopVars, vars
  <2>2. ServerFits' BY <1>0, <1>5, <2>1 DEF ServerFits, page, At
  <2> QED BY <1>2, <1>3, <1>4, <2>1, <2>2, IdlePage DEF ShopInv, PageFits
<1> QED BY <1>6, <1>7, <1>8 DEF ShopNext

LEMMA ShopInitInv == ShopInit => ShopInv
<1> SUFFICES ASSUME ShopInit PROVE ShopInv
  OBVIOUS
<1>1. SagaInv /\ ShopTypeOK BY InitInv, ShopInitTypeOK DEF ShopInit
<1>2. RequestsFit
  <2>1. \A r \in Requests : req[r].op \in {"checkout", "confirm"} BY DEF ShopInit
  <2>2. \A r \in Requests : \E t \in Shopper : S(r) = S(t) /\ K(r) = K(t) BY DEF ShopInit
  <2>3. \A t, u \in Shopper : S(t) = S(u) => t = u BY DEF ShopInit
  <2> QED BY <2>1, <2>2, <2>3 DEF RequestsFit
<1>3. \A r \in Requests : co[r] = NewFrame /\ Session(r) = NewSession
  BY <1>1, RequestType DEF ShopInit, Init, Session, ShopTypeOK
<1>4. ServerFits BY <1>3 DEF ServerFits, NewFrame, NewSession, At
<1>5. OrdersFit BY DEF OrdersFit, Placed, ShopInit, Init, NoOrder
<1>6. PageFits
  BY DEF PageFits, CallFits, ShownFits, StoredFits, AttemptsFit, ShopInit
<1> QED BY <1>1, <1>2, <1>4, <1>5, <1>6 DEF ShopInv, PageFits

(* The page's invariant, whatever the user, the network and the upstreams do. *)
THEOREM ShopInvariant == ShopSpec => []ShopInv
  BY ShopInitInv, ShopNextInv, PTL DEF ShopSpec

-----------------------------------------------------------------------------
(* The properties of the page *)

(* A reload never restores an unsold session, nor a sold one without the key *)
(* that finishes it.                                                         *)
THEOREM StoredIsAlwaysSold == ShopSpec => []StoredIsSold
<1>1. ShopInv => StoredIsSold
  BY NoneAssumption DEF ShopInv, ShopTypeOK, Stored, StoredFits, ShownFits, StoredIsSold
<1> QED BY <1>1, ShopInvariant, PTL

(* The page shows the order and the progress the orchestrator has saved. *)
THEOREM ShownIsAlwaysSaved == ShopSpec => []ShownIsSaved
<1>1. ShopInv => ShownIsSaved BY DEF ShopInv, ShownFits, ViewFits, ShownIsSaved
<1> QED BY <1>1, ShopInvariant, PTL

LEMMA PurchaseHasOneKey ==
  ASSUME ShopInv, NEW o \in PurchaseOrders
  PROVE  o \in OrderIds /\ Placed(o) /\ order[o].key = tab.key
<1>1. PICK r \in attempts : o \in OrdersOf(S(r)) BY DEF PurchaseOrders
<1>2. r \in Requests /\ S(r) \in Sessions
  BY ShopperType DEF ShopInv, ShopTypeOK
<1>3. o \in OrderIds /\ order[o].ref = S(r) /\ Placed(o)
  BY <1>1, <1>2, NoneAssumption DEF OrdersOf, Placed
<1>4. PICK q \in Requests : order[o].ref = S(q) /\ order[o].key = K(q)
  BY <1>3 DEF ShopInv, OrdersFit
<1>5. K(q) = K(r) BY <1>2, <1>3, <1>4 DEF ShopInv, RequestsFit
<1>6. K(r) = tab.key BY DEF ShopInv, AttemptsFit
<1> QED BY <1>3, <1>4, <1>5, <1>6

(* Where EC-OPS enforces the uniqueness of its keys, the clicks, retries and *)
(* reloads of one purchase make one order at most.                           *)
THEOREM PurchasesMakeOneOrder == EnforceUnique = TRUE /\ ShopSpec => []OneOrderPerPurchase
<1> SUFFICES ASSUME EnforceUnique = TRUE PROVE ShopSpec => []OneOrderPerPurchase
  OBVIOUS
<1>1. ASSUME ShopInv PROVE OneOrderPerPurchase
  <2>1. \A o, p \in PurchaseOrders : o = p
    BY <1>1, PurchaseHasOneKey DEF ShopInv, OrdersFit
  <2>2. CASE PurchaseOrders = {} BY <2>2, FS_EmptySet DEF OneOrderPerPurchase
  <2>3. CASE PurchaseOrders # {}
    <3>1. PICK o : PurchaseOrders = {o} BY <2>1, <2>3
    <3>2. Cardinality(PurchaseOrders) = 1 BY <3>1, FS_Singleton
    <3> QED BY <3>2 DEF OneOrderPerPurchase
  <2> QED BY <2>2, <2>3
<1> QED BY <1>1, ShopInvariant, PTL

(* The order of a sold session carries the session's own key. *)
LEMMA SaleHasKey ==
  ASSUME ShopInv, ListFiltered = TRUE, NEW r \in Requests, Session(r).state \in Finished
  PROVE  LET o == Session(r).order
         IN o \in OrderIds /\ Placed(o) /\ order[o].ref = S(r) /\ order[o].key = K(r)
<1>0. SagaInv /\ S(r) \in Sessions BY RequestType DEF ShopInv, SagaInv
<1>1. PICK o : o = Session(r).order OBVIOUS
<1>2. o \in OrderIds /\ Placed(o) /\ order[o].ref = S(r)
  BY <1>0, <1>1 DEF SagaInv, FinishedListed, Listed, Session
<1>3. PICK q \in Requests : order[o].ref = S(q) /\ order[o].key = K(q)
  BY <1>2 DEF ShopInv, OrdersFit
<1>4. K(q) = K(r) BY <1>2, <1>3 DEF ShopInv, RequestsFit
<1> QED BY <1>1, <1>2, <1>3, <1>4

LEMMA StepKeepsPending ==
  ASSUME ShopInv, EnforceUnique = TRUE, ListFiltered = TRUE, [ShopNext]_shopVars,
         stored # None, sess[stored.sid].state = "FULFILL_PENDING"
  PROVE  stored' = stored
<1>0. /\ stored \in Stored /\ stored.sid \in Sessions /\ tab.sid = stored.sid
      /\ tab.sid # None
  BY NoneAssumption DEF ShopInv, ShopTypeOK, Stored, StoredFits
<1>1. ~Complete(shown) \/ shown = Nothing BY <1>0 DEF ShopInv, ShownFits, ViewFits, Complete
<1>2. CASE \E r \in Shopper : AnswerOk(r)
  <2>1. PICK r \in Shopper : AnswerOk(r) BY <1>2
  <2>2. /\ reply # Nothing /\ ViewFits(reply, Session(r)) /\ K(r) = stored.key
        /\ r \in Requests /\ K(r) \in Keys
    BY <2>1, TabNames, ShopperType, ShopperAssumption
    DEF AnswerOk, ShopInv, CallFits, AttemptsFit, Session
  <2>3. Session(r).state \in Finished BY <2>2 DEF ViewFits
  <2>4. PICK o \in OrderIds : /\ Placed(o) /\ order[o].ref = S(r) /\ order[o].key = K(r)
                              /\ o = Session(r).order
    BY <2>2, <2>3, SaleHasKey
  <2>5. PICK p \in OrderIds : Placed(p) /\ order[p].ref = stored.sid
    BY <1>0 DEF ShopInv, SagaInv, FinishedListed, Listed, Finished
  <2>6. PICK q \in Requests : order[p].ref = S(q) /\ order[p].key = K(q)
    BY <2>5 DEF ShopInv, OrdersFit
  <2>7. K(q) = stored.key
    <3>1. Session(q).key = stored.key BY <2>5, <2>6 DEF ShopInv, StoredFits, Session
    <3>2. stored.key # None BY <2>2, NoneAssumption
    <3> QED BY <3>1, <3>2 DEF ShopInv, ServerFits
  <2>8. p = o BY <2>2, <2>4, <2>5, <2>6, <2>7 DEF ShopInv, OrdersFit
  <2>9. stored.sid = S(r) BY <2>4, <2>5, <2>8
  <2>10. ~Complete(reply) BY <2>2, <2>9 DEF ViewFits, Complete, Session
  <2>11. stored' = [sid |-> S(r), key |-> K(r)] BY <2>1, <2>10 DEF AnswerOk, Cleared
  <2> QED BY <1>0, <2>2, <2>9, <2>11 DEF Stored
<1>3. CASE LoadSession \/ PollSession
  BY <1>0, <1>3 DEF LoadSession, PollSession, SessionArrives, Cleared, Says, Complete
<1>4. ~ContinueShopping BY <1>1 DEF ContinueShopping, Complete, Nothing
<1>5. CASE ~(\E r \in Shopper : AnswerOk(r)) /\ ~LoadSession /\ ~PollSession
  BY <1>4, <1>5 DEF ShopNext, TabStep, AddToCart, RemoveFromCart, Click, AnswerError, AnswerLost,
     Retry, Reload, Serve, Elapse, shopVars, page
<1> QED BY <1>2, <1>3, <1>5

(* A sale the orchestrator has not finished stays in sessionStorage with its key: *)
(* no later click, answer or poll of the tab replaces or clears it.               *)
THEOREM PendingIsKept == EnforceUnique = TRUE /\ ListFiltered = TRUE /\ ShopSpec => PendingKept
<1> SUFFICES ASSUME EnforceUnique = TRUE, ListFiltered = TRUE PROVE ShopSpec => PendingKept
  OBVIOUS
<1> DEFINE Step == stored # None /\ sess[stored.sid].state = "FULFILL_PENDING"
                     => stored' = stored
<1>1. ShopInv /\ [ShopNext]_shopVars => [Step]_shopVars BY StepKeepsPending
<1>2. PendingKept <=> [][Step]_shopVars BY DEF PendingKept
<1> HIDE DEF Step
<1> QED BY <1>1, <1>2, ShopInvariant, PTL DEF ShopSpec
====
