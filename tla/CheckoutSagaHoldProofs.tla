---- MODULE CheckoutSagaHoldProofs ----
(***************************************************************************)
(* Proofs about CheckoutSaga: what becomes of the hold and of the orders   *)
(* of a session.  Each theorem names the faults it excludes; the others,   *)
(* and any number of sessions, requests and retries, are allowed.          *)
(***************************************************************************)
EXTENDS CheckoutSagaStepProofs, FiniteSetTheorems

-----------------------------------------------------------------------------
(* What happens to a hold *)

HoldsHoldTo(h) ==
  \A g \in HoldIds : /\ g # h => hold'[g] = hold[g]
                     /\ hold'[g].owner = hold[g].owner
                     /\ hold'[g].status = "none" <=> hold[g].status = "none"

LEMMA ReleaseEffect ==
  ASSUME TypeOK, NEW h, Release(h) \/ Fulfill(h) \/ (h \in HoldIds /\ TtlElapses(h))
  PROVE  HoldsHoldTo(h)
<1>1. CASE Release(h) BY <1>1 DEF Release, HoldsHoldTo, TypeOK, HoldRec
<1>2. CASE Fulfill(h) BY <1>2 DEF Fulfill, HoldsHoldTo, TypeOK, HoldRec
<1>3. CASE TtlElapses(h) BY <1>3 DEF TtlElapses, HoldsHoldTo, TypeOK, HoldRec
<1> QED BY <1>1, <1>2, <1>3

(* A hold changes when it expires, or under the lock of its session. *)
HoldStep ==
  \/ UNCHANGED hold
  \/ \E h \in HoldIds : TtlElapses(h)
  \/ \E r \in Requests :
       \/ Resume(r) /\ co[r].at \in Fulfills /\ Fulfill(Session(r).hold)
       \/ Resume(r) /\ co[r].at \in Releases /\ Release(Session(r).hold)
       \/ HoldCreated(r)
       \/ AmbiguousHolds /\ HoldCreateFails(r) /\ \E h \in HoldIds : Reserve(h, S(r))

LEMMA ResumeHoldStep ==
  ASSUME SagaInv, NEW r \in Requests, Resume(r)
  PROVE  HoldStep
<1>1. CASE \/ FulfillSucceeds(r) \/ FulfillTimeout(r) \/ FulfillGivesUp(r)
           \/ ReplyUnreadable(r) /\ co[r].at \in Fulfills
  <2>1. co[r].at \in Fulfills /\ (UNCHANGED ihms \/ Fulfill(co[r].snap.hold))
    BY <1>1 DEF FulfillSucceeds, FulfillTimeout, FulfillGivesUp, ReplyUnreadable, ihms,
       Fulfills, Lookups, At
  <2>2. co[r].snap = Session(r)
    <3>1. co[r].at \in InLock BY <2>1 DEF InLock
    <3> QED BY <3>1, Holding
  <2> QED BY <2>1, <2>2 DEF HoldStep, ihms
<1>2. CASE ReleaseSucceeds(r) \/ ReleaseTimeout(r) \/ ReleaseGivesUp(r)
  <2>1. co[r].at \in Releases /\ (UNCHANGED ihms \/ Release(co[r].snap.hold))
    BY <1>2 DEF ReleaseSucceeds, ReleaseTimeout, ReleaseGivesUp
  <2>2. co[r].snap = Session(r)
    <3>1. co[r].at \in InLock BY <2>1 DEF InLock
    <3> QED BY <3>1, Holding
  <2> QED BY <2>1, <2>2 DEF HoldStep, ihms
<1>3. CASE HoldCreated(r) \/ HoldCreateFails(r)
  BY <1>3 DEF HoldStep, HoldCreateFails, ihms
<1>4. CASE \/ RejectCart(r) \/ ValidateActive(r) \/ ValidateFails(r) \/ PlaceOrderReplay(r)
           \/ PlaceOrderRefused(r) \/ PlaceOrderResumes(r) \/ HoldRequested(r) \/ HoldRefused(r)
           \/ StockChecked(r) \/ StockShort(r) \/ LookupFound(r) \/ LookupAgain(r)
           \/ PreflightEmpty(r) \/ LookupEmpty(r) \/ LookupFails(r) \/ StatusUnknown(r)
           \/ StillUnknown(r) \/ CreateOrder(r) \/ CreateOrderReplayed(r)
           \/ CreateOrderConflict(r) \/ CreateOrderFails(r) \/ CreateOrderTimeout(r)
           \/ ReplyUnreadable(r) /\ co[r].at \notin Fulfills
  <2>1. UNCHANGED hold
    BY <1>4 DEF RejectCart, ValidateActive, ValidateFails, PlaceOrderReplay,
       PlaceOrderRefused, PlaceOrderResumes, HoldRequested, HoldRefused, StockChecked, StockShort,
       LookupFound, LookupAgain, PreflightEmpty, LookupEmpty,
       LookupFails, StatusUnknown, StillUnknown, CreateOrder, CreateOrderReplayed,
       CreateOrderConflict, CreateOrderFails, CreateOrderTimeout, ReplyUnreadable, ihms
  <2> QED BY <2>1 DEF HoldStep
<1> QED BY <1>1, <1>2, <1>3, <1>4 DEF Resume

LEMMA NextHoldStep == SagaInv /\ [Next]_vars => HoldStep
<1> SUFFICES ASSUME SagaInv, [Next]_vars PROVE HoldStep
  OBVIOUS
<1>1. CASE \E r \in Requests : Arrive(r)
  BY <1>1 DEF HoldStep, Arrive, ArriveCart, ArriveCheckout, ArriveConfirm, ArriveAbandon, ihms
<1>2. CASE \E r \in Requests : TakeLock(r)
  BY <1>2 DEF HoldStep, TakeLock, HoldLocked, HoldTooLate, ConfirmReplay, ConfirmResumes,
     ConfirmFresh, ConfirmRefused, AbandonRefused, AbandonCreated, AbandonHeld, ihms
<1>3. CASE \E r \in Requests : Resume(r) BY <1>3, ResumeHoldStep
<1>4. CASE \E h \in HoldIds : TtlElapses(h) BY <1>4 DEF HoldStep
<1>5. CASE UNCHANGED hold BY <1>5 DEF HoldStep
<1> QED BY <1>1, <1>2, <1>3, <1>4, <1>5
    DEF Next, CreateSession, LateOrderTakesEffect, Idle, vars, ihms

LEMMA HoldCreatedEffect ==
  ASSUME SagaInv, NEW r \in Requests, HoldCreated(r)
  PROVE  \E h \in HoldIds :
           /\ Reserve(h, S(r))
           /\ Session(r).state = "CREATED" /\ Session(r).hold = None
           /\ sess'[S(r)].hold = h /\ sess'[S(r)].state = "HELD" /\ sess'[S(r)].key = None
           /\ \A s \in Sessions \ {S(r)} : sess'[s] = sess[s]
<1>0. TypeOK /\ S(r) \in Sessions /\ Session(r) \in SessionRec BY RequestType DEF SagaInv
<1>1. co[r].at = "createHold" /\ co[r].at \in InLock BY LockPlaces DEF HoldCreated, At
<1>2. PICK old \in SessionRec : old = Session(r) BY <1>0
<1>3. co[r].snap = old /\ old.state = "CREATED" /\ old.hold = None /\ old.key = None
  BY <1>1, <1>2, Holding DEF PlaceFits, ShapeOf
<1>4. PICK h \in HoldIds :
        Reserve(h, S(r)) /\ Save(S(r), [old EXCEPT !.state = "HELD", !.hold = h])
  BY <1>3 DEF HoldCreated
<1>5. PICK new : new = [old EXCEPT !.state = "HELD", !.hold = h] OBVIOUS
<1>6. new.state = "HELD" /\ new.hold = h /\ new.key = old.key BY <1>5 DEF SessionRec
<1>7. sess' = [sess EXCEPT ![S(r)] = new] BY <1>4, <1>5 DEF Save
<1> QED BY <1>0, <1>2, <1>3, <1>4, <1>6, <1>7 DEF TypeOK

(* A hold that is made is active, for a session that goes on to have it. *)
LEMMA HoldsStay ==
  ASSUME SagaInv, [Next]_vars, NEW h \in HoldIds, hold[h].status # "none"
  PROVE  hold'[h].status # "none" /\ hold'[h].owner = hold[h].owner
<1>1. TypeOK /\ HoldStep BY NextHoldStep DEF SagaInv
<1>2. CASE \E g : HoldsHoldTo(g) BY <1>2 DEF HoldsHoldTo
<1>3. CASE \E r \in Requests, g \in HoldIds : Reserve(g, S(r))
  BY <1>1, <1>3 DEF Reserve, TypeOK
<1>4. CASE UNCHANGED hold BY <1>4
<1>5. (\E g : HoldsHoldTo(g)) \/ (\E r \in Requests, g \in HoldIds : Reserve(g, S(r))) \/ UNCHANGED hold
  BY <1>1, ReleaseEffect DEF HoldStep, HoldCreated
<1> QED BY <1>2, <1>3, <1>4, <1>5

LEMMA SessionsKeepHolds ==
  ASSUME SagaInv, [Next]_vars, ~ \E r \in Requests : HoldCreated(r), NEW s \in Sessions
  PROVE  sess'[s].hold = sess[s].hold
<1>1. SessionStep BY NextMoves
<1> QED BY <1>1 DEF SessionStep, SessionMove, SagaInv, TypeOK

LEMMA HoldOwnedKept == SagaInv /\ HoldOwned /\ [Next]_vars => HoldOwned'
<1> SUFFICES ASSUME SagaInv, HoldOwned, [Next]_vars, NEW s \in Sessions, sess'[s].hold # None
             PROVE  hold'[sess'[s].hold].status # "none" /\ hold'[sess'[s].hold].owner = s
  BY DEF HoldOwned
<1>0. TypeOK /\ sess[s] \in SessionRec BY DEF SagaInv, TypeOK
<1>1. CASE sess'[s].hold = sess[s].hold
  <2>1. sess[s].hold \in HoldIds BY <1>0, <1>1 DEF SessionRec
  <2> QED BY <1>1, <2>1, HoldsStay DEF HoldOwned
<1>2. CASE sess'[s].hold # sess[s].hold
  <2>1. PICK r \in Requests : HoldCreated(r) BY <1>2, SessionsKeepHolds
  <2>2. PICK h \in HoldIds : /\ Reserve(h, S(r)) /\ sess'[S(r)].hold = h
                             /\ \A t \in Sessions \ {S(r)} : sess'[t] = sess[t]
    BY <2>1, HoldCreatedEffect
  <2>3. s = S(r) BY <1>2, <2>2
  <2> QED BY <1>0, <2>2, <2>3 DEF Reserve, TypeOK
<1> QED BY <1>1, <1>2

LEMMA HoldOwnedInit == Init => HoldOwned
  BY DEF Init, HoldOwned, NewSession

LEMMA HoldsAreOwned == Spec => []HoldOwned
<1>1. Init => SagaInv /\ HoldOwned BY InitInv, HoldOwnedInit
<1>2. SagaInv /\ HoldOwned /\ [Next]_vars => SagaInv' /\ HoldOwned'
  BY NextInv, HoldOwnedKept
<1> QED BY <1>1, <1>2, PTL DEF Spec

-----------------------------------------------------------------------------
(* No hold without a session that knows it *)

LEMMA HoldsKnownKept ==
  ASSUME AmbiguousHolds = FALSE, SagaInv, HoldsKnown, [Next]_vars
  PROVE  HoldsKnown'
<1> SUFFICES ASSUME NEW h \in HoldIds, hold'[h].status # "none"
             PROVE  hold'[h].owner \in Sessions /\ sess'[hold'[h].owner].hold = h
  BY DEF HoldsKnown
<1>0. TypeOK BY DEF SagaInv
<1>1. CASE \E r \in Requests : HoldCreated(r)
  <2>1. PICK r \in Requests : HoldCreated(r) BY <1>1
  <2>2. PICK g \in HoldIds : /\ Reserve(g, S(r)) /\ Session(r).hold = None
                             /\ sess'[S(r)].hold = g
                             /\ \A t \in Sessions \ {S(r)} : sess'[t] = sess[t]
    BY <2>1, HoldCreatedEffect
  <2>3. CASE g = h BY <1>0, <2>2, <2>3, RequestType DEF Reserve, TypeOK
  <2>4. CASE g # h
    <3>1. hold'[h] = hold[h] BY <1>0, <2>2, <2>4 DEF Reserve, TypeOK
    <3>2. hold[h].owner \in Sessions /\ sess[hold[h].owner].hold = h BY <3>1 DEF HoldsKnown
    <3>3. hold[h].owner # S(r) BY <2>2, <3>2, NoneAssumption DEF Session
    <3> QED BY <2>2, <3>1, <3>2, <3>3
  <2> QED BY <2>3, <2>4
<1>2. CASE ~ \E r \in Requests : HoldCreated(r)
  <2>1. CASE \E g : HoldsHoldTo(g) BY <1>2, <2>1, SessionsKeepHolds DEF HoldsHoldTo, HoldsKnown
  <2>2. CASE UNCHANGED hold BY <1>2, <2>2, SessionsKeepHolds DEF HoldsKnown
  <2> QED BY <1>0, <1>2, <2>1, <2>2, NextHoldStep, ReleaseEffect DEF HoldStep
<1> QED BY <1>1, <1>2

(* Where a hold whose POST failed has not been made, every hold that keeps stock *)
(* is the hold of a session, which will commit it or give it back.               *)
THEOREM NoHoldIsOrphaned == AmbiguousHolds = FALSE /\ Spec => []NoOrphanHold
<1> SUFFICES ASSUME AmbiguousHolds = FALSE PROVE Spec => []NoOrphanHold
  OBVIOUS
<1>1. Init => SagaInv /\ HoldsKnown BY InitInv DEF Init, HoldsKnown
<1>2. SagaInv /\ HoldsKnown /\ [Next]_vars => SagaInv' /\ HoldsKnown'
  BY NextInv, HoldsKnownKept
<1>3. HoldsKnown => NoOrphanHold BY DEF HoldsKnown, NoOrphanHold
<1> QED BY <1>1, <1>2, <1>3, PTL DEF Spec

-----------------------------------------------------------------------------
(* Stock is committed for orders only *)

LEMMA NextKeepsOrders == SagaInv /\ [Next]_vars => OrdersKept
<1> SUFFICES ASSUME SagaInv, [Next]_vars PROVE OrdersKept
  OBVIOUS
<1>1. CASE UNCHANGED order BY <1>1 DEF OrdersKept
<1>2. CASE ~UNCHANGED order
  <2>1. PICK r \in Requests, o \in OrderIds : OrderMade(r, o) BY <1>2, OrderStep
  <2> QED BY <2>1 DEF OrderMade, OrdersKept, SagaInv, TypeOK
<1> QED BY <1>1, <1>2

(* The hold of a session that is being sold, and so has a listed order. *)
LEMMA FulfilledKept ==
  ASSUME ListFiltered = TRUE, SagaInv, HoldOwned, FulfilledHasOrder, [Next]_vars,
         \A h \in HoldIds : hold[h].status # "none" => hold[h].owner \in Sessions
  PROVE  FulfilledHasOrder'
<1> SUFFICES ASSUME NEW h \in HoldIds, hold'[h].status = "fulfilled"
             PROVE  \E o \in OrderIds : order'[o].ref = hold'[h].owner
  BY DEF FulfilledHasOrder, OrdersOf
<1>0. TypeOK /\ OrdersKept BY NextKeepsOrders DEF SagaInv
<1>1. ASSUME NEW s \in Sessions, NEW o \in OrderIds, order[o].ref = s
      PROVE  order'[o].ref = s
  BY <1>0, <1>1, NoneAssumption DEF OrdersKept, Placed
<1>2. CASE hold[h].status = "fulfilled"
  <2>1. hold'[h].owner = hold[h].owner /\ hold[h].owner \in Sessions BY <1>2, HoldsStay
  <2>2. PICK o \in OrderIds : order[o].ref = hold[h].owner
    BY <1>2 DEF FulfilledHasOrder, OrdersOf
  <2> QED BY <1>1, <2>1, <2>2
<1>3. CASE hold[h].status # "fulfilled"
  <2>1. PICK r \in Requests : co[r].at \in Fulfills /\ Fulfill(Session(r).hold)
    <3>1. CASE \E g \in HoldIds : TtlElapses(g)
      BY <1>0, <1>3, <3>1 DEF TtlElapses, TypeOK, HoldRec
    <3>2. CASE \E g : Release(g) BY <1>0, <1>3, <3>2 DEF Release, TypeOK, HoldRec
    <3>3. CASE \E g, s : Reserve(g, s) BY <1>0, <1>3, <3>3 DEF Reserve, TypeOK, HoldRec
    <3> QED BY <1>3, <3>1, <3>2, <3>3, NextHoldStep DEF HoldStep, HoldCreated
  <2>2. PICK g : g = Session(r).hold OBVIOUS
  <2>3. h = g /\ hold'[h].owner = hold[h].owner
    BY <1>0, <1>3, <2>1, <2>2 DEF Fulfill, TypeOK, HoldRec
  <2>4. S(r) \in Sessions BY <1>0, RequestType
  <2>5. hold[h].owner = S(r)
    BY <2>2, <2>3, <2>4, NoneAssumption DEF HoldOwned, Session
  <2>6. co[r].got \in Listed(S(r))
    <3>1. co[r].at \in InLock BY <2>1 DEF InLock
    <3> QED BY <2>1, <3>1, Holding DEF PlaceFits
  <2>7. co[r].got \in OrderIds /\ order[co[r].got].ref = S(r) BY <2>6 DEF Listed
  <2> QED BY <1>1, <2>3, <2>4, <2>5, <2>7
<1> QED BY <1>2, <1>3

LEMMA OwnersAreSessions ==
  ASSUME SagaInv, [Next]_vars,
         \A h \in HoldIds : hold[h].status # "none" => hold[h].owner \in Sessions
  PROVE  \A h \in HoldIds : hold'[h].status # "none" => hold'[h].owner \in Sessions
<1> SUFFICES ASSUME NEW h \in HoldIds, hold'[h].status # "none"
             PROVE  hold'[h].owner \in Sessions
  OBVIOUS
<1>1. CASE hold[h].status # "none" BY <1>1, HoldsStay
<1>2. CASE hold[h].status = "none"
  <2>1. PICK r \in Requests, g \in HoldIds : Reserve(g, S(r))
    BY <1>2, NextHoldStep, ReleaseEffect DEF HoldStep, HoldsHoldTo, HoldCreated, SagaInv
  <2> QED BY <1>2, <2>1, RequestType DEF Reserve, SagaInv, TypeOK
<1> QED BY <1>1, <1>2

(* A hold is committed or given back for the session it belongs to, by the request *)
(* that calls fulfil or release for it under the session's lock.                   *)
SettledBy(r, h) ==
  /\ h = Session(r).hold /\ h = sess'[S(r)].hold /\ hold[h].owner = S(r)
  /\ \/ hold'[h].status = "fulfilled" /\ co[r].at \in Fulfills
     \/ hold'[h].status = "released" /\ co[r].at \in Releases

LEMMA WhoSettles ==
  ASSUME SagaInv, HoldOwned, [Next]_vars, NEW h \in HoldIds,
         hold'[h].status \in {"fulfilled", "released"}, hold'[h].status # hold[h].status
  PROVE  \E r \in Requests : SettledBy(r, h)
<1>0. TypeOK BY DEF SagaInv
<1>1. ~ \E g, s : Reserve(g, s)
  <2> SUFFICES ASSUME NEW g, NEW s, Reserve(g, s) PROVE FALSE
    OBVIOUS
  <2> QED BY <1>0 DEF Reserve, TypeOK, HoldRec
<1>2. ~ \E g \in HoldIds : TtlElapses(g) BY <1>0 DEF TtlElapses, TypeOK, HoldRec
<1>3. PICK r \in Requests :
        \/ co[r].at \in Fulfills /\ Fulfill(Session(r).hold)
        \/ co[r].at \in Releases /\ Release(Session(r).hold)
  BY <1>1, <1>2, NextHoldStep DEF HoldStep, HoldCreated
<1>4. PICK g : g = Session(r).hold OBVIOUS
<1>5. /\ h = g
      /\ \/ hold'[h].status = "fulfilled" /\ co[r].at \in Fulfills
         \/ hold'[h].status = "released" /\ co[r].at \in Releases
  <2>1. CASE co[r].at \in Fulfills /\ Fulfill(g)
    BY <1>0, <2>1 DEF Fulfill, TypeOK, HoldRec
  <2>2. CASE co[r].at \in Releases /\ Release(g)
    BY <1>0, <2>2 DEF Release, TypeOK, HoldRec
  <2> QED BY <1>3, <1>4, <2>1, <2>2
<1>6. S(r) \in Sessions BY <1>0, RequestType
<1>7. hold[h].owner = S(r) BY <1>4, <1>5, <1>6, NoneAssumption DEF HoldOwned, Session
<1>8. sess'[S(r)].hold = sess[S(r)].hold
  BY <1>1, <1>6, SessionsKeepHolds DEF HoldCreated
<1> QED BY <1>4, <1>5, <1>7, <1>8 DEF SettledBy, Session

LEMMA NamedHoldKept ==
  ASSUME SagaInv, HoldOwned, ActsOnNamedHold, [Next]_vars,
         \A h \in HoldIds : hold[h].status # "none" => hold[h].owner \in Sessions
  PROVE  ActsOnNamedHold'
<1> SUFFICES ASSUME NEW h \in HoldIds, hold'[h].status \in {"fulfilled", "released"}
             PROVE  sess'[hold'[h].owner].hold = h
  BY DEF ActsOnNamedHold
<1>0. TypeOK BY DEF SagaInv
<1>1. CASE hold'[h].status = hold[h].status
  <2>1. /\ hold[h].status # "none" /\ hold'[h].owner = hold[h].owner
        /\ hold[h].owner \in Sessions /\ sess[hold[h].owner].hold = h
    BY <1>1, HoldsStay DEF ActsOnNamedHold
  <2>2. CASE \E r \in Requests : HoldCreated(r)
    <3>1. PICK r \in Requests : HoldCreated(r) BY <2>2
    <3>2. sess[S(r)].hold = None /\ \A s \in Sessions \ {S(r)} : sess'[s] = sess[s]
      BY <3>1, HoldCreatedEffect DEF Session
    <3> QED BY <2>1, <3>2, NoneAssumption
  <2>3. CASE ~ \E r \in Requests : HoldCreated(r) BY <2>1, <2>3, SessionsKeepHolds
  <2> QED BY <2>2, <2>3
<1>2. CASE hold'[h].status # hold[h].status
  <2>1. PICK r \in Requests : SettledBy(r, h) BY <1>2, WhoSettles
  <2>2. h = Session(r).hold /\ h = sess'[S(r)].hold /\ hold[h].owner = S(r)
    BY <2>1 DEF SettledBy
  <2>3. hold[h].status # "none"
    BY <1>0, <2>2, RequestType, NoneAssumption DEF HoldOwned, Session
  <2> QED BY <2>2, <2>3, HoldsStay
<1> QED BY <1>1, <1>2

(* However many holds were made for a session, and whichever calls are repeated, *)
(* only the one it names is ever committed or given back by the orchestrator.    *)
THEOREM OnlyNamedHoldsSettle == Spec => []ActsOnNamedHold
<1> DEFINE Owned == \A h \in HoldIds : hold[h].status # "none" => hold[h].owner \in Sessions
           Inv == SagaInv /\ HoldOwned /\ Owned /\ ActsOnNamedHold
<1>1. Init => Inv BY InitInv, HoldOwnedInit DEF Init, ActsOnNamedHold
<1>2. Inv /\ [Next]_vars => Inv'
  BY NextInv, HoldOwnedKept, OwnersAreSessions, NamedHoldKept
<1>3. Inv => ActsOnNamedHold OBVIOUS
<1> HIDE DEF Inv
<1> QED BY <1>1, <1>2, <1>3, PTL DEF Spec

(* No call gives back the stock of a session that is sold, whatever else fails. *)
THEOREM SoldStockStaysSold == Spec => SoldIsNotReleased
<1> DEFINE Step == \A s \in Sessions :
                     sess[s].state \in Finished /\ hold[sess[s].hold].status = "active"
                       => hold'[sess[s].hold].status # "released"
           Inv == SagaInv /\ HoldOwned
<1>1. Init => Inv BY InitInv, HoldOwnedInit
<1>2. Inv /\ [Next]_vars => Inv' BY NextInv, HoldOwnedKept
<1>3. Inv /\ [Next]_vars => Step
  <2> SUFFICES ASSUME Inv, [Next]_vars, NEW s \in Sessions, sess[s].state \in Finished,
                      hold[sess[s].hold].status = "active",
                      hold'[sess[s].hold].status = "released"
               PROVE  FALSE
    OBVIOUS
  <2>1. PICK h \in HoldIds : h = sess[s].hold BY DEF SagaInv, SessionShape, ShapeOf
  <2>2. PICK r \in Requests : SettledBy(r, h) BY <2>1, WhoSettles
  <2>3. hold[h].owner = s BY <2>1, NoneAssumption DEF HoldOwned
  <2>4. S(r) = s /\ co[r].at \in Releases BY <2>1, <2>2, <2>3 DEF SettledBy
  <2>5. co[r].at \in InLock BY <2>4 DEF InLock
  <2>6. PlaceFits(r, co[r], sess[s]) BY <2>4, <2>5, Holding DEF Session
  <2> QED BY <2>4, <2>6 DEF PlaceFits, Releases, Unsold, Finished
<1>4. SoldIsNotReleased <=> [][Step]_vars BY DEF SoldIsNotReleased
<1> HIDE DEF Inv, Step
<1> QED BY <1>1, <1>2, <1>3, <1>4, PTL DEF Spec

(* Provided EC-OPS filters the list it is asked for, stock is only ever committed *)
(* for a session that has an order there.                                         *)
THEOREM CommitsHaveOrders == ListFiltered = TRUE /\ Spec => []FulfilledHasOrder
<1> SUFFICES ASSUME ListFiltered = TRUE PROVE Spec => []FulfilledHasOrder
  OBVIOUS
<1> DEFINE Owned == \A h \in HoldIds : hold[h].status # "none" => hold[h].owner \in Sessions
           Inv == SagaInv /\ HoldOwned /\ Owned /\ FulfilledHasOrder
<1>1. Init => Inv BY InitInv, HoldOwnedInit DEF Init, FulfilledHasOrder
<1>2. Inv /\ [Next]_vars => Inv'
  BY NextInv, HoldOwnedKept, OwnersAreSessions, FulfilledKept
<1>3. Inv => FulfilledHasOrder OBVIOUS
<1> HIDE DEF Inv
<1> QED BY <1>1, <1>2, <1>3, PTL DEF Spec

-----------------------------------------------------------------------------
(* A request that sells goes on until it has sold. *)

LEMMA OneHolder ==
  ASSUME SagaInv, NEW r \in Requests, NEW q \in Requests,
         co[r].at \in InLock, co[q].at \in InLock, S(r) = S(q)
  PROVE  r = q
  BY Holding

LEMMA WhoResumes ==
  ASSUME SagaInv, [Next]_vars, NEW r \in Requests, co[r].at \in InLock, co'[r] # co[r]
  PROVE  Resume(r)
<1>1. ~At(r, "idle") /\ co[r].at \notin {"holdLock", "confirmLock", "abandonLock"}
  BY LockPlaces DEF At
<1> QED BY <1>1, FrameStep, ArriveGoes, TakeLockGoes DEF SagaInv

LEMMA RecordSells ==
  ASSUME SagaInv, NEW r \in Requests, NEW state \in Finished, Record(r, state),
         co[r].at \in InLock
  PROVE  sess'[S(r)].state \in Finished
<1>1. co[r].snap \in SessionRec /\ S(r) \in Sessions BY RequestType DEF SagaInv
<1>2. PICK new : new = [co[r].snap EXCEPT !.state = state, !.order = co[r].got, !.key = K(r)]
  OBVIOUS
<1>3. new.state = state BY <1>1, <1>2 DEF SessionRec
<1> QED BY <1>1, <1>2, <1>3 DEF Record, Save, SagaInv, TypeOK

LEMMA SellingGoesOn ==
  ASSUME SagaInv, BadReplies = FALSE, [Next]_vars,
         NEW r \in Requests, co[r].at \in {"fulfill", "fulfillFound"}
  PROVE  co'[r].at = co[r].at \/ sess'[S(r)].state \in Finished
<1>0. co[r].at \in InLock BY LockPlaces
<1>1. CASE co'[r] = co[r] BY <1>1
<1>2. CASE co'[r] # co[r]
  <2>1. Resume(r) BY <1>0, <1>2, WhoResumes
  <2>2. FulfillSucceeds(r) \/ FulfillTimeout(r) \/ FulfillGivesUp(r)
    BY <2>1 DEF Resume, RejectCart, ValidateActive, ValidateFails, PlaceOrder, PlaceOrderReplay,
       PlaceOrderRefused, PlaceOrderResumes, HoldRequested, HoldRefused, StockChecked,
       StockShort, HoldCreated, HoldCreateFails, LookupFound, LookupAgain, PreflightEmpty,
       LookupEmpty, LookupFails, StatusUnknown, StillUnknown, CreateOrder, CreateOrderReplayed,
       CreateOrderConflict, CreateOrderFails, CreateOrderTimeout, ReleaseSucceeds, ReleaseTimeout,
       ReleaseGivesUp, ReplyUnreadable, At, Lookups, Releases
  <2>3. CASE FulfillTimeout(r)
    BY <2>3 DEF FulfillTimeout, Again, SagaInv, TypeOK, Frame
  <2>4. CASE FulfillSucceeds(r) \/ FulfillGivesUp(r)
    <3>1. PICK state \in Finished : Record(r, state)
      BY <2>4 DEF FulfillSucceeds, FulfillGivesUp, At, Finished
    <3> QED BY <1>0, <3>1, RecordSells
  <2> QED BY <2>2, <2>3, <2>4
<1> QED BY <1>1, <1>2

(* A request that asks for an order EC-OPS has finds it, or pins the session. *)
LEMMA AskingGoesOn ==
  ASSUME SagaInv, BadReplies = FALSE, [Next]_vars,
         NEW r \in Requests, At(r, "lookupTimeout"), OrdersOf(S(r)) # {}
  PROVE  \/ co'[r].at \in {"lookupTimeout", "fulfillFound"}
         \/ sess'[S(r)].state = "HELD" /\ sess'[S(r)].key # None
<1>0. co[r].at \in InLock /\ TypeOK /\ S(r) \in Sessions /\ K(r) \in Keys
  BY LockPlaces, RequestType DEF At, SagaInv
<1>1. CASE co'[r] = co[r] BY <1>1 DEF At
<1>2. CASE co'[r] # co[r]
  <2>1. Resume(r) BY <1>0, <1>2, WhoResumes
  <2>2. LookupFound(r) \/ LookupAgain(r) \/ StatusUnknown(r)
    <3>1. LookupFound(r) \/ LookupAgain(r) \/ LookupEmpty(r) \/ StatusUnknown(r)
      BY <2>1 DEF Resume, RejectCart, ValidateActive, ValidateFails, PlaceOrder, PlaceOrderReplay,
       PlaceOrderRefused, PlaceOrderResumes, HoldRequested, HoldRefused, StockChecked,
       StockShort, HoldCreated, HoldCreateFails, PreflightEmpty,
       LookupFails, StillUnknown, CreateOrder, CreateOrderReplayed,
       CreateOrderConflict, CreateOrderFails, CreateOrderTimeout, FulfillSucceeds, FulfillTimeout,
       FulfillGivesUp, ReleaseSucceeds, ReleaseTimeout,
       ReleaseGivesUp, ReplyUnreadable, At, Fulfills, Releases
    <3>2. ~LookupEmpty(r) BY <1>0, OrdersAreListed DEF LookupEmpty
    <3> QED BY <3>1, <3>2
  <2>3. CASE LookupFound(r)
    <3>1. PICK o : co' = [co EXCEPT ![r] = [Moved(r, "fulfillFound") EXCEPT !.got = o]]
      BY <2>3 DEF LookupFound
    <3>2. PICK f : f = [Moved(r, "fulfillFound") EXCEPT !.got = o] OBVIOUS
    <3>3. f.at = "fulfillFound" BY <3>2, <1>0 DEF TypeOK, Moved, Frame
    <3> QED BY <1>0, <3>1, <3>2, <3>3 DEF TypeOK
  <2>4. CASE LookupAgain(r)
    BY <1>0, <2>4 DEF LookupAgain, Again, TypeOK, Frame, At
  <2>5. CASE StatusUnknown(r)
    <3>1. PICK snap \in SessionRec, k \in Keys : snap = co[r].snap /\ k = K(r)
      BY <1>0, RequestType
    <3>2. snap.state = "HELD" BY <1>0, <3>1, Holding DEF PlaceFits, Unsold, At
    <3>3. PICK new : new = [snap EXCEPT !.key = k] OBVIOUS
    <3>4. new.state = "HELD" /\ new.key = k BY <3>1, <3>2, <3>3 DEF SessionRec
    <3>5. sess' = [sess EXCEPT ![S(r)] = new] BY <2>5, <3>1, <3>3 DEF StatusUnknown, Save
    <3> QED BY <1>0, <3>1, <3>4, <3>5, NoneAssumption DEF TypeOK
  <2> QED BY <2>2, <2>3, <2>4, <2>5
<1> QED BY <1>1, <1>2

-----------------------------------------------------------------------------
(* A session that is closed without a sale has given its stock back. *)

LEMMA CommitsFollowedKept ==
  ASSUME BadReplies = FALSE, SagaInv, HoldOwned, CommitsFollowed, [Next]_vars
  PROVE  CommitsFollowed'
<1> SUFFICES ASSUME NEW s \in Sessions, sess'[s].state = "HELD",
                    hold'[sess'[s].hold].status = "fulfilled"
             PROVE  \E r \in Requests : S(r) = s /\ co'[r].at \in {"fulfill", "fulfillFound"}
  BY RequestsStay DEF CommitsFollowed, Selling, S
<1>0. TypeOK /\ SessionStep BY NextMoves DEF SagaInv
<1>1. ASSUME NEW r \in Requests, HoldCreated(r) PROVE sess'[s] = sess[s]
  <2>1. PICK h \in HoldIds :
          /\ Reserve(h, S(r)) /\ sess'[S(r)].hold = h
          /\ \A t \in Sessions \ {S(r)} : sess'[t] = sess[t]
    BY <1>1, HoldCreatedEffect
  <2>2. s # S(r) BY <1>0, <2>1 DEF Reserve, TypeOK
  <2> QED BY <2>1, <2>2
<1>2. sess'[s].hold = sess[s].hold BY <1>1, SessionsKeepHolds
<1>3. sess[s].state = "HELD"
  <2>1. sess[s].state # "HELD" => sess'[s].state = "HELD" /\ sess[s].state = "CREATED"
    BY <1>0 DEF SessionStep, SessionMove, TypeOK, Finished
  <2>2. sess[s].state = "CREATED" => sess[s].hold = None
    BY DEF SagaInv, SessionShape, ShapeOf
  <2>3. sess'[s].hold # None
    <3>1. SagaInv' BY NextInv
    <3> QED BY <3>1, NoneAssumption DEF SagaInv, SessionShape, ShapeOf
  <2> QED BY <1>2, <2>1, <2>2, <2>3
<1>4. sess[s].hold \in HoldIds BY <1>3 DEF SagaInv, SessionShape, ShapeOf
<1>5. CASE hold[sess[s].hold].status = "fulfilled"
  <2>1. PICK q \in Requests : S(q) = s /\ co[q].at \in {"fulfill", "fulfillFound"}
    BY <1>3, <1>5 DEF CommitsFollowed, Selling
  <2>2. co'[q].at = co[q].at \/ sess'[S(q)].state \in Finished BY <2>1, SellingGoesOn
  <2> QED BY <2>1, <2>2 DEF Finished
<1>6. CASE hold[sess[s].hold].status # "fulfilled"
  <2>1. PICK h \in HoldIds : h = sess[s].hold BY <1>4
  <2>2. PICK r \in Requests : co[r].at \in Fulfills /\ Fulfill(Session(r).hold)
    <3>1. CASE \E g \in HoldIds : TtlElapses(g)
      BY <1>0, <1>2, <1>6, <2>1, <3>1 DEF TtlElapses, TypeOK, HoldRec
    <3>2. CASE \E g : Release(g) BY <1>0, <1>2, <1>6, <2>1, <3>2 DEF Release, TypeOK, HoldRec
    <3>3. CASE \E g, t : Reserve(g, t) BY <1>0, <1>2, <1>6, <2>1, <3>3 DEF Reserve, TypeOK, HoldRec
    <3> QED BY <1>2, <1>6, <3>1, <3>2, <3>3, NextHoldStep DEF HoldStep, HoldCreated
  <2>3. PICK g : g = Session(r).hold OBVIOUS
  <2>4. h = g BY <1>0, <1>2, <1>6, <2>1, <2>2, <2>3 DEF Fulfill, TypeOK, HoldRec
  <2>5. S(r) = s
    <3>1. sess[S(r)].hold = h /\ sess[s].hold = h /\ h # None
      BY <2>1, <2>3, <2>4, NoneAssumption DEF Session
    <3>2. S(r) \in Sessions BY <1>0, RequestType
    <3> QED BY <3>1, <3>2 DEF HoldOwned
  <2>6. co[r].at \in {"fulfill", "fulfillFound"}
    <3>1. co[r].at \in InLock BY <2>2 DEF InLock
    <3>2. PlaceFits(r, co[r], Session(r)) BY <3>1, Holding
    <3> QED BY <1>3, <2>2, <2>5, <3>2 DEF PlaceFits, Fulfills, Session
  <2>7. co'[r].at = co[r].at \/ sess'[S(r)].state \in Finished BY <2>6, SellingGoesOn
  <2> QED BY <2>5, <2>6, <2>7 DEF Finished
<1> QED BY <1>5, <1>6

LEMMA HeldIsClosed ==
  ASSUME BadReplies = FALSE, SagaInv, HoldOwned, CommitsFollowed, [Next]_vars,
         NEW r \in Requests, ReleaseSucceeds(r), NEW h, h = Session(r).hold,
         sess'[S(r)].hold = h
  PROVE  hold'[h].status \in {"released", "expired"}
<1>0. TypeOK /\ S(r) \in Sessions BY RequestType DEF SagaInv
<1>1. co[r].at \in Releases /\ co[r].at \in InLock BY DEF ReleaseSucceeds, InLock
<1>2. /\ co[r].snap = Session(r) /\ Session(r).state = "HELD"
  BY <1>1, Holding DEF PlaceFits, Releases, Unsold
<1>3. h \in HoldIds BY <1>0, <1>2 DEF SagaInv, SessionShape, ShapeOf, Session
<1>4. hold[h].status # "none" BY <1>0, <1>3, NoneAssumption DEF HoldOwned, Session
<1>5. hold[h].status # "fulfilled"
  <2> SUFFICES ASSUME hold[h].status = "fulfilled" PROVE FALSE
    OBVIOUS
  <2>1. PICK q \in Requests : S(q) = S(r) /\ co[q].at \in {"fulfill", "fulfillFound"}
    BY <1>0, <1>2 DEF CommitsFollowed, Selling, Session
  <2>2. co[q].at \in InLock BY <2>1, LockPlaces
  <2>3. q = r BY <1>1, <2>1, <2>2, OneHolder
  <2> QED BY <1>1, <2>1, <2>3 DEF Releases
<1>6. Release(h) BY <1>2 DEF ReleaseSucceeds
<1> QED BY <1>0, <1>3, <1>4, <1>5, <1>6 DEF Release, TypeOK, HoldRec

LEMMA ClosedKept ==
  ASSUME BadReplies = FALSE, SagaInv, HoldOwned, CommitsFollowed, ClosedHoldIsGone, [Next]_vars
  PROVE  ClosedHoldIsGone'
<1> DEFINE Closed == {"COMPENSATED", "ABANDONED"}
<1> SUFFICES ASSUME NEW s \in Sessions, sess'[s].state \in Closed, sess'[s].hold # None
             PROVE  hold'[sess'[s].hold].status \in {"released", "expired"}
  BY DEF ClosedHoldIsGone
<1>0. TypeOK /\ SessionStep /\ SagaInv' BY NextInv, NextMoves DEF SagaInv
<1>1. CASE sess'[s] = sess[s]
  <2>1. PICK h \in HoldIds : h = sess[s].hold
    <3>1. sess[s].hold \in HoldIds \cup {None} BY <1>0 DEF TypeOK, SessionRec
    <3> QED BY <1>1, <3>1
  <2>2. hold[h].status \in {"released", "expired"} BY <1>1, <2>1 DEF ClosedHoldIsGone
  <2>3. hold'[h].status \in {"released", "expired"}
    <3>1. CASE \E g \in HoldIds : TtlElapses(g)
      BY <1>0, <2>2, <3>1 DEF TtlElapses, TypeOK, HoldRec
    <3>2. CASE \E g : Release(g) BY <1>0, <2>2, <3>2 DEF Release, TypeOK, HoldRec
    <3>3. CASE \E g : Fulfill(g) BY <1>0, <2>2, <3>3 DEF Fulfill, TypeOK, HoldRec
    <3>4. CASE \E g, t : Reserve(g, t) BY <1>0, <2>2, <3>4 DEF Reserve, TypeOK, HoldRec
    <3> QED BY <2>2, <3>1, <3>2, <3>3, <3>4, NextHoldStep DEF HoldStep, HoldCreated
  <2> QED BY <1>1, <2>1, <2>3
<1>2. CASE sess'[s] # sess[s]
  <2>1. SessionMove(s, sess'[s]) BY <1>0, <1>2 DEF SessionStep, TypeOK
  <2>2. ~ \E r \in Requests : HoldCreated(r)
    <3> SUFFICES ASSUME NEW r \in Requests, HoldCreated(r) PROVE FALSE
      OBVIOUS
    <3>1. sess'[S(r)].state = "HELD" /\ \A t \in Sessions \ {S(r)} : sess'[t] = sess[t]
      BY HoldCreatedEffect
    <3> QED BY <1>2, <3>1
  <2>3. sess'[s].hold = sess[s].hold BY <2>2, SessionsKeepHolds
  <2>4. sess[s].state # "CREATED" BY <2>3 DEF SagaInv, SessionShape, ShapeOf
  <2>5. sess[s].state = "HELD" BY <2>1, <2>4 DEF SessionMove, Finished
  <2>6. PICK r \in Requests : S(r) = s /\ ReleaseSucceeds(r) BY <2>1, <2>5 DEF SessionMove
  <2>7. PICK h : h = Session(r).hold OBVIOUS
  <2>8. hold'[h].status \in {"released", "expired"}
    BY <2>3, <2>6, <2>7, HeldIsClosed DEF Session
  <2> QED BY <2>3, <2>6, <2>7, <2>8 DEF Session
<1> QED BY <1>1, <1>2

(* Where every 2xx reply can be read, a session that is compensated or abandoned *)
(* has no hold left that keeps stock or has sold it.                             *)
THEOREM ClosedSessionsGiveBack == BadReplies = FALSE /\ Spec => []ClosedHoldIsGone
<1> SUFFICES ASSUME BadReplies = FALSE PROVE Spec => []ClosedHoldIsGone
  OBVIOUS
<1> DEFINE Inv == SagaInv /\ HoldOwned /\ CommitsFollowed /\ ClosedHoldIsGone
<1>1. Init => Inv
  BY InitInv, HoldOwnedInit DEF Init, CommitsFollowed, ClosedHoldIsGone, NewSession
<1>2. Inv /\ [Next]_vars => Inv'
  BY NextInv, HoldOwnedKept, CommitsFollowedKept, ClosedKept
<1>3. Inv => ClosedHoldIsGone OBVIOUS
<1> HIDE DEF Inv
<1> QED BY <1>1, <1>2, <1>3, PTL DEF Spec

-----------------------------------------------------------------------------
(* One order for a session, and none for one whose stock is given back *)

LEMMA NothingOrdered ==
  ASSUME SagaInv, OrdersFollowed, NEW r \in Requests, co[r].at \in {"createOrder", "compensate"}
  PROVE  OrdersOf(S(r)) = {}
<1> SUFFICES ASSUME OrdersOf(S(r)) # {} PROVE FALSE
  OBVIOUS
<1>0. S(r) \in Sessions /\ co[r].at \in InLock BY LockPlaces, RequestType DEF SagaInv
<1>1. Session(r).state = "HELD" /\ Session(r).key = None BY <1>0, Holding DEF PlaceFits, Unsold
<1>2. Selling(S(r)) \/ Asking(S(r))
  BY <1>0, <1>1 DEF OrdersFollowed, Pinned, Session, Finished
<1>3. PICK q \in Requests : /\ S(q) = S(r)
                            /\ co[q].at \in {"fulfill", "fulfillFound", "lookupTimeout"}
  BY <1>2 DEF Selling, Asking, At
<1>4. q = r BY <1>0, <1>3, LockPlaces, OneHolder
<1> QED BY <1>3, <1>4

(* The faults that the theorems of this section exclude. *)
PromptOrders == LateOrders = FALSE /\ AmbiguousErrors = FALSE /\ BadReplies = FALSE

LEMMA OrderBegins ==
  ASSUME PromptOrders, SagaInv, late = {}, [Next]_vars, ~UNCHANGED order
  PROVE  \E r \in Requests, o \in OrderIds :
           /\ OrderMade(r, o) /\ At(r, "createOrder")
           /\ co'[r].at \in {"fulfill", "lookupTimeout"} /\ UNCHANGED sess
<1>0. TypeOK BY DEF SagaInv
<1>1. PICK r \in Requests, o \in OrderIds : OrderMade(r, o) /\ At(r, "createOrder") /\ Resume(r)
  BY OrderStep DEF LateOrderTakesEffect
<1>2. CreateOrder(r) \/ CreateOrderTimeout(r)
  BY <1>1 DEF PromptOrders, Resume, RejectCart, ValidateActive, ValidateFails, PlaceOrder,
     PlaceOrderReplay, PlaceOrderRefused, PlaceOrderResumes, HoldRequested, HoldRefused,
     StockChecked, StockShort, HoldCreated, HoldCreateFails, LookupFound, LookupAgain,
     PreflightEmpty, LookupEmpty, LookupFails, StatusUnknown, StillUnknown, CreateOrderReplayed,
     CreateOrderConflict, CreateOrderFails, FulfillSucceeds, FulfillTimeout, FulfillGivesUp,
     ReleaseSucceeds, ReleaseTimeout, ReleaseGivesUp, ReplyUnreadable, Record, AnswerAsIs, ecops
<1>3. CASE CreateOrder(r)
  <2>1. PICK p : co' = [co EXCEPT ![r] = [Moved(r, "fulfill") EXCEPT !.got = p]]
    BY <1>3 DEF CreateOrder, OrderPlaced
  <2>2. PICK f : f = [Moved(r, "fulfill") EXCEPT !.got = p] OBVIOUS
  <2>3. f.at = "fulfill" BY <1>0, <2>2 DEF TypeOK, Moved, Frame
  <2> QED BY <1>0, <1>1, <1>3, <2>1, <2>2, <2>3 DEF CreateOrder, stores, TypeOK
<1>4. CASE CreateOrderTimeout(r)
  <2>1. co'[r] = Moved(r, "lookupTimeout") BY <1>0, <1>4 DEF CreateOrderTimeout, Goto, TypeOK
  <2>2. co'[r].at = "lookupTimeout" BY <1>0, <2>1, MovedFields DEF TypeOK
  <2> QED BY <1>1, <1>4, <2>2 DEF CreateOrderTimeout, stores
<1> QED BY <1>2, <1>3, <1>4

LEMMA OrdersFollowedKept ==
  ASSUME PromptOrders, SagaInv, late = {}, OrdersFollowed, [Next]_vars
  PROVE  OrdersFollowed'
<1> SUFFICES ASSUME NEW s \in Sessions, OrdersOf(s)' # {}
             PROVE  \/ sess'[s].state \in Finished \cup {"ABANDONED"}
                    \/ sess'[s].state = "HELD" /\ sess'[s].key # None
                    \/ /\ sess'[s].state = "HELD"
                       /\ \E r \in Requests :
                            S(r) = s /\ co'[r].at \in {"fulfill", "fulfillFound", "lookupTimeout"}
  BY RequestsStay DEF OrdersFollowed, Pinned, Selling, Asking, S, At
<1>0. TypeOK /\ SessionStep BY NextMoves DEF SagaInv
<1>1. CASE OrdersOf(s) = {}
  <2>1. ~UNCHANGED order BY <1>1 DEF OrdersOf
  <2>2. PICK r \in Requests, o \in OrderIds :
          /\ OrderMade(r, o) /\ At(r, "createOrder")
          /\ co'[r].at \in {"fulfill", "lookupTimeout"} /\ UNCHANGED sess
    BY <2>1, OrderBegins
  <2>3. S(r) = s BY <1>0, <1>1, <2>2 DEF OrdersOf, OrderMade, TypeOK
  <2>4. co[r].at \in InLock BY <2>2, LockPlaces DEF At
  <2>5. sess[s].state = "HELD" BY <2>2, <2>3, <2>4, Holding DEF PlaceFits, Unsold, At, Session
  <2> QED BY <2>2, <2>3, <2>5
<1>2. CASE OrdersOf(s) # {}
  <2>1. CASE sess[s].state \in Finished \cup {"ABANDONED"}
    BY <1>0, <2>1 DEF SessionStep, SessionMove, Finished, TypeOK
  <2>2. CASE sess[s].state = "HELD"
    <3>1. sess'[s].state # "COMPENSATED"
      <4> SUFFICES ASSUME sess'[s].state = "COMPENSATED" PROVE FALSE
        OBVIOUS
      <4>1. SessionMove(s, sess'[s]) BY <1>0, <2>2 DEF SessionStep, TypeOK
      <4>2. PICK r \in Requests : S(r) = s /\ At(r, "compensate") BY <2>2, <4>1 DEF SessionMove
      <4> QED BY <1>2, <4>2, NothingOrdered DEF At
    <3>2. sess'[s].state \in {"HELD", "ABANDONED"} \cup Finished
      BY <1>0, <2>2, <3>1 DEF SessionStep, SessionMove, TypeOK
    <3>3. CASE Pinned(s)
      BY <1>0, <3>2, <3>3 DEF SessionStep, SessionMove, TypeOK, Pinned
    <3>4. CASE Selling(s)
      <4>1. PICK r \in Requests : S(r) = s /\ co[r].at \in {"fulfill", "fulfillFound"}
        BY <3>4 DEF Selling
      <4>2. co'[r].at = co[r].at \/ sess'[S(r)].state \in Finished
        BY <4>1, SellingGoesOn DEF PromptOrders
      <4> QED BY <3>2, <4>1, <4>2
    <3>5. CASE Asking(s)
      <4>1. PICK r \in Requests : S(r) = s /\ At(r, "lookupTimeout") BY <3>5 DEF Asking
      <4>2. \/ co'[r].at \in {"lookupTimeout", "fulfillFound"}
            \/ sess'[S(r)].state = "HELD" /\ sess'[S(r)].key # None
        BY <1>2, <4>1, AskingGoesOn DEF PromptOrders
      <4> QED BY <3>2, <4>1, <4>2
    <3> QED BY <1>2, <2>2, <3>3, <3>4, <3>5 DEF OrdersFollowed, Finished
  <2> QED BY <1>2, <2>1, <2>2 DEF OrdersFollowed, Pinned
<1> QED BY <1>1, <1>2

LEMMA OneOrderKept ==
  ASSUME PromptOrders, SagaInv, late = {}, OrdersFollowed, NoDuplicateOrder, [Next]_vars
  PROVE  NoDuplicateOrder'
<1> SUFFICES ASSUME NEW s \in Sessions PROVE Cardinality(OrdersOf(s)') <= 1
  BY DEF NoDuplicateOrder
<1>0. TypeOK /\ Cardinality(OrdersOf(s)) <= 1 BY DEF SagaInv, NoDuplicateOrder
<1>1. CASE UNCHANGED order
  <2>1. OrdersOf(s)' = OrdersOf(s) BY <1>1 DEF OrdersOf
  <2> QED BY <1>0, <2>1
<1>2. CASE ~UNCHANGED order
  <2>1. PICK r \in Requests, o \in OrderIds : OrderMade(r, o) /\ At(r, "createOrder")
    BY <1>2, OrderBegins
  <2>2. CASE S(r) = s
    <3>1. OrdersOf(s) = {} BY <2>1, <2>2, NothingOrdered DEF At
    <3>2. OrdersOf(s)' = {o} BY <1>0, <2>1, <2>2, <3>1 DEF OrdersOf, OrderMade, TypeOK
    <3>3. Cardinality({o}) = 1 BY FS_Singleton
    <3> QED BY <3>2, <3>3
  <2>3. CASE S(r) # s
    <3>1. order[o].ref # s BY <1>0, <2>1, NoneAssumption DEF OrderMade, Placed
    <3>2. OrdersOf(s)' = OrdersOf(s)
      BY <1>0, <2>1, <2>3, <3>1 DEF OrdersOf, OrderMade, TypeOK
    <3> QED BY <1>0, <3>2
  <2> QED BY <2>2, <2>3
<1> QED BY <1>1, <1>2

OrderInv == SagaInv /\ late = {} /\ OrdersFollowed /\ NoDuplicateOrder

LEMMA OrderInvariant == PromptOrders /\ Spec => []OrderInv
<1> SUFFICES ASSUME PromptOrders PROVE Spec => []OrderInv
  OBVIOUS
<1>1. Init => OrderInv
  <2> SUFFICES ASSUME Init PROVE OrderInv
    OBVIOUS
  <2>1. SagaInv /\ late = {} BY InitInv DEF Init
  <2>2. \A s \in Sessions : OrdersOf(s) = {}
    BY NoneAssumption DEF Init, OrdersOf, NoOrder
  <2>3. NoDuplicateOrder BY <2>2, FS_EmptySet DEF NoDuplicateOrder
  <2> QED BY <2>1, <2>2, <2>3 DEF OrderInv, OrdersFollowed
<1>2. OrderInv /\ [Next]_vars => OrderInv'
  BY NextInv, NothingLate, OrdersFollowedKept, OneOrderKept DEF OrderInv, PromptOrders
<1> QED BY <1>1, <1>2, PTL DEF Spec

(* However requests retry, overlap and time out, a session has one order at most, *)
(* with the upstreams as they are: POST /orders has made an order when it ends, or *)
(* never, makes none when it answers with an error, and its replies can be read.   *)
THEOREM OneOrderPerSession == PromptOrders /\ Spec => []NoDuplicateOrder
<1>1. OrderInv => NoDuplicateOrder BY DEF OrderInv
<1> QED BY <1>1, OrderInvariant, PTL

(* An order EC-OPS has is never forgotten: its session is sold, pinned or abandoned, *)
(* or a request is selling it or asking for it.                                     *)
THEOREM NoOrderIsForgotten == PromptOrders /\ Spec => []OrdersFollowed
<1>1. OrderInv => OrdersFollowed BY DEF OrderInv
<1> QED BY <1>1, OrderInvariant, PTL

LEMMA EnforcedKept ==
  ASSUME EnforceUnique = TRUE, SagaInv, NoDuplicateOrder, [Next]_vars
  PROVE  NoDuplicateOrder'
<1> SUFFICES ASSUME NEW s \in Sessions PROVE Cardinality(OrdersOf(s)') <= 1
  BY DEF NoDuplicateOrder
<1>0. TypeOK /\ Cardinality(OrdersOf(s)) <= 1 BY DEF SagaInv, NoDuplicateOrder
<1>1. CASE OrdersOf(s)' = OrdersOf(s) BY <1>0, <1>1
<1>2. CASE OrdersOf(s)' # OrdersOf(s)
  <2>1. PICK r \in Requests, o \in OrderIds : OrderMade(r, o)
    BY <1>2, OrderStep DEF OrdersOf
  <2>2. S(r) = s /\ OrdersOf(s) = {}
    <3>1. order' = [order EXCEPT ![o] = [ref |-> S(r), key |-> K(r)]] BY <2>1 DEF OrderMade
    <3>2. OrdersOf(S(r)) = {} BY <2>1 DEF OrderMade, Accepts
    <3>3. \A p \in OrderIds \ {o} : order'[p] = order[p] BY <1>0, <3>1 DEF TypeOK
    <3>4. order[o].ref = None /\ order'[o].ref = S(r)
      BY <1>0, <2>1, <3>1 DEF OrderMade, Placed, TypeOK
    <3>5. S(r) = s BY <1>2, <3>3, <3>4, NoneAssumption DEF OrdersOf
    <3> QED BY <3>2, <3>5
  <2>3. OrdersOf(s)' = {o}
    <3>1. order' = [order EXCEPT ![o] = [ref |-> s, key |-> K(r)]] BY <2>1, <2>2 DEF OrderMade
    <3>2. order'[o].ref = s /\ \A p \in OrderIds \ {o} : order'[p] = order[p]
      BY <1>0, <3>1 DEF TypeOK
    <3>3. \A p \in OrderIds \ {o} : order[p].ref # s BY <2>2 DEF OrdersOf
    <3>4. \A p \in OrderIds : order'[p].ref = s <=> p = o BY <3>2, <3>3
    <3> QED BY <3>4 DEF OrdersOf
  <2>4. Cardinality({o}) = 1 BY FS_Singleton
  <2> QED BY <2>3, <2>4
<1> QED BY <1>1, <1>2

(* Where EC-OPS enforces its references, not even an order that takes effect late, *)
(* or whose reply is lost or cannot be read, makes a second one.                   *)
THEOREM OneOrderWhereEnforced == EnforceUnique = TRUE /\ Spec => []NoDuplicateOrder
<1> SUFFICES ASSUME EnforceUnique = TRUE PROVE Spec => []NoDuplicateOrder
  OBVIOUS
<1> DEFINE Inv == SagaInv /\ NoDuplicateOrder
<1>1. Init => Inv
  <2> SUFFICES ASSUME Init PROVE NoDuplicateOrder
    BY InitInv
  <2>1. \A s \in Sessions : OrdersOf(s) = {}
    BY NoneAssumption DEF Init, OrdersOf, NoOrder
  <2> QED BY <2>1, FS_EmptySet DEF NoDuplicateOrder
<1>2. Inv /\ [Next]_vars => Inv' BY NextInv, EnforcedKept
<1>3. Inv => NoDuplicateOrder OBVIOUS
<1> HIDE DEF Inv
<1> QED BY <1>1, <1>2, <1>3, PTL DEF Spec

-----------------------------------------------------------------------------
(* Compensation *)

AbandonPlaces == {"abandonLock", "abandonRelease"}
NoAbandon == \A r \in Requests : co[r].at \notin AbandonPlaces

LEMMA NoAbandonKept ==
  ASSUME "abandon" \notin Ops, SagaInv, NoAbandon, [Next]_vars
  PROVE  NoAbandon'
<1> SUFFICES ASSUME NEW r \in Requests PROVE co'[r].at \notin AbandonPlaces
  BY DEF NoAbandon
<1>1. req[r].op # "abandon" BY DEF SagaInv, TypeOK
<1>2. CASE co'[r] = co[r] BY <1>2 DEF NoAbandon
<1>3. CASE co'[r] # co[r]
  <2>1. PICK f : /\ co' = [co EXCEPT ![r] = f]
                 /\ f.at = co[r].at \/ Edge(co[r].at, f.at)
                 /\ f.at # "abandonLock"
    BY <1>1, <1>3, FrameStep DEF Goes, SagaInv
  <2> QED BY <2>1 DEF Edge, NoAbandon, AbandonPlaces, SagaInv, TypeOK
<1> QED BY <1>2, <1>3

LEMMA ReleaseIsSafe ==
  ASSUME OrderInv, HoldOwned, NoAbandon, [Next]_vars, NEW h \in HoldIds,
         hold[h].status = "active", hold'[h].status = "released"
  PROVE  OrdersOf(hold[h].owner) = {}
<1>0. SagaInv BY DEF OrderInv
<1>1. PICK r \in Requests : SettledBy(r, h) BY <1>0, WhoSettles
<1>2. hold[h].owner = S(r) /\ co[r].at = "compensate"
  BY <1>1 DEF SettledBy, NoAbandon, AbandonPlaces, Releases
<1>3. OrdersOf(S(r)) = {} BY <1>0, <1>2, NothingOrdered DEF OrderInv
<1> QED BY <1>2, <1>3

(* ADR-008: with the upstreams as they are, and no client that abandons, stock is *)
(* never given back while EC-OPS has an order of the session.                     *)
THEOREM CompensationIsSafe ==
  PromptOrders /\ "abandon" \notin Ops /\ Spec => NoReleaseAfterOrder
<1> SUFFICES ASSUME PromptOrders, "abandon" \notin Ops PROVE Spec => NoReleaseAfterOrder
  OBVIOUS
<1> DEFINE Step == \A h \in HoldIds : hold[h].status = "active" /\ hold'[h].status = "released"
                     => OrdersOf(hold[h].owner) = {}
           Inv == SagaInv /\ HoldOwned /\ NoAbandon
<1>1. Init => Inv
  BY InitInv, HoldOwnedInit DEF Init, NoAbandon, NewFrame, AbandonPlaces
<1>2. Inv /\ [Next]_vars => Inv' BY NextInv, HoldOwnedKept, NoAbandonKept
<1>3. OrderInv /\ Inv /\ [Next]_vars => [Step]_vars BY ReleaseIsSafe
<1>4. NoReleaseAfterOrder <=> [][Step]_vars BY DEF NoReleaseAfterOrder
<1> HIDE DEF Inv, Step
<1> QED BY <1>1, <1>2, <1>3, <1>4, OrderInvariant, PTL DEF Spec
====
