---- MODULE CheckoutSagaStepProofs ----
(***************************************************************************)
(* Proofs about CheckoutSaga: the way of a coroutine from one await to the *)
(* next.  Every step brings it nearer to its answer, so that no handler of *)
(* the saga goes in circles, whatever its upstreams answer.                *)
(***************************************************************************)
EXTENDS CheckoutSagaProofs

-----------------------------------------------------------------------------
(* Where a coroutine may await next, other than once more in its retry loop. *)

Edge(from, to) ==
  \/ from # "done" /\ to = "done"
  \/ from = "idle" /\ to \in {"refresh", "validate", "confirmLock", "abandonLock"}
  \/ from = "refresh" /\ to \in {"holdLock", "confirmLock"}
  \/ from = "validate" /\ to = "confirmLock"
  \/ from = "holdLock" /\ to = "stock"
  \/ from = "stock" /\ to = "createHold"
  \/ from = "createHold" /\ to = "confirmLock"
  \/ from = "confirmLock" /\ to \in {"preflight", "resolve", "retryFulfill", "cachedFulfill"}
  \/ from = "preflight" /\ to \in {"createOrder", "compensate", "fulfillFound"}
  \/ from = "createOrder" /\ to \in {"lookup409", "lookupTimeout", "compensate", "fulfill"}
  \/ from \in {"lookup409", "lookupTimeout", "resolve"} /\ to \in {"compensate", "fulfillFound"}
  \/ from = "abandonLock" /\ to = "abandonRelease"
Loops == (Lookups \ {"preflight"}) \cup Fulfills \cup Releases

(* A step changes the frame of one coroutine, which goes on or tries again. *)
Goes(r) == \E f :
  /\ co' = [co EXCEPT ![r] = f]
  /\ \/ Edge(co[r].at, f.at) /\ f.tries = 0
     \/ f.at = co[r].at /\ f.at \in Loops /\ f.tries = co[r].tries + 1
  /\ f.at = "abandonLock" => req[r].op = "abandon"

LEMMA GotoGoes ==
  ASSUME TypeOK, NEW r \in Requests, NEW place, Goto(r, place), Edge(co[r].at, place),
         place = "abandonLock" => req[r].op = "abandon"
  PROVE  Goes(r)
<1>1. Moved(r, place).at = place /\ Moved(r, place).tries = 0 BY DEF TypeOK, Moved, Frame
<1> QED BY <1>1 DEF Goto, Goes

LEMMA LoadedGoes ==
  ASSUME TypeOK, NEW r \in Requests, NEW place, NEW session,
         co' = [co EXCEPT ![r] = Loaded(r, place, session)], Edge(co[r].at, place),
         place # "abandonLock"
  PROVE  Goes(r)
<1>1. Loaded(r, place, session).at = place /\ Loaded(r, place, session).tries = 0
  BY DEF TypeOK, Loaded, Moved, Frame
<1> QED BY <1>1 DEF Goes

LEMMA FoundGoes ==
  ASSUME TypeOK, NEW r \in Requests, NEW place, NEW o,
         co' = [co EXCEPT ![r] = [Moved(r, place) EXCEPT !.got = o]], Edge(co[r].at, place),
         place # "abandonLock"
  PROVE  Goes(r)
<1>1. PICK f : f = [Moved(r, place) EXCEPT !.got = o] OBVIOUS
<1>2. f.at = place /\ f.tries = 0 BY <1>1 DEF TypeOK, Moved, Frame
<1> QED BY <1>1, <1>2 DEF Goes

LEMMA AgainGoes ==
  ASSUME TypeOK, NEW r \in Requests, Again(r), co[r].at \in Loops
  PROVE  Goes(r)
<1>1. PICK f : f = [co[r] EXCEPT !.tries = co[r].tries + 1] OBVIOUS
<1>2. f.at = co[r].at /\ f.tries = co[r].tries + 1 BY <1>1 DEF TypeOK, Frame
<1>3. co[r].at # "abandonLock" BY DEF Loops, Lookups, Fulfills, Releases
<1> QED BY <1>1, <1>2, <1>3 DEF Again, Goes

LEMMA AnswerGoes ==
  ASSUME NEW r \in Requests, NEW status, NEW o, Answer(r, status, o), co[r].at # "done"
  PROVE  Goes(r)
<1>1. PICK f : f = [NewFrame EXCEPT !.at = "done", !.answer = status, !.got = o] OBVIOUS
<1>2. f.at = "done" /\ f.tries = 0 BY <1>1 DEF NewFrame
<1> QED BY <1>1, <1>2 DEF Answer, Goes, Edge

LEMMA ArriveGoes ==
  ASSUME TypeOK, NEW r \in Requests, Arrive(r)
  PROVE  Goes(r) /\ At(r, "idle")
<1>1. At(r, "idle") /\ co[r].at = "idle"
  BY DEF Arrive, ArriveCart, ArriveCheckout, ArriveConfirm, ArriveAbandon, Arrives, At
<1>2. CASE ArriveCart(r) \/ ArriveCheckout(r)
  <2>1. Goto(r, "refresh") BY <1>2 DEF ArriveCart, ArriveCheckout
  <2> QED BY <1>1, <2>1, GotoGoes DEF Edge
<1>3. CASE ArriveConfirm(r)
  <2>1. \/ co' = [co EXCEPT ![r] = Loaded(r, "validate", Session(r))]
        \/ Goto(r, "confirmLock")
    BY <1>3 DEF ArriveConfirm, Goto
  <2> QED BY <1>1, <2>1, GotoGoes, LoadedGoes DEF Edge
<1>4. CASE ArriveAbandon(r)
  <2>1. Goto(r, "abandonLock") /\ req[r].op = "abandon" BY <1>4 DEF ArriveAbandon, Arrives
  <2> QED BY <1>1, <2>1, GotoGoes DEF Edge
<1> QED BY <1>2, <1>3, <1>4 DEF Arrive

LEMMA TakeLockGoes ==
  ASSUME TypeOK, NEW r \in Requests, TakeLock(r)
  PROVE  Goes(r) /\ co[r].at \in {"holdLock", "confirmLock", "abandonLock"}
<1>1. co[r].at \in {"holdLock", "confirmLock", "abandonLock"}
  BY DEF TakeLock, HoldLocked, HoldTooLate, ConfirmReplay, ConfirmResumes, ConfirmFresh,
     ConfirmRefused, AbandonRefused, AbandonCreated, AbandonHeld, Confirming, Abandoning, At
<1>2. CASE HoldLocked(r) \/ ConfirmFresh(r) \/ ConfirmResumes(r) \/ AbandonHeld(r)
  <2>1. PICK place \in {"stock", "preflight", "resolve", "retryFulfill", "abandonRelease"} :
          Enter(r, place) /\ Edge(co[r].at, place)
    BY <1>2 DEF HoldLocked, ConfirmFresh, ConfirmResumes, AbandonHeld, Confirming, Abandoning,
       At, Edge
  <2> QED BY <1>1, <2>1, LoadedGoes DEF Enter
<1>3. CASE ConfirmReplay(r)
  <2>1. PICK place \in {"retryFulfill", "cachedFulfill"} :
          \E session : co' = [co EXCEPT ![r] = Loaded(r, place, session)]
    BY <1>3 DEF ConfirmReplay
  <2>2. PICK session : co' = [co EXCEPT ![r] = Loaded(r, place, session)] BY <2>1
  <2>3. Edge(co[r].at, place) BY <1>3, <2>1 DEF ConfirmReplay, Confirming, At, Edge
  <2> QED BY <1>1, <2>1, <2>2, <2>3, LoadedGoes
<1>4. CASE HoldTooLate(r) \/ ConfirmRefused(r) \/ AbandonRefused(r) \/ AbandonCreated(r)
  BY <1>1, <1>4, AnswerGoes DEF HoldTooLate, ConfirmRefused, AbandonRefused, AbandonCreated
<1> QED BY <1>1, <1>2, <1>3, <1>4 DEF TakeLock

LEMMA ResumeGoes ==
  ASSUME TypeOK, NEW r \in Requests, Resume(r)
  PROVE  Goes(r)
<1>1. CASE \/ RejectCart(r) \/ ValidateFails(r) \/ PlaceOrderRefused(r) \/ HoldRefused(r)
           \/ StockShort(r) \/ HoldCreateFails(r) \/ StatusUnknown(r) \/ StillUnknown(r)
           \/ ReleaseSucceeds(r) \/ ReleaseGivesUp(r) \/ ReplyUnreadable(r) \/ PlaceOrderReplay(r)
  <2>1. co[r].at # "done"
    BY <1>1 DEF RejectCart, ValidateFails, PlaceOrder, PlaceOrderRefused, HoldRefused, StockShort,
       HoldCreateFails, StatusUnknown, StillUnknown, ReleaseSucceeds, ReleaseGivesUp,
       ReplyUnreadable, PlaceOrderReplay, At, Lookups, Fulfills, Releases
  <2> QED
    BY <1>1, <2>1, AnswerGoes DEF RejectCart, ValidateFails, PlaceOrderRefused, HoldRefused,
       StockShort, HoldCreateFails, StatusUnknown, StillUnknown, ReleaseSucceeds, ReleaseGivesUp,
       ReplyUnreadable, PlaceOrderReplay
<1>2. CASE \/ ValidateActive(r) \/ PlaceOrderResumes(r) \/ HoldRequested(r) \/ StockChecked(r)
           \/ PreflightEmpty(r) \/ LookupEmpty(r) \/ LookupFails(r) \/ CreateOrderConflict(r)
           \/ CreateOrderFails(r) \/ CreateOrderTimeout(r)
  <2>1. PICK place : Goto(r, place) /\ Edge(co[r].at, place) /\ place # "abandonLock"
    BY <1>2 DEF ValidateActive, PlaceOrder, PlaceOrderResumes, HoldRequested, StockChecked,
       PreflightEmpty, LookupEmpty, LookupFails, CreateOrderConflict, CreateOrderFails,
       CreateOrderTimeout, At, Edge
  <2> QED BY <2>1, GotoGoes
<1>3. CASE LookupAgain(r) \/ FulfillTimeout(r) \/ ReleaseTimeout(r)
  BY <1>3, AgainGoes DEF LookupAgain, FulfillTimeout, ReleaseTimeout, Loops
<1>4. CASE HoldCreated(r)
  <2>1. Goto(r, "confirmLock") \/ Answer(r, "ok", None) BY <1>4 DEF HoldCreated
  <2>2. co[r].at = "createHold" BY <1>4 DEF HoldCreated, At
  <2> QED BY <2>1, <2>2, GotoGoes, AnswerGoes DEF Edge
<1>5. CASE LookupFound(r) \/ CreateOrder(r) \/ CreateOrderReplayed(r)
  <2>1. PICK place \in {"fulfill", "fulfillFound"} :
          /\ \E o : co' = [co EXCEPT ![r] = [Moved(r, place) EXCEPT !.got = o]]
          /\ Edge(co[r].at, place)
    BY <1>5 DEF LookupFound, CreateOrder, CreateOrderReplayed, OrderPlaced, At, Lookups, Edge
  <2> QED BY <2>1, FoundGoes
<1>6. CASE FulfillSucceeds(r) \/ FulfillGivesUp(r)
  <2>1. co[r].at # "done" BY <1>6 DEF FulfillSucceeds, FulfillGivesUp, Fulfills
  <2> QED BY <1>6, <2>1, AnswerGoes DEF FulfillSucceeds, FulfillGivesUp, Record, AnswerAsIs
<1> QED BY <1>1, <1>2, <1>3, <1>4, <1>5, <1>6 DEF Resume

(* Whose frame has changed has made the step. *)
LEMMA FrameStep ==
  ASSUME TypeOK, [Next]_vars, NEW r \in Requests, co'[r] # co[r]
  PROVE  (Arrive(r) \/ TakeLock(r) \/ Resume(r)) /\ Goes(r)
<1>1. PICK q \in Requests : Arrive(q) \/ TakeLock(q) \/ Resume(q)
  BY DEF Next, CreateSession, LateOrderTakesEffect, TtlElapses, Idle, vars
<1>2. Goes(q) BY <1>1, ArriveGoes, TakeLockGoes, ResumeGoes
<1>3. q = r BY <1>2 DEF Goes, TypeOK
<1> QED BY <1>1, <1>2, <1>3

LEMMA RequestsStay == [Next]_vars => req' = req
<1> SUFFICES ASSUME [Next]_vars PROVE req' = req
  OBVIOUS
<1>1. CASE \E r \in Requests : Arrive(r)
  BY <1>1 DEF Arrive, ArriveCart, ArriveCheckout, ArriveConfirm, ArriveAbandon
<1>2. CASE \E r \in Requests : TakeLock(r)
  BY <1>2 DEF TakeLock, HoldLocked, HoldTooLate, ConfirmReplay, ConfirmResumes,
     ConfirmFresh, ConfirmRefused, AbandonRefused, AbandonCreated, AbandonHeld
<1>3. CASE \E r \in Requests : Resume(r)
  BY <1>3, ZenonT(60) DEF Resume, RejectCart, ValidateActive, ValidateFails, PlaceOrderReplay,
     PlaceOrderRefused, PlaceOrderResumes, HoldRequested, HoldRefused, StockChecked, StockShort,
     HoldCreated, HoldCreateFails, LookupFound, LookupAgain, PreflightEmpty, LookupEmpty,
     LookupFails, StatusUnknown, StillUnknown, CreateOrder, CreateOrderReplayed,
     CreateOrderConflict, CreateOrderFails, CreateOrderTimeout, FulfillSucceeds, FulfillTimeout,
     FulfillGivesUp, ReleaseSucceeds, ReleaseTimeout, ReleaseGivesUp, ReplyUnreadable, Record,
     AnswerAsIs
<1>4. CASE \E r \in Requests : LateOrderTakesEffect(r) BY <1>4 DEF LateOrderTakesEffect
<1> QED BY <1>1, <1>2, <1>3, <1>4 DEF Next, CreateSession, TtlElapses, Idle, vars

-----------------------------------------------------------------------------
(* Every step counts *)

LEMMA StepsAreCounted ==
  ASSUME NEW f \in Frame
  PROVE  StepsLeft(f) \in Nat /\ (f.at # "done" => StepsLeft(f) > 0)
<1>1. MaxRetries \in Nat /\ f.tries \in 0..MaxRetries /\ f.at \in Places
  BY RetriesAssumption DEF Frame
<1>2. CASE f.at \in Fulfills \cup Releases \cup (Lookups \ {"preflight"})
  BY <1>1, <1>2 DEF StepsLeft, Attempts, Lookups, Fulfills, Releases
<1>3. CASE f.at \in {"idle", "refresh", "validate", "done", "holdLock", "confirmLock",
                    "abandonLock", "stock", "createHold", "createOrder", "preflight"}
  BY <1>1, <1>3 DEF StepsLeft, Attempts, Lookups, Fulfills, Releases
<1> QED BY <1>1, <1>2, <1>3 DEF Places, Waiting, InLock

LEMMA EdgeCounts ==
  ASSUME NEW old \in Frame, NEW new \in Frame, Edge(old.at, new.at), new.tries = 0
  PROVE  StepsLeft(new) < StepsLeft(old)
<1>1. MaxRetries \in Nat /\ old.tries \in 0..MaxRetries BY RetriesAssumption DEF Frame
<1>2. CASE new.at = "done" /\ old.at # "done"
  <2>1. StepsLeft(new) = 0 BY <1>2 DEF StepsLeft, Lookups, Fulfills, Releases
  <2> QED BY <1>2, <2>1, StepsAreCounted
<1>3. CASE old.at \in {"idle", "refresh", "validate", "holdLock", "stock", "createHold"}
  BY <1>1, <1>2, <1>3 DEF StepsLeft, Attempts, Edge, Lookups, Fulfills, Releases
<1>4. CASE old.at \in {"confirmLock", "preflight", "createOrder", "abandonLock"}
  BY <1>1, <1>2, <1>4 DEF StepsLeft, Attempts, Edge, Lookups, Fulfills, Releases
<1>5. CASE old.at \in {"lookup409", "lookupTimeout", "resolve"}
  BY <1>1, <1>2, <1>5 DEF StepsLeft, Attempts, Edge, Lookups, Fulfills, Releases
<1> QED BY <1>2, <1>3, <1>4, <1>5 DEF Edge

LEMMA AgainCounts ==
  ASSUME NEW old \in Frame, NEW new \in Frame, new.at = old.at, new.at \in Loops,
         new.tries = old.tries + 1
  PROVE  StepsLeft(new) < StepsLeft(old)
<1>1. /\ MaxRetries \in Nat
      /\ old.tries \in 0..MaxRetries /\ new.tries \in 0..MaxRetries
  BY RetriesAssumption DEF Frame
<1> QED BY <1>1 DEF StepsLeft, Attempts, Loops, Lookups, Fulfills, Releases

(* For every number of retries and whatever the upstreams do, each step a handler *)
(* makes leaves it fewer to make, from 2 * (MaxRetries + 1) + 8 at most to none.  *)
THEOREM NoHandlerCircles == Spec => EveryStepCounts
<1> DEFINE Step == \A r \in Requests :
                     co'[r] # co[r] => StepsLeft(co'[r]) \in 0..(StepsLeft(co[r]) - 1)
<1>1. TypeOK /\ [Next]_vars => Step
  <2> SUFFICES ASSUME TypeOK, [Next]_vars, NEW r \in Requests, co'[r] # co[r]
               PROVE  StepsLeft(co'[r]) \in 0..(StepsLeft(co[r]) - 1)
    OBVIOUS
  <2>1. co \in [Requests -> Frame] /\ co' \in [Requests -> Frame] BY NextTypeOK DEF TypeOK
  <2>2. PICK old \in Frame, new \in Frame : old = co[r] /\ new = co'[r] BY <2>1
  <2>3. \/ Edge(old.at, new.at) /\ new.tries = 0
        \/ new.at = old.at /\ new.at \in Loops /\ new.tries = old.tries + 1
    BY <2>1, <2>2, FrameStep DEF Goes
  <2>4. StepsLeft(new) < StepsLeft(old) BY <2>3, EdgeCounts, AgainCounts
  <2> QED BY <2>2, <2>4, StepsAreCounted
<1>2. EveryStepCounts <=> [][Step]_vars BY DEF EveryStepCounts
<1> HIDE DEF Step
<1> QED BY <1>1, <1>2, TypeCorrect, PTL DEF Spec
====
