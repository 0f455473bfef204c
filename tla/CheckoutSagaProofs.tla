---- MODULE CheckoutSagaProofs ----
(***************************************************************************)
(* Proofs about CheckoutSaga: its types; SagaInv, the inductive invariant  *)
(* that ties a coroutine's place to the session it works on; the safety    *)
(* properties that follow from it; and the refinement of SessionLifecycle. *)
(***************************************************************************)
EXTENDS CheckoutSaga, TLAPS

(* The names of the places a coroutine awaits at. *)
LEMMA PlaceNames ==
  {"idle", "refresh", "validate", "done", "holdLock", "confirmLock", "abandonLock",
   "stock", "createHold", "createOrder", "preflight", "lookup409", "lookupTimeout",
   "resolve", "fulfill", "fulfillFound", "retryFulfill", "cachedFulfill",
   "compensate", "abandonRelease"} \subseteq Places
  BY DEF Places, Waiting, InLock, Lookups, Fulfills, Releases

LEMMA NewFrameType == NewFrame \in Frame /\ NewSession \in SessionRec
<1>1. NewSession \in SessionRec BY DEF NewSession, SessionRec, States
<1>2. 0 \in 0..MaxRetries BY RetriesAssumption
<1> QED BY <1>1, <1>2, PlaceNames DEF NewFrame, Frame

LEMMA AnswerType ==
  ASSUME co \in [Requests -> Frame], NEW r \in Requests,
         NEW status \in {"ok", "failed", "unknown"}, NEW o \in OrderIds \cup {None},
         Answer(r, status, o)
  PROVE  co' \in [Requests -> Frame]
<1>1. [NewFrame EXCEPT !.at = "done", !.answer = status, !.got = o] \in Frame
  BY NewFrameType, PlaceNames DEF Frame
<1> QED BY <1>1 DEF Answer

LEMMA MovedType ==
  ASSUME co \in [Requests -> Frame], NEW r \in Requests, NEW place \in Places
  PROVE  Moved(r, place) \in Frame
<1>1. 0 \in 0..MaxRetries BY RetriesAssumption
<1> QED BY <1>1 DEF Moved, Frame

LEMMA LoadedType ==
  ASSUME co \in [Requests -> Frame], NEW r \in Requests, NEW place \in Places,
         NEW session \in SessionRec
  PROVE  Loaded(r, place, session) \in Frame
<1>1. session.order \in OrderIds \cup {None} BY DEF SessionRec
<1>2. Moved(r, place) \in Frame BY MovedType
<1>3. [Moved(r, place) EXCEPT !.snap = session, !.got = session.order] \in Frame
  BY <1>1, <1>2 DEF Frame
<1> QED BY <1>3 DEF Loaded

LEMMA LoadedFields ==
  ASSUME co \in [Requests -> Frame], NEW r \in Requests, NEW place \in Places,
         NEW session \in SessionRec, NEW f, f = Loaded(r, place, session)
  PROVE  /\ f.at = place /\ f.snap = session
         /\ f.got = session.order /\ f.answer = co[r].answer
<1>1. PICK m \in Frame : m = Moved(r, place) BY MovedType
<1>2. m.at = place /\ m.answer = co[r].answer BY <1>1 DEF Moved, Frame
<1>3. f = [m EXCEPT !.snap = session, !.got = session.order] BY <1>1 DEF Loaded
<1> QED BY <1>2, <1>3 DEF Frame

LEMMA FoundType ==
  ASSUME co \in [Requests -> Frame], NEW r \in Requests, NEW place \in Places,
         NEW o \in OrderIds
  PROVE  [Moved(r, place) EXCEPT !.got = o] \in Frame
<1>1. Moved(r, place) \in Frame BY MovedType
<1> QED BY <1>1 DEF Frame

LEMMA GotoType ==
  ASSUME co \in [Requests -> Frame], NEW r \in Requests, NEW place \in Places, Goto(r, place)
  PROVE  co' \in [Requests -> Frame]
  BY MovedType DEF Goto

LEMMA AgainType ==
  ASSUME co \in [Requests -> Frame], NEW r \in Requests, Again(r)
  PROVE  co' \in [Requests -> Frame]
<1>1. co[r] \in Frame /\ co[r].tries \in 0..MaxRetries /\ co[r].tries < MaxRetries
  BY DEF Again, Frame
<1>2. co[r].tries + 1 \in 0..MaxRetries BY <1>1, RetriesAssumption
<1>3. [co[r] EXCEPT !.tries = co[r].tries + 1] \in Frame BY <1>1, <1>2 DEF Frame
<1> QED BY <1>3 DEF Again

LEMMA EnterType ==
  ASSUME TypeOK, NEW r \in Requests, NEW place \in Places, Enter(r, place)
  PROVE  /\ co' \in [Requests -> Frame]
         /\ lock' \in [Sessions -> Requests \cup {None}]
<1>1. Session(r) \in SessionRec BY DEF TypeOK, Session, S
<1>2. Loaded(r, place, Session(r)) \in Frame BY <1>1, LoadedType DEF TypeOK
<1> QED BY <1>2 DEF Enter, TypeOK, S

LEMMA SaveType ==
  ASSUME sess \in [Sessions -> SessionRec], NEW s \in Sessions, NEW session \in SessionRec,
         Save(s, session)
  PROVE  sess' \in [Sessions -> SessionRec]
  BY DEF Save

LEMMA RememberType ==
  ASSUME idem \in [Sessions -> [Keys -> CacheRec]], NEW s \in Sessions, NEW k \in Keys,
         NEW o \in OrderIds \cup {None}, NEW state \in States, Remember(s, k, o, state)
  PROVE  idem' \in [Sessions -> [Keys -> CacheRec]]
  BY DEF Remember, CacheRec

LEMMA HoldType ==
  ASSUME hold \in [HoldIds -> HoldRec], elapsed \subseteq HoldIds, NEW h,
         Fulfill(h) \/ Release(h) \/ (h \in HoldIds /\ \E s \in Sessions : Reserve(h, s))
  PROVE  hold' \in [HoldIds -> HoldRec] /\ elapsed' \subseteq HoldIds
<1>1. CASE Fulfill(h) BY <1>1 DEF Fulfill, HoldRec
<1>2. CASE Release(h) BY <1>2 DEF Release, HoldRec
<1>3. CASE h \in HoldIds /\ \E s \in Sessions : Reserve(h, s) BY <1>3 DEF Reserve, HoldRec
<1> QED BY <1>1, <1>2, <1>3

LEMMA CommitType ==
  ASSUME order \in [OrderIds -> OrderRec], NEW o \in OrderIds, NEW s \in Sessions,
         NEW k \in Keys, Commit(o, s, k)
  PROVE  order' \in [OrderIds -> OrderRec]
  BY DEF Commit, OrderRec

LEMMA RequestType ==
  ASSUME TypeOK, NEW r \in Requests
  PROVE  /\ S(r) \in Sessions
         /\ K(r) \in Keys
         /\ Session(r) \in SessionRec
         /\ co[r] \in Frame
         /\ co[r].snap \in SessionRec
         /\ co[r].got \in OrderIds \cup {None}
  BY DEF TypeOK, S, K, Session, Frame

LEMMA FromCacheType ==
  ASSUME TypeOK, NEW r \in Requests, NEW stale
  PROVE  FromCache(r, Session(r), stale) \in SessionRec
<1>1. idem[S(r)][K(r)] \in CacheRec BY RequestType DEF TypeOK
<1>2. Session(r) \in SessionRec BY RequestType
<1> QED BY <1>1, <1>2 DEF FromCache, CacheRec, SessionRec

LEMMA OpenedType ==
  ASSUME sess \in [Sessions -> SessionRec], NEW s \in Sessions
  PROVE  [sess[s] EXCEPT !.state = "CREATED"] \in SessionRec
<1>1. sess[s] \in SessionRec OBVIOUS
<1>2. "CREATED" \in States BY DEF States
<1> QED BY <1>1, <1>2 DEF SessionRec

(* Every action keeps the types; one step per group of actions. *)
LEMMA ArriveTypeOK ==
  ASSUME TypeOK, NEW r \in Requests, Arrive(r)
  PROVE  TypeOK'
<1> USE RequestType, PlaceNames
<1>1. CASE ArriveCart(r) BY <1>1, GotoType DEF ArriveCart, TypeOK, stores, ihms, ecops
<1>2. CASE ArriveConfirm(r)
  <2>1. Loaded(r, "validate", Session(r)) \in Frame BY LoadedType DEF TypeOK
  <2>2. Moved(r, "confirmLock") \in Frame BY MovedType DEF TypeOK
  <2> QED BY <1>2, <2>1, <2>2 DEF ArriveConfirm, TypeOK, stores, ihms, ecops
<1>3. CASE ArriveAbandon(r) BY <1>3, GotoType DEF ArriveAbandon, TypeOK, stores, ihms, ecops
<1>4. CASE ArriveCheckout(r)
  <2>1. [Session(r) EXCEPT !.state = "CREATED"] \in SessionRec BY OpenedType DEF TypeOK, Session
  <2>2. sess' \in [Sessions -> SessionRec] BY <1>4, <2>1, SaveType DEF ArriveCheckout, TypeOK
  <2> QED BY <1>4, <2>2, GotoType DEF ArriveCheckout, TypeOK, ihms, ecops
<1> QED BY <1>1, <1>2, <1>3, <1>4 DEF Arrive

LEMMA TakeLockTypeOK ==
  ASSUME TypeOK, NEW r \in Requests, TakeLock(r)
  PROVE  TypeOK'
<1> USE RequestType, PlaceNames DEF stores, ihms, ecops
<1>1. CASE HoldLocked(r) BY <1>1, EnterType DEF HoldLocked, TypeOK
<1>2. CASE HoldTooLate(r) BY <1>2, AnswerType DEF HoldTooLate, TypeOK
<1>3. CASE ConfirmReplay(r) 
  <2> DEFINE session == FromCache(r, Session(r), {"HELD", "FULFILL_PENDING"})
             place == IF session.state = "FULFILL_PENDING" THEN "retryFulfill" ELSE "cachedFulfill"
  <2>1. session \in SessionRec BY FromCacheType
  <2>2. place \in Places BY PlaceNames
  <2>3. Loaded(r, place, session) \in Frame BY <2>1, <2>2, LoadedType DEF TypeOK
  <2>4. sess' \in [Sessions -> SessionRec] BY <1>3, <2>1, SaveType DEF ConfirmReplay, TypeOK
  <2> QED BY <1>3, <2>3, <2>4 DEF ConfirmReplay, TypeOK
<1>4. CASE ConfirmResumes(r) BY <1>4, EnterType DEF ConfirmResumes, TypeOK
<1>6. CASE ConfirmFresh(r) BY <1>6, EnterType DEF ConfirmFresh, TypeOK
<1>7. CASE ConfirmRefused(r) BY <1>7, AnswerType DEF ConfirmRefused, TypeOK
<1>8. CASE AbandonRefused(r) BY <1>8, AnswerType DEF AbandonRefused, TypeOK
<1>9. CASE AbandonCreated(r) BY <1>9, AnswerType, SaveType DEF AbandonCreated, TypeOK, SessionRec, States
<1>10. CASE AbandonHeld(r) BY <1>10, EnterType DEF AbandonHeld, TypeOK
<1> QED BY <1>1, <1>2, <1>3, <1>4, <1>6, <1>7, <1>8, <1>9, <1>10 DEF TakeLock

(* The lock is only ever freed or taken by a request. *)
LEMMA UnlockType ==
  ASSUME lock \in [Sessions -> Requests \cup {None}], NEW r \in Requests, Unlock(r)
  PROVE  lock' \in [Sessions -> Requests \cup {None}]
  BY DEF Unlock

LEMMA RecordType ==
  ASSUME TypeOK, NEW r \in Requests, NEW state \in States, Record(r, state)
  PROVE  /\ sess' \in [Sessions -> SessionRec]
         /\ idem' \in [Sessions -> [Keys -> CacheRec]]
         /\ co' \in [Requests -> Frame]
         /\ lock' \in [Sessions -> Requests \cup {None}]
         /\ UNCHANGED <<req, order, late>>
<1> USE RequestType
<1>1. [co[r].snap EXCEPT !.state = state, !.order = co[r].got, !.key = K(r)] \in SessionRec
  BY DEF SessionRec
<1>2. sess' \in [Sessions -> SessionRec] BY <1>1, SaveType DEF Record, TypeOK
<1>3. idem' \in [Sessions -> [Keys -> CacheRec]] BY RememberType DEF Record, TypeOK
<1>4. co' \in [Requests -> Frame] BY AnswerType DEF Record, TypeOK
<1>5. lock' \in [Sessions -> Requests \cup {None}] BY UnlockType DEF Record, TypeOK
<1> QED BY <1>2, <1>3, <1>4, <1>5 DEF Record, ecops

LEMMA AnswerAsIsType ==
  ASSUME TypeOK, NEW r \in Requests, AnswerAsIs(r)
  PROVE  /\ co' \in [Requests -> Frame]
         /\ lock' \in [Sessions -> Requests \cup {None}]
         /\ UNCHANGED <<sess, idem, req, order, late>>
<1>1. co' \in [Requests -> Frame] BY AnswerType, RequestType DEF AnswerAsIs, TypeOK
<1>2. lock' \in [Sessions -> Requests \cup {None}] BY UnlockType DEF AnswerAsIs, TypeOK
<1> QED BY <1>1, <1>2 DEF AnswerAsIs, ecops

LEMMA ResumeTypeOK ==
  ASSUME TypeOK, NEW r \in Requests, Resume(r)
  PROVE  TypeOK'
<1> USE RequestType, PlaceNames DEF stores, ihms, ecops
<1>1. CASE ValidateActive(r) BY <1>1, GotoType DEF ValidateActive, TypeOK
<1>2. CASE PlaceOrderResumes(r) BY <1>2, GotoType DEF PlaceOrderResumes, TypeOK
<1>3. CASE HoldRequested(r) BY <1>3, GotoType DEF HoldRequested, TypeOK
<1>4. CASE StockChecked(r) BY <1>4, GotoType DEF StockChecked, TypeOK
<1>5. CASE PreflightEmpty(r) BY <1>5, GotoType DEF PreflightEmpty, TypeOK
<1>6. CASE LookupEmpty(r) BY <1>6, GotoType DEF LookupEmpty, TypeOK
<1>7. CASE LookupFails(r) BY <1>7, GotoType DEF LookupFails, TypeOK
<1>8. CASE CreateOrderConflict(r) BY <1>8, GotoType DEF CreateOrderConflict, TypeOK
<1>9. CASE RejectCart(r) BY <1>9, AnswerType, UnlockType DEF RejectCart, TypeOK
<1>10. CASE ValidateFails(r) BY <1>10, AnswerType, UnlockType DEF ValidateFails, TypeOK
<1>11. CASE PlaceOrderRefused(r) BY <1>11, AnswerType, UnlockType DEF PlaceOrderRefused, TypeOK
<1>12. CASE HoldRefused(r) BY <1>12, AnswerType, UnlockType DEF HoldRefused, TypeOK
<1>13. CASE StockShort(r) BY <1>13, AnswerType, UnlockType DEF StockShort, TypeOK
<1>14. CASE StillUnknown(r) BY <1>14, AnswerType, UnlockType DEF StillUnknown, TypeOK
<1>15. CASE LookupAgain(r) BY <1>15, AgainType DEF LookupAgain, TypeOK
<1>16. CASE PlaceOrderReplay(r)
  <2>1. FromCache(r, Session(r), {"CREATED", "HELD", "FULFILL_PENDING"}) \in SessionRec
    BY FromCacheType
  <2>2. idem[S(r)][K(r)].order \in OrderIds \cup {None} BY DEF TypeOK, CacheRec
  <2> QED BY <1>16, <2>1, <2>2, SaveType, AnswerType DEF PlaceOrderReplay, TypeOK
<1>17. CASE HoldCreated(r)
  <2>1. PICK h \in HoldIds : Reserve(h, S(r)) /\ Save(S(r), [co[r].snap EXCEPT !.state = "HELD", !.hold = h])
    BY <1>17 DEF HoldCreated
  <2>2. [co[r].snap EXCEPT !.state = "HELD", !.hold = h] \in SessionRec BY DEF SessionRec, States
  <2>3. sess' \in [Sessions -> SessionRec] BY <2>1, <2>2, SaveType DEF TypeOK
  <2>4. hold' \in [HoldIds -> HoldRec] /\ elapsed' \subseteq HoldIds BY <2>1, HoldType DEF TypeOK
  <2>5. co' \in [Requests -> Frame] BY <1>17, AnswerType, GotoType DEF HoldCreated, TypeOK
  <2>6. lock' \in [Sessions -> Requests \cup {None}] BY <1>17, UnlockType DEF HoldCreated, TypeOK
  <2> QED BY <1>17, <2>3, <2>4, <2>5, <2>6 DEF HoldCreated, TypeOK
<1>18. CASE HoldCreateFails(r)
  <2>1. hold' \in [HoldIds -> HoldRec] /\ elapsed' \subseteq HoldIds
    BY <1>18, HoldType DEF HoldCreateFails, TypeOK
  <2> QED BY <1>18, <2>1, AnswerType, UnlockType DEF HoldCreateFails, TypeOK
<1>19. CASE LookupFound(r)
  <2>1. PICK o \in OrderIds : co' = [co EXCEPT ![r] = [Moved(r, "fulfillFound") EXCEPT !.got = o]]
    BY <1>19 DEF LookupFound, Listed
  <2>2. [Moved(r, "fulfillFound") EXCEPT !.got = o] \in Frame BY FoundType DEF TypeOK
  <2> QED BY <1>19, <2>1, <2>2 DEF LookupFound, TypeOK
<1>20. CASE StatusUnknown(r)
  <2>1. [co[r].snap EXCEPT !.key = K(r)] \in SessionRec BY DEF SessionRec
  <2> QED BY <1>20, <2>1, SaveType, AnswerType, UnlockType DEF StatusUnknown, TypeOK
<1>21. CASE CreateOrder(r)
  <2>1. PICK o \in OrderIds : Commit(o, S(r), K(r)) /\ OrderPlaced(r, o) BY <1>21 DEF CreateOrder
  <2>2. [Moved(r, "fulfill") EXCEPT !.got = o] \in Frame BY FoundType DEF TypeOK
  <2>3. order' \in [OrderIds -> OrderRec] BY <2>1, CommitType DEF TypeOK
  <2> QED BY <1>21, <2>1, <2>2, <2>3 DEF CreateOrder, OrderPlaced, Commit, TypeOK
<1>22. CASE CreateOrderReplayed(r)
  <2>1. PICK o \in OrderIds : OrderPlaced(r, o) BY <1>22 DEF CreateOrderReplayed, OrdersOf
  <2>2. [Moved(r, "fulfill") EXCEPT !.got = o] \in Frame BY FoundType DEF TypeOK
  <2> QED BY <1>22, <2>1, <2>2 DEF CreateOrderReplayed, OrderPlaced, TypeOK
<1>23. CASE CreateOrderFails(r)
  <2>1. order' \in [OrderIds -> OrderRec] /\ late' = late
    BY <1>23, CommitType DEF CreateOrderFails, Commit, TypeOK
  <2> QED BY <1>23, <2>1, GotoType DEF CreateOrderFails, TypeOK
<1>24. CASE CreateOrderTimeout(r)
  <2>1. order' \in [OrderIds -> OrderRec] /\ late' \subseteq Requests
    BY <1>24, CommitType DEF CreateOrderTimeout, Commit, TypeOK
  <2> QED BY <1>24, <2>1, GotoType DEF CreateOrderTimeout, TypeOK
<1>25. CASE FulfillSucceeds(r)
  <2>1. hold' \in [HoldIds -> HoldRec] /\ elapsed' \subseteq HoldIds
    BY <1>25, HoldType DEF FulfillSucceeds, TypeOK
  <2> QED BY <1>25, <2>1, RecordType, AnswerAsIsType DEF FulfillSucceeds, TypeOK, States
<1>26. CASE FulfillGivesUp(r)
  <2>1. hold' \in [HoldIds -> HoldRec] /\ elapsed' \subseteq HoldIds
    BY <1>26, HoldType DEF FulfillGivesUp, TypeOK
  <2> QED BY <1>26, <2>1, RecordType, AnswerAsIsType DEF FulfillGivesUp, TypeOK, States
<1>27. CASE FulfillTimeout(r)
  <2>1. hold' \in [HoldIds -> HoldRec] /\ elapsed' \subseteq HoldIds
    BY <1>27, HoldType DEF FulfillTimeout, TypeOK
  <2> QED BY <1>27, <2>1, AgainType DEF FulfillTimeout, TypeOK
<1>28. CASE ReleaseTimeout(r)
  <2>1. hold' \in [HoldIds -> HoldRec] /\ elapsed' \subseteq HoldIds
    BY <1>28, HoldType DEF ReleaseTimeout, TypeOK
  <2> QED BY <1>28, <2>1, AgainType DEF ReleaseTimeout, TypeOK
<1>29. CASE ReleaseSucceeds(r)
  <2>1. hold' \in [HoldIds -> HoldRec] /\ elapsed' \subseteq HoldIds
    BY <1>29, HoldType DEF ReleaseSucceeds, TypeOK
  <2>2. Compensated(co[r].snap) \in SessionRec /\ Abandoned(co[r].snap) \in SessionRec
    BY DEF Compensated, Abandoned, SessionRec, States
  <2>3. sess' \in [Sessions -> SessionRec] BY <1>29, <2>2, SaveType DEF ReleaseSucceeds, TypeOK
  <2> QED BY <1>29, <2>1, <2>3, AnswerType, UnlockType DEF ReleaseSucceeds, TypeOK
<1>30. CASE ReleaseGivesUp(r)
  <2>1. hold' \in [HoldIds -> HoldRec] /\ elapsed' \subseteq HoldIds
    BY <1>30, HoldType DEF ReleaseGivesUp, TypeOK
  <2> QED BY <1>30, <2>1, AnswerType, UnlockType DEF ReleaseGivesUp, TypeOK
<1>31. CASE ReplyUnreadable(r)
  <2>1. hold' \in [HoldIds -> HoldRec] /\ elapsed' \subseteq HoldIds
    BY <1>31, HoldType DEF ReplyUnreadable, TypeOK
  <2>2. order' \in [OrderIds -> OrderRec] /\ late' \subseteq Requests
    BY <1>31, CommitType DEF ReplyUnreadable, Commit, TypeOK
  <2> QED BY <1>31, <2>1, <2>2, AnswerType, UnlockType DEF ReplyUnreadable, TypeOK
<1> QED BY <1>1, <1>2, <1>3, <1>4, <1>5, <1>6, <1>7, <1>8, <1>9, <1>10, <1>11, <1>12, <1>13, <1>14, <1>15,
  <1>16, <1>17, <1>18, <1>19, <1>20, <1>21, <1>22, <1>23, <1>24, <1>25, <1>26, <1>27, <1>28, <1>29, <1>30, <1>31 DEF Resume

LEMMA NextTypeOK == TypeOK /\ [Next]_vars => TypeOK'
<1> SUFFICES ASSUME TypeOK, [Next]_vars PROVE TypeOK'
  OBVIOUS
<1> USE DEF stores, ihms, ecops
<1>1. CASE \E s \in Sessions : CreateSession(s)
  <2>1. PICK s \in Sessions : CreateSession(s) BY <1>1
  <2>2. [sess[s] EXCEPT !.state = "CREATED"] \in SessionRec BY OpenedType DEF TypeOK
  <2> QED BY <2>1, <2>2, SaveType DEF CreateSession, TypeOK
<1>2. CASE \E r \in Requests : Arrive(r) BY <1>2, ArriveTypeOK
<1>3. CASE \E r \in Requests : TakeLock(r) BY <1>3, TakeLockTypeOK
<1>4. CASE \E r \in Requests : Resume(r) BY <1>4, ResumeTypeOK
<1>5. CASE \E r \in Requests : LateOrderTakesEffect(r)
  <2>1. PICK r \in Requests : LateOrderTakesEffect(r) BY <1>5
  <2>2. order' \in [OrderIds -> OrderRec]
    BY <2>1, RequestType DEF LateOrderTakesEffect, TypeOK, OrderRec
  <2> QED BY <2>1, <2>2 DEF LateOrderTakesEffect, TypeOK
<1>6. CASE \E h \in HoldIds : TtlElapses(h)
  <2>1. PICK h \in HoldIds : TtlElapses(h) BY <1>6
  <2>2. hold' \in [HoldIds -> HoldRec] BY <2>1 DEF TtlElapses, TypeOK, HoldRec
  <2> QED BY <2>1, <2>2 DEF TtlElapses, TypeOK
<1>7. CASE UNCHANGED vars BY <1>7 DEF vars, TypeOK
<1> QED BY <1>1, <1>2, <1>3, <1>4, <1>5, <1>6, <1>7 DEF Next, Idle

LEMMA InitTypeOK == Init => TypeOK
<1> SUFFICES ASSUME Init PROVE TypeOK
  OBVIOUS
<1>1. NoRecord \in CacheRec BY DEF NoRecord, CacheRec, States
<1>2. NoOrder \in OrderRec BY DEF NoOrder, OrderRec
<1>3. [status |-> "none", owner |-> None] \in HoldRec BY DEF HoldRec
<1> QED BY <1>1, <1>2, <1>3, NewFrameType DEF Init, TypeOK

(* Type correctness of every state the saga can reach. *)
THEOREM TypeCorrect == Spec => []TypeOK
  BY InitTypeOK, NextTypeOK, PTL DEF Spec

-----------------------------------------------------------------------------
(* The inductive invariant.  A step touches one request and at most its own  *)
(* session, so it is one of three kinds, each with a lemma: it leaves the    *)
(* stores alone; it works under the session's lock; or it is of EC-OPS or    *)
(* KB-IHMS.  An action then only has to show which kind it is, and that the  *)
(* new frame and session fit each other.                                     *)

(* EC-OPS forgets no order. *)
OrdersKept == \A o \in OrderIds : Placed(o) => order'[o] = order[o]

LEMMA OrdersAreListed ==
  ASSUME NEW s \in Sessions
  PROVE  OrdersOf(s) \subseteq Listed(s)
  BY NoneAssumption DEF OrdersOf, Listed, Placed

LEMMA OrdersKeptIn ==
  ASSUME TypeOK, OrdersKept, NEW s \in Sessions, NEW o \in Listed(s)
  PROVE  o \in Listed(s)'
  BY DEF OrdersKept, Listed, Placed

LEMMA EnvironmentStep ==
  ASSUME SagaInv, TypeOK', UNCHANGED <<sess, lock, idem, req, co>>, OrdersKept
  PROVE  SagaInv'
<1> USE DEF SagaInv, S, K, Session
<1>1. LockOwned' /\ SnapshotCurrent' /\ AnswerStands' BY DEF LockOwned, SnapshotCurrent, AnswerStands, AnswerFits
<1>2. SessionShape' /\ CacheAgrees' BY DEF SessionShape, ShapeOf, CacheAgrees, CacheOf
<1>3. PlaceState' BY OrdersKeptIn, RequestType DEF PlaceState, PlaceFits
<1>4. FinishedListed' BY OrdersKeptIn DEF FinishedListed
<1> QED BY <1>1, <1>2, <1>3, <1>4

LEMMA QuietStep ==
  ASSUME SagaInv, TypeOK', NEW r \in Requests, NEW f \in Frame,
         UNCHANGED <<sess, lock, idem, req>>, OrdersKept,
         co' = [co EXCEPT ![r] = f],
         co[r].at \in InLock <=> f.at \in InLock,
         f.at \in InLock => f.snap = co[r].snap,
         PlaceFits(r, f, Session(r))',
         AnswerFits(f, Session(r))
  PROVE  SagaInv'
<1> USE DEF SagaInv, S, K, Session
<1>0. co'[r] = f /\ \A q \in Requests \ {r} : co'[q] = co[q] BY DEF TypeOK
<1>1. LockOwned' BY <1>0 DEF LockOwned
<1>2. SnapshotCurrent' BY <1>0 DEF SnapshotCurrent
<1>3. AnswerStands' BY <1>0 DEF AnswerStands, AnswerFits
<1>4. SessionShape' /\ CacheAgrees' BY DEF SessionShape, ShapeOf, CacheAgrees, CacheOf
<1>5. PlaceState' BY <1>0, OrdersKeptIn, RequestType DEF PlaceState, PlaceFits
<1>6. FinishedListed' BY OrdersKeptIn DEF FinishedListed
<1> QED BY <1>1, <1>2, <1>3, <1>4, <1>5, <1>6

LEMMA LockedStep ==
  ASSUME SagaInv, TypeOK', NEW r \in Requests, NEW f \in Frame, NEW new \in SessionRec,
         UNCHANGED req, OrdersKept,
         lock[S(r)] \in {None, r},
         lock' = [lock EXCEPT ![S(r)] = IF f.at \in InLock THEN r ELSE None],
         co' = [co EXCEPT ![r] = f],
         sess' = [sess EXCEPT ![S(r)] = new],
         idem' = [idem EXCEPT ![S(r)] = CacheOf(new)],
         f.at \in InLock => f.snap = new,
         new.state # "absent",
         ShapeOf(new),
         PlaceFits(r, f, new)',
         new.state \in Finished => new.order \in Listed(S(r))',
         Session(r).state \in Finished =>
           new.state \in Finished /\ new.order = Session(r).order,
         AnswerFits(f, new)
  PROVE  SagaInv'
<1> DEFINE s == S(r)
<1> USE DEF SagaInv, S, K, Session
<1>1. s \in Sessions /\ s' = s BY RequestType
<1>2. co'[r] = f /\ \A q \in Requests \ {r} : co'[q] = co[q] BY DEF TypeOK
<1>3. sess'[s] = new /\ \A u \in Sessions \ {s} : sess'[u] = sess[u] BY <1>1 DEF TypeOK
<1>4. \A q \in Requests \ {r} : S(q) = s => co[q].at \notin InLock
  BY <1>1, NoneAssumption DEF LockOwned
<1>5. LockOwned'
  BY <1>1, <1>2, <1>4, NoneAssumption DEF LockOwned, TypeOK
<1>6. SnapshotCurrent' BY <1>1, <1>2, <1>3, <1>4, RequestType DEF SnapshotCurrent
<1>7. SessionShape' BY <1>1, <1>3 DEF SessionShape, ShapeOf
<1>8. CacheAgrees'
  <2>1. idem'[s] = CacheOf(new) /\ \A u \in Sessions \ {s} : idem'[u] = idem[u]
    BY <1>1 DEF TypeOK
  <2> QED BY <2>1, <1>1, <1>3 DEF CacheAgrees
<1>9. PlaceState'
  <2> SUFFICES ASSUME NEW q \in Requests PROVE PlaceFits(q, co[q], Session(q))'
    BY DEF PlaceState
  <2>1. CASE q = r BY <2>1, <1>1, <1>2, <1>3 DEF PlaceFits
  <2>2. CASE q # r /\ S(q) = s
    BY <2>2, <1>1, <1>2, <1>3, <1>4 DEF PlaceState, PlaceFits, InLock, Unsold, Fulfills, Lookups, Releases
  <2>3. CASE q # r /\ S(q) # s
    BY <2>3, <1>1, <1>2, <1>3, OrdersKeptIn, RequestType DEF PlaceState, PlaceFits
  <2> QED BY <2>1, <2>2, <2>3
<1>10. FinishedListed' BY <1>1, <1>3, OrdersKeptIn DEF FinishedListed
<1>11. AnswerStands'
  BY <1>1, <1>2, <1>3, RequestType DEF AnswerStands, AnswerFits
<1> QED BY <1>5, <1>6, <1>7, <1>8, <1>9, <1>10, <1>11

(* What the holder of a lock knows. *)
LEMMA Holding ==
  ASSUME SagaInv, NEW r \in Requests, co[r].at \in InLock
  PROVE  /\ lock[S(r)] = r
         /\ co[r].snap = Session(r)
         /\ PlaceFits(r, co[r], Session(r))
         /\ ShapeOf(Session(r))
  BY RequestType DEF SagaInv, LockOwned, SnapshotCurrent, PlaceState, SessionShape, Session

LEMMA PlaceFitsKept ==
  ASSUME SagaInv, TypeOK', UNCHANGED req, OrdersKept, NEW r \in Requests, NEW f \in Frame,
         NEW session \in SessionRec, PlaceFits(r, f, session)
  PROVE  PlaceFits(r, f, session)'
  BY OrdersKeptIn, RequestType DEF PlaceFits, SagaInv, S, K

(* A coroutine that is answered without having the lock. *)
LEMMA QuietAnswer ==
  ASSUME SagaInv, TypeOK', NEW r \in Requests, co[r].at \notin InLock, ~At(r, "idle"),
         NEW status \in {"ok", "failed"}, NEW o \in OrderIds \cup {None},
         Answer(r, status, o),
         status = "ok" /\ o # None => Session(r).state \in Finished /\ Session(r).order = o,
         UNCHANGED <<sess, lock, idem, req, order>>
  PROVE  SagaInv'
<1> DEFINE f == [NewFrame EXCEPT !.at = "done", !.answer = status, !.got = o]
<1> USE DEF SagaInv
<1>1. f \in Frame BY NewFrameType, PlaceNames DEF Frame
<1>2. f.at = "done" /\ f.answer = status /\ f.got = o BY DEF NewFrame
<1>3. "done" \notin InLock BY DEF InLock, Lookups, Fulfills, Releases
<1>4. OrdersKept BY DEF OrdersKept
<1>5. Session(r).state # "absent" BY DEF PlaceState, PlaceFits, At
<1>6. PlaceFits(r, f, Session(r)) BY <1>2, <1>5 DEF PlaceFits, Unsold, Fulfills
<1>7. PlaceFits(r, f, Session(r))' BY <1>1, <1>4, <1>6, RequestType, PlaceFitsKept DEF Session, S
<1>8. AnswerFits(f, Session(r)) BY <1>2 DEF AnswerFits
<1>9. co' = [co EXCEPT ![r] = f] BY DEF Answer
<1> HIDE DEF f
<1> QED BY <1>1, <1>2, <1>3, <1>4, <1>7, <1>8, <1>9, QuietStep

LEMMA Unanswered ==
  ASSUME SagaInv, NEW r \in Requests, ~At(r, "done")
  PROVE  co[r].answer = "none" /\ PlaceFits(r, co[r], Session(r))
  BY DEF SagaInv, PlaceState, PlaceFits, At

(* A coroutine that goes on to another await, with or without the lock. *)
LEMMA GotoStep ==
  ASSUME SagaInv, TypeOK', NEW r \in Requests, ~At(r, "done"),
         NEW place \in Places \ {"done"}, Goto(r, place),
         co[r].at \in InLock <=> place \in InLock,
         PlaceFits(r, Moved(r, place), Session(r)),
         UNCHANGED <<sess, lock, idem, req>>, OrdersKept
  PROVE  SagaInv'
<1>1. PICK f \in Frame : f = Moved(r, place) BY MovedType DEF SagaInv, TypeOK
<1>2. f.at = place /\ f.snap = co[r].snap /\ f.answer = "none"
  BY <1>1, Unanswered, RequestType DEF SagaInv, Moved, Frame
<1>3. PlaceFits(r, f, Session(r))' BY <1>1, PlaceFitsKept, RequestType DEF SagaInv, Session, S
<1>4. AnswerFits(f, Session(r)) BY <1>2 DEF AnswerFits
<1>5. co' = [co EXCEPT ![r] = f] BY <1>1 DEF Goto
<1> QED BY <1>1, <1>2, <1>3, <1>4, <1>5, QuietStep

(* A failed attempt of a retry loop. *)
LEMMA AgainStep ==
  ASSUME SagaInv, TypeOK', NEW r \in Requests, co[r].at \in InLock, Again(r),
         UNCHANGED <<sess, lock, idem, req>>, OrdersKept
  PROVE  SagaInv'
<1>1. co[r] \in Frame BY RequestType DEF SagaInv
<1>2. co' = [co EXCEPT ![r] = [co[r] EXCEPT !.tries = co[r].tries + 1]] BY DEF Again
<1>3. PICK f \in Frame : f = [co[r] EXCEPT !.tries = co[r].tries + 1]
  BY <1>2 DEF SagaInv, TypeOK
<1>4. f.at = co[r].at /\ f.snap = co[r].snap /\ f.got = co[r].got /\ f.answer = co[r].answer
  BY <1>1, <1>3 DEF Frame
<1>5. ~At(r, "done") BY DEF At, InLock, Lookups, Fulfills, Releases
<1>6. PlaceFits(r, f, Session(r)) BY <1>4, <1>5, Unanswered DEF PlaceFits
<1>7. PlaceFits(r, f, Session(r))' BY <1>3, <1>6, PlaceFitsKept, RequestType DEF SagaInv, Session, S
<1>8. AnswerFits(f, Session(r)) BY <1>4, <1>5, Unanswered DEF AnswerFits
<1> QED BY <1>2, <1>3, <1>4, <1>7, <1>8, QuietStep

(* The order was found or made: on to fulfil with it. *)
LEMMA FoundStep ==
  ASSUME SagaInv, TypeOK', NEW r \in Requests, co[r].at \in InLock,
         NEW place \in {"fulfill", "fulfillFound"}, NEW o \in OrderIds,
         co' = [co EXCEPT ![r] = [Moved(r, place) EXCEPT !.got = o]],
         o \in Listed(S(r))',
         Session(r).state = "HELD",
         place = "fulfill" => Session(r).key = None,
         Session(r).key \in {None, K(r)},
         UNCHANGED <<sess, lock, idem, req>>, OrdersKept
  PROVE  SagaInv'
<1>1. PICK f \in Frame : f = [Moved(r, place) EXCEPT !.got = o]
  BY FoundType, PlaceNames DEF SagaInv, TypeOK
<1>2. ~At(r, "done") BY DEF At, InLock, Lookups, Fulfills, Releases
<1>3. f.at = place /\ f.snap = co[r].snap /\ f.got = o /\ f.answer = "none"
  BY <1>1, <1>2, Unanswered, RequestType DEF SagaInv, Moved, Frame
<1>4. Session(r)' = Session(r) /\ K(r)' = K(r) BY DEF Session, S, K
<1>5. PlaceFits(r, f, Session(r))' BY <1>3, <1>4 DEF PlaceFits, Unsold, Fulfills
<1>6. AnswerFits(f, Session(r)) BY <1>3 DEF AnswerFits
<1>7. f.at \in InLock BY <1>3 DEF InLock, Fulfills
<1> QED BY <1>1, <1>3, <1>5, <1>6, <1>7, QuietStep

(* A coroutine that takes its session's lock, the session as it is. *)
LEMMA EnterStep ==
  ASSUME SagaInv, TypeOK', NEW r \in Requests, ~At(r, "done"), Free(r),
         NEW place \in InLock, Enter(r, place),
         Session(r).state # "absent",
         PlaceFits(r, Loaded(r, place, Session(r)), Session(r)),
         UNCHANGED <<sess, idem, req, order>>
  PROVE  SagaInv'
<1>0. TypeOK /\ S(r) \in Sessions /\ Session(r) \in SessionRec /\ S(r)' = S(r)
  BY RequestType DEF SagaInv, S
<1>1. place \in Places /\ place # "done"
  BY DEF Places, InLock, Lookups, Fulfills, Releases
<1>2. PICK new \in SessionRec : new = Session(r) BY <1>0
<1>3. PICK f \in Frame : f = Loaded(r, place, new) BY <1>0, <1>1, LoadedType DEF TypeOK
<1>4. co[r].answer = "none" BY Unanswered
<1>5. f.at = place /\ f.snap = new /\ f.answer = "none"
  BY <1>0, <1>1, <1>3, <1>4, LoadedFields DEF TypeOK
<1>6. sess' = [sess EXCEPT ![S(r)] = new] BY <1>0, <1>2 DEF TypeOK, Session
<1>7. idem' = [idem EXCEPT ![S(r)] = CacheOf(new)]
  BY <1>0, <1>2 DEF SagaInv, TypeOK, CacheAgrees, Session
<1>8. OrdersKept BY DEF OrdersKept
<1>9. PlaceFits(r, f, new)' BY <1>2, <1>3, <1>8, PlaceFitsKept
<1>10. ShapeOf(new) BY <1>0, <1>2 DEF SagaInv, SessionShape, Session
<1>11. new.state \in Finished => new.order \in Listed(S(r))'
  <2> SUFFICES ASSUME new.state \in Finished PROVE new.order \in Listed(S(r))'
    OBVIOUS
  <2>1. new.order \in Listed(S(r)) BY <1>0, <1>2 DEF SagaInv, FinishedListed, Session
  <2> QED BY <2>1, <1>0, <1>8, OrdersKeptIn
<1>12. AnswerFits(f, new) BY <1>5 DEF AnswerFits
<1>13. /\ co' = [co EXCEPT ![r] = f]
       /\ lock' = [lock EXCEPT ![S(r)] = IF f.at \in InLock THEN r ELSE None]
  BY <1>2, <1>3, <1>5 DEF Enter
<1>14. lock[S(r)] = None BY DEF Free
<1> QED
  BY <1>2, <1>5, <1>6, <1>7, <1>8, <1>9, <1>10, <1>11, <1>12, <1>13, <1>14, LockedStep

(* A coroutine that returns with its lock, having saved `new`. *)
LEMMA LeaveStep ==
  ASSUME SagaInv, TypeOK', NEW r \in Requests, co[r].at \in InLock,
         NEW new \in SessionRec,
         NEW status \in {"ok", "failed", "unknown"}, NEW o \in OrderIds \cup {None},
         sess' = [sess EXCEPT ![S(r)] = new],
         idem' = [idem EXCEPT ![S(r)] = CacheOf(new)],
         Answer(r, status, o), Unlock(r), UNCHANGED req, OrdersKept,
         new.state # "absent", ShapeOf(new),
         new.state \in Finished => new.order \in Listed(S(r)),
         Session(r).state \in Finished =>
           new.state \in Finished /\ new.order = Session(r).order,
         status = "ok" /\ o # None => new.state \in Finished /\ new.order = o
  PROVE  SagaInv'
<1>0. TypeOK /\ S(r) \in Sessions /\ S(r)' = S(r) BY RequestType DEF SagaInv, S
<1>1. PICK f \in Frame : f = [NewFrame EXCEPT !.at = "done", !.answer = status, !.got = o]
  BY NewFrameType, PlaceNames DEF Frame
<1>2. f.at = "done" /\ f.answer = status /\ f.got = o BY <1>1 DEF NewFrame
<1>3. "done" \notin InLock BY DEF InLock, Lookups, Fulfills, Releases
<1>4. PlaceFits(r, f, new)' BY <1>2 DEF PlaceFits, Unsold, Fulfills
<1>5. AnswerFits(f, new) BY <1>2 DEF AnswerFits
<1>6. new.state \in Finished => new.order \in Listed(S(r))' BY <1>0, OrdersKeptIn
<1>7. co' = [co EXCEPT ![r] = f] BY <1>1 DEF Answer
<1>8. lock' = [lock EXCEPT ![S(r)] = IF f.at \in InLock THEN r ELSE None]
  BY <1>2, <1>3 DEF Unlock
<1>9. lock[S(r)] = r BY Holding
<1> QED BY <1>2, <1>3, <1>4, <1>5, <1>6, <1>7, <1>8, <1>9, LockedStep

(* The same, when the session is left as it was. *)
LEMMA LeaveAsIs ==
  ASSUME SagaInv, TypeOK', NEW r \in Requests, co[r].at \in InLock,
         NEW status \in {"ok", "failed", "unknown"}, NEW o \in OrderIds \cup {None},
         Answer(r, status, o), Unlock(r), UNCHANGED <<sess, idem, req>>, OrdersKept,
         status = "ok" /\ o # None => Session(r).state \in Finished /\ Session(r).order = o
  PROVE  SagaInv'
<1>0. TypeOK /\ S(r) \in Sessions /\ Session(r) \in SessionRec BY RequestType DEF SagaInv
<1>1. PICK new \in SessionRec : new = Session(r) BY <1>0
<1>2. sess' = [sess EXCEPT ![S(r)] = new] BY <1>0, <1>1 DEF TypeOK, Session
<1>3. idem' = [idem EXCEPT ![S(r)] = CacheOf(new)]
  BY <1>0, <1>1 DEF SagaInv, TypeOK, CacheAgrees, Session
<1>4. ShapeOf(new) /\ PlaceFits(r, co[r], new) BY <1>1, Holding
<1>5. co[r].at # "idle" BY DEF InLock, Lookups, Fulfills, Releases
<1>6. new.state # "absent" BY <1>4, <1>5 DEF PlaceFits
<1>7. new.state \in Finished => new.order \in Listed(S(r))
  BY <1>0, <1>1 DEF SagaInv, FinishedListed, Session
<1> QED BY <1>1, <1>2, <1>3, <1>4, <1>6, <1>7, LeaveStep

(* The same, when an unsold session is saved and no record is written. *)
LEMMA LeaveUnsold ==
  ASSUME SagaInv, TypeOK', NEW r \in Requests, co[r].at \in InLock,
         NEW new \in SessionRec,
         NEW status \in {"ok", "failed", "unknown"}, NEW o \in OrderIds \cup {None},
         Save(S(r), new), Answer(r, status, o), Unlock(r), UNCHANGED <<idem, req>>, OrdersKept,
         Session(r).state \notin Finished, new.state \notin Finished \cup {"absent"},
         ShapeOf(new), status = "ok" => o = None
  PROVE  SagaInv'
<1>0. TypeOK /\ S(r) \in Sessions BY RequestType DEF SagaInv
<1>1. idem[S(r)] = CacheOf(Session(r)) BY <1>0 DEF SagaInv, CacheAgrees, Session
<1>2. CacheOf(Session(r)) = CacheOf(new) BY DEF CacheOf
<1>3. idem' = [idem EXCEPT ![S(r)] = CacheOf(new)] BY <1>0, <1>1, <1>2 DEF TypeOK
<1> QED BY <1>3, LeaveStep DEF Save

LEMMA LockPlaces ==
  /\ {"stock", "createHold", "createOrder", "preflight", "lookup409", "lookupTimeout",
      "resolve", "fulfill", "fulfillFound", "retryFulfill", "cachedFulfill",
      "compensate", "abandonRelease"} \subseteq InLock
  /\ \A place \in {"idle", "refresh", "validate", "done", "holdLock", "confirmLock",
                   "abandonLock"} : place \notin InLock
  BY DEF InLock, Lookups, Fulfills, Releases

LEMMA MovedFields ==
  ASSUME co \in [Requests -> Frame], NEW r \in Requests, NEW place
  PROVE  /\ Moved(r, place).at = place
         /\ Moved(r, place).got = co[r].got
         /\ Moved(r, place).answer = co[r].answer
  BY DEF Moved, Frame

-----------------------------------------------------------------------------
(* Every action keeps the invariant. *)

(* No coroutine works on a session that is only now created; at most the one that *)
(* creates it begins to.                                                         *)
LEMMA OpenInv ==
  ASSUME SagaInv, TypeOK', NEW s \in Sessions, sess[s].state = "absent",
         Save(s, [sess[s] EXCEPT !.state = "CREATED"]),
         UNCHANGED <<lock, idem, req>>, OrdersKept,
         \A r \in Requests : \/ co'[r] = co[r]
                             \/ S(r) = s /\ co'[r].at = "refresh" /\ co'[r].answer = "none"
  PROVE  SagaInv'
<1>0. TypeOK BY DEF SagaInv
<1>1. UNCHANGED <<lock, idem, req>> /\ OrdersKept OBVIOUS
<1>2. PICK new \in SessionRec : new = [sess[s] EXCEPT !.state = "CREATED"]
  <2>1. sess[s] \in SessionRec BY <1>0 DEF TypeOK
  <2> QED BY <2>1 DEF SessionRec, States
<1>3. /\ sess[s].state = "absent" /\ new.state = "CREATED" /\ new.hold = sess[s].hold
      /\ new.order = sess[s].order /\ new.key = sess[s].key
  BY <1>0, <1>2 DEF TypeOK, SessionRec
<1>4. sess'[s] = new /\ \A u \in Sessions \ {s} : sess'[u] = sess[u]
  BY <1>0, <1>2 DEF Save, TypeOK
<1>5. \A r \in Requests : S(r) = s =>
        /\ co[r].at = "idle"
        /\ co'[r].at \in {"idle", "refresh"} /\ co'[r].answer = "none"
  BY <1>3 DEF SagaInv, PlaceState, PlaceFits, Session
<1>51. \A r \in Requests : S(r) # s => co'[r] = co[r] OBVIOUS
<1>6. \A r \in Requests : S(r) \in Sessions /\ S(r)' = S(r) /\ K(r)' = K(r)
  BY <1>0, <1>1, RequestType DEF S, K
<1>7. LockOwned' BY <1>1, <1>5, <1>51, <1>6, LockPlaces DEF SagaInv, LockOwned, S
<1>8. SnapshotCurrent'
  BY <1>1, <1>4, <1>5, <1>51, <1>6, LockPlaces DEF SagaInv, SnapshotCurrent, Session
<1>9. SessionShape' BY <1>3, <1>4 DEF SagaInv, SessionShape, ShapeOf, Finished
<1>10. CacheAgrees'
  <2>1. CacheOf(new) = CacheOf(sess[s]) BY <1>3 DEF CacheOf, Finished
  <2> QED BY <1>1, <1>4, <2>1 DEF SagaInv, CacheAgrees
<1>11. PlaceState'
  <2> SUFFICES ASSUME NEW r \in Requests PROVE PlaceFits(r, co[r], Session(r))'
    BY DEF PlaceState
  <2>1. CASE S(r) = s
    BY <1>3, <1>4, <1>5, <1>6, <2>1 DEF PlaceFits, Session, Unsold, Fulfills
  <2>2. CASE S(r) # s
    <3>1. PlaceFits(r, co[r], Session(r)) BY DEF SagaInv, PlaceState
    <3>2. PICK session \in SessionRec, f \in Frame : session = Session(r) /\ f = co[r]
      BY <1>0, RequestType
    <3>3. PlaceFits(r, f, session)' BY <1>1, <3>1, <3>2, PlaceFitsKept
    <3>4. Session(r)' = session /\ co'[r] = f
      BY <1>4, <1>51, <1>6, <2>2, <3>2 DEF Session
    <3> QED BY <3>3, <3>4
  <2> QED BY <2>1, <2>2
<1>12. FinishedListed'
  <2> SUFFICES ASSUME NEW u \in Sessions, (sess[u].state \in Finished)'
               PROVE  (sess[u].order \in Listed(u))'
    BY DEF FinishedListed
  <2>1. u # s BY <1>3, <1>4 DEF Finished
  <2>2. sess[u].order \in Listed(u) BY <1>4, <2>1 DEF SagaInv, FinishedListed
  <2> QED BY <1>0, <1>1, <1>4, <2>1, <2>2, OrdersKeptIn
<1>13. AnswerStands'
  BY <1>1, <1>4, <1>5, <1>51, <1>6 DEF SagaInv, AnswerStands, AnswerFits, Session
<1> QED BY <1>7, <1>8, <1>9, <1>10, <1>11, <1>12, <1>13 DEF SagaInv

LEMMA CheckoutInv ==
  ASSUME SagaInv, TypeOK', NEW r \in Requests, ArriveCheckout(r)
  PROVE  SagaInv'
<1>0. TypeOK /\ S(r) \in Sessions BY RequestType DEF SagaInv
<1>1. sess[S(r)].state = "absent" /\ Save(S(r), [sess[S(r)] EXCEPT !.state = "CREATED"])
  BY DEF ArriveCheckout, Session
<1>2. UNCHANGED <<lock, idem, req>> /\ OrdersKept BY DEF ArriveCheckout, ecops, OrdersKept
<1>3. co[r].answer = "none" BY LockPlaces, Unanswered DEF ArriveCheckout, At
<1>4. Moved(r, "refresh").at = "refresh" /\ Moved(r, "refresh").answer = "none"
  BY <1>0, <1>3, MovedFields DEF TypeOK
<1>5. \A q \in Requests : \/ co'[q] = co[q]
                          \/ S(q) = S(r) /\ co'[q].at = "refresh" /\ co'[q].answer = "none"
  BY <1>0, <1>4 DEF ArriveCheckout, Goto, TypeOK
<1> QED BY <1>0, <1>1, <1>2, <1>5, OpenInv

LEMMA ArriveInv ==
  ASSUME SagaInv, TypeOK', NEW r \in Requests, ArriveCart(r) \/ ArriveConfirm(r) \/ ArriveAbandon(r)
  PROVE  SagaInv'
<1>0. TypeOK BY DEF SagaInv
<1>1. At(r, "idle") /\ Session(r).state # "absent" /\ UNCHANGED <<sess, lock, idem, req>> /\ OrdersKept
  BY DEF ArriveCart, ArriveConfirm, ArriveAbandon, Arrives, stores, ecops, OrdersKept
<1>2. co[r].at \notin InLock /\ ~At(r, "done") BY <1>1, LockPlaces DEF At
<1>3. ASSUME NEW place \in {"refresh", "confirmLock", "abandonLock"} PROVE PlaceFits(r, Moved(r, place), Session(r))
  BY <1>0, <1>1, <1>2, Unanswered, MovedFields DEF TypeOK, PlaceFits, Unsold, Fulfills
<1>4. CASE ArriveCart(r)
  BY <1>1, <1>2, <1>3, <1>4, GotoStep, LockPlaces, PlaceNames DEF ArriveCart
<1>5. CASE ArriveAbandon(r)
  BY <1>1, <1>2, <1>3, <1>5, GotoStep, LockPlaces, PlaceNames DEF ArriveAbandon
<1>6. CASE ArriveConfirm(r) /\ co' = [co EXCEPT ![r] = Moved(r, "confirmLock")]
  BY <1>1, <1>2, <1>3, <1>6, GotoStep, LockPlaces, PlaceNames DEF Goto
<1>7. CASE ArriveConfirm(r) /\ co' = [co EXCEPT ![r] = Loaded(r, "validate", Session(r))]
  <2>1. PICK new \in SessionRec : new = Session(r) BY <1>0, RequestType
  <2>2. PICK f \in Frame : f = Loaded(r, "validate", new)
    BY <1>0, <2>1, LoadedType, PlaceNames DEF TypeOK
  <2>3. f.at = "validate" /\ f.answer = "none"
    <3>1. co[r].answer = "none" BY <1>2, Unanswered
    <3> QED BY <1>0, <2>1, <2>2, <3>1, LoadedFields, PlaceNames DEF TypeOK
  <2>4. Session(r)' = Session(r) BY <1>1 DEF Session, S
  <2>5. PlaceFits(r, f, Session(r))' BY <1>1, <2>3, <2>4 DEF PlaceFits, Unsold, Fulfills
  <2>6. AnswerFits(f, Session(r)) BY <2>3 DEF AnswerFits
  <2> QED BY <1>1, <1>2, <1>7, <2>1, <2>2, <2>3, <2>5, <2>6, LockPlaces, QuietStep
<1> QED BY <1>4, <1>5, <1>6, <1>7 DEF ArriveConfirm

(* A cached response says what the session says. *)
LEMMA CacheHit ==
  ASSUME SagaInv, NEW r \in Requests, Cached(r), NEW stale
  PROVE  /\ FromCache(r, Session(r), stale) = Session(r)
         /\ Session(r).state \in Finished
         /\ Session(r).key = K(r)
         /\ idem[S(r)][K(r)].order = Session(r).order
<1>1. TypeOK /\ S(r) \in Sessions /\ K(r) \in Keys /\ Session(r) \in SessionRec
  BY RequestType DEF SagaInv
<1>2. idem[S(r)][K(r)] = IF Session(r).state \in Finished /\ Session(r).key = K(r)
                         THEN [order |-> Session(r).order, state |-> Session(r).state] ELSE NoRecord
  BY <1>1 DEF SagaInv, CacheAgrees, CacheOf, Session
<1>3. Session(r).state \in Finished /\ Session(r).key = K(r) BY <1>2 DEF Cached, NoRecord
<1>4. idem[S(r)][K(r)] = [order |-> Session(r).order, state |-> Session(r).state]
  BY <1>2, <1>3
<1>5. FromCache(r, Session(r), stale) = Session(r)
  <2>1. PICK new \in SessionRec : new = Session(r) BY <1>1
  <2>2. idem[S(r)][K(r)].order = new.order /\ idem[S(r)][K(r)].state = new.state BY <1>4, <2>1
  <2>3. FromCache(r, new, stale) = [new EXCEPT !.order = new.order, !.state = new.state]
    BY <2>2 DEF FromCache
  <2>4. [new EXCEPT !.order = new.order, !.state = new.state] = new BY DEF SessionRec
  <2> QED BY <2>1, <2>3, <2>4
<1> QED BY <1>3, <1>4, <1>5

LEMMA TakeLockInv ==
  ASSUME SagaInv, TypeOK', NEW r \in Requests, TakeLock(r)
  PROVE  SagaInv'
<1>0. TypeOK /\ Session(r) \in SessionRec BY RequestType DEF SagaInv
<1>1. UNCHANGED <<req, order>> /\ OrdersKept
  BY DEF TakeLock, HoldLocked, HoldTooLate, ConfirmReplay, ConfirmResumes, ConfirmFresh,
     ConfirmRefused, AbandonRefused, AbandonCreated, AbandonHeld, stores, ecops, OrdersKept
<1>2. Free(r) /\ co[r].at \in {"holdLock", "confirmLock", "abandonLock"}
  BY DEF TakeLock, HoldLocked, HoldTooLate, ConfirmReplay, ConfirmResumes, ConfirmFresh,
     ConfirmRefused, AbandonRefused, AbandonCreated, AbandonHeld, Confirming, Abandoning, At
<1>3. ~At(r, "done") /\ ~At(r, "idle") /\ co[r].at \notin InLock BY <1>2, LockPlaces DEF At
<1>4. PlaceFits(r, co[r], Session(r)) /\ co[r].answer = "none" BY <1>3, Unanswered
<1>5. Session(r).state # "absent" BY <1>3, <1>4 DEF PlaceFits, At
<1>6. ASSUME NEW place \in InLock
      PROVE  /\ Loaded(r, place, Session(r)).at = place
             /\ Loaded(r, place, Session(r)).got = Session(r).order
             /\ Loaded(r, place, Session(r)).answer = "none"
  <2>1. PICK new \in SessionRec : new = Session(r) BY <1>0
  <2>2. place \in Places BY DEF Places
  <2>3. PICK f : f = Loaded(r, place, new) OBVIOUS
  <2> QED BY <1>0, <1>4, <2>1, <2>2, <2>3, LoadedFields DEF TypeOK
<1>7. Session(r).state \in Finished => Session(r).order \in Listed(S(r))
  BY <1>0, RequestType DEF SagaInv, FinishedListed, Session
<1>8. Session(r).state \in {"HELD", "CREATED"} => idem[S(r)][K(r)].order = None
  <2>1. S(r) \in Sessions /\ K(r) \in Keys BY <1>0, RequestType
  <2>2. idem[S(r)] = CacheOf(Session(r)) BY <2>1 DEF SagaInv, CacheAgrees, Session
  <2> QED BY <2>1, <2>2 DEF CacheOf, NoRecord, Finished
<1>11. CASE HoldLocked(r)
  <2>1. PlaceFits(r, Loaded(r, "stock", Session(r)), Session(r))
    BY <1>5, <1>6, <1>7, <1>11, LockPlaces DEF HoldLocked, PlaceFits, Unsold, Fulfills, Finished
  <2> QED BY <1>1, <1>2, <1>3, <1>5, <1>11, <2>1, LockPlaces, EnterStep DEF HoldLocked, ihms, ecops
<1>12. CASE HoldTooLate(r)
  BY <1>1, <1>3, <1>12, QuietAnswer DEF HoldTooLate, stores
<1>13. CASE ConfirmReplay(r)
  <2> DEFINE session == FromCache(r, Session(r), {"HELD", "FULFILL_PENDING"})
             place == IF session.state = "FULFILL_PENDING" THEN "retryFulfill" ELSE "cachedFulfill"
  <2>1. session = Session(r) /\ Session(r).state \in Finished /\ Session(r).key = K(r)
    BY <1>0, <1>13, CacheHit DEF ConfirmReplay
  <2>2. sess' = sess BY <1>0, <1>13, <2>1, RequestType DEF ConfirmReplay, Save, TypeOK, Session
  <2>3. PICK q \in {"retryFulfill", "cachedFulfill"} : q = place OBVIOUS
  <2>4. Enter(r, q) BY <1>13, <2>1, <2>3 DEF ConfirmReplay, Enter
  <2>5. PlaceFits(r, Loaded(r, q, Session(r)), Session(r))
    BY <1>5, <1>6, <1>7, <2>1, <2>3, LockPlaces DEF PlaceFits, Unsold, Fulfills, Finished
  <2> QED BY <1>1, <1>2, <1>3, <1>5, <1>13, <2>2, <2>4, <2>5, LockPlaces, EnterStep DEF ConfirmReplay
<1>14. CASE ConfirmResumes(r)
  <2>1. CASE Session(r).state = "HELD"
    <3>1. PlaceFits(r, Loaded(r, "resolve", Session(r)), Session(r))
      BY <1>5, <1>6, <1>7, <1>14, <2>1, LockPlaces DEF ConfirmResumes, PlaceFits, Unsold, Fulfills, Finished
    <3> QED BY <1>1, <1>2, <1>3, <1>5, <1>14, <2>1, <3>1, LockPlaces, EnterStep DEF ConfirmResumes, ihms, ecops
  <2>2. CASE Session(r).state = "FULFILL_PENDING"
    <3>1. PlaceFits(r, Loaded(r, "retryFulfill", Session(r)), Session(r))
      BY <1>5, <1>6, <1>7, <1>14, <2>2, LockPlaces DEF ConfirmResumes, PlaceFits, Unsold, Fulfills, Finished
    <3> QED BY <1>1, <1>2, <1>3, <1>5, <1>14, <2>2, <3>1, LockPlaces, EnterStep DEF ConfirmResumes, ihms, ecops
  <2> QED BY <1>14, <2>1, <2>2 DEF ConfirmResumes
<1>16. CASE ConfirmFresh(r)
  <2>1. PlaceFits(r, Loaded(r, "preflight", Session(r)), Session(r))
    BY <1>5, <1>6, <1>7, <1>16, LockPlaces DEF ConfirmFresh, PlaceFits, Unsold, Fulfills, Finished
  <2> QED BY <1>1, <1>2, <1>3, <1>5, <1>16, <2>1, LockPlaces, EnterStep DEF ConfirmFresh, ihms, ecops
<1>17. CASE ConfirmRefused(r)
  BY <1>1, <1>3, <1>17, QuietAnswer DEF ConfirmRefused, stores
<1>18. CASE AbandonRefused(r)
  BY <1>1, <1>3, <1>18, QuietAnswer DEF AbandonRefused, stores
<1>19. CASE AbandonCreated(r)
  <2>1. PICK new \in SessionRec : new = [Session(r) EXCEPT !.state = "ABANDONED"]
    BY <1>0 DEF SessionRec, States
  <2>2. new.state = "ABANDONED" /\ new.order = Session(r).order BY <1>0, <2>1 DEF SessionRec
  <2>3. PICK f \in Frame : f = [NewFrame EXCEPT !.at = "done", !.answer = "ok", !.got = None]
    BY NewFrameType, PlaceNames DEF Frame
  <2>4. f.at = "done" /\ f.answer = "ok" /\ f.got = None BY <2>3 DEF NewFrame
  <2>5. ShapeOf(Session(r)) BY <1>0, RequestType DEF SagaInv, SessionShape, Session
  <2>6. Session(r).state = "CREATED" BY <1>19 DEF AbandonCreated
  <2>7. ShapeOf(new) BY <2>2, <2>5, <2>6 DEF ShapeOf, Finished
  <2>8. PlaceFits(r, f, new)' BY <2>2, <2>4 DEF PlaceFits, Unsold, Fulfills
  <2>9. idem' = [idem EXCEPT ![S(r)] = CacheOf(new)]
    <3>1. idem[S(r)] = CacheOf(Session(r)) BY <1>0, RequestType DEF SagaInv, CacheAgrees, Session
    <3>2. CacheOf(Session(r)) = CacheOf(new) BY <2>2, <2>6 DEF CacheOf, Finished
    <3> QED BY <1>0, <1>19, <3>1, <3>2, RequestType DEF AbandonCreated, TypeOK
  <2>10. lock' = [lock EXCEPT ![S(r)] = IF f.at \in InLock THEN r ELSE None]
    BY <1>0, <1>2, <1>19, <2>4, LockPlaces, RequestType DEF AbandonCreated, Free, TypeOK
  <2>11. /\ sess' = [sess EXCEPT ![S(r)] = new]
         /\ co' = [co EXCEPT ![r] = f]
    BY <1>19, <2>1, <2>3 DEF AbandonCreated, Save, Answer
  <2> QED BY <1>1, <1>2, <2>2, <2>4, <2>6, <2>7, <2>8, <2>9, <2>10, <2>11, LockPlaces, LockedStep
        DEF Free, AnswerFits, Finished
<1>20. CASE AbandonHeld(r)
  <2>1. PlaceFits(r, Loaded(r, "abandonRelease", Session(r)), Session(r))
    BY <1>5, <1>6, <1>7, <1>20, LockPlaces DEF AbandonHeld, PlaceFits, Unsold, Fulfills, Finished
  <2> QED BY <1>1, <1>2, <1>3, <1>5, <1>20, <2>1, LockPlaces, EnterStep DEF AbandonHeld, ihms, ecops
<1> QED BY <1>11, <1>12, <1>13, <1>14, <1>16, <1>17, <1>18, <1>19, <1>20 DEF TakeLock

(* A new order is added to those EC-OPS has. *)
LEMMA CommitKeeps ==
  ASSUME TypeOK, NEW o \in OrderIds, NEW s \in Sessions, NEW k, Commit(o, s, k)
  PROVE  OrdersKept /\ o \in Listed(s)'
  BY NoneAssumption DEF Commit, OrdersKept, Listed, Placed, TypeOK

(* The fields of a session saved with changes to some of them. *)
LEMMA PinnedFields ==
  ASSUME NEW old \in SessionRec, NEW k \in Keys, NEW new, new = [old EXCEPT !.key = k]
  PROVE  /\ new \in SessionRec /\ new.state = old.state /\ new.order = old.order
         /\ new.key = k /\ new.hold = old.hold
  BY DEF SessionRec

LEMMA ClosedFields ==
  ASSUME NEW old \in SessionRec, NEW new, new = Compensated(old) \/ new = Abandoned(old)
  PROVE  /\ new \in SessionRec /\ new.state \in {"COMPENSATED", "ABANDONED"}
         /\ new.order = old.order
  BY DEF SessionRec, States, Compensated, Abandoned

(* The session and its record are written together. *)
LEMMA RecordInv ==
  ASSUME SagaInv, TypeOK', NEW r \in Requests, NEW state \in Finished,
         co[r].at \in {"fulfill", "fulfillFound", "retryFulfill"}, Record(r, state)
  PROVE  SagaInv'
<1>0. /\ TypeOK /\ S(r) \in Sessions /\ K(r) \in Keys
      /\ Session(r) \in SessionRec /\ co[r].got \in OrderIds \cup {None}
  BY RequestType DEF SagaInv
<1>1. co[r].at \in InLock BY LockPlaces
<1>2. /\ co[r].snap = Session(r) /\ ShapeOf(Session(r)) /\ PlaceFits(r, co[r], Session(r))
  BY <1>1, Holding
<1>3. /\ co[r].got \in Listed(S(r))
      /\ Session(r).state \in {"HELD", "FULFILL_PENDING"}
      /\ Session(r).state = "FULFILL_PENDING" =>
           co[r].got = Session(r).order /\ Session(r).key = K(r)
  BY <1>2 DEF PlaceFits, Unsold, Fulfills
<1>4. co[r].got \in OrderIds /\ co[r].got # None
  BY <1>3, NoneAssumption DEF Listed
<1>5. PICK new : new = [Session(r) EXCEPT !.state = state, !.order = co[r].got, !.key = K(r)]
  OBVIOUS
<1>6. state \in States BY DEF States, Finished
<1>7. PICK old \in SessionRec : old = Session(r) BY <1>0
<1>8. /\ new \in SessionRec /\ new.state = state /\ new.order = co[r].got
      /\ new.key = K(r) /\ new.hold = Session(r).hold
  <2>1. PICK o \in OrderIds \cup {None}, k \in Keys : o = co[r].got /\ k = K(r) BY <1>0
  <2>2. new = [old EXCEPT !.state = state, !.order = o, !.key = k] BY <1>5, <1>7, <2>1
  <2>3. /\ new \in SessionRec /\ new.state = state /\ new.order = o
        /\ new.key = k /\ new.hold = old.hold
    BY <1>6, <1>7, <2>1, <2>2 DEF SessionRec
  <2> QED BY <1>7, <2>1, <2>3
<1>9. ShapeOf(new) BY <1>0, <1>2, <1>3, <1>4, <1>8 DEF ShapeOf, Finished
<1>10. sess' = [sess EXCEPT ![S(r)] = new] BY <1>2, <1>5 DEF Record, Save
<1>11. idem' = [idem EXCEPT ![S(r)] = CacheOf(new)]
  <2>1. idem[S(r)] = CacheOf(Session(r)) BY <1>0 DEF SagaInv, CacheAgrees, Session
  <2>2. \A k \in Keys \ {K(r)} : CacheOf(Session(r))[k] = NoRecord
    BY <1>3 DEF CacheOf, Finished
  <2>3. [CacheOf(Session(r)) EXCEPT ![K(r)] = [order |-> co[r].got, state |-> state]] = CacheOf(new)
    BY <1>0, <1>8, <2>2 DEF CacheOf
  <2>4. idem' = [idem EXCEPT ![S(r)] = [idem[S(r)] EXCEPT ![K(r)] = [order |-> co[r].got, state |-> state]]]
    BY DEF Record, Remember
  <2> QED BY <2>1, <2>3, <2>4
<1>12. Answer(r, "ok", co[r].got) /\ Unlock(r) /\ UNCHANGED req /\ OrdersKept
  BY DEF Record, ecops, OrdersKept
<1>13. state # "absent" BY DEF Finished
<1>14. Session(r).state \in Finished => new.order = Session(r).order
  BY <1>3, <1>8 DEF Finished
<1> QED BY <1>1, <1>3, <1>4, <1>8, <1>9, <1>10, <1>11, <1>12, <1>13, <1>14, LeaveStep

(* A finished session is answered with its order once more. *)
LEMMA AsIsInv ==
  ASSUME SagaInv, TypeOK', NEW r \in Requests,
         co[r].at \in {"retryFulfill", "cachedFulfill"}, AnswerAsIs(r)
  PROVE  SagaInv'
<1>1. co[r].at \in InLock BY LockPlaces
<1>2. PlaceFits(r, co[r], Session(r)) BY <1>1, Holding
<1>3. Session(r).state \in Finished /\ Session(r).order = co[r].got
  BY <1>2 DEF PlaceFits, Finished
<1>4. co[r].got \in OrderIds \cup {None} BY RequestType DEF SagaInv
<1>5. /\ Answer(r, "ok", co[r].got) /\ Unlock(r) /\ UNCHANGED <<sess, idem, req>>
      /\ OrdersKept
  BY DEF AnswerAsIs, ecops, OrdersKept
<1> QED BY <1>1, <1>3, <1>4, <1>5, LeaveAsIs

(* The coroutine with the lock goes on to another await of its handler. *)
LEMMA WithinInv ==
  ASSUME SagaInv, TypeOK', NEW r \in Requests,
         \/ StockChecked(r) \/ PreflightEmpty(r) \/ LookupEmpty(r) \/ LookupFails(r)
         \/ CreateOrderConflict(r) \/ CreateOrderFails(r) \/ CreateOrderTimeout(r)
  PROVE  SagaInv'
<1>0. TypeOK /\ S(r) \in Sessions /\ K(r) \in Keys BY RequestType DEF SagaInv
<1>1. UNCHANGED <<sess, lock, idem, req>>
  BY DEF StockChecked, PreflightEmpty, LookupEmpty, LookupFails, CreateOrderConflict,
         CreateOrderFails, CreateOrderTimeout, stores
<1>2. OrdersKept
  BY <1>0, CommitKeeps DEF StockChecked, PreflightEmpty, LookupEmpty, LookupFails,
     CreateOrderConflict, CreateOrderFails, CreateOrderTimeout, ecops, OrdersKept
<1>3. PICK place \in {"createHold", "createOrder", "compensate", "lookup409", "lookupTimeout"} :
        /\ Goto(r, place)
        /\ IF place = "createHold" THEN co[r].at = "stock"
           ELSE co[r].at \in {"preflight", "lookup409", "lookupTimeout", "createOrder"}
  BY DEF StockChecked, PreflightEmpty, LookupEmpty, LookupFails, CreateOrderConflict,
         CreateOrderFails, CreateOrderTimeout, At
<1>4. co[r].at \in InLock /\ place \in InLock /\ ~At(r, "done")
  BY <1>3, LockPlaces DEF At
<1>5. PlaceFits(r, co[r], Session(r)) /\ co[r].answer = "none" BY <1>4, Unanswered
<1>6. /\ Moved(r, place).at = place /\ Moved(r, place).answer = "none"
  BY <1>0, <1>5, MovedFields DEF TypeOK
<1>7. PlaceFits(r, Moved(r, place), Session(r))
  BY <1>3, <1>5, <1>6 DEF PlaceFits, Unsold, Fulfills
<1>8. place \in Places \ {"done"} BY <1>3, PlaceNames
<1> QED BY <1>1, <1>2, <1>3, <1>4, <1>7, <1>8, GotoStep

(* The coroutine without the lock goes on to another await. *)
LEMMA OutsideInv ==
  ASSUME SagaInv, TypeOK', NEW r \in Requests,
         ValidateActive(r) \/ PlaceOrderResumes(r) \/ HoldRequested(r)
  PROVE  SagaInv'
<1>0. TypeOK BY DEF SagaInv
<1>1. UNCHANGED <<sess, lock, idem, req>> /\ OrdersKept
  BY DEF ValidateActive, PlaceOrderResumes, HoldRequested, stores, ecops, OrdersKept
<1>2. PICK place \in {"confirmLock", "holdLock"} :
        Goto(r, place) /\ co[r].at \in {"validate", "refresh"}
  BY DEF ValidateActive, PlaceOrderResumes, HoldRequested, PlaceOrder, At
<1>3. co[r].at \notin InLock /\ place \notin InLock /\ ~At(r, "done")
  BY <1>2, LockPlaces DEF At
<1>4. PlaceFits(r, co[r], Session(r)) /\ co[r].answer = "none" BY <1>3, Unanswered
<1>5. Moved(r, place).at = place /\ Moved(r, place).answer = "none"
  BY <1>0, <1>4, MovedFields DEF TypeOK
<1>6. PlaceFits(r, Moved(r, place), Session(r))
  BY <1>2, <1>4, <1>5 DEF PlaceFits, Unsold, Fulfills
<1>7. place \in Places \ {"done"} BY <1>2, PlaceNames
<1> QED BY <1>1, <1>2, <1>3, <1>6, <1>7, GotoStep

(* The coroutine without the lock returns. *)
LEMMA AnsweredInv ==
  ASSUME SagaInv, TypeOK', NEW r \in Requests,
         \/ RejectCart(r) \/ ValidateFails(r) \/ PlaceOrderReplay(r)
         \/ PlaceOrderRefused(r) \/ HoldRefused(r)
  PROVE  SagaInv'
<1>0. TypeOK /\ S(r) \in Sessions BY RequestType DEF SagaInv
<1>1. co[r].at \in {"refresh", "validate"}
  BY DEF RejectCart, ValidateFails, PlaceOrderReplay, PlaceOrderRefused, HoldRefused, PlaceOrder, At
<1>2. co[r].at \notin InLock /\ ~At(r, "idle") BY <1>1, LockPlaces DEF At
<1>3. CASE PlaceOrderReplay(r)
  <2>1. /\ FromCache(r, Session(r), {"CREATED", "HELD", "FULFILL_PENDING"}) = Session(r)
        /\ Session(r).state \in Finished
        /\ idem[S(r)][K(r)].order = Session(r).order
    BY <1>3, CacheHit DEF PlaceOrderReplay
  <2>2. sess' = sess BY <1>0, <1>3, <2>1 DEF PlaceOrderReplay, Save, TypeOK, Session
  <2>3. Session(r).order \in OrderIds \cup {None} BY <1>0, RequestType DEF SessionRec
  <2> QED BY <1>2, <1>3, <2>1, <2>2, <2>3, QuietAnswer DEF PlaceOrderReplay, ecops
<1>4. CASE ~PlaceOrderReplay(r)
  <2>1. Answer(r, "failed", None) /\ UNCHANGED <<sess, lock, idem, req, order>>
    BY <1>4 DEF RejectCart, ValidateFails, PlaceOrderRefused, HoldRefused, stores, ecops
  <2> QED BY <1>2, <2>1, QuietAnswer
<1> QED BY <1>3, <1>4

(* The coroutine with the lock returns, or leaves it for the lock of confirm. *)
LEMMA HoldCreatedInv ==
  ASSUME SagaInv, TypeOK', NEW r \in Requests, HoldCreated(r)
  PROVE  SagaInv'
<1>0. TypeOK /\ S(r) \in Sessions /\ Session(r) \in SessionRec BY RequestType DEF SagaInv
<1>1. co[r].at = "createHold" /\ co[r].at \in InLock BY LockPlaces DEF HoldCreated, At
<1>2. /\ co[r].snap = Session(r) /\ ShapeOf(Session(r)) /\ PlaceFits(r, co[r], Session(r))
      /\ lock[S(r)] = r
  BY <1>1, Holding
<1>3. Session(r).state = "CREATED" BY <1>1, <1>2 DEF PlaceFits
<1>4. /\ UNCHANGED <<idem, req, order>> /\ OrdersKept /\ Unlock(r)
  BY DEF HoldCreated, ecops, OrdersKept
<1>5. PICK h \in HoldIds : Save(S(r), [co[r].snap EXCEPT !.state = "HELD", !.hold = h])
  BY DEF HoldCreated
<1>6. PICK old \in SessionRec : old = Session(r) BY <1>0
<1>7. PICK new : new = [old EXCEPT !.state = "HELD", !.hold = h] OBVIOUS
<1>8. /\ new \in SessionRec /\ new.state = "HELD" /\ new.order = old.order
      /\ new.key = old.key /\ new.hold = h
  BY <1>5, <1>6, <1>7 DEF SessionRec, States
<1>9. ShapeOf(new) BY <1>2, <1>3, <1>5, <1>6, <1>8 DEF ShapeOf, Finished
<1>10. Save(S(r), new) BY <1>2, <1>5, <1>6, <1>7
<1>11. CASE req[r].op = "hold"
  <2>1. Answer(r, "ok", None) BY <1>11 DEF HoldCreated
  <2> QED BY <1>1, <1>3, <1>4, <1>8, <1>9, <1>10, <2>1, LeaveUnsold DEF Finished
<1>12. CASE req[r].op # "hold"
  <2>1. PICK f \in Frame : f = Moved(r, "confirmLock") BY <1>0, PlaceNames, MovedType DEF TypeOK
  <2>2. co[r].answer = "none" BY <1>1, <1>2, LockPlaces DEF PlaceFits
  <2>3. f.at = "confirmLock" /\ f.answer = "none" BY <1>0, <2>1, <2>2, MovedFields DEF TypeOK
  <2>4. co' = [co EXCEPT ![r] = f] BY <1>12, <2>1 DEF HoldCreated, Goto
  <2>5. PlaceFits(r, f, new)' BY <1>8, <2>3 DEF PlaceFits, Unsold, Fulfills
  <2>6. AnswerFits(f, new) BY <2>3 DEF AnswerFits
  <2>7. f.at \notin InLock BY <2>3, LockPlaces
  <2>8. idem' = [idem EXCEPT ![S(r)] = CacheOf(new)]
    <3>1. idem[S(r)] = CacheOf(Session(r)) BY <1>0 DEF SagaInv, CacheAgrees, Session
    <3>2. CacheOf(Session(r)) = CacheOf(new) BY <1>3, <1>8 DEF CacheOf, Finished
    <3> QED BY <1>0, <1>4, <3>1, <3>2 DEF TypeOK
  <2>9. sess' = [sess EXCEPT ![S(r)] = new] BY <1>10 DEF Save
  <2>10. lock' = [lock EXCEPT ![S(r)] = IF f.at \in InLock THEN r ELSE None]
    BY <1>4, <2>7 DEF Unlock
  <2> QED BY <1>2, <1>3, <1>4, <1>8, <1>9, <2>4, <2>5, <2>6, <2>7, <2>8, <2>9, <2>10, LockedStep
        DEF Finished
<1> QED BY <1>11, <1>12

LEMMA UnsoldInv ==
  ASSUME SagaInv, TypeOK', NEW r \in Requests, StatusUnknown(r) \/ ReleaseSucceeds(r)
  PROVE  SagaInv'
<1>0. /\ TypeOK /\ S(r) \in Sessions /\ K(r) \in Keys /\ Session(r) \in SessionRec
  BY RequestType DEF SagaInv
<1>1. co[r].at \in {"lookupTimeout", "compensate", "abandonRelease"}
  BY DEF StatusUnknown, ReleaseSucceeds, Releases, At
<1>2. co[r].at \in InLock BY <1>1, LockPlaces
<1>3. co[r].snap = Session(r) /\ ShapeOf(Session(r)) /\ PlaceFits(r, co[r], Session(r))
  BY <1>2, Holding
<1>4. Session(r).state = "HELD" BY <1>1, <1>3 DEF PlaceFits, Unsold
<1>5. UNCHANGED <<idem, req, order>> /\ OrdersKept /\ Unlock(r)
  BY DEF StatusUnknown, ReleaseSucceeds, ecops, OrdersKept
<1>6. PICK old \in SessionRec : old = Session(r) BY <1>0
<1>7. CASE StatusUnknown(r)
  <2>1. PICK k \in Keys : k = K(r) BY <1>0
  <2>2. PICK new : new = [old EXCEPT !.key = k] OBVIOUS
  <2>3. /\ new \in SessionRec /\ new.state = old.state /\ new.order = old.order
        /\ new.key = k /\ new.hold = old.hold
    BY <1>6, <2>1, <2>2, PinnedFields
  <2>4. Save(S(r), new) /\ Answer(r, "unknown", None)
    BY <1>3, <1>6, <1>7, <2>1, <2>2 DEF StatusUnknown
  <2>5. ShapeOf(new) BY <1>3, <1>4, <1>6, <2>3 DEF ShapeOf, Finished
  <2> QED BY <1>2, <1>4, <1>5, <1>6, <2>3, <2>4, <2>5, LeaveUnsold DEF Finished
<1>8. CASE ReleaseSucceeds(r)
  <2>1. PICK new : new = IF At(r, "compensate") THEN Compensated(old) ELSE Abandoned(old)
    OBVIOUS
  <2>2. Save(S(r), new) BY <1>3, <1>6, <1>8, <2>1 DEF ReleaseSucceeds, At
  <2>3. PICK status \in {"ok", "failed"} : Answer(r, status, None)
    BY <1>8 DEF ReleaseSucceeds
  <2>4. /\ new \in SessionRec /\ new.state \in {"COMPENSATED", "ABANDONED"}
        /\ new.order = old.order
    BY <1>6, <2>1, ClosedFields
  <2>5. ShapeOf(new) BY <1>3, <1>4, <1>6, <2>4 DEF ShapeOf, Finished
  <2> QED BY <1>2, <1>4, <1>5, <2>2, <2>3, <2>4, <2>5, LeaveUnsold DEF Finished
<1> QED BY <1>7, <1>8

(* Every way an upstream call can end. *)
LEMMA ResumeInv ==
  ASSUME SagaInv, TypeOK', NEW r \in Requests, Resume(r)
  PROVE  SagaInv'
<1>0. TypeOK /\ S(r) \in Sessions /\ K(r) \in Keys BY RequestType DEF SagaInv
<1>1. CASE RejectCart(r) \/ ValidateFails(r) \/ PlaceOrderReplay(r) \/ PlaceOrderRefused(r) \/ HoldRefused(r)
  BY <1>1, AnsweredInv
<1>2. CASE ValidateActive(r) \/ PlaceOrderResumes(r) \/ HoldRequested(r)
  BY <1>2, OutsideInv
<1>3. CASE \/ StockChecked(r) \/ PreflightEmpty(r) \/ LookupEmpty(r) \/ LookupFails(r)
           \/ CreateOrderConflict(r) \/ CreateOrderFails(r) \/ CreateOrderTimeout(r)
  BY <1>3, WithinInv
<1>4. CASE HoldCreated(r) BY <1>4, HoldCreatedInv
<1>5. CASE StatusUnknown(r) \/ ReleaseSucceeds(r) BY <1>5, UnsoldInv
<1>6. CASE StockShort(r) \/ HoldCreateFails(r) \/ StillUnknown(r) \/ ReleaseGivesUp(r)
  <2>1. co[r].at \in InLock
    BY <1>6, LockPlaces DEF StockShort, HoldCreateFails, StillUnknown, ReleaseGivesUp, Releases, At
  <2>2. /\ \E status \in {"failed", "unknown"} : Answer(r, status, None)
        /\ Unlock(r) /\ UNCHANGED <<sess, idem, req>> /\ OrdersKept
    BY <1>6 DEF StockShort, HoldCreateFails, StillUnknown, ReleaseGivesUp, ecops, OrdersKept
  <2> QED BY <2>1, <2>2, LeaveAsIs
<1>7. CASE LookupAgain(r) \/ FulfillTimeout(r) \/ ReleaseTimeout(r)
  <2>1. co[r].at \in InLock
    BY <1>7, LockPlaces DEF LookupAgain, FulfillTimeout, ReleaseTimeout, Lookups, Fulfills, Releases
  <2>2. Again(r) /\ UNCHANGED <<sess, lock, idem, req>> /\ OrdersKept
    BY <1>7 DEF LookupAgain, FulfillTimeout, ReleaseTimeout, stores, ecops, OrdersKept
  <2> QED BY <2>1, <2>2, AgainStep
<1>8. CASE LookupFound(r)
  <2>1. co[r].at \in InLock BY <1>8, LockPlaces DEF LookupFound, Lookups
  <2>2. PlaceFits(r, co[r], Session(r)) BY <2>1, Holding
  <2>3. UNCHANGED <<sess, lock, idem, req>> /\ OrdersKept
    BY <1>8 DEF LookupFound, stores, ecops, OrdersKept
  <2>4. PICK o \in Listed(S(r)) :
          co' = [co EXCEPT ![r] = [Moved(r, "fulfillFound") EXCEPT !.got = o]]
    BY <1>8 DEF LookupFound
  <2>5. o \in OrderIds BY <2>4 DEF Listed
  <2>6. o \in Listed(S(r))' BY <1>0, <2>3, <2>4, OrdersKeptIn DEF S
  <2>7. Session(r).state = "HELD" /\ Session(r).key \in {None, K(r)}
    BY <1>8, <2>2 DEF LookupFound, Lookups, PlaceFits, Unsold
  <2> QED BY <2>1, <2>3, <2>4, <2>5, <2>6, <2>7, FoundStep
<1>9. CASE CreateOrder(r) \/ CreateOrderReplayed(r)
  <2>1. At(r, "createOrder") /\ co[r].at \in InLock
    BY <1>9, LockPlaces DEF CreateOrder, CreateOrderReplayed, At
  <2>2. PlaceFits(r, co[r], Session(r)) BY <2>1, Holding
  <2>3. Session(r).state = "HELD" /\ Session(r).key = None
    BY <2>1, <2>2 DEF At, PlaceFits, Unsold
  <2>4. UNCHANGED <<sess, lock, idem, req>>
    BY <1>9 DEF CreateOrder, CreateOrderReplayed, stores
  <2>5. PICK o \in OrderIds : OrderPlaced(r, o) /\ OrdersKept /\ o \in Listed(S(r))'
    <3>1. CASE CreateOrder(r) BY <1>0, <3>1, CommitKeeps DEF CreateOrder, S
    <3>2. CASE CreateOrderReplayed(r)
      <4>1. PICK o \in Listed(S(r)) : OrderPlaced(r, o)
        BY <1>0, <3>2, RequestType, OrdersAreListed DEF CreateOrderReplayed
      <4>2. OrdersKept BY <3>2 DEF CreateOrderReplayed, ecops, OrdersKept
      <4>3. o \in OrderIds BY <4>1 DEF Listed
      <4>4. o \in Listed(S(r))' BY <1>0, <2>4, <4>1, <4>2, OrdersKeptIn DEF S
      <4> QED BY <4>1, <4>2, <4>3, <4>4
    <3> QED BY <1>9, <3>1, <3>2
  <2> QED BY <2>1, <2>3, <2>4, <2>5, FoundStep DEF OrderPlaced
<1>10. CASE FulfillSucceeds(r)
  <2>1. CASE Record(r, "CONFIRMED") /\ co[r].at \in {"fulfill", "retryFulfill"}
    BY <2>1, RecordInv DEF Finished
  <2>2. CASE Record(r, "RECONCILED") /\ At(r, "fulfillFound")
    BY <2>2, RecordInv DEF Finished, At
  <2>3. CASE AnswerAsIs(r) /\ At(r, "cachedFulfill") BY <2>3, AsIsInv DEF At
  <2> QED BY <1>10, <2>1, <2>2, <2>3 DEF FulfillSucceeds
<1>11. CASE FulfillGivesUp(r)
  <2>1. CASE Record(r, "FULFILL_PENDING") /\ co[r].at \in {"fulfill", "fulfillFound"}
    BY <2>1, RecordInv DEF Finished
  <2>2. CASE AnswerAsIs(r) /\ co[r].at \in {"retryFulfill", "cachedFulfill"} BY <2>2, AsIsInv
  <2> QED BY <1>11, <2>1, <2>2 DEF FulfillGivesUp
<1>12. CASE ReplyUnreadable(r)
  <2>1. co[r].at \in InLock
    BY <1>12, LockPlaces DEF ReplyUnreadable, Lookups, Fulfills, At
  <2>2. OrdersKept BY <1>0, <1>12, CommitKeeps DEF ReplyUnreadable, ecops, OrdersKept
  <2>3. Answer(r, "failed", None) /\ Unlock(r) /\ UNCHANGED <<sess, idem, req>>
    BY <1>12 DEF ReplyUnreadable
  <2> QED BY <2>1, <2>2, <2>3, LeaveAsIs
<1> QED BY <1>1, <1>2, <1>3, <1>4, <1>5, <1>6, <1>7, <1>8, <1>9, <1>10, <1>11, <1>12 DEF Resume

LEMMA CreateSessionInv ==
  ASSUME SagaInv, TypeOK', NEW s \in Sessions, CreateSession(s)
  PROVE  SagaInv'
<1>1. sess[s].state = "absent" /\ Save(s, [sess[s] EXCEPT !.state = "CREATED"])
  BY DEF CreateSession
<1>2. UNCHANGED <<lock, idem, req>> /\ OrdersKept BY DEF CreateSession, ecops, OrdersKept
<1>3. \A r \in Requests : co'[r] = co[r] BY DEF CreateSession
<1> QED BY <1>1, <1>2, <1>3, OpenInv

LEMMA NextInv == SagaInv /\ [Next]_vars => SagaInv'
<1> SUFFICES ASSUME SagaInv, [Next]_vars PROVE SagaInv'
  OBVIOUS
<1>0. TypeOK /\ TypeOK' BY NextTypeOK DEF SagaInv
<1>1. CASE \E s \in Sessions : CreateSession(s) BY <1>0, <1>1, CreateSessionInv
<1>2. CASE \E r \in Requests : Arrive(r) BY <1>0, <1>2, ArriveInv, CheckoutInv DEF Arrive
<1>3. CASE \E r \in Requests : TakeLock(r) BY <1>0, <1>3, TakeLockInv
<1>4. CASE \E r \in Requests : Resume(r) BY <1>0, <1>4, ResumeInv
<1>5. CASE \E r \in Requests : LateOrderTakesEffect(r)
  <2>1. PICK r \in Requests : LateOrderTakesEffect(r) BY <1>5
  <2>2. UNCHANGED <<sess, lock, idem, req, co>> BY <2>1 DEF LateOrderTakesEffect, stores
  <2>3. OrdersKept BY <1>0, <2>1 DEF LateOrderTakesEffect, OrdersKept, TypeOK
  <2> QED BY <1>0, <2>2, <2>3, EnvironmentStep
<1>6. CASE \E h \in HoldIds : TtlElapses(h)
  BY <1>0, <1>6, EnvironmentStep DEF TtlElapses, stores, ecops, OrdersKept
<1>7. CASE UNCHANGED vars
  BY <1>0, <1>7, EnvironmentStep DEF vars, OrdersKept
<1> QED BY <1>1, <1>2, <1>3, <1>4, <1>5, <1>6, <1>7 DEF Next, Idle

LEMMA InitInv == Init => SagaInv
<1> SUFFICES ASSUME Init PROVE SagaInv
  OBVIOUS
<1>1. TypeOK BY InitTypeOK
<1>2. \A s \in Sessions : sess[s] = NewSession /\ lock[s] = None /\ idem[s] = [k \in Keys |-> NoRecord]
  BY DEF Init
<1>3. \A r \in Requests : co[r] = NewFrame /\ S(r) \in Sessions
  BY <1>1, RequestType DEF Init
<1>4. LockOwned
  BY <1>2, <1>3, LockPlaces, NoneAssumption DEF LockOwned, NewFrame
<1>5. SnapshotCurrent BY <1>3, LockPlaces DEF SnapshotCurrent, NewFrame
<1>6. SessionShape BY <1>2 DEF SessionShape, ShapeOf, NewSession, Finished
<1>7. CacheAgrees BY <1>2 DEF CacheAgrees, CacheOf, NewSession, Finished
<1>8. PlaceState BY <1>3 DEF PlaceState, PlaceFits, NewFrame, Unsold, Fulfills
<1>9. FinishedListed BY <1>2 DEF FinishedListed, NewSession, Finished
<1>10. AnswerStands BY <1>3 DEF AnswerStands, AnswerFits, NewFrame
<1> QED BY <1>1, <1>4, <1>5, <1>6, <1>7, <1>8, <1>9, <1>10 DEF SagaInv

(* The inductive invariant holds in every reachable state, whatever the numbers *)
(* of sessions, requests, keys, holds and orders and whichever faults occur.    *)
THEOREM SagaInvariant == Spec => []SagaInv
  BY InitInv, NextInv, PTL DEF Spec

(* The per-session lock excludes, and every path out of a handler leaves it. *)
THEOREM LocksAreLeft == Spec => []LockOwned
<1>1. SagaInv => LockOwned BY DEF SagaInv
<1> QED BY <1>1, SagaInvariant, PTL

(* Writes made without the lock (the cached branch of place_order) never make  *)
(* the snapshot a lock holder works on, and later saves, stale.                *)
THEOREM SnapshotsStayCurrent == Spec => []SnapshotCurrent
<1>1. SagaInv => SnapshotCurrent BY DEF SagaInv
<1> QED BY <1>1, SagaInvariant, PTL

(* The idempotency store never contradicts the session it was written with. *)
THEOREM CacheNeverDisagrees == Spec => []CacheAgrees
<1>1. SagaInv => CacheAgrees BY DEF SagaInv
<1> QED BY <1>1, SagaInvariant, PTL

(* A session that reports a sale has an order of its own at EC-OPS, provided *)
(* EC-OPS filters the list it is asked for.                                  *)
THEOREM SalesAreReal == ListFiltered = TRUE /\ Spec => []FinishedHasOrder
<1> SUFFICES ASSUME ListFiltered = TRUE PROVE Spec => []FinishedHasOrder
  OBVIOUS
<1>1. SagaInv => FinishedHasOrder
  BY DEF SagaInv, FinishedListed, FinishedHasOrder, Listed, OrdersOf
<1> QED BY <1>1, SagaInvariant, PTL

(* An order answered to a client is never taken back or replaced. *)
THEOREM AnswersAreFinal == Spec => []AnswerStands
<1>1. SagaInv => AnswerStands BY DEF SagaInv
<1> QED BY <1>1, SagaInvariant, PTL

-----------------------------------------------------------------------------
(* The saga implements the session's promise.  A step of the saga changes at *)
(* most one session, in one of the ways below.                               *)

SessionMove(s, new) ==
  LET old == sess[s] IN
  /\ \/ old.state = "absent" /\ new.state = "CREATED" /\ new.order = old.order
     \/ old.state = "CREATED" /\ new.state \in {"HELD", "ABANDONED"} /\ new.order = old.order
     \/ old.state = "HELD" /\ new.state \in {"HELD", "COMPENSATED", "ABANDONED"} /\ new.order = old.order
     \/ old.state = "HELD" /\ new.state \in Finished /\ new.order \in Listed(s)
     \/ old.state = "FULFILL_PENDING" /\ new.state = "CONFIRMED" /\ new.order = old.order
  /\ Pinned(s) \/ old.state = "FULFILL_PENDING" => new.key = old.key
  /\ new.key \in {old.key, None} \/ \E r \in Requests : S(r) = s /\ new.key = K(r)
  /\ new.hold = old.hold \/ \E r \in Requests : HoldCreated(r)
  /\ old.state = "HELD" /\ new.state \in {"COMPENSATED", "ABANDONED"} =>
       \E r \in Requests : /\ S(r) = s /\ ReleaseSucceeds(r)
                           /\ new.state = "COMPENSATED" => At(r, "compensate")

SessionStep ==
  \/ UNCHANGED sess
  \/ \E s \in Sessions, new \in SessionRec :
       sess' = [sess EXCEPT ![s] = new] /\ SessionMove(s, new)

LEMMA RecordMoves ==
  ASSUME SagaInv, NEW r \in Requests, NEW state \in Finished,
         co[r].at \in {"fulfill", "fulfillFound", "retryFulfill"}, Record(r, state),
         co[r].at = "retryFulfill" => state = "CONFIRMED"
  PROVE  SessionStep
<1>0. /\ TypeOK /\ S(r) \in Sessions /\ K(r) \in Keys
      /\ Session(r) \in SessionRec /\ co[r].got \in OrderIds \cup {None}
  BY RequestType DEF SagaInv
<1>1. co[r].at \in InLock BY LockPlaces
<1>2. co[r].snap = Session(r) /\ PlaceFits(r, co[r], Session(r)) BY <1>1, Holding
<1>3. state \in States BY DEF States, Finished
<1>4. PICK old \in SessionRec : old = Session(r) BY <1>0
<1>5. PICK o \in OrderIds \cup {None}, k \in Keys : o = co[r].got /\ k = K(r) BY <1>0
<1>6. PICK new : new = [old EXCEPT !.state = state, !.order = o, !.key = k] OBVIOUS
<1>7. /\ new \in SessionRec /\ new.state = state /\ new.order = o /\ new.key = k
      /\ new.hold = old.hold
  BY <1>3, <1>4, <1>5, <1>6 DEF SessionRec
<1>8. sess' = [sess EXCEPT ![S(r)] = new] BY <1>2, <1>4, <1>5, <1>6 DEF Record, Save
<1>9. /\ co[r].got \in Listed(S(r))
      /\ \/ Session(r).state = "HELD" /\ Session(r).key \in {None, K(r)}
         \/ /\ Session(r).state = "FULFILL_PENDING" /\ state = "CONFIRMED"
            /\ co[r].got = Session(r).order /\ Session(r).key = K(r)
  BY <1>2 DEF PlaceFits, Unsold, Fulfills
<1>10. SessionMove(S(r), new)
  BY <1>4, <1>5, <1>7, <1>9 DEF SessionMove, Session, Pinned, Finished
<1> QED BY <1>0, <1>7, <1>8, <1>10 DEF SessionStep

LEMMA ReplayMoves ==
  ASSUME SagaInv, NEW r \in Requests, ConfirmReplay(r) \/ PlaceOrderReplay(r)
  PROVE  SessionStep
<1>1. PICK stale : Cached(r) /\ Save(S(r), FromCache(r, Session(r), stale))
  BY DEF ConfirmReplay, PlaceOrderReplay
<1>2. FromCache(r, Session(r), stale) = Session(r) BY <1>1, CacheHit
<1>3. UNCHANGED sess BY <1>1, <1>2, RequestType DEF SagaInv, TypeOK, Save, Session
<1> QED BY <1>3 DEF SessionStep

LEMMA TakeLockMoves ==
  ASSUME SagaInv, NEW r \in Requests, TakeLock(r)
  PROVE  SessionStep
<1>0. TypeOK /\ S(r) \in Sessions /\ Session(r) \in SessionRec BY RequestType DEF SagaInv
<1>1. CASE ConfirmReplay(r) BY <1>1, ReplayMoves
<1>2. CASE AbandonCreated(r)
  <2>1. PICK old \in SessionRec : old = Session(r) BY <1>0
  <2>2. PICK new : new = [old EXCEPT !.state = "ABANDONED"] OBVIOUS
  <2>3. /\ new \in SessionRec /\ new.state = "ABANDONED"
        /\ new.order = old.order /\ new.key = old.key /\ new.hold = old.hold
    BY <2>1, <2>2 DEF SessionRec, States
  <2>4. old.state = "CREATED" /\ sess' = [sess EXCEPT ![S(r)] = new]
    BY <1>2, <2>1, <2>2 DEF AbandonCreated, Save
  <2>5. SessionMove(S(r), new) BY <2>1, <2>3, <2>4 DEF SessionMove, Session, Pinned
  <2> QED BY <1>0, <2>3, <2>4, <2>5 DEF SessionStep
<1>3. CASE ~ConfirmReplay(r) /\ ~AbandonCreated(r)
  <2>1. UNCHANGED sess
    BY <1>3 DEF TakeLock, HoldLocked, HoldTooLate, ConfirmResumes, ConfirmFresh,
                ConfirmRefused, AbandonRefused, AbandonHeld, stores
  <2> QED BY <2>1 DEF SessionStep
<1> QED BY <1>1, <1>2, <1>3

LEMMA ResumeMoves ==
  ASSUME SagaInv, NEW r \in Requests, Resume(r)
  PROVE  SessionStep
<1>0. /\ TypeOK /\ S(r) \in Sessions /\ K(r) \in Keys /\ Session(r) \in SessionRec
  BY RequestType DEF SagaInv
<1>1. PICK old \in SessionRec : old = Session(r) BY <1>0
<1>2. CASE PlaceOrderReplay(r) BY <1>2, ReplayMoves
<1>3. CASE HoldCreated(r)
  <2>1. co[r].at = "createHold" /\ co[r].at \in InLock BY <1>3, LockPlaces DEF HoldCreated, At
  <2>2. co[r].snap = old /\ old.state = "CREATED" /\ old.hold = None
    BY <1>1, <2>1, Holding DEF PlaceFits, ShapeOf
  <2>3. PICK h \in HoldIds : Save(S(r), [old EXCEPT !.state = "HELD", !.hold = h])
    BY <1>3, <2>2 DEF HoldCreated
  <2>4. PICK new : new = [old EXCEPT !.state = "HELD", !.hold = h] OBVIOUS
  <2>5. new \in SessionRec /\ new.state = "HELD" /\ new.order = old.order /\ new.key = old.key
    BY <1>1, <2>3, <2>4 DEF SessionRec, States
  <2>6. sess' = [sess EXCEPT ![S(r)] = new] BY <2>3, <2>4 DEF Save
  <2>7. SessionMove(S(r), new) BY <1>1, <1>3, <2>2, <2>5 DEF SessionMove, Session, Pinned
  <2> QED BY <1>0, <2>5, <2>6, <2>7 DEF SessionStep
<1>4. CASE StatusUnknown(r)
  <2>1. co[r].at = "lookupTimeout" /\ co[r].at \in InLock
    BY <1>4, LockPlaces DEF StatusUnknown, At
  <2>2. co[r].snap = old /\ old.state = "HELD" /\ old.key = None
    BY <1>1, <2>1, Holding DEF PlaceFits, Unsold
  <2>3. PICK k \in Keys : k = K(r) BY <1>0
  <2>4. PICK new : new = [old EXCEPT !.key = k] OBVIOUS
  <2>5. /\ new \in SessionRec /\ new.state = "HELD" /\ new.order = old.order
        /\ new.key = k /\ new.hold = old.hold
    BY <1>1, <2>2, <2>3, <2>4, PinnedFields DEF SessionRec
  <2>6. sess' = [sess EXCEPT ![S(r)] = new] BY <1>4, <2>2, <2>3, <2>4 DEF StatusUnknown, Save
  <2>7. SessionMove(S(r), new) BY <1>1, <2>2, <2>3, <2>5 DEF SessionMove, Session, Pinned
  <2> QED BY <1>0, <2>5, <2>6, <2>7 DEF SessionStep
<1>5. CASE ReleaseSucceeds(r)
  <2>1. co[r].at \in {"compensate", "abandonRelease"} /\ co[r].at \in InLock
    BY <1>5, LockPlaces DEF ReleaseSucceeds, Releases
  <2>2. /\ co[r].snap = old /\ old.state = "HELD"
        /\ co[r].at = "compensate" => old.key = None
    BY <1>1, <2>1, Holding DEF PlaceFits, Unsold
  <2>3. PICK new : new = IF At(r, "compensate") THEN Compensated(old) ELSE Abandoned(old)
    OBVIOUS
  <2>4. /\ new \in SessionRec /\ new.state \in {"COMPENSATED", "ABANDONED"}
        /\ new.order = old.order
        /\ new.state = "COMPENSATED" => At(r, "compensate")
    BY <1>1, <2>3, ClosedFields DEF Abandoned, SessionRec
  <2>5. /\ old.key # None => new.key = old.key
        /\ new.key \in {old.key, None} /\ new.hold = old.hold
    BY <1>1, <2>2, <2>3 DEF At, Abandoned, Compensated, SessionRec
  <2>6. sess' = [sess EXCEPT ![S(r)] = new]
    BY <1>5, <2>2, <2>3 DEF ReleaseSucceeds, At, Save
  <2>7. SessionMove(S(r), new)
    BY <1>1, <1>5, <2>2, <2>4, <2>5 DEF SessionMove, Session, Pinned
  <2> QED BY <1>0, <2>4, <2>6, <2>7 DEF SessionStep
<1>6. CASE FulfillSucceeds(r)
  <2>1. CASE Record(r, "CONFIRMED") /\ co[r].at \in {"fulfill", "retryFulfill"}
    BY <2>1, RecordMoves DEF Finished
  <2>2. CASE Record(r, "RECONCILED") /\ At(r, "fulfillFound")
    BY <2>2, RecordMoves DEF Finished, At
  <2>3. CASE AnswerAsIs(r) BY <2>3 DEF AnswerAsIs, SessionStep
  <2> QED BY <1>6, <2>1, <2>2, <2>3 DEF FulfillSucceeds
<1>7. CASE FulfillGivesUp(r)
  <2>1. CASE Record(r, "FULFILL_PENDING") /\ co[r].at \in {"fulfill", "fulfillFound"}
    BY <2>1, RecordMoves DEF Finished
  <2>2. CASE AnswerAsIs(r) BY <2>2 DEF AnswerAsIs, SessionStep
  <2> QED BY <1>7, <2>1, <2>2 DEF FulfillGivesUp
<1>8. CASE \/ RejectCart(r) \/ ValidateActive(r) \/ ValidateFails(r) \/ PlaceOrderRefused(r)
           \/ PlaceOrderResumes(r) \/ HoldRequested(r) \/ HoldRefused(r) \/ StockChecked(r)
           \/ StockShort(r) \/ HoldCreateFails(r) \/ LookupFound(r) \/ LookupAgain(r)
           \/ PreflightEmpty(r) \/ LookupEmpty(r) \/ LookupFails(r) \/ StillUnknown(r)
  <2>1. UNCHANGED sess
    BY <1>8 DEF RejectCart, ValidateActive, ValidateFails, PlaceOrderRefused, PlaceOrderResumes,
                HoldRequested, HoldRefused, StockChecked, StockShort, HoldCreateFails, LookupFound,
                LookupAgain, PreflightEmpty, LookupEmpty, LookupFails, StillUnknown, stores
  <2> QED BY <2>1 DEF SessionStep
<1>9. CASE \/ CreateOrder(r) \/ CreateOrderReplayed(r) \/ CreateOrderConflict(r)
           \/ CreateOrderFails(r) \/ CreateOrderTimeout(r) \/ FulfillTimeout(r)
           \/ ReleaseTimeout(r) \/ ReleaseGivesUp(r) \/ ReplyUnreadable(r)
  <2>1. UNCHANGED sess
    BY <1>9 DEF CreateOrder, CreateOrderReplayed, CreateOrderConflict, CreateOrderFails,
                CreateOrderTimeout, FulfillTimeout, ReleaseTimeout, ReleaseGivesUp,
                ReplyUnreadable, stores
  <2> QED BY <2>1 DEF SessionStep
<1> QED BY <1>2, <1>3, <1>4, <1>5, <1>6, <1>7, <1>8, <1>9 DEF Resume

LEMMA NextMoves == SagaInv /\ [Next]_vars => SessionStep
<1> SUFFICES ASSUME SagaInv, [Next]_vars PROVE SessionStep
  OBVIOUS
<1>1. CASE \E s \in Sessions :
        sess[s].state = "absent" /\ Save(s, [sess[s] EXCEPT !.state = "CREATED"])
  <2>1. PICK s \in Sessions :
          sess[s].state = "absent" /\ Save(s, [sess[s] EXCEPT !.state = "CREATED"])
    BY <1>1
  <2>2. PICK old \in SessionRec : old = sess[s] BY DEF SagaInv, TypeOK
  <2>3. PICK new : new = [old EXCEPT !.state = "CREATED"] OBVIOUS
  <2>4. /\ new \in SessionRec /\ new.state = "CREATED"
        /\ new.order = old.order /\ new.key = old.key /\ new.hold = old.hold
    BY <2>2, <2>3 DEF SessionRec, States
  <2>5. old.state = "absent" /\ sess' = [sess EXCEPT ![s] = new]
    BY <2>1, <2>2, <2>3 DEF Save
  <2>6. SessionMove(s, new) BY <2>2, <2>4, <2>5 DEF SessionMove, Pinned
  <2> QED BY <2>4, <2>5, <2>6 DEF SessionStep
<1>2. CASE \E r \in Requests : Arrive(r)
  <2>1. PICK r \in Requests : Arrive(r) BY <1>2
  <2>2. CASE ArriveCheckout(r) BY <1>1, <2>2, RequestType DEF ArriveCheckout, SagaInv, Session
  <2>3. CASE ArriveCart(r) \/ ArriveConfirm(r) \/ ArriveAbandon(r)
    BY <2>3 DEF ArriveCart, ArriveConfirm, ArriveAbandon, stores, SessionStep
  <2> QED BY <2>1, <2>2, <2>3 DEF Arrive
<1>3. CASE \E r \in Requests : TakeLock(r) BY <1>3, TakeLockMoves
<1>4. CASE \E r \in Requests : Resume(r) BY <1>4, ResumeMoves
<1>5. CASE \E r \in Requests : LateOrderTakesEffect(r)
  BY <1>5 DEF LateOrderTakesEffect, stores, SessionStep
<1>6. CASE \E h \in HoldIds : TtlElapses(h) BY <1>6 DEF TtlElapses, stores, SessionStep
<1>7. CASE UNCHANGED vars BY <1>7 DEF vars, SessionStep
<1>8. CASE \E s \in Sessions : CreateSession(s) BY <1>1, <1>8 DEF CreateSession
<1> QED BY <1>2, <1>3, <1>4, <1>5, <1>6, <1>7, <1>8 DEF Next, Idle

(* Two sessions never have the same sale. *)
LEMMA SalesDiffer ==
  ASSUME SagaInv, ListFiltered = TRUE,
         NEW s \in Sessions, sess[s].state = "HELD", NEW o \in Listed(s)
  PROVE  \A other \in Sessions : sess[other].order # o
<1> SUFFICES ASSUME NEW other \in Sessions, sess[other].order = o PROVE FALSE
  OBVIOUS
<1>1. o # None BY NoneAssumption DEF Listed
<1>2. sess[other].state \in Finished BY <1>1 DEF SagaInv, SessionShape, ShapeOf
<1>3. o \in Listed(other) BY <1>2 DEF SagaInv, FinishedListed
<1>4. other = s BY <1>3 DEF Listed
<1> QED BY <1>2, <1>4 DEF Finished

LEMMA Stages ==
  /\ StageOf("absent") = "unborn" /\ StageOf("CREATED") = "open"
  /\ StageOf("HELD") = "reserved" /\ StageOf("FULFILL_PENDING") = "pending"
  /\ StageOf("CONFIRMED") = "settled" /\ StageOf("RECONCILED") = "settled"
  /\ StageOf("ABANDONED") = "closed" /\ StageOf("COMPENSATED") = "closed"
  BY DEF StageOf

LEMMA StepRefines ==
  ASSUME SagaInv, TypeOK', SessionStep, ListFiltered = TRUE
  PROVE  Lifecycle!LifecycleNext \/ UNCHANGED Lifecycle!lifecycleVars
<1>1. CASE UNCHANGED sess BY <1>1 DEF Lifecycle!lifecycleVars
<1>2. CASE ~UNCHANGED sess
  <2>1. PICK s \in Sessions, new \in SessionRec :
          sess' = [sess EXCEPT ![s] = new] /\ SessionMove(s, new)
    BY <1>2 DEF SessionStep
  <2>2. PICK old \in SessionRec : old = sess[s] BY DEF SagaInv, TypeOK
  <2>3. sess'[s] = new /\ \A u \in Sessions \ {s} : sess'[u] = sess[u]
    BY <2>1 DEF SagaInv, TypeOK
  <2> DEFINE stageOf == [u \in Sessions |-> StageOf(sess[u].state)]
             saleOf == [u \in Sessions |-> sess[u].order]
  <2>4. stageOf' = [stageOf EXCEPT ![s] = StageOf(new.state)] BY <2>3
  <2>5. saleOf' = [saleOf EXCEPT ![s] = new.order] BY <2>3
  <2>6. stageOf[s] = StageOf(old.state) /\ saleOf[s] = old.order BY <2>2
  <2>7. new.order = old.order => UNCHANGED saleOf BY <2>5, <2>6
  <2>8. StageOf(new.state) = StageOf(old.state) => UNCHANGED stageOf BY <2>4, <2>6
  <2>9. CASE old.state = "absent" /\ new.state = "CREATED" /\ new.order = old.order
    <3>1. Lifecycle!Open(s)
      BY <2>4, <2>6, <2>7, <2>9, Stages DEF Lifecycle!Open, Lifecycle!Move
    <3> QED BY <3>1 DEF Lifecycle!LifecycleNext
  <2>10. CASE old.state = "CREATED" /\ new.state = "HELD" /\ new.order = old.order
    <3>1. Lifecycle!ReserveStock(s)
      BY <2>4, <2>6, <2>7, <2>10, Stages DEF Lifecycle!ReserveStock, Lifecycle!Move
    <3> QED BY <3>1 DEF Lifecycle!LifecycleNext
  <2>11. CASE /\ old.state \in {"CREATED", "HELD"}
              /\ new.state \in {"COMPENSATED", "ABANDONED"} /\ new.order = old.order
    <3>1. Lifecycle!Close(s)
      BY <2>4, <2>6, <2>7, <2>11, Stages, ZenonT(40) DEF Lifecycle!Close, Lifecycle!Move
    <3> QED BY <3>1 DEF Lifecycle!LifecycleNext
  <2>12. CASE old.state = "HELD" /\ new.state = "HELD" /\ new.order = old.order
    BY <2>7, <2>8, <2>12 DEF Lifecycle!lifecycleVars
  <2>13. CASE old.state = "HELD" /\ new.state \in Finished /\ new.order \in Listed(s)
    <3>1. PICK o \in OrderIds : o = new.order BY <2>13 DEF Listed
    <3>2. \A other \in Sessions : saleOf[other] # o BY <2>2, <2>13, <3>1, SalesDiffer
    <3>3. StageOf(new.state) \in {"pending", "settled"} BY <2>13, Stages DEF Finished
    <3>4. Lifecycle!Sell(s, o)
      BY <2>4, <2>5, <2>6, <2>13, <3>1, <3>2, <3>3, Stages, ZenonT(40) DEF Lifecycle!Sell, Lifecycle!Move
    <3> QED BY <3>1, <3>4 DEF Lifecycle!LifecycleNext
  <2>14. CASE /\ old.state = "FULFILL_PENDING" /\ new.state = "CONFIRMED"
              /\ new.order = old.order
    <3>1. Lifecycle!Settle(s)
      BY <2>4, <2>6, <2>7, <2>14, Stages DEF Lifecycle!Settle, Lifecycle!Move
    <3> QED BY <3>1 DEF Lifecycle!LifecycleNext
  <2> HIDE DEF stageOf, saleOf
  <2> QED BY <2>1, <2>2, <2>9, <2>10, <2>11, <2>12, <2>13, <2>14 DEF SessionMove
<1> QED BY <1>1, <1>2

(* A session is opened, reserves once and then either sells, its order attached *)
(* for ever and no other session's, or is closed: the saga, with all its        *)
(* retries, replays and compensations, is an implementation of that promise,    *)
(* provided EC-OPS filters the list it is asked for.                            *)
THEOREM SagaImplementsLifecycle == ListFiltered = TRUE /\ Spec => ImplementsLifecycle
<1> SUFFICES ASSUME ListFiltered = TRUE PROVE Spec => ImplementsLifecycle
  OBVIOUS
<1>1. Init => Lifecycle!LifecycleInit
  <2>1. StageOf("absent") = "unborn" BY Stages
  <2> QED BY <2>1 DEF Init, NewSession, Lifecycle!LifecycleInit
<1>2. SagaInv /\ SagaInv' /\ [Next]_vars => [Lifecycle!LifecycleNext]_(Lifecycle!lifecycleVars)
  BY NextMoves, StepRefines DEF SagaInv
<1> QED BY <1>1, <1>2, SagaInvariant, PTL DEF Spec, ImplementsLifecycle, Lifecycle!LifecycleSpec

-----------------------------------------------------------------------------
(* EC-OPS makes orders one at a time, for a request and with its key. *)

OrderMade(r, o) ==
  /\ ~Placed(o)
  /\ Accepts(S(r), K(r))
  /\ order' = [order EXCEPT ![o] = [ref |-> S(r), key |-> K(r)]]

LEMMA OrderStep ==
  ASSUME [Next]_vars, ~UNCHANGED order
  PROVE  \E r \in Requests, o \in OrderIds :
           /\ OrderMade(r, o)
           /\ LateOrderTakesEffect(r) \/ (At(r, "createOrder") /\ Resume(r))
<1>1. PICK r \in Requests : Arrive(r) \/ TakeLock(r) \/ Resume(r) \/ LateOrderTakesEffect(r)
  BY DEF Next, CreateSession, TtlElapses, Idle, vars, ecops
<1>2. ~Arrive(r) BY DEF Arrive, ArriveCart, ArriveCheckout, ArriveConfirm, ArriveAbandon, ecops
<1>3. ~TakeLock(r)
  BY DEF TakeLock, HoldLocked, HoldTooLate, ConfirmReplay, ConfirmResumes,
     ConfirmFresh, ConfirmRefused, AbandonRefused, AbandonCreated, AbandonHeld, stores, ecops
<1>4. CASE Resume(r)
  <2>1. \/ CreateOrder(r) \/ CreateOrderFails(r) \/ CreateOrderTimeout(r)
        \/ ReplyUnreadable(r) /\ ~UNCHANGED order
    BY <1>4 DEF Resume, RejectCart, ValidateActive, ValidateFails, PlaceOrderReplay,
       PlaceOrderRefused, PlaceOrderResumes, HoldRequested, HoldRefused, StockChecked, StockShort,
       HoldCreated, HoldCreateFails, LookupFound, LookupAgain, PreflightEmpty, LookupEmpty,
       LookupFails, StatusUnknown, StillUnknown, CreateOrderReplayed, CreateOrderConflict,
       FulfillSucceeds, FulfillTimeout, FulfillGivesUp, ReleaseSucceeds, ReleaseTimeout,
       ReleaseGivesUp, Record, AnswerAsIs, ecops
  <2>2. At(r, "createOrder")
    BY <2>1 DEF CreateOrder, CreateOrderFails, CreateOrderTimeout, ReplyUnreadable, ecops
  <2>3. PICK o \in OrderIds : Commit(o, S(r), K(r))
    BY <2>1 DEF CreateOrder, CreateOrderFails, CreateOrderTimeout, ReplyUnreadable, ecops
  <2> QED BY <1>4, <2>2, <2>3 DEF Commit, OrderMade
<1>5. CASE LateOrderTakesEffect(r)
  <2>1. PICK o \in OrderIds : OrderMade(r, o) BY <1>5 DEF LateOrderTakesEffect, OrderMade
  <2> QED BY <1>5, <2>1
<1> QED BY <1>1, <1>2, <1>3, <1>4, <1>5

-----------------------------------------------------------------------------
(* While the status of an order is unknown. *)

(* An order is made only for a session that is not pinned. *)
LEMMA PinnedOrders ==
  ASSUME SagaInv, [Next]_vars, late = {}, NEW s \in Sessions, Pinned(s)
  PROVE  OrdersOf(s)' \subseteq OrdersOf(s)
<1>1. CASE UNCHANGED order BY <1>1 DEF OrdersOf
<1>2. CASE ~UNCHANGED order
  <2>1. PICK r \in Requests, o \in OrderIds : OrderMade(r, o) /\ At(r, "createOrder")
    BY <1>2, OrderStep DEF LateOrderTakesEffect
  <2>2. co[r].at \in InLock BY <2>1, LockPlaces DEF At
  <2>3. Session(r).key = None BY <2>1, <2>2, Holding DEF At, PlaceFits, Unsold
  <2>4. S(r) # s BY <2>3 DEF Pinned, Session
  <2> QED BY <2>1, <2>4 DEF OrderMade, OrdersOf, SagaInv, TypeOK
<1> QED BY <1>1, <1>2

LEMMA NothingLate ==
  ASSUME LateOrders = FALSE
  PROVE  SagaInv /\ late = {} /\ [Next]_vars => late' = {}
<1> SUFFICES ASSUME late = {}, [Next]_vars PROVE late' = {}
  OBVIOUS
<1>1. CASE \E r \in Requests : Arrive(r)
  BY <1>1 DEF Arrive, ArriveCart, ArriveCheckout, ArriveConfirm, ArriveAbandon, ecops
<1>2. CASE \E r \in Requests : TakeLock(r)
  BY <1>2 DEF TakeLock, HoldLocked, HoldTooLate, ConfirmReplay, ConfirmResumes,
     ConfirmFresh, ConfirmRefused, AbandonRefused, AbandonCreated, AbandonHeld, ecops
<1>3. CASE \E r \in Requests : Resume(r)
  BY <1>3, ZenonT(60) DEF Resume, RejectCart, ValidateActive, ValidateFails, PlaceOrderReplay,
     PlaceOrderRefused, PlaceOrderResumes, HoldRequested, HoldRefused, StockChecked, StockShort,
     HoldCreated, HoldCreateFails, LookupFound, LookupAgain, PreflightEmpty, LookupEmpty,
     LookupFails, StatusUnknown, StillUnknown, CreateOrder, CreateOrderReplayed,
     CreateOrderConflict, CreateOrderFails, CreateOrderTimeout, FulfillSucceeds, FulfillTimeout,
     FulfillGivesUp, ReleaseSucceeds, ReleaseTimeout, ReleaseGivesUp, ReplyUnreadable, Record,
     AnswerAsIs, Commit, ecops
<1>4. CASE \E r \in Requests : LateOrderTakesEffect(r) BY <1>4 DEF LateOrderTakesEffect
<1> QED BY <1>1, <1>2, <1>3, <1>4 DEF Next, CreateSession, TtlElapses, Idle, vars, ecops

(* ADR-008: where a timed-out POST /orders takes effect at once or never, a session *)
(* pinned to a key keeps it until the order is found, and gains no other order.     *)
THEOREM PinnedSessionsNeverPost == LateOrders = FALSE /\ Spec => PinnedNeverPosts
<1> DEFINE Inv == SagaInv /\ late = {} /\ LateOrders = FALSE
           Step == \A s \in Sessions : Pinned(s) => /\ sess'[s].key = sess[s].key
                                                    /\ OrdersOf(s)' \subseteq OrdersOf(s)
<1>1. LateOrders = FALSE /\ Init => Inv BY InitInv DEF Init
<1>2. Inv /\ [Next]_vars => Inv' BY NextInv, NothingLate
<1>3. Inv /\ [Next]_vars => [Step]_vars
  <2> SUFFICES ASSUME SagaInv, late = {}, [Next]_vars, NEW s \in Sessions, Pinned(s)
               PROVE  sess'[s].key = sess[s].key /\ OrdersOf(s)' \subseteq OrdersOf(s)
    OBVIOUS
  <2>1. SessionStep BY NextMoves
  <2>2. sess'[s].key = sess[s].key BY <2>1 DEF SessionStep, SessionMove, SagaInv, TypeOK
  <2> QED BY <2>2, PinnedOrders
<1>4. PinnedNeverPosts <=> [][Step]_vars BY DEF PinnedNeverPosts
<1> HIDE DEF Inv, Step
<1> QED BY <1>1, <1>2, <1>3, <1>4, PTL DEF Spec
====
