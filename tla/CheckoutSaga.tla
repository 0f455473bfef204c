---- MODULE CheckoutSaga ----
(***************************************************************************)
(* The checkout saga of src/src/saga/coordinator.py with the handlers of   *)
(* checkout/service.py that call it, the session and idempotency stores it *)
(* writes, and the two upstreams it drives: KB-IHMS (holds) and EC-OPS     *)
(* (orders).                                                               *)
(*                                                                         *)
(* Every request is an asyncio coroutine.  A step of the model is what a   *)
(* coroutine does between two awaits; an upstream call is one step, which  *)
(* joins the effect at the upstream with the resumption of the coroutine.  *)
(* Each call may also fail or time out, with or without its effect.        *)
(***************************************************************************)
EXTENDS Integers, FiniteSets

CONSTANTS
  Sessions,         \* session ids; a session's correlation_id is its id here
  Requests,         \* HTTP requests, each handled once
  Keys,             \* Idempotency-Key values clients send
  HoldIds,          \* bound: the holds KB-IHMS ever creates
  OrderIds,         \* bound: the orders EC-OPS ever creates
  None,             \* Python's None
  Ops,              \* the operations the requests of a run may be
  MaxRetries,       \* max_retries of the three step helpers (2 in the code)
  EnforceUnique,    \* EC-OPS enforces Idempotency-Key and client_reference
  ListFiltered,     \* GET /orders honours its client_reference parameter
  FulfillEndpoint,  \* KB-IHMS has POST /api/holds/{id}/fulfill
  HoldsExpire,      \* expires_at of a hold may pass
  AmbiguousHolds,   \* a failed POST /api/holds may have created the hold
  AmbiguousErrors,  \* a failed POST /orders may have created the order
  LateOrders,       \* a timed-out POST /orders may take effect later
  BadReplies        \* a 2xx may have a body that does not validate

ASSUME NoneAssumption ==
  None \notin Sessions \cup Requests \cup Keys \cup HoldIds \cup OrderIds
ASSUME RetriesAssumption == MaxRetries \in Nat
ASSUME OpsAssumption == Ops \subseteq {"hold", "confirm", "abandon", "place_order", "checkout"}
ASSUME FaultsAssumption ==
  /\ EnforceUnique \in BOOLEAN
  /\ ListFiltered \in BOOLEAN
  /\ FulfillEndpoint \in BOOLEAN
  /\ HoldsExpire \in BOOLEAN
  /\ AmbiguousHolds \in BOOLEAN
  /\ AmbiguousErrors \in BOOLEAN
  /\ LateOrders \in BOOLEAN
  /\ BadReplies \in BOOLEAN

VARIABLES
  sess,     \* LockedSessionStore: the saved CheckoutSession of every id
  lock,     \* the per-session asyncio.Lock: its holder, or None
  idem,     \* InMemoryIdempotencyStore: confirm responses by session and key
  req,      \* what each request asks: operation, session, key
  co,       \* the coroutine of each request: where it awaits, its locals
  hold,     \* KB-IHMS: the holds
  elapsed,  \* the holds whose expires_at has passed
  order,    \* EC-OPS: the orders
  late      \* requests whose timed-out POST /orders is still to take effect

stores == <<sess, lock, idem>>
ihms == <<hold, elapsed>>
ecops == <<order, late>>
vars == <<sess, lock, idem, req, co, hold, elapsed, order, late>>

-----------------------------------------------------------------------------
(* Sessions: session/models.py *)

States == {"absent", "CREATED", "HELD", "FULFILL_PENDING", "CONFIRMED",
           "ABANDONED", "COMPENSATED", "RECONCILED"}
Terminal == {"CONFIRMED", "ABANDONED", "COMPENSATED", "RECONCILED"}
Finished == {"FULFILL_PENDING", "CONFIRMED", "RECONCILED"}

SessionRec == [state : States, hold : HoldIds \cup {None},
               order : OrderIds \cup {None}, key : Keys \cup {None}]
NewSession == [state |-> "absent", hold |-> None, order |-> None, key |-> None]

(* An idempotency record; its order is None when there is no record. *)
CacheRec == [order : OrderIds \cup {None}, state : States]
NoRecord == [order |-> None, state |-> "absent"]

HoldRec == [status : {"none", "active", "released", "expired", "fulfilled"},
            owner : Sessions \cup {None}]
OrderRec == [ref : Sessions \cup {None}, key : Keys \cup {None}]
NoOrder == [ref |-> None, key |-> None]

-----------------------------------------------------------------------------
(* Coroutines *)

Waiting == {"holdLock", "confirmLock", "abandonLock"}
Lookups == {"preflight", "lookup409", "lookupTimeout", "resolve"}
Fulfills == {"fulfill", "fulfillFound", "retryFulfill", "cachedFulfill"}
Releases == {"compensate", "abandonRelease"}
InLock == {"stock", "createHold", "createOrder"} \cup Lookups \cup Fulfills \cup Releases
Places == {"idle", "refresh", "validate", "done"} \cup Waiting \cup InLock

(* at: the await; tries: failed attempts of the retry loop it is in; snap: the *)
(* local `session`; got: the local `order`, and the order_id of the answer.    *)
Frame == [at : Places, tries : 0..MaxRetries, snap : SessionRec,
          got : OrderIds \cup {None}, answer : {"none", "ok", "failed", "unknown"}]
NewFrame == [at |-> "idle", tries |-> 0, snap |-> NewSession,
             got |-> None, answer |-> "none"]

At(r, place) == co[r].at = place
S(r) == req[r].sid
K(r) == req[r].key
Session(r) == sess[S(r)]
Cached(r) == idem[S(r)][K(r)].order # None

(* The coroutine awaits at `place` next, its retry loop restarted. *)
Moved(r, place) == [co[r] EXCEPT !.at = place, !.tries = 0]
Loaded(r, place, session) ==
  [Moved(r, place) EXCEPT !.snap = session, !.got = session.order]
Goto(r, place) == co' = [co EXCEPT ![r] = Moved(r, place)]
(* Faulty: a loop without its bound; a loop whose counter restarts. *)
Again_Unbounded(r) == co' = [co EXCEPT ![r] = [@ EXCEPT !.tries = @ + 1]]
Again_Restarting(r) == co' = [co EXCEPT ![r] = [@ EXCEPT !.tries = (@ + 1) % (MaxRetries + 1)]]
Again(r) == /\ co[r].tries < MaxRetries
            /\ co' = [co EXCEPT ![r] = [co[r] EXCEPT !.tries = co[r].tries + 1]]
LastTry(r) == co[r].tries = MaxRetries

(* The handler returns or raises: its frame is gone, the answer remains. *)
Answer(r, status, o) ==
  co' = [co EXCEPT ![r] = [NewFrame EXCEPT !.at = "done", !.answer = status, !.got = o]]

Save(s, session) == sess' = [sess EXCEPT ![s] = session]
(* Faulty: the first response is kept, as a setdefault would. *)
Remember_FirstWins(s, k, o, state) ==
  idem' = IF idem[s][k].order # None THEN idem
          ELSE [idem EXCEPT ![s] = [@ EXCEPT ![k] = [order |-> o, state |-> state]]]
Remember(s, k, o, state) ==
  idem' = [idem EXCEPT ![s] = [@ EXCEPT ![k] = [order |-> o, state |-> state]]]

(* async with lock_for(session_id): `session` is read once the lock is held. *)
(* Faulty: the lock does not exclude. *)
Free_Always(r) == TRUE
Free(r) == lock[S(r)] = None
Enter(r, place) == /\ lock' = [lock EXCEPT ![S(r)] = r]
                   /\ co' = [co EXCEPT ![r] = Loaded(r, place, Session(r))]
Unlock(r) == lock' = [lock EXCEPT ![S(r)] = None]

-----------------------------------------------------------------------------
(* EC-OPS and KB-IHMS: what the orchestrator sees of them *)

Placed(o) == order[o].ref # None
OrdersOf(s) == {o \in OrderIds : order[o].ref = s}
(* What GET /orders?client_reference=s lists, of which the first is taken. *)
(* Faulty: the parameter is not sent. *)
Listed_All(s) == {o \in OrderIds : Placed(o)}
Listed(s) == {o \in OrderIds : Placed(o) /\ (ListFiltered => order[o].ref = s)}
KeyTaken(k) == \E o \in OrderIds : Placed(o) /\ order[o].key = k
Accepts(s, k) == EnforceUnique => ~KeyTaken(k) /\ OrdersOf(s) = {}

Commit(o, s, k) == /\ ~Placed(o)
                   /\ Accepts(s, k)
                   /\ order' = [order EXCEPT ![o] = [ref |-> s, key |-> k]]
                   /\ UNCHANGED late

Reserve(h, s) == /\ hold[h].status = "none"
                 /\ hold' = [hold EXCEPT ![h] = [status |-> "active", owner |-> s]]
                 /\ UNCHANGED elapsed

(* DELETE and fulfil act on an active hold and leave any other as it is. *)
Release(h) == /\ hold' = [hold EXCEPT ![h].status =
                            IF @ = "active" THEN "released" ELSE @]
              /\ UNCHANGED elapsed
Fulfill(h) == /\ hold' = [hold EXCEPT ![h].status =
                            IF @ = "active" /\ FulfillEndpoint THEN "fulfilled" ELSE @]
              /\ UNCHANGED elapsed

-----------------------------------------------------------------------------
(* A request arrives: api/routes.py and checkout/service.py *)

CreateSession(s) ==
  /\ sess[s].state = "absent"
  /\ Save(s, [sess[s] EXCEPT !.state = "CREATED"])
  /\ UNCHANGED <<lock, idem, req, co, ihms, ecops>>

Arrives(r, op) == At(r, "idle") /\ req[r].op = op /\ Session(r).state # "absent"

(* hold and place-order first refresh the catalog from KB-IHMS. *)
ArriveCart(r) ==
  /\ \E op \in {"hold", "place_order"} : Arrives(r, op)
  /\ Goto(r, "refresh")
  /\ UNCHANGED <<stores, req, ihms, ecops>>

(* One-click checkout opens a session of its own, whatever key it is sent with, *)
(* and goes on as place_order.                                                  *)
ArriveCheckout(r) ==
  /\ At(r, "idle")
  /\ req[r].op = "checkout"
  /\ Session(r).state = "absent"
  /\ Save(S(r), [Session(r) EXCEPT !.state = "CREATED"])
  /\ Goto(r, "refresh")
  /\ UNCHANGED <<lock, idem, req, ihms, ecops>>

(* confirm checks the hold at KB-IHMS before it takes the lock, but only for a *)
(* session without a pinned key.                                               *)
ArriveConfirm(r) ==
  /\ Arrives(r, "confirm")
  /\ co' = IF Session(r).state \in {"HELD", "FULFILL_PENDING"} /\ Session(r).key = None
           THEN [co EXCEPT ![r] = Loaded(r, "validate", Session(r))]
           ELSE [co EXCEPT ![r] = Moved(r, "confirmLock")]
  /\ UNCHANGED <<stores, req, ihms, ecops>>

ArriveAbandon(r) ==
  /\ Arrives(r, "abandon")
  /\ Goto(r, "abandonLock")
  /\ UNCHANGED <<stores, req, ihms, ecops>>

(* The catalog is unreachable, the cart is empty or one of its SKUs unknown. *)
RejectCart(r) ==
  /\ At(r, "refresh")
  /\ Answer(r, "failed", None)
  /\ UNCHANGED <<stores, req, ihms, ecops>>

(* KB-IHMS has the hold, and a 200 is taken whatever status it tells: one that has *)
(* run out is refused here only if KB-IHMS answers 409 for it (ValidateFails).     *)
ValidateActive(r) ==
  /\ At(r, "validate")
  /\ hold[co[r].snap.hold].status # "released"
  /\ Goto(r, "confirmLock")
  /\ UNCHANGED <<stores, req, ihms, ecops>>

(* HoldExpiredError on 404 and 409; any other gateway error propagates. *)
ValidateFails(r) ==
  /\ At(r, "validate")
  /\ Answer(r, "failed", None)
  /\ UNCHANGED <<stores, req, ihms, ecops>>

-----------------------------------------------------------------------------
(* place_order and place_hold up to the lock, without it *)

PlaceOrder(r) == At(r, "refresh") /\ req[r].op \in {"place_order", "checkout"}

(* The session with what a cached confirm response says of it. *)
FromCache(r, session, stale) ==
  [session EXCEPT !.order = idem[S(r)][K(r)].order,
                  !.state = IF @ \in stale THEN idem[S(r)][K(r)].state ELSE @]

PlaceOrderReplay(r) ==
  /\ PlaceOrder(r)
  /\ Cached(r)
  /\ Save(S(r), FromCache(r, Session(r), {"CREATED", "HELD", "FULFILL_PENDING"}))
  /\ Answer(r, "ok", idem[S(r)][K(r)].order)
  /\ UNCHANGED <<lock, idem, req, ihms, ecops>>

PlaceOrderRefused(r) ==
  /\ PlaceOrder(r)
  /\ ~Cached(r)
  /\ Session(r).state \in Terminal
  /\ Answer(r, "failed", None)
  /\ UNCHANGED <<stores, req, ihms, ecops>>

PlaceOrderResumes(r) ==
  /\ PlaceOrder(r)
  /\ ~Cached(r)
  /\ Session(r).state \in {"HELD", "FULFILL_PENDING"}
  /\ Goto(r, "confirmLock")
  /\ UNCHANGED <<stores, req, ihms, ecops>>

HoldRequested(r) ==
  /\ At(r, "refresh")
  /\ req[r].op = "hold" \/ (PlaceOrder(r) /\ ~Cached(r))
  /\ Session(r).state = "CREATED"
  /\ Goto(r, "holdLock")
  /\ UNCHANGED <<stores, req, ihms, ecops>>

HoldRefused(r) ==
  /\ At(r, "refresh")
  /\ req[r].op = "hold"
  /\ Session(r).state # "CREATED"
  /\ Answer(r, "failed", None)
  /\ UNCHANGED <<stores, req, ihms, ecops>>

-----------------------------------------------------------------------------
(* place_hold, under the lock *)

(* Faulty: the state is not checked again under the lock. *)
HoldLocked_NoRecheck(r) ==
  /\ At(r, "holdLock")
  /\ Free(r)
  /\ Enter(r, "stock")
  /\ UNCHANGED <<sess, idem, req, ihms, ecops>>
HoldLocked(r) ==
  /\ At(r, "holdLock")
  /\ Free(r)
  /\ Session(r).state = "CREATED"
  /\ Enter(r, "stock")
  /\ UNCHANGED <<sess, idem, req, ihms, ecops>>

HoldTooLate(r) ==
  /\ At(r, "holdLock")
  /\ Free(r)
  /\ Session(r).state # "CREATED"
  /\ Answer(r, "failed", None)
  /\ UNCHANGED <<stores, req, ihms, ecops>>

(* The pre-check passes when stock suffices, or when it cannot be read. *)
StockChecked(r) ==
  /\ At(r, "stock")
  /\ Goto(r, "createHold")
  /\ UNCHANGED <<stores, req, ihms, ecops>>

StockShort(r) ==
  /\ At(r, "stock")
  /\ Answer(r, "failed", None)
  /\ Unlock(r)
  /\ UNCHANGED <<sess, idem, req, ihms, ecops>>

(* place_order goes on to confirm, whose lock it takes anew. *)
HoldCreated(r) ==
  /\ At(r, "createHold")
  /\ \E h \in HoldIds :
       /\ Reserve(h, S(r))
       /\ Save(S(r), [co[r].snap EXCEPT !.state = "HELD", !.hold = h])
  /\ IF req[r].op = "hold" THEN Answer(r, "ok", None) ELSE Goto(r, "confirmLock")
  /\ Unlock(r)
  /\ UNCHANGED <<idem, req, ecops>>

(* Faulty: the lock is not left when the call raises. *)
HoldCreateFails_KeepsLock(r) ==
  /\ At(r, "createHold")
  /\ \/ UNCHANGED ihms
     \/ AmbiguousHolds /\ \E h \in HoldIds : Reserve(h, S(r))
  /\ Answer(r, "failed", None)
  /\ UNCHANGED <<stores, req, ecops>>
(* 409, 422, 5xx, a transport error or a timeout: nothing is saved. *)
HoldCreateFails(r) ==
  /\ At(r, "createHold")
  /\ \/ UNCHANGED ihms
     \/ AmbiguousHolds /\ \E h \in HoldIds : Reserve(h, S(r))
  /\ Answer(r, "failed", None)
  /\ Unlock(r)
  /\ UNCHANGED <<sess, idem, req, ecops>>

-----------------------------------------------------------------------------
(* confirm, from the lock to its first await *)

Confirming(r) == At(r, "confirmLock") /\ Free(r)

(* Served from the cache; a pending fulfilment, or a finished one, is repeated. *)
ConfirmReplay(r) ==
  /\ Confirming(r)
  /\ Cached(r)
  /\ LET session == FromCache(r, Session(r), {"HELD", "FULFILL_PENDING"})
         place == IF session.state = "FULFILL_PENDING"
                  THEN "retryFulfill" ELSE "cachedFulfill"
     IN /\ Save(S(r), session)
        /\ co' = [co EXCEPT ![r] = Loaded(r, place, session)]
        /\ lock' = [lock EXCEPT ![S(r)] = r]
  /\ UNCHANGED <<idem, req, ihms, ecops>>

(* The key's earlier attempt left a pending fulfilment, or an order of unknown *)
(* status: it is finished, or looked for, before any new POST.  CacheAgrees    *)
(* shows that a pending session's own key is always cached, so the former      *)
(* never comes to this point.                                                  *)
ConfirmResumes(r) ==
  /\ Confirming(r)
  /\ ~Cached(r)
  /\ Session(r).state \in {"HELD", "FULFILL_PENDING"}
  /\ Session(r).key = K(r)
  /\ Enter(r, IF Session(r).state = "HELD" THEN "resolve" ELSE "retryFulfill")
  /\ UNCHANGED <<sess, idem, req, ihms, ecops>>

HoldElapsed(r) == Session(r).hold \in elapsed

(* Faulty: a pinned session is treated as one without an attempt. *)
ConfirmFresh_IgnoresPin(r) ==
  /\ Confirming(r)
  /\ ~Cached(r)
  /\ Session(r).state = "HELD"
  /\ ~HoldElapsed(r)
  /\ Enter(r, "preflight")
  /\ UNCHANGED <<sess, idem, req, ihms, ecops>>
ConfirmFresh(r) ==
  /\ Confirming(r)
  /\ ~Cached(r)
  /\ Session(r).state = "HELD"
  /\ Session(r).key = None
  /\ ~HoldElapsed(r)
  /\ Enter(r, "preflight")
  /\ UNCHANGED <<sess, idem, req, ihms, ecops>>

ConfirmRefused(r) ==
  /\ Confirming(r)
  /\ ~Cached(r)
  /\ \/ Session(r).state \notin {"HELD", "FULFILL_PENDING"}
     \/ Session(r).state = "FULFILL_PENDING" /\ Session(r).key # K(r)
     \/ Session(r).state = "HELD" /\ Session(r).key \notin {None, K(r)}
     \/ Session(r).state = "HELD" /\ Session(r).key = None /\ HoldElapsed(r)
  /\ Answer(r, "failed", None)
  /\ UNCHANGED <<stores, req, ihms, ecops>>

-----------------------------------------------------------------------------
(* find_order_by_reference: GET /orders until a match, or the last attempt *)

LookupFound(r) ==
  /\ co[r].at \in Lookups
  /\ \E o \in Listed(S(r)) :
       co' = [co EXCEPT ![r] = [Moved(r, "fulfillFound") EXCEPT !.got = o]]
  /\ UNCHANGED <<stores, req, ihms, ecops>>

(* No match or a timeout before the last attempt; the preflight has only one. *)
LookupAgain(r) ==
  /\ co[r].at \in Lookups \ {"preflight"}
  /\ Again(r)
  /\ UNCHANGED <<stores, req, ihms, ecops>>

PreflightEmpty(r) ==
  /\ At(r, "preflight")
  /\ Listed(S(r)) = {}
  /\ Goto(r, "createOrder")
  /\ UNCHANGED <<stores, req, ihms, ecops>>

(* After a 409 or a timeout of POST /orders: no match, so the failure stands. *)
LookupEmpty(r) ==
  /\ co[r].at \in {"lookup409", "lookupTimeout"}
  /\ LastTry(r)
  /\ Listed(S(r)) = {}
  /\ Goto(r, "compensate")
  /\ UNCHANGED <<stores, req, ihms, ecops>>

(* Faulty: a failed lookup counts as no match, after a timeout too. *)
LookupFails_Any(r) ==
  /\ co[r].at \in Lookups \ {"resolve"}
  /\ Goto(r, "compensate")
  /\ UNCHANGED <<stores, req, ihms, ecops>>
(* The lookup itself fails; only after a timed-out POST is the order unknown. *)
LookupFails(r) ==
  /\ co[r].at \in {"preflight", "lookup409"}
  /\ Goto(r, "compensate")
  /\ UNCHANGED <<stores, req, ihms, ecops>>

StatusUnknown(r) ==
  /\ At(r, "lookupTimeout")
  /\ Save(S(r), [co[r].snap EXCEPT !.key = K(r)])
  /\ Answer(r, "unknown", None)
  /\ Unlock(r)
  /\ UNCHANGED <<idem, req, ihms, ecops>>

(* A pinned attempt whose lookup fails, or finds nothing to the last attempt. *)
StillUnknown(r) ==
  /\ At(r, "resolve")
  /\ Answer(r, "unknown", None)
  /\ Unlock(r)
  /\ UNCHANGED <<sess, idem, req, ihms, ecops>>

-----------------------------------------------------------------------------
(* POST /orders *)

OrderPlaced(r, o) ==
  co' = [co EXCEPT ![r] = [Moved(r, "fulfill") EXCEPT !.got = o]]

CreateOrder(r) ==
  /\ At(r, "createOrder")
  /\ \E o \in OrderIds : Commit(o, S(r), K(r)) /\ OrderPlaced(r, o)
  /\ UNCHANGED <<stores, req, ihms>>

(* The key was used with the same body: EC-OPS answers with that order. *)
CreateOrderReplayed(r) ==
  /\ At(r, "createOrder")
  /\ EnforceUnique
  /\ \E o \in OrdersOf(S(r)) : order[o].key = K(r) /\ OrderPlaced(r, o)
  /\ UNCHANGED <<stores, req, ihms, ecops>>

(* 409: the key was used with another body, or the reference is in use. *)
CreateOrderConflict(r) ==
  /\ At(r, "createOrder")
  /\ ~Accepts(S(r), K(r))
  /\ Goto(r, "lookup409")
  /\ UNCHANGED <<stores, req, ihms, ecops>>

(* Any other error status, or a transport error. *)
CreateOrderFails(r) ==
  /\ At(r, "createOrder")
  /\ \/ UNCHANGED ecops
     \/ AmbiguousErrors /\ \E o \in OrderIds : Commit(o, S(r), K(r))
  /\ Goto(r, "compensate")
  /\ UNCHANGED <<stores, req, ihms>>

(* Faulty: POST /orders is retried blindly after a timeout. *)
CreateOrderTimeout_Blind(r) ==
  /\ At(r, "createOrder")
  /\ UNCHANGED ecops \/ \E o \in OrderIds : Commit(o, S(r), K(r))
  /\ Again(r)
  /\ UNCHANGED <<stores, req, ihms>>
CreateOrderTimeout(r) ==
  /\ At(r, "createOrder")
  /\ \/ UNCHANGED ecops
     \/ \E o \in OrderIds : Commit(o, S(r), K(r))
     \/ LateOrders /\ late' = late \cup {r} /\ UNCHANGED order
  /\ Goto(r, "lookupTimeout")
  /\ UNCHANGED <<stores, req, ihms>>

(* EC-OPS executes a request the orchestrator has given up on. *)
LateOrderTakesEffect(r) ==
  /\ r \in late
  /\ late' = late \ {r}
  /\ \/ /\ Accepts(S(r), K(r))
        /\ \E o \in OrderIds :
             ~Placed(o) /\ order' = [order EXCEPT ![o] = [ref |-> S(r), key |-> K(r)]]
     \/ ~Accepts(S(r), K(r)) /\ UNCHANGED order
  /\ UNCHANGED <<stores, req, co, ihms>>

-----------------------------------------------------------------------------
(* fulfill_hold_safe and what its three callers do with its result *)

(* _finalize_success_locked, and the FULFILL_PENDING branch of its caller: the *)
(* session and the cached response are written together, then the lock is left. *)
Record(r, state) ==
  /\ Save(S(r), [co[r].snap EXCEPT !.state = state, !.order = co[r].got, !.key = K(r)])
  /\ Remember(S(r), K(r), co[r].got, state)
  /\ Answer(r, "ok", co[r].got)
  /\ Unlock(r)
  /\ UNCHANGED <<req, ecops>>

AnswerAsIs(r) ==
  /\ Answer(r, "ok", co[r].got)
  /\ Unlock(r)
  /\ UNCHANGED <<sess, idem, req, ecops>>

(* 2xx, 404 or 409 *)
FulfillSucceeds(r) ==
  /\ co[r].at \in Fulfills
  /\ Fulfill(co[r].snap.hold)
  /\ \/ co[r].at \in {"fulfill", "retryFulfill"} /\ Record(r, "CONFIRMED")
     \/ At(r, "fulfillFound") /\ Record(r, "RECONCILED")
     \/ At(r, "cachedFulfill") /\ AnswerAsIs(r)

FulfillTimeout(r) ==
  /\ co[r].at \in Fulfills
  /\ UNCHANGED ihms \/ Fulfill(co[r].snap.hold)
  /\ Again(r)
  /\ UNCHANGED <<stores, req, ecops>>

(* The last timeout, or any other error. *)
FulfillGivesUp(r) ==
  /\ co[r].at \in Fulfills
  /\ UNCHANGED ihms \/ Fulfill(co[r].snap.hold)
  /\ \/ co[r].at \in {"fulfill", "fulfillFound"} /\ Record(r, "FULFILL_PENDING")
     \/ co[r].at \in {"retryFulfill", "cachedFulfill"} /\ AnswerAsIs(r)

(* A 2xx whose body does not validate: no except clause of confirm or of a retry *)
(* loop takes the error, so nothing is saved, pinned or compensated.             *)
ReplyUnreadable(r) ==
  /\ BadReplies
  /\ \/ co[r].at \in Lookups /\ UNCHANGED <<ihms, ecops>>
     \/ /\ At(r, "createOrder")
        /\ UNCHANGED ecops \/ \E o \in OrderIds : Commit(o, S(r), K(r))
        /\ UNCHANGED ihms
     \/ co[r].at \in Fulfills /\ Fulfill(co[r].snap.hold) /\ UNCHANGED ecops
  /\ Answer(r, "failed", None)
  /\ Unlock(r)
  /\ UNCHANGED <<sess, idem, req>>

-----------------------------------------------------------------------------
(* abandon, and release_hold_safe with its two callers *)

Abandoning(r) == At(r, "abandonLock") /\ Free(r)

AbandonRefused(r) ==
  /\ Abandoning(r)
  /\ Session(r).state \in Terminal \cup {"FULFILL_PENDING"}
  /\ Answer(r, "failed", None)
  /\ UNCHANGED <<stores, req, ihms, ecops>>

(* Faulty: a session is abandoned without its hold being released. *)
AbandonCreated_NoRelease(r) ==
  /\ Abandoning(r)
  /\ Session(r).state \in {"CREATED", "HELD"}
  /\ Save(S(r), [Session(r) EXCEPT !.state = "ABANDONED"])
  /\ Answer(r, "ok", None)
  /\ UNCHANGED <<lock, idem, req, ihms, ecops>>
AbandonCreated(r) ==
  /\ Abandoning(r)
  /\ Session(r).state = "CREATED"
  /\ Save(S(r), [Session(r) EXCEPT !.state = "ABANDONED"])
  /\ Answer(r, "ok", None)
  /\ UNCHANGED <<lock, idem, req, ihms, ecops>>

(* Faulty: a pending sale can be abandoned. *)
AbandonHeld_Pending(r) ==
  /\ Abandoning(r)
  /\ Session(r).state \in {"HELD", "FULFILL_PENDING"}
  /\ Enter(r, "abandonRelease")
  /\ UNCHANGED <<sess, idem, req, ihms, ecops>>
AbandonHeld(r) ==
  /\ Abandoning(r)
  /\ Session(r).state = "HELD"
  /\ Enter(r, "abandonRelease")
  /\ UNCHANGED <<sess, idem, req, ihms, ecops>>

(* The session once its hold is gone. *)
Compensated(session) == [session EXCEPT !.state = "COMPENSATED", !.key = None]
Abandoned(session) == [session EXCEPT !.state = "ABANDONED"]

(* 204, 404 or 409: the hold is gone. *)
ReleaseSucceeds(r) ==
  /\ co[r].at \in Releases
  /\ Release(co[r].snap.hold)
  /\ \/ At(r, "compensate") /\ Save(S(r), Compensated(co[r].snap)) /\ Answer(r, "failed", None)
     \/ At(r, "abandonRelease") /\ Save(S(r), Abandoned(co[r].snap)) /\ Answer(r, "ok", None)
  /\ Unlock(r)
  /\ UNCHANGED <<idem, req, ecops>>

ReleaseTimeout(r) ==
  /\ co[r].at \in Releases
  /\ UNCHANGED ihms \/ Release(co[r].snap.hold)
  /\ Again(r)
  /\ UNCHANGED <<stores, req, ecops>>

(* The last timeout, or any other error: the session stays as it was. *)
ReleaseGivesUp(r) ==
  /\ co[r].at \in Releases
  /\ UNCHANGED ihms \/ Release(co[r].snap.hold)
  /\ Answer(r, "failed", None)
  /\ Unlock(r)
  /\ UNCHANGED <<sess, idem, req, ecops>>

-----------------------------------------------------------------------------
(* expires_at passes: KB-IHMS gives an active hold's stock back, and the clock *)
(* of the orchestrator agrees.                                                 *)
TtlElapses(h) ==
  /\ HoldsExpire
  /\ h \notin elapsed
  /\ hold[h].status # "none"
  /\ elapsed' = elapsed \cup {h}
  /\ hold' = [hold EXCEPT ![h].status = IF @ = "active" THEN "expired" ELSE @]
  /\ UNCHANGED <<stores, req, co, ecops>>

(* No request is in progress: the orchestrator only waits for more. *)
Idle ==
  /\ \A r \in Requests : co[r].at \in {"idle", "done"}
  /\ UNCHANGED vars

Init ==
  /\ sess = [s \in Sessions |-> NewSession]
  /\ lock = [s \in Sessions |-> None]
  /\ idem = [s \in Sessions |-> [k \in Keys |-> NoRecord]]
  /\ req \in [Requests -> [op : Ops, sid : Sessions, key : Keys]]
  /\ co = [r \in Requests |-> NewFrame]
  /\ hold = [h \in HoldIds |-> [status |-> "none", owner |-> None]]
  /\ elapsed = {}
  /\ order = [o \in OrderIds |-> NoOrder]
  /\ late = {}

Arrive(r) ==
  ArriveCart(r) \/ ArriveCheckout(r) \/ ArriveConfirm(r) \/ ArriveAbandon(r)

(* The steps of a coroutine that wait for its session's lock. *)
TakeLock(r) ==
  \/ HoldLocked(r) \/ HoldTooLate(r)
  \/ ConfirmReplay(r) \/ ConfirmResumes(r)
  \/ ConfirmFresh(r) \/ ConfirmRefused(r)
  \/ AbandonRefused(r) \/ AbandonCreated(r) \/ AbandonHeld(r)

(* The steps in which an upstream call of a coroutine returns or fails. *)
Resume(r) ==
  \/ RejectCart(r) \/ ValidateActive(r) \/ ValidateFails(r)
  \/ PlaceOrderReplay(r) \/ PlaceOrderRefused(r) \/ PlaceOrderResumes(r)
  \/ HoldRequested(r) \/ HoldRefused(r)
  \/ StockChecked(r) \/ StockShort(r) \/ HoldCreated(r) \/ HoldCreateFails(r)
  \/ LookupFound(r) \/ LookupAgain(r) \/ PreflightEmpty(r) \/ LookupEmpty(r)
  \/ LookupFails(r) \/ StatusUnknown(r) \/ StillUnknown(r)
  \/ CreateOrder(r) \/ CreateOrderReplayed(r) \/ CreateOrderConflict(r)
  \/ CreateOrderFails(r) \/ CreateOrderTimeout(r)
  \/ FulfillSucceeds(r) \/ FulfillTimeout(r) \/ FulfillGivesUp(r)
  \/ ReleaseSucceeds(r) \/ ReleaseTimeout(r) \/ ReleaseGivesUp(r) \/ ReplyUnreadable(r)

Next ==
  \/ \E s \in Sessions : CreateSession(s)
  \/ \E r \in Requests : Arrive(r) \/ TakeLock(r) \/ Resume(r) \/ LateOrderTakesEffect(r)
  \/ \E h \in HoldIds : TtlElapses(h)
  \/ Idle

Spec == Init /\ [][Next]_vars

(* The event loop resumes a coroutine whose call has returned, every call has  *)
(* a client timeout, and asyncio.Lock serves its waiters in order.             *)
Fairness == \A r \in Requests : WF_vars(Resume(r)) /\ SF_vars(TakeLock(r))
FairSpec == Spec /\ Fairness

-----------------------------------------------------------------------------
TypeOK ==
  /\ sess \in [Sessions -> SessionRec]
  /\ lock \in [Sessions -> Requests \cup {None}]
  /\ idem \in [Sessions -> [Keys -> CacheRec]]
  /\ req \in [Requests -> [op : Ops, sid : Sessions, key : Keys]]
  /\ co \in [Requests -> Frame]
  /\ hold \in [HoldIds -> HoldRec]
  /\ elapsed \subseteq HoldIds
  /\ order \in [OrderIds -> OrderRec]
  /\ late \subseteq Requests

-----------------------------------------------------------------------------
(* Properties *)

(* The lock of a session excludes all but one of its coroutines, and no error     *)
(* path leaves it behind: whoever holds it waits for an upstream, never a lock.   *)
LockOwned ==
  \A s \in Sessions, r \in Requests :
    lock[s] = r <=> (co[r].at \in InLock /\ S(r) = s)

(* A coroutine past `async with lock_for` works on the saved session: although *)
(* place_order writes sessions without the lock (coordinator.py 338-354), no   *)
(* save of a locked handler can undo a write it has not seen.                  *)
SnapshotCurrent ==
  \A r \in Requests : co[r].at \in InLock => co[r].snap = Session(r)

(* A session that reports a sale (CONFIRMED, RECONCILED, FULFILL_PENDING) names *)
(* an order that exists at EC-OPS and carries the session's own reference.      *)
FinishedHasOrder ==
  \A s \in Sessions : sess[s].state \in Finished => sess[s].order \in OrdersOf(s)

(* A session closed without a sale has no hold left that keeps or has sold stock. *)
ClosedHoldIsGone ==
  \A s \in Sessions :
    sess[s].state \in {"COMPENSATED", "ABANDONED"} /\ sess[s].hold # None
      => hold[sess[s].hold].status \in {"released", "expired"}

(* Retries, double clicks and ambiguous timeouts never make a second order. *)
NoDuplicateOrder == \A s \in Sessions : Cardinality(OrdersOf(s)) <= 1

(* The idempotency store and the session tell a retrying client the same: a sold *)
(* session has a record under the key it stores, equal to it, and no other one.  *)
CacheOf(session) ==
  [k \in Keys |-> IF session.state \in Finished /\ session.key = k
                  THEN [order |-> session.order, state |-> session.state] ELSE NoRecord]
CacheAgrees == \A s \in Sessions : idem[s] = CacheOf(sess[s])

(* No hold keeps stock without a session that knows its id (compensation.md:27). *)
NoOrphanHold ==
  \A h \in HoldIds : hold[h].status = "active" => sess[hold[h].owner].hold = h

(* Stock is committed at KB-IHMS only for a session whose order EC-OPS has. *)
FulfilledHasOrder ==
  \A h \in HoldIds : hold[h].status = "fulfilled" => OrdersOf(hold[h].owner) # {}

(* No order is forgotten: where EC-OPS has an order as soon as POST /orders ends,  *)
(* or never, and errors make none, the session of an order is sold, pinned, being *)
(* sold or abandoned, or the order's status is being asked for.                   *)
Pinned(s) == sess[s].state = "HELD" /\ sess[s].key # None
Selling(s) == \E r \in Requests : S(r) = s /\ co[r].at \in {"fulfill", "fulfillFound"}
Asking(s) == \E r \in Requests : S(r) = s /\ At(r, "lookupTimeout")
OrdersFollowed ==
  \A s \in Sessions : OrdersOf(s) # {} =>
    \/ sess[s].state \in Finished \cup {"ABANDONED"}
    \/ Pinned(s)
    \/ sess[s].state = "HELD" /\ (Selling(s) \/ Asking(s))

(* The orchestrator commits or gives back only the hold its session names, so a *)
(* session sells stock at most once, however many holds were made for it.       *)
ActsOnNamedHold ==
  \A h \in HoldIds :
    hold[h].status \in {"fulfilled", "released"} => sess[hold[h].owner].hold = h

(* An order id once answered to a client stays the order of its session, and no *)
(* later call (abandon, confirm with another key, a replay) takes the sale back. *)
AnswerFits(frame, session) ==
  frame.answer = "ok" /\ frame.got # None
    => session.state \in Finished /\ session.order = frame.got
AnswerStands == \A r \in Requests : AnswerFits(co[r], Session(r))

(* ADR-008: stock is never given back while EC-OPS has an order of its session. *)
NoReleaseAfterOrder ==
  [][\A h \in HoldIds : hold[h].status = "active" /\ hold'[h].status = "released"
       => OrdersOf(hold[h].owner) = {}]_vars

(* ADR-008: while an order's status is unknown its key stays pinned, and no call *)
(* makes another order for the session.                                          *)
PinnedNeverPosts ==
  [][\A s \in Sessions : Pinned(s) => /\ sess'[s].key = sess[s].key
                                      /\ OrdersOf(s)' \subseteq OrdersOf(s)]_vars

(* Whatever overlaps or fails, no call gives back the stock of a sold session: it *)
(* is committed, kept, or lost to its TTL.                                        *)
SoldIsNotReleased ==
  [][\A s \in Sessions :
       sess[s].state \in Finished /\ hold[sess[s].hold].status = "active"
         => hold'[sess[s].hold].status # "released"]_vars

(* How many more steps a coroutine can take at most: a retry loop takes one per *)
(* attempt, a lookup may be followed by the loop of a fulfil or of a release.   *)
Attempts == MaxRetries + 1
StepsLeft(frame) ==
  CASE frame.at = "done" -> 0
    [] frame.at \in Fulfills \cup Releases -> Attempts - frame.tries
    [] frame.at = "abandonLock" -> Attempts + 1
    [] frame.at \in Lookups \ {"preflight"} -> 2 * Attempts - frame.tries
    [] frame.at = "createOrder" -> 2 * Attempts + 1
    [] frame.at = "preflight" -> 2 * Attempts + 2
    [] frame.at = "confirmLock" -> 2 * Attempts + 3
    [] frame.at \in {"validate", "createHold"} -> 2 * Attempts + 4
    [] frame.at = "stock" -> 2 * Attempts + 5
    [] frame.at = "holdLock" -> 2 * Attempts + 6
    [] frame.at = "refresh" -> 2 * Attempts + 7
    [] frame.at = "idle" -> 2 * Attempts + 8

(* No request goes in circles: whatever its upstreams answer, each step of it  *)
(* brings it nearer to its answer, at most 2 * (MaxRetries + 1) + 8 steps away. *)
EveryStepCounts ==
  [][\A r \in Requests :
       co'[r] # co[r] => StepsLeft(co'[r]) \in 0..(StepsLeft(co[r]) - 1)]_vars

(* Every request is answered in the end: no retry loop runs for ever and no lock *)
(* is left behind by an error path.                                              *)
EveryRequestAnswered ==
  \A r \in Requests : co[r].at # "idle" ~> co[r].at = "done"

(* The saga implements the session's promise. *)
StageOf(state) ==
  CASE state = "absent" -> "unborn"
    [] state = "CREATED" -> "open"
    [] state = "HELD" -> "reserved"
    [] state = "FULFILL_PENDING" -> "pending"
    [] state \in {"CONFIRMED", "RECONCILED"} -> "settled"
    [] state \in {"ABANDONED", "COMPENSATED"} -> "closed"
Lifecycle == INSTANCE SessionLifecycle WITH
  stage <- [s \in Sessions |-> StageOf(sess[s].state)],
  sale <- [s \in Sessions |-> sess[s].order]
ImplementsLifecycle == Lifecycle!LifecycleSpec

(* The inductive invariant behind the properties above *)

(* Which fields of a session its state fills in. *)
ShapeOf(session) ==
  /\ session.state \in {"absent", "CREATED"} => session.hold = None /\ session.key = None
  /\ session.state \in {"HELD"} \cup Finished => session.hold \in HoldIds
  /\ session.state \in Finished => session.key \in Keys
  /\ session.order # None <=> session.state \in Finished
SessionShape == \A s \in Sessions : ShapeOf(sess[s])

(* Which session a coroutine may be working on where it awaits, and what its *)
(* local `order` is while it calls fulfil.                                   *)
Unsold == {"preflight", "createOrder", "lookup409", "lookupTimeout", "compensate", "fulfill"}
PlaceFits(r, frame, session) ==
  /\ frame.at # "idle" => session.state # "absent"
  /\ frame.at # "done" => frame.answer = "none"
  /\ frame.at \in {"stock", "createHold"} => session.state = "CREATED"
  /\ frame.at \in Unsold \cup {"fulfillFound", "resolve", "abandonRelease"}
       => session.state = "HELD"
  /\ frame.at \in Unsold => session.key = None
  /\ frame.at \in {"resolve", "fulfillFound"} => session.key \in {None, K(r)}
  /\ frame.at = "retryFulfill" => session.state = "FULFILL_PENDING" /\ session.key = K(r)
  /\ frame.at = "cachedFulfill" => session.state \in {"CONFIRMED", "RECONCILED"}
  /\ frame.at \in {"retryFulfill", "cachedFulfill"} => frame.got = session.order
  /\ frame.at \in Fulfills => frame.got \in Listed(S(r))
PlaceState == \A r \in Requests : PlaceFits(r, co[r], Session(r))

(* The order of a sold session is one that GET /orders lists for it. *)
FinishedListed ==
  \A s \in Sessions : sess[s].state \in Finished => sess[s].order \in Listed(s)

SagaInv ==
  /\ TypeOK
  /\ LockOwned
  /\ SnapshotCurrent
  /\ SessionShape
  /\ CacheAgrees
  /\ PlaceState
  /\ FinishedListed
  /\ AnswerStands

(* The invariants behind the properties of holds and of orders *)

(* The hold of a session is its own. *)
HoldOwned ==
  \A s \in Sessions : sess[s].hold # None =>
    hold[sess[s].hold].status # "none" /\ hold[sess[s].hold].owner = s

(* Where a hold whose POST failed has not been made, every hold is a session's. *)
HoldsKnown ==
  \A h \in HoldIds : hold[h].status # "none" =>
    hold[h].owner \in Sessions /\ sess[hold[h].owner].hold = h

(* Where every reply can be read, an unsold session's hold is committed only   *)
(* while the request that sells it goes on.                                    *)
CommitsFollowed ==
  \A s \in Sessions :
    sess[s].state = "HELD" /\ hold[sess[s].hold].status = "fulfilled" => Selling(s)

(* Statements of the documentation that the code does not keep *)

(* IHMS-UPSTREAM.md:30, "stock already deducted": the hold of a completed session *)
(* has not been given back.                                                       *)
SoldStaysDeducted ==
  \A s \in Sessions : sess[s].state \in {"CONFIRMED", "RECONCILED"}
    => hold[sess[s].hold].status \in {"active", "fulfilled"}

(* FAILURE-SCENARIOS.md:23, "retry with the original idempotency key to reconcile *)
(* before any new order create": while an order of unknown status has been made   *)
(* under a session's key, no second one is made under that key.                   *)
RetryReconcilesFirst ==
  [][\A s \in Sessions, o \in OrderIds :
       Pinned(s) /\ OrdersOf(s) # {} /\ order'[o].key = sess[s].key => Placed(o)]_vars
====
