---- MODULE ShopTab ----
(***************************************************************************)
(* One browser tab of the shop (frontend/src/App.tsx, api/hooks.ts and     *)
(* api/client.ts) on top of the whole checkout saga.                       *)
(*                                                                         *)
(* The tab sends one-click checkouts; the network may delay a request, or  *)
(* lose its answer, and the user may reload the page at any time, which    *)
(* keeps only what is in sessionStorage.  The other requests of the model  *)
(* are the retries of confirm that docs/sequences/checkout.md:79           *)
(* describes, sent from outside the page with the session's own key.       *)
(***************************************************************************)
EXTENDS CheckoutSaga

CONSTANT Shopper   \* the requests the tab may send, one per click

ASSUME ShopperAssumption == Shopper \subseteq Requests

VARIABLES
  tab,       \* App's state: cart, sessionId, idempotencyKeyRef, the pending mutation
  shown,     \* the session data TanStack Query has for the tab's sessionId
  stored,    \* sessionStorage: the session and key to restore after a reload
  reply,     \* the session in the response to the pending mutation
  sent,      \* the requests the tab has sent
  attempts   \* history: those sent since the user last began a purchase

page == <<tab, shown, stored, reply, sent, attempts>>
shopVars == <<vars, page>>

View == [state : States, order : OrderIds \cup {None}]
Nothing == [state |-> "absent", order |-> None]
(* Faulty: a session that has its order is taken for a finished one. *)
Says_Optimistic(session) ==
  [state |-> IF session.order # None THEN "CONFIRMED" ELSE session.state, order |-> session.order]
Says(session) == [state |-> session.state, order |-> session.order]

Tab == [cart : BOOLEAN, sid : Sessions \cup {None}, key : Keys \cup {None},
        call : Shopper \cup {None}]
Stored == [sid : Sessions, key : Keys]

Complete(view) == view.state \in {"CONFIRMED", "RECONCILED"}
Pending(view) == view.state = "FULFILL_PENDING"
Busy == tab.call # None

(* Catalog and cart are rendered unless an order is complete or pending. *)
Shopping == ~Complete(shown) /\ ~Pending(shown)

-----------------------------------------------------------------------------
(* The cart is abstracted to whether it has a line; ShopCart has the lines. *)

AddToCart ==
  /\ Shopping
  /\ ~Busy
  /\ tab' = [tab EXCEPT !.cart = TRUE]
  /\ UNCHANGED <<vars, shown, stored, reply, sent, attempts>>

(* The cart's Remove button stays enabled while an order is being placed. *)
RemoveFromCart ==
  /\ Shopping
  /\ tab' = [tab EXCEPT !.cart = FALSE]
  /\ UNCHANGED <<vars, shown, stored, reply, sent, attempts>>

-----------------------------------------------------------------------------
(* Place order *)

Unused(k) == \A r \in sent : K(r) # k

(* Faulty: each click draws a key of its own. *)
KeyFits_AlwaysNew(k) == Unused(k)
(* The key of an earlier click is sent again, until a purchase is closed. *)
KeyFits(k) == IF tab.key # None THEN k = tab.key ELSE Unused(k)

Click(r) ==
  /\ Shopping
  /\ tab.cart
  /\ ~Busy
  /\ r \notin sent
  /\ KeyFits(K(r))
  /\ tab' = [tab EXCEPT !.key = K(r), !.call = r]
  /\ sent' = sent \cup {r}
  /\ attempts' = attempts \cup {r}
  /\ UNCHANGED <<vars, shown, stored, reply>>

(* The effect on orderComplete: it runs when that becomes true, not while it stays. *)
Cleared(view, record) ==
  IF Complete(view) /\ ~Complete(shown) THEN None ELSE record

AnswerOk(r) ==
  /\ tab.call = r
  /\ At(r, "done")
  /\ co[r].answer = "ok"
  /\ shown' = reply
  /\ stored' = Cleared(reply, [sid |-> S(r), key |-> K(r)])
  /\ tab' = [tab EXCEPT !.sid = S(r), !.call = None, !.cart = @ /\ ~Complete(reply)]
  /\ reply' = Nothing
  /\ UNCHANGED <<vars, sent, attempts>>

(* Faulty: whatever was answered is stored for a reload. *)
AnswerError_Stores(r) ==
  /\ tab.call = r
  /\ At(r, "done")
  /\ co[r].answer # "ok"
  /\ tab' = [tab EXCEPT !.call = None]
  /\ stored' = [sid |-> S(r), key |-> K(r)]
  /\ reply' = Nothing
  /\ UNCHANGED <<vars, shown, sent, attempts>>
(* Faulty: only a success ends checkoutBusy. *)
AnswerError_StaysBusy(r) ==
  /\ tab.call = r
  /\ At(r, "done")
  /\ co[r].answer # "ok"
  /\ UNCHANGED shopVars
(* An error keeps the key for the next click. *)
AnswerError(r) ==
  /\ tab.call = r
  /\ At(r, "done")
  /\ co[r].answer # "ok"
  /\ tab' = [tab EXCEPT !.call = None]
  /\ reply' = Nothing
  /\ UNCHANGED <<vars, shown, stored, sent, attempts>>

(* fetch rejects, before or after the server has worked on the request. *)
AnswerLost(r) ==
  /\ tab.call = r
  /\ tab' = [tab EXCEPT !.call = None]
  /\ reply' = Nothing
  /\ UNCHANGED <<vars, shown, stored, sent, attempts>>

-----------------------------------------------------------------------------
(* GET /sessions/{id}: when the page has a session and no data of it, and      *)
(* every two seconds while it is pending.  A GET that fails keeps the data.    *)

SessionArrives ==
  LET view == Says(sess[tab.sid])
  IN /\ shown' = view
     /\ stored' = Cleared(view, stored)
     /\ UNCHANGED <<vars, tab, reply, sent, attempts>>

LoadSession == tab.sid # None /\ shown = Nothing /\ SessionArrives
(* Faulty: a complete order is polled for, not a pending one. *)
PollSession_WhenComplete == tab.sid # None /\ Complete(shown) /\ SessionArrives
PollSession == tab.sid # None /\ Pending(shown) /\ SessionArrives

-----------------------------------------------------------------------------
(* The other buttons, and the reload *)

ContinueShopping ==
  /\ Complete(shown)
  /\ tab' = [tab EXCEPT !.sid = None, !.key = None]
  /\ shown' = Nothing
  /\ stored' = None
  /\ attempts' = {}
  /\ UNCHANGED <<vars, reply, sent>>

(* Retry of a pending order: runPlaceOrder([]) returns before it sends anything. *)
Retry ==
  /\ Pending(shown)
  /\ ~Busy
  /\ UNCHANGED shopVars

(* Faulty: the key is not restored. *)
Reload_LosesKey ==
  /\ tab' = [cart |-> FALSE, call |-> None, key |-> None,
             sid |-> IF stored = None THEN None ELSE stored.sid]
  /\ shown' = Nothing
  /\ reply' = Nothing
  /\ attempts' = IF stored = None THEN {} ELSE attempts
  /\ UNCHANGED <<vars, stored, sent>>
(* Nothing stored: the key of an unanswered click is gone, and its purchase with it. *)
Reload ==
  /\ tab' = IF stored = None
            THEN [cart |-> FALSE, sid |-> None, key |-> None, call |-> None]
            ELSE [cart |-> FALSE, sid |-> stored.sid, key |-> stored.key, call |-> None]
  /\ shown' = Nothing
  /\ reply' = Nothing
  /\ attempts' = IF stored = None THEN {} ELSE attempts
  /\ UNCHANGED <<vars, stored, sent>>

-----------------------------------------------------------------------------
(* The orchestrator and the upstreams.  The handler's return fixes what the    *)
(* response to the pending mutation says.                                      *)

Returns(r) == ~At(r, "done") /\ co'[r].at = "done"
Respond ==
  reply' = IF tab.call # None /\ Returns(tab.call) /\ co'[tab.call].answer = "ok"
           THEN Says(sess'[S(tab.call)]) ELSE reply

Arrival(r) == (r \in Shopper => r \in sent) /\ Arrive(r)

Serve(r) ==
  /\ Arrival(r) \/ TakeLock(r) \/ Resume(r) \/ LateOrderTakesEffect(r)
  /\ Respond
  /\ UNCHANGED <<tab, shown, stored, sent, attempts>>

Elapse(h) == TtlElapses(h) /\ UNCHANGED page

ShopInit ==
  /\ Init
  /\ \A r \in Shopper :
       /\ req[r].op = "checkout"
       /\ \A q \in Shopper : S(q) = S(r) => q = r
  /\ \A c \in Requests \ Shopper :
       /\ req[c].op = "confirm"
       /\ \E r \in Shopper : S(c) = S(r) /\ K(c) = K(r)
  /\ tab = [cart |-> FALSE, sid |-> None, key |-> None, call |-> None]
  /\ shown = Nothing
  /\ stored = None
  /\ reply = Nothing
  /\ sent = {}
  /\ attempts = {}

TabStep ==
  \/ AddToCart \/ RemoveFromCart
  \/ \E r \in Shopper : Click(r) \/ AnswerOk(r) \/ AnswerError(r) \/ AnswerLost(r)
  \/ LoadSession \/ PollSession
  \/ ContinueShopping \/ Retry \/ Reload

ShopNext ==
  \/ TabStep
  \/ \E r \in Requests : Serve(r)
  \/ \E h \in HoldIds : Elapse(h)

ShopSpec == ShopInit /\ [][ShopNext]_shopVars

(* The orchestrator's fairness; a sent request arrives, its answer does, and *)
(* not every GET of a poll fails.                                            *)
ShopFairness ==
  /\ \A r \in Requests : /\ WF_shopVars(Resume(r) /\ Serve(r))
                         /\ SF_shopVars(TakeLock(r) /\ Serve(r))
                         /\ WF_shopVars(Arrival(r) /\ Serve(r))
  /\ \A r \in Shopper : WF_shopVars(AnswerOk(r) \/ AnswerError(r))
  /\ WF_shopVars(PollSession)
FairShopSpec == ShopSpec /\ ShopFairness

(* KB-IHMS recovers, and the user keeps pressing Retry. *)
RecoveringShopSpec ==
  /\ FairShopSpec
  /\ \A r \in Requests : SF_shopVars(FulfillSucceeds(r) /\ Serve(r))
  /\ WF_shopVars(Retry)

-----------------------------------------------------------------------------
ShopTypeOK ==
  /\ TypeOK
  /\ tab \in Tab
  /\ shown \in View
  /\ stored \in Stored \cup {None}
  /\ reply \in View
  /\ sent \subseteq Shopper
  /\ attempts \subseteq sent

(* What a reload restores (App.tsx:63-69) is a sale, with the key that finishes it. *)
StoredIsSold ==
  stored # None => /\ sess[stored.sid].state \in Finished
                   /\ sess[stored.sid].key = stored.key

(* The page never says more than the orchestrator has saved: the order it shows is *)
(* the session's, and it is called complete only when it is (App.tsx:142-174).     *)
ShownIsSaved ==
  shown # Nothing =>
    /\ tab.sid # None
    /\ shown.order = sess[tab.sid].order
    /\ shown.state \in {"FULFILL_PENDING", sess[tab.sid].state}

(* However often the user clicks, reloads and retries on the way, one purchase *)
(* makes one order at most: the ref keeps the key (App.tsx:96) and EC-OPS      *)
(* enforces it.                                                                *)
PurchaseOrders == UNION {OrdersOf(S(r)) : r \in attempts}
OneOrderPerPurchase == Cardinality(PurchaseOrders) <= 1

(* A pending sale is not forgotten by sessionStorage (App.tsx:81-105): it stays  *)
(* there until the orchestrator has finished it.                                 *)
PendingKept ==
  [][stored # None /\ sess[stored.sid].state = "FULFILL_PENDING"
       => stored' = stored]_shopVars

(* The inductive invariant behind them *)

(* Requests for one session carry one key, and none is an abandon or a hold. *)
RequestsFit ==
  \A r \in Requests :
    /\ req[r].op \in {"checkout", "confirm"}
    /\ \A q \in Requests : S(q) = S(r) => K(q) = K(r)

(* A session is pinned to no other key, an answer "ok" names an order, and a *)
(* request the tab has not sent has not arrived.                             *)
ServerFits ==
  \A r \in Requests :
    /\ Session(r).key \in {None, K(r)}
    /\ co[r].at \notin {"abandonLock", "abandonRelease"}
    /\ co[r].answer = "ok" => co[r].got # None
    /\ r \in Shopper \ sent => At(r, "idle")

(* Orders carry the reference and the key of a request, and EC-OPS repeats no key. *)
OrdersFit ==
  \A o \in OrderIds : Placed(o) =>
    /\ \E r \in Requests : order[o].ref = S(r) /\ order[o].key = K(r)
    /\ \A p \in OrderIds :
         EnforceUnique /\ Placed(p) /\ order[p].key = order[o].key => p = o

(* A view of a sold session may lag behind it, by its completion only. *)
ViewFits(view, session) ==
  /\ session.state \in Finished
  /\ view.state \in {"FULFILL_PENDING", session.state}
  /\ view.order = session.order

CallFits ==
  /\ tab.call # None => tab.call \in sent
  /\ reply # Nothing =>
       /\ tab.call # None
       /\ ViewFits(reply, sess[S(tab.call)])
  /\ tab.call # None /\ At(tab.call, "done") /\ co[tab.call].answer = "ok" => reply # Nothing

ShownFits ==
  /\ tab.sid # None => sess[tab.sid].state \in Finished
  /\ shown # Nothing => tab.sid # None /\ ViewFits(shown, sess[tab.sid])

StoredFits ==
  stored # None =>
    /\ tab.sid = stored.sid
    /\ sess[stored.sid].key = stored.key
    /\ Shopping => tab.key = stored.key

(* The clicks of one purchase share the key the tab, or sessionStorage, keeps. *)
AttemptsFit ==
  /\ \A r \in attempts : K(r) = tab.key
  /\ stored # None => \A r \in attempts : K(r) = stored.key
  /\ tab.call # None =>
       /\ attempts # {} => K(tab.call) = tab.key
       /\ stored # None => K(tab.call) = stored.key

ShopInv ==
  /\ SagaInv
  /\ ShopTypeOK
  /\ RequestsFit
  /\ ServerFits
  /\ OrdersFit
  /\ CallFits
  /\ ShownFits
  /\ StoredFits
  /\ AttemptsFit

(* checkoutBusy ends: the buttons a click disables come back (App.tsx:79). *)
ClickAnswered == Busy ~> ~Busy

(* A pending order that is finished at the orchestrator is shown as complete in *)
(* the end, unless the user reloads first (hooks.ts:29-32).                     *)
Lags(s) == tab.sid = s /\ Pending(shown) /\ Complete(Says(sess[s]))
PollingShows == \A s \in Sessions : Lags(s) ~> ~Lags(s)

(* checkout.md:78-79, "UI shows retry finalize", "Retry confirm with the same *)
(* Idempotency-Key": with the page open, a pending order is finished.         *)
RetryFinishes == Pending(shown) ~> ~Pending(shown)
====
