---- MODULE IhmsStock ----
(***************************************************************************)
(* The stock of KB-IHMS as docker/mock-upstreams/ihms/app.py keeps it, and *)
(* how place_hold (saga/coordinator.py) asks for a part of it: the lines   *)
(* of a SKU are merged, checked against the inventory KB-IHMS lists, and   *)
(* only then sent to POST /api/holds, when the inventory may have moved.   *)
(*                                                                         *)
(* A product is named by its SKU: the catalogs map the two one to one.     *)
(***************************************************************************)
EXTENDS Integers, Sequences, FiniteSetsExt, SequencesExt

CONSTANTS
  Products, \* the products KB-IHMS sells, each by its SKU
  Stock,    \* DEFAULT_INVENTORY: how many it has of each
  Buyers,   \* the callers of place_hold, each with one call at a time
  HoldIds   \* bound: the holds KB-IHMS ever creates

ASSUME StockAssumption == Stock \in [Products -> Nat]
ASSUME HoldIdsAssumption == IsFiniteSet(HoldIds)

VARIABLES
  inventory,  \* MockState.inventory
  holds,      \* MockState.holds: "late" on its way to it, "gone" once popped
  call        \* the call of each buyer to the orchestrator: a 409 is a failure too

stockVars == <<inventory, holds, call>>

Line == [sku : Products, quantity : Nat]
Quantities == [Products -> Nat]
NoneOfIt == [s \in Products |-> 0]

(* `asked` is history: what the buyer wants of each product in all. *)
Hold == [status : {"none", "late", "Active", "Fulfilled", "gone"},
         reserved : Quantities, asked : Quantities]
Call == [at : {"idle", "stock", "createHold", "held", "failed"},
         lines : Seq(Line), asked : Quantities]
NoHold == [status |-> "none", reserved |-> NoneOfIt, asked |-> NoneOfIt]
NoCall == [at |-> "idle", lines |-> <<>>, asked |-> NoneOfIt]

(* What lines ask for of each product. *)
Total(lines) ==
  [s \in Products |-> SumFunctionOnSet([i \in DOMAIN lines |-> lines[i].quantity],
                                       {i \in DOMAIN lines : lines[i].sku = s})]

Becomes(b, at) == call' = [call EXCEPT ![b].at = at]
(* The call has its answer, and its lines are forgotten. *)
Returns(b, at) == call' = [call EXCEPT ![b] = [NoCall EXCEPT !.at = at]]

-----------------------------------------------------------------------------
(* place_hold *)

(* merged_quantities: a dict, in the order the SKUs first come. *)
Merge(merged, line) ==
  IF \E i \in DOMAIN merged : merged[i].sku = line.sku
  THEN [i \in DOMAIN merged |->
          IF merged[i].sku = line.sku
          THEN [merged[i] EXCEPT !.quantity = @ + line.quantity] ELSE merged[i]]
  ELSE Append(merged, line)
(* Faulty: the lines are sent as they come. *)
Merged_AsIs(lines) == lines
Merged(lines) == FoldLeft(Merge, <<>>, lines)

PlaceHold(b, lines, asked) ==
  /\ call[b].at = "idle"
  /\ call' = [call EXCEPT ![b] = [at |-> "stock", lines |-> Merged(lines), asked |-> asked]]
  /\ UNCHANGED <<inventory, holds>>

Exceeds(lines) == \E i \in DOMAIN lines : lines[i].quantity > inventory[lines[i].sku]

(* The pre-check: the lines fit, or the inventory cannot be read. *)
StockChecked(b) ==
  /\ call[b].at = "stock"
  /\ Becomes(b, "createHold")
  /\ UNCHANGED <<inventory, holds>>

StockShort(b) ==
  /\ call[b].at = "stock"
  /\ Exceeds(call[b].lines)
  /\ Returns(b, "failed")
  /\ UNCHANGED <<inventory, holds>>

-----------------------------------------------------------------------------
(* POST /api/holds *)

(* `reserved` is a dict too: of two lines of one product the last one counts, *)
(* and each is checked alone.                                                 *)
Reserved(lines) ==
  [s \in Products |->
     LET mine == {i \in DOMAIN lines : lines[i].sku = s}
     IN IF mine = {} THEN 0 ELSE lines[Max(mine)].quantity]

(* Faulty: the orchestrator's own check is relied on. *)
Reserve_Unchecked(b) ==
  \E h \in HoldIds :
    /\ holds[h].status = "none"
    /\ holds' = [holds EXCEPT ![h] = [status |-> "Active", reserved |-> Reserved(call[b].lines),
                                      asked |-> call[b].asked]]
    /\ inventory' = [s \in Products |-> inventory[s] - Reserved(call[b].lines)[s]]
Reserve(b) ==
  /\ ~Exceeds(call[b].lines)
  /\ \E h \in HoldIds :
       /\ holds[h].status = "none"
       /\ holds' = [holds EXCEPT ![h] = [status |-> "Active", reserved |-> Reserved(call[b].lines),
                                         asked |-> call[b].asked]]
       /\ inventory' = [s \in Products |-> inventory[s] - Reserved(call[b].lines)[s]]

HoldCreated(b) ==
  /\ call[b].at = "createHold"
  /\ Reserve(b)
  /\ Returns(b, "held")

HoldConflict(b) ==
  /\ call[b].at = "createHold"
  /\ Exceeds(call[b].lines)
  /\ Returns(b, "failed")
  /\ UNCHANGED <<inventory, holds>>

(* The request is on its way to KB-IHMS when its client gives up on it. *)
Delay(b) ==
  /\ \E h \in HoldIds :
       /\ holds[h].status = "none"
       /\ holds' = [holds EXCEPT ![h] = [status |-> "late", reserved |-> Reserved(call[b].lines),
                                         asked |-> call[b].asked]]
  /\ UNCHANGED inventory

(* A timeout or a transport error: the hold is still made, at once or later, or not. *)
HoldFails(b) ==
  /\ call[b].at = "createHold"
  /\ Delay(b) \/ UNCHANGED <<inventory, holds>>
  /\ Returns(b, "failed")

(* KB-IHMS makes a hold that nobody waits for; one that does not fit is refused, *)
(* which changes nothing.                                                        *)
LateHold(h) ==
  /\ holds[h].status = "late"
  /\ \A s \in Products : holds[h].reserved[s] <= inventory[s]
  /\ holds' = [holds EXCEPT ![h].status = "Active"]
  /\ inventory' = [s \in Products |-> inventory[s] - holds[h].reserved[s]]
  /\ UNCHANGED call

(* An unknown product, or no catalog: the cart gets no further. *)
CartRejected(b) ==
  /\ call[b].at = "stock"
  /\ Returns(b, "failed")
  /\ UNCHANGED <<inventory, holds>>

Returned(b) == call[b].at \in {"held", "failed"}

-----------------------------------------------------------------------------
(* DELETE /api/holds/{id} and POST /api/holds/{id}/fulfill.  The saga retries *)
(* both, so KB-IHMS may be sent either one again, in any order.               *)

(* Faulty: the record of a released hold is kept. *)
ReleaseHold_Kept(h) ==
  /\ holds[h].status = "Active"
  /\ inventory' = [s \in Products |-> inventory[s] + holds[h].reserved[s]]
  /\ UNCHANGED <<holds, call>>
(* Faulty: a fulfilled hold is released like any other. *)
ReleaseHold_Fulfilled(h) ==
  /\ holds[h].status \in {"Active", "Fulfilled"}
  /\ inventory' = [s \in Products |-> inventory[s] + holds[h].reserved[s]]
  /\ holds' = [holds EXCEPT ![h] = [NoHold EXCEPT !.status = "gone"]]
  /\ UNCHANGED call

(* KB-IHMS has made this hold. *)
Known(h) == holds[h].status \notin {"none", "late"}

(* 404 for a hold that is gone, 409 for a fulfilled one: nothing is given back. *)
ReleaseHold(h) ==
  /\ Known(h)
  /\ IF holds[h].status = "Active"
     THEN /\ inventory' = [s \in Products |-> inventory[s] + holds[h].reserved[s]]
          /\ holds' = [holds EXCEPT ![h] = [NoHold EXCEPT !.status = "gone"]]
     ELSE UNCHANGED <<inventory, holds>>
  /\ UNCHANGED call

FulfillHold(h) ==
  /\ Known(h)
  /\ holds' = [holds EXCEPT ![h].status = IF @ = "Active" THEN "Fulfilled" ELSE @]
  /\ UNCHANGED <<inventory, call>>

StockInit ==
  /\ inventory = Stock
  /\ holds = [h \in HoldIds |-> NoHold]
  /\ call = [b \in Buyers |-> NoCall]

StockStep ==
  \/ \E b \in Buyers : \/ StockChecked(b) \/ StockShort(b) \/ CartRejected(b)
                       \/ HoldCreated(b) \/ HoldConflict(b) \/ HoldFails(b)
  \/ \E h \in HoldIds : LateHold(h) \/ ReleaseHold(h) \/ FulfillHold(h)

-----------------------------------------------------------------------------
StockTypeOK ==
  /\ inventory \in [Products -> Int]
  /\ holds \in [HoldIds -> Hold]
  /\ call \in [Buyers -> Call]

(* KB-IHMS never promises stock it does not have, though the orchestrator's check *)
(* is stale when the hold is made (coordinator.py:130).                           *)
NeverOversold == \A s \in Products : inventory[s] >= 0

(* No release, fulfilment or repeat of either makes or loses stock: what is on the *)
(* shelf, in holds and sold is what there was.                                     *)
Kept == {h \in HoldIds : holds[h].status \in {"Active", "Fulfilled"}}
StockConserved ==
  \A s \in Products :
    inventory[s] + SumFunctionOnSet([h \in HoldIds |-> holds[h].reserved[s]], Kept) = Stock[s]

(* Whatever KB-IHMS is sent, in whatever order and however often, its stock moves as *)
(* StockLedger says: from the shelf into a hold, from a hold back or out, and a sold *)
(* piece never again (ihms/app.py:160-216).                                          *)
Units(status) ==
  [s \in Products |->
     SumFunctionOnSet([h \in HoldIds |-> holds[h].reserved[s]],
                      {h \in HoldIds : holds[h].status = status})]
Ledger == INSTANCE StockLedger
            WITH shelf <- inventory, held <- Units("Active"), sold <- Units("Fulfilled")
ImplementsLedger == Ledger!LedgerSpec

(* A hold keeps of every product all the buyer asked for, in however many lines *)
(* (coordinator.py:87, ihms/app.py:155-158).                                    *)
HeldAsAsked == \A h \in HoldIds : holds[h].reserved = holds[h].asked

(* The inductive invariant: what a call has merged is what its buyer asked for. *)
AsksAll ==
  \A b \in Buyers :
    call[b].at \in {"stock", "createHold"} => Reserved(call[b].lines) = call[b].asked
StockInv == StockTypeOK /\ NeverOversold /\ StockConserved /\ HeldAsAsked /\ AsksAll
====
