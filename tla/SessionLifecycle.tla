---- MODULE SessionLifecycle ----
(***************************************************************************)
(* What a checkout session promises its client, whatever the upstreams do: *)
(* it is opened, reserves stock once, and then either sells - an order id  *)
(* that no other session has, attached once and for ever - or is closed    *)
(* for good.  A sale may be pending (stock not yet finalised) before it is *)
(* settled; a pending sale is never closed.                                *)
(***************************************************************************)
CONSTANTS Sessions, OrderIds, None

VARIABLES
  stage,  \* "unborn", "open", "reserved", "pending", "settled" or "closed"
  sale    \* the order id of the session, or None

lifecycleVars == <<stage, sale>>

Move(s, from, to) == stage[s] \in from /\ stage' = [stage EXCEPT ![s] = to]

Open(s) == Move(s, {"unborn"}, "open") /\ UNCHANGED sale
ReserveStock(s) == Move(s, {"open"}, "reserved") /\ UNCHANGED sale
Sell(s, o) ==
  /\ \A other \in Sessions : sale[other] # o
  /\ Move(s, {"reserved"}, "pending") \/ Move(s, {"reserved"}, "settled")
  /\ sale' = [sale EXCEPT ![s] = o]
Settle(s) == Move(s, {"pending"}, "settled") /\ UNCHANGED sale
Close(s) == Move(s, {"open", "reserved"}, "closed") /\ UNCHANGED sale

LifecycleInit == /\ stage = [s \in Sessions |-> "unborn"]
                 /\ sale = [s \in Sessions |-> None]

LifecycleNext == \E s \in Sessions :
  \/ Open(s) \/ ReserveStock(s) \/ Settle(s) \/ Close(s)
  \/ \E o \in OrderIds : Sell(s, o)

LifecycleSpec == LifecycleInit /\ [][LifecycleNext]_lifecycleVars
====
