---- MODULE FreshCatalog ----
(***************************************************************************)
(* What the catalog promises each request, however many there are and      *)
(* whatever the cache they share: its answer is one look at KB-IHMS's      *)
(* stock, taken between the request and the answer.  Of a SKU that look    *)
(* did not tell, it shows a default.                                       *)
(***************************************************************************)
CONSTANTS
  Requests,
  Rows,     \* what an answer may show: quantities, by SKU
  Default,  \* what may be shown of a SKU that KB-IHMS did not tell
  NoReply   \* no look has succeeded

VARIABLES
  stock,  \* KB-IHMS's stock
  stage,  \* of each request: "idle", "open" or "answered"
  look,   \* the stock it last saw, or NoReply
  shown   \* its answer

freshVars == <<stock, stage, look, shown>>

IsOf(rows, reply) ==
  \A s \in DOMAIN rows :
    IF reply # NoReply /\ s \in DOMAIN reply
    THEN rows[s] = reply[s]
    ELSE rows[s] \in Default[s]

StockMoves == UNCHANGED <<stage, look, shown>>

Open(r) ==
  /\ stage[r] = "idle"
  /\ stage' = [stage EXCEPT ![r] = "open"]
  /\ UNCHANGED <<stock, look, shown>>

Look(r) ==
  /\ stage[r] = "open"
  /\ look' \in {[look EXCEPT ![r] = stock], [look EXCEPT ![r] = NoReply]}
  /\ UNCHANGED <<stock, stage, shown>>

Answer(r) ==
  /\ stage[r] # "answered"
  /\ stage' = [stage EXCEPT ![r] = "answered"]
  /\ look' \in {look, [look EXCEPT ![r] = NoReply]}
  /\ \E rows \in Rows : IsOf(rows, look'[r]) /\ shown' = [shown EXCEPT ![r] = rows]
  /\ UNCHANGED stock

FreshInit ==
  /\ stage = [r \in Requests |-> "idle"]
  /\ look = [r \in Requests |-> NoReply]
  /\ \A r \in Requests : DOMAIN shown[r] = {}

FreshNext == StockMoves \/ \E r \in Requests : Open(r) \/ Look(r) \/ Answer(r)

FreshSpec == FreshInit /\ [][FreshNext]_freshVars
====
