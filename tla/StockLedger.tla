---- MODULE StockLedger ----
(***************************************************************************)
(* What KB-IHMS promises about its stock, whatever it is sent and however  *)
(* often: the pieces of a product are on the shelf, held or sold.  They    *)
(* are held from the shelf, and a held piece goes back to the shelf or is  *)
(* sold; none is made or lost on the way, and what is sold stays sold.     *)
(***************************************************************************)
EXTENDS Integers

CONSTANTS Products, Stock

VARIABLES shelf, held, sold  \* the pieces of each product there

ledgerVars == <<shelf, held, sold>>

Pieces == [Products -> Nat]

(* Some of what is in one place is in another after the step. *)
Moves(from, to) ==
  /\ from' \in Pieces /\ to' \in Pieces
  /\ \A s \in Products : from'[s] <= from[s] /\ from'[s] + to'[s] = from[s] + to[s]

Hold == Moves(shelf, held) /\ UNCHANGED sold
Release == Moves(held, shelf) /\ UNCHANGED sold
Sell == Moves(held, sold) /\ UNCHANGED shelf

LedgerInit ==
  /\ shelf = Stock
  /\ held = [s \in Products |-> 0]
  /\ sold = [s \in Products |-> 0]

LedgerNext == Hold \/ Release \/ Sell

LedgerSpec == LedgerInit /\ [][LedgerNext]_ledgerVars
====
