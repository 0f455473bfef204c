---- MODULE MCLiveCatalog ----
(* LiveCatalog on small sets. *)
EXTENDS LiveCatalog

CONSTANTS s1, s2

SomeSkus == {s1, s2}
OneInJson == {s1}
StockLevels == {0, 1}
====
