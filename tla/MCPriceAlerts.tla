---------------------------- MODULE MCPriceAlerts ----------------------------
(* A small instance of PriceAlerts: one owner has all the rules, and the    *)
(* definitions of Elsewhere watch another market than the others.           *)
EXTENDS PriceAlerts

CONSTANTS Elsewhere

MCOwnerOf == [r \in Rules |-> CHOOSE o \in Owners : TRUE]
MCScopeOf == [d \in Definitions |-> IF d \in Elsewhere THEN "other" ELSE "market"]
=============================================================================
