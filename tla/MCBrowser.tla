------------------------------- MODULE MCBrowser ------------------------------
(* A tab with two calls and a tab with one: calls meet the refresh of their    *)
(* own page, and pages that of the other tab.  Five tokens allow for a login   *)
(* and two expiries of the first tab, so that a call that was sent again is    *)
(* refused again, or for a second tab's restore and expiry in between.         *)
EXTENDS Browser

CONSTANTS b1, b2, k1, k2

MCCalls == [b \in Tabs |-> IF b = b1 THEN {k1, k2} ELSE {k1}]
===============================================================================
