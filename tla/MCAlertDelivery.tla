--------------------------- MODULE MCAlertDelivery ---------------------------
(* Small instances of AlertDelivery for TLC: two dashboards with a socket  *)
(* each, or one that may have an old socket beside its new one.            *)
EXTENDS AlertDelivery, TLC

CONSTANTS d1, d2

TwoSockets == {<<d1, 1>>, <<d1, 2>>}
OneEach    == {<<d1, 1>>, <<d2, 1>>}
Symmetry   == Permutations({d1, d2})
=============================================================================
