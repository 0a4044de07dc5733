----------------------------- MODULE MCBreaker -----------------------------
(* Three concurrent callers, with stale calls in flight around the breaker *)
(* as it opens, half-opens and closes.                                     *)
EXTENDS Breaker
CONSTANTS c1, c2, c3
MCCallers == {c1, c2, c3}
=============================================================================
