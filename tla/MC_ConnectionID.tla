--------------------------- MODULE MC_ConnectionID ---------------------------
(***************************************************************************)
(* ConnectionID with a 3-bit timestamp field (it wraps after 8 s), half-   *)
(* second clock ticks and a 2 s TTL; the clock runs past the wrap.        *)
(***************************************************************************)
EXTENDS ConnectionID

MCTimes == 0 .. 19
=============================================================================
