----------------------------- MODULE MCReplayWindow -----------------------------
(* ReplayWindow on six sequence numbers, so that they wrap, and a ring of two  *)
(* slots, so that replies are evicted.                                        *)
EXTENDS ReplayWindow
=============================================================================
