----------------------------- MODULE MCFrameLink -----------------------------
(* FrameLink with a frame whose payload looks like the start of another, one  *)
(* without a payload, an array of two bytes that the second overruns, and     *)
(* times whose low word wraps inside the run.                                 *)
EXTENDS FrameLink
MCEmpty == {[type |-> CMD, payload |-> <<>>]}
MCFrames == {[type |-> CMD, payload |-> <<MagicH>>]} \cup MCEmpty
MCNoise == {MagicH}
=============================================================================
