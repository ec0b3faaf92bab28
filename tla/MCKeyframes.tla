----------------------------- MODULE MCKeyframes -----------------------------
(* Keyframes with the request schema's duration range and up to three     *)
(* reference images, enough for the round robin to wrap around.           *)
EXTENDS Keyframes

MCMaxDuration == 30
MCMaxRefs == 3
=============================================================================
