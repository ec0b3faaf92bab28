--------------------------- MODULE MCVideoProfiles ---------------------------
(* Model-checking instance of VideoProfiles.  Two profile ids let one be   *)
(* deleted while the other is kept; two images and a blank entry, in       *)
(* requests of up to three names, give repeated names, missing images and  *)
(* blank entries in one request.                                           *)
EXTENDS VideoProfiles, TLC

CONSTANTS p1, p2, i1, i2, blank, none

MCProfiles == {p1, p2}
MCImages == {i1, i2}
MCMaxNames == 3
MCSymmetry == Permutations(MCProfiles) \cup Permutations(MCImages)
=============================================================================
