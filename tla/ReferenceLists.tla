--------------------------- MODULE ReferenceLists ---------------------------
(***************************************************************************)
(* The ordered reference lists of the profile service lose entries in two *)
(* places: set_profile_references drops the blank names of a request      *)
(* (the comprehension "if name.strip()"), and deleting an image removes   *)
(* its video_profile_references rows through the image_name foreign key   *)
(* (ON DELETE CASCADE), the remaining rows keeping their sort_order.      *)
(* Both keep the other entries in their order.                            *)
(***************************************************************************)
EXTENDS Naturals, Sequences

(* The list s with every entry equal to x left out, in order.  This is    *)
(* SelectSeq(s, LAMBDA n : n # x) written out as the Sequences module     *)
(* defines SelectSeq, by a recursive function over the prefixes of s, so  *)
(* that proofs can unfold it.                                             *)
Without(s, x) ==
  LET f[i \in 0..Len(s)] ==
        IF i = 0 THEN <<>>
        ELSE IF s[i] # x THEN Append(f[i - 1], s[i]) ELSE f[i - 1]
  IN f[Len(s)]
=============================================================================
