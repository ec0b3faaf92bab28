------------------------- MODULE KeyframePreparation -------------------------
(***************************************************************************)
(* What keyframe preparation promises (spec 4.5), as one atomic step:     *)
(* given the duration, the N references, strict_lock and which reference  *)
(* files are missing, it either returns clamp(duration, 2, 24) keyframes, *)
(* keyframe i copied from reference i mod N (from reference 0 under       *)
(* strict lock), or raises a validation error because one of the          *)
(* references it had to copy is missing.  With no references it raises   *)
(* before copying anything.                                               *)
(***************************************************************************)
EXTENDS Naturals, Sequences

CONSTANTS MaxDuration, MaxRefs

VARIABLES
  dur, nrefs, strict, missing,  \* the inputs, as in Keyframes
  outcome,    \* "pending", "returned" or "invalid" (VideoValidationError)
  keyframes   \* the keyframes returned, each the reference it copies

pvars == <<dur, nrefs, strict, missing, outcome, keyframes>>

KeyframeTotal(d) == IF d < 2 THEN 2 ELSE IF d > 24 THEN 24 ELSE d

(* The reference keyframe i (from 1) is copied from.                      *)
RefOf(i, n, s) == IF s THEN 0 ELSE (i - 1) % n

Rule(d, n, s) == [i \in 1..KeyframeTotal(d) |-> RefOf(i, n, s)]

(* Some reference the rule copies is missing.                             *)
NeedsMissing(d, n, s, m) == \E i \in 1..KeyframeTotal(d) : RefOf(i, n, s) \in m

Init ==
  /\ dur \in 1..MaxDuration
  /\ nrefs \in 0..MaxRefs
  /\ strict \in BOOLEAN
  /\ missing \in SUBSET (0..(nrefs - 1))
  /\ outcome = IF nrefs = 0 THEN "invalid" ELSE "pending"
  /\ keyframes = <<>>

Prepare ==
  /\ outcome = "pending"
  /\ ~NeedsMissing(dur, nrefs, strict, missing)
  /\ outcome' = "returned"
  /\ keyframes' = Rule(dur, nrefs, strict)
  /\ UNCHANGED <<dur, nrefs, strict, missing>>

Fail ==
  /\ outcome = "pending"
  /\ NeedsMissing(dur, nrefs, strict, missing)
  /\ outcome' = "invalid"
  /\ UNCHANGED <<dur, nrefs, strict, missing, keyframes>>

Next == Prepare \/ Fail

Spec == Init /\ [][Next]_pvars
=============================================================================
