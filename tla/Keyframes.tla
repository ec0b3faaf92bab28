------------------------------ MODULE Keyframes ------------------------------
(***************************************************************************)
(* Keyframe preparation and the input frame rate of the encoder           *)
(* (VideoService._prepare_keyframes and the start of _encode_video).      *)
(*                                                                         *)
(* _prepare_keyframes copies keyframe_count reference images into the     *)
(* job's temp directory as keyframe_00000.png, keyframe_00001.png, ...;   *)
(* the loop is modelled one copy per step, so that a missing source file  *)
(* met half way is a state of its own.  A reference image is its index in *)
(* the profile's ordered reference list; the file copy itself is data.    *)
(* _encode_video then feeds the keyframes to ffmpeg at                    *)
(* max(keyframe_count / max(duration_sec, 1), 1.0) frames per second,     *)
(* printed with four decimals, and cuts the output at "-t duration_sec".  *)
(***************************************************************************)
EXTENDS Naturals, Sequences

CONSTANTS
  MaxDuration,  \* largest duration_sec a request may carry (schema: le=30)
  MaxRefs       \* largest number of reference images of a profile

ASSUME DurationAssumption == MaxDuration \in Nat \ {0}
ASSUME RefsAssumption == MaxRefs \in Nat

Max2(a, b) == IF a >= b THEN a ELSE b
Min2(a, b) == IF a <= b THEN a ELSE b

(* Mutant of KeyframeCount: an off-by-one in the cap of 24 keyframes.     *)
KeyframeCount_CapOffByOne(d) == Max2(2, Min2(Max2(d, 2), 25))

(* keyframe_count = max(2, min(max(duration_sec, 2), 24))                  *)
KeyframeCount(d) == Max2(2, Min2(Max2(d, 2), 24))

(* Mutant of SourceIndex: the round robin starts at the second reference. *)
SourceIndex_Shifted(i, n, strict) == IF strict THEN 0 ELSE (i + 1) % n

(* The reference copied to keyframe i: the first one under strict_lock,   *)
(* else source_paths[index % len(source_paths)].                          *)
SourceIndex(i, n, strict) == IF strict THEN 0 ELSE i % n

(* f"{max(keyframe_count / max(duration_sec, 1), 1.0):.4f}" as a number   *)
(* of ten-thousandths.  The rounding is half up, where Python rounds the  *)
(* binary double; the two differ only on a tie, and the rates this code   *)
(* produces (1 and 2) are exact.                                          *)
InputFps(k, d) ==
  LET den == Max2(d, 1) IN
    IF k >= den THEN (20000 * k + den) \div (2 * den) ELSE 10000

-----------------------------------------------------------------------------
VARIABLES
  dur,      \* duration_sec of the job
  nrefs,    \* len(source_paths): the profile's reference images
  strict,   \* generation_lock.strict_lock
  missing,  \* indices of references whose file does not exist
  pc,       \* "copy" inside the loop, "done" returned, "failed" raised
  idx,      \* the loop's index
  frames    \* the reference copied to each keyframe written so far

vars == <<dur, nrefs, strict, missing, pc, idx, frames>>

TypeOK ==
  /\ dur \in 1..MaxDuration
  /\ nrefs \in 0..MaxRefs
  /\ strict \in BOOLEAN
  /\ missing \subseteq 0..(MaxRefs - 1)
  /\ pc \in {"copy", "done", "failed"}
  /\ idx \in 0..24
  /\ frames \in Seq(0..(MaxRefs - 1))

(* Any request duration, reference list and strict_lock; an empty list    *)
(* raises "No reference images available" before the loop.  (A name the   *)
(* image store cannot resolve also raises before any copy.)               *)
Init ==
  /\ dur \in 1..MaxDuration
  /\ nrefs \in 0..MaxRefs
  /\ strict \in BOOLEAN
  /\ missing \in SUBSET (0..(nrefs - 1))
  /\ pc = IF nrefs = 0 THEN "failed" ELSE "copy"
  /\ idx = 0
  /\ frames = <<>>

(* Mutant of CopyKeyframe: the existence check is skipped, so a missing   *)
(* source may be "copied" too.                                            *)
CopyKeyframe_NoCheck ==
  /\ pc = "copy"
  /\ idx < KeyframeCount(dur)
  /\ frames' = Append(frames, SourceIndex(idx, nrefs, strict))
  /\ idx' = idx + 1
  /\ UNCHANGED <<dur, nrefs, strict, missing, pc>>

(* One iteration: the source exists and is copied to keyframe idx.        *)
CopyKeyframe ==
  /\ pc = "copy"
  /\ idx < KeyframeCount(dur)
  /\ SourceIndex(idx, nrefs, strict) \notin missing
  /\ frames' = Append(frames, SourceIndex(idx, nrefs, strict))
  /\ idx' = idx + 1
  /\ UNCHANGED <<dur, nrefs, strict, missing, pc>>

(* One iteration: "if not src_path.exists(): raise VideoValidationError". *)
MissingSource ==
  /\ pc = "copy"
  /\ idx < KeyframeCount(dur)
  /\ SourceIndex(idx, nrefs, strict) \in missing
  /\ pc' = "failed"
  /\ UNCHANGED <<dur, nrefs, strict, missing, idx, frames>>

(* The loop ends; the pattern and keyframe_count are returned.            *)
Return ==
  /\ pc = "copy"
  /\ idx = KeyframeCount(dur)
  /\ pc' = "done"
  /\ UNCHANGED <<dur, nrefs, strict, missing, idx, frames>>

Next == CopyKeyframe \/ MissingSource \/ Return

Spec == Init /\ [][Next]_vars

-----------------------------------------------------------------------------
(* The rule of spec 4.5, written independently of the code: clamp the     *)
(* duration to 2..24 keyframes; keyframe i is reference i mod N, or       *)
(* reference 0 under strict lock.                                         *)
Clamp(x, lo, hi) == IF x < lo THEN lo ELSE IF x > hi THEN hi ELSE x

SpecKeyframes(d, n, s) ==
  [i \in 1..Clamp(d, 2, 24) |-> IF s THEN 0 ELSE (i - 1) % n]

(* Spec 4.5 and scenario S7: when _prepare_keyframes returns, the temp    *)
(* directory holds clamp(duration, 2, 24) keyframes, copied from the      *)
(* references in round-robin order, or all from the first reference       *)
(* under strict lock.                                                     *)
KeyframesFollowReferences ==
  pc = "done" => frames = SpecKeyframes(dur, nrefs, strict)

(* Spec 3 (Asset.duration) and scenario S1: the keyframes fed to ffmpeg   *)
(* at the rate _encode_video computes last at least the requested         *)
(* duration, so "-t duration_sec" yields a video of that duration, the    *)
(* one the video_assets row records.                                      *)
InputCoversDuration ==
  pc = "done" => Len(frames) * 10000 >= dur * InputFps(Len(frames), dur)

(* The loop seen as the atomic step of spec 4.5: it is pending while it   *)
(* copies, and its keyframes are visible once it has returned.            *)
Prep == INSTANCE KeyframePreparation WITH
          outcome <- IF pc = "copy" THEN "pending"
                     ELSE IF pc = "done" THEN "returned" ELSE "invalid",
          keyframes <- IF pc = "done" THEN frames ELSE <<>>

(* Spec 4.5: _prepare_keyframes implements keyframe preparation: it       *)
(* returns exactly the keyframes of the rule when every reference the     *)
(* rule copies exists, and raises a validation error exactly when one of  *)
(* them is missing, whichever copy meets it.                              *)
ImplementsPreparation == Prep!Spec
=============================================================================
