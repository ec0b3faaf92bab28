--------------------------- MODULE Keyframes_proofs ---------------------------
(***************************************************************************)
(* Proofs about the keyframe loop of _prepare_keyframes, for every        *)
(* MaxDuration and MaxRefs.                                                *)
(***************************************************************************)
EXTENDS Keyframes, SequenceTheorems, TLAPS

USE DurationAssumption, RefsAssumption

(* The count the code computes is the spec's clamp(duration, 2, 24).      *)
LEMMA CountIsClamp ==
  ASSUME NEW d \in Int
  PROVE  /\ KeyframeCount(d) = Clamp(d, 2, 24)
         /\ KeyframeCount(d) \in 2..24
  BY DEF KeyframeCount, Clamp, Max2, Min2

(* With at least one reference, the index copied is one of them.         *)
LEMMA SourceInRange ==
  ASSUME NEW i \in Nat, NEW n \in Nat \ {0}, NEW s \in BOOLEAN
  PROVE  SourceIndex(i, n, s) \in 0..(n - 1)
  BY DEF SourceIndex

(* The loop invariant: the keyframes written so far are the references    *)
(* SourceIndex chooses for indices 0..idx-1.                              *)
(* One more keyframe stays within the count and the index's type.       *)
LEMMA NextIndex ==
  ASSUME NEW i \in 0..24, NEW k \in 2..24, i < k
  PROVE  i + 1 <= k /\ i + 1 \in 0..24
  OBVIOUS

LoopInv ==
  /\ TypeOK
  /\ pc # "failed" => nrefs > 0
  /\ idx <= KeyframeCount(dur)
  /\ Len(frames) = idx
  /\ \A i \in 1..idx : frames[i] = SourceIndex(i - 1, nrefs, strict)
  /\ pc = "done" => idx = KeyframeCount(dur)

LEMMA LoopInit == Init => LoopInv
<1> SUFFICES ASSUME Init PROVE LoopInv
  OBVIOUS
<1>1. missing \subseteq 0..(MaxRefs - 1)
  BY DEF Init
<1>2. KeyframeCount(dur) \in 2..24
  BY CountIsClamp DEF Init
<1>3. QED
  BY <1>1, <1>2, EmptySeq DEF Init, LoopInv, TypeOK

LEMMA LoopStep == LoopInv /\ [Next]_vars => LoopInv'
<1> SUFFICES ASSUME LoopInv, [Next]_vars PROVE LoopInv'
  OBVIOUS
<1>0. KeyframeCount(dur) \in 2..24
  BY CountIsClamp DEF LoopInv, TypeOK
<1>1. CASE CopyKeyframe
  <2>1. /\ nrefs \in 1..MaxRefs
        /\ idx \in 0..24
        /\ frames \in Seq(0..(MaxRefs - 1))
        /\ strict \in BOOLEAN
        /\ idx < KeyframeCount(dur)
        /\ Len(frames) = idx
    BY <1>1 DEF CopyKeyframe, LoopInv, TypeOK
  <2>2. SourceIndex(idx, nrefs, strict) \in 0..(MaxRefs - 1)
    <3>1. SourceIndex(idx, nrefs, strict) \in 0..(nrefs - 1)
      BY <2>1 DEF SourceIndex
    <3>2. QED
      BY <2>1, <3>1
  <2>3. /\ frames' = Append(frames, SourceIndex(idx, nrefs, strict))
        /\ idx' = idx + 1
        /\ dur' = dur /\ nrefs' = nrefs /\ strict' = strict
        /\ missing' = missing /\ pc' = pc
    BY <1>1 DEF CopyKeyframe
  <2>4. /\ frames' \in Seq(0..(MaxRefs - 1))
        /\ Len(frames') = idx'
        /\ \A i \in 1..idx : frames'[i] = frames[i]
        /\ frames'[idx'] = SourceIndex(idx, nrefs, strict)
    BY <2>1, <2>2, <2>3, AppendProperties
  <2>5. idx' <= KeyframeCount(dur') /\ idx' \in 0..24
    <3>1. KeyframeCount(dur') = KeyframeCount(dur)
      BY <2>3
    <3>2. idx + 1 <= KeyframeCount(dur) /\ idx + 1 \in 0..24
      BY <1>0, <2>1, NextIndex
    <3>3. QED
      BY <2>3, <3>1, <3>2
  <2>6. TypeOK'
    BY <2>3, <2>4, <2>5 DEF LoopInv, TypeOK
  <2>7. \A i \in 1..idx' : frames'[i] = SourceIndex(i - 1, nrefs', strict')
    <3> SUFFICES ASSUME NEW i \in 1..idx' 
                 PROVE frames'[i] = SourceIndex(i - 1, nrefs', strict')
      OBVIOUS
    <3>1. CASE i \in 1..idx
      BY <3>1, <2>1, <2>3, <2>4 DEF LoopInv, SourceIndex
    <3>2. CASE i = idx'
      BY <3>2, <2>1, <2>3, <2>4 DEF SourceIndex
    <3>3. QED
      BY <3>1, <3>2, <2>1, <2>3
  <2>8. pc' = "failed" \/ pc' = "copy"
    BY <1>1, <2>3 DEF CopyKeyframe
  <2>9. QED
    BY <2>3, <2>4, <2>5, <2>6, <2>7, <2>8 DEF LoopInv
<1>2. CASE MissingSource
  BY <1>2 DEF MissingSource, LoopInv, TypeOK
<1>3. CASE Return
  BY <1>3 DEF Return, LoopInv, TypeOK
<1>4. CASE UNCHANGED vars
  BY <1>4 DEF vars, LoopInv, TypeOK
<1>5. QED
  BY <1>1, <1>2, <1>3, <1>4 DEF Next

(* Once all keyframe_count copies are made, the keyframes are exactly    *)
(* those of the spec.                                                      *)
LEMMA FramesComplete ==
  ASSUME LoopInv, pc # "failed", idx = KeyframeCount(dur)
  PROVE  frames = SpecKeyframes(dur, nrefs, strict)
<1>1. idx = Clamp(dur, 2, 24) /\ nrefs \in Nat \ {0}
  BY CountIsClamp DEF LoopInv, TypeOK
<1>2. SpecKeyframes(dur, nrefs, strict) \in Seq(Int)
  BY <1>1 DEF SpecKeyframes, Clamp
<1>3. frames \in Seq(Int)
  BY DEF LoopInv, TypeOK
<1>4. Len(SpecKeyframes(dur, nrefs, strict)) = Len(frames)
  BY <1>1 DEF SpecKeyframes, Clamp, LoopInv
<1>5. \A i \in 1..Len(frames) :
        frames[i] = SpecKeyframes(dur, nrefs, strict)[i]
  BY <1>1 DEF LoopInv, SpecKeyframes, SourceIndex, Clamp
<1>6. QED
  BY <1>2, <1>3, <1>4, <1>5, SeqEqual

(* Once the loop returns, the keyframes are exactly those of the spec.    *)
LEMMA LoopDone == LoopInv => KeyframesFollowReferences
  BY FramesComplete DEF LoopInv, KeyframesFollowReferences

(* Spec 4.5 and S7, for every duration bound and number of references:    *)
(* whenever _prepare_keyframes returns, it has written clamp(duration, 2, *)
(* 24) keyframes copied round robin from the references, or all from the  *)
(* first one under strict lock.                                           *)
THEOREM KeyframesCorrect == Spec => []KeyframesFollowReferences
<1>1. Init => LoopInv
  BY LoopInit
<1>2. LoopInv /\ [Next]_vars => LoopInv'
  BY LoopStep
<1>3. LoopInv => KeyframesFollowReferences
  BY LoopDone
<1>4. QED
  BY <1>1, <1>2, <1>3, PTL DEF Spec

(* Every step of the keyframe loop keeps its variables in their types.   *)
THEOREM KeyframesTypeCorrect == Spec => []TypeOK
<1>1. LoopInv => TypeOK
  BY DEF LoopInv
<1>2. QED
  BY LoopInit, LoopStep, <1>1, PTL DEF Spec

-----------------------------------------------------------------------------
(* The refinement of the copy loop to the atomic preparation of spec 4.5. *)

(* Every reference copied so far existed.                                 *)
CopiedPresent == \A i \in 0..(idx - 1) : SourceIndex(i, nrefs, strict) \notin missing

RefInv == LoopInv /\ CopiedPresent

(* The spec's count and rule are the ones KeyframesFollowReferences uses. *)
LEMMA RuleIsSpec ==
  ASSUME NEW d \in Int, NEW n, NEW s
  PROVE  /\ Prep!KeyframeTotal(d) = Clamp(d, 2, 24)
         /\ Prep!Rule(d, n, s) = SpecKeyframes(d, n, s)
  BY DEF Prep!KeyframeTotal, Clamp, Prep!Rule, Prep!RefOf, SpecKeyframes

LEMMA RefStep == RefInv /\ [Next]_vars => RefInv'
<1> SUFFICES ASSUME RefInv, [Next]_vars PROVE RefInv'
  OBVIOUS
<1>1. LoopInv'
  BY LoopStep DEF RefInv
<1>2. CASE CopyKeyframe
  <2>1. idx \in Nat /\ idx' = idx + 1
    BY <1>2 DEF CopyKeyframe, RefInv, LoopInv, TypeOK
  <2>2. \A i \in 0..(idx' - 1) : i \in 0..(idx - 1) \/ i = idx
    BY <2>1
  <2>3. QED
    BY <1>1, <1>2, <2>2 DEF CopyKeyframe, RefInv, CopiedPresent
<1>3. CASE MissingSource \/ Return \/ UNCHANGED vars
  BY <1>1, <1>3 DEF MissingSource, Return, vars, RefInv, CopiedPresent
<1>4. QED
  BY <1>2, <1>3 DEF Next

(* Each step of the loop is a step of the preparation or leaves it as it  *)
(* is: a copy is invisible, a missing source is the validation error and  *)
(* the return hands over the keyframes of the rule.                       *)
LEMMA MapStep == RefInv /\ RefInv' /\ [Next]_vars => [Prep!Next]_Prep!pvars
<1> SUFFICES ASSUME RefInv, RefInv', [Next]_vars
             PROVE  [Prep!Next]_Prep!pvars
  OBVIOUS
<1>0. /\ KeyframeCount(dur) = Prep!KeyframeTotal(dur)
      /\ KeyframeCount(dur) \in 2..24
      /\ idx \in Nat
      /\ dur \in Int
  <2>1. dur \in Int /\ idx \in Nat
    BY DEF RefInv, LoopInv, TypeOK
  <2>2. QED
    BY <2>1, CountIsClamp, RuleIsSpec
<1>1. CASE CopyKeyframe
  BY <1>1 DEF CopyKeyframe, Prep!pvars
<1>2. CASE MissingSource
  <2>1. idx \in Nat /\ idx < KeyframeCount(dur)
        /\ SourceIndex(idx, nrefs, strict) \in missing
    BY <1>2 DEF MissingSource, RefInv, LoopInv, TypeOK
  <2>2. idx + 1 \in 1..Prep!KeyframeTotal(dur)
    BY <1>0, <2>1
  <2>3. Prep!RefOf(idx + 1, nrefs, strict) = SourceIndex(idx, nrefs, strict)
    BY <2>1 DEF Prep!RefOf, SourceIndex
  <2>4. Prep!NeedsMissing(dur, nrefs, strict, missing)
    BY <2>1, <2>2, <2>3 DEF Prep!NeedsMissing
  <2>5. Prep!Fail
    BY <1>2, <2>4 DEF MissingSource, Prep!Fail
  <2>6. QED
    BY <2>5 DEF Prep!Next
<1>3. CASE Return
  <2>1. idx = KeyframeCount(dur) /\ pc = "copy" /\ pc' = "done"
        /\ UNCHANGED <<dur, nrefs, strict, missing, frames>>
    BY <1>3 DEF Return
  <2>2. frames' = SpecKeyframes(dur, nrefs, strict)
    BY <2>1, FramesComplete DEF RefInv
  <2>3. ~Prep!NeedsMissing(dur, nrefs, strict, missing)
    <3>1. \A i \in 1..Prep!KeyframeTotal(dur) : i - 1 \in 0..(idx - 1)
      BY <1>0, <2>1, Z3
    <3>2. \A i \in 1..Prep!KeyframeTotal(dur) :
            Prep!RefOf(i, nrefs, strict) = SourceIndex(i - 1, nrefs, strict)
      BY DEF Prep!RefOf, SourceIndex
    <3>3. QED
      BY <3>1, <3>2 DEF Prep!NeedsMissing, RefInv, CopiedPresent
  <2>4. Prep!Rule(dur, nrefs, strict) = SpecKeyframes(dur, nrefs, strict)
    BY <1>0, RuleIsSpec
  <2>5. Prep!Prepare
    BY <2>1, <2>2, <2>3, <2>4 DEF Prep!Prepare
  <2>6. QED
    BY <2>5 DEF Prep!Next
<1>4. CASE UNCHANGED vars
  BY <1>4 DEF vars, Prep!pvars
<1>5. QED
  BY <1>1, <1>2, <1>3, <1>4 DEF Next

(* Spec 4.5, for every duration bound and number of references: the copy  *)
(* loop of _prepare_keyframes implements keyframe preparation as one      *)
(* step, returning the rule's keyframes when every reference it needs     *)
(* exists and raising a validation error when one is missing.             *)
THEOREM ImplementsSpec == Spec => ImplementsPreparation
<1>1. Init => RefInv
  BY LoopInit DEF Init, RefInv, CopiedPresent
<1>2. Init => Prep!Init
  BY DEF Init, Prep!Init
<1>3. QED
  BY <1>1, <1>2, RefStep, MapStep, PTL DEF Spec, Prep!Spec, ImplementsPreparation
=============================================================================
