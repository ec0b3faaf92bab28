------------------------- MODULE VideoProfiles_proofs -------------------------
(***************************************************************************)
(* Proofs about the profile service, for every set of profile ids and     *)
(* images.  The consent rule is kept by every profile handler; only a     *)
(* change of the configuration (a restart) can break it.                  *)
(***************************************************************************)
EXTENDS VideoProfiles, ReferenceLists_proofs, TLAPS

USE ConfigsAssumption, UnsetAssumption, ProfilesAssumption

(* The part of the state the consent rule reads, with its types.          *)
ConsentInv ==
  /\ mode \in [Profiles -> Modes]
  /\ consent \in [Profiles -> BOOLEAN]
  /\ requireConsent \in Configs
  /\ ConsentHeld

LEMMA ConsentInit == ProfileInit => ConsentInv
  BY DEF ProfileInit, ConsentInv, ConsentHeld, Modes

(* Every profile handler and every image store step keeps the rule, as    *)
(* long as the consent setting stays the same: create_profile checks the  *)
(* new profile, update_profile the effective post-patch values, and the   *)
(* other steps leave mode and consent alone.                              *)
LEMMA ConsentStep ==
  ConsentInv /\ [ProfileNext]_pvars /\ requireConsent' = requireConsent
    => ConsentInv'
<1> SUFFICES ASSUME ConsentInv, [ProfileNext]_pvars,
                    requireConsent' = requireConsent
             PROVE  ConsentInv'
  OBVIOUS
<1>1. CASE \E m \in Modes, c \in BOOLEAN : CreateProfile(m, c)
  <2> PICK m \in Modes, c \in BOOLEAN : CreateProfile(m, c)
    BY <1>1
  <2>1. CASE ~ValidProfileMode(m, c) /\ Reject("invalid")
    BY <2>1 DEF Reject, ConsentInv, ConsentHeld
  <2>2. CASE /\ ValidProfileMode(m, c)
             /\ \E p \in Profiles \ used :
                  /\ profiles' = profiles \cup {p}
                  /\ used' = used \cup {p}
                  /\ mode' = [mode EXCEPT ![p] = m]
                  /\ consent' = [consent EXCEPT ![p] = c]
    <3> PICK p \in Profiles \ used :
              /\ profiles' = profiles \cup {p}
              /\ mode' = [mode EXCEPT ![p] = m]
              /\ consent' = [consent EXCEPT ![p] = c]
      BY <2>2
    <3>1. mode' \in [Profiles -> Modes] /\ consent' \in [Profiles -> BOOLEAN]
      BY DEF ConsentInv
    <3>2. ConsentHeld'
      BY <2>2 DEF ConsentInv, ConsentHeld, ValidProfileMode
    <3>3. QED
      BY <3>1, <3>2 DEF ConsentInv
  <2>3. QED
    BY <2>1, <2>2 DEF CreateProfile
<1>2. CASE \E p \in Profiles, m \in Modes \cup {Unset}, c \in BOOLEAN \cup {Unset} :
             UpdateProfile(p, m, c)
  <2> PICK p \in Profiles, m \in Modes \cup {Unset}, c \in BOOLEAN \cup {Unset} :
             UpdateProfile(p, m, c)
    BY <1>2
  <2> DEFINE em == IF m = Unset THEN mode[p] ELSE m
             ec == IF c = Unset THEN consent[p] ELSE c
  <2>0. em \in Modes /\ ec \in BOOLEAN
    BY DEF ConsentInv
  <2>1. CASE p \notin profiles /\ Reject("not_found")
    BY <2>1 DEF Reject, ConsentInv, ConsentHeld
  <2>2. CASE p \in profiles /\ ~ValidProfileMode(em, ec) /\ Reject("invalid")
    BY <2>2 DEF Reject, ConsentInv, ConsentHeld
  <2>3. CASE /\ p \in profiles
             /\ ValidProfileMode(em, ec)
             /\ mode' = [mode EXCEPT ![p] = em]
             /\ consent' = [consent EXCEPT ![p] = ec]
             /\ UNCHANGED <<profiles, used, refs, images, requireConsent>>
    <3>1. mode' \in [Profiles -> Modes] /\ consent' \in [Profiles -> BOOLEAN]
      BY <2>0, <2>3 DEF ConsentInv
    <3>2. ConsentHeld'
      BY <2>0, <2>3 DEF ConsentInv, ConsentHeld, ValidProfileMode
    <3>3. QED
      BY <3>1, <3>2 DEF ConsentInv
  <2>4. QED
    BY <2>1, <2>2, <2>3 DEF UpdateProfile
<1>3. CASE \E p \in Profiles : DeleteProfile(p)
  BY <1>3 DEF DeleteProfile, ConsentInv, ConsentHeld
<1>4. CASE \E p \in Profiles, L \in Requests : SetReferences(p, L)
  BY <1>4 DEF SetReferences, Reject, ConsentInv, ConsentHeld
<1>5. CASE \E i \in Images : ImageAdded(i) \/ ImageDeleted(i)
  BY <1>5 DEF ImageAdded, ImageDeleted, ConsentInv, ConsentHeld
<1>6. CASE Reconfigure
  BY <1>6 DEF Reconfigure, ConsentInv, ConsentHeld
<1>7. CASE UNCHANGED pvars
  BY <1>7 DEF pvars, ConsentInv, ConsentHeld
<1>8. QED
  BY <1>1, <1>2, <1>3, <1>4, <1>5, <1>6, <1>7 DEF ProfileNext

(* Spec 3 and scenario S2, for every set of profile ids and images: while *)
(* the service runs with consent required for real identity, no sequence  *)
(* of create_profile, update_profile, delete_profile, attach and image    *)
(* store calls stores a real-identity profile without consent.            *)
THEOREM ConsentKept ==
  ASSUME Configs = {TRUE}
  PROVE  ProfileSpec => []ConsentHeld
<1>1. ConsentInv /\ [ProfileNext]_pvars => ConsentInv'
  <2> SUFFICES ASSUME ConsentInv, [ProfileNext]_pvars PROVE ConsentInv'
    OBVIOUS
  <2>1. requireConsent' = requireConsent
    <3>1. requireConsent = TRUE
      BY DEF ConsentInv
    <3>2. requireConsent' \in Configs
      BY DEF ProfileNext, CreateProfile, UpdateProfile, DeleteProfile,
             SetReferences, Reject, ImageAdded, ImageDeleted, Reconfigure, pvars,
             ConsentInv
    <3>3. QED
      BY <3>1, <3>2
  <2>2. QED
    BY <2>1, ConsentStep
<1>2. ConsentInv => ConsentHeld
  BY DEF ConsentInv
<1>3. QED
  BY ConsentInit, <1>1, <1>2, PTL DEF ProfileSpec

-----------------------------------------------------------------------------
(* The reference lists.  Both lists that lose entries (the blank names of *)
(* a request, the rows of a deleted image) are computed by Without, whose *)
(* lemmas say what it returns.                                            *)

(* A list whose values lie in U is a list over U.                         *)
LEMMA ListOverValues ==
  ASSUME NEW T, NEW U, NEW s \in Seq(T), Range(s) \subseteq U
  PROVE  s \in Seq(U)
<1>1. Len(s) \in Nat /\ s \in [1..Len(s) -> T]
  OBVIOUS
<1>2. \A i \in 1..Len(s) : s[i] \in U
  BY DEF Range
<1>3. s \in [1..Len(s) -> U]
  BY <1>1, <1>2
<1>4. QED
  BY <1>1, <1>3

(* A request is a list over the images and the blank entry.               *)
LEMMA RequestIsSeq ==
  ASSUME NEW L \in Requests
  PROVE  L \in Seq(Images \cup {Blank})
  BY DEF Requests

(* The invariant behind ProfileTypeOK and ReferencesResolve: each needs   *)
(* the other, the types for the lemmas on Without and the references for  *)
(* the type of a list after an image is deleted.                          *)
RefsInv == ProfileTypeOK /\ ReferencesResolve

LEMMA RefsInit == ProfileInit => RefsInv
  BY DEF ProfileInit, RefsInv, ProfileTypeOK, ReferencesResolve, Modes, Results,
         Range, IsInjective

(* Every profile handler and image store step keeps the types and the     *)
(* references: attach checks the cleaned list against the image store     *)
(* and its rows' uniqueness, delete_profile empties the profile's list,   *)
(* and an image deletion removes the image from every list.               *)
LEMMA RefsStep == RefsInv /\ [ProfileNext]_pvars => RefsInv'
<1> SUFFICES ASSUME RefsInv, [ProfileNext]_pvars PROVE RefsInv'
  OBVIOUS
<1>1. CASE \E m \in Modes, c \in BOOLEAN : CreateProfile(m, c)
  <2> PICK m \in Modes, c \in BOOLEAN : CreateProfile(m, c)
    BY <1>1
  <2>1. CASE ~ValidProfileMode(m, c) /\ Reject("invalid")
    BY <2>1 DEF Reject, RefsInv, ProfileTypeOK, ReferencesResolve, Results
  <2>2. CASE /\ ValidProfileMode(m, c)
             /\ \E p \in Profiles \ used :
                  /\ profiles' = profiles \cup {p}
                  /\ used' = used \cup {p}
                  /\ mode' = [mode EXCEPT ![p] = m]
                  /\ consent' = [consent EXCEPT ![p] = c]
             /\ result' = "ok"
             /\ UNCHANGED <<refs, images, requireConsent>>
    <3> PICK p \in Profiles \ used :
              /\ profiles' = profiles \cup {p}
              /\ used' = used \cup {p}
              /\ mode' = [mode EXCEPT ![p] = m]
              /\ consent' = [consent EXCEPT ![p] = c]
      BY <2>2
    <3>1. ProfileTypeOK'
      BY <2>2 DEF RefsInv, ProfileTypeOK, Results
    <3>2. ReferencesResolve'
      BY <2>2 DEF RefsInv, ReferencesResolve
    <3>3. QED
      BY <3>1, <3>2 DEF RefsInv
  <2>3. QED
    BY <2>1, <2>2 DEF CreateProfile
<1>2. CASE \E p \in Profiles, m \in Modes \cup {Unset}, c \in BOOLEAN \cup {Unset} :
             UpdateProfile(p, m, c)
  <2> PICK p \in Profiles, m \in Modes \cup {Unset}, c \in BOOLEAN \cup {Unset} :
             UpdateProfile(p, m, c)
    BY <1>2
  <2> DEFINE em == IF m = Unset THEN mode[p] ELSE m
             ec == IF c = Unset THEN consent[p] ELSE c
  <2>0. em \in Modes /\ ec \in BOOLEAN
    BY DEF RefsInv, ProfileTypeOK
  <2>1. QED
    BY <2>0 DEF UpdateProfile, Reject, RefsInv, ProfileTypeOK,
                ReferencesResolve, Results
<1>3. CASE \E p \in Profiles : DeleteProfile(p)
  BY <1>3 DEF DeleteProfile, RefsInv, ProfileTypeOK, ReferencesResolve, Results,
              Range, IsInjective
<1>4. CASE \E p \in Profiles, L \in Requests : SetReferences(p, L)
  <2> PICK p \in Profiles, L \in Requests : SetReferences(p, L)
    BY <1>4
  <2> DEFINE clean == CleanNames(L)
  <2>1. clean \in Seq(Images \cup {Blank})
    BY RequestIsSeq, WithoutProperties DEF CleanNames
  <2>2. CASE \/ Reject("not_found") \/ Reject("invalid") \/ Reject("integrity")
    BY <2>2 DEF Reject, RefsInv, ProfileTypeOK, ReferencesResolve, Results
  <2>3. CASE /\ p \in profiles
             /\ Range(clean) \subseteq images
             /\ IsInjective(clean)
             /\ refs' = [refs EXCEPT ![p] = clean]
             /\ result' = "ok"
             /\ UNCHANGED <<profiles, used, mode, consent, images, requireConsent>>
    <3>1. clean \in Seq(Images)
      BY <2>1, <2>3, ListOverValues DEF RefsInv, ProfileTypeOK
    <3>2. QED
      BY <2>3, <3>1 DEF RefsInv, ProfileTypeOK, ReferencesResolve, Results
  <2>4. QED
    BY <2>2, <2>3 DEF SetReferences
<1>5. CASE \E i \in Images : ImageAdded(i)
  BY <1>5 DEF ImageAdded, RefsInv, ProfileTypeOK, ReferencesResolve, Results
<1>6. CASE \E i \in Images : ImageDeleted(i)
  <2> PICK i \in Images : ImageDeleted(i)
    BY <1>6
  <2>1. ASSUME NEW q \in Profiles
        PROVE  /\ Without(refs[q], i) \in Seq(Images)
               /\ Range(Without(refs[q], i)) \subseteq images \ {i}
               /\ IsInjective(Without(refs[q], i))
               /\ q \notin profiles => Without(refs[q], i) = <<>>
    <3>1. refs[q] \in Seq(Images) /\ Range(refs[q]) \subseteq images
          /\ IsInjective(refs[q])
      BY DEF RefsInv, ProfileTypeOK, ReferencesResolve
    <3>2. q \notin profiles => refs[q] = <<>>
      BY DEF RefsInv, ReferencesResolve
    <3>3. QED
      BY <3>1, <3>2, WithoutProperties, WithoutEmpty
  <2>2. QED
    BY <2>1 DEF ImageDeleted, RefsInv, ProfileTypeOK, ReferencesResolve, Results
<1>7. CASE Reconfigure
  BY <1>7 DEF Reconfigure, RefsInv, ProfileTypeOK, ReferencesResolve, Results
<1>8. CASE UNCHANGED pvars
  BY <1>8 DEF pvars, RefsInv, ProfileTypeOK, ReferencesResolve
<1>9. QED
  BY <1>1, <1>2, <1>3, <1>4, <1>5, <1>6, <1>7, <1>8 DEF ProfileNext

(* Every profile handler and image store step keeps the tables' types,   *)
(* for every set of profile ids and images and every consent setting.     *)
THEOREM ProfileTypeCorrect == ProfileSpec => []ProfileTypeOK
<1>1. RefsInv => ProfileTypeOK
  BY DEF RefsInv
<1>2. QED
  BY RefsInit, RefsStep, <1>1, PTL DEF ProfileSpec

(* Spec 3 (ProfileReference) and invariant 4, for every set of profile    *)
(* ids and images: the reference rows of a profile name distinct existing *)
(* images and a deleted profile has none, after any sequence of attaches, *)
(* profile deletions and image deletions (the cascades of migration 27).  *)
THEOREM ReferencesKept == ProfileSpec => []ReferencesResolve
<1>1. RefsInv => ReferencesResolve
  BY DEF RefsInv
<1>2. QED
  BY RefsInit, RefsStep, <1>1, PTL DEF ProfileSpec
=============================================================================
