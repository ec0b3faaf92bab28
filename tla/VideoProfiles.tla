---------------------------- MODULE VideoProfiles ----------------------------
(***************************************************************************)
(* The profile service of VideoService (create_profile, update_profile,   *)
(* delete_profile, set_profile_references, _validate_profile_mode) over   *)
(* the video_profiles and video_profile_references tables of migration 27 *)
(* and the image store that the references point into.                    *)
(*                                                                         *)
(* Each handler is one step: the routers call the service from "async     *)
(* def" functions without awaiting, so profile handlers never interleave   *)
(* with each other, and the worker thread only reads profiles.  A handler *)
(* that raises after its transaction began is rolled back by the          *)
(* database's transaction context (spec 4.1: atomic multi-statement       *)
(* writes).  Names, generation locks and timestamps are data no property  *)
(* tells apart; a profile is its mode, consent flag and reference list.   *)
(***************************************************************************)
EXTENDS Naturals, Sequences, Functions, ReferenceLists

CONSTANTS
  Profiles,   \* the ids uuid_string() may hand out
  Images,     \* image names of the image store
  Blank,      \* a request entry that is only whitespace
  MaxNames,   \* longest image_names list of a request
  Configs,    \* values video_require_consent_marker_for_real_identity takes
  Unset       \* a patch field that is None

ASSUME ProfilesAssumption == Blank \notin Images /\ MaxNames \in Nat
ASSUME ConfigsAssumption == Configs \subseteq BOOLEAN /\ Configs # {}
ASSUME UnsetAssumption == Unset \notin BOOLEAN

Modes == {"fictional", "real_identity"}

(* What the handler last answered: 200, 404, 422 (VideoValidationError),  *)
(* or an unhandled sqlite3.IntegrityError (500).                          *)
Results == {"none", "ok", "not_found", "invalid", "integrity"}

(* The image_names lists a request can carry.                             *)
Requests == UNION {[1..n -> Images \cup {Blank}] : n \in 0..MaxNames}

VARIABLES
  profiles,        \* ids with a video_profiles row
  used,            \* ids uuid_string() has returned so far
  mode,            \* video_profiles.mode
  consent,         \* video_profiles.consent_checked
  refs,            \* video_profile_references of the profile, by sort_order
  images,          \* names the image store resolves to an existing file
  requireConsent,  \* the configuration the running process was started with
  result           \* the answer of this step's profile handler, or "none"

pvars == <<profiles, used, mode, consent, refs, images, requireConsent, result>>

ProfileTypeOK ==
  /\ profiles \subseteq used /\ used \subseteq Profiles
  /\ mode \in [Profiles -> Modes]
  /\ consent \in [Profiles -> BOOLEAN]
  /\ refs \in [Profiles -> Seq(Images)]
  /\ images \subseteq Images
  /\ requireConsent \in Configs
  /\ result \in Results

ProfileInit ==
  /\ profiles = {} /\ used = {}
  /\ mode = [p \in Profiles |-> "fictional"]
  /\ consent = [p \in Profiles |-> FALSE]
  /\ refs = [p \in Profiles |-> <<>>]
  /\ images \in SUBSET Images
  /\ requireConsent \in Configs
  /\ result = "none"

(* _validate_profile_mode: real identity needs consent when configured.   *)
ValidProfileMode(m, c) == ~(m = "real_identity" /\ requireConsent /\ ~c)

(* A handler that answers r and writes nothing.                           *)
Reject(r) ==
  /\ result' = r
  /\ UNCHANGED <<profiles, used, mode, consent, refs, images, requireConsent>>

(* create_profile: validate, allocate a fresh id, insert the row.         *)
CreateProfile(m, c) ==
  \/ /\ ~ValidProfileMode(m, c)
     /\ Reject("invalid")
  \/ /\ ValidProfileMode(m, c)
     /\ \E p \in Profiles \ used :
          /\ profiles' = profiles \cup {p}
          /\ used' = used \cup {p}
          /\ mode' = [mode EXCEPT ![p] = m]
          /\ consent' = [consent EXCEPT ![p] = c]
     /\ result' = "ok"
     /\ UNCHANGED <<refs, images, requireConsent>>

(* Mutant of UpdateProfile: the patch itself is validated, not the        *)
(* effective post-patch values.                                           *)
UpdateProfile_PatchOnly(p, m, c) ==
  \/ /\ p \notin profiles
     /\ Reject("not_found")
  \/ /\ p \in profiles
     /\ ~ValidProfileMode(m, c = TRUE)
     /\ Reject("invalid")
  \/ /\ p \in profiles
     /\ ValidProfileMode(m, c = TRUE)
     /\ mode' = IF m = Unset THEN mode ELSE [mode EXCEPT ![p] = m]
     /\ consent' = IF c = Unset THEN consent ELSE [consent EXCEPT ![p] = c]
     /\ result' = "ok"
     /\ UNCHANGED <<profiles, used, refs, images, requireConsent>>

(* Mutant of UpdateProfile: the patch's mode is stored as given, with no  *)
(* fallback to the current one when it is None.                          *)
UpdateProfile_NoFallback(p, m, c) ==
  LET ec == IF c = Unset THEN consent[p] ELSE c
  IN \/ /\ p \notin profiles
        /\ Reject("not_found")
     \/ /\ p \in profiles
        /\ ValidProfileMode(m, ec)
        /\ mode' = [mode EXCEPT ![p] = m]
        /\ consent' = [consent EXCEPT ![p] = ec]
        /\ result' = "ok"
        /\ UNCHANGED <<profiles, used, refs, images, requireConsent>>

(* update_profile: get_profile (404 if gone), validate the effective mode *)
(* and consent, then one transaction applies the fields that are set.     *)
UpdateProfile(p, m, c) ==
  LET em == IF m = Unset THEN mode[p] ELSE m
      ec == IF c = Unset THEN consent[p] ELSE c
  IN \/ /\ p \notin profiles
        /\ Reject("not_found")
     \/ /\ p \in profiles
        /\ ~ValidProfileMode(em, ec)
        /\ Reject("invalid")
     \/ /\ p \in profiles
        /\ ValidProfileMode(em, ec)
        /\ mode' = [mode EXCEPT ![p] = em]
        /\ consent' = [consent EXCEPT ![p] = ec]
        /\ result' = "ok"
        /\ UNCHANGED <<profiles, used, refs, images, requireConsent>>

(* delete_profile: idempotent DELETE; ON DELETE CASCADE removes the       *)
(* profile's reference rows.                                              *)
DeleteProfile(p) ==
  /\ profiles' = profiles \ {p}
  /\ refs' = [refs EXCEPT ![p] = <<>>]
  /\ result' = "ok"
  /\ UNCHANGED <<used, mode, consent, images, requireConsent>>

(* The names set_profile_references keeps: blank entries are dropped.     *)
CleanNames(L) == Without(L, Blank)

(* set_profile_references: get_profile (404), drop blank names, check     *)
(* that every name resolves to an existing file (422), then one           *)
(* transaction deletes the old rows and inserts the new ones in order.    *)
(* A repeated name violates UNIQUE (profile_id, image_name): the          *)
(* IntegrityError rolls the transaction back and escapes the handler.     *)
SetReferences(p, L) ==
  LET clean == CleanNames(L) IN
  \/ /\ p \notin profiles
     /\ Reject("not_found")
  \/ /\ p \in profiles
     /\ ~(Range(clean) \subseteq images)
     /\ Reject("invalid")
  \/ /\ p \in profiles
     /\ Range(clean) \subseteq images
     /\ ~IsInjective(clean)
     /\ Reject("integrity")
  \/ /\ p \in profiles
     /\ Range(clean) \subseteq images
     /\ IsInjective(clean)
     /\ refs' = [refs EXCEPT ![p] = clean]
     /\ result' = "ok"
     /\ UNCHANGED <<profiles, used, mode, consent, images, requireConsent>>

(* The image store gains an image (an upload elsewhere in the app).       *)
ImageAdded(i) ==
  /\ i \notin images
  /\ result' = "none"
  /\ images' = images \cup {i}
  /\ UNCHANGED <<profiles, used, mode, consent, refs, requireConsent>>

(* Mutant of ImageDeleted: the reference rows are left behind.            *)
ImageDeleted_NoCascade(i) ==
  /\ i \in images
  /\ result' = "none"
  /\ images' = images \ {i}
  /\ UNCHANGED <<profiles, used, mode, consent, refs, requireConsent>>

(* The image store deletes an image; the image_name foreign key of        *)
(* video_profile_references (ON DELETE CASCADE) removes its rows.         *)
ImageDeleted(i) ==
  /\ i \in images
  /\ result' = "none"
  /\ images' = images \ {i}
  /\ refs' = [p \in Profiles |-> Without(refs[p], i)]
  /\ UNCHANGED <<profiles, used, mode, consent, requireConsent>>

(* The service is restarted with the configuration then in force.         *)
Reconfigure ==
  /\ requireConsent' \in Configs
  /\ result' = "none"
  /\ UNCHANGED <<profiles, used, mode, consent, refs, images>>

ProfileNext ==
  \/ \E m \in Modes, c \in BOOLEAN : CreateProfile(m, c)
  \/ \E p \in Profiles, m \in Modes \cup {Unset}, c \in BOOLEAN \cup {Unset} :
       UpdateProfile(p, m, c)
  \/ \E p \in Profiles : DeleteProfile(p)
  \/ \E p \in Profiles, L \in Requests : SetReferences(p, L)
  \/ \E i \in Images : ImageAdded(i) \/ ImageDeleted(i)
  \/ Reconfigure

ProfileSpec == ProfileInit /\ [][ProfileNext]_pvars

-----------------------------------------------------------------------------
(* Spec 3 (Profile invariant) and scenario S2: a stored real-identity     *)
(* profile has consent_checked whenever the server requires consent.      *)
(* create_profile and update_profile must keep it across every patch.     *)
ConsentHeld ==
  \A p \in profiles :
    mode[p] = "real_identity" /\ requireConsent => consent[p]

(* Spec 3 (ProfileReference) and invariant 4: the references of a        *)
(* profile name distinct images that exist, and a deleted profile has     *)
(* none, whatever sequence of attaches and image or profile deletions     *)
(* led here.                                                              *)
ReferencesResolve ==
  \A p \in Profiles :
    /\ Range(refs[p]) \subseteq images
    /\ IsInjective(refs[p])
    /\ p \notin profiles => refs[p] = <<>>

=============================================================================
