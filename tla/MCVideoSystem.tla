---------------------------- MODULE MCVideoSystem ----------------------------
(* Model-checking instance of VideoSystem.  One job and two profile ids    *)
(* let a job of one profile be encoded while the other profile is         *)
(* deleted, or while its own is; one image suffices for a reference list; *)
(* one halt lets the service restart under the other consent setting.     *)
EXTENDS VideoSystem, TLC

CONSTANTS p1, p2, i1, blank, none, noprofile

MCJobs == 1
MCHalts == 1
MCProfiles == {p1, p2}
MCImages == {i1}
MCMaxNames == 1
MCSymmetry == Permutations(MCProfiles)
(* The answer of the last profile handler is read by no action and no     *)
(* property of this instance; states that differ only in it are one.      *)
MCView == <<jvars, profiles, used, mode, consent, refs, images,
            requireConsent, links>>
=============================================================================
