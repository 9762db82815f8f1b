---------------------------- MODULE MCGitAnnounce ----------------------------
(***************************************************************************)
(* GitAnnounce for TLC: three announcements, two of them by one owner.     *)
(***************************************************************************)
EXTENDS GitAnnounce, TLC

CONSTANTS a1, a2, a3, o1, o2

MCOwnerOf == (a1 :> o1) @@ (a2 :> o1) @@ (a3 :> o2)
=============================================================================
