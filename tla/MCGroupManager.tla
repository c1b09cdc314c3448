--------------------------- MODULE MCGroupManager ---------------------------
(* Model-checking instance of GroupManager: two groups, two sources, two   *)
(* requesters.                                                             *)
EXTENDS GroupManager, TLC

CONSTANTS g1, g2, s1, s2, r1, r2

MCNames == {g1, g2}
MCSourceIds == {s1, s2}
MCRequesters == {r1, r2}

(* Names, source ids and requester ids are interchangeable among themselves. *)
MCSymmetry ==
  Permutations(MCNames) \cup Permutations(MCSourceIds) \cup Permutations(MCRequesters)

(* A pending Group response is explored only before the clock first       *)
(* advances.  Group and its marshalling change nothing but groupResp and  *)
(* no other action reads groupResp, so every state of groups, the clock   *)
(* and the storage stays reachable; only the interleavings of a pending   *)
(* response with Tick and Read's expiry are left out.                      *)
GroupRespBeforeTick == groupResp = NoResp \/ now = 0
=============================================================================
