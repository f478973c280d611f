---------------------------- MODULE MCSpotGroups ----------------------------
(***************************************************************************)
(* Small instances of SpotGroups for TLC: a behaviour has two users who    *)
(* change members, three users with one link, or one user whose link       *)
(* brings in two new ones.                                                 *)
(***************************************************************************)
EXTENDS SpotGroups, TLC

MCRoles == {"editor", "owner"}

MCMembers ==
  [ops : {MemberOps \cup {"update", "delete", "add", "pin", "unpin"}},
   users : {U \in SUBSET Users : Cardinality(U) = 2}]
MCAcceptances == [ops : {{"update", "remove", "issue", "accept"}}, users : {Users}]
MCSignUps ==
  [ops : {{"update", "delete", "issue", "signup"}},
   users : {U \in SUBSET Users : Cardinality(U) = 1}]
MCStarts == MCMembers \cup MCAcceptances \cup MCSignUps

MCSymmetry == Permutations(Users) \cup Permutations(Requests)
============================================================================
