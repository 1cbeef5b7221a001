------------------------------ MODULE MCMembers ------------------------------
(* An instance of Members: two organizations, of which the second has no   *)
(* workspaces.                                                             *)
EXTENDS Members, TLC

CONSTANTS a, b, oa, ob

MCTenants  == {a, b}
MCTenantOf == [w \in Workspaces |-> a]
MCOwnerOf  == (a :> oa) @@ (b :> ob)
MCUsers    == Invitees \cup {oa, ob}
Symmetry   == Permutations(Requests) \cup Permutations(Invitees) \cup Permutations(Workspaces)
=============================================================================
