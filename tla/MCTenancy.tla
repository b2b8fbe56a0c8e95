------------------------------ MODULE MCTenancy ------------------------------
(* One organization with an owner and an administrator; a second one may be *)
(* created, and a third address has no user yet.                            *)
EXTENDS Tenancy, TLC

CONSTANTS o1, o2, u1, u2, u3, u4, e1, e2, e3

MCAccount == (u1 :> e1) @@ (u2 :> e2) @@ [u \in Users |-> None]
MCMembership == [o \in Orgs |-> [u \in Users |->
    CASE o = o1 /\ u = u1 -> [role |-> "org_owner", active |-> TRUE]
      [] o = o1 /\ u = u2 -> [role |-> "org_admin", active |-> TRUE]
      [] OTHER            -> None]]
Symmetry == Permutations(Invites) \union Permutations({u3, u4}) \union Permutations(Requests)
=============================================================================
