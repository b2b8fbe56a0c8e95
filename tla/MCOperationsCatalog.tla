------------------------ MODULE MCOperationsCatalog ------------------------
(* Two organizations.  The first has two sites, a camera in each and one    *)
(* more in the first, and a zone and a rule on it; the second has nothing.  *)
EXTENDS OperationsCatalog, TLC

CONSTANTS o1, o2, r1, r2

TwoOrgs == {o1, o2}
TwoRequests == {r1, r2}
Symmetry == Permutations(Requests)

S(n) == <<"site", "a", n>>
C(n) == <<"camera", "a", n>>
Z(n) == <<"zone", "a", n>>
U(n) == <<"rule", "a", n>>

MCInitial ==
    (S(1) :> [org |-> o1, ref |-> NoRefs]) @@ (S(2) :> [org |-> o1, ref |-> NoRefs])
    @@ (C(1) :> [org |-> o1, ref |-> Site(S(1))])
    @@ (C(2) :> [org |-> o1, ref |-> Site(S(2))])
    @@ (C(3) :> [org |-> o1, ref |-> Site(S(1))])
    @@ (Z(1) :> [org |-> o1, ref |-> [Site(S(1)) EXCEPT !["camera"] = C(1)]])
    @@ (U(1) :> [org |-> o1, ref |-> [Site(S(1)) EXCEPT !["zone"] = Z(1)]])
    @@ [x \in Ids |-> NoRow]
MCAllowed == {C(1)}
MCSite == S(1)
=============================================================================
