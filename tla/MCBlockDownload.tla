-------------------------- MODULE MCBlockDownload --------------------------
(***************************************************************************)
(* A chain of two blocks on Genesis and an invalid sibling of the second   *)
(* with a block on top; a prompt peer that was added by hand, and a slow   *)
(* outbound peer that holds things up in one of three ways, or is alone.   *)
(***************************************************************************)
EXTENDS BlockDownload, TLC

CONSTANTS G, B1, B2, X2, X3, P1, P2

Chains == G :> {G} @@ B1 :> {G, B1} @@ B2 :> {G, B1, B2} @@ X2 :> {G, B1, X2}
            @@ X3 :> {G, B1, X2, X3}
Below == B1 :> G @@ B2 :> B1 @@ X2 :> B1 @@ X3 :> X2

MCParent == [b \in Blocks \ {G} |-> Below[b]]
MCAncestors == [b \in Blocks |-> Chains[b]]
MCHeight == [b \in Blocks |-> Cardinality(MCAncestors[b]) - 1]
MCWork == MCHeight

Company(prompt, slow) == P1 :> prompt @@ P2 :> slow

MCCompanies ==
    {Company({"headers", "block", "cmpctblock"}, {"cmpctblock", "damaged", "repeated"}),
     Company({"headers", "block"}, {"headers", "block", "damaged", "invalid"}),
     Company({"headers", "block"}, {"inv", "damaged", "unsolicited"}),
     Company({}, {"headers", "block", "cmpctblock", "invalid", "onInvalid"})}

=============================================================================
