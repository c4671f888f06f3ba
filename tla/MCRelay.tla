------------------------------- MODULE MCRelay -------------------------------
(***************************************************************************)
(* T2 and X spend T1, T3 spends T1 and T2, and X is invalid, perhaps for   *)
(* its witness only.  T3 is tried before T2 when T1 comes last.  One peer  *)
(* sends them all, in any order; or two peers send one of them each; or    *)
(* one peer sends all but T1, which comes from the wallet or in a block    *)
(* with T2 that may be disconnected again.                                 *)
(***************************************************************************)
EXTENDS Relay

CONSTANTS P1, P2, T1, T2, T3, X, o0, o1, o2, o3

MCInputs == T1 :> {o0} @@ T2 :> {o2} @@ T3 :> {o1, o3} @@ X :> {o1}
MCOutputs == T1 :> <<o1, o2>> @@ T2 :> <<o3>> @@ T3 :> <<>> @@ X :> <<>>

MCCompanies ==
    {P1 :> {T1, T2, T3, X}, P1 :> {T2} @@ P2 :> {X},
     P1 :> {T2, T3, X} @@ NoPeer :> {T1}}

=============================================================================
