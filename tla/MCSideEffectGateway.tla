------------------------ MODULE MCSideEffectGateway ------------------------
(***************************************************************************)
(* Instances of SideEffectGateway for TLC.                                 *)
(***************************************************************************)
EXTENDS SideEffectGateway, TLC

CONSTANTS a, b, c, d

\* d reuses the key for another request.
OneOther == [k \in Caller |-> IF k = d THEN "second" ELSE "first"]

\* Calls with the same request run the same code.
Calls == Permutations(Caller \ {d})
=============================================================================
