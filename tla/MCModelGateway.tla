--------------------------- MODULE MCModelGateway ---------------------------
(***************************************************************************)
(* Instances of ModelGateway for TLC.                                      *)
(***************************************************************************)
EXTENDS ModelGateway, TLC

CONSTANTS o1, pa, pb, c1, c2

NoDeltas == {}

\* pa reports more than its estimate.
Estimates == (pa :> 1) @@ (pb :> 1)
Charges   == (pa :> 2) @@ (pb :> 1)

\* One daily cap for everything.
Scopes  == (Platform :> Operation)
OneCap  == (Platform :> 1)
WideCap == (Platform :> 3)

\* One request made twice.
Twice == (c1 :> o1) @@ (c2 :> o1)

\* With one candidate, or with a fallback for the first call.
Single   == (c1 :> {pa}) @@ (c2 :> {pa})
Mixed    == (c1 :> {pa, pb}) @@ (c2 :> {pa})
=============================================================================
