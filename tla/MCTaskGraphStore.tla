-------------------------- MODULE MCTaskGraphStore --------------------------
(***************************************************************************)
(* Instances of TaskGraphStore for TLC: the graphs it is checked on.       *)
(***************************************************************************)
EXTENDS TaskGraphStore, TLC

CONSTANTS s1, s2, s3, a, b, c, d

\* Sessions run the same code.
Sessions == Permutations(Session)

JoinAll == [policy |-> "ALL", minimum |-> 0]
JoinAny == [policy |-> "ANY", minimum |-> 0]

NoParent == << >>
Flat == [t \in Task |-> 0]

\* Fan-in: c joins the outcomes of a and b.
FanInDependsOn == (a :> {}) @@ (b :> {}) @@ (c :> {a, b})
FanInAny == (a :> JoinAll) @@ (b :> JoinAll) @@ (c :> JoinAny)

\* Growth: a is the only task installed; c and d are the children it may ask for.
GrowthDependsOn == [t \in {a, c, d} |-> {}]
GrowthJoin == [t \in {a, c, d} |-> JoinAll]
GrowthParent == (c :> a) @@ (d :> a)
=============================================================================
