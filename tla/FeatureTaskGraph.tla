-------------------------- MODULE FeatureTaskGraph --------------------------
(***************************************************************************)
(* src/features/task-graph.ts: the contracts of the Tasks of a Feature     *)
(* Plan.  A Task is its position, so the order of a plan is the order of   *)
(* the numbers; a contract is a record of dependencies, parallel mode and  *)
(* mutation scope, which is a set of path prefixes: sequences of segments, *)
(* the empty one for the whole workspace ("**", or a wildcard first).      *)
(***************************************************************************)
EXTENDS Naturals, Sequences

\* validateFeatureTaskGraph: every dependency is a Task of the plan that comes
\* earlier.  Acyclicity, which the code checks too, follows (MC compares them).
ValidTaskGraph(scope, dependsOn) ==
  \A t \in scope : \A d \in dependsOn[t] : d \in scope /\ d < t

\* The Tasks at most n dependency steps away from t.
DependenciesWithin(dependsOn, t) ==
  LET within[n \in Nat] ==
        IF n = 0 THEN dependsOn[t]
        ELSE within[n - 1] \cup UNION {dependsOn[d] : d \in within[n - 1]}
  IN within

\* transitiveDependencyIds: the code walks depth first from t; dependencies
\* come earlier, so t - 1 steps reach them all.
TransitiveDependencies(scope, dependsOn, t) ==
  DependenciesWithin(dependsOn, t)[t] \cap scope

\* scopesOverlap on prefixes: one lies within the other.
LiesWithin(inner, outer) == Len(outer) <= Len(inner) /\ SubSeq(inner, 1, Len(outer)) = outer
ScopesOverlap(left, right) == LiesWithin(left, right) \/ LiesWithin(right, left)

\* featureTaskContractsConflict: serial work excludes everything; parallel
\* work conflicts when two declared scopes overlap.
ContractsConflict(left, right) ==
  \/ left.mode = "serial"
  \/ right.mode = "serial"
  \/ \E l \in left.scope, r \in right.scope : ScopesOverlap(l, r)
=============================================================================
