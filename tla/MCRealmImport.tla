--------------------------- MODULE MCRealmImport ----------------------------
(***************************************************************************)
(* Small instances of RealmImport for TLC: one or two imports, one or two  *)
(* instances in one namespace or two, one source with two values.          *)
(***************************************************************************)
EXTENDS RealmImport, TLC

CONSTANTS i1, i2, k1, k2, n1, n2, j1, bad, s1, v1, v2

Symmetry == Permutations(Values)

OwnNames == [i \in Imports |-> i]

OneNamespace == [k \in Instances |-> n1]
TwoNamespaces == [k \in Instances |-> IF k = k1 THEN n1 ELSE n2]

Base == [target |-> k1, json |-> j1, override |-> TRUE, refs |-> {s1},
         plain |-> FALSE]

\* One spec: what changes is the source.
OneSpec == {Base}

\* Without sources: a spec that overrides, one that does not, one that does
\* not expand, one with a plain value.
MixedSpecs == {[Base EXCEPT !.refs = {}],
               [Base EXCEPT !.refs = {}, !.override = FALSE],
               [Base EXCEPT !.refs = {}, !.json = bad],
               [Base EXCEPT !.refs = {}, !.plain = TRUE]}

\* The first of them alone.
BareSpec == {[Base EXCEPT !.refs = {}]}

\* The same realm for either of two instances.
TwoTargets == {[Base EXCEPT !.refs = {}, !.target = k] : k \in Instances}

\* One without substitutions, and one with a plain value.
ValueSpecs == {[Base EXCEPT !.refs = {}, !.plain = p] : p \in BOOLEAN}
=============================================================================
