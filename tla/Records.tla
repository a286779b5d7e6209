------------------------------ MODULE Records ------------------------------
(***************************************************************************)
(* Objects of the code as records, in which a property that is left out or *)
(* undefined is no field.                                                  *)
(***************************************************************************)

\* { ...base, ...overrides }
Spread(base, overrides) ==
    [x \in DOMAIN base \cup DOMAIN overrides |->
        IF x \in DOMAIN overrides THEN overrides[x] ELSE base[x]]

Has(r, f) == f \in DOMAIN r

\* The fields of S that are given: ...(r.f === undefined ? {} : { f: r.f }).
Given(r, S) == [f \in S \cap DOMAIN r |-> r[f]]
=============================================================================
