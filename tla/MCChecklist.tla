---------------------------- MODULE MCChecklist -----------------------------
(***************************************************************************)
(* Checklist on small instances.                                           *)
(***************************************************************************)
EXTENDS Checklist, TLC

CONSTANTS k1, k2, k3, s1, s2, s3

\* One platform row and, from version 2, one manual row in a section of its own.
MCSectionOf == (k1 :> s1) @@ (k2 :> s2)
MCOneKeySectionOf == (k1 :> s1)
MCTemplateItems == <<{k1}, {k1, k2}>>
MCOneKeyTemplateItems == <<{k1}>>

\* Each version adds a row in a section of its own.
MCThreeKeySectionOf == (k1 :> s1) @@ (k2 :> s2) @@ (k3 :> s3)
MCThreeTemplateItems == <<{k1}, {k1, k2}, {k1, k2, k3}>>

Symmetry == Permutations(Reconcilers) \cup Permutations(Writers) \cup Permutations(Operators)
=============================================================================
