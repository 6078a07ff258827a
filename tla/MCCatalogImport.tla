------------------------- MODULE MCCatalogImport -------------------------
(* Small instances of CatalogImport: two processes, two valid bodies and   *)
(* one that validation refuses.                                            *)
EXTENDS CatalogImport, TLC

CONSTANTS w1, w2, a, b, bad, p, q

Processes == {w1, w2}
Bodies == {a, b, bad}
Refused == {bad}
Pages == {p, q}
Nothing == {}
Valid == {a, b}
OneBody == {a}

(* Bound of catalog_structured: beyond 2 the clock runs on only for a      *)
(* source that has had no body but the one it serves, so that a successful *)
(* refresh grows older than the limit on age.                              *)
OldIsPlain ==
  clock > 2 => upstream \in Valid /\ \A c \in Content \ {upstream} : lifecycle[c] = NoLifecycle

(* Processes are interchangeable, and so are valid bodies and pages.       *)
Symmetry == Permutations(Processes) \cup Permutations({a, b}) \cup Permutations(Pages)
=============================================================================
