----------------------------- MODULE MCAccounts -----------------------------
(* Small instances of Accounts: an address in two spellings and another.   *)
EXTENDS Accounts, TLC

CONSTANTS s1, s2, a, A, b

Sessions == {s1, s2}
Addresses == {a, A, b}
LowerCase == [e \in Addresses |-> IF e = A THEN a ELSE e]
Symmetry == Permutations(Sessions) \cup Permutations(Subject)

=============================================================================
