------------------------------ MODULE MCSessions ------------------------------
(* Sessions on small instances: two accounts, and enough requests          *)
(* for a sign-up, three sign-ins and a logout between them.                *)
EXTENDS Sessions, TLC

CONSTANTS r1, r2, r3, r4, r5, e1, e2

Symmetry == Permutations(Requests) \cup Permutations(Emails)
=============================================================================
