------------------------------ MODULE MCUsers ------------------------------
(* Users with the symmetry of its model values.                            *)
EXTENDS Users, TLC

Symmetry ==
    Permutations(Name) \cup Permutations(Token) \cup Permutations(Signup)
        \cup Permutations(Login)
=============================================================================
