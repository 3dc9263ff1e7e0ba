------------------------------ MODULE MCSignIn ------------------------------
(* Small instances of SignIn for TLC.                                      *)
EXTENDS SignIn, TLC

CONSTANTS c1, c2, a1, a2, nobody

TheCalls == {c1, c2}
TheLogins == {a1, a2}

\* Calls are interchangeable, and so are logins.
Symmetry == Permutations(TheCalls) \cup Permutations(TheLogins)
=============================================================================
