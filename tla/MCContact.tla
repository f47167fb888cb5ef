----------------------------- MODULE MCContact -----------------------------
EXTENDS Contact, TLC

\* Views, users and texts are interchangeable.
Symmetry == Permutations(Views) \union Permutations(Users) \union Permutations(Texts)
=============================================================================
