--------------------------- MODULE MCManagementApi ---------------------------
\* TLC instance of ManagementApi: the IDs are interchangeable.
EXTENDS ManagementApi, TLC

Symmetry == Permutations(Spaces) \union Permutations(Aliases)
              \union Permutations(Links) \union Permutations(Requests)
=============================================================================
