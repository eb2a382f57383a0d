--------------------------- MODULE MCBlockClients ---------------------------
EXTENDS BlockClients
Symmetric == Permutations(Client)
=============================================================================
