---------------------------- MODULE MCMcpDocuments ----------------------------
\* McpDocuments for TLC: the constants of its runs are given in the .cfg file.
EXTENDS McpDocuments, TLC
Symmetry == Permutations(Tabs) \cup Permutations(Clients)
=============================================================================
