---------------------------- MODULE MCTabTransfer ----------------------------
\* TabTransfer for TLC: the constants of its runs are given in the .cfg file.
EXTENDS TabTransfer
=============================================================================
