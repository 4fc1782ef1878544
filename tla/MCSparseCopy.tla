---------------------------- MODULE MCSparseCopy ----------------------------
EXTENDS SparseCopy
=============================================================================
