----------------------------- MODULE MCBranches -----------------------------
EXTENDS Branches
=============================================================================
