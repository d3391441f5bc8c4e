------------------------------ MODULE MCFilter ------------------------------
EXTENDS Filter
=============================================================================
