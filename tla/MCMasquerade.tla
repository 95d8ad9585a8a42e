---------------------------- MODULE MCMasquerade ----------------------------
\* The instance of Masquerade for TLC.
EXTENDS MasqueradeInv
=============================================================================
