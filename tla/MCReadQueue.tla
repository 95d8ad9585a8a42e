---------------------------- MODULE MCReadQueue -----------------------------
\* Instances of ReadQueue for TLC.
EXTENDS ReadQueue
=============================================================================
