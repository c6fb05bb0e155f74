--------------------------- MODULE MCContinuations ---------------------------
EXTENDS Continuations
=============================================================================
