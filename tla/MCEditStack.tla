--------------------------- MODULE MCEditStack ---------------------------
EXTENDS EditStack
=============================================================================
