------------------------- MODULE MCAsyncInvocation -------------------------
\* Instance for TLC: a starter and three copies of the completion token, which a
\* backend may use as it likes.
EXTENDS AsyncInvocation
=============================================================================
