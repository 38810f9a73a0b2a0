----------------------------- MODULE MCClientIO -----------------------------
\* ClientIO for the model checker.
EXTENDS ClientIOProps
=============================================================================
