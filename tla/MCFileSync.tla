----------------------------- MODULE MCFileSync -----------------------------
\* FileSync for the model checker: the configurations give daemons and bytes
\* as model values.  Byte and Daemon are symmetric, but a liveness property is
\* not checked under symmetry.
EXTENDS FileSyncProps
=============================================================================
