-------------------------- MODULE MCRunPersistence --------------------------
EXTENDS RunPersistence
=============================================================================
