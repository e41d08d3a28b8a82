------------------------------- MODULE MCHealth -------------------------------
EXTENDS Health
=============================================================================
