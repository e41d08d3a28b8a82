------------------------------ MODULE MCLLMCall ------------------------------
(* Instances of LLMCall; the bounds are given in the configurations.        *)
EXTENDS LLMCall
=============================================================================
