----------------------------- MODULE MCDivMod64 -----------------------------
EXTENDS DivMod64
=============================================================================
