------------------------------- MODULE MCBall2 ------------------------------
EXTENDS Ball2
=============================================================================
