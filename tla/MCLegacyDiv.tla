----------------------------- MODULE MCLegacyDiv ----------------------------
EXTENDS LegacyDiv
=============================================================================
