---------------------------- MODULE MCProfile ----------------------------
EXTENDS Profile
==========================================================================
