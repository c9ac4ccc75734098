------------------------------ MODULE MCBuddy ------------------------------
EXTENDS Buddy
=============================================================================
