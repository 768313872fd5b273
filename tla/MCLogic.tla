------------------------------ MODULE MCLogic -------------------------------
EXTENDS Logic
=============================================================================
