------------------------------ MODULE MCNodeDB ------------------------------
EXTENDS NodeDB
=============================================================================
