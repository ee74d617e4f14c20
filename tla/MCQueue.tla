------------------------------- MODULE MCQueue -------------------------------
EXTENDS QueueProofs
=============================================================================
