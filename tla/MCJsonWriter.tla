---------------------------- MODULE MCJsonWriter ----------------------------
EXTENDS JsonWriterProofs
=============================================================================
