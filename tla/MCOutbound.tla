------------------------------ MODULE MCOutbound ------------------------------
EXTENDS Outbound, TLC
=============================================================================
