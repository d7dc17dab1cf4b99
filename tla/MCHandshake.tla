---------------------------- MODULE MCHandshake -----------------------------
EXTENDS Handshake

CONSTANTS a, b
=============================================================================
