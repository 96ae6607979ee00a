----------------------------- MODULE MCTCPServer -----------------------------
EXTENDS TCPServer

CONSTANTS s1, s2, w1

=============================================================================
