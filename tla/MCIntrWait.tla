---------------------------- MODULE MCIntrWait ----------------------------
\* VBLANK, HBLANK, and every interplay of a program, its handler and the two.
EXTENDS IntrWait

CONSTANTS vblank, hblank
=============================================================================
