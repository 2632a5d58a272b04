----------------------------- MODULE MCBiosDiv -----------------------------
\* Words of five bits: every dividend by every divisor.
EXTENDS BiosDiv
=============================================================================
