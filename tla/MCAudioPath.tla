---------------------------- MODULE MCAudioPath ----------------------------
\* Both channels are set up for one FIFO; words of two bytes, bursts of two
\* words.
EXTENDS AudioPath

CONSTANT A

OneForBoth == <<A, A>>
=============================================================================
