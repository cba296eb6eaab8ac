------------------------------ MODULE MCRunPerf ------------------------------
\* RunPerf for TLC.
EXTENDS RunPerf
=============================================================================
