---------------------------- MODULE MCPLEStaging ----------------------------
\* PLEStaging for TLC.
EXTENDS PLEStaging
=============================================================================
