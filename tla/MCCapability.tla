----------------------------- MODULE MCCapability -----------------------------
EXTENDS Capability
CONSTANT Ifeval
MCCandidates == <<Aime, Ifeval>>
===============================================================================
