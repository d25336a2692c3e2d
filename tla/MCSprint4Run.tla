---------------------------- MODULE MCSprint4Run -----------------------------
EXTENDS Sprint4Run

Submissions == 0..11
=============================================================================
