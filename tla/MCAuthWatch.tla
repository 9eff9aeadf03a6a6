---------------------------- MODULE MCAuthWatch -----------------------------
\* One connection; nothing is bounded.
EXTENDS AuthWatch
=============================================================================
