---------------------------- MODULE MCConnection ----------------------------
\* Two attempts for one place: both can be between the check and the add, and
\* each can be at any point of its handler when the signal comes.
EXTENDS Connection
=============================================================================
