----------------------------- MODULE MCWebhooks -----------------------------
EXTENDS Webhooks

CONSTANTS k1, k2
==============================================================================
