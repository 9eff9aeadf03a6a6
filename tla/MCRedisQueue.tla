---------------------------- MODULE MCRedisQueue ----------------------------
\* Two nodes; a job for a URL, one for a URL and a topic, one that does not
\* parse.  Jobs of the first two kinds are pushed twice.
EXTENDS RedisQueue, TLC

CONSTANTS n1, n2, post, both, junk
=============================================================================
