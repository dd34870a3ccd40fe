---------------------------- MODULE MCChangeFeed ----------------------------
EXTENDS ChangeFeed
CONSTANTS list, enrichment, c1
=============================================================================
