-------------------------- MODULE MCIntegrationTokens -------------------------
EXTENDS IntegrationTokens, TLC

CONSTANTS r1, r2, ann, calendar, analytics

Interchangeable == Permutations({r1, r2}) \union Permutations({calendar, analytics})
===============================================================================
