----------------------------- MODULE MCDatabase -----------------------------
\* Small instances of DatabaseClient: two addresses that differ only in case.
EXTENDS DatabaseClient, TLC

CONSTANTS upper, lower

MCAddresses == {upper, lower}
MCLower == (upper :> lower) @@ (lower :> lower)
=============================================================================
