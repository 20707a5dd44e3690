-------------------------- MODULE MCInboxCreation --------------------------
\* Small instances of InboxCreation: an address, its other spelling and, where
\* a run has room for it, a different one.
EXTENDS InboxCreation, TLC

CONSTANTS upper, lower

MCAddresses == {upper, lower}
MCLower == (upper :> lower) @@ (lower :> lower)

MCOneAddress == {lower}
MCOneLower == lower :> lower

MCSymmetry == Permutations(InboxIDs)
=============================================================================
