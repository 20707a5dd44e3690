----------------------------- MODULE MCWebsite -----------------------------
\* Small instances of Website: one address, which two inboxes can only have
\* one after the other.
EXTENDS Website, TLC

CONSTANT kiwi

MCAddresses == {kiwi}
MCLower == kiwi :> kiwi
=============================================================================
