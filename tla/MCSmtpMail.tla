----------------------------- MODULE MCSmtpMail -----------------------------
\* Small instances of SmtpMail: one mail, sent up to twice, which is any of
\* the letters below.
EXTENDS SmtpMail, TLC

CONSTANTS kiwi, roger, mail1

MCMails == {mail1}
MCAddresses == {kiwi, roger}
MCLower == (kiwi :> kiwi) @@ (roger :> roger)

MCMessageIDs == {mail1} \X (1..MaxTries) \X (1..MaxTo)

\* To two inboxes, though the envelope names one; to one, while the envelope,
\* as a mailing list's or a Bcc's, names the other; from a blacklisted sender;
\* without a To header; not to be parsed.
MCLetters ==
    LET L(b, r, t, ok) == [blacklisted |-> b, rcpt |-> r, to |-> t, readable |-> ok]
    IN {L(FALSE, <<kiwi>>, <<kiwi, roger>>, TRUE),
        L(FALSE, <<roger>>, <<kiwi>>, TRUE),
        L(TRUE, <<kiwi>>, <<kiwi>>, TRUE),
        L(FALSE, <<kiwi>>, << >>, TRUE),
        L(FALSE, <<kiwi>>, <<kiwi>>, FALSE)}

MCSymmetry == Permutations(InboxIDs)
=============================================================================
