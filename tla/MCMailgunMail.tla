--------------------------- MODULE MCMailgunMail ---------------------------
\* Small instances of MailgunMail: one mail, whose webhook is tried twice.
EXTENDS MailgunMail, TLC

CONSTANTS kiwi, mail1

MCMails == {mail1}
MCAddresses == {kiwi}
MCLower == kiwi :> kiwi

MCMessageIDs == {mail1} \X (1..MaxTries)
=============================================================================
