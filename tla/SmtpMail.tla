------------------------------ MODULE SmtpMail ------------------------------
(***************************************************************************)
(* Mail coming in by SMTP (email/smtpmail, on top of the go-smtp server),  *)
(* into a database that has the program's other load on it.                *)
(*                                                                         *)
(* A session checks the sender against the blacklist (MAIL), asks the      *)
(* database about each recipient (RCPT), and on DATA parses the mail and   *)
(* saves it once for every address of its To header, in order, each time   *)
(* looking the inbox up and then saving by a second call.  The first error *)
(* ends the loop and refuses the whole mail.  What RCPT accepted plays no  *)
(* part after DATA.                                                        *)
(*                                                                         *)
(* The sender is an MTA outside the program: told "refused" it bounces the *)
(* mail, not told anything in time it tries again.  The handler it gave up *)
(* on does not notice and goes on, so that two attempts of one mail may    *)
(* run at the same time.                                                   *)
(***************************************************************************)
EXTENDS DatabaseClient, Sequences

CONSTANTS
    Mails,      \* the mails senders have to deliver
    Letters,    \* what a mail can be, see Letter
    MaxTries,   \* bound on a sender's attempts
    MaxTo       \* bound on the addresses of a To header

Tries    == 1..MaxTries
Places   == 1..MaxTo
Attempts == Mails \X Tries

\* blacklisted: isBlacklistedDomain of the sender; rcpt: the recipients its
\* sender names; to: the To header; readable: whether parsemail and
\* AddTargetBlank cope with it.
Letter == [blacklisted : BOOLEAN, rcpt : Seq(Addresses), to : Seq(Addresses),
           readable : BOOLEAN]

ASSUME SmtpAssumption ==
    /\ MaxTries \in Nat \ {0}
    /\ MaxTo \in Nat \ {0}
    /\ \A l \in Letters :
          /\ l.rcpt \in Seq(Addresses)
          /\ l.to \in Seq(Addresses)
          /\ Len(l.to) <= MaxTo
    /\ \A m \in Mails, n \in Tries, p \in Places : <<m, n, p>> \in MessageIDs

VARIABLES
    letter,    \* what each mail is
    fate,      \* what its sender knows of it
    tries,     \* the attempts its sender made
    session,   \* where the handler of an attempt is
    asked,     \* how many recipients it was asked about
    accepted,  \* whether it accepted any
    place,     \* the entry of the To header its loop is at
    reply      \* its last answer to the sender

senderVars  == <<letter, fate, tries>>
sessionVars == <<session, asked, accepted, place, reply>>
smtpVars    == <<senderVars, sessionVars>>
allVars     == <<vars, smtpVars>>

Busy == {"rcpt", "find", "save"}

LetterOf(t) == letter[t[1]]
To(t)       == LetterOf(t).to
MessageOf(t, p) == <<t[1], t[2], p>>

SmtpTypeOK ==
    /\ TypeOK
    /\ letter \in [Mails -> Letters]
    /\ fate \in [Mails -> {"queued", "sending", "delivered", "bounced"}]
    /\ tries \in [Mails -> 0..MaxTries]
    /\ session \in [Attempts -> Busy \cup {"idle", "ended", "killed"}]
    /\ asked \in [Attempts -> Nat]
    /\ accepted \in [Attempts -> BOOLEAN]
    /\ place \in [Attempts -> Places]
    /\ \A t \in Attempts : session[t] \in {"find", "save"} => place[t] <= Len(To(t))
    /\ reply \in [Attempts -> {"none", "accepted", "refused"}]

SmtpInit ==
    /\ Init
    /\ letter \in [Mails -> Letters]
    /\ fate = [m \in Mails |-> "queued"]
    /\ tries = [m \in Mails |-> 0]
    /\ session = [t \in Attempts |-> "idle"]
    /\ asked = [t \in Attempts |-> 0]
    /\ accepted = [t \in Attempts |-> FALSE]
    /\ place = [t \in Attempts |-> 1]
    /\ reply = [t \in Attempts |-> "none"]

-----------------------------------------------------------------------------
(* The session.                                                            *)

Goto(t, step) ==
    /\ session' = [session EXCEPT ![t] = step]
    /\ UNCHANGED reply

End(t, answer) ==
    /\ session' = [session EXCEPT ![t] = "ended"]
    /\ reply' = [reply EXCEPT ![t] = answer]

\* The sender connects and says MAIL FROM.
MailFrom(m) ==
    LET t == <<m, tries[m] + 1>>
    IN /\ fate[m] = "queued"
       /\ tries[m] < MaxTries
       /\ fate' = [fate EXCEPT ![m] = "sending"]
       /\ tries' = [tries EXCEPT ![m] = @ + 1]
       /\ IF letter[m].blacklisted THEN End(t, "refused") ELSE Goto(t, "rcpt")
       /\ UNCHANGED <<vars, letter, asked, accepted, place>>

\* Mutant: an error of the database counts as "yes".
RcptOnError(t) ==
    /\ session[t] = "rcpt"
    /\ asked[t] < Len(LetterOf(t).rcpt)
    /\ asked' = [asked EXCEPT ![t] = @ + 1]
    /\ LET a == LetterOf(t).rcpt[asked'[t]]
       IN \/ (EmailAddressExists(a) \/ CallMayFail) /\ accepted' = [accepted EXCEPT ![t] = TRUE]
          \/ ~EmailAddressExists(a) /\ UNCHANGED accepted
    /\ UNCHANGED <<vars, senderVars, session, place, reply>>

\* An error of the database counts as "no such address".
Rcpt(t) ==
    /\ session[t] = "rcpt"
    /\ asked[t] < Len(LetterOf(t).rcpt)
    /\ asked' = [asked EXCEPT ![t] = @ + 1]
    /\ LET a == LetterOf(t).rcpt[asked'[t]]
       IN \/ EmailAddressExists(a) /\ accepted' = [accepted EXCEPT ![t] = TRUE]
          \/ (~EmailAddressExists(a) \/ CallMayFail) /\ UNCHANGED accepted
    /\ UNCHANGED <<vars, senderVars, session, place, reply>>

\* Nothing looks at a session's recipients after its DATA or its end.
Forget(t) ==
    /\ asked' = [asked EXCEPT ![t] = 0]
    /\ accepted' = [accepted EXCEPT ![t] = FALSE]

\* The server refuses DATA without a recipient.  A mail that cannot be parsed
\* is refused, one whose To header is empty is accepted as it is.
Data(t) ==
    /\ session[t] = "rcpt"
    /\ asked[t] = Len(LetterOf(t).rcpt)
    /\ IF ~accepted[t] \/ ~LetterOf(t).readable THEN End(t, "refused")
       ELSE IF To(t) = << >> THEN End(t, "accepted")
       ELSE Goto(t, "find")
    /\ Forget(t)
    /\ UNCHANGED <<vars, senderVars, place>>

\* GetInboxByAddress of the current entry.  The empty inbox DynamoDB may
\* answer with has an empty id, under which nothing can be saved.
Find(t) ==
    LET a == To(t)[place[t]]
        found == {id \in GetInboxByAddress(a) : Stored(id)}
    IN /\ session[t] = "find"
       /\ \/ /\ \E id \in found : LookUp(MessageOf(t, place[t]), id)
             /\ Goto(t, "save")
          \/ /\ GetInboxByAddress(a) = {} \/ CallMayFail \/ GetInboxByAddress(a) # found
             /\ End(t, "refused")
             /\ UNCHANGED vars
       /\ UNCHANGED <<senderVars, asked, accepted, place>>

Saved(t) == outcome'[MessageOf(t, place[t])] = "accepted"

Continue(t) == place' = [place EXCEPT ![t] = @ + 1] /\ Goto(t, "find")
Finish(t, answer) == UNCHANGED place /\ End(t, answer)

\* Mutants of the save: its error is logged and the loop goes on; the mail is
\* answered as soon as it was saved once; the loop runs past its end.
SaveGoesOn(t) ==
    /\ session[t] = "save"
    /\ Deliver(MessageOf(t, place[t]))
    /\ IF place[t] = Len(To(t)) THEN Finish(t, "accepted") ELSE Continue(t)
    /\ UNCHANGED <<senderVars, asked, accepted>>
SaveOnce(t) ==
    /\ session[t] = "save"
    /\ Deliver(MessageOf(t, place[t]))
    /\ Finish(t, IF Saved(t) THEN "accepted" ELSE "refused")
    /\ UNCHANGED <<senderVars, asked, accepted>>
SavePastEnd(t) ==
    /\ session[t] = "save"
    /\ Deliver(MessageOf(t, place[t]))
    /\ IF ~Saved(t) THEN Finish(t, "refused")
       ELSE IF place[t] > Len(To(t)) THEN Finish(t, "accepted")
       ELSE Continue(t)
    /\ UNCHANGED <<senderVars, asked, accepted>>

\* SaveNewMessage for it, and on to the next entry.
SaveEntry(t) ==
    /\ session[t] = "save"
    /\ Deliver(MessageOf(t, place[t]))
    /\ IF ~Saved(t) THEN Finish(t, "refused")
       ELSE IF place[t] = Len(To(t)) THEN Finish(t, "accepted")
       ELSE Continue(t)
    /\ UNCHANGED <<senderVars, asked, accepted>>

-----------------------------------------------------------------------------
(* The sender.                                                             *)

Receive(m) ==
    LET answer == reply[<<m, tries[m]>>]
    IN /\ fate[m] = "sending"
       /\ answer # "none"
       /\ fate' = [fate EXCEPT ![m] = IF answer = "accepted" THEN "delivered" ELSE "bounced"]
       /\ UNCHANGED <<vars, letter, tries, sessionVars>>

\* A timeout or a broken connection, at any time, an answer on its way
\* included.  A session that waits for a command ends with it, a running
\* handler does not.
GiveUp(m) ==
    LET t == <<m, tries[m]>>
    IN /\ fate[m] = "sending"
       /\ fate' = [fate EXCEPT ![m] = IF tries[m] < MaxTries THEN "queued" ELSE "bounced"]
       /\ session' = [session EXCEPT ![t] = IF @ = "rcpt" THEN "ended" ELSE @]
       /\ Forget(t)
       /\ UNCHANGED <<vars, letter, tries, place, reply>>

-----------------------------------------------------------------------------
(* The rest of the program.                                                *)

\* SMTPMail.RegisterRoute has nothing to register and never fails.
RegisterRoute(id) == Settle(id, "route") /\ UNCHANGED smtpVars

CrashAll ==
    /\ Restart
    /\ session' = [t \in Attempts |-> IF session[t] \in Busy THEN "killed" ELSE session[t]]
    /\ UNCHANGED <<senderVars, asked, accepted, place, reply>>

LaunchInbox(id, a) == Launch(id, a) /\ UNCHANGED smtpVars
SaveInbox(id) == Save(id) /\ UNCHANGED smtpVars
Surroundings == (Upkeep \/ Tick) /\ UNCHANGED smtpVars

SmtpNext ==
    \/ \E m \in Mails : MailFrom(m) \/ Receive(m) \/ GiveUp(m)
    \/ \E t \in Attempts :
         \/ Rcpt(t)
         \/ Data(t)
         \/ Find(t)
         \/ SaveEntry(t)
    \/ \E id \in InboxIDs : \E a \in Addresses : LaunchInbox(id, a)
    \/ \E id \in InboxIDs : SaveInbox(id) \/ RegisterRoute(id)
    \/ Surroundings
    \/ CrashAll

SmtpSpec == SmtpInit /\ [][SmtpNext]_allVars

-----------------------------------------------------------------------------

\* A mail answered with "accepted" was saved for every address its To header
\* names, in an inbox of that address, and lies there until the inbox expires:
\* whatever was swept, registered or given up on meanwhile.
AnsweredMailIsServed ==
    \A t \in Attempts : reply[t] = "accepted" =>
        \A p \in 1..Len(To(t)) :
            LET m == sent[MessageOf(t, p)]
            IN /\ m # Nil
               /\ outcome[m.ID] \in {"accepted", "lost"}
               /\ SameAddress(known[m.InboxID].Address, To(t)[p])
               /\ now < known[m.InboxID].TTL /\ Durable => m \in Mail

\* Mail lies only in inboxes its To header names, and a blacklisted sender's
\* lies nowhere: the copies of a mail, and attempts that overlap, do not get
\* into each other's inboxes.
MailWasAddressed ==
    \A m \in Mail :
        LET t == <<m.ID[1], m.ID[2]>>
        IN /\ ~LetterOf(t).blacklisted
           /\ Stored(m.InboxID) =>
                 SameAddress(inboxes[m.InboxID].Address, To(t)[m.ID[3]])

\* A mail that was refused half-way, which its sender is told was not
\* delivered, has reached the first of its addressees and no others: every
\* save before the one that failed was accepted.
RefusedMailIsAPrefix ==
    \A t \in Attempts : \A p, q \in Places :
        p < q /\ sent[MessageOf(t, q)] # Nil =>
            outcome[MessageOf(t, p)] \in {"accepted", "lost"}

\* Some recipient the attempt named is, or was, the address of an inbox.
HadRecipient(t) ==
    \E k \in 1..Len(LetterOf(t).rcpt) : \E id \in InboxIDs :
        known[id] # Nil /\ SameAddress(known[id].Address, LetterOf(t).rcpt[k])

\* No mail is stored for a sender none of whose recipients was the program's,
\* even where the To header names an address that is: "Bad destination mailbox
\* address" (smtp.go:120), on which the rest of the program relies.
MailHadRecipient ==
    \A t \in Attempts :
        (\E p \in Places : sent[MessageOf(t, p)] # Nil) => HadRecipient(t)
=============================================================================
