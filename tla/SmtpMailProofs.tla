--------------------------- MODULE SmtpMailProofs ---------------------------
(***************************************************************************)
(* Mail that comes in by SMTP is where its sender was told it is, for any  *)
(* number of mails, recipients, attempts and inboxes and each of the three *)
(* databases.                                                              *)
(*                                                                         *)
(* Every step of SmtpMail is a step of DatabaseClient or leaves its        *)
(* variables alone, so that what DatabaseClientProofs proves holds here,   *)
(* whatever sessions do.  AttemptInv is the loop invariant of an attempt's *)
(* handler: the entries before its place are served, those after it are    *)
(* not begun; it is stated for handlers that ended or died as well.        *)
(***************************************************************************)
EXTENDS SmtpMail, DatabaseClientProofs

\* SmtpTypeOK is not inductive: that an entry a handler is at exists rests on
\* its loop beginning at the first, and an attempt on not having begun before.
SmtpTypes ==
    /\ letter \in [Mails -> Letters]
    /\ fate \in [Mails -> {"queued", "sending", "delivered", "bounced"}]
    /\ tries \in [Mails -> 0..MaxTries]
    /\ session \in [Attempts -> Busy \cup {"idle", "ended", "killed"}]
    /\ asked \in [Attempts -> Nat]
    /\ accepted \in [Attempts -> BOOLEAN]
    /\ place \in [Attempts -> Places]
    /\ reply \in [Attempts -> {"none", "accepted", "refused"}]

PlaceOK(t) ==
    /\ session[t] \in {"idle", "rcpt"} => place[t] = 1
    /\ session[t] \in {"find", "save"} => place[t] <= Len(To(t))
    /\ t[2] > tries[t[1]] => session[t] = "idle"

TInv == TypeOK /\ SmtpTypes /\ \A t \in Attempts : PlaceOK(t)

\* What the address index has came from the table (DynamoDB).
IndexInv ==
    \A id \in InboxIDs : index[id] # Nil =>
        known[id] # Nil /\ SameAddress(index[id], known[id].Address)

Sent(t, p) == sent[MessageOf(t, p)]

\* The inbox of the message for entry p has its address.
Addressed(t, p) ==
    /\ ~LetterOf(t).blacklisted
    /\ known[Sent(t, p).InboxID] # Nil
    /\ SameAddress(known[Sent(t, p).InboxID].Address, To(t)[p])

\* The message was stored, and is lost only with a store that keeps nothing.
Served(t, p) ==
    /\ Sent(t, p) # Nil
    /\ Addressed(t, p)
    /\ \/ outcome[MessageOf(t, p)] = "accepted"
       \/ outcome[MessageOf(t, p)] = "lost" /\ ~Durable

AttemptInv(t) ==
    /\ \A p \in Places : Sent(t, p) # Nil => Addressed(t, p)
    /\ \A p, q \in Places : p < q /\ Sent(t, q) # Nil => Served(t, p)
    /\ session[t] \in {"idle", "rcpt"} => \A p \in Places : Sent(t, p) = Nil
    /\ session[t] # "ended" => reply[t] # "accepted"
    /\ session[t] \in {"rcpt", "find", "save"} => ~LetterOf(t).blacklisted
    /\ session[t] \in {"find", "save"} => \A p \in Places : p < place[t] => Served(t, p)
    /\ session[t] = "find" => \A p \in Places : p >= place[t] => Sent(t, p) = Nil
    /\ session[t] = "save" =>
          /\ Sent(t, place[t]) # Nil
          /\ outcome[MessageOf(t, place[t])] = "none"
          /\ \A p \in Places : p > place[t] => Sent(t, p) = Nil
    /\ reply[t] = "accepted" => \A p \in 1..Len(To(t)) : Served(t, p)

\* Every message was made for an entry of an attempt.
OwnedInv ==
    \A mid \in MessageIDs : sent[mid] # Nil =>
        \E t \in Attempts, p \in Places : mid = MessageOf(t, p)

\* What RCPT accepted is what let the handler in.
RecipientInv(t) ==
    accepted[t] \/ session[t] \in {"find", "save"} \/ (\E p \in Places : Sent(t, p) # Nil)
        => HadRecipient(t)

SInv ==
    /\ TInv
    /\ CInv
    /\ IndexInv
    /\ \A t \in Attempts : AttemptInv(t) /\ RecipientInv(t)
    /\ OwnedInv

-----------------------------------------------------------------------------
(* Attempts and their messages.                                            *)

LEMMA MessageIDsOfAttempts ==
    /\ \A t \in Attempts : \A p \in Places : MessageOf(t, p) \in MessageIDs
    /\ \A t, u \in Attempts : \A p, q \in Places :
          MessageOf(t, p) = MessageOf(u, q) => t = u /\ p = q
  BY SmtpAssumption DEF MessageOf, Attempts

LEMMA LetterTypes ==
    ASSUME SmtpTypeOK, NEW t \in Attempts
    PROVE  /\ LetterOf(t) \in Letters
           /\ To(t) \in Seq(Addresses)
           /\ Len(To(t)) \in Nat
           /\ Len(To(t)) <= MaxTo
           /\ 1..Len(To(t)) \subseteq Places
           /\ LetterOf(t).rcpt \in Seq(Addresses)
<1>1. t[1] \in Mails
  BY DEF Attempts
<1>2. LetterOf(t) \in Letters
  BY <1>1 DEF SmtpTypeOK, LetterOf
<1>3. To(t) \in Seq(Addresses) /\ Len(To(t)) <= MaxTo /\ LetterOf(t).rcpt \in Seq(Addresses)
  BY <1>2, SmtpAssumption DEF To
<1> QED BY <1>2, <1>3, SmtpAssumption DEF Places

-----------------------------------------------------------------------------
(* Every step is one of DatabaseClient's, or none.                         *)

LEMMA SmtpInitClient == SmtpInit => Init
  BY DEF SmtpInit

LEMMA SmtpStepClient == SmtpTypeOK /\ [SmtpNext]_allVars => [Next]_vars
<1> SUFFICES ASSUME SmtpTypeOK, [SmtpNext]_allVars PROVE [Next]_vars
  OBVIOUS
<1>1. ASSUME NEW m \in Mails, MailFrom(m) \/ Receive(m) \/ GiveUp(m)
      PROVE  [Next]_vars
  BY <1>1 DEF MailFrom, Receive, GiveUp
<1>2. ASSUME NEW t \in Attempts, Rcpt(t) \/ Data(t)
      PROVE  [Next]_vars
  BY <1>2 DEF Rcpt, Data
<1>3. ASSUME NEW t \in Attempts, Find(t)
      PROVE  [Next]_vars
  <2>1. MessageOf(t, place[t]) \in MessageIDs
    BY MessageIDsOfAttempts DEF SmtpTypeOK
  <2>2. \A id \in {k \in GetInboxByAddress(To(t)[place[t]]) : Stored(k)} :
           LookUp(MessageOf(t, place[t]), id) => id \in InboxIDs
    BY DatabaseAssumption DEF GetInboxByAddress, Memory!GetInboxByAddress,
       SQL!GetInboxByAddress, Dynamo!GetInboxByAddress
  <2> QED BY <1>3, <2>1, <2>2 DEF Find, Next
<1>4. ASSUME NEW t \in Attempts, SaveEntry(t)
      PROVE  [Next]_vars
  <2>1. MessageOf(t, place[t]) \in MessageIDs
    BY MessageIDsOfAttempts DEF SmtpTypeOK
  <2> QED BY <1>4, <2>1 DEF SaveEntry, Next
<1>5. ASSUME NEW id \in InboxIDs, NEW a \in Addresses, LaunchInbox(id, a)
      PROVE  [Next]_vars
  BY <1>5 DEF LaunchInbox, Next
<1>6. ASSUME NEW id \in InboxIDs, SaveInbox(id) \/ RegisterRoute(id)
      PROVE  [Next]_vars
  BY <1>6 DEF SaveInbox, RegisterRoute, Next
<1>7. CASE Surroundings
  BY <1>7 DEF Surroundings, Next
<1>8. CASE CrashAll
  BY <1>8 DEF CrashAll, Next
<1>9. CASE UNCHANGED allVars
  BY <1>9 DEF allVars
<1> QED BY <1>1, <1>2, <1>3, <1>4, <1>5, <1>6, <1>7, <1>8, <1>9 DEF SmtpNext

-----------------------------------------------------------------------------
(* Types.                                                                  *)

LEMMA TInvTypes == TInv => SmtpTypeOK
  BY DEF TInv, SmtpTypeOK, SmtpTypes, PlaceOK

LEMMA SmtpTypeInit == SmtpInit => TInv
<1> SUFFICES ASSUME SmtpInit PROVE TInv
  OBVIOUS
<1>1. TypeOK
  BY ClientInit, SmtpInitClient DEF CInv
<1>2. SmtpTypes
  BY SmtpAssumption DEF SmtpInit, SmtpTypes, Busy, Places
<1>3. \A t \in Attempts : PlaceOK(t)
  BY DEF SmtpInit, PlaceOK
<1> QED BY <1>1, <1>2, <1>3 DEF TInv

\* Handlers that stay, end or die are no further in their loops than before.
LEMMA PlaceKept ==
    ASSUME letter' = letter,
           NEW t \in Attempts, PlaceOK(t),
           place'[t] = place[t],
           tries'[t[1]] = tries[t[1]],
           \/ session'[t] = session[t]
           \/ session'[t] \in {"ended", "killed"} /\ session[t] # "idle"
    PROVE  PlaceOK(t)'
  BY DEF PlaceOK, To, LetterOf

LEMMA SmtpTypeStep == TInv /\ TypeOK' /\ [SmtpNext]_allVars => TInv'
<1> SUFFICES ASSUME TInv, TypeOK', [SmtpNext]_allVars
             PROVE  SmtpTypes' /\ \A u \in Attempts : PlaceOK(u)'
  BY DEF TInv
<1>0. /\ SmtpTypeOK
      /\ SmtpTypes
      /\ \A u \in Attempts : PlaceOK(u)
      /\ \A u \in Attempts : u = <<u[1], u[2]>> /\ u[1] \in Mails /\ u[2] \in Tries
  BY TInvTypes DEF TInv, Attempts
<1>1. ASSUME NEW m \in Mails, MailFrom(m)
      PROVE  SmtpTypes' /\ \A u \in Attempts : PlaceOK(u)'
  <2>0. tries[m] + 1 \in 0..MaxTries /\ tries[m] + 1 \in Tries /\ tries[m] \in Nat
    BY <1>0, <1>1, SmtpAssumption DEF MailFrom, SmtpTypes, Tries
  <2>1. PICK t \in Attempts : t = <<m, tries[m] + 1>> /\ session[t] = "idle"
    <3> DEFINE t == <<m, tries[m] + 1>>
    <3>1. t \in Attempts /\ t[1] = m /\ t[2] = tries[m] + 1
      BY <2>0 DEF Attempts
    <3>2. t[2] > tries[t[1]]
      BY <2>0, <3>1
    <3>3. session[t] = "idle"
      BY <1>0, <3>1, <3>2 DEF PlaceOK
    <3> QED BY <3>1, <3>3
  <2>2. /\ session' = [session EXCEPT ![t] = IF letter[m].blacklisted THEN "ended" ELSE "rcpt"]
        /\ tries' = [tries EXCEPT ![m] = @ + 1]
        /\ UNCHANGED <<letter, place>>
    BY <1>1, <2>1 DEF MailFrom, Goto, End
  <2>3. SmtpTypes'
    BY <1>0, <1>1, <2>0 DEF MailFrom, SmtpTypes, Goto, End, Busy
  <2>4. ASSUME NEW u \in Attempts
        PROVE  PlaceOK(u)'
    <3>1. CASE u = t
      BY <1>0, <2>0, <2>1, <2>2, <3>1 DEF PlaceOK, SmtpTypes
    <3>2. CASE u # t /\ u[1] = m
      <4>1. session'[u] = session[u] /\ tries'[m] = tries[m] + 1
        BY <1>0, <2>2, <3>2 DEF SmtpTypes
      <4>2. u[2] # tries[m] + 1 /\ u[2] \in Nat
        BY <1>0, <2>1, <3>2 DEF Tries
      <4> QED BY <1>0, <2>0, <2>2, <3>2, <4>1, <4>2 DEF PlaceOK, To, LetterOf
    <3>3. CASE u[1] # m
      <4>1. session'[u] = session[u] /\ tries'[u[1]] = tries[u[1]]
        BY <1>0, <2>1, <2>2, <3>3 DEF SmtpTypes
      <4> QED BY <1>0, <2>2, <4>1, PlaceKept
    <3> QED BY <3>1, <3>2, <3>3
  <2> QED BY <2>3, <2>4
<1>2. ASSUME NEW t \in Attempts, Rcpt(t)
      PROVE  SmtpTypes' /\ \A u \in Attempts : PlaceOK(u)'
  <2>1. SmtpTypes'
    <3>1. accepted' = accepted \/ accepted' = [accepted EXCEPT ![t] = TRUE]
      BY <1>2, Zenon DEF Rcpt
    <3>2. accepted' \in [Attempts -> BOOLEAN]
      BY <1>0, <3>1 DEF SmtpTypes
    <3>3. /\ asked' = [asked EXCEPT ![t] = @ + 1]
          /\ UNCHANGED <<letter, fate, tries, session, place, reply>>
      BY <1>2 DEF Rcpt, senderVars
    <3> QED BY <1>0, <3>2, <3>3 DEF SmtpTypes
  <2>2. UNCHANGED <<letter, tries, session, place>>
    BY <1>2 DEF Rcpt, senderVars
  <2> QED BY <1>0, <2>1, <2>2, PlaceKept
<1>3. ASSUME NEW t \in Attempts, Data(t)
      PROVE  SmtpTypes' /\ \A u \in Attempts : PlaceOK(u)'
  <2>1. SmtpTypes'
    <3>1. \/ Goto(t, "find")
          \/ \E answer \in {"accepted", "refused"} : End(t, answer)
      BY <1>3, Zenon DEF Data
    <3>2. /\ session' \in [Attempts -> Busy \cup {"idle", "ended", "killed"}]
          /\ reply' \in [Attempts -> {"none", "accepted", "refused"}]
      BY <1>0, <3>1 DEF Goto, End, Busy, SmtpTypes
    <3>3. Forget(t) /\ UNCHANGED <<letter, fate, tries, place>>
      BY <1>3 DEF Data, senderVars
    <3> QED BY <1>0, <3>2, <3>3 DEF Forget, SmtpTypes
  <2>2. To(t) # << >> => 1 <= Len(To(t))
    BY <1>0, LetterTypes
  <2>3. /\ UNCHANGED <<letter, place, tries>>
        /\ session[t] = "rcpt"
        /\ \/ session' = [session EXCEPT ![t] = "ended"]
           \/ To(t) # << >> /\ session' = [session EXCEPT ![t] = "find"]
    BY <1>3 DEF Data, Goto, End, senderVars
  <2>4. ASSUME NEW u \in Attempts
        PROVE  PlaceOK(u)'
    <3>1. CASE u # t
      BY <1>0, <2>3, <3>1, PlaceKept DEF SmtpTypes
    <3>2. CASE u = t
      BY <1>0, <2>2, <2>3, <3>2 DEF PlaceOK, To, LetterOf, SmtpTypes
    <3> QED BY <3>1, <3>2
  <2> QED BY <2>1, <2>4
<1>4. ASSUME NEW t \in Attempts, Find(t)
      PROVE  SmtpTypes' /\ \A u \in Attempts : PlaceOK(u)'
  <2>1. SmtpTypes'
    BY <1>0, <1>4 DEF Find, SmtpTypes, Goto, End, Busy, senderVars
  <2>2. /\ UNCHANGED <<letter, place, tries>>
        /\ session[t] = "find"
        /\ session' = [session EXCEPT ![t] = "save"] \/ session' = [session EXCEPT ![t] = "ended"]
    BY <1>4 DEF Find, Goto, End, senderVars
  <2> QED BY <1>0, <2>1, <2>2 DEF PlaceOK, To, LetterOf, SmtpTypes
<1>5. ASSUME NEW t \in Attempts, SaveEntry(t)
      PROVE  SmtpTypes' /\ \A u \in Attempts : PlaceOK(u)'
  <2>1. /\ Len(To(t)) \in Nat
        /\ Len(To(t)) <= MaxTo
        /\ place[t] <= Len(To(t))
        /\ place[t] \in Places
    BY <1>0, <1>5, LetterTypes DEF SaveEntry, SmtpTypes, PlaceOK
  <2>2. place[t] # Len(To(t)) => place[t] + 1 \in Places /\ place[t] + 1 <= Len(To(t))
    BY <2>1, SmtpAssumption DEF Places
  <2>3. /\ UNCHANGED <<letter, tries>>
        /\ session[t] = "save"
        /\ \/ session' = [session EXCEPT ![t] = "ended"] /\ place' = place
           \/ /\ session' = [session EXCEPT ![t] = "find"]
              /\ place[t] # Len(To(t))
              /\ place' = [place EXCEPT ![t] = @ + 1]
    BY <1>5 DEF SaveEntry, Continue, Finish, Goto, End, senderVars
  <2>4. SmtpTypes'
    BY <1>0, <1>5, <2>2 DEF SaveEntry, Continue, Finish, SmtpTypes, Goto, End, Busy, senderVars
  <2>5. ASSUME NEW u \in Attempts
        PROVE  PlaceOK(u)'
    <3>1. CASE u # t
      BY <1>0, <2>3, <3>1, PlaceKept DEF SmtpTypes
    <3>2. CASE u = t
      BY <1>0, <2>2, <2>3, <3>2 DEF PlaceOK, To, LetterOf, SmtpTypes
    <3> QED BY <3>1, <3>2
  <2> QED BY <2>4, <2>5
<1>6. ASSUME NEW m \in Mails, Receive(m)
      PROVE  SmtpTypes' /\ \A u \in Attempts : PlaceOK(u)'
  <2>1. SmtpTypes'
    BY <1>0, <1>6 DEF Receive, SmtpTypes, sessionVars
  <2> QED BY <1>0, <1>6, <2>1, PlaceKept DEF Receive, sessionVars
<1>7. ASSUME NEW m \in Mails, GiveUp(m)
      PROVE  SmtpTypes' /\ \A u \in Attempts : PlaceOK(u)'
  <2>1. SmtpTypes'
    BY <1>0, <1>7 DEF GiveUp, Forget, SmtpTypes, Busy
  <2>2. \A u \in Attempts : \/ session'[u] = session[u]
                            \/ session'[u] = "ended" /\ session[u] = "rcpt"
    BY <1>0, <1>7 DEF GiveUp, SmtpTypes
  <2> QED BY <1>0, <1>7, <2>1, <2>2, PlaceKept DEF GiveUp
<1>8. CASE UNCHANGED smtpVars
  <2>1. SmtpTypes'
    BY <1>0, <1>8 DEF SmtpTypes, smtpVars, senderVars, sessionVars
  <2> QED BY <1>0, <1>8, <2>1, PlaceKept DEF smtpVars, senderVars, sessionVars
<1>9. CASE CrashAll
  <2>1. SmtpTypes'
    BY <1>0, <1>9 DEF CrashAll, SmtpTypes, Busy, senderVars
  <2>2. \A u \in Attempts : \/ session'[u] = session[u]
                            \/ session'[u] = "killed" /\ session[u] # "idle"
    BY <1>9 DEF CrashAll, Busy
  <2> QED BY <1>0, <1>9, <2>1, <2>2, PlaceKept DEF CrashAll, senderVars
<1> QED BY <1>1, <1>2, <1>3, <1>4, <1>5, <1>6, <1>7, <1>8, <1>9
    DEF SmtpNext, LaunchInbox, SaveInbox, RegisterRoute, Surroundings, allVars

-----------------------------------------------------------------------------
(* What the steps of DatabaseClient leave of what an attempt did.          *)

LEMMA IndexStep == CInv /\ IndexInv /\ [Next]_vars => IndexInv'
<1> SUFFICES ASSUME CInv, IndexInv, [Next]_vars PROVE IndexInv'
  OBVIOUS
<1>1. \A id \in InboxIDs : known[id] # Nil => known'[id] = known[id]
  BY DEF Next, Launch, Save, Settle, LookUp, Deliver, Upkeep, Restart, Tick, vars, clientVars,
         CInv, TypeOK
<1>2. CASE index' = index
  BY <1>1, <1>2 DEF IndexInv
<1>3. CASE PropagateIndex
  <2>1. PICK id \in InboxIDs : index' = [index EXCEPT ![id] =
           IF inboxes[id] = Nil THEN Nil ELSE inboxes[id].Address]
    BY <1>3 DEF PropagateIndex, Dynamo!Propagate
  <2>2. inboxes[id] # Nil /\ inboxes[id].Address # Nil =>
           known[id] # Nil /\ SameAddress(inboxes[id].Address, known[id].Address)
    BY RowAddress DEF Stored
  <2> QED BY <1>1, <2>1, <2>2 DEF IndexInv, CInv, TypeOK, DBTypeOK
<1>4. index' = index \/ PropagateIndex
  BY DEF Next, Launch, Save, SaveNewInbox, Settle, SetInboxCreated, SetInboxFailed, LookUp, Deliver,
         SaveNewMessage, Upkeep, DeleteExpired, Restart, RestartDB, Tick, vars, dbVars
<1> QED BY <1>2, <1>3, <1>4

\* An inbox found for an address has that address.
LEMMA FoundAddress ==
    ASSUME CInv, IndexInv, NEW a \in Addresses,
           NEW id \in GetInboxByAddress(a), Stored(id)
    PROVE  id \in InboxIDs /\ known[id] # Nil /\ SameAddress(known[id].Address, a)
<1>1. id \in InboxIDs
  BY DatabaseAssumption DEF GetInboxByAddress, Memory!GetInboxByAddress,
     SQL!GetInboxByAddress, Dynamo!GetInboxByAddress
<1>2. known[id] # Nil /\ (Backend # "dynamo" => SameAddress(inboxes[id].Address, known[id].Address))
  BY <1>1, RowAddress
<1>3. CASE Backend = "memory"
  BY <1>1, <1>2, <1>3 DEF GetInboxByAddress, Memory!GetInboxByAddress, SameAddress
<1>4. CASE Backend = "sql"
  BY <1>1, <1>2, <1>4
  DEF GetInboxByAddress, SQL!GetInboxByAddress, SQL!SameAddress, SameAddress
<1>5. CASE Backend = "dynamo"
  <2>1. index[id] = a
    BY <1>5 DEF GetInboxByAddress, Dynamo!GetInboxByAddress
  <2>2. a # Nil
    BY NilAssumption
  <2> QED BY <1>1, <1>2, <2>1, <2>2 DEF IndexInv, SameAddress
<1> QED BY <1>3, <1>4, <1>5, DatabaseAssumption

LEMMA Stable ==
    ASSUME CInv, [Next]_vars
    PROVE  /\ \A mid \in MessageIDs : sent[mid] # Nil => sent'[mid] = sent[mid]
           /\ \A id \in InboxIDs : known[id] # Nil => known'[id] = known[id]
           /\ \A mid \in MessageIDs : outcome[mid] = "accepted" =>
                 outcome'[mid] = "accepted" \/ (outcome'[mid] = "lost" /\ ~Durable)
           /\ \A mid \in MessageIDs : outcome[mid] = "lost" => outcome'[mid] = "lost"
<1>0. TypeOK
  BY DEF CInv
<1>1. \A mid \in MessageIDs : sent[mid] # Nil => sent'[mid] = sent[mid]
  BY <1>0 DEF Next, Launch, Save, Settle, LookUp, Deliver, Upkeep, Restart, Tick, vars, clientVars, TypeOK
<1>2. \A id \in InboxIDs : known[id] # Nil => known'[id] = known[id]
  BY <1>0 DEF Next, Launch, Save, Settle, LookUp, Deliver, Upkeep, Restart, Tick, vars, clientVars, TypeOK
<1>3. ASSUME NEW mid \in MessageIDs
      PROVE  /\ outcome[mid] = "accepted" =>
                   outcome'[mid] = "accepted" \/ (outcome'[mid] = "lost" /\ ~Durable)
             /\ outcome[mid] = "lost" => outcome'[mid] = "lost"
  <2>1. CASE outcome' = outcome
    BY <2>1
  <2>2. ASSUME NEW n \in MessageIDs, Deliver(n)
        PROVE  outcome[mid] # "none" => outcome'[mid] = outcome[mid]
    BY <1>0, <2>2 DEF Deliver, TypeOK
  <2>3. CASE Restart
    BY <2>3 DEF Restart
  <2>4. outcome' = outcome \/ Restart \/ \E n \in MessageIDs : Deliver(n)
    BY DEF Next, Launch, Save, Settle, LookUp, Upkeep, Tick, vars, clientVars
  <2> QED BY <2>1, <2>2, <2>3, <2>4
<1> QED BY <1>1, <1>2, <1>3

\* What was served and where it went stays.
LEMMA ServedKept ==
    ASSUME SmtpTypeOK, CInv, [Next]_vars, letter' = letter,
           NEW t \in Attempts, NEW p \in Places
    PROVE  /\ Sent(t, p) # Nil => Sent(t, p)' = Sent(t, p)
           /\ Sent(t, p) # Nil /\ Addressed(t, p) => Addressed(t, p)'
           /\ Served(t, p) => Served(t, p)'
<1>1. MessageOf(t, p) \in MessageIDs
  BY MessageIDsOfAttempts
<1>2. Sent(t, p) # Nil => Sent(t, p)' = Sent(t, p) /\ Sent(t, p).InboxID \in InboxIDs
  BY <1>1, Stable, SentTypes DEF CInv, Sent, MessageOf
<1>3. Sent(t, p) # Nil /\ Addressed(t, p) => Addressed(t, p)'
  BY <1>2, Stable DEF Addressed, LetterOf, To
<1>4. Served(t, p) => Served(t, p)'
  BY <1>1, <1>2, <1>3, Stable DEF Served, MessageOf
<1> QED BY <1>2, <1>3, <1>4

-----------------------------------------------------------------------------
(* The loop invariant.                                                     *)

\* A step that is not the attempt's, or one that ends it without "accepted".
LEMMA AttemptKept ==
    ASSUME SmtpTypeOK, CInv, [Next]_vars, letter' = letter,
           NEW t \in Attempts, AttemptInv(t),
           place'[t] = place[t],
           \A p \in Places : Sent(t, p) = Nil => Sent(t, p)' = Nil,
           \/ session'[t] = session[t] /\ reply'[t] = reply[t]
           \/ session'[t] \in {"ended", "killed"} /\ reply'[t] # "accepted",
           session'[t] = "save" =>
              outcome'[MessageOf(t, place[t])] = outcome[MessageOf(t, place[t])]
    PROVE  AttemptInv(t)'
<1>1. /\ To(t)' = To(t)
      /\ LetterOf(t)' = LetterOf(t)
      /\ \A p \in Places : MessageOf(t, p)' = MessageOf(t, p)
      /\ 1..Len(To(t)) \subseteq Places
      /\ place[t] \in Places
  BY LetterTypes DEF To, LetterOf, MessageOf, SmtpTypeOK
<1>2. \A p \in Places :
         /\ Sent(t, p) # Nil => Sent(t, p)' = Sent(t, p)
         /\ Sent(t, p) # Nil /\ Addressed(t, p) => Addressed(t, p)'
         /\ Served(t, p) => Served(t, p)'
  BY ServedKept
<1>3. \A p \in Places : Sent(t, p)' # Nil => Sent(t, p) # Nil /\ Addressed(t, p)'
  BY <1>2 DEF AttemptInv
<1>4. \A p, q \in Places : p < q /\ Sent(t, q)' # Nil => Served(t, p)'
  BY <1>2, <1>3 DEF AttemptInv
<1>5. CASE session'[t] = session[t] /\ reply'[t] = reply[t]
  <2>1. reply[t] = "accepted" => \A p \in 1..Len(To(t)) : Served(t, p)'
    BY <1>1, <1>2 DEF AttemptInv
  <2>2. session[t] = "save" => Sent(t, place[t])' # Nil
    BY <1>1, <1>2 DEF AttemptInv
  <2>3. session[t] \in {"find", "save"} => \A p \in Places : p < place[t] => Served(t, p)'
    BY <1>2 DEF AttemptInv
  <2> QED BY <1>1, <1>3, <1>4, <1>5, <2>1, <2>2, <2>3 DEF AttemptInv, MessageOf
<1>6. CASE session'[t] \in {"ended", "killed"} /\ reply'[t] # "accepted"
  BY <1>1, <1>3, <1>4, <1>6 DEF AttemptInv
<1> QED BY <1>5, <1>6

LEMMA SmtpInitSInv == SmtpInit => SInv
<1> SUFFICES ASSUME SmtpInit PROVE SInv
  OBVIOUS
<1>1. TInv /\ CInv
  BY SmtpTypeInit, SmtpInitClient, ClientInit
<1>2. IndexInv /\ OwnedInv
  BY DEF SmtpInit, Init, DBInit, IndexInv, OwnedInv
<1>3. \A t \in Attempts : AttemptInv(t)
  BY MessageIDsOfAttempts DEF SmtpInit, Init, AttemptInv, Sent
<1>4. \A t \in Attempts : RecipientInv(t)
  BY MessageIDsOfAttempts DEF SmtpInit, Init, RecipientInv, Sent
<1> QED BY <1>1, <1>2, <1>3, <1>4 DEF SInv

LEMMA MailFromStep ==
    ASSUME SInv, NEW m \in Mails, MailFrom(m), [Next]_vars, NEW u \in Attempts
    PROVE  AttemptInv(u)'
<1>0. SmtpTypeOK /\ CInv /\ TInv /\ SmtpTypes
  BY TInvTypes DEF SInv, TInv
<1>1. tries[m] + 1 \in Tries /\ tries[m] \in Nat
  BY <1>0, SmtpAssumption DEF MailFrom, SmtpTypes, Tries
<1>2. PICK t \in Attempts : t = <<m, tries[m] + 1>> /\ t[1] = m /\ t[2] = tries[m] + 1
  <2>1. LET t == <<m, tries[m] + 1>>
        IN t \in Attempts /\ t[1] = m /\ t[2] = tries[m] + 1
    BY <1>1 DEF Attempts
  <2> QED BY <2>1
<1>3. session[t] = "idle"
  BY <1>0, <1>1, <1>2 DEF TInv, PlaceOK
<1>4. /\ \/ /\ letter[m].blacklisted
            /\ session' = [session EXCEPT ![t] = "ended"]
            /\ reply' = [reply EXCEPT ![t] = "refused"]
         \/ /\ ~letter[m].blacklisted
            /\ session' = [session EXCEPT ![t] = "rcpt"]
            /\ reply' = reply
      /\ UNCHANGED <<letter, place, sent, outcome>>
  BY <1>2 DEF MailFrom, Goto, End, vars, clientVars
<1>5. CASE u = t
  <2>1. /\ \A p \in Places : Sent(t, p) = Nil /\ Sent(t, p)' = Nil
        /\ reply[t] # "accepted"
    BY <1>2, <1>3, <1>4 DEF SInv, AttemptInv, Sent, MessageOf
  <2>2. /\ \/ session'[t] = "ended" /\ reply'[t] = "refused"
           \/ session'[t] = "rcpt" /\ reply'[t] = reply[t] /\ ~LetterOf(t)'.blacklisted
    BY <1>0, <1>2, <1>4 DEF SmtpTypes, LetterOf
  <2> QED BY <1>5, <2>1, <2>2 DEF AttemptInv
<1>6. CASE u # t
  BY <1>0, <1>4, <1>6, AttemptKept DEF SInv, SmtpTypes, Sent, MessageOf
<1> QED BY <1>5, <1>6

LEMMA DataStep ==
    ASSUME SInv, NEW t \in Attempts, Data(t), [Next]_vars, NEW u \in Attempts
    PROVE  AttemptInv(u)'
<1>0. SmtpTypeOK /\ CInv /\ TInv /\ SmtpTypes
  BY TInvTypes DEF SInv, TInv
<1>1. session[t] = "rcpt" /\ place[t] = 1
  BY <1>0 DEF Data, TInv, PlaceOK
<1>2. /\ UNCHANGED <<letter, place, sent, outcome>>
      /\ \/ End(t, "refused")
         \/ To(t) = << >> /\ End(t, "accepted")
         \/ Goto(t, "find")
  BY Zenon DEF Data, senderVars, vars, clientVars
<1>3. CASE u = t
  <2>1. \A p \in Places : Sent(t, p) = Nil /\ Sent(t, p)' = Nil
    BY <1>1, <1>2 DEF SInv, AttemptInv, Sent, MessageOf
  <2>2. reply[t] # "accepted" /\ ~LetterOf(t).blacklisted /\ ~LetterOf(t)'.blacklisted
    BY <1>1, <1>2 DEF SInv, AttemptInv, LetterOf
  <2>3. \A p \in Places : p >= 1 /\ ~(p < 1)
    BY DEF Places
  <2>4. \/ session'[t] = "ended" /\ reply'[t] = "refused"
        \/ session'[t] = "ended" /\ reply'[t] = "accepted" /\ To(t)' = << >>
        \/ session'[t] = "find" /\ reply'[t] = reply[t]
    BY <1>0, <1>2 DEF End, Goto, SmtpTypes, To, LetterOf
  <2>5. To(t)' = << >> => 1..Len(To(t)') = {}
    OBVIOUS
  <2> QED BY <1>1, <1>2, <1>3, <2>1, <2>2, <2>3, <2>4, <2>5 DEF AttemptInv
<1>4. CASE u # t
  BY <1>0, <1>2, <1>4, AttemptKept DEF SInv, SmtpTypes, Sent, MessageOf, End, Goto
<1> QED BY <1>3, <1>4

LEMMA FindStep ==
    ASSUME SInv, NEW t \in Attempts, Find(t), [Next]_vars, NEW u \in Attempts
    PROVE  AttemptInv(u)'
<1>0. SmtpTypeOK /\ CInv /\ TInv /\ SmtpTypes /\ IndexInv
  BY TInvTypes DEF SInv, TInv
<1> PICK n \in Places : n = place[t]
  BY <1>0 DEF SmtpTypes
<1> DEFINE a == To(t)[n]
           mid == MessageOf(t, n)
<1>1. session[t] = "find" /\ UNCHANGED <<letter, place>>
  BY DEF Find, senderVars
<1>2. mid \in MessageIDs /\ a \in Addresses
  BY <1>0, <1>1, MessageIDsOfAttempts, LetterTypes DEF TInv, PlaceOK, Places
<1>3. CASE End(t, "refused") /\ UNCHANGED vars
  BY <1>0, <1>1, <1>3, AttemptKept DEF SInv, SmtpTypes, Sent, MessageOf, End, vars, clientVars
<1>4. CASE Goto(t, "save") /\ \E id \in {k \in GetInboxByAddress(a) : Stored(k)} : LookUp(mid, id)
  <2>1. PICK id \in GetInboxByAddress(a) : Stored(id) /\ LookUp(mid, id)
    BY <1>4
  <2>2. id \in InboxIDs /\ known[id] # Nil /\ SameAddress(known[id].Address, a)
    BY <1>0, <1>2, <2>1, FoundAddress
  <2>3. /\ sent[mid] = Nil
        /\ sent'[mid].InboxID = id
        /\ sent'[mid] # Nil
        /\ \A k \in MessageIDs : k # mid => sent'[k] = sent[k]
        /\ UNCHANGED <<known, outcome>>
    <3>1. [InboxID |-> id, ID |-> mid, TTL |-> inboxes[id].TTL] \in Message
      BY <1>0, <1>2, <2>1, <2>2, SentTypes DEF CInv, Stored, Message
    <3> QED BY <1>0, <1>2, <2>1, <3>1, NilAssumption DEF LookUp, CInv, TypeOK
  <2>4. outcome[mid] = "none"
    BY <1>0, <1>2, <2>3 DEF CInv, SentInv
  <2>5. session' = [session EXCEPT ![t] = "save"] /\ reply' = reply
    BY <1>4 DEF Goto
  <2>6. CASE u = t
    <3>1. \A p \in Places : p # n => Sent(t, p)' = Sent(t, p)
      BY <1>1, <2>3, MessageIDsOfAttempts DEF Sent, MessageOf
    <3>2. Sent(t, n)' = sent'[mid] /\ To(t)' = To(t) /\ LetterOf(t)' = LetterOf(t)
      BY <1>1 DEF Sent, MessageOf, To, LetterOf
    <3>3. Addressed(t, n)'
      BY <1>1, <2>2, <2>3, <3>2 DEF Addressed, SInv, AttemptInv
    <3>4. /\ ~LetterOf(t).blacklisted
          /\ reply[t] # "accepted"
          /\ \A p \in Places : p < n => Served(t, p)
          /\ \A p \in Places : p >= n => Sent(t, p) = Nil
      BY <1>1 DEF SInv, AttemptInv
    <3>5. \A p \in Places : p < n => Served(t, p)'
      BY <1>0, <1>1, <3>4, ServedKept
    <3>6. \A p \in Places : p > n => Sent(t, p)' = Nil
      <4>1. \A p \in Places : p > n => p >= n /\ p # n
        BY <1>1 DEF Places
      <4> QED BY <3>1, <3>4, <4>1
    <3>7. \A p \in Places : Sent(t, p)' # Nil => p <= n /\ Addressed(t, p)'
      <4>1. \A p \in Places : p < n \/ p = n \/ p > n
        BY <1>1 DEF Places
      <4>2. \A p \in Places : p < n \/ p = n => p <= n
        BY <1>1 DEF Places
      <4> QED BY <3>3, <3>5, <3>6, <4>1, <4>2 DEF Served
    <3>8. \A p, q \in Places : p < q /\ Sent(t, q)' # Nil => Served(t, p)'
      <4>1. \A p, q \in Places : p < q /\ q <= n => p < n
        BY <1>1 DEF Places
      <4> QED BY <3>5, <3>7, <4>1
    <3>9. session'[t] = "save" /\ place'[t] = n /\ reply'[t] = reply[t]
      BY <1>0, <1>1, <2>5 DEF SmtpTypes
    <3>10. MessageOf(t, n)' = mid
      BY <1>1 DEF MessageOf
    <3> QED BY <1>1, <2>3, <2>4, <2>6, <3>2, <3>4, <3>5, <3>6, <3>7, <3>8, <3>9, <3>10
        DEF AttemptInv
  <2>7. CASE u # t
    <3>1. \A p \in Places : Sent(u, p)' = Sent(u, p)
      BY <1>1, <2>3, <2>7, MessageIDsOfAttempts DEF Sent, MessageOf
    <3>2. session'[u] = session[u]
      BY <1>0, <2>5, <2>7 DEF SmtpTypes
    <3> QED BY <1>0, <1>1, <2>3, <2>5, <3>1, <3>2, AttemptKept DEF SInv
  <2> QED BY <2>6, <2>7
<1> QED BY <1>3, <1>4 DEF Find

LEMMA SaveEntryStep ==
    ASSUME SInv, NEW t \in Attempts, SaveEntry(t), [Next]_vars, NEW u \in Attempts
    PROVE  AttemptInv(u)'
<1>0. SmtpTypeOK /\ CInv /\ TInv /\ SmtpTypes
  BY TInvTypes DEF SInv, TInv
<1> PICK n \in Places : n = place[t]
  BY <1>0 DEF SmtpTypes
<1> DEFINE mid == MessageOf(t, n)
<1>1. /\ session[t] = "save"
      /\ Deliver(mid)
      /\ letter' = letter
  BY DEF SaveEntry, senderVars
<1>2. mid \in MessageIDs /\ Len(To(t)) \in Nat /\ 1..Len(To(t)) \subseteq Places
  BY <1>0, MessageIDsOfAttempts, LetterTypes
<1>3. /\ sent' = sent
      /\ \A k \in MessageIDs : k # mid => outcome'[k] = outcome[k]
  BY <1>0, <1>1 DEF Deliver, CInv, TypeOK
<1>4. \A v \in Attempts : \A p \in Places : Sent(v, p)' = Sent(v, p)
  BY <1>1, <1>3 DEF Sent, MessageOf
<1>5. \/ Finish(t, "refused")
      \/ Finish(t, "accepted") /\ Saved(t) /\ n = Len(To(t))
      \/ Continue(t) /\ Saved(t)
  BY Zenon DEF SaveEntry
<1>6. CASE u # t
  <2>1. \A p \in Places : outcome'[MessageOf(u, p)] = outcome[MessageOf(u, p)]
    BY <1>3, <1>6, MessageIDsOfAttempts
  <2>2. place'[u] = place[u] /\ session'[u] = session[u] /\ reply'[u] = reply[u]
    BY <1>0, <1>5, <1>6 DEF Finish, Continue, Goto, End, SmtpTypes
  <2>3. place[u] \in Places
    BY <1>0 DEF SmtpTypes
  <2> QED BY <1>0, <1>1, <1>4, <2>1, <2>2, <2>3, AttemptKept DEF SInv
<1>7. CASE u = t /\ Finish(t, "refused")
  <2>1. place'[t] = place[t] /\ session'[t] = "ended" /\ reply'[t] = "refused"
    BY <1>0, <1>7 DEF Finish, End, SmtpTypes
  <2> QED BY <1>0, <1>1, <1>4, <1>7, <2>1, AttemptKept DEF SInv
<1>8. CASE u = t /\ Saved(t)
  <2>1. outcome'[mid] = "accepted"
    BY <1>8 DEF Saved
  <2>2. /\ Sent(t, n) # Nil /\ Addressed(t, n)
        /\ ~LetterOf(t).blacklisted
        /\ reply[t] # "accepted"
        /\ \A p \in Places : p < n => Served(t, p)
        /\ \A p \in Places : p > n => Sent(t, p) = Nil
    BY <1>1 DEF SInv, AttemptInv
  <2>3. Served(t, n)'
    <3>1. Sent(t, n)' # Nil /\ Addressed(t, n)'
      BY <1>0, <1>1, <1>4, <2>2, ServedKept
    <3>2. MessageOf(t, n)' = mid
      BY DEF MessageOf
    <3> QED BY <2>1, <3>1, <3>2 DEF Served
  <2>4. \A p \in Places : p <= n => Served(t, p)'
    <3>1. \A p \in Places : p <= n => p < n \/ p = n
      BY DEF Places
    <3>2. \A p \in Places : p < n => Served(t, p)'
      BY <1>0, <1>1, <2>2, ServedKept
    <3> QED BY <2>3, <3>1, <3>2
  <2>5. /\ \A p \in Places : Sent(t, p)' # Nil => p <= n
        /\ \A p, q \in Places : p < q /\ q <= n => p <= n
        /\ \A p \in Places : p <= n \/ p >= n + 1
        /\ \A p \in Places : p < n + 1 => p <= n
        /\ \A p \in Places : p >= n + 1 => p > n
    <3>1. \A p \in Places : p <= n \/ p > n
      BY DEF Places
    <3>2. \A p \in Places : Sent(t, p)' # Nil => p <= n
      BY <1>4, <2>2, <3>1
    <3> QED BY <3>2 DEF Places
  <2>6. /\ \A p \in Places : Sent(t, p)' # Nil => Addressed(t, p)'
        /\ \A p, q \in Places : p < q /\ Sent(t, q)' # Nil => Served(t, p)'
    BY <2>4, <2>5 DEF Served
  <2>7. LetterOf(t)' = LetterOf(t) /\ To(t)' = To(t)
    BY <1>1 DEF LetterOf, To
  <2>8. CASE Finish(t, "accepted") /\ n = Len(To(t))
    <3>1. session'[t] = "ended" /\ reply'[t] = "accepted"
      BY <1>0, <2>8 DEF Finish, End, SmtpTypes
    <3>2. \A p \in 1..Len(To(t)) : Served(t, p)'
      BY <1>2, <2>4, <2>8
    <3> QED BY <1>8, <2>6, <2>7, <3>1, <3>2 DEF AttemptInv
  <2>9. CASE Continue(t)
    <3>1. session'[t] = "find" /\ reply'[t] = reply[t] /\ place'[t] = n + 1
      BY <1>0, <2>9 DEF Continue, Goto, SmtpTypes
    <3>2. \A p \in Places : p >= n + 1 => Sent(t, p)' = Nil
      BY <1>4, <2>2, <2>5
    <3>3. \A p \in Places : p < n + 1 => Served(t, p)'
      BY <2>4, <2>5
    <3> QED BY <1>8, <2>2, <2>6, <2>7, <3>1, <3>2, <3>3 DEF AttemptInv
  <2>10. CASE Finish(t, "refused")
    BY <1>7, <1>8, <2>10
  <2> QED BY <1>5, <2>8, <2>9, <2>10
<1> QED BY <1>5, <1>6, <1>7, <1>8

\* Everything else: no message is made, and no handler goes on.
LEMMA OtherStep ==
    ASSUME SInv, [Next]_vars, UNCHANGED <<letter, place, sent>>,
           \A t \in Attempts :
              \/ session'[t] = session[t] /\ reply'[t] = reply[t]
              \/ /\ session[t] \in {"rcpt", "find", "save"}
                 /\ session'[t] \in {"ended", "killed"}
                 /\ reply'[t] = reply[t],
           outcome' = outcome \/ \A t \in Attempts : session'[t] # "save",
           NEW u \in Attempts
    PROVE  AttemptInv(u)'
<1>1. session[u] \in {"rcpt", "find", "save"} => reply[u] # "accepted"
  BY DEF SInv, AttemptInv
<1>2. \A p \in Places : Sent(u, p)' = Sent(u, p)
  BY DEF Sent, MessageOf
<1> QED BY <1>1, <1>2, AttemptKept, TInvTypes DEF SInv

LEMMA AttemptStep == SInv /\ [Next]_vars /\ [SmtpNext]_allVars => \A u \in Attempts : AttemptInv(u)'
<1> SUFFICES ASSUME SInv, [Next]_vars, [SmtpNext]_allVars, NEW u \in Attempts
             PROVE  AttemptInv(u)'
  OBVIOUS
<1>0. SmtpTypes
  BY DEF SInv, TInv
<1>1. ASSUME NEW m \in Mails, MailFrom(m)
      PROVE  AttemptInv(u)'
  BY <1>1, MailFromStep
<1>2. ASSUME NEW m \in Mails, Receive(m)
      PROVE  AttemptInv(u)'
  BY <1>2, OtherStep DEF Receive, sessionVars, vars, clientVars
<1>3. ASSUME NEW m \in Mails, GiveUp(m)
      PROVE  AttemptInv(u)'
  <2>1. \A t \in Attempts : \/ session'[t] = session[t]
                            \/ session[t] = "rcpt" /\ session'[t] = "ended"
    BY <1>0, <1>3 DEF GiveUp, SmtpTypes
  <2> QED BY <1>3, <2>1, OtherStep DEF GiveUp, vars, clientVars
<1>4. ASSUME NEW t \in Attempts, Rcpt(t)
      PROVE  AttemptInv(u)'
  <2>1. UNCHANGED <<letter, place, sent, outcome, session, reply>>
    BY <1>4 DEF Rcpt, senderVars, vars, clientVars
  <2> QED BY <2>1, OtherStep
<1>5. ASSUME NEW t \in Attempts, Data(t)
      PROVE  AttemptInv(u)'
  BY <1>5, DataStep
<1>6. ASSUME NEW t \in Attempts, Find(t)
      PROVE  AttemptInv(u)'
  BY <1>6, FindStep
<1>7. ASSUME NEW t \in Attempts, SaveEntry(t)
      PROVE  AttemptInv(u)'
  BY <1>7, SaveEntryStep
<1>8. CASE \/ \E id \in InboxIDs : \E a \in Addresses : LaunchInbox(id, a)
           \/ \E id \in InboxIDs : SaveInbox(id) \/ RegisterRoute(id)
           \/ Surroundings
           \/ UNCHANGED allVars
  <2>1. UNCHANGED <<letter, place, session, reply, sent, outcome>>
    BY <1>8 DEF LaunchInbox, SaveInbox, RegisterRoute, Surroundings, allVars, smtpVars,
                senderVars, sessionVars, Launch, Save, Settle, Upkeep, Tick, vars, clientVars
  <2> QED BY <2>1, OtherStep
<1>9. CASE CrashAll
  <2>1. /\ UNCHANGED <<letter, place, reply, sent>>
        /\ \A t \in Attempts : session'[t] = IF session[t] \in Busy THEN "killed" ELSE session[t]
    BY <1>9 DEF CrashAll, Restart, senderVars
  <2> QED BY <2>1, OtherStep DEF Busy
<1> QED BY <1>1, <1>2, <1>3, <1>4, <1>5, <1>6, <1>7, <1>8, <1>9 DEF SmtpNext

LEMMA OwnedStep == SInv /\ [SmtpNext]_allVars => OwnedInv'
<1> SUFFICES ASSUME SInv, [SmtpNext]_allVars PROVE OwnedInv'
  OBVIOUS
<1>1. CASE sent' = sent
  BY <1>1 DEF SInv, OwnedInv, MessageOf
<1>2. ASSUME NEW t \in Attempts, Find(t)
      PROVE  OwnedInv'
  <2>1. PICK n \in Places : n = place[t]
    BY DEF SInv, TInv, SmtpTypes
  <2>2. \A k \in MessageIDs : k # MessageOf(t, n) => sent'[k] = sent[k]
    BY <1>2, <2>1 DEF Find, LookUp, vars, clientVars, SInv, CInv, TypeOK
  <2> QED BY <2>1, <2>2 DEF SInv, OwnedInv, MessageOf
<1>3. sent' = sent \/ \E t \in Attempts : Find(t)
  BY DEF SmtpNext, MailFrom, Receive, GiveUp, Rcpt, Data, SaveEntry, Deliver, LaunchInbox,
         Launch, SaveInbox, Save, RegisterRoute, Settle, Surroundings, Upkeep, Tick, CrashAll, Restart,
         allVars, vars, clientVars
<1> QED BY <1>1, <1>2, <1>3

-----------------------------------------------------------------------------
(* A handler's loop begins only for a sender with a recipient.             *)

\* What RCPT learned lasts, whatever becomes of the inbox.
LEMMA RecipientKept ==
    ASSUME CInv, [Next]_vars, letter' = letter, NEW t \in Attempts, HadRecipient(t)
    PROVE  HadRecipient(t)'
  BY Stable DEF HadRecipient, LetterOf

\* An address the database knows is that of an inbox someone created.
LEMMA ExistingAddress ==
    ASSUME CInv, IndexInv, NEW a \in Addresses, EmailAddressExists(a)
    PROVE  \E id \in InboxIDs : known[id] # Nil /\ SameAddress(known[id].Address, a)
<1>1. \A id \in InboxIDs : Stored(id) /\ Backend # "dynamo" =>
         known[id] # Nil /\ SameAddress(inboxes[id].Address, known[id].Address)
  BY RowAddress
<1>2. CASE Backend = "memory"
  BY <1>1, <1>2 DEF EmailAddressExists, Memory!EmailAddressExists, SameAddress, Stored
<1>3. CASE Backend = "sql"
  BY <1>1, <1>3
  DEF EmailAddressExists, SQL!EmailAddressExists, SQL!SameAddress, SameAddress, Stored
<1>4. CASE Backend = "dynamo"
  <2>1. PICK id \in InboxIDs : index[id] = a
    BY <1>4 DEF EmailAddressExists, Dynamo!EmailAddressExists
  <2> QED BY <2>1, NilAssumption DEF IndexInv, SameAddress
<1> QED BY <1>2, <1>3, <1>4, DatabaseAssumption

LEMMA RecipientStep ==
    ASSUME SInv, [Next]_vars, [SmtpNext]_allVars, NEW u \in Attempts
    PROVE  RecipientInv(u)'
<1>0. SmtpTypes /\ SmtpTypeOK /\ CInv /\ IndexInv /\ RecipientInv(u)
  BY TInvTypes DEF SInv, TInv
<1>1. letter' = letter
  BY DEF SmtpNext, MailFrom, Receive, GiveUp, Rcpt, Data, Find, SaveEntry, LaunchInbox,
         SaveInbox, RegisterRoute, Surroundings, CrashAll, allVars, smtpVars, senderVars
<1>2. HadRecipient(u) => HadRecipient(u)'
  BY <1>0, <1>1, RecipientKept
<1>3. accepted'[u] => accepted[u] \/ HadRecipient(u)
  <2>1. ASSUME NEW t \in Attempts, Rcpt(t)
        PROVE  accepted'[u] => accepted[u] \/ HadRecipient(u)
    <3> DEFINE k == asked[t] + 1
               a == LetterOf(t).rcpt[k]
    <3>1. /\ LetterOf(t).rcpt \in Seq(Addresses)
          /\ asked[t] \in Nat /\ asked[t] < Len(LetterOf(t).rcpt)
          /\ asked'[t] = k
      BY <1>0, <2>1, LetterTypes DEF Rcpt, SmtpTypes
    <3>2. k \in 1..Len(LetterOf(t).rcpt) /\ a \in Addresses
      BY <3>1
    <3>3. \/ EmailAddressExists(a) /\ accepted' = [accepted EXCEPT ![t] = TRUE]
          \/ accepted' = accepted
      BY <2>1, <3>1 DEF Rcpt
    <3>4. EmailAddressExists(a) => HadRecipient(t)
      BY <1>0, <3>2, ExistingAddress DEF HadRecipient
    <3>5. u # t => accepted'[u] = accepted[u]
      BY <1>0, <3>3 DEF SmtpTypes
    <3> QED BY <3>3, <3>4, <3>5
  <2>2. ASSUME NEW t \in Attempts, Forget(t)
        PROVE  accepted'[u] => accepted[u]
    BY <1>0, <2>2 DEF Forget, SmtpTypes
  <2>3. ASSUME NEW m \in Mails, GiveUp(m)
        PROVE  accepted'[u] => accepted[u]
    BY <1>0, <2>3 DEF GiveUp, Forget, SmtpTypes
  <2>4. \/ accepted' = accepted
        \/ \E t \in Attempts : Rcpt(t) \/ Forget(t)
        \/ \E m \in Mails : GiveUp(m)
    BY DEF SmtpNext, MailFrom, Receive, Data, Find, SaveEntry, LaunchInbox, SaveInbox,
           RegisterRoute, Surroundings, CrashAll, allVars, smtpVars, sessionVars
  <2> QED BY <2>1, <2>2, <2>3, <2>4
<1>4. session'[u] \in {"find", "save"} => session[u] \in {"find", "save"} \/ accepted[u]
  <2>1. ASSUME NEW t \in Attempts, Data(t)
        PROVE  session'[u] \in {"find", "save"} => session[u] \in {"find", "save"} \/ accepted[u]
    <3>1. session' = [session EXCEPT ![t] = "ended"] \/ accepted[t]
      BY <2>1 DEF Data, End
    <3>2. u # t => session'[u] = session[u]
      BY <1>0, <2>1 DEF Data, End, Goto, SmtpTypes
    <3> QED BY <1>0, <3>1, <3>2 DEF SmtpTypes
  <2>2. ASSUME NEW t \in Attempts, Find(t) \/ SaveEntry(t)
        PROVE  session'[u] \in {"find", "save"} => session[u] \in {"find", "save"}
    BY <1>0, <2>2 DEF Find, SaveEntry, Finish, Continue, End, Goto, SmtpTypes
  <2>3. ASSUME NEW m \in Mails, MailFrom(m) \/ GiveUp(m)
        PROVE  session'[u] \in {"find", "save"} => session[u] \in {"find", "save"}
    BY <1>0, <2>3 DEF MailFrom, GiveUp, End, Goto, SmtpTypes
  <2>4. CASE CrashAll
    BY <2>4 DEF CrashAll
  <2>5. \/ session' = session \/ CrashAll
        \/ \E t \in Attempts : Data(t) \/ Find(t) \/ SaveEntry(t)
        \/ \E m \in Mails : MailFrom(m) \/ GiveUp(m)
    BY DEF SmtpNext, Receive, Rcpt, LaunchInbox, SaveInbox, RegisterRoute, Surroundings,
           allVars, smtpVars, sessionVars
  <2> QED BY <2>1, <2>2, <2>3, <2>4, <2>5
<1>5. ASSUME NEW p \in Places, Sent(u, p)' # Nil
      PROVE  Sent(u, p) # Nil \/ session[u] = "find"
  <2>1. ASSUME NEW t \in Attempts, Find(t), t # u
        PROVE  Sent(u, p)' = Sent(u, p)
    <3>1. place[t] \in Places
      BY <1>0 DEF SmtpTypes
    <3>2. MessageOf(u, p) # MessageOf(t, place[t]) /\ MessageOf(u, p) \in MessageIDs
      BY <2>1, <3>1, MessageIDsOfAttempts
    <3>3. sent' = sent \/ \E id : LookUp(MessageOf(t, place[t]), id)
      BY <2>1 DEF Find, vars, clientVars
    <3>4. sent'[MessageOf(u, p)] = sent[MessageOf(u, p)]
      BY <1>0, <3>2, <3>3 DEF LookUp, CInv, TypeOK
    <3> QED BY <3>4 DEF Sent, MessageOf
  <2>2. sent' = sent \/ \E t \in Attempts : Find(t)
    BY DEF SmtpNext, MailFrom, Receive, GiveUp, Rcpt, Data, SaveEntry, Deliver, LaunchInbox,
           Launch, SaveInbox, Save, RegisterRoute, Settle, Surroundings, Upkeep, Tick, CrashAll, Restart,
           allVars, vars, clientVars
  <2>3. CASE sent' = sent
    BY <1>5, <2>3 DEF Sent, MessageOf
  <2>4. CASE Find(u)
    BY <2>4 DEF Find
  <2> QED BY <1>5, <2>1, <2>2, <2>3, <2>4
<1> QED BY <1>0, <1>2, <1>3, <1>4, <1>5 DEF RecipientInv

LEMMA SmtpStep == SInv /\ [SmtpNext]_allVars => SInv'
<1> SUFFICES ASSUME SInv, [SmtpNext]_allVars PROVE SInv'
  OBVIOUS
<1>1. [Next]_vars
  BY SmtpStepClient, TInvTypes DEF SInv
<1>2. CInv' /\ IndexInv'
  BY <1>1, ClientStep, IndexStep DEF SInv
<1>3. TInv'
  BY <1>2, SmtpTypeStep DEF SInv, CInv
<1> QED BY <1>1, <1>2, <1>3, AttemptStep, RecipientStep, OwnedStep DEF SInv

LEMMA SmtpInvariance == SmtpSpec => []SInv
  BY SmtpInitSInv, SmtpStep, PTL DEF SmtpSpec

-----------------------------------------------------------------------------
(* What it means.                                                          *)

\* Every variable keeps its type, and no handler runs past a To header's end.
THEOREM SmtpTypeCorrect == SmtpSpec => []SmtpTypeOK
<1>1. SInv => SmtpTypeOK
  BY TInvTypes DEF SInv
<1> QED BY <1>1, SmtpInvariance, PTL

\* A session is one way to use the database: under this load too each of the
\* three keeps the mail it accepted, and does only what the interface promises.
THEOREM SmtpKeepsContract ==
    SmtpSpec => []AcceptedMailIsKept /\ ImplementsContract
<1>1. SInv /\ [SmtpNext]_allVars => [Next]_vars
  BY SmtpStepClient, TInvTypes DEF SInv
<1>2. SInv => CInv /\ AcceptedMailIsKept
  BY KeptMail DEF SInv
<1>3. CInv /\ CInv' /\ [Next]_vars => [Contract!Next]_(Contract!vars)
  BY ContractStep
<1>4. SmtpInit => Contract!Init
  BY SmtpInitClient, ContractInit
<1> QED BY <1>1, <1>2, <1>3, <1>4, SmtpInvariance, PTL
    DEF SmtpSpec, ImplementsContract, Contract!Spec

\* A mail answered with "accepted" is in an inbox of every address it names
\* until that inbox expires.
THEOREM AnsweredServed == SmtpSpec => []AnsweredMailIsServed
<1>1. SInv => AnsweredMailIsServed
  <2> SUFFICES ASSUME SInv, NEW t \in Attempts, reply[t] = "accepted",
                      NEW p \in 1..Len(To(t))
               PROVE  LET m == sent[MessageOf(t, p)]
                      IN /\ m # Nil
                         /\ outcome[m.ID] \in {"accepted", "lost"}
                         /\ SameAddress(known[m.InboxID].Address, To(t)[p])
                         /\ now < known[m.InboxID].TTL /\ Durable => m \in Mail
    BY DEF AnsweredMailIsServed
  <2>1. p \in Places
    BY LetterTypes, TInvTypes DEF SInv
  <2>2. Served(t, p)
    BY DEF SInv, AttemptInv
  <2>3. MessageOf(t, p) \in MessageIDs
    BY <2>1, MessageIDsOfAttempts
  <2>4. sent[MessageOf(t, p)].ID = MessageOf(t, p)
    BY <2>2, <2>3 DEF SInv, CInv, SentInv, Served, Sent
  <2>5. AcceptedMailIsKept
    BY KeptMail DEF SInv
  <2> QED BY <2>2, <2>3, <2>4, <2>5 DEF Served, Addressed, Sent, AcceptedMailIsKept
<1> QED BY <1>1, SmtpInvariance, PTL

\* Mail lies only in inboxes its To header names, and a blacklisted sender's
\* nowhere.
THEOREM MailAddressed == SmtpSpec => []MailWasAddressed
<1>1. SInv => MailWasAddressed
  <2> SUFFICES ASSUME SInv, NEW m \in Mail
               PROVE  LET t == <<m.ID[1], m.ID[2]>>
                      IN /\ ~LetterOf(t).blacklisted
                         /\ Stored(m.InboxID) =>
                               SameAddress(inboxes[m.InboxID].Address, To(t)[m.ID[3]])
    BY DEF MailWasAddressed
  <2>1. PICK id \in InboxIDs : m \in messages[id]
    BY DEF Mail
  <2>2. m.InboxID = id /\ sent[m.ID] = m /\ m.ID \in MessageIDs /\ m # Nil
    BY <2>1, SentTypes, NilAssumption DEF SInv, CInv, MailInv
  <2>3. PICK t \in Attempts, p \in Places : m.ID = MessageOf(t, p)
    BY <2>2 DEF SInv, OwnedInv
  <2>4. Addressed(t, p)
    BY <2>2, <2>3 DEF SInv, AttemptInv, Sent
  <2>5. t = <<m.ID[1], m.ID[2]>> /\ p = m.ID[3]
    BY <2>3 DEF MessageOf, Attempts
  <2>6. Stored(id) => SameAddress(inboxes[id].Address, known[id].Address)
    BY <2>1, RowAddress DEF SInv, CInv, MailInv, Housed, Tied
  <2> QED BY <2>2, <2>3, <2>4, <2>5, <2>6 DEF Addressed, Sent, SameAddress
<1> QED BY <1>1, SmtpInvariance, PTL

\* A refused mail has reached the first of its addressees and no others.
THEOREM RefusedPrefix == SmtpSpec => []RefusedMailIsAPrefix
<1>1. SInv => RefusedMailIsAPrefix
  BY DEF SInv, AttemptInv, RefusedMailIsAPrefix, Served, Sent
<1> QED BY <1>1, SmtpInvariance, PTL

\* No mail is stored for a sender none of whose recipients was the program's.
THEOREM HadOneRecipient == SmtpSpec => []MailHadRecipient
<1>1. SInv => MailHadRecipient
  BY DEF SInv, RecipientInv, MailHadRecipient, Sent
<1> QED BY <1>1, SmtpInvariance, PTL
=============================================================================
