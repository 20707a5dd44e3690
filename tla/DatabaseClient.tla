--------------------------- MODULE DatabaseClient ---------------------------
(***************************************************************************)
(* A database under the load the program puts on it, whichever             *)
(* implementation it is:                                                   *)
(*                                                                         *)
(*   - a request draws up an inbox under an id just drawn (burner/html.go, *)
(*     burner/json.go) and starts a goroutine that reports how the         *)
(*     registration went (burner/email.go).  The inbox is saved once and   *)
(*     reported once, and neither waits for the other: the report may come *)
(*     first, or after a save that failed, or when the inbox has expired;  *)
(*   - a mail looks its inbox up, takes the inbox's id and TTL, and is     *)
(*     saved by a second call (email/smtpmail, email/mailgunmail), between *)
(*     which anything may happen, the end of the inbox included;           *)
(*   - the clean-up, the clock and restarts of the process go on.  What a  *)
(*     process was at work on dies with it.                                *)
(*                                                                         *)
(* The specification is there to compare the three implementations with    *)
(* the contract they share.  What else a request does, and what it answers *)
(* its client, is InboxCreation's business.                                *)
(***************************************************************************)
EXTENDS Database

CONSTANTS
    Life,      \* how long an inbox lives: 24 hours
    MaxTime    \* bound on the clock

ASSUME ClientAssumption ==
    /\ Life \in Nat \ {0}
    /\ MaxTime \in Nat

VARIABLES
    known,     \* the inbox the program drew up under each id, Nil before
    saved,     \* the inboxes whose save was called, or will not be because
               \* the process that was to do it died
    settled,   \* the same of the update that reports their registration
    sent,      \* the message built under each message id, Nil before
    outcome    \* what became of the message: "accepted" or "failed" is what its
               \* SaveNewMessage returned, "lost" that it died with the process

clientVars == <<known, saved, settled, sent, outcome>>
vars == <<dbVars, now, clientVars>>

TypeOK ==
    /\ DBTypeOK
    /\ now \in Nat
    /\ known \in [InboxIDs -> Inbox \cup {Nil}]
    /\ saved \in SUBSET InboxIDs
    /\ settled \in SUBSET InboxIDs
    /\ sent \in [MessageIDs -> Message \cup {Nil}]
    /\ outcome \in [MessageIDs -> {"none", "accepted", "failed", "lost"}]

Init ==
    /\ DBInit
    /\ now = 0
    /\ known = [id \in InboxIDs |-> Nil]
    /\ saved = {}
    /\ settled = {}
    /\ sent = [mid \in MessageIDs |-> Nil]
    /\ outcome = [mid \in MessageIDs |-> "none"]

\* The inbox as the request draws it up, and hands a copy to the goroutine.
Launch(id, a) ==
    /\ known[id] = Nil
    /\ known' = [known EXCEPT ![id] = [NewInbox EXCEPT !.Address = a, !.TTL = now + Life]]
    /\ UNCHANGED <<dbVars, now, saved, settled, sent, outcome>>

Save(id) ==
    /\ known[id] # Nil
    /\ id \notin saved
    /\ saved' = saved \cup {id}
    /\ \E ok \in BOOLEAN : SaveNewInbox(id, known[id], ok)
    /\ UNCHANGED <<now, known, settled, sent, outcome>>

\* What createRouteAndUpdate does with the email provider's answer, whatever
\* has become of the row meanwhile.
Settle(id, answer) ==
    /\ known[id] # Nil
    /\ id \notin settled
    /\ settled' = settled \cup {id}
    /\ \E ok \in BOOLEAN :
         IF answer = "error"
         THEN SetInboxFailed(id, [known[id] EXCEPT !.FailedToCreate = TRUE], ok)
         ELSE SetInboxCreated(id, [known[id] EXCEPT !.EmailProviderRouteID = "route"], ok)
    /\ UNCHANGED <<now, known, saved, sent, outcome>>

\* GetInboxByAddress or GetInboxByID, and the message made from its answer:
\* of a fragment, a message whose TTL is 0.
LookUp(mid, id) ==
    /\ sent[mid] = Nil
    /\ Stored(id)
    /\ sent' = [sent EXCEPT ![mid] =
                   [InboxID |-> id, ID |-> mid, TTL |-> inboxes[id].TTL]]
    /\ UNCHANGED <<dbVars, now, known, saved, settled, outcome>>

Deliver(mid) ==
    /\ sent[mid] # Nil
    /\ outcome[mid] = "none"
    /\ \E ok \in BOOLEAN :
         /\ SaveNewMessage(sent[mid], ok)
         /\ outcome' = [outcome EXCEPT ![mid] = IF ok THEN "accepted" ELSE "failed"]
    /\ UNCHANGED <<now, known, saved, settled, sent>>

CleanUp == DeleteExpired /\ UNCHANGED <<now, clientVars>>

\* What a database does on its own.
Upkeep == (DeleteExpired \/ PropagateIndex) /\ UNCHANGED <<now, clientVars>>

Restart ==
    /\ RestartDB
    /\ outcome' = [mid \in MessageIDs |->
                      IF sent[mid] # Nil /\ (outcome[mid] = "none" \/ ~Durable)
                      THEN "lost" ELSE outcome[mid]]
    /\ saved' = saved \cup {id \in InboxIDs : known[id] # Nil}
    /\ settled' = settled \cup {id \in InboxIDs : known[id] # Nil}
    /\ UNCHANGED <<now, known, sent>>

Tick ==
    /\ now < MaxTime
    /\ now' = now + 1
    /\ UNCHANGED <<dbVars, clientVars>>

Next ==
    \/ \E id \in InboxIDs : \E a \in Addresses : Launch(id, a)
    \/ \E id \in InboxIDs : Save(id)
    \/ \E id \in InboxIDs : \E answer \in {"route", "error"} : Settle(id, answer)
    \/ \E mid \in MessageIDs : \E id \in InboxIDs : LookUp(mid, id)
    \/ \E mid \in MessageIDs : Deliver(mid)
    \/ Upkeep
    \/ Restart
    \/ Tick

\* The sweeps are started by a timer of their own and nothing holds them up.
Spec == Init /\ [][Next]_vars /\ WF_vars(CleanUp)

-----------------------------------------------------------------------------

Contract == INSTANCE DatabaseContract WITH asked <- known, boxes <- inboxes, mail <- Mail

\* Every implementation does only what the interface promises.
ImplementsContract == Contract!Spec

\* A mail the program was told is stored can be read until its inbox expires,
\* whatever other mail, save, registration or sweep comes along.
AcceptedMailIsKept ==
    \A mid \in MessageIDs :
        outcome[mid] = "accepted" /\ now < known[sent[mid].InboxID].TTL => sent[mid] \in Mail

\* Mail lies only in inboxes that are there, fragments not counted: a foreign
\* key, or one item for both, ties them together.
MailHasInbox ==
    \A m \in Mail : Stored(m.InboxID) /\ inboxes[m.InboxID].Address # Nil

\* Mail past its TTL is deleted in the end, even mail that came in after its
\* inbox was gone.
ExpiredMailDeleted ==
    \A mid \in MessageIDs :
        (\E m \in Mail : m.ID = mid /\ m.TTL < now) ~> (\A m \in Mail : m.ID # mid)
=============================================================================
