---------------------------- MODULE MailgunMail ----------------------------
(***************************************************************************)
(* Mail coming in through Mailgun (email/mailgunmail), into a database     *)
(* that has the program's other load on it.                                *)
(*                                                                         *)
(* Each inbox is registered with Mailgun as a route, which names the       *)
(* inbox's address, its TTL and the URL of a webhook.  Mailgun posts a     *)
(* mail it has a route for to that URL, and posts it again when it is      *)
(* answered with an error or not in time; 200 and 406 are final.  A        *)
(* handler it no longer waits for goes on all the same.  Routes are        *)
(* Mailgun's: they outlive the process, and it is for an hourly loop of    *)
(* the program to delete the expired ones.                                 *)
(*                                                                         *)
(* The handlers are taken as mounted, as the tests mount them.  As it      *)
(* stands the program hands Start a router it has yet to make              *)
(* (burner/server.go:71 and 76) and does not come up with Mailgun at all.  *)
(***************************************************************************)
EXTENDS DatabaseClient

CONSTANTS
    Mails,      \* the mails that reach Mailgun
    MaxTries,   \* bound on the webhook's attempts
    PageSize,   \* routes asked for at a time: 1000
    MaxOthers   \* bound on the account's routes that are not the program's

Tries    == 1..MaxTries
Attempts == Mails \X Tries

ASSUME MailgunAssumption ==
    /\ MaxTries \in Nat \ {0}
    /\ PageSize \in Nat \ {0}
    /\ MaxOthers \in Nat
    /\ \A t \in Attempts : t \in MessageIDs

VARIABLES
    made,      \* what Mailgun answered to each inbox's CreateRoute
    routes,    \* the inboxes it has a route for
    others,    \* how many other routes the account has
    page,      \* the routes the loop has still to look at
    letter,    \* what each mail is, "none" before it is there
    box,       \* the inbox whose route it was matched with
    fate,      \* how Mailgun is getting on with it
    tries,     \* its attempts
    abandoned, \* the attempts it did not wait for the answer of
    webhook,   \* where the handler of an attempt is
    reply      \* its answer

routeVars   == <<made, routes, others, page>>
serviceVars == <<letter, box, fate, tries, abandoned>>
webhookVars == <<webhook, reply>>
allVars     == <<vars, routeVars, serviceVars, webhookVars>>

\* What the handler tells mails apart by.
Letters == {"good", "unsigned", "blacklisted", "from nobody", "unreadable"}
Busy    == {"begun", "found"}

MailgunTypeOK ==
    /\ TypeOK
    /\ made \in [InboxIDs -> {"none", "route", "error"}]
    /\ routes \in SUBSET InboxIDs
    /\ others \in 0..MaxOthers
    /\ page \in SUBSET InboxIDs
    /\ letter \in [Mails -> Letters \cup {"none"}]
    /\ box \in [Mails -> InboxIDs \cup {Nil}]
    /\ fate \in [Mails -> {"none", "queued", "posted", "over"}]
    /\ tries \in [Mails -> 0..MaxTries]
    /\ abandoned \in SUBSET Attempts
    /\ webhook \in [Attempts -> Busy \cup {"idle", "ended", "killed"}]
    /\ reply \in [Attempts -> {"none", "ok", "no thanks", "error"}]

MailgunInit ==
    /\ Init
    /\ made = [id \in InboxIDs |-> "none"]
    /\ routes = {}
    /\ others = 0
    /\ page = {}
    /\ letter = [m \in Mails |-> "none"]
    /\ box = [m \in Mails |-> Nil]
    /\ fate = [m \in Mails |-> "none"]
    /\ tries = [m \in Mails |-> 0]
    /\ abandoned = {}
    /\ webhook = [t \in Attempts |-> "idle"]
    /\ reply = [t \in Attempts |-> "none"]

-----------------------------------------------------------------------------
(* Routes.                                                                 *)

\* CreateRoute, whose error may come of a route that was made all the same.
CreateRoute(id) ==
    /\ known[id] # Nil
    /\ id \notin settled
    /\ made[id] = "none"
    /\ \/ made' = [made EXCEPT ![id] = "route"] /\ routes' = routes \cup {id}
       \/ /\ made' = [made EXCEPT ![id] = "error"]
          /\ \/ UNCHANGED routes
             \/ routes' = routes \cup {id}
    /\ UNCHANGED <<vars, others, page, serviceVars, webhookVars>>

\* RegisterRoute wraps the error it got into a new one, also when it got none:
\* what createRouteAndUpdate sees is always an error.
RegisterRoute(id) ==
    /\ made[id] # "none"
    /\ Settle(id, "error")
    /\ UNCHANGED <<routeVars, serviceVars, webhookVars>>

\* One call of deleteExpiredRoutes: GetRoutes answers with the first routes of
\* an order of its own.  The loop skips those that are not the program's, whose
\* description is no number.  An error leaves all for the next hour.
GetRoutes ==
    /\ page = {}
    /\ \E p \in SUBSET routes :
         /\ Cardinality(p) <= PageSize
         /\ p # routes => Cardinality(p) + others >= PageSize
         /\ page' = p
    /\ UNCHANGED <<vars, made, routes, others, serviceVars, webhookVars>>

Expiry(id) == known[id].TTL

\* Mutants: routes go a second early; only those due this very second go.
MayDeleteEarly(id)  == Expiry(id) <= now + 1
MayDeleteOnTime(id) == Expiry(id) = now

\* The TTL is the start of a second, time.Now() has nanoseconds: at equality
\* either may happen.
MayDelete(id) == Expiry(id) <= now

\* DeleteRoute's error is logged, and the loop goes on.
DeleteRoute(id) ==
    /\ id \in page
    /\ MayDelete(id)
    /\ page' = page \ {id}
    /\ routes' = routes \ {id}
    /\ UNCHANGED <<vars, made, others, serviceVars, webhookVars>>

PassRoute(id) ==
    /\ id \in page
    /\ page' = page \ {id}
    /\ UNCHANGED <<vars, made, routes, others, serviceVars, webhookVars>>

OtherRoutes(n) ==
    /\ others' = n
    /\ UNCHANGED <<vars, made, routes, page, serviceVars, webhookVars>>

-----------------------------------------------------------------------------
(* Mailgun's side of a mail.                                               *)

Arrive(m, id) ==
    /\ letter[m] = "none"
    /\ id \in routes
    /\ \E l \in Letters : letter' = [letter EXCEPT ![m] = l]
    /\ box' = [box EXCEPT ![m] = id]
    /\ fate' = [fate EXCEPT ![m] = "queued"]
    /\ UNCHANGED <<vars, routeVars, tries, abandoned, webhookVars>>

Post(m) ==
    /\ fate[m] = "queued"
    /\ tries[m] < MaxTries
    /\ fate' = [fate EXCEPT ![m] = "posted"]
    /\ tries' = [tries EXCEPT ![m] = @ + 1]
    /\ webhook' = [webhook EXCEPT ![<<m, tries'[m]>>] = "begun"]
    /\ UNCHANGED <<vars, routeVars, letter, box, abandoned, reply>>

Again(m) == fate' = [fate EXCEPT ![m] = IF tries[m] < MaxTries THEN "queued" ELSE "over"]

Hear(m) ==
    LET answer == reply[<<m, tries[m]>>]
    IN /\ fate[m] = "posted"
       /\ \/ answer \in {"ok", "no thanks"} /\ fate' = [fate EXCEPT ![m] = "over"]
          \/ answer = "error" /\ Again(m)
       /\ UNCHANGED <<vars, routeVars, letter, box, tries, abandoned, webhookVars>>

\* A timeout, or a connection that broke.
GiveUp(m) ==
    /\ fate[m] = "posted"
    /\ Again(m)
    /\ abandoned' = abandoned \cup {<<m, tries[m]>>}
    /\ UNCHANGED <<vars, routeVars, letter, box, tries, webhookVars>>

-----------------------------------------------------------------------------
(* mailgunIncoming.                                                        *)

End(t, answer) ==
    /\ webhook' = [webhook EXCEPT ![t] = "ended"]
    /\ reply' = [reply EXCEPT ![t] = answer]

\* Verification and blacklist come before anything is read.
Reject(t) ==
    /\ webhook[t] = "begun"
    /\ \/ letter[t[1]] = "unsigned" /\ End(t, "error")
       \/ letter[t[1]] = "blacklisted" /\ End(t, "no thanks")
    /\ UNCHANGED <<vars, routeVars, serviceVars>>

\* Mutants: an error of the read is answered with 200; it is not looked at,
\* and a message is made from the empty inbox that came with it.
FindErrorIgnored(t) ==
    /\ webhook[t] = "begun"
    /\ letter[t[1]] = "good"
    /\ \/ /\ LookUp(t, box[t[1]])
          /\ webhook' = [webhook EXCEPT ![t] = "found"]
          /\ UNCHANGED reply
       \/ /\ ~Stored(box[t[1]]) \/ CallMayFail
          /\ End(t, "ok")
          /\ UNCHANGED vars
    /\ UNCHANGED <<routeVars, serviceVars>>
FindUnchecked(t) ==
    /\ webhook[t] = "begun"
    /\ letter[t[1]] = "good"
    /\ sent' = [sent EXCEPT ![t] = [InboxID |-> IF Stored(box[t[1]]) THEN box[t[1]] ELSE Nil,
                                    ID |-> t, TTL |-> GetInboxByID(box[t[1]]).TTL]]
    /\ webhook' = [webhook EXCEPT ![t] = "found"]
    /\ UNCHANGED <<dbVars, now, known, saved, settled, outcome, reply, routeVars, serviceVars>>

\* GetInboxByID, then the sender's From, then the HTML.  The answer to a From
\* that does not parse is an implicit 200, that to HTML AddTargetBlank cannot
\* read is 500.  A mail for an item DynamoDB no longer has is answered with
\* 200: its empty inbox has an empty id, under which nothing is saved, and
\* errors of the save are not reported.
Find(t) ==
    LET id == box[t[1]]
    IN /\ webhook[t] = "begun"
       /\ letter[t[1]] \in {"good", "from nobody", "unreadable"}
       /\ \/ /\ GetInboxByIDFails(id) \/ CallMayFail \/ letter[t[1]] = "unreadable"
             /\ End(t, "error")
             /\ UNCHANGED vars
          \/ /\ ~GetInboxByIDFails(id)
             /\ letter[t[1]] = "from nobody" \/ (letter[t[1]] = "good" /\ ~Stored(id))
             /\ End(t, "ok")
             /\ UNCHANGED vars
          \/ /\ letter[t[1]] = "good"
             /\ LookUp(t, id)
             /\ webhook' = [webhook EXCEPT ![t] = "found"]
             /\ UNCHANGED reply
       /\ UNCHANGED <<routeVars, serviceVars>>

\* Mutant: an error of the save is answered with 500.
SaveErrorReported(t) ==
    /\ webhook[t] = "found"
    /\ Deliver(t)
    /\ End(t, IF outcome'[t] = "accepted" THEN "ok" ELSE "error")
    /\ UNCHANGED <<routeVars, serviceVars>>

\* SaveNewMessage, then 200 whatever it returned.
SaveMail(t) ==
    /\ webhook[t] = "found"
    /\ Deliver(t)
    /\ End(t, "ok")
    /\ UNCHANGED <<routeVars, serviceVars>>

-----------------------------------------------------------------------------
(* The rest of the program.                                                *)

LaunchInbox(id, a) == Launch(id, a) /\ UNCHANGED <<routeVars, serviceVars, webhookVars>>
SaveInbox(id) == Save(id) /\ UNCHANGED <<routeVars, serviceVars, webhookVars>>

\* Nothing here looks at DynamoDB's address index, which is left where it is.
Surroundings == (CleanUp \/ Tick) /\ UNCHANGED <<routeVars, serviceVars, webhookVars>>

\* The loop starts anew with the process; what a dead handler was asked is
\* asked again once Mailgun gives up on it.
Crash ==
    /\ Restart
    /\ page' = {}
    /\ webhook' = [t \in Attempts |-> IF webhook[t] \in Busy THEN "killed" ELSE webhook[t]]
    /\ UNCHANGED <<made, routes, others, serviceVars, reply>>

MailgunNext ==
    \/ \E id \in InboxIDs :
         \/ CreateRoute(id)
         \/ RegisterRoute(id)
         \/ DeleteRoute(id)
         \/ PassRoute(id)
         \/ \E a \in Addresses : LaunchInbox(id, a)
         \/ SaveInbox(id)
         \/ \E m \in Mails : Arrive(m, id)
    \/ GetRoutes
    \/ \E n \in 0..MaxOthers : OtherRoutes(n)
    \/ \E m \in Mails : Post(m) \/ Hear(m) \/ GiveUp(m)
    \/ \E t \in Attempts : Reject(t) \/ Find(t) \/ SaveMail(t)
    \/ Surroundings
    \/ Crash

\* The loop comes round every hour, and Mailgun does not fail every deletion
\* of a route for ever.
MailgunSpec ==
    /\ MailgunInit /\ [][MailgunNext]_allVars
    /\ WF_allVars(GetRoutes)
    /\ \A id \in InboxIDs : WF_allVars(PassRoute(id)) /\ SF_allVars(DeleteRoute(id))

-----------------------------------------------------------------------------

\* As long as an inbox lives, mail for it is forwarded: the loop deletes no
\* route before its inbox's TTL.
LiveRouteKept ==
    \A id \in InboxIDs : made[id] = "route" /\ now < Expiry(id) => id \in routes

Lies(t) == \E m \in Mail : m.ID = t

\* A mail lies in its inbox twice only if Mailgun had stopped waiting for the
\* earlier attempt: what it is asked for again by an answer was not stored by
\* the handler that gave the answer, even where a save that returned an error
\* had taken effect.
StoredTwiceOnlyIfAbandoned ==
    \A s, t \in Attempts :
        s[1] = t[1] /\ s[2] < t[2] /\ Lies(s) /\ Lies(t) => s \in abandoned

\* What Mailgun is told is dealt with has been handed to the database by then,
\* if its sender has a name and its inbox is there: only a save that returned
\* an error, or an inbox not saved yet or gone already, loses it.
DealtWithMailWasSaved ==
    [][\A t \in Attempts :
          /\ reply[t] # "ok" /\ reply'[t] = "ok"
          /\ letter[t[1]] # "from nobody"
          /\ Stored(box[t[1]])
          => outcome'[t] # "none"]_allVars

\* Only what Mailgun refused is marked as failed ("It creates an email route
\* and updates the db with the result", burner/email.go:32).
FailureIsTrue ==
    \A id \in InboxIDs : Stored(id) /\ inboxes[id].FailedToCreate => made[id] = "error"

\* The route of an expired inbox is deleted in the end, unless there come to
\* be more routes than one call of the loop gets to see.
ExpiredRouteDeleted ==
    \A id \in InboxIDs :
        (id \in routes /\ Expiry(id) < now) ~>
            (id \notin routes \/ Cardinality(routes) + others > PageSize)
=============================================================================
