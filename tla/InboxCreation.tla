--------------------------- MODULE InboxCreation ---------------------------
(***************************************************************************)
(* The life of an inbox from the request that asks for it to the sweep     *)
(* that deletes it.                                                        *)
(*                                                                         *)
(* Three handlers create inboxes: GET / for a visitor without a session    *)
(* (a random address), POST /edit (an address the visitor chose) and the   *)
(* JSON API's GET /api/v2/inbox (random again).  All of them               *)
(*                                                                         *)
(*   1. ask the database whether the address is taken,                     *)
(*   2. draw an id, fix the TTL and start a goroutine that registers the   *)
(*      address with the email provider and writes down how that went,     *)
(*   3. save the inbox,                                                    *)
(*   4. make a credential for it: a session cookie or a signed token,      *)
(*   5. answer; on Lambda, only once the goroutine is done.  GET / also    *)
(*      reads the inbox back, and takes the cookie away again when the     *)
(*      registration is known to have failed.                              *)
(*                                                                         *)
(* Step 2's goroutine runs beside steps 3 to 5, requests run beside each   *)
(* other, and the sweeps, the clock and crashes of the process run beside  *)
(* them all.  An id names a request, its goroutine and its inbox: it is    *)
(* drawn for that request alone.                                           *)
(***************************************************************************)
EXTENDS Database

CONSTANTS
    UsingLambda,   \* cfg.UsingLambda
    RouteAnswers,  \* what the email provider's RegisterRoute can answer
    Life,          \* how long an inbox lives: 24 hours
    MaxTime,       \* bound on the clock
    MaxRestarts    \* bound on the crashes of the process

ASSUME CreationAssumption ==
    /\ UsingLambda \in BOOLEAN
    /\ RouteAnswers \subseteq {"route", "error"}
    /\ Life \in Nat \ {0}
    /\ MaxTime \in Nat
    /\ MaxRestarts \in Nat

VARIABLES
    pc,        \* where the handler of each request is
    kind,      \* which handler it is
    inbox,     \* the handler's variable i; the goroutine has a copy of it
    task,      \* the goroutine createRouteAndUpdate
    answer,    \* what RegisterRoute returned to it
    grant,     \* what the browser or API client holds
    saved,     \* history: the inboxes SaveNewInbox wrote
    restarts

requestVars == <<pc, kind, inbox, grant>>
taskVars    == <<task, answer>>
vars == <<dbVars, now, requestVars, taskVars, saved, restarts>>

\* "shown": GET /, which ends by showing the new inbox.  "given": POST /edit
\* and the JSON API, which after the save do nothing that depends on the row.
Kinds == {"shown", "given"}

\* "created" and "refused" are answers that were sent, "killed" is a request
\* that died with the process.
Ended == {"created", "refused", "killed"}
Steps == {"idle", "checked", "launched", "saved"} \cup Ended

InFlight(id) == pc[id] \notin {"idle"} \cup Ended
Working(id)  == InFlight(id) \/ task[id] = "running"

TypeOK ==
    /\ DBTypeOK
    /\ now \in Nat
    /\ pc \in [InboxIDs -> Steps]
    /\ kind \in [InboxIDs -> Kinds]
    /\ inbox \in [InboxIDs -> Inbox]
    /\ task \in [InboxIDs -> {"none", "running", "done", "killed"}]
    /\ answer \in [InboxIDs -> {"none", "route", "error"}]
    /\ grant \in [InboxIDs -> {"none", "issued", "revoked"}]
    /\ saved \in SUBSET InboxIDs
    /\ restarts \in 0..MaxRestarts

Init ==
    /\ DBInit
    /\ now = 0
    /\ pc = [id \in InboxIDs |-> "idle"]
    /\ kind = [id \in InboxIDs |-> "given"]
    /\ inbox = [id \in InboxIDs |-> NewInbox]
    /\ task = [id \in InboxIDs |-> "none"]
    /\ answer = [id \in InboxIDs |-> "none"]
    /\ grant = [id \in InboxIDs |-> "none"]
    /\ saved = {}
    /\ restarts = 0

Goto(id, step) == pc' = [pc EXCEPT ![id] = step]

-----------------------------------------------------------------------------
(* The handlers.                                                           *)

\* Both generators can come up with any address of the configured hosts.
CheckAddress(id, k, a) ==
    /\ pc[id] = "idle"
    /\ kind' = [kind EXCEPT ![id] = k]
    /\ inbox' = [inbox EXCEPT ![id] = [NewInbox EXCEPT !.Address = a]]
    /\ \/ ~EmailAddressExists(a) /\ Goto(id, "checked")
       \/ (EmailAddressExists(a) \/ CallMayFail) /\ Goto(id, "refused")
    /\ UNCHANGED <<dbVars, now, grant, taskVars, saved, restarts>>

Launch(id) ==
    /\ pc[id] = "checked"
    /\ inbox' = [inbox EXCEPT ![id].TTL = now + Life]
    /\ task' = [task EXCEPT ![id] = "running"]
    /\ Goto(id, "launched")
    /\ UNCHANGED <<dbVars, now, kind, grant, answer, saved, restarts>>

\* Mutant: the error of the save is logged and the handler goes on.
SaveErrorIgnored(id) ==
    /\ pc[id] = "launched"
    /\ \E ok \in BOOLEAN : SaveNewInbox(id, inbox[id], ok)
    /\ Goto(id, "saved")
    /\ saved' = IF inboxes' = inboxes THEN saved ELSE saved \cup {id}
    /\ UNCHANGED <<now, kind, inbox, grant, taskVars, restarts>>

\* A failed save ends the request, on Lambda too: nobody waits for the
\* goroutine then.
Save(id) ==
    /\ pc[id] = "launched"
    /\ \E ok \in BOOLEAN :
         /\ SaveNewInbox(id, inbox[id], ok)
         /\ Goto(id, IF ok THEN "saved" ELSE "refused")
    /\ saved' = IF inboxes' = inboxes THEN saved ELSE saved \cup {id}
    /\ UNCHANGED <<now, kind, inbox, grant, taskVars, restarts>>

\* Mutant: nobody waits for the goroutine.
MayAnswerAtOnce(id) == pc[id] = "saved"

\* session.SetInboxID or notariser.Sign, neither of which fails with a key the
\* program starts with, then wg.Wait.  A cookie is only a header of the
\* response until that is sent.
MayAnswer(id) ==
    /\ pc[id] = "saved"
    /\ UsingLambda => task[id] # "running"

Send(id, step, credential) ==
    /\ Goto(id, step)
    /\ grant' = [grant EXCEPT ![id] = credential]
    /\ UNCHANGED <<dbVars, now, kind, inbox, taskVars, saved, restarts>>

\* POST /edit redirects, the JSON API hands out the inbox it made up.
Answer(id) ==
    /\ kind[id] = "given"
    /\ MayAnswer(id)
    /\ Send(id, "created", "issued")

\* Mutant: an inbox not yet registered passes for one that failed.
ShowImpatiently(id) ==
    /\ kind[id] = "shown"
    /\ MayAnswer(id)
    /\ Stored(id)
    /\ IF GetInboxByID(id).EmailProviderRouteID = "-"
       THEN Send(id, "refused", "revoked")
       ELSE Send(id, "created", "issued")

\* GET / goes on to getInbox.  An error of a read is answered by an error
\* page, whose headers hold the cookie all the same.
Show(id) ==
    /\ kind[id] = "shown"
    /\ MayAnswer(id)
    /\ \/ /\ GetInboxByIDFails(id) \/ CallMayFail
          /\ Send(id, "refused", "issued")
       \/ /\ ~GetInboxByIDFails(id)
          /\ IF GetInboxByID(id).FailedToCreate
             THEN Send(id, "refused", "revoked")
             ELSE Send(id, "created", "issued")

-----------------------------------------------------------------------------
(* The goroutine createRouteAndUpdate.                                     *)

Register(id) ==
    /\ task[id] = "running"
    /\ answer[id] = "none"
    /\ \E r \in RouteAnswers : answer' = [answer EXCEPT ![id] = r]
    /\ UNCHANGED <<dbVars, now, requestVars, task, saved, restarts>>

\* Mutants: wg.Done is forgotten when the registration fails; a failed
\* registration is tried again after it was written down.
UpdateForgetsDone(id) ==
    /\ task[id] = "running"
    /\ answer[id] = "route"
    /\ \E ok \in BOOLEAN :
         SetInboxCreated(id, [inbox[id] EXCEPT !.EmailProviderRouteID = "route"], ok)
    /\ task' = [task EXCEPT ![id] = "done"]
    /\ UNCHANGED <<now, requestVars, answer, saved, restarts>>
UpdateRetries(id) ==
    \/ UpdateForgetsDone(id)
    \/ /\ task[id] = "running"
       /\ answer[id] = "error"
       /\ \E ok \in BOOLEAN : SetInboxFailed(id, inbox[id], ok)
       /\ answer' = [answer EXCEPT ![id] = "none"]
       /\ UNCHANGED <<now, requestVars, task, saved, restarts>>

\* An error of this call is logged and forgotten.
Update(id) ==
    /\ task[id] = "running"
    /\ answer[id] # "none"
    /\ \E ok \in BOOLEAN :
         IF answer[id] = "error"
         THEN SetInboxFailed(id, [inbox[id] EXCEPT !.FailedToCreate = TRUE], ok)
         ELSE SetInboxCreated(id, [inbox[id] EXCEPT !.EmailProviderRouteID = "route"], ok)
    /\ task' = [task EXCEPT ![id] = "done"]
    /\ UNCHANGED <<now, requestVars, answer, saved, restarts>>

-----------------------------------------------------------------------------
(* The surroundings.                                                       *)

\* Lambda suspends the process between requests, and may never resume it.
Freeze(id) ==
    /\ UsingLambda
    /\ pc[id] \in Ended
    /\ task[id] = "running"
    /\ task' = [task EXCEPT ![id] = "killed"]
    /\ UNCHANGED <<dbVars, now, requestVars, answer, saved, restarts>>

CleanUp ==
    /\ DeleteExpired
    /\ UNCHANGED <<now, requestVars, taskVars, saved, restarts>>

Propagate ==
    /\ PropagateIndex
    /\ UNCHANGED <<now, requestVars, taskVars, saved, restarts>>

Restart ==
    /\ restarts < MaxRestarts
    /\ restarts' = restarts + 1
    /\ RestartDB
    /\ pc' = [id \in InboxIDs |-> IF InFlight(id) THEN "killed" ELSE pc[id]]
    /\ task' = [id \in InboxIDs |-> IF task[id] = "running" THEN "killed" ELSE task[id]]
    /\ UNCHANGED <<now, kind, inbox, grant, answer, saved>>

\* Requests and registrations take seconds, an inbox lives for a day: the
\* clock does not reach the TTL of an inbox that is still being made.
Tick ==
    /\ now < MaxTime
    /\ \A id \in InboxIDs : Working(id) /\ pc[id] # "checked" => now + 1 < inbox[id].TTL
    /\ now' = now + 1
    /\ UNCHANGED <<dbVars, requestVars, taskVars, saved, restarts>>

Handle(id) ==
    Launch(id) \/ Save(id) \/ Answer(id) \/ Show(id)
Settle(id) == Register(id) \/ Update(id)

Next ==
    \/ \E id \in InboxIDs :
         \/ \E k \in Kinds, a \in Addresses : CheckAddress(id, k, a)
         \/ Handle(id)
         \/ Settle(id)
         \/ Freeze(id)
    \/ CleanUp
    \/ Propagate
    \/ Restart
    \/ Tick

\* A goroutine that can run does run in the end, the email provider and the
\* database answer in the end, one way or the other, and the sweeps are
\* started by a timer of their own.
Fairness ==
    /\ \A id \in InboxIDs : WF_vars(Handle(id)) /\ WF_vars(Settle(id))
    /\ WF_vars(CleanUp)

Spec == Init /\ [][Next]_vars /\ Fairness

-----------------------------------------------------------------------------
(* What a user can rely on.                                                *)

\* A browser or API client that holds an inbox's cookie or token can reach
\* the inbox for the whole of its life: the row is there, under the address
\* and with the TTL the handler made up.  Nothing is promised of a store that
\* died with its process.
CredentialHasInbox ==
    \A id \in InboxIDs :
        grant[id] = "issued" /\ now < inbox[id].TTL /\ (Durable \/ restarts = 0) =>
            /\ Stored(id)
            /\ inboxes[id].TTL = inbox[id].TTL
            /\ SameAddress(inboxes[id].Address, inbox[id].Address)

\* An inbox is only marked as failed when the email provider refused it, and
\* only carries a route the provider gave: marks do not mix, whichever of the
\* handler, the goroutine and a sweep comes last.
MarksAreTrue ==
    \A id \in InboxIDs : Stored(id) =>
        /\ inboxes[id].FailedToCreate => answer[id] = "error"
        /\ inboxes[id].EmailProviderRouteID = "route" => answer[id] = "route"

\* A visitor's cookie is only taken away again for an inbox the provider
\* refused (burner/html.go:39-50).
RevokedOnlyIfFailed ==
    \A id \in InboxIDs : grant[id] = "revoked" => answer[id] = "error"

\* Every row of a request that is over was put there by its save: the
\* goroutine alone leaves none behind.
NoStrayRow ==
    \A id \in InboxIDs : pc[id] \in Ended /\ Stored(id) => id \in saved

\* On Lambda an inbox is only handed out once its registration has run its
\* course (burner/html.go:151-154).
LambdaWaits ==
    UsingLambda => \A id \in InboxIDs : pc[id] = "created" => task[id] = "done"

\* No two inboxes have the same address (emailgenerator/generateemail.go:39
\* and 53: "It is the callers responsibility to check for uniqueness"; the
\* three handlers do, before they save).
AddressUnique ==
    \A i, j \in saved :
        Stored(i) /\ Stored(j) /\ SameAddress(inboxes[i].Address, inboxes[j].Address)
        => i = j

\* "Otherwise it fails silently and this failure is picked up in the next
\* request" (burner/email.go:33): once the goroutine of a saved inbox is done,
\* a registration the provider refused shows in the row the next request reads.
FailurePickedUp ==
    \A id \in InboxIDs :
        /\ pc[id] = "created"
        /\ task[id] = "done"
        /\ answer[id] = "error"
        /\ Stored(id)
        => inboxes[id].FailedToCreate

-----------------------------------------------------------------------------
(* The life of an inbox.                                                   *)

Marked(id)  == Stored(id) /\ inboxes[id].FailedToCreate
Routed(id)  == Stored(id) /\ inboxes[id].EmailProviderRouteID = "route"

Status(id) ==
    CASE id \notin saved                 -> "none"
      [] id \in saved /\ ~Stored(id)     -> "gone"
      [] id \in saved /\ Marked(id)      -> "failed"
      [] id \in saved /\ Stored(id) /\ ~Marked(id) ->
            IF Routed(id) THEN "ready" ELSE "pending"

Lifecycle == INSTANCE InboxLifecycle WITH
    status <- [id \in InboxIDs |-> Status(id)],
    expiry <- [id \in InboxIDs |-> inbox[id].TTL]

\* The requests, goroutines, sweeps and crashes together move each inbox
\* through its life and never back.
ImplementsLifecycle == Lifecycle!Spec

-----------------------------------------------------------------------------
(* What must happen.                                                       *)

\* Every request is answered, on Lambda too, unless the process dies on it.
RequestsAnswered == \A id \in InboxIDs : InFlight(id) ~> pc[id] \in Ended

\* An inbox past its TTL is deleted in the end.
ExpiredInboxDeleted ==
    \A id \in InboxIDs :
        (Stored(id) /\ id \in saved /\ inbox[id].TTL < now) ~> ~Stored(id)
=============================================================================
