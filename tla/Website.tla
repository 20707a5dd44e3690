------------------------------ MODULE Website ------------------------------
(***************************************************************************)
(* A browser and its session cookie (burner/html.go, burner/cookieauth.go) *)
(* on top of InboxCreation.                                                *)
(*                                                                         *)
(* The program keeps no sessions: a browser's inbox is the id in a signed  *)
(* cookie, which responses set and delete.  One browser has one cookie and *)
(* several tabs; a request carries the cookie the browser has when it      *)
(* sends it, and what the response does to the cookie happens when it      *)
(* arrives, in whatever order responses arrive.                            *)
(*                                                                         *)
(* The pages under /edit, /delete and /messages only read, and have no     *)
(* action here.  Nor have clients of the JSON API: they keep no cookie.    *)
(***************************************************************************)
EXTENDS InboxCreation

CONSTANTS
    Tabs,
    CookieLife   \* MaxAge of the cookie: two seconds more than an inbox lives

ASSUME WebsiteAssumption == CookieLife \in Nat /\ CookieLife > Life

VARIABLES
    jar,      \* the inbox in the cookie, Nil without one
    made,     \* when the cookie of each inbox was made
    tab,      \* what each tab waits for
    about     \* the inbox its request is about

webVars == <<jar, made, tab, about>>
allVars == <<vars, webVars>>

\* "creating": GET / without a cookie or POST /edit.  "reading": GET / with a
\* cookie, "taken back" once its response deletes the cookie.  "deleting" and
\* "declining": POST /delete, by its field really-delete.
Waits == {"idle", "creating", "reading", "taken back", "deleting", "declining"}

WebTypeOK ==
    /\ TypeOK
    /\ jar \in InboxIDs \cup {Nil}
    /\ made \in [InboxIDs -> Nat]
    /\ tab \in [Tabs -> Waits]
    /\ about \in [Tabs -> InboxIDs \cup {Nil}]

WebInit ==
    /\ Init
    /\ jar = Nil
    /\ made = [id \in InboxIDs |-> 0]
    /\ tab = [t \in Tabs |-> "idle"]
    /\ about = [t \in Tabs |-> Nil]

\* The session a request would have: the browser drops a cookie when its time
\* is up, and the program does not accept it any longer.
Session == IF jar # Nil /\ now <= made[jar] + CookieLife THEN jar ELSE Nil

Wait(t, what, id) ==
    /\ tab' = [tab EXCEPT ![t] = what]
    /\ about' = [about EXCEPT ![t] = id]

-----------------------------------------------------------------------------
(* The browser's requests.                                                 *)

\* GET / creates an inbox for a browser without a session, POST /edit, behind
\* CheckSessionCookieExists, for one that has one.
Request(t, id, k, a) ==
    /\ tab[t] = "idle"
    /\ k = IF Session = Nil THEN "shown" ELSE "given"
    /\ CheckAddress(id, k, a)
    /\ Wait(t, "creating", id)
    /\ UNCHANGED <<jar, made>>

\* GET / with a session; the page asks for itself anew every 20 seconds.
Look(t) ==
    /\ tab[t] = "idle"
    /\ Session # Nil
    /\ Wait(t, "reading", Session)
    /\ UNCHANGED <<vars, jar, made>>

\* POST /delete with a value of really-delete that parses.
AskDelete(t, really) ==
    /\ tab[t] = "idle"
    /\ Session # Nil
    /\ Wait(t, IF really THEN "deleting" ELSE "declining", Session)
    /\ UNCHANGED <<vars, jar, made>>

\* The visitor stops loading: the response, if it comes, is not looked at.
Stop(t) ==
    /\ tab[t] # "idle"
    /\ Wait(t, "idle", Nil)
    /\ UNCHANGED <<vars, jar, made>>

-----------------------------------------------------------------------------
(* The handlers.                                                           *)

\* The responses of InboxCreation, whose cookie is made as they are sent.
Respond(id) ==
    /\ Answer(id) \/ Show(id)
    /\ made' = [made EXCEPT ![id] = now]
    /\ UNCHANGED <<jar, tab, about>>

\* Mutant: the page does not look for the mark.
ReadMarkIgnored(t) ==
    /\ tab[t] = "reading"
    /\ Wait(t, "idle", Nil)
    /\ UNCHANGED <<vars, jar, made>>

\* getInbox: a page or an error, with no word on the cookie, or an error that
\* takes the cookie back.
Read(t) ==
    /\ tab[t] = "reading"
    /\ \/ /\ GetInboxByIDFails(about[t]) \/ CallMayFail
          /\ Wait(t, "idle", Nil)
       \/ /\ ~GetInboxByIDFails(about[t])
          /\ IF GetInboxByID(about[t]).FailedToCreate
             THEN Wait(t, "taken back", about[t])
             ELSE Wait(t, "idle", Nil)
    /\ UNCHANGED <<vars, jar, made>>

-----------------------------------------------------------------------------
(* Responses arrive.                                                       *)

Arrives(t, cookie) ==
    /\ jar' = cookie
    /\ Wait(t, "idle", Nil)
    /\ UNCHANGED <<vars, made>>

\* A response that never comes leaves the cookie as it is.
CreationArrives(t) ==
    /\ tab[t] = "creating"
    /\ pc[about[t]] \in Ended
    /\ Arrives(t, CASE grant[about[t]] = "issued"  -> about[t]
                    [] grant[about[t]] = "revoked" -> Nil
                    [] grant[about[t]] = "none"    -> jar)

\* The cookie of that name is deleted, whatever inbox is in it by now.
RevocationArrives(t) ==
    /\ tab[t] = "taken back"
    /\ Arrives(t, Nil)

\* Mutant: the redirect of a declined deletion carries session.Delete as well.
DeletionArrivesAlways(t) ==
    /\ tab[t] \in {"deleting", "declining"}
    /\ Arrives(t, Nil)

\* ConfirmDeleteInbox deletes the session in both cases.  The redirect of a
\* declined deletion has been written by then, headers and all, so that what
\* session.Delete adds to them goes nowhere.
DeletionArrives(t) ==
    /\ tab[t] \in {"deleting", "declining"}
    /\ Arrives(t, IF tab[t] = "deleting" THEN Nil ELSE jar)

-----------------------------------------------------------------------------

\* The rest of InboxCreation's steps go on behind the browser's back.
Background ==
    /\ \/ \E id \in InboxIDs : Launch(id) \/ Save(id) \/ Settle(id) \/ Freeze(id)
       \/ CleanUp
       \/ Propagate
       \/ Restart
       \/ Tick
    /\ UNCHANGED webVars

WebNext ==
    \/ \E t \in Tabs :
         \/ \E id \in InboxIDs, k \in Kinds, a \in Addresses : Request(t, id, k, a)
         \/ Look(t)
         \/ \E really \in BOOLEAN : AskDelete(t, really)
         \/ Stop(t)
         \/ Read(t)
         \/ CreationArrives(t)
         \/ RevocationArrives(t)
         \/ DeletionArrives(t)
    \/ \E id \in InboxIDs : Respond(id)
    \/ Background

\* The response of a request of this tab that changed something.
Outcome(t) == CreationArrives(t) \/ DeletionArrives(t)

Serve == \E id \in InboxIDs : ((Launch(id) \/ Save(id)) /\ UNCHANGED webVars) \/ Respond(id)

\* Some tab is left open.  Its page reloads for as long as it has a session,
\* and not every reload of it is broken off.
WebSpec ==
    /\ WebInit /\ [][WebNext]_allVars
    /\ WF_allVars(Serve)
    /\ \E t \in Tabs : /\ WF_allVars(Outcome(t))
                       /\ SF_allVars(Look(t))
                       /\ SF_allVars(Read(t))
                       /\ SF_allVars(RevocationArrives(t))

-----------------------------------------------------------------------------

\* A session leads to its inbox for as long as the inbox lives, through edits,
\* deletions and responses that arrive late.
SessionHasInbox ==
    Session # Nil /\ now < inbox[Session].TTL /\ (Durable \/ restarts = 0) =>
        Stored(Session) /\ Session \in saved

\* A browser keeps its session until its time is up, unless the response that
\* arrives brings a new inbox, which is there, confirms the deletion the visitor
\* asked for, or is about an inbox of this browser that the email provider
\* refused: this one or, when the response is late, an earlier one.
SessionLeftForCause ==
    [][ jar # Nil /\ jar' # jar =>
          \E t \in Tabs :
             /\ tab[t] # "idle" /\ tab'[t] = "idle"
             /\ \/ tab[t] = "creating" /\ jar' = about[t] /\ jar' \in saved
                \/ tab[t] = "deleting" /\ jar' = Nil
                \/ answer[about[t]] = "error" /\ jar' = Nil ]_allVars

\* "This failure is picked up in the next request" (burner/email.go:33): a
\* browser whose inbox is marked as failed is rid of it in the end.
FailedSessionEnds ==
    \A id \in InboxIDs :
        (Session = id /\ Stored(id) /\ inboxes[id].FailedToCreate) ~>
            (Session # id \/ ~Stored(id))
=============================================================================
