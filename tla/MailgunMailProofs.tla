------------------------- MODULE MailgunMailProofs --------------------------
(***************************************************************************)
(* What Mailgun can rely on, and what the program's clean-up of its routes *)
(* never does, for any number of inboxes, mails and attempts, any page     *)
(* size and each of the three databases.                                   *)
(*                                                                         *)
(* As with SMTP, every step is one of DatabaseClient's or leaves its       *)
(* variables alone.  HookInv says how far the handler of an attempt can be *)
(* by what it has answered, ServiceInv that a mail's inbox is one that was *)
(* drawn up, PostedInv that Mailgun goes on to another attempt of a mail   *)
(* only when it heard an error or stopped waiting.                         *)
(***************************************************************************)
EXTENDS MailgunMail, DatabaseClientProofs

\* A route the program asked for is there until its inbox's time is up.
RouteInv(id) ==
    /\ made[id] # "none" => known[id] # Nil
    /\ id \in routes => known[id] # Nil
    /\ made[id] = "route" /\ now < Expiry(id) => id \in routes

ServiceInv(m) ==
    /\ letter[m] = "none" => fate[m] = "none" /\ tries[m] = 0
    /\ letter[m] # "none" => box[m] \in InboxIDs /\ known[box[m]] # Nil
    /\ fate[m] = "posted" => tries[m] # 0

HookInv(t) ==
    /\ t[2] > tries[t[1]] => webhook[t] = "idle"
    /\ webhook[t] \in {"idle", "begun"} => sent[t] = Nil
    /\ webhook[t] \in {"idle", "begun", "found"} => reply[t] = "none"
    /\ reply[t] = "error" => sent[t] = Nil

PostedInv(t) ==
    \/ t[2] < tries[t[1]]
    \/ t[2] = tries[t[1]] /\ fate[t[1]] = "queued"
    => t \in abandoned \/ reply[t] = "error"

GInv ==
    /\ MailgunTypeOK
    /\ CInv
    /\ \A id \in InboxIDs : RouteInv(id)
    /\ \A m \in Mails : ServiceInv(m)
    /\ \A t \in Attempts : HookInv(t) /\ PostedInv(t)

LEMMA AttemptTypes ==
    \A t \in Attempts : /\ t \in MessageIDs
                        /\ t = <<t[1], t[2]>>
                        /\ t[1] \in Mails
                        /\ t[2] \in Tries
  BY MailgunAssumption DEF Attempts

-----------------------------------------------------------------------------
(* Every step is one of DatabaseClient's, or none.                         *)

LEMMA MailgunInitClient == MailgunInit => Init
  BY DEF MailgunInit

LEMMA MailgunStepClient == GInv /\ [MailgunNext]_allVars => [Next]_vars
<1> SUFFICES ASSUME GInv, [MailgunNext]_allVars PROVE [Next]_vars
  OBVIOUS
<1>1. ASSUME NEW id \in InboxIDs,
             \/ CreateRoute(id) \/ DeleteRoute(id) \/ PassRoute(id)
             \/ \E m \in Mails : Arrive(m, id)
      PROVE  [Next]_vars
  BY <1>1 DEF CreateRoute, DeleteRoute, PassRoute, Arrive
<1>2. ASSUME NEW id \in InboxIDs, RegisterRoute(id)
      PROVE  [Next]_vars
  BY <1>2 DEF RegisterRoute, Next
<1>3. ASSUME NEW id \in InboxIDs, SaveInbox(id) \/ \E a \in Addresses : LaunchInbox(id, a)
      PROVE  [Next]_vars
  BY <1>3 DEF SaveInbox, LaunchInbox, Next
<1>4. CASE GetRoutes \/ \E n \in 0..MaxOthers : OtherRoutes(n)
  BY <1>4 DEF GetRoutes, OtherRoutes
<1>5. ASSUME NEW m \in Mails, Post(m) \/ Hear(m) \/ GiveUp(m)
      PROVE  [Next]_vars
  BY <1>5 DEF Post, Hear, GiveUp
<1>6. ASSUME NEW t \in Attempts, Reject(t)
      PROVE  [Next]_vars
  BY <1>6 DEF Reject
<1>7. ASSUME NEW t \in Attempts, Find(t)
      PROVE  [Next]_vars
  <2>1. LookUp(t, box[t[1]]) => box[t[1]] \in InboxIDs
    <3>1. t[1] \in Mails /\ t[2] > 0
      BY AttemptTypes, MailgunAssumption DEF Tries
    <3>2. letter[t[1]] = "none" => webhook[t] = "idle"
      BY <3>1 DEF GInv, HookInv, ServiceInv
    <3> QED BY <1>7, <3>1, <3>2 DEF Find, GInv, ServiceInv
  <2> QED BY <1>7, <2>1, AttemptTypes DEF Find, Next
<1>8. ASSUME NEW t \in Attempts, SaveMail(t)
      PROVE  [Next]_vars
  BY <1>8, AttemptTypes DEF SaveMail, Next
<1>9. CASE Surroundings
  BY <1>9 DEF Surroundings, CleanUp, Next, Upkeep
<1>10. CASE Crash
  BY <1>10 DEF Crash, Next
<1>11. CASE UNCHANGED allVars
  BY <1>11 DEF allVars
<1> QED BY <1>1, <1>2, <1>3, <1>4, <1>5, <1>6, <1>7, <1>8, <1>9, <1>10, <1>11 DEF MailgunNext

-----------------------------------------------------------------------------
(* Types.                                                                  *)

LEMMA MailgunTypeInit == MailgunInit => MailgunTypeOK
<1> SUFFICES ASSUME MailgunInit PROVE MailgunTypeOK
  OBVIOUS
<1>1. TypeOK
  BY ClientInit, MailgunInitClient DEF CInv
<1> QED BY <1>1, MailgunAssumption DEF MailgunInit, MailgunTypeOK, Busy, Letters

LEMMA OneMore ==
    ASSUME tries \in [Mails -> 0..MaxTries], NEW m \in Mails, tries[m] < MaxTries
    PROVE  tries[m] + 1 \in 1..MaxTries /\ tries[m] + 1 \in 0..MaxTries
<1>1. tries[m] \in 0..MaxTries /\ MaxTries \in Nat
  BY MailgunAssumption
<1> QED BY <1>1

LEMMA Posted ==
    ASSUME GInv, NEW m \in Mails, fate[m] = "posted"
    PROVE  <<m, tries[m]>> \in Attempts
<1>1. tries[m] \in 0..MaxTries /\ tries[m] # 0
  BY DEF GInv, MailgunTypeOK, ServiceInv
<1> QED BY <1>1, MailgunAssumption DEF Attempts, Tries

LEMMA MailgunTypeStep == GInv /\ TypeOK' /\ [MailgunNext]_allVars => MailgunTypeOK'
<1> SUFFICES ASSUME GInv, MailgunTypeOK, TypeOK', [MailgunNext]_allVars PROVE MailgunTypeOK'
  BY DEF GInv
<1> USE DEF MailgunTypeOK
<1>1. ASSUME NEW id \in InboxIDs, CreateRoute(id)
      PROVE  MailgunTypeOK'
  BY <1>1 DEF CreateRoute, serviceVars, webhookVars
<1>2. ASSUME NEW id \in InboxIDs, DeleteRoute(id) \/ PassRoute(id)
      PROVE  MailgunTypeOK'
  BY <1>2 DEF DeleteRoute, PassRoute, serviceVars, webhookVars
<1>3. ASSUME NEW id \in InboxIDs, NEW m \in Mails, Arrive(m, id)
      PROVE  MailgunTypeOK'
  BY <1>3 DEF Arrive, routeVars, webhookVars
<1>4. CASE GetRoutes \/ \E n \in 0..MaxOthers : OtherRoutes(n)
  BY <1>4 DEF GetRoutes, OtherRoutes, serviceVars, webhookVars
<1>5. ASSUME NEW m \in Mails, Post(m)
      PROVE  MailgunTypeOK'
  <2>1. tries[m] + 1 \in 0..MaxTries
    BY <1>5, OneMore DEF Post
  <2> QED BY <1>5, <2>1 DEF Post, routeVars, Busy
<1>6. ASSUME NEW m \in Mails, Hear(m) \/ GiveUp(m)
      PROVE  MailgunTypeOK'
  <2>1. fate[m] = "posted" /\ fate' \in [Mails -> {"none", "queued", "posted", "over"}]
    BY <1>6 DEF Hear, GiveUp, Again
  <2>2. GiveUp(m) => <<m, tries[m]>> \in Attempts
    BY <2>1, Posted DEF GInv
  <2> QED BY <1>6, <2>1, <2>2 DEF Hear, GiveUp, routeVars, webhookVars
<1>7. ASSUME NEW t \in Attempts, Reject(t) \/ Find(t) \/ SaveMail(t)
      PROVE  MailgunTypeOK'
  <2>1. UNCHANGED <<routeVars, serviceVars>>
    BY <1>7 DEF Reject, Find, SaveMail
  <2>2. \/ \E answer \in {"ok", "no thanks", "error"} : End(t, answer)
        \/ webhook' = [webhook EXCEPT ![t] = "found"] /\ reply' = reply
    BY <1>7, Zenon DEF Reject, Find, SaveMail
  <2>3. /\ webhook' \in [Attempts -> Busy \cup {"idle", "ended", "killed"}]
        /\ reply' \in [Attempts -> {"none", "ok", "no thanks", "error"}]
    <3>1. CASE webhook' = [webhook EXCEPT ![t] = "found"] /\ reply' = reply
      BY <3>1 DEF Busy
    <3>2. ASSUME NEW answer \in {"ok", "no thanks", "error"}, End(t, answer)
          PROVE  /\ webhook' \in [Attempts -> Busy \cup {"idle", "ended", "killed"}]
                 /\ reply' \in [Attempts -> {"none", "ok", "no thanks", "error"}]
      BY <3>2 DEF End, Busy
    <3> QED BY <2>2, <3>1, <3>2
  <2> QED BY <2>1, <2>3 DEF routeVars, serviceVars
<1>8. CASE UNCHANGED <<routeVars, serviceVars, webhookVars>>
  BY <1>8 DEF routeVars, serviceVars, webhookVars
<1>9. CASE Crash
  BY <1>9 DEF Crash, serviceVars, Busy
<1> QED BY <1>1, <1>2, <1>3, <1>4, <1>5, <1>6, <1>7, <1>8, <1>9
    DEF MailgunNext, RegisterRoute, LaunchInbox, SaveInbox, Surroundings, allVars

-----------------------------------------------------------------------------
(* What the steps of DatabaseClient leave alone.                           *)

\* What is drawn up, and a message once made or dealt with, stays what it is.
LEMMA Lasting ==
    ASSUME CInv, [Next]_vars
    PROVE  /\ \A id \in InboxIDs : known[id] # Nil => known'[id] = known[id]
           /\ \A mid \in MessageIDs : sent[mid] # Nil => sent'[mid] = sent[mid]
           /\ now \in Nat /\ now' \in Nat /\ now <= now'
<1>0. TypeOK
  BY DEF CInv
<1>1. \A id \in InboxIDs : known[id] # Nil => known'[id] = known[id]
  BY <1>0 DEF Next, Launch, Save, Settle, LookUp, Deliver, Upkeep, Restart, Tick, vars,
              clientVars, TypeOK
<1>2. \A mid \in MessageIDs : sent[mid] # Nil => sent'[mid] = sent[mid]
  BY <1>0 DEF Next, Launch, Save, Settle, LookUp, Deliver, Upkeep, Restart, Tick, vars,
              clientVars, TypeOK
<1>3. now' = now \/ now' = now + 1
  BY DEF Next, Launch, Save, Settle, LookUp, Deliver, Upkeep, Restart, Tick, vars
<1> QED BY <1>0, <1>1, <1>2, <1>3 DEF TypeOK

-----------------------------------------------------------------------------
(* The invariant.                                                          *)

LEMMA MailgunInitGInv == MailgunInit => GInv
<1> SUFFICES ASSUME MailgunInit PROVE GInv
  OBVIOUS
<1>1. MailgunTypeOK /\ CInv
  BY MailgunTypeInit, MailgunInitClient, ClientInit
<1>2. \A id \in InboxIDs : RouteInv(id)
  BY DEF MailgunInit, RouteInv
<1>3. \A m \in Mails : ServiceInv(m)
  BY DEF MailgunInit, ServiceInv
<1>4. \A t \in Attempts : HookInv(t)
  BY AttemptTypes DEF MailgunInit, Init, HookInv
<1>5. \A t \in Attempts : PostedInv(t)
  BY AttemptTypes, MailgunAssumption DEF MailgunInit, PostedInv, Tries
<1> QED BY <1>1, <1>2, <1>3, <1>4, <1>5 DEF GInv

\* Routes appear when they are asked for and go when they are due.
LEMMA RouteKept ==
    ASSUME GInv, [Next]_vars, NEW id \in InboxIDs,
           made'[id] = made[id],
           id \in routes' => id \in routes,
           id \in routes /\ id \notin routes' => Expiry(id) <= now
    PROVE  RouteInv(id)'
<1>1. known[id] # Nil => known'[id] = known[id] /\ known[id].TTL \in Nat
  BY Lasting, SentTypes DEF GInv, CInv
<1>2. now \in Nat /\ now' \in Nat /\ now <= now'
  BY Lasting DEF GInv
<1>3. RouteInv(id)
  BY DEF GInv
<1> QED BY <1>1, <1>2, <1>3 DEF RouteInv, Expiry

LEMMA RouteStep == GInv /\ [Next]_vars /\ [MailgunNext]_allVars => \A id \in InboxIDs : RouteInv(id)'
<1> SUFFICES ASSUME GInv, [Next]_vars, [MailgunNext]_allVars, NEW k \in InboxIDs
             PROVE  RouteInv(k)'
  OBVIOUS
<1>0. MailgunTypeOK
  BY DEF GInv
<1>1. ASSUME NEW id \in InboxIDs, CreateRoute(id)
      PROVE  RouteInv(k)'
  <2>1. /\ known[id] # Nil /\ known' = known
        /\ \A j \in InboxIDs : j # id => made'[j] = made[j]
        /\ routes' = routes \/ routes' = routes \cup {id}
        /\ made'[id] = "route" => routes' = routes \cup {id}
    BY <1>0, <1>1 DEF CreateRoute, MailgunTypeOK, vars, clientVars
  <2>2. CASE k # id
    BY <2>1, <2>2, RouteKept
  <2>3. CASE k = id
    BY <2>1, <2>3 DEF RouteInv
  <2> QED BY <2>2, <2>3
<1>2. ASSUME NEW id \in InboxIDs, DeleteRoute(id)
      PROVE  RouteInv(k)'
  BY <1>2, RouteKept DEF DeleteRoute, MayDelete
<1>3. CASE UNCHANGED <<made, routes>>
  BY <1>3, RouteKept
<1>4. UNCHANGED <<made, routes>> \/ \E id \in InboxIDs : CreateRoute(id) \/ DeleteRoute(id)
  BY Zenon DEF MailgunNext, RegisterRoute, PassRoute, LaunchInbox, SaveInbox, Arrive, GetRoutes,
         OtherRoutes, Post, Hear, GiveUp, Reject, Find, SaveMail, Surroundings, Crash, allVars, routeVars
<1> QED BY <1>1, <1>2, <1>3, <1>4

LEMMA ServiceStep == GInv /\ [Next]_vars /\ [MailgunNext]_allVars => \A m \in Mails : ServiceInv(m)'
<1> SUFFICES ASSUME GInv, [Next]_vars, [MailgunNext]_allVars, NEW n \in Mails
             PROVE  ServiceInv(n)'
  OBVIOUS
<1>0. MailgunTypeOK /\ ServiceInv(n)
  BY DEF GInv
<1>1. \A id \in InboxIDs : known[id] # Nil => known'[id] # Nil
  BY Lasting DEF GInv
<1>2. ASSUME NEW m \in Mails, NEW id \in InboxIDs, Arrive(m, id)
      PROVE  ServiceInv(n)'
  <2>1. known[id] # Nil /\ known' = known /\ tries' = tries
    BY <1>2 DEF Arrive, GInv, RouteInv, vars, clientVars
  <2>2. CASE n = m
    BY <1>0, <1>2, <2>1, <2>2 DEF Arrive, MailgunTypeOK, ServiceInv, Letters
  <2>3. CASE n # m
    BY <1>0, <1>2, <2>1, <2>3 DEF Arrive, MailgunTypeOK, ServiceInv
  <2> QED BY <2>2, <2>3
<1>3. ASSUME NEW m \in Mails, Post(m) \/ Hear(m) \/ GiveUp(m)
      PROVE  ServiceInv(n)'
  <2>1. UNCHANGED <<letter, box>>
    BY <1>3 DEF Post, Hear, GiveUp
  <2>2. letter[m] # "none"
    BY <1>3 DEF GInv, ServiceInv, Post, Hear, GiveUp
  <2>3. n # m => fate'[n] = fate[n] /\ tries'[n] = tries[n]
    BY <1>0, <1>3 DEF Post, Hear, GiveUp, Again, MailgunTypeOK
  <2>4. fate'[m] = "posted" => tries'[m] # 0
    <3>1. Post(m) => tries'[m] = tries[m] + 1 /\ tries[m] + 1 \in 1..MaxTries
      BY <1>0, OneMore DEF Post, MailgunTypeOK
    <3>2. Hear(m) \/ GiveUp(m) => fate'[m] # "posted"
      BY <1>0 DEF Hear, GiveUp, Again, MailgunTypeOK
    <3> QED BY <1>3, <3>1, <3>2, MailgunAssumption
  <2> QED BY <1>0, <1>1, <2>1, <2>2, <2>3, <2>4 DEF ServiceInv
<1>4. CASE UNCHANGED serviceVars
  BY <1>0, <1>1, <1>4 DEF ServiceInv, serviceVars
<1>5. \/ UNCHANGED serviceVars
      \/ \E m \in Mails : \E id \in InboxIDs : Arrive(m, id)
      \/ \E m \in Mails : Post(m) \/ Hear(m) \/ GiveUp(m)
  BY Zenon DEF MailgunNext, CreateRoute, RegisterRoute, DeleteRoute, PassRoute, LaunchInbox,
         SaveInbox, GetRoutes, OtherRoutes, Reject, Find, SaveMail, Surroundings, Crash, allVars
<1> QED BY <1>2, <1>3, <1>4, <1>5

\* An attempt whose mail was not there yet cannot have begun.
LEMMA Begun ==
    ASSUME GInv, NEW t \in Attempts, webhook[t] # "idle" \/ reply[t] # "none"
    PROVE  /\ letter[t[1]] # "none"
           /\ box[t[1]] \in InboxIDs
           /\ known[box[t[1]]] # Nil
           /\ ~(t[2] > tries[t[1]])
<1>1. t[1] \in Mails /\ t[2] > 0
  BY AttemptTypes, MailgunAssumption DEF Tries
<1>2. ~(t[2] > tries[t[1]])
  BY DEF GInv, HookInv
<1> QED BY <1>1, <1>2 DEF GInv, ServiceInv

\* What a step has to leave as it is for an attempt it is not about.
LEMMA HookKept ==
    ASSUME GInv, [Next]_vars, NEW t \in Attempts,
           t[2] > tries'[t[1]] => t[2] > tries[t[1]],
           webhook'[t] = webhook[t] \/ (webhook[t] \in Busy /\ webhook'[t] = "killed"),
           reply'[t] = reply[t],
           sent'[t] = sent[t]
    PROVE  HookInv(t)'
  BY DEF GInv, HookInv, Busy

LEMMA PostStep ==
    ASSUME GInv, NEW m \in Mails, Post(m), [Next]_vars, NEW t \in Attempts
    PROVE  HookInv(t)'
<1>0. tries \in [Mails -> 0..MaxTries] /\ webhook \in [Attempts -> Busy \cup {"idle", "ended", "killed"}]
  BY DEF GInv, MailgunTypeOK
<1> PICK n \in Tries : n = tries[m] + 1
  BY <1>0, OneMore DEF Post, Tries
<1>1. /\ tries' = [tries EXCEPT ![m] = n]
      /\ webhook' = [webhook EXCEPT ![<<m, n>>] = "begun"]
      /\ UNCHANGED <<letter, box, reply, sent, outcome>>
  BY <1>0 DEF Post, vars, clientVars
<1>2. <<m, n>> \in Attempts /\ tries[m] \in Nat /\ n \in Nat
  BY <1>0, MailgunAssumption DEF Attempts, Tries
<1>3. CASE t = <<m, n>>
  <2>1. webhook[t] = "idle"
    <3>1. t[1] = m /\ t[2] = n /\ n > tries[m]
      BY <1>2, <1>3
    <3>2. t[2] > tries[t[1]] => webhook[t] = "idle"
      BY <1>2, <1>3 DEF GInv, HookInv
    <3> QED BY <3>1, <3>2
  <2>2. sent[t] = Nil /\ reply[t] = "none"
    BY <2>1 DEF GInv, HookInv
  <2>3. tries'[t[1]] = n /\ t[2] = n /\ webhook'[t] = "begun"
    BY <1>0, <1>1, <1>2, <1>3
  <2> QED BY <1>1, <1>2, <2>2, <2>3 DEF HookInv
<1>4. CASE t # <<m, n>>
  <2>1. t[1] \in Mails /\ t[2] \in Nat /\ tries[t[1]] \in Nat
    BY <1>0, AttemptTypes, MailgunAssumption DEF Tries
  <2>2. tries'[t[1]] = IF t[1] = m THEN n ELSE tries[t[1]]
    BY <1>0, <1>1, <2>1
  <2>3. t[2] > tries'[t[1]] => t[2] > tries[t[1]]
    BY <1>2, <2>1, <2>2
  <2> QED BY <1>0, <1>1, <1>4, <2>3, HookKept
<1> QED BY <1>3, <1>4

LEMMA EndStep ==
    ASSUME GInv, NEW t \in Attempts, NEW answer, End(t, answer), [Next]_vars,
           UNCHANGED serviceVars, sent' = sent,
           webhook[t] \in Busy,
           answer = "error" => sent[t] = Nil,
           NEW u \in Attempts
    PROVE  HookInv(u)'
<1>0. /\ webhook' = [webhook EXCEPT ![t] = "ended"] /\ webhook \in [Attempts -> Busy \cup {"idle", "ended", "killed"}]
      /\ reply' = [reply EXCEPT ![t] = answer] /\ DOMAIN reply = Attempts
      /\ UNCHANGED <<letter, box, tries>>
  BY DEF End, GInv, MailgunTypeOK, serviceVars
<1>1. CASE u = t
  <2>1. ~(t[2] > tries[t[1]])
    BY Begun DEF Busy
  <2> QED BY <1>0, <1>1, <2>1 DEF HookInv
<1>2. CASE u # t
  BY <1>0, <1>2, HookKept
<1> QED BY <1>1, <1>2

LEMMA HookStep == GInv /\ [Next]_vars /\ [MailgunNext]_allVars => \A t \in Attempts : HookInv(t)'
<1> SUFFICES ASSUME GInv, [Next]_vars, [MailgunNext]_allVars, NEW u \in Attempts
             PROVE  HookInv(u)'
  OBVIOUS
<1>0. /\ webhook \in [Attempts -> Busy \cup {"idle", "ended", "killed"}]
      /\ letter \in [Mails -> Letters \cup {"none"}] /\ box \in [Mails -> InboxIDs \cup {Nil}]
      /\ TypeOK /\ u[1] \in Mails
  BY AttemptTypes DEF GInv, MailgunTypeOK
<1>1. ASSUME NEW m \in Mails, NEW id \in InboxIDs, Arrive(m, id)
      PROVE  HookInv(u)'
  <2>1. UNCHANGED <<tries, webhook, reply, sent>>
    BY <1>0, <1>1 DEF Arrive, webhookVars, vars, clientVars
  <2> QED BY <2>1, HookKept
<1>2. ASSUME NEW m \in Mails, Post(m)
      PROVE  HookInv(u)'
  BY <1>2, PostStep
<1>3. ASSUME NEW t \in Attempts, Reject(t)
      PROVE  HookInv(u)'
  <2>1. sent[t] = Nil
    BY <1>3 DEF Reject, GInv, HookInv
  <2>2. /\ webhook[t] = "begun" /\ UNCHANGED serviceVars /\ sent' = sent
        /\ End(t, "error") \/ End(t, "no thanks")
    BY <1>3 DEF Reject, vars, clientVars
  <2> QED BY <2>1, <2>2, EndStep DEF Busy
<1>4. ASSUME NEW t \in Attempts, Find(t)
      PROVE  HookInv(u)'
  <2>1. webhook[t] = "begun" /\ UNCHANGED serviceVars
    BY <1>4 DEF Find
  <2>2. sent[t] = Nil /\ reply[t] = "none"
    BY <2>1 DEF GInv, HookInv
  <2>3. CASE End(t, "error") /\ UNCHANGED vars
    BY <2>1, <2>2, <2>3, EndStep DEF Busy, vars, clientVars
  <2>4. CASE End(t, "ok") /\ UNCHANGED vars
    BY <2>1, <2>2, <2>4, EndStep DEF Busy, vars, clientVars
  <2>5. CASE LookUp(t, box[t[1]]) /\ webhook' = [webhook EXCEPT ![t] = "found"] /\ reply' = reply
    <3>1. UNCHANGED <<letter, box, tries>>
      BY <2>1 DEF serviceVars
    <3>2. CASE u = t
      <4>1. ~(t[2] > tries[t[1]])
        BY <2>1, Begun
      <4> QED BY <1>0, <2>2, <2>5, <3>1, <3>2, <4>1 DEF HookInv
    <3>3. CASE u # t
      <4>1. sent'[u] = sent[u]
        BY <1>0, <2>5, <3>3, AttemptTypes DEF LookUp, TypeOK
      <4> QED BY <1>0, <2>5, <3>1, <3>3, <4>1, HookKept
    <3> QED BY <3>2, <3>3
  <2>6. \/ End(t, "error") /\ UNCHANGED vars
        \/ End(t, "ok") /\ UNCHANGED vars
        \/ LookUp(t, box[t[1]]) /\ webhook' = [webhook EXCEPT ![t] = "found"] /\ reply' = reply
    BY <1>4, Zenon DEF Find
  <2> QED BY <2>3, <2>4, <2>5, <2>6
<1>5. ASSUME NEW t \in Attempts, SaveMail(t)
      PROVE  HookInv(u)'
  <2>1. /\ webhook[t] = "found" /\ Deliver(t) /\ End(t, "ok") /\ UNCHANGED serviceVars
    BY <1>5 DEF SaveMail
  <2>2. sent' = sent
    BY <2>1 DEF Deliver
  <2> QED BY <2>1, <2>2, EndStep DEF Busy
<1>6. CASE Crash
  <2>1. /\ UNCHANGED <<letter, box, tries, reply, sent>>
        /\ webhook'[u] = IF webhook[u] \in Busy THEN "killed" ELSE webhook[u]
    BY <1>6 DEF Crash, Restart, serviceVars
  <2> QED BY <2>1, HookKept
<1>7. CASE UNCHANGED <<letter, box, tries, webhook, reply, sent>>
  BY <1>7, HookKept
<1>8. \/ UNCHANGED <<letter, box, tries, webhook, reply, sent>>
      \/ \E m \in Mails : \E id \in InboxIDs : Arrive(m, id)
      \/ \E m \in Mails : Post(m)
      \/ \E t \in Attempts : Reject(t) \/ Find(t) \/ SaveMail(t)
      \/ Crash
  <2>1. CASE \E id \in InboxIDs : \/ CreateRoute(id) \/ RegisterRoute(id)
                                  \/ DeleteRoute(id) \/ PassRoute(id)
                                  \/ \E a \in Addresses : LaunchInbox(id, a)
                                  \/ SaveInbox(id)
    BY <2>1 DEF CreateRoute, RegisterRoute, Settle, DeleteRoute, PassRoute, LaunchInbox, Launch,
                SaveInbox, Save, serviceVars, webhookVars, vars, clientVars
  <2>2. CASE \/ GetRoutes \/ \E n \in 0..MaxOthers : OtherRoutes(n)
             \/ \E m \in Mails : Hear(m) \/ GiveUp(m)
             \/ Surroundings \/ UNCHANGED allVars
    BY <2>2 DEF GetRoutes, OtherRoutes, Hear, GiveUp, Surroundings, CleanUp, Tick,
                serviceVars, webhookVars, vars, clientVars, allVars
  <2> QED BY <2>1, <2>2 DEF MailgunNext
<1> QED BY <1>1, <1>2, <1>3, <1>4, <1>5, <1>6, <1>7, <1>8

\* Mailgun goes on to the next attempt by way of what it heard or gave up on.
LEMMA PostedStep ==
    GInv /\ [MailgunNext]_allVars => \A t \in Attempts : PostedInv(t)'
<1> SUFFICES ASSUME GInv, [MailgunNext]_allVars, NEW u \in Attempts
             PROVE  PostedInv(u)'
  OBVIOUS
<1>0. /\ tries \in [Mails -> 0..MaxTries] /\ DOMAIN fate = Mails /\ DOMAIN reply = Attempts
      /\ u[1] \in Mails /\ u[2] \in Nat /\ u = <<u[1], u[2]>> /\ tries[u[1]] \in Nat
      /\ PostedInv(u)
  <2>1. u[1] \in Mails /\ u[2] \in Nat /\ u = <<u[1], u[2]>>
    BY AttemptTypes, MailgunAssumption DEF Tries
  <2>2. /\ tries \in [Mails -> 0..MaxTries] /\ DOMAIN fate = Mails /\ DOMAIN reply = Attempts
        /\ PostedInv(u)
    BY DEF GInv, MailgunTypeOK
  <2>3. tries[u[1]] \in 0..MaxTries
    BY <2>1, <2>2
  <2> QED BY <2>1, <2>2, <2>3, MailgunAssumption
<1>1. abandoned \subseteq abandoned' /\ (reply[u] = "error" => reply'[u] = "error")
  <2>1. ASSUME NEW t \in Attempts, Reject(t) \/ Find(t) \/ SaveMail(t)
        PROVE  abandoned' = abandoned /\ (reply[u] = "error" => reply'[u] = "error")
    <3>1. webhook[t] \in {"begun", "found"} /\ abandoned' = abandoned
      BY <2>1 DEF Reject, Find, SaveMail, serviceVars
    <3>2. reply' = reply \/ \E answer : reply' = [reply EXCEPT ![t] = answer]
      BY <2>1, Zenon DEF Reject, Find, SaveMail, End
    <3>3. reply[t] = "none"
      BY <3>1 DEF GInv, HookInv
    <3> QED BY <1>0, <3>1, <3>2, <3>3
  <2>2. \/ UNCHANGED <<abandoned, reply>>
        \/ \E t \in Attempts : Reject(t) \/ Find(t) \/ SaveMail(t)
        \/ \E m \in Mails : GiveUp(m)
    BY Zenon DEF MailgunNext, CreateRoute, RegisterRoute, DeleteRoute, PassRoute, LaunchInbox,
       SaveInbox, Arrive, GetRoutes, OtherRoutes, Post, Hear, Surroundings, Crash, allVars,
       serviceVars, webhookVars
  <2>3. (\E m \in Mails : GiveUp(m)) => abandoned \subseteq abandoned' /\ reply' = reply
    BY DEF GiveUp, webhookVars
  <2> QED BY <2>1, <2>2, <2>3
<1>2. CASE UNCHANGED <<fate, tries>>
  BY <1>0, <1>1, <1>2 DEF PostedInv
<1>3. ASSUME NEW m \in Mails, NEW id \in InboxIDs, Arrive(m, id)
      PROVE  PostedInv(u)'
  <2>1. tries' = tries /\ (u[1] # m => fate'[u[1]] = fate[u[1]])
    BY <1>0, <1>3 DEF Arrive
  <2>2. u[1] = m => tries[m] = 0 /\ u[2] # 0
    BY <1>3, AttemptTypes DEF Arrive, GInv, ServiceInv, Tries
  <2> QED BY <1>0, <1>1, <2>1, <2>2 DEF PostedInv
<1>4. ASSUME NEW m \in Mails, Post(m)
      PROVE  PostedInv(u)'
  <2>1. /\ fate[m] = "queued" /\ fate' = [fate EXCEPT ![m] = "posted"]
        /\ tries' = [tries EXCEPT ![m] = @ + 1]
    BY <1>4 DEF Post
  <2>2. CASE u[1] = m
    <3>1. fate'[m] = "posted" /\ tries'[m] = tries[m] + 1
      BY <1>0, <2>1
    <3> QED BY <1>0, <1>1, <2>1, <2>2, <3>1 DEF PostedInv
  <2>3. CASE u[1] # m
    BY <1>0, <1>1, <2>1, <2>3 DEF PostedInv
  <2> QED BY <2>2, <2>3
<1>5. ASSUME NEW m \in Mails, Hear(m) \/ GiveUp(m)
      PROVE  PostedInv(u)'
  <2>1. /\ tries' = tries
        /\ u[1] # m => fate'[u[1]] = fate[u[1]]
    BY <1>0, <1>5 DEF Hear, GiveUp, Again
  <2>2. fate'[m] = "queued" => \/ reply[<<m, tries[m]>>] = "error"
                               \/ <<m, tries[m]>> \in abandoned'
    BY <1>0, <1>5 DEF Hear, GiveUp
  <2> QED BY <1>0, <1>1, <2>1, <2>2 DEF PostedInv
<1>6. \/ UNCHANGED <<fate, tries>>
      \/ \E m \in Mails : \E id \in InboxIDs : Arrive(m, id)
      \/ \E m \in Mails : Post(m) \/ Hear(m) \/ GiveUp(m)
  BY Zenon DEF MailgunNext, CreateRoute, RegisterRoute, DeleteRoute, PassRoute, LaunchInbox,
     SaveInbox, GetRoutes, OtherRoutes, Reject, Find, SaveMail, Surroundings, Crash, allVars,
     serviceVars
<1> QED BY <1>2, <1>3, <1>4, <1>5, <1>6

LEMMA MailgunStep == GInv /\ [MailgunNext]_allVars => GInv'
<1> SUFFICES ASSUME GInv, [MailgunNext]_allVars PROVE GInv'
  OBVIOUS
<1>1. [Next]_vars
  BY MailgunStepClient
<1>2. CInv' /\ TypeOK'
  BY <1>1, ClientStep DEF GInv, CInv
<1> QED BY <1>1, <1>2, MailgunTypeStep, RouteStep, ServiceStep, HookStep, PostedStep
    DEF GInv

LEMMA MailgunInvariance == MailgunSpec => []GInv
  BY MailgunInitGInv, MailgunStep, PTL DEF MailgunSpec

-----------------------------------------------------------------------------
(* What it means.                                                          *)

\* Every variable keeps its type.
THEOREM MailgunTypeCorrect == MailgunSpec => []MailgunTypeOK
<1>1. GInv => MailgunTypeOK
  BY DEF GInv
<1> QED BY <1>1, MailgunInvariance, PTL

\* A webhook is one way to use the database: under this load too each of the
\* three keeps the mail it accepted, and does only what the interface promises.
THEOREM MailgunKeepsContract ==
    MailgunSpec => []AcceptedMailIsKept /\ ImplementsContract
<1>1. GInv /\ [MailgunNext]_allVars => [Next]_vars
  BY MailgunStepClient
<1>2. GInv => CInv /\ AcceptedMailIsKept
  BY KeptMail DEF GInv
<1>3. CInv /\ CInv' /\ [Next]_vars => [Contract!Next]_(Contract!vars)
  BY ContractStep
<1>4. MailgunInit => Contract!Init
  BY MailgunInitClient, ContractInit
<1> QED BY <1>1, <1>2, <1>3, <1>4, MailgunInvariance, PTL
    DEF MailgunSpec, ImplementsContract, Contract!Spec

\* The hourly loop deletes no route before its inbox's TTL, whatever page
\* Mailgun answers it with and whenever the process restarts.
THEOREM LiveRoutes == MailgunSpec => []LiveRouteKept
<1>1. GInv => LiveRouteKept
  BY DEF GInv, RouteInv, LiveRouteKept
<1> QED BY <1>1, MailgunInvariance, PTL

\* A mail lies in its inbox twice only if Mailgun had stopped waiting for the
\* attempt that stored it first.
THEOREM StoredTwiceAbandoned == MailgunSpec => []StoredTwiceOnlyIfAbandoned
<1>1. GInv => StoredTwiceOnlyIfAbandoned
  <2> SUFFICES ASSUME GInv, NEW s \in Attempts, NEW t \in Attempts,
                      s[1] = t[1], s[2] < t[2], Lies(s), Lies(t)
               PROVE  s \in abandoned
    BY DEF StoredTwiceOnlyIfAbandoned
  <2>1. \A u \in Attempts : Lies(u) => sent[u] # Nil
    <3> SUFFICES ASSUME NEW u \in Attempts, NEW m \in Mail, m.ID = u
                 PROVE  sent[u] # Nil
      BY DEF Lies
    <3>1. PICK id \in InboxIDs : m \in messages[id]
      BY DEF Mail
    <3>2. sent[m.ID] = m /\ m # Nil
      BY <3>1, SentTypes, NilAssumption DEF GInv, CInv, MailInv
    <3> QED BY <3>2
  <2>2. reply[s] # "error"
    BY <2>1 DEF GInv, HookInv
  <2>3. ~(t[2] > tries[t[1]])
    BY <2>1 DEF GInv, HookInv
  <2>4. s[2] \in Nat /\ t[2] \in Nat /\ tries[s[1]] \in Nat
    <3>1. /\ s[1] \in Mails /\ s[2] \in 1..MaxTries /\ t[2] \in 1..MaxTries
      BY AttemptTypes DEF Tries
    <3>2. tries[s[1]] \in 0..MaxTries
      BY <3>1 DEF GInv, MailgunTypeOK
    <3> QED BY <3>1, <3>2, MailgunAssumption
  <2>5. s[2] < tries[s[1]]
    BY <2>3, <2>4
  <2> QED BY <2>2, <2>5 DEF GInv, PostedInv
<1> QED BY <1>1, MailgunInvariance, PTL

\* What Mailgun is told is dealt with has been handed to the database by then,
\* where the sender has a name and the inbox is there.
THEOREM DealtWithSaved == MailgunSpec => DealtWithMailWasSaved
<1>1. GInv /\ [MailgunNext]_allVars =>
        [\A t \in Attempts :
            /\ reply[t] # "ok" /\ reply'[t] = "ok"
            /\ letter[t[1]] # "from nobody"
            /\ Stored(box[t[1]])
            => outcome'[t] # "none"]_allVars
  <2> SUFFICES ASSUME GInv, [MailgunNext]_allVars, NEW t \in Attempts,
                      reply[t] # "ok", reply'[t] = "ok",
                      letter[t[1]] # "from nobody", Stored(box[t[1]])
               PROVE  outcome'[t] # "none"
    BY Zenon
  <2>1. PICK u \in Attempts : Reject(u) \/ Find(u) \/ SaveMail(u)
    BY Zenon DEF MailgunNext, CreateRoute, RegisterRoute, DeleteRoute, PassRoute, LaunchInbox,
       SaveInbox, Arrive, GetRoutes, OtherRoutes, Post, Hear, GiveUp, Surroundings, Crash,
       allVars, webhookVars
  <2>2. DOMAIN reply = Attempts /\ TypeOK
    BY DEF GInv, MailgunTypeOK
  <2>3. u = t
    <3>1. reply' = reply \/ \E answer : reply' = [reply EXCEPT ![u] = answer]
      BY <2>1, Zenon DEF Reject, Find, SaveMail, End
    <3> QED BY <2>2, <3>1
  <2>4. SaveMail(t)
    BY <2>1, <2>2, <2>3 DEF Reject, Find, End
  <2> QED BY <2>2, <2>4, AttemptTypes DEF SaveMail, Deliver, TypeOK
<1> QED BY <1>1, MailgunInvariance, PTL DEF MailgunSpec, DealtWithMailWasSaved
=============================================================================
