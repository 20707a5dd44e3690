---------------------------- MODULE WebsiteProofs ----------------------------
(***************************************************************************)
(* What a browser's session is worth, for any number of tabs, inboxes and  *)
(* addresses and each of the three databases.                              *)
(*                                                                         *)
(* A browser only goes through the steps of InboxCreation in one order or  *)
(* another, so that IInv holds here too.  WInv adds that the cookie is of  *)
(* an inbox whose credential was issued, and that a response on its way    *)
(* that takes a cookie back is about an inbox the email provider refused:  *)
(* neither ever ceases to be true, however late the response.              *)
(***************************************************************************)
EXTENDS Website, InboxLifecycleProofs

JarInv == jar # Nil => jar \in InboxIDs /\ grant[jar] = "issued"

TabInv(t) ==
    /\ tab[t] # "idle" => about[t] \in InboxIDs
    /\ tab[t] = "taken back" => answer[about[t]] = "error"

WInv ==
    /\ WebTypeOK
    /\ IInv
    /\ JarInv
    /\ \A t \in Tabs : TabInv(t)

-----------------------------------------------------------------------------
(* Every step is one of InboxCreation's, or none.                          *)

LEMMA WebStepCreation == [WebNext]_allVars => [Next]_vars
<1> SUFFICES ASSUME [WebNext]_allVars PROVE [Next]_vars
  OBVIOUS
<1>1. ASSUME NEW t \in Tabs, NEW id \in InboxIDs, NEW k \in Kinds, NEW a \in Addresses,
             Request(t, id, k, a)
      PROVE  [Next]_vars
  BY <1>1 DEF Request, Next
<1>2. ASSUME NEW t \in Tabs,
             \/ Look(t) \/ Stop(t) \/ Read(t) \/ \E really \in BOOLEAN : AskDelete(t, really)
             \/ CreationArrives(t) \/ RevocationArrives(t) \/ DeletionArrives(t)
      PROVE  [Next]_vars
  BY <1>2 DEF Look, Stop, Read, AskDelete, CreationArrives, RevocationArrives, DeletionArrives, Arrives
<1>3. ASSUME NEW id \in InboxIDs, Respond(id)
      PROVE  [Next]_vars
  BY <1>3 DEF Respond, Next, Handle
<1>4. CASE Background
  BY <1>4 DEF Background, Next, Handle
<1>5. CASE UNCHANGED allVars
  BY <1>5 DEF allVars
<1> QED BY <1>1, <1>2, <1>3, <1>4, <1>5 DEF WebNext

\* What is known of an inbox stays known.
LEMMA Lasting ==
    ASSUME IInv, [Next]_vars, NEW id \in InboxIDs
    PROVE  /\ grant[id] = "issued" => grant'[id] = "issued"
           /\ answer[id] = "error" => answer'[id] = "error"
<1>0. TypeOK
  BY DEF IInv
<1>1. ASSUME NEW k \in InboxIDs, MayAnswer(k), NEW step, NEW credential, Send(k, step, credential)
      PROVE  grant[id] = "issued" => grant'[id] = "issued"
  <2>1. grant[k] = "none"
    BY <1>1 DEF IInv, HandlerInv, MayAnswer, Ended, TypeOK
  <2> QED BY <1>0, <1>1, <2>1 DEF Send, TypeOK
<1>2. ASSUME NEW k \in InboxIDs, Answer(k) \/ Show(k)
      PROVE  grant[id] = "issued" => grant'[id] = "issued"
  <2>1. \E step, credential : MayAnswer(k) /\ Send(k, step, credential)
    BY <1>2 DEF Answer, Show
  <2> QED BY <1>1, <2>1
<1>3. UNCHANGED grant \/ \E k \in InboxIDs : Answer(k) \/ Show(k)
  BY DEF Next, Handle, Settle, CheckAddress, Launch, Save, Register, Update, Freeze, CleanUp,
         Propagate, Restart, Tick, vars, requestVars
<1>4. ASSUME NEW k \in InboxIDs, Register(k)
      PROVE  answer[id] = "error" => answer'[id] = "error"
  BY <1>0, <1>4 DEF Register, TypeOK
<1>5. UNCHANGED answer \/ \E k \in InboxIDs : Register(k)
  BY DEF Next, Handle, Settle, CheckAddress, Launch, Save, Answer, Show, Send, Update, Freeze,
         CleanUp, Propagate, Restart, Tick, vars, taskVars
<1> QED BY <1>2, <1>3, <1>4, <1>5

-----------------------------------------------------------------------------
(* The invariant.                                                          *)

LEMMA WebInitWInv == WebInit => WInv
<1> SUFFICES ASSUME WebInit PROVE WInv
  OBVIOUS
<1>1. IInv /\ TypeOK
  BY InitIInv DEF WebInit, IInv
<1> QED BY <1>1 DEF WebInit, WInv, WebTypeOK, JarInv, TabInv, Waits

\* A step that leaves cookie and tabs alone.
LEMMA BehindBack ==
    ASSUME WInv, [Next]_vars, UNCHANGED <<jar, tab, about>>
    PROVE  JarInv' /\ \A t \in Tabs : TabInv(t)'
<1>1. JarInv'
  BY Lasting DEF WInv, JarInv
<1>2. ASSUME NEW t \in Tabs
      PROVE  TabInv(t)'
  BY Lasting DEF WInv, TabInv
<1> QED BY <1>1, <1>2

\* A tab that starts or stops waiting.
LEMMA OneTab ==
    ASSUME WInv, [Next]_vars, NEW t \in Tabs, NEW what \in Waits, NEW id \in InboxIDs \cup {Nil},
           Wait(t, what, id),
           what # "idle" => id \in InboxIDs,
           what = "taken back" => answer[id] = "error"
    PROVE  /\ tab' \in [Tabs -> Waits] /\ about' \in [Tabs -> InboxIDs \cup {Nil}]
           /\ \A u \in Tabs : TabInv(u)'
<1>0. tab \in [Tabs -> Waits] /\ about \in [Tabs -> InboxIDs \cup {Nil}]
  BY DEF WInv, WebTypeOK
<1>1. \A u \in Tabs : /\ tab'[u] = IF u = t THEN what ELSE tab[u]
                      /\ about'[u] = IF u = t THEN id ELSE about[u]
  BY <1>0 DEF Wait
<1>2. ASSUME NEW u \in Tabs
      PROVE  TabInv(u)'
  <2>1. TabInv(u)
    BY DEF WInv
  <2>2. \A k \in InboxIDs : answer[k] = "error" => answer'[k] = "error"
    BY Lasting DEF WInv
  <2>3. what = "taken back" => what # "idle"
    OBVIOUS
  <2>4. tab[u] = "taken back" => tab[u] # "idle"
    OBVIOUS
  <2> QED BY <1>1, <2>1, <2>2, <2>3, <2>4 DEF TabInv
<1> QED BY <1>0, <1>2 DEF Wait

\* The inbox a tab's response is about.
LEMMA Concerned ==
    ASSUME WInv, NEW t \in Tabs, tab[t] # "idle"
    PROVE  /\ about[t] \in InboxIDs
           /\ grant[about[t]] = "issued" => about[t] \in saved
           /\ grant[about[t]] = "revoked" => answer[about[t]] = "error"
  BY DEF WInv, TabInv, IInv, HandlerInv

LEMMA SessionTypes ==
    ASSUME WInv, Session # Nil
    PROVE  Session = jar /\ Session \in InboxIDs /\ Session \in saved
  BY DEF WInv, JarInv, Session, IInv, HandlerInv

\* What the responses that arrive make of the cookie.
LEMMA CookieStep ==
    ASSUME WInv, NEW t \in Tabs,
           CreationArrives(t) \/ RevocationArrives(t) \/ DeletionArrives(t)
    PROVE  /\ tab[t] # "idle" /\ Wait(t, "idle", Nil) /\ UNCHANGED <<vars, made>>
           /\ \/ jar' = jar
              \/ /\ tab[t] = "creating" /\ jar' = about[t]
                 /\ grant[about[t]] = "issued"
              \/ tab[t] = "deleting" /\ jar' = Nil
              \/ answer[about[t]] = "error" /\ jar' = Nil
<1>1. CASE CreationArrives(t)
  <2>1. grant[about[t]] \in {"none", "issued", "revoked"}
    BY <1>1, Concerned DEF CreationArrives, WInv, WebTypeOK, TypeOK
  <2> QED BY <1>1, <2>1, Concerned DEF CreationArrives, Arrives
<1>2. CASE RevocationArrives(t)
  BY <1>2 DEF RevocationArrives, Arrives, WInv, TabInv
<1>3. CASE DeletionArrives(t)
  BY <1>3 DEF DeletionArrives, Arrives
<1> QED BY <1>1, <1>2, <1>3

LEMMA WebStep == WInv /\ [WebNext]_allVars => WInv'
<1> SUFFICES ASSUME WInv, [WebNext]_allVars PROVE WInv'
  OBVIOUS
<1>0. WebTypeOK /\ [Next]_vars
  BY WebStepCreation DEF WInv
<1>1. IInv' /\ TypeOK'
  BY <1>0, StepIInv DEF WInv, IInv
<1>2. now \in Nat
  BY DEF WInv, IInv, TypeOK
<1>3. ASSUME NEW t \in Tabs, NEW what \in Waits, NEW id \in InboxIDs \cup {Nil},
             Wait(t, what, id), jar' = jar, made' = made,
             what # "idle" => id \in InboxIDs,
             what = "taken back" => answer[id] = "error"
      PROVE  WInv'
  <2>1. JarInv'
    BY <1>0, <1>3, Lasting DEF WInv, JarInv
  <2> QED BY <1>0, <1>1, <1>3, <2>1, OneTab DEF WInv, WebTypeOK
<1>4. ASSUME NEW t \in Tabs, NEW id \in InboxIDs, NEW k \in Kinds, NEW a \in Addresses,
             Request(t, id, k, a)
      PROVE  WInv'
  BY <1>3, <1>4 DEF Request, Waits
<1>5. ASSUME NEW t \in Tabs, Look(t) \/ \E really \in BOOLEAN : AskDelete(t, really)
      PROVE  WInv'
  <2> PICK id \in InboxIDs : id = Session
    BY <1>5, SessionTypes DEF Look, AskDelete
  <2>1. \E what \in {"reading", "deleting", "declining"} : Wait(t, what, id)
    BY <1>5 DEF Look, AskDelete
  <2>2. jar' = jar /\ made' = made
    BY <1>5 DEF Look, AskDelete
  <2> QED BY <1>3, <2>1, <2>2 DEF Waits
<1>6. ASSUME NEW t \in Tabs, Stop(t)
      PROVE  WInv'
  BY <1>3, <1>6 DEF Stop, Waits
<1>7. ASSUME NEW t \in Tabs, Read(t)
      PROVE  WInv'
  <2> PICK id \in InboxIDs : id = about[t]
    BY <1>7, Concerned DEF Read
  <2>1. /\ jar' = jar /\ made' = made
        /\ \/ Wait(t, "idle", Nil)
           \/ GetInboxByID(id).FailedToCreate /\ Wait(t, "taken back", id)
    BY <1>7 DEF Read
  <2>2. GetInboxByID(id).FailedToCreate => answer[id] = "error"
    BY DEF GetInboxByID, ZeroInbox, Stored, WInv, IInv, RowInv
  <2> QED BY <1>3, <2>1, <2>2 DEF Waits
<1>8. ASSUME NEW t \in Tabs,
             CreationArrives(t) \/ RevocationArrives(t) \/ DeletionArrives(t)
      PROVE  WInv'
  <2>1. /\ Wait(t, "idle", Nil) /\ UNCHANGED <<vars, made>>
        /\ \/ jar' = jar \/ jar' = Nil
           \/ jar' = about[t] /\ about[t] \in InboxIDs /\ grant[about[t]] = "issued"
    BY <1>8, CookieStep, Concerned
  <2>2. jar' \in InboxIDs \cup {Nil} /\ JarInv'
    BY <1>0, <2>1 DEF WInv, WebTypeOK, JarInv, vars, requestVars
  <2>3. /\ tab' \in [Tabs -> Waits] /\ about' \in [Tabs -> InboxIDs \cup {Nil}]
        /\ \A u \in Tabs : TabInv(u)'
    BY <1>0, <2>1, OneTab DEF Waits
  <2> QED BY <1>0, <1>1, <2>1, <2>2, <2>3 DEF WInv, WebTypeOK
<1>9. ASSUME NEW id \in InboxIDs, Respond(id)
      PROVE  WInv'
  BY <1>0, <1>1, <1>2, <1>9, BehindBack DEF Respond, WInv, WebTypeOK
<1>10. CASE Background \/ UNCHANGED allVars
  BY <1>0, <1>1, <1>10, BehindBack DEF Background, allVars, webVars, WInv, WebTypeOK
<1> QED BY <1>4, <1>5, <1>6, <1>7, <1>8, <1>9, <1>10 DEF WebNext

LEMMA WebInvariance == WebSpec => []WInv
  BY WebInitWInv, WebStep, PTL DEF WebSpec

-----------------------------------------------------------------------------
(* What it means.                                                          *)

\* Every variable keeps its type.
THEOREM WebTypeCorrect == WebSpec => []WebTypeOK
<1>1. WInv => WebTypeOK
  BY DEF WInv
<1> QED BY <1>1, WebInvariance, PTL

\* A session leads to its inbox for as long as the inbox lives, whatever the
\* browser's tabs do and in whatever order responses arrive.
THEOREM SessionSafe == WebSpec => []SessionHasInbox
<1>1. WInv => SessionHasInbox
  BY SessionTypes DEF SessionHasInbox, WInv, IInv, RowInv
<1> QED BY <1>1, WebInvariance, PTL

\* A browser keeps its session unless a response brings a new inbox that is
\* there, confirms a deletion, or is about an inbox the email provider refused.
THEOREM SessionKept == WebSpec => SessionLeftForCause
<1>1. WInv /\ [WebNext]_allVars =>
        [ jar # Nil /\ jar' # jar =>
            \E t \in Tabs :
               /\ tab[t] # "idle" /\ tab'[t] = "idle"
               /\ \/ tab[t] = "creating" /\ jar' = about[t] /\ jar' \in saved
                  \/ tab[t] = "deleting" /\ jar' = Nil
                  \/ answer[about[t]] = "error" /\ jar' = Nil ]_allVars
  <2> SUFFICES ASSUME WInv, [WebNext]_allVars, jar' # jar
               PROVE  \E t \in Tabs :
                         /\ tab[t] # "idle" /\ tab'[t] = "idle"
                         /\ \/ tab[t] = "creating" /\ jar' = about[t] /\ jar' \in saved
                            \/ tab[t] = "deleting" /\ jar' = Nil
                            \/ answer[about[t]] = "error" /\ jar' = Nil
    OBVIOUS
  <2>1. \E t \in Tabs : CreationArrives(t) \/ RevocationArrives(t) \/ DeletionArrives(t)
    BY DEF WebNext, Request, Look, AskDelete, Stop, Read, Respond, Background, webVars, allVars
  <2>2. PICK t \in Tabs : CreationArrives(t) \/ RevocationArrives(t) \/ DeletionArrives(t)
    BY <2>1
  <2>3. tab[t] # "idle" /\ Wait(t, "idle", Nil)
    BY <2>2, CookieStep
  <2>4. tab'[t] = "idle"
    BY <2>3 DEF Wait, WInv, WebTypeOK
  <2> QED BY <2>2, <2>3, <2>4, CookieStep, Concerned
<1> QED BY <1>1, WebInvariance, PTL DEF WebSpec, SessionLeftForCause

\* Behind a website that is used in any way, every inbox lives the one life
\* InboxLifecycle describes.
THEOREM WebKeepsLifecycle == WebSpec => ImplementsLifecycle
<1>1. WebInit => Lifecycle!Init
  BY InitLife DEF WebInit
<1>2. WInv /\ [WebNext]_allVars => [Lifecycle!Next]_(Lifecycle!vars)
  BY WebStepCreation, StepLife DEF WInv
<1> QED BY <1>1, <1>2, WebInvariance, PTL DEF WebSpec, ImplementsLifecycle, Lifecycle!Spec

\* So what InboxCreation guarantees is guaranteed to a browser: the responses it
\* stops waiting for and the order it asks in make no difference.
THEOREM WebKeepsCreation ==
    WebSpec => [](CredentialHasInbox /\ MarksAreTrue /\ RevokedOnlyIfFailed /\ LambdaWaits)
<1>1. WInv => CredentialHasInbox
  BY DEF WInv, IInv, HandlerInv, RowInv, CredentialHasInbox
<1>2. WInv => MarksAreTrue /\ RevokedOnlyIfFailed
  BY DEF WInv, IInv, HandlerInv, RowInv, MarksAreTrue, RevokedOnlyIfFailed
<1>3. WInv => LambdaWaits
  BY DEF WInv, IInv, HandlerInv, LambdaWaits
<1> QED BY <1>1, <1>2, <1>3, WebInvariance, PTL
=============================================================================
