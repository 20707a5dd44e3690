------------------------ MODULE InboxCreationProofs ------------------------
(***************************************************************************)
(* What InboxCreation guarantees for any number of requests and addresses, *)
(* any lifetime and each of the three databases.                           *)
(*                                                                         *)
(* The safety properties are not inductive: that a credential's inbox is   *)
(* stored depends on where the handler was when the goroutine wrote, on    *)
(* what the goroutine can have written by then, and on the clock not       *)
(* having reached the TTL.  IInv says all that, request by request:        *)
(* HandlerInv where the handler and its goroutine can be, ClockInv how far *)
(* the clock can be, RowInv what the row looks like.                       *)
(***************************************************************************)
EXTENDS InboxCreation, DatabaseProofs

HandlerInv(id) ==
    /\ inbox[id].EmailProviderRouteID = "-"
    /\ ~inbox[id].FailedToCreate
    /\ pc[id] # "idle" => inbox[id].Address \in Addresses
    /\ task[id] = "none" =>
          /\ pc[id] \in {"idle", "checked", "refused", "killed"}
          /\ inbox[id].TTL = 0
          /\ answer[id] = "none"
          /\ id \notin saved
          /\ ~Stored(id)
    /\ task[id] # "none" =>
          /\ pc[id] \notin {"idle", "checked"}
          /\ inbox[id].TTL # 0
    /\ pc[id] = "launched" => id \notin saved
    /\ Backend = "memory" /\ task[id] = "running" /\ id \notin saved => pc[id] = "launched"
    /\ pc[id] \in {"launched", "saved"} => task[id] \in {"running", "done"}
    /\ pc[id] \in {"saved", "created"} => id \in saved
    /\ UsingLambda /\ pc[id] = "created" => task[id] = "done"
    /\ grant[id] # "none" => pc[id] \in Ended /\ id \in saved
    /\ grant[id] = "revoked" => answer[id] = "error"

\* While an inbox is being made its time is not up.
ClockInv(id) == Working(id) /\ task[id] # "none" => now < inbox[id].TTL

\* The row of a saved inbox is the handler's, and is there as long as its
\* time is not up; the row of an inbox not saved was left by the goroutine.
RowInv(id) ==
    /\ id \in saved /\ Stored(id) =>
          /\ inboxes[id].TTL = inbox[id].TTL
          /\ inboxes[id].Address \in Addresses
          /\ SameAddress(inboxes[id].Address, inbox[id].Address)
    /\ id \in saved /\ (Durable \/ restarts = 0) /\ now < inbox[id].TTL => Stored(id)
    /\ id \in saved /\ Working(id) => Stored(id)
    /\ id \notin saved /\ Stored(id) =>
          /\ Backend # "sql"
          /\ Backend = "memory" => pc[id] = "launched"
          /\ Backend = "dynamo" => inboxes[id].TTL = 0
          /\ task[id] # "running"
          /\ inboxes[id].FailedToCreate \/ inboxes[id].EmailProviderRouteID = "route"
    /\ Stored(id) =>
          /\ inboxes[id].FailedToCreate => answer[id] = "error"
          /\ inboxes[id].EmailProviderRouteID = "route" => answer[id] = "route"
    /\ Stored(id) /\ task[id] = "running" =>
          ~inboxes[id].FailedToCreate /\ inboxes[id].EmailProviderRouteID # "route"

IInv ==
    /\ TypeOK
    /\ \A id \in InboxIDs : HandlerInv(id) /\ ClockInv(id) /\ RowInv(id)

-----------------------------------------------------------------------------
(* The invariant holds initially, and every step keeps the types.          *)

LEMMA InitIInv == Init => IInv
<1> SUFFICES ASSUME Init PROVE IInv
  OBVIOUS
<1>1. TypeOK
  BY DBInitType, NewInboxType, CreationAssumption
  DEF Init, TypeOK, Steps, Kinds, Ended
<1>2. ASSUME NEW id \in InboxIDs
      PROVE  HandlerInv(id) /\ ClockInv(id) /\ RowInv(id)
  BY DEF Init, DBInit, HandlerInv, ClockInv, RowInv, NewInbox, ZeroInbox, Stored,
         Working, InFlight, Ended
<1> QED BY <1>1, <1>2 DEF IInv

LEMMA TypeStep == IInv /\ [Next]_vars => TypeOK'
<1> SUFFICES ASSUME IInv, [Next]_vars PROVE TypeOK'
  OBVIOUS
<1>0. TypeOK
  BY DEF IInv
<1>1. ASSUME NEW id \in InboxIDs, NEW k \in Kinds, NEW a \in Addresses, CheckAddress(id, k, a)
      PROVE  TypeOK'
  <2>1. [NewInbox EXCEPT !.Address = a] \in Inbox
    BY NewInboxType DEF Inbox
  <2> QED BY <1>0, <1>1, <2>1
      DEF TypeOK, CheckAddress, Goto, Steps, Ended, taskVars, dbVars, DBTypeOK
<1>2. ASSUME NEW id \in InboxIDs, Launch(id)
      PROVE  TypeOK'
  <2>1. [inbox[id] EXCEPT !.TTL = now + Life] \in Inbox
    BY <1>0, CreationAssumption DEF TypeOK, Inbox
  <2>2. inbox' = [inbox EXCEPT ![id] = [inbox[id] EXCEPT !.TTL = now + Life]]
    BY <1>2 DEF Launch
  <2> QED BY <1>0, <1>2, <2>1, <2>2
      DEF TypeOK, Launch, Goto, Steps, Ended, taskVars, dbVars, DBTypeOK
<1>3. ASSUME NEW id \in InboxIDs, Save(id)
      PROVE  TypeOK'
  <2>1. inbox[id] \in Inbox /\ inbox[id].Address \in Addresses
    BY <1>0, <1>3 DEF TypeOK, IInv, HandlerInv, Save
  <2>2. DBTypeOK'
    BY <1>0, <1>3, <2>1, SaveNewInboxType DEF Save, TypeOK
  <2> QED BY <1>0, <1>3, <2>2 DEF TypeOK, Save, Goto, Steps, Ended, taskVars
<1>4. ASSUME NEW id \in InboxIDs, Answer(id) \/ Show(id)
      PROVE  TypeOK'
  BY <1>0, <1>4 DEF TypeOK, Answer, Show, Send, Goto, Steps, Ended, taskVars, dbVars, DBTypeOK
<1>5. ASSUME NEW id \in InboxIDs, Register(id)
      PROVE  TypeOK'
  BY <1>0, <1>5, CreationAssumption
  DEF TypeOK, Register, requestVars, dbVars, DBTypeOK
<1>6. ASSUME NEW id \in InboxIDs, Update(id)
      PROVE  TypeOK'
  <2>1. /\ [inbox[id] EXCEPT !.FailedToCreate = TRUE] \in Inbox
        /\ [inbox[id] EXCEPT !.EmailProviderRouteID = "route"] \in Inbox
    BY <1>0 DEF TypeOK, Inbox, RouteIDs
  <2>2. DBTypeOK'
    BY <1>0, <1>6, <2>1, SetInboxFailedType, SetInboxCreatedType DEF Update, TypeOK
  <2> QED BY <1>0, <1>6, <2>2 DEF TypeOK, Update, requestVars
<1>7. ASSUME NEW id \in InboxIDs, Freeze(id)
      PROVE  TypeOK'
  BY <1>0, <1>7 DEF TypeOK, Freeze, requestVars, dbVars, DBTypeOK
<1>8. CASE CleanUp
  BY <1>0, <1>8, DeleteExpiredType DEF TypeOK, CleanUp, requestVars, taskVars
<1>9. CASE Propagate
  BY <1>0, <1>9, PropagateIndexType DEF TypeOK, Propagate, requestVars, taskVars
<1>10. CASE Restart
  BY <1>0, <1>10, RestartDBType, CreationAssumption
  DEF TypeOK, Restart, Steps, Ended
<1>11. CASE Tick
  BY <1>0, <1>11 DEF TypeOK, Tick, requestVars, taskVars, dbVars, DBTypeOK
<1>12. CASE UNCHANGED vars
  BY <1>0, <1>12 DEF TypeOK, vars, requestVars, taskVars, dbVars, DBTypeOK
<1> QED
  BY <1>1, <1>2, <1>3, <1>4, <1>5, <1>6, <1>7, <1>8, <1>9, <1>10, <1>11, <1>12
  DEF Next, Handle, Settle

-----------------------------------------------------------------------------
(* Every step keeps the rest of the invariant.                             *)

RequestInv(id) == HandlerInv(id) /\ ClockInv(id) /\ RowInv(id)

\* A request all of whose state stays as it is keeps its invariant.
LEMMA Frame ==
    ASSUME NEW id \in InboxIDs, RequestInv(id),
           pc'[id] = pc[id], inbox'[id] = inbox[id], task'[id] = task[id],
           answer'[id] = answer[id], grant'[id] = grant[id],
           inboxes'[id] = inboxes[id],
           (id \in saved') <=> (id \in saved),
           now' = now, restarts' = restarts
    PROVE  RequestInv(id)'
  BY DEF RequestInv, HandlerInv, ClockInv, RowInv, Stored, Working, InFlight

\* The handler's steps that leave the database alone.
LEMMA HandlerStep ==
    ASSUME IInv, NEW id \in InboxIDs,
           \/ \E k \in Kinds, a \in Addresses : CheckAddress(id, k, a)
           \/ Launch(id) \/ Answer(id) \/ Show(id)
    PROVE  \A j \in InboxIDs : RequestInv(j)'
<1>0. TypeOK /\ DBTypeOK /\ \A j \in InboxIDs : RequestInv(j)
  BY DEF IInv, TypeOK, RequestInv
<1>1. SUFFICES RequestInv(id)'
  <2>1. ASSUME NEW j \in InboxIDs, j # id
        PROVE  RequestInv(j)'
    <3>1. /\ pc'[j] = pc[j] /\ inbox'[j] = inbox[j] /\ task'[j] = task[j]
          /\ answer' = answer /\ grant'[j] = grant[j] /\ inboxes' = inboxes
          /\ saved' = saved /\ now' = now /\ restarts' = restarts
      BY <1>0, <2>1 DEF TypeOK, CheckAddress, Launch, Answer, Show, Send, Goto,
                        taskVars, dbVars
    <3> QED BY <1>0, <3>1, Frame
  <2> QED BY <2>1
<1>2. ASSUME NEW k \in Kinds, NEW a \in Addresses, CheckAddress(id, k, a)
      PROVE  RequestInv(id)'
  <2>1. /\ pc[id] = "idle" /\ pc'[id] \in {"checked", "refused"}
        /\ inbox'[id] = [NewInbox EXCEPT !.Address = a]
        /\ task' = task /\ answer' = answer /\ grant' = grant /\ inboxes' = inboxes
        /\ saved' = saved /\ now' = now /\ restarts' = restarts
    BY <1>0, <1>2 DEF TypeOK, CheckAddress, Goto, taskVars, dbVars
  <2>2. /\ inbox'[id].Address = a /\ inbox'[id].TTL = 0
        /\ inbox'[id].EmailProviderRouteID = "-" /\ ~inbox'[id].FailedToCreate
    BY <2>1 DEF NewInbox, ZeroInbox
  <2>3. task[id] = "none" /\ id \notin saved /\ ~Stored(id) /\ answer[id] = "none"
        /\ grant[id] = "none"
    BY <1>0, <2>1 DEF TypeOK, RequestInv, HandlerInv, Ended
  <2> QED
    BY <2>1, <2>2, <2>3
    DEF RequestInv, HandlerInv, ClockInv, RowInv, Stored, Working, InFlight, Ended
<1>3. CASE Launch(id)
  <2>1. /\ inbox'[id].TTL = now + Life
        /\ inbox'[id].Address = inbox[id].Address
        /\ inbox'[id].EmailProviderRouteID = inbox[id].EmailProviderRouteID
        /\ inbox'[id].FailedToCreate = inbox[id].FailedToCreate
    BY <1>0, <1>3 DEF TypeOK, Launch, Inbox
  <2>2. now < inbox'[id].TTL /\ inbox'[id].TTL # 0
    BY <1>0, <2>1, CreationAssumption DEF TypeOK
  <2> QED
    BY <1>0, <1>3, <2>1, <2>2 DEF TypeOK, Launch, Goto, taskVars, dbVars,
       RequestInv, HandlerInv, ClockInv, RowInv, Stored, Working, InFlight, Ended
<1>4. CASE Answer(id)
  BY <1>0, <1>4 DEF TypeOK, Answer, MayAnswer, Send, Goto, taskVars, dbVars,
     RequestInv, HandlerInv, ClockInv, RowInv, Stored, Working, InFlight, Ended
<1>5. CASE Show(id)
  <2>1. GetInboxByID(id).FailedToCreate /\ ~GetInboxByIDFails(id) => answer[id] = "error"
    BY <1>0 DEF GetInboxByID, ZeroInbox, RequestInv, RowInv
  <2> QED
    BY <1>0, <1>5, <2>1 DEF TypeOK, Show, MayAnswer, Send, Goto, taskVars, dbVars,
       RequestInv, HandlerInv, ClockInv, RowInv, Stored, Working, InFlight, Ended
<1> QED BY <1>2, <1>3, <1>4, <1>5

\* The save: the row is the handler's, or nothing was written.
LEMMA SaveStep ==
    ASSUME IInv, NEW id \in InboxIDs, Save(id)
    PROVE  \A j \in InboxIDs : RequestInv(j)'
<1>0. TypeOK /\ DBTypeOK /\ \A j \in InboxIDs : RequestInv(j)
  BY DEF IInv, TypeOK, RequestInv
<1>1. inbox[id] \in Inbox /\ inbox[id].Address \in Addresses
  BY <1>0 DEF TypeOK, RequestInv, HandlerInv, Save
<1>2. PICK ok \in BOOLEAN :
         SaveNewInbox(id, inbox[id], ok) /\ Goto(id, IF ok THEN "saved" ELSE "refused")
  BY DEF Save
<1>3. /\ \A k \in InboxIDs : k # id => inboxes'[k] = inboxes[k]
      /\ Holds(inboxes'[id], inbox[id]) \/ (~ok /\ inboxes' = inboxes)
      /\ Backend = "memory" => ok
  BY <1>0, <1>1, <1>2, SaveNewInboxRows
<1>4. ASSUME NEW j \in InboxIDs, j # id
      PROVE  RequestInv(j)'
  <2>1. /\ pc'[j] = pc[j] /\ inbox' = inbox /\ task' = task /\ answer' = answer
        /\ grant' = grant /\ inboxes'[j] = inboxes[j] /\ now' = now
        /\ restarts' = restarts /\ ((j \in saved') <=> (j \in saved))
    BY <1>0, <1>2, <1>3, <1>4 DEF TypeOK, Save, Goto, taskVars
  <2> QED BY <1>0, <2>1, Frame
<1>5. RequestInv(id)'
  <2>1. CASE ~ok /\ inboxes' = inboxes
    BY <1>0, <1>2, <1>3, <2>1 DEF TypeOK, Save, Goto, taskVars,
       RequestInv, HandlerInv, ClockInv, RowInv, Stored, Working, InFlight, Ended
  <2>2. CASE Holds(inboxes'[id], inbox[id])
    <3>1. inboxes' # inboxes
      BY <1>0, <2>2 DEF Save, Holds, RequestInv, HandlerInv, RowInv, Stored
    <3>2. id \in saved' /\ pc'[id] \in {"saved", "refused"} /\ inboxes'[id] # Nil
      BY <1>0, <1>2, <2>2, <3>1 DEF TypeOK, Save, Goto, Holds
    <3>3. now < inbox[id].TTL
      BY <1>0 DEF Save, RequestInv, HandlerInv, ClockInv, Working, InFlight, Ended
    <3> QED
      BY <1>0, <1>1, <2>2, <3>2, <3>3 DEF Save, taskVars, Holds,
         RequestInv, HandlerInv, ClockInv, RowInv, Stored, Working, InFlight, Ended
  <2> QED BY <1>3, <2>1, <2>2
<1> QED BY <1>4, <1>5

\* The goroutine's answer from the provider, and its end on Lambda.
LEMMA TaskStep ==
    ASSUME IInv, NEW id \in InboxIDs, Register(id) \/ Freeze(id)
    PROVE  \A j \in InboxIDs : RequestInv(j)'
<1>0. TypeOK /\ \A j \in InboxIDs : RequestInv(j)
  BY DEF IInv, RequestInv
<1>1. ASSUME NEW j \in InboxIDs, j # id
      PROVE  RequestInv(j)'
  <2>1. /\ pc' = pc /\ inbox' = inbox /\ task'[j] = task[j] /\ answer'[j] = answer[j]
        /\ grant' = grant /\ inboxes' = inboxes /\ now' = now
        /\ restarts' = restarts /\ saved' = saved
    BY <1>0, <1>1 DEF TypeOK, Register, Freeze, requestVars, dbVars
  <2> QED BY <1>0, <2>1, Frame
<1>2. CASE Register(id)
  BY <1>0, <1>2 DEF TypeOK, Register, requestVars, dbVars,
     RequestInv, HandlerInv, ClockInv, RowInv, Stored, Working, InFlight, Ended
<1>3. CASE Freeze(id)
  BY <1>0, <1>3 DEF TypeOK, Freeze, requestVars, dbVars,
     RequestInv, HandlerInv, ClockInv, RowInv, Stored, Working, InFlight, Ended
<1> QED BY <1>1, <1>2, <1>3

\* The row says how the registration went.
Tells(row, ans) ==
    IF ans = "error" THEN row.FailedToCreate
    ELSE ~row.FailedToCreate /\ row.EmailProviderRouteID = "route"

\* The goroutine's write: it starts from the handler's inbox or from the row,
\* which for a saved inbox say the same of address and TTL.
LEMMA UpdateWrites ==
    ASSUME IInv, NEW id \in InboxIDs, Update(id)
    PROVE  /\ \A k \in InboxIDs : k # id => inboxes'[k] = inboxes[k]
           /\ \/ inboxes' = inboxes
              \/ /\ Backend = "sql" => Stored(id)
                 /\ inboxes'[id] # Nil
                 /\ Tells(inboxes'[id], answer[id])
                 /\ inboxes'[id].FailedToCreate => answer[id] = "error"
                 /\ inboxes'[id].EmailProviderRouteID = "route" => answer[id] = "route"
                 /\ Backend = "memory" =>
                       inboxes'[id].TTL = inbox[id].TTL /\ inboxes'[id].Address = inbox[id].Address
                 /\ Backend # "memory" /\ Stored(id) =>
                       inboxes'[id].TTL = inboxes[id].TTL /\ inboxes'[id].Address = inboxes[id].Address
                 /\ Backend = "dynamo" /\ ~Stored(id) => inboxes'[id].TTL = 0
<1>0. TypeOK /\ DBTypeOK /\ RequestInv(id)
  BY DEF IInv, TypeOK, RequestInv
<1> DEFINE failed  == [inbox[id] EXCEPT !.FailedToCreate = TRUE]
           created == [inbox[id] EXCEPT !.EmailProviderRouteID = "route"]
<1>1. failed \in Inbox /\ created \in Inbox
  BY <1>0 DEF TypeOK, Inbox, RouteIDs
<1>2. PICK ok \in BOOLEAN :
         IF answer[id] = "error" THEN SetInboxFailed(id, failed, ok)
         ELSE SetInboxCreated(id, created, ok)
  BY DEF Update
<1>3. task[id] = "running" /\ answer[id] \in {"route", "error"}
  BY <1>0 DEF Update, TypeOK
<1>4. \A k \in InboxIDs : k # id => inboxes'[k] = inboxes[k]
  BY <1>0, <1>1, <1>2, SetInboxOthers
<1>5. \/ inboxes' = inboxes
      \/ /\ Backend = "sql" => Stored(id)
         /\ inboxes'[id] # Nil
         /\ Tells(inboxes'[id], answer[id])
         /\ inboxes'[id].FailedToCreate => answer[id] = "error"
         /\ inboxes'[id].EmailProviderRouteID = "route" => answer[id] = "route"
         /\ Backend = "memory" =>
               inboxes'[id].TTL = inbox[id].TTL /\ inboxes'[id].Address = inbox[id].Address
         /\ Backend # "memory" /\ Stored(id) =>
               inboxes'[id].TTL = inboxes[id].TTL /\ inboxes'[id].Address = inboxes[id].Address
         /\ Backend = "dynamo" /\ ~Stored(id) => inboxes'[id].TTL = 0
  <2>1. ~inbox[id].FailedToCreate /\ inbox[id].EmailProviderRouteID = "-"
    BY <1>0 DEF RequestInv, HandlerInv
  <2>2. Stored(id) => /\ inboxes[id] \in Inbox
                      /\ ~inboxes[id].FailedToCreate
                      /\ inboxes[id].EmailProviderRouteID # "route"
    BY <1>0, <1>3 DEF RequestInv, RowInv, DBTypeOK, Stored
  <2>3. ZeroInbox \in Inbox /\ inbox[id] \in Inbox
    BY <1>0, NewInboxType DEF TypeOK
  <2>4. CASE answer[id] = "error"
    <3>1. \/ inboxes' = inboxes
          \/ /\ inboxes'[id] = [Base(id, failed) EXCEPT !.FailedToCreate = TRUE]
             /\ Backend = "sql" => Stored(id)
      BY <1>0, <1>1, <1>2, <2>4, SetInboxFailedRows
    <3>2. Base(id, failed) \in Inbox
      BY <1>1, <2>2, <2>3 DEF Base
    <3>3. [Base(id, failed) EXCEPT !.FailedToCreate = TRUE] # Nil
      BY <3>2, NilAssumption DEF Inbox
    <3> QED BY <1>3, <2>1, <2>2, <2>3, <2>4, <3>1, <3>2, <3>3 DEF Tells, Base, ZeroInbox, Inbox
  <2>5. CASE answer[id] = "route"
    <3>1. \/ inboxes' = inboxes
          \/ /\ inboxes'[id] = [Base(id, created) EXCEPT
                     !.FailedToCreate = FALSE,
                     !.EmailProviderRouteID = created.EmailProviderRouteID]
             /\ Backend = "sql" => Stored(id)
      BY <1>0, <1>1, <1>2, <2>5, SetInboxCreatedRows
    <3>2. Base(id, created) \in Inbox /\ created.EmailProviderRouteID = "route"
      BY <1>1, <2>2, <2>3 DEF Base, Inbox
    <3>3. [Base(id, created) EXCEPT !.FailedToCreate = FALSE,
                                    !.EmailProviderRouteID = "route"] # Nil
      BY <3>2, NilAssumption DEF Inbox, RouteIDs
    <3> QED BY <1>3, <2>1, <2>2, <2>3, <2>5, <3>1, <3>2, <3>3 DEF Tells, Base, ZeroInbox, Inbox
  <2> QED BY <1>3, <2>4, <2>5
<1> QED BY <1>4, <1>5

LEMMA UpdateStep ==
    ASSUME IInv, NEW id \in InboxIDs, Update(id)
    PROVE  \A j \in InboxIDs : RequestInv(j)'
<1>0. TypeOK /\ DBTypeOK /\ \A j \in InboxIDs : RequestInv(j)
  BY DEF IInv, TypeOK, RequestInv
<1>1. /\ task[id] = "running" /\ answer[id] \in {"route", "error"}
      /\ task' = [task EXCEPT ![id] = "done"]
      /\ pc' = pc /\ inbox' = inbox /\ answer' = answer /\ grant' = grant
      /\ now' = now /\ restarts' = restarts /\ saved' = saved
  BY <1>0 DEF Update, TypeOK, requestVars
<1>2. ASSUME NEW j \in InboxIDs, j # id
      PROVE  RequestInv(j)'
  <2>1. task'[j] = task[j] /\ inboxes'[j] = inboxes[j]
    BY <1>0, <1>1, <1>2, UpdateWrites DEF TypeOK
  <2> QED BY <1>0, <1>1, <2>1, Frame
<1>3. RequestInv(id)'
  <2>1. task'[id] = "done" /\ (Working(id)' => Working(id))
    BY <1>0, <1>1 DEF TypeOK, Working, InFlight
  <2>2. HandlerInv(id)' /\ ClockInv(id)'
    <3>1. id \in saved => Stored(id)
      BY <1>0, <1>1 DEF RequestInv, RowInv, Working
    <3> QED BY <1>0, <1>1, <2>1 DEF RequestInv, HandlerInv, ClockInv, Working
  <2>3. RowInv(id)'
    <3>1. CASE inboxes' = inboxes
      BY <1>0, <1>1, <2>1, <3>1 DEF RequestInv, HandlerInv, RowInv, Stored
    <3>2. CASE inboxes' # inboxes
      <4>1. (id \in saved => Stored(id)) /\ (id \notin saved => ~Stored(id))
        BY <1>0, <1>1 DEF RequestInv, RowInv, Working
      <4>2. Backend = "memory" /\ id \notin saved => pc[id] = "launched"
        BY <1>0, <1>1 DEF RequestInv, HandlerInv
      <4>3. inbox[id].Address \in Addresses /\ SameAddress(inbox[id].Address, inbox[id].Address)
        BY <1>0, <1>1 DEF RequestInv, HandlerInv, SameAddress
      <4>4. /\ Backend = "sql" => Stored(id)
            /\ inboxes'[id] # Nil
            /\ inboxes'[id].FailedToCreate \/ inboxes'[id].EmailProviderRouteID = "route"
            /\ inboxes'[id].FailedToCreate => answer[id] = "error"
            /\ inboxes'[id].EmailProviderRouteID = "route" => answer[id] = "route"
            /\ Backend = "memory" =>
                  inboxes'[id].TTL = inbox[id].TTL /\ inboxes'[id].Address = inbox[id].Address
            /\ Backend # "memory" /\ Stored(id) =>
                  inboxes'[id].TTL = inboxes[id].TTL /\ inboxes'[id].Address = inboxes[id].Address
            /\ Backend = "dynamo" /\ ~Stored(id) => inboxes'[id].TTL = 0
        BY <1>1, <3>2, UpdateWrites DEF Tells
      <4> QED
        BY <1>0, <1>1, <2>1, <3>2, <4>1, <4>2, <4>3, <4>4, DatabaseAssumption
        DEF RequestInv, RowInv, Stored
    <3> QED BY <3>1, <3>2
  <2> QED BY <2>2, <2>3 DEF RequestInv
<1> QED BY <1>2, <1>3

\* A sweep takes no row of an inbox still being made: its time is not up.
LEMMA CleanUpStep ==
    ASSUME IInv, CleanUp
    PROVE  \A j \in InboxIDs : RequestInv(j)'
<1>0. TypeOK /\ DBTypeOK /\ \A j \in InboxIDs : RequestInv(j)
  BY DEF IInv, TypeOK, RequestInv
<1>1. /\ pc' = pc /\ inbox' = inbox /\ task' = task /\ answer' = answer /\ grant' = grant
      /\ now' = now /\ restarts' = restarts /\ saved' = saved
  BY DEF CleanUp, requestVars, taskVars
<1>2. SUFFICES ASSUME NEW j \in InboxIDs PROVE RequestInv(j)'
  OBVIOUS
<1>3. \/ inboxes'[j] = inboxes[j]
      \/ inboxes'[j] = Nil /\ inboxes[j] # Nil /\ inboxes[j].TTL <= now
  BY <1>0, DeleteExpiredRows DEF TypeOK, CleanUp
<1>4. CASE inboxes'[j] = inboxes[j]
  BY <1>0, <1>1, <1>4, Frame
<1>5. CASE inboxes'[j] = Nil /\ inboxes[j] # Nil /\ inboxes[j].TTL <= now
  <2>1. now \in Nat /\ inbox[j].TTL \in Nat
    BY <1>0 DEF TypeOK, Inbox
  <2>2. j \in saved => inbox[j].TTL <= now
    BY <1>0, <1>5 DEF RequestInv, RowInv, Stored
  <2>3. HandlerInv(j)' /\ ClockInv(j)'
    BY <1>0, <1>1, <1>5 DEF RequestInv, HandlerInv, ClockInv, Stored, Working, InFlight
  <2>4. j \in saved => ~Working(j)
    BY <1>0, <2>1, <2>2 DEF RequestInv, HandlerInv, ClockInv
  <2>5. RowInv(j)'
    BY <1>0, <1>1, <1>5, <2>1, <2>2, <2>4 DEF RequestInv, RowInv, Stored, Working, InFlight
  <2> QED BY <2>3, <2>5 DEF RequestInv
<1> QED BY <1>3, <1>4, <1>5

\* A crash ends every request and goroutine under way.
LEMMA RestartStep ==
    ASSUME IInv, Restart
    PROVE  \A j \in InboxIDs : RequestInv(j)'
<1>0. TypeOK /\ \A j \in InboxIDs : RequestInv(j)
  BY DEF IInv, RequestInv
<1>1. SUFFICES ASSUME NEW j \in InboxIDs PROVE RequestInv(j)'
  OBVIOUS
<1>2. /\ pc'[j] = IF InFlight(j) THEN "killed" ELSE pc[j]
      /\ task'[j] = IF task[j] = "running" THEN "killed" ELSE task[j]
      /\ inbox' = inbox /\ answer' = answer /\ grant' = grant
      /\ now' = now /\ saved' = saved
      /\ restarts' # 0
  BY <1>0 DEF Restart, TypeOK
<1>3. IF Durable THEN inboxes'[j] = inboxes[j] ELSE inboxes'[j] = Nil
  BY RestartDBRows DEF Restart
<1>4. ~Working(j)'
  BY <1>2 DEF Working, InFlight, Ended
<1>5. HandlerInv(j)'
  BY <1>0, <1>2, <1>3 DEF RequestInv, HandlerInv, Stored, InFlight, Ended
<1>6. RowInv(j)'
  BY <1>0, <1>2, <1>3, <1>4 DEF RequestInv, RowInv, Durable, Stored, InFlight, Ended
<1> QED BY <1>4, <1>5, <1>6 DEF RequestInv, ClockInv

\* The clock stops short of the TTL of an inbox still being made.
LEMMA TickStep ==
    ASSUME IInv, Tick
    PROVE  \A j \in InboxIDs : RequestInv(j)'
<1>0. TypeOK /\ \A j \in InboxIDs : RequestInv(j)
  BY DEF IInv, RequestInv
<1>1. SUFFICES ASSUME NEW j \in InboxIDs PROVE RequestInv(j)'
  OBVIOUS
<1>2. now \in Nat /\ inbox[j].TTL \in Nat
  BY <1>0 DEF TypeOK, Inbox
<1>3. /\ pc' = pc /\ inbox' = inbox /\ task' = task /\ answer' = answer /\ grant' = grant
      /\ inboxes' = inboxes /\ now' = now + 1 /\ restarts' = restarts /\ saved' = saved
  BY DEF Tick, requestVars, taskVars, dbVars
<1>4. HandlerInv(j)'
  BY <1>0, <1>3 DEF RequestInv, HandlerInv, Stored
<1>5. ClockInv(j)'
  <2>1. task[j] # "none" => pc[j] # "checked"
    BY <1>0 DEF RequestInv, HandlerInv
  <2> QED BY <1>3, <2>1 DEF Tick, ClockInv, Working, InFlight
<1>6. RowInv(j)'
  BY <1>0, <1>2, <1>3 DEF RequestInv, RowInv, Stored, Working, InFlight
<1> QED BY <1>4, <1>5, <1>6 DEF RequestInv

LEMMA StepIInv == IInv /\ [Next]_vars => IInv'
<1> SUFFICES ASSUME IInv, [Next]_vars PROVE \A j \in InboxIDs : RequestInv(j)'
  BY TypeStep DEF IInv, RequestInv
<1>0. \A j \in InboxIDs : RequestInv(j)
  BY DEF IInv, RequestInv
<1>1. CASE Propagate \/ UNCHANGED vars
  <2>1. /\ UNCHANGED <<pc, inbox, task, answer, grant, inboxes, now, restarts>>
        /\ saved' = saved
    BY <1>1 DEF Propagate, PropagateIndex, vars, requestVars, taskVars, dbVars
  <2> QED BY <1>0, <2>1, Frame
<1> QED
  BY <1>1, HandlerStep, SaveStep, TaskStep, UpdateStep, CleanUpStep, RestartStep, TickStep
  DEF Next, Handle, Settle

LEMMA Invariance == Spec => []IInv
  BY InitIInv, StepIInv, PTL DEF Spec

-----------------------------------------------------------------------------
(* The theorems.                                                           *)

\* Every variable keeps its type.
THEOREM TypeCorrect == Spec => []TypeOK
<1>1. IInv => TypeOK
  BY DEF IInv
<1> QED BY <1>1, Invariance, PTL

\* Whoever holds an inbox's credential finds the inbox stored, under its
\* address and with its TTL, until that TTL: however handler, goroutine,
\* sweeps, crashes and other requests interleave, and whichever of the calls
\* to a database over a network fail.
THEOREM CredentialSafe == Spec => []CredentialHasInbox
<1>1. IInv => CredentialHasInbox
  BY DEF IInv, HandlerInv, RowInv, CredentialHasInbox
<1> QED BY <1>1, Invariance, PTL

\* An inbox is marked as failed, or carries a route, only when the email
\* provider said so.
THEOREM MarksTrue == Spec => []MarksAreTrue
<1>1. IInv => MarksAreTrue
  BY DEF IInv, RowInv, MarksAreTrue
<1> QED BY <1>1, Invariance, PTL

\* A cookie is only taken away again for an inbox the provider refused.
THEOREM RevocationJustified == Spec => []RevokedOnlyIfFailed
<1>1. IInv => RevokedOnlyIfFailed
  BY DEF IInv, HandlerInv, RevokedOnlyIfFailed
<1> QED BY <1>1, Invariance, PTL

\* With PostgreSQL, SQLite and the in-memory store, a request that is over
\* left a row only if it saved it.  (DynamoDB's updates make items.)
THEOREM NoStrays == Backend # "dynamo" => (Spec => []NoStrayRow)
<1> SUFFICES ASSUME Backend # "dynamo" PROVE Spec => []NoStrayRow
  OBVIOUS
<1>1. IInv => NoStrayRow
  BY DatabaseAssumption DEF IInv, RowInv, NoStrayRow, Ended
<1> QED BY <1>1, Invariance, PTL

\* On Lambda an inbox is only handed out once its registration is over.
THEOREM LambdaSafe == Spec => []LambdaWaits
<1>1. IInv => LambdaWaits
  BY DEF IInv, HandlerInv, LambdaWaits
<1> QED BY <1>1, Invariance, PTL

LEMMA UniqueStep ==
    ASSUME Backend = "sql", IInv, UniqueRows, [Next]_vars
    PROVE  UniqueRows'
<1>0. TypeOK /\ DBTypeOK
  BY DEF IInv, TypeOK
<1>1. CASE inboxes' = inboxes
  BY <1>1, UniqueRowsKept DEF Stored
<1>2. ASSUME NEW id \in InboxIDs, Save(id)
      PROVE  UniqueRows'
  <2>1. inbox[id] \in Inbox /\ inbox[id].Address \in Addresses
    BY <1>0, <1>2 DEF TypeOK, IInv, HandlerInv, Save
  <2> QED BY <1>0, <1>2, <2>1, SaveNewInboxUnique DEF Save
<1>3. ASSUME NEW id \in InboxIDs, Update(id)
      PROVE  UniqueRows'
  <2>1. /\ [inbox[id] EXCEPT !.FailedToCreate = TRUE] \in Inbox
        /\ [inbox[id] EXCEPT !.EmailProviderRouteID = "route"] \in Inbox
    BY <1>0 DEF TypeOK, Inbox, RouteIDs
  <2> QED BY <1>0, <1>3, <2>1, SetInboxUnique DEF Update
<1>4. CASE CleanUp
  <2>1. \A k \in InboxIDs : inboxes'[k] = inboxes[k] \/ inboxes'[k] = Nil
    BY <1>0, <1>4, DeleteExpiredRows DEF CleanUp, TypeOK
  <2> QED BY <2>1, UniqueRowsKept DEF Stored
<1>5. CASE Restart
  BY <1>1, <1>5, RestartDBRows DEF Restart, Durable
<1>6. inboxes' = inboxes \/ CleanUp \/ Restart \/ (\E id \in InboxIDs : Save(id) \/ Update(id))
  BY DEF Next, Handle, Settle, CheckAddress, Launch, Answer, Show, Send, Register, Freeze,
         Propagate, PropagateIndex, Tick, vars, dbVars
<1> QED BY <1>1, <1>2, <1>3, <1>4, <1>5, <1>6

\* With a SQL database no two inboxes have the same address, however many
\* requests pass the check for it at the same time.
THEOREM AddressesUnique == Backend = "sql" => (Spec => []AddressUnique)
<1> SUFFICES ASSUME Backend = "sql" PROVE Spec => []AddressUnique
  OBVIOUS
<1>1. Init => UniqueRows
  BY DEF Init, DBInit, UniqueRows, Stored
<1>2. IInv /\ UniqueRows /\ [Next]_vars => UniqueRows'
  BY UniqueStep
<1>3. IInv /\ UniqueRows => AddressUnique
  BY DEF IInv, TypeOK, UniqueRows, AddressUnique, SameAddress
<1> QED BY <1>1, <1>2, <1>3, Invariance, PTL DEF Spec
=============================================================================
