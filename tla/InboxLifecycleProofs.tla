------------------------ MODULE InboxLifecycleProofs ------------------------
(***************************************************************************)
(* InboxCreation implements InboxLifecycle: every step of a handler, a     *)
(* goroutine, a sweep, the clock or a crash is a step of the life of one   *)
(* inbox (of several, for the sweep of a SQL or in-memory store and for    *)
(* the crash of the latter), or leaves all lives as they are.              *)
(***************************************************************************)
EXTENDS InboxCreationProofs

lives    == [id \in InboxIDs |-> Status(id)]
expiries == [id \in InboxIDs |-> inbox[id].TTL]

LEMMA StatusValues ==
    ASSUME NEW id \in InboxIDs
    PROVE  /\ id \notin saved <=> Status(id) = "none"
           /\ id \in saved /\ ~Stored(id) <=> Status(id) = "gone"
           /\ id \in saved /\ Stored(id) <=> Status(id) \in {"pending", "ready", "failed"}
           /\ Status(id) = "pending" <=> id \in saved /\ Stored(id) /\ ~Marked(id) /\ ~Routed(id)
  BY DEF Status, Marked

\* A life is a function of these four.
LEMMA SameStatus ==
    ASSUME NEW id \in InboxIDs,
           (id \in saved') <=> (id \in saved),
           inboxes'[id] = inboxes[id]
    PROVE  Status(id)' = Status(id)
  BY DEF Status, Stored, Marked, Routed

LEMMA Stutter ==
    ASSUME saved' = saved, inboxes' = inboxes, now' = now,
           \A id \in InboxIDs : inbox'[id].TTL = inbox[id].TTL
    PROVE  UNCHANGED Lifecycle!vars
<1>1. \A id \in InboxIDs : Status(id)' = Status(id)
  BY SameStatus
<1> QED BY <1>1 DEF Lifecycle!vars

\* Everything but one life stays.
LEMMA OneLife ==
    ASSUME NEW id \in InboxIDs,
           \A j \in InboxIDs : j # id => Status(j)' = Status(j)
    PROVE  lives' = [lives EXCEPT ![id] = Status(id)']
  BY DEF lives

LEMMA InitLife == Init => Lifecycle!Init
<1> SUFFICES ASSUME Init PROVE Lifecycle!Init
  OBVIOUS
<1>1. \A id \in InboxIDs : Status(id) = "none"
  BY StatusValues DEF Init
<1>2. \A id \in InboxIDs : inbox[id].TTL = 0
  BY DEF Init, NewInbox, ZeroInbox
<1> QED BY <1>1, <1>2 DEF Lifecycle!Init, Init

LEMMA LaunchLife ==
    ASSUME IInv, NEW id \in InboxIDs, Launch(id)
    PROVE  Lifecycle!Promise(id)
<1>0. TypeOK /\ RequestInv(id)
  BY DEF IInv, RequestInv
<1>1. inbox[id].TTL = 0 /\ id \notin saved
  BY <1>0 DEF RequestInv, HandlerInv, Launch
<1>2. /\ inbox'[id].TTL = now + Life
      /\ \A j \in InboxIDs : j # id => inbox'[j] = inbox[j]
      /\ inboxes' = inboxes /\ saved' = saved /\ now' = now
  BY <1>0 DEF TypeOK, Launch, Inbox, dbVars
<1>3. expiries' = [expiries EXCEPT ![id] = now + Life]
  BY <1>2 DEF expiries
<1>4. lives' = lives
  BY <1>2, SameStatus DEF lives
<1>5. lives[id] = "none" /\ expiries[id] = 0
  BY <1>1, StatusValues DEF lives, expiries
<1> QED BY <1>2, <1>3, <1>4, <1>5 DEF Lifecycle!Promise, lives, expiries

LEMMA SaveLife ==
    ASSUME IInv, NEW id \in InboxIDs, Save(id)
    PROVE  Lifecycle!Create(id) \/ UNCHANGED Lifecycle!vars
<1>0. TypeOK /\ DBTypeOK /\ RequestInv(id)
  BY DEF IInv, TypeOK, RequestInv
<1>1. inbox[id] \in Inbox /\ inbox[id].Address \in Addresses
  BY <1>0 DEF TypeOK, RequestInv, HandlerInv, Save
<1>2. /\ \A k \in InboxIDs : k # id => inboxes'[k] = inboxes[k]
      /\ Holds(inboxes'[id], inbox[id]) \/ inboxes' = inboxes
  BY <1>0, <1>1, SaveNewInboxRows DEF Save
<1>3. now' = now /\ inbox' = inbox
  BY DEF Save
<1>4. CASE inboxes' = inboxes
  BY <1>3, <1>4, Stutter DEF Save
<1>5. CASE inboxes' # inboxes
  <2>1. saved' = saved \cup {id}
    BY <1>5 DEF Save
  <2>2. ~Marked(id)' /\ ~Routed(id)' /\ Stored(id)'
    BY <1>0, <1>2, <1>5 DEF Holds, Marked, Routed, Stored, RequestInv, HandlerInv
  <2>3. Status(id)' = "pending"
    BY <2>1, <2>2, StatusValues DEF Status
  <2>4. Status(id) = "none" /\ now < inbox[id].TTL
    BY <1>0, StatusValues DEF Save, RequestInv, HandlerInv, ClockInv, Working, InFlight, Ended
  <2>5. \A j \in InboxIDs : j # id => Status(j)' = Status(j)
    BY <1>2, <2>1, SameStatus
  <2>6. lives' = [lives EXCEPT ![id] = "pending"]
    BY <2>3, <2>5, OneLife
  <2> QED BY <1>3, <2>4, <2>6 DEF Lifecycle!Create, lives, expiries
<1> QED BY <1>4, <1>5

\* The goroutine's write settles the life of a saved inbox, which is pending
\* until then, and starts none.
LEMMA UpdateLife ==
    ASSUME IInv, NEW id \in InboxIDs, Update(id)
    PROVE  Lifecycle!Settle(id) \/ UNCHANGED Lifecycle!vars
<1>0. TypeOK /\ DBTypeOK /\ RequestInv(id) /\ RequestInv(id)'
  BY UpdateStep DEF IInv, TypeOK, RequestInv
<1>1. /\ [inbox[id] EXCEPT !.FailedToCreate = TRUE] \in Inbox
      /\ [inbox[id] EXCEPT !.EmailProviderRouteID = "route"] \in Inbox
  BY <1>0 DEF TypeOK, Inbox, RouteIDs
<1>2. \A k \in InboxIDs : k # id => inboxes'[k] = inboxes[k]
  BY <1>0, <1>1, SetInboxOthers DEF Update
<1>3. now' = now /\ inbox' = inbox /\ saved' = saved
  BY DEF Update, requestVars
<1>4. \A j \in InboxIDs : j # id => Status(j)' = Status(j)
  BY <1>2, <1>3, SameStatus
<1>5. lives' = [lives EXCEPT ![id] = Status(id)']
  BY <1>4, OneLife
<1>6. CASE id \notin saved \/ inboxes' = inboxes
  <2>1. Status(id)' = Status(id)
    BY <1>3, <1>6, SameStatus, StatusValues DEF Status
  <2> QED BY <1>3, <1>4, <2>1 DEF Lifecycle!vars
<1>7. CASE id \in saved /\ inboxes' # inboxes
  <2>1. Status(id) = "pending"
    BY <1>0, <1>7, StatusValues DEF Update, RequestInv, RowInv, Working, Marked, Routed
  <2>2. Stored(id)' /\ (Marked(id)' \/ Routed(id)')
    <3>1. inboxes'[id] # Nil /\ Tells(inboxes'[id], answer[id])
      BY <1>7, UpdateWrites
    <3> QED BY <3>1 DEF Tells, Marked, Routed, Stored
  <2>3. Status(id)' \in {"ready", "failed"}
    BY <1>3, <1>7, <2>2 DEF Status
  <2> QED BY <1>3, <1>5, <2>1, <2>3 DEF Lifecycle!Settle, lives, expiries
<1> QED BY <1>6, <1>7

\* A sweep ends lives whose time is up.
LEMMA CleanUpLife ==
    ASSUME IInv, CleanUp
    PROVE  \E ids \in SUBSET InboxIDs : Lifecycle!Expire(ids)
<1>0. TypeOK /\ DBTypeOK /\ \A j \in InboxIDs : RequestInv(j)
  BY DEF IInv, TypeOK, RequestInv
<1>1. now' = now /\ inbox' = inbox /\ saved' = saved
  BY DEF CleanUp, requestVars
<1>2. \A k \in InboxIDs :
         \/ inboxes'[k] = inboxes[k]
         \/ inboxes'[k] = Nil /\ inboxes[k] # Nil /\ inboxes[k].TTL <= now
  BY <1>0, DeleteExpiredRows DEF TypeOK, CleanUp
<1> DEFINE ids == {id \in saved : Stored(id) /\ inboxes'[id] = Nil}
<1>3. ids \in SUBSET InboxIDs
  BY <1>0 DEF TypeOK
<1>4. \A id \in ids : lives[id] \in Lifecycle!Live /\ expiries[id] <= now
  BY <1>0, <1>2, StatusValues
  DEF TypeOK, RequestInv, RowInv, lives, expiries, Lifecycle!Live, Stored
<1>5. \A id \in InboxIDs : Status(id)' = IF id \in ids THEN "gone" ELSE Status(id)
  <2> SUFFICES ASSUME NEW id \in InboxIDs
               PROVE  Status(id)' = IF id \in ids THEN "gone" ELSE Status(id)
    OBVIOUS
  <2>1. CASE id \in ids
    BY <1>1, <2>1 DEF Status, Stored, Marked
  <2>2. CASE id \notin ids /\ inboxes'[id] = inboxes[id]
    BY <1>1, <2>2, SameStatus
  <2>3. CASE id \notin ids /\ inboxes'[id] # inboxes[id]
    <3>1. id \notin saved
      BY <1>2, <2>3 DEF Stored
    <3> QED BY <1>1, <2>3, <3>1 DEF Status
  <2> QED BY <2>1, <2>2, <2>3
<1>6. Lifecycle!Expire(ids)
  BY <1>1, <1>4, <1>5 DEF Lifecycle!Expire, lives, expiries
<1> QED BY <1>3, <1>6

\* A crash takes the in-memory store with it, and no life otherwise.
LEMMA RestartLife ==
    ASSUME IInv, Restart
    PROVE  Lifecycle!Lose \/ UNCHANGED Lifecycle!vars
<1>1. now' = now /\ inbox' = inbox /\ saved' = saved
  BY DEF Restart
<1>2. CASE Durable
  BY <1>1, <1>2, RestartDBRows, Stutter DEF Restart
<1>3. CASE ~Durable
  <2>1. \A id \in InboxIDs : inboxes'[id] = Nil
    BY <1>3, RestartDBRows DEF Restart
  <2>2. \A id \in InboxIDs :
           Status(id)' = IF Status(id) \in Lifecycle!Live THEN "gone" ELSE Status(id)
    <3> SUFFICES ASSUME NEW id \in InboxIDs
                 PROVE  Status(id)' = IF Status(id) \in Lifecycle!Live
                                      THEN "gone" ELSE Status(id)
      OBVIOUS
    <3>1. Status(id)' = IF id \in saved THEN "gone" ELSE "none"
      BY <1>1, <2>1 DEF Status, Stored, Marked
    <3> QED BY <3>1, StatusValues DEF Lifecycle!Live
  <2> QED BY <1>1, <1>3, <2>2 DEF Lifecycle!Lose
<1> QED BY <1>2, <1>3

LEMMA StepLife == IInv /\ [Next]_vars => [Lifecycle!Next]_(Lifecycle!vars)
<1> SUFFICES ASSUME IInv, [Next]_vars PROVE [Lifecycle!Next]_(Lifecycle!vars)
  OBVIOUS
<1>0. TypeOK /\ \A j \in InboxIDs : RequestInv(j)
  BY DEF IInv, RequestInv
<1>1. ASSUME NEW id \in InboxIDs, NEW k \in Kinds, NEW a \in Addresses, CheckAddress(id, k, a)
      PROVE  UNCHANGED Lifecycle!vars
  <2>1. inbox[id].TTL = 0
    BY <1>0, <1>1 DEF CheckAddress, RequestInv, HandlerInv
  <2>2. \A j \in InboxIDs : inbox'[j].TTL = inbox[j].TTL
    BY <1>0, <1>1, <2>1 DEF TypeOK, CheckAddress, NewInbox, ZeroInbox
  <2> QED BY <1>1, <2>2, Stutter DEF CheckAddress, dbVars
<1>2. ASSUME NEW id \in InboxIDs, Answer(id) \/ Show(id) \/ Register(id) \/ Freeze(id)
      PROVE  UNCHANGED Lifecycle!vars
  BY <1>2, Stutter DEF Answer, Show, Send, Register, Freeze, requestVars, dbVars
<1>3. CASE Propagate \/ UNCHANGED vars
  BY <1>3, Stutter DEF Propagate, PropagateIndex, vars, requestVars, dbVars
<1>4. CASE Tick
  <2>1. \A id \in InboxIDs : Status(id)' = Status(id)
    BY <1>4, SameStatus DEF Tick, dbVars
  <2> QED BY <1>4, <2>1 DEF Tick, requestVars, Lifecycle!Next, Lifecycle!Tick
<1> QED
  BY <1>1, <1>2, <1>3, <1>4, LaunchLife, SaveLife, UpdateLife, CleanUpLife, RestartLife
  DEF Next, Handle, Settle, Lifecycle!Next

-----------------------------------------------------------------------------
(* What such a life is.                                                    *)

LEMMA LifeType ==
    ASSUME Lifecycle!TypeOK, [Lifecycle!Next]_(Lifecycle!vars)
    PROVE  Lifecycle!TypeOK' /\ now <= now'
<1> DEFINE Lives == Lifecycle!Live \cup {"none", "gone"}
<1>0. /\ lives \in [InboxIDs -> Lives] /\ expiries \in [InboxIDs -> Nat]
      /\ now \in Nat /\ Life \in Nat
  BY CreationAssumption DEF Lifecycle!TypeOK, lives, expiries
<1>1. lives' \in [InboxIDs -> Lives] /\ expiries' \in [InboxIDs -> Nat] /\ now' \in Nat /\ now <= now'
  <2>1. ASSUME NEW id \in InboxIDs, Lifecycle!Promise(id)
        PROVE  lives' = lives /\ now' = now /\ expiries' = [expiries EXCEPT ![id] = now + Life]
    BY <2>1 DEF Lifecycle!Promise, lives, expiries
  <2>2. ASSUME NEW id \in InboxIDs, Lifecycle!Create(id) \/ Lifecycle!Settle(id)
        PROVE  /\ expiries' = expiries /\ now' = now
               /\ \E s \in Lives : lives' = [lives EXCEPT ![id] = s]
    BY <2>2 DEF Lifecycle!Create, Lifecycle!Settle, Lifecycle!Live, lives, expiries
  <2>3. ASSUME NEW ids \in SUBSET InboxIDs, Lifecycle!Expire(ids)
        PROVE  /\ expiries' = expiries /\ now' = now
               /\ lives' = [id \in InboxIDs |-> IF id \in ids THEN "gone" ELSE lives[id]]
    BY <2>3 DEF Lifecycle!Expire, lives, expiries
  <2>4. ASSUME Lifecycle!Lose
        PROVE  /\ expiries' = expiries /\ now' = now
               /\ lives' = [id \in InboxIDs |-> IF lives[id] \in Lifecycle!Live
                                                THEN "gone" ELSE lives[id]]
    BY <2>4 DEF Lifecycle!Lose, lives, expiries
  <2>5. ASSUME Lifecycle!Tick \/ UNCHANGED Lifecycle!vars
        PROVE  lives' = lives /\ expiries' = expiries /\ (now' = now \/ now' = now + 1)
    BY <2>5 DEF Lifecycle!Tick, Lifecycle!vars, lives, expiries
  <2> QED BY <1>0, <2>1, <2>2, <2>3, <2>4, <2>5 DEF Lifecycle!Next
<1> QED BY <1>1 DEF Lifecycle!TypeOK, lives, expiries

\* What a step can do to one life.
LEMMA LifeStep ==
    ASSUME Lifecycle!TypeOK, [Lifecycle!Next]_(Lifecycle!vars), NEW id \in InboxIDs
    PROVE  /\ lives[id] # "none" => lives'[id] # "none" /\ expiries'[id] = expiries[id]
           /\ lives[id] \in {"ready", "failed"} => lives'[id] \in {lives[id], "gone"}
           /\ lives[id] = "gone" => lives'[id] = "gone"
           /\ lives[id] = "none" => lives'[id] # "gone"
           /\ Durable /\ lives[id] # "gone" /\ lives'[id] = "gone" => expiries[id] <= now
<1> DEFINE Goal ==
      /\ lives[id] # "none" => lives'[id] # "none" /\ expiries'[id] = expiries[id]
      /\ lives[id] \in {"ready", "failed"} => lives'[id] \in {lives[id], "gone"}
      /\ lives[id] = "gone" => lives'[id] = "gone"
      /\ lives[id] = "none" => lives'[id] # "gone"
      /\ Durable /\ lives[id] # "gone" /\ lives'[id] = "gone" => expiries[id] <= now
<1>1. ASSUME NEW j \in InboxIDs,
             Lifecycle!Promise(j) \/ Lifecycle!Create(j) \/ Lifecycle!Settle(j)
      PROVE  Goal
  <2>1. CASE Lifecycle!Promise(j)
    BY <2>1 DEF lives, expiries, Lifecycle!Promise
  <2>2. CASE Lifecycle!Create(j) \/ Lifecycle!Settle(j)
    BY <2>2 DEF lives, expiries, Lifecycle!Create, Lifecycle!Settle
  <2> QED BY <1>1, <2>1, <2>2
<1>2. ASSUME NEW ids \in SUBSET InboxIDs, Lifecycle!Expire(ids)
      PROVE  Goal
  BY <1>2 DEF lives, expiries, Lifecycle!Expire, Lifecycle!Live
<1>3. CASE Lifecycle!Lose \/ Lifecycle!Tick \/ UNCHANGED Lifecycle!vars
  BY <1>3 DEF lives, expiries, Lifecycle!Lose, Lifecycle!Tick, Lifecycle!vars, Lifecycle!Live
<1> QED BY <1>1, <1>2, <1>3 DEF Lifecycle!Next

\* In a life as InboxLifecycle describes it nothing is taken back.
LEMMA LifeForwards == Lifecycle!Spec => Lifecycle!OnlyForwards
<1>1. Lifecycle!Init => Lifecycle!TypeOK
  BY DEF Lifecycle!Init, Lifecycle!TypeOK
<1>2. Lifecycle!TypeOK /\ [Lifecycle!Next]_(Lifecycle!vars) => Lifecycle!TypeOK'
  BY LifeType
<1> DEFINE Step ==
      \A id \in InboxIDs :
          /\ lives[id] # "none" => lives'[id] # "none" /\ expiries'[id] = expiries[id]
          /\ lives[id] \in {"ready", "failed"} => lives'[id] \in {lives[id], "gone"}
          /\ lives[id] = "gone" => lives'[id] = "gone"
<1>3. Lifecycle!TypeOK /\ [Lifecycle!Next]_(Lifecycle!vars) => [Step]_(Lifecycle!vars)
  BY LifeStep
<1>4. [][Step]_(Lifecycle!vars) => Lifecycle!OnlyForwards
  BY DEF Lifecycle!OnlyForwards, lives, expiries
<1> QED BY <1>1, <1>2, <1>3, <1>4, PTL DEF Lifecycle!Spec

\* And none ends before its time.
LEMMA LifeInTime == Lifecycle!Spec => []Lifecycle!GoneWasDue
<1>1. Lifecycle!Init => Lifecycle!TypeOK /\ Lifecycle!GoneWasDue
  BY DEF Lifecycle!Init, Lifecycle!TypeOK, Lifecycle!GoneWasDue
<1>2. Lifecycle!TypeOK /\ Lifecycle!GoneWasDue /\ [Lifecycle!Next]_(Lifecycle!vars)
        => Lifecycle!TypeOK' /\ Lifecycle!GoneWasDue'
  <2> SUFFICES ASSUME Lifecycle!TypeOK, Lifecycle!GoneWasDue,
                      [Lifecycle!Next]_(Lifecycle!vars), Durable,
                      NEW id \in InboxIDs, lives'[id] = "gone"
               PROVE  expiries'[id] <= now'
    BY LifeType DEF Lifecycle!GoneWasDue, lives, expiries
  <2>1. /\ now \in Nat /\ now' \in Nat /\ now <= now'
        /\ expiries[id] \in Nat /\ expiries'[id] \in Nat
    BY LifeType DEF Lifecycle!TypeOK, expiries
  <2>2. expiries[id] <= now
    BY LifeStep DEF Lifecycle!GoneWasDue, lives, expiries
  <2>3. expiries'[id] = expiries[id]
    BY LifeStep
  <2> QED BY <2>1, <2>2, <2>3
<1> QED BY <1>1, <1>2, PTL DEF Lifecycle!Spec

\* However handlers, goroutines, sweeps and crashes interleave, each inbox is
\* created at most once, settled at most once, never turns from ready to
\* failed or back, and is not gone before its time.
THEOREM LifecycleImplemented == Spec => ImplementsLifecycle
<1> QED BY InitLife, StepLife, Invariance, PTL DEF Spec, ImplementsLifecycle, Lifecycle!Spec

\* What was once true of an inbox stays so: registered, failed, its expiry, gone.
THEOREM OnlyForwards == Spec => Lifecycle!OnlyForwards
  BY LifecycleImplemented, LifeForwards DEF ImplementsLifecycle

\* With a store that survives the process an inbox lives out its time, crashes
\* and sweeps in the middle of its creation included.
THEOREM NoneTooEarly == Spec => []Lifecycle!GoneWasDue
  BY LifecycleImplemented, LifeInTime, PTL DEF ImplementsLifecycle
=============================================================================
