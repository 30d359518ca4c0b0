------------------------ MODULE PubSubDelivery_proofs ------------------------
(***************************************************************************)
(* For every set of messages and callbacks, every delivery limit and both  *)
(* kinds of handler: one run per deduplication window, and no message      *)
(* disappears without a failure.                                           *)
(***************************************************************************)
EXTENDS PubSubDelivery, FiniteSetTheorems, TLAPS

\* A message whose key is taken, or that is acked, has had its effect, has had a
\* delivery fail, or is being worked on.
KeyIsAccountedFor ==
  \A m \in Messages : (dedup[m] \/ queue[m] = "acked") /\ done[m] = 0 =>
    failed[m] \/ RunningOn(m) # {}

IInv == TypeOK /\ OneRunPerWindow /\ KeyIsAccountedFor

----------------------------------------------------------------------------
\* Callbacks at work are counted one by one.
LEMMA OneMoreRuns ==
  ASSUME NEW S \in SUBSET Handlers, NEW h \in Handlers
  PROVE  /\ Cardinality(S) \in Nat
         /\ h \notin S => Cardinality(S \cup {h}) = Cardinality(S) + 1
         /\ h \in S => Cardinality(S \ {h}) = Cardinality(S) - 1
  <1>1. IsFiniteSet(S)
    BY DeliveryAssumption, FS_Subset
  <1>2. QED
    BY <1>1, FS_AddElement, FS_RemoveElement, FS_CardinalityType

\* The callbacks at work on a message stay the same when no callback moves.
LEMMA SameRuns ==
  ASSUME UNCHANGED <<at, msg>>, NEW m \in Messages
  PROVE  RunningOn(m)' = RunningOn(m)
  BY DEF RunningOn

\* A callback that enters the handler joins those at work on its message.
LEMMA RunStarts ==
  ASSUME TypeOK, NEW h \in Handlers, at[h] # "handle",
         at' = [at EXCEPT ![h] = "handle"], UNCHANGED msg,
         NEW m \in Messages
  PROVE  RunningOn(m)' = IF m = msg[h] THEN RunningOn(m) \cup {h} ELSE RunningOn(m)
  BY DEF RunningOn, TypeOK

\* A callback that returns leaves those at work on its message.
LEMMA RunEnds ==
  ASSUME TypeOK, NEW h \in Handlers, Return(h), NEW m \in Messages
  PROVE  RunningOn(m)' = RunningOn(m) \ {h}
  BY DEF RunningOn, Return, TypeOK

\* A callback that receives a message was idle: it is at work on none before its key check.
LEMMA DeliveryStartsNoRun ==
  ASSUME TypeOK, NEW h \in Handlers, NEW n \in Messages, Deliver(h, n), NEW m \in Messages
  PROVE  RunningOn(m)' = RunningOn(m)
  BY DEF RunningOn, Deliver, Idle, TypeOK

\* Initially nothing is published and no callback runs.
LEMMA InitIInv == Init => IInv
  <1> SUFFICES ASSUME Init PROVE IInv
    OBVIOUS
  <1>1. TypeOK
    BY DeliveryAssumption DEF Init, TypeOK, Queue
  <1>2. \A m \in Messages : RunningOn(m) = {}
    BY DEF Init, RunningOn
  <1>3. OneRunPerWindow
    BY <1>2, FS_EmptySet DEF Init, OneRunPerWindow
  <1>4. KeyIsAccountedFor
    BY DEF Init, KeyIsAccountedFor
  <1>5. QED
    BY <1>1, <1>3, <1>4 DEF IInv

\* Every variable keeps its type: the guard of Deliver bounds the attempts.
LEMMA NextTypeOK == TypeOK /\ [Next]_vars => TypeOK'
  <1> SUFFICES ASSUME TypeOK, [Next]_vars PROVE TypeOK'
    OBVIOUS
  <1> USE DeliveryAssumption DEF TypeOK, Queue
  <1>1. ASSUME NEW m \in Messages, Publish(m) \/ DeadLetter(m) \/ KeyExpires(m) PROVE TypeOK'
    <2>1. CASE Publish(m)
      BY <2>1 DEF Publish
    <2>2. CASE DeadLetter(m)
      BY <2>2 DEF DeadLetter
    <2>3. CASE KeyExpires(m)
      BY <2>3 DEF KeyExpires
    <2>4. QED
      BY <1>1, <2>1, <2>2, <2>3
  <1>2. ASSUME NEW h \in Handlers, NEW m \in Messages, Deliver(h, m) PROVE TypeOK'
    BY <1>2 DEF Deliver
  <1>3. ASSUME NEW h \in Handlers, Callback(h) PROVE TypeOK'
    <2>1. CASE TakeKey(h)
      BY <2>1 DEF TakeKey
    <2>2. CASE SkipDuplicate(h) \/ KeyUnavailable(h)
      BY <2>2 DEF SkipDuplicate, KeyUnavailable, Ack, Return
    <2>3. CASE HandlerSucceeds(h)
      BY <2>3 DEF HandlerSucceeds, Ack, Return
    <2>4. CASE HandlerFails(h)
      BY <2>4 DEF HandlerFails, Ack, Return
    <2>5. QED
      BY <1>3, <2>1, <2>2, <2>3, <2>4 DEF Callback
  <1>4. ASSUME NEW h \in Handlers, Crash(h) PROVE TypeOK'
    BY <1>4 DEF Crash, Return
  <1>5. QED
    BY <1>1, <1>2, <1>3, <1>4 DEF Next, vars

\* No step starts a run without taking a key, or ends a window twice.
LEMMA NextOneRun == IInv /\ [Next]_vars => OneRunPerWindow'
  <1> SUFFICES ASSUME IInv, [Next]_vars, NEW m \in Messages
               PROVE  (done[m] + Cardinality(RunningOn(m))
                        <= windows[m] + (IF dedup[m] THEN 1 ELSE 0))'
    BY DEF OneRunPerWindow
  <1> DEFINE R == RunningOn(m)
  <1>1. /\ R \in SUBSET Handlers
        /\ done[m] \in Nat /\ windows[m] \in Nat /\ Cardinality(R) \in Nat
        /\ done[m] + Cardinality(R) <= windows[m] + (IF dedup[m] THEN 1 ELSE 0)
    <2>1. R \in SUBSET Handlers
      BY DEF RunningOn
    <2>2. Cardinality(R) \in Nat
      BY <2>1, DeliveryAssumption, FS_Subset, FS_CardinalityType
    <2>3. QED
      BY <2>1, <2>2 DEF IInv, TypeOK, OneRunPerWindow
  <1>2. CASE UNCHANGED vars
    BY <1>1, <1>2, SameRuns DEF vars
  <1>3. ASSUME NEW n \in Messages, Publish(n) \/ DeadLetter(n)
        PROVE  (done[m] + Cardinality(R) <= windows[m] + (IF dedup[m] THEN 1 ELSE 0))'
    BY <1>1, <1>3, SameRuns DEF Publish, DeadLetter
  <1>4. ASSUME NEW n \in Messages, KeyExpires(n)
        PROVE  (done[m] + Cardinality(R) <= windows[m] + (IF dedup[m] THEN 1 ELSE 0))'
    <2>1. R' = R /\ done' = done
      BY <1>4, SameRuns DEF KeyExpires
    <2>2. CASE m = n
      BY <1>1, <1>4, <2>1, <2>2 DEF KeyExpires, IInv, TypeOK
    <2>3. CASE m # n
      BY <1>1, <1>4, <2>1, <2>3 DEF KeyExpires, IInv, TypeOK
    <2>4. QED
      BY <2>2, <2>3
  <1>5. ASSUME NEW h \in Handlers, NEW n \in Messages, Deliver(h, n)
        PROVE  (done[m] + Cardinality(R) <= windows[m] + (IF dedup[m] THEN 1 ELSE 0))'
    <2>1. R' = R
      BY <1>5, DeliveryStartsNoRun DEF IInv
    <2>2. QED
      BY <1>1, <1>5, <2>1 DEF Deliver
  <1>6. ASSUME NEW h \in Handlers, TakeKey(h)
        PROVE  (done[m] + Cardinality(R) <= windows[m] + (IF dedup[m] THEN 1 ELSE 0))'
    <2>1. R' = IF m = msg[h] THEN R \cup {h} ELSE R
      BY <1>6, RunStarts DEF TakeKey, IInv
    <2>2. h \notin R
      BY <1>6 DEF TakeKey, RunningOn
    <2>3. CASE m = msg[h]
      <3>1. Cardinality(R') = Cardinality(R) + 1
        BY <1>1, <2>1, <2>2, <2>3, OneMoreRuns
      <3>2. ~dedup[m] /\ dedup'[m] /\ done' = done /\ windows' = windows
        BY <1>6, <2>3 DEF TakeKey, IInv, TypeOK
      <3>3. QED
        BY <1>1, <3>1, <3>2
    <2>4. CASE m # msg[h]
      BY <1>1, <1>6, <2>1, <2>4 DEF TakeKey, IInv, TypeOK
    <2>5. QED
      BY <2>3, <2>4
  <1>7. ASSUME NEW h \in Handlers,
               SkipDuplicate(h) \/ KeyUnavailable(h) \/ HandlerFails(h) \/ Crash(h)
        PROVE  (done[m] + Cardinality(R) <= windows[m] + (IF dedup[m] THEN 1 ELSE 0))'
    <2>1. Return(h) /\ UNCHANGED <<done, windows, dedup>>
      BY <1>7 DEF SkipDuplicate, KeyUnavailable, HandlerFails, Crash
    <2>2. R' = R \ {h}
      BY <2>1, RunEnds DEF IInv
    <2>3. Cardinality(R') <= Cardinality(R)
      <3>1. CASE h \in R
        BY <1>1, <2>2, <3>1, OneMoreRuns
      <3>2. CASE h \notin R
        <4>1. R' = R
          BY <2>2, <3>2
        <4>2. QED
          BY <1>1, <4>1
      <3>3. QED
        BY <3>1, <3>2
    <2>4. Cardinality(R') \in Nat
      BY <1>1, <2>2, DeliveryAssumption, FS_Subset, FS_CardinalityType
    <2>5. QED
      BY <1>1, <2>1, <2>3, <2>4
  <1>8. ASSUME NEW h \in Handlers, HandlerSucceeds(h)
        PROVE  (done[m] + Cardinality(R) <= windows[m] + (IF dedup[m] THEN 1 ELSE 0))'
    <2>1. R' = R \ {h} /\ UNCHANGED <<windows, dedup>>
      BY <1>8, RunEnds DEF HandlerSucceeds, IInv
    <2>2. CASE m = msg[h]
      <3>1. h \in R
        BY <1>8, <2>2 DEF HandlerSucceeds, RunningOn
      <3>2. Cardinality(R') = Cardinality(R) - 1
        BY <1>1, <2>1, <3>1, OneMoreRuns
      <3>3. done'[m] = done[m] + 1
        BY <1>8, <2>2 DEF HandlerSucceeds, IInv, TypeOK
      <3>4. QED
        BY <1>1, <2>1, <3>2, <3>3
    <2>3. CASE m # msg[h]
      <3>1. R' = R
        BY <2>1, <2>3 DEF RunningOn
      <3>2. done'[m] = done[m]
        BY <1>8, <2>3 DEF HandlerSucceeds, IInv, TypeOK
      <3>3. QED
        BY <1>1, <2>1, <3>1, <3>2
    <2>4. QED
      BY <2>2, <2>3
  <1>9. QED
    BY <1>2, <1>3, <1>4, <1>5, <1>6, <1>7, <1>8 DEF Next, Callback

\* An ack is only ever sent for a message whose key was taken by a run that has
\* succeeded, failed or is still at work.
LEMMA NextAccountedFor == IInv /\ [Next]_vars => KeyIsAccountedFor'
  <1> SUFFICES ASSUME IInv, [Next]_vars, NEW m \in Messages,
                      (dedup[m] \/ queue[m] = "acked")', (done[m] = 0)', ~failed'[m]
               PROVE  RunningOn(m)' # {}
    BY DEF KeyIsAccountedFor
  <1> USE DEF IInv, TypeOK, KeyIsAccountedFor
  <1>1. CASE UNCHANGED vars
    BY <1>1, SameRuns DEF vars
  <1>2. ASSUME NEW n \in Messages, Publish(n) \/ DeadLetter(n) \/ KeyExpires(n)
        PROVE  RunningOn(m)' # {}
    BY <1>2, SameRuns DEF Publish, DeadLetter, KeyExpires
  <1>3. ASSUME NEW h \in Handlers, NEW n \in Messages, Deliver(h, n)
        PROVE  RunningOn(m)' # {}
    BY <1>3, DeliveryStartsNoRun DEF Deliver
  <1>4. ASSUME NEW h \in Handlers, TakeKey(h) PROVE RunningOn(m)' # {}
    <2>1. RunningOn(m)' = IF m = msg[h] THEN RunningOn(m) \cup {h} ELSE RunningOn(m)
      BY <1>4, RunStarts DEF TakeKey
    <2>2. QED
      BY <1>4, <2>1 DEF TakeKey
  <1>5. ASSUME NEW h \in Handlers,
               SkipDuplicate(h) \/ KeyUnavailable(h)
        PROVE  RunningOn(m)' # {}
    <2>1. RunningOn(m)' = RunningOn(m)
      BY <1>5, RunEnds DEF SkipDuplicate, KeyUnavailable, RunningOn
    <2>2. QED
      BY <1>5, <2>1 DEF SkipDuplicate, KeyUnavailable, Ack
  <1>6. ASSUME NEW h \in Handlers, HandlerSucceeds(h) \/ HandlerFails(h) \/ Crash(h)
        PROVE  RunningOn(m)' # {}
    <2>1. m # msg[h]
      BY <1>6 DEF HandlerSucceeds, HandlerFails, Crash
    <2>2. RunningOn(m)' = RunningOn(m)
      BY <1>6, <2>1, RunEnds DEF HandlerSucceeds, HandlerFails, Crash, RunningOn
    <2>3. QED
      BY <1>6, <2>1, <2>2 DEF HandlerSucceeds, HandlerFails, Crash, Ack
  <1>7. QED
    BY <1>1, <1>2, <1>3, <1>4, <1>5, <1>6 DEF Next, Callback

\* IInv is an invariant of the specification.
LEMMA SpecIInv == Spec => []IInv
  <1>1. IInv /\ [Next]_vars => IInv'
    BY NextTypeOK, NextOneRun, NextAccountedFor DEF IInv
  <1>2. QED
    BY <1>1, InitIInv, PTL DEF Spec

----------------------------------------------------------------------------
\* Every variable keeps its type: no message is delivered more often than the
\* subscription's maxDeliveryAttempts.
THEOREM DeliveryTypeCorrect == Spec => []TypeOK
  <1>1. IInv => TypeOK
    BY DEF IInv
  <1>2. QED
    BY <1>1, SpecIInv, PTL

\* Whatever redeliveries, processes, crashes and expiries of the key: the handler runs at
\* most once for each life of the deduplication key of a message.
THEOREM AtMostOncePerWindow == Spec => []OneRunPerWindow
  <1>1. IInv => OneRunPerWindow
    BY DEF IInv
  <1>2. QED
    BY <1>1, SpecIInv, PTL

\* Deduplication alone loses nothing: a message acked without effect had a delivery that
\* failed or died, or is being worked on.
THEOREM NothingLostWithoutFailure == Spec => []LossNeedsFailure
  <1>1. IInv => LossNeedsFailure
    BY DEF IInv, KeyIsAccountedFor, LossNeedsFailure
  <1>2. QED
    BY <1>1, SpecIInv, PTL
=============================================================================
