-------------------------- MODULE PubSubDelivery --------------------------
(***************************************************************************)
(* PubSubService over Google Cloud Pub/Sub and Redis: a message is         *)
(* published once and delivered at least once; the subscriber takes a      *)
(* deduplication key with SET NX EX before it runs the handler, acks on    *)
(* return and nacks on a throw.  Mail and image compression both run on    *)
(* it, the one with a handler that swallows errors (MailService.send), the *)
(* other with one that rethrows them (StorageService.compressFile).        *)
(***************************************************************************)
EXTENDS Naturals, FiniteSets

CONSTANTS Messages,       \* messages of one topic
          Handlers,       \* message callbacks that can run at once, in any process
          MaxDeliveries,  \* maxDeliveryAttempts of the subscription
          SwallowsErrors  \* TRUE if the handler returns normally when its work failed

ASSUME DeliveryAssumption ==
  /\ MaxDeliveries \in Nat \ {0}
  /\ SwallowsErrors \in BOOLEAN
  /\ IsFiniteSet(Handlers)

VARIABLES
  queue,     \* where the broker has each message
  attempts,  \* deliveries of each message so far
  dedup,     \* does pubsub:dedup:<sub>:<id> exist in Redis
  windows,   \* how often that key has expired (its TTL is DEDUP_TTL)
  done,      \* how often the work of the message took effect
  failed,    \* did a delivery of it end without that effect
  at,        \* the await each callback is at
  msg        \* the message each callback works on

vars == <<queue, attempts, dedup, windows, done, failed, at, msg>>

Queue == {"unpublished", "waiting", "acked", "dead"}

Idle(h) == at[h] = "idle"
RunningOn(m) == {h \in Handlers : at[h] = "handle" /\ msg[h] = m}
Settled(m) == queue[m] \in {"acked", "dead"}

TypeOK ==
  /\ queue \in [Messages -> Queue]
  /\ attempts \in [Messages -> 0..MaxDeliveries]
  /\ dedup \in [Messages -> BOOLEAN]
  /\ windows \in [Messages -> Nat]
  /\ done \in [Messages -> Nat]
  /\ failed \in [Messages -> BOOLEAN]
  /\ at \in [Handlers -> {"idle", "dedup", "handle"}]
  /\ msg \in [Handlers -> Messages]

Init ==
  /\ queue = [m \in Messages |-> "unpublished"]
  /\ attempts = [m \in Messages |-> 0]
  /\ dedup = [m \in Messages |-> FALSE]
  /\ windows = [m \in Messages |-> 0]
  /\ done = [m \in Messages |-> 0]
  /\ failed = [m \in Messages |-> FALSE]
  /\ at = [h \in Handlers |-> "idle"]
  /\ \E m \in Messages : msg = [h \in Handlers |-> m]

----------------------------------------------------------------------------
(* The publisher *)

Publish(m) ==
  /\ queue[m] = "unpublished"
  /\ queue' = [queue EXCEPT ![m] = "waiting"]
  /\ UNCHANGED <<attempts, dedup, windows, done, failed, at, msg>>

----------------------------------------------------------------------------
(* The broker *)

\* A subscription without maxDeliveryAttempts.
DeliverWithoutLimit(h, m) ==
  /\ queue[m] = "waiting"
  /\ Idle(h)
  /\ attempts' = [attempts EXCEPT ![m] = @ + 1]
  /\ at' = [at EXCEPT ![h] = "dedup"]
  /\ msg' = [msg EXCEPT ![h] = m]
  /\ UNCHANGED <<queue, dedup, windows, done, failed>>

\* First delivery, redelivery after a nack or the backoff, and redelivery of a
\* message whose lease ran out while a callback is still at work on it.
Deliver(h, m) ==
  /\ queue[m] = "waiting"
  /\ attempts[m] < MaxDeliveries
  /\ Idle(h)
  /\ attempts' = [attempts EXCEPT ![m] = @ + 1]
  /\ at' = [at EXCEPT ![h] = "dedup"]
  /\ msg' = [msg EXCEPT ![h] = m]
  /\ UNCHANGED <<queue, dedup, windows, done, failed>>

\* A subscription created without a dead-letter policy.
DeadLetterWithoutPolicy(m) == FALSE /\ UNCHANGED vars

\* The dead-letter policy that ensureSubscription asks for.
DeadLetter(m) ==
  /\ queue[m] = "waiting"
  /\ attempts[m] = MaxDeliveries
  /\ queue' = [queue EXCEPT ![m] = "dead"]
  /\ UNCHANGED <<attempts, dedup, windows, done, failed, at, msg>>

----------------------------------------------------------------------------
(* The callback of subscription.on('message') *)

Return(h) == at' = [at EXCEPT ![h] = "idle"] /\ UNCHANGED msg

\* message.ack() is not awaited: it reaches the broker, or is lost with the connection.
Ack(m) ==
  \/ queue' = [queue EXCEPT ![m] = IF @ = "waiting" THEN "acked" ELSE @]
  \/ UNCHANGED queue

\* Deduplication that looks for the key but leaves setting it to somebody else.
TakeKeyReadOnly(h) ==
  /\ at[h] = "dedup"
  /\ ~dedup[msg[h]]
  /\ at' = [at EXCEPT ![h] = "handle"]
  /\ UNCHANGED <<queue, attempts, dedup, windows, done, failed, msg>>

\* setNx answers true: the handler runs.
TakeKey(h) ==
  /\ at[h] = "dedup"
  /\ ~dedup[msg[h]]
  /\ dedup' = [dedup EXCEPT ![msg[h]] = TRUE]
  /\ at' = [at EXCEPT ![h] = "handle"]
  /\ UNCHANGED <<queue, attempts, windows, done, failed, msg>>

\* Duplicates are recognised by the broker's redelivery count alone.
SkipRedelivered(h) ==
  /\ at[h] = "dedup"
  /\ dedup[msg[h]] \/ attempts[msg[h]] > 1
  /\ Ack(msg[h])
  /\ Return(h)
  /\ UNCHANGED <<attempts, dedup, windows, done, failed>>

\* setNx answers false: the message counts as handled and is acked.
SkipDuplicate(h) ==
  /\ at[h] = "dedup"
  /\ dedup[msg[h]]
  /\ Ack(msg[h])
  /\ Return(h)
  /\ UNCHANGED <<attempts, dedup, windows, done, failed>>

\* Redis cannot be reached: the catch block nacks.
KeyUnavailable(h) ==
  /\ at[h] = "dedup"
  /\ Return(h)
  /\ UNCHANGED <<queue, attempts, dedup, windows, done, failed>>

HandlerSucceeds(h) ==
  /\ at[h] = "handle"
  /\ done' = [done EXCEPT ![msg[h]] = @ + 1]
  /\ Ack(msg[h])
  /\ Return(h)
  /\ UNCHANGED <<attempts, dedup, windows, failed>>

\* The work fails.  A handler that swallows the error lets the callback ack; one that
\* throws lands in the catch block, which nacks and leaves the key where it is.
HandlerFails(h) ==
  /\ at[h] = "handle"
  /\ failed' = [failed EXCEPT ![msg[h]] = TRUE]
  /\ IF SwallowsErrors THEN Ack(msg[h]) ELSE UNCHANGED queue
  /\ Return(h)
  /\ UNCHANGED <<attempts, dedup, windows, done>>

----------------------------------------------------------------------------
(* The environment *)

\* The process dies; the key it may have taken stays until its TTL ends.
Crash(h) ==
  /\ ~Idle(h)
  /\ failed' = [failed EXCEPT ![msg[h]] = TRUE]
  /\ Return(h)
  /\ UNCHANGED <<queue, attempts, dedup, windows, done>>

\* The key expires, whether or not the handler it admitted has finished.
KeyExpires(m) ==
  /\ dedup[m]
  /\ dedup' = [dedup EXCEPT ![m] = FALSE]
  /\ windows' = [windows EXCEPT ![m] = @ + 1]
  /\ UNCHANGED <<queue, attempts, done, failed, at, msg>>

----------------------------------------------------------------------------
\* The callback runs on after every await.
Callback(h) ==
  \/ TakeKey(h) \/ SkipDuplicate(h) \/ KeyUnavailable(h)
  \/ HandlerSucceeds(h) \/ HandlerFails(h)

Next ==
  \/ \E m \in Messages : Publish(m) \/ DeadLetter(m) \/ KeyExpires(m)
  \/ \E h \in Handlers, m \in Messages : Deliver(h, m)
  \/ \E h \in Handlers : Callback(h) \/ Crash(h)

Spec == Init /\ [][Next]_vars

----------------------------------------------------------------------------
(* Properties *)

\* Every run of the handler, finished or not, used a deduplication window of its own:
\* within the life of one key the work of a message takes effect at most once, however
\* often it is redelivered and to however many processes.
OneRunPerWindow ==
  \A m \in Messages :
    done[m] + Cardinality(RunningOn(m)) <= windows[m] + (IF dedup[m] THEN 1 ELSE 0)

\* A message that was acked without having taken effect is the trace of a delivery that
\* failed or died, or is being worked on at this moment: the deduplication by itself,
\* without any failure, never makes a message disappear.
LossNeedsFailure ==
  \A m \in Messages : queue[m] = "acked" /\ done[m] = 0 =>
    failed[m] \/ RunningOn(m) # {}

\* docs/email-pubsub-redis.md: on a throw the message is nacked, redelivered and, after
\* N attempts, dead-lettered: no message is acked while its work was never done.
NoMessageIsLost ==
  \A m \in Messages : queue[m] = "acked" => done[m] > 0 \/ RunningOn(m) # {}

----------------------------------------------------------------------------
(* Liveness: the client library calls back for each delivery and Node runs every
   continuation; the broker delivers what is waiting and applies its policy.  A message
   may have to wait for a free callback, which other messages also compete for. *)

FairSpec ==
  /\ Spec
  /\ \A h \in Handlers : WF_vars(Callback(h))
  /\ \A m \in Messages : SF_vars(\E h \in Handlers : Deliver(h, m))
  /\ \A m \in Messages : WF_vars(DeadLetter(m))

\* A published message leaves the subscription, acked or dead-lettered: nothing is
\* redelivered for ever.
EveryMessageSettles == \A m \in Messages : queue[m] = "waiting" ~> Settled(m)
=============================================================================
