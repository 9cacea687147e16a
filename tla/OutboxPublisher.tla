--------------------------- MODULE OutboxPublisher ---------------------------
(***************************************************************************)
(* core.outbox_events and the runs of OutboxPublisher that drain it        *)
(* through the in-process EventBus (packages/core).                        *)
(*                                                                         *)
(* A publisher is one run() in progress.  Several may be: calls of one     *)
(* process that overlap, or processes that share the table.  Each          *)
(* statement commits by itself; between two statements of a run, and at    *)
(* each handler it awaits, anything else may happen, the death of the      *)
(* process included.                                                       *)
(***************************************************************************)
EXTENDS Naturals, FiniteSets, EventMatcher

CONSTANTS
  Publishers,
  Events,          \* numbered by recorded_at; they may be committed in any order
  Subscriptions,   \* numbered by the order of registration on the bus
  Pattern,         \* Pattern[s]: what s subscribes to, a sequence of segments
  Type,            \* Type[e]: its type, a sequence of segments
  Malformed,       \* events whose stored envelope does not validate
  System,          \* events without a company: module handlers are skipped
  MayThrow,        \* subscriptions whose handler may throw
  MayStop,         \* publishers that may die or lose a statement
  BatchSize, MaxAttempts,
  NoEvent

ASSUME OutboxAssumption ==
  /\ Events \subseteq Nat
  /\ Subscriptions \subseteq Nat
  /\ Malformed \subseteq Events
  /\ System \subseteq Events
  /\ MayThrow \subseteq Subscriptions
  /\ MayStop \subseteq Publishers
  /\ BatchSize \in Nat \ {0}
  /\ MaxAttempts \in Nat \ {0}
  /\ NoEvent \notin Events

ASSUME SegmentsAssumption ==
  /\ Pattern \in [Subscriptions -> Seq(STRING)]
  /\ Type \in [Events -> Seq(STRING)]

VARIABLES
  status, attempts,  \* columns of core.outbox_events
  batch,             \* rows a run has claimed and not settled
  claimed,           \* the attempts column as the claim returned it
  current,           \* the row a run is dispatching
  todo,              \* matching subscriptions still to be run for it
  failures,          \* subscriptions whose handler threw in this dispatch
  delivered,         \* history: <<e, s>> such that the handler s returned for e
  calls              \* history: how often the handler of s was called for e

table == <<status, attempts>>
run == <<batch, claimed, current, todo, failures>>
history == <<delivered, calls>>
vars == <<status, attempts, batch, claimed, current, todo, failures,
          delivered, calls>>

(* An event that is not committed yet has no row.                          *)
Statuses == {"unwritten", "pending", "processing", "published", "failed"}

(* Variant: rows left in processing are claimed again.                       *)
PendingOrProcessing == {e \in Events : status[e] \in {"pending", "processing"}}

Pending == {e \in Events : status[e] = "pending"}

(* The subscriptions that dispatch calls for e.                              *)
Matching ==
  [e \in Events |-> {s \in Subscriptions : Matches(Pattern[s], Type[e])}]

(* The subscriptions whose module handler gets e: the wrapper that bootstrap *)
(* puts around a handler returns at once for an event without a company.     *)
Audience == [e \in Events |-> IF e \in System THEN {} ELSE Matching[e]]

-----------------------------------------------------------------------------
Init ==
  /\ status = [e \in Events |-> "unwritten"]
  /\ attempts = [e \in Events |-> 0]
  /\ batch = [p \in Publishers |-> {}]
  /\ claimed = [p \in Publishers |-> [e \in Events |-> 0]]
  /\ current = [p \in Publishers |-> NoEvent]
  /\ todo = [p \in Publishers |-> {}]
  /\ failures = [p \in Publishers |-> {}]
  /\ delivered = {}
  /\ calls = [e \in Events |-> [s \in Subscriptions |-> 0]]

(* A transaction that inserted e commits.  recorded_at is the time at which  *)
(* it began.                                                                 *)
Commit(e) ==
  /\ status[e] = "unwritten"
  /\ status' = [status EXCEPT ![e] = "pending"]
  /\ UNCHANGED <<attempts, run, history>>

(* Variant: a run waits until there is a full batch.                         *)
FullBatch(S) ==
  /\ S \subseteq Pending
  /\ Cardinality(S) = BatchSize
  /\ \A e \in S, d \in Pending \ S : e < d

(* #claim: one statement takes the oldest pending rows.                      *)
Oldest(S) ==
  /\ S \subseteq Pending
  /\ Cardinality(S) <= BatchSize
  /\ S # Pending => Cardinality(S) = BatchSize
  /\ \A e \in S, d \in Pending \ S : e < d

Claim(p) ==
  /\ batch[p] = {} /\ Pending # {}
  /\ \E S \in SUBSET Pending :
       /\ Oldest(S)
       /\ status' = [e \in Events |->
                       IF e \in S THEN "processing" ELSE status[e]]
       /\ batch' = [batch EXCEPT ![p] = S]
  /\ claimed' = [claimed EXCEPT ![p] = attempts]
  /\ UNCHANGED <<attempts, current, todo, failures, history>>

(* The next turn of the loop of run(), with a row that parses.  RETURNING    *)
(* promises no order, so any row of the batch may be the next one.           *)
Dispatch(p, e) ==
  /\ current[p] = NoEvent
  /\ e \in batch[p] \ Malformed
  /\ current' = [current EXCEPT ![p] = e]
  /\ todo' = [todo EXCEPT ![p] = Matching[e]]
  /\ failures' = [failures EXCEPT ![p] = {}]
  /\ UNCHANGED <<table, batch, claimed, history>>

(* One turn of the loop of EventBus.dispatch, up to the handler's return or  *)
(* throw; a throw does not stop the loop.                                    *)
Skip(p) ==
  /\ current[p] \in System
  /\ UNCHANGED <<failures, history>>

Return(p, s) ==
  /\ current[p] \notin System
  /\ delivered' = delivered \union {<<current[p], s>>}
  /\ calls' = [calls EXCEPT ![current[p]][s] = @ + 1]
  /\ UNCHANGED failures

Throw(p, s) ==
  /\ current[p] \notin System
  /\ s \in MayThrow
  /\ failures' = [failures EXCEPT ![p] = @ \union {s}]
  /\ calls' = [calls EXCEPT ![current[p]][s] = @ + 1]
  /\ UNCHANGED delivered

Handle(p, s) ==
  /\ s \in todo[p]
  /\ \A t \in todo[p] : s <= t
  /\ todo' = [todo EXCEPT ![p] = @ \ {s}]
  /\ Skip(p) \/ Return(p, s) \/ Throw(p, s)
  /\ UNCHANGED <<table, batch, claimed, current>>

Dispatched(p) == current[p] # NoEvent /\ todo[p] = {}

(* An UPDATE by id that tests no status; the run goes on to its next row.    *)
Settle(p, e, s, n) ==
  /\ status' = [status EXCEPT ![e] = s]
  /\ attempts' = [attempts EXCEPT ![e] = n]
  /\ batch' = [batch EXCEPT ![p] = @ \ {e}]
  /\ current' = [current EXCEPT ![p] = NoEvent]
  /\ failures' = [failures EXCEPT ![p] = {}]
  /\ UNCHANGED <<claimed, todo, history>>

(* Variant: the attempt is not counted.                                      *)
SameAttempts(p, e) == claimed[p][e]

NextAttempts(p, e) == claimed[p][e] + 1

RejectMalformed(p, e) ==
  /\ current[p] = NoEvent
  /\ e \in batch[p] \cap Malformed
  /\ Settle(p, e, "failed", NextAttempts(p, e))

(* Variant: the failures of the dispatch are ignored.                        *)
MarkPublishedAnyway(p) ==
  /\ Dispatched(p)
  /\ Settle(p, current[p], "published", attempts[current[p]])

MarkPublished(p) ==
  /\ Dispatched(p)
  /\ failures[p] = {}
  /\ Settle(p, current[p], "published", attempts[current[p]])

(* Variant: the last attempt is not made.                                    *)
MarkFailedEarly(p) ==
  /\ Dispatched(p)
  /\ failures[p] # {}
  /\ NextAttempts(p, current[p]) + 1 >= MaxAttempts
  /\ Settle(p, current[p], "failed", NextAttempts(p, current[p]))

MarkFailed(p) ==
  /\ Dispatched(p)
  /\ failures[p] # {}
  /\ NextAttempts(p, current[p]) >= MaxAttempts
  /\ Settle(p, current[p], "failed", NextAttempts(p, current[p]))

(* Variant: one attempt too many.                                            *)
RequeueOnceMore(p) ==
  /\ Dispatched(p)
  /\ failures[p] # {}
  /\ NextAttempts(p, current[p]) <= MaxAttempts
  /\ Settle(p, current[p], "pending", NextAttempts(p, current[p]))

Requeue(p) ==
  /\ Dispatched(p)
  /\ failures[p] # {}
  /\ NextAttempts(p, current[p]) < MaxAttempts
  /\ Settle(p, current[p], "pending", NextAttempts(p, current[p]))

(* A statement of the run fails and run() throws, or the process dies: the   *)
(* batch is forgotten, and its rows stay as they are.                        *)
Stop(p) ==
  /\ p \in MayStop
  /\ batch[p] # {}
  /\ batch' = [batch EXCEPT ![p] = {}]
  /\ current' = [current EXCEPT ![p] = NoEvent]
  /\ todo' = [todo EXCEPT ![p] = {}]
  /\ failures' = [failures EXCEPT ![p] = {}]
  /\ UNCHANGED <<table, claimed, history>>

Proceed(p) ==
  \/ Claim(p)
  \/ \E e \in Events : Dispatch(p, e) \/ RejectMalformed(p, e)
  \/ \E s \in Subscriptions : Handle(p, s)
  \/ MarkPublished(p) \/ MarkFailed(p) \/ Requeue(p)

Next ==
  \/ \E e \in Events : Commit(e)
  \/ \E p \in Publishers : Proceed(p) \/ Stop(p)

Spec == Init /\ [][Next]_vars

(* run() is called again and again (publisher.ts leaves the schedule to the  *)
(* runtime), and handlers and statements return.                             *)
FairSpec == Spec /\ \A p \in Publishers : WF_vars(Proceed(p))

-----------------------------------------------------------------------------
(* Properties *)

TypeOK ==
  /\ status \in [Events -> Statuses]
  /\ attempts \in [Events -> 0 .. MaxAttempts]
  /\ batch \in [Publishers -> SUBSET Events]
  /\ claimed \in [Publishers -> [Events -> 0 .. MaxAttempts]]
  /\ current \in [Publishers -> Events \union {NoEvent}]
  /\ todo \in [Publishers -> SUBSET Subscriptions]
  /\ failures \in [Publishers -> SUBSET Subscriptions]
  /\ delivered \subseteq Events \X Subscriptions
  /\ calls \in [Events -> [Subscriptions -> Nat]]

(* "Multiple publisher processes share the outbox without stepping on each   *)
(* other": a row in a batch is processing, in no other run's batch, and has  *)
(* the attempts the claim returned, so no UPDATE by id loses another's.      *)
ClaimsExclusive ==
  \A p \in Publishers : \A e \in batch[p] :
    /\ status[e] = "processing"
    /\ attempts[e] = claimed[p][e]
    /\ \A o \in Publishers \ {p} : e \notin batch[o]

(* Retries and crashes call no handler more than MaxAttempts times for one   *)
(* event, however the runs overlap.                                          *)
CallsBounded ==
  \A e \in Events, s \in Subscriptions : calls[e][s] <= MaxAttempts

(* An event is given up only if it cannot be parsed or after MaxAttempts     *)
(* unsuccessful dispatches, and is not left to be tried again once it has    *)
(* used them up.                                                             *)
GivenUpLast ==
  \A e \in Events :
    /\ status[e] = "failed" => e \in Malformed \/ attempts[e] = MaxAttempts
    /\ status[e] = "pending" => attempts[e] < MaxAttempts

(* The outbox implements OutboxDelivery: published means that every handler  *)
(* of the event has returned, in one dispatch or over several; no handler    *)
(* gets an event whose row is published or failed; those are final.          *)
Delivery == INSTANCE OutboxDelivery WITH
  state <- [e \in Events |->
              CASE status[e] = "unwritten" -> "absent"
                [] status[e] \in {"pending", "processing"} -> "queued"
                [] OTHER -> status[e]]

ImplementsDelivery == Delivery!Spec

(* A row that no run will settle: the one that claimed it has died.          *)
Stranded(e) == status[e] = "processing" /\ \A p \in Publishers : e \notin batch[p]

(* Every committed event ends published or failed, whatever its handlers do  *)
(* and the other run dies of, unless it is in the batch of the dead one.     *)
EventsSettle ==
  \A e \in Events :
    status[e] \in {"pending", "processing"} ~>
      status[e] \in {"published", "failed"} \/ Stranded(e)

(* Every committed event ends: published or failed.                          *)
EventsEnd ==
  \A e \in Events :
    status[e] \in {"pending", "processing"} ~> status[e] \in {"published", "failed"}
=============================================================================
