------------------------------- MODULE Webhook --------------------------------
(***************************************************************************)
(* The webhook notifier of internal/gateway/webhook.go: the event handler  *)
(* of each session builds a payload and pushes it on a bounded queue, a    *)
(* pool of workers posts the payloads to the endpoint with retries, and    *)
(* stop closes quit and waits for the workers.                             *)
(*                                                                         *)
(* A payload is the event it was built from.  The handler of a session is  *)
(* sequential; between receive and enqueue it may be downloading the       *)
(* event's media, for as long as that takes.                               *)
(***************************************************************************)
EXTENDS Integers, Sequences, FiniteSets

CONSTANTS
    Sessions,       \* session names
    Events,         \* the events WhatsApp may deliver
    SessionOf,      \* the session an event is for
    Forwarded,      \* events of a kind WEBHOOK_EVENTS and receiptStatus let through
    Workers,        \* the worker goroutines start() launched, at least one
    QueueSize,      \* WEBHOOK_QUEUE_SIZE
    MaxRetries,     \* WEBHOOK_MAX_RETRIES
    NoEvent         \* not an event

ASSUME WebhookAssumption ==
    /\ SessionOf \in [Events -> Sessions]
    /\ Forwarded \subseteq Events
    /\ IsFiniteSet(Workers) /\ Workers # {}
    /\ QueueSize \in Int
    /\ MaxRetries \in Int
    /\ NoEvent \notin Events

\* Settings below one count as one.
AtLeastOne(n) == IF n < 1 THEN 1 ELSE n
Capacity == AtLeastOne(QueueSize)
Attempts == AtLeastOne(MaxRetries + 1)

VARIABLES
    proc,      \* "up", "offline" (sessions disconnected), "quit" (quit closed), "stopped"
    handler,   \* the event a session's handler is working on
    queue,     \* n.queue
    pc,        \* where a worker is
    body,      \* the payload a worker delivers
    attempt,   \* the attempt it is at
    \* history
    arrived,   \* events handed to a handler
    accepted,  \* events pushed, in order
    posts,     \* how often an event was posted
    got,       \* the events the endpoint received
    outcome    \* what became of an event

workerVars == <<pc, body, attempt>>
vars == <<proc, handler, queue, workerVars, arrived, accepted, posts, got, outcome>>

Init ==
    /\ proc = "up"
    /\ handler = [s \in Sessions |-> NoEvent]
    /\ queue = <<>>
    /\ pc = [w \in Workers |-> "idle"]
    /\ body = [w \in Workers |-> NoEvent]
    /\ attempt = [w \in Workers |-> 0]
    /\ arrived = {}
    /\ accepted = <<>>
    /\ posts = [e \in Events |-> 0]
    /\ got = {}
    /\ outcome = [e \in Events |-> "none"]

-------------------------------------------------------------------------------
(***************************************************************************)
(* The event handlers.                                                     *)
(***************************************************************************)

\* Events of other kinds return at once and are not modelled further.
Receive(e) ==
    /\ proc = "up"
    /\ e \in Forwarded \ arrived
    /\ handler[SessionOf[e]] = NoEvent
    /\ handler' = [handler EXCEPT ![SessionOf[e]] = e]
    /\ arrived' = arrived \cup {e}
    /\ UNCHANGED <<proc, queue, workerVars, accepted, posts, got, outcome>>

\* Mutant: a full queue gives up its oldest payload instead of the new one.
enqueue_DropOldest(s) ==
    LET e == handler[s] IN
    /\ e # NoEvent
    /\ queue' = Append(IF Len(queue) < Capacity THEN queue ELSE Tail(queue), e)
    /\ accepted' = Append(accepted, e)
    /\ outcome' = [outcome EXCEPT ![e] = "accepted"]
    /\ handler' = [handler EXCEPT ![s] = NoEvent]
    /\ UNCHANGED <<proc, workerVars, arrived, posts, got>>

\* enqueue and enqueueReceipt: the push does not block, a payload that finds
\* the queue full is dropped.
enqueue(s) ==
    LET e == handler[s] IN
    /\ proc # "stopped"
    /\ e # NoEvent
    /\ IF Len(queue) < Capacity
       THEN /\ queue' = Append(queue, e)
            /\ accepted' = Append(accepted, e)
            /\ outcome' = [outcome EXCEPT ![e] = "accepted"]
       ELSE /\ outcome' = [outcome EXCEPT ![e] = "dropped"]
            /\ UNCHANGED <<queue, accepted>>
    /\ handler' = [handler EXCEPT ![s] = NoEvent]
    /\ UNCHANGED <<proc, workerVars, arrived, posts, got>>

-------------------------------------------------------------------------------
(***************************************************************************)
(* The workers.  With quit closed and a payload waiting, select takes      *)
(* either: a worker may go on delivering for a while.                      *)
(***************************************************************************)

Quitting == proc = "quit"

\* Mutant: the payload last pushed is delivered first.
Take_Newest(w) ==
    /\ pc[w] = "idle"
    /\ queue # <<>>
    /\ body' = [body EXCEPT ![w] = queue[Len(queue)]]
    /\ attempt' = [attempt EXCEPT ![w] = 1]
    /\ queue' = SubSeq(queue, 1, Len(queue) - 1)
    /\ pc' = [pc EXCEPT ![w] = "post"]
    /\ UNCHANGED <<proc, handler, arrived, accepted, posts, got, outcome>>

Take(w) ==
    /\ pc[w] = "idle"
    /\ queue # <<>>
    /\ body' = [body EXCEPT ![w] = Head(queue)]
    /\ attempt' = [attempt EXCEPT ![w] = 1]
    /\ queue' = Tail(queue)
    /\ pc' = [pc EXCEPT ![w] = "post"]
    /\ UNCHANGED <<proc, handler, arrived, accepted, posts, got, outcome>>

\* Mutant: an idle worker looks at quit only when a payload wakes it.
WorkerReturns_NeedsPayload(w) ==
    /\ pc[w] = "idle"
    /\ Quitting /\ queue # <<>>
    /\ pc' = [pc EXCEPT ![w] = "done"]
    /\ UNCHANGED <<proc, handler, queue, body, attempt, arrived, accepted, posts, got, outcome>>

WorkerReturns(w) ==
    /\ pc[w] = "idle"
    /\ Quitting
    /\ pc' = [pc EXCEPT ![w] = "done"]
    /\ UNCHANGED <<proc, handler, queue, body, attempt, arrived, accepted, posts, got, outcome>>

\* deliver returns to the loop of the worker.
Settle(w, o) ==
    /\ outcome' = [outcome EXCEPT ![body[w]] = o]
    /\ pc' = [pc EXCEPT ![w] = "idle"]
    /\ body' = [body EXCEPT ![w] = NoEvent]
    /\ attempt' = [attempt EXCEPT ![w] = 0]

\* Mutant: a worker that gives up on a payload leaves its loop.
post_WorkerDies(w) ==
    /\ pc[w] = "post"
    /\ posts' = [posts EXCEPT ![body[w]] = @ + 1]
    /\ \/ got' = got \cup {body[w]} /\ Settle(w, "delivered")
       \/ /\ attempt[w] < Attempts
          /\ pc' = [pc EXCEPT ![w] = "backoff"]
          /\ UNCHANGED <<body, attempt, outcome, got>>
       \/ /\ attempt[w] >= Attempts
          /\ outcome' = [outcome EXCEPT ![body[w]] = "exhausted"]
          /\ pc' = [pc EXCEPT ![w] = "done"]
          /\ UNCHANGED <<body, attempt, got>>
    /\ UNCHANGED <<proc, handler, queue, arrived, accepted>>

\* An attempt may reach the endpoint and still fail: the answer is lost, late,
\* or not a success.
post(w) ==
    /\ pc[w] = "post"
    /\ posts' = [posts EXCEPT ![body[w]] = @ + 1]
    /\ \E reached, ok \in BOOLEAN :
        /\ ok => reached
        /\ got' = IF reached THEN got \cup {body[w]} ELSE got
        /\ IF ok THEN Settle(w, "delivered")
           ELSE IF attempt[w] < Attempts
           THEN pc' = [pc EXCEPT ![w] = "backoff"] /\ UNCHANGED <<body, attempt, outcome>>
           ELSE Settle(w, "exhausted")
    /\ UNCHANGED <<proc, handler, queue, arrived, accepted>>

\* Mutant: the backoff is cut short without quit, and the payload forgotten.
backoff_Forgets(w) ==
    /\ pc[w] = "backoff"
    /\ Settle(w, "abandoned")
    /\ UNCHANGED <<proc, handler, queue, arrived, accepted, posts, got>>

\* The wait between two attempts: quit ends it, and the delivery with it.
backoff(w) ==
    /\ pc[w] = "backoff"
    /\ \/ /\ attempt' = [attempt EXCEPT ![w] = @ + 1]
          /\ pc' = [pc EXCEPT ![w] = "post"]
          /\ UNCHANGED <<body, outcome>>
       \/ Quitting /\ Settle(w, "abandoned")
    /\ UNCHANGED <<proc, handler, queue, arrived, accepted, posts, got>>

WorkerStep(w) == Take(w) \/ WorkerReturns(w) \/ post(w) \/ backoff(w)

-------------------------------------------------------------------------------
(***************************************************************************)
(* Manager.Stop: the sessions are disconnected, then stop closes quit and  *)
(* returns once the workers have.                                          *)
(***************************************************************************)

StopSessions ==
    /\ proc = "up"
    /\ proc' = "offline"
    /\ UNCHANGED <<handler, queue, workerVars, arrived, accepted, posts, got, outcome>>

CloseQuit ==
    /\ proc = "offline"
    /\ proc' = "quit"
    /\ UNCHANGED <<handler, queue, workerVars, arrived, accepted, posts, got, outcome>>

stop ==
    /\ proc = "quit"
    /\ \A w \in Workers : pc[w] = "done"
    /\ proc' = "stopped"
    /\ UNCHANGED <<handler, queue, workerVars, arrived, accepted, posts, got, outcome>>

Next ==
    \/ \E e \in Events : Receive(e)
    \/ \E s \in Sessions : enqueue(s)
    \/ \E w \in Workers : WorkerStep(w)
    \/ StopSessions \/ CloseQuit \/ stop

Spec == Init /\ [][Next]_vars

(***************************************************************************)
(* A post returns within its timeout and a backoff ends, so workers keep   *)
(* going, and a stop that was begun goes on.  An event handler may hang in *)
(* a download: enqueue is not fair.                                        *)
(***************************************************************************)
Fairness ==
    /\ \A w \in Workers : WF_vars(WorkerStep(w))
    /\ WF_vars(CloseQuit) /\ WF_vars(stop)

FairSpec == Spec /\ Fairness

-------------------------------------------------------------------------------
Outcomes == {"none", "accepted", "dropped", "delivered", "exhausted", "abandoned"}

TypeOK ==
    /\ proc \in {"up", "offline", "quit", "stopped"}
    /\ handler \in [Sessions -> Events \cup {NoEvent}]
    /\ queue \in Seq(Events)
    /\ pc \in [Workers -> {"idle", "post", "backoff", "done"}]
    /\ body \in [Workers -> Events \cup {NoEvent}]
    /\ attempt \in [Workers -> 0 .. Attempts]
    /\ arrived \in SUBSET Events
    /\ accepted \in Seq(Events)
    /\ posts \in [Events -> Nat]
    /\ got \in SUBSET Events
    /\ outcome \in [Events -> Outcomes]

Settled(e) == outcome[e] \in {"delivered", "exhausted", "abandoned"}

Busy(w) == pc[w] \in {"post", "backoff"}

\* How often an event is waiting or being worked on.
Copies(e) ==
    Cardinality({i \in DOMAIN queue : queue[i] = e})
    + Cardinality({w \in Workers : Busy(w) /\ body[w] = e})

(***************************************************************************)
(* No accepted event is lost or duplicated inside the gateway: until it is *)
(* settled it is in exactly one place of the queue or with one worker,     *)
(* afterwards nowhere, and no worker gets a payload nobody pushed.         *)
(***************************************************************************)
Conserved ==
    /\ TypeOK
    /\ \A e \in Events :
            Copies(e) = IF outcome[e] = "accepted" THEN 1 ELSE 0

(***************************************************************************)
(* A payload is given up only after the configured attempts, and no more   *)
(* than those are made; it is let go earlier only by a stop.               *)
(***************************************************************************)
AttemptsHonoured ==
    \A e \in Events :
        /\ posts[e] <= Attempts
        /\ outcome[e] = "exhausted" => posts[e] = Attempts
        /\ outcome[e] = "abandoned" => proc \in {"quit", "stopped"}
        /\ outcome[e] = "delivered" => e \in got

Before(e) == {f \in Events : \E i, k \in DOMAIN accepted :
                  i < k /\ accepted[i] = f /\ accepted[k] = e}

(***************************************************************************)
(* The endpoint may see events out of order, but an event overtakes at     *)
(* most as many earlier ones as there are other workers.                   *)
(***************************************************************************)
BoundedOvertaking ==
    \A e \in got : Cardinality({f \in Before(e) : ~Settled(f)}) < Cardinality(Workers)

(***************************************************************************)
(* Every accepted event is settled, unless the gateway stops.              *)
(***************************************************************************)
AcceptedSettles ==
    \A e \in Events : outcome[e] = "accepted" ~> Settled(e) \/ proc \in {"quit", "stopped"}

(***************************************************************************)
(* stop returns: no worker is held by its queue or its retries.            *)
(***************************************************************************)
StopReturns == proc = "quit" ~> proc = "stopped"

(***************************************************************************)
(* The notifier implements the channel: workers, attempts and the endpoint *)
(* are hidden.                                                             *)
(***************************************************************************)
Channel == INSTANCE EventChannel WITH
    Width <- Cardinality(Workers),
    open <- proc \in {"up", "offline"},
    waiting <- queue,
    sending <- {body[w] : w \in {v \in Workers : Busy(v)}},
    result <- outcome

ImplementsChannel == Channel!Spec

(***************************************************************************)
(* The comment on stop says it drains the worker pool.                     *)
(***************************************************************************)
DocStopDrains ==
    proc = "stopped" => \A e \in Events : outcome[e] # "accepted" /\ outcome[e] # "abandoned"
-------------------------------------------------------------------------------
(***************************************************************************)
(* The inductive invariant behind the properties.                          *)
(***************************************************************************)

Waiting(e) == \E i \in DOMAIN queue : queue[i] = e
InWork(e) == \E w \in Workers : Busy(w) /\ body[w] = e

\* An event in a handler is its session's, and was never offered before.
HandlerInv ==
    /\ \A s \in Sessions : handler[s] # NoEvent =>
            /\ SessionOf[handler[s]] = s
            /\ handler[s] \in arrived
            /\ outcome[handler[s]] = "none"
    /\ \A e \in Events : outcome[e] # "none" => e \in arrived

\* Conserved, place by place.
PlaceInv ==
    /\ \A i, k \in DOMAIN queue : queue[i] = queue[k] => i = k
    /\ \A v, w \in Workers : Busy(v) /\ Busy(w) /\ body[v] = body[w] => v = w
    /\ \A w \in Workers : Busy(w) => body[w] \in Events
    /\ \A e \in Events :
        /\ ~(Waiting(e) /\ InWork(e))
        /\ outcome[e] = "accepted" <=> Waiting(e) \/ InWork(e)

\* Posts are counted by the attempts, and there is none before a worker.
AttemptInv ==
    /\ \A w \in Workers :
        /\ pc[w] = "post" => attempt[w] > 0 /\ posts[body[w]] = attempt[w] - 1
        /\ pc[w] = "backoff" => attempt[w] < Attempts /\ posts[body[w]] = attempt[w]
    /\ \A e \in Events :
        /\ ~InWork(e) /\ ~Settled(e) => posts[e] = 0
        /\ e \in got => posts[e] > 0

Taken == 1 .. Len(accepted) - Len(queue)

Behind(k) == {accepted[i] : i \in {j \in 1 .. k - 1 : ~Settled(accepted[j])}}

\* The queue is the end of what was accepted, each event once; whatever was
\* taken from it has fewer events unsettled before it than there are workers.
OrderInv ==
    /\ Len(queue) <= Capacity
    /\ Len(queue) <= Len(accepted)
    /\ \A i \in 1 .. Len(queue) : queue[i] = accepted[i + Len(accepted) - Len(queue)]
    /\ \A i, k \in DOMAIN accepted : accepted[i] = accepted[k] => i = k
    /\ \A i \in DOMAIN accepted : outcome[accepted[i]] \notin {"none", "dropped"}
    /\ \A e \in Events : outcome[e] \notin {"none", "dropped"} =>
            \E i \in DOMAIN accepted : accepted[i] = e
    /\ \A k \in Taken : Cardinality(Behind(k)) < Cardinality(Workers)

WebhookInv == TypeOK /\ HandlerInv /\ PlaceInv /\ AttemptInv /\ AttemptsHonoured /\ OrderInv
===============================================================================
