----------------------------- MODULE WebhookProofs -----------------------------
(***************************************************************************)
(* The safety of the notifier, for any number of sessions, events and      *)
(* workers, any queue and any number of retries: nothing accepted is lost  *)
(* or doubled, attempts are as configured, overtaking is bounded, and the  *)
(* notifier implements the channel.                                        *)
(***************************************************************************)
EXTENDS Webhook, FiniteSetTheorems, SequenceTheorems, TLAPS

LEMMA CapacityType == Capacity \in Nat \ {0} /\ Attempts \in Nat \ {0}
BY WebhookAssumption DEF Capacity, Attempts, AtLeastOne

\* A set that a function maps another one onto has no more elements.
LEMMA ImageBound ==
    ASSUME NEW f, NEW S, IsFiniteSet(S), NEW T, \A t \in T : \E s \in S : f[s] = t
    PROVE  IsFiniteSet(T) /\ Cardinality(T) <= Cardinality(S)
<1> DEFINE D == {s \in S : f[s] \in T}
<1> DEFINE g == [s \in D |-> f[s]]
<1>1. IsFiniteSet(D) /\ Cardinality(D) <= Cardinality(S)
    BY FS_Subset
<1>2. g \in Surjection(D, T)
    BY DEF Surjection
<1>3. IsFiniteSet(T) /\ Cardinality(T) <= Cardinality(D)
    BY <1>1, <1>2, FS_Surjection
<1> QED
    BY <1>1, <1>3, FS_CardinalityType

\* The elements of the queue and of what was accepted, one by one.
LEMMA Elements ==
    ASSUME NEW q \in Seq(Events)
    PROVE  /\ Len(q) \in Nat /\ DOMAIN q = 1 .. Len(q)
           /\ \A i \in 1 .. Len(q) : q[i] \in Events
OBVIOUS

LEMMA Pushed ==
    ASSUME NEW q \in Seq(Events), NEW e \in Events
    PROVE  /\ Append(q, e) \in Seq(Events)
           /\ Len(Append(q, e)) = Len(q) + 1
           /\ \A i \in 1 .. Len(q) : Append(q, e)[i] = q[i]
           /\ Append(q, e)[Len(q) + 1] = e
BY AppendProperties

LEMMA Popped ==
    ASSUME NEW q \in Seq(Events), q # <<>>
    PROVE  /\ Tail(q) \in Seq(Events) /\ Len(q) > 0
           /\ Len(Tail(q)) = Len(q) - 1
           /\ Head(q) = q[1] /\ q[1] \in Events
           /\ \A i \in 1 .. Len(q) - 1 : Tail(q)[i] = q[i + 1]
BY HeadTailProperties

LEMMA BehindFinite ==
    ASSUME NEW k \in Nat
    PROVE  IsFiniteSet(Behind(k)) /\ Cardinality(Behind(k)) \in Nat
<1>1. IsFiniteSet(1 .. k - 1)
    BY FS_Interval
<1>2. \A e \in Behind(k) : \E i \in 1 .. k - 1 : accepted[i] = e
    BY DEF Behind
<1> QED
    BY <1>1, <1>2, ImageBound, FS_CardinalityType

\* What is behind an event only shrinks, once it was taken.
LEMMA BehindShrinks ==
    ASSUME NEW k \in Nat, Behind(k)' \subseteq Behind(k),
           Cardinality(Behind(k)) < Cardinality(Workers)
    PROVE  Cardinality(Behind(k)') < Cardinality(Workers)
<1> DEFINE B == Behind(k)'
<1>1. IsFiniteSet(Behind(k)) /\ Cardinality(Behind(k)) \in Nat
    BY BehindFinite
<1>2. IsFiniteSet(B) /\ Cardinality(B) <= Cardinality(Behind(k))
    BY <1>1, FS_Subset
<1>3. Cardinality(B) \in Nat /\ Cardinality(Workers) \in Nat
    BY <1>2, FS_CardinalityType, WebhookAssumption
<1> HIDE DEF B
<1>4. Cardinality(B) < Cardinality(Workers)
    BY <1>1, <1>2, <1>3
<1> QED
    BY <1>4 DEF B

LEMMA TakenKept ==
    ASSUME TypeOK, OrderInv, NEW k \in Taken,
           \A i \in 1 .. k : accepted'[i] = accepted[i],
           \A e \in Events : Settled(e) => Settled(e)'
    PROVE  Cardinality(Behind(k)') < Cardinality(Workers)
<1>1. accepted \in Seq(Events) /\ queue \in Seq(Events)
    BY DEF TypeOK
<1>2. k \in Nat /\ k <= Len(accepted)
    BY <1>1, Elements DEF Taken
<1>3. \A i \in 1 .. k - 1 : accepted[i] \in Events /\ accepted'[i] = accepted[i]
    BY <1>1, <1>2, Elements
<1>4. Behind(k)' \subseteq Behind(k)
    BY <1>3 DEF Behind
<1> QED
    BY <1>2, <1>4, BehindShrinks DEF OrderInv

\* Steps that neither push nor pop.
LEMMA OrderKept ==
    ASSUME TypeOK, OrderInv, accepted' = accepted, queue' = queue,
           \A e \in Events : Settled(e) => Settled(e)',
           \A e \in Events : outcome'[e] # outcome[e] =>
                \/ outcome[e] = "none" /\ outcome'[e] = "dropped"
                \/ outcome[e] = "accepted" /\ Settled(e)'
    PROVE  OrderInv'
<1>1. Taken' = Taken /\ \A k \in Taken : Cardinality(Behind(k)') < Cardinality(Workers)
    BY TakenKept DEF Taken
<1>2. accepted \in Seq(Events)
    BY DEF TypeOK
<1>3. \A i \in DOMAIN accepted : accepted[i] \in Events
    BY <1>2, Elements
<1>4. \A e \in Events : outcome'[e] \notin {"none", "dropped"} <=> outcome[e] \notin {"none", "dropped"}
    BY DEF Settled
<1>5. /\ Len(queue)' <= Capacity /\ Len(queue)' <= Len(accepted)'
      /\ (\A i \in 1 .. Len(queue) : queue[i] = accepted[i + Len(accepted) - Len(queue)])'
      /\ (\A i, k \in DOMAIN accepted : accepted[i] = accepted[k] => i = k)'
    BY DEF OrderInv
<1>6. /\ (\A i \in DOMAIN accepted : outcome[accepted[i]] \notin {"none", "dropped"})'
      /\ (\A e \in Events : outcome[e] \notin {"none", "dropped"} =>
            \E i \in DOMAIN accepted : accepted[i] = e)'
    BY <1>3, <1>4 DEF OrderInv
<1> QED
    BY <1>1, <1>5, <1>6 DEF OrderInv

-------------------------------------------------------------------------------
LEMMA InitInv == Init => WebhookInv
<1> SUFFICES ASSUME Init PROVE WebhookInv
    OBVIOUS
<1>1. TypeOK
    BY CapacityType DEF Init, TypeOK, Outcomes
<1>2. HandlerInv
    BY DEF Init, HandlerInv
<1>3. PlaceInv
    BY DEF Init, PlaceInv, Waiting, InWork, Busy
<1>4. AttemptInv
    BY CapacityType DEF Init, AttemptInv, Busy, InWork, Settled
<1>5. AttemptsHonoured
    BY CapacityType DEF Init, AttemptsHonoured
<1>6. OrderInv
    BY CapacityType DEF Init, OrderInv, Taken
<1> QED
    BY <1>1, <1>2, <1>3, <1>4, <1>5, <1>6 DEF WebhookInv

LEMMA ReceiveInv ==
    ASSUME WebhookInv, NEW e \in Events, Receive(e)
    PROVE  WebhookInv'
<1>t. TypeOK /\ HandlerInv /\ PlaceInv /\ AttemptInv /\ AttemptsHonoured /\ OrderInv
    BY DEF WebhookInv
<1>u. /\ proc = "up" /\ proc' = proc /\ queue' = queue /\ pc' = pc /\ body' = body
      /\ attempt' = attempt /\ accepted' = accepted /\ posts' = posts /\ got' = got
      /\ outcome' = outcome
    BY DEF Receive, workerVars
<1>s. SessionOf[e] \in Sessions
    BY WebhookAssumption
<1>1. /\ handler' = [handler EXCEPT ![SessionOf[e]] = e]
      /\ arrived' = arrived \cup {e} /\ e \notin arrived
    BY DEF Receive
<1>2. TypeOK'
    BY <1>t, <1>u, <1>s, <1>1 DEF TypeOK
<1>3. HandlerInv'
  <2>1. /\ \A s \in Sessions : handler'[s] = IF s = SessionOf[e] THEN e ELSE handler[s]
        /\ outcome[e] = "none"
      BY <1>t, <1>s, <1>1 DEF TypeOK, HandlerInv, Outcomes
  <2> QED
      BY <1>t, <1>u, <1>1, <2>1 DEF HandlerInv
<1>4. PlaceInv' /\ AttemptInv' /\ AttemptsHonoured'
    BY <1>t, <1>u DEF PlaceInv, AttemptInv, AttemptsHonoured, Waiting, InWork, Busy, Settled
<1>5. OrderInv'
    BY <1>t, <1>u, OrderKept DEF OrderInv, Settled
<1> QED
    BY <1>2, <1>3, <1>4, <1>5 DEF WebhookInv

\* The push, and the drop.
LEMMA EnqueueInv ==
    ASSUME WebhookInv, NEW s \in Sessions, enqueue(s)
    PROVE  WebhookInv'
<1>t. TypeOK /\ HandlerInv /\ PlaceInv /\ AttemptInv /\ AttemptsHonoured /\ OrderInv
    BY DEF WebhookInv
<1>u. /\ proc' = proc /\ pc' = pc /\ body' = body /\ attempt' = attempt
      /\ arrived' = arrived /\ posts' = posts /\ got' = got
      /\ handler' = [handler EXCEPT ![s] = NoEvent]
    BY DEF enqueue, workerVars
<1>h. PICK e \in Events : e = handler[s]
    BY <1>t DEF enqueue, TypeOK
<1>e. /\ e # NoEvent /\ outcome[e] = "none" /\ SessionOf[e] = s /\ e \in arrived
      /\ handler \in [Sessions -> Events \cup {NoEvent}]
      /\ outcome \in [Events -> Outcomes] /\ queue \in Seq(Events) /\ accepted \in Seq(Events)
    BY <1>t, <1>h DEF enqueue, TypeOK, HandlerInv
<1>1. \A z \in Sessions : handler'[z] = (IF z = s THEN NoEvent ELSE handler[z])
    BY <1>u, <1>e
<1>2. \A z \in Sessions : z # s => handler[z] # e
    BY <1>t, <1>e, <1>h, WebhookAssumption DEF HandlerInv
<1>n. /\ ~Waiting(e) /\ ~InWork(e) /\ posts[e] = 0 /\ e \notin got
      /\ \A i \in DOMAIN accepted : accepted[i] # e
    BY <1>t, <1>e DEF PlaceInv, AttemptInv, OrderInv, Settled
<1>3. CASE Len(queue) < Capacity
  <2>1. /\ queue' = Append(queue, e) /\ accepted' = Append(accepted, e)
        /\ outcome' = [outcome EXCEPT ![e] = "accepted"]
      BY <1>3, <1>h DEF enqueue
  <2>2. /\ outcome'[e] = "accepted"
        /\ \A f \in Events : f # e => outcome'[f] = outcome[f]
      BY <2>1, <1>e
  <2>3. TypeOK'
      BY <1>t, <1>u, <1>e, <2>1, Pushed DEF TypeOK, Outcomes
  <2>4. HandlerInv'
      BY <1>t, <1>u, <1>e, <1>1, <1>2, <2>2 DEF HandlerInv
  <2>q. /\ Len(queue) \in Nat /\ DOMAIN queue = 1 .. Len(queue)
        /\ Len(queue') = Len(queue) + 1 /\ DOMAIN queue' = 1 .. Len(queue) + 1
        /\ \A i \in 1 .. Len(queue) : queue'[i] = queue[i] /\ queue[i] \in Events
        /\ queue'[Len(queue) + 1] = e
      BY <1>e, <2>1, Pushed, Elements
  <2>a. /\ Len(accepted) \in Nat /\ DOMAIN accepted = 1 .. Len(accepted)
        /\ Len(accepted') = Len(accepted) + 1 /\ DOMAIN accepted' = 1 .. Len(accepted) + 1
        /\ \A i \in 1 .. Len(accepted) : accepted'[i] = accepted[i] /\ accepted[i] \in Events
        /\ accepted'[Len(accepted) + 1] = e
      BY <1>e, <2>1, Pushed, Elements
  <2>w. /\ \A f \in Events : f # e => (Waiting(f)' <=> Waiting(f))
        /\ Waiting(e)'
      BY <2>q DEF Waiting
  <2>k. \A f \in Events : InWork(f)' <=> InWork(f)
      BY <1>u DEF InWork, Busy
  <2>5. PlaceInv'
    <3>1. \A i \in DOMAIN queue : queue[i] # e
        BY <1>n DEF Waiting
    <3>2. (\A i, k \in DOMAIN queue : queue[i] = queue[k] => i = k)'
        BY <1>t, <2>q, <3>1 DEF PlaceInv
    <3>3. /\ (\A v, w \in Workers : Busy(v) /\ Busy(w) /\ body[v] = body[w] => v = w)'
          /\ (\A w \in Workers : Busy(w) => body[w] \in Events)'
        BY <1>t, <1>u DEF PlaceInv, Busy
    <3>4. (\A f \in Events :
                /\ ~(Waiting(f) /\ InWork(f))
                /\ outcome[f] = "accepted" <=> Waiting(f) \/ InWork(f))'
        BY <1>t, <1>n, <2>2, <2>w, <2>k DEF PlaceInv
    <3> QED
        BY <3>2, <3>3, <3>4 DEF PlaceInv
  <2>6. AttemptInv'
      BY <1>t, <1>u, <1>n, <2>2, <2>k DEF AttemptInv, Settled
  <2>7. AttemptsHonoured'
      BY <1>t, <1>u, <2>2 DEF AttemptsHonoured
  <2>8. OrderInv'
    <3>1. Len(queue) <= Len(accepted) /\ Len(accepted)' - Len(queue)' = Len(accepted) - Len(queue)
        BY <1>t, <2>q, <2>a DEF OrderInv
    <3>2. Taken' = Taken
        BY <3>1 DEF Taken
    <3>3. \A f \in Events : Settled(f) => Settled(f)'
        BY <1>e, <2>2 DEF Settled
    <3>4. \A k \in Taken : Cardinality(Behind(k)') < Cardinality(Workers)
      <4>1. \A k \in Taken : \A i \in 1 .. k : accepted'[i] = accepted[i]
          BY <2>a, <2>q DEF Taken
      <4> QED
          BY <1>t, <3>3, <4>1, TakenKept
    <3>5. Len(queue)' <= Capacity /\ Len(queue)' <= Len(accepted)'
        BY <1>3, <3>1, <2>q, <2>a, CapacityType
    <3>6. (\A i \in 1 .. Len(queue) : queue[i] = accepted[i + Len(accepted) - Len(queue)])'
      <4> SUFFICES ASSUME NEW i \in 1 .. Len(queue)'
                   PROVE  queue'[i] = accepted'[i + Len(accepted)' - Len(queue)']
          OBVIOUS
      <4>1. i + Len(accepted)' - Len(queue)' = i + Len(accepted) - Len(queue)
          BY <2>q, <2>a
      <4>2. CASE i <= Len(queue)
          BY <1>t, <2>q, <2>a, <3>1, <4>1, <4>2 DEF OrderInv
      <4>3. CASE i = Len(queue) + 1
          BY <2>q, <2>a, <4>1, <4>3
      <4> QED
          BY <2>q, <4>2, <4>3
    <3>7. (\A i, k \in DOMAIN accepted : accepted[i] = accepted[k] => i = k)'
        BY <1>t, <1>n, <2>a DEF OrderInv
    <3>8. (\A i \in DOMAIN accepted : outcome[accepted[i]] \notin {"none", "dropped"})'
        BY <1>t, <1>n, <2>a, <2>2 DEF OrderInv
    <3>9. (\A f \in Events : outcome[f] \notin {"none", "dropped"} =>
                \E i \in DOMAIN accepted : accepted[i] = f)'
      <4> SUFFICES ASSUME NEW f \in Events, outcome'[f] \notin {"none", "dropped"}
                   PROVE  \E i \in DOMAIN accepted' : accepted'[i] = f
          OBVIOUS
      <4>1. CASE f = e
          BY <2>a, <4>1
      <4>2. CASE f # e
        <5>1. PICK i \in DOMAIN accepted : accepted[i] = f
            BY <1>t, <2>2, <4>2 DEF OrderInv
        <5> QED
            BY <5>1, <2>a
      <4> QED
          BY <4>1, <4>2
    <3> QED
        BY <3>2, <3>4, <3>5, <3>6, <3>7, <3>8, <3>9 DEF OrderInv
  <2> QED
      BY <2>3, <2>4, <2>5, <2>6, <2>7, <2>8 DEF WebhookInv
<1>4. CASE ~(Len(queue) < Capacity)
  <2>1. queue' = queue /\ accepted' = accepted /\ outcome' = [outcome EXCEPT ![e] = "dropped"]
      BY <1>4, <1>h DEF enqueue
  <2>2. /\ outcome'[e] = "dropped"
        /\ \A f \in Events : f # e => outcome'[f] = outcome[f]
      BY <2>1, <1>e
  <2>3. TypeOK'
      BY <1>t, <1>u, <1>e, <2>1 DEF TypeOK, Outcomes
  <2>4. HandlerInv'
      BY <1>t, <1>u, <1>e, <1>1, <1>2, <2>2 DEF HandlerInv
  <2>5. PlaceInv'
      BY <1>t, <1>u, <1>n, <2>1, <2>2 DEF PlaceInv, Waiting, InWork, Busy
  <2>6. AttemptInv'
      BY <1>t, <1>u, <1>n, <2>2 DEF AttemptInv, InWork, Busy, Settled
  <2>7. AttemptsHonoured'
      BY <1>t, <1>u, <2>2 DEF AttemptsHonoured
  <2>8. OrderInv'
      BY <1>t, <1>e, <2>1, <2>2, OrderKept DEF Settled
  <2> QED
      BY <2>3, <2>4, <2>5, <2>6, <2>7, <2>8 DEF WebhookInv
<1> QED
    BY <1>3, <1>4

\* A payload comes to a worker: what is before it and not settled is with the others.
LEMMA TakeInv ==
    ASSUME WebhookInv, NEW w \in Workers, Take(w)
    PROVE  WebhookInv'
<1>t. TypeOK /\ HandlerInv /\ PlaceInv /\ AttemptInv /\ AttemptsHonoured /\ OrderInv
    BY DEF WebhookInv
<1>u. /\ proc' = proc /\ handler' = handler /\ arrived' = arrived /\ accepted' = accepted
      /\ posts' = posts /\ got' = got /\ outcome' = outcome
    BY DEF Take
<1>0. /\ queue \in Seq(Events) /\ queue # <<>> /\ queue' = Tail(queue) /\ pc[w] = "idle"
      /\ accepted \in Seq(Events) /\ outcome \in [Events -> Outcomes]
    BY <1>t DEF Take, TypeOK
<1>q. /\ Len(queue) \in Nat /\ Len(queue) > 0 /\ DOMAIN queue = 1 .. Len(queue)
      /\ queue' \in Seq(Events)
      /\ Len(queue') = Len(queue) - 1 /\ DOMAIN queue' = 1 .. Len(queue) - 1
      /\ \A i \in 1 .. Len(queue) - 1 : queue'[i] = queue[i + 1]
      /\ \A i \in 1 .. Len(queue) : queue[i] \in Events
    BY <1>0, Popped, Elements
<1>a. /\ Len(accepted) \in Nat /\ DOMAIN accepted = 1 .. Len(accepted)
      /\ \A i \in 1 .. Len(accepted) : accepted[i] \in Events
    BY <1>0, Elements
<1>b. PICK b \in Events : b = queue[1] /\ b = Head(queue)
    BY <1>0, Popped
<1>1. /\ \A v \in Workers : pc'[v] = IF v = w THEN "post" ELSE pc[v]
      /\ \A v \in Workers : body'[v] = IF v = w THEN b ELSE body[v]
      /\ \A v \in Workers : attempt'[v] = IF v = w THEN 1 ELSE attempt[v]
    BY <1>t, <1>b DEF Take, TypeOK
<1>2. TypeOK'
    BY <1>t, <1>u, <1>q, <1>b, CapacityType DEF Take, TypeOK
<1>3. /\ Waiting(b) /\ ~InWork(b) /\ outcome[b] = "accepted"
      /\ posts[b] = 0 /\ b \notin got
  <2>1. Waiting(b)
      BY <1>q, <1>b DEF Waiting
  <2> QED
      BY <1>t, <2>1 DEF PlaceInv, AttemptInv, Settled
<1>4. /\ \A v \in Workers : Busy(v)' <=> Busy(v) \/ v = w
      /\ ~Busy(w)
    BY <1>0, <1>1 DEF Busy
<1>w. /\ \A f \in Events : f # b => (Waiting(f)' <=> Waiting(f))
      /\ ~Waiting(b)'
  <2>1. ~Waiting(b)'
      BY <1>t, <1>q, <1>b DEF PlaceInv, Waiting
  <2>2. ASSUME NEW f \in Events, f # b, Waiting(f)' PROVE Waiting(f)
    <3>1. PICK i \in 1 .. Len(queue) - 1 : queue'[i] = f
        BY <1>q, <2>2 DEF Waiting
    <3> QED
        BY <1>q, <3>1 DEF Waiting
  <2>3. ASSUME NEW f \in Events, f # b, Waiting(f) PROVE Waiting(f)'
    <3>1. PICK i \in 1 .. Len(queue) : queue[i] = f
        BY <1>q, <2>3 DEF Waiting
    <3>2. i - 1 \in 1 .. Len(queue) - 1 /\ queue'[i - 1] = f
        BY <1>q, <1>b, <2>3, <3>1
    <3> QED
        BY <1>q, <3>2 DEF Waiting
  <2> QED
      BY <2>1, <2>2, <2>3
<1>k. /\ \A f \in Events : f # b => (InWork(f)' <=> InWork(f))
      /\ InWork(b)'
    BY <1>1, <1>4 DEF InWork
<1>5. HandlerInv'
    BY <1>t, <1>u DEF HandlerInv
<1>6. PlaceInv'
  <2>1. (\A i, k \in DOMAIN queue : queue[i] = queue[k] => i = k)'
    <3> SUFFICES ASSUME NEW i \in 1 .. Len(queue) - 1, NEW k \in 1 .. Len(queue) - 1,
                        queue[i + 1] = queue[k + 1]
                 PROVE  i = k
        BY <1>q
    <3>1. i + 1 \in DOMAIN queue /\ k + 1 \in DOMAIN queue
        BY <1>q
    <3>2. i + 1 = k + 1
        BY <1>t, <3>1 DEF PlaceInv
    <3> QED
        BY <1>q, <3>2
  <2>2. (\A v, x \in Workers : Busy(v) /\ Busy(x) /\ body[v] = body[x] => v = x)'
      BY <1>t, <1>1, <1>3, <1>4 DEF PlaceInv, InWork
  <2>3. (\A v \in Workers : Busy(v) => body[v] \in Events)'
      BY <1>t, <1>1, <1>4 DEF PlaceInv
  <2>4. (\A f \in Events :
                /\ ~(Waiting(f) /\ InWork(f))
                /\ outcome[f] = "accepted" <=> Waiting(f) \/ InWork(f))'
      BY <1>t, <1>u, <1>3, <1>w, <1>k DEF PlaceInv
  <2> QED
      BY <2>1, <2>2, <2>3, <2>4 DEF PlaceInv
<1>7. AttemptInv'
  <2>1. \A v \in Workers :
          /\ pc'[v] = "post" => attempt'[v] > 0 /\ posts[body'[v]] = attempt'[v] - 1
          /\ pc'[v] = "backoff" => attempt'[v] < Attempts /\ posts[body'[v]] = attempt'[v]
      BY <1>t, <1>1, <1>3 DEF AttemptInv
  <2>2. (\A f \in Events :
          /\ ~InWork(f) /\ ~Settled(f) => posts[f] = 0
          /\ f \in got => posts[f] > 0)'
      BY <1>t, <1>u, <1>k DEF AttemptInv, Settled
  <2> QED
      BY <1>u, <2>1, <2>2 DEF AttemptInv
<1>8. AttemptsHonoured'
    BY <1>t, <1>u DEF AttemptsHonoured
<1>9. OrderInv'
  <2> DEFINE n == Len(accepted) - Len(queue)
  <2>1. n \in Nat /\ Len(accepted) - Len(queue') = n + 1 /\ n + 1 <= Len(accepted)
        /\ accepted[n + 1] = b
      BY <1>t, <1>q, <1>a, <1>b DEF OrderInv
  <2>2. \A k \in Taken : Cardinality(Behind(k)') < Cardinality(Workers)
      BY <1>t, <1>u, TakenKept DEF Settled
  <2>3. \A f \in Behind(n + 1) : \E v \in Workers \ {w} : body[v] = f
    <3> SUFFICES ASSUME NEW f \in Behind(n + 1)
                 PROVE  InWork(f)
        BY <1>4 DEF InWork
    <3>1. PICK i \in 1 .. n : ~Settled(accepted[i]) /\ accepted[i] = f
        BY <2>1 DEF Behind
    <3>2. f \in Events /\ i \in DOMAIN accepted /\ outcome[f] \notin {"none", "dropped"}
        BY <1>t, <1>a, <2>1, <3>1 DEF OrderInv
    <3>3. outcome[f] = "accepted"
        BY <1>0, <3>1, <3>2 DEF Settled, Outcomes
    <3>4. ~Waiting(f)
      <4> SUFFICES ASSUME NEW k \in 1 .. Len(queue), queue[k] = f PROVE FALSE
          BY <1>q DEF Waiting
      <4>1. f = accepted[k + Len(accepted) - Len(queue)]
          BY <1>t DEF OrderInv
      <4>2. k + Len(accepted) - Len(queue) = k + n /\ k + n \in DOMAIN accepted
          BY <1>q, <1>a, <2>1
      <4>3. i = k + n
          BY <1>t, <3>1, <3>2, <4>1, <4>2 DEF OrderInv
      <4> QED
          BY <2>1, <4>3
    <3> QED
        BY <1>t, <3>2, <3>3, <3>4 DEF PlaceInv
  <2>4. Cardinality(Behind(n + 1)) < Cardinality(Workers)
    <3>1. /\ IsFiniteSet(Workers \ {w}) /\ Cardinality(Workers \ {w}) = Cardinality(Workers) - 1
          /\ Cardinality(Workers) \in Nat
        BY FS_RemoveElement, FS_CardinalityType, WebhookAssumption
    <3>2. Cardinality(Behind(n + 1)) <= Cardinality(Workers \ {w})
        BY <2>3, <3>1, ImageBound
    <3>n. n + 1 \in Nat
        BY <2>1
    <3> DEFINE B == Cardinality(Behind(n + 1))
    <3> HIDE DEF n
    <3>3. B \in Nat
        BY <3>n, BehindFinite
    <3> HIDE DEF B
    <3>4. B < Cardinality(Workers)
        BY <3>1, <3>2, <3>3 DEF B
    <3> QED
        BY <3>4 DEF B
  <2>5. \A k : Behind(k)' = Behind(k)
      BY <1>u DEF Behind, Settled
  <2> HIDE DEF n
  <2>6. Taken = 1 .. n /\ Taken' = 1 .. n + 1
      BY <1>u, <2>1 DEF Taken, n
  <2>7. \A k \in Taken' : Cardinality(Behind(k)') < Cardinality(Workers)
    <3> SUFFICES ASSUME NEW k \in 1 .. n + 1 PROVE Cardinality(Behind(k)') < Cardinality(Workers)
        BY <2>6
    <3>1. CASE k = n + 1
        BY <2>4, <2>5, <3>1
    <3>2. CASE k \in 1 .. n
        BY <2>2, <2>6, <3>2
    <3> QED
        BY <2>1, <3>1, <3>2
  <2>8. (\A i \in 1 .. Len(queue) : queue[i] = accepted[i + Len(accepted) - Len(queue)])'
    <3> SUFFICES ASSUME NEW i \in 1 .. Len(queue) - 1
                 PROVE  queue[i + 1] = accepted[i + Len(accepted) - (Len(queue) - 1)]
        BY <1>q, <1>u
    <3>1. i + 1 \in 1 .. Len(queue)
        BY <1>q
    <3>2. queue[i + 1] = accepted[(i + 1) + Len(accepted) - Len(queue)]
        BY <1>t, <3>1 DEF OrderInv
    <3>3. (i + 1) + Len(accepted) - Len(queue) = i + Len(accepted) - (Len(queue) - 1)
        BY <1>q, <1>a
    <3> QED
        BY <3>2, <3>3
  <2>9. Len(queue)' <= Capacity /\ Len(queue)' <= Len(accepted)'
      BY <1>t, <1>u, <1>q, <1>a, CapacityType DEF OrderInv
  <2>10. /\ (\A i, k \in DOMAIN accepted : accepted[i] = accepted[k] => i = k)'
         /\ (\A i \in DOMAIN accepted : outcome[accepted[i]] \notin {"none", "dropped"})'
         /\ (\A f \in Events : outcome[f] \notin {"none", "dropped"} =>
                \E i \in DOMAIN accepted : accepted[i] = f)'
      BY <1>t, <1>u DEF OrderInv
  <2> QED
      BY <2>7, <2>8, <2>9, <2>10 DEF OrderInv
<1> QED
    BY <1>2, <1>5, <1>6, <1>7, <1>8, <1>9 DEF WebhookInv

\* A payload leaves its worker.
LEMMA SettleHolds ==
    ASSUME WebhookInv, NEW w \in Workers, Busy(w),
           NEW o \in {"delivered", "exhausted", "abandoned"}, Settle(w, o),
           queue' = queue, handler' = handler, arrived' = arrived, accepted' = accepted
    PROVE  /\ HandlerInv' /\ PlaceInv' /\ OrderInv'
           /\ pc' \in [Workers -> {"idle", "post", "backoff", "done"}]
           /\ body' \in [Workers -> Events \cup {NoEvent}]
           /\ attempt' \in [Workers -> 0 .. Attempts]
           /\ outcome' \in [Events -> Outcomes]
           /\ \A f \in Events : outcome'[f] = IF f = body[w] THEN o ELSE outcome[f]
           /\ \A v \in Workers : v # w => pc'[v] = pc[v] /\ body'[v] = body[v] /\ attempt'[v] = attempt[v]
           /\ \A f \in Events : f # body[w] => (InWork(f)' <=> InWork(f))
           /\ pc'[w] = "idle"
<1>t. TypeOK /\ HandlerInv /\ PlaceInv /\ OrderInv
    BY DEF WebhookInv
<1>b. PICK b \in Events : b = body[w]
    BY <1>t DEF PlaceInv
<1>0. pc' = [pc EXCEPT ![w] = "idle"] /\ body' = [body EXCEPT ![w] = NoEvent]
      /\ attempt' = [attempt EXCEPT ![w] = 0] /\ outcome' = [outcome EXCEPT ![b] = o]
    BY <1>b DEF Settle
<1>1. /\ pc' \in [Workers -> {"idle", "post", "backoff", "done"}]
      /\ body' \in [Workers -> Events \cup {NoEvent}]
      /\ attempt' \in [Workers -> 0 .. Attempts]
      /\ outcome' \in [Events -> Outcomes]
    BY <1>t, <1>0, CapacityType DEF TypeOK, Outcomes
<1>2. /\ \A f \in Events : outcome'[f] = IF f = b THEN o ELSE outcome[f]
      /\ \A v \in Workers : v # w => pc'[v] = pc[v] /\ body'[v] = body[v] /\ attempt'[v] = attempt[v]
      /\ pc'[w] = "idle"
    BY <1>t, <1>0 DEF TypeOK
<1>3. \A v \in Workers : Busy(v)' <=> Busy(v) /\ v # w
    BY <1>2 DEF Busy
<1>4. InWork(b) /\ ~InWork(b)' /\ \A f \in Events : f # b => (InWork(f)' <=> InWork(f))
    BY <1>t, <1>b, <1>2, <1>3 DEF InWork, PlaceInv
<1>5. outcome[b] = "accepted" /\ ~Waiting(b)
    BY <1>t, <1>4 DEF PlaceInv
<1>6. \A f \in Events : Waiting(f)' <=> Waiting(f)
    BY DEF Waiting
<1>7. HandlerInv'
  <2>1. \A s \in Sessions : handler[s] # NoEvent => handler[s] # b
      BY <1>t, <1>5 DEF HandlerInv
  <2>2. b \in arrived
      BY <1>t, <1>5 DEF HandlerInv
  <2>3. \A s \in Sessions : handler[s] # NoEvent => handler[s] \in Events
      BY <1>t DEF TypeOK
  <2> QED
      BY <1>t, <1>2, <2>1, <2>2, <2>3 DEF HandlerInv
<1>8. PlaceInv'
  <2>1. (\A v, x \in Workers : Busy(v) /\ Busy(x) /\ body[v] = body[x] => v = x)'
      BY <1>t, <1>2, <1>3 DEF PlaceInv
  <2>2. (\A v \in Workers : Busy(v) => body[v] \in Events)'
      BY <1>t, <1>2, <1>3 DEF PlaceInv
  <2>3. (\A f \in Events :
                /\ ~(Waiting(f) /\ InWork(f))
                /\ outcome[f] = "accepted" <=> Waiting(f) \/ InWork(f))'
      BY <1>t, <1>2, <1>4, <1>5, <1>6 DEF PlaceInv
  <2>4. (\A i, k \in DOMAIN queue : queue[i] = queue[k] => i = k)'
      BY <1>t DEF PlaceInv
  <2> QED
      BY <2>1, <2>2, <2>3, <2>4 DEF PlaceInv
<1>9. OrderInv'
    BY <1>t, <1>2, <1>5, OrderKept DEF Settled
<1> QED
    BY <1>b, <1>1, <1>2, <1>4, <1>7, <1>8, <1>9

LEMMA PostInv ==
    ASSUME WebhookInv, NEW w \in Workers, post(w)
    PROVE  WebhookInv'
<1>t. TypeOK /\ HandlerInv /\ PlaceInv /\ AttemptInv /\ AttemptsHonoured /\ OrderInv
    BY DEF WebhookInv
<1>u. /\ proc' = proc /\ handler' = handler /\ queue' = queue /\ arrived' = arrived
      /\ accepted' = accepted
    BY DEF post
<1>b. PICK b \in Events : b = body[w]
    BY <1>t DEF post, PlaceInv, Busy
<1>0. /\ pc[w] = "post" /\ Busy(w) /\ InWork(b) /\ outcome[b] = "accepted"
      /\ attempt[w] > 0 /\ attempt[w] \in 0 .. Attempts /\ posts[b] = attempt[w] - 1
    BY <1>t, <1>b DEF post, Busy, InWork, PlaceInv, AttemptInv, TypeOK
<1>1. /\ posts' \in [Events -> Nat] /\ posts'[b] = attempt[w]
      /\ \A f \in Events : f # b => posts'[f] = posts[f]
  <2>1. posts' = [posts EXCEPT ![b] = posts[b] + 1]
      BY <1>b DEF post
  <2>2. posts \in [Events -> Nat] /\ posts[b] + 1 = attempt[w] /\ attempt[w] \in Nat
      BY <1>t, <1>0, CapacityType DEF TypeOK
  <2> QED
      BY <2>1, <2>2
<1>2. got' \in SUBSET Events /\ got \subseteq got' /\ got' \subseteq got \cup {b}
    BY <1>t, <1>b DEF post, TypeOK
<1>3. CASE \E o \in {"delivered", "exhausted"} :
             /\ Settle(w, o)
             /\ o = "delivered" => b \in got'
             /\ o = "exhausted" => attempt[w] >= Attempts
  <2>1. PICK o \in {"delivered", "exhausted"} :
             /\ Settle(w, o)
             /\ o = "delivered" => b \in got'
             /\ o = "exhausted" => attempt[w] >= Attempts
      BY <1>3
  <2>2. /\ HandlerInv' /\ PlaceInv' /\ OrderInv'
        /\ pc' \in [Workers -> {"idle", "post", "backoff", "done"}]
        /\ body' \in [Workers -> Events \cup {NoEvent}]
        /\ attempt' \in [Workers -> 0 .. Attempts]
        /\ outcome' \in [Events -> Outcomes]
        /\ \A f \in Events : outcome'[f] = IF f = b THEN o ELSE outcome[f]
        /\ \A v \in Workers : v # w => pc'[v] = pc[v] /\ body'[v] = body[v] /\ attempt'[v] = attempt[v]
        /\ \A f \in Events : f # b => (InWork(f)' <=> InWork(f))
        /\ pc'[w] = "idle"
      BY <1>u, <1>b, <1>0, <2>1, SettleHolds
  <2>3. TypeOK'
      BY <1>t, <1>u, <1>1, <1>2, <2>2 DEF TypeOK
  <2>4. AttemptInv'
    <3>1. \A v \in Workers : v # w /\ pc[v] \in {"post", "backoff"} => body[v] \in Events /\ body[v] # b
        BY <1>t, <1>b, <1>0 DEF PlaceInv, Busy
    <3>2. (\A v \in Workers :
            /\ pc[v] = "post" => attempt[v] > 0 /\ posts[body[v]] = attempt[v] - 1
            /\ pc[v] = "backoff" => attempt[v] < Attempts /\ posts[body[v]] = attempt[v])'
        BY <1>t, <1>1, <2>2, <3>1 DEF AttemptInv
    <3>3. (\A f \in Events : ~InWork(f) /\ ~Settled(f) => posts[f] = 0)'
        BY <1>t, <1>1, <2>2 DEF AttemptInv, Settled
    <3>4. (\A f \in Events : f \in got => posts[f] > 0)'
        BY <1>t, <1>0, <1>1, <1>2 DEF AttemptInv
    <3> QED
        BY <3>2, <3>3, <3>4 DEF AttemptInv
  <2>5. AttemptsHonoured'
      BY <1>t, <1>u, <1>0, <1>1, <1>2, <2>1, <2>2, CapacityType DEF AttemptsHonoured
  <2> QED
      BY <2>2, <2>3, <2>4, <2>5 DEF WebhookInv
<1>4. CASE /\ attempt[w] < Attempts
           /\ pc' = [pc EXCEPT ![w] = "backoff"]
           /\ body' = body /\ attempt' = attempt /\ outcome' = outcome
  <2>1. \A v \in Workers : pc'[v] = IF v = w THEN "backoff" ELSE pc[v]
      BY <1>t, <1>4 DEF TypeOK
  <2>2. TypeOK'
      BY <1>t, <1>u, <1>1, <1>2, <1>4 DEF TypeOK
  <2>3. HandlerInv'
      BY <1>t, <1>u, <1>4 DEF HandlerInv
  <2>4. \A v \in Workers : Busy(v)' <=> Busy(v)
      BY <1>0, <2>1 DEF Busy
  <2>5. \A f \in Events : (InWork(f)' <=> InWork(f)) /\ (Waiting(f)' <=> Waiting(f))
      BY <1>u, <1>4, <2>4 DEF InWork, Waiting
  <2>6. PlaceInv'
      BY <1>t, <1>u, <1>4, <2>4, <2>5 DEF PlaceInv
  <2>7. AttemptInv'
    <3>1. \A v \in Workers : v # w /\ pc[v] \in {"post", "backoff"} => body[v] \in Events /\ body[v] # b
        BY <1>t, <1>b, <1>0 DEF PlaceInv, Busy
    <3>2. (\A v \in Workers :
            /\ pc[v] = "post" => attempt[v] > 0 /\ posts[body[v]] = attempt[v] - 1
            /\ pc[v] = "backoff" => attempt[v] < Attempts /\ posts[body[v]] = attempt[v])'
        BY <1>t, <1>b, <1>0, <1>1, <1>4, <2>1, <3>1 DEF AttemptInv
    <3>3. (\A f \in Events : ~InWork(f) /\ ~Settled(f) => posts[f] = 0)'
        BY <1>t, <1>0, <1>1, <1>4, <2>5 DEF AttemptInv, Settled
    <3>4. (\A f \in Events : f \in got => posts[f] > 0)'
        BY <1>t, <1>0, <1>1, <1>2 DEF AttemptInv
    <3> QED
        BY <3>2, <3>3, <3>4 DEF AttemptInv
  <2>8. AttemptsHonoured'
      BY <1>t, <1>u, <1>0, <1>1, <1>2, <1>4, CapacityType DEF AttemptsHonoured
  <2>9. OrderInv'
      BY <1>t, <1>u, <1>4, OrderKept DEF Settled
  <2> QED
      BY <2>2, <2>3, <2>6, <2>7, <2>8, <2>9 DEF WebhookInv
<1> QED
    BY <1>b, <1>3, <1>4, <1>0, CapacityType DEF post

LEMMA BackoffInv ==
    ASSUME WebhookInv, NEW w \in Workers, backoff(w)
    PROVE  WebhookInv'
<1>t. TypeOK /\ HandlerInv /\ PlaceInv /\ AttemptInv /\ AttemptsHonoured /\ OrderInv
    BY DEF WebhookInv
<1>u. /\ proc' = proc /\ handler' = handler /\ queue' = queue /\ arrived' = arrived
      /\ accepted' = accepted /\ posts' = posts /\ got' = got
    BY DEF backoff
<1>b. PICK b \in Events : b = body[w]
    BY <1>t DEF backoff, PlaceInv, Busy
<1>0. /\ pc[w] = "backoff" /\ Busy(w) /\ InWork(b) /\ outcome[b] = "accepted"
      /\ attempt[w] < Attempts /\ attempt[w] \in 0 .. Attempts /\ posts[b] = attempt[w]
    BY <1>t, <1>b DEF backoff, Busy, InWork, PlaceInv, AttemptInv, TypeOK
<1>1. \A v \in Workers : v # w /\ pc[v] \in {"post", "backoff"} => body[v] \in Events /\ body[v] # b
    BY <1>t, <1>b, <1>0 DEF PlaceInv, Busy
<1>2. CASE Quitting /\ Settle(w, "abandoned")
  <2>1. /\ HandlerInv' /\ PlaceInv' /\ OrderInv'
        /\ pc' \in [Workers -> {"idle", "post", "backoff", "done"}]
        /\ body' \in [Workers -> Events \cup {NoEvent}]
        /\ attempt' \in [Workers -> 0 .. Attempts]
        /\ outcome' \in [Events -> Outcomes]
        /\ \A f \in Events : outcome'[f] = IF f = b THEN "abandoned" ELSE outcome[f]
        /\ \A v \in Workers : v # w => pc'[v] = pc[v] /\ body'[v] = body[v] /\ attempt'[v] = attempt[v]
        /\ \A f \in Events : f # b => (InWork(f)' <=> InWork(f))
        /\ pc'[w] = "idle"
      BY <1>u, <1>b, <1>0, <1>2, SettleHolds
  <2>2. TypeOK'
      BY <1>t, <1>u, <2>1 DEF TypeOK
  <2>3. AttemptInv'
    <3>1. (\A v \in Workers :
            /\ pc[v] = "post" => attempt[v] > 0 /\ posts[body[v]] = attempt[v] - 1
            /\ pc[v] = "backoff" => attempt[v] < Attempts /\ posts[body[v]] = attempt[v])'
        BY <1>t, <1>u, <2>1, <1>1 DEF AttemptInv
    <3>2. (\A f \in Events : ~InWork(f) /\ ~Settled(f) => posts[f] = 0)'
        BY <1>t, <1>u, <2>1 DEF AttemptInv, Settled
    <3>3. (\A f \in Events : f \in got => posts[f] > 0)'
        BY <1>t, <1>u DEF AttemptInv
    <3> QED
        BY <3>1, <3>2, <3>3 DEF AttemptInv
  <2>4. AttemptsHonoured'
      BY <1>t, <1>u, <1>2, <2>1 DEF AttemptsHonoured, Quitting
  <2> QED
      BY <2>1, <2>2, <2>3, <2>4 DEF WebhookInv
<1>3. CASE /\ attempt' = [attempt EXCEPT ![w] = attempt[w] + 1]
           /\ pc' = [pc EXCEPT ![w] = "post"]
           /\ body' = body /\ outcome' = outcome
  <2>1. /\ \A v \in Workers : pc'[v] = IF v = w THEN "post" ELSE pc[v]
        /\ \A v \in Workers : attempt'[v] = IF v = w THEN attempt[w] + 1 ELSE attempt[v]
      BY <1>t, <1>3 DEF TypeOK
  <2>2. TypeOK'
    <3>1. attempt[w] + 1 \in 0 .. Attempts
        BY <1>0, CapacityType
    <3> QED
        BY <1>t, <1>u, <1>3, <3>1 DEF TypeOK
  <2>3. HandlerInv'
      BY <1>t, <1>u, <1>3 DEF HandlerInv
  <2>4. \A v \in Workers : Busy(v)' <=> Busy(v)
      BY <1>0, <2>1 DEF Busy
  <2>5. \A f \in Events : (InWork(f)' <=> InWork(f)) /\ (Waiting(f)' <=> Waiting(f))
      BY <1>u, <1>3, <2>4 DEF InWork, Waiting
  <2>6. PlaceInv'
      BY <1>t, <1>u, <1>3, <2>4, <2>5 DEF PlaceInv
  <2>7. AttemptInv'
    <3>1. \A v \in Workers :
            /\ pc'[v] = "post" => attempt'[v] > 0 /\ posts[body[v]] = attempt'[v] - 1
            /\ pc'[v] = "backoff" => attempt'[v] < Attempts /\ posts[body[v]] = attempt'[v]
        BY <1>t, <1>b, <1>0, <2>1, CapacityType DEF AttemptInv
    <3>2. (\A f \in Events :
            /\ ~InWork(f) /\ ~Settled(f) => posts[f] = 0
            /\ f \in got => posts[f] > 0)'
        BY <1>t, <1>u, <1>3, <2>5 DEF AttemptInv, Settled
    <3> QED
        BY <1>u, <1>3, <3>1, <3>2 DEF AttemptInv
  <2>8. AttemptsHonoured'
      BY <1>t, <1>u, <1>3 DEF AttemptsHonoured
  <2>9. OrderInv'
      BY <1>t, <1>u, <1>3, OrderKept DEF Settled
  <2> QED
      BY <2>2, <2>3, <2>6, <2>7, <2>8, <2>9 DEF WebhookInv
<1> QED
    BY <1>2, <1>3 DEF backoff

\* Workers return, and the gateway stops: nothing else changes.
LEMMA StopInv ==
    ASSUME WebhookInv, (\E w \in Workers : WorkerReturns(w)) \/ StopSessions \/ CloseQuit \/ stop
    PROVE  WebhookInv'
<1>t. TypeOK /\ HandlerInv /\ PlaceInv /\ AttemptInv /\ AttemptsHonoured /\ OrderInv
    BY DEF WebhookInv
<1>u. /\ handler' = handler /\ queue' = queue /\ body' = body /\ attempt' = attempt
      /\ arrived' = arrived /\ accepted' = accepted /\ posts' = posts /\ got' = got
      /\ outcome' = outcome
    BY DEF WorkerReturns, StopSessions, CloseQuit, stop, workerVars
<1>1. /\ pc' \in [Workers -> {"idle", "post", "backoff", "done"}]
      /\ \A w \in Workers : pc'[w] # pc[w] => pc[w] = "idle" /\ pc'[w] = "done"
      /\ proc' \in {"up", "offline", "quit", "stopped"}
      /\ proc \in {"quit", "stopped"} => proc' \in {"quit", "stopped"}
    BY <1>t DEF TypeOK, WorkerReturns, StopSessions, CloseQuit, stop, workerVars
<1>2. \A w \in Workers : Busy(w)' <=> Busy(w)
    BY <1>1 DEF Busy
<1>3. \A f \in Events : (InWork(f)' <=> InWork(f)) /\ (Waiting(f)' <=> Waiting(f))
    BY <1>u, <1>2 DEF InWork, Waiting
<1>4. TypeOK'
    BY <1>t, <1>u, <1>1 DEF TypeOK
<1>5. HandlerInv'
    BY <1>t, <1>u DEF HandlerInv
<1>6. PlaceInv'
    BY <1>t, <1>u, <1>2, <1>3 DEF PlaceInv
<1>7. AttemptInv'
    BY <1>t, <1>u, <1>1, <1>3 DEF AttemptInv, Settled
<1>8. AttemptsHonoured'
    BY <1>t, <1>u, <1>1 DEF AttemptsHonoured
<1>9. OrderInv'
    BY <1>t, <1>u, OrderKept DEF Settled
<1> QED
    BY <1>4, <1>5, <1>6, <1>7, <1>8, <1>9 DEF WebhookInv

LEMMA NextInv ==
    ASSUME WebhookInv, [Next]_vars
    PROVE  WebhookInv'
<1>1. CASE \E e \in Events : Receive(e)
    BY <1>1, ReceiveInv
<1>2. CASE \E s \in Sessions : enqueue(s)
    BY <1>2, EnqueueInv
<1>3. CASE \E w \in Workers : WorkerStep(w)
    BY <1>3, TakeInv, PostInv, BackoffInv, StopInv DEF WorkerStep
<1>4. CASE StopSessions \/ CloseQuit \/ stop
    BY <1>4, StopInv
<1>5. CASE UNCHANGED vars
  <2>t. TypeOK /\ HandlerInv /\ PlaceInv /\ AttemptInv /\ AttemptsHonoured /\ OrderInv
      BY DEF WebhookInv
  <2>u. /\ proc' = proc /\ handler' = handler /\ queue' = queue /\ pc' = pc /\ body' = body
        /\ attempt' = attempt /\ arrived' = arrived /\ accepted' = accepted /\ posts' = posts
        /\ got' = got /\ outcome' = outcome
      BY <1>5 DEF vars, workerVars
  <2>1. TypeOK' /\ HandlerInv'
      BY <2>t, <2>u DEF TypeOK, HandlerInv
  <2>2. PlaceInv'
      BY <2>t, <2>u DEF PlaceInv, Waiting, InWork, Busy
  <2>3. AttemptInv' /\ AttemptsHonoured'
      BY <2>t, <2>u DEF AttemptInv, AttemptsHonoured, InWork, Busy, Settled
  <2>4. OrderInv'
      BY <2>t, <2>u, OrderKept DEF Settled
  <2> QED
      BY <2>1, <2>2, <2>3, <2>4 DEF WebhookInv
<1> QED
    BY <1>1, <1>2, <1>3, <1>4, <1>5 DEF Next

\* The inductive invariant holds of the notifier.
THEOREM WebhookInvariance == Spec => []WebhookInv
BY InitInv, NextInv, PTL DEF Spec

-------------------------------------------------------------------------------
LEMMA ConservedHolds == WebhookInv => Conserved
<1> SUFFICES ASSUME WebhookInv, NEW e \in Events
             PROVE  Copies(e) = IF outcome[e] = "accepted" THEN 1 ELSE 0
    BY DEF WebhookInv, Conserved
<1> DEFINE A == {i \in DOMAIN queue : queue[i] = e}
           B == {w \in Workers : Busy(w) /\ body[w] = e}
<1>t. PlaceInv
    BY DEF WebhookInv
<1>1. \/ A = {} /\ ~Waiting(e)
      \/ (\E i : A = {i}) /\ Waiting(e)
  <2>1. CASE Waiting(e)
    <3>1. PICK i \in DOMAIN queue : queue[i] = e
        BY <2>1 DEF Waiting
    <3>2. A = {i}
        BY <1>t, <3>1 DEF PlaceInv
    <3> QED
        BY <2>1, <3>2
  <2> QED
      BY <2>1 DEF Waiting
<1>2. \/ B = {} /\ ~InWork(e)
      \/ (\E w : B = {w}) /\ InWork(e)
  <2>1. CASE InWork(e)
    <3>1. PICK w \in Workers : Busy(w) /\ body[w] = e
        BY <2>1 DEF InWork
    <3>2. B = {w}
        BY <1>t, <3>1 DEF PlaceInv
    <3> QED
        BY <2>1, <3>2
  <2> QED
      BY <2>1 DEF InWork
<1>3. ~(Waiting(e) /\ InWork(e)) /\ (outcome[e] = "accepted" <=> Waiting(e) \/ InWork(e))
    BY <1>t DEF PlaceInv
<1>4. Copies(e) = Cardinality(A) + Cardinality(B)
    BY DEF Copies
<1>5. Cardinality({}) = 0 /\ \A x : Cardinality({x}) = 1
    BY FS_EmptySet, FS_Singleton
<1> HIDE DEF A, B
<1>6. Cardinality(A) = (IF Waiting(e) THEN 1 ELSE 0) /\ Cardinality(B) = (IF InWork(e) THEN 1 ELSE 0)
    BY <1>1, <1>2, <1>5
<1> QED
    BY <1>3, <1>4, <1>6

LEMMA OvertakingHolds == WebhookInv => BoundedOvertaking
<1> SUFFICES ASSUME WebhookInv, NEW e \in got
             PROVE  Cardinality({f \in Before(e) : ~Settled(f)}) < Cardinality(Workers)
    BY DEF BoundedOvertaking
<1>t. /\ TypeOK /\ PlaceInv /\ AttemptInv /\ OrderInv
      /\ e \in Events /\ outcome[e] \in Outcomes
      /\ accepted \in Seq(Events) /\ queue \in Seq(Events)
    BY DEF WebhookInv, TypeOK
<1>1. (InWork(e) \/ Settled(e)) /\ ~Waiting(e) /\ outcome[e] \notin {"none", "dropped"}
    BY <1>t DEF AttemptInv, PlaceInv, Settled
<1>l. /\ Len(accepted) \in Nat /\ DOMAIN accepted = 1 .. Len(accepted)
      /\ Len(queue) \in Nat /\ DOMAIN queue = 1 .. Len(queue) /\ Len(queue) <= Len(accepted)
    BY <1>t, Elements DEF OrderInv
<1>2. PICK k \in 1 .. Len(accepted) : accepted[k] = e
    BY <1>t, <1>1, <1>l DEF OrderInv
<1>3. k \in Taken
  <2> SUFFICES ASSUME k > Len(accepted) - Len(queue) PROVE FALSE
      BY <1>l DEF Taken
  <2> DEFINE i == k - (Len(accepted) - Len(queue))
  <2>1. i \in 1 .. Len(queue) /\ i + Len(accepted) - Len(queue) = k
      BY <1>l
  <2>2. queue[i] = e
      BY <1>t, <1>2, <2>1 DEF OrderInv
  <2> QED
      BY <1>1, <1>l, <2>1, <2>2 DEF Waiting
<1>4. {f \in Before(e) : ~Settled(f)} \subseteq Behind(k)
  <2> SUFFICES ASSUME NEW f \in Before(e), ~Settled(f) PROVE f \in Behind(k)
      OBVIOUS
  <2>1. PICK i \in 1 .. Len(accepted), m \in 1 .. Len(accepted) :
            i < m /\ accepted[i] = f /\ accepted[m] = e
      BY <1>l DEF Before
  <2>2. m = k
      BY <1>t, <1>l, <1>2, <2>1 DEF OrderInv
  <2> QED
      BY <2>1, <2>2 DEF Behind
<1>5. k \in Nat
    OBVIOUS
<1>6. IsFiniteSet(Behind(k)) /\ Cardinality(Behind(k)) \in Nat
    BY <1>5, BehindFinite
<1> DEFINE F == {f \in Before(e) : ~Settled(f)}
<1>7. IsFiniteSet(F) /\ Cardinality(F) <= Cardinality(Behind(k))
    BY <1>4, <1>6, FS_Subset
<1>8. Cardinality(F) \in Nat /\ Cardinality(Workers) \in Nat
    BY <1>7, FS_CardinalityType, WebhookAssumption
<1>9. Cardinality(Behind(k)) < Cardinality(Workers)
    BY <1>t, <1>3 DEF OrderInv
<1> HIDE DEF F
<1>10. Cardinality(F) < Cardinality(Workers)
    BY <1>6, <1>7, <1>8, <1>9
<1> QED
    BY <1>10 DEF F

\* Nothing accepted is lost or doubled inside the gateway.
THEOREM NothingLost == Spec => []Conserved
BY WebhookInvariance, ConservedHolds, PTL

\* A payload is given up after the configured attempts, and not earlier.
THEOREM AllAttemptsMade == Spec => []AttemptsHonoured
<1>1. WebhookInv => AttemptsHonoured
    BY DEF WebhookInv
<1> QED
    BY <1>1, WebhookInvariance, PTL

\* An event overtakes fewer earlier ones than there are workers.
THEOREM OvertakingBounded == Spec => []BoundedOvertaking
BY WebhookInvariance, OvertakingHolds, PTL

-------------------------------------------------------------------------------
(***************************************************************************)
(* The refinement.                                                         *)
(***************************************************************************)

Sending == {body[w] : w \in {v \in Workers : Busy(v)}}

LEMMA SendingIs == \A e : e \in Sending <=> \E w \in Workers : Busy(w) /\ body[w] = e
BY DEF Sending

\* The channel counts as the notifier does.
LEMMA SameCardinality == \A S : Channel!Cardinality(S) = Cardinality(S)
BY DEF Channel!Cardinality, Cardinality

\* A payload that leaves its worker is settled in the channel.
LEMMA SettleRefines ==
    ASSUME WebhookInv, NEW w \in Workers, Busy(w), Settle(w, "delivered") \/ Settle(w, "exhausted")
                \/ (Quitting /\ Settle(w, "abandoned")),
           proc' = proc, queue' = queue
    PROVE  \E e \in Events : Channel!Settle(e)
<1>t. TypeOK /\ PlaceInv
    BY DEF WebhookInv
<1>b. PICK b \in Events : b = body[w]
    BY <1>t DEF PlaceInv
<1>1. PICK o \in {"delivered", "exhausted", "abandoned"} :
            Settle(w, o) /\ (o = "abandoned" => proc = "quit")
    BY DEF Quitting
<1>2. outcome' = [outcome EXCEPT ![b] = o]
    BY <1>b, <1>1 DEF Settle
<1>3. \A v \in Workers : (Busy(v)' <=> Busy(v) /\ v # w) /\ (v # w => body'[v] = body[v])
    BY <1>t, <1>1 DEF Settle, TypeOK, Busy
<1>4. b \in Sending
    BY <1>b, SendingIs
<1>5. Sending' = Sending \ {b}
  <2>1. \A e : e \in Sending' <=> \E v \in Workers : Busy(v)' /\ body'[v] = e
      BY DEF Sending
  <2>2. \A e : e \in Sending' <=> e \in Sending /\ e # b
      BY <1>t, <1>b, <1>3, <2>1, SendingIs DEF PlaceInv
  <2> QED
      BY <2>2
<1>6. Channel!Settle(b)
    BY <1>1, <1>2, <1>4, <1>5 DEF Channel!Settle, Sending
<1> QED
    BY <1>6

LEMMA TakeRefines ==
    ASSUME WebhookInv, NEW w \in Workers, Take(w)
    PROVE  Channel!StartFirst
<1>t. TypeOK /\ PlaceInv /\ queue \in Seq(Events)
    BY DEF WebhookInv, TypeOK
<1>b. PICK b \in Events : b = Head(queue)
    BY <1>t, Popped DEF Take
<1>1. /\ pc[w] = "idle" /\ ~Busy(w)
      /\ \A v \in Workers : (Busy(v)' <=> Busy(v) \/ v = w)
      /\ \A v \in Workers : body'[v] = IF v = w THEN b ELSE body[v]
    BY <1>t, <1>b DEF Take, TypeOK, Busy
<1>2. Sending' = Sending \cup {b}
  <2>1. \A e : e \in Sending' <=> \E v \in Workers : Busy(v)' /\ body'[v] = e
      BY DEF Sending
  <2>2. \A e : e \in Sending' <=> e \in Sending \/ e = b
      BY <1>1, <2>1, SendingIs
  <2> QED
      BY <2>2
<1>3. Cardinality(Sending) < Cardinality(Workers)
  <2>1. /\ IsFiniteSet(Workers \ {w}) /\ Cardinality(Workers \ {w}) = Cardinality(Workers) - 1
        /\ Cardinality(Workers) \in Nat
      BY FS_RemoveElement, FS_CardinalityType, WebhookAssumption
  <2>2. \A e \in Sending : \E v \in Workers \ {w} : body[v] = e
      BY <1>1, SendingIs
  <2>3. IsFiniteSet(Sending) /\ Cardinality(Sending) <= Cardinality(Workers \ {w})
      BY <2>1, <2>2, ImageBound
  <2>4. Cardinality(Sending) \in Nat
      BY <2>3, FS_CardinalityType
  <2> QED
      BY <2>1, <2>3, <2>4
<1>4. /\ queue # <<>> /\ queue' = Tail(queue) /\ b = Head(queue)
      /\ outcome' = outcome /\ (proc' \in {"up", "offline"}) = (proc \in {"up", "offline"})
    BY <1>b DEF Take
<1>5. Sending' = Sending \cup {Head(queue)}
    BY <1>2, <1>4
<1> QED
    BY <1>3, <1>4, <1>5, SameCardinality DEF Channel!StartFirst, Sending

LEMMA EnqueueRefines ==
    ASSUME WebhookInv, NEW s \in Sessions, enqueue(s)
    PROVE  \E e \in Events : Channel!Accept(e) \/ Channel!Refuse(e)
<1>t. TypeOK /\ HandlerInv /\ OrderInv /\ queue \in Seq(Events)
    BY DEF WebhookInv, TypeOK
<1>b. PICK b \in Events : b = handler[s]
    BY <1>t DEF enqueue, TypeOK
<1>1. outcome[b] = "none" /\ Len(queue) \in Nat /\ Len(queue) <= Capacity /\ Capacity \in Nat
    BY <1>t, <1>b, Elements, CapacityType DEF enqueue, HandlerInv, OrderInv
<1>2. proc' = proc /\ pc' = pc /\ body' = body
    BY DEF enqueue, workerVars
<1>3. Sending' = Sending
    BY <1>2 DEF Sending, Busy
<1>4. CASE Len(queue) < Capacity
  <2>1. Channel!Accept(b)
      BY <1>b, <1>1, <1>2, <1>3, <1>4 DEF enqueue, Channel!Accept, Sending
  <2> QED
      BY <2>1
<1>5. CASE ~(Len(queue) < Capacity)
  <2>1. /\ Len(queue) = Capacity /\ queue' = queue
        /\ outcome' = [outcome EXCEPT ![b] = "dropped"]
        /\ (proc' \in {"up", "offline"}) = (proc \in {"up", "offline"})
      BY <1>b, <1>1, <1>2, <1>5 DEF enqueue
  <2>2. Channel!Refuse(b)
      BY <1>1, <1>3, <2>1 DEF Channel!Refuse, Sending
  <2> QED
      BY <2>2
<1> QED
    BY <1>4, <1>5

LEMMA StepRefines ==
    ASSUME WebhookInv, [Next]_vars
    PROVE  [Channel!Next]_Channel!vars
<1> DEFINE Same == /\ (proc' \in {"up", "offline"}) = (proc \in {"up", "offline"})
                   /\ queue' = queue /\ Sending' = Sending /\ outcome' = outcome
<1>s. ASSUME Same PROVE UNCHANGED Channel!vars
    BY <1>s DEF Channel!vars, Sending
<1>k. ASSUME \A v \in Workers : Busy(v)' <=> Busy(v), body' = body PROVE Sending' = Sending
    BY <1>k DEF Sending
<1>1. CASE \E e \in Events : Receive(e)
  <2>1. Same
      BY <1>1 DEF Receive, workerVars, Sending, Busy
  <2> QED
      BY <2>1, <1>s
<1>2. CASE \E s \in Sessions : enqueue(s)
    BY <1>2, EnqueueRefines DEF Channel!Next
<1>3. CASE \E w \in Workers : Take(w)
    BY <1>3, TakeRefines DEF Channel!Next
<1>4. CASE \E w \in Workers : post(w)
  <2>1. PICK w \in Workers : post(w)
      BY <1>4
  <2>2. Busy(w) /\ proc' = proc /\ queue' = queue
      BY <2>1 DEF post, Busy
  <2>3. CASE Settle(w, "delivered") \/ Settle(w, "exhausted")
      BY <2>2, <2>3, SettleRefines DEF Channel!Next
  <2>4. CASE pc' = [pc EXCEPT ![w] = "backoff"] /\ body' = body /\ outcome' = outcome
    <3>1. \A v \in Workers : Busy(v)' <=> Busy(v)
        BY <2>2, <2>4 DEF Busy, WebhookInv, TypeOK
    <3>2. Same
        BY <1>k, <2>2, <2>4, <3>1
    <3> QED
        BY <3>2, <1>s
  <2> QED
      BY <2>1, <2>3, <2>4 DEF post
<1>5. CASE \E w \in Workers : backoff(w)
  <2>1. PICK w \in Workers : backoff(w)
      BY <1>5
  <2>2. Busy(w) /\ proc' = proc /\ queue' = queue
      BY <2>1 DEF backoff, Busy
  <2>3. CASE Quitting /\ Settle(w, "abandoned")
      BY <2>2, <2>3, SettleRefines DEF Channel!Next
  <2>4. CASE pc' = [pc EXCEPT ![w] = "post"] /\ body' = body /\ outcome' = outcome
    <3>1. \A v \in Workers : Busy(v)' <=> Busy(v)
        BY <2>2, <2>4 DEF Busy, WebhookInv, TypeOK
    <3>2. Same
        BY <1>k, <2>2, <2>4, <3>1
    <3> QED
        BY <3>2, <1>s
  <2> QED
      BY <2>1, <2>3, <2>4 DEF backoff
<1>6. CASE \E w \in Workers : WorkerReturns(w)
  <2>1. \A v \in Workers : Busy(v)' <=> Busy(v)
      BY <1>6 DEF WorkerReturns, Busy, WebhookInv, TypeOK
  <2>2. Same
      BY <1>6, <1>k, <2>1 DEF WorkerReturns
  <2> QED
      BY <2>2, <1>s
<1>7. CASE StopSessions \/ stop
  <2>1. Same
      BY <1>7 DEF StopSessions, stop, workerVars, Sending, Busy
  <2> QED
      BY <2>1, <1>s
<1>8. CASE CloseQuit
  <2>1. /\ proc = "offline" /\ proc' = "quit" /\ queue' = queue /\ outcome' = outcome
        /\ Sending' = Sending
      BY <1>8 DEF CloseQuit, workerVars, Sending, Busy
  <2>2. Channel!Close
      BY <2>1 DEF Channel!Close, Sending
  <2> QED
      BY <2>2 DEF Channel!Next
<1>9. CASE UNCHANGED vars
  <2>1. Same
      BY <1>9 DEF vars, workerVars, Sending, Busy
  <2> QED
      BY <2>1, <1>s
<1> QED
    BY <1>1, <1>2, <1>3, <1>4, <1>5, <1>6, <1>7, <1>8, <1>9 DEF Next, WorkerStep

\* Every step of the notifier is one of the channel, or none: the safety of
\* ImplementsChannel.
THEOREM ChannelRefined == Spec => Channel!Safety
<1>1. Init => Channel!Init
  <2> SUFFICES ASSUME Init PROVE Channel!Init
      OBVIOUS
  <2>1. Sending = {}
      BY SendingIs DEF Init, Busy
  <2> QED
      BY <2>1 DEF Init, Channel!Init, Sending
<1>2. WebhookInv /\ [Next]_vars => [Channel!Next]_Channel!vars
    BY StepRefines
<1> QED
    BY <1>1, <1>2, WebhookInvariance, PTL DEF Spec, Channel!Safety
===============================================================================
