------------------------- MODULE NotifyBroker_proofs -------------------------
(***************************************************************************)
(* Theorems about NotifyBroker, for any number of connections, any set of  *)
(* environments and any number of updates: Run never panics on a closed    *)
(* channel, and what a stream receives is its own, once and in order.      *)
(***************************************************************************)
EXTENDS NotifyBroker, TLAPS

Entering(h) == hpc[h] \in {"new", "enter", "subscribe"}

(* Run learns of a handler from its subscription and forgets it when it
   closes its channel; b.clients does not change during a delivery.        *)
Registered ==
  /\ \A h \in Handlers : Entering(h) => h \notin clients /\ h \notin closed /\ got[h] = << >>
  /\ bpc # "deliver" => pending = {}
  /\ NoPanic

(* The updates are taken one at a time, in the order they are announced. *)
Taken ==
  /\ msg <= Len(updates)
  /\ ppc = "send" => msg < Len(updates)
  /\ bpc = "deliver" => msg > 0

(* While update msg is delivered, the clients the loop has not come to yet
   joined before it and have received older updates only.                  *)
Ordered ==
  /\ \A h \in Handlers :
       /\ joined[h] <= msg
       /\ \A i \in DOMAIN got[h] : got[h][i] <= msg
       /\ h \in pending => joined[h] < msg /\ \A i \in DOMAIN got[h] : got[h][i] < msg
  /\ DeliveredInOrder

Inv == TypeOK /\ Registered /\ Taken /\ Ordered

-----------------------------------------------------------------------------
(* What a stream has received are numbers of updates that Run has taken. *)
LEMMA Received ==
  ASSUME TypeOK, Ordered, NEW h \in Handlers, NEW i \in DOMAIN got[h]
  PROVE  got[h][i] \in 1 .. msg /\ got[h][i] \in 1 .. MaxUpdates
<1>1. got[h] \in Seq(1 .. MaxUpdates)
  BY DEF TypeOK
<1>2. got[h][i] \in 1 .. MaxUpdates
  <2> DEFINE S == 1 .. MaxUpdates
  <2>1. got[h] \in Seq(S)
    BY <1>1
  <2> HIDE DEF S
  <2>2. i \in 1 .. Len(got[h])
    BY <2>1
  <2>3. got[h][i] \in S
    BY <2>1, <2>2
  <2> QED BY <2>3 DEF S
<1>3. got[h][i] <= msg
  BY DEF Ordered
<1> QED BY <1>2, <1>3, UpdatesAssumption DEF TypeOK

(* A handler that moves moves to one of the places of the code. *)
LEMMA HandlerMoves ==
  ASSUME TypeOK, NEW h \in Handlers, NEW place, Goes(h, place)
  PROVE  /\ \A k \in Handlers \ {h} : hpc'[k] = hpc[k]
         /\ hpc'[h] = place
BY DEF Goes, TypeOK

(* The steps of a handler on its own keep the invariant: none of them brings
   it back to where it was before it subscribed.                           *)
LEMMA HandlerStep ==
  ASSUME Inv, NEW h \in Handlers,
         Connect(h) \/ Subscribe(h) \/ WriteHello(h) \/ WriteUpdate(h)
           \/ SeeClosed(h) \/ SeeDone(h) \/ Unsubscribe(h)
  PROVE  Inv'
<1>1. UNCHANGED <<clients, enabled, shutdown, closed, bpc, msg, pending, env, gone, got, joined, ppc, updates, main>>
  BY DEF Connect, Subscribe, WriteHello, WriteUpdate, SeeClosed, SeeDone, Unsubscribe, broker
<1>2. PICK place \in {"enter", "subscribe", "hello", "select", "write", "leave", "unsubscribe", "returned"} :
        /\ Goes(h, place)
        /\ place \in {"enter", "subscribe"} => Entering(h)
  BY DEF Connect, Subscribe, WriteHello, WriteUpdate, SeeClosed, SeeDone, Unsubscribe, Entering
<1>3. hpc' \in [Handlers -> {"new", "enter", "subscribe", "hello", "select", "write",
                             "leave", "unsubscribe", "returned"}]
  BY <1>2 DEF Inv, TypeOK, Goes
<1>4. \A k \in Handlers : Entering(k)' => Entering(k)
  BY <1>2, HandlerMoves DEF Inv, Entering
<1>5. TypeOK'
  BY <1>1, <1>3 DEF Inv, TypeOK
<1>6. Registered'
  BY <1>1, <1>4 DEF Inv, Registered, NoPanic
<1>7. Taken' /\ Ordered'
  BY <1>1 DEF Inv, Taken, Ordered, DeliveredInOrder
<1> QED BY <1>5, <1>6, <1>7 DEF Inv

(* The steps of the shutdown and of the network touch nothing that the
   invariant is about.                                                     *)
LEMMA OutsideStep ==
  ASSUME Inv, (\E h \in Handlers : Disconnect(h)) \/ Disable \/ Main
  PROVE  Inv'
<1>1. UNCHANGED <<clients, closed, bpc, msg, pending, hpc, env, got, joined, ppc, updates>>
  BY DEF Disconnect, Disable, Main, CloseShutdown, CloseListener, Drained, broker, handler
<1>2. /\ enabled' \in BOOLEAN /\ shutdown' \in BOOLEAN
      /\ gone' \subseteq Handlers
      /\ main' \in {"serving", "closing", "cleaned", "draining", "exited"}
  BY DEF Inv, TypeOK, Disconnect, Disable, Main, CloseShutdown, CloseListener, Drained, broker, handler
<1>3. TypeOK'
  BY <1>1, <1>2 DEF Inv, TypeOK
<1>4. Registered' /\ Taken' /\ Ordered'
  BY <1>1 DEF Inv, Registered, Entering, NoPanic, Taken, Ordered, DeliveredInOrder
<1> QED BY <1>3, <1>4 DEF Inv

(* The poller hands over one update at a time. *)
LEMMA AnnounceStep ==
  ASSUME Inv, NEW e \in Envs, NotifyConfigUpdate(e)
  PROVE  Inv'
<1>1. /\ UNCHANGED <<clients, enabled, shutdown, closed, bpc, msg, pending, hpc, env, gone, got, joined, main>>
      /\ ppc' = "send" /\ updates' = Append(updates, e) /\ Len(updates) < MaxUpdates
  BY DEF NotifyConfigUpdate, broker, handler
<1>2. /\ updates' \in Seq(Envs) /\ Len(updates') = Len(updates) + 1
      /\ \A i \in 1 .. Len(updates) : updates'[i] = updates[i]
  BY <1>1 DEF Inv, TypeOK
<1>3. TypeOK'
  BY <1>1, <1>2, UpdatesAssumption DEF Inv, TypeOK
<1>4. Registered' /\ Taken'
  BY <1>1, <1>2 DEF Inv, TypeOK, Registered, Entering, NoPanic, Taken
<1>5. \A h \in Handlers : \A i \in DOMAIN got[h] : got[h][i] \in 1 .. Len(updates)
  <2> SUFFICES ASSUME NEW h \in Handlers, NEW i \in DOMAIN got[h]
               PROVE  got[h][i] \in 1 .. Len(updates)
    OBVIOUS
  <2>1. got[h][i] \in 1 .. msg
    BY Received DEF Inv
  <2> QED BY <2>1, UpdatesAssumption DEF Inv, TypeOK, Taken
<1>6. Ordered'
  BY <1>1, <1>2, <1>5 DEF Inv, Ordered, DeliveredInOrder
<1> QED BY <1>3, <1>4, <1>6 DEF Inv

(* Run's bookkeeping: subscriptions, departures and the shutdown. *)
LEMMA BookkeepingStep ==
  ASSUME Inv, (\E h \in Handlers : RunSubscribe(h) \/ RunUnsubscribe(h)) \/ RunShutdown
  PROVE  Inv'
<1>1. pending = {} /\ bpc = "select"
  BY DEF Inv, Registered, RunSubscribe, RunUnsubscribe, RunShutdown
<1>2. UNCHANGED <<enabled, shutdown, msg, pending, env, gone, got, ppc, updates, main>>
  BY DEF RunSubscribe, RunUnsubscribe, RunShutdown, handler
<1>3. ASSUME NEW h \in Handlers, RunSubscribe(h) PROVE Inv'
  <2>1. /\ clients' = clients \cup {h} /\ UNCHANGED <<closed, bpc>>
        /\ hpc[h] = "subscribe" /\ Goes(h, "hello")
        /\ joined' = [joined EXCEPT ![h] = msg]
    BY <1>3 DEF RunSubscribe
  <2>2. Entering(h)
    BY <2>1 DEF Entering
  <2>3. TypeOK'
    BY <1>2, <2>1, <2>2 DEF Inv, TypeOK, Registered, Goes
  <2>4. Registered'
    BY <1>1, <1>2, <2>1, HandlerMoves DEF Inv, Registered, Entering, NoPanic
  <2>5. Taken'
    BY <1>2, <2>1 DEF Inv, Taken
  <2>6. Ordered'
    <3>1. got[h] = << >> /\ DOMAIN got[h] = {}
      BY <2>2 DEF Inv, Registered
    <3>2. \A k \in Handlers : joined'[k] = IF k = h THEN msg ELSE joined[k]
      BY <2>1 DEF Inv, TypeOK
    <3>3. \A k \in Handlers : joined'[k] <= msg
      <4>1. \A k \in Handlers : joined[k] <= msg
        BY DEF Inv, Ordered
      <4>2. msg \in Nat
        BY UpdatesAssumption DEF Inv, TypeOK
      <4> QED BY <3>2, <4>1, <4>2
    <3>4. DeliveredInOrder'
      BY <1>2, <3>1, <3>2 DEF Inv, Ordered, DeliveredInOrder
    <3> QED BY <1>1, <1>2, <3>3, <3>4 DEF Inv, Ordered
  <2> QED BY <2>3, <2>4, <2>5, <2>6 DEF Inv
<1>4. ASSUME NEW h \in Handlers, RunUnsubscribe(h) PROVE Inv'
  <2>1. Goes(h, "returned") /\ joined' = joined
    BY <1>4 DEF RunUnsubscribe
  <2>2. /\ clients' \subseteq clients /\ bpc' = bpc
        /\ closed' \subseteq closed \cup {h}
        /\ clients' \cap closed' = {}
    BY <1>4 DEF RunUnsubscribe, Inv, TypeOK
  <2>3. TypeOK'
    BY <1>1, <1>2, <2>1, <2>2 DEF Inv, TypeOK, Goes
  <2>4. Registered'
    BY <1>1, <1>2, <2>1, <2>2, HandlerMoves DEF Inv, Registered, Entering, NoPanic
  <2>5. Taken' /\ Ordered'
    BY <1>2, <2>1, <2>2 DEF Inv, Taken, Ordered, DeliveredInOrder
  <2> QED BY <2>3, <2>4, <2>5 DEF Inv
<1>5. ASSUME RunShutdown PROVE Inv'
  <2>1. /\ bpc' = "stopped" /\ clients' = {} /\ closed' = closed \cup clients
        /\ UNCHANGED <<hpc, joined>>
    BY <1>5 DEF RunShutdown, handler, Inv, TypeOK
  <2>2. TypeOK'
    BY <1>1, <1>2, <2>1 DEF Inv, TypeOK
  <2>3. Registered'
    BY <1>1, <1>2, <2>1 DEF Inv, Registered, Entering, NoPanic
  <2>4. Taken' /\ Ordered'
    BY <1>2, <2>1 DEF Inv, Taken, Ordered, DeliveredInOrder
  <2> QED BY <2>2, <2>3, <2>4 DEF Inv
<1> QED BY <1>3, <1>4, <1>5

(* Run takes an update: all that any stream has received is older. *)
LEMMA BroadcastStep ==
  ASSUME Inv, RunBroadcast
  PROVE  Inv'
<1>1. /\ UNCHANGED <<clients, enabled, shutdown, closed, hpc, env, gone, got, joined, updates, main>>
      /\ bpc' = "deliver" /\ ppc' = "idle" /\ pending' = clients
      /\ msg' = Len(updates) /\ msg < Len(updates)
  BY DEF RunBroadcast, handler, Inv, Taken
<1>2. Len(updates) \in Nat /\ msg \in Nat
  BY DEF Inv, TypeOK
<1>3. TypeOK'
  BY <1>1, <1>2, UpdatesAssumption DEF Inv, TypeOK
<1>4. Registered' /\ Taken'
  BY <1>1, <1>2 DEF Inv, Registered, Entering, NoPanic, Taken
<1>5. \A h \in Handlers : joined'[h] < msg'
  BY <1>1, <1>2 DEF Inv, TypeOK, Ordered
<1>6. \A h \in Handlers : \A i \in DOMAIN got[h] : got'[h][i] < msg'
  <2> SUFFICES ASSUME NEW h \in Handlers, NEW i \in DOMAIN got[h]
               PROVE  got[h][i] < msg'
    BY <1>1
  <2>1. got[h][i] \in 1 .. msg
    BY Received DEF Inv
  <2> QED BY <1>1, <1>2, <2>1
<1>7. Ordered'
  <2>1. DeliveredInOrder'
    BY <1>1 DEF Inv, Ordered, DeliveredInOrder
  <2>2. \A h \in Handlers : joined'[h] \in Nat /\ \A i \in DOMAIN got[h] : got'[h][i] \in Nat
    BY <1>1, Received, UpdatesAssumption DEF Inv, TypeOK
  <2> QED BY <1>1, <1>2, <1>5, <1>6, <2>1, <2>2 DEF Ordered
<1> QED BY <1>3, <1>4, <1>7 DEF Inv

(* A turn of the delivery loop appends, if anything, the update that is newer
   than all its client has received.                                       *)
LEMMA DeliverStep ==
  ASSUME Inv, (\E h \in Handlers : Deliver(h)) \/ DeliverNone
  PROVE  Inv'
<1>1. ASSUME DeliverNone PROVE Inv'
  <2>1. /\ UNCHANGED <<clients, enabled, shutdown, closed, msg, pending, hpc, env, gone, got, joined, ppc, updates, main>>
        /\ bpc' = "select" /\ pending = {}
    BY <1>1 DEF DeliverNone, handler
  <2> QED BY <2>1 DEF Inv, TypeOK, Registered, Entering, NoPanic, Taken, Ordered, DeliveredInOrder
<1>2. ASSUME NEW h \in Handlers, Deliver(h) PROVE Inv'
  <2>1. /\ bpc = "deliver" /\ h \in pending /\ h \in clients /\ h \notin closed
        /\ pending' = pending \ {h}
        /\ bpc' = IF pending' = {} THEN "select" ELSE "deliver"
        /\ UNCHANGED <<clients, enabled, shutdown, closed, msg, env, gone, joined, ppc, updates, main>>
    BY <1>2 DEF Deliver, Inv, TypeOK
  <2>2. CASE UNCHANGED <<hpc, got>>
    BY <2>1, <2>2 DEF Inv, TypeOK, Registered, Entering, NoPanic, Taken, Ordered, DeliveredInOrder
  <2>3. CASE /\ Wants(h) /\ hpc[h] = "select"
             /\ Goes(h, "write") /\ got' = [got EXCEPT ![h] = Append(@, msg)]
    <3>1. /\ got[h] \in Seq(1 .. MaxUpdates) /\ msg \in 1 .. MaxUpdates /\ msg <= Len(updates)
          /\ joined[h] \in 0 .. MaxUpdates
      BY <2>1, UpdatesAssumption DEF Inv, TypeOK, Taken
    <3>2. /\ got'[h] = Append(got[h], msg)
          /\ \A k \in Handlers \ {h} : got'[k] = got[k]
          /\ got' \in [Handlers -> Seq(1 .. MaxUpdates)]
      BY <2>3, <3>1 DEF Inv, TypeOK
    <3>3. /\ DOMAIN got'[h] = 1 .. (Len(got[h]) + 1) /\ DOMAIN got[h] = 1 .. Len(got[h])
          /\ got'[h][Len(got[h]) + 1] = msg /\ Len(got[h]) \in Nat
          /\ \A i \in DOMAIN got[h] : got'[h][i] = got[h][i]
      BY <3>1, <3>2
    <3>4. \A i \in DOMAIN got[h] : got[h][i] \in 1 .. MaxUpdates /\ got[h][i] < msg
      BY <2>1, Received DEF Inv, Ordered
    <3>5. TypeOK'
      BY <2>1, <2>3, <3>2 DEF Inv, TypeOK, Goes
    <3>6. Registered'
      BY <2>1, <2>3, <3>2, HandlerMoves DEF Inv, Registered, Entering, NoPanic
    <3>7. Taken'
      BY <2>1 DEF Inv, Taken
    <3>8. joined[h] < msg /\ updates[msg] = env[h]
      BY <2>1, <2>3 DEF Inv, Ordered, Wants
    <3>9. \A i \in DOMAIN got'[h] : /\ got'[h][i] <= msg
                                    /\ updates[got'[h][i]] = env[h]
                                    /\ got'[h][i] > joined[h]
      <4> SUFFICES ASSUME NEW i \in DOMAIN got'[h]
                   PROVE  got'[h][i] <= msg /\ updates[got'[h][i]] = env[h] /\ got'[h][i] > joined[h]
        OBVIOUS
      <4>1. CASE i \in DOMAIN got[h]
        BY <3>1, <3>3, <3>4, <4>1 DEF Inv, Ordered, DeliveredInOrder
      <4>2. CASE i = Len(got[h]) + 1
        BY <3>1, <3>3, <3>8, <4>2
      <4> QED BY <3>3, <4>1, <4>2
    <3>11. \A i, j \in DOMAIN got'[h] : i < j => got'[h][i] < got'[h][j]
      <4> SUFFICES ASSUME NEW i \in DOMAIN got'[h], NEW j \in DOMAIN got'[h], i < j
                   PROVE  got'[h][i] < got'[h][j]
        OBVIOUS
      <4>1. i \in DOMAIN got[h]
        BY <3>3
      <4>2. CASE j \in DOMAIN got[h]
        BY <3>3, <4>1, <4>2 DEF Inv, Ordered, DeliveredInOrder
      <4>3. CASE j = Len(got[h]) + 1
        BY <3>3, <3>4, <4>1, <4>3
      <4> QED BY <3>3, <4>2, <4>3
    <3>12. UNCHANGED <<msg, updates, joined, env>> /\ pending' = pending \ {h}
      BY <2>1
    <3>10. Ordered'
      <4> SUFFICES ASSUME NEW k \in Handlers
                   PROVE  /\ joined[k] <= msg
                          /\ \A i \in DOMAIN got'[k] : got'[k][i] <= msg
                          /\ k \in pending \ {h} =>
                               joined[k] < msg /\ \A i \in DOMAIN got'[k] : got'[k][i] < msg
                          /\ \A i \in DOMAIN got'[k] :
                               updates[got'[k][i]] = env[k] /\ got'[k][i] > joined[k]
                          /\ \A i, j \in DOMAIN got'[k] : i < j => got'[k][i] < got'[k][j]
        BY <3>12 DEF Ordered, DeliveredInOrder
      <4>1. CASE k = h
        <5>1. joined[h] <= msg
          BY DEF Inv, Ordered
        <5> QED BY <4>1, <5>1, <3>9, <3>11
      <4>2. CASE k # h
        <5>1. got'[k] = got[k]
          BY <3>2, <4>2
        <5> QED BY <5>1 DEF Inv, Ordered, DeliveredInOrder
      <4> QED BY <4>1, <4>2
    <3> QED BY <3>5, <3>6, <3>7, <3>10 DEF Inv
  <2> QED BY <1>2, <2>1, <2>2, <2>3 DEF Deliver
<1> QED BY <1>1, <1>2

-----------------------------------------------------------------------------
(* The inductive invariant holds in every state the broker reaches. *)
THEOREM Invariance == Spec => []Inv
<1>1. Init => Inv
  <2> SUFFICES ASSUME Init PROVE Inv
    OBVIOUS
  <2>1. \A h \in Handlers : got[h] = << >> /\ DOMAIN got[h] = {} /\ joined[h] = 0
    BY DEF Init
  <2>2. Len(updates) = 0 /\ updates \in Seq(Envs) /\ msg = 0
    BY DEF Init
  <2>3. TypeOK
    <3>1. got \in [Handlers -> Seq(1 .. MaxUpdates)]
      BY DEF Init
    <3>2. joined \in [Handlers -> 0 .. MaxUpdates] /\ 0 \in 0 .. MaxUpdates
      BY UpdatesAssumption DEF Init
    <3>3. msg \in 0 .. MaxUpdates /\ Len(updates) <= MaxUpdates
      BY <2>2, UpdatesAssumption
    <3> QED BY <2>2, <3>1, <3>2, <3>3 DEF Init, TypeOK
  <2>4. Registered /\ Taken
    BY <2>1, <2>2 DEF Init, Registered, Entering, NoPanic, Taken
  <2>5. Ordered
    BY <2>1, <2>2 DEF Init, Ordered, DeliveredInOrder
  <2> QED BY <2>3, <2>4, <2>5 DEF Inv
<1>2. Inv /\ [Next]_vars => Inv'
  <2> SUFFICES ASSUME Inv, [Next]_vars PROVE Inv'
    OBVIOUS
  <2>1. CASE UNCHANGED vars
    BY <2>1 DEF vars, broker, handler, Inv, TypeOK, Registered, Entering, NoPanic, Taken, Ordered, DeliveredInOrder
  <2>2. CASE \E h \in Handlers : Connect(h) \/ Handle(h)
    BY <2>2, HandlerStep DEF Handle
  <2>3. CASE (\E h \in Handlers : Disconnect(h)) \/ Disable \/ Main
    BY <2>3, OutsideStep
  <2>4. CASE Run
    BY <2>4, BookkeepingStep, BroadcastStep, DeliverStep DEF Run
  <2>5. CASE \E e \in Envs : NotifyConfigUpdate(e)
    BY <2>5, AnnounceStep
  <2> QED BY <2>1, <2>2, <2>3, <2>4, <2>5 DEF Next
<1> QED BY <1>1, <1>2, PTL DEF Spec

(* Type correctness, with what b.clients promises: Run's loop only looks at
   clients that are registered, and their channels are open.               *)
THEOREM TypeCorrect == Spec => []TypeOK
<1>1. Inv => TypeOK
  BY DEF Inv
<1> QED BY <1>1, Invariance, PTL

(* Run never closes a channel twice and never sends on a closed one, however
   subscriptions, departures, deliveries and the shutdown interleave.      *)
THEOREM NeverPanics == Spec => []NoPanic
<1>1. Inv => NoPanic
  BY DEF Inv, Registered
<1> QED BY <1>1, Invariance, PTL

(* Every stream receives updates of its own environment, announced after it
   joined, at most once and in the order of their announcement.            *)
THEOREM OrderedDelivery == Spec => []DeliveredInOrder
<1>1. Inv => DeliveredInOrder
  BY DEF Inv, Ordered
<1> QED BY <1>1, Invariance, PTL
=============================================================================
