----------------------------- MODULE NotifyBroker -----------------------------
(***************************************************************************)
(* The broker that hands configuration updates to the open event streams   *)
(* (GET /config/sse), the handlers of those streams, the poller that      *)
(* announces updates and the main goroutine that shuts everything down.    *)
(*                                                                         *)
(* All channels are unbuffered: a send and its receive are one step, and a *)
(* goroutine at a send that nobody receives stays there.  b.enabled is     *)
(* read without a lock, in a step of its own before the send it guards.    *)
(* A handler is one connection; it never comes back.                       *)
(***************************************************************************)
EXTENDS Naturals, FiniteSets, Sequences

CONSTANTS
  Handlers,    \* connections to the event stream
  Envs,
  MaxUpdates   \* bound: updates announced in a behaviour

ASSUME UpdatesAssumption == MaxUpdates \in Nat

VARIABLES
  clients,   \* b.clients
  enabled,   \* b.enabled
  shutdown,  \* b.shutdown is closed
  closed,    \* handlers whose Client.Send is closed
  bpc,       \* where Run is
  msg,       \* the update Run is delivering
  pending,   \* clients the delivery loop has still to look at
  hpc,       \* where a handler is
  env,       \* the environment a handler asked for
  gone,      \* connections whose request context is done
  ppc,       \* where the poller is
  updates,   \* history: the environment of every update announced so far
  got,       \* history: the updates (their numbers) a handler received
  joined,    \* history: the last update Run had taken when it registered a handler
  main       \* where the main goroutine is

broker == <<clients, enabled, shutdown, closed, bpc, msg, pending>>
handler == <<hpc, env, gone, got, joined>>
vars == <<broker, handler, ppc, updates, main>>

Init ==
  /\ clients = {} /\ enabled = TRUE /\ shutdown = FALSE /\ closed = {}
  /\ bpc = "select" /\ msg = 0 /\ pending = {}
  /\ hpc = [h \in Handlers |-> "new"]
  /\ env \in [Handlers -> Envs]
  /\ gone = {}
  /\ ppc = "idle" /\ updates = << >>
  /\ got = [h \in Handlers |-> << >>]
  /\ joined = [h \in Handlers |-> 0]
  /\ main = "serving"

Goes(h, place) == hpc' = [hpc EXCEPT ![h] = place]

-----------------------------------------------------------------------------
(* NotifyHandler. *)

(* The listener accepts connections until http.Server.Shutdown closes it. *)
Connect(h) ==
  /\ hpc[h] = "new"
  /\ main # "draining" /\ main # "exited"
  /\ Goes(h, "enter")
  /\ UNCHANGED <<broker, env, gone, got, joined, ppc, updates, main>>

(* Broker.Subscribe reads enabled and then sends, or skips the send. *)
Subscribe(h) ==
  /\ hpc[h] = "enter"
  /\ Goes(h, IF enabled THEN "subscribe" ELSE "hello")
  /\ UNCHANGED <<broker, env, gone, got, joined, ppc, updates, main>>

(* The first write fails: the handler returns and stays in b.clients. *)
WriteHello(h) ==
  /\ hpc[h] = "hello"
  /\ \/ Goes(h, "select")
     \/ h \in gone /\ Goes(h, "returned")
  /\ UNCHANGED <<broker, env, gone, got, joined, ppc, updates, main>>

WriteUpdate(h) ==
  /\ hpc[h] = "write"
  /\ \/ Goes(h, "select")
     \/ h \in gone /\ Goes(h, "leave")
  /\ UNCHANGED <<broker, env, gone, got, joined, ppc, updates, main>>

(* The select of the handler's loop: its Send is closed, or ctx is done. *)
SeeClosed(h) ==
  /\ hpc[h] = "select" /\ h \in closed
  /\ Goes(h, "leave")
  /\ UNCHANGED <<broker, env, gone, got, joined, ppc, updates, main>>

SeeDone(h) ==
  /\ hpc[h] = "select" /\ h \in gone
  /\ Goes(h, "leave")
  /\ UNCHANGED <<broker, env, gone, got, joined, ppc, updates, main>>

(* Broker.Unsubscribe reads enabled and then sends, or skips the send. *)
Unsubscribe(h) ==
  /\ hpc[h] = "leave"
  /\ Goes(h, IF enabled THEN "unsubscribe" ELSE "returned")
  /\ UNCHANGED <<broker, env, gone, got, joined, ppc, updates, main>>

Disconnect(h) ==
  /\ hpc[h] \notin {"new", "returned"} /\ h \notin gone
  /\ gone' = gone \cup {h}
  /\ UNCHANGED <<broker, hpc, env, got, joined, ppc, updates, main>>

-----------------------------------------------------------------------------
(* Broker.Run. *)

RunSubscribe(h) ==
  /\ bpc = "select" /\ hpc[h] = "subscribe"
  /\ clients' = clients \cup {h}
  /\ joined' = [joined EXCEPT ![h] = msg]
  /\ Goes(h, "hello")
  /\ UNCHANGED <<enabled, shutdown, closed, bpc, msg, pending, env, gone, got, ppc, updates, main>>

(* Mutant: the channel is closed but the client stays registered. *)
MutUnsubscribeKeeps(h) ==
  /\ bpc = "select" /\ hpc[h] = "unsubscribe"
  /\ closed' = closed \cup {h}
  /\ bpc' = IF h \in closed THEN "panicked" ELSE bpc
  /\ Goes(h, "returned")
  /\ UNCHANGED <<clients, enabled, shutdown, msg, pending, env, gone, got, joined, ppc, updates, main>>

(* Closing a closed channel panics. *)
RunUnsubscribe(h) ==
  /\ bpc = "select" /\ hpc[h] = "unsubscribe"
  /\ IF h \in clients
     THEN /\ clients' = clients \ {h}
          /\ closed' = closed \cup {h}
          /\ bpc' = IF h \in closed THEN "panicked" ELSE bpc
     ELSE UNCHANGED <<clients, closed, bpc>>
  /\ Goes(h, "returned")
  /\ UNCHANGED <<enabled, shutdown, msg, pending, env, gone, got, joined, ppc, updates, main>>

RunBroadcast ==
  /\ bpc = "select" /\ ppc = "send"
  /\ bpc' = "deliver" /\ ppc' = "idle"
  /\ msg' = Len(updates)
  /\ pending' = clients
  /\ UNCHANGED <<clients, enabled, shutdown, closed, handler, updates, main>>

(* Mutant: updates go to the streams of every environment. *)
MutWantsAll(h) == TRUE

Wants(h) == env[h] = updates[msg]

(* Mutant: the send waits until the stream receives. *)
MutDeliverBlocks(h) ==
  /\ bpc = "deliver" /\ h \in pending
  /\ Wants(h) => hpc[h] = "select"
  /\ pending' = pending \ {h}
  /\ bpc' = IF pending' = {} THEN "select" ELSE bpc
  /\ IF Wants(h)
     THEN Goes(h, "write") /\ got' = [got EXCEPT ![h] = Append(@, msg)]
     ELSE UNCHANGED <<hpc, got>>
  /\ UNCHANGED <<clients, enabled, shutdown, closed, msg, env, gone, joined, ppc, updates, main>>

(* One turn of the delivery loop: a send that does not wait.  Sending on a
   closed channel panics.                                                  *)
Deliver(h) ==
  /\ bpc = "deliver" /\ h \in pending
  /\ pending' = pending \ {h}
  /\ IF Wants(h) /\ h \in closed
     THEN bpc' = "panicked" /\ UNCHANGED <<hpc, got>>
     ELSE /\ bpc' = IF pending' = {} THEN "select" ELSE bpc
          /\ IF Wants(h) /\ hpc[h] = "select"
             THEN Goes(h, "write") /\ got' = [got EXCEPT ![h] = Append(@, msg)]
             ELSE UNCHANGED <<hpc, got>>
  /\ UNCHANGED <<clients, enabled, shutdown, closed, msg, env, gone, joined, ppc, updates, main>>

DeliverNone ==
  /\ bpc = "deliver" /\ pending = {}
  /\ bpc' = "select"
  /\ UNCHANGED <<clients, enabled, shutdown, closed, msg, pending, handler, ppc, updates, main>>

RunShutdown ==
  /\ bpc = "select" /\ shutdown
  /\ bpc' = IF clients \cap closed # {} THEN "panicked" ELSE "stopped"
  /\ closed' = closed \cup clients
  /\ clients' = {}
  /\ UNCHANGED <<enabled, shutdown, msg, pending, handler, ppc, updates, main>>

-----------------------------------------------------------------------------
(* The poller (NotifyConfigUpdate, not global) and the main goroutine. *)

NotifyConfigUpdate(e) ==
  /\ ppc = "idle" /\ Len(updates) < MaxUpdates
  /\ main # "exited"
  /\ enabled
  /\ ppc' = "send" /\ updates' = Append(updates, e)
  /\ UNCHANGED <<broker, handler, main>>

(* Mutant: Cleanup leaves enabled as it is. *)
MutStaysEnabled ==
  /\ main = "serving"
  /\ main' = "closing"
  /\ UNCHANGED <<broker, handler, ppc, updates>>

(* Cleanup: two statements. *)
Disable ==
  /\ main = "serving"
  /\ main' = "closing"
  /\ enabled' = FALSE
  /\ UNCHANGED <<clients, shutdown, closed, bpc, msg, pending, handler, ppc, updates>>

CloseShutdown ==
  /\ main = "closing"
  /\ main' = "cleaned"
  /\ shutdown' = TRUE
  /\ UNCHANGED <<clients, enabled, closed, bpc, msg, pending, handler, ppc, updates>>

(* http.Server.Shutdown closes the listener and waits for the handlers. *)
CloseListener ==
  /\ main = "cleaned"
  /\ main' = "draining"
  /\ UNCHANGED <<broker, handler, ppc, updates>>

Drained ==
  /\ main = "draining"
  /\ \A h \in Handlers : hpc[h] \in {"new", "returned"}
  /\ main' = "exited"
  /\ UNCHANGED <<broker, handler, ppc, updates>>

Handle(h) ==
  \/ Subscribe(h) \/ WriteHello(h) \/ WriteUpdate(h)
  \/ SeeClosed(h) \/ SeeDone(h) \/ Unsubscribe(h)

Run ==
  \/ \E h \in Handlers : RunSubscribe(h) \/ RunUnsubscribe(h) \/ Deliver(h)
  \/ RunBroadcast \/ DeliverNone \/ RunShutdown

Main == CloseShutdown \/ CloseListener \/ Drained

Next ==
  \/ \E h \in Handlers : Connect(h) \/ Handle(h) \/ Disconnect(h)
  \/ Run
  \/ \E e \in Envs : NotifyConfigUpdate(e)
  \/ Disable \/ Main

Spec == Init /\ [][Next]_vars

(* Every goroutine that can move does.  Go's select picks a ready case at
   random: a sender that is ready each time Run selects is served once, and
   so is the shutdown.  Clients need not connect or disconnect.            *)
Fairness ==
  /\ \A h \in Handlers : WF_vars(Handle(h))
  /\ SF_vars(RunBroadcast)
  /\ SF_vars(RunShutdown)
  /\ WF_vars(Run)
  /\ WF_vars(Main)

FairSpec == Spec /\ Fairness

(* The handlers that wait to subscribe or to leave are served as well.  *)
ServedSpec ==
  FairSpec /\ \A h \in Handlers : SF_vars(RunSubscribe(h)) /\ SF_vars(RunUnsubscribe(h))

-----------------------------------------------------------------------------
TypeOK ==
  /\ clients \subseteq Handlers /\ closed \subseteq Handlers
  /\ enabled \in BOOLEAN /\ shutdown \in BOOLEAN
  /\ bpc \in {"select", "deliver", "stopped", "panicked"}
  /\ msg \in 0 .. MaxUpdates
  /\ pending \subseteq clients /\ clients \cap closed = {}
  /\ hpc \in [Handlers -> {"new", "enter", "subscribe", "hello", "select", "write",
                           "leave", "unsubscribe", "returned"}]
  /\ env \in [Handlers -> Envs]
  /\ gone \subseteq Handlers
  /\ ppc \in {"idle", "send"}
  /\ updates \in Seq(Envs) /\ Len(updates) <= MaxUpdates
  /\ got \in [Handlers -> Seq(1 .. MaxUpdates)]
  /\ joined \in [Handlers -> 0 .. MaxUpdates]
  /\ main \in {"serving", "closing", "cleaned", "draining", "exited"}

(* Run closes every Send channel at most once and sends on none that is
   closed, in every order of subscriptions, departures and shutdown.       *)
NoPanic == bpc # "panicked"

(* A stream receives updates of its own environment only, taken by Run
   after it registered the stream, each at most once and in their order.   *)
DeliveredInOrder ==
  \A h \in Handlers :
    /\ \A i \in DOMAIN got[h] : updates[got[h][i]] = env[h] /\ got[h][i] > joined[h]
    /\ \A i, j \in DOMAIN got[h] : i < j => got[h][i] < got[h][j]

(* While the instance serves, the poller is never kept in a notification, no
   matter how slow, gone or stuck the subscribers are.                     *)
NotifyReturns == ppc = "send" ~> (ppc = "idle" \/ main # "serving")

(* A stream that Run has registered, and that had not begun to leave when the
   shutdown begins, returns, although its client stays connected: Run closes
   its Send, whatever it delivers before, and the handler finds enabled
   unset and does not send its departure.  Nothing is said of a stream that
   Run has not registered (its Subscribe read enabled after the shutdown
   began, or sends to a Run that has stopped) nor of one already sending its
   departure: those may wait as long as their clients, see
   ShutdownCompletes.                                                      *)
SubscribersReleased ==
  \A h \in Handlers :
    (main # "serving" /\ h \in clients /\ hpc[h] \in {"hello", "select", "write"})
      ~> hpc[h] = "returned"

(* The shutdown that main begins comes to its end. *)
ShutdownCompletes == main = "closing" ~> main = "exited"
=============================================================================
