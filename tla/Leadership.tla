------------------------------ MODULE Leadership ------------------------------
(***************************************************************************)
(* Start-up with EnableLeaderElection: instances that stand for a lease of *)
(* Kubernetes, and what main has the elected one do.  The lease and the    *)
(* elector are client-go's: a lease is taken when it is free, has run out  *)
(* or is one's own; the callback OnStartedLeading runs in a goroutine of   *)
(* its own, and OnStoppedLeading when Run returns.                         *)
(***************************************************************************)
EXTENDS Naturals

CONSTANTS
  Instances,   \* the pods of the deployment, by their hostnames
  NoInstance,  \* the holder of a lease nobody has taken
  MaxFailures  \* bound: signals and lost leases

VARIABLES
  pc,         \* what each instance is doing
  repository, \* whether NotifyService.repository is set, in each instance
  holder,     \* the HolderIdentity of the lease
  valid,      \* whether its duration has not run out
  failures    \* signals and lost leases so far

vars == <<pc, repository, holder, valid, failures>>

Init ==
  /\ pc = [i \in Instances |-> "down"]
  /\ repository = [i \in Instances |-> FALSE]
  /\ holder = NoInstance /\ valid = FALSE
  /\ failures = 0

(* NotifyService.New sets the broker and no repository; main goes on to
   serve requests and stands for election.                                 *)
Start(i) ==
  /\ pc[i] = "down"
  /\ pc' = [pc EXCEPT ![i] = "standby"]
  /\ repository' = [repository EXCEPT ![i] = FALSE]
  /\ UNCHANGED <<holder, valid, failures>>

Acquire(i) ==
  /\ pc[i] = "standby"
  /\ ~valid \/ holder = i
  /\ pc' = [pc EXCEPT ![i] = "elected"]
  /\ holder' = i /\ valid' = TRUE
  /\ UNCHANGED <<repository, failures>>

(***************************************************************************)
(* RunGlobal calls Subscribe of the repository.  A call through a nil      *)
(* interface panics, and a panic of a goroutine ends the process, which    *)
(* leaves its lease to run out.                                            *)
(***************************************************************************)
RunGlobal(i) ==
  /\ pc[i] = "elected"
  /\ pc' = [pc EXCEPT ![i] = IF repository[i] THEN "subscribed" ELSE "down"]
  /\ UNCHANGED <<repository, holder, valid, failures>>

(* configurationSet.Run, which comes after it in the same callback. *)
RunConfiguration(i) ==
  /\ pc[i] = "subscribed"
  /\ pc' = [pc EXCEPT ![i] = "synchronising"]
  /\ UNCHANGED <<repository, holder, valid, failures>>

Leads(i) == pc[i] \in {"elected", "subscribed", "synchronising"}

(* An instance that leads renews its lease; one of any other runs out. *)
RunOut ==
  /\ valid /\ (holder \in Instances => ~Leads(holder))
  /\ valid' = FALSE
  /\ UNCHANGED <<pc, repository, holder, failures>>

(***************************************************************************)
(* The renewals fail: OnStoppedLeading calls ShutdownGlobal, and with it   *)
(* Unsubscribe of the repository, before it shuts the poller down.  With a *)
(* repository the instance would go on without standing again.             *)
(***************************************************************************)
StopLeading(i) ==
  /\ Leads(i) /\ failures < MaxFailures
  /\ failures' = failures + 1
  /\ valid' = FALSE
  /\ pc' = [pc EXCEPT ![i] = IF repository[i] THEN "replica" ELSE "down"]
  /\ UNCHANGED <<repository, holder>>

(* A signal ends the process. *)
Signal(i) ==
  /\ pc[i] # "down" /\ failures < MaxFailures
  /\ failures' = failures + 1
  /\ pc' = [pc EXCEPT ![i] = "down"]
  /\ UNCHANGED <<repository, holder, valid>>

Next ==
  \/ RunOut
  \/ \E i \in Instances :
       \/ Start(i) \/ Acquire(i) \/ RunGlobal(i) \/ RunConfiguration(i)
       \/ StopLeading(i) \/ Signal(i)

(* Kubernetes restarts instances, leases run out, candidates try again and
   goroutines run; nothing has to fail.                                    *)
Fairness ==
  /\ WF_vars(RunOut)
  /\ \A i \in Instances :
       /\ WF_vars(Start(i)) /\ SF_vars(Acquire(i))
       /\ WF_vars(RunGlobal(i)) /\ WF_vars(RunConfiguration(i))

Spec == Init /\ [][Next]_vars /\ Fairness

(* Once an instance is elected, one of them comes to synchronise with the  *)
(* Git repository ("Seamless Transition" of the README; the callbacks that *)
(* main gives to the elector).                                             *)
LeaderSynchronises ==
  (\E i \in Instances : pc[i] = "elected") ~> (\E i \in Instances : pc[i] = "synchronising")
=============================================================================
