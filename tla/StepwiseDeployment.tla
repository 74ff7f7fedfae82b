-------------------------- MODULE StepwiseDeployment --------------------------
(***************************************************************************)
(* What scripts/bsc-deployment.mjs promises of a deployment, without the   *)
(* journal, the lock, the node and the chain that it takes to keep it: the *)
(* steps happen in the order of the recipe, each at most once, none before *)
(* the one in front of it is settled for good, and the deployment is       *)
(* declared complete only when all of them are.  Deployment.tla is shown   *)
(* to implement it.                                                        *)
(***************************************************************************)
EXTENDS Integers

CONSTANT StepCount    \* length of the recipe

VARIABLES sent,       \* steps of which a transaction was ever given to the network
          settled,    \* steps executed in a block that no reorganisation removes
          finished    \* the manifest says "complete"

vars == <<sent, settled, finished>>

Steps == 1..StepCount

Init ==
  /\ sent = {}
  /\ settled = {}
  /\ finished = FALSE

Send(s) ==
  /\ s \notin sent
  /\ \A i \in 1..s - 1 : i \in settled
  /\ sent' = sent \cup {s}
  /\ UNCHANGED <<settled, finished>>

Settle(s) ==
  /\ s \in sent \ settled
  /\ settled' = settled \cup {s}
  /\ UNCHANGED <<sent, finished>>

Finish ==
  /\ settled = Steps
  /\ finished' = TRUE
  /\ UNCHANGED <<sent, settled>>

Next == (\E s \in Steps : Send(s) \/ Settle(s)) \/ Finish

Spec == Init /\ [][Next]_vars
===============================================================================
