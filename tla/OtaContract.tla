---------------------------- MODULE OtaContract ----------------------------
(***************************************************************************)
(* What over-the-air update promises the operator, with no downloads, no   *)
(* flash partitions and no protocol in it: the device always runs one      *)
(* whole image; a new image runs on trial, with the image it replaced kept *)
(* as the fallback, until the device confirms it; and an action is closed  *)
(* as successful only while its image is the one the device runs for good. *)
(***************************************************************************)
CONSTANTS
  Actions,  \* the deployments, and the images they deploy
  Factory,  \* the image the device starts with
  NoImage   \* no fallback: the running image is there for good

VARIABLES
  running,   \* the image the device boots
  fallback,  \* the image it returns to unless the running one is confirmed
  outcome    \* the server's view of each action

contractVars == <<running, fallback, outcome>>

ContractInit ==
  /\ running = Factory
  /\ fallback = NoImage
  /\ outcome = [a \in Actions |-> "unassigned"]

Deploy(a) ==
  /\ outcome[a] = "unassigned"
  /\ outcome' = [outcome EXCEPT ![a] = "open"]
  /\ UNCHANGED <<running, fallback>>

\* Only an image that was deployed, and one at a time.
Trial(a) ==
  /\ outcome[a] # "unassigned"
  /\ fallback = NoImage
  /\ running' = a
  /\ fallback' = running
  /\ UNCHANGED outcome

Confirm ==
  /\ fallback # NoImage
  /\ fallback' = NoImage
  /\ UNCHANGED <<running, outcome>>

GoBack ==
  /\ fallback # NoImage
  /\ running' = fallback
  /\ fallback' = NoImage
  /\ UNCHANGED outcome

Succeed(a) ==
  /\ outcome[a] = "open"
  /\ running = a
  /\ fallback = NoImage
  /\ outcome' = [outcome EXCEPT ![a] = "succeeded"]
  /\ UNCHANGED <<running, fallback>>

\* A failure may be reported of any open action.
Fail(a) ==
  /\ outcome[a] = "open"
  /\ outcome' = [outcome EXCEPT ![a] = "failed"]
  /\ UNCHANGED <<running, fallback>>

ContractNext ==
  \/ Confirm \/ GoBack
  \/ \E a \in Actions : Deploy(a) \/ Trial(a) \/ Succeed(a) \/ Fail(a)

ContractSpec == ContractInit /\ [][ContractNext]_contractVars
=============================================================================
