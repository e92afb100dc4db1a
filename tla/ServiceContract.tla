-------------------------- MODULE ServiceContract ---------------------------
(***************************************************************************)
(* What the work queue promises the services, with no queue, timer or      *)
(* thread in it: a work that was submitted stays due until it runs; works  *)
(* run one at a time, and only when they are due; and a service whose work *)
(* has run is due again when it ends.                                      *)
(***************************************************************************)
CONSTANTS
  Works,     \* the works of the application
  Services,  \* those that must go on for ever
  NoWork     \* none runs

VARIABLES
  due,      \* the works that will run
  running   \* the work that runs

serviceVars == <<due, running>>

ServiceInit == due = {} /\ running = NoWork

\* By anyone, at any time, of a work that may be due or running already.
Activate(w) == due' = due \cup {w} /\ UNCHANGED running

Run(w) ==
  /\ running = NoWork
  /\ w \in due
  /\ running' = w
  /\ due' = due \ {w}

Finish ==
  /\ running # NoWork
  /\ running' = NoWork
  /\ due' = IF running \in Services THEN due \cup {running} ELSE due

Restart == due' = {} /\ running' = NoWork

ServiceNext ==
  \/ \E w \in Works : Activate(w) \/ Run(w)
  \/ Finish \/ Restart

ServiceSpec == ServiceInit /\ [][ServiceNext]_serviceVars
=============================================================================
