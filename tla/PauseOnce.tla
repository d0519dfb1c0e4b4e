----------------------------- MODULE PauseOnce ------------------------------
(***************************************************************************)
(* What a capture promises of each target, whatever the delivery of the    *)
(* request goes through: the target does work while it runs, is paused at  *)
(* most once, never works again after that, and may be taken down at any   *)
(* time.  Attempts, retries, lost responses and expired waits do not show. *)
(***************************************************************************)
EXTENDS Naturals

CONSTANT Target

VARIABLES
  status,  \* per target: "idle", "running", "paused" or "down"
  work,    \* per target: how many rows it has written
  reports  \* per target: the reports of a pause, by their place in its log

PInit ==
  /\ status = [t \in Target |-> "idle"]
  /\ work = [t \in Target |-> 0]
  /\ reports = [t \in Target |-> {}]

Begin(t) ==
  /\ status[t] = "idle"
  /\ status' = [status EXCEPT ![t] = "running"]
  /\ work' = [work EXCEPT ![t] = 1]
  /\ UNCHANGED reports

Work(t) ==
  /\ status[t] = "running"
  /\ work' = [work EXCEPT ![t] = @ + 1]
  /\ UNCHANGED <<status, reports>>

Pause(t) ==
  /\ status[t] = "running"
  /\ status' = [status EXCEPT ![t] = "paused"]
  /\ reports[t] = {} /\ \A r, s \in reports'[t] : r = s
  /\ reports' = [reports EXCEPT ![t] = reports'[t]]
  /\ UNCHANGED work

\* One process, or all that are left, is taken down.
TakeDown ==
  /\ \E S \in SUBSET Target :
       /\ \A t \in S : status[t] # "idle"
       /\ status' = [t \in Target |-> IF t \in S THEN "down" ELSE status[t]]
  /\ UNCHANGED <<work, reports>>

PNext == TakeDown \/ \E t \in Target : Begin(t) \/ Work(t) \/ Pause(t)

PSpec == PInit /\ [][PNext]_<<status, work, reports>>
=============================================================================
