---------------------------- MODULE OperationLog ----------------------------
(***************************************************************************)
(* What the pending record and the journal promise together: operations    *)
(* are numbered and run one at a time; each is settled once, as done or as  *)
(* dropped; only the operation that holds the pending record can become     *)
(* done; and a record is given up before the next operation begins.        *)
(***************************************************************************)
EXTENDS Naturals

CONSTANT MaxOps

VARIABLES outcome,   \* what is known of each operation
          holder     \* the operation of the pending record, 0 when there is none

ops == 1..MaxOps
Outcomes == {"none", "begun", "open", "done", "dropped"}

LogInit == outcome = [n \in ops |-> "none"] /\ holder = 0

Settle(n, from, to) ==
  outcome[n] = from /\ outcome' = [outcome EXCEPT ![n] = to]

Begin(n) ==
  /\ holder = 0
  /\ \A m \in ops : m < n => outcome[m] \in {"done", "dropped"}
  /\ Settle(n, "none", "begun") /\ UNCHANGED holder

Open(n) == holder = 0 /\ holder' = n /\ Settle(n, "begun", "open")

Commit(n) == holder = n /\ Settle(n, "open", "done") /\ UNCHANGED holder

Release(n) ==
  /\ holder = n /\ holder' = 0
  /\ \/ Settle(n, "open", "dropped")
     \/ outcome[n] = "done" /\ UNCHANGED outcome

Abandon(n) == Settle(n, "begun", "dropped") /\ UNCHANGED holder

LogNext == \E n \in ops : Begin(n) \/ Open(n) \/ Commit(n) \/ Release(n) \/ Abandon(n)

LogSpec == LogInit /\ [][LogNext]_<<outcome, holder>>
=============================================================================
