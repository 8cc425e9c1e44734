----------------------------- MODULE DirectoryIo -----------------------------
(***************************************************************************)
(* The watchdog of native/src/directory_io.rs: threads that read           *)
(* directories under a guard, one watchdog thread that sends SIGUSR2 to    *)
(* those that are overdue or cancelled, and the callers that cancel.       *)
(*                                                                         *)
(* A thread is a pthread: when it has ended, another may get its name.     *)
(* A step of a thread is what it does with the state's mutex held, or one  *)
(* change of its signal mask.  Time is abstract: a record is due from the  *)
(* moment its next_signal has passed.  As long as a record has not         *)
(* expired that moment is its deadline, so progress(), which moves the     *)
(* deadline of a record that is not due, changes nothing here.             *)
(***************************************************************************)
EXTENDS Naturals

CONSTANTS
  Threads,
  Tokens,     \* cancellation tokens
  NoToken,    \* a thread outside every CancellationScope
  Depth,      \* guards a thread has in use at once, forgotten ones included
  Forgetful,  \* threads that may forget a guard
  Masks       \* whether the mask of a thread of this name may have SIGUSR2

ASSUME TokenAssumption == NoToken \notin Tokens
ASSUME DepthAssumption == Depth \in [Threads -> Nat]
ASSUME MaskAssumption == Masks \in [Threads -> SUBSET BOOLEAN]

VARIABLES
  watchdog,   \* the runtime and the place of its thread
  active,     \* State.active: the record of each thread, NoRecord for none
  cancelled,  \* the tokens that are set
  notices,    \* tokens set by a caller that has yet to notify the watchdog
  place,      \* where a thread is
  goal,       \* what it is leaving its guards for, if it is
  guards,     \* guards it will drop
  leaks,      \* guards it has forgotten
  scope,      \* its thread-local CANCELLATION
  blocked,    \* its signal mask has SIGUSR2
  saved,      \* the mask a call in progress will restore (FALSE: none)
  own,        \* history: its mask when it is in no call of this module
  pending,    \* SIGUSR2 is pending for it
  cut         \* its last directory call returned EINTR

shared == <<watchdog, active, cancelled, notices>>
masks == <<blocked, saved, own>>
vars == <<shared, place, goal, guards, leaks, scope, masks, pending, cut>>

\* unset, refused: RUNTIME; then the watchdog runs, has scanned with the mutex
\* still held, or waits: without a limit, or until the next record is due.
Watching == {"unset", "refused", "awake", "scanned", "idle", "timed"}
Places == {"outside", "entering", "armed", "checking", "inside", "reading",
           "leaving", "left", "gone"}
Goals == {"work", "unwind", "exit"}

Record == [depth: Nat, token: Tokens \cup {NoToken}, mask: BOOLEAN,
           expired: BOOLEAN, due: BOOLEAN]
NoRecord == [depth |-> 0, token |-> NoToken, mask |-> FALSE,
             expired |-> FALSE, due |-> FALSE]

Recorded(t) == active[t].depth > 0
Cancelled(t) == active[t].token \in cancelled
Ready == watchdog \notin {"unset", "refused"}
Free == watchdog # "scanned"
\* changed.notify_all.
NotifyAll == watchdog' = IF watchdog \in {"idle", "timed"} THEN "awake" ELSE watchdog

Go(t, p) == place' = [place EXCEPT ![t] = p]
\* pthread_sigmask: the signal is kept back, or the mask of before restored.
Masked(t) ==
  /\ saved' = [saved EXCEPT ![t] = blocked[t]]
  /\ blocked' = [blocked EXCEPT ![t] = TRUE]
  /\ UNCHANGED own
Unmasked(t) ==
  /\ blocked' = [blocked EXCEPT ![t] = saved[t]]
  /\ saved' = [saved EXCEPT ![t] = FALSE]
  /\ UNCHANGED own

----------------------------------------------------------------------------
(* A guard begins. *)

\* The token is read first; an error of a nested begin ends the outer guards.
Begin(t) ==
  /\ place[t] \in {"outside", "inside"} /\ goal[t] = "work"
  /\ \/ /\ scope[t] \in cancelled /\ place[t] = "inside"
        /\ goal' = [goal EXCEPT ![t] = "unwind"]
        /\ UNCHANGED <<place, masks>>
     \/ /\ scope[t] \notin cancelled /\ guards[t] + leaks[t] < Depth[t]
        /\ Go(t, "entering")
        /\ Masked(t) /\ UNCHANGED goal
  /\ UNCHANGED <<shared, guards, leaks, scope, pending, cut>>

\* The first caller reserves the signal and starts the watchdog, or cannot.
StartRuntime(t) ==
  /\ place[t] = "entering" /\ watchdog = "unset"
  /\ watchdog' \in {"awake", "refused"}
  /\ UNCHANGED <<active, cancelled, notices, place, goal, guards, leaks, scope, masks,
                 pending, cut>>
Refuse(t) ==
  /\ place[t] = "entering" /\ watchdog = "refused"
  /\ Go(t, "outside")
  /\ Unmasked(t)
  /\ UNCHANGED <<shared, goal, guards, leaks, scope, pending, cut>>

\* A nested guard shares the record of the outer one.
Armed(t) ==
  IF Recorded(t) THEN [active[t] EXCEPT !.depth = @ + 1]
  ELSE [NoRecord EXCEPT !.depth = 1, !.token = scope[t], !.mask = saved[t]]
Insert(t) ==
  /\ place[t] = "entering" /\ Ready /\ Free
  /\ active' = [active EXCEPT ![t] = Armed(t)]
  /\ guards' = [guards EXCEPT ![t] = @ + 1]
  /\ saved' = [saved EXCEPT ![t] = FALSE]
  /\ Go(t, "armed")
  /\ UNCHANGED <<watchdog, cancelled, notices, goal, leaks, scope, blocked, own, pending, cut>>

\* OWNER is set, the watchdog told, the signal let through.
Announce(t) ==
  /\ place[t] = "armed"
  /\ NotifyAll
  /\ blocked' = [blocked EXCEPT ![t] = FALSE]
  /\ Go(t, "checking")
  /\ UNCHANGED <<active, cancelled, notices, goal, guards, leaks, scope, saved, own,
                 pending, cut>>

----------------------------------------------------------------------------
(* Inside a guard. *)

\* check() and progress().  An error ends all guards of the thread.
Update(t) ==
  /\ place[t] \in {"checking", "inside"} /\ goal[t] = "work" /\ Free
  /\ Go(t, "inside")
  /\ cut' = [cut EXCEPT ![t] = FALSE]
  /\ \/ /\ Cancelled(t) \/ active[t].expired \/ active[t].due
        /\ active' = [active EXCEPT ![t].expired = TRUE]
        /\ goal' = [goal EXCEPT ![t] = "unwind"]
        /\ NotifyAll
     \/ /\ ~(Cancelled(t) \/ active[t].expired \/ active[t].due)
        /\ UNCHANGED <<watchdog, active, goal>>
  /\ UNCHANGED <<cancelled, notices, guards, leaks, scope, masks, pending>>

\* A call of the file system, which a provider may answer late or never.
Read(t) ==
  /\ place[t] = "inside" /\ goal[t] = "work"
  /\ Go(t, "reading")
  /\ UNCHANGED <<shared, goal, guards, leaks, scope, masks, pending, cut>>
Answer(t) ==
  /\ place[t] = "reading"
  /\ Go(t, "checking")
  /\ UNCHANGED <<shared, goal, guards, leaks, scope, masks, pending, cut>>

\* The kernel runs the (empty) handler; a blocked call returns EINTR.
Deliver(t) ==
  /\ pending[t] /\ ~blocked[t]
  /\ pending' = [pending EXCEPT ![t] = FALSE]
  /\ IF place[t] = "reading"
     THEN Go(t, "checking") /\ cut' = [cut EXCEPT ![t] = TRUE]
     ELSE UNCHANGED <<place, cut>>
  /\ UNCHANGED <<shared, goal, guards, leaks, scope, masks>>

\* mem::forget of a guard.
Forget(t) ==
  /\ t \in Forgetful /\ place[t] = "inside" /\ goal[t] = "work"
  /\ guards' = [guards EXCEPT ![t] = @ - 1]
  /\ leaks' = [leaks EXCEPT ![t] = @ + 1]
  /\ Go(t, IF guards[t] = 1 THEN "outside" ELSE "inside")
  /\ UNCHANGED <<shared, goal, scope, masks, pending, cut>>

----------------------------------------------------------------------------
(* A guard, or the thread, ends: finish. *)

Leaving(t) ==
  /\ Go(t, "leaving")
  /\ Masked(t)
  /\ UNCHANGED <<shared, guards, leaks, scope, pending, cut>>

Leave(t) ==
  /\ place[t] = "inside" /\ goal[t] # "exit"
  /\ Leaving(t) /\ UNCHANGED goal

\* ThreadOwner::drop, when the thread ends: all guards it forgot.
Exit(t) ==
  /\ place[t] = "outside"
  /\ \/ Recorded(t) /\ Leaving(t) /\ goal' = [goal EXCEPT ![t] = "exit"]
     \/ /\ ~Recorded(t) /\ Go(t, "gone")
        /\ UNCHANGED <<shared, goal, guards, leaks, scope, masks, pending, cut>>

Remaining(t) == IF goal[t] = "exit" THEN 0 ELSE active[t].depth - 1
\* mutant: what is pending is left to be delivered
DrainedNot(t) == UNCHANGED pending
\* sigpending and sigwait until nothing is pending.
Drained(t) == pending' = [pending EXCEPT ![t] = FALSE]

Finish(t) ==
  /\ place[t] = "leaving" /\ Free
  /\ \/ /\ Remaining(t) > 0
        /\ active' = [active EXCEPT ![t].depth = Remaining(t)]
        /\ UNCHANGED <<saved, pending>>
     \/ /\ Remaining(t) = 0
        /\ saved' = [saved EXCEPT ![t] = active[t].mask]
        /\ active' = [active EXCEPT ![t] = NoRecord]
        /\ Drained(t)
  /\ guards' = [guards EXCEPT ![t] = IF goal[t] = "exit" THEN 0 ELSE @ - 1]
  /\ leaks' = [leaks EXCEPT ![t] = IF goal[t] = "exit" THEN 0 ELSE @]
  /\ Go(t, "left")
  /\ UNCHANGED <<watchdog, cancelled, notices, goal, scope, blocked, own, cut>>

Restore(t) ==
  /\ place[t] = "left"
  /\ NotifyAll /\ Unmasked(t)
  /\ Go(t, CASE goal[t] = "exit" -> "gone" [] guards[t] > 0 -> "inside" [] OTHER -> "outside")
  /\ goal' = [goal EXCEPT ![t] = IF guards[t] > 0 THEN @ ELSE "work"]
  /\ UNCHANGED <<active, cancelled, notices, guards, leaks, scope, pending, cut>>

----------------------------------------------------------------------------
(* Threads outside a guard, and callers that cancel. *)

OpenScope(t) ==
  /\ place[t] = "outside" /\ scope[t] = NoToken
  /\ \E k \in Tokens : scope' = [scope EXCEPT ![t] = k]
  /\ UNCHANGED <<shared, place, goal, guards, leaks, masks, pending, cut>>
CloseScope(t) ==
  /\ place[t] = "outside" /\ scope[t] # NoToken
  /\ scope' = [scope EXCEPT ![t] = NoToken]
  /\ UNCHANGED <<shared, place, goal, guards, leaks, masks, pending, cut>>

\* A new thread gets the pthread of one that has ended, and any mask.
Spawn(t) ==
  /\ place[t] = "gone"
  /\ Go(t, "outside")
  /\ scope' = [scope EXCEPT ![t] = NoToken]
  /\ \E m \in Masks[t] : own' = [own EXCEPT ![t] = m] /\ blocked' = [blocked EXCEPT ![t] = m]
  /\ UNCHANGED <<shared, goal, guards, leaks, saved, pending, cut>>

Local == UNCHANGED <<place, goal, guards, leaks, scope, masks, cut>>

\* SourceWorker::close, or the time limit of a preview.
Cancel(k) ==
  /\ k \notin cancelled
  /\ cancelled' = cancelled \cup {k}
  /\ notices' = notices \cup {k}
  /\ UNCHANGED <<watchdog, active, pending>> /\ Local

NotifyCancellation(k) ==
  /\ k \in notices /\ (Ready => Free)
  /\ notices' = notices \ {k}
  /\ NotifyAll
  /\ UNCHANGED <<active, cancelled, pending>> /\ Local

----------------------------------------------------------------------------
(* The watchdog. *)

Wake ==
  /\ watchdog = "timed"
  /\ watchdog' = "awake"
  /\ UNCHANGED <<active, cancelled, notices, pending>> /\ Local

Target(t) ==
  Recorded(t) /\ (active[t].due \/ (~active[t].expired /\ Cancelled(t)))
\* mutant: only a deadline marks the record
ScanUnmarked ==
  /\ watchdog = "awake"
  /\ active' = [t \in Threads |-> IF Target(t)
                  THEN [active[t] EXCEPT !.expired = @ \/ active[t].due, !.due = FALSE] ELSE active[t]]
  /\ pending' = [t \in Threads |-> pending[t] \/ Target(t)]
  /\ watchdog' = "scanned"
  /\ UNCHANGED <<cancelled, notices>> /\ Local
Scan ==
  /\ watchdog = "awake"
  /\ active' = [t \in Threads |-> IF Target(t)
                  THEN [active[t] EXCEPT !.expired = TRUE, !.due = FALSE] ELSE active[t]]
  /\ pending' = [t \in Threads |-> pending[t] \/ Target(t)]
  /\ watchdog' = "scanned"
  /\ UNCHANGED <<cancelled, notices>> /\ Local

\* mutant: the wait has no limit
SleepUnlimited ==
  /\ watchdog = "scanned"
  /\ watchdog' = "idle"
  /\ UNCHANGED <<active, cancelled, notices, pending>> /\ Local
\* The wait releases the mutex; its limit is the earliest next_signal.
Sleep ==
  /\ watchdog = "scanned"
  /\ watchdog' = IF \E t \in Threads : Recorded(t) THEN "timed" ELSE "idle"
  /\ UNCHANGED <<active, cancelled, notices, pending>> /\ Local

\* A deadline, or the interval between two signals, passes.
Elapse(t) ==
  /\ Recorded(t) /\ ~active[t].due
  /\ active' = [active EXCEPT ![t].due = TRUE]
  /\ UNCHANGED <<watchdog, cancelled, notices, pending>> /\ Local

----------------------------------------------------------------------------
Init ==
  /\ watchdog = "unset"
  /\ active = [t \in Threads |-> NoRecord]
  /\ cancelled = {} /\ notices = {}
  /\ place = [t \in Threads |-> "outside"]
  /\ goal = [t \in Threads |-> "work"]
  /\ guards = [t \in Threads |-> 0] /\ leaks = [t \in Threads |-> 0]
  /\ scope = [t \in Threads |-> NoToken]
  /\ own \in {m \in [Threads -> BOOLEAN] : \A t \in Threads : m[t] \in Masks[t]}
  /\ blocked = own /\ saved = [t \in Threads |-> FALSE]
  /\ pending = [t \in Threads |-> FALSE] /\ cut = [t \in Threads |-> FALSE]

\* What a thread does by itself once it has begun a guard.
Run(t) ==
  \/ place[t] # "outside" /\ Begin(t)
  \/ StartRuntime(t) \/ Refuse(t) \/ Insert(t) \/ Announce(t)
  \/ Update(t) \/ Read(t) \/ Leave(t) \/ Finish(t) \/ Restore(t)
Other(t) ==
  \/ place[t] = "outside" /\ Begin(t)
  \/ Answer(t) \/ Forget(t) \/ Exit(t) \/ Spawn(t) \/ OpenScope(t) \/ CloseScope(t)

Next ==
  \/ \E t \in Threads : Run(t) \/ Other(t) \/ Deliver(t) \/ Elapse(t)
  \/ \E k \in Tokens : Cancel(k) \/ NotifyCancellation(k)
  \/ Wake \/ Scan \/ Sleep

Spec == Init /\ [][Next]_vars

\* Threads run, and get the mutex in the end; the kernel delivers what it may;
\* a wait ends when its time has passed, and the interval between signals does
\* pass.  Nothing is assumed of answers and of deadlines.
Watch == Scan \/ Sleep \/ (Wake /\ \E t \in Threads : active[t].due)
FairSpec ==
  /\ Spec
  /\ WF_vars(Watch)
  /\ \A t \in Threads : SF_vars(Run(t)) /\ WF_vars(Deliver(t))
                        /\ WF_vars(active[t].expired /\ Elapse(t))
  /\ \A k \in Tokens : WF_vars(NotifyCancellation(k))

----------------------------------------------------------------------------
(* What the module is for. *)

TypeOK ==
  /\ watchdog \in Watching
  /\ active \in [Threads -> Record]
  /\ \A t \in Threads : active[t].depth <= Depth[t]
  /\ cancelled \in SUBSET Tokens /\ notices \in SUBSET Tokens
  /\ place \in [Threads -> Places] /\ goal \in [Threads -> Goals]
  /\ guards \in [Threads -> Nat] /\ leaks \in [Threads -> Nat]
  /\ scope \in [Threads -> Tokens \cup {NoToken}]
  /\ blocked \in [Threads -> BOOLEAN] /\ saved \in [Threads -> BOOLEAN]
  /\ own \in [Threads -> BOOLEAN]
  /\ pending \in [Threads -> BOOLEAN] /\ cut \in [Threads -> BOOLEAN]

\* No signal waits for a thread that is in none of its guards: a write or a
\* rename that follows a guarded call is never interrupted.  (A forgotten guard
\* keeps its thread exposed until the thread ends.)
SignalsConfined ==
  \A t \in Threads : pending[t] => Recorded(t) /\ (place[t] = "outside" => leaks[t] > 0)

\* A thread that has ended is no target, so the next one of its name is none
\* before it begins a guard of its own.
NoDeadTarget == \A t \in Threads : place[t] = "gone" => ~Recorded(t) /\ ~pending[t]

\* Whatever guards nested, failed or were cancelled, a thread that has left
\* them has the signal mask it came with.
MaskRestored ==
  \A t \in Threads : place[t] = "outside" /\ leaks[t] = 0 => blocked[t] = own[t]

\* A call that was interrupted never passes for one that succeeded: the next
\* progress() of its guard fails, even if the call's result looks complete.
InterruptedIsExpired ==
  \A t \in Threads : cut[t] => place[t] = "checking" /\ active[t].expired

\* A thread in a guard that was cancelled or is overdue leaves all its guards,
\* even if the call it is in, or enters next, is never answered.
ScopeEnds ==
  \A t \in Threads :
    guards[t] > 0 /\ (Cancelled(t) \/ active[t].due) ~> guards[t] = 0
=============================================================================
