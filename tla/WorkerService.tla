---------------------------- MODULE WorkerService ----------------------------
(***************************************************************************)
(* The resident worker of native/src/service.rs and everything that talks  *)
(* to it through files: the runtime lock, the wake FIFO, control.json and  *)
(* runtime.json of control.rs and setup.rs, the launchd job of             *)
(* lifecycle.rs, the commands of the menu and the command line, and a      *)
(* second worker that somebody runs in a terminal.                         *)
(*                                                                         *)
(* A step is one access to something another process sees.  The queue is   *)
(* a single flag: whether there is work to do.                             *)
(***************************************************************************)
EXTENDS Naturals

CONSTANTS
  Configs,      \* contents the configuration file may have
  MaxOutside    \* how many things happen from outside, of whatever kind

Procs == {"job", "term"}   \* the worker launchd runs, one run in a terminal

ASSUME OutsideAssumption == MaxOutside \in Nat

VARIABLES
  disk,      \* the configuration file
  control,   \* control.json: "none" (no such file), "paused" or "active"
  ready,     \* runtime.json: who wrote it, from what, and whether it is alive
  todo,      \* the queue holds work
  rlock,     \* holder of the runtime lock
  olock,     \* holder of the lifecycle operation lock
  fifo,      \* the wake FIFO holds a byte
  job,       \* launchd's registration: "absent", "loaded" or "leaving"
  proc,      \* the worker processes
  notify,    \* a source callback has queued work and not yet woken the worker
  user,      \* what remains of the user's command
  wish,      \* history: whether the user last asked for a pause
  left       \* how many things may still happen from outside

shared == <<disk, control, todo, olock, job>>
worker == <<ready, rlock, fifo, proc, notify>>
people == <<user, wish>>
vars == <<shared, worker, people, left>>

Stages == {"none", "lock", "open", "publish", "top", "cleared", "work", "wait", "close"}
\* stop: STOP is set; raising: the handler has yet to write to the FIFO.
Process == [at: Stages, cfg: Configs \cup {"none"}, stop: BOOLEAN, raising: BOOLEAN]
NoProcess == [at |-> "none", cfg |-> "none", stop |-> FALSE, raising |-> FALSE]
NotReady == [by |-> "none", cfg |-> "none", live |-> FALSE]

Spend == left > 0 /\ left' = left - 1
Go(p, stage) == proc' = [proc EXCEPT ![p].at = stage]

\* The FIFO has a reader from Wakeup::new to the end of the process.
Reader == rlock \in Procs /\ proc[rlock].at # "open"
\* mutant: only a worker that sleeps already is woken
WakeSleeper == fifo' = (fifo \/ (Reader /\ proc[rlock].at = "wait"))
\* signal_wakeup, Wakeup::set.
Wake == fifo' = (fifo \/ Reader)

----------------------------------------------------------------------------
(* Beginning and end of a worker process. *)

Gone(p) ==
  /\ proc' = [proc EXCEPT ![p] = NoProcess]
  /\ rlock' = IF rlock = p THEN "free" ELSE rlock
  /\ fifo' = (fifo /\ rlock # p)
  /\ notify' = (notify /\ rlock # p)
Dies(p) == Gone(p) /\ ready' = [ready EXCEPT !.live = @ /\ ready.by # p]

\* A signal ends the process until StopSignals::install has run.
Signalled(p) ==
  \/ proc[p].at = "none" /\ UNCHANGED worker
  \/ proc[p].at \in {"lock", "open"} /\ Dies(p)
  \/ /\ proc[p].at \notin {"none", "lock", "open"}
     /\ proc' = [proc EXCEPT ![p].stop = TRUE, ![p].raising = TRUE]
     /\ UNCHANGED <<ready, rlock, fifo, notify>>

\* launchctl bootout: the registration goes when its process is gone.
Bootout ==
  \/ job = "loaded" /\ job' = "leaving" /\ Signalled("job")
  \/ job # "loaded" /\ UNCHANGED <<job, worker>>
\* launchctl bootstrap, or kickstart of what is registered already.
Bootstrap == job' = IF job = "absent" THEN "loaded" ELSE job

Begin(p) ==
  /\ proc[p].at = "none"
  /\ proc' = [proc EXCEPT ![p] = [NoProcess EXCEPT !.at = "lock", !.cfg = disk]]
  /\ UNCHANGED <<ready, rlock, fifo, notify, shared, people>>

\* KeepAlive.
Spawn == job = "loaded" /\ Begin("job") /\ UNCHANGED left
Removed ==
  /\ job = "leaving" /\ proc["job"].at = "none"
  /\ job' = "absent"
  /\ UNCHANGED <<disk, control, todo, olock, worker, people, left>>

----------------------------------------------------------------------------
(* watch_with_menu. *)

Own(p) == UNCHANGED <<shared, people, left>>

Acquire(p) ==
  /\ proc[p].at = "lock" /\ rlock = "free"
  /\ rlock' = p /\ Go(p, "open")
  /\ UNCHANGED <<ready, fifo, notify>> /\ Own(p)

\* The lock is not waited for: the process ends with an error.
Refused(p) == proc[p].at = "lock" /\ rlock # "free" /\ Dies(p) /\ Own(p)

Open(p) ==
  /\ proc[p].at = "open" /\ Go(p, "publish")
  /\ UNCHANGED <<ready, rlock, fifo, notify>> /\ Own(p)

Publish(p) ==
  /\ proc[p].at = "publish" /\ Go(p, "top")
  /\ ready' = [by |-> p, cfg |-> proc[p].cfg, live |-> TRUE]
  /\ UNCHANGED <<rlock, fifo, notify>> /\ Own(p)

Top(p) ==
  /\ proc[p].at = "top"
  /\ \/ proc[p].stop /\ Go(p, "close") /\ UNCHANGED fifo
     \/ ~proc[p].stop /\ Go(p, "cleared") /\ fifo' = FALSE
  /\ UNCHANGED <<ready, rlock, notify>> /\ Own(p)

Paused == control = "paused"
Read(p) ==
  /\ proc[p].at = "cleared"
  /\ Go(p, IF proc[p].stop THEN "close" ELSE IF Paused THEN "wait" ELSE "work")
  /\ UNCHANGED <<ready, rlock, fifo, notify>> /\ Own(p)

\* Index::work: one round of work, or none and to sleep.
Work(p) ==
  /\ proc[p].at = "work"
  /\ Go(p, IF todo THEN "top" ELSE "wait")
  /\ todo' = FALSE
  /\ UNCHANGED <<disk, control, olock, job, ready, rlock, fifo, notify, people, left>>

Woken(p) ==
  /\ proc[p].at = "wait" /\ fifo /\ Go(p, "top")
  /\ UNCHANGED <<ready, rlock, fifo, notify>> /\ Own(p)

\* The callbacks drain, the acknowledgement and the FIFO go, then the lock.
Close(p) ==
  /\ proc[p].at = "close" /\ ~notify
  /\ Gone(p) /\ ready' = IF ready.by = p THEN NotReady ELSE ready
  /\ Own(p)

\* stop_signal writes to the FIFO after it has set the flag.
Handler(p) ==
  /\ proc[p].raising
  /\ proc' = [proc EXCEPT ![p].raising = FALSE] /\ Wake
  /\ UNCHANGED <<ready, rlock, notify>> /\ Own(p)

Step(p) ==
  \/ Acquire(p) \/ Refused(p) \/ Open(p) \/ Publish(p) \/ Top(p) \/ Read(p)
  \/ Work(p) \/ Woken(p) \/ Close(p) \/ Handler(p)

\* A source callback commits work to the queue and then wakes the worker.
Event ==
  /\ Spend /\ ~notify
  /\ \E p \in Procs : proc[p].at \in {"publish", "top", "cleared", "work", "wait"}
  /\ todo' = TRUE /\ notify' = TRUE
  /\ UNCHANGED <<disk, control, olock, job, ready, rlock, fifo, proc, people>>
\* mutant: the callback leaves the worker asleep
NotifiedSilently ==
  /\ notify /\ notify' = FALSE
  /\ UNCHANGED <<shared, ready, rlock, fifo, proc, people, left>>
Notified ==
  /\ notify /\ notify' = FALSE /\ Wake
  /\ UNCHANGED <<shared, ready, rlock, proc, people, left>>

\* A fatal error leaves the loop the orderly way.
Fails(p) ==
  /\ proc[p].at \in {"publish", "cleared", "work"} /\ Spend
  /\ Go(p, "close")
  /\ UNCHANGED <<shared, ready, rlock, fifo, notify, people>>
Crash(p) ==
  /\ proc[p].at # "none" /\ Spend
  /\ Dies(p) /\ UNCHANGED <<shared, people>>

----------------------------------------------------------------------------
(* Commands, other programs. *)

\* mutant: pause and resume do not take the lifecycle lock
SetPausedAnytime(b) ==
  /\ user = "idle" /\ Spend
  /\ user' = "signal"
  /\ control' = IF b THEN "paused" ELSE "active"
  /\ wish' = b
  /\ UNCHANGED <<disk, todo, olock, job, worker>>
\* pause, resume: the lifecycle lock is held over the file and the signal.
SetPaused(b) ==
  /\ olock = "free" /\ Spend
  /\ olock' = "user" /\ user' = "signal"
  /\ control' = IF b THEN "paused" ELSE "active"
  /\ wish' = b
  /\ UNCHANGED <<disk, todo, job, worker>>
SignalPaused ==
  /\ user = "signal" /\ Wake
  /\ user' = "idle" /\ olock' = "free"
  /\ UNCHANGED <<disk, control, todo, job, ready, rlock, proc, notify, wish, left>>

\* stop, restart: wait for the registration to go, for a time.
Stop(then) ==
  /\ olock = "free" /\ Spend
  /\ olock' = "user" /\ user' = then /\ Bootout
  /\ UNCHANGED <<disk, control, todo, wish>>
Stopped ==
  /\ user \in {"stop", "restart"}
  /\ user' = "idle" /\ olock' = "free"
  /\ IF user = "restart" /\ job = "absent" THEN Bootstrap ELSE UNCHANGED job
  /\ UNCHANGED <<disk, control, todo, worker, wish, left>>
Start ==
  /\ olock = "free" /\ Spend /\ Bootstrap
  /\ UNCHANGED <<disk, control, todo, olock, worker, people>>

\* watch in a terminal, and its end.
Watch == Spend /\ Begin("term")
Interrupt == proc["term"].at # "none" /\ ~proc["term"].stop
             /\ Signalled("term") /\ UNCHANGED <<shared, people, left>>

\* running(), and commands that need the worker stopped: they hold its lock.
Probe ==
  /\ rlock = "free" /\ Spend /\ rlock' = "probe"
  /\ UNCHANGED <<shared, ready, fifo, proc, notify, people>>
Probed ==
  /\ rlock = "probe" /\ rlock' = "free"
  /\ UNCHANGED <<shared, ready, fifo, proc, notify, people, left>>

\* Another program writes the configuration file.
Edit(c) ==
  /\ Spend /\ disk' = c /\ c # disk
  /\ UNCHANGED <<control, todo, olock, job, worker, people>>

----------------------------------------------------------------------------
ServiceInit ==
  /\ disk \in Configs /\ control \in {"none", "paused"}
  /\ ready = NotReady /\ todo = TRUE /\ rlock = "free" /\ olock = "free"
  /\ fifo = FALSE /\ job \in {"absent", "loaded"}
  /\ proc = [p \in Procs |-> NoProcess] /\ notify = FALSE
  /\ user = "idle" /\ wish = (control = "paused") /\ left = MaxOutside

Launchd == Spawn \/ Removed
Commands == \/ \E b \in BOOLEAN : SetPaused(b)
            \/ \E then \in {"stop", "restart"} : Stop(then)
            \/ Start \/ SignalPaused \/ Stopped
Others == \/ Watch \/ Interrupt \/ Probe \/ Probed \/ Event \/ Notified
          \/ \E c \in Configs : Edit(c)
          \/ \E p \in Procs : Fails(p) \/ Crash(p)

ServiceNext == Launchd \/ (\E p \in Procs : Step(p)) \/ Commands \/ Others

ServiceTyped ==
  /\ disk \in Configs /\ control \in {"none", "paused", "active"}
  /\ ready \in [by: Procs \cup {"none"}, cfg: Configs \cup {"none"}, live: BOOLEAN]
  /\ rlock \in Procs \cup {"free", "probe", "saver"} /\ olock \in {"free", "user", "saver"}
  /\ job \in {"absent", "loaded", "leaving"}
  /\ proc \in [Procs -> Process] /\ user \in {"idle", "signal", "stop", "restart"}
  /\ {todo, fifo, notify, wish} \subseteq BOOLEAN /\ left \in 0..MaxOutside
=============================================================================
