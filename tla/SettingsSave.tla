---------------------------- MODULE SettingsSave ----------------------------
(***************************************************************************)
(* The settings transaction of native/src/setup.rs over the worker         *)
(* service: stop the worker, write the new configuration while nothing     *)
(* runs, start a replacement that is paused, wait until it acknowledges    *)
(* exactly this configuration, resume; or put everything back.             *)
(***************************************************************************)
EXTENDS WorkerService

CONSTANTS
  MaxPolls,   \* attempts of wait_ready
  MaxSaves

ASSUME SaveAssumption == {MaxPolls, MaxSaves} \subseteq Nat

VARIABLES
  disabled,  \* the login preference of the job
  at,        \* where save_with is
  save,      \* its locals
  edited,    \* history: when another program last wrote the file
  torn,      \* history: a save was killed, or could not put things back
  saves      \* saves begun

transaction == <<disabled, at, save, edited, torn, saves>>
allVars == <<vars, transaction>>

Locals == [old: Configs, new: Configs, run: BOOLEAN, pause: BOOLEAN,
           was: {"none", "paused", "active"}, job: {"absent", "loaded", "leaving"},
           off: BOOLEAN,      \* the login preference found
           changed: BOOLEAN, undo: BOOLEAN, removing: BOOLEAN,
           then: {"lock", "restart", "login"},   \* after the job is gone
           relogin: BOOLEAN,  \* start_with: disable the job again
           failed: BOOLEAN,   \* start_with: launchctl refused to start it
           polls: 0..MaxPolls]

StagedAt == {"write", "unlink", "enable", "boot", "relogin", "ready", "probe", "resume"}
Fallible == {"stop", "drain", "lock", "check", "pause", "restore", "control", "restart", "login"}
            \cup (StagedAt \ {"ready", "probe"})
Places == {"idle", "signal", "commit", "settle"} \cup Fallible \cup StagedAt

Jump(place) == at' = place
Leave == UNCHANGED <<disabled, save, edited, torn, saves>>
Holding == rlock = "saver"
Release == rlock' = IF Holding THEN "free" ELSE rlock
Unready == ready' = NotReady

----------------------------------------------------------------------------
(* The transaction ends. *)

End == Jump("idle") /\ olock' = "free"

\* Errors go back: before anything was changed only the job is restarted.
Rollback(then) ==
  IF save.undo
  THEN \* restoring failed as well
       /\ End /\ Release /\ torn' = TRUE /\ UNCHANGED save
  ELSE /\ Jump(IF save.changed THEN "stop" ELSE "settle")
       /\ save' = [save EXCEPT !.undo = TRUE, !.then = then, !.failed = FALSE]
       /\ UNCHANGED <<olock, rlock, torn>>
Fail == Rollback("lock") /\ UNCHANGED <<disk, control, todo, job, ready, fifo, proc, notify,
                                        people, disabled, edited>>

Fault ==
  /\ at \in Fallible /\ Spend
  /\ Fail /\ UNCHANGED saves

\* The process that saves is killed.
Halt ==
  /\ at # "idle" /\ Spend
  /\ End /\ Release /\ torn' = TRUE
  /\ UNCHANGED <<disk, control, todo, job, ready, fifo, proc, notify, people,
                 disabled, save, edited, saves>>

----------------------------------------------------------------------------
(* save_with. *)

BeginSave(new, start) ==
  /\ at = "idle" /\ olock = "free" /\ saves < MaxSaves
  /\ saves' = saves + 1
  /\ olock' = "saver" /\ Jump("stop")
  /\ save' = [old |-> disk, new |-> new, run |-> start \/ job # "absent",
              pause |-> ~start /\ Paused, was |-> control, job |-> job, off |-> disabled,
              changed |-> FALSE, undo |-> FALSE, removing |-> FALSE, then |-> "lock",
              relogin |-> FALSE, failed |-> FALSE, polls |-> 0]
  \* what was too late for the save before is in time for this one
  /\ edited' = IF edited = "late" THEN "early" ELSE edited
  /\ UNCHANGED <<disk, control, todo, job, worker, people, left, disabled, torn>>

\* host_stop.
StopWorker ==
  /\ at = "stop" /\ Bootout
  /\ save' = [save EXCEPT !.removing = TRUE]
  /\ Jump("drain")
  /\ UNCHANGED <<disk, control, todo, olock, people, left, disabled, edited, torn, saves>>

\* wait_for_job_absence.
Drain ==
  /\ at = "drain" /\ job = "absent"
  /\ save' = [save EXCEPT !.removing = FALSE]
  /\ Jump(save.then)
  /\ UNCHANGED <<vars, disabled, edited, torn, saves>>
DrainTimeout == at = "drain" /\ job # "absent" /\ Fail /\ UNCHANGED <<left, saves>>

\* RuntimeLock::acquire with a deadline; the rollback may hold it already.
Lock ==
  /\ at = "lock" /\ rlock \in {"free", "saver"}
  /\ rlock' = "saver" /\ Jump(IF save.undo THEN "restore" ELSE "check")
  /\ Leave /\ UNCHANGED <<shared, ready, fifo, proc, notify, people, left>>
LockTimeout == at = "lock" /\ rlock \notin {"free", "saver"} /\ Fail /\ UNCHANGED <<left, saves>>

\* mutant: the revision is not compared again
CheckNothing ==
  /\ at = "check"
  /\ save' = [save EXCEPT !.changed = TRUE]
  /\ Jump("pause")
  /\ UNCHANGED <<vars, disabled, edited, torn, saves>>
\* The second revision check; the backups are written.
Check ==
  /\ at = "check" /\ disk = save.old
  /\ save' = [save EXCEPT !.changed = TRUE]
  /\ Jump("pause")
  /\ UNCHANGED <<vars, disabled, edited, torn, saves>>
CheckFails == at = "check" /\ disk # save.old /\ Fail /\ UNCHANGED <<left, saves>>

\* mutant: the replacement is not staged paused
StageRunning ==
  /\ at = "pause" /\ Jump("write")
  /\ Leave /\ UNCHANGED <<shared, worker, people, left>>
Stage ==
  /\ at = "pause" /\ Jump("write")
  /\ control' = IF save.run THEN "paused" ELSE control
  /\ Leave /\ UNCHANGED <<disk, todo, olock, job, worker, people, left>>

Write ==
  /\ at = "write" /\ Jump("unlink")
  /\ disk' = save.new
  /\ Leave /\ UNCHANGED <<control, todo, olock, job, worker, people, left>>

Unlink ==
  /\ at = "unlink" /\ Jump(IF save.run THEN "enable" ELSE "commit")
  /\ Unready /\ Release
  /\ Leave /\ UNCHANGED <<shared, fifo, proc, notify, people, left>>

\* start_with: the login preference is lifted for as long as it takes.
Enable ==
  /\ at = "enable" /\ Jump("boot")
  /\ disabled' = FALSE
  /\ save' = [save EXCEPT !.relogin = disabled]
  /\ UNCHANGED <<vars, edited, torn, saves>>
Boot ==
  /\ at = "boot" /\ Jump("relogin")
  /\ Bootstrap
  /\ Leave /\ UNCHANGED <<disk, control, todo, olock, worker, people, left>>
BootFails ==
  /\ at = "boot" /\ Spend /\ Jump("relogin")
  /\ save' = [save EXCEPT !.failed = TRUE]
  /\ UNCHANGED <<shared, worker, people, disabled, edited, torn, saves>>
Relogin ==
  /\ at = "relogin"
  /\ disabled' = save.relogin
  /\ IF save.failed
     THEN Rollback("lock")
     ELSE Jump(IF save.undo THEN "login" ELSE "ready") /\ UNCHANGED <<olock, rlock, torn, save>>
  /\ UNCHANGED <<disk, control, todo, job, ready, fifo, proc, notify, people, left, edited, saves>>

\* wait_ready: running() takes the worker's lock for a moment when it is free.
Acknowledged == rlock # "free" /\ ready.live /\ ready.cfg = save.new
\* mutant: attempts are not counted
PollUncounted ==
  /\ at = "ready"
  /\ \/ rlock = "free" /\ rlock' = "saver" /\ Jump("probe")
     \/ rlock # "free" /\ Jump(IF Acknowledged THEN "resume" ELSE "ready") /\ UNCHANGED rlock
  /\ Leave /\ UNCHANGED <<shared, ready, fifo, proc, notify, people, left>>
Poll ==
  /\ at = "ready" /\ save.polls < MaxPolls
  /\ save' = [save EXCEPT !.polls = @ + 1]
  /\ \/ rlock = "free" /\ rlock' = "saver" /\ Jump("probe")
     \/ rlock # "free" /\ Jump(IF Acknowledged THEN "resume" ELSE "ready") /\ UNCHANGED rlock
  /\ UNCHANGED <<shared, ready, fifo, proc, notify, people, left, disabled, edited, torn, saves>>
EndProbe ==
  /\ at = "probe" /\ rlock' = "free" /\ Jump("ready")
  /\ Leave /\ UNCHANGED <<shared, ready, fifo, proc, notify, people, left>>
ReadyTimeout == at = "ready" /\ save.polls = MaxPolls /\ Fail /\ UNCHANGED <<left, saves>>

Resume ==
  /\ at = "resume" /\ Jump("signal")
  /\ control' = IF save.pause THEN "paused" ELSE "active"
  /\ Leave /\ UNCHANGED <<disk, todo, olock, job, worker, people, left>>
SignalResumed ==
  /\ at = "signal" /\ Wake /\ Jump("commit")
  /\ Leave /\ UNCHANGED <<shared, ready, rlock, proc, notify, people, left>>
Commit ==
  /\ at = "commit" /\ End
  /\ wish' = IF save.run THEN save.pause ELSE wish
  /\ Leave /\ UNCHANGED <<disk, control, todo, job, worker, user, left>>

----------------------------------------------------------------------------
(* Restoring: the worker is stopped and locked out again. *)

Restore ==
  /\ at = "restore" /\ Jump("control")
  /\ disk' = save.old
  /\ Leave /\ UNCHANGED <<control, todo, olock, job, worker, people, left>>
RestoreControl ==
  /\ at = "control" /\ Jump("settle")
  /\ control' = save.was /\ Unready
  /\ Leave /\ UNCHANGED <<disk, todo, olock, job, rlock, fifo, proc, notify, people, left>>

\* mutant: a removal that timed out is not waited for
SettleNow ==
  /\ at = "settle" /\ Release /\ Jump("restart")
  /\ Leave /\ UNCHANGED <<shared, ready, fifo, proc, notify, people, left>>
\* The lock is dropped; a removal that timed out is waited for again.
Settle ==
  /\ at = "settle" /\ Release
  /\ save' = [save EXCEPT !.then = "restart"]
  /\ Jump(IF save.removing THEN "drain" ELSE "restart")
  /\ UNCHANGED <<shared, ready, fifo, proc, notify, people, left, disabled, edited, torn, saves>>

Restart ==
  /\ at = "restart"
  /\ \/ /\ save.job # "absent" \/ job = "absent"
        /\ Jump(IF save.job # "absent" /\ job = "absent" THEN "enable" ELSE "login")
        /\ UNCHANGED save
     \/ /\ save.job = "absent" /\ job # "absent"
        /\ Jump("stop") /\ save' = [save EXCEPT !.then = "login"]
  /\ UNCHANGED <<vars, disabled, edited, torn, saves>>
RestoreLogin ==
  /\ at = "login" /\ End
  /\ disabled' = save.off
  /\ UNCHANGED <<disk, control, todo, job, worker, people, left, save, edited, torn, saves>>

----------------------------------------------------------------------------
SaveInit ==
  /\ ServiceInit
  /\ disabled \in BOOLEAN /\ at = "idle"
  /\ save = [old |-> disk, new |-> disk, run |-> FALSE, pause |-> FALSE, was |-> control,
             job |-> "absent", off |-> FALSE, changed |-> FALSE, undo |-> FALSE,
             removing |-> FALSE, then |-> "lock", relogin |-> FALSE, failed |-> FALSE, polls |-> 0]
  /\ edited = "never" /\ torn = FALSE /\ saves = 0

Forward == \/ StopWorker \/ Drain \/ DrainTimeout \/ Lock \/ LockTimeout \/ Check \/ CheckFails
           \/ Stage \/ Write \/ Unlink \/ Enable \/ Boot \/ Relogin
           \/ Poll \/ EndProbe \/ ReadyTimeout \/ Resume \/ SignalResumed \/ Commit
Backward == Restore \/ RestoreControl \/ Settle \/ Restart \/ RestoreLogin
Saver == Forward \/ Backward
Mishap == Fault \/ BootFails \/ Halt

\* What others do meanwhile: a write to the file before or after the save has
\* looked at it for the last time.
Service ==
  /\ ServiceNext
  /\ edited' = IF disk' = disk THEN edited
               ELSE IF at # "idle" /\ save.changed THEN "late" ELSE "early"
  /\ UNCHANGED <<disabled, at, save, torn, saves>>

Next == Service \/ Saver \/ Mishap
        \/ \E c \in Configs, start \in BOOLEAN : BeginSave(c, start)
Spec == SaveInit /\ [][Next]_allVars

\* launchd, the worker's threads, the commands and the transaction go on by
\* themselves; the kernel delivers every signal.
Alone(A) == A /\ UNCHANGED transaction
FairSpec ==
  /\ Spec
  /\ WF_allVars(Alone(Spawn)) /\ WF_allVars(Alone(Removed))
  /\ \A p \in Procs : WF_allVars(Alone(Step(p))) /\ WF_allVars(Alone(Handler(p)))
  /\ WF_allVars(Alone(Notified)) /\ WF_allVars(Alone(Probed))
  /\ WF_allVars(Alone(SignalPaused \/ Stopped)) /\ WF_allVars(Saver)

----------------------------------------------------------------------------
(* Properties. *)

TypeOK ==
  /\ ServiceTyped /\ save \in Locals /\ at \in Places
  /\ {disabled, torn} \subseteq BOOLEAN
  /\ edited \in {"never", "early", "late"} /\ saves \in 0..MaxSaves

\* A worker never sleeps over something it was told of: when it waits on an
\* empty FIFO and nobody is about to write to it, it was not asked to stop,
\* and it has nothing to do or is paused (Wakeup::clear before every read,
\* the file before the signal).
Signalling == notify \/ user = "signal" \/ at = "signal"
NoLostWakeup ==
  \A p \in Procs :
    proc[p].at = "wait" /\ ~fifo /\ ~proc[p].raising /\ ~Signalling /\ ~torn =>
      ~proc[p].stop /\ (Paused \/ ~todo)

\* The pause the user asked for last is in force whenever no command is
\* running: the pause a save stages never replaces it, whatever fails.
WishKept == at = "idle" /\ user = "idle" /\ ~torn => (Paused <=> wish)

\* The worker that launchd runs renames only under the configuration in the
\* file, and no worker renames at all between the new configuration and its
\* acknowledgement (setup.rs, "No filename mutation can begin before the
\* replacement acknowledges the exact configuration").
Staged == at \in StagedAt /\ save.run /\ save.changed /\ ~save.undo
Renames(p) == proc[p].at = "work" /\ todo /\ ~todo'
ExactConfiguration ==
  [][\A p \in Procs : Renames(p) =>
       /\ ~Staged
       /\ p = "job" /\ edited = "never" => proc[p].cfg = disk]_allVars

\* A save that is neither killed nor reports that restoring failed leaves the
\* new state or the old one, never a mixture of configuration, pause, job and
\* login preference.
Saved ==
  /\ disk' = save.new \/ edited = "late"
  /\ save.run => job' = "loaded" /\ control' = IF save.pause THEN "paused" ELSE "active"
  /\ ~save.run => job' = "absent" /\ control' = save.was
  /\ disabled' = save.off
Restored ==
  /\ disk' = save.old \/ edited = "late" \/ ~save.changed
  /\ control' = save.was /\ disabled' = save.off
  /\ save.job # "leaving" => job' = save.job
SaveIsAtomic == [][(Commit => Saved) /\ (RestoreLogin => Restored)]_allVars

\* What another program wrote into the configuration file is overwritten only
\* if it was written after the second revision check.
Overwrites == (Write \/ Restore) /\ disk' # disk
EditKept ==
  [][Overwrites /\ edited # "late" => disk = IF save.undo THEN save.new ELSE save.old]_allVars

\* Every save ends.
SaveEnds == at # "idle" ~> at = "idle"

\* Work is done unless renaming is paused, the job was stopped or a signal was
\* lost with the process that owed it.
WorkIsDone == todo ~> ~todo \/ Paused \/ job # "loaded" \/ torn
=============================================================================
