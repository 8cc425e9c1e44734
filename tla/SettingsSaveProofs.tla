-------------------------- MODULE SettingsSaveProofs --------------------------
(***************************************************************************)
(* Proofs about SettingsSave and the worker service below it, for any      *)
(* configurations, numbers of saves and polls, and any happenings outside: *)
(* no wake-up is lost, the pause asked for is kept, nothing is renamed     *)
(* under another configuration, and a save ends with all of the new state  *)
(* or all of the old one.                                                  *)
(***************************************************************************)
EXTENDS SettingsSave, TLAPS

----------------------------------------------------------------------------
(* The inductive invariant.                                                *)

\* Who holds which lock: a worker from its lock to its end, the command or the save under
\* way the lifecycle lock, and the save the runtime lock at these places at least.
LockedAt == {"check", "pause", "write", "unlink", "restore", "control", "probe"}
Locking ==
  /\ \A p \in Procs : proc[p].at \notin {"none", "lock"} <=> rlock = p
  /\ at \in LockedAt => rlock = "saver"
  /\ rlock = "saver" => \/ at \in LockedAt \cup {"lock", "settle"}
                        \/ at \in {"stop", "drain"} /\ save.then = "lock"
  /\ olock = "saver" <=> at # "idle"
  /\ olock = "user" <=> user # "idle"
  /\ job = "absent" => proc["job"].at = "none"

\* What a worker that sleeps is still to be told is in the FIFO or on its way there.
Waking ==
  /\ notify => Reader
  /\ \A p \in Procs :
       /\ proc[p].raising => proc[p].stop
       /\ proc[p].stop => /\ proc[p].at \notin {"none", "lock", "open"}
                          /\ proc[p].raising \/ fifo
       /\ proc[p].at = "wait" /\ ~torn => fifo \/ Signalling \/ Paused \/ ~todo

\* The way through a save.  First is before the new state is there, Forth from the check on,
\* Back the restoring, After what follows it.
Forth == {"pause", "write", "unlink", "enable", "boot", "relogin", "ready", "probe", "resume",
          "signal", "commit"}
Starting == {"enable", "boot", "relogin"}
Stopping == {"stop", "drain", "lock"}
Afterwards ==
  /\ save.undo
  /\ \/ at \in {"settle", "restart", "login"} \cup Starting
     \/ at \in {"stop", "drain"} /\ save.then # "lock"
Course ==
  /\ at \in {"restore", "control", "settle", "restart", "login"} => save.undo
  /\ at \in {"check"} \cup (Forth \ Starting) => ~save.undo
  /\ (at \in Forth /\ ~save.undo) \/ at \in {"restore", "control"} => save.changed
  /\ (at \in Stopping /\ ~Afterwards) \/ at = "check" => save.changed = save.undo
  /\ (at \in Starting /\ ~save.undo) \/ at \in {"ready", "probe", "resume", "signal"} => save.run
  /\ (at # "idle" /\ ~save.undo) \/ at \in {"lock", "restore", "control"} => save.then = "lock"
  /\ at = "drain" => save.removing

\* The pause in force at each place, and the one to come back to.
Wanted == IF save.pause THEN "paused" ELSE "active"
Pausing ==
  /\ (at \in {"stop", "drain", "lock", "check", "pause"} /\ ~save.undo) \/ Afterwards =>
       control = save.was
  /\ at \in {"write", "unlink"} => control = IF save.run THEN "paused" ELSE save.was
  /\ at \in Starting \cup {"ready", "probe", "resume"} /\ ~save.undo => control = "paused"
  /\ at = "signal" => control = Wanted
  /\ at = "commit" => control = IF save.run THEN Wanted ELSE save.was
  /\ ~torn => IF at = "idle" THEN Paused <=> wish ELSE wish <=> save.was = "paused"

\* The configuration file at each place, unless it was written to too late.
Filed ==
  edited # "late" =>
    /\ at \in {"pause", "write"} => disk = save.old
    /\ at \in Forth \ {"pause", "write"} /\ ~save.undo => disk = save.new
    /\ at \in Stopping \cup {"restore"} /\ save.undo /\ ~Afterwards => disk \in {save.old, save.new}
    /\ at = "control" \/ Afterwards => disk = save.old \/ ~save.changed

\* The job at each place.
Unmoved == save.job = "leaving" \/ job = save.job
Jobbed ==
  /\ at \in {"lock", "check", "pause", "write", "unlink", "enable", "boot", "restore", "control"} =>
       job = "absent"
  /\ at = "relogin" => save.failed \/ job = "loaded"
  /\ at \in {"ready", "probe", "resume", "signal"} => job = "loaded"
  /\ at = "commit" => job = IF save.run THEN "loaded" ELSE "absent"
  /\ at = "stop" /\ ~save.undo => Unmoved
  /\ at = "settle" => save.removing \/ job = "absent" \/ Unmoved
  /\ at = "restart" => job = "absent" \/ Unmoved
  /\ at \in {"stop", "drain"} /\ save.then = "login" => save.job = "absent"
  /\ at \in Starting /\ save.undo => save.job # "absent"
  /\ at = "login" => Unmoved

\* The login preference at each place.
Preferred ==
  at # "idle" /\ ~save.undo =>
    IF at \in {"boot", "relogin"} THEN save.relogin = save.off ELSE disabled = save.off

\* What the worker runs under, and that none is at work while a save is staged.
Configured ==
  /\ edited = "never" /\ proc["job"].at # "none" => proc["job"].cfg = disk
  /\ Staged => \A p \in Procs : proc[p].at # "work"

Inv == Locking /\ Waking /\ Course /\ Pausing /\ Filed /\ Jobbed /\ Preferred /\ Configured

----------------------------------------------------------------------------
(* Types.                                                                  *)

TypedWorker ==
  /\ ready \in [by: Procs \cup {"none"}, cfg: Configs \cup {"none"}, live: BOOLEAN]
  /\ rlock \in Procs \cup {"free", "probe", "saver"}
  /\ proc \in [Procs -> Process] /\ fifo \in BOOLEAN /\ notify \in BOOLEAN
TypedShared ==
  /\ disk \in Configs /\ control \in {"none", "paused", "active"}
  /\ todo \in BOOLEAN /\ olock \in {"free", "user", "saver"}
  /\ job \in {"absent", "loaded", "leaving"}
TypedPeople ==
  user \in {"idle", "signal", "stop", "restart"} /\ wish \in BOOLEAN /\ left \in 0..MaxOutside
TypedSave ==
  /\ save \in Locals /\ at \in Places /\ disabled \in BOOLEAN /\ torn \in BOOLEAN
  /\ edited \in {"never", "early", "late"} /\ saves \in 0..MaxSaves
Typed == TypedWorker /\ TypedShared /\ TypedPeople /\ TypedSave

LEMMA TypesAre == TypeOK <=> Typed
BY DEF TypeOK, ServiceTyped, Typed, TypedWorker, TypedShared, TypedPeople, TypedSave

\* What a step does to the processes, field by field.
Processes == proc \in [Procs -> Process]
Beside(p) == \A q \in Procs \ {p} : proc'[q] = proc[q]

LEMMA Went ==
  ASSUME Processes, NEW p \in Procs, NEW stage \in Stages, Go(p, stage)
  PROVE  /\ Processes' /\ Beside(p) /\ proc'[p].at = stage
         /\ UNCHANGED <<proc[p].cfg, proc[p].stop, proc[p].raising>>
<1>1. /\ [proc[p] EXCEPT !.at = stage] \in Process
      /\ [proc[p] EXCEPT !.at = stage].at = stage
      /\ [proc[p] EXCEPT !.at = stage].cfg = proc[p].cfg
      /\ [proc[p] EXCEPT !.at = stage].stop = proc[p].stop
      /\ [proc[p] EXCEPT !.at = stage].raising = proc[p].raising
  BY DEF Process, Processes
<1>2. proc' = [proc EXCEPT ![p] = [proc[p] EXCEPT !.at = stage]]
  BY DEF Go
<1> QED BY <1>1, <1>2 DEF Processes, Beside

LEMMA Vanished ==
  ASSUME Processes, NEW p \in Procs, Gone(p)
  PROVE  /\ Processes' /\ Beside(p) /\ proc'[p] = NoProcess
         /\ proc'[p].at = "none" /\ ~proc'[p].stop /\ ~proc'[p].raising
<1>1. NoProcess \in Process /\ NoProcess.at = "none" /\ ~NoProcess.stop /\ ~NoProcess.raising
  BY DEF NoProcess, Process, Stages
<1>2. proc' = [proc EXCEPT ![p] = NoProcess]
  BY DEF Gone
<1> QED BY <1>1, <1>2 DEF Processes, Beside

LEMMA Begun ==
  ASSUME Processes, disk \in Configs, NEW p \in Procs, Begin(p)
  PROVE  /\ Processes' /\ Beside(p)
         /\ proc'[p].at = "lock" /\ proc'[p].cfg = disk /\ ~proc'[p].stop /\ ~proc'[p].raising
<1> DEFINE new == [NoProcess EXCEPT !.at = "lock", !.cfg = disk]
<1>1. new \in Process /\ new.at = "lock" /\ new.cfg = disk /\ ~new.stop /\ ~new.raising
  BY DEF NoProcess, Process, Stages
<1>2. proc' = [proc EXCEPT ![p] = new]
  BY DEF Begin
<1> HIDE DEF new
<1> QED BY <1>1, <1>2 DEF Processes, Beside

LEMMA Flagged ==
  ASSUME Processes, NEW p \in Procs, Signalled(p), proc[p].at \notin {"none", "lock", "open"}
  PROVE  /\ Processes' /\ Beside(p) /\ UNCHANGED <<proc[p].at, proc[p].cfg>>
         /\ proc'[p].stop /\ proc'[p].raising
         /\ UNCHANGED <<ready, rlock, fifo, notify>>
<1> DEFINE new == [proc[p] EXCEPT !.stop = TRUE, !.raising = TRUE]
<1>1. new \in Process /\ new.at = proc[p].at /\ new.cfg = proc[p].cfg /\ new.stop /\ new.raising
  BY DEF Process, Processes
<1>2. proc' = [proc EXCEPT ![p] = new] /\ UNCHANGED <<ready, rlock, fifo, notify>>
  BY DEF Signalled, Processes
<1> HIDE DEF new
<1> QED BY <1>1, <1>2 DEF Processes, Beside

LEMMA Handled ==
  ASSUME Processes, NEW p \in Procs, Handler(p)
  PROVE  /\ Processes' /\ Beside(p) /\ ~proc'[p].raising
         /\ UNCHANGED <<proc[p].at, proc[p].cfg, proc[p].stop>>
<1> DEFINE new == [proc[p] EXCEPT !.raising = FALSE]
<1>1. /\ new \in Process /\ new.at = proc[p].at /\ new.cfg = proc[p].cfg /\ new.stop = proc[p].stop
      /\ ~new.raising
  BY DEF Process, Processes
<1>2. proc' = [proc EXCEPT ![p] = new]
  BY DEF Handler
<1> HIDE DEF new
<1> QED BY <1>1, <1>2 DEF Processes, Beside

LEMMA DiesTypes == ASSUME TypedWorker, NEW p \in Procs, Dies(p) PROVE TypedWorker'
<1>1. Processes' /\ Gone(p)
  BY Vanished DEF Dies, TypedWorker, Processes
<1> QED BY <1>1 DEF TypedWorker, Processes, Dies, Gone

LEMMA SignalledTypes == ASSUME TypedWorker, NEW p \in Procs, Signalled(p) PROVE TypedWorker'
<1>1. CASE proc[p].at \in {"lock", "open"}
  BY <1>1, DiesTypes DEF Signalled
<1>2. CASE proc[p].at = "none"
  BY <1>2 DEF Signalled, worker, TypedWorker
<1>3. CASE proc[p].at \notin {"none", "lock", "open"}
  BY <1>3, Flagged DEF TypedWorker, Processes
<1> QED BY <1>1, <1>2, <1>3

LEMMA BootoutTypes ==
  ASSUME TypedWorker, TypedShared, Bootout
  PROVE  TypedWorker' /\ job' \in {"absent", "loaded", "leaving"}
<1>1. CASE job = "loaded"
  BY <1>1, SignalledTypes DEF Bootout, Procs
<1>2. CASE job # "loaded"
  BY <1>2 DEF Bootout, worker, TypedWorker, TypedShared
<1> QED BY <1>1, <1>2

LEMMA BeginTypes == ASSUME Typed, NEW p \in Procs, Begin(p) PROVE TypedWorker'
BY Begun DEF Typed, TypedWorker, TypedShared, Begin, Processes

LEMMA StepTypes == ASSUME Typed, NEW p \in Procs, Step(p) PROVE TypedWorker' /\ TypedShared'
<1> USE DEF Typed, Processes
<1>1. CASE Acquire(p) \/ Open(p) \/ Publish(p) \/ Top(p) \/ Read(p) \/ Woken(p) \/ Work(p)
  <2>1. \E stage \in Stages : Go(p, stage)
    BY <1>1 DEF Acquire, Open, Publish, Top, Read, Woken, Work, Stages
  <2>2. proc' \in [Procs -> Process] /\ proc[p].cfg \in Configs \cup {"none"}
    BY <2>1, Went DEF TypedWorker, Process
  <2>3. TypedShared'
    BY <1>1 DEF TypedShared, Acquire, Open, Publish, Top, Read, Woken, Work, Own, shared
  <2>4. CASE Publish(p)
    BY <2>2, <2>3, <2>4 DEF TypedWorker, Publish
  <2>5. CASE Acquire(p) \/ Open(p) \/ Top(p) \/ Read(p) \/ Woken(p) \/ Work(p)
    BY <2>2, <2>3, <2>5 DEF TypedWorker, Acquire, Open, Top, Read, Woken, Work
  <2> QED BY <1>1, <2>4, <2>5
<1>2. CASE Refused(p)
  BY <1>2, DiesTypes DEF Refused, Own, shared, TypedShared
<1>3. CASE Handler(p)
  <2>1. fifo' \in BOOLEAN
    BY <1>3 DEF Handler, Wake
  <2>2. proc' \in [Procs -> Process]
    BY <1>3, Handled DEF TypedWorker
  <2>3. UNCHANGED <<ready, rlock, notify>> /\ TypedShared'
    BY <1>3 DEF Handler, Own, shared, TypedShared
  <2> QED BY <2>1, <2>2, <2>3 DEF TypedWorker
<1>4. CASE Close(p)
  <2>1. proc' \in [Procs -> Process]
    BY <1>4, Vanished DEF Close, TypedWorker
  <2>2. ready' \in [by: Procs \cup {"none"}, cfg: Configs \cup {"none"}, live: BOOLEAN]
    BY <1>4 DEF Close, TypedWorker, NotReady
  <2> QED BY <1>4, <2>1, <2>2 DEF Close, Gone, Own, shared, TypedWorker, TypedShared
<1> QED BY <1>1, <1>2, <1>3, <1>4 DEF Step

LEMMA SpendTypes == ASSUME TypedPeople, Spend PROVE left' \in 0..MaxOutside
BY OutsideAssumption DEF TypedPeople, Spend

LEMMA ServiceTypes ==
  ASSUME Typed, ServiceNext PROVE TypedWorker' /\ TypedShared' /\ TypedPeople'
<1> USE DEF Typed
<1>1. CASE Launchd
  <2>1. CASE Spawn
    BY <2>1, BeginTypes DEF Spawn, Begin, shared, people, TypedShared, TypedPeople, Procs
  <2>2. CASE Removed
    BY <2>2 DEF Removed, worker, people, TypedWorker, TypedShared, TypedPeople
  <2> QED BY <1>1, <2>1, <2>2 DEF Launchd
<1>2. CASE \E p \in Procs : Step(p)
  <2>1. TypedWorker' /\ TypedShared'
    BY <1>2, StepTypes
  <2>2. UNCHANGED <<people, left>>
    BY <1>2 DEF Step, Acquire, Refused, Open, Publish, Top, Read, Work, Woken, Close, Handler, Own
  <2> QED BY <2>1, <2>2 DEF TypedPeople, people
<1>3. CASE Commands
  <2>1. CASE \E b \in BOOLEAN : SetPaused(b)
    BY <2>1, SpendTypes DEF SetPaused, worker, TypedWorker, TypedShared, TypedPeople
  <2>2. CASE \E then \in {"stop", "restart"} : Stop(then)
    BY <2>2, SpendTypes, BootoutTypes DEF Stop, TypedShared, TypedPeople
  <2>3. CASE Start
    BY <2>3, SpendTypes DEF Start, Bootstrap, worker, people, TypedWorker, TypedShared, TypedPeople
  <2>4. CASE SignalPaused
    BY <2>4 DEF SignalPaused, Wake, Reader, TypedWorker, TypedShared, TypedPeople
  <2>5. CASE Stopped
    BY <2>5 DEF Stopped, Bootstrap, worker, TypedWorker, TypedShared, TypedPeople
  <2> QED BY <1>3, <2>1, <2>2, <2>3, <2>4, <2>5 DEF Commands
<1>4. CASE Others
  <2>1. CASE Watch
    BY <2>1, BeginTypes, SpendTypes DEF Watch, Begin, shared, people, TypedShared, TypedPeople, Procs
  <2>2. CASE Interrupt
    BY <2>2, SignalledTypes DEF Interrupt, shared, people, TypedShared, TypedPeople, Procs
  <2>3. CASE Probe \/ Probed
    BY <2>3, SpendTypes DEF Probe, Probed, shared, people, TypedWorker, TypedShared, TypedPeople
  <2>4. CASE Event \/ Notified
    <3>1. left' \in 0..MaxOutside /\ fifo' \in BOOLEAN
      BY <2>4, SpendTypes DEF Event, Notified, Wake, TypedPeople, TypedWorker
    <3> QED BY <2>4, <3>1 DEF Event, Notified, shared, people, TypedWorker, TypedShared, TypedPeople
  <2>5. CASE \E c \in Configs : Edit(c)
    BY <2>5, SpendTypes DEF Edit, worker, people, TypedWorker, TypedShared, TypedPeople
  <2>6. CASE \E p \in Procs : Fails(p)
    BY <2>6, SpendTypes, Went DEF Fails, shared, people, TypedWorker, TypedShared, TypedPeople,
                                  Processes, Stages
  <2>7. CASE \E p \in Procs : Crash(p)
    BY <2>7, SpendTypes, DiesTypes DEF Crash, shared, people, TypedShared, TypedPeople
  <2> QED BY <1>4, <2>1, <2>2, <2>3, <2>4, <2>5, <2>6, <2>7 DEF Others
<1> QED BY <1>1, <1>2, <1>3, <1>4 DEF ServiceNext

LEMMA RollbackTypes ==
  ASSUME Typed, NEW then \in {"lock", "restart", "login"}, Rollback(then)
  PROVE  /\ save' \in Locals /\ at' \in Places /\ torn' \in BOOLEAN
         /\ rlock' \in Procs \cup {"free", "probe", "saver"} /\ olock' \in {"free", "user", "saver"}
<1>1. CASE save.undo
  BY <1>1 DEF Rollback, End, Jump, Release, Typed, TypedSave, TypedWorker, Places
<1>2. CASE ~save.undo
  <2>1. save' \in Locals
    BY <1>2 DEF Rollback, Typed, TypedSave, Locals
  <2> QED BY <1>2, <2>1 DEF Rollback, Jump, Places, Fallible, Typed, TypedSave, TypedWorker, TypedShared
<1> QED BY <1>1, <1>2

LEMMA FailTypes == ASSUME Typed, Fail, UNCHANGED saves, left' \in 0..MaxOutside PROVE Typed'
<1> USE DEF Fail
<1>1. /\ save' \in Locals /\ at' \in Places /\ torn' \in BOOLEAN
      /\ rlock' \in Procs \cup {"free", "probe", "saver"} /\ olock' \in {"free", "user", "saver"}
  BY RollbackTypes
<1>2. TypedWorker' /\ TypedShared'
  BY <1>1 DEF Typed, TypedWorker, TypedShared
<1>3. TypedPeople' /\ TypedSave'
  BY <1>1 DEF Typed, TypedPeople, TypedSave, people
<1> QED BY <1>2, <1>3 DEF Typed

\* What a step of the save does to its own variables.
LEMMA SaverTypes ==
  ASSUME Typed, Saver PROVE Typed'
<1> USE DEF Typed
<1>1. CASE DrainTimeout \/ LockTimeout \/ CheckFails \/ ReadyTimeout
  BY <1>1, FailTypes DEF DrainTimeout, LockTimeout, CheckFails, ReadyTimeout, TypedPeople
<1>2. CASE StopWorker
  <2>1. TypedSave'
    BY <1>2 DEF StopWorker, TypedSave, Locals, Jump, Places, Fallible
  <2> QED BY <1>2, <2>1, BootoutTypes DEF StopWorker, TypedShared, TypedPeople, people
<1>3. CASE Drain \/ Check \/ Enable \/ Restart
  <2>1. TypedSave'
    BY <1>3 DEF Drain, Check, Enable, Restart, TypedSave, Locals, Jump, Places, Fallible, StagedAt
  <2> QED BY <1>3, <2>1 DEF Drain, Check, Enable, Restart, vars, shared, worker, people,
                            TypedWorker, TypedShared, TypedPeople
<1>4. CASE Lock \/ Stage \/ Write \/ Unlink \/ Boot \/ EndProbe \/ Resume \/ Commit \/ Restore
           \/ RestoreControl \/ RestoreLogin
  <2>1. TypedSave'
    BY <1>4 DEF Lock, Stage, Write, Unlink, Boot, EndProbe, Resume, Commit, Restore, RestoreControl,
                RestoreLogin, TypedSave, Locals, Jump, End, Leave, Places, Fallible, StagedAt
  <2>2. TypedWorker'
    <3>1. NotReady \in [by: Procs \cup {"none"}, cfg: Configs \cup {"none"}, live: BOOLEAN]
      BY DEF NotReady
    <3>2. ready' \in {ready, NotReady} /\ rlock' \in {rlock, "saver", "free"}
          /\ UNCHANGED <<fifo, proc, notify>>
      BY <1>4 DEF Lock, Stage, Write, Unlink, Boot, EndProbe, Resume, Commit, Restore, RestoreControl,
                  RestoreLogin, Release, Unready, shared, worker
    <3> QED BY <3>1, <3>2 DEF TypedWorker
  <2>3. TypedShared'
    BY <1>4 DEF Lock, Stage, Write, Unlink, Boot, EndProbe, Resume, Commit, Restore, RestoreControl,
                RestoreLogin, TypedShared, TypedSave, Locals, Bootstrap, End, shared, worker
  <2>4. TypedPeople'
    BY <1>4 DEF Lock, Stage, Write, Unlink, Boot, EndProbe, Resume, Commit, Restore, RestoreControl,
                RestoreLogin, TypedPeople, TypedSave, Locals, people, shared
  <2> QED BY <2>1, <2>2, <2>3, <2>4
<1>5. CASE Relogin
  <2>1. /\ save' \in Locals /\ at' \in Places /\ torn' \in BOOLEAN
        /\ rlock' \in Procs \cup {"free", "probe", "saver"} /\ olock' \in {"free", "user", "saver"}
    <3>1. CASE save.failed
      BY <1>5, <3>1, RollbackTypes DEF Relogin
    <3>2. CASE ~save.failed
      BY <1>5, <3>2 DEF Relogin, Jump, Places, Fallible, StagedAt, TypedSave, TypedWorker, TypedShared
    <3> QED BY <3>1, <3>2
  <2>2. disabled' \in BOOLEAN
    BY <1>5 DEF Relogin, TypedSave, Locals
  <2>3. TypedWorker' /\ TypedShared' /\ TypedPeople'
    BY <1>5, <2>1 DEF Relogin, TypedWorker, TypedShared, TypedPeople, people
  <2>4. TypedSave'
    BY <1>5, <2>1, <2>2 DEF Relogin, TypedSave
  <2> QED BY <2>3, <2>4
<1>6. CASE Poll
  <2>1. save' \in Locals /\ at' \in Places
    BY <1>6, SaveAssumption DEF Poll, TypedSave, Locals, Jump, Places, Fallible, StagedAt
  <2> QED BY <1>6, <2>1 DEF Poll, TypedWorker, TypedShared, TypedPeople, TypedSave, shared, people
<1>7. CASE Settle
  <2>1. save' \in Locals /\ at' \in Places
    BY <1>7 DEF Settle, TypedSave, Locals, Jump, Places, Fallible
  <2> QED BY <1>7, <2>1 DEF Settle, Release, TypedWorker, TypedShared, TypedPeople, TypedSave, shared, people
<1>8. CASE SignalResumed
  <2>1. fifo' \in BOOLEAN
    BY <1>8 DEF SignalResumed, Wake
  <2> QED BY <1>8, <2>1 DEF SignalResumed, Leave, Jump, Places, TypedWorker, TypedShared, TypedPeople,
                            TypedSave, shared, people
<1> QED BY <1>1, <1>2, <1>3, <1>4, <1>5, <1>6, <1>7, <1>8 DEF Saver, Forward, Backward

LEMMA InitTypes == SaveInit => TypeOK
<1> SUFFICES ASSUME SaveInit PROVE Typed
  BY TypesAre
<1>1. TypedWorker
  <2>1. NoProcess \in Process /\ NotReady \in [by: Procs \cup {"none"}, cfg: Configs \cup {"none"}, live: BOOLEAN]
    BY DEF NoProcess, Process, Stages, NotReady
  <2> QED BY <2>1 DEF SaveInit, ServiceInit, TypedWorker
<1>2. TypedShared /\ TypedPeople
  BY OutsideAssumption DEF SaveInit, ServiceInit, TypedShared, TypedPeople
<1>3. TypedSave
  <2>1. save \in Locals
    <3>1. disk \in Configs /\ control \in {"none", "paused", "active"} /\ 0 \in 0..MaxPolls
      BY <1>2, SaveAssumption DEF TypedShared
    <3> QED BY <3>1 DEF SaveInit, Locals
  <2>2. at \in Places /\ 0 \in 0..MaxSaves /\ saves = 0
    BY SaveAssumption DEF SaveInit, Places
  <2> QED BY <2>1, <2>2 DEF SaveInit, TypedSave
<1> QED BY <1>1, <1>2, <1>3 DEF Typed

LEMMA MishapTypes == ASSUME Typed, Mishap PROVE Typed'
<1>0. left' \in 0..MaxOutside
  BY SpendTypes DEF Mishap, Fault, BootFails, Halt, Typed
<1>1. CASE Fault
  BY <1>0, <1>1, FailTypes DEF Fault
<1>2. CASE BootFails
  <2>1. save' \in Locals /\ at' \in Places
    BY <1>2 DEF BootFails, Typed, TypedSave, Locals, Jump, Places, Fallible, StagedAt
  <2> QED BY <1>0, <1>2, <2>1 DEF BootFails, Typed, TypedWorker, TypedShared, TypedPeople, TypedSave,
                                  shared, worker, people
<1>3. CASE Halt
  BY <1>0, <1>3 DEF Halt, End, Jump, Release, Places, Typed, TypedWorker, TypedShared, TypedPeople,
                    TypedSave, people
<1> QED BY <1>1, <1>2, <1>3 DEF Mishap

LEMMA BeginSaveTypes ==
  ASSUME Typed, NEW c \in Configs, NEW start \in BOOLEAN, BeginSave(c, start) PROVE Typed'
<1> USE DEF BeginSave, Typed
<1>1. save' \in Locals
  <2>1. (start \/ job # "absent") \in BOOLEAN /\ (~start /\ Paused) \in BOOLEAN
    OBVIOUS
  <2> QED BY <2>1, SaveAssumption DEF TypedShared, TypedSave, Locals
<1>2. saves' \in 0..MaxSaves
  BY SaveAssumption DEF TypedSave
<1>3. TypedSave'
  BY <1>1, <1>2 DEF TypedSave, Jump, Places, Fallible
<1> QED BY <1>3 DEF TypedWorker, TypedShared, TypedPeople, worker, people

LEMMA NextTypes == ASSUME TypeOK, [Next]_allVars PROVE TypeOK'
<1> SUFFICES ASSUME Typed PROVE Typed'
  BY TypesAre DEF TypeOK, Typed, ServiceTyped, TypedWorker, TypedShared, TypedPeople, TypedSave
<1>1. CASE Service
  <2>1. TypedSave'
    BY <1>1 DEF Service, Typed, TypedSave
  <2> QED BY <1>1, <2>1, ServiceTypes DEF Service, Typed
<1>2. CASE UNCHANGED allVars
  BY <1>2 DEF allVars, vars, shared, worker, people, transaction, Typed, TypedWorker, TypedShared,
              TypedPeople, TypedSave
<1> QED BY <1>1, <1>2, SaverTypes, MishapTypes, BeginSaveTypes DEF Next

\* Every reachable state of the service and of the save above it is well typed.
THEOREM SettingsTypeCorrect == Spec => []TypeOK
BY InitTypes, NextTypes, PTL DEF Spec

----------------------------------------------------------------------------
(* Locks and wake-ups.                                                     *)

\* What holds of a step that ends a process, whatever else it does.
LEMMA GoneLocks ==
  ASSUME Typed, Locking, Waking, NEW p \in Procs, Gone(p)
  PROVE  /\ \A q \in Procs : proc'[q].at \notin {"none", "lock"} <=> rlock' = q
         /\ rlock' = "saver" <=> rlock = "saver"
         /\ rlock' \in {rlock, "free"}
<1> USE DEF Typed, TypedWorker, Processes
<1>1. Beside(p) /\ proc'[p].at = "none"
  BY Vanished
<1>2. rlock' = IF rlock = p THEN "free" ELSE rlock
  BY DEF Gone
<1> QED BY <1>1, <1>2 DEF Locking, Beside, Procs

LEMMA GoneWakes ==
  ASSUME Typed, Locking, Waking, NEW p \in Procs, Gone(p), UNCHANGED <<control, todo, torn>>,
         user = "signal" => user' = "signal", at = "signal" => at' = "signal"
  PROVE  Waking'
<1> USE DEF Typed, TypedWorker, Processes
<1>1. Beside(p) /\ proc'[p].at = "none" /\ ~proc'[p].stop /\ ~proc'[p].raising
  BY Vanished
<1>2. /\ rlock' = IF rlock = p THEN "free" ELSE rlock
      /\ fifo' = (fifo /\ rlock # p) /\ notify' = (notify /\ rlock # p)
  BY DEF Gone
<1>3. notify' => Reader'
  BY <1>1, <1>2 DEF Waking, Reader, Beside
<1>4. ASSUME NEW q \in Procs
      PROVE  /\ proc'[q].raising => proc'[q].stop
             /\ proc'[q].stop => /\ proc'[q].at \notin {"none", "lock", "open"}
                                 /\ proc'[q].raising \/ fifo'
             /\ proc'[q].at = "wait" /\ ~torn' => fifo' \/ Signalling' \/ Paused' \/ ~todo'
  <2>1. CASE q = p
    BY <1>1, <2>1
  <2>2. CASE q # p
    <3>1. proc'[q] = proc[q]
      BY <1>1, <2>2 DEF Beside
    <3>2. rlock # p \/ proc[q].at \in {"none", "lock"}
      BY <2>2 DEF Locking
    <3> QED BY <1>2, <3>1, <3>2 DEF Waking, Signalling, Paused
  <2> QED BY <2>1, <2>2
<1> QED BY <1>3, <1>4 DEF Waking

\* A signal.
LEMMA SignalledLocks ==
  ASSUME Typed, Locking, Waking, NEW p \in Procs, Signalled(p)
  PROVE  /\ \A q \in Procs : proc'[q].at \notin {"none", "lock"} <=> rlock' = q
         /\ rlock' = "saver" <=> rlock = "saver"
         /\ \A q \in Procs : proc[q].at = "none" => proc'[q].at = "none"
<1> USE DEF Typed, TypedWorker, Processes
<1>1. CASE proc[p].at = "none"
  BY <1>1 DEF Signalled, worker, Locking
<1>2. CASE proc[p].at \in {"lock", "open"}
  BY <1>2, GoneLocks, Vanished DEF Signalled, Dies, Beside
<1>3. CASE proc[p].at \notin {"none", "lock", "open"}
  BY <1>3, Flagged DEF Locking, Beside
<1> QED BY <1>1, <1>2, <1>3

LEMMA SignalledWakes ==
  ASSUME Typed, Locking, Waking, NEW p \in Procs, Signalled(p),
         UNCHANGED <<control, todo, torn>>,
         user = "signal" => user' = "signal", at = "signal" => at' = "signal"
  PROVE  Waking'
<1> USE DEF Typed, TypedWorker, Processes
<1>1. CASE proc[p].at = "none"
  BY <1>1 DEF Signalled, worker, Waking, Signalling, Reader, Paused
<1>2. CASE proc[p].at \in {"lock", "open"}
  <2>1. /\ Gone(p) /\ Beside(p)
        /\ proc'[p].at = "none" /\ ~proc'[p].stop /\ ~proc'[p].raising
    BY <1>2, Vanished DEF Signalled, Dies
  <2>2. /\ rlock' = IF rlock = p THEN "free" ELSE rlock
        /\ fifo' = (fifo /\ rlock # p) /\ notify' = (notify /\ rlock # p)
    BY <2>1 DEF Gone
  <2>3. notify' => Reader'
    BY <2>1, <2>2 DEF Waking, Reader, Beside
  <2>4. ASSUME NEW q \in Procs \ {p}
        PROVE  proc'[q] = proc[q] /\ (rlock # p \/ proc[q].at \in {"none", "lock"})
    BY <2>1 DEF Beside, Locking
  <2> QED BY <2>1, <2>2, <2>3, <2>4 DEF Waking, Signalling, Paused
<1>3. CASE proc[p].at \notin {"none", "lock", "open"}
  BY <1>3, Flagged DEF Waking, Signalling, Reader, Beside, Paused
<1> QED BY <1>1, <1>2, <1>3

LEMMA SignalledRuns ==
  ASSUME Typed, NEW p \in Procs, Signalled(p), NEW q \in Procs
  PROVE  proc'[q].at = "none" \/ UNCHANGED <<proc[q].at, proc[q].cfg>>
<1> USE DEF Typed, TypedWorker, Processes
<1>1. CASE proc[p].at = "none"
  BY <1>1 DEF Signalled, worker
<1>2. CASE proc[p].at \in {"lock", "open"}
  BY <1>2, Vanished DEF Signalled, Dies, Beside
<1>3. CASE proc[p].at \notin {"none", "lock", "open"}
  BY <1>3, Flagged DEF Beside
<1> QED BY <1>1, <1>2, <1>3

LEMMA BegunLocks ==
  ASSUME Typed, Locking, Waking, NEW p \in Procs, Begin(p), UNCHANGED <<at, save, torn>>,
         p = "job" => job # "absent"
  PROVE  Locking' /\ Waking'
<1>1. /\ Beside(p) /\ proc'[p].at = "lock" /\ ~proc'[p].stop /\ ~proc'[p].raising
      /\ proc[p].at = "none"
      /\ UNCHANGED <<rlock, fifo, notify, olock, job, control, todo, user>>
  BY Begun DEF Begin, Typed, TypedWorker, TypedShared, Processes, shared, people
<1>2. Locking'
  BY <1>1 DEF Locking, Beside, Procs
<1>3. Waking'
  <2>1. notify' => Reader'
    BY <1>1 DEF Waking, Reader, Beside, Locking
  <2> QED BY <1>1, <2>1 DEF Waking, Signalling, Paused, Beside
<1> QED BY <1>2, <1>3

LEMMA StepLocks ==
  ASSUME Typed, Locking, Waking, NEW p \in Procs, Step(p), UNCHANGED <<at, save, torn>>
  PROVE  Locking' /\ Waking'
<1> USE DEF Typed, TypedWorker, TypedShared, Processes
<1>0. UNCHANGED <<control, olock, job, user>> /\ (~Work(p) => todo' = todo)
  BY DEF Step, Acquire, Refused, Open, Publish, Top, Read, Work, Woken, Close, Handler, Own, shared,
         people
<1>1. CASE Acquire(p)
  <2>1. /\ Beside(p) /\ proc'[p].at = "open" /\ proc[p].at = "lock" /\ rlock = "free" /\ rlock' = p
        /\ UNCHANGED <<proc[p].stop, proc[p].raising, fifo, notify>>
    BY <1>1, Went DEF Acquire, Stages
  <2>2. Locking'
    BY <1>0, <2>1 DEF Locking, Beside, Procs
  <2> QED BY <1>0, <1>1, <2>1, <2>2 DEF Acquire, Work, Waking, Reader, Signalling, Paused, Beside, Procs
<1>2. CASE Refused(p) \/ Close(p)
  <2>1. Gone(p) /\ ~Work(p) /\ todo' = todo
    BY <1>0, <1>2 DEF Refused, Close, Dies, Work
  <2>2. proc'[p].at = "none" /\ Beside(p)
    BY <2>1, Vanished
  <2> QED BY <1>0, <2>1, <2>2, GoneLocks, GoneWakes DEF Locking, Beside, Procs
<1>3. CASE Open(p) \/ Publish(p) \/ Top(p) \/ Read(p) \/ Woken(p) \/ Work(p)
  <2>1. PICK stage \in Stages \ {"none", "lock", "open"} : Go(p, stage)
    BY <1>3 DEF Open, Publish, Top, Read, Woken, Work, Stages
  <2>2. /\ Beside(p) /\ proc'[p].at = stage /\ UNCHANGED <<proc[p].stop, proc[p].raising, rlock, notify>>
        /\ proc[p].at \notin {"none", "lock"} /\ rlock = p
    BY <1>3, <2>1, Went DEF Open, Publish, Top, Read, Woken, Work, Stages, Locking
  <2>3. Locking'
    BY <1>0, <2>2 DEF Locking, Beside, Procs
  <2>4. fifo' = fifo \/ ~proc[p].stop
    BY <1>3 DEF Open, Publish, Top, Read, Woken, Work
  <2>5. proc'[p].at = "wait" => Paused' \/ ~todo'
    <3>1. CASE Read(p)
      <4>1. ASSUME ~Paused PROVE proc'[p].at # "wait"
        <5>1. Go(p, IF proc[p].stop THEN "close" ELSE "work")
          BY <3>1, <4>1 DEF Read
        <5> QED BY <5>1, Went DEF Stages
      <4> QED BY <1>0, <4>1 DEF Paused
    <3>2. CASE Work(p)
      BY <3>2 DEF Work
    <3>3. CASE Open(p) \/ Publish(p) \/ Top(p) \/ Woken(p)
      BY <3>3, Went DEF Open, Publish, Top, Woken, Stages
    <3> QED BY <1>3, <3>1, <3>2, <3>3
  <2>6. \A q \in Procs \ {p} : proc'[q] = proc[q] /\ proc[q].at \in {"none", "lock"}
    BY <2>2 DEF Beside, Locking
  <2> QED BY <2>2, <2>3, <2>4, <2>5, <2>6 DEF Waking, Reader
<1>4. CASE Handler(p)
  <2>1. /\ Beside(p) /\ UNCHANGED <<proc[p].at, proc[p].stop, rlock, notify>>
        /\ ~proc'[p].raising
    BY <1>4, Handled DEF Handler
  <2>2. Locking'
    BY <1>0, <2>1 DEF Locking, Beside, Procs
  <2>3. Reader /\ rlock = p
    BY <1>4 DEF Handler, Reader, Waking, Locking
  <2>4. fifo'
    BY <1>4, <2>3 DEF Handler, Wake
  <2>5. \A q \in Procs \ {p} : proc'[q] = proc[q] /\ proc[q].at \in {"none", "lock"}
    BY <2>1, <2>3 DEF Beside, Locking
  <2> QED BY <2>1, <2>2, <2>3, <2>4, <2>5 DEF Waking, Reader
<1> QED BY <1>1, <1>2, <1>3, <1>4 DEF Step

\* bootout, whoever asks for it.
LEMMA BootoutLocks ==
  ASSUME Typed, Locking, Waking, Bootout
  PROVE  /\ \A q \in Procs : proc'[q].at \notin {"none", "lock"} <=> rlock' = q
         /\ rlock' = "saver" <=> rlock = "saver"
         /\ job' = "absent" => proc'["job"].at = "none"
<1>1. CASE job = "loaded"
  BY <1>1, SignalledLocks DEF Bootout, Procs
<1>2. CASE job # "loaded"
  BY <1>2 DEF Bootout, worker, Locking
<1> QED BY <1>1, <1>2

LEMMA BootoutWakes ==
  ASSUME Typed, Locking, Waking, Bootout, UNCHANGED <<control, todo, torn>>,
         user = "signal" => user' = "signal", at = "signal" => at' = "signal"
  PROVE  Waking'
<1>1. CASE job = "loaded"
  BY <1>1, SignalledWakes DEF Bootout, Procs
<1>2. CASE job # "loaded"
  BY <1>2 DEF Bootout, worker, Waking, Signalling, Reader, Paused
<1> QED BY <1>1, <1>2

LEMMA BootoutRuns ==
  ASSUME Typed, Bootout, NEW q \in Procs
  PROVE  proc'[q].at = "none" \/ UNCHANGED <<proc[q].at, proc[q].cfg>>
BY SignalledRuns DEF Bootout, Procs, worker

\* A wake-up reaches whoever waits.
LEMMA WakesAll ==
  ASSUME Typed, Locking, Waking, Wake, UNCHANGED <<rlock, proc, notify>>
  PROVE  Waking'
<1>1. \A q \in Procs : proc[q].at \notin {"none", "lock", "open"} => fifo'
  BY DEF Wake, Reader, Locking
<1> QED BY <1>1 DEF Waking, Reader

LEMMA CommandsLocks ==
  ASSUME Typed, Locking, Waking, Commands, UNCHANGED <<at, save, torn>>
  PROVE  Locking' /\ Waking'
<1> USE DEF Typed, TypedPeople, TypedShared
<1>1. CASE \E b \in BOOLEAN : SetPaused(b)
  BY <1>1 DEF SetPaused, worker, Locking, Waking, Signalling, Reader
<1>2. CASE \E then \in {"stop", "restart"} : Stop(then)
  <2>1. /\ Bootout /\ olock = "free" /\ olock' = "user" /\ user' \in {"stop", "restart"}
        /\ UNCHANGED <<control, todo>>
    BY <1>2 DEF Stop
  <2>2. user = "idle"
    BY <2>1 DEF Locking
  <2>3. Locking'
    BY <2>1, <2>2, BootoutLocks DEF Locking
  <2>4. Waking'
    BY <2>1, <2>2, BootoutWakes
  <2> QED BY <2>3, <2>4
<1>3. CASE Start
  BY <1>3 DEF Start, Bootstrap, worker, people, Locking, Waking, Signalling, Reader, Paused
<1>4. CASE SignalPaused
  <2>1. Waking'
    BY <1>4, WakesAll DEF SignalPaused
  <2>2. Locking'
    BY <1>4 DEF SignalPaused, Locking
  <2> QED BY <2>1, <2>2
<1>5. CASE Stopped
  BY <1>5 DEF Stopped, Bootstrap, worker, Locking, Waking, Signalling, Reader, Paused
<1> QED BY <1>1, <1>2, <1>3, <1>4, <1>5 DEF Commands

LEMMA OthersLocks ==
  ASSUME Typed, Locking, Waking, Others, UNCHANGED <<at, save, torn>>
  PROVE  Locking' /\ Waking'
<1> USE DEF Typed, TypedPeople, TypedShared
<1>1. CASE Watch
  BY <1>1, BegunLocks DEF Watch, Procs
<1>2. CASE Interrupt
  <2>1. Signalled("term") /\ UNCHANGED <<shared, people>> /\ "term" \in Procs /\ "job" \in Procs
    BY <1>2 DEF Interrupt, Procs
  <2>2. Waking'
    BY <2>1, SignalledWakes DEF shared, people
  <2>3. Locking'
    BY <2>1, SignalledLocks DEF shared, people, Locking
  <2> QED BY <2>2, <2>3
<1>3. CASE Probe \/ Probed
  BY <1>3 DEF Probe, Probed, shared, people, Locking, Waking, Signalling, Reader, Paused, Procs
<1>4. CASE Event
  <2>1. PICK p \in Procs : proc[p].at \in {"publish", "top", "cleared", "work", "wait"}
    BY <1>4 DEF Event
  <2>2. Reader
    BY <2>1 DEF Locking, Reader
  <2> QED BY <1>4, <2>2 DEF Event, people, Locking, Waking, Signalling, Reader, Paused
<1>5. CASE Notified
  <2>1. \A q \in Procs : proc[q].at \notin {"none", "lock", "open"} => fifo'
    BY <1>5 DEF Notified, Wake, Reader, Locking
  <2> QED BY <1>5, <2>1 DEF Notified, shared, people, Locking, Waking, Reader
<1>6. CASE \E c \in Configs : Edit(c)
  BY <1>6 DEF Edit, worker, people, Locking, Waking, Signalling, Reader, Paused
<1>7. CASE \E p \in Procs : Fails(p)
  <2>1. PICK p \in Procs : Fails(p)
    BY <1>7
  <2>2. /\ Beside(p) /\ proc'[p].at = "close" /\ UNCHANGED <<proc[p].stop, proc[p].raising>>
        /\ proc[p].at \notin {"none", "lock", "open"}
        /\ UNCHANGED <<rlock, fifo, notify, olock, job, control, todo, user>>
    BY <2>1, Went DEF Fails, TypedWorker, Processes, Stages, shared, people
  <2>3. Locking'
    BY <2>2 DEF Locking, Beside, Procs
  <2> QED BY <2>2, <2>3 DEF Waking, Signalling, Reader, Paused, Beside
<1>8. CASE \E p \in Procs : Crash(p)
  <2>1. PICK p \in Procs : Crash(p)
    BY <1>8
  <2>2. Gone(p) /\ UNCHANGED <<shared, people>>
    BY <2>1 DEF Crash, Dies
  <2>3. proc'[p].at = "none" /\ Beside(p)
    BY <2>2, Vanished DEF TypedWorker, Processes
  <2> QED BY <2>2, <2>3, GoneLocks, GoneWakes DEF Locking, Beside, Procs, shared, people
<1> QED BY <1>1, <1>2, <1>3, <1>4, <1>5, <1>6, <1>7, <1>8 DEF Others

LEMMA ServiceLocks ==
  ASSUME Typed, Locking, Waking, ServiceNext, UNCHANGED <<at, save, torn>>
  PROVE  Locking' /\ Waking'
<1>1. CASE Spawn
  BY <1>1, BegunLocks DEF Spawn, Procs
<1>2. CASE Removed
  BY <1>2 DEF Removed, worker, people, Locking, Waking, Signalling, Reader, Paused
<1> QED BY <1>1, <1>2, StepLocks, CommandsLocks, OthersLocks DEF ServiceNext, Launchd

----------------------------------------------------------------------------
(* The save: an error, and the death of the process that saves.            *)

Saving == Course /\ Pausing /\ Filed /\ Jobbed /\ Preferred

\* An error sends the save back, or ends one that was going back.
LEMMA RollbackKeeps ==
  ASSUME Typed, Inv, Rollback("lock"), at \in Fallible \cup {"ready"},
         UNCHANGED <<disk, control, todo, job, ready, fifo, proc, notify, user, wish, edited>>
  PROVE  Inv'
<1> USE DEF Inv
<1>0. at # "idle" /\ at # "signal"
  BY DEF Fallible, StagedAt
<1>1. CASE save.undo
  <2>1. at' = "idle" /\ olock' = "free" /\ torn' /\ rlock' = IF rlock = "saver" THEN "free" ELSE rlock
    BY <1>1 DEF Rollback, End, Jump, Release, Holding
  <2>2. Locking'
    BY <1>0, <2>1 DEF Locking, LockedAt, Procs
  <2>3. Waking'
    BY <1>0, <2>1 DEF Waking, Reader, Procs
  <2>4. Saving' /\ Configured'
    BY <1>0, <2>1 DEF Saving, Course, Pausing, Filed, Jobbed, Preferred, Configured, Afterwards, Forth,
                      Starting, Stopping, Staged, StagedAt
  <2> QED BY <2>2, <2>3, <2>4 DEF Saving
<1>2. CASE ~save.undo
  <2>1. /\ at' = IF save.changed THEN "stop" ELSE "settle"
        /\ UNCHANGED <<olock, rlock, torn>>
        /\ save'.undo /\ save'.then = "lock"
        /\ UNCHANGED <<save.old, save.new, save.run, save.pause, save.was, save.job, save.off,
                       save.changed, save.removing>>
    BY <1>2 DEF Rollback, Jump, Typed, TypedSave, Locals
  <2>2. Locking'
    BY <1>0, <2>1 DEF Locking, LockedAt
  <2>3. Waking'
    BY <1>0, <2>1 DEF Waking, Reader, Signalling, Paused
  <2>4. Course' /\ Preferred' /\ Configured'
    BY <1>0, <2>1 DEF Course, Preferred, Configured, Staged, StagedAt, Afterwards, Forth, Starting, Stopping
  <2>5. ~save.changed => at \in {"stop", "drain", "lock", "check"}
    BY <1>0, <1>2 DEF Course, Forth, Fallible, StagedAt
  <2>6. Pausing'
    BY <1>0, <1>2, <2>1, <2>5 DEF Pausing, Afterwards, Starting, Paused
  <2>7. Filed'
    BY <1>0, <1>2, <2>1, <2>5 DEF Filed, Afterwards, Starting, Stopping, Forth, Fallible, StagedAt, Course
  <2>8. Jobbed'
    BY <1>0, <1>2, <2>1, <2>5 DEF Jobbed, Course, Unmoved, Starting, Forth
  <2> QED BY <2>2, <2>3, <2>4, <2>6, <2>7, <2>8
<1> QED BY <1>1, <1>2 DEF Typed, TypedSave, Locals

LEMMA HaltKeeps == ASSUME Typed, Inv, Halt PROVE Inv'
<1> USE DEF Inv
<1>1. /\ UNCHANGED <<disk, control, todo, job, ready, fifo, proc, notify, user, wish, disabled, edited>>
      /\ at' = "idle" /\ olock' = "free" /\ torn' /\ rlock' = IF rlock = "saver" THEN "free" ELSE rlock
      /\ at # "idle"
  BY DEF Halt, End, Jump, Release, Holding, people
<1>2. Locking'
  BY <1>1 DEF Locking, LockedAt, Procs
<1>3. Waking'
  BY <1>1 DEF Waking, Reader, Procs
<1>4. Saving' /\ Configured'
  BY <1>1 DEF Saving, Course, Pausing, Filed, Jobbed, Preferred, Configured, Afterwards, Forth,
              Starting, Stopping, Staged, StagedAt
<1> QED BY <1>2, <1>3, <1>4 DEF Saving

----------------------------------------------------------------------------
(* The save, step by step.                                                 *)

LEMMA DrainKeeps == ASSUME Typed, Inv, Drain PROVE Inv'
<1> USE DEF Inv, Drain, Jump, Leave, End, Release, Holding, Unready, vars, shared, worker, people
<1>1. Locking'
  BY DEF Locking, LockedAt, Typed, TypedSave, Locals
<1>2. Waking'
  BY DEF Waking, Reader, Signalling, Paused, Locking, LockedAt, Procs
<1>3. Course'
  BY DEF Course, Afterwards, Forth, Starting, Stopping, Typed, TypedSave, Locals
<1>4. Pausing'
  BY DEF Pausing, Course, Wanted, Afterwards, Forth, Starting, Stopping, Paused, Typed, TypedSave, Locals
<1>5. Filed'
  BY DEF Filed, Course, Afterwards, Forth, Starting, Stopping, Typed, TypedSave, Locals
<1>6. Jobbed' /\ Preferred'
  BY DEF Jobbed, Preferred, Course, Unmoved, Bootstrap, Afterwards, Forth, Starting, Stopping, Typed, TypedSave,
         TypedShared, Locals
<1>7. Configured'
  BY DEF Configured, Locking, Jobbed, Course, LockedAt, Staged, StagedAt, Procs, Typed, TypedSave, Locals
<1> QED BY <1>1, <1>2, <1>3, <1>4, <1>5, <1>6, <1>7

LEMMA LockKeeps == ASSUME Typed, Inv, Lock PROVE Inv'
<1> USE DEF Inv, Lock, Jump, Leave, End, Release, Holding, Unready, vars, shared, worker, people
<1>1. Locking'
  BY DEF Locking, LockedAt, Typed, TypedWorker, Procs, Bootstrap
<1>2. Waking'
  BY DEF Waking, Reader, Signalling, Paused, Locking, LockedAt, Procs
<1>3. Course'
  BY DEF Course, Afterwards, Forth, Starting, Stopping, Typed, TypedSave, Locals
<1>4. Pausing'
  BY DEF Pausing, Course, Wanted, Afterwards, Forth, Starting, Stopping, Paused, Typed, TypedSave, Locals
<1>5. Filed'
  BY DEF Filed, Course, Afterwards, Forth, Starting, Stopping, Typed, TypedSave, Locals
<1>6. Jobbed' /\ Preferred'
  BY DEF Jobbed, Preferred, Course, Unmoved, Bootstrap, Afterwards, Forth, Starting, Stopping, Typed, TypedSave,
         TypedShared, Locals
<1>7. Configured'
  BY DEF Configured, Locking, Jobbed, Course, LockedAt, Staged, StagedAt, Procs, Typed, TypedSave, Locals
<1> QED BY <1>1, <1>2, <1>3, <1>4, <1>5, <1>6, <1>7

LEMMA CheckKeeps == ASSUME Typed, Inv, Check PROVE Inv'
<1> USE DEF Inv, Check, Jump, Leave, End, Release, Holding, Unready, vars, shared, worker, people
<1>1. Locking'
  BY DEF Locking, LockedAt, Typed, TypedWorker, Procs, Bootstrap
<1>2. Waking'
  BY DEF Waking, Reader, Signalling, Paused, Locking, LockedAt, Procs
<1>3. Course'
  BY DEF Course, Afterwards, Forth, Starting, Stopping, Typed, TypedSave, Locals
<1>4. Pausing'
  BY DEF Pausing, Course, Wanted, Afterwards, Forth, Starting, Stopping, Paused, Typed, TypedSave, Locals
<1>5. Filed'
  BY DEF Filed, Course, Afterwards, Forth, Starting, Stopping, Typed, TypedSave, Locals
<1>6. Jobbed' /\ Preferred'
  BY DEF Jobbed, Preferred, Course, Unmoved, Bootstrap, Afterwards, Forth, Starting, Stopping, Typed, TypedSave,
         TypedShared, Locals
<1>7. Configured'
  BY DEF Configured, Locking, Jobbed, Course, LockedAt, Staged, StagedAt, Procs, Typed, TypedSave, Locals
<1> QED BY <1>1, <1>2, <1>3, <1>4, <1>5, <1>6, <1>7

LEMMA StageKeeps == ASSUME Typed, Inv, Stage PROVE Inv'
<1> USE DEF Inv, Stage, Jump, Leave, End, Release, Holding, Unready, vars, shared, worker, people
<1>1. Locking'
  BY DEF Locking, LockedAt, Typed, TypedWorker, Procs, Bootstrap
<1>2. Waking'
  BY DEF Waking, Reader, Signalling, Paused, Locking, LockedAt, Procs
<1>3. Course'
  BY DEF Course, Afterwards, Forth, Starting, Stopping, Typed, TypedSave, Locals
<1>4. Pausing'
  BY DEF Pausing, Course, Wanted, Afterwards, Forth, Starting, Stopping, Paused, Typed, TypedSave, Locals
<1>5. Filed'
  BY DEF Filed, Course, Afterwards, Forth, Starting, Stopping, Typed, TypedSave, Locals
<1>6. Jobbed' /\ Preferred'
  BY DEF Jobbed, Preferred, Course, Unmoved, Bootstrap, Afterwards, Forth, Starting, Stopping, Typed, TypedSave,
         TypedShared, Locals
<1>7. Configured'
  BY DEF Configured, Locking, Jobbed, Course, LockedAt, Staged, StagedAt, Procs, Typed, TypedSave, Locals
<1> QED BY <1>1, <1>2, <1>3, <1>4, <1>5, <1>6, <1>7

LEMMA WriteKeeps == ASSUME Typed, Inv, Write PROVE Inv'
<1> USE DEF Inv, Write, Jump, Leave, End, Release, Holding, Unready, vars, shared, worker, people
<1>1. Locking'
  BY DEF Locking, LockedAt, Typed, TypedWorker, Procs, Bootstrap
<1>2. Waking'
  BY DEF Waking, Reader, Signalling, Paused, Locking, LockedAt, Procs
<1>3. Course'
  BY DEF Course, Afterwards, Forth, Starting, Stopping, Typed, TypedSave, Locals
<1>4. Pausing'
  BY DEF Pausing, Course, Wanted, Afterwards, Forth, Starting, Stopping, Paused, Typed, TypedSave, Locals
<1>5. Filed'
  BY DEF Filed, Course, Afterwards, Forth, Starting, Stopping, Typed, TypedSave, Locals
<1>6. Jobbed' /\ Preferred'
  BY DEF Jobbed, Preferred, Course, Unmoved, Bootstrap, Afterwards, Forth, Starting, Stopping, Typed, TypedSave,
         TypedShared, Locals
<1>7. Configured'
  BY DEF Configured, Locking, Jobbed, Course, LockedAt, Staged, StagedAt, Procs, Typed, TypedSave, Locals
<1> QED BY <1>1, <1>2, <1>3, <1>4, <1>5, <1>6, <1>7

LEMMA UnlinkKeeps == ASSUME Typed, Inv, Unlink PROVE Inv'
<1> USE DEF Inv, Unlink, Jump, Leave, End, Release, Holding, Unready, vars, shared, worker, people
<1>1. Locking'
  BY DEF Locking, LockedAt, Typed, TypedWorker, Procs, Bootstrap
<1>2. Waking'
  BY DEF Waking, Reader, Signalling, Paused, Locking, LockedAt, Procs
<1>3. Course'
  BY DEF Course, Afterwards, Forth, Starting, Stopping, Typed, TypedSave, Locals
<1>4. Pausing'
  BY DEF Pausing, Course, Wanted, Afterwards, Forth, Starting, Stopping, Paused, Typed, TypedSave, Locals
<1>5. Filed'
  BY DEF Filed, Course, Afterwards, Forth, Starting, Stopping, Typed, TypedSave, Locals
<1>6. Jobbed' /\ Preferred'
  BY DEF Jobbed, Preferred, Course, Unmoved, Bootstrap, Afterwards, Forth, Starting, Stopping, Typed, TypedSave,
         TypedShared, Locals
<1>7. Configured'
  BY DEF Configured, Locking, Jobbed, Course, LockedAt, Staged, StagedAt, Procs, Typed, TypedSave, Locals
<1> QED BY <1>1, <1>2, <1>3, <1>4, <1>5, <1>6, <1>7

LEMMA EnableKeeps == ASSUME Typed, Inv, Enable PROVE Inv'
<1> USE DEF Inv, Enable, Jump, Leave, End, Release, Holding, Unready, vars, shared, worker, people
<1>1. Locking'
  BY DEF Locking, LockedAt, Typed, TypedWorker, Procs, Bootstrap
<1>2. Waking'
  BY DEF Waking, Reader, Signalling, Paused, Locking, LockedAt, Procs
<1>3. Course'
  BY DEF Course, Afterwards, Forth, Starting, Stopping, Typed, TypedSave, Locals
<1>4. Pausing'
  BY DEF Pausing, Course, Wanted, Afterwards, Forth, Starting, Stopping, Paused, Typed, TypedSave, Locals
<1>5. Filed'
  BY DEF Filed, Course, Afterwards, Forth, Starting, Stopping, Typed, TypedSave, Locals
<1>6. Jobbed' /\ Preferred'
  BY DEF Jobbed, Preferred, Course, Unmoved, Bootstrap, Afterwards, Forth, Starting, Stopping, Typed, TypedSave,
         TypedShared, Locals
<1>7. Configured'
  BY DEF Configured, Locking, Jobbed, Course, LockedAt, Staged, StagedAt, Procs, Typed, TypedSave, Locals
<1> QED BY <1>1, <1>2, <1>3, <1>4, <1>5, <1>6, <1>7

LEMMA BootKeeps == ASSUME Typed, Inv, Boot PROVE Inv'
<1> USE DEF Inv, Boot, Jump, Leave, End, Release, Holding, Unready, vars, shared, worker, people
<1>1. Locking'
  BY DEF Locking, LockedAt, Typed, TypedWorker, Procs, Bootstrap
<1>2. Waking'
  BY DEF Waking, Reader, Signalling, Paused, Locking, LockedAt, Procs
<1>3. Course'
  BY DEF Course, Afterwards, Forth, Starting, Stopping, Typed, TypedSave, Locals
<1>4. Pausing'
  BY DEF Pausing, Course, Wanted, Afterwards, Forth, Starting, Stopping, Paused, Typed, TypedSave, Locals
<1>5. Filed'
  BY DEF Filed, Course, Afterwards, Forth, Starting, Stopping, Typed, TypedSave, Locals
<1>6. Jobbed' /\ Preferred'
  BY DEF Jobbed, Preferred, Course, Unmoved, Bootstrap, Afterwards, Forth, Starting, Stopping, Typed, TypedSave,
         TypedShared, Locals
<1>7. Configured'
  BY DEF Configured, Locking, Jobbed, Course, LockedAt, Staged, StagedAt, Procs, Typed, TypedSave, Locals
<1> QED BY <1>1, <1>2, <1>3, <1>4, <1>5, <1>6, <1>7

LEMMA ReloginKeeps == ASSUME Typed, Inv, Relogin, ~save.failed PROVE Inv'
<1> USE DEF Inv, Relogin, Jump, Leave, End, Release, Holding, Unready, vars, shared, worker, people
<1>1. Locking'
  BY DEF Locking, LockedAt, Typed, TypedWorker, Procs, Bootstrap
<1>2. Waking'
  BY DEF Waking, Reader, Signalling, Paused, Locking, LockedAt, Procs
<1>3. Course'
  BY DEF Course, Afterwards, Forth, Starting, Stopping, Typed, TypedSave, Locals
<1>4. Pausing'
  BY DEF Pausing, Course, Wanted, Afterwards, Forth, Starting, Stopping, Paused, Typed, TypedSave, Locals
<1>5. Filed'
  BY DEF Filed, Course, Afterwards, Forth, Starting, Stopping, Typed, TypedSave, Locals
<1>6. Jobbed' /\ Preferred'
  BY DEF Jobbed, Preferred, Course, Unmoved, Bootstrap, Afterwards, Forth, Starting, Stopping, Typed, TypedSave,
         TypedShared, Locals
<1>7. Configured'
  BY DEF Configured, Locking, Jobbed, Course, LockedAt, Staged, StagedAt, Procs, Typed, TypedSave, Locals
<1> QED BY <1>1, <1>2, <1>3, <1>4, <1>5, <1>6, <1>7

LEMMA PollKeeps == ASSUME Typed, Inv, Poll PROVE Inv'
<1> USE DEF Inv, Poll, Jump, Leave, End, Release, Holding, Unready, vars, shared, worker, people
<1>1. Locking'
  BY DEF Locking, LockedAt, Typed, TypedWorker, Procs, Bootstrap
<1>2. Waking'
  BY DEF Waking, Reader, Signalling, Paused, Locking, LockedAt, Procs
<1>3. Course'
  BY DEF Course, Afterwards, Forth, Starting, Stopping, Typed, TypedSave, Locals
<1>4. Pausing'
  BY DEF Pausing, Course, Wanted, Afterwards, Forth, Starting, Stopping, Paused, Typed, TypedSave, Locals
<1>5. Filed'
  BY DEF Filed, Course, Afterwards, Forth, Starting, Stopping, Typed, TypedSave, Locals
<1>6. Jobbed' /\ Preferred'
  BY DEF Jobbed, Preferred, Course, Unmoved, Bootstrap, Afterwards, Forth, Starting, Stopping, Typed, TypedSave,
         TypedShared, Locals
<1>7. Configured'
  BY DEF Configured, Locking, Jobbed, Course, LockedAt, Staged, StagedAt, Procs, Typed, TypedSave, Locals
<1> QED BY <1>1, <1>2, <1>3, <1>4, <1>5, <1>6, <1>7

LEMMA EndProbeKeeps == ASSUME Typed, Inv, EndProbe PROVE Inv'
<1> USE DEF Inv, EndProbe, Jump, Leave, End, Release, Holding, Unready, vars, shared, worker, people
<1>1. Locking'
  BY DEF Locking, LockedAt, Typed, TypedWorker, Procs, Bootstrap
<1>2. Waking'
  BY DEF Waking, Reader, Signalling, Paused, Locking, LockedAt, Procs
<1>3. Course'
  BY DEF Course, Afterwards, Forth, Starting, Stopping, Typed, TypedSave, Locals
<1>4. Pausing'
  BY DEF Pausing, Course, Wanted, Afterwards, Forth, Starting, Stopping, Paused, Typed, TypedSave, Locals
<1>5. Filed'
  BY DEF Filed, Course, Afterwards, Forth, Starting, Stopping, Typed, TypedSave, Locals
<1>6. Jobbed' /\ Preferred'
  BY DEF Jobbed, Preferred, Course, Unmoved, Bootstrap, Afterwards, Forth, Starting, Stopping, Typed, TypedSave,
         TypedShared, Locals
<1>7. Configured'
  BY DEF Configured, Locking, Jobbed, Course, LockedAt, Staged, StagedAt, Procs, Typed, TypedSave, Locals
<1> QED BY <1>1, <1>2, <1>3, <1>4, <1>5, <1>6, <1>7

LEMMA ResumeKeeps == ASSUME Typed, Inv, Resume PROVE Inv'
<1> USE DEF Inv, Resume, Jump, Leave, End, Release, Holding, Unready, vars, shared, worker, people
<1>1. Locking'
  BY DEF Locking, LockedAt, Typed, TypedWorker, Procs, Bootstrap
<1>2. Waking'
  BY DEF Waking, Reader, Signalling, Paused, Locking, LockedAt, Procs
<1>3. Course'
  BY DEF Course, Afterwards, Forth, Starting, Stopping, Typed, TypedSave, Locals
<1>4. Pausing'
  BY DEF Pausing, Course, Wanted, Afterwards, Forth, Starting, Stopping, Paused, Typed, TypedSave, Locals
<1>5. Filed'
  BY DEF Filed, Course, Afterwards, Forth, Starting, Stopping, Typed, TypedSave, Locals
<1>6. Jobbed' /\ Preferred'
  BY DEF Jobbed, Preferred, Course, Unmoved, Bootstrap, Afterwards, Forth, Starting, Stopping, Typed, TypedSave,
         TypedShared, Locals
<1>7. Configured'
  BY DEF Configured, Locking, Jobbed, Course, LockedAt, Staged, StagedAt, Procs, Typed, TypedSave, Locals
<1> QED BY <1>1, <1>2, <1>3, <1>4, <1>5, <1>6, <1>7

LEMMA SignalResumedKeeps == ASSUME Typed, Inv, SignalResumed PROVE Inv'
<1> USE DEF Inv, SignalResumed, Jump, Leave, End, Release, Holding, Unready, vars, shared, worker, people
<1>1. Locking'
  BY DEF Locking, LockedAt, Typed, TypedWorker, Procs, Bootstrap
<1>2. Waking'
  BY WakesAll DEF Waking, Reader, Signalling, Paused, Locking, LockedAt, Procs
<1>3. Course'
  BY DEF Course, Afterwards, Forth, Starting, Stopping, Typed, TypedSave, Locals
<1>4. Pausing'
  BY DEF Pausing, Course, Wanted, Afterwards, Forth, Starting, Stopping, Paused, Typed, TypedSave, Locals
<1>5. Filed'
  BY DEF Filed, Course, Afterwards, Forth, Starting, Stopping, Typed, TypedSave, Locals
<1>6. Jobbed' /\ Preferred'
  BY DEF Jobbed, Preferred, Course, Unmoved, Bootstrap, Afterwards, Forth, Starting, Stopping, Typed, TypedSave,
         TypedShared, Locals
<1>7. Configured'
  BY DEF Configured, Locking, Jobbed, Course, LockedAt, Staged, StagedAt, Procs, Typed, TypedSave, Locals
<1> QED BY <1>1, <1>2, <1>3, <1>4, <1>5, <1>6, <1>7

LEMMA CommitKeeps == ASSUME Typed, Inv, Commit PROVE Inv'
<1> USE DEF Inv, Commit, Jump, Leave, End, Release, Holding, Unready, vars, shared, worker, people
<1>1. Locking'
  BY DEF Locking, LockedAt, Typed, TypedWorker, Procs, Bootstrap
<1>2. Waking'
  BY DEF Waking, Reader, Signalling, Paused, Locking, LockedAt, Procs
<1>3. Course'
  BY DEF Course, Afterwards, Forth, Starting, Stopping, Typed, TypedSave, Locals
<1>4. Pausing'
  BY DEF Pausing, Course, Wanted, Afterwards, Forth, Starting, Stopping, Paused, Typed, TypedSave, Locals
<1>5. Filed'
  BY DEF Filed, Course, Afterwards, Forth, Starting, Stopping, Typed, TypedSave, Locals
<1>6. Jobbed' /\ Preferred'
  BY DEF Jobbed, Preferred, Course, Unmoved, Bootstrap, Afterwards, Forth, Starting, Stopping, Typed, TypedSave,
         TypedShared, Locals
<1>7. Configured'
  BY DEF Configured, Locking, Jobbed, Course, LockedAt, Staged, StagedAt, Procs, Typed, TypedSave, Locals
<1> QED BY <1>1, <1>2, <1>3, <1>4, <1>5, <1>6, <1>7

LEMMA RestoreKeeps == ASSUME Typed, Inv, Restore PROVE Inv'
<1> USE DEF Inv, Restore, Jump, Leave, End, Release, Holding, Unready, vars, shared, worker, people
<1>1. Locking'
  BY DEF Locking, LockedAt, Typed, TypedWorker, Procs, Bootstrap
<1>2. Waking'
  BY DEF Waking, Reader, Signalling, Paused, Locking, LockedAt, Procs
<1>3. Course'
  BY DEF Course, Afterwards, Forth, Starting, Stopping, Typed, TypedSave, Locals
<1>4. Pausing'
  BY DEF Pausing, Course, Wanted, Afterwards, Forth, Starting, Stopping, Paused, Typed, TypedSave, Locals
<1>5. Filed'
  BY DEF Filed, Course, Afterwards, Forth, Starting, Stopping, Typed, TypedSave, Locals
<1>6. Jobbed' /\ Preferred'
  BY DEF Jobbed, Preferred, Course, Unmoved, Bootstrap, Afterwards, Forth, Starting, Stopping, Typed, TypedSave,
         TypedShared, Locals
<1>7. Configured'
  BY DEF Configured, Locking, Jobbed, Course, LockedAt, Staged, StagedAt, Procs, Typed, TypedSave, Locals
<1> QED BY <1>1, <1>2, <1>3, <1>4, <1>5, <1>6, <1>7

LEMMA RestoreControlKeeps == ASSUME Typed, Inv, RestoreControl PROVE Inv'
<1> USE DEF Inv, RestoreControl, Jump, Leave, End, Release, Holding, Unready, vars, shared, worker, people
<1>1. Locking'
  BY DEF Locking, LockedAt, Typed, TypedWorker, Procs, Bootstrap
<1>2. Waking'
  BY DEF Waking, Reader, Signalling, Paused, Locking, LockedAt, Procs
<1>3. Course'
  BY DEF Course, Afterwards, Forth, Starting, Stopping, Typed, TypedSave, Locals
<1>4. Pausing'
  BY DEF Pausing, Course, Wanted, Afterwards, Forth, Starting, Stopping, Paused, Typed, TypedSave, Locals
<1>5. Filed'
  BY DEF Filed, Course, Afterwards, Forth, Starting, Stopping, Typed, TypedSave, Locals
<1>6. Jobbed' /\ Preferred'
  BY DEF Jobbed, Preferred, Course, Unmoved, Bootstrap, Afterwards, Forth, Starting, Stopping, Typed, TypedSave,
         TypedShared, Locals
<1>7. Configured'
  BY DEF Configured, Locking, Jobbed, Course, LockedAt, Staged, StagedAt, Procs, Typed, TypedSave, Locals
<1> QED BY <1>1, <1>2, <1>3, <1>4, <1>5, <1>6, <1>7

LEMMA SettleKeeps == ASSUME Typed, Inv, Settle PROVE Inv'
<1> USE DEF Inv, Settle, Jump, Leave, End, Release, Holding, Unready, vars, shared, worker, people
<1>1. Locking'
  BY DEF Locking, LockedAt, Typed, TypedWorker, Procs, Bootstrap
<1>2. Waking'
  BY DEF Waking, Reader, Signalling, Paused, Locking, LockedAt, Procs
<1>3. Course'
  BY DEF Course, Afterwards, Forth, Starting, Stopping, Typed, TypedSave, Locals
<1>4. Pausing'
  BY DEF Pausing, Course, Wanted, Afterwards, Forth, Starting, Stopping, Paused, Typed, TypedSave, Locals
<1>5. Filed'
  BY DEF Filed, Course, Afterwards, Forth, Starting, Stopping, Typed, TypedSave, Locals
<1>6. Jobbed' /\ Preferred'
  BY DEF Jobbed, Preferred, Course, Unmoved, Bootstrap, Afterwards, Forth, Starting, Stopping, Typed, TypedSave,
         TypedShared, Locals
<1>7. Configured'
  BY DEF Configured, Locking, Jobbed, Course, LockedAt, Staged, StagedAt, Procs, Typed, TypedSave, Locals
<1> QED BY <1>1, <1>2, <1>3, <1>4, <1>5, <1>6, <1>7

LEMMA RestartKeeps == ASSUME Typed, Inv, Restart PROVE Inv'
<1> USE DEF Inv, Restart, Jump, Leave, End, Release, Holding, Unready, vars, shared, worker, people
<1>1. Locking'
  BY DEF Locking, LockedAt, Typed, TypedWorker, Procs, Bootstrap
<1>2. Waking'
  BY DEF Waking, Reader, Signalling, Paused, Locking, LockedAt, Procs
<1>3. Course'
  BY DEF Course, Afterwards, Forth, Starting, Stopping, Typed, TypedSave, Locals
<1>4. Pausing'
  BY DEF Pausing, Course, Wanted, Afterwards, Forth, Starting, Stopping, Paused, Typed, TypedSave, Locals
<1>5. Filed'
  BY DEF Filed, Course, Afterwards, Forth, Starting, Stopping, Typed, TypedSave, Locals
<1>6. Jobbed' /\ Preferred'
  BY DEF Jobbed, Preferred, Course, Unmoved, Bootstrap, Afterwards, Forth, Starting, Stopping, Typed, TypedSave,
         TypedShared, Locals
<1>7. Configured'
  BY DEF Configured, Locking, Jobbed, Course, LockedAt, Staged, StagedAt, Procs, Typed, TypedSave, Locals
<1> QED BY <1>1, <1>2, <1>3, <1>4, <1>5, <1>6, <1>7

LEMMA RestoreLoginKeeps == ASSUME Typed, Inv, RestoreLogin PROVE Inv'
<1> USE DEF Inv, RestoreLogin, Jump, Leave, End, Release, Holding, Unready, vars, shared, worker, people
<1>1. Locking'
  BY DEF Locking, LockedAt, Typed, TypedWorker, Procs, Bootstrap
<1>2. Waking'
  BY DEF Waking, Reader, Signalling, Paused, Locking, LockedAt, Procs
<1>3. Course'
  BY DEF Course, Afterwards, Forth, Starting, Stopping, Typed, TypedSave, Locals
<1>4. Pausing'
  BY DEF Pausing, Course, Wanted, Afterwards, Forth, Starting, Stopping, Paused, Typed, TypedSave, Locals
<1>5. Filed'
  BY DEF Filed, Course, Afterwards, Forth, Starting, Stopping, Typed, TypedSave, Locals
<1>6. Jobbed' /\ Preferred'
  BY DEF Jobbed, Preferred, Course, Unmoved, Bootstrap, Afterwards, Forth, Starting, Stopping, Typed, TypedSave,
         TypedShared, Locals
<1>7. Configured'
  BY DEF Configured, Locking, Jobbed, Course, LockedAt, Staged, StagedAt, Procs, Typed, TypedSave, Locals
<1> QED BY <1>1, <1>2, <1>3, <1>4, <1>5, <1>6, <1>7

LEMMA BootFailsKeeps == ASSUME Typed, Inv, BootFails PROVE Inv'
<1> USE DEF Inv, BootFails, Jump, Leave, End, Release, Holding, Unready, vars, shared, worker, people
<1>1. Locking'
  BY DEF Locking, LockedAt, Typed, TypedWorker, Procs, Bootstrap
<1>2. Waking'
  BY DEF Waking, Reader, Signalling, Paused, Locking, LockedAt, Procs
<1>3. Course'
  BY DEF Course, Afterwards, Forth, Starting, Stopping, Typed, TypedSave, Locals
<1>4. Pausing'
  BY DEF Pausing, Course, Wanted, Afterwards, Forth, Starting, Stopping, Paused, Typed, TypedSave, Locals
<1>5. Filed'
  BY DEF Filed, Course, Afterwards, Forth, Starting, Stopping, Typed, TypedSave, Locals
<1>6. Jobbed' /\ Preferred'
  BY DEF Jobbed, Preferred, Course, Unmoved, Bootstrap, Afterwards, Forth, Starting, Stopping, Typed, TypedSave,
         TypedShared, Locals
<1>7. Configured'
  BY DEF Configured, Locking, Jobbed, Course, LockedAt, Staged, StagedAt, Procs, Typed, TypedSave, Locals
<1> QED BY <1>1, <1>2, <1>3, <1>4, <1>5, <1>6, <1>7

LEMMA StopWorkerKeeps == ASSUME Typed, Inv, StopWorker PROVE Inv'
<1> USE DEF Inv
<1>1. /\ at = "stop" /\ at' = "drain" /\ Bootout /\ save'.removing
      /\ UNCHANGED <<disk, control, todo, olock, user, wish, disabled, edited, torn>>
      /\ UNCHANGED <<save.old, save.new, save.run, save.pause, save.was, save.job, save.off,
                     save.changed, save.undo, save.then>>
  BY DEF StopWorker, Jump, people, Typed, TypedSave, Locals
<1>2. Locking'
  BY <1>1, BootoutLocks DEF Locking, LockedAt
<1>3. Waking'
  BY <1>1, BootoutWakes
<1>4. Course' /\ Preferred'
  BY <1>1 DEF Course, Preferred, Afterwards, Forth, Starting, Stopping
<1>5. Pausing' /\ Filed'
  BY <1>1 DEF Pausing, Filed, Afterwards, Forth, Starting, Stopping, Paused
<1>6. Jobbed'
  BY <1>1 DEF Jobbed, Starting
<1>7. Configured'
  BY <1>1, BootoutRuns DEF Configured, Staged, StagedAt, Procs
<1> QED BY <1>2, <1>3, <1>4, <1>5, <1>6, <1>7

LEMMA SaverKeeps == ASSUME Typed, Inv, Saver PROVE Inv'
<1>1. CASE DrainTimeout \/ LockTimeout \/ CheckFails \/ ReadyTimeout
  BY <1>1, RollbackKeeps DEF Fail, people, DrainTimeout, LockTimeout, CheckFails, ReadyTimeout, Fallible
<1>2. CASE Relogin
  <2>1. CASE save.failed
    BY <1>2, <2>1, RollbackKeeps DEF Relogin, Fallible, StagedAt, people
  <2> QED BY <1>2, <2>1, ReloginKeeps
<1> QED BY <1>1, <1>2, StopWorkerKeeps, DrainKeeps, LockKeeps, CheckKeeps, StageKeeps, WriteKeeps,
           UnlinkKeeps, EnableKeeps, BootKeeps, PollKeeps, EndProbeKeeps, ResumeKeeps,
           SignalResumedKeeps, CommitKeeps, RestoreKeeps, RestoreControlKeeps, SettleKeeps,
           RestartKeeps, RestoreLoginKeeps DEF Saver, Forward, Backward

LEMMA BeginSaveKeeps ==
  ASSUME Typed, Inv, NEW c \in Configs, NEW start \in BOOLEAN, BeginSave(c, start) PROVE Inv'
<1> USE DEF Inv
<1>1. /\ at = "idle" /\ at' = "stop" /\ olock = "free" /\ olock' = "saver"
      /\ save'.undo = FALSE /\ save'.changed = FALSE /\ save'.then = "lock"
      /\ save'.was = control /\ save'.job = job /\ save'.off = disabled
      /\ UNCHANGED <<disk, control, todo, job, rlock, fifo, proc, notify, user, wish, disabled, torn>>
      /\ edited' # "late" /\ (edited' = "never" => edited = "never")
  BY DEF BeginSave, Jump, worker, people
<1>2. Locking' /\ Waking'
  BY <1>1 DEF Locking, LockedAt, Waking, Signalling, Reader, Paused
<1>3. Course' /\ Jobbed' /\ Preferred' /\ Filed'
  BY <1>1 DEF Course, Jobbed, Preferred, Filed, Unmoved, Afterwards, Forth, Starting, Stopping
<1>4. Pausing'
  BY <1>1 DEF Pausing, Afterwards, Starting, Paused
<1>5. Configured'
  BY <1>1 DEF Configured, Staged, StagedAt
<1> QED BY <1>2, <1>3, <1>4, <1>5

LEMMA MishapKeeps == ASSUME Typed, Inv, Mishap PROVE Inv'
BY RollbackKeeps, BootFailsKeeps, HaltKeeps DEF Mishap, Fault, Fail, people

----------------------------------------------------------------------------
(* What others do beside a save.                                           *)

\* Neither the pause nor the job moves under a save, but for a registration that goes.
LEMMA ServiceBeside ==
  ASSUME Typed, Locking, ServiceNext
  PROVE  /\ olock = "saver" => UNCHANGED <<control, wish, olock>>
         /\ olock = "saver" => job' = job \/ (job = "leaving" /\ job' = "absent")
         /\ (Paused <=> wish) => (Paused' <=> wish')
<1> USE DEF Typed, TypedPeople, TypedShared
<1>1. CASE Launchd
  BY <1>1 DEF Launchd, Spawn, Begin, Removed, shared, people, Paused
<1>2. CASE \E p \in Procs : Step(p)
  BY <1>2 DEF Step, Acquire, Refused, Open, Publish, Top, Read, Work, Woken, Close, Handler, Own, shared,
              people, Paused
<1>3. CASE Commands
  BY <1>3 DEF Commands, SetPaused, Stop, Start, SignalPaused, Stopped, Locking, people, Paused
<1>4. CASE Others
  BY <1>4 DEF Others, Watch, Begin, Interrupt, Probe, Probed, Event, Notified, Edit, Fails, Crash, shared,
              people, Paused
<1> QED BY <1>1, <1>2, <1>3, <1>4 DEF ServiceNext

\* A process that comes to its work has read that it is not paused, and has the configuration
\* it had, or the one of the file when it begins.
Came(q) == proc'[q].at = "work" => proc[q].at = "work" \/ ~Paused
Kept(q) ==
  proc'[q].at # "none" =>
    \/ proc[q].at # "none" /\ proc'[q].cfg = proc[q].cfg
    \/ disk' = disk /\ proc'[q].cfg = disk

LEMMA SameRuns == ASSUME NEW q \in Procs, proc'[q] = proc[q] PROVE Came(q) /\ Kept(q)
BY DEF Came, Kept

LEMMA GoneRuns == ASSUME Typed, NEW p \in Procs, NEW q \in Procs, Gone(p) PROVE Came(q) /\ Kept(q)
BY Vanished, SameRuns DEF Typed, TypedWorker, Processes, Beside, Came, Kept

LEMMA BegunRuns == ASSUME Typed, NEW p \in Procs, NEW q \in Procs, Begin(p) PROVE Came(q) /\ Kept(q)
<1>1. Beside(p) /\ proc'[p].at = "lock" /\ proc'[p].cfg = disk /\ UNCHANGED disk
  BY Begun DEF Typed, TypedWorker, TypedShared, Processes, Begin, shared
<1> QED BY <1>1, SameRuns DEF Beside, Came, Kept

LEMMA WentRuns ==
  ASSUME Typed, NEW p \in Procs, NEW q \in Procs, NEW stage \in Stages, Go(p, stage), proc[p].at # "none",
         stage = "work" => ~Paused
  PROVE  Came(q) /\ Kept(q)
<1>1. Beside(p) /\ proc'[p].at = stage /\ proc'[p].cfg = proc[p].cfg
  BY Went DEF Typed, TypedWorker, Processes
<1> QED BY <1>1, SameRuns DEF Beside, Came, Kept

LEMMA StepRuns == ASSUME Typed, NEW p \in Procs, NEW q \in Procs, Step(p) PROVE Came(q) /\ Kept(q)
<1>1. CASE Refused(p) \/ Close(p)
  BY <1>1, GoneRuns DEF Refused, Close, Dies
<1>2. CASE Handler(p)
  <2>1. Beside(p) /\ UNCHANGED <<proc[p].at, proc[p].cfg>> /\ proc[p].at = proc'[p].at
    BY <1>2, Handled DEF Typed, TypedWorker, Processes
  <2> QED BY <2>1, SameRuns DEF Beside, Came, Kept
<1>3. CASE Acquire(p) \/ Open(p) \/ Publish(p) \/ Top(p) \/ Woken(p) \/ Work(p)
  BY <1>3, WentRuns DEF Acquire, Open, Publish, Top, Woken, Work, Stages
<1>4. CASE Read(p)
  BY <1>4, WentRuns DEF Read, Stages
<1> QED BY <1>1, <1>2, <1>3, <1>4 DEF Step

LEMMA SignalRuns == ASSUME Typed, NEW p \in Procs, NEW q \in Procs, Signalled(p) PROVE Came(q) /\ Kept(q)
BY SignalledRuns DEF Came, Kept

LEMMA ServiceRuns == ASSUME Typed, ServiceNext, NEW q \in Procs PROVE Came(q) /\ Kept(q)
<1>1. CASE Launchd
  BY <1>1, BegunRuns, SameRuns DEF Launchd, Spawn, Removed, worker, Procs
<1>2. CASE Commands
  <2>1. CASE \E then \in {"stop", "restart"} : Stop(then)
    BY <2>1, SignalRuns, SameRuns DEF Stop, Bootout, worker, Procs
  <2>2. CASE ~\E then \in {"stop", "restart"} : Stop(then)
    BY <1>2, <2>2, SameRuns DEF Commands, SetPaused, Start, SignalPaused, Stopped, worker
  <2> QED BY <2>1, <2>2
<1>3. CASE Others
  <2>1. CASE Watch \/ Interrupt
    BY <2>1, BegunRuns, SignalRuns DEF Watch, Interrupt, Procs
  <2>2. CASE \E p \in Procs : Fails(p)
    BY <2>2, WentRuns DEF Fails, Stages
  <2>3. CASE \E p \in Procs : Crash(p)
    BY <2>3, GoneRuns DEF Crash, Dies
  <2>4. CASE Probe \/ Probed \/ Event \/ Notified \/ \E c \in Configs : Edit(c)
    BY <2>4, SameRuns DEF Probe, Probed, Event, Notified, Edit, worker
  <2> QED BY <1>3, <2>1, <2>2, <2>3, <2>4 DEF Others
<1> QED BY <1>1, <1>2, <1>3, StepRuns DEF ServiceNext

LEMMA ServiceKeeps == ASSUME Typed, Inv, Service PROVE Inv'
<1> USE DEF Inv
<1>1. /\ ServiceNext /\ UNCHANGED <<disabled, at, save, torn, saves>>
      /\ \/ disk' = disk /\ edited' = edited
         \/ edited' = (IF at # "idle" /\ save.changed THEN "late" ELSE "early")
  BY DEF Service
<1>2. Locking' /\ Waking'
  BY <1>1, ServiceLocks
<1>3. Course' /\ Preferred'
  BY <1>1 DEF Course, Preferred, Afterwards, Forth, Starting, Stopping
<1>4. Pausing'
  BY <1>1, ServiceBeside DEF Pausing, Locking, Wanted, Afterwards, Starting, Paused
<1>5. Filed'
  BY <1>1 DEF Filed, Course, Afterwards, Forth, Starting, Stopping
<1>6. Jobbed'
  BY <1>1, ServiceBeside DEF Jobbed, Locking, Unmoved, Starting
<1>7. Configured'
  <2>1. edited' = "never" /\ proc'["job"].at # "none" => proc'["job"].cfg = disk'
    BY <1>1, ServiceRuns DEF Configured, Kept, Procs
  <2>2. Staged' => Staged /\ Paused
    BY <1>1 DEF Staged, StagedAt, Paused, Pausing, Course, Starting
  <2>3. Staged' => \A p \in Procs : proc'[p].at # "work"
    BY <2>2, <1>1, ServiceRuns DEF Configured, Came
  <2> QED BY <2>1, <2>3 DEF Configured
<1> QED BY <1>2, <1>3, <1>4, <1>5, <1>6, <1>7

LEMMA InitInv == SaveInit => Inv
<1> SUFFICES ASSUME SaveInit PROVE Inv
  OBVIOUS
<1> USE DEF SaveInit, ServiceInit
<1>1. \A p \in Procs : proc[p].at = "none" /\ ~proc[p].stop /\ ~proc[p].raising
  BY DEF NoProcess
<1>2. Locking /\ Waking
  BY <1>1 DEF Locking, LockedAt, Waking, Reader, Procs
<1>3. Course /\ Filed /\ Jobbed /\ Preferred /\ Pausing
  BY DEF Course, Filed, Jobbed, Preferred, Pausing, Afterwards, Forth, Starting, Stopping, Paused
<1>4. Configured
  BY <1>1 DEF Configured, Staged, StagedAt, Procs
<1> QED BY <1>2, <1>3, <1>4 DEF Inv

LEMMA StutterInv == ASSUME Inv, UNCHANGED allVars PROVE Inv'
BY DEF Inv, allVars, vars, shared, worker, people, transaction, Locking, LockedAt, Waking, Reader, Signalling,
       Paused, Course, Pausing, Wanted, Filed, Jobbed, Unmoved, Preferred, Configured, Staged, StagedAt,
       Afterwards, Forth, Starting, Stopping

\* In every reachable state locks, signals, pause, file, job and login preference are what the
\* place of the save and of the workers says, however steps of the two, of commands, launchd and
\* other programs interleave, and whatever fails.
THEOREM SettingsInvHolds == Spec => []Inv
<1>1. Inv /\ TypeOK /\ [Next]_allVars => Inv'
  BY TypesAre, ServiceKeeps, SaverKeeps, MishapKeeps, BeginSaveKeeps, StutterInv DEF Next
<1> QED BY <1>1, InitInv, SettingsTypeCorrect, PTL DEF Spec

----------------------------------------------------------------------------
(* What a reader should know.                                              *)

\* No wake-up is lost: a worker that waits on an empty FIFO, with nobody left who is about to
\* write to it, was not asked to stop and has nothing to do or is paused (the FIFO is emptied
\* before stop, pause and queue are read; whoever changes one of them writes afterwards).
THEOREM WakeupsAreKept == Spec => []NoLostWakeup
<1>1. Inv => NoLostWakeup
  BY DEF Inv, Waking, NoLostWakeup
<1> QED BY <1>1, SettingsInvHolds, PTL

\* Between commands and saves the pause in force is the one the user asked for last, whichever
\* step of a save failed and whatever it had staged.
THEOREM WishesAreKept == Spec => []WishKept
<1>1. Inv => WishKept
  BY DEF Inv, Pausing, WishKept
<1> QED BY <1>1, SettingsInvHolds, PTL

\* No worker, in a terminal or under launchd, renames anything while a new configuration is
\* staged and not acknowledged; and the one under launchd renames only under the file's.
THEOREM ConfigurationIsExact == Spec => ExactConfiguration
<1>1. Inv => \A p \in Procs : Renames(p) =>
               /\ ~Staged
               /\ p = "job" /\ edited = "never" => proc[p].cfg = disk
  BY DEF Inv, Configured, Renames
<1> QED BY <1>1, SettingsInvHolds, PTL DEF ExactConfiguration

\* A save that returns left all of the new state, or reports its error over all of the old
\* one: configuration, pause, job and login preference.
THEOREM SavesAreAtomic == Spec => SaveIsAtomic
<1>1. Inv /\ Commit => Saved
  <2> SUFFICES ASSUME Inv, Commit PROVE Saved
    OBVIOUS
  <2> USE DEF Inv, Commit, End, Jump
  <2>1. UNCHANGED <<disk, control, job, disabled>> /\ ~save.undo
    BY DEF Leave, Course, Forth, Starting
  <2>2. disk = save.new \/ edited = "late"
    BY <2>1 DEF Filed, Forth
  <2>3. disabled = save.off
    BY <2>1 DEF Preferred
  <2>4. job = (IF save.run THEN "loaded" ELSE "absent")
        /\ control = IF save.run THEN Wanted ELSE save.was
    BY DEF Jobbed, Pausing
  <2> QED BY <2>1, <2>2, <2>3, <2>4 DEF Saved, Wanted
<1>2. Inv /\ RestoreLogin => Restored
  <2> SUFFICES ASSUME Inv, RestoreLogin PROVE Restored
    OBVIOUS
  <2> USE DEF Inv, RestoreLogin, End, Jump
  <2>1. UNCHANGED <<disk, control, job>> /\ disabled' = save.off /\ Afterwards
    BY DEF Course, Afterwards
  <2>2. disk = save.old \/ edited = "late" \/ ~save.changed
    BY <2>1 DEF Filed
  <2>3. control = save.was /\ Unmoved
    BY <2>1 DEF Pausing, Jobbed
  <2> QED BY <2>1, <2>2, <2>3 DEF Restored, Unmoved
<1> QED BY <1>1, <1>2, SettingsInvHolds, PTL DEF SaveIsAtomic

\* A save writes over nothing but what it looked at last or wrote itself, unless another
\* program wrote after its second revision check.
THEOREM EditsAreKept == Spec => EditKept
<1>1. Inv => (Overwrites /\ edited # "late" => disk = IF save.undo THEN save.new ELSE save.old)
  <2> SUFFICES ASSUME Inv, Overwrites, edited # "late"
               PROVE  disk = IF save.undo THEN save.new ELSE save.old
    OBVIOUS
  <2> USE DEF Inv, Overwrites
  <2>1. CASE Write
    BY <2>1 DEF Write, Course, Filed, Forth, Starting
  <2>2. CASE Restore
    BY <2>2 DEF Restore, Course, Filed, Afterwards, Starting, Stopping
  <2> QED BY <2>1, <2>2
<1> QED BY <1>1, SettingsInvHolds, PTL DEF EditKept
=============================================================================
