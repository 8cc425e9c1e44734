-------------------------------- MODULE Install --------------------------------
(***************************************************************************)
(* Installation, removal and the login commands: native/src/install.rs,    *)
(* lifecycle.rs and retention.rs.                                          *)
(*                                                                         *)
(* A step is one access to what another program sees: the application in   *)
(* Applications and the copy parked beside it, the release copies, the     *)
(* files of the two jobs, launchd, the runtime lock.  A step may fail      *)
(* before its effect or after it; the installer may be killed between two  *)
(* steps; the user replaces, edits or deletes an application meanwhile.    *)
(* The lifecycle lock admits one command at a time.                        *)
(***************************************************************************)
EXTENDS Naturals, Functions

CONSTANTS
  Releases,      \* contents of application bundles that get installed
  Other,         \* contents of any other application
  None,          \* no application at a path, no such file
  MaxCommands,   \* bound: commands given
  MaxFaults,     \* bound: calls that fail, deaths of the installer
  MaxOutside     \* bound: things the user does to an application

ASSUME BoundsAssumption == {MaxCommands, MaxFaults, MaxOutside} \subseteq Nat
ASSUME ContentsAssumption ==
  /\ Other \notin Releases
  /\ None \notin [id: {"before", "staged", "user"} \X Nat, contents: Releases \cup {Other}]

VARIABLES
  app,        \* the application in /Applications
  legacy,     \* the one in the user's own Applications folder
  parked,     \* per command: what stands under its staging name
  retired,    \* per command: what stands under its name for the legacy application
  releases,   \* the immutable copies: when each was made, 0 when it is not there
  files,      \* the two job files and the configuration
  backups,    \* per command: its backup: state, manifest
  job,        \* launchd's registrations: "absent", "loaded" or "leaving"
  disabled,   \* jobs that login does not start
  rlock,      \* holder of the runtime lock
  menu,       \* a menu runs
  pc, tx,     \* the command under way and what it has read
  outcome,    \* of the last command
  given, faults, left,
  placed      \* history: applications the user put in place and has not taken away

disk == <<app, legacy, parked, retired>>
kept == <<releases, backups>>
launchd == <<job, disabled>>
procs == <<rlock, menu>>
bounds == <<given, left, placed>>
vars == <<disk, kept, files, launchd, procs, pc, tx, outcome, bounds, faults>>

Jobs == {"worker", "menu"}
Ids == 1..MaxCommands

(* An application is told apart by its identity (device and inode) and by  *)
(* its contents.  A link of an old layout stands for the release it names. *)
Entry(from, n, contents) == [id |-> <<from, n>>, contents |-> contents]
Same(a, b) == IF None \in {a, b} THEN a = b ELSE a.id = b.id
NoBackup == [state |-> "none", names |-> {}]

Me == given                  \* the command under way
Held == {r \in Releases : releases[r] > 0}
Staged == Entry("staged", Me, tx.release)

\* managed_application: no application, or one whose contents are a release's.
Managed(e) == e # None => e.contents \in Held
\* mutant: the parked copy goes whatever happened to it
DroppedAlways == parked' = [parked EXCEPT ![Me] = None]
\* ApplicationSwap's Drop: what an uncertain exchange left parked is kept.
Dropped == parked' = IF tx.published THEN parked ELSE [parked EXCEPT ![Me] = None]

----------------------------------------------------------------------------
(* A step that succeeds, or whose failure is noticed after its effect.     *)

Spend == faults > 0 /\ faults' = faults - 1
Calm == UNCHANGED faults
Onward(here, next, undo) ==
  /\ pc = here
  /\ \/ pc' = next /\ Calm
     \/ pc' = undo /\ Spend
Go(here, next) == pc = here /\ pc' = next /\ Calm

Finish(result) ==
  /\ pc' = "idle" /\ outcome' = result
  /\ rlock' = IF rlock = "installer" THEN "free" ELSE rlock

\* host_stop: bootout, then wait until the registration has gone.
Bootout(j) ==
  /\ job' = [job EXCEPT ![j] = IF @ = "loaded" THEN "leaving" ELSE @]
  /\ tx' = [tx EXCEPT !.pending = @ \cup {j}]
Stop(j, here, next) ==
  /\ Go(here, next) /\ Bootout(j)
  /\ UNCHANGED <<disk, kept, files, disabled, procs, outcome, bounds>>
Await(j, here, next) ==
  /\ Go(here, next) /\ job[j] = "absent"
  /\ tx' = [tx EXCEPT !.pending = @ \ {j}]
  /\ UNCHANGED <<disk, kept, files, launchd, procs, outcome, bounds>>
Bootstrap(j) == job' = [job EXCEPT ![j] = IF @ = "absent" THEN "loaded" ELSE @]

----------------------------------------------------------------------------
(* install, activate: up to the first stop nothing needs to be undone.     *)

\* What a command reads before it changes anything.
Read(op, r) ==
  [op |-> op, release |-> r, files |-> files, app |-> app, legacy |-> legacy, job |-> job,
   disabled |-> disabled, menu |-> menu, published |-> FALSE, moved |-> FALSE,
   artifacts |-> FALSE, pending |-> {}, bad |-> FALSE, touched |-> FALSE]
Begin(op, r, first) ==
  /\ pc = "idle" /\ pc' = first /\ Calm
  /\ given < MaxCommands /\ given' = given + 1
  /\ tx' = Read(op, r) /\ outcome' = "none"
  /\ UNCHANGED <<disk, files, launchd, procs, left, placed>>

Install(r) ==
  /\ Begin("install", r, "prepare") /\ Managed(app)
  /\ releases' = IF r \in Held THEN releases ELSE [releases EXCEPT ![r] = given + 2]
  /\ UNCHANGED backups

\* LegacyApplication::prepare: an application of the user's own is not touched.
Migrated == IF Managed(legacy) THEN legacy ELSE None
\* FileSnapshot::read, ApplicationSwap::prepare, snapshots.
Prepare ==
  /\ Go("prepare", "menu_stop") /\ Managed(app)
  /\ \A j \in Jobs : tx.job[j] # "absent" => files[j] # None
  /\ tx' = [tx EXCEPT !.app = app, !.touched = FALSE,
                      !.legacy = Migrated]
  /\ parked' = [parked EXCEPT ![Me] = Staged]
  /\ UNCHANGED <<app, legacy, retired, kept, files, launchd, procs, outcome, bounds>>
\* Another application by now, or a call that fails: nothing was changed.
Refuse ==
  /\ pc = "prepare" /\ (IF Managed(app) THEN Spend ELSE Calm)
  /\ Finish("failed")
  /\ UNCHANGED <<disk, kept, files, launchd, menu, tx, bounds>>

MenuStop ==
  /\ Onward("menu_stop", "stop_worker", "undo") /\ menu' = FALSE
  /\ UNCHANGED <<disk, kept, files, launchd, rlock, tx, outcome, bounds>>

\* RuntimeLock::acquire
Lock(here, next) ==
  /\ Go(here, next) /\ rlock \in {"free", "installer"} /\ rlock' = "installer"
  /\ UNCHANGED <<disk, kept, files, launchd, menu, tx, outcome, bounds>>

\* The manifest names the new release and those of the applications it replaces.
Named == {tx.release} \cup {e.contents : e \in {tx.app, tx.legacy} \ {None}}
Backup ==
  /\ Onward("backup", "config", "undo")
  /\ backups' = [backups EXCEPT ![Me] = [state |-> "kept", names |-> Named]]
  /\ tx' = [tx EXCEPT !.artifacts = pc' = "config"]
  /\ UNCHANGED <<disk, releases, files, launchd, procs, outcome, bounds>>

Write(here, next, file, value) ==
  /\ Onward(here, next, "undo") /\ files' = [files EXCEPT ![file] = value]
  /\ UNCHANGED <<disk, kept, launchd, procs, tx, outcome, bounds>>

----------------------------------------------------------------------------
(* ApplicationSwap::publish.  Between a check and the exchange the user may *)
(* replace what was checked.                                                *)

Check ==
  /\ pc = "publish" /\ Calm
  /\ pc' = IF app = tx.app THEN "exchange" ELSE "undo"
  /\ tx' = [tx EXCEPT !.published = app = tx.app]
  /\ UNCHANGED <<disk, kept, files, launchd, procs, outcome, bounds>>
\* rename_application: an exchange, or a move that overwrites nothing.
Renamed(from, to, exchange) ==
  IF exchange THEN from # None /\ to # None ELSE from # None /\ to = None
Exchange ==
  /\ Go("exchange", "verify")
  /\ IF Renamed(parked[Me], app, tx.app # None)
     THEN app' = parked[Me] /\ parked' = [parked EXCEPT ![Me] = app]
     ELSE UNCHANGED <<app, parked>>
  /\ UNCHANGED <<legacy, retired, kept, files, launchd, procs, tx, outcome, bounds>>
Verify ==
  /\ IF app = Staged /\ Same(parked[Me], tx.app)
     THEN Onward("verify", "unlock", "undo") ELSE Go("verify", "undo")
  /\ tx' = [tx EXCEPT !.published = ~(Same(app, tx.app) /\ Same(parked[Me], Staged))]
  /\ UNCHANGED <<disk, kept, files, launchd, procs, outcome, bounds>>

Unlock(here, next) ==
  /\ Go(here, next) /\ rlock' = IF rlock = "installer" THEN "free" ELSE rlock
  /\ UNCHANGED <<disk, kept, files, launchd, menu, tx, outcome, bounds>>

Enable ==
  /\ Onward("enable", "start", "undo") /\ disabled' = disabled \ {"worker"}
  /\ UNCHANGED <<disk, kept, files, job, procs, tx, outcome, bounds>>
Start ==
  /\ Onward("start", "redisable", "undo") /\ Bootstrap("worker")
  /\ UNCHANGED <<disk, kept, files, disabled, procs, tx, outcome, bounds>>
Redisable ==
  /\ Onward("redisable", "retire", "undo")
  /\ disabled' = disabled \cup (tx.disabled \cap {"worker"})
  /\ UNCHANGED <<disk, kept, files, job, procs, tx, outcome, bounds>>

\* LegacyApplication::retire
Retire ==
  /\ pc = "retire" /\ Calm
  /\ pc' = IF tx.legacy = None THEN "finish" ELSE IF legacy = tx.legacy THEN "move" ELSE "undo"
  /\ UNCHANGED <<disk, kept, files, launchd, procs, tx, outcome, bounds>>
Move ==
  /\ IF legacy = tx.legacy THEN Onward("move", "finish", "undo") ELSE Go("move", "undo")
  /\ tx' = [tx EXCEPT !.moved = legacy # None]
  /\ legacy' = None /\ retired' = [retired EXCEPT ![Me] = legacy]
  /\ UNCHANGED <<app, parked, kept, files, launchd, procs, outcome, bounds>>

----------------------------------------------------------------------------
(* The installation stands: a failure from here on undoes nothing.         *)

\* LegacyApplication::finish: what was changed meanwhile stays where it is.
Discarded == IF retired[Me] = tx.legacy THEN [retired EXCEPT ![Me] = None] ELSE retired
\* ApplicationSwap::finish
Committed ==
  /\ Go("finish", "complete")
  /\ parked' = [parked EXCEPT ![Me] = None]
  /\ retired' = Discarded
  /\ UNCHANGED <<app, legacy, kept, files, launchd, procs, tx, outcome, bounds>>
\* mark_completed
Complete ==
  /\ Go("complete", "prune_backups")
  /\ backups' = [backups EXCEPT ![Me].state = "completed"]
  /\ UNCHANGED <<disk, releases, files, launchd, procs, tx, outcome, bounds>>
\* prune_backups: the newest completed one stays, and each that is not completed.
PruneBackups ==
  /\ Go("prune_backups", "prune_releases")
  /\ backups' = [t \in Ids |->
       IF backups[t].state = "completed" /\ \E u \in Ids : u > t /\ backups[u].state = "completed"
       THEN NoBackup ELSE backups[t]]
  /\ UNCHANGED <<disk, releases, files, launchd, procs, tx, outcome, bounds>>

\* children: the newest of the others
Previous ==
  {r \in Held \ {tx.release} : \A q \in Held \ {tx.release} : releases[q] <= releases[r]}
\* referenced_releases, over every manifest
Referenced == UNION {backups[t].names : t \in Ids}
\* prune_releases: the installed one, one to go back to, what a manifest names.
PruneReleases ==
  /\ pc = "prune_releases" /\ Calm /\ Finish("installed")
  /\ LET keep == {tx.release} \cup Previous \cup Referenced
     IN releases' = [r \in Releases |-> IF r \in keep THEN releases[r] ELSE 0]
  /\ UNCHANGED <<disk, backups, files, launchd, menu, tx, bounds>>
\* A failed cleanup is a line in the log.
Unpruned ==
  /\ pc \in {"complete", "prune_backups", "prune_releases"} /\ Spend /\ Finish("installed")
  /\ UNCHANGED <<disk, kept, files, launchd, menu, tx, bounds>>

----------------------------------------------------------------------------
(* Rollback.  It ends at the first step that fails, except that every file, *)
(* the menu and every job are tried.                                        *)

Broken ==
  /\ Finish("broken") /\ Dropped
  /\ UNCHANGED <<app, legacy, retired, kept, files, launchd, menu, tx, bounds>>

\* LegacyApplication::restore, which overwrites nothing.
Undo ==
  /\ Go("undo", IF tx.artifacts THEN "undo_stop" ELSE "undo_unlock")
  /\ tx.moved => legacy = None
  /\ tx' = [tx EXCEPT !.moved = FALSE]
  /\ IF tx.moved
     THEN legacy' = retired[Me] /\ retired' = [retired EXCEPT ![Me] = None]
     ELSE UNCHANGED <<legacy, retired>>
  /\ UNCHANGED <<app, parked, kept, files, launchd, procs, outcome, bounds>>
Occupied == pc = "undo" /\ tx.moved /\ legacy # None /\ Calm /\ Broken

UndoMenu ==
  /\ Go("undo_menu", "undo_lock") /\ menu' = FALSE
  /\ UNCHANGED <<disk, kept, files, launchd, rlock, tx, outcome, bounds>>

\* restore_artifacts: a file that cannot be written does not stop the rest.
UndoFiles ==
  /\ pc = "undo_files" /\ pc' = "undo_app"
  /\ \/ Calm /\ files' = tx.files /\ UNCHANGED tx
     \/ /\ Spend /\ tx' = [tx EXCEPT !.bad = TRUE]
        /\ \E f \in DOMAIN files : files' = [tx.files EXCEPT ![f] = files[f]]
  /\ UNCHANGED <<disk, kept, launchd, procs, outcome, bounds>>

\* ApplicationSwap::restore
UndoCheck ==
  /\ Go("undo_app", IF tx.published /\ Same(app, Staged) /\ Same(parked[Me], tx.app)
                    THEN "undo_exchange" ELSE "undo_done")
  /\ UNCHANGED <<disk, kept, files, launchd, procs, tx, outcome, bounds>>
UndoExchange ==
  /\ Go("undo_exchange", "undo_verify")
  /\ IF app # None /\ (parked[Me] = None => tx.app = None)
     THEN app' = parked[Me] /\ parked' = [parked EXCEPT ![Me] = app]
     ELSE UNCHANGED <<app, parked>>
  /\ UNCHANGED <<legacy, retired, kept, files, launchd, procs, tx, outcome, bounds>>
UndoVerify ==
  /\ Go("undo_verify", "undo_done")
  /\ tx' = [tx EXCEPT !.published = ~(Same(app, tx.app) /\ Same(parked[Me], Staged))]
  /\ UNCHANGED <<disk, kept, files, launchd, procs, outcome, bounds>>
UndoDone == /\ Go("undo_done", "undo_unlock") /\ ~tx.published /\ ~tx.bad
            /\ UNCHANGED <<disk, kept, files, launchd, procs, tx, outcome, bounds>>
Undone == /\ pc = "undo_done" /\ (tx.published \/ tx.bad) /\ Calm /\ Broken

\* The old worker is never started under the lock.
UndoMenus ==
  /\ pc = "undo_menus" /\ pc' = "undo_worker"
  /\ \/ Calm /\ menu' = (menu \/ tx.menu) /\ UNCHANGED tx
     \/ Spend /\ tx' = [tx EXCEPT !.bad = TRUE] /\ UNCHANGED menu
  /\ UNCHANGED <<disk, kept, files, launchd, rlock, outcome, bounds>>

\* mutant: a registration that is leaving passes for the job that was loaded
NoDrain(j) == TRUE
\* restore_jobs: a registration that was told to go is waited for first.
Drained(j) == j \in tx.pending => job[j] = "absent"
WasLoaded(j) == tx.job[j] # "absent"
UndoJob(j, here, next) ==
  /\ pc = here /\ pc' = next
  /\ \/ /\ Calm /\ Drained(j) /\ UNCHANGED tx
        /\ job' = [job EXCEPT ![j] =
              IF WasLoaded(j) THEN (IF @ = "absent" THEN "loaded" ELSE @)
              ELSE IF @ = "loaded" THEN "leaving" ELSE @]
        /\ disabled' = IF WasLoaded(j) /\ job[j] = "absent" THEN disabled \ {j} ELSE disabled
     \/ Spend /\ tx' = [tx EXCEPT !.bad = TRUE] /\ UNCHANGED launchd
  /\ UNCHANGED <<disk, kept, files, procs, outcome, bounds>>
UndoLogin(j, here, next) ==
  /\ pc = here /\ pc' = next
  /\ \/ Calm /\ disabled' = (disabled \ {j}) \cup (tx.disabled \cap {j}) /\ UNCHANGED tx
     \/ Spend /\ tx' = [tx EXCEPT !.bad = TRUE] /\ UNCHANGED disabled
  /\ UNCHANGED <<disk, kept, files, job, procs, outcome, bounds>>
RolledBack ==
  /\ pc = "undo_end" /\ ~tx.bad /\ Calm /\ Finish("failed") /\ Dropped
  /\ UNCHANGED <<app, legacy, retired, kept, files, launchd, menu, tx, bounds>>
NotRolledBack == pc = "undo_end" /\ tx.bad /\ Calm /\ Broken

\* A call of the installation fails without effect, a wait times out.
Fails ==
  /\ pc \in {"menu_stop", "stop_worker", "await_worker", "stop_menu", "await_menu", "lock",
             "backup", "config", "plist", "unmenu", "exchange", "enable", "start",
             "redisable", "move"}
  /\ pc' = IF pc = "exchange" THEN "verify" ELSE "undo"
  /\ IF pc = "lock" /\ rlock # "free" THEN Calm ELSE Spend
  /\ UNCHANGED <<disk, kept, files, launchd, procs, tx, outcome, bounds>>
UndoFails ==
  /\ pc \in {"undo", "undo_stop", "undo_await", "undo_menu", "undo_lock", "undo_files",
             "undo_done"}
  /\ (IF pc = "undo_lock" /\ rlock \notin {"free", "installer"} THEN Calm ELSE Spend)
  /\ Broken

Activate ==
  \/ Prepare \/ Refuse \/ MenuStop
  \/ Stop("worker", "stop_worker", "await_worker") \/ Await("worker", "await_worker", "stop_menu")
  \/ Stop("menu", "stop_menu", "await_menu") \/ Await("menu", "await_menu", "lock")
  \/ Lock("lock", "backup") \/ Backup
  \/ Write("config", "plist", "config", Me) \/ Write("plist", "unmenu", "worker", "new")
  \/ Write("unmenu", "publish", "menu", None)
  \/ Check \/ Exchange \/ Verify \/ Unlock("unlock", "enable")
  \/ Enable \/ Start \/ Redisable \/ Retire \/ Move \/ Fails
  \/ Committed \/ Complete \/ PruneBackups \/ PruneReleases \/ Unpruned
Rollback ==
  \/ Undo \/ Occupied
  \/ Stop("worker", "undo_stop", "undo_await") \/ Await("worker", "undo_await", "undo_menu")
  \/ UndoMenu \/ Lock("undo_lock", "undo_files") \/ UndoFiles
  \/ UndoCheck \/ UndoExchange \/ UndoVerify \/ UndoDone \/ Undone
  \/ Unlock("undo_unlock", "undo_menus") \/ UndoMenus
  \/ UndoJob("worker", "undo_worker", "undo_worker_login")
  \/ UndoLogin("worker", "undo_worker_login", "undo_menu_job")
  \/ UndoJob("menu", "undo_menu_job", "undo_menu_login")
  \/ UndoLogin("menu", "undo_menu_login", "undo_end")
  \/ RolledBack \/ NotRolledBack \/ UndoFails

----------------------------------------------------------------------------
(* The other commands under the lifecycle lock. *)

Brief(op, first) == Begin(op, None, first) /\ UNCHANGED kept

\* startup on, off: the setting is read back; if it did not take, it is put back.
Startup(off) == files.worker # None /\ Brief(IF off THEN "off" ELSE "on", "set")
Set ==
  /\ Onward("set", "confirm", "unset")
  /\ disabled' = IF tx.op = "off" THEN disabled \cup {"worker"} ELSE disabled \ {"worker"}
  /\ UNCHANGED <<disk, kept, files, job, procs, tx, outcome, bounds>>
Confirm ==
  /\ pc = "confirm" /\ Calm /\ Finish("done")
  /\ UNCHANGED <<disk, kept, files, launchd, menu, tx, bounds>>
Unset ==
  /\ pc = "unset" /\ Calm /\ Finish("failed") /\ disabled' = tx.disabled
  /\ UNCHANGED <<disk, kept, files, job, menu, tx, bounds>>
\* start: a job that login does not start is enabled for the moment.
StartUp == files.worker # None /\ Brief("start", IF "worker" \in disabled THEN "on" ELSE "boot")
StartEnable ==
  /\ Go("on", "boot") /\ disabled' = disabled \ {"worker"}
  /\ UNCHANGED <<disk, kept, files, job, procs, tx, outcome, bounds>>
Boot ==
  /\ pc = "boot" /\ pc' = "off"
  /\ \/ Calm /\ Bootstrap("worker") /\ UNCHANGED tx
     \/ Spend /\ tx' = [tx EXCEPT !.bad = TRUE] /\ UNCHANGED job
  /\ UNCHANGED <<disk, kept, files, disabled, procs, outcome, bounds>>
Off ==
  /\ pc = "off" /\ Calm /\ disabled' = disabled \cup (tx.disabled \cap {"worker"})
  /\ Finish(IF tx.bad THEN "failed" ELSE "done")
  /\ UNCHANGED <<disk, kept, files, job, menu, tx, bounds>>
\* uninstall: the jobs, then a menu that runs, then their files.
Uninstall == Brief("uninstall", "remove_worker")
RemoveMenu ==
  /\ Go("remove_menus", "remove_files") /\ menu' = FALSE
  /\ UNCHANGED <<disk, kept, files, launchd, rlock, tx, outcome, bounds>>
RemoveFiles ==
  /\ pc = "remove_files" /\ Calm /\ Finish("done")
  /\ files' = [files EXCEPT !.worker = None, !.menu = None]
  /\ UNCHANGED <<disk, kept, launchd, menu, tx, bounds>>
GivesUp ==
  /\ pc \in {"set", "confirm", "unset", "on", "off", "remove_worker", "removed_worker",
             "remove_menu", "removed_menu", "remove_menus", "remove_files"}
  /\ Spend
  /\ IF pc = "confirm" \/ pc = "set"
     THEN pc' = "unset" /\ UNCHANGED <<outcome, rlock>>
     ELSE Finish(IF pc = "on" THEN "failed" ELSE "broken")
  /\ UNCHANGED <<disk, kept, files, launchd, menu, tx, bounds>>

Commands ==
  \/ \E r \in Releases : Install(r)
  \/ \E b \in BOOLEAN : Startup(b)
  \/ StartUp \/ Uninstall
Shorter ==
  \/ Set \/ Confirm \/ Unset \/ StartEnable \/ Boot \/ Off
  \/ Stop("worker", "remove_worker", "removed_worker")
  \/ Await("worker", "removed_worker", "remove_menu")
  \/ Stop("menu", "remove_menu", "removed_menu")
  \/ Await("menu", "removed_menu", "remove_menus")
  \/ RemoveMenu \/ RemoveFiles \/ GivesUp

----------------------------------------------------------------------------
(* launchd, the worker, the user. *)

Removed(j) ==
  /\ job[j] = "leaving" /\ job' = [job EXCEPT ![j] = "absent"] /\ Calm
  /\ rlock' = IF j = "worker" /\ rlock = "worker" THEN "free" ELSE rlock
  /\ UNCHANGED <<disk, kept, files, disabled, menu, pc, tx, outcome, bounds>>
\* The worker opens the menu.
Works ==
  /\ job.worker = "loaded" /\ rlock = "free" /\ Calm
  /\ rlock' = "worker" /\ menu' = TRUE
  /\ UNCHANGED <<disk, kept, files, launchd, pc, tx, outcome, bounds>>
\* watch in a terminal
Watch ==
  /\ left > 0 /\ left' = left - 1 /\ rlock = "free" /\ rlock' = "terminal" /\ Calm
  /\ UNCHANGED <<disk, kept, files, launchd, menu, pc, tx, outcome, given, placed>>
Interrupt ==
  /\ rlock = "terminal" /\ rlock' = "free" /\ Calm
  /\ UNCHANGED <<disk, kept, files, launchd, menu, pc, tx, outcome, bounds>>

\* Another application, none, or the same with other contents.
Instead(e) == {None, Entry("user", left, Other)}
              \cup {[x EXCEPT !.contents = Other] : x \in {e} \ {None}}
User ==
  /\ left > 0 /\ left' = left - 1 /\ Calm
  /\ tx' = [tx EXCEPT !.touched = TRUE]
  /\ \/ app' \in Instead(app) \ {app} /\ UNCHANGED legacy
     \/ legacy' \in Instead(legacy) \ {legacy} /\ UNCHANGED app
  /\ placed' = (placed \ ({app, legacy} \ {app', legacy'}))
                \cup {e \in {app', legacy'} \ {None} : e.id[1] = "user"}
  /\ UNCHANGED <<parked, retired, kept, files, launchd, procs, pc, outcome, given>>

Killed ==
  /\ pc # "idle" /\ Spend /\ Finish("killed")
  /\ UNCHANGED <<disk, kept, files, launchd, menu, tx, bounds>>

----------------------------------------------------------------------------
\* Nothing installed; this layout; the one with a menu job and a user's Applications.
Situation(a, l, held, f, loaded, off) ==
  /\ app = a /\ legacy = l /\ files = f
  /\ releases = [r \in Releases |-> IF r \in held THEN 1 ELSE 0]
  /\ job = [j \in Jobs |-> IF j \in loaded THEN "loaded" ELSE "absent"] /\ disabled = off
Files(worker, m, c) == [worker |-> worker, menu |-> m, config |-> c]
Init ==
  /\ \/ Situation(None, None, {}, Files(None, None, None), {}, {})
     \/ \E r \in Releases, loaded \in SUBSET {"worker"}, off \in SUBSET {"worker"} :
          Situation(Entry("before", 1, r), None, {r}, Files("new", None, "old"), loaded, off)
     \/ \E r \in Releases :
          Situation(None, Entry("before", 2, r), {r}, Files("old", "old", "old"), Jobs, {})
  /\ parked = [t \in Ids |-> None] /\ retired = [t \in Ids |-> None]
  /\ backups = [t \in Ids |-> NoBackup]
  /\ rlock = "free" /\ menu = FALSE /\ pc = "idle" /\ outcome = "none"
  /\ tx = Read("none", None)
  /\ given = 0 /\ faults = MaxFaults /\ left = MaxOutside /\ placed = {}

Next == \/ Commands \/ Activate \/ Rollback \/ Shorter
        \/ (\E j \in Jobs : Removed(j)) \/ Works \/ Watch \/ Interrupt \/ User \/ Killed
Spec == Init /\ [][Next]_vars

----------------------------------------------------------------------------
(* install.rs, activate: "Every post-stop failure uses the same restoration *)
(* path".  When a command reports its own failure and nothing more, the     *)
(* files, the login settings, the registrations and the applications are    *)
(* what they were; of what the user changed meanwhile nothing was undone,   *)
(* but the new application is not in its place.                             *)
AsBefore ==
  pc = "idle" /\ outcome = "failed" =>
    /\ files = tx.files /\ disabled = tx.disabled
    /\ \A j \in Jobs : tx.job[j] # "leaving" => job[j] = tx.job[j]
    /\ tx.menu => menu
    /\ IF tx.touched THEN tx.release # None => ~Same(app, Staged)
       ELSE app = tx.app /\ tx.legacy \in {legacy, None}
    /\ rlock # "installer" /\ parked[Me] = None /\ retired[Me] = None

(* An application the user put in place is still somewhere on the disk,     *)
(* whatever was exchanged, moved or rolled back around it.                  *)
UsersKept == \A e \in placed : e \in {app, legacy} \cup Range(parked) \cup Range(retired)
(* What an installation displaced stands where its backup says, until the  *)
(* installation is complete, and each release a backup names is there.     *)
Recoverable ==
  \A t \in Ids :
    /\ parked[t] # None /\ parked[t].id # <<"staged", t>> => backups[t].state # "none"
    /\ retired[t] # None => backups[t].state # "none"
    /\ backups[t].names \subseteq Held \cup {Other}
(* ApplicationSwap, prune_releases: nothing that recovery needs is lost.    *)
NothingLost == UsersKept /\ Recoverable
=============================================================================
