----------------------------- MODULE InstallProofs -----------------------------
(***************************************************************************)
(* Proofs about Install, for any releases and numbers of commands, faults  *)
(* and changes by the user: no application of the user's and nothing that  *)
(* going back needs is lost, and a command that reports its own failure    *)
(* left everything as it was.                                              *)
(***************************************************************************)
EXTENDS Install, TLAPS

----------------------------------------------------------------------------
(* Types.                                                                  *)

\* What the user puts in place or edits has contents of no release.
Entries == {e \in [id: {"before", "staged", "user"} \X Nat, contents: Releases \cup {Other}] :
              e.id[1] = "user" => e.contents = Other}
Standing == Entries \cup {None}
JobStates == {"absent", "loaded", "leaving"}
FileSets == [worker: {"new", "old", None}, menu: {"new", "old", None}, config: {"old", None} \cup Nat]
Txs == [op: {"none", "install", "on", "off", "start", "uninstall"}, release: Releases \cup {None},
        files: FileSets, app: Standing, legacy: Standing, job: [Jobs -> JobStates],
        disabled: SUBSET Jobs, menu: BOOLEAN, published: BOOLEAN, moved: BOOLEAN,
        artifacts: BOOLEAN, pending: SUBSET Jobs, bad: BOOLEAN, touched: BOOLEAN]

TypedDisk ==
  /\ app \in Standing /\ legacy \in Standing
  /\ parked \in [Ids -> Standing] /\ retired \in [Ids -> Standing]
TypedKept ==
  /\ releases \in [Releases -> Nat]
  /\ backups \in [Ids -> [state: {"none", "kept", "completed"}, names: SUBSET (Releases \cup {Other})]]
TypedHost ==
  /\ files \in FileSets
  /\ job \in [Jobs -> JobStates] /\ disabled \in SUBSET Jobs
  /\ rlock \in {"free", "installer", "worker", "terminal"} /\ menu \in BOOLEAN
TypedCommand ==
  /\ tx \in Txs /\ given \in 0..MaxCommands /\ left \in Nat
  /\ placed \subseteq {e \in Entries : e.id[1] = "user"}
Typed == TypedDisk /\ TypedKept /\ TypedHost /\ TypedCommand

----------------------------------------------------------------------------
(* The inductive invariant.                                                *)

Preparing == {"menu_stop", "stop_worker", "await_worker", "stop_menu", "await_menu", "lock", "backup"}
Writing == {"config", "plist", "unmenu", "publish", "exchange", "verify"}
Published == {"unlock", "enable", "start", "redisable", "retire", "move", "finish"}
Forward == Preparing \cup Writing \cup Published
Stopping == {"undo", "undo_stop", "undo_await"}
Filing == {"undo_menu", "undo_lock", "undo_files"}
Moving == {"undo_app", "undo_exchange", "undo_verify", "undo_done"}
Ending == {"undo_unlock", "undo_menus", "undo_worker", "undo_worker_login", "undo_menu_job",
           "undo_menu_login", "undo_end"}
Backward == Stopping \cup Filing \cup Moving \cup Ending
Active == pc \in Forward \cup Backward
Cleaning == pc \in {"complete", "prune_backups", "prune_releases"}
Switching == {"set", "confirm", "unset", "on", "boot", "off"}
Removing == {"remove_worker", "removed_worker", "remove_menu", "removed_menu", "remove_menus", "remove_files"}

Mark(t) == <<"staged", t>>
Marked(e, t) == e # None /\ e.id = Mark(t)

\* A command that is to come, or has not staged anything, has left nothing.
Fresh ==
  \A t \in Ids :
    t > given \/ (t = given /\ pc \in {"prepare"} \cup Switching \cup Removing) =>
      /\ parked[t] = None /\ retired[t] = None /\ backups[t].state = "none" /\ backups[t].names = {}
      /\ ~Marked(app, t) /\ ~Marked(legacy, t)
      /\ \A u \in Ids : ~Marked(parked[u], t) /\ ~Marked(retired[u], t)
\* What an installation knows of itself.
Knowing ==
  /\ pc # "idle" => given > 0
  /\ pc = "prepare" \/ Active \/ Cleaning => tx.release \in Held
  /\ pc = "prepare" => ~tx.published /\ ~tx.moved /\ ~tx.artifacts /\ ~tx.bad /\ tx.pending = {}
  /\ Active => Managed(tx.app) /\ Managed(tx.legacy) /\ ~Marked(tx.app, Me) /\ (tx.published => tx.artifacts)
  /\ pc \in Preparing => ~tx.published /\ ~tx.artifacts
  /\ pc \in {"config", "plist", "unmenu", "publish"} => ~tx.published
  /\ pc \in {"exchange", "verify", "undo_exchange", "undo_verify"} \cup Published => tx.published
  /\ pc \in Writing \cup Published \cup {"undo_stop", "undo_await"} \cup Filing \cup Moving => tx.artifacts
  /\ pc \in Forward \cup {"on", "boot"} => ~tx.bad
  /\ pc \in Forward \ {"finish"} => ~tx.moved
  /\ pc \in {"undo_stop", "undo_await"} \cup Filing \cup Moving \cup Ending => ~tx.moved
  /\ pc \in Ending => ~tx.published
  /\ pc \in {"undo_unlock", "undo_menus"} \cup Stopping \cup Filing => ~tx.bad
\* Where the staged copy and what it displaced are.
Placing ==
  Active =>
    /\ ~tx.published => Marked(parked[Me], Me) /\ ~Marked(app, Me)
    /\ ~Marked(legacy, Me) /\ ~Marked(retired[Me], Me)
    /\ pc \in Published => Same(parked[Me], tx.app)
    /\ tx.moved <=> retired[Me] # None
    /\ pc = "move" => tx.legacy # None
    /\ pc = "finish" => retired[Me] = tx.legacy
    /\ tx.artifacts \/ tx.published => backups[Me].state = "kept"
    /\ ~tx.touched =>
         /\ \/ app = tx.app /\ parked[Me] = Staged
            \/ tx.published /\ app = Staged /\ parked[Me] = tx.app
         /\ IF tx.moved THEN legacy = None /\ retired[Me] = tx.legacy ELSE tx.legacy \in {legacy, None}
\* Nothing is left of a completed installation.
Completed ==
  /\ pc = "complete" => parked[Me] = None /\ retired[Me] = None
  /\ \A t \in Ids : backups[t].state = "completed" => parked[t] = None /\ retired[t] = None
  /\ \A t \in Ids : backups[t].names \subseteq Held

\* The files, the login settings, the registrations and the menu at each place.
Filed ==
  /\ pc \in {"prepare"} \cup Preparing \cup Switching => files = tx.files
  /\ pc \in Backward /\ ~tx.artifacts => files = tx.files
  /\ pc \in Moving \cup Ending /\ ~tx.bad => files = tx.files
But(j) == disabled \ {j} = tx.disabled \ {j}
Disabled ==
  /\ pc \in {"prepare", "unlock", "enable", "retire", "move", "set", "on"} \cup Preparing \cup Writing =>
       disabled = tx.disabled
  /\ pc \in Published \cup Stopping \cup Filing \cup Moving
           \cup {"undo_unlock", "undo_menus", "undo_worker", "undo_worker_login", "boot", "off"} =>
       But("worker")
  /\ pc \in {"start", "redisable", "boot", "off"} => disabled \subseteq tx.disabled
  /\ pc = "undo_menu_job" /\ ~tx.bad => disabled = tx.disabled
  /\ pc = "undo_menu_login" /\ ~tx.bad => But("menu")
  /\ pc = "undo_end" /\ ~tx.bad => disabled = tx.disabled
Back(j) == tx.job[j] # "leaving" => job[j] = tx.job[j]
Started == {"redisable", "retire", "move", "finish"}
Registered ==
  /\ pc \in {"prepare"} \cup (Switching \ {"off"}) => \A j \in Jobs : Back(j)
  /\ pc = "off" /\ tx.bad => \A j \in Jobs : Back(j)
  /\ Active =>
       /\ \A j \in Jobs : tx.job[j] = "loaded" => job[j] # "leaving" \/ j \in tx.pending
       /\ pc \notin {"undo_menu_login", "undo_end"} /\ tx.job["menu"] = "absent" => job["menu"] = "absent"
       /\ pc \notin Started \cup {"undo_worker_login", "undo_menu_job", "undo_menu_login", "undo_end"}
          /\ ~(pc \in Stopping /\ tx.artifacts) /\ tx.job["worker"] = "absent" => job["worker"] = "absent"
  /\ pc \in {"undo_worker_login", "undo_menu_job", "undo_menu_login", "undo_end"} /\ ~tx.bad => Back("worker")
  /\ pc \in {"undo_menu_login", "undo_end"} /\ ~tx.bad => Back("menu")
Menus ==
  /\ pc \in {"prepare"} \cup Switching /\ tx.menu => menu
  /\ pc \in {"undo_worker", "undo_worker_login", "undo_menu_job", "undo_menu_login", "undo_end"}
     /\ ~tx.bad /\ tx.menu => menu
Untouched ==
  /\ pc \in {"prepare"} \cup Switching /\ ~tx.touched => app = tx.app /\ legacy = tx.legacy
  /\ pc \in Switching => tx.release = None
Idle == pc = "idle" => rlock # "installer" /\ (outcome = "failed" => ~Marked(app, Me))

Inv == /\ Fresh /\ Knowing /\ Placing /\ Completed /\ Filed /\ Disabled /\ Registered /\ Menus
       /\ Untouched /\ Idle /\ AsBefore /\ NothingLost

----------------------------------------------------------------------------
(* Steps that change nothing but their place, the runtime lock or the menu. *)

Walk ==
  \/ MenuStop \/ Lock("lock", "backup") \/ Unlock("unlock", "enable") \/ Retire \/ Fails
  \/ UndoMenu \/ Lock("undo_lock", "undo_files") \/ UndoCheck \/ UndoDone
  \/ Unlock("undo_unlock", "undo_menus")

LEMMA WalkKeeps == ASSUME Typed, Inv, Walk PROVE Typed' /\ Inv'
<1> DEFINE Steps == {<<"menu_stop", "stop_worker">>, <<"lock", "backup">>, <<"unlock", "enable">>,
                     <<"undo_menu", "undo_lock">>, <<"undo_lock", "undo_files">>,
                     <<"undo_unlock", "undo_menus">>}
<1>1. /\ UNCHANGED <<app, legacy, parked, retired, releases, backups, files, job, disabled, tx, outcome,
                     given, left, placed>>
      /\ rlock' \in {rlock, "installer", "free"} /\ menu' \in {menu, FALSE}
  BY DEF Walk, MenuStop, Lock, Unlock, Retire, Fails, UndoMenu, UndoCheck, UndoDone, Onward, Go,
         disk, kept, launchd, bounds, procs
<1>2. \/ <<pc, pc'>> \in Steps
      \/ pc = "retire" /\ pc' = "finish" /\ tx.legacy = None
      \/ pc = "retire" /\ pc' = "move" /\ tx.legacy # None
      \/ pc = "undo_done" /\ pc' = "undo_unlock" /\ ~tx.published /\ ~tx.bad
      \/ pc = "exchange" /\ pc' = "verify"
      \/ pc = "undo_app" /\ pc' = "undo_exchange" /\ tx.published
      \/ pc = "undo_app" /\ pc' = "undo_done"
      \/ pc \in Forward \ {"exchange", "finish"} /\ pc' = "undo"
  BY DEF Walk, MenuStop, Lock, Unlock, Retire, Fails, UndoMenu, UndoCheck, UndoDone, Onward, Go, Forward, Preparing, Writing, Published
<1>3. Typed'
  BY <1>1 DEF Typed, TypedDisk, TypedKept, TypedHost, TypedCommand
<1> USE DEF Inv
<1>4. Fresh'
  BY <1>1, <1>2 DEF Fresh, Marked, Mark, Switching, Removing
<1>5. Knowing'
  BY <1>1, <1>2 DEF Knowing, Active, Cleaning, Forward, Backward, Preparing, Writing, Published, Stopping, Filing, Moving, Ending, Marked, Mark, Me, Managed, Held
<1>6. Placing'
  BY <1>1, <1>2 DEF Knowing, Placing, Active, Cleaning, Forward, Backward, Preparing, Writing, Published, Stopping, Filing, Moving, Ending, Marked, Mark, Me, Same, Staged
<1>7. Completed'
  BY <1>1, <1>2 DEF Completed, Held, Me
<1>8. Filed'
  BY <1>1, <1>2 DEF Knowing, Filed, Forward, Backward, Preparing, Writing, Published, Stopping, Filing, Moving, Ending, Switching
<1>9. Disabled'
  BY <1>1, <1>2 DEF Disabled, But, Forward, Backward, Preparing, Writing, Published, Stopping, Filing, Moving, Ending, Switching
<1>10. Registered'
  BY <1>1, <1>2 DEF Knowing, Registered, Back, Started, Active, Forward, Backward, Preparing, Writing, Published, Stopping, Filing, Moving, Ending, Switching
<1>11. Menus' /\ Untouched' /\ Idle'
  BY <1>1, <1>2 DEF Menus, Untouched, Idle, Switching
<1>12. AsBefore'
  BY <1>1, <1>2 DEF AsBefore
<1>13. NothingLost'
  BY <1>1, <1>2 DEF NothingLost, UsersKept, Recoverable, Held, Range
<1> QED BY <1>3, <1>4, <1>5, <1>6, <1>7, <1>8, <1>9, <1>10, <1>11, <1>12, <1>13
----------------------------------------------------------------------------
(* What a step does to the locals of the command, field by field.          *)

\* What was read at first, and what was found when it was prepared.
First == UNCHANGED <<tx.release, tx.files, tx.job, tx.disabled, tx.menu>>
Found == UNCHANGED <<tx.app, tx.legacy, tx.touched>>

LEMMA TxPending ==
  ASSUME tx \in Txs, NEW v \in SUBSET Jobs, tx' = [tx EXCEPT !.pending = v]
  PROVE  /\ tx' \in Txs /\ First /\ Found /\ tx'.pending = v
         /\ UNCHANGED <<tx.published, tx.moved, tx.artifacts, tx.bad>>
BY DEF Txs, First, Found

LEMMA TxArtifacts ==
  ASSUME tx \in Txs, NEW v \in BOOLEAN, tx' = [tx EXCEPT !.artifacts = v]
  PROVE  /\ tx' \in Txs /\ First /\ Found /\ tx'.artifacts = v
         /\ UNCHANGED <<tx.published, tx.moved, tx.pending, tx.bad>>
BY DEF Txs, First, Found

LEMMA TxPublished ==
  ASSUME tx \in Txs, NEW v \in BOOLEAN, tx' = [tx EXCEPT !.published = v]
  PROVE  /\ tx' \in Txs /\ First /\ Found /\ tx'.published = v
         /\ UNCHANGED <<tx.artifacts, tx.moved, tx.pending, tx.bad>>
BY DEF Txs, First, Found

LEMMA TxMoved ==
  ASSUME tx \in Txs, NEW v \in BOOLEAN, tx' = [tx EXCEPT !.moved = v]
  PROVE  /\ tx' \in Txs /\ First /\ Found /\ tx'.moved = v
         /\ UNCHANGED <<tx.published, tx.artifacts, tx.pending, tx.bad>>
BY DEF Txs, First, Found

\* A part of the roll-back that fails is remembered.
Tried == UNCHANGED tx \/ tx' = [tx EXCEPT !.bad = TRUE]
LEMMA TxTried ==
  ASSUME tx \in Txs, Tried
  PROVE  /\ tx' \in Txs /\ First /\ Found /\ (tx.bad => tx'.bad)
         /\ UNCHANGED <<tx.published, tx.moved, tx.artifacts, tx.pending>>
         /\ tx' = [tx EXCEPT !.bad = TRUE] => tx'.bad
BY DEF Txs, First, Found, Tried

LEMMA TxTouched ==
  ASSUME tx \in Txs, tx' = [tx EXCEPT !.touched = TRUE]
  PROVE  /\ tx' \in Txs /\ First /\ tx'.touched
         /\ UNCHANGED <<tx.app, tx.legacy, tx.published, tx.moved, tx.artifacts, tx.pending, tx.bad>>
BY DEF Txs, First

LEMMA TxPrepared ==
  ASSUME tx \in Txs, NEW a \in Standing, NEW l \in Standing,
         tx' = [tx EXCEPT !.app = a, !.touched = FALSE, !.legacy = l]
  PROVE  /\ tx' \in Txs /\ First /\ tx'.app = a /\ tx'.legacy = l /\ ~tx'.touched
         /\ UNCHANGED <<tx.published, tx.moved, tx.artifacts, tx.pending, tx.bad>>
BY DEF Txs, First

----------------------------------------------------------------------------
(* Stopping the jobs.                                                      *)

LEMMA StopKeeps ==
  ASSUME Typed, Inv, NEW j \in Jobs, NEW here, NEW next, Stop(j, here, next),
         <<j, here, next>> \in {<<"worker", "stop_worker", "await_worker">>, <<"menu", "stop_menu", "await_menu">>,
           <<"worker", "undo_stop", "undo_await">>, <<"worker", "remove_worker", "removed_worker">>,
           <<"menu", "remove_menu", "removed_menu">>}
  PROVE  Typed' /\ Inv'
<1>1. /\ UNCHANGED <<app, legacy, parked, retired, releases, backups, files, disabled, outcome, given, left,
                     placed, rlock, menu>>
      /\ pc = here /\ pc' = next
  BY DEF Stop, Go, Bootout, disk, kept, procs, bounds
<1>2. /\ job' \in [Jobs -> JobStates] /\ \A k \in Jobs \ {j} : job'[k] = job[k]
      /\ job'[j] = IF job[j] = "loaded" THEN "leaving" ELSE job[j]
  BY DEF Stop, Bootout, Typed, TypedHost, JobStates
<1>3. /\ tx' \in Txs /\ First /\ Found /\ tx'.pending = tx.pending \cup {j}
      /\ UNCHANGED <<tx.published, tx.moved, tx.artifacts, tx.bad>>
  <2>1. tx.pending \cup {j} \in SUBSET Jobs /\ tx' = [tx EXCEPT !.pending = tx.pending \cup {j}]
    BY DEF Stop, Bootout, Typed, TypedCommand, Txs
  <2> QED BY <2>1, TxPending DEF Typed, TypedCommand
<1>4. Typed'
  BY <1>1, <1>2, <1>3 DEF Typed, TypedDisk, TypedKept, TypedHost, TypedCommand
<1> USE <1>1, <1>3 DEF Inv, First, Found
<1>5. Fresh' /\ Completed' /\ NothingLost' /\ AsBefore'
  BY DEF Fresh, Completed, NothingLost, UsersKept, Recoverable, AsBefore, Held, Range, Marked, Mark, Me,
         Switching, Removing
<1>6. Knowing'
  BY DEF Knowing, Active, Cleaning, Forward, Backward, Preparing, Writing, Published, Stopping, Filing, Moving,
         Ending, Marked, Mark, Me, Managed, Held
<1>7. Placing'
  BY DEF Placing, Active, Forward, Backward, Preparing, Writing, Published, Stopping, Filing, Moving,
         Ending, Marked, Mark, Me, Same, Staged
<1>8. Filed' /\ Disabled'
  BY DEF Filed, Disabled, But, Backward, Preparing, Writing, Published, Stopping, Filing, Moving, Ending, Switching
<1>9. Registered'
  BY <1>2 DEF Knowing, Registered, Back, Started, Active, Forward, Backward, Preparing, Writing, Published, Stopping,
              Filing, Moving, Ending, Switching, Jobs
<1>10. Menus' /\ Untouched' /\ Idle'
  BY DEF Menus, Untouched, Idle, Switching
<1> QED BY <1>4, <1>5, <1>6, <1>7, <1>8, <1>9, <1>10

LEMMA AwaitKeeps ==
  ASSUME Typed, Inv, NEW j \in Jobs, NEW here, NEW next, Await(j, here, next),
         <<j, here, next>> \in {<<"worker", "await_worker", "stop_menu">>, <<"menu", "await_menu", "lock">>,
           <<"worker", "undo_await", "undo_menu">>, <<"worker", "removed_worker", "remove_menu">>,
           <<"menu", "removed_menu", "remove_menus">>}
  PROVE  Typed' /\ Inv'
<1>1. /\ UNCHANGED <<app, legacy, parked, retired, releases, backups, files, job, disabled, outcome, given, left,
                     placed, rlock, menu>>
      /\ pc = here /\ pc' = next /\ job[j] = "absent"
  BY DEF Await, Go, disk, kept, launchd, procs, bounds
<1>3. /\ tx' \in Txs /\ First /\ Found /\ tx'.pending = tx.pending \ {j}
      /\ UNCHANGED <<tx.published, tx.moved, tx.artifacts, tx.bad>>
  <2>1. tx.pending \ {j} \in SUBSET Jobs /\ tx' = [tx EXCEPT !.pending = tx.pending \ {j}]
    BY DEF Await, Typed, TypedCommand, Txs
  <2> QED BY <2>1, TxPending DEF Typed, TypedCommand
<1>4. Typed'
  BY <1>1, <1>3 DEF Typed, TypedDisk, TypedKept, TypedHost, TypedCommand
<1> USE <1>1, <1>3 DEF Inv, First, Found
<1>5. Fresh' /\ Completed' /\ NothingLost' /\ AsBefore'
  BY DEF Fresh, Completed, NothingLost, UsersKept, Recoverable, AsBefore, Held, Range, Marked, Mark, Me,
         Switching, Removing
<1>6. Knowing'
  BY DEF Knowing, Active, Cleaning, Forward, Backward, Preparing, Writing, Published, Stopping, Filing, Moving,
         Ending, Marked, Mark, Me, Managed, Held
<1>7. Placing'
  BY DEF Placing, Active, Forward, Backward, Preparing, Writing, Published, Stopping, Filing, Moving,
         Ending, Marked, Mark, Me, Same, Staged
<1>8. Filed' /\ Disabled'
  BY DEF Filed, Disabled, But, Backward, Preparing, Writing, Published, Stopping, Filing, Moving, Ending, Switching
<1>9. Registered'
  BY DEF Knowing, Registered, Back, Started, Active, Forward, Backward, Preparing, Writing, Published, Stopping,
         Filing, Moving, Ending, Switching, Jobs
<1>10. Menus' /\ Untouched' /\ Idle'
  BY DEF Menus, Untouched, Idle, Switching
<1> QED BY <1>4, <1>5, <1>6, <1>7, <1>8, <1>9, <1>10
----------------------------------------------------------------------------
(* The installation, step by step.                                         *)

LEMMA StagedStands ==
  ASSUME Typed, tx.release \in Releases
  PROVE  Staged \in Standing /\ Marked(Staged, Me)
<1>0. given \in Nat
  BY BoundsAssumption DEF Typed, TypedCommand
<1>1. /\ Staged \in [id: {"before", "staged", "user"} \X Nat, contents: Releases \cup {Other}]
      /\ Staged.id = Mark(Me) /\ Staged.id[1] = "staged"
  BY <1>0 DEF Staged, Entry, Mark, Me
<1> QED BY <1>1, ContentsAssumption DEF Standing, Entries, Marked

LEMMA PrepareKeeps == ASSUME Typed, Inv, Prepare PROVE Typed' /\ Inv'
<1>1. /\ UNCHANGED <<app, legacy, retired, releases, backups, files, job, disabled, outcome, given, left,
                     placed, rlock, menu>>
      /\ pc = "prepare" /\ pc' = "menu_stop" /\ Managed(app)
  BY DEF Prepare, Go, kept, launchd, procs, bounds
<1>2. Migrated \in {legacy, None} /\ Managed(Migrated) /\ Migrated \in Standing
  BY DEF Migrated, Managed, Typed, TypedDisk, Standing
<1>3. /\ tx' \in Txs /\ First /\ tx'.app = app /\ tx'.legacy = Migrated /\ ~tx'.touched
      /\ UNCHANGED <<tx.published, tx.moved, tx.artifacts, tx.pending, tx.bad>>
  BY <1>2, TxPrepared DEF Prepare, Typed, TypedDisk, TypedCommand
<1>4. given \in Ids /\ tx.release \in Held /\ tx.release \in Releases
  BY <1>1 DEF Inv, Knowing, Typed, TypedCommand, Ids, Held
<1>5. Staged \in Standing /\ Marked(Staged, Me)
  BY <1>4, StagedStands
<1>6. /\ parked' = [parked EXCEPT ![Me] = Staged] /\ parked' \in [Ids -> Standing]
      /\ parked'[Me] = Staged /\ \A t \in Ids \ {Me} : parked'[t] = parked[t]
  BY <1>4, <1>5 DEF Prepare, Typed, TypedDisk, Me
<1>7. Typed'
  BY <1>1, <1>3, <1>6 DEF Typed, TypedDisk, TypedKept, TypedHost, TypedCommand
<1>8. parked[Me] = None /\ retired[Me] = None /\ ~Marked(app, Me) /\ ~Marked(legacy, Me)
  BY <1>1, <1>4 DEF Inv, Fresh, Me
<1> USE <1>1, <1>3, <1>4 DEF Inv, First
<1>9. Fresh' /\ AsBefore'
  <2>1. \A t \in Ids \ {Me} : ~Marked(Staged, t)
    BY <1>5 DEF Marked, Mark
  <2>2. ASSUME NEW t \in Ids, t > given
        PROVE  t # Me /\ \A u \in Ids : ~Marked(parked'[u], t) /\ ~Marked(retired'[u], t)
    BY <1>6, <2>1, <2>2 DEF Fresh, Me, Ids, Marked, Mark
  <2> QED BY <1>6, <2>2 DEF Fresh, AsBefore, Marked, Mark, Me, Switching, Removing
<1>10. Knowing'
  BY <1>2, <1>8 DEF Knowing, Active, Cleaning, Forward, Backward, Preparing, Writing, Published, Stopping, Filing, Moving,
         Ending, Marked, Mark, Me, Managed, Held
<1>11. Placing'
  BY <1>2, <1>5, <1>6, <1>8 DEF Knowing, Placing, Preparing, Writing, Published, Me, Marked, Mark, Staged
<1>12. Completed'
  BY <1>6, <1>8 DEF Completed, Fresh, Held, Me
<1>13. NothingLost'
  <2>1. UsersKept'
    <3>1. \A t \in Ids : parked[t] # None => parked'[t] = parked[t]
      BY <1>6, <1>8
    <3>2. \A e \in placed : e # None
      BY ContentsAssumption DEF Typed, TypedCommand, Entries
    <3> QED BY <1>6, <3>1, <3>2 DEF NothingLost, UsersKept, Range, Typed, TypedDisk
  <2>2. Recoverable'
    BY <1>5, <1>6 DEF NothingLost, Recoverable, Held, Marked, Mark, Me
  <2> QED BY <2>1, <2>2 DEF NothingLost
<1>14. Filed' /\ Disabled' /\ Menus' /\ Untouched' /\ Idle'
  BY DEF Filed, Disabled, But, Menus, Untouched, Idle, Backward, Preparing, Writing, Published, Stopping, Filing, Moving,
         Ending, Switching
<1>15. Registered'
  BY DEF Registered, Back, Active, Forward, Backward, Preparing, Writing, Published, Stopping, Filing, Moving, Ending,
         Switching, Jobs
<1> QED BY <1>7, <1>9, <1>10, <1>11, <1>12, <1>13, <1>14, <1>15

LEMMA BackupKeeps == ASSUME Typed, Inv, Backup PROVE Typed' /\ Inv'
<1>1. /\ UNCHANGED <<app, legacy, parked, retired, releases, files, job, disabled, outcome, given, left,
                     placed, rlock, menu>>
      /\ pc = "backup" /\ pc' \in {"config", "undo"}
  BY DEF Backup, Onward, disk, launchd, procs, bounds
<1>2. /\ tx' \in Txs /\ First /\ Found /\ (tx'.artifacts <=> pc' = "config")
      /\ UNCHANGED <<tx.published, tx.moved, tx.pending, tx.bad>>
  <2>1. (pc' = "config") \in BOOLEAN /\ tx' = [tx EXCEPT !.artifacts = (pc' = "config")]
    BY DEF Backup
  <2> QED BY <2>1, TxArtifacts DEF Typed, TypedCommand
<1>3. given \in Ids /\ tx.release \in Held /\ Managed(tx.app) /\ Managed(tx.legacy)
  BY <1>1 DEF Inv, Knowing, Typed, TypedCommand, Ids, Active, Forward, Preparing
<1>4. Named \subseteq Held /\ Held \subseteq Releases
  BY <1>3 DEF Named, Managed, Held
<1>5. /\ backups' \in [Ids -> [state: {"none", "kept", "completed"}, names: SUBSET (Releases \cup {Other})]]
      /\ backups'[Me].state = "kept" /\ backups'[Me].names = Named
      /\ \A t \in Ids \ {Me} : backups'[t] = backups[t]
  <2> DEFINE new == [state |-> "kept", names |-> Named]
  <2>1. new \in [state: {"none", "kept", "completed"}, names: SUBSET (Releases \cup {Other})]
        /\ new.state = "kept" /\ new.names = Named
    BY <1>4
  <2>2. backups' = [backups EXCEPT ![Me] = new]
    BY DEF Backup
  <2> HIDE DEF new
  <2> QED BY <1>3, <2>1, <2>2 DEF Typed, TypedKept, Me
<1>6. Typed'
  BY <1>1, <1>2, <1>5 DEF Typed, TypedDisk, TypedKept, TypedHost, TypedCommand
<1> USE <1>1, <1>2, <1>3 DEF Inv, First, Found
<1>7. Fresh' /\ AsBefore'
  BY <1>5 DEF Fresh, AsBefore, Marked, Mark, Me, Switching, Removing, Ids
<1>8. Knowing'
  BY DEF Knowing, Active, Cleaning, Forward, Backward, Preparing, Writing, Published, Stopping, Filing, Moving,
         Ending, Marked, Mark, Me, Managed, Held
<1>9. Placing'
  BY <1>5 DEF Placing, Active, Forward, Backward, Preparing, Writing, Published, Stopping, Filing, Moving,
         Ending, Marked, Mark, Me, Same, Staged
<1>10. Completed' /\ NothingLost'
  BY <1>4, <1>5 DEF Completed, NothingLost, UsersKept, Recoverable, Held, Range, Me
<1>11. Filed' /\ Disabled'
  BY DEF Filed, Disabled, But, Backward, Preparing, Writing, Published, Stopping, Filing, Moving, Ending, Switching
<1>12. Registered'
  BY DEF Knowing, Registered, Back, Started, Active, Forward, Backward, Preparing, Writing, Published, Stopping,
         Filing, Moving, Ending, Switching
<1>13. Menus' /\ Untouched' /\ Idle'
  BY DEF Menus, Untouched, Idle, Switching
<1> QED BY <1>6, <1>7, <1>8, <1>9, <1>10, <1>11, <1>12, <1>13

LEMMA WriteKeeps ==
  ASSUME Typed, Inv, Write("config", "plist", "config", Me) \/ Write("plist", "unmenu", "worker", "new")
                     \/ Write("unmenu", "publish", "menu", None)
  PROVE  Typed' /\ Inv'
<1>1. /\ UNCHANGED <<app, legacy, parked, retired, releases, backups, job, disabled, tx, outcome, given, left,
                     placed, rlock, menu>>
      /\ pc \in {"config", "plist", "unmenu"} /\ pc' \in {"plist", "unmenu", "publish", "undo"}
  BY DEF Write, Onward, disk, kept, launchd, procs, bounds
<1>2. files' \in FileSets
  BY DEF Write, FileSets, Me, Typed, TypedHost, TypedCommand
<1>3. Typed'
  BY <1>1, <1>2 DEF Typed, TypedDisk, TypedKept, TypedHost, TypedCommand
<1> USE <1>1 DEF Inv
<1>4. Fresh' /\ Completed' /\ NothingLost' /\ AsBefore'
  BY DEF Fresh, Completed, NothingLost, UsersKept, Recoverable, AsBefore, Held, Range, Marked, Mark, Me,
         Switching, Removing
<1>5. Knowing'
  BY DEF Knowing, Active, Cleaning, Forward, Backward, Preparing, Writing, Published, Stopping, Filing, Moving,
         Ending, Marked, Mark, Me, Managed, Held
<1>6. Placing'
  BY DEF Placing, Active, Forward, Backward, Preparing, Writing, Published, Stopping, Filing, Moving,
         Ending, Marked, Mark, Me, Same, Staged
<1>7. Filed' /\ Disabled'
  BY DEF Knowing, Filed, Disabled, But, Backward, Preparing, Writing, Published, Stopping, Filing, Moving, Ending, Switching
<1>8. Registered'
  BY DEF Registered, Back, Started, Active, Forward, Backward, Preparing, Writing, Published, Stopping,
         Filing, Moving, Ending, Switching
<1>9. Menus' /\ Untouched' /\ Idle'
  BY DEF Menus, Untouched, Idle, Switching
<1> QED BY <1>3, <1>4, <1>5, <1>6, <1>7, <1>8, <1>9

LEMMA StartsKeep == ASSUME Typed, Inv, Enable \/ Start \/ Redisable PROVE Typed' /\ Inv'
<1>1. /\ UNCHANGED <<app, legacy, parked, retired, releases, backups, files, tx, outcome, given, left,
                     placed, rlock, menu>>
      /\ \/ pc = "enable" /\ pc' \in {"start", "undo"} /\ disabled' = disabled \ {"worker"} /\ job' = job
         \/ pc = "start" /\ pc' \in {"redisable", "undo"} /\ disabled' = disabled
         \/ /\ pc = "redisable" /\ pc' \in {"retire", "undo"} /\ job' = job
            /\ disabled' = disabled \cup (tx.disabled \cap {"worker"})
  BY DEF Enable, Start, Redisable, Onward, disk, kept, procs, bounds
<1>2. /\ job' \in [Jobs -> JobStates] /\ job'["menu"] = job["menu"]
      /\ \/ job'["worker"] = job["worker"]
         \/ pc = "start" /\ job["worker"] = "absent" /\ job'["worker"] = "loaded"
  <2>1. CASE Start
    BY <2>1 DEF Start, Bootstrap, Onward, Typed, TypedHost, JobStates, Jobs
  <2>2. CASE Enable \/ Redisable
    BY <2>2 DEF Enable, Redisable, Typed, TypedHost
  <2> QED BY <2>1, <2>2
<1>3. Typed'
  BY <1>1, <1>2 DEF Typed, TypedDisk, TypedKept, TypedHost, TypedCommand, Jobs
<1> USE <1>1 DEF Inv
<1>4. Fresh' /\ Completed' /\ NothingLost' /\ AsBefore'
  BY DEF Fresh, Completed, NothingLost, UsersKept, Recoverable, AsBefore, Held, Range, Marked, Mark, Me,
         Switching, Removing
<1>5. Knowing'
  BY DEF Knowing, Active, Cleaning, Forward, Backward, Preparing, Writing, Published, Stopping, Filing, Moving,
         Ending, Marked, Mark, Me, Managed, Held
<1>6. Placing'
  BY DEF Placing, Active, Forward, Backward, Preparing, Writing, Published, Stopping, Filing, Moving,
         Ending, Marked, Mark, Me, Same, Staged
<1>7. Filed' /\ Menus' /\ Untouched' /\ Idle'
  BY DEF Knowing, Filed, Menus, Untouched, Idle, Backward, Preparing, Writing, Published, Stopping, Filing, Moving, Ending, Switching
<1>8. Disabled'
  <2>1. tx.disabled \subseteq Jobs /\ disabled \subseteq Jobs
    BY DEF Typed, TypedHost, TypedCommand, Txs
  <2> QED BY <2>1 DEF Disabled, But, Preparing, Writing, Published, Stopping, Filing, Moving, Jobs
<1>9. Registered'
  BY <1>2 DEF Knowing, Registered, Back, Started, Active, Forward, Backward, Preparing, Writing, Published, Stopping,
         Filing, Moving, Ending, Switching, Jobs
<1> QED BY <1>3, <1>4, <1>5, <1>6, <1>7, <1>8, <1>9
----------------------------------------------------------------------------
(* Publishing the new application and taking the legacy one away.          *)

\* What is someone's and what is managed is not the same.
LEMMA UsersUnmanaged ==
  ASSUME Typed, NEW e \in placed
  PROVE  e # None /\ ~Marked(e, Me) /\ \A a \in Standing : Managed(a) => ~Same(e, a) /\ e # a
<1>1. e \in Entries /\ e.id[1] = "user" /\ e # None
  BY ContentsAssumption DEF Typed, TypedCommand, Entries
<1>2. ~Marked(e, Me)
  BY <1>1 DEF Marked, Mark
<1>3. ASSUME NEW a \in Standing, Managed(a) PROVE ~Same(e, a) /\ e # a
  BY <1>1, <1>3, ContentsAssumption DEF Same, Managed, Standing, Entries, Held
<1> QED BY <1>1, <1>2, <1>3

LEMMA CheckKeeps == ASSUME Typed, Inv, Check PROVE Typed' /\ Inv'
<1>1. /\ UNCHANGED <<app, legacy, parked, retired, releases, backups, files, job, disabled, outcome, given, left,
                     placed, rlock, menu>>
      /\ pc = "publish" /\ pc' = IF app = tx.app THEN "exchange" ELSE "undo"
  BY DEF Check, disk, kept, launchd, procs, bounds
<1>2. /\ tx' \in Txs /\ First /\ Found /\ (tx'.published <=> app = tx.app)
      /\ UNCHANGED <<tx.artifacts, tx.moved, tx.pending, tx.bad>>
  <2>1. (app = tx.app) \in BOOLEAN /\ tx' = [tx EXCEPT !.published = (app = tx.app)]
    BY DEF Check
  <2> QED BY <2>1, TxPublished DEF Typed, TypedCommand
<1>3. Typed'
  BY <1>1, <1>2 DEF Typed, TypedDisk, TypedKept, TypedHost, TypedCommand
<1> USE <1>1, <1>2 DEF Inv, First, Found
<1>4. Fresh' /\ Completed' /\ NothingLost' /\ AsBefore'
  BY DEF Fresh, Completed, NothingLost, UsersKept, Recoverable, AsBefore, Held, Range, Marked, Mark, Me,
         Switching, Removing
<1>5. Knowing'
  BY DEF Knowing, Active, Cleaning, Forward, Backward, Preparing, Writing, Published, Stopping, Filing, Moving,
         Ending, Marked, Mark, Me, Managed, Held
<1>6. Placing'
  BY DEF Knowing, Placing, Active, Forward, Backward, Preparing, Writing, Published, Stopping, Filing, Moving,
         Ending, Marked, Mark, Me, Same, Staged
<1>7. Filed' /\ Disabled'
  BY DEF Knowing, Filed, Disabled, But, Backward, Preparing, Writing, Published, Stopping, Filing, Moving, Ending, Switching
<1>8. Registered'
  BY DEF Registered, Back, Started, Active, Forward, Backward, Preparing, Writing, Published, Stopping,
         Filing, Moving, Ending, Switching
<1>9. Menus' /\ Untouched' /\ Idle'
  BY DEF Menus, Untouched, Idle, Switching
<1> QED BY <1>3, <1>4, <1>5, <1>6, <1>7, <1>8, <1>9

\* What stands in the two places of an exchange, afterwards.
LEMMA Exchanged ==
  ASSUME TypedDisk, given \in Ids, app' = parked[Me], parked' = [parked EXCEPT ![Me] = app],
         UNCHANGED <<legacy, retired, given>>
  PROVE  /\ TypedDisk' /\ parked'[Me] = app /\ \A t \in Ids \ {Me} : parked'[t] = parked[t]
         /\ {app', legacy'} \cup Range(parked') \cup Range(retired')
              = {app, legacy} \cup Range(parked) \cup Range(retired)
<1>1. /\ parked'[Me] = app /\ \A t \in Ids \ {Me} : parked'[t] = parked[t]
      /\ parked' \in [Ids -> Standing]
  BY DEF TypedDisk, Me
<1>2. TypedDisk'
  BY <1>1 DEF TypedDisk, Me
<1>3. Range(parked) = {parked[t] : t \in Ids} /\ Range(parked') = {parked'[t] : t \in Ids}
  BY <1>2 DEF Range, TypedDisk
<1>4. {app'} \cup Range(parked') = {app} \cup Range(parked)
  BY <1>1, <1>3 DEF Me
<1> QED BY <1>1, <1>2, <1>4

LEMMA ExchangeKeeps == ASSUME Typed, Inv, Exchange \/ UndoExchange PROVE Typed' /\ Inv'
<1>1. /\ UNCHANGED <<legacy, retired, releases, backups, files, job, disabled, tx, outcome, given, left,
                     placed, rlock, menu>>
      /\ <<pc, pc'>> \in {<<"exchange", "verify">>, <<"undo_exchange", "undo_verify">>}
      /\ \/ UNCHANGED <<app, parked>>
         \/ app' = parked[Me] /\ parked' = [parked EXCEPT ![Me] = app]
  BY DEF Exchange, UndoExchange, Go, kept, launchd, procs, bounds
<1>2. given \in Ids /\ tx.published /\ Active
  BY <1>1 DEF Inv, Knowing, Active, Forward, Writing, Backward, Moving, Typed, TypedCommand, Ids
<1>3. /\ TypedDisk'
      /\ {app', legacy'} \cup Range(parked') \cup Range(retired')
              = {app, legacy} \cup Range(parked) \cup Range(retired)
      /\ \A t \in Ids \ {Me} : parked'[t] = parked[t]
      /\ <<app', parked'[Me]>> \in {<<app, parked[Me]>>, <<parked[Me], app>>}
  <2>1. CASE UNCHANGED <<app, parked>>
    BY <1>1, <2>1 DEF Typed, TypedDisk, Range
  <2>2. CASE app' = parked[Me] /\ parked' = [parked EXCEPT ![Me] = app]
    BY <1>1, <1>2, <2>2, Exchanged DEF Typed
  <2> QED BY <1>1, <2>1, <2>2
<1>4. Typed'
  BY <1>1, <1>3 DEF Typed, TypedKept, TypedHost, TypedCommand
<1> USE <1>1, <1>2 DEF Inv
<1>5. Fresh' /\ AsBefore'
  BY <1>3 DEF Fresh, AsBefore, Marked, Mark, Me, Switching, Removing, Ids
<1>6. Knowing'
  BY DEF Knowing, Active, Cleaning, Forward, Backward, Preparing, Writing, Published, Stopping, Filing, Moving,
         Ending, Marked, Mark, Me, Managed, Held
<1>7. Placing'
  BY <1>3 DEF Placing, Published, Marked, Mark, Me, Staged
<1>8. NothingLost' /\ Completed'
  <2>1. UsersKept'
    BY <1>3 DEF NothingLost, UsersKept
  <2>2. backups[Me].state = "kept"
    BY DEF Placing
  <2>3. Recoverable'
    BY <1>3, <2>2 DEF NothingLost, Recoverable, Held, Me
  <2>4. Completed'
    BY <1>3, <2>2 DEF Completed, Held, Me
  <2> QED BY <2>1, <2>3, <2>4 DEF NothingLost
<1>9. Filed' /\ Disabled' /\ Menus' /\ Untouched' /\ Idle'
  BY DEF Filed, Disabled, But, Menus, Untouched, Idle, Backward, Preparing, Writing, Published, Stopping, Filing,
         Moving, Ending, Switching
<1>10. Registered'
  BY DEF Registered, Back, Started, Active, Forward, Backward, Preparing, Writing, Published, Stopping,
         Filing, Moving, Ending, Switching
<1> QED BY <1>4, <1>5, <1>6, <1>7, <1>8, <1>9, <1>10

LEMMA VerifyKeeps == ASSUME Typed, Inv, Verify \/ UndoVerify PROVE Typed' /\ Inv'
<1>1. /\ UNCHANGED <<app, legacy, parked, retired, releases, backups, files, job, disabled, outcome, given, left,
                     placed, rlock, menu>>
      /\ \/ pc = "verify" /\ pc' = "undo"
         \/ pc = "verify" /\ pc' = "unlock" /\ app = Staged /\ Same(parked[Me], tx.app)
         \/ pc = "undo_verify" /\ pc' = "undo_done"
  BY DEF Verify, UndoVerify, Onward, Go, disk, kept, launchd, procs, bounds
<1>2. /\ tx' \in Txs /\ First /\ Found /\ (tx'.published <=> ~(Same(app, tx.app) /\ Same(parked[Me], Staged)))
      /\ UNCHANGED <<tx.artifacts, tx.moved, tx.pending, tx.bad>>
  <2> DEFINE v == ~(Same(app, tx.app) /\ Same(parked[Me], Staged))
  <2>1. v \in BOOLEAN /\ tx' = [tx EXCEPT !.published = v]
    BY DEF Verify, UndoVerify
  <2> HIDE DEF v
  <2>2. /\ tx' \in Txs /\ First /\ Found /\ tx'.published = v
        /\ UNCHANGED <<tx.artifacts, tx.moved, tx.pending, tx.bad>>
    BY <2>1, TxPublished DEF Typed, TypedCommand
  <2> QED BY <2>2 DEF v
<1>3. Typed'
  BY <1>1, <1>2 DEF Typed, TypedDisk, TypedKept, TypedHost, TypedCommand
<1>4. /\ Staged \in Standing /\ Marked(Staged, Me) /\ ~Marked(tx.app, Me)
      /\ tx.published /\ tx.artifacts /\ ~tx.moved /\ (pc = "verify" => ~tx.bad)
  <2>1. given \in Ids /\ tx.release \in Releases /\ Active
    BY <1>1 DEF Inv, Knowing, Active, Forward, Writing, Backward, Moving, Typed, TypedCommand, Ids, Held
  <2> QED BY <1>1, <2>1, StagedStands DEF Inv, Knowing, Forward, Writing, Moving
<1> USE <1>1, <1>2, <1>4 DEF Inv, First, Found
<1>5. Fresh' /\ Completed' /\ NothingLost' /\ AsBefore'
  BY DEF Fresh, Completed, NothingLost, UsersKept, Recoverable, AsBefore, Held, Range, Marked, Mark, Me,
         Switching, Removing
<1>6. pc' = "unlock" => tx'.published
  BY DEF Same, Marked
<1>7. Knowing'
  BY <1>6 DEF Knowing, Active, Cleaning, Forward, Backward, Preparing, Writing, Published, Stopping, Filing, Moving,
         Ending, Marked, Mark, Me, Managed, Held
<1>8. Placing'
  <2>1. ~tx'.published => Marked(parked[Me], Me) /\ ~Marked(app, Me)
    BY DEF Same, Marked
  <2>2. app = Staged /\ parked[Me] = tx.app => tx'.published
    BY DEF Same, Marked
  <2>3. Staged' = Staged
    BY DEF Staged, Me
  <2> QED BY <2>1, <2>2, <2>3 DEF Placing, Active, Forward, Writing, Backward, Moving, Published, Marked, Mark, Me, Same
<1>9. Filed' /\ Disabled'
  BY DEF Filed, Disabled, But, Backward, Preparing, Writing, Published, Stopping, Filing, Moving, Ending, Switching
<1>10. Registered'
  BY DEF Registered, Back, Started, Active, Forward, Backward, Preparing, Writing, Published, Stopping,
         Filing, Moving, Ending, Switching
<1>11. Menus' /\ Untouched' /\ Idle'
  BY DEF Menus, Untouched, Idle, Switching
<1> QED BY <1>3, <1>5, <1>7, <1>8, <1>9, <1>10, <1>11
LEMMA MoveKeeps == ASSUME Typed, Inv, Move PROVE Typed' /\ Inv'
<1>1. /\ UNCHANGED <<app, parked, releases, backups, files, job, disabled, outcome, given, left, placed, rlock, menu>>
      /\ pc = "move" /\ legacy' = None /\ retired' = [retired EXCEPT ![Me] = legacy]
      /\ \/ pc' = "undo"
         \/ pc' = "finish" /\ legacy = tx.legacy
  BY DEF Move, Onward, Go, kept, launchd, procs, bounds
<1>2. /\ tx' \in Txs /\ First /\ Found /\ (tx'.moved <=> legacy # None)
      /\ UNCHANGED <<tx.published, tx.artifacts, tx.pending, tx.bad>>
  <2>1. (legacy # None) \in BOOLEAN /\ tx' = [tx EXCEPT !.moved = (legacy # None)]
    BY DEF Move
  <2> QED BY <2>1, TxMoved DEF Typed, TypedCommand
<1>3. /\ given \in Ids /\ tx.published /\ tx.artifacts /\ ~tx.moved /\ ~tx.bad /\ Active
      /\ tx.legacy # None /\ retired[Me] = None /\ backups[Me].state = "kept"
  BY <1>1 DEF Inv, Knowing, Placing, Active, Forward, Published, Typed, TypedCommand, Ids
<1>4. /\ retired' \in [Ids -> Standing] /\ retired'[Me] = legacy /\ \A t \in Ids \ {Me} : retired'[t] = retired[t]
  BY <1>1, <1>3 DEF Typed, TypedDisk, Me
<1>5. Typed'
  BY <1>1, <1>2, <1>4 DEF Typed, TypedDisk, TypedKept, TypedHost, TypedCommand, Standing
<1> USE <1>1, <1>2, <1>3 DEF Inv, First, Found
<1>6. Fresh' /\ AsBefore'
  BY <1>4 DEF Fresh, AsBefore, Marked, Mark, Me, Switching, Removing, Ids
<1>7. Knowing'
  BY DEF Knowing, Active, Cleaning, Forward, Backward, Preparing, Writing, Published, Stopping, Filing, Moving,
         Ending, Marked, Mark, Me, Managed, Held
<1>8. Placing'
  BY <1>4 DEF Placing, Published, Marked, Mark, Me, Staged, Same
<1>9. Completed'
  BY <1>4 DEF Completed, Held, Me
<1>10. NothingLost'
  <2>1. UsersKept'
    <3>1. \A e \in placed : e # None
      BY UsersUnmanaged
    <3>2. Range(retired) = {retired[t] : t \in Ids} /\ Range(retired') = {retired'[t] : t \in Ids}
      BY <1>4 DEF Typed, TypedDisk, Range
    <3>3. \A e \in Range(retired) \ {None} : e \in Range(retired')
      BY <1>4, <3>2
    <3>4. legacy \in Range(retired')
      BY <1>4, <3>2 DEF Me
    <3> QED BY <3>1, <3>3, <3>4 DEF NothingLost, UsersKept
  <2>2. Recoverable'
    BY <1>4 DEF NothingLost, Recoverable, Held, Me
  <2> QED BY <2>1, <2>2 DEF NothingLost
<1>11. Filed' /\ Disabled' /\ Menus' /\ Untouched' /\ Idle'
  BY DEF Filed, Disabled, But, Menus, Untouched, Idle, Backward, Preparing, Writing, Published, Stopping, Filing,
         Moving, Ending, Switching
<1>12. Registered'
  BY DEF Registered, Back, Started, Active, Forward, Backward, Preparing, Writing, Published, Stopping,
         Filing, Moving, Ending, Switching
<1> QED BY <1>5, <1>6, <1>7, <1>8, <1>9, <1>10, <1>11, <1>12

LEMMA CommittedKeeps == ASSUME Typed, Inv, Committed PROVE Typed' /\ Inv'
<1>1. /\ UNCHANGED <<app, legacy, releases, backups, files, job, disabled, tx, outcome, given, left, placed, rlock, menu>>
      /\ pc = "finish" /\ pc' = "complete" /\ parked' = [parked EXCEPT ![Me] = None] /\ retired' = Discarded
  BY DEF Committed, Go, kept, launchd, procs, bounds
<1>2. /\ given \in Ids /\ Active /\ retired[Me] = tx.legacy /\ Same(parked[Me], tx.app)
      /\ Managed(tx.app) /\ Managed(tx.legacy) /\ tx.release \in Held
      /\ tx.app \in Standing /\ tx.legacy \in Standing
  BY <1>1 DEF Inv, Knowing, Placing, Active, Forward, Published, Typed, TypedCommand, Ids, Txs
<1>3. /\ parked' \in [Ids -> Standing] /\ parked'[Me] = None /\ \A t \in Ids \ {Me} : parked'[t] = parked[t]
      /\ retired' \in [Ids -> Standing] /\ retired'[Me] = None /\ \A t \in Ids \ {Me} : retired'[t] = retired[t]
  BY <1>1, <1>2 DEF Typed, TypedDisk, Me, Discarded, Standing
<1>4. Typed'
  BY <1>1, <1>3 DEF Typed, TypedDisk, TypedKept, TypedHost, TypedCommand
<1> USE <1>1, <1>2 DEF Inv
<1>5. Fresh' /\ AsBefore'
  BY <1>3 DEF Fresh, AsBefore, Marked, Mark, Me, Switching, Removing, Ids
<1>6. Knowing' /\ Placing'
  BY DEF Knowing, Placing, Active, Cleaning, Forward, Backward, Preparing, Writing, Published, Stopping, Filing, Moving,
         Ending, Marked, Mark, Me, Managed, Held
<1>7. Completed'
  BY <1>3 DEF Completed, Held, Me
<1>8. NothingLost'
  <2>1. UsersKept'
    <3>1. /\ Range(retired) = {retired[t] : t \in Ids} /\ Range(retired') = {retired'[t] : t \in Ids}
          /\ Range(parked) = {parked[t] : t \in Ids} /\ Range(parked') = {parked'[t] : t \in Ids}
      BY <1>3 DEF Typed, TypedDisk, Range
    <3>2. \A e \in placed : e # retired[Me] /\ e # parked[Me]
      <4> SUFFICES ASSUME NEW e \in placed PROVE e # retired[Me] /\ e # parked[Me]
        OBVIOUS
      <4>1. ~Same(e, tx.app) /\ e # tx.legacy
        BY UsersUnmanaged
      <4> QED BY <4>1
    <3>3. /\ \A e \in Range(parked) \ {parked[Me]} : e \in Range(parked')
          /\ \A e \in Range(retired) \ {retired[Me]} : e \in Range(retired')
      BY <1>3, <3>1
    <3> QED BY <3>2, <3>3 DEF NothingLost, UsersKept
  <2>2. Recoverable'
    BY <1>3 DEF NothingLost, Recoverable, Held, Me
  <2> QED BY <2>1, <2>2 DEF NothingLost
<1>9. Filed' /\ Disabled' /\ Registered' /\ Menus' /\ Untouched' /\ Idle'
  BY DEF Filed, Disabled, Registered, Menus, Untouched, Idle, Active, Forward, Backward, Preparing, Writing, Published, Stopping, Filing,
         Moving, Ending, Switching
<1> QED BY <1>4, <1>5, <1>6, <1>7, <1>8, <1>9

LEMMA UndoKeeps == ASSUME Typed, Inv, Undo PROVE Typed' /\ Inv'
<1>1. /\ UNCHANGED <<app, parked, releases, backups, files, job, disabled, outcome, given, left, placed, rlock, menu>>
      /\ pc = "undo" /\ pc' = IF tx.artifacts THEN "undo_stop" ELSE "undo_unlock"
      /\ IF tx.moved THEN legacy = None /\ legacy' = retired[Me] /\ retired' = [retired EXCEPT ![Me] = None]
         ELSE UNCHANGED <<legacy, retired>>
  BY DEF Undo, Go, kept, launchd, procs, bounds
<1>2. /\ tx' \in Txs /\ First /\ Found /\ ~tx'.moved
      /\ UNCHANGED <<tx.published, tx.artifacts, tx.pending, tx.bad>>
  BY TxMoved DEF Undo, Typed, TypedCommand
<1>3. /\ given \in Ids /\ ~tx.bad /\ Active /\ (tx.moved <=> retired[Me] # None) /\ (tx.published => tx.artifacts)
  BY <1>1 DEF Inv, Knowing, Placing, Active, Backward, Stopping, Typed, TypedCommand, Ids
<1>4. /\ legacy' \in Standing /\ retired' \in [Ids -> Standing] /\ retired'[Me] = None
      /\ \A t \in Ids \ {Me} : retired'[t] = retired[t]
      /\ legacy' = IF tx.moved THEN retired[Me] ELSE legacy
  BY <1>1, <1>3 DEF Typed, TypedDisk, Me, Standing
<1>5. Typed'
  BY <1>1, <1>2, <1>4 DEF Typed, TypedDisk, TypedKept, TypedHost, TypedCommand
<1> USE <1>1, <1>2, <1>3 DEF Inv, First, Found
<1>6. Fresh' /\ AsBefore'
  BY <1>4 DEF Fresh, AsBefore, Marked, Mark, Me, Switching, Removing, Ids
<1>7. Knowing'
  BY DEF Knowing, Active, Cleaning, Forward, Backward, Preparing, Writing, Published, Stopping, Filing, Moving,
         Ending, Marked, Mark, Me, Managed, Held
<1>8. Placing'
  BY <1>4 DEF Placing, Published, Marked, Mark, Me, Staged, Same
<1>9. Completed'
  BY <1>4 DEF Completed, Held, Me
<1>10. NothingLost'
  <2>1. UsersKept'
    <3>1. \A e \in placed : e # None
      BY UsersUnmanaged
    <3>2. Range(retired) = {retired[t] : t \in Ids} /\ Range(retired') = {retired'[t] : t \in Ids}
      BY <1>4 DEF Typed, TypedDisk, Range
    <3>3. \A e \in Range(retired) \ {retired[Me]} : e \in Range(retired')
      BY <1>4, <3>2
    <3> QED BY <1>4, <3>1, <3>3 DEF NothingLost, UsersKept
  <2>2. Recoverable'
    BY <1>4 DEF NothingLost, Recoverable, Held, Me
  <2> QED BY <2>1, <2>2 DEF NothingLost
<1>11. Filed' /\ Disabled' /\ Menus' /\ Untouched' /\ Idle'
  BY DEF Filed, Disabled, But, Menus, Untouched, Idle, Backward, Preparing, Writing, Published, Stopping, Filing,
         Moving, Ending, Switching
<1>12. Registered'
  BY DEF Registered, Back, Started, Active, Forward, Backward, Preparing, Writing, Published, Stopping,
         Filing, Moving, Ending, Switching
<1> QED BY <1>5, <1>6, <1>7, <1>8, <1>9, <1>10, <1>11, <1>12
\* Retention.
LEMMA CompleteKeeps == ASSUME Typed, Inv, Complete \/ PruneBackups PROVE Typed' /\ Inv'
<1>1. /\ UNCHANGED <<app, legacy, parked, retired, releases, files, job, disabled, tx, outcome, given, left,
                     placed, rlock, menu>>
      /\ <<pc, pc'>> \in {<<"complete", "prune_backups">>, <<"prune_backups", "prune_releases">>}
  BY DEF Complete, PruneBackups, Go, disk, launchd, procs, bounds
<1>2. given \in Ids
  BY <1>1 DEF Inv, Knowing, Typed, TypedCommand, Ids
<1>3. /\ backups' \in [Ids -> [state: {"none", "kept", "completed"}, names: SUBSET (Releases \cup {Other})]]
      /\ \A t \in Ids : \/ backups'[t] = backups[t]
                        \/ backups[t].state = "completed" /\ backups'[t].names = {}
                        \/ t = given /\ pc = "complete" /\ backups'[t].names = backups[t].names
  <2>1. CASE Complete
    <3> DEFINE new == [backups[Me] EXCEPT !.state = "completed"]
    <3>1. /\ new \in [state: {"none", "kept", "completed"}, names: SUBSET (Releases \cup {Other})]
          /\ new.names = backups[Me].names
      BY <1>2 DEF Typed, TypedKept, Me
    <3>2. backups' = [backups EXCEPT ![Me] = new] /\ pc = "complete"
      BY <2>1 DEF Complete, Go
    <3> HIDE DEF new
    <3> QED BY <1>2, <3>1, <3>2 DEF Typed, TypedKept, Me
  <2>2. CASE PruneBackups
    <3>1. NoBackup \in [state: {"none", "kept", "completed"}, names: SUBSET (Releases \cup {Other})]
          /\ NoBackup.names = {}
      BY DEF NoBackup
    <3> QED BY <2>2, <3>1 DEF PruneBackups, Typed, TypedKept
  <2> QED BY <2>1, <2>2
<1>4. Typed'
  BY <1>1, <1>3 DEF Typed, TypedDisk, TypedKept, TypedHost, TypedCommand
<1> USE <1>1, <1>2 DEF Inv
<1>5. Fresh' /\ AsBefore'
  <2>1. \A t \in Ids : t > given => backups'[t] = backups[t]
    BY <1>3 DEF Fresh, Ids
  <2> QED BY <2>1 DEF Fresh, AsBefore, Marked, Mark, Me, Switching, Removing
<1>6. Knowing' /\ Placing'
  BY DEF Knowing, Placing, Active, Cleaning, Forward, Backward, Preparing, Writing, Published, Stopping, Filing, Moving,
         Ending, Marked, Mark, Me, Managed, Held
<1>7. Completed'
  BY <1>3 DEF Completed, Held, Me
<1>8. NothingLost'
  <2>1. \A t \in Ids : backups[t].state # "none" /\ backups'[t] # backups[t] => parked[t] = None /\ retired[t] = None
    BY <1>3 DEF Completed, Me
  <2> QED BY <1>3, <2>1 DEF NothingLost, UsersKept, Recoverable, Held, Range, Completed
<1>9. Filed' /\ Disabled' /\ Registered' /\ Menus' /\ Untouched' /\ Idle'
  BY DEF Filed, Disabled, Registered, Menus, Untouched, Idle, Active, Forward, Backward, Preparing, Writing, Published, Stopping, Filing,
         Moving, Ending, Switching
<1> QED BY <1>4, <1>5, <1>6, <1>7, <1>8, <1>9

----------------------------------------------------------------------------
(* Putting things back: what fails is remembered, the rest is tried.       *)

LEMMA UndoFilesKeeps == ASSUME Typed, Inv, UndoFiles PROVE Typed' /\ Inv'
<1>1. /\ UNCHANGED <<app, legacy, parked, retired, releases, backups, job, disabled, outcome, given, left,
                     placed, rlock, menu>>
      /\ pc = "undo_files" /\ pc' = "undo_app" /\ Tried
  BY DEF UndoFiles, Tried, disk, kept, launchd, procs, bounds
<1>2. /\ tx' \in Txs /\ First /\ Found /\ (tx.bad => tx'.bad)
      /\ UNCHANGED <<tx.published, tx.moved, tx.artifacts, tx.pending>>
      /\ tx'.bad \/ files' = tx.files
  BY <1>1, TxTried DEF UndoFiles, Typed, TypedCommand
<1>3. files' \in FileSets
  <2>1. tx.files \in FileSets /\ files \in FileSets
    BY DEF Typed, TypedCommand, TypedHost, Txs
  <2> QED BY <2>1 DEF UndoFiles, FileSets
<1>4. Typed'
  BY <1>1, <1>2, <1>3 DEF Typed, TypedDisk, TypedKept, TypedHost, TypedCommand
<1> USE <1>1, <1>2 DEF Inv, First, Found
<1>5. Fresh' /\ Completed' /\ NothingLost' /\ AsBefore'
  BY DEF Fresh, Completed, NothingLost, UsersKept, Recoverable, AsBefore, Held, Range, Marked, Mark, Me,
         Switching, Removing
<1>6. Knowing'
  BY DEF Knowing, Active, Cleaning, Forward, Backward, Preparing, Writing, Published, Stopping, Filing, Moving,
         Ending, Marked, Mark, Me, Managed, Held
<1>7. Placing'
  BY DEF Placing, Active, Forward, Backward, Preparing, Writing, Published, Stopping, Filing, Moving,
         Ending, Marked, Mark, Me, Same, Staged
<1>8. Filed' /\ Disabled' /\ Menus' /\ Untouched' /\ Idle'
  BY DEF Knowing, Filed, Disabled, But, Menus, Untouched, Idle, Backward, Preparing, Writing, Published, Stopping,
         Filing, Moving, Ending, Switching
<1>9. Registered'
  BY DEF Registered, Back, Started, Active, Forward, Backward, Preparing, Writing, Published, Stopping,
         Filing, Moving, Ending, Switching
<1> QED BY <1>4, <1>5, <1>6, <1>7, <1>8, <1>9

\* What the last part of a roll-back shares: the applications are not touched any more.
Late == {"undo_menus", "undo_worker", "undo_worker_login", "undo_menu_job", "undo_menu_login", "undo_end"}
LEMMA LateKeeps ==
  ASSUME Typed, Inv, Tried, pc \in Late, pc' \in Late \ {"undo_menus"},
         UNCHANGED <<app, legacy, parked, retired, releases, backups, files, outcome, given, left, placed, rlock>>,
         job' \in [Jobs -> JobStates], disabled' \in SUBSET Jobs, menu' \in BOOLEAN
  PROVE  /\ Typed' /\ Fresh' /\ Knowing' /\ Placing' /\ Completed' /\ Filed' /\ Untouched' /\ Idle'
         /\ AsBefore' /\ NothingLost'
<1>1. /\ tx' \in Txs /\ First /\ Found /\ (tx.bad => tx'.bad)
      /\ UNCHANGED <<tx.published, tx.moved, tx.artifacts, tx.pending>>
  BY TxTried DEF Typed, TypedCommand
<1>2. Typed'
  BY <1>1 DEF Typed, TypedDisk, TypedKept, TypedHost, TypedCommand
<1> USE <1>1 DEF Inv, First, Found, Late
<1>3. Fresh' /\ Completed' /\ NothingLost' /\ AsBefore'
  BY DEF Fresh, Completed, NothingLost, UsersKept, Recoverable, AsBefore, Held, Range, Marked, Mark, Me,
         Switching, Removing
<1>4. Knowing'
  BY DEF Knowing, Active, Cleaning, Forward, Backward, Preparing, Writing, Published, Stopping, Filing, Moving,
         Ending, Marked, Mark, Me, Managed, Held
<1>5. Placing'
  BY DEF Placing, Active, Forward, Backward, Preparing, Writing, Published, Stopping, Filing, Moving,
         Ending, Marked, Mark, Me, Same, Staged
<1>6. Filed' /\ Untouched' /\ Idle'
  BY DEF Filed, Untouched, Idle, Backward, Preparing, Moving, Ending, Switching
<1> QED BY <1>2, <1>3, <1>4, <1>5, <1>6

LEMMA UndoMenusKeeps == ASSUME Typed, Inv, UndoMenus PROVE Typed' /\ Inv'
<1>1. /\ UNCHANGED <<app, legacy, parked, retired, releases, backups, files, job, disabled, outcome, given, left,
                     placed, rlock>>
      /\ pc = "undo_menus" /\ pc' = "undo_worker" /\ Tried
  BY DEF UndoMenus, Tried, disk, kept, launchd, bounds
<1>2. /\ First /\ Found /\ (tx.bad => tx'.bad) /\ UNCHANGED <<tx.published, tx.moved, tx.artifacts, tx.pending>>
      /\ tx'.bad \/ menu' = (menu \/ tx.menu)
  BY <1>1, TxTried DEF UndoMenus, Typed, TypedCommand
<1>3. menu' \in BOOLEAN
  BY DEF UndoMenus, Typed, TypedHost
<1>4. /\ Typed' /\ Fresh' /\ Knowing' /\ Placing' /\ Completed' /\ Filed' /\ Untouched' /\ Idle'
      /\ AsBefore' /\ NothingLost'
  BY <1>1, <1>3, LateKeeps DEF Late, Typed, TypedHost
<1> USE <1>1, <1>2 DEF Inv, First, Found
<1>5. Disabled' /\ Menus'
  BY DEF Disabled, But, Menus, Preparing, Writing, Published, Stopping, Filing, Moving, Switching
<1>6. Registered'
  BY DEF Registered, Back, Started, Active, Forward, Backward, Preparing, Writing, Published, Stopping,
         Filing, Moving, Ending, Switching
<1> QED BY <1>4, <1>5, <1>6

LEMMA UndoJobKeeps ==
  ASSUME Typed, Inv, NEW j \in Jobs, NEW here, NEW next, UndoJob(j, here, next),
         <<j, here, next>> \in {<<"worker", "undo_worker", "undo_worker_login">>,
                                <<"menu", "undo_menu_job", "undo_menu_login">>}
  PROVE  Typed' /\ Inv'
<1>1. /\ UNCHANGED <<app, legacy, parked, retired, releases, backups, files, outcome, given, left,
                     placed, rlock, menu>>
      /\ pc = here /\ pc' = next /\ Tried
  BY DEF UndoJob, Tried, disk, kept, launchd, procs, bounds
<1>2. /\ First /\ Found /\ (tx.bad => tx'.bad) /\ UNCHANGED <<tx.published, tx.moved, tx.artifacts, tx.pending>>
      /\ \/ tx'.bad /\ UNCHANGED <<job, disabled>>
         \/ /\ Drained(j) /\ disabled' \in {disabled, disabled \ {j}}
            /\ job' = [job EXCEPT ![j] = IF WasLoaded(j) THEN (IF @ = "absent" THEN "loaded" ELSE @)
                                         ELSE IF @ = "loaded" THEN "leaving" ELSE @]
  BY <1>1, TxTried DEF UndoJob, Typed, TypedCommand, launchd
<1>3. /\ job' \in [Jobs -> JobStates] /\ disabled' \in SUBSET Jobs /\ \A k \in Jobs \ {j} : job'[k] = job[k]
      /\ \/ tx'.bad /\ job'[j] = job[j]
         \/ /\ Drained(j)
            /\ job'[j] = IF WasLoaded(j) THEN (IF job[j] = "absent" THEN "loaded" ELSE job[j])
                         ELSE IF job[j] = "loaded" THEN "leaving" ELSE job[j]
  BY <1>2 DEF Typed, TypedHost, JobStates
<1>4. /\ Typed' /\ Fresh' /\ Knowing' /\ Placing' /\ Completed' /\ Filed' /\ Untouched' /\ Idle'
      /\ AsBefore' /\ NothingLost'
  BY <1>1, <1>3, LateKeeps DEF Late, Typed, TypedHost
<1> USE <1>1, <1>2 DEF Inv, First, Found
<1>5. Disabled' /\ Menus'
  BY DEF Disabled, But, Menus, Preparing, Writing, Published, Stopping, Filing, Moving, Switching
<1>6. Registered'
  <2>1. tx.job \in [Jobs -> JobStates] /\ job \in [Jobs -> JobStates]
    BY DEF Typed, TypedCommand, TypedHost, Txs
  <2>2. ~tx'.bad => Back(j)'
    BY <1>3, <2>1 DEF Registered, Back, Drained, WasLoaded, Started, Active, Forward, Backward, Stopping, Filing, Moving,
                 Ending, JobStates, Jobs
  <2>3. \A k \in Jobs : tx.job[k] = "loaded" => job'[k] # "leaving" \/ k \in tx.pending
    BY <1>3 DEF Registered, Active, Backward, Ending, WasLoaded
  <2> QED BY <1>3, <2>2, <2>3 DEF Registered, Back, Started, Active, Forward, Backward, Preparing, Writing, Published, Stopping,
                 Filing, Moving, Ending, Switching, Jobs
<1> QED BY <1>4, <1>5, <1>6

LEMMA UndoLoginKeeps ==
  ASSUME Typed, Inv, NEW j \in Jobs, NEW here, NEW next, UndoLogin(j, here, next),
         <<j, here, next>> \in {<<"worker", "undo_worker_login", "undo_menu_job">>,
                                <<"menu", "undo_menu_login", "undo_end">>}
  PROVE  Typed' /\ Inv'
<1>1. /\ UNCHANGED <<app, legacy, parked, retired, releases, backups, files, job, outcome, given, left,
                     placed, rlock, menu>>
      /\ pc = here /\ pc' = next /\ Tried
  BY DEF UndoLogin, Tried, disk, kept, procs, bounds
<1>2. /\ First /\ Found /\ (tx.bad => tx'.bad) /\ UNCHANGED <<tx.published, tx.moved, tx.artifacts, tx.pending>>
      /\ \/ tx'.bad /\ UNCHANGED disabled
         \/ disabled' = (disabled \ {j}) \cup (tx.disabled \cap {j})
  BY <1>1, TxTried DEF UndoLogin, Typed, TypedCommand
<1>3. disabled' \in SUBSET Jobs
  BY <1>2 DEF Typed, TypedHost
<1>4. /\ Typed' /\ Fresh' /\ Knowing' /\ Placing' /\ Completed' /\ Filed' /\ Untouched' /\ Idle'
      /\ AsBefore' /\ NothingLost'
  BY <1>1, <1>3, LateKeeps DEF Late, Typed, TypedHost
<1> USE <1>1, <1>2 DEF Inv, First, Found
<1>5. Disabled' /\ Menus'
  BY DEF Disabled, But, Menus, Preparing, Writing, Published, Stopping, Filing, Moving, Switching
<1>6. Registered'
  BY DEF Registered, Back, Started, Active, Forward, Backward, Preparing, Writing, Published, Stopping,
         Filing, Moving, Ending, Switching
<1> QED BY <1>4, <1>5, <1>6
----------------------------------------------------------------------------
(* The other commands.                                                     *)

LEMMA SwitchKeeps == ASSUME Typed, Inv, Set \/ StartEnable \/ Boot \/ RemoveMenu PROVE Typed' /\ Inv'
<1>1. /\ UNCHANGED <<app, legacy, parked, retired, releases, backups, files, outcome, given, left, placed, rlock>>
      /\ Tried
      /\ \/ pc = "set" /\ pc' \in {"confirm", "unset"} /\ UNCHANGED <<job, menu, tx>>
         \/ pc = "on" /\ pc' = "boot" /\ disabled' = disabled \ {"worker"} /\ UNCHANGED <<job, menu, tx>>
         \/ pc = "boot" /\ pc' = "off" /\ UNCHANGED <<disabled, menu>>
         \/ pc = "remove_menus" /\ pc' = "remove_files" /\ menu' = FALSE /\ UNCHANGED <<job, tx>>
  BY DEF Set, StartEnable, Boot, RemoveMenu, Onward, Go, Tried, disk, kept, launchd, procs, bounds
<1>2. /\ tx' \in Txs /\ First /\ Found /\ (tx.bad => tx'.bad)
      /\ UNCHANGED <<tx.published, tx.moved, tx.artifacts, tx.pending>>
      /\ pc = "boot" /\ tx'.bad => UNCHANGED job
  <2>1. ~tx.bad \/ pc # "boot"
    BY DEF Inv, Knowing
  <2> QED BY <1>1, <2>1, TxTried DEF Set, StartEnable, Boot, RemoveMenu, Onward, Go, Typed, TypedCommand
<1>3. job' \in [Jobs -> JobStates] /\ disabled' \in SUBSET Jobs /\ menu' \in BOOLEAN
  BY DEF Set, StartEnable, Boot, RemoveMenu, Bootstrap, Onward, Go, Typed, TypedHost, Jobs, JobStates, launchd, procs
<1>4. Typed'
  BY <1>1, <1>2, <1>3 DEF Typed, TypedDisk, TypedKept, TypedHost, TypedCommand
<1> USE <1>1, <1>2 DEF Inv, First, Found
<1>5. Fresh' /\ Completed' /\ NothingLost' /\ AsBefore'
  BY DEF Fresh, Completed, NothingLost, UsersKept, Recoverable, AsBefore, Held, Range, Marked, Mark, Me,
         Switching, Removing
<1>6. Knowing' /\ Placing'
  BY DEF Knowing, Placing, Active, Cleaning, Forward, Backward, Preparing, Writing, Published, Stopping, Filing, Moving, Ending
<1>7. Filed' /\ Disabled' /\ Menus' /\ Untouched' /\ Idle'
  BY <1>3 DEF Filed, Disabled, But, Menus, Untouched, Idle, Backward, Preparing, Writing, Published, Stopping,
         Filing, Moving, Ending, Switching
<1>8. Registered'
  BY DEF Registered, Back, Started, Active, Forward, Backward, Preparing, Writing, Published, Stopping,
         Filing, Moving, Ending, Switching
<1> QED BY <1>4, <1>5, <1>6, <1>7, <1>8

----------------------------------------------------------------------------
(* Beginning and end of a command.                                         *)

LEMMA BeginKeeps == ASSUME Typed, Inv, Commands PROVE Typed' /\ Inv'
<1>1. PICK op \in {"install", "on", "off", "start", "uninstall"}, r \in Releases \cup {None},
           first \in {"prepare", "set", "on", "boot", "remove_worker"} :
        /\ Begin(op, r, first)
        /\ \/ /\ first = "prepare" /\ r \in Releases /\ UNCHANGED backups
              /\ releases' = IF r \in Held THEN releases ELSE [releases EXCEPT ![r] = given + 2]
           \/ /\ first # "prepare" /\ r = None /\ UNCHANGED <<releases, backups>>
              /\ first = "boot" => "worker" \notin disabled
  BY DEF Commands, Install, Startup, StartUp, Uninstall, Brief, kept
<1>2. /\ UNCHANGED <<app, legacy, parked, retired, backups, files, job, disabled, left, placed, rlock, menu>>
      /\ pc = "idle" /\ pc' = first /\ given < MaxCommands /\ given' = given + 1
      /\ tx' = Read(op, r) /\ outcome' = "none"
  BY <1>1 DEF Begin, disk, launchd, procs
<1>3. /\ tx' \in Txs /\ tx'.release = r /\ tx'.files = files /\ tx'.app = app /\ tx'.legacy = legacy /\ tx'.job = job
      /\ tx'.disabled = disabled /\ tx'.menu = menu /\ ~tx'.published /\ ~tx'.moved /\ ~tx'.artifacts
      /\ tx'.pending = {} /\ ~tx'.bad /\ ~tx'.touched
  BY <1>2 DEF Read, Txs, Typed, TypedDisk, TypedHost
<1>4. /\ given \in Nat /\ given' \in 0..MaxCommands /\ given' > 0 /\ given' \in Ids
      /\ \A t \in Ids : t >= given' => t > given
  BY <1>2, BoundsAssumption DEF Typed, TypedCommand, Ids
<1>5. /\ releases' \in [Releases -> Nat] /\ Held \subseteq Held' /\ (first = "prepare" => r \in Held')
  BY <1>1, <1>4 DEF Typed, TypedKept, Held
<1>6. Typed'
  BY <1>2, <1>3, <1>4, <1>5 DEF Typed, TypedDisk, TypedKept, TypedHost, TypedCommand
<1> USE <1>1, <1>2, <1>3, <1>4 DEF Inv
<1>7. Fresh' /\ AsBefore'
  BY DEF Fresh, AsBefore, Marked, Mark
<1>8. Knowing' /\ Placing'
  BY <1>5 DEF Knowing, Placing, Active, Cleaning, Forward, Backward, Preparing, Writing, Published, Stopping, Filing, Moving, Ending
<1>9. Completed' /\ NothingLost'
  BY <1>5 DEF Completed, NothingLost, UsersKept, Recoverable, Range
<1>10. Filed' /\ Disabled' /\ Menus' /\ Untouched' /\ Idle'
  BY DEF Filed, Disabled, But, Menus, Untouched, Idle, Backward, Preparing, Writing, Published, Stopping, Filing, Moving,
         Ending, Switching
<1>11. Registered'
  BY DEF Registered, Back, Active, Forward, Backward, Preparing, Writing, Published, Stopping, Filing, Moving, Ending, Switching
<1> QED BY <1>6, <1>7, <1>8, <1>9, <1>10, <1>11

\* Nothing but the outcome needs to be looked at when a command ends.
LEMMA EndKeeps ==
  ASSUME Typed, Inv, NEW result, Finish(result), pc # "idle",
         UNCHANGED <<app, legacy, retired, backups, job, tx, given, left, placed>>,
         parked' = parked \/ (Active /\ Dropped),
         releases' \in [Releases -> Nat], \A t \in Ids : backups[t].names \subseteq Held',
         files' \in FileSets, disabled' \in SUBSET Jobs, menu' \in BOOLEAN,
         outcome' = "failed" => AsBefore' /\ ~Marked(app, Me)
  PROVE  Typed' /\ Inv'
<1>1. /\ pc' = "idle" /\ rlock' \in {"free", "installer", "worker", "terminal"} /\ rlock' # "installer"
  BY DEF Finish, Typed, TypedHost
<1>2. given \in Ids
  BY DEF Inv, Knowing, Typed, TypedCommand, Ids
<1>3. /\ parked' \in [Ids -> Standing] /\ \A t \in Ids : parked'[t] \in {parked[t], None}
      /\ \A t \in Ids : parked'[t] # parked[t] => t = given /\ Active /\ ~tx.published
  BY <1>2 DEF Typed, TypedDisk, Dropped, Me, Standing
<1>4. Typed'
  BY <1>1, <1>3 DEF Typed, TypedDisk, TypedKept, TypedHost, TypedCommand
<1> USE <1>1 DEF Inv
<1>5. Fresh'
  BY <1>3 DEF Fresh, Marked, Mark, Switching, Removing
<1>6. Knowing' /\ Placing' /\ Filed' /\ Disabled' /\ Registered' /\ Menus' /\ Untouched'
  BY DEF Knowing, Placing, Filed, Disabled, Registered, Menus, Untouched, Active, Cleaning, Forward, Backward, Preparing,
         Writing, Published, Stopping, Filing, Moving, Ending, Switching
<1>7. Completed'
  BY <1>3 DEF Completed
<1>8. NothingLost'
  <2>1. UsersKept'
    <3>1. \A e \in placed : e # None /\ ~Marked(e, Me)
      BY UsersUnmanaged
    <3>2. Range(parked) = {parked[t] : t \in Ids} /\ Range(parked') = {parked'[t] : t \in Ids}
      BY <1>3 DEF Range, Typed, TypedDisk
    <3>3. \A t \in Ids : parked'[t] # parked[t] => Marked(parked[t], Me)
      BY <1>3 DEF Placing, Me
    <3> QED BY <3>1, <3>2, <3>3 DEF NothingLost, UsersKept, Range
  <2>2. Recoverable'
    BY <1>3 DEF NothingLost, Recoverable
  <2> QED BY <2>1, <2>2 DEF NothingLost
<1>9. AsBefore' /\ Idle'
  BY DEF AsBefore, Idle, Marked, Mark, Me
<1> QED BY <1>4, <1>5, <1>6, <1>7, <1>8, <1>9
\* The ends that are no failure of the command alone.
LEMMA OtherEndsKeep ==
  ASSUME Typed, Inv, Occupied \/ Undone \/ NotRolledBack \/ UndoFails \/ Killed \/ Unpruned \/ PruneReleases
                     \/ Confirm \/ RemoveFiles \/ (GivesUp /\ pc \notin {"set", "confirm", "on"})
  PROVE  Typed' /\ Inv'
<1>1. \E result \in {"broken", "killed", "installed", "done"} : Finish(result)
  BY DEF Occupied, Undone, NotRolledBack, UndoFails, Broken, Killed, Unpruned, PruneReleases, Confirm, RemoveFiles, GivesUp
<1>2. /\ UNCHANGED <<app, legacy, retired, backups, job, tx, given, left, placed>> /\ pc # "idle"
      /\ menu' \in BOOLEAN /\ disabled' \in SUBSET Jobs
  BY DEF Occupied, Undone, NotRolledBack, UndoFails, Broken, Killed, Unpruned, PruneReleases, Confirm, RemoveFiles, GivesUp,
         disk, kept, launchd, bounds, Typed, TypedHost
<1>3. parked' = parked \/ (Active /\ Dropped)
  BY DEF Occupied, Undone, NotRolledBack, UndoFails, Broken, Killed, Unpruned, PruneReleases, Confirm, RemoveFiles, GivesUp,
         disk, Active, Backward, Stopping, Filing, Moving, Ending
<1>4. files' \in FileSets
  BY DEF Occupied, Undone, NotRolledBack, UndoFails, Broken, Killed, Unpruned, PruneReleases, Confirm, RemoveFiles, GivesUp,
         Typed, TypedHost, FileSets
<1>5. releases' \in [Releases -> Nat] /\ \A t \in Ids : backups[t].names \subseteq Held'
  <2>1. CASE PruneReleases
    <3> DEFINE keep == {tx.release} \cup Previous \cup Referenced
    <3>1. releases' = [r \in Releases |-> IF r \in keep THEN releases[r] ELSE 0]
      BY <2>1 DEF PruneReleases
    <3>2. \A t \in Ids : backups[t].names \subseteq keep /\ backups[t].names \subseteq Held
      BY DEF Referenced, Inv, Completed
    <3> HIDE DEF keep
    <3> QED BY <3>1, <3>2 DEF Held, Typed, TypedKept
  <2>2. CASE releases' = releases
    BY <2>2 DEF Held, Inv, Completed, Typed, TypedKept
  <2> QED BY <2>1, <2>2 DEF Occupied, Undone, NotRolledBack, UndoFails, Broken, Killed, Unpruned, Confirm, RemoveFiles,
                            GivesUp, kept
<1>6. outcome' # "failed"
  BY <1>1 DEF Finish
<1> QED BY <1>1, <1>2, <1>3, <1>4, <1>5, <1>6, EndKeeps

\* Nothing has been changed yet, or everything is put back.
LEMMA RefuseKeeps == ASSUME Typed, Inv, Refuse PROVE Typed' /\ Inv'
<1>1. /\ UNCHANGED <<app, legacy, parked, retired, releases, backups, files, job, disabled, tx, given, left, placed, menu>>
      /\ pc = "prepare" /\ Finish("failed")
  BY DEF Refuse, disk, kept, launchd, bounds
<1>2. given \in Ids
  BY <1>1 DEF Inv, Knowing, Typed, TypedCommand, Ids
<1>3. parked[Me] = None /\ retired[Me] = None /\ ~Marked(app, Me)
  BY <1>1, <1>2 DEF Inv, Fresh, Me
<1>4. Staged \in Standing /\ Marked(Staged, Me)
  BY <1>1, <1>2, StagedStands DEF Inv, Knowing, Held
<1>5. AsBefore'
  <2>1. ~Same(app, Staged)
    BY <1>3, <1>4 DEF Same, Marked
  <2>2. ~Same(app, Staged)'
    BY <1>1, <2>1 DEF Same, Staged, Me
  <2> QED BY <1>1, <1>3, <2>2 DEF Inv, Filed, Disabled, Registered, Back, Menus, Untouched, AsBefore, Finish, Me
<1>6. Held' = Held
  BY <1>1 DEF Held
<1> QED BY <1>1, <1>3, <1>5, <1>6, EndKeeps DEF Inv, Completed, Typed, TypedKept, TypedHost

LEMMA RolledBackKeeps == ASSUME Typed, Inv, RolledBack PROVE Typed' /\ Inv'
<1>1. /\ UNCHANGED <<app, legacy, retired, releases, backups, files, job, disabled, tx, given, left, placed, menu>>
      /\ pc = "undo_end" /\ Finish("failed") /\ ~tx.bad /\ Dropped
  BY DEF RolledBack, kept, launchd, bounds
<1>2. given \in Ids /\ ~tx.published /\ ~tx.moved /\ Active /\ Managed(tx.app)
  BY <1>1 DEF Inv, Knowing, Active, Backward, Ending, Typed, TypedCommand, Ids
<1>3. parked'[Me] = None /\ retired[Me] = None /\ ~Marked(app, Me)
  BY <1>1, <1>2 DEF Inv, Placing, Dropped, Me, Typed, TypedDisk
<1>4. Staged \in Standing /\ Marked(Staged, Me)
  <2>1. tx.release \in Releases
    BY <1>2 DEF Inv, Knowing, Held
  <2> QED BY <1>2, <2>1, StagedStands
<1>5. AsBefore'
  <2>1. ~Same(app, Staged)
    BY <1>3, <1>4 DEF Same, Marked
  <2>2. ~Same(app, Staged)'
    BY <1>1, <2>1 DEF Same, Staged, Me
  <2>3. files = tx.files /\ disabled = tx.disabled /\ (\A j \in Jobs : Back(j)) /\ (tx.menu => menu)
    BY <1>1 DEF Inv, Filed, Disabled, Registered, Menus, Ending, Jobs
  <2>4. ~tx.touched => app = tx.app /\ tx.legacy \in {legacy, None}
    BY <1>2 DEF Inv, Placing
  <2>5. Me' = Me /\ pc' = "idle" /\ rlock' # "installer"
    BY <1>1 DEF Me, Finish
  <2> QED BY <1>1, <1>3, <2>2, <2>3, <2>4, <2>5 DEF AsBefore, Back
<1>6. Held' = Held
  BY <1>1 DEF Held
<1> QED BY <1>1, <1>2, <1>3, <1>5, <1>6, EndKeeps DEF Inv, Completed, Typed, TypedKept, TypedHost

LEMMA SwitchedBackKeeps ==
  ASSUME Typed, Inv, Unset \/ Off \/ (GivesUp /\ pc \in {"set", "confirm", "on"})
  PROVE  Typed' /\ Inv'
<1>1. /\ UNCHANGED <<app, legacy, parked, retired, releases, backups, files, job, tx, given, left, placed, menu>>
      /\ pc \in {"unset", "off", "set", "confirm", "on"}
  BY DEF Unset, Off, GivesUp, disk, kept, launchd, bounds
<1>2. given \in Ids
  BY <1>1 DEF Inv, Knowing, Typed, TypedCommand, Ids
<1>3. parked[Me] = None /\ retired[Me] = None /\ ~Marked(app, Me) /\ tx.release = None
  BY <1>1, <1>2 DEF Inv, Fresh, Me, Untouched, Switching
<1>4. tx.disabled \subseteq Jobs /\ disabled \subseteq Jobs
  BY DEF Typed, TypedHost, TypedCommand, Txs
<1>5. CASE Unset \/ Off \/ (GivesUp /\ pc = "on")
  <2>1. PICK result \in {"failed", "done"} : Finish(result)
    BY <1>5 DEF Unset, Off, GivesUp
  <2>2. disabled' = tx.disabled /\ (pc = "off" /\ result = "failed" => tx.bad)
    <3>1. CASE Off
      BY <1>4, <2>1, <3>1 DEF Off, Finish, Inv, Disabled, But
    <3>2. CASE Unset
      BY <3>2 DEF Unset
    <3>3. CASE GivesUp /\ pc = "on"
      BY <3>3 DEF GivesUp, launchd, Inv, Disabled
    <3> QED BY <1>5, <3>1, <3>2, <3>3 DEF Unset
  <2>3. result = "failed" => AsBefore'
    <3>1. pc' = "idle" /\ rlock' # "installer"
      BY <2>1 DEF Finish
    <3>2. files = tx.files /\ (tx.menu => menu) /\ (~tx.touched => app = tx.app /\ legacy = tx.legacy)
      BY <1>1 DEF Inv, Filed, Menus, Untouched, Switching
    <3>3. result = "failed" => \A j \in Jobs : Back(j)
      BY <1>1, <2>2 DEF Inv, Registered, Switching
    <3> QED BY <1>1, <1>3, <2>2, <3>1, <3>2, <3>3 DEF AsBefore, Back, Me
  <2>4. Held' = Held
    BY <1>1 DEF Held
  <2> QED BY <1>1, <1>3, <1>4, <2>1, <2>2, <2>3, <2>4, EndKeeps DEF Finish, Inv, Completed, Typed, TypedKept, TypedHost
<1>6. CASE GivesUp /\ pc \in {"set", "confirm"}
  <2>1. pc' = "unset" /\ UNCHANGED <<disabled, outcome, rlock>>
    BY <1>6 DEF GivesUp, launchd
  <2>2. Typed'
    BY <1>1, <2>1 DEF Typed, TypedDisk, TypedKept, TypedHost, TypedCommand
  <2> USE <1>1, <1>6, <2>1 DEF Inv
  <2>3. Fresh' /\ Completed' /\ NothingLost' /\ AsBefore'
    BY DEF Fresh, Completed, NothingLost, UsersKept, Recoverable, AsBefore, Held, Range, Marked, Mark, Me,
           Switching, Removing
  <2>4. Knowing' /\ Placing'
    BY DEF Knowing, Placing, Active, Cleaning, Forward, Backward, Preparing, Writing, Published, Stopping, Filing, Moving, Ending
  <2>5. Filed' /\ Disabled' /\ Menus' /\ Untouched' /\ Idle'
    BY DEF Filed, Disabled, But, Menus, Untouched, Idle, Backward, Preparing, Writing, Published, Stopping,
           Filing, Moving, Ending, Switching
  <2>6. Registered'
    BY DEF Registered, Back, Started, Active, Forward, Backward, Preparing, Writing, Published, Stopping,
           Filing, Moving, Ending, Switching
  <2> QED BY <2>2, <2>3, <2>4, <2>5, <2>6
<1> QED BY <1>5, <1>6

----------------------------------------------------------------------------
(* launchd, the worker, the user.                                          *)

LEMMA WorldKeeps ==
  ASSUME Typed, Inv, (\E j \in Jobs : Removed(j)) \/ Works \/ Watch \/ Interrupt
  PROVE  Typed' /\ Inv'
<1>1. /\ UNCHANGED <<app, legacy, parked, retired, releases, backups, files, disabled, pc, tx, outcome, given, placed>>
      /\ (menu => menu') /\ menu' \in BOOLEAN /\ rlock' \in {rlock, "free", "worker", "terminal"}
  BY DEF Removed, Works, Watch, Interrupt, disk, kept, launchd, procs, bounds, Typed, TypedHost
<1>0. left' \in Nat
  BY DEF Removed, Works, Watch, Interrupt, bounds, Typed, TypedCommand
<1>2. /\ job' \in [Jobs -> JobStates]
      /\ \A k \in Jobs : job'[k] = job[k] \/ (job[k] = "leaving" /\ job'[k] = "absent")
  BY DEF Removed, Works, Watch, Interrupt, launchd, Typed, TypedHost, JobStates
<1>3. Typed'
  BY <1>0, <1>1, <1>2 DEF Typed, TypedDisk, TypedKept, TypedHost, TypedCommand
<1> USE <1>1 DEF Inv
<1>4. Fresh' /\ Completed' /\ NothingLost'
  BY DEF Fresh, Completed, NothingLost, UsersKept, Recoverable, Held, Range, Marked, Mark, Me
<1>5. AsBefore'
  BY <1>2 DEF AsBefore, Me, Same, Staged
<1>6. Knowing'
  BY DEF Knowing, Active, Cleaning, Marked, Mark, Me, Managed, Held
<1>7. Placing'
  BY DEF Placing, Active, Marked, Mark, Me, Same, Staged
<1>8. Filed' /\ Disabled' /\ Menus' /\ Untouched' /\ Idle'
  BY DEF Filed, Disabled, But, Menus, Untouched, Idle, Marked, Mark, Me
<1>9. Registered'
  BY <1>2 DEF Registered, Back, Active, Jobs
<1> QED BY <1>3, <1>4, <1>5, <1>6, <1>7, <1>8, <1>9

LEMMA UserKeeps == ASSUME Typed, Inv, User PROVE Typed' /\ Inv'
<1>1. /\ UNCHANGED <<parked, retired, releases, backups, files, job, disabled, pc, outcome, given, rlock, menu>>
      /\ left' \in Nat
      /\ app' \in Instead(app) \cup {app} /\ legacy' \in Instead(legacy) \cup {legacy}
      /\ placed' = (placed \ ({app, legacy} \ {app', legacy'}))
                     \cup {e \in {app', legacy'} \ {None} : e.id[1] = "user"}
  BY DEF User, kept, launchd, procs, Typed, TypedCommand
<1>2. /\ tx' \in Txs /\ First /\ tx'.touched
      /\ UNCHANGED <<tx.app, tx.legacy, tx.published, tx.moved, tx.artifacts, tx.pending, tx.bad>>
  BY TxTouched DEF User, Typed, TypedCommand
<1>3. ASSUME NEW e \in Standing, NEW e2 \in Instead(e) \cup {e}
      PROVE  e2 \in Standing /\ \A t \in Nat : Marked(e2, t) => Marked(e, t)
  <2>1. CASE e2 = Entry("user", left, Other)
    <3>1. e2.id = <<"user", left>> /\ e2.contents = Other
          /\ e2 \in [id: {"before", "staged", "user"} \X Nat, contents: Releases \cup {Other}]
      BY <2>1 DEF Entry, Typed, TypedCommand
    <3> QED BY <3>1 DEF Standing, Entries, Marked, Mark
  <2>2. CASE e # None /\ e2 = [e EXCEPT !.contents = Other]
    <3>1. e2.id = e.id /\ e2.contents = Other
          /\ e2 \in [id: {"before", "staged", "user"} \X Nat, contents: Releases \cup {Other}]
      BY <2>2 DEF Standing, Entries
    <3> QED BY <2>2, <3>1 DEF Standing, Entries, Marked
  <2>3. CASE e2 \in {None, e}
    BY <2>3 DEF Standing, Marked
  <2> QED BY <2>1, <2>2, <2>3 DEF Instead
<1>4. /\ app' \in Standing /\ legacy' \in Standing
      /\ \A t \in Nat : (Marked(app', t) => Marked(app, t)) /\ (Marked(legacy', t) => Marked(legacy, t))
  BY <1>1, <1>3 DEF Typed, TypedDisk
<1>5. placed' \subseteq {e \in Entries : e.id[1] = "user"}
  BY <1>1, <1>4 DEF Typed, TypedCommand, Standing
<1>6. Typed'
  BY <1>1, <1>2, <1>4, <1>5 DEF Typed, TypedDisk, TypedKept, TypedHost, TypedCommand
<1> USE <1>1, <1>2 DEF Inv, First
<1>7. Fresh' /\ Completed'
  BY <1>4 DEF Fresh, Completed, Held, Marked, Mark, Me, Ids
<1>8. NothingLost'
  <2>1. Range(parked') = Range(parked) /\ Range(retired') = Range(retired)
    BY DEF Range
  <2>2. UsersKept'
    BY <2>1 DEF NothingLost, UsersKept
  <2> QED BY <2>2 DEF NothingLost, Recoverable, Held
<1>9. Knowing'
  BY DEF Knowing, Active, Cleaning, Marked, Mark, Me, Managed, Held
<1>10. Placing'
  <2>1. given \in Nat
    BY DEF Typed, TypedCommand
  <2> QED BY <1>4, <2>1 DEF Placing, Active, Marked, Mark, Me, Same, Staged
<1>11. Idle' /\ AsBefore'
  <2> SUFFICES ASSUME pc = "idle", outcome = "failed"
               PROVE  ~Marked(app', given) /\ AsBefore'
    BY DEF Idle, AsBefore, Marked, Mark, Me
  <2>1. given \in Nat /\ ~Marked(app', given)
    BY <1>4 DEF Idle, Me, Typed, TypedCommand
  <2>2. tx.release # None => Staged # None /\ Staged.id = Mark(given)
    BY <2>1, StagedStands DEF Marked, Me, Typed, TypedCommand, Txs
  <2>3. tx.release # None => ~Same(app', Staged)
    BY <2>1, <2>2 DEF Same, Marked
  <2>4. (tx.release # None => ~Same(app, Staged))'
    BY <2>3 DEF Same, Staged, Me
  <2>5. /\ files = tx.files /\ disabled = tx.disabled /\ (tx.menu => menu) /\ rlock # "installer"
        /\ \A k \in Jobs : tx.job[k] # "leaving" => job[k] = tx.job[k]
        /\ parked[given] = None /\ retired[given] = None
    BY DEF AsBefore, Me
  <2> QED BY <2>1, <2>4, <2>5 DEF AsBefore, Me
<1>12. Filed' /\ Disabled' /\ Registered' /\ Menus' /\ Untouched'
  BY DEF Filed, Disabled, But, Registered, Back, Menus, Untouched, Active
<1> QED BY <1>6, <1>7, <1>8, <1>9, <1>10, <1>11, <1>12
----------------------------------------------------------------------------
(* The initial states, and every step.                                     *)

LEMMA InitInv == Init => Typed /\ Inv
<1> SUFFICES ASSUME Init PROVE Typed /\ Inv
  OBVIOUS
<1>1. /\ parked = [t \in Ids |-> None] /\ retired = [t \in Ids |-> None]
      /\ backups = [t \in Ids |-> NoBackup] /\ rlock = "free" /\ menu = FALSE
      /\ pc = "idle" /\ outcome = "none" /\ tx = Read("none", None)
      /\ given = 0 /\ left = MaxOutside /\ placed = {}
  BY DEF Init
<1>2. \A n \in {1, 2} : \A r \in Releases : Entry("before", n, r) \in Standing
  <2> TAKE n \in {1, 2}
  <2> TAKE r \in Releases
  <2>1. /\ Entry("before", n, r) \in [id: {"before", "staged", "user"} \X Nat, contents: Releases \cup {Other}]
        /\ Entry("before", n, r).id[1] = "before"
    BY DEF Entry
  <2> QED BY <2>1 DEF Standing, Entries
<1>3. ASSUME NEW a \in Standing, NEW l \in Standing, NEW held \in SUBSET Releases, NEW f \in FileSets,
             NEW loaded \in SUBSET Jobs, NEW off \in SUBSET Jobs, Situation(a, l, held, f, loaded, off)
      PROVE  TypedDisk /\ TypedKept /\ TypedHost
  <2>1. /\ app = a /\ legacy = l /\ files = f /\ disabled = off
        /\ releases = [r \in Releases |-> IF r \in held THEN 1 ELSE 0]
        /\ job = [j \in Jobs |-> IF j \in loaded THEN "loaded" ELSE "absent"]
    BY <1>3 DEF Situation
  <2>2. TypedDisk
    BY <1>1, <2>1 DEF TypedDisk, Standing
  <2>3. TypedKept
    BY <1>1, <2>1 DEF TypedKept, NoBackup
  <2>4. TypedHost
    BY <1>1, <2>1 DEF TypedHost, JobStates
  <2> QED BY <2>2, <2>3, <2>4
<1>4. TypedDisk /\ TypedKept /\ TypedHost
  <2>1. /\ Files(None, None, None) \in FileSets /\ Files("new", None, "old") \in FileSets
        /\ Files("old", "old", "old") \in FileSets
    BY DEF Files, FileSets
  <2>2. None \in Standing /\ {"worker"} \in SUBSET Jobs /\ Jobs \in SUBSET Jobs /\ {} \in SUBSET Jobs
    BY DEF Standing, Jobs
  <2>3. CASE Situation(None, None, {}, Files(None, None, None), {}, {})
    BY <1>3, <2>1, <2>2, <2>3
  <2>4. CASE \E r \in Releases, loaded \in SUBSET {"worker"}, off \in SUBSET {"worker"} :
               Situation(Entry("before", 1, r), None, {r}, Files("new", None, "old"), loaded, off)
    <3>1. PICK r \in Releases, loaded \in SUBSET {"worker"}, off \in SUBSET {"worker"} :
            Situation(Entry("before", 1, r), None, {r}, Files("new", None, "old"), loaded, off)
      BY <2>4
    <3>2. loaded \in SUBSET Jobs /\ off \in SUBSET Jobs /\ {r} \in SUBSET Releases
      BY DEF Jobs
    <3> QED BY <1>2, <1>3, <2>1, <2>2, <3>1, <3>2
  <2>5. CASE \E r \in Releases :
               Situation(None, Entry("before", 2, r), {r}, Files("old", "old", "old"), Jobs, {})
    <3>1. PICK r \in Releases :
            Situation(None, Entry("before", 2, r), {r}, Files("old", "old", "old"), Jobs, {})
      BY <2>5
    <3>2. {r} \in SUBSET Releases
      OBVIOUS
    <3> QED BY <1>2, <1>3, <2>1, <2>2, <3>1, <3>2
  <2> QED BY <2>3, <2>4, <2>5 DEF Init
<1>5. /\ tx \in Txs /\ tx.touched = FALSE /\ tx.release = None /\ tx.app = app /\ tx.legacy = legacy
      /\ tx.menu = FALSE /\ tx.files = files /\ tx.disabled = disabled
  BY <1>1, <1>4 DEF Read, Txs, TypedDisk, TypedHost
<1>6. Typed
  BY <1>1, <1>4, <1>5, BoundsAssumption DEF Typed, TypedCommand
<1>7. /\ \A t \in Nat : ~Marked(app, t) /\ ~Marked(legacy, t)
      /\ \A t \in Ids : parked[t] = None /\ retired[t] = None /\ backups[t].state = "none" /\ backups[t].names = {}
  <2>1. \A n \in Nat : \A r \in Releases : Entry("before", n, r).id = <<"before", n>>
    BY DEF Entry
  <2>2. app = None \/ (\E n \in Nat : app.id = <<"before", n>>)
    BY <2>1 DEF Init, Situation
  <2>3. legacy = None \/ (\E n \in Nat : legacy.id = <<"before", n>>)
    BY <2>1 DEF Init, Situation
  <2> QED BY <1>1, <2>2, <2>3 DEF Marked, Mark, NoBackup
<1>8. Fresh
  BY <1>7 DEF Fresh, Ids, Marked
<1>9. Knowing /\ Placing /\ Filed /\ Disabled /\ Registered /\ Menus /\ Untouched /\ Idle
  BY <1>1 DEF Knowing, Placing, Filed, Disabled, Registered, Menus, Untouched, Idle, Active, Cleaning,
              Forward, Preparing, Writing, Published, Backward, Stopping, Filing, Moving, Ending, Switching
<1>10. Completed /\ AsBefore /\ NothingLost
  BY <1>1, <1>7 DEF Completed, AsBefore, NothingLost, UsersKept, Recoverable
<1> QED BY <1>6, <1>8, <1>9, <1>10 DEF Inv

LEMMA StutterKeeps == ASSUME Typed, Inv, UNCHANGED vars PROVE Typed' /\ Inv'
<1>1. UNCHANGED <<app, legacy, parked, retired, releases, backups, files, job, disabled, rlock, menu, pc, tx,
                  outcome, given, left, placed>>
  BY DEF vars, disk, kept, launchd, procs, bounds
<1>2. Typed'
  BY <1>1 DEF Typed, TypedDisk, TypedKept, TypedHost, TypedCommand
<1> USE <1>1 DEF Inv
<1>3. Fresh' /\ Knowing' /\ Placing' /\ Completed'
  BY DEF Fresh, Knowing, Placing, Completed, Active, Cleaning, Marked, Me, Managed, Held, Same, Staged
<1>4. Filed' /\ Disabled' /\ Registered' /\ Menus' /\ Untouched' /\ Idle'
  BY DEF Filed, Disabled, But, Registered, Back, Menus, Untouched, Idle, Active, Marked, Me
<1>5. AsBefore' /\ NothingLost'
  BY DEF AsBefore, NothingLost, UsersKept, Recoverable, Held, Range, Me, Same, Staged
<1> QED BY <1>2, <1>3, <1>4, <1>5

LEMMA ActivateKeeps == ASSUME Typed, Inv, Activate PROVE Typed' /\ Inv'
<1>1. CASE Prepare \/ Refuse \/ Backup \/ Check \/ Move \/ Committed
  BY <1>1, PrepareKeeps, RefuseKeeps, BackupKeeps, CheckKeeps, MoveKeeps, CommittedKeeps
<1>2. CASE MenuStop \/ Lock("lock", "backup") \/ Unlock("unlock", "enable") \/ Retire \/ Fails
  BY <1>2, WalkKeeps DEF Walk
<1>3. CASE Stop("worker", "stop_worker", "await_worker") \/ Stop("menu", "stop_menu", "await_menu")
  BY <1>3, StopKeeps DEF Jobs
<1>4. CASE Await("worker", "await_worker", "stop_menu") \/ Await("menu", "await_menu", "lock")
  BY <1>4, AwaitKeeps DEF Jobs
<1>5. CASE Write("config", "plist", "config", Me) \/ Write("plist", "unmenu", "worker", "new")
           \/ Write("unmenu", "publish", "menu", None)
  BY <1>5, WriteKeeps
<1>6. CASE Exchange \/ Verify \/ Enable \/ Start \/ Redisable
  BY <1>6, ExchangeKeeps, VerifyKeeps, StartsKeep
<1>7. CASE Complete \/ PruneBackups \/ PruneReleases \/ Unpruned
  BY <1>7, CompleteKeeps, OtherEndsKeep
<1> QED BY <1>1, <1>2, <1>3, <1>4, <1>5, <1>6, <1>7 DEF Activate

LEMMA RollbackKeeps == ASSUME Typed, Inv, Rollback PROVE Typed' /\ Inv'
<1>1. CASE Undo \/ UndoFiles \/ UndoMenus \/ RolledBack
  BY <1>1, UndoKeeps, UndoFilesKeeps, UndoMenusKeeps, RolledBackKeeps
<1>2. CASE UndoMenu \/ Lock("undo_lock", "undo_files") \/ UndoCheck \/ UndoDone \/ Unlock("undo_unlock", "undo_menus")
  BY <1>2, WalkKeeps DEF Walk
<1>3. CASE Stop("worker", "undo_stop", "undo_await")
  BY <1>3, StopKeeps DEF Jobs
<1>4. CASE Await("worker", "undo_await", "undo_menu")
  BY <1>4, AwaitKeeps DEF Jobs
<1>5. CASE UndoExchange \/ UndoVerify
  BY <1>5, ExchangeKeeps, VerifyKeeps
<1>6. CASE UndoJob("worker", "undo_worker", "undo_worker_login") \/ UndoJob("menu", "undo_menu_job", "undo_menu_login")
  BY <1>6, UndoJobKeeps DEF Jobs
<1>7. CASE UndoLogin("worker", "undo_worker_login", "undo_menu_job") \/ UndoLogin("menu", "undo_menu_login", "undo_end")
  BY <1>7, UndoLoginKeeps DEF Jobs
<1>8. CASE Occupied \/ Undone \/ NotRolledBack \/ UndoFails
  BY <1>8, OtherEndsKeep
<1> QED BY <1>1, <1>2, <1>3, <1>4, <1>5, <1>6, <1>7, <1>8 DEF Rollback

LEMMA ShorterKeeps == ASSUME Typed, Inv, Shorter PROVE Typed' /\ Inv'
<1>1. CASE Set \/ StartEnable \/ Boot \/ RemoveMenu
  BY <1>1, SwitchKeeps
<1>2. CASE Confirm \/ RemoveFiles
  BY <1>2, OtherEndsKeep
<1>3. CASE Unset \/ Off
  BY <1>3, SwitchedBackKeeps
<1>4. CASE Stop("worker", "remove_worker", "removed_worker") \/ Stop("menu", "remove_menu", "removed_menu")
  BY <1>4, StopKeeps DEF Jobs
<1>5. CASE Await("worker", "removed_worker", "remove_menu") \/ Await("menu", "removed_menu", "remove_menus")
  BY <1>5, AwaitKeeps DEF Jobs
<1>6. CASE GivesUp
  <2>1. CASE pc \in {"set", "confirm", "on"}
    BY <1>6, <2>1, SwitchedBackKeeps
  <2>2. CASE pc \notin {"set", "confirm", "on"}
    BY <1>6, <2>2, OtherEndsKeep
  <2> QED BY <2>1, <2>2
<1> QED BY <1>1, <1>2, <1>3, <1>4, <1>5, <1>6 DEF Shorter

LEMMA StepKeeps == Typed /\ Inv /\ [Next]_vars => Typed' /\ Inv'
<1> SUFFICES ASSUME Typed, Inv, [Next]_vars PROVE Typed' /\ Inv'
  OBVIOUS
<1>1. CASE Commands
  BY <1>1, BeginKeeps
<1>2. CASE Activate
  BY <1>2, ActivateKeeps
<1>3. CASE Rollback
  BY <1>3, RollbackKeeps
<1>4. CASE Shorter
  BY <1>4, ShorterKeeps
<1>5. CASE (\E j \in Jobs : Removed(j)) \/ Works \/ Watch \/ Interrupt
  BY <1>5, WorldKeeps
<1>6. CASE User
  BY <1>6, UserKeeps
<1>7. CASE Killed
  BY <1>7, OtherEndsKeep
<1>8. CASE UNCHANGED vars
  BY <1>8, StutterKeeps
<1> QED BY <1>1, <1>2, <1>3, <1>4, <1>5, <1>6, <1>7, <1>8 DEF Next

----------------------------------------------------------------------------
(* The results.                                                            *)

(* At every place of an installation, of its roll-back, of uninstall and of *)
(* the login commands, the staged copy, what it displaced, the files, the   *)
(* login settings, the registrations and the menu are where the command     *)
(* believes them to be (ActivationTransaction, ApplicationSwap,             *)
(* LegacyApplication, restore_jobs).                                        *)
THEOREM InstallInvHolds == Spec => [](Typed /\ Inv)
BY InitInv, StepKeeps, PTL DEF Spec

(* No application the user put in place disappears, what an installation    *)
(* displaced stands where its backup says until the installation is         *)
(* complete, and every release a backup names is there (ApplicationSwap's   *)
(* restore and Drop, prune_backups, prune_releases), whatever fails, is     *)
(* killed or is replaced by the user in between.                            *)
THEOREM NothingIsLost == Spec => []NothingLost
<1>1. Typed /\ Inv => NothingLost
  BY DEF Inv
<1> QED BY <1>1, InstallInvHolds, PTL

(* A command that reports its own failure, and nothing more, has put back   *)
(* the files, the login settings, the registrations, the menu and the       *)
(* applications, but for what the user changed meanwhile (activate,         *)
(* rollback, restore_artifacts, restore_jobs).                              *)
THEOREM FailuresChangeNothing == Spec => []AsBefore
<1>1. Typed /\ Inv => AsBefore
  BY DEF Inv
<1> QED BY <1>1, InstallInvHolds, PTL
=============================================================================
