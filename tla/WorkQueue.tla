----------------------------- MODULE WorkQueue -----------------------------
(***************************************************************************)
(* The durable work queue of native/src/index.rs for one volume: events    *)
(* become jobs in the transaction that moves the cursor, jobs coalesce by  *)
(* directory and by recursive ancestor, the worker observes one directory  *)
(* outside the lock and acknowledges the generation it began with.         *)
(*                                                                         *)
(* A directory is dirty while it holds a change that no committed          *)
(* observation has carried.  Scheduling order, deadlines and delays are    *)
(* left open: any row may be selected next.                                *)
(***************************************************************************)
EXTENDS Naturals, Sequences, FiniteSets, Functions, SequencesExt

CONSTANTS
  Dirs, Files,     \* the directories and the files the paths can name
  Root,            \* the configured root
  Up,              \* the containing directory of every other node
  Packages,        \* directories whose traversal is skipped
  Wide,            \* directories observed in more than one turn
  Kinds,           \* the kinds of event that occur
  MaxJobs,         \* MAX_JOBS
  MaxEvents, MaxErrors, MaxCrashes   \* bounds, see README

Nodes == Dirs \cup Files
EventKinds == {"change", "create", "remove", "scan", "lost", "request"}

ASSUME TreeAssumption ==
  /\ Root \in Dirs /\ Dirs \cap Files = {}
  /\ Up \in [Nodes \ {Root} -> Dirs]
  /\ Packages \subseteq Dirs \ {Root} /\ Wide \subseteq Dirs
  /\ Kinds \subseteq EventKinds
  /\ {MaxJobs, MaxEvents, MaxErrors, MaxCrashes} \subseteq Nat

\* A row of jobs; gen = 0 is the absence of the row, scope is ordinary_scope.
Job == [gen: Nat, rec: BOOLEAN, base: BOOLEAN, scope: 0..2, failed: BOOLEAN]
NoJob == [gen |-> 0, rec |-> FALSE, base |-> FALSE, scope |-> 0, failed |-> FALSE]
\* A row of deferred_jobs.
Deferred == [some: BOOLEAN, rec: BOOLEAN, base: BOOLEAN]
NoRow == [some |-> FALSE, rec |-> FALSE, base |-> FALSE]

VARIABLES
  present,   \* the directories that exist
  dirty,     \* directories with changes nobody has read yet
  carried,   \* directories whose changes an unfinished observation has read
  feed,      \* events behind the committed cursor
  db,        \* the database
  retry,     \* directories with an entry in the retry file
  active,    \* the node of active_job and the job, gen = 0 when there is none
  view,      \* what the observation returned; kind = "none" before it returns
  snaps,     \* retained snapshots: the child directories each one lists
  narrowed,  \* history: recursive jobs consumed without visiting every child
  unvisited, \* history: directories of the baseline nobody has observed yet
  events, errors, crashes

files == <<present, dirty, carried, feed>>
worker == <<active, view, snaps>>
budget == <<events, errors, crashes>>
history == <<narrowed, unvisited>>
vars == <<files, db, retry, worker, history, budget>>

DbType == [jobs: [Nodes -> Job], deferred: [Nodes -> Deferred],
           known: SUBSET Dirs, saved: [Nodes -> Job],
           roots: BOOLEAN, complete: BOOLEAN]

----------------------------------------------------------------------------
(* The tree. *)

\* The node and all that contain it.
Above[n \in Nodes] == IF n = Root THEN {n} ELSE {n} \cup Above[Up[n]]
Below == [n \in Nodes |-> {m \in Nodes : n \in Above[m] /\ m # n}]
Children(n) == {m \in Dirs \ {Root} : Up[m] = n}
Accepted(n) == (Above[n] \ {n}) \cap Packages = {}

----------------------------------------------------------------------------
(* queue, defer, drain_deferred, bound_queue. *)

Row(s, n) == s.jobs[n]
Queued(s, n) == s.jobs[n].gen > 0
ScansBaseline(j) == j.base /\ j.scope = 0
ScansRecursively(j) == IF j.scope > 0 THEN j.scope = 2 ELSE j.rec

\* A request: a recursive one, a baseline one, one with a deadline, one that
\* keeps the deadline of the row it meets (preserve_delay).
Ask(rec, base, late, keep) == [rec |-> rec, base |-> base, late |-> late, keep |-> keep]
Shallow == Ask(FALSE, FALSE, FALSE, FALSE)
Deep == Ask(TRUE, FALSE, FALSE, FALSE)
Scope(r) == IF r.base \/ r.late THEN 0 ELSE IF r.rec THEN 2 ELSE 1

\* The nearest recursive row that takes the request over.
Owner(s, n, r) ==
  LET takers == {p \in Above[n] :
                   /\ Row(s, p).rec
                   /\ p = n \/ (~(Row(s, p).base /\ Scope(r) > 0) /\ ~r.late)}
  IN  IF takers = {} THEN n
      ELSE CHOOSE p \in takers : takers \subseteq Above[p]

Upsert(s, n, r) ==
  LET old == Row(s, n)
      scope == IF r.keep /\ (~old.base \/ old.failed) THEN 0 ELSE Scope(r)
      rec == old.rec \/ r.rec
      absorbed == {m \in Below[n] : rec /\ Row(s, m).base
                                    /\ Row(s, m).scope = 0 /\ ~Row(s, m).failed}
  IN  [s EXCEPT !.jobs = [m \in Nodes |->
         CASE m \in absorbed -> NoJob
           [] m = n -> [gen |-> old.gen + 1, rec |-> rec, failed |-> old.failed,
                        base |-> \/ old.base \/ r.base
                                 \/ rec /\ \E c \in Below[n] : Row(s, c).base,
                        scope |-> IF scope > old.scope THEN scope ELSE old.scope]
           [] OTHER -> Row(s, m)]]

DeferredAt(s) == {n \in Nodes : s.deferred[n].some}
Defer(s, n, r) ==
  LET above == {p \in DeferredAt(s) \cap Above[n] : s.deferred[p].rec}
      at == IF above = {} THEN n ELSE CHOOSE p \in above : TRUE
      rec == r.rec \/ above # {}
      rows == [m \in Nodes |->
                 CASE m = at -> [some |-> TRUE, rec |-> rec \/ s.deferred[m].rec,
                                 base |-> r.base \/ s.deferred[m].base]
                   [] m \in Below[at] /\ rec -> NoRow
                   [] OTHER -> s.deferred[m]]
  IN  IF Cardinality({m \in Nodes : rows[m].some}) <= MaxJobs
      THEN [s EXCEPT !.deferred = rows]
      ELSE [s EXCEPT !.deferred =
              [m \in Nodes |-> IF m = Root THEN [some |-> TRUE, rec |-> TRUE, base |-> FALSE]
                                           ELSE NoRow]]

\* queue: what arrives below a recursive observation in progress waits for
\* its end, everything else coalesces at once.  (CHOOSE from one element only
\* names the value of db0, which TLC would otherwise compute at every use.)
Queue(db0, a, n, r) ==
  CHOOSE t \in {IF a.job.gen > 0 /\ ScansRecursively(a.job) /\ a.path \in Above[n]
                THEN Defer(s, n, r)
                ELSE Upsert(s, Owner(s, n, r), r) : s \in {db0}} : TRUE

Idle == [path |-> Root, job |-> NoJob]
QueueAll(s, nodes, r) == FoldSet(LAMBDA n, t : Queue(t, Idle, n, r), s, nodes)

\* drain_deferred, in some order of the rows.
Drained(s) ==
  {FoldSeq(LAMBDA n, t : Queue(t, Idle, n, Ask(s.deferred[n].rec, s.deferred[n].base, FALSE, FALSE)),
           [s EXCEPT !.deferred = [m \in Nodes |-> NoRow]], order)
     : order \in SetToSeqs(DeferredAt(s))}

Ordinary(j) == j.gen > 0 /\ ~j.rec /\ ~j.base /\ ~j.failed
Overflows(s) ==
  Cardinality({n \in Nodes : Row(s, n).scope > 0 \/ Ordinary(Row(s, n))}) > MaxJobs
Bound(s, a) ==
  IF ~Overflows(s) THEN s
  ELSE Queue([s EXCEPT !.jobs = [n \in Nodes |->
                IF Ordinary(Row(s, n)) THEN NoJob ELSE [Row(s, n) EXCEPT !.scope = 0]]],
             a, Root, Ask(TRUE, FALSE, FALSE, TRUE))

Refresh(s) ==
  [s EXCEPT !.complete = ~s.roots /\ \A n \in Nodes : ~Row(s, n).base /\ ~s.deferred[n].base]

HasTicket(s, n) ==
  \E p \in Above[n] :
    \/ p = n /\ Queued(s, p) /\ (Row(s, p).scope > 0 \/ ~Row(s, p).base \/ Row(s, p).failed)
    \/ Row(s, p).rec /\ ~Row(s, p).base

----------------------------------------------------------------------------
(* Intake. *)

Container(n) == IF n = Root THEN n ELSE Up[n]
Event(kind, n) == [kind |-> kind, node |-> n]

Intake(s, a, e) ==
  CASE e.kind = "change" -> Queue(s, a, e.node, Shallow)
    [] e.kind = "remove" -> Queue(s, a, Container(e.node), Shallow)
    [] e.kind = "create" ->
         LET t == Queue(s, a, Container(e.node), Shallow)
         IN  IF e.node \in Packages THEN t ELSE Queue(t, a, e.node, Deep)
    [] e.kind = "scan" -> Queue(s, a, e.node, Deep)
    [] e.kind = "lost" -> Queue(s, a, Root, Deep)

\* History: the row of the running job was deleted and made anew with the
\* generation the job began with, so its end will delete the new row.
Renewed(s, a) ==
  /\ a.job.gen > 0 /\ a.path = Root
  /\ Overflows(s) /\ Ordinary(Row(s, Root))

Enqueue ==
  /\ feed # <<>>
  /\ LET taken == Intake(db, active, Head(feed))
     IN  /\ db' = Bound(taken, active)
         /\ narrowed' = narrowed \cup {n \in {Root} : Renewed(taken, active)}
  /\ feed' = Tail(feed)
  /\ UNCHANGED <<present, dirty, carried, retry, worker, unvisited, budget>>

Bootstrap ==
  /\ db.roots
  /\ db' = Refresh([Queue(db, active, Root, Ask(TRUE, TRUE, FALSE, FALSE)) EXCEPT !.roots = FALSE])
  /\ UNCHANGED <<files, retry, worker, history, budget>>

RequestReconcile(n) ==
  /\ "request" \in Kinds /\ events < MaxEvents /\ Accepted(n)
  /\ events' = events + 1
  /\ db' = Queue(db, active, n, Deep)
  /\ UNCHANGED <<files, retry, worker, history, errors, crashes>>

----------------------------------------------------------------------------
(* The worker's turn. *)

Forgotten(s, n) == [s EXCEPT !.saved[n] = NoJob]

\* retained: snapshots whose job row and receipt are both still there.
Retained == {n \in DOMAIN snaps : Queued(db, n) /\ db.saved[n].gen > 0}

\* retry_paths: directories with a saved retry whose time has come; the times, and the
\* schedule that is kept of them, are left out: any of them may be due.
Due == SUBSET retry
Start(n) ==
  /\ active = Idle
  /\ LET kept == [db EXCEPT !.saved = [m \in Nodes |->
                    IF m \in DOMAIN snaps \ Retained THEN NoJob ELSE db.saved[m]]]
     IN  \E s \in Drained(kept), due \in Due :
           /\ db' = QueueAll(s, {m \in due : ~HasTicket(s, m)}, Ask(FALSE, FALSE, FALSE, TRUE))
           /\ Queued(db', n)
           /\ active' = [path |-> n, job |-> Row(db', n)]
  /\ snaps' = Restrict(snaps, Retained)
  /\ dirty' = dirty \cup (carried \cap (DOMAIN snaps \ Retained))
  /\ carried' = carried \ (DOMAIN snaps \ Retained)
  /\ UNCHANGED <<present, feed, retry, view, history, budget>>

\* What reconcile_step returns: the kind of result, the child directories it
\* has seen, whether it continued a snapshot and the file it failed on.
ResultKinds == {"none", "gone", "skipped", "partial", "listed", "waiting", "failed", "troubled"}
Result(kind, kids, more, at) == [kind |-> kind, kids |-> kids, more |-> more, at |-> at]
NoResult == Result("none", {}, FALSE, Root)

Observing(n) == active.path = n /\ active.job.gen > 0 /\ view = NoResult
Reads(n) == dirty' = dirty \ {n} /\ carried' = carried \cup (dirty \cap {n})
Unread(n) == dirty' = dirty \cup (carried \cap {n}) /\ carried' = carried \ {n}
Returns(result) ==
  /\ view' = result
  /\ UNCHANGED <<present, feed, db, active, history, events, crashes>>
Errs == errors < MaxErrors /\ errors' = errors + 1
There(n) == n \in present \ Packages
Lists(n) == Children(n) \cap present
More(n) == n \in DOMAIN snaps
Drop(n) == snaps' = Restrict(snaps, DOMAIN snaps \ {n})

\* What failed is remembered with its directory; a listing that was read to its end
\* without a failure retires what is remembered there.
Remember(n) == retry' = retry \cup {n}
RetireRetries(n) == retry' = retry \ {n}

\* A path that is not a directory, or no path at all.
ObserveGone(n) ==
  /\ Observing(n) /\ n \notin present /\ ~More(n)
  /\ Returns(Result("gone", {}, FALSE, n))
  /\ UNCHANGED <<dirty, carried, retry, snaps, errors>>

ObserveSkipped(n) ==
  /\ Observing(n) /\ n \in present \cap Packages
  /\ Returns(Result("skipped", {}, More(n), n))
  /\ Drop(n) /\ UNCHANGED <<dirty, carried, retry, errors>>

\* The first turn of a wide directory takes the snapshot of its names.
ObservePartly(n) ==
  /\ Observing(n) /\ There(n) /\ n \in Wide /\ ~More(n)
  /\ snaps' = [m \in DOMAIN snaps \cup {n} |-> IF m = n THEN Lists(n) ELSE snaps[m]]
  /\ Reads(n)
  /\ Returns(Result("partial", {}, FALSE, n))
  /\ UNCHANGED <<retry, errors>>

Observe(n) ==
  /\ Observing(n) /\ There(n) /\ (n \in Wide => More(n))
  /\ LET kids == IF More(n) THEN snaps[n] \cap present ELSE Lists(n)
     IN  Returns(Result("listed", kids, More(n), n))
  /\ IF More(n) THEN UNCHANGED <<dirty, carried>> ELSE Reads(n)
  /\ RetireRetries(n)
  /\ Drop(n) /\ UNCHANGED errors

\* An entry whose saved retry is not due is passed over, once after the last
\* error: retries become due.
ObserveWaiting(n) ==
  /\ Observing(n) /\ There(n) /\ n \in retry /\ ~More(n)
  /\ errors \in 1..MaxErrors /\ errors' = errors + 1
  /\ Returns(Result("waiting", Lists(n), FALSE, n))
  /\ Drop(n) /\ UNCHANGED <<dirty, carried, retry>>

\* The directory cannot be read, or it was replaced since its snapshot.
ObserveFailed(n) ==
  /\ Observing(n)
  /\ \/ There(n) /\ Errs
     \/ n \notin present /\ More(n) /\ UNCHANGED errors
  /\ \E kids \in SUBSET (IF More(n) THEN snaps[n] ELSE {}) :
       Returns(Result("failed", kids, More(n), n))
  /\ Unread(n) /\ Drop(n) /\ UNCHANGED retry

\* A rename fails: the turn ends there, whatever the listing holds after it.
ObserveTroubled(n, file) ==
  /\ Observing(n) /\ There(n) /\ Errs
  /\ file \in Files /\ Up[file] = n
  /\ \E kids \in SUBSET (IF More(n) THEN snaps[n] ELSE Lists(n)) :
       Returns(Result("troubled", kids, More(n), file))
  /\ Remember(n)
  /\ Unread(n) /\ Drop(n)

----------------------------------------------------------------------------
(* The transaction that commits the observation. *)

\* stage_scan: the job an observation began with, and the receipt of it.
Began(n) == IF view.more /\ db.saved[n].gen > 0 THEN db.saved[n] ELSE active.job

\* mutant: the row is deleted whatever has arrived since
RetireAny(s, n, j) == [s EXCEPT !.jobs[n] = NoJob]
Retire(s, n, j) ==
  IF Row(s, n).gen = j.gen THEN [s EXCEPT !.jobs[n] = NoJob] ELSE s

\* An ordinary turn of a baseline row leaves its baseline to be done.
Acknowledge(s, n, j, clean) ==
  IF j.base /\ j.scope > 0
  THEN IF Row(s, n).gen = j.gen
       THEN [s EXCEPT !.jobs[n].scope = 0, !.jobs[n].failed = @ /\ ~clean]
       ELSE s
  ELSE Retire(s, n, j)

Prune(s, n) == [s EXCEPT !.known = @ \ (Below[n] \cup {n})]
\* mutant: what has disappeared stays in the index
PruneNothing(s, n, kids) == [s EXCEPT !.known = @ \cup {n}]
PruneMissing(s, n, kids) ==
  [s EXCEPT !.known = (@ \ {m \in Dirs : \E c \in Children(n) \ kids : c \in Above[m]}) \cup {n}]

VisitedChildren(s, j, kids) ==
  {c \in kids \ Packages : ScansRecursively(j) \/ c \notin s.known}
\* mutant: the continuation of a baseline is ordinary work
QueueOrdinary(s, j, kids) ==
  QueueAll(s, VisitedChildren(s, j, kids), Ask(TRUE, FALSE, FALSE, TRUE))
QueueChildren(s, j, kids) ==
  QueueAll(s, VisitedChildren(s, j, kids), Ask(TRUE, ScansBaseline(j), FALSE, TRUE))

\* The failed path is asked for again with a deadline, as deep as before.
\* mutant: the retry is shallow
RetryShallow(s, at, j) ==
  LET t == Queue(s, Idle, at, Ask(FALSE, j.base, TRUE, TRUE))
  IN  [t EXCEPT !.jobs[at].failed = TRUE]
Retry(s, at, j) ==
  LET t == Queue(s, Idle, at, Ask(j.rec, j.base, TRUE, TRUE))
  IN  [t EXCEPT !.jobs[at].failed = TRUE]

QueueParent(s, n) == IF n = Root THEN s ELSE Queue(s, Idle, Up[n], Shallow)

\* The database after an observation of n that began with job j.
Applied(n, j) ==
  LET clear == Forgotten(db, n)
      kids == view.kids
  IN  CASE view.kind = "skipped" -> Retire(clear, n, j)
        [] view.kind = "gone" -> QueueParent(Acknowledge(Prune(clear, n), n, j, TRUE), n)
        [] view.kind \in {"listed", "waiting"} ->
             QueueChildren(Acknowledge(PruneMissing(clear, n, kids), n, j, TRUE), j, kids)
        [] view.kind \in {"failed", "troubled"} ->
             Retry(QueueChildren(Acknowledge(clear, n, j, FALSE), j, kids), view.at, j)
        [] view.kind = "partial" -> [db EXCEPT !.saved[n] = j]

\* History: the job was recursive, and children it should visit were not.
Narrow(n, j) ==
  /\ j.rec /\ ~(j.base /\ j.scope > 0)
  /\ \/ view.kind \in {"listed", "waiting", "troubled"} /\ ~ScansRecursively(j)
     \/ view.kind = "troubled" /\ Lists(n) \ view.kids # {}

Commit ==
  /\ view # NoResult
  /\ LET n == active.path
         j == Began(n)
     IN  /\ \E s \in Drained(Applied(n, j)) :
              db' = IF view.kind = "partial" THEN s ELSE Refresh(s)
         /\ carried' = IF view.kind = "listed" THEN carried \ {n} ELSE carried
         /\ narrowed' = IF Narrow(n, j) THEN narrowed \cup {n} ELSE narrowed
         /\ unvisited' = IF view.kind \in {"listed", "waiting", "troubled"} THEN unvisited \ {n} ELSE unvisited
  /\ active' = Idle /\ view' = NoResult
  /\ UNCHANGED <<present, dirty, feed, retry, snaps, budget>>

----------------------------------------------------------------------------
(* Everyone else. *)

Happens(kind) == kind \in Kinds /\ events < MaxEvents /\ events' = events + 1
Reported(e) == feed' = Append(feed, e)
Elsewhere == UNCHANGED <<db, retry, worker, narrowed, errors, crashes>>
Visible(n) == n \in present /\ Above[n] \cap Packages = {}

Change(n) ==
  /\ Happens("change") /\ Visible(n)
  /\ dirty' = dirty \cup {n}
  /\ Reported(Event("change", n))
  /\ UNCHANGED <<present, carried, unvisited>> /\ Elsewhere

\* A directory is made, or moved in with all that it contains.
Create(n) ==
  /\ Happens("create") /\ n \notin present /\ Visible(Up[n])
  /\ LET tree == Dirs \cap (Below[n] \cup {n})
     IN  \E new \in SUBSET tree :
           /\ n \in new /\ \A m \in new \ {n} : Up[m] \in new
           /\ present' = present \cup new
           /\ dirty' = dirty \cup {m \in new : Above[m] \cap Packages = {}} \cup {Up[n]}
  /\ Reported(Event("create", n))
  /\ UNCHANGED <<carried, unvisited>> /\ Elsewhere

Delete(n) ==
  /\ Happens("remove") /\ n \in present \ {Root} /\ Visible(Up[n])
  /\ present' = present \ (Below[n] \cup {n})
  /\ dirty' = (dirty \cap present') \cup {Up[n]}
  /\ carried' = carried \cap present' /\ unvisited' = unvisited \cap present'
  /\ Reported(Event("remove", n))
  /\ Elsewhere

\* The kernel folds the events below n, or all of them, into one.
Fold(kind, n) ==
  /\ Happens(kind) /\ Visible(n)
  /\ kind = "lost" => n = Root
  /\ dirty' = dirty \cup {m \in present : n \in Above[m] /\ Visible(m)}
  /\ Reported(Event(kind, n))
  /\ UNCHANGED <<present, carried, unvisited>> /\ Elsewhere

Crash ==
  /\ crashes < MaxCrashes /\ crashes' = crashes + 1
  /\ active' = Idle /\ view' = NoResult /\ snaps' = <<>>
  /\ dirty' = dirty \cup carried /\ carried' = {}
  /\ UNCHANGED <<present, feed, db, retry, history, events, errors>>

----------------------------------------------------------------------------
Init ==
  /\ present \in {p \in SUBSET Dirs : Root \in p /\ \A n \in p \ {Root} : Up[n] \in p}
  /\ dirty = {n \in present : Above[n] \cap Packages = {}} /\ carried = {}
  /\ feed = <<>>
  /\ db = [jobs |-> [n \in Nodes |-> NoJob], deferred |-> [n \in Nodes |-> NoRow],
           known |-> {}, saved |-> [n \in Nodes |-> NoJob], roots |-> TRUE, complete |-> FALSE]
  /\ retry = {} /\ active = Idle /\ view = NoResult /\ snaps = <<>> /\ narrowed = {}
  /\ unvisited = dirty
  /\ events = 0 /\ errors = 0 /\ crashes = 0

Observation(n) == \/ ObserveGone(n) \/ ObserveSkipped(n) \/ ObservePartly(n) \/ Observe(n)
                  \/ ObserveWaiting(n) \/ ObserveFailed(n) \/ \E f \in Files : ObserveTroubled(n, f)
Worker == (\E n \in Nodes : Start(n) \/ Observation(n)) \/ Commit
Others == \/ \E n \in Dirs : Change(n) \/ RequestReconcile(n)
          \/ \E n \in Dirs \ {Root} : Create(n) \/ Delete(n)
          \/ \E n \in Dirs, kind \in {"scan", "lost"} : Fold(kind, n)
          \/ Crash

Next == Enqueue \/ Bootstrap \/ Worker \/ Others
Spec == Init /\ [][Next]_vars

\* Streams deliver, the worker loop runs while there is work.
\* Worker is enabled exactly when there is work, so this is WF_vars(Worker).
HasWork ==
  \/ active # Idle \/ retry # {}
  \/ \E n \in Nodes : Queued(db, n) \/ db.deferred[n].some
WorkerRuns == <>[]HasWork => []<><<Worker>>_vars
FairSpec == Spec /\ WF_vars(Enqueue) /\ WF_vars(Bootstrap) /\ WorkerRuns

----------------------------------------------------------------------------
(* Properties. *)

TypeOK ==
  /\ present \subseteq Dirs /\ dirty \subseteq present /\ carried \subseteq present
  /\ feed \in Seq([kind: EventKinds, node: Dirs])
  /\ db \in DbType /\ retry \subseteq Dirs /\ narrowed \cup unvisited \subseteq Dirs
  /\ active \in [path: Nodes, job: Job]
  /\ view \in [kind: ResultKinds, kids: SUBSET Dirs, more: BOOLEAN, at: Nodes]
  /\ DOMAIN snaps \subseteq {n \in Dirs : db.saved[n].gen > 0 \/ active.path = n}

\* An event still behind the cursor will ask for the directory.
Announced(n) ==
  \E i \in DOMAIN feed :
    LET e == feed[i] IN
    CASE e.kind = "change" -> e.node = n
      [] e.kind = "create" -> e.node \in Above[n] \/ Up[e.node] = n
      [] e.kind = "remove" -> Up[e.node] = n
      [] OTHER -> e.node \in Above[n]

\* A durable record asks for the directory p itself, or for something missing
\* in it, whose observation asks for p.
Asked(p) ==
  \E q \in Nodes :
    /\ Queued(db, q) \/ db.deferred[q].some \/ q \in retry
    /\ q = p \/ (q # Root /\ Up[q] = p /\ q \notin present)

\* Its observation goes on to all directories below it.
Descends(p) ==
  \/ db.deferred[p].rec \/ ScansRecursively(Row(db, p))
  \/ Row(db, p).rec /\ Row(db, p).base

\* A durable record leads to the directory.
Owed(n) ==
  \/ db.roots
  \/ \E p \in Above[n] :
       /\ Asked(p)
       /\ \/ p = n \/ Descends(p)
          \/ \E c \in Children(p) : c \in Above[n] /\ c \notin db.known

\* Every change is still announced by an event behind the cursor or owed by a
\* durable record, at every moment a crash may strike.
Covered == \A n \in dirty \cup carried : Announced(n) \/ Owed(n)

\* A recursive row that met a shallow request loses its recursion.
Overtaken == {p \in Nodes : Row(db, p).rec /\ ~Row(db, p).base /\ Row(db, p).scope = 1}

\* The same but for what lies below a recursive job whose recursion was dropped.
CoveredUnlessNarrowed ==
  \A n \in dirty \cup carried :
    Announced(n) \/ Owed(n) \/ (narrowed \cup Overtaken) \cap Above[n] # {}

Excused == {n \in Dirs : (narrowed \cup Overtaken) \cap Above[n] # {}}

\* The baseline is declared complete only when every directory there since the
\* start has been observed, but for what lies below a narrowed job.
BaselineUnlessNarrowed == db.complete => unvisited \subseteq Excused

Quiescent ==
  /\ feed = <<>> /\ active = Idle /\ retry = {} /\ ~db.roots
  /\ \A n \in Nodes : ~Queued(db, n) /\ ~db.deferred[n].some

\* When nothing is left to do, the index knows exactly the directories there are.
IndexExact == Quiescent => db.known \ Excused = {n \in present : Visible(n)} \ Excused

\* A saved retry of a directory that has gone away does not stay for ever.
RetriesRetire == \A n \in Dirs : n \in retry /\ n \notin present ~> n \notin retry \/ n \in present

\* Every change is read in the end, whatever fails or crashes on the way
\* (acknowledge, retry and retained snapshots keep the work until it is done),
\* unless a job that led to it was narrowed.
Settles ==
  \A n \in Dirs :
    n \in dirty ~> (n \notin dirty \cup carried \/ narrowed \cap Above[n] # {})
=============================================================================
