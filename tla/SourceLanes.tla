----------------------------- MODULE SourceLanes -----------------------------
(***************************************************************************)
(* Event sources: the lane thread of native/src/sources.rs, the streams of  *)
(* native/src/events.rs that call back on their own queues, and what both   *)
(* write into the index while the mutation worker reads it.                 *)
(*                                                                         *)
(* One mount path below /Volumes, that one of several drives occupies at a   *)
(* time; the configuration decides whose place it is, and which drives need  *)
(* approval at every connection.  For all user files the catalog stream      *)
(* watches /Volumes; a data stream watches a drive from its saved cursor.    *)
(* Changes of a drive are numbered by their event ids.  A volume of the      *)
(* index is a drive's, and its queue is reduced to what is owed: a scan of   *)
(* the root, or of changes.                                                  *)
(***************************************************************************)
EXTENDS DriveSelection, Integers, FiniteSets, FiniteSetsExt

CONSTANTS
  Configs,      \* the configurations that are ever in force
  Devices,      \* device numbers; the system may give one again
  MaxMounts, MaxChanges, MaxApprovals, MaxFaults,   \* of each kind; a fault is a crash,
  MaxOutside    \* dropped events, or a stream that does not start; and of all together

ASSUME SourcesAssumption ==
  /\ None \notin Drives /\ Configs \subseteq Configurations /\ IsFiniteSet(Drives)
  /\ 0 \notin Devices    \* no device
  /\ {MaxMounts, MaxChanges, MaxApprovals, MaxFaults, MaxOutside} \subseteq Nat

VARIABLES
  config,               \* of the worker that runs
  owner,                \* the drive the folder belongs to by the user's choice, or None
  mounted, dev, conn,   \* the drive at the path, its device number, the connections so far
  untold,               \* history: connections whose end no stream will tell of
  made, missing,        \* changes of a drive, and those no scan has seen
  cat, note, catcb,     \* the catalog stream: running, undelivered events, its callback
  data, gone, cb,       \* data streams, their undelivered unmount, their callbacks
  vol, inactive, reval, \* the index: volumes, inactive_volumes, revalidation_keys,
  sig,                  \* and the signature of the configuration it was made under
  unscanned,            \* drives whose first scan was dropped while they were away
  request, consumed, signal,     \* drive-starts: the request, the consumed nonce, the signal
  grant,                \* manual_grants
  signals,              \* Signals, shared with the callbacks
  lane,                 \* LaneControl, shared with the foreground
  pc, job,              \* the lane thread and the locals of its refresh
  last, retry, failing, \* last_signature, next_retry_time, start_failures
  error,                \* an event could not be ingested
  faults, left

environment == <<mounted, dev, conn, untold, made>>
streams == <<cat, note, catcb, data, gone, cb>>
settings == <<config, owner>>
index == <<vol, inactive, reval, sig, unscanned>>
approval == <<request, consumed, signal>>
manager == <<grant, last, retry, failing>>
vars == <<settings, environment, missing, streams, index, approval, manager, signals, lane, pc, job, error, faults, left>>

Outside == left > 0 /\ left' = left - 1 /\ UNCHANGED faults
Fault == faults < MaxFaults /\ faults' = faults + 1 /\ left > 0 /\ left' = left - 1
Unset == -1                    \* of a cursor
NoVolume == [there |-> FALSE, cursor |-> Unset, pend |-> FALSE, root |-> FALSE, owed |-> {}]
NoStream == [on |-> FALSE, dev |-> 0, pos |-> 0]
NoCallback == [at |-> "idle", upto |-> 0, gone |-> FALSE, lost |-> FALSE]
NoRequest == [n |-> 0, dev |-> 0]
NoGrant == [dev |-> 0, conn |-> 0]
NoJob == [force |-> FALSE, due |-> FALSE, covered |-> FALSE, cand |-> None, dev |-> 0,
          roots |-> FALSE, absent |-> FALSE, changed |-> FALSE]
NoSignals == [requested |-> FALSE, force |-> FALSE, drives |-> {}, path |-> FALSE]
Started == [moved |-> FALSE, refresh |-> TRUE, force |-> FALSE]
Unknown == [known |-> FALSE, cand |-> None, dev |-> 0, roots |-> FALSE]

NoSignature == <<"none", 0>>
Manual == config.manual
Known == {d \in Drives : vol[d].there}

Callbacks == {"idle", "enqueue", "signal", "wake"}
Steps == {"top", "sleep", "take", "catalog", "cover", "discover", "stop",
          "prepare", "boot", "start", "seed", "finish"}
TypeOK ==
  /\ config \in Configs /\ owner \in Drives \cup {None}
  /\ sig \in {NoSignature} \cup {Signature(c) : c \in Configs} /\ unscanned \subseteq Drives
  /\ mounted \in Drives \cup {None} /\ dev \in Devices \cup {0} /\ conn \in 0..MaxMounts /\ untold \subseteq 0..MaxMounts
  /\ made \in [Drives -> 0..MaxChanges] /\ missing \in [Drives -> SUBSET (1..MaxChanges)]
  /\ cat \in BOOLEAN /\ note \subseteq {"mount", "unmount"}
  /\ catcb \in [at: Callbacks, force: BOOLEAN]
  /\ data \in [Drives -> [on: BOOLEAN, dev: Devices \cup {0}, pos: 0..MaxChanges]]
  /\ gone \in [Drives -> BOOLEAN]
  /\ cb \in [Drives -> [at: Callbacks, upto: 0..MaxChanges, gone: BOOLEAN, lost: BOOLEAN]]
  /\ vol \in [Drives -> [there: BOOLEAN, cursor: Unset..MaxChanges, pend: BOOLEAN, root: BOOLEAN,
                         owed: SUBSET (1..MaxChanges)]]
  /\ inactive \subseteq Drives /\ reval \subseteq Drives
  /\ request \in [Drives -> [n: 0..MaxApprovals, dev: Devices \cup {0}]]
  /\ consumed \in [Drives -> 0..MaxApprovals] /\ signal \in BOOLEAN
  /\ grant \in [Drives -> [dev: Devices \cup {0}, conn: 0..MaxMounts]]
  /\ signals \in [requested: BOOLEAN, force: BOOLEAN, drives: SUBSET Drives, path: BOOLEAN]
  /\ lane \in [moved: BOOLEAN, refresh: BOOLEAN, force: BOOLEAN]
  /\ pc \in Steps /\ job \in [force: BOOLEAN, due: BOOLEAN, covered: BOOLEAN,
                           cand: Drives \cup {None}, dev: Devices \cup {0}, roots: BOOLEAN, absent: BOOLEAN, changed: BOOLEAN]
  /\ retry \in {"none", "armed", "due"} /\ {failing, error} \subseteq BOOLEAN
  /\ faults \in 0..MaxFaults /\ left \in 0..MaxOutside

\* A drive is there when the worker starts; the rest happens from here.
Init ==
  /\ config \in Configs /\ owner = None /\ sig = NoSignature /\ unscanned = {}
  /\ mounted \in Drives /\ conn = 1 /\ dev \in Devices /\ untold = {}
  /\ made = [d \in Drives |-> 0] /\ missing = [d \in Drives |-> {}]
  /\ cat = FALSE /\ note = {} /\ catcb = [at |-> "idle", force |-> FALSE]
  /\ data = [d \in Drives |-> NoStream] /\ gone = [d \in Drives |-> FALSE]
  /\ cb = [d \in Drives |-> NoCallback]
  /\ vol = [d \in Drives |-> NoVolume] /\ inactive = {} /\ reval = {}
  /\ request = [d \in Drives |-> NoRequest] /\ consumed = [d \in Drives |-> 0] /\ signal = FALSE
  /\ grant = [d \in Drives |-> NoGrant]
  /\ signals = NoSignals /\ lane = Started /\ pc = "top" /\ job = NoJob
  /\ last = Unknown /\ retry = "none" /\ failing = FALSE /\ error = FALSE
  /\ faults = 0 /\ left = MaxOutside

----------------------------------------------------------------------------
(* Drives come and go, and are changed, here or at another computer.        *)

Around == Outside /\ UNCHANGED <<settings, index, manager, signals, lane, pc, job, error>>
Mount(d) ==
  /\ mounted = None /\ conn < MaxMounts
  /\ mounted' = d /\ dev' \in Devices /\ conn' = conn + 1
  /\ note' = IF cat THEN note \cup {"mount"} ELSE note
  /\ Around /\ UNCHANGED <<untold, made, missing, cat, catcb, data, gone, cb, approval>>
Unmount ==
  /\ mounted # None /\ mounted' = None /\ dev' = 0
  /\ note' = IF cat THEN note \cup {"unmount"} ELSE note
  \* The drive's own stream, which watches its root, tells if no catalog does.
  /\ \E told \in IF data[mounted].on THEN {TRUE, ~cat} ELSE {FALSE} :
       /\ gone' = [gone EXCEPT ![mounted] = @ \/ told]
       /\ untold' = IF told \/ cat THEN untold ELSE untold \cup {conn}
  /\ Around /\ UNCHANGED <<conn, made, missing, cat, catcb, data, cb, approval>>
Change(d) ==
  /\ MapThenSumSet(LAMBDA e : made[e], Drives) < MaxChanges /\ made' = [made EXCEPT ![d] = @ + 1]
  /\ missing' = [missing EXCEPT ![d] = @ \cup {made'[d]}]
  /\ Around /\ UNCHANGED <<mounted, dev, conn, untold, streams, approval>>

\* request_drive_start: for the drive that is connected, with a nonce of its own.
Approve(d) ==
  /\ mounted = d /\ Selected(config, d, Known) /\ d \in Manual /\ request[d].n < MaxApprovals
  /\ request' = [request EXCEPT ![d] = [n |-> @.n + 1, dev |-> dev]] /\ signal' = TRUE
  /\ Around /\ UNCHANGED <<settings, environment, missing, streams, consumed>>

----------------------------------------------------------------------------
(* Callbacks, each on its stream's queue: mark, commit, signal, wake.       *)

Refreshing(force) == [signals EXCEPT !.requested = TRUE, !.force = @ \/ force]
Woken == [lane EXCEPT !.moved = TRUE]

\* A mount may be told as such, or as a directory that appeared.
CatalogEvent ==
  /\ cat /\ note # {} /\ catcb.at = "idle"
  /\ \E force \in {"unmount" \in note, TRUE} : catcb' = [at |-> "signal", force |-> force]
  /\ note' = {} /\ signals' = [signals EXCEPT !.path = @ \/ "unmount" \in note]
  /\ UNCHANGED <<settings, environment, missing, cat, data, gone, cb, index, approval, manager, lane, pc, job, error, faults, left>>
CatalogSignal ==
  /\ catcb.at = "signal" /\ catcb' = [catcb EXCEPT !.at = "wake"] /\ signals' = Refreshing(catcb.force)
  /\ UNCHANGED <<settings, environment, missing, cat, note, data, gone, cb, index, approval, manager, lane, pc, job, error, faults, left>>
CatalogWake ==
  /\ catcb.at = "wake" /\ catcb' = [at |-> "idle", force |-> FALSE] /\ lane' = Woken
  /\ UNCHANGED <<settings, environment, missing, cat, note, data, gone, cb, index, approval, manager, signals, pc, job, error, faults, left>>

\* The system may have dropped what it could not keep, and says so.
Batch(d) ==
  /\ data[d].on /\ cb[d].at = "idle" /\ (made[d] > data[d].pos \/ gone[d])
  /\ \E lost \in BOOLEAN :
       /\ IF lost THEN Fault /\ made[d] > data[d].pos ELSE UNCHANGED <<faults, left>>
       /\ cb' = [cb EXCEPT ![d] = [at |-> "enqueue", upto |-> made[d], gone |-> gone[d], lost |-> lost]]
  /\ gone' = [gone EXCEPT ![d] = FALSE]
  /\ signals' = IF gone[d] THEN [signals EXCEPT !.drives = @ \cup {d}] ELSE signals
  /\ UNCHANGED <<settings, environment, missing, cat, note, catcb, data, index, approval, manager, lane, pc, job, error>>

Highest(a, b) == IF a > b THEN a ELSE b
Taken(d, v) == [v EXCEPT !.cursor = Highest(@, cb[d].upto), !.root = @ \/ cb[d].lost,
                         !.owed = IF cb[d].lost THEN @ ELSE @ \cup ((data[d].pos + 1)..cb[d].upto)]
\* enqueue, in a transaction: it fails for a volume that is not in the index.
Commit(d) ==
  /\ cb[d].at = "enqueue"
  /\ IF vol[d].there
     THEN /\ vol' = [vol EXCEPT ![d] = Taken(d, @)]
          /\ reval' = IF cb[d].gone THEN reval \cup {d} ELSE reval
          /\ cb' = [cb EXCEPT ![d].at = "signal"]
          /\ UNCHANGED error
     ELSE error' = TRUE /\ cb' = [cb EXCEPT ![d].at = "signal"] /\ UNCHANGED <<vol, reval>>
  /\ UNCHANGED <<sig, unscanned>>
  /\ data' = [data EXCEPT ![d].pos = cb[d].upto]
  /\ UNCHANGED <<settings, environment, missing, cat, note, catcb, gone, inactive, approval, manager, signals, lane,
                 pc, job, faults, left>>
Signal(d) ==
  /\ cb[d].at = "signal" /\ cb' = [cb EXCEPT ![d] = NoCallback] /\ lane' = Woken
  /\ signals' = IF cb[d].gone \/ cb[d].lost THEN Refreshing(cb[d].gone) ELSE signals
  /\ UNCHANGED <<settings, environment, missing, cat, note, catcb, data, gone, index, approval, manager, pc, job, error, faults, left>>

----------------------------------------------------------------------------
(* The foreground: the mutation worker.                                     *)

\* check(): the signal file changed.
SeeSignal ==
  /\ signal /\ signal' = FALSE /\ lane' = [lane EXCEPT !.refresh = TRUE]
  /\ UNCHANGED <<settings, environment, missing, streams, index, request, consumed, manager, signals, pc, job, error, faults, left>>
\* work() refuses while roots are to be verified again, and the refresh is forced.
Revalidate ==
  /\ reval # {} /\ lane' = [lane EXCEPT !.refresh = TRUE, !.force = TRUE] /\ lane' # lane
  /\ UNCHANGED <<settings, environment, missing, streams, index, approval, manager, signals, pc, job, error, faults, left>>
\* A scan of the root sees all that was changed; one of a directory, its change.
Work(d) ==
  /\ mounted = d /\ vol[d].there /\ d \notin inactive /\ reval = {}
  /\ \/ /\ vol[d].root /\ vol' = [vol EXCEPT ![d].root = FALSE]
        /\ missing' = [missing EXCEPT ![d] = {}] /\ unscanned' = unscanned \ {d}
     \/ /\ UNCHANGED unscanned
        /\ \E n \in vol[d].owed :
             vol' = [vol EXCEPT ![d].owed = @ \ {n}] /\ missing' = [missing EXCEPT ![d] = @ \ {n}]
  /\ UNCHANGED <<settings, environment, streams, inactive, reval, sig, approval, manager, signals, lane, pc, job, error, faults, left>>

----------------------------------------------------------------------------
(* The lane thread.                                                         *)

Go(step) == pc' = step
Awake == lane.moved \/ lane.refresh \/ retry = "due"
\* What was asked for is taken, and how far the lane was woken remembered, before
\* anything is looked at; manager.check() asks for a refresh when a retry is due.
Top ==
  /\ pc = "top" \/ (pc = "sleep" /\ Awake)
  /\ ~error
  /\ job' = [NoJob EXCEPT !.force = lane.force]
  /\ lane' = [moved |-> retry = "due", refresh |-> FALSE, force |-> FALSE]
  /\ LET s == IF retry = "due" THEN Refreshing(FALSE) ELSE signals IN
     /\ signals' = s /\ Go(IF lane.refresh \/ s.requested THEN "take" ELSE "sleep")
  /\ UNCHANGED <<settings, environment, missing, streams, index, approval, manager, error, faults, left>>
Timer ==
  /\ retry = "armed" /\ pc = "sleep" /\ retry' = "due"
  /\ UNCHANGED <<settings, environment, missing, streams, index, approval, grant, last, failing, signals, lane, pc, job,
                 error, faults, left>>

\* What was unmounted since: by the catalog's word, whoever is known at the path.
Left == signals.drives \cup {d \in Drives : signals.path /\ vol[d].there}
\* mutant: permission outlives the connection
KeptGrants == grant
EndedGrants == [d \in Drives |-> IF d \in Left THEN NoGrant ELSE grant[d]]
Take ==
  /\ pc = "take"
  /\ grant' = EndedGrants
  /\ consumed' = [d \in Drives |-> IF d \in Left THEN request[d].n ELSE consumed[d]]
  /\ signals' = NoSignals
  /\ job' = [job EXCEPT !.force = @ \/ signals.force, !.due = retry = "due"]
  /\ Go(IF config.scope = "all" /\ (job'.force \/ (~cat /\ (job'.due \/ ~last.known)))
        THEN "catalog" ELSE "cover")
  /\ UNCHANGED <<settings, environment, missing, streams, index, request, signal, last, retry, failing, lane, error, faults, left>>

\* sync_catalogs: stopped and started again from its checkpoint when forced; one that
\* did not start is tried again when a retry is due.  What is covered is read after it.
StartCatalog ==
  /\ pc = "catalog" /\ catcb.at = "idle"
  /\ \/ cat' = TRUE /\ UNCHANGED <<faults, left>>
     \/ cat' = FALSE /\ Fault
  /\ UNCHANGED <<settings, environment, missing, note, catcb, data, gone, cb, index, approval, manager, signals, lane,
                 job, error>>
  /\ Go("cover")
\* Configured folders are covered as they are; otherwise what is mounted, if the catalog
\* can be read: what cannot is reported, and looked for again.
Covered == config.scope = "configured" \/ mounted # None
Listing(listed) ==
  \/ listed /\ UNCHANGED <<faults, left>>
  \/ ~listed /\ config.scope = "all" /\ Covered /\ Fault
Cover ==
  /\ pc = "cover" /\ Go("discover")
  /\ \E listed \in BOOLEAN : Listing(listed) /\
       job' = [job EXCEPT !.covered = listed /\ Covered,
                          !.absent = ~listed \/ (config.scope = "all" /\ ~cat)]
  /\ UNCHANGED <<settings, environment, missing, streams, index, approval, manager, signals, lane, error>>

\* manual_permitted: a request is consumed even when it is for another connection.
Requested(d) == d \in Manual /\ grant[d].dev # dev /\ request[d].n > consumed[d]
Granted(d) ==
  IF Requested(d) /\ request[d].dev = dev THEN [dev |-> dev, conn |-> conn] ELSE grant[d]
Permitted(d) == d \notin Manual \/ Granted(d).dev = dev
LastSignature(j) == [known |-> TRUE, cand |-> j.cand, dev |-> j.dev, roots |-> j.roots]
\* Remembered roots of drives that are selected come back into the plan.
Desired == job.covered \/ (config.scope = "all" /\ \E e \in Known : Selected(config, e, Known))
\* What is mounted all the while it is looked at, or an error.
Identified(d) ==
  \/ d = mounted /\ UNCHANGED <<faults, left>>
  \/ d = None /\ mounted # None /\ Fault
Volume(d) == [cand |-> d, dev |-> dev]
\* What is not selected leaves the root to another drive that is remembered, and so
\* does an error, unless the one that is remembered is not included any more.
Reserved(d) ==
  IF d = None THEN \A e \in Known : VolumeIncluded(config, e)
  ELSE \E e \in Known \ {d} : VolumeIncluded(config, e)
Discover ==
  /\ pc = "discover"
  /\ \E d \in {mounted, None} : Identified(d) /\
     LET found == Desired /\ d # None /\ Selected(config, d, Known)
         rooted == found \/ (Desired /\ Reserved(d))
         v == IF found /\ Permitted(d) THEN Volume(d) ELSE [cand |-> None, dev |-> 0]
         j == [job EXCEPT !.roots = rooted, !.absent = @ \/ (rooted /\ ~found), !.cand = v.cand, !.dev = v.dev]
         changed == job.force \/ last # LastSignature(j) \/ (job.due /\ failing)
     IN
     /\ job' = [j EXCEPT !.changed = changed] /\ Go(IF changed THEN "stop" ELSE "finish")
     /\ consumed' = IF found /\ Requested(d) THEN [consumed EXCEPT ![d] = request[d].n] ELSE consumed
     \* Only what is present, as it was granted, stays granted.
     /\ grant' = [e \in Drives |-> IF found /\ e = d /\ Granted(d).dev = dev THEN Granted(d) ELSE NoGrant]
  /\ UNCHANGED <<settings, environment, missing, streams, index, request, signal, last, retry, failing, signals, lane,
                 error>>

\* mutant: a stream whose drive is replaced goes on
OnlyForced(d) == data[d].on /\ job.force
Removed(d) == data[d].on /\ (job.force \/ d # job.cand \/ data[d].dev # job.dev)
\* Stopping a stream waits for its callback and lets no other begin: what it has not
\* told by then, only the catalog may tell.
Barrier(watched) == \A d \in watched : cb[d].at = "idle"
Stop ==
  /\ pc = "stop" /\ ~error
  /\ Barrier({d \in Drives : Removed(d)})
  /\ data' = [d \in Drives |-> IF Removed(d) THEN NoStream ELSE data[d]]
  /\ gone' = [d \in Drives |-> gone[d] /\ ~Removed(d)]
  /\ untold' = untold \cup
       {grant[d].conn : d \in {e \in Drives : gone[e] /\ Removed(e) /\ "unmount" \notin note /\ ~signals.path}}
  /\ Go("prepare")
  /\ UNCHANGED <<settings, mounted, dev, conn, made, missing, cat, note, catcb, cb, index, approval, manager, signals, lane, job, error, faults, left>>

\* mutant: a volume may be scanned before its stream has started
AtOnce(known) == {}
Dormant(known) == {d \in known : ~data[d].on}
\* mutant: a volume that is not available is not kept
OnlyAvailable == {job.cand} \ {None}
\* The candidate, and without one the volumes of its root as they are.
Identities == IF job.cand # None THEN {job.cand} ELSE IF job.roots THEN Known ELSE {}
\* Nothing but the identities outlives another signature.
Retained == IF sig = Signature(config) THEN Identities \cap Known ELSE {}
Prepared(d) ==
  IF d \in Retained THEN [vol[d] EXCEPT !.pend = @ \/ d \in reval]
  ELSE IF d \in Identities THEN [NoVolume EXCEPT !.there = TRUE, !.pend = TRUE] ELSE NoVolume
\* By choice: the drive is included, or the first one in a folder that names none.
Chosen(d) ==
  \/ d \in config.in
  \/ config.scope = "configured" /\ d \notin config.out /\ (d \in config.manual \/ (owner = None /\ Named(config) = {}))
\* What the preferences allow to watch, as the user may put it.
Allowed(d) ==
  /\ d \notin config.out
  /\ config.scope = "all" /\ config.mode = "selected" => d \in config.in
  /\ d = owner \/ Chosen(d)
\* prepare_sources
Prepare ==
  /\ pc = "prepare"
  /\ vol' = [d \in Drives |-> Prepared(d)]
  /\ inactive' = Dormant(Identities) /\ reval' = {}
  /\ sig' = Signature(config) /\ unscanned' = unscanned \cap Retained
  /\ owner' = IF job.cand # None /\ Chosen(job.cand) THEN job.cand
              ELSE IF owner \in Drives \ Identities /\ ~Allowed(owner) THEN None ELSE owner
  /\ Go("boot")
  /\ UNCHANGED <<config, environment, missing, streams, approval, manager, signals, lane, job, error, faults, left>>
\* bootstrap_jobs, a transaction of its own.  The queue takes only what the executable
\* policy covers: what is owed to a drive that is away is dropped, and not pending.
Boot ==
  /\ pc = "boot"
  /\ vol' = [d \in Drives |-> [vol[d] EXCEPT !.root = @ \/ (vol[d].pend /\ job.cand # None), !.pend = FALSE]]
  /\ unscanned' = unscanned \cup {d \in Drives : vol[d].pend /\ vol[d].cursor = Unset /\ job.cand = None}
  /\ failing' = FALSE
  /\ Go(IF job.cand # None /\ ~data[job.cand].on THEN "start" ELSE "finish")
  /\ UNCHANGED <<settings, environment, missing, streams, inactive, reval, sig, approval, grant, last, retry, signals, lane,
                 job, error, faults, left>>

\* invalidate_volume
Invalid(v) == [v EXCEPT !.cursor = Unset, !.root = TRUE]
\* The native stream verifies drive, path and cursor once more: the cursor may be
\* invalid because the drive is another one, or its history was reset.
Here == mounted = job.cand /\ dev = job.dev
StartNative(result) ==
  \/ result = "started" /\ Here /\ UNCHANGED <<faults, left>>
  \/ result \in {"invalid", "failed"} /\ IF Here THEN Fault ELSE UNCHANGED <<faults, left>>
\* start_watch: from the cursor, or from now; an invalid cursor is given up once.
Start ==
  /\ pc = "start"
  /\ \E result \in {"started", "invalid", "failed"} : StartNative(result) /\
     LET d == job.cand
         v == IF result = "invalid" THEN Invalid(vol[d]) ELSE vol[d]
     IN
     /\ vol' = [vol EXCEPT ![d] = v]
     /\ IF Here /\ result # "failed"
        THEN /\ data' = [data EXCEPT ![d] = [on |-> TRUE, dev |-> job.dev,
                           pos |-> IF v.cursor = Unset THEN made[d] ELSE v.cursor]]
             /\ Go("seed") /\ UNCHANGED failing
        ELSE failing' = TRUE /\ Go("finish") /\ UNCHANGED data
  /\ UNCHANGED <<settings, environment, missing, cat, note, catcb, gone, cb, inactive, reval, sig, unscanned,
                 approval, grant, last, retry, signals, lane, job, error>>
\* seed_cursor, only if no callback has moved it; then the volume may be scanned.
Seeded(v, start) == IF v.cursor = Unset THEN [v EXCEPT !.cursor = start] ELSE v
Seed ==
  /\ pc = "seed" /\ ~error /\ Go("finish") /\ inactive' = inactive \ {job.cand}
  /\ vol' = [vol EXCEPT ![job.cand] = Seeded(@, data[job.cand].pos)]
  /\ UNCHANGED <<settings, environment, missing, streams, reval, sig, unscanned, approval, manager, signals, lane,
                 job, error, faults, left>>
\* mutant: what was asked for meanwhile is taken as answered
Answered == NoSignals
Pending == signals
Finish ==
  /\ pc = "finish" /\ Go("sleep") /\ job' = NoJob
  /\ last' = IF job.changed THEN LastSignature(job) ELSE last
  /\ retry' = IF ~job.absent /\ ~failing THEN "none"
              ELSE IF job.due \/ job.changed \/ retry # "armed" THEN "armed" ELSE retry
  /\ lane' = Woken /\ signals' = Pending
  /\ UNCHANGED <<settings, environment, missing, streams, index, approval, grant, failing, error, faults, left>>

\* An ingestion that failed ends the lane and with it the process; it is started again.
Ended == IF error THEN pc \in {"top", "sleep"} /\ UNCHANGED <<faults, left>> ELSE Fault
Stopped ==
  /\ cat' = FALSE /\ note' = {} /\ catcb' = [at |-> "idle", force |-> FALSE]
  /\ data' = [d \in Drives |-> NoStream] /\ gone' = [d \in Drives |-> FALSE]
  /\ cb' = [d \in Drives |-> NoCallback]
  /\ grant' = [d \in Drives |-> NoGrant] /\ signal' = FALSE
  /\ signals' = NoSignals /\ lane' = Started /\ pc' = "top" /\ job' = NoJob
  /\ last' = Unknown /\ retry' = "none" /\ failing' = FALSE /\ error' = FALSE
  /\ UNCHANGED <<owner, environment, missing, index, request, consumed>>
Restart == Ended /\ Stopped /\ UNCHANGED config

\* Other settings are saved: the lane is cancelled where it asks, and closed, which
\* waits for its callbacks; the worker starts again with them.
Cancellable == {"top", "sleep", "discover", "start"}
Configure(c) ==
  /\ c # config /\ config' = c /\ Outside
  /\ pc \in Cancellable /\ ~error
  /\ catcb.at = "idle" /\ Barrier(Drives)
  /\ Stopped

Callback ==
  \/ CatalogEvent \/ CatalogSignal \/ CatalogWake
  \/ \E d \in Drives : Batch(d) \/ Commit(d) \/ Signal(d)
Foreground == SeeSignal \/ Revalidate \/ \E d \in Drives : Work(d)
Lane ==
  \/ Top \/ Timer \/ Take \/ StartCatalog \/ Cover \/ Discover \/ Stop
  \/ Prepare \/ Boot \/ Start \/ Seed \/ Finish
Next ==
  \/ Unmount \/ \E d \in Drives : Mount(d) \/ Change(d) \/ Approve(d)
  \/ \E c \in Configs : Configure(c)
  \/ Callback \/ Foreground \/ Lane \/ Restart
Spec == Init /\ [][Next]_vars
\* The process runs while any of its threads can, and a wait of the lane with a limit
\* expires: weaker than fairness of each thread and queue, and enough.
FairSpec == Spec /\ WF_vars(Lane \/ Foreground \/ Callback)

----------------------------------------------------------------------------
(* Properties. *)

\* No change of a known drive is forgotten: it is queued, a scan of the root is, or it
\* lies behind the cursor the next stream starts from; whatever callbacks, refreshes
\* and crashes lie between the event and its commit.  Not so for a drive whose first
\* scan was dropped by bootstrap_jobs because it was away.
NothingForgotten ==
  \A d \in Known \ unscanned :
    \A n \in missing[d] :
      \/ vol[d].pend \/ vol[d].root \/ n \in vol[d].owed \/ d \in reval
      \/ vol[d].cursor # Unset /\ n > vol[d].cursor

\* A stream never reports to a volume that is gone from the index: a refresh stops it,
\* and its callback, before it removes the volume.
Ingested == ~error

Quiet ==
  /\ pc = "sleep" /\ ~Awake /\ note = {} /\ signals = NoSignals /\ catcb.at = "idle"
  /\ \A d \in Drives : cb[d].at = "idle" /\ ~gone[d]
\* Once the lane rests, a drive that wants approval is watched only while it is there,
\* and by a permission given in its present connection, though the device number may be
\* the same again; but for one given in a connection whose end no stream could tell of.
PermissionEnds ==
  Quiet => \A d \in Manual : data[d].on => mounted = d /\ grant[d].conn \in untold \cup {conn}

\* Only a drive that the preferences allow is ever watched, and no drive takes over a
\* folder that was another's by merely appearing at its path, whatever drives came and
\* went, whatever was excluded and included again, and however often it restarted.
Consented == \A d \in Drives : data[d].on => Allowed(d)

\* A drive that is away is not forgotten: its volume leaves the index only when the
\* preferences stop to allow it, or when a drive they do allow has taken its place.
AwayIsNotGone ==
  [][\A d \in Drives : vol[d].there /\ ~vol'[d].there =>
       ~Allowed(d) \/ (job.cand \notin {None, d} /\ Allowed(job.cand))]_vars

\* What the settings, a preview and one-shot work make of the drives agrees with what
\* the worker does: they show a watched drive as included, they include or take no
\* drive that is not allowed, and they call no drive that is there disconnected, also
\* when the index or the drive cannot be read.
ShownTruly ==
  /\ \A unread, unseen \in BOOLEAN :
       LET shown == Inventory(config, mounted, Known, unread, unseen) IN
       \A d \in DOMAIN shown :
         /\ shown[d].included => Allowed(d)
         /\ data[d].on /\ ~unread => shown[d].included
         /\ mounted = d => shown[d].availability # "disconnected"
  /\ \A d \in Drives : mounted = d /\ Resolved(config, d, Known) => Allowed(d)

Wanted(d) == Allowed(d) /\ d \notin Manual
\* A drive that stays, of those the preferences choose, is watched, and every change it
\* ever had is seen, whatever was mounted, signalled, saved or refused before, and
\* whenever the process was started again; but for a first scan that was dropped.
Followed ==
  <>[](mounted # None /\ Wanted(mounted)) =>
    <>[](mounted # None /\ LET d == mounted IN
           data[d].on /\ d \notin inactive /\ (missing[d] = {} \/ d \in unscanned))
=============================================================================
