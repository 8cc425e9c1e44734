-------------------------- MODULE SourceLanesProofs --------------------------
(***************************************************************************)
(* Proofs about SourceLanes, for any drives, configurations, mounts,       *)
(* changes, approvals and faults: which drives are watched, what the index *)
(* keeps of one that is away, and that no change of a known drive is lost. *)
(***************************************************************************)
EXTENDS SourceLanes, TLAPS

----------------------------------------------------------------------------
(* The inductive invariant. *)

Streams == [on: BOOLEAN, dev: Devices \cup {0}, pos: Nat]
Calls == [at: Callbacks, upto: Nat, gone: BOOLEAN, lost: BOOLEAN]
Volumes == [there: BOOLEAN, cursor: Int, pend: BOOLEAN, root: BOOLEAN, owed: SUBSET Nat]
Wishes == [requested: BOOLEAN, force: BOOLEAN, drives: SUBSET Drives, path: BOOLEAN]
Controls == [moved: BOOLEAN, refresh: BOOLEAN, force: BOOLEAN]
Jobs == [force: BOOLEAN, due: BOOLEAN, covered: BOOLEAN, cand: Drives \cup {None},
         dev: Devices \cup {0}, roots: BOOLEAN, absent: BOOLEAN, changed: BOOLEAN]

SettingsTyped == config \in Configurations /\ owner \in Drives \cup {None}
WorldTyped ==
  /\ mounted \in Drives \cup {None} /\ dev \in Devices \cup {0}
  /\ made \in [Drives -> Nat] /\ missing \in [Drives -> SUBSET Nat]
StreamsTyped ==
  /\ catcb \in [at: Callbacks, force: BOOLEAN]
  /\ data \in [Drives -> Streams]
  /\ gone \in [Drives -> BOOLEAN]
  /\ cb \in [Drives -> Calls]
IndexTyped ==
  vol \in [Drives -> Volumes]
LaneTyped ==
  /\ signals \in Wishes
  /\ lane \in Controls
  /\ pc \in Steps
  /\ job \in Jobs

\* A callback is of a stream that runs, and a stream is of a volume in the index.
Watched == \A d \in Drives : (cb[d].at # "idle" => data[d].on) /\ (data[d].on => vol[d].there)

\* While a refresh changes the index only the stream of its candidate is left, and the
\* candidate has its volume, which is inactive while it has no stream.
Alone ==
  /\ pc \in {"prepare", "boot", "start", "seed"} => \A d \in Drives : data[d].on => d = job.cand
  /\ pc \in {"boot", "start", "seed"} /\ job.cand # None => vol[job.cand].there
  /\ pc \in {"boot", "start"} => \A d \in Known : data[d].on \/ d \in inactive
  /\ pc = "start" => job.cand # None /\ ~data[job.cand].on /\ ~vol[job.cand].pend
  /\ pc = "seed" => job.cand # None /\ data[job.cand].on /\ ~vol[job.cand].pend

\* One volume at most is in the index, that of the drive the folder belongs to.
Pinned == Known = {owner} \ {None}

\* The plan of a refresh still agrees with the index when it is carried out.
Planned ==
  /\ pc = "discover" /\ config.scope = "configured" => job.covered
  /\ pc \in {"stop", "prepare"} =>
       IF job.cand # None THEN Selected(config, job.cand, Known)
       ELSE \A d \in Known : Allowed(d) => job.roots
  /\ pc \in {"boot", "start"} /\ job.cand # None => Allowed(job.cand)

\* A stream runs under the signature the index was made under.
Signed ==
  /\ \A d \in Drives : data[d].on => sig = Signature(config)
  /\ pc \in {"boot", "start", "seed"} => sig = Signature(config)

\* How cursors, streams and callbacks count the changes.
Numbered ==
  \A d \in Drives :
    /\ missing[d] \subseteq 1..made[d]
    /\ vol[d].cursor \in Unset..made[d] /\ data[d].pos <= made[d]
    /\ data[d].on /\ vol[d].cursor # Unset => data[d].pos <= vol[d].cursor
    /\ cb[d].at = "enqueue" => cb[d].upto \in data[d].pos..made[d]

\* A volume that may be scanned has a cursor.
Scannable ==
  \A d \in Known :
    /\ d \notin inactive => vol[d].cursor # Unset
    /\ data[d].on => vol[d].cursor # Unset \/ (pc = "seed" /\ d = job.cand)

\* A volume without a cursor is owed its scan; one with a cursor, what lies before it.
Owing ==
  \A d \in Known \ unscanned :
    IF vol[d].cursor = Unset THEN vol[d].pend \/ vol[d].root
    ELSE vol[d].root \/ \A n \in missing[d] : n \in vol[d].owed \/ n > vol[d].cursor

Inv == /\ SettingsTyped /\ WorldTyped /\ StreamsTyped /\ IndexTyped /\ LaneTyped
       /\ Watched /\ Alone /\ Ingested /\ Pinned /\ Planned /\ Consented
       /\ Signed /\ Numbered /\ Scannable /\ Owing
----------------------------------------------------------------------------
(* A part of the invariant is kept by what leaves its variables alone.      *)

LEMMA SettingsTypedFrame ==
  ASSUME SettingsTyped, UNCHANGED <<config, owner>>
  PROVE  SettingsTyped'
BY DEF SettingsTyped

LEMMA WorldTypedFrame ==
  ASSUME WorldTyped, UNCHANGED <<mounted, dev, made, missing>>
  PROVE  WorldTyped'
BY DEF WorldTyped

LEMMA StreamsTypedFrame ==
  ASSUME StreamsTyped, UNCHANGED <<catcb, data, gone, cb>>
  PROVE  StreamsTyped'
BY DEF StreamsTyped, Streams, Calls

LEMMA IndexTypedFrame ==
  ASSUME IndexTyped, UNCHANGED <<vol>>
  PROVE  IndexTyped'
BY DEF IndexTyped, Volumes

LEMMA LaneTypedFrame ==
  ASSUME LaneTyped, UNCHANGED <<signals, lane, pc, job>>
  PROVE  LaneTyped'
BY DEF LaneTyped, Wishes, Controls, Jobs

LEMMA WatchedFrame ==
  ASSUME Watched, UNCHANGED <<cb, data, vol>>
  PROVE  Watched'
BY DEF Watched

LEMMA AloneFrame ==
  ASSUME Alone, UNCHANGED <<pc, data, job, vol, inactive>>
  PROVE  Alone'
BY DEF Alone, Known

LEMMA IngestedFrame ==
  ASSUME Ingested, UNCHANGED <<error>>
  PROVE  Ingested'
BY DEF Ingested

LEMMA PinnedFrame ==
  ASSUME Pinned, UNCHANGED <<vol, owner>>
  PROVE  Pinned'
BY DEF Pinned, Known

LEMMA PlannedFrame ==
  ASSUME Planned, UNCHANGED <<pc, config, job, vol, owner>>
  PROVE  Planned'
BY DEF Planned, Known, Allowed, Chosen

LEMMA ConsentedFrame ==
  ASSUME Consented, UNCHANGED <<data, config, owner>>
  PROVE  Consented'
BY DEF Consented, Allowed, Chosen

LEMMA SignedFrame ==
  ASSUME Signed, UNCHANGED <<data, sig, config, pc>>
  PROVE  Signed'
BY DEF Signed

LEMMA NumberedFrame ==
  ASSUME Numbered, UNCHANGED <<missing, made, vol, data, cb>>
  PROVE  Numbered'
BY DEF Numbered

LEMMA ScannableFrame ==
  ASSUME Scannable, UNCHANGED <<vol, inactive, data, pc, job>>
  PROVE  Scannable'
BY DEF Scannable, Known

LEMMA OwingFrame ==
  ASSUME Owing, UNCHANGED <<vol, unscanned, missing>>
  PROVE  Owing'
BY DEF Owing, Known

----------------------------------------------------------------------------
(* What a configuration selects, and what the preferences allow.            *)

\* What is selected in the plan is allowed, and a volume that is allowed is selected.
LEMMA SelectedIsAllowed ==
  ASSUME SettingsTyped, Pinned, NEW d \in Drives
  PROVE  /\ Selected(config, d, Known) => Allowed(d)
         /\ d \in Known /\ Allowed(d) => Selected(config, d, Known) /\ VolumeIncluded(config, d)
<1>1. /\ config.in \cap config.out = {} /\ config.scope \in {"all", "configured"}
      /\ config.mode \in {"automatic", "selected"}
  BY DEF SettingsTyped, Configurations, Preferences
<1>2. d \in Known => d = owner
  BY DEF Pinned
<1>3. Known = {} => owner = None
  BY DEF Pinned
<1>4. CASE config.scope = "configured"
  BY <1>1, <1>2, <1>3, <1>4 DEF Selected, ConfiguredUuid, Named, Allowed, Chosen, VolumeIncluded
<1>5. CASE config.scope = "all"
  BY <1>1, <1>2, <1>5
     DEF Selected, SelectedUuid, DriveIncluded, Allowed, Chosen, VolumeIncluded, Named
<1> QED BY <1>1, <1>4, <1>5

----------------------------------------------------------------------------
(* What callbacks tell the lane.                                            *)

LEMMA RefreshingTyped ==
  ASSUME LaneTyped, NEW force \in BOOLEAN
  PROVE  Refreshing(force)
           \in Wishes
BY DEF LaneTyped, Refreshing, Wishes, Controls, Jobs

LEMMA PlannedTyped ==
  ASSUME NEW J \in Jobs, NEW r \in BOOLEAN, NEW a \in BOOLEAN, NEW d \in Drives \cup {None},
         NEW e \in Devices \cup {0}, NEW c \in BOOLEAN
  PROVE  LET K == [[J EXCEPT !.roots = r, !.absent = @ \/ a, !.cand = d, !.dev = e] EXCEPT !.changed = c]
         IN  K \in Jobs /\ K.cand = d /\ K.roots = r
BY DEF Jobs

LEMMA WokenTyped ==
  ASSUME LaneTyped
  PROVE  Woken \in Controls
BY DEF LaneTyped, Woken, Wishes, Controls, Jobs

----------------------------------------------------------------------------
(* The process ends: nothing that is not in the index outlives it.          *)

LEMMA StoppedKeeps ==
  ASSUME Inv, Stopped, config' \in Configurations
  PROVE  Inv'
<1> USE DEF Stopped, environment, index
<1>1. \A d \in Drives : ~data'[d].on /\ data'[d].pos = 0 /\ cb'[d].at = "idle"
  BY DEF NoStream, NoCallback
<1>2. pc' = "top"
  OBVIOUS
<1>3. SettingsTyped' /\ WorldTyped' /\ IndexTyped'
  BY WorldTypedFrame, IndexTypedFrame DEF Inv, SettingsTyped
<1>4. StreamsTyped'
  BY DEF StreamsTyped, NoStream, NoCallback, Callbacks, Streams, Calls
<1>5. LaneTyped'
  BY DEF LaneTyped, NoSignals, Started, NoJob, Steps, Wishes, Controls, Jobs
<1>6. Ingested' /\ Pinned' /\ Owing'
  BY PinnedFrame, OwingFrame DEF Inv, Ingested
<1>7. Watched' /\ Consented' /\ Signed'
  BY <1>1, <1>2 DEF Watched, Consented, Signed
<1>8. Alone' /\ Planned'
  BY <1>2 DEF Alone, Planned
<1>9. Scannable'
  BY <1>1 DEF Inv, Scannable, Known
<1>10. Numbered'
  BY <1>1 DEF Inv, Numbered, WorldTyped
<1> QED BY <1>3, <1>4, <1>5, <1>6, <1>7, <1>8, <1>9, <1>10 DEF Inv

----------------------------------------------------------------------------
(* One lemma per action. *)

LEMMA UnmountKeeps ==
  ASSUME Inv, Unmount
  PROVE  Inv'
<1> USE DEF Unmount, settings, index, approval, manager, Around, Outside
<1>1. SettingsTyped' /\ IndexTyped' /\ LaneTyped' /\ Watched' /\ Alone' /\ Ingested' /\
      Pinned' /\ Planned' /\ Consented' /\ Signed' /\ Numbered' /\ Scannable' /\ Owing'
  BY SettingsTypedFrame, IndexTypedFrame, LaneTypedFrame, WatchedFrame, AloneFrame,
     IngestedFrame, PinnedFrame, PlannedFrame, ConsentedFrame, SignedFrame, NumberedFrame,
     ScannableFrame, OwingFrame DEF Inv
<1>2. WorldTyped'
  BY SourcesAssumption DEF Inv, WorldTyped
<1>3. StreamsTyped'
  BY SourcesAssumption DEF Inv, StreamsTyped, LaneTyped, WorldTyped, Callbacks, NoStream, NoCallback, Streams, Calls, Wishes, Controls, Jobs
<1> QED BY <1>1, <1>2, <1>3 DEF Inv

LEMMA MountKeeps ==
  ASSUME Inv, NEW d \in Drives, Mount(d)
  PROVE  Inv'
<1> USE DEF Mount, settings, index, approval, manager, Around, Outside
<1>1. SettingsTyped' /\ StreamsTyped' /\ IndexTyped' /\ LaneTyped' /\ Watched' /\ Alone' /\
      Ingested' /\ Pinned' /\ Planned' /\ Consented' /\ Signed' /\ Numbered' /\ Scannable'
      /\ Owing'
  BY SettingsTypedFrame, StreamsTypedFrame, IndexTypedFrame, LaneTypedFrame, WatchedFrame,
     AloneFrame, IngestedFrame, PinnedFrame, PlannedFrame, ConsentedFrame, SignedFrame,
     NumberedFrame, ScannableFrame, OwingFrame DEF Inv
<1>2. WorldTyped'
  BY SourcesAssumption DEF Inv, WorldTyped
<1> QED BY <1>1, <1>2 DEF Inv

LEMMA ChangeKeeps ==
  ASSUME Inv, NEW d \in Drives, Change(d)
  PROVE  Inv'
<1> USE DEF Change, settings, streams, index, approval, manager, Around, Outside
<1>1. SettingsTyped' /\ StreamsTyped' /\ IndexTyped' /\ LaneTyped' /\ Watched' /\ Alone' /\
      Ingested' /\ Pinned' /\ Planned' /\ Consented' /\ Signed' /\ Scannable'
  BY SettingsTypedFrame, StreamsTypedFrame, IndexTypedFrame, LaneTypedFrame, WatchedFrame,
     AloneFrame, IngestedFrame, PinnedFrame, PlannedFrame, ConsentedFrame, SignedFrame,
     ScannableFrame DEF Inv
<1>2. WorldTyped'
  BY SourcesAssumption DEF Inv, WorldTyped
<1>3. Numbered'
  BY SourcesAssumption DEF Inv, WorldTyped, StreamsTyped, IndexTyped, Numbered, Unset, Streams, Calls, Volumes
<1>4. Owing'
  <2>1. \A e \in Drives : \A n \in missing'[e] : n \in missing[e] \/ n = made[e] + 1
    BY DEF Inv, WorldTyped
  <2>2. \A e \in Drives : made[e] + 1 > vol[e].cursor
    BY DEF Inv, WorldTyped, IndexTyped, Numbered, Volumes
  <2> QED BY <2>1, <2>2 DEF Inv, Owing, Known
<1> QED BY <1>1, <1>2, <1>3, <1>4 DEF Inv

LEMMA ApproveKeeps ==
  ASSUME Inv, NEW d \in Drives, Approve(d)
  PROVE  Inv'
<1> USE DEF Approve, settings, environment, streams, index, manager, Around, Outside
<1>1. SettingsTyped' /\ WorldTyped' /\ StreamsTyped' /\ IndexTyped' /\ LaneTyped' /\
      Watched' /\ Alone' /\ Ingested' /\ Pinned' /\ Planned' /\ Consented' /\ Signed' /\
      Numbered' /\ Scannable' /\ Owing'
  BY SettingsTypedFrame, WorldTypedFrame, StreamsTypedFrame, IndexTypedFrame,
     LaneTypedFrame, WatchedFrame, AloneFrame, IngestedFrame, PinnedFrame, PlannedFrame,
     ConsentedFrame, SignedFrame, NumberedFrame, ScannableFrame, OwingFrame DEF Inv
<1> QED BY <1>1 DEF Inv

LEMMA ConfigureKeeps ==
  ASSUME Inv, NEW c \in Configs, Configure(c)
  PROVE  Inv'
BY SourcesAssumption, StoppedKeeps DEF Configure

LEMMA CatalogEventKeeps ==
  ASSUME Inv, CatalogEvent
  PROVE  Inv'
<1> USE DEF CatalogEvent, settings, environment, index, approval, manager
<1>1. SettingsTyped' /\ WorldTyped' /\ IndexTyped' /\ Watched' /\ Alone' /\ Ingested' /\
      Pinned' /\ Planned' /\ Consented' /\ Signed' /\ Numbered' /\ Scannable' /\ Owing'
  BY SettingsTypedFrame, WorldTypedFrame, IndexTypedFrame, WatchedFrame, AloneFrame,
     IngestedFrame, PinnedFrame, PlannedFrame, ConsentedFrame, SignedFrame, NumberedFrame,
     ScannableFrame, OwingFrame DEF Inv
<1>2. StreamsTyped'
  <2>1. {"unmount" \in note, TRUE} \subseteq BOOLEAN
    OBVIOUS
  <2>2. PICK force \in BOOLEAN : catcb' = [at |-> "signal", force |-> force]
    BY <2>1
  <2>3. catcb' \in [at: Callbacks, force: BOOLEAN]
    BY <2>2 DEF Callbacks
  <2> QED BY <2>3 DEF Inv, StreamsTyped, Streams, Calls
<1>3. LaneTyped'
  <2>1. signals' \in Wishes
    BY DEF Inv, LaneTyped, Wishes, Controls, Jobs
  <2> QED BY <2>1 DEF Inv, LaneTyped, Wishes, Controls, Jobs
<1> QED BY <1>1, <1>2, <1>3 DEF Inv

LEMMA CatalogSignalKeeps ==
  ASSUME Inv, CatalogSignal
  PROVE  Inv'
<1> USE DEF CatalogSignal, settings, environment, index, approval, manager
<1>1. SettingsTyped' /\ WorldTyped' /\ IndexTyped' /\ Watched' /\ Alone' /\ Ingested' /\
      Pinned' /\ Planned' /\ Consented' /\ Signed' /\ Numbered' /\ Scannable' /\ Owing'
  BY SettingsTypedFrame, WorldTypedFrame, IndexTypedFrame, WatchedFrame, AloneFrame,
     IngestedFrame, PinnedFrame, PlannedFrame, ConsentedFrame, SignedFrame, NumberedFrame,
     ScannableFrame, OwingFrame DEF Inv
<1>2. StreamsTyped'
  BY SourcesAssumption DEF Inv, StreamsTyped, LaneTyped, WorldTyped, Callbacks, NoStream, NoCallback, Streams, Calls, Wishes, Controls, Jobs
<1>3. LaneTyped'
  BY RefreshingTyped DEF Inv, LaneTyped, StreamsTyped, Streams, Calls, Wishes, Controls, Jobs
<1> QED BY <1>1, <1>2, <1>3 DEF Inv

LEMMA CatalogWakeKeeps ==
  ASSUME Inv, CatalogWake
  PROVE  Inv'
<1> USE DEF CatalogWake, settings, environment, index, approval, manager
<1>1. SettingsTyped' /\ WorldTyped' /\ IndexTyped' /\ Watched' /\ Alone' /\ Ingested' /\
      Pinned' /\ Planned' /\ Consented' /\ Signed' /\ Numbered' /\ Scannable' /\ Owing'
  BY SettingsTypedFrame, WorldTypedFrame, IndexTypedFrame, WatchedFrame, AloneFrame,
     IngestedFrame, PinnedFrame, PlannedFrame, ConsentedFrame, SignedFrame, NumberedFrame,
     ScannableFrame, OwingFrame DEF Inv
<1>2. StreamsTyped'
  BY SourcesAssumption DEF Inv, StreamsTyped, LaneTyped, WorldTyped, Callbacks, NoStream, NoCallback, Streams, Calls, Wishes, Controls, Jobs
<1>3. LaneTyped'
  BY WokenTyped DEF Inv, LaneTyped, Wishes, Controls, Jobs
<1> QED BY <1>1, <1>2, <1>3 DEF Inv

LEMMA BatchKeeps ==
  ASSUME Inv, NEW d \in Drives, Batch(d)
  PROVE  Inv'
<1> USE DEF Batch, settings, environment, index, approval, manager, Fault
<1>1. SettingsTyped' /\ WorldTyped' /\ IndexTyped' /\ Alone' /\ Ingested' /\ Pinned' /\
      Planned' /\ Consented' /\ Signed' /\ Scannable' /\ Owing'
  BY SettingsTypedFrame, WorldTypedFrame, IndexTypedFrame, AloneFrame, IngestedFrame,
     PinnedFrame, PlannedFrame, ConsentedFrame, SignedFrame, ScannableFrame, OwingFrame DEF Inv
<1>2. StreamsTyped'
  BY SourcesAssumption DEF Inv, StreamsTyped, LaneTyped, WorldTyped, Callbacks, NoStream, NoCallback, Streams, Calls, Wishes, Controls, Jobs
<1>3. LaneTyped'
  <2>1. signals' \in Wishes
    BY DEF Inv, LaneTyped, Wishes, Controls, Jobs
  <2> QED BY <2>1 DEF Inv, LaneTyped, Wishes, Controls, Jobs
<1>4. Watched'
  BY SourcesAssumption DEF Inv, StreamsTyped, IndexTyped, Watched, Streams, Calls, Volumes
<1>5. Numbered'
  BY SourcesAssumption DEF Inv, WorldTyped, StreamsTyped, IndexTyped, Numbered, Unset, Streams, Calls, Volumes
<1> QED BY <1>1, <1>2, <1>3, <1>4, <1>5 DEF Inv

LEMMA CommitKeeps ==
  ASSUME Inv, NEW d \in Drives, Commit(d)
  PROVE  Inv'
<1> USE DEF Commit, settings, environment, approval, manager
<1>1. data[d].on /\ vol[d].there
  BY DEF Inv, Watched, Commit
<1>2. vol' = [vol EXCEPT ![d] = Taken(d, @)] /\ cb' = [cb EXCEPT ![d].at = "signal"] /\ error' = error
  BY <1>1
<1>3. SettingsTyped' /\ WorldTyped' /\ LaneTyped' /\ Ingested'
  BY <1>2, SettingsTypedFrame, WorldTypedFrame, LaneTypedFrame, IngestedFrame DEF Inv
<1>4. StreamsTyped'
  <2>1. [cb[d] EXCEPT !.at = "signal"] \in Calls
    BY DEF Inv, StreamsTyped, Callbacks, Streams, Calls
  <2>2. data[d] \in Streams /\ cb[d].upto \in Nat
    BY DEF Inv, StreamsTyped, Streams, Calls
  <2>3. [data[d] EXCEPT !.pos = cb[d].upto] \in Streams
    BY <2>2 DEF Streams
  <2> QED BY <1>2, <2>1, <2>3 DEF Inv, StreamsTyped, Streams, Calls
<1>5. /\ cb[d].upto \in Nat /\ data[d].pos \in Nat /\ vol[d].cursor \in Int
      /\ Highest(vol[d].cursor, cb[d].upto) \in Int
      /\ Highest(vol[d].cursor, cb[d].upto) >= cb[d].upto
      /\ Highest(vol[d].cursor, cb[d].upto) >= vol[d].cursor
      /\ Highest(vol[d].cursor, cb[d].upto) \in {vol[d].cursor, cb[d].upto}
  BY DEF Inv, StreamsTyped, IndexTyped, Highest, Streams, Calls, Volumes
<1>6. /\ vol'[d].cursor = Highest(vol[d].cursor, cb[d].upto)
      /\ vol'[d].there /\ vol'[d].pend = vol[d].pend
      /\ vol'[d].root = (vol[d].root \/ cb[d].lost)
      /\ vol'[d].owed = IF cb[d].lost THEN vol[d].owed
                        ELSE vol[d].owed \cup ((data[d].pos + 1)..cb[d].upto)
      /\ \A e \in Drives : e # d => vol'[e] = vol[e]
  BY <1>1, <1>2 DEF Inv, IndexTyped, Taken, Volumes
<1>7. \A e \in Drives : /\ data'[e].on = data[e].on
                        /\ data'[e].pos = IF e = d THEN cb[d].upto ELSE data[e].pos
                        /\ cb'[e].at = IF e = d THEN "signal" ELSE cb[e].at
                        /\ cb'[e].upto = cb[e].upto
  BY <1>2 DEF Inv, StreamsTyped, Streams, Calls
<1>8. IndexTyped'
  <2>1. (data[d].pos + 1)..cb[d].upto \subseteq Nat
    BY <1>5
  <2>2. /\ vol[d] \in Volumes
        /\ cb[d].lost \in BOOLEAN
    BY DEF Inv, IndexTyped, StreamsTyped, Streams, Calls, Volumes
  <2>3. Taken(d, vol[d])
          \in Volumes
    BY <1>5, <2>1, <2>2 DEF Taken, Volumes
  <2> QED BY <1>2, <2>3 DEF Inv, IndexTyped, Volumes
<1>9. Known' = Known
  BY <1>1, <1>6 DEF Known
<1>10. Watched'
  BY <1>1, <1>6, <1>7 DEF Inv, Watched
<1>11. Alone'
  BY <1>6, <1>7, <1>9 DEF Inv, Alone, LaneTyped, Wishes, Controls, Jobs
<1>12. Pinned' /\ Planned'
  BY <1>9 DEF Inv, Pinned, Planned, Allowed, Chosen
<1>13. Consented' /\ Signed'
  BY <1>7 DEF Inv, Consented, Signed, Allowed, Chosen
<1>14. cb[d].upto \in data[d].pos..made[d]
  BY DEF Inv, Numbered
<1>15. Numbered'
  BY <1>5, <1>6, <1>7, <1>14 DEF Inv, Numbered, WorldTyped, IndexTyped, StreamsTyped, Unset, Streams, Calls, Volumes
<1>16. Scannable'
  <2>1. vol'[d].cursor # Unset
    BY <1>5, <1>6 DEF Unset
  <2> QED BY <1>6, <1>7, <1>9, <2>1 DEF Inv, Scannable, Known
<1>17. Owing'
  <2>1. ASSUME NEW e \in Known \ unscanned, e # d
        PROVE  IF vol'[e].cursor = Unset THEN vol'[e].pend \/ vol'[e].root
               ELSE vol'[e].root \/ \A n \in missing[e] : n \in vol'[e].owed \/ n > vol'[e].cursor
    BY <1>6, <2>1 DEF Inv, Owing, Known
  <2>2. ASSUME d \in Known \ unscanned, ~vol'[d].root, NEW n \in missing[d]
        PROVE  n \in vol'[d].owed \/ n > vol'[d].cursor
    <3>1. ~cb[d].lost /\ ~vol[d].root
      BY <1>6, <2>2 DEF Inv, IndexTyped, StreamsTyped, Streams, Calls, Volumes
    <3>2. vol[d].cursor # Unset
      <4>1. CASE pc = "seed" /\ d = job.cand
        BY <2>2, <3>1, <4>1 DEF Inv, Owing, Alone
      <4> QED BY <1>1, <4>1 DEF Inv, Scannable, Known
    <3>3. n \in vol[d].owed \/ n > vol[d].cursor
      BY <2>2, <3>1, <3>2 DEF Inv, Owing
    <3>4. data[d].pos <= vol[d].cursor /\ n \in Nat
      BY <1>1, <3>2 DEF Inv, Numbered, WorldTyped
    <3> QED BY <1>5, <1>6, <3>1, <3>3, <3>4
  <2>3. vol'[d].cursor # Unset
    BY <1>5, <1>6 DEF Unset
  <2> QED BY <1>9, <2>1, <2>2, <2>3 DEF Owing
<1> QED BY <1>3, <1>4, <1>8, <1>10, <1>11, <1>12, <1>13, <1>15, <1>16, <1>17 DEF Inv

LEMMA SignalKeeps ==
  ASSUME Inv, NEW d \in Drives, Signal(d)
  PROVE  Inv'
<1> USE DEF Signal, settings, environment, index, approval, manager, Woken
<1>1. SettingsTyped' /\ WorldTyped' /\ IndexTyped' /\ Alone' /\ Ingested' /\ Pinned' /\
      Planned' /\ Consented' /\ Signed' /\ Scannable' /\ Owing'
  BY SettingsTypedFrame, WorldTypedFrame, IndexTypedFrame, AloneFrame, IngestedFrame,
     PinnedFrame, PlannedFrame, ConsentedFrame, SignedFrame, ScannableFrame, OwingFrame DEF Inv
<1>2. StreamsTyped'
  BY SourcesAssumption DEF Inv, StreamsTyped, LaneTyped, WorldTyped, Callbacks, NoStream, NoCallback, Streams, Calls, Wishes, Controls, Jobs
<1>3. LaneTyped'
  <2>1. signals' \in {signals, Refreshing(cb[d].gone)} /\ lane' = Woken /\ cb[d].gone \in BOOLEAN
    BY DEF Inv, StreamsTyped, Streams, Calls
  <2> QED BY <2>1, RefreshingTyped, WokenTyped DEF Inv, LaneTyped, Wishes, Controls, Jobs
<1>4. Watched'
  BY SourcesAssumption DEF Inv, StreamsTyped, IndexTyped, Watched, Streams, Calls, Volumes
<1>5. Numbered'
  <2>1. \A e \in Drives : cb'[e] = cb[e] \/ cb'[e].at = "idle"
    BY DEF Inv, StreamsTyped, NoCallback, Streams, Calls
  <2> QED BY <2>1 DEF Inv, Numbered
<1> QED BY <1>1, <1>2, <1>3, <1>4, <1>5 DEF Inv

LEMMA SeeSignalKeeps ==
  ASSUME Inv, SeeSignal
  PROVE  Inv'
<1> USE DEF SeeSignal, settings, environment, streams, index, manager
<1>1. SettingsTyped' /\ WorldTyped' /\ StreamsTyped' /\ IndexTyped' /\ Watched' /\ Alone' /\
      Ingested' /\ Pinned' /\ Planned' /\ Consented' /\ Signed' /\ Numbered' /\ Scannable'
      /\ Owing'
  BY SettingsTypedFrame, WorldTypedFrame, StreamsTypedFrame, IndexTypedFrame, WatchedFrame,
     AloneFrame, IngestedFrame, PinnedFrame, PlannedFrame, ConsentedFrame, SignedFrame,
     NumberedFrame, ScannableFrame, OwingFrame DEF Inv
<1>2. LaneTyped'
  <2>1. lane' \in Controls
    BY DEF Inv, LaneTyped, Wishes, Controls, Jobs
  <2> QED BY <2>1 DEF Inv, LaneTyped, Wishes, Controls, Jobs
<1> QED BY <1>1, <1>2 DEF Inv

LEMMA RevalidateKeeps ==
  ASSUME Inv, Revalidate
  PROVE  Inv'
<1> USE DEF Revalidate, settings, environment, streams, index, approval, manager
<1>1. SettingsTyped' /\ WorldTyped' /\ StreamsTyped' /\ IndexTyped' /\ Watched' /\ Alone' /\
      Ingested' /\ Pinned' /\ Planned' /\ Consented' /\ Signed' /\ Numbered' /\ Scannable'
      /\ Owing'
  BY SettingsTypedFrame, WorldTypedFrame, StreamsTypedFrame, IndexTypedFrame, WatchedFrame,
     AloneFrame, IngestedFrame, PinnedFrame, PlannedFrame, ConsentedFrame, SignedFrame,
     NumberedFrame, ScannableFrame, OwingFrame DEF Inv
<1>2. LaneTyped'
  <2>1. lane' \in Controls
    BY DEF Inv, LaneTyped, Wishes, Controls, Jobs
  <2> QED BY <2>1 DEF Inv, LaneTyped, Wishes, Controls, Jobs
<1> QED BY <1>1, <1>2 DEF Inv

LEMMA WorkKeeps ==
  ASSUME Inv, NEW d \in Drives, Work(d)
  PROVE  Inv'
<1> USE DEF Work, settings, environment, streams, approval, manager
<1>1. vol[d].there /\ d \notin inactive /\ vol[d].cursor # Unset
  BY DEF Inv, Scannable, Known
<1>2. \/ /\ vol' = [vol EXCEPT ![d].root = FALSE] /\ missing' = [missing EXCEPT ![d] = {}]
         /\ unscanned' = unscanned \ {d}
      \/ /\ unscanned' = unscanned
         /\ \E n \in vol[d].owed : /\ vol' = [vol EXCEPT ![d].owed = @ \ {n}]
                                   /\ missing' = [missing EXCEPT ![d] = @ \ {n}]
  OBVIOUS
<1>3. SettingsTyped' /\ StreamsTyped' /\ LaneTyped' /\ Ingested' /\ Consented' /\ Signed'
  BY SettingsTypedFrame, StreamsTypedFrame, LaneTypedFrame, IngestedFrame, ConsentedFrame,
     SignedFrame DEF Inv
<1>4. WorldTyped' /\ IndexTyped'
  <2>1. vol[d] \in Volumes
    BY DEF Inv, IndexTyped, Volumes
  <2>2. [vol[d] EXCEPT !.root = FALSE]
          \in Volumes
    BY <2>1 DEF Volumes
  <2>3. \A n : [vol[d] EXCEPT !.owed = @ \ {n}]
          \in Volumes
    BY <2>1 DEF Volumes
  <2>4. WorldTyped'
    BY <1>2 DEF Inv, WorldTyped
  <2>5. IndexTyped'
    BY <1>2, <2>2, <2>3 DEF Inv, IndexTyped, Volumes
  <2> QED BY <2>4, <2>5
<1>5. \A e \in Drives : /\ vol'[e].there = vol[e].there /\ vol'[e].cursor = vol[e].cursor
                        /\ vol'[e].pend = vol[e].pend /\ missing'[e] \subseteq missing[e]
                        /\ e # d => vol'[e] = vol[e] /\ missing'[e] = missing[e]
  BY <1>2 DEF Inv, WorldTyped, IndexTyped, Volumes
<1>6. Known' = Known
  BY <1>5 DEF Known
<1>7. Watched' /\ Pinned' /\ Planned'
  BY <1>5, <1>6 DEF Inv, Watched, Pinned, Planned, Allowed, Chosen
<1>8. Alone'
  BY <1>5, <1>6 DEF Inv, Alone, LaneTyped, Wishes, Controls, Jobs
<1>9. Numbered' /\ Scannable'
  BY <1>5, <1>6 DEF Inv, Numbered, Scannable, Known
<1>10. Owing'
  <2>1. missing'[d] = {} \/ (unscanned' = unscanned /\ vol'[d].root = vol[d].root
                             /\ \E n \in vol[d].owed : vol'[d].owed = vol[d].owed \ {n}
                                                       /\ missing'[d] = missing[d] \ {n})
    BY <1>2 DEF Inv, WorldTyped, IndexTyped, Volumes
  <2>2. d \notin unscanned' => IF vol'[d].cursor = Unset THEN FALSE
                               ELSE vol'[d].root \/ \A n \in missing'[d] : n \in vol'[d].owed \/ n > vol'[d].cursor
    BY <1>1, <1>5, <2>1 DEF Inv, Owing, Known
  <2>3. unscanned' \in {unscanned, unscanned \ {d}}
    BY <1>2
  <2> QED BY <1>5, <1>6, <2>2, <2>3 DEF Inv, Owing, Known
<1> QED BY <1>3, <1>4, <1>7, <1>8, <1>9, <1>10 DEF Inv

LEMMA TopKeeps ==
  ASSUME Inv, Top
  PROVE  Inv'
<1> USE DEF Top, settings, environment, streams, index, approval, manager, Go
<1>1. SettingsTyped' /\ WorldTyped' /\ StreamsTyped' /\ IndexTyped' /\ Watched' /\ Ingested'
      /\ Pinned' /\ Consented' /\ Numbered' /\ Owing'
  BY SettingsTypedFrame, WorldTypedFrame, StreamsTypedFrame, IndexTypedFrame, WatchedFrame,
     IngestedFrame, PinnedFrame, ConsentedFrame, NumberedFrame, OwingFrame DEF Inv
<1>2. LaneTyped'
  BY SourcesAssumption DEF Inv, LaneTyped, StreamsTyped, WorldTyped, Steps, NoJob, NoSignals, Started, Refreshing, Streams, Calls, Wishes, Controls, Jobs
<1>3. Alone'
  BY SourcesAssumption DEF Inv, StreamsTyped, IndexTyped, LaneTyped, Watched, Alone, Known, Streams, Calls, Volumes, Wishes, Controls, Jobs
<1>4. Planned'
  BY SourcesAssumption DEF Inv, LaneTyped, SettingsTyped, Planned, Known, Allowed, Chosen, Wishes, Controls, Jobs
<1>5. Signed'
  BY SourcesAssumption DEF Inv, Signed
<1>6. Scannable'
  BY SourcesAssumption DEF Inv, StreamsTyped, IndexTyped, LaneTyped, Scannable, Known, Streams, Calls, Volumes, Wishes, Controls, Jobs
<1> QED BY <1>1, <1>2, <1>3, <1>4, <1>5, <1>6 DEF Inv

LEMMA TimerKeeps ==
  ASSUME Inv, Timer
  PROVE  Inv'
<1> USE DEF Timer, settings, environment, streams, index, approval
<1>1. SettingsTyped' /\ WorldTyped' /\ StreamsTyped' /\ IndexTyped' /\ LaneTyped' /\
      Watched' /\ Alone' /\ Ingested' /\ Pinned' /\ Planned' /\ Consented' /\ Signed' /\
      Numbered' /\ Scannable' /\ Owing'
  BY SettingsTypedFrame, WorldTypedFrame, StreamsTypedFrame, IndexTypedFrame,
     LaneTypedFrame, WatchedFrame, AloneFrame, IngestedFrame, PinnedFrame, PlannedFrame,
     ConsentedFrame, SignedFrame, NumberedFrame, ScannableFrame, OwingFrame DEF Inv
<1> QED BY <1>1 DEF Inv

LEMMA TakeKeeps ==
  ASSUME Inv, Take
  PROVE  Inv'
<1> USE DEF Take, settings, environment, streams, index, Go
<1>1. SettingsTyped' /\ WorldTyped' /\ StreamsTyped' /\ IndexTyped' /\ Watched' /\ Ingested'
      /\ Pinned' /\ Consented' /\ Numbered' /\ Owing'
  BY SettingsTypedFrame, WorldTypedFrame, StreamsTypedFrame, IndexTypedFrame, WatchedFrame,
     IngestedFrame, PinnedFrame, ConsentedFrame, NumberedFrame, OwingFrame DEF Inv
<1>2. LaneTyped'
  <2>1. job' \in Jobs
    BY DEF Inv, LaneTyped, Wishes, Controls, Jobs
  <2>2. signals' \in Wishes
    BY DEF NoSignals, Wishes
  <2>3. pc' \in Steps
    BY DEF Steps
  <2> QED BY <2>1, <2>2, <2>3 DEF Inv, LaneTyped, Wishes, Controls, Jobs
<1>3. Alone'
  BY SourcesAssumption DEF Inv, StreamsTyped, IndexTyped, LaneTyped, Watched, Alone, Known, Streams, Calls, Volumes, Wishes, Controls, Jobs
<1>4. Planned'
  BY SourcesAssumption DEF Inv, LaneTyped, SettingsTyped, Planned, Known, Allowed, Chosen, Wishes, Controls, Jobs
<1>5. Signed'
  BY SourcesAssumption DEF Inv, Signed
<1>6. Scannable'
  BY SourcesAssumption DEF Inv, StreamsTyped, IndexTyped, LaneTyped, Scannable, Known, Streams, Calls, Volumes, Wishes, Controls, Jobs
<1> QED BY <1>1, <1>2, <1>3, <1>4, <1>5, <1>6 DEF Inv

LEMMA StartCatalogKeeps ==
  ASSUME Inv, StartCatalog
  PROVE  Inv'
<1> USE DEF StartCatalog, settings, environment, index, approval, manager, Go
<1>1. SettingsTyped' /\ WorldTyped' /\ StreamsTyped' /\ IndexTyped' /\ Watched' /\ Ingested'
      /\ Pinned' /\ Consented' /\ Numbered' /\ Owing'
  BY SettingsTypedFrame, WorldTypedFrame, StreamsTypedFrame, IndexTypedFrame, WatchedFrame,
     IngestedFrame, PinnedFrame, ConsentedFrame, NumberedFrame, OwingFrame DEF Inv
<1>2. LaneTyped'
  BY SourcesAssumption DEF Inv, LaneTyped, StreamsTyped, WorldTyped, Steps, NoJob, NoSignals, Started, Refreshing, Streams, Calls, Wishes, Controls, Jobs
<1>3. Alone'
  BY SourcesAssumption DEF Inv, StreamsTyped, IndexTyped, LaneTyped, Watched, Alone, Known, Streams, Calls, Volumes, Wishes, Controls, Jobs
<1>4. Planned'
  BY SourcesAssumption DEF Inv, LaneTyped, SettingsTyped, Planned, Known, Allowed, Chosen, Wishes, Controls, Jobs
<1>5. Signed'
  BY SourcesAssumption DEF Inv, Signed
<1>6. Scannable'
  BY SourcesAssumption DEF Inv, StreamsTyped, IndexTyped, LaneTyped, Scannable, Known, Streams, Calls, Volumes, Wishes, Controls, Jobs
<1> QED BY <1>1, <1>2, <1>3, <1>4, <1>5, <1>6 DEF Inv

LEMMA CoverKeeps ==
  ASSUME Inv, Cover
  PROVE  Inv'
<1> USE DEF Cover, settings, environment, streams, index, approval, manager, Go, Listing
<1>1. SettingsTyped' /\ WorldTyped' /\ StreamsTyped' /\ IndexTyped' /\ Watched' /\ Ingested'
      /\ Pinned' /\ Consented' /\ Numbered' /\ Owing'
  BY SettingsTypedFrame, WorldTypedFrame, StreamsTypedFrame, IndexTypedFrame, WatchedFrame,
     IngestedFrame, PinnedFrame, ConsentedFrame, NumberedFrame, OwingFrame DEF Inv
<1>2. LaneTyped'
  BY SourcesAssumption DEF Inv, LaneTyped, StreamsTyped, WorldTyped, Steps, NoJob, NoSignals, Started, Refreshing, Streams, Calls, Wishes, Controls, Jobs
<1>3. Alone'
  BY SourcesAssumption DEF Inv, StreamsTyped, IndexTyped, LaneTyped, Watched, Alone, Known, Streams, Calls, Volumes, Wishes, Controls, Jobs
<1>4. Planned'
  <2>1. PICK listed \in BOOLEAN : /\ Listing(listed)
                                  /\ job' = [job EXCEPT !.covered = listed /\ Covered,
                                                        !.absent = ~listed \/ (config.scope = "all" /\ ~cat)]
    OBVIOUS
  <2>2. config.scope = "configured" => listed /\ Covered
    BY <2>1 DEF Listing, Covered
  <2>3. job'.covered = (listed /\ Covered)
    BY <2>1 DEF Inv, LaneTyped, Wishes, Controls, Jobs
  <2> QED BY <2>2, <2>3 DEF Planned
<1>5. Signed'
  BY SourcesAssumption DEF Inv, Signed
<1>6. Scannable'
  BY SourcesAssumption DEF Inv, StreamsTyped, IndexTyped, LaneTyped, Scannable, Known, Streams, Calls, Volumes, Wishes, Controls, Jobs
<1> QED BY <1>1, <1>2, <1>3, <1>4, <1>5, <1>6 DEF Inv

LEMMA DiscoverKeeps ==
  ASSUME Inv, Discover
  PROVE  Inv'
<1> USE DEF Discover, settings, environment, streams, index, Go
<1>1. SettingsTyped' /\ WorldTyped' /\ StreamsTyped' /\ IndexTyped' /\ Watched' /\ Ingested'
      /\ Pinned' /\ Consented' /\ Numbered' /\ Owing'
  BY SettingsTypedFrame, WorldTypedFrame, StreamsTypedFrame, IndexTypedFrame, WatchedFrame,
     IngestedFrame, PinnedFrame, ConsentedFrame, NumberedFrame, OwingFrame DEF Inv
<1> DEFINE found(d) == Desired /\ d # None /\ Selected(config, d, Known)
<1> DEFINE rooted(d) == found(d) \/ (Desired /\ Reserved(d))
<1> DEFINE v(d) == IF found(d) /\ Permitted(d) THEN Volume(d) ELSE [cand |-> None, dev |-> 0]
<1> DEFINE j(d) == [job EXCEPT !.roots = rooted(d), !.absent = @ \/ (rooted(d) /\ ~found(d)),
                               !.cand = v(d).cand, !.dev = v(d).dev]
<1> DEFINE changed(d) == job.force \/ last # LastSignature(j(d)) \/ (job.due /\ failing)
<1>2. PICK d \in {mounted, None} :
        /\ job'.cand = (IF found(d) /\ Permitted(d) THEN d ELSE None)
        /\ job'.roots = rooted(d)
        /\ job' \in Jobs
  <2>1. PICK d \in {mounted, None} : job' = [j(d) EXCEPT !.changed = changed(d)]
    OBVIOUS
  <2>2. /\ v(d).cand = IF found(d) /\ Permitted(d) THEN d ELSE None
        /\ v(d).cand \in Drives \cup {None} /\ v(d).dev \in Devices \cup {0}
    BY DEF Inv, WorldTyped, Volume
  <2>3. {found(d), rooted(d), changed(d), rooted(d) /\ ~found(d)} \subseteq BOOLEAN
    OBVIOUS
  <2>4. job \in Jobs
    BY DEF Inv, LaneTyped
  <2> HIDE DEF found, rooted, changed, v
  <2>5. j(d) \in Jobs /\ j(d).cand = v(d).cand /\ j(d).roots = rooted(d)
    BY <2>2, <2>3, <2>4 DEF Jobs
  <2> HIDE DEF j
  <2>6. LET K == [j(d) EXCEPT !.changed = changed(d)]
        IN  K \in Jobs /\ K.cand = j(d).cand /\ K.roots = j(d).roots
    BY <2>3, <2>5 DEF Jobs
  <2> QED BY <2>1, <2>2, <2>5, <2>6
<1>3. pc = "discover" /\ pc' \in {"stop", "finish"} /\ Known' = Known
  BY DEF Known
<1>4. LaneTyped'
  BY <1>2, <1>3 DEF Inv, LaneTyped, Steps, Wishes, Controls, Jobs
<1>5. Alone' /\ Signed' /\ Scannable'
  BY <1>3 DEF Inv, Alone, Signed, Scannable
<1>6. ASSUME job'.cand = None, NEW e \in Known, Allowed(e)
      PROVE  rooted(d)
  <2>1. Known = {e} /\ Selected(config, e, Known) /\ VolumeIncluded(config, e)
    BY <1>6, SelectedIsAllowed DEF Inv, Pinned, Known
  <2>2. Desired
    BY <1>3, <2>1 DEF Inv, Planned, Desired, SettingsTyped, Configurations, Preferences
  <2>3. CASE d = None
    BY <2>1, <2>2, <2>3 DEF Reserved
  <2>4. CASE d # None /\ ~found(d)
    <3>1. d # e
      BY <2>1, <2>2, <2>4
    <3> QED BY <2>1, <2>2, <2>4, <3>1 DEF Reserved
  <2>5. CASE found(d)
    BY <2>5
  <2> QED BY <2>3, <2>4, <2>5
<1>7. Planned'
  <2>1. job'.cand # None => Selected(config, job'.cand, Known)
    BY <1>2
  <2>2. \A e \in Known : job'.cand = None /\ Allowed(e) => job'.roots
    BY <1>2, <1>6
  <2> QED BY <1>3, <2>1, <2>2 DEF Planned, Allowed, Chosen
<1> QED BY <1>1, <1>4, <1>5, <1>7 DEF Inv

LEMMA StopKeeps ==
  ASSUME Inv, Stop
  PROVE  Inv'
<1> USE DEF Stop, settings, environment, index, approval, manager, Go
<1>1. SettingsTyped' /\ WorldTyped' /\ IndexTyped' /\ Ingested' /\ Pinned' /\ Owing'
  BY SettingsTypedFrame, WorldTypedFrame, IndexTypedFrame, IngestedFrame, PinnedFrame,
     OwingFrame DEF Inv
<1>2. /\ pc = "stop" /\ pc' = "prepare" /\ job' = job /\ Known' = Known
      /\ UNCHANGED <<cb, vol, inactive, config, owner, sig, made, missing>>
  BY DEF Known
<1>3. \A d \in Drives : data'[d] = data[d] \/ (~data'[d].on /\ data'[d].pos = 0 /\ cb[d].at = "idle")
  BY DEF Barrier, NoStream
<1>4. \A d \in Drives : data'[d].on => data[d].on /\ d = job.cand
  BY DEF NoStream, Removed
<1>5. StreamsTyped'
  <2>1. NoStream \in Streams
    BY DEF NoStream, Streams
  <2> QED BY <2>1 DEF Inv, StreamsTyped, Streams, Calls
<1>6. LaneTyped'
  BY <1>2 DEF Inv, LaneTyped, Steps, Wishes, Controls, Jobs
<1>7. Watched'
  BY <1>2, <1>3 DEF Inv, Watched
<1>8. Alone'
  BY <1>2, <1>4 DEF Alone
<1>9. Planned'
  BY <1>2 DEF Inv, Planned, Allowed, Chosen
<1>10. Consented' /\ Signed'
  BY <1>2, <1>4 DEF Inv, Consented, Signed, Allowed, Chosen
<1>11. Numbered'
  BY <1>2, <1>3 DEF Inv, Numbered, WorldTyped
<1>12. Scannable'
  BY <1>2, <1>4 DEF Inv, Scannable, Known
<1> QED BY <1>1, <1>5, <1>6, <1>7, <1>8, <1>9, <1>10, <1>11, <1>12 DEF Inv

LEMMA PrepareKeeps ==
  ASSUME Inv, Prepare
  PROVE  Inv'
<1> USE DEF Prepare, environment, streams, approval, manager, Go
<1> DEFINE cand == job.cand
<1>1. /\ pc = "prepare" /\ pc' = "boot" /\ job' = job /\ sig' = Signature(config)
      /\ unscanned' = unscanned \cap Retained /\ inactive' = {d \in Identities : ~data[d].on}
      /\ UNCHANGED <<config, data, cb, made, missing>>
  BY DEF Dormant
<1>2. cand \in Drives \cup {None} /\ owner \in Drives \cup {None} /\ Known \subseteq Drives
  BY DEF Inv, LaneTyped, SettingsTyped, Jobs, Known
<1>3. /\ Identities = IF cand # None THEN {cand} ELSE IF job.roots THEN Known ELSE {}
      /\ Identities \subseteq Drives /\ Retained \subseteq Identities \cap Known
      /\ sig = Signature(config) => Retained = Identities \cap Known
  BY <1>2 DEF Identities, Retained
<1>4. \A d \in Drives :
        /\ d \in Retained => /\ vol'[d].there /\ vol'[d].cursor = vol[d].cursor
                             /\ vol'[d].root = vol[d].root /\ vol'[d].owed = vol[d].owed
                             /\ vol[d].pend => vol'[d].pend
        /\ d \in Identities \ Retained => vol'[d].there /\ vol'[d].cursor = Unset /\ vol'[d].pend
        /\ d \notin Identities => ~vol'[d].there /\ vol'[d].cursor = Unset
  BY <1>3 DEF Inv, IndexTyped, Volumes, Prepared, NoVolume, Known
<1>5. Known' = Identities
  BY <1>3, <1>4 DEF Known
<1>6. \A d \in Drives : data[d].on => d = cand
  BY <1>1 DEF Inv, Alone
<1>7. WorldTyped' /\ StreamsTyped' /\ Ingested'
  BY WorldTypedFrame, StreamsTypedFrame, IngestedFrame DEF Inv
<1>8. SettingsTyped'
  BY <1>2 DEF Inv, SettingsTyped
<1>9. IndexTyped'
  <2>1. ASSUME NEW d \in Drives PROVE Prepared(d) \in Volumes
    <3>1. vol[d] \in Volumes /\ (vol[d].pend \/ d \in reval) \in BOOLEAN
      BY DEF Inv, IndexTyped, Volumes
    <3>2. [vol[d] EXCEPT !.pend = @ \/ d \in reval] \in Volumes
      BY <3>1 DEF Volumes
    <3>3. NoVolume \in Volumes
      BY DEF NoVolume, Volumes, Unset
    <3>4. [NoVolume EXCEPT !.there = TRUE, !.pend = TRUE] \in Volumes
      BY <3>3 DEF Volumes
    <3> QED BY <3>2, <3>3, <3>4 DEF Prepared
  <2> QED BY <2>1 DEF IndexTyped
<1>10. LaneTyped'
  BY <1>1 DEF Inv, LaneTyped, Steps
<1>11. cand # None => Allowed(cand) /\ owner' = cand /\ (Chosen(cand) \/ owner = cand)
  <2>1. ASSUME cand # None PROVE Allowed(cand)
    BY <1>1, <1>2, <2>1, SelectedIsAllowed DEF Inv, Planned
  <2> QED BY <1>3, <2>1 DEF Allowed
<1>12. cand = None => owner' = IF owner \in Drives \ Identities /\ ~Allowed(owner) THEN None ELSE owner
  OBVIOUS
<1>13. Pinned'
  <2>1. CASE cand # None
    BY <1>2, <1>3, <1>5, <1>11, <2>1 DEF Pinned
  <2>2. CASE cand = None /\ job.roots
    BY <1>2, <1>3, <1>5, <1>12, <2>2 DEF Inv, Pinned
  <2>3. CASE cand = None /\ ~job.roots
    <3>1. owner \in Drives => ~Allowed(owner)
      BY <1>1, <2>3, SourcesAssumption DEF Inv, Planned, Pinned
    <3> QED BY <1>2, <1>3, <1>5, <1>12, <2>3, <3>1 DEF Pinned
  <2> QED BY <2>1, <2>2, <2>3
<1>14. Consented'
  BY <1>1, <1>6, <1>11, SourcesAssumption DEF Consented, Allowed
<1>15. Signed' /\ Planned'
  BY <1>1, <1>11 DEF Signed, Planned, Allowed, Chosen
<1>16. Watched'
  BY <1>1, <1>3, <1>4, <1>6, SourcesAssumption DEF Inv, Watched
<1>17. Alone'
  BY <1>1, <1>3, <1>4, <1>5, <1>6 DEF Alone
<1>18. \A d \in Drives : data[d].on => d \in Retained
  BY <1>3, <1>6, SourcesAssumption DEF Inv, Signed, Watched, Known
<1>19. Numbered'
  BY <1>1, <1>3, <1>4, <1>18 DEF Inv, Numbered, WorldTyped, Unset
<1>20. Scannable'
  <2>1. \A d \in Drives : data[d].on => vol[d].cursor # Unset
    BY <1>1 DEF Inv, Scannable, Watched, Known
  <2> QED BY <1>1, <1>3, <1>4, <1>5, <1>18, <2>1 DEF Scannable
<1>21. Owing'
  BY <1>1, <1>3, <1>4, <1>5 DEF Inv, Owing
<1> QED BY <1>7, <1>8, <1>9, <1>10, <1>13, <1>14, <1>15, <1>16, <1>17, <1>19, <1>20, <1>21 DEF Inv

LEMMA BootKeeps ==
  ASSUME Inv, Boot
  PROVE  Inv'
<1> USE DEF Boot, settings, environment, streams, approval, Go
<1> DEFINE cand == job.cand
<1>1. /\ pc = "boot" /\ pc' = IF cand # None /\ ~data[cand].on THEN "start" ELSE "finish"
      /\ UNCHANGED <<config, owner, data, cb, made, missing, job, inactive, sig>>
  OBVIOUS
<1>2. \A d \in Drives :
        /\ vol'[d].there = vol[d].there /\ vol'[d].cursor = vol[d].cursor
        /\ vol'[d].owed = vol[d].owed /\ vol'[d].pend = FALSE
        /\ vol'[d].root = (vol[d].root \/ (vol[d].pend /\ cand # None))
  BY DEF Inv, IndexTyped, Volumes
<1>3. Known' = Known
  BY <1>2 DEF Known
<1>4. SettingsTyped' /\ WorldTyped' /\ StreamsTyped' /\ Ingested' /\ Consented'
  BY SettingsTypedFrame, WorldTypedFrame, StreamsTypedFrame, IngestedFrame, ConsentedFrame DEF Inv
<1>5. IndexTyped'
  <2>1. \A d \in Drives : vol[d] \in Volumes /\ (vol[d].root \/ (vol[d].pend /\ cand # None)) \in BOOLEAN
    BY DEF Inv, IndexTyped, Volumes
  <2> QED BY <2>1 DEF IndexTyped, Volumes
<1>6. LaneTyped'
  BY <1>1 DEF Inv, LaneTyped, Steps
<1>7. Watched' /\ Pinned' /\ Planned' /\ Signed'
  BY <1>1, <1>2, <1>3 DEF Inv, Watched, Pinned, Planned, Signed, Allowed, Chosen
<1>8. Alone'
  <2>1. /\ \A d \in Drives : data[d].on => d = cand
        /\ cand # None => vol[cand].there
        /\ \A d \in Known : data[d].on \/ d \in inactive
    BY <1>1 DEF Inv, Alone
  <2>2. cand \in Drives \cup {None}
    BY DEF Inv, LaneTyped, Jobs
  <2>3. cand # None => vol'[cand].there /\ ~vol'[cand].pend
    BY <1>2, <2>1, <2>2
  <2> HIDE DEF Boot
  <2> QED BY <1>1, <1>3, <2>1, <2>3 DEF Alone
<1>9. Numbered'
  BY <1>1, <1>2 DEF Inv, Numbered
<1>10. Scannable'
  BY <1>1, <1>2, <1>3 DEF Inv, Scannable, Known
<1>11. Owing'
  <2>1. /\ unscanned \subseteq unscanned'
        /\ \A d \in Drives : vol[d].pend /\ vol[d].cursor = Unset /\ cand = None => d \in unscanned'
    OBVIOUS
  <2>2. \A d \in Known \ unscanned' : vol[d].cursor = Unset => vol'[d].root
    BY <1>2, <2>1 DEF Inv, Owing, Known
  <2>3. \A d \in Known \ unscanned' : vol[d].cursor # Unset =>
          vol'[d].root \/ \A n \in missing[d] : n \in vol[d].owed \/ n > vol[d].cursor
    BY <1>2, <2>1 DEF Inv, Owing, Known
  <2>4. \A d \in Drives : vol'[d].cursor = vol[d].cursor /\ vol'[d].owed = vol[d].owed
    BY <1>2
  <2>5. Known \subseteq Drives
    BY DEF Known
  <2> HIDE DEF Boot
  <2> QED BY <1>1, <1>3, <2>2, <2>3, <2>4, <2>5 DEF Owing
<1> QED BY <1>4, <1>5, <1>6, <1>7, <1>8, <1>9, <1>10, <1>11 DEF Inv

LEMMA StartKeeps ==
  ASSUME Inv, Start
  PROVE  Inv'
<1> USE DEF Start, settings, environment, approval, Go
<1> DEFINE d == job.cand
<1>1. /\ pc = "start" /\ d \in Drives /\ vol[d].there /\ ~data[d].on /\ d \in inactive
      /\ sig = Signature(config) /\ d \in Known
  BY DEF Inv, Alone, Signed, LaneTyped, Jobs, Known
<1>2. /\ UNCHANGED <<config, owner, cb, made, missing, job, inactive, sig, unscanned>>
      /\ \E invalid \in BOOLEAN :
           /\ vol' = [vol EXCEPT ![d] = IF invalid THEN Invalid(vol[d]) ELSE vol[d]]
           /\ \/ /\ pc' = "seed"
                 /\ data' = [data EXCEPT ![d] = [on |-> TRUE, dev |-> job.dev,
                      pos |-> IF vol'[d].cursor = Unset THEN made[d] ELSE vol'[d].cursor]]
              \/ pc' = "finish" /\ data' = data
  <2>1. PICK result \in {"started", "invalid", "failed"} :
          /\ vol' = [vol EXCEPT ![d] = IF result = "invalid" THEN Invalid(vol[d]) ELSE vol[d]]
          /\ IF Here /\ result # "failed"
             THEN /\ data' = [data EXCEPT ![d] = [on |-> TRUE, dev |-> job.dev,
                       pos |-> IF (IF result = "invalid" THEN Invalid(vol[d]) ELSE vol[d]).cursor = Unset
                               THEN made[d]
                               ELSE (IF result = "invalid" THEN Invalid(vol[d]) ELSE vol[d]).cursor]]
                  /\ pc' = "seed"
             ELSE pc' = "finish" /\ data' = data
    OBVIOUS
  <2>2. vol'[d] = IF result = "invalid" THEN Invalid(vol[d]) ELSE vol[d]
    BY <1>1, <2>1 DEF Inv, IndexTyped
  <2>3. (result = "invalid") \in BOOLEAN
    OBVIOUS
  <2>4. UNCHANGED <<config, owner, cb, made, missing, job, inactive, sig, unscanned>>
    OBVIOUS
  <2> HIDE DEF Start
  <2> QED BY <2>1, <2>2, <2>3, <2>4
<1>3. /\ vol'[d].there /\ vol'[d].pend = vol[d].pend /\ vol'[d].owed = vol[d].owed
      /\ \/ vol'[d].cursor = Unset /\ vol'[d].root
         \/ vol'[d].cursor = vol[d].cursor /\ vol'[d].root = vol[d].root
      /\ \A e \in Drives : e # d => vol'[e] = vol[e]
  <2>1. vol[d] \in Volumes
    BY <1>1 DEF Inv, IndexTyped
  <2>2. /\ Invalid(vol[d]).there = vol[d].there /\ Invalid(vol[d]).pend = vol[d].pend
        /\ Invalid(vol[d]).owed = vol[d].owed /\ Invalid(vol[d]).cursor = Unset /\ Invalid(vol[d]).root
    BY <2>1 DEF Volumes, Invalid
  <2>3. vol'[d] \in {vol[d], Invalid(vol[d])} /\ \A e \in Drives : e # d => vol'[e] = vol[e]
    BY <1>1, <1>2 DEF Inv, IndexTyped
  <2> QED BY <1>1, <2>2, <2>3
<1>4. Known' = Known
  BY <1>1, <1>3 DEF Known
<1>5. SettingsTyped' /\ WorldTyped' /\ Ingested'
  BY SettingsTypedFrame, WorldTypedFrame, IngestedFrame DEF Inv
<1>6. IndexTyped'
  <2>1. vol[d] \in Volumes
    BY <1>1 DEF Inv, IndexTyped
  <2>2. Unset \in Int
    BY DEF Unset
  <2>3. Invalid(vol[d]) \in Volumes
    BY <2>1, <2>2 DEF Volumes, Invalid
  <2> QED BY <1>2, <2>1, <2>3 DEF Inv, IndexTyped
<1>7. vol'[d].cursor \in Unset..made[d] /\ made[d] \in Nat
  BY <1>1, <1>3 DEF Inv, Numbered, WorldTyped, Unset
<1>8. \/ /\ pc' = "seed" /\ data'[d].on
         /\ data'[d].pos = (IF vol'[d].cursor = Unset THEN made[d] ELSE vol'[d].cursor)
         /\ data'[d].pos \in Nat /\ data'[d] \in Streams
         /\ \A e \in Drives : e # d => data'[e] = data[e]
      \/ pc' = "finish" /\ data' = data
  <2> DEFINE s == [on |-> TRUE, dev |-> job.dev,
                   pos |-> IF vol'[d].cursor = Unset THEN made[d] ELSE vol'[d].cursor]
  <2>1. s.pos \in Nat
    BY <1>7 DEF Unset
  <2>2. s \in Streams
    BY <2>1 DEF Inv, LaneTyped, Jobs, Streams
  <2>3. \/ pc' = "seed" /\ data' = [data EXCEPT ![d] = s]
        \/ pc' = "finish" /\ data' = data
    BY <1>2
  <2> HIDE DEF Start
  <2> QED BY <1>1, <2>1, <2>2, <2>3 DEF Inv, StreamsTyped
<1>9. StreamsTyped'
  BY <1>2, <1>8 DEF Inv, StreamsTyped
<1>10. LaneTyped'
  BY <1>2 DEF Inv, LaneTyped, Steps
<1>11. Watched'
  BY <1>1, <1>2, <1>3, <1>8 DEF Inv, Watched
<1>12. ~vol[d].pend
  BY <1>1 DEF Inv, Alone
<1>13. Alone'
  BY <1>1, <1>2, <1>3, <1>4, <1>8, <1>12 DEF Inv, Alone
<1>14. Pinned' /\ Planned' /\ Signed'
  BY <1>1, <1>2, <1>4 DEF Inv, Pinned, Planned, Signed
<1>15. Consented'
  BY <1>1, <1>2, <1>8, SourcesAssumption DEF Inv, Consented, Planned, Allowed, Chosen
<1>16. Numbered'
  BY <1>1, <1>2, <1>3, <1>7, <1>8 DEF Inv, Numbered, Unset, Watched
<1>17. Scannable'
  BY <1>1, <1>2, <1>3, <1>4, <1>8 DEF Inv, Scannable, Known
<1>18. Owing'
  BY <1>1, <1>2, <1>3, <1>4 DEF Inv, Owing, Known
<1> QED BY <1>5, <1>6, <1>9, <1>10, <1>11, <1>13, <1>14, <1>15, <1>16, <1>17, <1>18 DEF Inv

LEMMA SeedKeeps ==
  ASSUME Inv, Seed
  PROVE  Inv'
<1> USE DEF Seed, settings, environment, streams, approval, manager, Go
<1> DEFINE d == job.cand
<1>1. /\ pc = "seed" /\ pc' = "finish" /\ d \in Drives /\ data[d].on /\ vol[d].there /\ d \in Known
      /\ ~vol[d].pend /\ inactive' = inactive \ {d}
      /\ UNCHANGED <<config, owner, data, cb, made, missing, job, sig, unscanned>>
  BY DEF Inv, Alone, LaneTyped, Jobs, Known
<1>2. vol' = [vol EXCEPT ![d] = Seeded(@, data[d].pos)] /\ vol[d] \in Volumes /\ data[d].pos \in Nat
  BY <1>1 DEF Inv, IndexTyped, StreamsTyped, Streams
<1>3. /\ vol'[d].there /\ vol'[d].pend = vol[d].pend /\ vol'[d].owed = vol[d].owed
      /\ vol'[d].root = vol[d].root /\ vol'[d].cursor # Unset
      /\ vol'[d].cursor = IF vol[d].cursor = Unset THEN data[d].pos ELSE vol[d].cursor
      /\ \A e \in Drives : e # d => vol'[e] = vol[e]
  BY <1>1, <1>2 DEF Inv, IndexTyped, Volumes, Seeded, Unset
<1>4. Known' = Known
  BY <1>1, <1>3 DEF Known
<1>5. SettingsTyped' /\ WorldTyped' /\ StreamsTyped' /\ Ingested' /\ Consented'
  BY SettingsTypedFrame, WorldTypedFrame, StreamsTypedFrame, IngestedFrame, ConsentedFrame DEF Inv
<1>6. IndexTyped'
  <2>1. Seeded(vol[d], data[d].pos) \in Volumes
    BY <1>2 DEF Seeded, Volumes
  <2> QED BY <1>2, <2>1 DEF Inv, IndexTyped
<1>7. LaneTyped'
  BY <1>1 DEF Inv, LaneTyped, Steps
<1>8. Watched' /\ Pinned' /\ Planned' /\ Signed'
  BY <1>1, <1>3, <1>4 DEF Inv, Watched, Pinned, Planned, Signed
<1>9. Alone'
  BY <1>1 DEF Alone
<1>10. Numbered'
  BY <1>1, <1>2, <1>3 DEF Inv, Numbered, WorldTyped, Unset
<1>11. Scannable'
  BY <1>1, <1>3, <1>4 DEF Inv, Scannable, Known
<1>12. Owing'
  BY <1>1, <1>3, <1>4 DEF Inv, Owing, Known
<1> QED BY <1>5, <1>6, <1>7, <1>8, <1>9, <1>10, <1>11, <1>12 DEF Inv

LEMMA FinishKeeps ==
  ASSUME Inv, Finish
  PROVE  Inv'
<1> USE DEF Finish, settings, environment, streams, index, approval, Go
<1>1. SettingsTyped' /\ WorldTyped' /\ StreamsTyped' /\ IndexTyped' /\ Watched' /\ Ingested'
      /\ Pinned' /\ Consented' /\ Numbered' /\ Owing'
  BY SettingsTypedFrame, WorldTypedFrame, StreamsTypedFrame, IndexTypedFrame, WatchedFrame,
     IngestedFrame, PinnedFrame, ConsentedFrame, NumberedFrame, OwingFrame DEF Inv
<1>2. LaneTyped'
  <2>1. job' \in Jobs /\ lane' \in Controls /\ pc' \in Steps
    BY WokenTyped DEF Inv, NoJob, Jobs, Steps
  <2> QED BY <2>1 DEF Inv, LaneTyped, Pending
<1>3. Alone'
  BY SourcesAssumption DEF Inv, StreamsTyped, IndexTyped, LaneTyped, Watched, Alone, Known, Streams, Calls, Volumes, Wishes, Controls, Jobs
<1>4. Planned'
  BY SourcesAssumption DEF Inv, LaneTyped, SettingsTyped, Planned, Known, Allowed, Chosen, Wishes, Controls, Jobs
<1>5. Signed'
  BY SourcesAssumption DEF Inv, Signed
<1>6. Scannable'
  BY SourcesAssumption DEF Inv, StreamsTyped, IndexTyped, LaneTyped, Scannable, Known, Streams, Calls, Volumes, Wishes, Controls, Jobs
<1> QED BY <1>1, <1>2, <1>3, <1>4, <1>5, <1>6 DEF Inv

LEMMA RestartKeeps ==
  ASSUME Inv, Restart
  PROVE  Inv'
<1>1. config' \in Configurations
  BY DEF Restart, Inv, SettingsTyped
<1> QED BY <1>1, StoppedKeeps DEF Restart

----------------------------------------------------------------------------
(* The specification. *)

LEMMA InitInv == Init => Inv
<1> SUFFICES ASSUME Init PROVE Inv
  OBVIOUS
<1> USE SourcesAssumption DEF Init
<1>1. Known = {}
  BY DEF Known, NoVolume
<1>2. SettingsTyped /\ WorldTyped /\ Ingested
  BY DEF SettingsTyped, WorldTyped, Ingested
<1>3. StreamsTyped
  BY DEF StreamsTyped, Streams, Calls, Callbacks, NoStream, NoCallback
<1>4. IndexTyped
  BY DEF IndexTyped, Volumes, NoVolume, Unset
<1>5. LaneTyped
  BY DEF LaneTyped, Wishes, Controls, Jobs, Steps, NoSignals, Started, NoJob
<1>6. Watched /\ Consented /\ Signed
  BY DEF Watched, Consented, Signed, NoStream, NoCallback
<1>7. Alone /\ Planned
  BY DEF Alone, Planned
<1>8. Pinned /\ Scannable /\ Owing
  BY <1>1 DEF Pinned, Scannable, Owing
<1>9. Numbered
  <2>1. \A d \in Drives : /\ missing[d] = {} /\ made[d] = 0 /\ vol[d].cursor = Unset
                          /\ ~data[d].on /\ data[d].pos = 0 /\ cb[d].at = "idle"
    BY DEF NoVolume, NoStream, NoCallback
  <2>2. Unset \in Unset..0
    BY DEF Unset
  <2> SUFFICES ASSUME NEW d \in Drives
               PROVE  /\ missing[d] \subseteq 1..made[d]
                      /\ vol[d].cursor \in Unset..made[d] /\ data[d].pos <= made[d]
                      /\ data[d].on /\ vol[d].cursor # Unset => data[d].pos <= vol[d].cursor
                      /\ cb[d].at = "enqueue" => cb[d].upto \in data[d].pos..made[d]
    BY DEF Numbered
  <2>3. missing[d] \subseteq 1..made[d]
    BY <2>1
  <2>4. vol[d].cursor \in Unset..made[d]
    BY <2>1, <2>2
  <2> HIDE DEF Init
  <2>5. data[d].pos <= made[d]
    BY <2>1
  <2> QED BY <2>1, <2>3, <2>4, <2>5
<1> QED BY <1>2, <1>3, <1>4, <1>5, <1>6, <1>7, <1>8, <1>9 DEF Inv

LEMMA StutterKeeps ==
  ASSUME Inv, UNCHANGED vars
  PROVE  Inv'
BY SettingsTypedFrame, WorldTypedFrame, StreamsTypedFrame, IndexTypedFrame, LaneTypedFrame,
   WatchedFrame, AloneFrame, IngestedFrame, PinnedFrame, PlannedFrame, ConsentedFrame,
   SignedFrame, NumberedFrame, ScannableFrame, OwingFrame
   DEF Inv, vars, settings, environment, streams, index, approval, manager

LEMMA StepKeeps ==
  ASSUME Inv, [Next]_vars
  PROVE  Inv'
<1>1. CASE Unmount \/ \E d \in Drives : Mount(d) \/ Change(d) \/ Approve(d)
  BY <1>1, UnmountKeeps, MountKeeps, ChangeKeeps, ApproveKeeps
<1>2. CASE Restart \/ \E c \in Configs : Configure(c)
  BY <1>2, RestartKeeps, ConfigureKeeps
<1>3. CASE Callback
  BY <1>3, CatalogEventKeeps, CatalogSignalKeeps, CatalogWakeKeeps, BatchKeeps, CommitKeeps,
     SignalKeeps DEF Callback
<1>4. CASE Foreground
  BY <1>4, SeeSignalKeeps, RevalidateKeeps, WorkKeeps DEF Foreground
<1>5. CASE Lane
  BY <1>5, TopKeeps, TimerKeeps, TakeKeeps, StartCatalogKeeps, CoverKeeps, DiscoverKeeps,
     StopKeeps, PrepareKeeps, BootKeeps, StartKeeps, SeedKeeps, FinishKeeps DEF Lane
<1>6. CASE UNCHANGED vars
  BY <1>6, StutterKeeps
<1> QED BY <1>1, <1>2, <1>3, <1>4, <1>5, <1>6 DEF Next

\* Every reachable state is one of the invariant: what the lane plans, what its streams
\* and their callbacks hold, and what the index keeps agree.
THEOREM InvHolds == Spec => []Inv
BY InitInv, StepKeeps, PTL DEF Spec

\* No stream reports to a volume that is gone from the index: a refresh stops the stream
\* and waits for its callback before prepare_sources removes the volume.
THEOREM IngestsAll == Spec => []Ingested
<1>1. Inv => Ingested
  BY DEF Inv
<1> QED BY <1>1, InvHolds, PTL

\* Only a drive that the preferences allow is watched, and no drive takes over a folder
\* that was another's.
THEOREM ConsentHolds == Spec => []Consented
<1>1. Inv => Consented
  BY DEF Inv
<1> QED BY <1>1, InvHolds, PTL

\* No change of a known drive is forgotten by callbacks, refreshes, restarts and crashes:
\* it is queued, or a scan is, or the next stream begins before it.
THEOREM NothingIsForgotten == Spec => []NothingForgotten
<1>1. Inv => NothingForgotten
  BY DEF Inv, Owing, NothingForgotten
<1> QED BY <1>1, InvHolds, PTL

----------------------------------------------------------------------------
(* What is shown.                                                           *)

\* What the inventory shows as included is allowed, whether the index is read or not.
LEMMA ShownIsAllowed ==
  ASSUME SettingsTyped, Pinned, NEW d \in Drives, NEW unread \in BOOLEAN,
         ShownIncluded(config, d, Known, unread)
  PROVE  Allowed(d)
<1>1. /\ config.in \cap config.out = {} /\ config.scope \in {"all", "configured"}
      /\ config.mode \in {"automatic", "selected"}
      /\ None \notin Named(config)
  BY SourcesAssumption DEF SettingsTyped, Configurations, Preferences, Named
<1>2. CASE ~unread \/ d \in config.in
  <2>1. d \in config.in \/ Selected(config, d, Known)
    BY <1>1, <1>2 DEF ShownIncluded, Selected
  <2>2. CASE d \in config.in
    BY <1>1, <2>2 DEF Allowed, Chosen
  <2> QED BY <2>1, <2>2, SelectedIsAllowed
<1>3. CASE unread /\ d \notin config.in
  <2>1. config.scope = "configured"
    BY <1>1, <1>3 DEF ShownIncluded, SelectedUuid
  <2>2. Named(config) # {} /\ ConfiguredUuid(config, d, {})
    BY <1>1, <1>3, <2>1 DEF ShownIncluded, ConfiguredUuid, Named
  <2> QED BY <1>1, <2>1, <2>2 DEF ConfiguredUuid, Named, Allowed, Chosen
<1> QED BY <1>2, <1>3

\* The settings, a preview and one-shot work say of the drives what the worker does.
THEOREM IsShownTruly == Spec => []ShownTruly
<1>1. ASSUME Inv PROVE ShownTruly
  <2> USE <1>1
  <2>1. ASSUME NEW unread \in BOOLEAN, NEW unseen \in BOOLEAN,
               NEW d \in Listed(config, mounted, Known, unread, unseen)
        PROVE  /\ ShownIncluded(config, d, Known, unread) => Allowed(d)
               /\ data[d].on /\ ~unread => ShownIncluded(config, d, Known, unread)
               /\ mounted = d => Availability(mounted, d, unread, unseen) # "disconnected"
    <3>1. d \in Drives
      BY DEF Inv, Listed, Connected, Known, WorldTyped, SettingsTyped, Configurations, Preferences
    <3>2. ShownIncluded(config, d, Known, unread) => Allowed(d)
      BY <3>1, ShownIsAllowed DEF Inv
    <3>3. ASSUME data[d].on, ~unread
          PROVE  ShownIncluded(config, d, Known, unread)
      <4>1. Selected(config, d, Known)
        BY <3>1, <3>3, SelectedIsAllowed DEF Inv, Watched, Consented, Known
      <4>2. config.scope \in {"all", "configured"}
        BY DEF Inv, SettingsTyped, Configurations, Preferences
      <4> QED BY <3>3, <4>1, <4>2 DEF Selected, ShownIncluded
    <3>4. mounted = d => Availability(mounted, d, unread, unseen) # "disconnected"
      BY <3>1, SourcesAssumption DEF Availability, Connected
    <3> QED BY <3>2, <3>3, <3>4
  <2>2. ASSUME NEW d \in Drives, mounted = d, Resolved(config, d, Known)
        PROVE  Allowed(d)
    <3>1. CASE Selected(config, d, Known)
      BY <3>1, SelectedIsAllowed DEF Inv
    <3>2. CASE config.scope = "configured" /\ ConfiguredUuid(config, None, Known)
      <4>1. None \notin Named(config) \cup Known
        BY SourcesAssumption DEF Inv, SettingsTyped, Configurations, Preferences, Named, Known
      <4>2. Named(config) \cup Known = {}
        BY <3>2, <4>1 DEF ConfiguredUuid, Named
      <4> QED BY <3>2, <4>2 DEF Inv, Pinned, Named, Allowed, Chosen
    <3> QED BY <2>2, <3>1, <3>2 DEF Resolved
  <2> QED BY <2>1, <2>2 DEF ShownTruly, Inventory
<1> QED BY <1>1, InvHolds, PTL

----------------------------------------------------------------------------
(* What is away. *)

\* Nothing but prepare_sources takes a volume out of the index.
LEMMA OthersKeep ==
  ASSUME Inv, [Next]_vars, ~Prepare
  PROVE  \A d \in Drives : vol[d].there => vol'[d].there
<1> USE DEF settings, environment, streams, index, approval, manager
<1>1. CASE vol' = vol
  BY <1>1
<1>2. CASE \E d \in Drives : Commit(d)
  <2>1. PICK e \in Drives : Commit(e)
    BY <1>2
  <2>2. vol[e] \in Volumes
    BY DEF Inv, IndexTyped
  <2>3. Taken(e, vol[e]).there = vol[e].there
    BY <2>2 DEF Taken, Volumes
  <2>4. vol' = vol \/ vol' = [vol EXCEPT ![e] = Taken(e, @)]
    BY <2>1 DEF Commit
  <2> QED BY <2>3, <2>4 DEF Inv, IndexTyped
<1>3. CASE \E d \in Drives : Work(d)
  BY <1>3 DEF Inv, IndexTyped, Volumes, Work
<1>4. CASE Boot
  BY <1>4 DEF Inv, IndexTyped, Volumes, Boot
<1>5. CASE Start
  BY <1>5 DEF Inv, IndexTyped, Volumes, Start, Invalid
<1>6. CASE Seed
  BY <1>6 DEF Inv, IndexTyped, Volumes, Seed, Seeded
<1>7. CASE \/ Unmount \/ \E d \in Drives : Mount(d) \/ Change(d) \/ Approve(d)
           \/ Restart \/ \E c \in Configs : Configure(c)
  BY <1>1, <1>7 DEF Unmount, Mount, Change, Approve, Around, Restart, Configure, Stopped
<1>8. CASE CatalogEvent \/ CatalogSignal \/ CatalogWake \/ \E d \in Drives : Batch(d) \/ Signal(d)
  BY <1>1, <1>8 DEF CatalogEvent, CatalogSignal, CatalogWake, Batch, Signal
<1>9. CASE \/ SeeSignal \/ Revalidate \/ Top \/ Timer \/ Take \/ StartCatalog \/ Cover \/ Discover
           \/ Stop \/ Finish
  BY <1>1, <1>9 DEF SeeSignal, Revalidate, Top, Timer, Take, StartCatalog, Cover, Discover, Stop, Finish
<1>10. CASE UNCHANGED vars
  BY <1>1, <1>10 DEF vars
<1> QED BY <1>2, <1>3, <1>4, <1>5, <1>6, <1>7, <1>8, <1>9, <1>10 DEF Next, Callback, Foreground, Lane

\* The volume of a drive that is away leaves the index only when the preferences do not
\* allow the drive any more, or for a drive they do allow.
THEOREM AwayIsKept == Spec => AwayIsNotGone
<1>1. ASSUME Inv, [Next]_vars, NEW d \in Drives, vol[d].there, ~vol'[d].there
      PROVE  ~Allowed(d) \/ (job.cand \notin {None, d} /\ Allowed(job.cand))
  <2>1. Prepare
    BY <1>1, OthersKeep
  <2>2. d \notin Identities
    BY <1>1, <2>1 DEF Inv, IndexTyped, Volumes, Prepare, Prepared, NoVolume, Retained
  <2>3. job.cand \in Drives \cup {None}
    BY <1>1 DEF Inv, LaneTyped, Jobs
  <2>4. CASE job.cand # None
    <3>1. Allowed(job.cand)
      BY <1>1, <2>1, <2>3, <2>4, SelectedIsAllowed DEF Inv, Planned, Prepare
    <3> QED BY <2>2, <2>4, <3>1 DEF Identities
  <2>5. CASE job.cand = None
    BY <1>1, <2>1, <2>2, <2>5 DEF Inv, Planned, Prepare, Identities, Known
  <2> QED BY <2>4, <2>5
<1>2. Inv /\ [Next]_vars =>
        [\A d \in Drives : vol[d].there /\ ~vol'[d].there =>
           ~Allowed(d) \/ (job.cand \notin {None, d} /\ Allowed(job.cand))]_vars
  BY <1>1
<1> QED BY <1>2, InvHolds, PTL DEF Spec, AwayIsNotGone

----------------------------------------------------------------------------
(* Permission: a drive that wants approval is watched by a permission of   *)
(* its present connection, and what tells the lane that a connection has   *)
(* ended is never lost on the way.                                         *)

(* The inductive invariant. *)

Grants == [dev: Devices \cup {0}, conn: Nat]
Signatures == [known: BOOLEAN, cand: Drives \cup {None}, dev: Devices \cup {0}, roots: BOOLEAN]

GrantsTyped ==
  /\ grant \in [Drives -> Grants] /\ conn \in Nat
  /\ last \in Signatures
  /\ mounted # None => dev # 0

\* Before a refresh has a plan of its own, that of the one before it is in force.
Unplanned == {"top", "sleep", "take", "catalog", "cover", "discover"}
Plan == IF pc \in Unplanned THEN last.cand ELSE job.cand

\* A drive that is granted or watched is the one that was planned; a plan is changed
\* for a stream of another drive, and the stream goes first.
Single ==
  \A d \in Drives :
    /\ grant[d].dev # 0 => d = Plan
    /\ data[d].on /\ pc # "stop" => d = Plan

\* The volume of the last plan stays until the next one, and a refresh that changes
\* nothing keeps the plan.
Remembered ==
  /\ pc \in Unplanned \cup {"finish"} /\ Plan # None => vol[Plan].there
  /\ pc \in {"stop", "prepare", "boot", "start", "seed"} => job.changed
  /\ pc = "finish" /\ ~job.changed => last.cand = job.cand

\* A drive that wants approval has a permission when its stream is to start.
Licensed == pc \in {"stop", "prepare", "boot", "start"} /\ job.cand \in Manual => grant[job.cand].dev # 0

\* That a drive has left is still to be taken by the lane, or it has been and the
\* refresh has not come to its streams.
Told(d) == gone[d] \/ d \in signals.drives \/ "unmount" \in note \/ signals.path
Leaving(d) == pc \in {"catalog", "cover", "discover"} \/ (pc = "stop" /\ job.cand # d)

\* A permission is of the present connection, or the end of its own will be told.
Given ==
  \A d \in Drives : grant[d].dev # 0 =>
    (mounted = d /\ grant[d].conn = conn) \/ grant[d].conn \in untold \/ Told(d)

\* A stream is of the drive that is there, and permitted, until a refresh stops it.
Permitting ==
  \A d \in Drives : data[d].on =>
    /\ mounted = d \/ Told(d) \/ Leaving(d)
    /\ d \in Manual => grant[d].dev # 0 \/ Leaving(d)

PermissionInv ==
  GrantsTyped /\ Single /\ Remembered /\ Licensed /\ Given /\ Permitting

----------------------------------------------------------------------------
(* Steps that neither plan, grant nor watch.                                *)

\* The invariant is kept by what leaves the plan, the drives, the permissions and the
\* streams alone, takes no volume from the index and loses no word of an unmount.
LEMMA Unmoved ==
  ASSUME PermissionInv,
         UNCHANGED <<config, mounted, dev, conn, untold, grant, last, pc, job>>,
         \A d \in Drives : data'[d].on = data[d].on,
         \A d \in Drives : vol[d].there => vol'[d].there,
         \A d \in Drives : Told(d) => Told(d)',
         Plan \in Drives \cup {None}
  PROVE  PermissionInv'
<1>1. Plan' = Plan
  BY DEF Plan
<1>2. GrantsTyped'
  BY DEF PermissionInv, GrantsTyped
<1>3. Single' /\ Remembered' /\ Licensed'
  BY <1>1 DEF PermissionInv, Single, Remembered, Licensed, Manual
<1>4. Given'
  BY DEF PermissionInv, Given
<1>5. Permitting'
  BY DEF PermissionInv, Permitting, Leaving, Manual
<1> QED BY <1>2, <1>3, <1>4, <1>5 DEF PermissionInv

LEMMA PlanTyped ==
  ASSUME Inv, PermissionInv
  PROVE  Plan \in Drives \cup {None}
BY DEF Inv, LaneTyped, Jobs, PermissionInv, GrantsTyped, Signatures, Plan

LEMMA OutsidePermits ==
  ASSUME Inv, PermissionInv, \E d \in Drives : Change(d) \/ Approve(d)
  PROVE  PermissionInv'
<1> USE DEF Change, Approve, Around, settings, environment, streams, index, manager
<1>1. \A d \in Drives : Told(d)' = Told(d)
  BY DEF Told
<1> QED BY <1>1, PlanTyped, Unmoved

LEMMA CallbackPermits ==
  ASSUME Inv, PermissionInv, Callback
  PROVE  PermissionInv'
<1> USE DEF settings, environment, manager
<1>1. CASE CatalogEvent
  <2>1. \A d \in Drives : Told(d) => Told(d)'
    BY <1>1 DEF CatalogEvent, Told, Inv, LaneTyped, Wishes
  <2> QED BY <1>1, <2>1, PlanTyped, Unmoved DEF CatalogEvent, index
<1>2. CASE CatalogSignal \/ CatalogWake
  <2>1. \A d \in Drives : Told(d)' = Told(d)
    BY <1>2 DEF CatalogSignal, CatalogWake, Refreshing, Told, Inv, LaneTyped, Wishes
  <2> QED BY <1>2, <2>1, PlanTyped, Unmoved DEF CatalogSignal, CatalogWake, index
<1>3. CASE \E d \in Drives : Batch(d)
  <2>1. \A d \in Drives : Told(d) => Told(d)'
    BY <1>3 DEF Batch, Told, Inv, LaneTyped, StreamsTyped, Wishes
  <2> QED BY <1>3, <2>1, PlanTyped, Unmoved DEF Batch, index
<1>4. CASE \E d \in Drives : Commit(d)
  <2>1. \A d \in Drives : Told(d)' = Told(d) /\ data'[d].on = data[d].on
    BY <1>4 DEF Commit, Told, Inv, StreamsTyped, Streams
  <2>2. \A d \in Drives : vol[d].there => vol'[d].there
    BY <1>4, OthersKeep DEF Next, Callback, Commit, Prepare, Go
  <2> QED BY <1>4, <2>1, <2>2, PlanTyped, Unmoved DEF Commit
<1>5. CASE \E d \in Drives : Signal(d)
  <2>1. \A d \in Drives : Told(d)' = Told(d)
    BY <1>5 DEF Signal, Refreshing, Told, Inv, LaneTyped, Wishes
  <2> QED BY <1>5, <2>1, PlanTyped, Unmoved DEF Signal, index
<1> QED BY <1>1, <1>2, <1>3, <1>4, <1>5 DEF Callback

LEMMA ForegroundPermits ==
  ASSUME Inv, PermissionInv, Foreground \/ Timer
  PROVE  PermissionInv'
<1> USE DEF Foreground, Timer, SeeSignal, Revalidate, Work, settings, environment, streams, index, manager, approval
<1>1. \A d \in Drives : Told(d)' = Told(d)
  BY DEF Told
<1>2. \A d \in Drives : vol[d].there => vol'[d].there
  BY DEF Inv, IndexTyped, Volumes
<1> QED BY <1>1, <1>2, PlanTyped, Unmoved

----------------------------------------------------------------------------
(* Drives come and go.                                                      *)

LEMMA MountPermits ==
  ASSUME Inv, PermissionInv, NEW d \in Drives, Mount(d)
  PROVE  PermissionInv'
<1> USE SourcesAssumption DEF Mount, Around, settings, index, manager, approval
<1>1. Plan' = Plan /\ \A e \in Drives : Told(e) => Told(e)'
  BY DEF Plan, Told
<1>2. GrantsTyped' /\ mounted = None
  BY DEF PermissionInv, GrantsTyped
<1>3. Single' /\ Remembered' /\ Licensed'
  BY <1>1 DEF PermissionInv, Single, Remembered, Licensed, Manual
<1>4. Given'
  BY <1>1, <1>2 DEF PermissionInv, Given
<1>5. Permitting'
  BY <1>1, <1>2 DEF PermissionInv, Permitting, Leaving, Manual
<1> QED BY <1>2, <1>3, <1>4, <1>5 DEF PermissionInv

LEMMA UnmountPermits ==
  ASSUME Inv, PermissionInv, Unmount
  PROVE  PermissionInv'
<1> USE SourcesAssumption DEF Unmount, Around, settings, index, manager, approval
<1>1. /\ mounted \in Drives /\ mounted' = None /\ Plan' = Plan
      /\ \A d \in Drives : Told(d) => Told(d)'
      /\ \A d \in Drives : mounted = d => (data[d].on => Told(d)') /\ (Told(d)' \/ conn \in untold')
      /\ untold \subseteq untold'
  <2>1. mounted \in Drives /\ mounted' = None /\ Plan' = Plan
    BY DEF Inv, WorldTyped, Plan
  <2>2. PICK told \in BOOLEAN :
          /\ gone' = [gone EXCEPT ![mounted] = @ \/ told]
          /\ untold' = IF told \/ cat THEN untold ELSE untold \cup {conn}
          /\ data[mounted].on => told \/ cat
    <3>1. PICK told \in IF data[mounted].on THEN {TRUE, ~cat} ELSE {FALSE} :
            /\ gone' = [gone EXCEPT ![mounted] = @ \/ told]
            /\ untold' = IF told \/ cat THEN untold ELSE untold \cup {conn}
      OBVIOUS
    <3> QED BY <3>1
  <2>3. told => gone'[mounted]
    BY <2>1, <2>2 DEF Inv, StreamsTyped
  <2>4. \A d \in Drives : gone[d] => gone'[d]
    BY <2>1, <2>2 DEF Inv, StreamsTyped
  <2> QED BY <2>1, <2>2, <2>3, <2>4 DEF Told
<1>2. GrantsTyped'
  BY DEF PermissionInv, GrantsTyped
<1>3. Single' /\ Remembered' /\ Licensed'
  BY <1>1 DEF PermissionInv, Single, Remembered, Licensed, Manual
<1>4. Given'
  BY <1>1 DEF PermissionInv, Given
<1>5. Permitting'
  BY <1>1 DEF PermissionInv, Permitting, Leaving, Manual
<1> QED BY <1>2, <1>3, <1>4, <1>5 DEF PermissionInv

LEMMA StoppedPermits ==
  ASSUME Inv, PermissionInv, Stopped
  PROVE  PermissionInv'
<1> USE DEF Stopped, environment, index
<1>1. \A d \in Drives : ~data'[d].on /\ grant'[d] = NoGrant
  BY DEF NoStream
<1>2. GrantsTyped'
  BY DEF PermissionInv, GrantsTyped, Grants, Signatures, NoGrant, Unknown
<1>3. Single' /\ Given' /\ Permitting'
  BY <1>1 DEF Single, Given, Permitting, NoGrant
<1>4. Remembered' /\ Licensed'
  BY DEF Remembered, Licensed, Plan, Unplanned, Unknown
<1> QED BY <1>2, <1>3, <1>4 DEF PermissionInv

----------------------------------------------------------------------------
(* The lane.                                                                *)

LEMMA TopPermits ==
  ASSUME Inv, PermissionInv, Top
  PROVE  PermissionInv'
<1> USE DEF Top, Go, settings, environment, streams, index, manager, approval
<1>1. /\ {pc, pc'} \subseteq {"top", "sleep", "take"} /\ Plan' = Plan
      /\ UNCHANGED <<config, mounted, dev, conn, untold, grant, last, data, vol>>
  BY DEF Plan, Unplanned
<1>2. \A d \in Drives : Told(d)' = Told(d)
  BY DEF Told, Refreshing, Inv, LaneTyped, Wishes
<1> HIDE DEF Top
<1>3. GrantsTyped'
  BY <1>1 DEF PermissionInv, GrantsTyped
<1>4. Single' /\ Remembered' /\ Licensed'
  BY <1>1 DEF PermissionInv, Single, Remembered, Licensed, Unplanned
<1>5. Given'
  BY <1>1, <1>2 DEF PermissionInv, Given
<1>6. Permitting'
  BY <1>1, <1>2 DEF PermissionInv, Permitting, Leaving, Manual
<1> QED BY <1>3, <1>4, <1>5, <1>6 DEF PermissionInv

\* What was told is taken: the permissions of what has left end, and its streams are
\* stopped by this refresh.
LEMMA TakePermits ==
  ASSUME Inv, PermissionInv, Take
  PROVE  PermissionInv'
<1> USE DEF Take, Go, settings, environment, streams, index
<1>1. /\ pc = "take" /\ pc' \in {"catalog", "cover"} /\ Plan' = Plan
      /\ UNCHANGED <<config, mounted, dev, conn, untold, last, data, vol, gone, note>>
  BY DEF Plan, Unplanned
<1>2. \A d \in Drives : grant'[d] \in {grant[d], NoGrant} /\ (d \in Left => grant'[d] = NoGrant)
  BY DEF EndedGrants
<1>3. grant' = [d \in Drives |-> IF d \in Left THEN NoGrant ELSE grant[d]]
  BY DEF EndedGrants
<1> HIDE DEF Take
<1>4. GrantsTyped'
  <2>1. NoGrant \in Grants
    BY DEF NoGrant, Grants
  <2> QED BY <1>1, <1>3, <2>1 DEF PermissionInv, GrantsTyped
<1>5. Single' /\ Remembered' /\ Licensed'
  BY <1>1, <1>2 DEF PermissionInv, Single, Remembered, Licensed, Unplanned, NoGrant
<1>6. Given'
  <2>1. ASSUME NEW d \in Drives, grant'[d].dev # 0
        PROVE  (mounted = d /\ grant[d].conn = conn) \/ grant[d].conn \in untold \/ gone[d] \/ "unmount" \in note
    <3>1. grant'[d] = grant[d] /\ d \notin Left
      BY <1>2, <2>1 DEF NoGrant
    <3>2. vol[d].there
      BY <1>1, <2>1, <3>1, SourcesAssumption DEF PermissionInv, Single, Remembered, Unplanned
    <3> QED BY <2>1, <3>1, <3>2, SourcesAssumption DEF PermissionInv, Given, Told, Left
  <2> QED BY <1>1, <1>2, <2>1 DEF Given, Told, NoGrant
<1>7. Permitting'
  BY <1>1 DEF Permitting, Leaving
<1> QED BY <1>4, <1>5, <1>6, <1>7 DEF PermissionInv

LEMMA LookPermits ==
  ASSUME Inv, PermissionInv, StartCatalog \/ Cover
  PROVE  PermissionInv'
<1> USE DEF StartCatalog, Cover, Go, settings, environment, streams, index, manager, approval
<1>1. /\ pc \in {"catalog", "cover"} /\ pc' \in {"cover", "discover"} /\ Plan' = Plan
      /\ UNCHANGED <<config, mounted, dev, conn, untold, grant, last, data, vol, gone, note, signals>>
  BY DEF Plan, Unplanned
<1> HIDE DEF StartCatalog, Cover
<1>2. GrantsTyped'
  BY <1>1 DEF PermissionInv, GrantsTyped
<1>3. Single' /\ Remembered' /\ Licensed'
  BY <1>1 DEF PermissionInv, Single, Remembered, Licensed, Unplanned
<1>4. Given'
  BY <1>1 DEF PermissionInv, Given, Told
<1>5. Permitting'
  BY <1>1 DEF Permitting, Leaving
<1> QED BY <1>2, <1>3, <1>4, <1>5 DEF PermissionInv

\* A plan that leaves out the drive of the last one is a changed plan; one that keeps a
\* drive that wants approval has a permission for it.
LEMMA DiscoverPermits ==
  ASSUME Inv, PermissionInv, Discover
  PROVE  PermissionInv'
<1> USE DEF Discover, Go, settings, environment, streams, index
<1>1. PICK d \in {mounted, None} :
        LET found == Desired /\ d # None /\ Selected(config, d, Known) IN
        /\ job'.cand = (IF found /\ Permitted(d) THEN d ELSE None)
        /\ pc' = "finish" => last.cand = job'.cand
        /\ pc' = "stop" => job'.changed
        /\ pc' \in {"stop", "finish"}
        /\ grant' = [e \in Drives |-> IF found /\ e = d /\ Granted(d).dev = dev THEN Granted(d) ELSE NoGrant]
  <2>1. PICK d \in {mounted, None} :
          LET found == Desired /\ d # None /\ Selected(config, d, Known)
              rooted == found \/ (Desired /\ Reserved(d))
              v == IF found /\ Permitted(d) THEN Volume(d) ELSE [cand |-> None, dev |-> 0]
              j == [job EXCEPT !.roots = rooted, !.absent = @ \/ (rooted /\ ~found), !.cand = v.cand, !.dev = v.dev]
              changed == job.force \/ last # LastSignature(j) \/ (job.due /\ failing)
          IN  /\ job' = [j EXCEPT !.changed = changed] /\ pc' = (IF changed THEN "stop" ELSE "finish")
              /\ grant' = [e \in Drives |-> IF found /\ e = d /\ Granted(d).dev = dev THEN Granted(d) ELSE NoGrant]
    OBVIOUS
  <2> DEFINE found == Desired /\ d # None /\ Selected(config, d, Known)
             rooted == found \/ (Desired /\ Reserved(d))
             v == IF found /\ Permitted(d) THEN Volume(d) ELSE [cand |-> None, dev |-> 0]
             j == [job EXCEPT !.roots = rooted, !.absent = @ \/ (rooted /\ ~found), !.cand = v.cand, !.dev = v.dev]
             changed == job.force \/ last # LastSignature(j) \/ (job.due /\ failing)
  <2>2. j.cand = v.cand /\ job'.cand = j.cand /\ job'.changed = changed
    BY <2>1 DEF Inv, LaneTyped, Jobs
  <2>3. v.cand = IF found /\ Permitted(d) THEN d ELSE None
    BY DEF Volume
  <2>4. ~changed => last.cand = j.cand
    BY DEF LastSignature
  <2> HIDE DEF j, v, changed
  <2>5. pc' = (IF changed THEN "stop" ELSE "finish")
    BY <2>1 DEF j, v, changed
  <2> QED BY <2>1, <2>2, <2>3, <2>4, <2>5
<1>2. /\ pc = "discover" /\ Plan = last.cand /\ Plan' = job'.cand
      /\ UNCHANGED <<config, mounted, dev, conn, untold, last, data, vol, gone, note, signals>>
  BY <1>1 DEF Plan, Unplanned
<1> HIDE DEF Discover
<1>3. mounted \in Drives \cup {None} /\ dev \in Devices \cup {0} /\ conn \in Nat
  BY DEF Inv, WorldTyped, PermissionInv, GrantsTyped
<1>4. ASSUME d # None
      PROVE  /\ d = mounted /\ d \in Drives /\ dev # 0
             /\ Granted(d) \in Grants
             /\ Granted(d) = grant[d] \/ Granted(d) = [dev |-> dev, conn |-> conn]
             /\ d \notin Manual => Granted(d) = grant[d]
  <2>1. d = mounted /\ d \in Drives /\ dev # 0
    BY <1>1, <1>3, <1>4 DEF PermissionInv, GrantsTyped
  <2>2. Granted(d) = grant[d] \/ Granted(d) = [dev |-> dev, conn |-> conn]
    BY DEF Granted
  <2>3. [dev |-> dev, conn |-> conn] \in Grants /\ grant[d] \in Grants
    BY <1>3, <2>1 DEF Grants, PermissionInv, GrantsTyped
  <2> QED BY <2>1, <2>2, <2>3 DEF Granted, Requested
<1>5. GrantsTyped'
  <2>1. NoGrant \in Grants
    BY DEF NoGrant, Grants
  <2> QED BY <1>1, <1>2, <1>4, <2>1 DEF PermissionInv, GrantsTyped
<1>6. ASSUME NEW e \in Drives, grant'[e].dev # 0
      PROVE  /\ e = d /\ Granted(d).dev = dev /\ grant'[e] = Granted(d) /\ d # None
             /\ Desired /\ Selected(config, d, Known)
  BY <1>1, <1>6, SourcesAssumption DEF NoGrant
<1>7. Single'
  <2>1. ASSUME NEW e \in Drives, grant'[e].dev # 0
        PROVE  e = job'.cand
    BY <1>1, <1>6, <2>1 DEF Permitted
  <2>2. ASSUME NEW e \in Drives, data[e].on, pc' # "stop"
        PROVE  e = job'.cand
    BY <1>1, <1>2, <2>2 DEF PermissionInv, Single
  <2> QED BY <1>2, <2>1, <2>2 DEF Single
<1>8. Remembered'
  BY <1>1, <1>2 DEF PermissionInv, Remembered, Unplanned
<1>9. job'.cand \in Manual => job'.cand \in Drives /\ grant'[job'.cand].dev # 0
  BY <1>1, <1>4, SourcesAssumption DEF Permitted, Manual, Inv, SettingsTyped, Configurations, Preferences
<1>10. Licensed'
  BY <1>2, <1>9 DEF Licensed, Manual
<1>11. Given'
  <2>1. ASSUME NEW e \in Drives, grant'[e].dev # 0
        PROVE  (mounted = e /\ grant'[e].conn = conn) \/ grant'[e].conn \in untold \/ Told(e)
    <3>1. CASE grant'[e] = grant[e]
      BY <2>1, <3>1 DEF PermissionInv, Given
    <3>2. CASE grant'[e] = [dev |-> dev, conn |-> conn]
      BY <1>4, <1>6, <2>1, <3>2
    <3> QED BY <1>4, <1>6, <2>1, <3>1, <3>2
  <2> QED BY <1>2, <2>1 DEF Given, Told
<1>12. Permitting'
  <2>1. ASSUME NEW e \in Drives, data[e].on, e # job'.cand
        PROVE  pc' = "stop"
    BY <1>1, <1>2, <2>1 DEF PermissionInv, Single
  <2>2. job'.cand # None => mounted = job'.cand
    BY <1>1, <1>4
  <2> QED BY <1>2, <1>9, <2>1, <2>2, SourcesAssumption DEF Permitting, Leaving, Manual
<1> QED BY <1>5, <1>7, <1>8, <1>10, <1>11, <1>12 DEF PermissionInv

\* What a stream has not told before it is stopped is told by the catalog, or not at all.
LEMMA StopPermits ==
  ASSUME Inv, PermissionInv, Stop
  PROVE  PermissionInv'
<1> USE DEF Stop, Go, settings, index, manager, approval
<1>1. /\ pc = "stop" /\ pc' = "prepare" /\ Plan = job.cand /\ Plan' = job.cand /\ job' = job
      /\ UNCHANGED <<config, mounted, dev, conn, grant, last, vol, note, signals>>
      /\ untold \subseteq untold'
  BY DEF Plan, Unplanned
<1>2. \A d \in Drives : data'[d].on => data[d].on /\ d = job.cand /\ ~Removed(d)
  BY DEF Removed, NoStream
<1>3. \A d \in Drives : Told(d) => Told(d)' \/ Removed(d)
  BY DEF Told
<1>4. \A d \in Drives : Told(d) => Told(d)' \/ grant[d].conn \in untold'
  BY DEF Told
<1> HIDE DEF Stop
<1>5. GrantsTyped'
  BY <1>1 DEF PermissionInv, GrantsTyped
<1>6. Single' /\ Remembered' /\ Licensed'
  BY <1>1, <1>2 DEF PermissionInv, Single, Remembered, Licensed, Unplanned, Manual
<1>7. Given'
  BY <1>1, <1>4 DEF PermissionInv, Given
<1>8. Permitting'
  BY <1>1, <1>2, <1>3 DEF PermissionInv, Permitting, Leaving, Manual
<1> QED BY <1>5, <1>6, <1>7, <1>8 DEF PermissionInv

LEMMA PreparePermits ==
  ASSUME Inv, PermissionInv, Prepare \/ Boot \/ Seed
  PROVE  PermissionInv'
<1>1. /\ pc \in {"prepare", "boot", "seed"} /\ pc' \in {"boot", "start", "finish"}
      /\ pc' = "boot" <=> pc = "prepare"
      /\ pc' = "start" => pc = "boot"
      /\ Plan = job.cand /\ Plan' = job.cand /\ job' = job
      /\ UNCHANGED <<config, mounted, dev, conn, untold, grant, last, data, gone, note, signals>>
  BY DEF Prepare, Boot, Seed, Go, settings, environment, streams, approval, manager, Plan, Unplanned
<1>2. pc' = "finish" /\ job.cand # None => vol'[job.cand].there
  <2>1. pc' = "finish" /\ job.cand # None => job.cand \in Drives /\ vol[job.cand].there
    BY <1>1 DEF Inv, Alone, LaneTyped, Jobs
  <2>2. pc' = "finish" => ~Prepare
    BY DEF Prepare, Go
  <2> QED BY <2>1, <2>2, OthersKeep DEF Next, Lane
<1>3. GrantsTyped'
  BY <1>1 DEF PermissionInv, GrantsTyped
<1>4. Single' /\ Remembered'
  BY <1>1, <1>2 DEF PermissionInv, Single, Remembered, Unplanned
<1>5. Licensed'
  BY <1>1 DEF PermissionInv, Licensed, Manual
<1>6. Given'
  BY <1>1 DEF PermissionInv, Given, Told
<1>7. Permitting'
  BY <1>1 DEF PermissionInv, Permitting, Leaving, Told, Manual
<1> QED BY <1>3, <1>4, <1>5, <1>6, <1>7 DEF PermissionInv

LEMMA StartPermits ==
  ASSUME Inv, PermissionInv, Start
  PROVE  PermissionInv'
<1>1. /\ pc = "start" /\ pc' \in {"seed", "finish"} /\ Plan = job.cand /\ Plan' = job.cand /\ job' = job
      /\ UNCHANGED <<config, mounted, dev, conn, untold, grant, last, gone, note, signals>>
  BY DEF Start, Go, settings, environment, approval, Plan, Unplanned
<1>2. job.cand \in Drives /\ vol[job.cand].there /\ vol'[job.cand].there
  <2>1. job.cand \in Drives /\ vol[job.cand].there
    BY <1>1 DEF Inv, Alone, LaneTyped, Jobs
  <2>2. ~Prepare
    BY <1>1 DEF Prepare
  <2> QED BY <2>1, <2>2, OthersKeep DEF Next, Lane
<1>3. \A d \in Drives : data'[d].on => data[d].on \/ (d = job.cand /\ mounted = d)
  <2>1. data' = data \/ (Here /\ \E s : data' = [data EXCEPT ![job.cand] = s])
    BY DEF Start
  <2> QED BY <2>1 DEF Here, Inv, StreamsTyped
<1>4. GrantsTyped'
  BY <1>1 DEF PermissionInv, GrantsTyped
<1>5. Single' /\ Remembered' /\ Licensed'
  BY <1>1, <1>2, <1>3 DEF PermissionInv, Single, Remembered, Licensed, Unplanned
<1>6. Given'
  BY <1>1 DEF PermissionInv, Given, Told
<1>7. Permitting'
  BY <1>1, <1>3 DEF PermissionInv, Permitting, Leaving, Licensed, Told, Manual
<1> QED BY <1>4, <1>5, <1>6, <1>7 DEF PermissionInv

LEMMA FinishPermits ==
  ASSUME Inv, PermissionInv, Finish
  PROVE  PermissionInv'
<1>1. /\ pc = "finish" /\ pc' = "sleep"
      /\ UNCHANGED <<config, mounted, dev, conn, untold, grant, data, vol, gone, note, signals>>
      /\ last' = IF job.changed THEN LastSignature(job) ELSE last
  BY DEF Finish, Go, Pending, settings, environment, streams, index, approval
<1>2. Plan' = Plan
  BY <1>1 DEF Plan, Unplanned, LastSignature, PermissionInv, Remembered
<1>3. GrantsTyped'
  BY <1>1 DEF PermissionInv, GrantsTyped, Inv, LaneTyped, Jobs, LastSignature, Signatures
<1>4. Single' /\ Remembered' /\ Licensed'
  BY <1>1, <1>2 DEF PermissionInv, Single, Remembered, Licensed, Unplanned
<1>5. Given'
  BY <1>1 DEF PermissionInv, Given, Told
<1>6. Permitting'
  BY <1>1 DEF PermissionInv, Permitting, Leaving, Told, Manual
<1> QED BY <1>3, <1>4, <1>5, <1>6 DEF PermissionInv

----------------------------------------------------------------------------
(* The specification. *)

LEMMA PermissionInit == Init => PermissionInv
<1> SUFFICES ASSUME Init PROVE PermissionInv
  OBVIOUS
<1> USE SourcesAssumption DEF Init
<1>1. GrantsTyped
  BY DEF GrantsTyped, Grants, Signatures, NoGrant, Unknown
<1>2. Single /\ Given /\ Permitting
  BY DEF Single, Given, Permitting, NoGrant, NoStream
<1>3. Remembered /\ Licensed
  BY DEF Remembered, Licensed, Plan, Unplanned, Unknown
<1> QED BY <1>1, <1>2, <1>3 DEF PermissionInv

LEMMA PermissionStep ==
  ASSUME Inv, PermissionInv, [Next]_vars
  PROVE  PermissionInv'
<1>1. CASE Unmount \/ \E d \in Drives : Mount(d) \/ Change(d) \/ Approve(d)
  BY <1>1, UnmountPermits, MountPermits, OutsidePermits
<1>2. CASE Restart \/ \E c \in Configs : Configure(c)
  BY <1>2, StoppedPermits DEF Restart, Configure
<1>3. CASE Callback \/ Foreground
  BY <1>3, CallbackPermits, ForegroundPermits
<1>4. CASE Lane
  BY <1>4, TopPermits, ForegroundPermits, TakePermits, LookPermits, DiscoverPermits, StopPermits,
     PreparePermits, StartPermits, FinishPermits DEF Lane
<1>5. CASE UNCHANGED vars
  <2>1. \A d \in Drives : Told(d)' = Told(d)
    BY <1>5 DEF Told, vars, streams
  <2> QED BY <1>5, <2>1, PlanTyped, Unmoved DEF vars, settings, environment, streams, index, manager
<1> QED BY <1>1, <1>2, <1>3, <1>4, <1>5 DEF Next

\* The permissions, the plans and the streams of the lane agree with the drives that are
\* there, or with what it is still to be told of them.
THEOREM PermissionHolds == Spec => []PermissionInv
<1>1. Init => Inv /\ PermissionInv
  BY InitInv, PermissionInit
<1>2. Inv /\ PermissionInv /\ [Next]_vars => (Inv /\ PermissionInv)'
  BY StepKeeps, PermissionStep
<1> QED BY <1>1, <1>2, PTL DEF Spec

\* When the lane rests, a drive that wants approval is watched only while it is there, by
\* a permission of its present connection or of one whose end no stream could tell of.
THEOREM PermissionsEnd == Spec => []PermissionEnds
<1>1. ASSUME Inv, PermissionInv PROVE PermissionEnds
  <2> SUFFICES ASSUME Quiet, NEW d \in Manual, data[d].on
               PROVE  mounted = d /\ grant[d].conn \in untold \cup {conn}
    BY DEF PermissionEnds
  <2>1. d \in Drives
    BY <1>1 DEF Inv, SettingsTyped, Configurations, Preferences, Manual
  <2>2. ~Told(d) /\ ~Leaving(d)
    BY <2>1 DEF Quiet, Told, Leaving, NoSignals
  <2> QED BY <1>1, <2>1, <2>2 DEF PermissionInv, Permitting, Given
<1> QED BY <1>1, InvHolds, PermissionHolds, PTL
=============================================================================
