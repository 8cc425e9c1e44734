--------------------------- MODULE RenameProtocol ---------------------------
(***************************************************************************)
(* The durable rename protocol of native/src/normalizer.rs, on one         *)
(* directory: an operation moves an entry from its old spelling through a  *)
(* temporary name to its new spelling, guarded by a pending record on disk *)
(* and by the rename journal, and recover() finishes or undoes whatever a  *)
(* crash left behind.  Other applications change the directory between any *)
(* two steps; calls fail; the process and the machine crash.               *)
(*                                                                         *)
(* A step is one durable effect of the code together with the reads that   *)
(* decide it.  A directory entry carries the identity the code compares,   *)
(* (device, inode), as an object and a version: on a volume with unstable  *)
(* identities a rename or an attribute change may give the same object     *)
(* another version.  The hidden temporary name is used by this program     *)
(* only: others may remove what is there but do not create it.             *)
(***************************************************************************)
EXTENDS Naturals, Sequences, FiniteSets

CONSTANTS
  Objs,        \* file system objects
  NoObj,       \* the absence of an object
  Volumes,     \* the kinds of volume the directory may be on
  Crashes,     \* subset of {"process", "power"}
  MaxOps, MaxVer, MaxEnv, MaxFaults, MaxCrashes    \* bounds, see README

\* alias: "nfd" and "nfc" reach the same entry; keeps: the spelling given is
\* the spelling stored; excl, guarded: the kernel may perform an exclusive rename,
\* or may answer that it is unsupported; stable: renames and attribute changes
\* keep the identity.
VolumeType == {v \in [alias: BOOLEAN, keeps: BOOLEAN, excl: BOOLEAN,
                      guarded: BOOLEAN, stable: BOOLEAN] :
                 (v.keeps \/ v.alias) /\ (v.excl \/ v.guarded)}

ASSUME ConstantsAssumption ==
  /\ NoObj \notin Objs
  /\ Volumes \subseteq VolumeType
  /\ Crashes \subseteq {"process", "power"}
  /\ {MaxOps, MaxVer, MaxEnv, MaxFaults, MaxCrashes} \subseteq Nat

Spellings == {"nfd", "nfc"}
Names == Spellings \cup {"temp"}
Id == [obj: Objs, ver: Nat]
Empty == [obj |-> NoObj, ver |-> 0]
Entry == Id \cup {Empty}
Directory == [Names -> Entry]

Kinds == {"renamed", "reverted"}
Phases == {"none", "marker-intent", "moving", "committed", "not-started"}
\* The pending record; n is the operation_id (0: no operation), gen numbers
\* the random marker keys the operation has drawn, final is
\* identity_finalized, rollback is recovery_action = "rollback".
OpType == [n: Nat, kind: Kinds, id: Entry, phase: Phases, marker: BOOLEAN,
           gen: Nat, rollback: BOOLEAN, final: BOOLEAN]
NoOp == [n |-> 0, kind |-> "renamed", id |-> Empty, phase |-> "none",
         marker |-> FALSE, gen |-> 0, rollback |-> FALSE, final |-> FALSE]
RecType == [n: Nat, kind: Kinds, id: Entry, marker: BOOLEAN]
NoRec == [n |-> 0, kind |-> "renamed", id |-> Empty, marker |-> FALSE]

Legs == {"stage", "unstage", "place", "unspell", "respell", "finish", "roll"}
Guarded == {"mark", "stamp", "verify", "guarded", "adopt"}
Landings == {"staged", "unstaged", "placed", "finished", "rolled"}
Control == {"down", "recover", "locate", "idle", "check", "intend", "move",
            "complete", "emit", "unmark", "finalize", "reemit", "hold",
            "clear", "cancel", "failed"} \cup Guarded \cup Landings
Tasks == {"complete", "cancel", "abandon", "roll"}
Modes == {"attempt", "handler", "recovery"}

VARIABLES
  vol,       \* the volume, fixed by Init
  dir,       \* the directory as every process sees it
  disk,      \* the directories a power failure may leave behind
  marks,     \* <<object, operation, key>>: extended attributes on objects
  pending,   \* the pending record file; NoOp when it does not exist
  journal,   \* success records, durable in the order they were emitted
  hold,      \* the restore hold saved for the path "nfd"; Empty when none
  pc, leg, task, mode,   \* where the program is
  op,        \* the operation in memory
  seen,      \* the stat an attribute change returned
  rec,       \* the success record at hand
  begun,     \* operations begun
  subject,   \* history: the object each operation was begun for
  env, faults, crashes   \* how much interference there has been

disks == <<dir, disk, marks>>
state == <<pending, journal, hold>>
memory == <<pc, leg, task, mode, op, seen, rec>>
budget == <<env, faults, crashes>>
vars == <<vol, disks, state, memory, begun, subject, budget>>

----------------------------------------------------------------------------
(* The directory. *)

Twins(m, n) == m = n \/ (vol.alias /\ {m, n} \subseteq Spellings)

\* stat_at: the entry a name reaches.
Lookup(d, n) ==
  IF \E m \in Names : Twins(m, n) /\ d[m] # Empty
  THEN d[CHOOSE m \in Names : Twins(m, n) /\ d[m] # Empty]
  ELSE Empty

\* stored_name: the spelling under which an identity is listed.
StoredAs(d, id, n) == id # Empty /\ d[n] = id

Without(d, n) == [m \in Names |-> IF Twins(m, n) THEN Empty ELSE d[m]]
With(d, n, id) ==
  LET slot == IF n = "nfc" /\ ~vol.keeps THEN "nfd" ELSE n
  IN  [Without(d, n) EXCEPT ![slot] = id]

Present(d) == {d[n].obj : n \in Names} \ {NoObj}

\* The identities an object may have after a change on this volume.
Reidentified(id) ==
  {[id EXCEPT !.ver = v] : v \in IF vol.stable THEN {id.ver}
                                 ELSE {id.ver, id.ver + 1} \cap (0..MaxVer)}
Stamped(d, id) == [n \in Names |-> IF d[n].obj = id.obj THEN id ELSE d[n]]

\* A change of the directory that is not yet synced.
Change(d) ==
  /\ dir' = d
  /\ disk' = IF "power" \in Crashes THEN disk \cup {d} ELSE {d}

\* A change of an attribute, synced through the object's descriptor.
Restamp(id) ==
  /\ dir' = Stamped(dir, id)
  /\ disk' = {Stamped(d, id) : d \in disk}

Unsynced == UNCHANGED disks   \* mutant: the fsync is forgotten
Sync == disk' = {dir} /\ UNCHANGED <<dir, marks>>

----------------------------------------------------------------------------
(* The operation. *)

Old(o) == IF o.kind = "renamed" THEN "nfd" ELSE "nfc"
New(o) == IF o.kind = "renamed" THEN "nfc" ELSE "nfd"
Source(l) == CASE l = "stage" -> Old(op)
               [] l \in {"place", "finish", "unstage", "roll", "respell"} -> "temp"
               [] l = "unspell" -> New(op)
Target(l) == CASE l \in {"stage", "unspell"} -> "temp"
               [] l \in {"place", "finish"} -> New(op)
               [] l \in {"unstage", "roll", "respell"} -> Old(op)
After(l) == CASE l = "stage" -> "staged"
              [] l \in {"unstage", "respell"} -> "unstaged"
              [] l = "place" -> "placed"
              [] l = "finish" -> "finished"
              [] l = "roll" -> "rolled"
              [] l = "unspell" -> "move"

Marked(o) == {n \in Names : <<dir[n].obj, o.n, o.gen>> \in marks /\ o.marker}

\* mutant: the first record instead of the latest
RecordedFirst(o) ==
  LET own == {i \in DOMAIN journal : journal[i].n = o.n}
  IN  IF own = {} THEN NoRec
      ELSE journal[CHOOSE i \in own : \A j \in own : i <= j]

\* recorded_success: the latest success record of the operation.
Recorded(o) ==
  LET own == {i \in DOMAIN journal : journal[i].n = o.n}
  IN  IF own = {} THEN NoRec
      ELSE journal[CHOOSE i \in own : \A j \in own : j <= i]

----------------------------------------------------------------------------
(* Step shapes. *)

Goto(l) == pc' = l
Keep == UNCHANGED <<vol, begun, subject, budget>>
Still == UNCHANGED disks
Save(o) == op' = o /\ pending' = o

Forget(l) ==
  /\ pc' = l /\ leg' = "stage" /\ task' = "cancel" /\ mode' = "attempt"
  /\ op' = NoOp /\ seen' = Empty /\ rec' = NoRec

\* An error return: out of an attempt it reaches the handler, out of the
\* handler's cancel or out of recovery it becomes a PendingRecoveryError.
Fail == IF mode = "attempt"
        THEN Goto("failed") /\ UNCHANGED <<leg, task, mode, op, seen, rec>>
        ELSE Forget("down")

FailStep == Fail /\ Still /\ UNCHANGED state

Move(l) == Goto("move") /\ leg' = l /\ UNCHANGED <<task, mode, seen, rec>>

----------------------------------------------------------------------------
(* Beginning an operation: rename_entry_with_context, restore_history_record. *)

Begin(kind, id) ==
  /\ pc = "idle" /\ pending = NoOp /\ begun < MaxOps
  /\ begun' = begun + 1
  /\ subject' = [subject EXCEPT ![begun + 1] = id.obj]
  /\ op' = [NoOp EXCEPT !.n = begun + 1, !.kind = kind, !.id = id]
  /\ Goto("check")
  /\ mode' = "attempt"
  /\ UNCHANGED <<vol, disks, pending, journal, leg, task, seen, rec, budget>>

\* A listed entry needs its normalized spelling; a hold on the same identity
\* suppresses the rename and a hold on another one is dropped.
BeginRename ==
  /\ dir["nfd"] \notin {Empty, hold}
  /\ hold' = Empty
  /\ Begin("renamed", dir["nfd"])

\* A history request gives a recorded rename its old spelling back.  It is
\* refused when a later record concerns the same paths and when the record
\* carries a marker.
BeginRestore ==
  /\ journal # <<>>
  /\ LET r == journal[Len(journal)] IN
     /\ r.kind = "renamed" /\ ~r.marker
     /\ StoredAs(dir, r.id, "nfc")
     /\ Lookup(dir, "nfd") \in {Empty, r.id}
     /\ Begin("reverted", r.id)
  /\ UNCHANGED hold

Check ==
  /\ pc = "check" /\ Keep
  /\ Still /\ UNCHANGED state
  /\ IF /\ Lookup(dir, Old(op)) = op.id
        /\ Lookup(dir, New(op)) \in {Empty, op.id}
     THEN Goto("intend") /\ UNCHANGED <<leg, task, mode, op, seen, rec>>
     ELSE Fail

\* mutant: the entry moves before the pending record is written
IntendInMemory ==
  /\ pc = "intend" /\ Keep
  /\ Move("stage") /\ Still /\ UNCHANGED <<state, op>>

Intend ==
  /\ pc = "intend" /\ Keep
  /\ Save(op) /\ Move("stage")
  /\ Still /\ UNCHANGED <<journal, hold>>

----------------------------------------------------------------------------
(* move_entry: an exclusive rename, or the guarded fallback.               *)

Land ==
  /\ Goto(After(leg))
  /\ leg' = IF leg = "unspell" THEN "respell" ELSE leg
  /\ UNCHANGED <<task, mode, seen, rec>>

\* mutant: rename(2) instead of an exclusive rename
BlockedAtSource == Lookup(dir, Source(leg)) = Empty
Blocked == Lookup(dir, Source(leg)) = Empty \/ Lookup(dir, Target(leg)) # Empty

MoveExclusive ==
  /\ pc = "move" /\ vol.excl /\ Keep
  /\ IF Blocked
     THEN FailStep
     ELSE /\ Change(With(Without(dir, Source(leg)), Target(leg),
                         Lookup(dir, Source(leg))))
          /\ Land
          /\ UNCHANGED <<marks, state, op>>

FallBack ==
  /\ pc = "move" /\ vol.guarded /\ Keep
  /\ Save(IF op.marker THEN op
          ELSE [op EXCEPT !.marker = TRUE, !.gen = @ + 1,
                          !.phase = "marker-intent"])
  /\ Goto("mark")
  /\ Still /\ UNCHANGED <<journal, hold, leg, task, mode, seen, rec>>

Mark ==
  /\ pc = "mark" /\ Keep
  /\ LET e == Lookup(dir, Source(leg))
         key == <<e.obj, op.n, op.gen>>
     IN  \/ /\ key \in marks /\ e # Empty
            /\ Goto("stamp") /\ seen' = e
            /\ Still /\ UNCHANGED <<state, leg, task, mode, op, rec>>
         \/ /\ key \notin marks
            /\ e = op.id /\ e # Empty /\ op.phase = "marker-intent"
            /\ \E id \in Reidentified(e) :
                 /\ Restamp(id) /\ seen' = id
                 /\ marks' = marks \cup {key}
            /\ Goto("stamp") /\ UNCHANGED <<state, leg, task, mode, op, rec>>
         \/ /\ \/ e = Empty
               \/ key \notin marks /\ (e # op.id \/ op.phase # "marker-intent")
            /\ FailStep

Stamp ==
  /\ pc = "stamp" /\ Keep
  /\ Save([op EXCEPT !.id = seen, !.phase = "moving"])
  /\ Goto("verify")
  /\ Still /\ UNCHANGED <<journal, hold, leg, task, mode, seen, rec>>

Verify ==
  /\ pc = "verify" /\ Keep
  /\ Still /\ UNCHANGED state
  /\ IF /\ Lookup(dir, Source(leg)) = op.id
        /\ Lookup(dir, Target(leg)) = Empty
     THEN Goto("guarded") /\ UNCHANGED <<leg, task, mode, op, seen, rec>>
     ELSE Fail

\* The plain rename replaces whatever appeared at the target since Verify.
GuardedRename ==
  /\ pc = "guarded" /\ Keep
  /\ LET e == Lookup(dir, Source(leg)) IN
     \/ e = Empty /\ FailStep
     \/ /\ e # Empty
        /\ \E id \in Reidentified(e) :
             Change(With(Without(dir, Source(leg)), Target(leg), id))
        /\ Goto("adopt")
        /\ UNCHANGED <<marks, state, leg, task, mode, op, seen, rec>>

Adopt ==
  /\ pc = "adopt" /\ Keep
  /\ LET e == Lookup(dir, Target(leg)) IN
     IF <<e.obj, op.n, op.gen>> \in marks
     THEN Save([op EXCEPT !.id = e])
     ELSE UNCHANGED <<op, pending>>
  /\ Land
  /\ Still /\ UNCHANGED <<journal, hold>>

----------------------------------------------------------------------------
(* What follows a move, each time after a sync of the directory.           *)

\* mutant: the identity of what was staged is adopted, not marked for rollback
Adopted(o, staged) == [o EXCEPT !.id = staged, !.marker = FALSE, !.phase = "none"]
RollBack(o, staged) ==
  [o EXCEPT !.id = staged, !.rollback = TRUE, !.marker = FALSE, !.phase = "none"]

Staged ==
  /\ pc = "staged" /\ Keep
  /\ Sync /\ UNCHANGED <<journal, hold>>
  /\ LET e == dir["temp"] IN
     \/ e = Empty /\ Fail /\ UNCHANGED pending
     \/ e = op.id /\ e # Empty /\ Move("place") /\ UNCHANGED <<op, pending>>
     \/ e \notin {Empty, op.id} /\ Save(RollBack(op, e)) /\ Move("unstage")

Unstaged ==
  /\ pc = "unstaged" /\ Keep
  /\ Sync /\ UNCHANGED state
  /\ Goto("cancel") /\ UNCHANGED <<leg, task, mode, op, seen, rec>>

Placed ==
  /\ pc = "placed" /\ Keep
  /\ Sync /\ UNCHANGED state
  /\ \/ /\ StoredAs(dir, op.id, New(op))
        /\ Goto("complete") /\ UNCHANGED <<leg, task, mode, op, seen, rec>>
     \/ /\ ~StoredAs(dir, op.id, New(op)) /\ Lookup(dir, New(op)) = op.id
        /\ Move("unspell") /\ UNCHANGED op
     \/ Lookup(dir, New(op)) # op.id /\ Fail

Finished ==
  /\ pc = "finished" /\ Keep
  /\ Sync /\ UNCHANGED state
  /\ IF StoredAs(dir, op.id, New(op))
     THEN Goto("complete") /\ UNCHANGED <<leg, task, mode, op, seen, rec>>
     ELSE Fail

Rolled ==
  /\ pc = "rolled" /\ Keep
  /\ Sync /\ UNCHANGED state
  /\ Goto(IF op.marker THEN "unmark" ELSE "clear")
  /\ task' = "roll"
  /\ UNCHANGED <<leg, mode, op, seen, rec>>

----------------------------------------------------------------------------
(* complete, cancel and remove_marker.                                     *)

Complete ==
  /\ pc = "complete" /\ Keep
  /\ IF op.marker THEN Save([op EXCEPT !.phase = "committed"])
                  ELSE UNCHANGED <<op, pending>>
  /\ Goto(IF rec = NoRec THEN "emit" ELSE IF op.marker THEN "unmark" ELSE "hold")
  /\ task' = "complete"
  /\ Still /\ UNCHANGED <<journal, hold, leg, mode, seen, rec>>

EmitSuccess ==
  LET r == [n |-> op.n, kind |-> op.kind, id |-> op.id, marker |-> op.marker]
  IN  journal' = Append(journal, r) /\ rec' = r

Emit ==
  /\ pc = "emit" /\ Keep
  /\ EmitSuccess
  /\ Goto(IF op.marker THEN "unmark" ELSE "hold")
  /\ Still /\ UNCHANGED <<pending, hold, leg, task, mode, op, seen>>

Reemit ==
  /\ pc = "reemit" /\ Keep
  /\ EmitSuccess
  /\ Goto("hold")
  /\ Still /\ UNCHANGED <<pending, hold, leg, task, mode, op, seen>>

Unmark ==
  /\ pc = "unmark" /\ Keep
  /\ LET e == CASE task = "complete" -> Lookup(dir, New(op))
                [] task \in {"cancel", "roll"} -> Lookup(dir, Old(op))
                [] task = "abandon" -> op.id
         key == <<e.obj, op.n, op.gen>>
         there == e # Empty /\ e = op.id /\ e.obj \in Present(dir)
     IN  \/ ~there /\ FailStep
         \/ /\ there
            /\ \E id \in IF key \in marks THEN Reidentified(e) ELSE {e} :
                 Restamp(id) /\ seen' = id
            /\ marks' = marks \ {key}
            /\ Goto("finalize")
            /\ UNCHANGED <<state, leg, task, mode, op, rec>>

\* mutant: the identity that removing the marker gave is not recorded
FinalizeOnce ==
  /\ pc = "finalize" /\ Keep
  /\ Save([op EXCEPT !.id = seen, !.final = TRUE])
  /\ Goto(IF task # "complete" THEN "clear" ELSE "hold")
  /\ Still /\ UNCHANGED <<journal, hold, leg, task, mode, seen, rec>>

Finalize ==
  /\ pc = "finalize" /\ Keep
  /\ Save([op EXCEPT !.id = seen, !.final = TRUE])
  /\ Goto(IF task # "complete" THEN "clear"
          ELSE IF rec.id # seen THEN "reemit" ELSE "hold")
  /\ Still /\ UNCHANGED <<journal, hold, leg, task, mode, seen, rec>>

\* persist_restore_hold, for the path the record restored.
Hold ==
  /\ pc = "hold" /\ Keep
  /\ hold' = IF rec.kind = "reverted" THEN rec.id ELSE hold
  /\ Goto("clear")
  /\ Still /\ UNCHANGED <<pending, journal, leg, task, mode, op, seen, rec>>

Clear ==
  /\ pc = "clear" /\ Keep
  /\ pending' = NoOp
  /\ Forget("idle")
  /\ Still /\ UNCHANGED <<journal, hold>>

Cancel ==
  /\ pc = "cancel" /\ Keep
  /\ IF op.marker THEN Save([op EXCEPT !.phase = "not-started"]) /\ Goto("unmark")
                  ELSE UNCHANGED <<op, pending>> /\ Goto("clear")
  /\ task' = "cancel"
  /\ Still /\ UNCHANGED <<journal, hold, leg, mode, seen, rec>>

\* mutant: the temporary name is not looked at
UntouchedNames == {Lookup(dir, n) : n \in Spellings} \subseteq {Empty, op.id}
\* Nothing has moved yet, so the operation can be cancelled.
Untouched ==
  /\ StoredAs(dir, op.id, Old(op)) /\ dir["temp"] = Empty
  /\ Lookup(dir, New(op)) \in {Empty, op.id}

\* The error arm of rename_entry_with_context.  An operation that may have
\* moved something stays pending, and the worker exits on it.
HandleFailure ==
  /\ pc = "failed" /\ Keep
  /\ Still /\ UNCHANGED state
  /\ \/ pending = NoOp /\ Forget("idle")
     \/ /\ pending # NoOp /\ Untouched
        /\ Goto("cancel") /\ mode' = "handler"
        /\ UNCHANGED <<leg, task, op, seen, rec>>
     \/ pending # NoOp /\ ~Untouched /\ Forget("down")

----------------------------------------------------------------------------
(* recover_inner.                                                          *)

Restart ==
  /\ pc = "down" /\ Keep
  /\ Goto("recover") /\ mode' = "recovery"
  /\ Still /\ UNCHANGED <<state, leg, task, op, seen, rec>>

Recovering ==
  /\ pc = "recover" /\ pending # NoOp /\ Keep
  /\ Still /\ UNCHANGED <<journal, hold>>

Onward(l) == Goto(l) /\ UNCHANGED <<leg, mode, seen>>

GiveUp == Forget("down") /\ UNCHANGED pending

UnmarkedId == pending   \* mutant: the identity under the marker is not adopted
WithMark == [pending EXCEPT !.id = dir[CHOOSE n \in Marked(pending) : TRUE]]

Settled == pending.phase = "committed" /\ Recorded(pending) # NoRec

RecoverNothing ==
  /\ pc = "recover" /\ pending = NoOp /\ Keep
  /\ Forget("idle") /\ Still /\ UNCHANGED state

\* mutant: the marker of an operation that never started is left behind
RecoverUnstarted ==
  /\ pending.phase = "not-started"
  /\ Recovering /\ op' = pending /\ Onward("clear")
  /\ UNCHANGED <<pending, rec, task>>

RecoverNotStarted ==
  /\ pending.phase = "not-started"
  /\ Recovering /\ UNCHANGED <<pending, rec>>
  /\ IF Marked(pending) = {}
     THEN op' = pending /\ Onward("clear") /\ UNCHANGED task
     ELSE op' = WithMark /\ Onward("unmark") /\ task' = "abandon"

RecoverCommitted ==
  /\ Settled
  /\ Recovering
  /\ \/ /\ Marked(pending) # {}
        /\ Save(WithMark)
        /\ Onward("complete") /\ rec' = Recorded(pending) /\ UNCHANGED task
     \/ /\ Marked(pending) = {} /\ pending.final
        /\ op' = pending /\ UNCHANGED <<pending, task>>
        /\ rec' = Recorded(pending)
        /\ Onward(IF rec'.id # pending.id THEN "reemit" ELSE "hold")
     \/ /\ Marked(pending) = {} /\ ~pending.final /\ pending.kind = "reverted"
        /\ GiveUp
     \/ /\ Marked(pending) = {} /\ ~pending.final /\ pending.kind = "renamed"
        /\ op' = pending /\ Onward("clear") /\ UNCHANGED <<pending, task, rec>>

RecoverMoved ==
  /\ pending.phase # "not-started" /\ ~Settled
  /\ Recovering
  /\ \/ /\ Marked(pending) # {}
        /\ Save(WithMark)
        /\ Onward("locate") /\ rec' = Recorded(pending) /\ UNCHANGED task
     \/ /\ Marked(pending) = {} /\ pending.phase # "moving"
        /\ op' = pending /\ UNCHANGED <<pending, task>>
        /\ Onward("locate") /\ rec' = Recorded(pending)
     \/ /\ Marked(pending) = {} /\ pending.phase = "moving" /\ dir["temp"] # Empty
        /\ Save(RollBack(pending, dir["temp"]))
        /\ Onward("recover") /\ UNCHANGED <<task, rec>>
     \/ /\ Marked(pending) = {} /\ pending.phase = "moving" /\ dir["temp"] = Empty
        /\ GiveUp

Locating ==
  /\ pc = "locate" /\ Keep
  /\ Still /\ UNCHANGED <<journal, hold>>

Undo ==
  /\ op.rollback /\ Locating /\ UNCHANGED <<pending, op>>
  /\ \/ /\ \/ Lookup(dir, Old(op)) \notin {Empty, op.id}
           \/ dir[Old(op)] = Empty /\ dir["temp"] # op.id
        /\ Fail
     \/ /\ Lookup(dir, Old(op)) \in {Empty, op.id}
        /\ dir[Old(op)] = Empty /\ dir["temp"] = op.id
        /\ Move("roll")
     \/ /\ StoredAs(dir, op.id, Old(op))
        /\ Goto(IF op.marker THEN "unmark" ELSE "clear") /\ task' = "roll"
        /\ UNCHANGED <<leg, mode, seen, rec>>

\* mutant: recovery does not look at the new name
FoundBefore(n) == n # New(op) /\ dir[n] # Empty /\ Lookup(dir, n) = op.id
\* The first of temp, new and old that lists the expected identity.
Found(n) ==
  /\ dir[n] # Empty /\ Lookup(dir, n) = op.id
  /\ n # "temp" => dir["temp"] # op.id
  /\ n = Old(op) => ~(dir[New(op)] # Empty /\ Lookup(dir, New(op)) = op.id)

Redo ==
  /\ ~op.rollback /\ Locating
  /\ \/ /\ \A n \in Names : ~Found(n)
        /\ dir["temp"] # Empty
        /\ Save([op EXCEPT !.id = dir["temp"], !.rollback = TRUE])
        /\ Goto("recover") /\ UNCHANGED <<leg, task, mode, seen, rec>>
     \/ /\ UNCHANGED pending
        /\ \/ \A n \in Names : ~Found(n) /\ dir["temp"] = Empty
           \/ \E n \in Names : Found(n) /\ Lookup(dir, New(op)) \notin {Empty, op.id}
        /\ Fail
     \/ /\ UNCHANGED <<pending, op>>
        /\ Lookup(dir, New(op)) \in {Empty, op.id}
        /\ \/ Found(Old(op)) /\ Goto("cancel") /\ UNCHANGED <<leg, task, mode, seen, rec>>
           \/ Found("temp") /\ Move("finish")
           \/ Found(New(op)) /\ Goto("complete") /\ UNCHANGED <<leg, task, mode, seen, rec>>

----------------------------------------------------------------------------
(* Everyone else.                                                          *)

Quiet == UNCHANGED <<vol, marks, state, begun, subject>>

\* Another application creates, replaces or removes an entry.
EnvPut(n, o) ==
  /\ env < MaxEnv /\ o \notin Present(dir)
  /\ Change(With(dir, n, [obj |-> o, ver |-> 0]))
  /\ env' = env + 1
  /\ Quiet /\ UNCHANGED <<memory, faults, crashes>>

EnvRemove(n) ==
  /\ env < MaxEnv /\ dir[n] # Empty
  /\ Change(Without(dir, n))
  /\ env' = env + 1
  /\ Quiet /\ UNCHANGED <<memory, faults, crashes>>

\* A call of the program returns an error without effect.
Fault ==
  /\ pc \notin {"down", "idle", "failed"} /\ faults < MaxFaults
  /\ faults' = faults + 1
  /\ Fail
  /\ Still /\ UNCHANGED <<vol, state, begun, subject, env, crashes>>

ProcessCrash ==
  /\ "process" \in Crashes /\ crashes < MaxCrashes /\ pc # "down"
  /\ crashes' = crashes + 1
  /\ Forget("down")
  /\ Still /\ UNCHANGED <<vol, state, begun, subject, env, faults>>

\* Unsynced renames may or may not survive a power failure.
PowerFailure ==
  /\ "power" \in Crashes /\ crashes < MaxCrashes
  /\ crashes' = crashes + 1
  /\ Forget("down")
  /\ dir' \in disk /\ disk' = {dir'}
  /\ Quiet /\ UNCHANGED <<env, faults>>

----------------------------------------------------------------------------
Init ==
  /\ vol \in Volumes
  /\ \E o \in Objs :
       dir = [n \in Names |-> IF n = "nfd" THEN [obj |-> o, ver |-> 0] ELSE Empty]
  /\ disk = {dir} /\ marks = {}
  /\ pending = NoOp /\ journal = <<>> /\ hold = Empty
  /\ pc = "idle" /\ leg = "stage" /\ task = "cancel" /\ mode = "attempt"
  /\ op = NoOp /\ seen = Empty /\ rec = NoRec
  /\ begun = 0 /\ subject = [n \in 1..MaxOps |-> NoObj]
  /\ env = 0 /\ faults = 0 /\ crashes = 0

Moving == MoveExclusive \/ FallBack \/ Mark \/ Stamp \/ Verify \/ GuardedRename \/ Adopt
Landing == Staged \/ Unstaged \/ Placed \/ Finished \/ Rolled
Ending == Complete \/ Emit \/ Reemit \/ Unmark \/ Finalize \/ Hold \/ Clear \/ Cancel
Recovery == \/ RecoverNothing \/ RecoverNotStarted \/ RecoverCommitted \/ RecoverMoved
            \/ Undo \/ Redo

\* A step of the program once it has an operation or a record to settle.
Progress == Check \/ Intend \/ Moving \/ Landing \/ Ending \/ HandleFailure
            \/ Restart \/ Recovery
Program == BeginRename \/ BeginRestore \/ Progress

Others == \/ \E n \in Spellings, o \in Objs : EnvPut(n, o)
          \/ \E n \in Names : EnvRemove(n)
          \/ Fault \/ ProcessCrash \/ PowerFailure

Next == Program \/ Others
Spec == Init /\ [][Next]_vars

\* launchd restarts the worker (KeepAlive) and the worker does not stop
\* inside an operation of its own accord.
FairSpec == Spec /\ WF_vars(Progress)

----------------------------------------------------------------------------
(* Properties.                                                             *)

DisksTyped ==
  /\ dir \in Directory /\ disk \in SUBSET Directory
  /\ marks \in SUBSET (Objs \X Nat \X Nat)
StateTyped == pending \in OpType /\ journal \in Seq(RecType) /\ hold \in Entry
MemoryTyped ==
  /\ pc \in Control /\ leg \in Legs /\ task \in Tasks /\ mode \in Modes
  /\ op \in OpType /\ seen \in Entry /\ rec \in RecType
CountsTyped ==
  /\ begun \in 0..MaxOps
  /\ subject \in [1..MaxOps -> Objs \cup {NoObj}]
  /\ \A n \in 1..begun : subject[n] \in Objs
  /\ env \in 0..MaxEnv /\ faults \in 0..MaxFaults /\ crashes \in 0..MaxCrashes
TypeOK == vol \in Volumes /\ DisksTyped /\ StateTyped /\ MemoryTyped /\ CountsTyped

\* A file is never left under the hidden temporary name without the pending
\* record that names it, in any directory a crash or a power failure can
\* leave behind (pending_write before move_entry, sync_fd before
\* pending_clear).
TempBacked == \A d \in disk \cup {dir} : d["temp"] # Empty => pending # NoOp

\* The same for the object of the latest operation, whatever other applications
\* do to the two visible names meanwhile.
SubjectBacked ==
  begun > 0 =>
    \A d \in disk \cup {dir} : d["temp"].obj = subject[begun] => pending # NoOp

\* No step of the program makes an object disappear from the directory: a
\* rename and its rollback never replace another entry.
OthersMoved == env' # env \/ crashes' # crashes
NoOverwrite == [][OthersMoved \/ Present(dir) \subseteq Present(dir')]_vars

\* A rename is recorded once: crashes, retried recovery and the second record
\* of a changed cleanup identity never repeat a record of an operation.
RecordedOnce ==
  \A i, j \in DOMAIN journal : journal[i] = journal[j] => i = j

\* A success record speaks of the object the operation was begun for; one
\* staged in its place by a replacement is rolled back, never recorded.
RecordsSubject ==
  \A i \in DOMAIN journal : journal[i].id.obj = subject[journal[i].n]

\* When nobody else touches the directory, a success record becomes durable
\* only after the new name is: every directory a power failure may leave has
\* the recorded object under the name the record gives it.
RecordedIsPlaced ==
  env = 0 =>
    \A i \in DOMAIN journal :
      journal[i].n = begun =>
        \A d \in disk \cup {dir} :
          d[New([NoOp EXCEPT !.kind = journal[i].kind])].obj = journal[i].id.obj

\* Once a restore has completed, the worker does not rename the restored object
\* again on its own, across crashes, restarts and identity changes, unless
\* somebody touches the directory (persist_restore_hold, restore_hold::suppresses).
Restored ==
  /\ pending = NoOp /\ journal # <<>>
  /\ journal[Len(journal)].kind = "reverted"
RestoreSticks == env = 0 /\ Restored => dir["nfd"] \in {Empty, hold}

\* Operation markers do not outlive the pending record that owns them.
MarkersRetired == env = 0 /\ pending = NoOp => marks = {}

\* What recovery cannot decide: the object is gone, or another one has taken
\* one of the names the operation needs.
Obstructed ==
  \/ \A n \in Names : dir[n].obj # pending.id.obj
  \/ Present(dir) \ {pending.id.obj} # {}

\* The one crash recovery refuses to settle: a restore's marker is gone and
\* the identity its hold needs was never written.
IdentityLost ==
  /\ pending.kind = "reverted" /\ Settled
  /\ ~pending.final /\ Marked(pending) = {}

\* Recovery settles every operation whose object is still at a recorded name
\* (docs/architecture.md, "Recovery can identify an object still at a recorded
\* location"): it stays pending only because somebody moved the object away or
\* put another one into the directory, or because a restore lost its identity.
RecoveryIdentifies ==
  (pending # NoOp) ~> (pending = NoOp \/ Obstructed \/ IdentityLost)

\* A guarded rollback that was cut after its marker was removed: recovery takes
\* it for a move whose marker is missing, or knows a former identity only.
RollbackCut ==
  /\ pending.rollback /\ pending.marker
  /\ Marked(pending) = {} /\ dir["temp"] = Empty

\* A pending operation is settled after finitely many crashes and errors, but
\* for the cases above.
PendingSettles ==
  (pending # NoOp) ~> (pending = NoOp \/ Obstructed \/ IdentityLost \/ RollbackCut)

----------------------------------------------------------------------------
(* The protocol implements OperationLog.                                   *)

Outcome(n) ==
  CASE n > begun -> "none"
    [] n <= begun /\ \E i \in DOMAIN journal : journal[i].n = n -> "done"
    [] OTHER -> IF pending.n = n THEN "open"
                ELSE IF op.n = n THEN "begun" ELSE "dropped"

Log == INSTANCE OperationLog WITH
  outcome <- [n \in 1..MaxOps |-> Outcome(n)], holder <- pending.n

\* Every step of the protocol, its crashes and its recovery is a step of the
\* operation log: one operation at a time, settled once, done only under its
\* own pending record.
ImplementsLog == Log!LogSpec
=============================================================================
