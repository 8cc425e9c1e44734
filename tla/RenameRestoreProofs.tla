------------------------- MODULE RenameRestoreProofs -------------------------
(***************************************************************************)
(* What the rename protocol promises where nobody else touches the         *)
(* directory, proved for every volume: a restored object is not renamed    *)
(* again, a success record is never ahead of the name it speaks of, and    *)
(* nothing is left under the hidden name.                                  *)
(***************************************************************************)
EXTENDS RenameProtocolProofs

----------------------------------------------------------------------------
(* A restore sticks.                                                       *)

Newest == journal[Len(journal)]
\* The records of an operation are of its kind, and the last; one that is cancelled does
\* not go on.
Kindred ==
  /\ ~Unrecorded => journal # <<>> /\ Newest.n = begun
  /\ pending # NoOp => \A i \in DOMAIN journal : journal[i].n = begun => journal[i].kind = pending.kind
  /\ pc \in Active => op.kind = pending.kind
  /\ pc = "hold" => rec.kind = pending.kind
  /\ pc \in Active \ {"unmark", "finalize", "clear", "cancel"} => op.phase # "not-started"

\* The last record of an operation is in the journal.
LEMMA LastWritten ==
  ASSUME Typed, begun # 0, ~Unrecorded
  PROVE  \E i \in DOMAIN journal : journal[i] = Last /\ journal[i].n = begun
<1> DEFINE o == [NoOp EXCEPT !.n = begun]
           own == {i \in DOMAIN journal : journal[i].n = o.n}
<1>1. o.n = begun
  BY DEF NoOp
<1>2. own # {}
  BY <1>1 DEF Unrecorded
<1>3. \E k \in own : \A j \in own : j <= k
  BY <1>2 DEF Typed, Latest
<1>4. (CHOOSE k \in own : \A j \in own : j <= k) \in own
  BY <1>3
<1>5. Last = journal[CHOOSE k \in own : \A j \in own : j <= k]
  BY <1>2 DEF Last, Recorded
<1> QED BY <1>1, <1>4, <1>5

USE DEF Kindred, Retired, Marking, Once, Ready, Lasting, Traced, Recording,
        Settlings, Sound, Records, Numbered, Abandoning, Active, Control, Guarded, Landings, Typed,
        TypeOK, MemoryTyped, StateTyped, Keep, Goto, Forget, Fail, FailStep, Save, Move, Still, Sync,
        disks, state, budget

LEMMA NewestRests == ASSUME UNCHANGED journal PROVE Newest' = Newest
BY DEF Newest

\* The record at hand is of the operation's kind.
LEMMA LastKind ==
  ASSUME Once, Kindred, pending # NoOp, begun # 0, ~Unrecorded PROVE Last.kind = pending.kind
BY LastWritten

\* A step that writes nothing.
LEMMA SameKin ==
  ASSUME Kindred, UNCHANGED <<journal, begun>>,
         pending' = NoOp \/ (pending # NoOp /\ pending'.kind = pending.kind),
         pc' \in Active => op'.kind = pending'.kind,
         pc' = "hold" => rec'.kind = pending'.kind,
         pc' \in Active \ {"unmark", "finalize", "clear", "cancel"} => op'.phase # "not-started"
  PROVE  Kindred'
BY SameJournal, NewestRests

LEMMA RestingKin ==
  ASSUME Once, Kindred,
         \/ Check \/ Verify \/ Unstaged \/ Placed \/ Finished \/ Rolled \/ Restart \/ RecoverNothing
         \/ HandleFailure \/ Undo \/ Fault \/ ProcessCrash \/ PowerFailure
  PROVE  Kindred'
BY SameKin DEF Check, Verify, Unstaged, Placed, Finished, Rolled, Restart, RecoverNothing,
               HandleFailure, Undo, Locating, Fault, ProcessCrash, PowerFailure, Quiet

LEMMA MovingKin ==
  ASSUME Once, Kindred, MoveExclusive \/ Mark \/ GuardedRename \/ Unmark \/ Hold \/ Clear
  PROVE  Kindred'
<1>1. CASE MoveExclusive
  BY <1>1, SameKin DEF MoveExclusive, Land, After, Legs
<1>2. CASE Mark \/ GuardedRename
  BY <1>2, SameKin DEF Mark, GuardedRename
<1>3. CASE Unmark
  BY <1>3, SameKin DEF Unmark
<1>4. CASE Hold \/ Clear
  BY <1>4, SameKin DEF Hold, Clear
<1> QED BY <1>1, <1>2, <1>3, <1>4

LEMMA EnvironmentKin ==
  ASSUME Once, Kindred, \/ \E n \in Spellings, o \in Objs : EnvPut(n, o)
                        \/ \E n \in Names : EnvRemove(n)
  PROVE  Kindred'
<1>1. UNCHANGED <<pending, journal, begun, memory>>
  BY DEF EnvPut, EnvRemove, Quiet
<1> QED BY <1>1, SameKin DEF memory

LEMMA BeginKin == ASSUME Once, Kindred, BeginRename \/ BeginRestore PROVE Kindred'
<1>1. UNCHANGED <<journal, pending>> /\ pending = NoOp /\ begun' = begun + 1 /\ pc' = "check"
  BY DEF BeginRename, BeginRestore, Begin
<1>2. Unrecorded'
  BY <1>1 DEF Unrecorded, CountsTyped
<1> QED BY <1>1, <1>2

LEMMA IntendKin == ASSUME Once, Retired, Kindred, Intend PROVE Kindred'
<1>1. /\ pc = "intend" /\ UNCHANGED <<journal, begun, op>> /\ pending' = op /\ pc' = "move"
      /\ op.phase = "none" /\ Unrecorded
  BY DEF Intend, Fresh, Unrecorded
<1> QED BY <1>1, SameJournal DEF Unrecorded

LEMMA FallBackKin == ASSUME Once, Retired, Kindred, FallBack PROVE Kindred'
<1>1. pc' = "mark" /\ UNCHANGED <<journal, begun>> /\ pc = "move" /\ pending # NoOp
  BY AtHand DEF FallBack
<1> QED BY <1>1, FallBackMarks, FallBackChanges, SameKin

LEMMA StampKin == ASSUME Once, Kindred, Stamp PROVE Kindred'
<1>1. pc' = "verify" /\ UNCHANGED <<journal, begun>> /\ pc = "stamp" /\ pending # NoOp
  BY AtHand DEF Stamp
<1> QED BY <1>1, StampMarks, StampChanges, SameKin

LEMMA AdoptKin == ASSUME Once, Kindred, Adopt PROVE Kindred'
<1>1. /\ pc = "adopt" /\ UNCHANGED <<journal, begun>> /\ pending # NoOp /\ pc' = After(leg)
      /\ op.phase # "not-started"
  BY AtHand DEF Adopt, Land
<1>2. pc' # "hold"
  BY <1>1 DEF After, Legs
<1> QED BY <1>1, <1>2, AdoptMarks, AdoptChanges, SameKin

LEMMA StagedKin == ASSUME Once, Kindred, Staged PROVE Kindred'
<1>1. pc = "staged" /\ op = pending /\ pending # NoOp /\ UNCHANGED <<journal, begun>>
  BY AtHand DEF Staged
<1>2. CASE Fail /\ UNCHANGED pending
  BY <1>1, <1>2, SameKin
<1>3. CASE Save(RollBack(op, dir["temp"])) /\ pc' = "move"
  <2>1. op \in OpType
    BY AtHand
  <2> QED BY <1>1, <1>3, <2>1, RollBackMarks, SameKin
<1>4. CASE Move("place") /\ UNCHANGED <<op, pending>>
  BY <1>1, <1>4, SameKin
<1> QED BY <1>2, <1>3, <1>4 DEF Staged

LEMMA CompleteKin == ASSUME Once, Kindred, Complete PROVE Kindred'
<1>1. /\ pc = "complete" /\ UNCHANGED <<journal, begun, rec>> /\ pending # NoOp /\ begun # 0
      /\ pc' = IF rec = NoRec THEN "emit" ELSE IF op.marker THEN "unmark" ELSE "hold"
      /\ op = pending /\ op.phase # "not-started"
  BY AtHand DEF Complete
<1>2. pending' = op' /\ op'.kind = op.kind /\ op'.phase # "not-started"
  BY <1>1, CompleteMarks, CompleteChanges DEF Phased
<1>3. rec # NoRec => rec.kind = pending.kind
  <2>1. rec # NoRec => rec = Last /\ ~Unrecorded
    BY <1>1, LastMeans
  <2> QED BY <1>1, <2>1, LastKind
<1> QED BY <1>1, <1>2, <1>3, SameKin

LEMMA CancelKin == ASSUME Once, Kindred, Cancel PROVE Kindred'
<1>1. /\ pc = "cancel" /\ UNCHANGED <<journal, begun>> /\ pending # NoOp /\ pc' \in {"unmark", "clear"}
  BY AtHand DEF Cancel
<1> QED BY <1>1, CancelMarks, CancelChanges, SameKin DEF Phased

\* A record that is written is the newest.
LEMMA EmitKin ==
  ASSUME Once, Kindred, Emit \/ Reemit PROVE Kindred' /\ Newest' = rec' /\ rec'.kind = op.kind
<1>1. /\ pc \in {"emit", "reemit"} /\ EmitSuccess /\ UNCHANGED <<op, pending, begun>>
      /\ pc' \in {"unmark", "hold"}
  BY DEF Emit, Reemit
<1>2. op = pending /\ op.n = begun /\ begun # 0 /\ pending # NoOp
  BY <1>1, AtHand
<1>3. /\ rec'.n = begun /\ journal'[Len(journal) + 1] = rec'
      /\ \A i \in DOMAIN journal' : i \in DOMAIN journal \/ i = Len(journal) + 1
      /\ \A i \in DOMAIN journal : journal'[i] = journal[i]
  BY <1>1, <1>2, Appends
<1>4. rec'.kind = op.kind /\ journal' # <<>> /\ Len(journal') = Len(journal) + 1
  BY <1>1 DEF EmitSuccess
<1>5. Newest' = rec'
  BY <1>3, <1>4 DEF Newest
<1>6. \A i \in DOMAIN journal' : journal'[i].n = begun => journal'[i].kind = pending.kind
  BY <1>2, <1>3, <1>4
<1> QED BY <1>1, <1>2, <1>3, <1>4, <1>5, <1>6

LEMMA FinalizeKin == ASSUME Once, Kindred, Finalize PROVE Kindred'
<1>1. /\ pc = "finalize" /\ UNCHANGED <<journal, begun, rec>> /\ pending # NoOp /\ begun # 0
      /\ pc' \in {"clear", "reemit", "hold"} /\ (pc' # "clear" => task = "complete")
  BY AtHand DEF Finalize
<1>2. pending' = op' /\ op'.kind = op.kind /\ op'.phase = op.phase /\ op.kind = pending.kind
  BY <1>1, FinalizeMarks, FinalizeChanges
<1>3. task = "complete" => rec = Last /\ rec # NoRec /\ op.phase = "committed"
  BY <1>1
<1>4. task = "complete" => rec.kind = pending.kind
  BY <1>1, <1>3, LastMeans, LastKind
<1> QED BY <1>1, <1>2, <1>3, <1>4, SameKin

LEMMA RecoverNotStartedKin == ASSUME Once, Kindred, RecoverNotStarted PROVE Kindred'
<1>1. pending # NoOp /\ UNCHANGED <<pending, journal, begun>>
  BY DEF RecoverNotStarted, Recovering
<1>2. CASE op' = pending /\ pc' = "clear"
  BY <1>1, <1>2, SameKin
<1>3. CASE op' = WithMark /\ pc' = "unmark" /\ Marked(pending) # {}
  BY <1>1, <1>3, WithMarkIs, SameKin
<1> QED BY <1>2, <1>3 DEF RecoverNotStarted, Onward

LEMMA RecoverCommittedKin == ASSUME Once, Kindred, RecoverCommitted PROVE Kindred'
<1>1. /\ pending # NoOp /\ pending.phase = "committed" /\ UNCHANGED <<journal, begun>>
      /\ Recorded(pending) # NoRec
  BY DEF RecoverCommitted, Recovering, Settled
<1>2. begun # 0 /\ Recorded(pending) = Last /\ Last # NoRec /\ ~Unrecorded
  BY <1>1, Unsettled
<1>3. Last.kind = pending.kind
  BY <1>1, <1>2, LastKind
<1>4. CASE Marked(pending) # {} /\ Save(WithMark) /\ pc' = "complete"
  BY <1>1, <1>4, WithMarkIs, WithMarkFields, SameKin
<1>5. CASE op' = pending /\ UNCHANGED pending /\ rec' = Recorded(pending) /\ pc' \in {"reemit", "hold"}
  BY <1>1, <1>2, <1>3, <1>5, SameKin
<1>6. CASE op' = pending /\ UNCHANGED pending /\ pc' = "clear"
  BY <1>1, <1>6, SameKin
<1>7. CASE GiveUp
  BY <1>1, <1>7, SameKin DEF GiveUp
<1> QED BY <1>4, <1>5, <1>6, <1>7 DEF RecoverCommitted, Onward

LEMMA RecoverMovedKin == ASSUME Once, Kindred, RecoverMoved PROVE Kindred'
<1>1. pending # NoOp /\ pending.phase # "not-started" /\ UNCHANGED <<journal, begun>>
  BY DEF RecoverMoved, Recovering
<1>2. CASE Marked(pending) # {} /\ Save(WithMark) /\ pc' = "locate"
  BY <1>1, <1>2, WithMarkIs, WithMarkFields, SameKin
<1>3. CASE op' = pending /\ UNCHANGED pending /\ pc' = "locate"
  BY <1>1, <1>3, SameKin
<1>4. CASE Save(RollBack(pending, dir["temp"])) /\ pc' = "recover"
  <2>1. pending \in OpType
    BY AtHand
  <2> QED BY <1>1, <1>4, <2>1, RollBackMarks, SameKin
<1>5. CASE GiveUp
  BY <1>1, <1>5, SameKin DEF GiveUp
<1> QED BY <1>2, <1>3, <1>4, <1>5 DEF RecoverMoved, Onward

LEMMA RedoKin == ASSUME Once, Kindred, Redo PROVE Kindred'
<1>1. /\ pc = "locate" /\ op = pending /\ pending # NoOp /\ UNCHANGED <<journal, begun>>
      /\ op.phase # "not-started"
  BY AtHand DEF Redo, Locating
<1>2. CASE /\ Save([op EXCEPT !.id = dir["temp"], !.rollback = TRUE])
           /\ Goto("recover") /\ UNCHANGED <<leg, task, mode, seen, rec>>
  BY <1>1, <1>2, RedirectMarks, SameKin
<1>3. CASE UNCHANGED pending /\ Fail
  BY <1>1, <1>3, SameKin
<1>4. CASE UNCHANGED <<pending, op>> /\ pc' \in {"cancel", "move", "complete"}
  BY <1>1, <1>4, SameKin
<1> QED BY <1>2, <1>3, <1>4 DEF Redo

HIDE DEF Kindred, Retired, Marking, Once, Ready, Lasting, Traced, Recording,
        Settlings, Sound, Records, Numbered, Abandoning, Active, Control, Guarded, Landings, Typed,
        TypeOK, MemoryTyped, StateTyped, Keep, Goto, Forget, Fail, FailStep, Save, Move, Still, Sync,
        disks, state, budget

LEMMA InitKin == Init => Kindred
BY DEF Init, Kindred, Unrecorded, Active

LEMMA StutterKin == ASSUME Kindred, UNCHANGED vars PROVE Kindred'
BY SameJournal, NewestRests DEF vars, disks, state, memory, Kindred

LEMMA NextKin == ASSUME Once, Retired, Kindred, Next PROVE Kindred'
<1>1. CASE BeginRename \/ BeginRestore \/ Check \/ Intend
  BY <1>1, BeginKin, RestingKin, IntendKin
<1>2. CASE Moving
  BY <1>2, MovingKin, FallBackKin, StampKin, RestingKin, AdoptKin DEF Moving
<1>3. CASE Landing
  BY <1>3, StagedKin, RestingKin DEF Landing
<1>4. CASE Ending
  BY <1>4, CompleteKin, EmitKin, MovingKin, FinalizeKin, CancelKin DEF Ending
<1>5. CASE HandleFailure \/ Restart \/ Recovery
  BY <1>5, RestingKin, RecoverNotStartedKin, RecoverCommittedKin, RecoverMovedKin, RedoKin
     DEF Recovery
<1>6. CASE Others
  BY <1>6, EnvironmentKin, RestingKin DEF Others
<1> QED BY <1>1, <1>2, <1>3, <1>4, <1>5, <1>6 DEF Next, Program, Progress

Reverted == journal # <<>> /\ Newest.kind = "reverted"
\* The legs of an attempt, which has no record yet.
Attempting ==
  \/ pc \in {"staged", "placed", "unstaged"}
  \/ pc \in {"move"} \cup Guarded /\ leg \in Legs \ {"finish", "roll"}

\* A restored object is nowhere at its old name, or suppressed there.
Returned == \A d \in disk \cup {dir} : d["nfd"] = Empty
Suppressed == \A d \in disk \cup {dir} : d["nfd"] \in {Empty, hold}
Cancelling == pending.phase = "not-started" \/ pc = "cancel"

\* A restore that is recorded is suppressed when it ends, under the identity the object
\* has by then; one that recovery finds undone is at its other name in every directory.
Sticking ==
  /\ Attempting => rec = NoRec
  /\ pc \in {"complete", "emit"} /\ rec = NoRec /\ op.kind = "reverted" => dir["nfd"] # Empty
  /\ pc = "hold" => Uniform(rec.id)
  /\ ~Unrecorded /\ pending # NoOp /\ ~pending.marker /\ ~pending.rollback => Last.id = pending.id
  /\ Reverted =>
       /\ ~Unrecorded /\ ~pending.rollback
       /\ dir["nfc"] # Empty => Returned
       /\ Cancelling => Returned
       /\ pc = "clear" \/ pending = NoOp => Suppressed
Known == Once /\ Retired /\ Kindred /\ Identified /\ Sticking /\ env = 0

LEMMA RevertedRests == ASSUME UNCHANGED journal PROVE Reverted' = Reverted
BY DEF Reverted, Newest

LEMMA UniformMeans ==
  ASSUME NEW e, Uniform(e)
  PROVE  \A d \in disk \cup {dir} : \A n \in Spellings : d[n] \in {Empty, e}
BY DEF Uniform, AreAll, Names

USE DEF Known, Sticking, Attempting, Cancelling, Kindred, Identified, Retired, Marking, Keys, Once,
        Ready, Lasting, Traced, Recording, Settlings, Sound, Records, Numbered, Fresh, Abandoning, Active,
        Control, Guarded, Landings, Typed, TypeOK, MemoryTyped, StateTyped, Keep, Goto, Forget, Fail,
        FailStep, Save, Move, Still, Sync, disks, state, budget, Quieter

\* Where a recorded restore is under way.
LEMMA RevertedKind ==
  ASSUME Known, Reverted
  PROVE  /\ ~Unrecorded /\ ~pending.rollback /\ begun # 0
         /\ pending # NoOp => pending.kind = "reverted"
         /\ pc \in Active => op.kind = "reverted" /\ pending # NoOp
<1>1. journal # <<>> /\ Newest.kind = "reverted" /\ Newest.n = begun /\ ~Unrecorded
  BY DEF Reverted
<1>2. Len(journal) \in DOMAIN journal /\ Newest = journal[Len(journal)]
  BY <1>1 DEF Newest
<1>3. begun # 0
  BY <1>1, <1>2 DEF CountsTyped
<1>4. pending # NoOp => pending.kind = "reverted"
  BY <1>1, <1>2
<1> QED BY <1>1, <1>3, <1>4, AtHand

LEMMA RevertedWhere ==
  ASSUME Known, Reverted
  PROVE  /\ ~Attempting
         /\ pc \in {"move"} \cup Guarded => leg = "finish"
         /\ pc \notin {"check", "intend", "staged", "placed", "unstaged", "rolled"}
         /\ pc \in {"unmark", "finalize"} => task # "roll"
<1>1. ~Unrecorded /\ ~pending.rollback
  BY RevertedKind
<1>2. ~Attempting
  <2>1. Attempting => rec = NoRec /\ Recording
    OBVIOUS
  <2> QED BY <1>1, <2>1
<1>3. pc \in Active => op.rollback = pending.rollback
  BY AtHand
<1>4. pc \in {"move"} \cup Guarded => leg = "finish"
  BY <1>1, <1>2, <1>3 DEF Legs
<1>5. pc \notin {"check", "intend"}
  BY <1>1 DEF Unrecorded
<1>6. pc \notin {"staged", "placed", "unstaged"}
  BY <1>2
<1> QED BY <1>1, <1>2, <1>3, <1>4, <1>5, <1>6

LEMMA RevertedNames ==
  ASSUME NEW o, o.kind = "reverted" PROVE Old(o) = "nfc" /\ New(o) = "nfd"
BY DEF Old, New

\* What quiet steps leave of a directory.
LEMMA QuietDirectories ==
  ASSUME Lone, Quieter, dir' = dir \/ disk' = {dir'}, UNCHANGED hold
  PROVE  /\ Returned => Returned'
         /\ Suppressed => Suppressed'
         /\ (dir["nfc"] # Empty => Returned) => (dir'["nfc"] # Empty => Returned')
<1>1. disk' \cup {dir'} \subseteq disk \cup {dir}
  OBVIOUS
<1>2. (Returned => Returned') /\ (Suppressed => Suppressed')
  BY <1>1 DEF Returned, Suppressed
<1>3. CASE dir' = dir
  BY <1>2, <1>3
<1>4. CASE disk' = {dir'}
  <2>1. PICK n \in Names, o \in Objs : At(dir', n, o)
    BY <1>1 DEF Lone
  <2>2. dir'["nfc"] # Empty => dir'["nfd"] = Empty
    BY <2>1 DEF At, Names, Spellings
  <2> QED BY <1>2, <1>4, <2>2 DEF Returned
<1> QED BY <1>3, <1>4

\* A step that writes no record, gives the object no other place and saves no hold.
LEMMA QuietSticks ==
  ASSUME Known, Quieter, dir' = dir \/ disk' = {dir'}, UNCHANGED <<journal, begun, hold>>,
         \/ pending' = pending
         \/ /\ pending' # NoOp /\ pending'.marker /\ pending'.rollback = pending.rollback
            /\ pending'.phase = "not-started" => Cancelling,
         Attempting' => rec' = NoRec,
         pc' \in {"complete", "emit"} /\ rec' = NoRec /\ op'.kind = "reverted" => dir'["nfd"] # Empty,
         pc' = "hold" => Uniform(rec'.id),
         Reverted /\ pc' = "cancel" => Returned,
         Reverted /\ pc' = "clear" => Suppressed
  PROVE  Sticking'
<1>1. Unrecorded' = Unrecorded /\ Last' = Last /\ Reverted' = Reverted
  BY SameJournal, RevertedRests
<1>2. /\ Returned => Returned'
      /\ Suppressed => Suppressed'
      /\ (dir["nfc"] # Empty => Returned) => (dir'["nfc"] # Empty => Returned')
  BY QuietDirectories
<1>3. pc' = "hold" => Uniform(rec.id)'
  <2>1. \A e : Uniform(e) => AreAll(disk' \cup {dir'}, e)
    BY UniformRests
  <2> QED BY <2>1 DEF Uniform
<1>4. ~Unrecorded' /\ pending' # NoOp /\ ~pending'.marker /\ ~pending'.rollback => Last'.id = pending'.id
  BY <1>1
<1>5. ASSUME Reverted'
      PROVE  /\ ~Unrecorded' /\ ~pending'.rollback
             /\ dir'["nfc"] # Empty => Returned'
             /\ Cancelling' => Returned'
             /\ pc' = "clear" \/ pending' = NoOp => Suppressed'
  BY <1>1, <1>2, <1>5
<1> QED BY <1>3, <1>4, <1>5

LEMMA CheckSticks == ASSUME Known, Check PROVE Sticking'
BY QuietSticks DEF Check

LEMMA VerifySticks == ASSUME Known, Verify PROVE Sticking'
BY QuietSticks DEF Verify

LEMMA UnstagedSticks == ASSUME Known, Unstaged PROVE Sticking'
BY QuietSticks, RevertedWhere DEF Unstaged

LEMMA RolledSticks == ASSUME Known, Rolled PROVE Sticking'
BY QuietSticks, RevertedWhere DEF Rolled

LEMMA RestartSticks == ASSUME Known, Restart \/ RecoverNothing PROVE Sticking'
BY QuietSticks DEF Restart, RecoverNothing

LEMMA FaultSticks == ASSUME Known, Fault PROVE Sticking'
BY QuietSticks DEF Fault

LEMMA CrashSticks == ASSUME Known, ProcessCrash \/ PowerFailure PROVE Sticking'
BY QuietSticks DEF ProcessCrash, PowerFailure, Quiet

LEMMA FailSticks ==
  ASSUME Known, FailStep, UNCHANGED begun PROVE Sticking'
BY QuietSticks

LEMMA PlacedSticks == ASSUME Known, Placed \/ Finished PROVE Sticking'
<1>1. /\ pc \in {"placed", "finished"} /\ UNCHANGED <<journal, begun, hold, pending>> /\ dir' = dir
      /\ disk' = {dir}
  BY DEF Placed, Finished
<1>2. CASE Fail
  BY <1>1, <1>2, QuietSticks
<1>3. CASE pc' = "complete" /\ StoredAs(dir, op.id, New(op)) /\ UNCHANGED op
  BY <1>1, <1>3, QuietSticks, RevertedNames DEF StoredAs
<1>4. CASE pc = "placed" /\ Move("unspell") /\ UNCHANGED op
  BY <1>1, <1>4, QuietSticks
<1> QED BY <1>2, <1>3, <1>4 DEF Placed, Finished

LEMMA HandleFailureSticks == ASSUME Known, HandleFailure PROVE Sticking'
<1>1. /\ pc = "failed" /\ UNCHANGED <<dir, disk, journal, begun, hold, pending>>
  BY DEF HandleFailure
<1>2. CASE Forget("idle") \/ Forget("down")
  BY <1>1, <1>2, QuietSticks
<1>3. CASE pending # NoOp /\ Untouched /\ pc' = "cancel"
  <2>1. ASSUME Reverted PROVE Returned
    <3>1. op = pending /\ op.kind = "reverted"
      BY <1>1, <1>3, <2>1, RevertedKind
    <3>2. dir["nfc"] # Empty
      BY <1>3, <3>1, RevertedNames DEF Untouched, StoredAs
    <3> QED BY <2>1, <3>2
  <2> QED BY <1>1, <1>3, <2>1, QuietSticks
<1> QED BY <1>2, <1>3 DEF HandleFailure

LEMMA IntendSticks == ASSUME Known, Intend PROVE Sticking'
<1>1. /\ pc = "intend" /\ UNCHANGED <<dir, disk, journal, begun, hold, rec>> /\ pc' = "move"
      /\ rec = NoRec /\ Unrecorded /\ ~Reverted
  BY RevertedWhere DEF Intend, Unrecorded
<1>2. Unrecorded' /\ ~Reverted'
  BY <1>1, SameJournal, RevertedRests
<1> QED BY <1>1, <1>2

LEMMA BeginSticks == ASSUME Known, BeginRename \/ BeginRestore PROVE Sticking'
<1>1. /\ UNCHANGED <<journal, pending>> /\ pending = NoOp /\ pc' = "check"
  BY DEF BeginRename, BeginRestore, Begin
<1>2. ~Reverted
  <2>1. CASE BeginRename
    <3>1. Suppressed => dir["nfd"] \in {Empty, hold}
      BY DEF Suppressed
    <3> QED BY <1>1, <2>1, <3>1 DEF BeginRename
  <2>2. CASE BeginRestore
    BY <2>2 DEF BeginRestore, Reverted, Newest
  <2> QED BY <2>1, <2>2
<1>3. ~Reverted'
  BY <1>1, <1>2, RevertedRests
<1> QED BY <1>1, <1>3

\* A move of the object: that of a recorded restore ends at its old name.
LEMMA MovedSticks ==
  ASSUME Known, pc \in {"move", "guarded"}, Lookup(dir, Source(leg)) # Empty,
         NEW e \in Id, e.obj = subject[begun],
         Change(With(Without(dir, Source(leg)), Target(leg), e)),
         UNCHANGED <<vol, journal, begun, subject, hold, pending>>,
         pc' \in Landings \cup {"move", "adopt"},
         Attempting' => rec' = NoRec
  PROVE  Sticking'
<1>1. begun # 0 /\ op = pending /\ pending # NoOp /\ Source(leg) \in Names /\ Target(leg) \in Names
  BY AtHand, LegTypes
<1>2. Lone' /\ (Target(leg) \in {"temp", "nfd"} => dir'[Target(leg)] = e)
  BY <1>1, LoneMoved
<1>3. Unrecorded' = Unrecorded /\ Last' = Last /\ Reverted' = Reverted
  BY SameJournal, RevertedRests
<1>4. ASSUME Reverted PROVE dir'["nfc"] = Empty
  <2>1. leg = "finish" /\ op.kind = "reverted"
    BY <1>1, <1>4, RevertedWhere, RevertedKind
  <2>2. Target(leg) = "nfd"
    BY <2>1, RevertedNames DEF Target
  <2>3. dir'["nfd"] # Empty
    BY <1>2, <2>2, ConstantsAssumption DEF Id, Empty
  <2>4. PICK n \in Names, o \in Objs : At(dir', n, o)
    BY <1>2 DEF Lone
  <2> QED BY <2>3, <2>4 DEF At, Names, Spellings
<1>5. ~Cancelling'
  BY <1>1
<1> QED BY <1>1, <1>3, <1>4, <1>5

LEMMA MoveExclusiveSticks == ASSUME Known, MoveExclusive PROVE Sticking'
<1>1. /\ UNCHANGED <<vol, pending, journal, hold, begun, subject>> /\ pc = "move" /\ begun # 0
      /\ Source(leg) \in Names
  BY AtHand, LegTypes DEF MoveExclusive
<1>2. CASE FailStep
  BY <1>1, <1>2, FailSticks
<1>3. CASE ~FailStep
  <2> DEFINE e == Lookup(dir, Source(leg))
  <2>1. /\ e # Empty /\ pc' = After(leg) /\ rec' = rec
        /\ leg' = IF leg = "unspell" THEN "respell" ELSE leg
        /\ Change(With(Without(dir, Source(leg)), Target(leg), e))
    BY <1>3 DEF MoveExclusive, Blocked, Land
  <2>2. e \in Id /\ e.obj = subject[begun]
    BY <1>1, <2>1, LoneEntry
  <2>3. pc' \in Landings \cup {"move", "adopt"} /\ (Attempting' => rec' = NoRec)
    BY <1>1, <2>1 DEF After, Legs
  <2> HIDE DEF e
  <2> QED BY <1>1, <2>1, <2>2, <2>3, MovedSticks DEF e
<1> QED BY <1>2, <1>3

LEMMA GuardedRenameSticks == ASSUME Known, GuardedRename PROVE Sticking'
<1>1. /\ UNCHANGED <<vol, pending, journal, hold, begun, subject>> /\ pc = "guarded" /\ begun # 0
      /\ Source(leg) \in Names
  BY AtHand, LegTypes DEF GuardedRename
<1>2. CASE FailStep
  BY <1>1, <1>2, FailSticks
<1>3. CASE ~FailStep
  <2> DEFINE e == Lookup(dir, Source(leg))
  <2>1. PICK i \in Reidentified(e) :
          e # Empty /\ Change(With(Without(dir, Source(leg)), Target(leg), i))
    BY <1>3 DEF GuardedRename
  <2>2. e \in Id /\ e.obj = subject[begun]
    BY <1>1, <2>1, LoneEntry
  <2>3. i \in Id /\ i.obj = subject[begun]
    BY <2>2, ReidentifiedType
  <2>4. pc' = "adopt" /\ UNCHANGED <<leg, rec>>
    BY <1>3 DEF GuardedRename
  <2>5. Attempting' => rec' = NoRec
    BY <1>1, <2>4
  <2> QED BY <1>1, <2>1, <2>3, <2>4, <2>5, MovedSticks
<1> QED BY <1>2, <1>3

\* A new identity leaves the object where it is.
LEMMA StampedEmpty ==
  ASSUME NEW i \in Id, NEW d \in Directory, NEW n \in Names
  PROVE  Stamped(d, i)[n] = Empty <=> d[n] = Empty
<1>1. i.obj # NoObj /\ i # Empty
  BY ConstantsAssumption DEF Id, Empty
<1> QED BY <1>1 DEF Stamped, Empty

LEMMA RestampSticks ==
  ASSUME Known, NEW i \in Id, Restamp(i), UNCHANGED <<journal, begun, hold, pending>>,
         pending # NoOp, pc' \in {"stamp", "finalize"}, Attempting' => rec' = NoRec
  PROVE  Sticking'
<1>1. Unrecorded' = Unrecorded /\ Last' = Last /\ Reverted' = Reverted
  BY SameJournal, RevertedRests
<1>2. \A d \in disk \cup {dir} : \A n \in Names : Stamped(d, i)[n] = Empty <=> d[n] = Empty
  BY StampedEmpty DEF DisksTyped
<1>3. (Returned => Returned') /\ (dir'["nfc"] # Empty => dir["nfc"] # Empty)
  BY <1>2 DEF Restamp, Returned, Names, Spellings
<1> QED BY <1>1, <1>3

LEMMA MarkSticks == ASSUME Known, Mark PROVE Sticking'
<1> DEFINE e == Lookup(dir, Source(leg))
<1>1. /\ pc = "mark" /\ UNCHANGED <<vol, pending, journal, hold, begun, subject>> /\ begun # 0
      /\ Source(leg) \in Names /\ pending # NoOp
  BY AtHand, LegTypes DEF Mark
<1>2. CASE FailStep
  BY <1>1, <1>2, FailSticks
<1>3. CASE UNCHANGED disks /\ pc' = "stamp" /\ UNCHANGED <<leg, rec>>
  BY <1>1, <1>3, QuietSticks
<1>4. CASE /\ e # Empty /\ \E i \in Reidentified(e) : Restamp(i)
           /\ pc' = "stamp" /\ UNCHANGED <<leg, rec>>
  <2>1. \E i \in Id : Restamp(i)
    BY <1>1, <1>4, LoneEntry, ReidentifiedType
  <2>2. Attempting' => rec' = NoRec
    BY <1>1, <1>4
  <2> QED BY <1>1, <1>4, <2>1, <2>2, RestampSticks
<1> QED BY <1>2, <1>3, <1>4 DEF Mark

LEMMA UnmarkSticks == ASSUME Known, Unmark PROVE Sticking'
<1>1. /\ pc = "unmark" /\ UNCHANGED <<pending, journal, hold, begun>> /\ pending # NoOp
  BY AtHand DEF Unmark
<1>2. CASE FailStep
  BY <1>1, <1>2, FailSticks
<1>3. CASE ~FailStep
  <2>1. op.id # Empty /\ pc' = "finalize"
    BY <1>3 DEF Unmark
  <2>2. op.id \in Id
    BY <2>1, AtHand, PresentEntry DEF OpType
  <2>3. \E i \in Reidentified(op.id) \cup {op.id} : Restamp(i)
    BY <1>3 DEF Unmark
  <2>4. \E i \in Id : Restamp(i)
    BY <2>2, <2>3, ReidentifiedType
  <2> QED BY <1>1, <2>1, <2>4, RestampSticks
<1> QED BY <1>2, <1>3

LEMMA FallBackSticks == ASSUME Known, FallBack PROVE Sticking'
<1>1. /\ pc = "move" /\ pc' = "mark" /\ UNCHANGED <<dir, disk, journal, begun, hold, leg, rec>>
      /\ pending # NoOp /\ op = pending
  BY AtHand DEF FallBack
<1>2. /\ pending' = op' /\ op'.marker /\ op'.rollback = op.rollback
      /\ op'.phase = "marker-intent" \/ op'.phase = op.phase
  BY FallBackMarks, FallBackChanges
<1>3. pending' # NoOp
  BY <1>2, NoOpMarks
<1>4. Attempting' => rec' = NoRec
  BY <1>1
<1> QED BY <1>1, <1>2, <1>3, <1>4, QuietSticks

LEMMA StampSticks == ASSUME Known, Stamp PROVE Sticking'
<1>1. /\ pc = "stamp" /\ pc' = "verify" /\ UNCHANGED <<dir, disk, journal, begun, hold, leg, rec>>
      /\ op.marker
  BY DEF Stamp
<1>2. pending' = op' /\ op'.marker /\ op'.rollback = pending.rollback /\ op'.phase = "moving"
  BY <1>1, StampMarks, StampChanges
<1>3. pending' # NoOp
  BY <1>2, NoOpMarks
<1>4. Attempting' => rec' = NoRec
  BY <1>1
<1> QED BY <1>1, <1>2, <1>3, <1>4, QuietSticks

LEMMA AdoptSticks == ASSUME Known, Adopt PROVE Sticking'
<1>1. /\ pc = "adopt" /\ UNCHANGED <<dir, disk, journal, begun, hold, rec>> /\ pc' = After(leg)
      /\ leg' = IF leg = "unspell" THEN "respell" ELSE leg
      /\ op.marker
  BY DEF Adopt, Land
<1>2. pending' = op' /\ op'.marker /\ op'.rollback = pending.rollback /\ op'.phase = pending.phase
  BY <1>1, AdoptMarks, AdoptChanges
<1>3. pending' # NoOp
  BY <1>2, NoOpMarks
<1>4. Attempting' => rec' = NoRec
  BY <1>1 DEF After, Legs
<1>5. pc' \notin {"complete", "emit", "hold", "cancel", "clear"}
  BY <1>1 DEF After, Legs
<1> QED BY <1>1, <1>2, <1>3, <1>4, <1>5, QuietSticks

LEMMA StagedSticks == ASSUME Known, Staged PROVE Sticking'
<1>1. /\ pc = "staged" /\ UNCHANGED <<dir, journal, begun, hold>> /\ disk' = {dir} /\ rec = NoRec
      /\ ~Reverted
  BY RevertedWhere DEF Staged
<1>2. CASE Fail /\ UNCHANGED pending
  BY <1>1, <1>2, QuietSticks
<1>3. CASE Move("place") /\ UNCHANGED <<op, pending>>
  BY <1>1, <1>3, QuietSticks
<1>4. CASE Save(RollBack(op, dir["temp"])) /\ Move("unstage")
  <2>1. op \in OpType
    BY AtHand
  <2>2. pending'.rollback
    BY <1>4, <2>1, RollBackMarks
  <2>3. ~Reverted'
    BY <1>1, RevertedRests
  <2> QED BY <1>1, <1>4, <2>2, <2>3
<1> QED BY <1>2, <1>3, <1>4 DEF Staged

LEMMA CancelSticks == ASSUME Known, Cancel PROVE Sticking'
<1>1. /\ pc = "cancel" /\ UNCHANGED <<dir, disk, journal, begun, hold>> /\ pending # NoOp
      /\ pc' = IF op.marker THEN "unmark" ELSE "clear"
  BY AtHand DEF Cancel
<1>2. Phased("not-started")
  BY CancelChanges
<1>3. CASE op.marker
  BY <1>1, <1>2, <1>3, NoOpMarks, QuietSticks DEF Phased
<1>4. CASE ~op.marker
  <2>1. Reverted => Suppressed
    BY <1>1 DEF Returned, Suppressed
  <2> QED BY <1>1, <1>2, <1>4, <2>1, QuietSticks DEF Phased
<1> QED BY <1>3, <1>4

LEMMA UndoSticks == ASSUME Known, Undo PROVE Sticking'
<1>1. /\ pc = "locate" /\ UNCHANGED <<dir, disk, journal, begun, hold, pending>> /\ ~Reverted
  <2>1. pc = "locate" /\ op.rollback /\ op = pending
    BY AtHand DEF Undo, Locating
  <2> QED BY <2>1, RevertedKind DEF Undo, Locating
<1>2. CASE Fail
  BY <1>1, <1>2, QuietSticks
<1>3. CASE Move("roll")
  BY <1>1, <1>3, QuietSticks
<1>4. CASE pc' \in {"unmark", "clear"}
  BY <1>1, <1>4, QuietSticks
<1> QED BY <1>2, <1>3, <1>4 DEF Undo

LEMMA RecoverNotStartedSticks == ASSUME Known, RecoverNotStarted PROVE Sticking'
<1>1. /\ pc' \in {"clear", "unmark"} /\ UNCHANGED <<dir, disk, journal, begun, hold, pending>>
      /\ Cancelling
  BY DEF RecoverNotStarted, Recovering, Onward
<1>2. Reverted => Suppressed
  BY <1>1 DEF Returned, Suppressed
<1> QED BY <1>1, <1>2, QuietSticks

LEMMA ClearSticks == ASSUME Known, Clear PROVE Sticking'
<1>1. /\ pc = "clear" /\ pc' = "idle" /\ pending' = NoOp /\ NoOp.phase = "none" /\ ~NoOp.rollback
      /\ UNCHANGED <<dir, disk, journal, begun, hold>>
  BY DEF Clear, NoOp
<1>2. Unrecorded' = Unrecorded /\ Reverted' = Reverted
  BY <1>1, SameJournal, RevertedRests
<1>3. (Returned => Returned') /\ (Suppressed => Suppressed')
  BY <1>1 DEF Returned, Suppressed
<1> QED BY <1>1, <1>2, <1>3

LEMMA HoldSticks == ASSUME Known, Hold PROVE Sticking'
<1>1. /\ pc = "hold" /\ pc' = "clear" /\ UNCHANGED <<dir, disk, journal, begun, pending>>
      /\ hold' = IF rec.kind = "reverted" THEN rec.id ELSE hold
      /\ pending # NoOp /\ Uniform(rec.id) /\ rec.kind = pending.kind
  BY AtHand DEF Hold
<1>2. Unrecorded' = Unrecorded /\ Last' = Last /\ Reverted' = Reverted
  BY <1>1, SameJournal, RevertedRests
<1>3. Returned => Returned'
  BY <1>1 DEF Returned
<1>4. ASSUME Reverted PROVE Suppressed'
  <2>1. hold' = rec.id
    BY <1>1, <1>4, RevertedKind
  <2> QED BY <1>1, <2>1, UniformMeans DEF Suppressed, Spellings
<1> QED BY <1>1, <1>2, <1>3, <1>4

\* The identity of an operation that has no marker, or that is closed.
LEMMA UnmarkedIdentity ==
  ASSUME Known, pending # NoOp, ~pending.rollback, ~pending.marker PROVE Uniform(pending.id)
OBVIOUS

LEMMA CompleteSticks == ASSUME Known, Complete PROVE Sticking'
<1>1. /\ pc = "complete" /\ UNCHANGED <<dir, disk, journal, begun, hold, rec>> /\ pending # NoOp
      /\ op = pending /\ begun # 0 /\ ~op.rollback
      /\ pc' = IF rec = NoRec THEN "emit" ELSE IF op.marker THEN "unmark" ELSE "hold"
  BY AtHand DEF Complete, Faithful, Forward
<1>2. Phased("committed") /\ op'.kind = op.kind
  BY CompleteChanges, CompleteMarks
<1>3. ASSUME rec # NoRec, ~op.marker PROVE Uniform(rec.id)
  <2>1. rec = Last /\ ~Unrecorded
    BY <1>1, <1>3, LastMeans
  <2>2. Last.id = pending.id
    BY <1>1, <1>3, <2>1
  <2> QED BY <1>1, <1>3, <2>1, <2>2, UnmarkedIdentity
<1>4. pending' = pending
      \/ (pending' # NoOp /\ pending'.marker /\ pending'.rollback = pending.rollback
          /\ pending'.phase = "committed")
  BY <1>1, <1>2, NoOpMarks DEF Phased
<1> QED BY <1>1, <1>2, <1>3, <1>4, QuietSticks

LEMMA EmitSticks == ASSUME Known, Emit \/ Reemit PROVE Sticking'
<1>1. /\ pc \in {"emit", "reemit"} /\ EmitSuccess /\ UNCHANGED <<dir, disk, op, pending, begun, hold>>
      /\ pc' \in {"unmark", "hold"}
      /\ pc = "emit" => pc' = IF op.marker THEN "unmark" ELSE "hold"
  BY DEF Emit, Reemit
<1>2. op = pending /\ op.n = begun /\ begun # 0 /\ pending # NoOp /\ ~op.rollback
  BY <1>1, AtHand DEF Faithful, Forward
<1>3. rec'.id = op.id /\ Last' = rec' /\ ~Unrecorded' /\ Newest' = rec' /\ rec'.kind = op.kind
  BY <1>1, <1>2, Appends, EmitKin
<1>4. pc' = "hold" => Uniform(rec'.id)
  BY <1>1, <1>2, <1>3, UnmarkedIdentity
<1>5. ASSUME Reverted' PROVE dir["nfc"] # Empty => Returned
  <2>1. op.kind = "reverted"
    BY <1>3, <1>5 DEF Reverted
  <2>2. CASE pc = "emit"
    <3>1. dir["nfd"] # Empty
      BY <2>1, <2>2
    <3>2. PICK n \in Names, o \in Objs : At(dir, n, o)
      BY DEF Lone
    <3> QED BY <3>1, <3>2 DEF At, Names, Spellings
  <2>3. CASE pc = "reemit"
    <3>1. ~Unrecorded
      BY <2>3
    <3>2. journal # <<>> /\ Newest.n = begun
      BY <3>1
    <3>3. Newest.kind = pending.kind
      BY <1>2, <3>2 DEF Newest
    <3>4. Reverted
      BY <1>2, <2>1, <3>2, <3>3 DEF Reverted
    <3> QED BY <3>4
  <2> QED BY <1>1, <2>2, <2>3
<1>6. Returned => Returned'
  BY <1>1 DEF Returned
<1>7. ~Cancelling'
  BY <1>1, <1>2
<1>8. Uniform(rec.id)' <=> Uniform(rec'.id)
  BY <1>1 DEF Uniform
<1> QED BY <1>1, <1>2, <1>3, <1>4, <1>5, <1>6, <1>7, <1>8

LEMMA FinalizeSticks == ASSUME Known, Finalize PROVE Sticking'
<1>1. /\ pc = "finalize" /\ UNCHANGED <<dir, disk, journal, begun, hold, rec>>
      /\ pc' = IF task # "complete" THEN "clear" ELSE IF rec.id # seen THEN "reemit" ELSE "hold"
      /\ op.marker
  BY DEF Finalize
<1>2. /\ pending' = op' /\ op'.marker /\ op'.rollback = pending.rollback /\ op'.phase = pending.phase
      /\ op.phase = pending.phase
  BY <1>1, FinalizeChanges, FinalizeMarks, AtHand
<1>3. pending' # NoOp
  BY <1>2, NoOpMarks
<1>4. ASSUME Reverted, pc' = "clear" PROVE Suppressed
  <2>1. task \in {"cancel", "abandon"}
    BY <1>1, <1>4, RevertedWhere DEF Tasks
  <2>2. Cancelling
    BY <1>1, <1>2, <2>1
  <2> QED BY <1>4, <2>2 DEF Returned, Suppressed
<1>5. pc' = "hold" => Uniform(rec'.id)
  BY <1>1
<1> QED BY <1>1, <1>2, <1>3, <1>4, <1>5, QuietSticks

LEMMA RecoverCommittedSticks == ASSUME Known, RecoverCommitted PROVE Sticking'
<1>1. /\ pending # NoOp /\ pending.phase = "committed" /\ UNCHANGED <<dir, disk, journal, begun, hold>>
      /\ Recorded(pending) # NoRec
  BY DEF RecoverCommitted, Recovering, Settled
<1>2. Recorded(pending) = Last /\ ~Unrecorded /\ ~pending.rollback
  BY <1>1, Unsettled
<1>3. CASE Marked(pending) # {} /\ Save(WithMark) /\ pc' = "complete" /\ rec' = Recorded(pending)
  <2>1. pending'.marker /\ pending'.rollback = pending.rollback /\ pending'.phase = pending.phase
    BY <1>1, <1>3, WithMarkIs, WithMarkFields
  <2> QED BY <1>1, <1>3, <2>1, NoOpMarks, QuietSticks
<1>4. CASE /\ pending.final /\ UNCHANGED pending /\ rec' = Recorded(pending)
           /\ pc' = IF rec'.id # pending.id THEN "reemit" ELSE "hold"
  <2>1. Uniform(pending.id)
    BY <1>1, <1>2, <1>4
  <2> QED BY <1>1, <1>4, <2>1, QuietSticks
<1>5. CASE GiveUp
  BY <1>1, <1>5, QuietSticks DEF GiveUp
<1>6. CASE pending.kind = "renamed" /\ pc' = "clear" /\ UNCHANGED pending
  BY <1>1, <1>6, RevertedKind, QuietSticks
<1> QED BY <1>3, <1>4, <1>5, <1>6 DEF RecoverCommitted, Onward

LEMMA RecoverMovedSticks == ASSUME Known, RecoverMoved PROVE Sticking'
<1>1. /\ pending # NoOp /\ pending.phase # "not-started" /\ UNCHANGED <<dir, disk, journal, begun, hold>>
  BY DEF RecoverMoved, Recovering
<1>2. CASE Marked(pending) # {} /\ Save(WithMark) /\ pc' = "locate"
  <2>1. pending'.marker /\ pending'.rollback = pending.rollback /\ pending'.phase = pending.phase
    BY <1>1, <1>2, WithMarkIs, WithMarkFields
  <2> QED BY <1>1, <1>2, <2>1, NoOpMarks, QuietSticks
<1>3. CASE UNCHANGED pending /\ pc' = "locate"
  BY <1>1, <1>3, QuietSticks
<1>4. CASE /\ Marked(pending) = {} /\ pending.phase = "moving"
           /\ Save(RollBack(pending, dir["temp"])) /\ pc' = "recover"
  <2>1. pending \in OpType
    BY AtHand
  <2>2. pending'.rollback
    BY <1>4, <2>1, RollBackMarks
  <2>3. ~Reverted
    BY <1>1, <1>4, Unmarked, RevertedKind
  <2>4. ~Reverted'
    BY <1>1, <2>3, RevertedRests
  <2> QED BY <1>4, <2>2, <2>4
<1>5. CASE GiveUp
  BY <1>1, <1>5, QuietSticks DEF GiveUp
<1> QED BY <1>2, <1>3, <1>4, <1>5 DEF RecoverMoved, Onward

LEMMA RedoSticks == ASSUME Known, Redo PROVE Sticking'
<1>1. /\ pc = "locate" /\ op = pending /\ pending # NoOp /\ ~op.rollback
      /\ UNCHANGED <<dir, disk, journal, begun, hold>>
  BY AtHand DEF Redo, Locating
<1>2. CASE /\ \A n \in Names : ~Found(n)
           /\ Save([op EXCEPT !.id = dir["temp"], !.rollback = TRUE])
           /\ Goto("recover") /\ UNCHANGED <<leg, task, mode, seen, rec>>
  <2>1. pending'.rollback
    BY <1>2, RedirectMarks
  <2>2. ASSUME Reverted PROVE FALSE
    <3>1. op.phase # "committed"
      BY <1>1, <2>2, RevertedKind DEF Faithful, NoRecordOf, Unrecorded
    <3>2. PICK n \in Names : dir[n] = op.id /\ op.id # Empty
      BY <1>1, <3>1
    <3>3. PICK k \in Names, o \in Objs : At(dir, k, o)
      BY DEF Lone
    <3>4. k = n /\ \A m \in Names : m # n => dir[m] = Empty
      BY <3>2, <3>3 DEF At
    <3>5. Lookup(dir, n) = op.id
      BY <3>2, <3>3, <3>4, AtLookup
    <3>6. Old(op) # New(op) /\ Old(op) \in Names /\ New(op) \in Names /\ "temp" \in Names
      BY DEF Old, New, Names, Spellings
    <3>7. Found(n)
      BY <3>2, <3>4, <3>5, <3>6 DEF Found
    <3> QED BY <1>2, <3>7
  <2>3. ~Reverted'
    BY <1>1, <2>2, RevertedRests
  <2> QED BY <1>2, <2>1, <2>3
<1>3. CASE UNCHANGED pending /\ Fail
  BY <1>1, <1>3, QuietSticks
<1>4. CASE UNCHANGED <<pending, op>> /\ Found(Old(op)) /\ pc' = "cancel"
  <2>1. ASSUME Reverted PROVE Returned
    <3>1. dir["nfc"] # Empty
      BY <1>1, <1>4, <2>1, RevertedKind, RevertedNames DEF Found
    <3> QED BY <2>1, <3>1
  <2> QED BY <1>1, <1>4, <2>1, QuietSticks
<1>5. CASE UNCHANGED <<pending, op>> /\ Move("finish")
  BY <1>1, <1>5, QuietSticks
<1>6. CASE UNCHANGED <<pending, op>> /\ Found(New(op)) /\ pc' = "complete"
  <2>1. op'.kind = "reverted" => dir'["nfd"] # Empty
    BY <1>1, <1>6, RevertedNames DEF Found
  <2> QED BY <1>1, <1>6, <2>1, QuietSticks
<1> QED BY <1>2, <1>3, <1>4, <1>5, <1>6 DEF Redo

HIDE DEF Known, Sticking, Attempting, Cancelling, Kindred, Identified, Retired, Marking, Keys, Once,
        Ready, Lasting, Traced, Recording, Settlings, Sound, Records, Numbered, Fresh, Abandoning, Active,
        Control, Guarded, Landings, Typed, TypeOK, MemoryTyped, StateTyped, Keep, Goto, Forget, Fail,
        FailStep, Save, Move, Still, Sync, disks, state, budget, Quieter

LEMMA InitSticks == Init => Sticking
BY DEF Init, Sticking, Attempting, Guarded, Reverted, Unrecorded

LEMMA StutterSticks == ASSUME Sticking, UNCHANGED vars PROVE Sticking'
<1>1. UNCHANGED <<dir, disk, journal, begun, pending, pc, leg, op, rec, hold>>
  BY DEF vars, disks, state, memory
<1>2. Unrecorded' = Unrecorded /\ Last' = Last /\ Reverted' = Reverted
  BY <1>1, SameJournal, RevertedRests
<1>3. Uniform(rec.id)' = Uniform(rec.id) /\ Returned' = Returned /\ Suppressed' = Suppressed
  BY <1>1 DEF Uniform, Returned, Suppressed
<1> QED BY <1>1, <1>2, <1>3 DEF Sticking, Attempting, Cancelling

LEMMA NextSticks == ASSUME Known, Next, env' = 0 PROVE Sticking'
<1>1. CASE BeginRename \/ BeginRestore \/ Check \/ Intend
  BY <1>1, BeginSticks, CheckSticks, IntendSticks
<1>2. CASE Moving
  BY <1>2, MoveExclusiveSticks, FallBackSticks, MarkSticks, StampSticks, VerifySticks,
     GuardedRenameSticks, AdoptSticks DEF Moving
<1>3. CASE Landing
  BY <1>3, StagedSticks, UnstagedSticks, PlacedSticks, RolledSticks DEF Landing
<1>4. CASE Ending
  BY <1>4, CompleteSticks, EmitSticks, UnmarkSticks, FinalizeSticks, HoldSticks, ClearSticks,
     CancelSticks DEF Ending
<1>5. CASE HandleFailure \/ Restart \/ Recovery
  BY <1>5, HandleFailureSticks, RestartSticks, RecoverNotStartedSticks, RecoverCommittedSticks,
     RecoverMovedSticks, UndoSticks, RedoSticks DEF Recovery
<1>6. CASE \/ \E n \in Spellings, o \in Objs : EnvPut(n, o)
           \/ \E n \in Names : EnvRemove(n)
  <2>1. env' = 1
    BY <1>6 DEF EnvPut, EnvRemove, Known
  <2> QED BY <2>1
<1>7. CASE Fault \/ ProcessCrash \/ PowerFailure
  BY <1>7, FaultSticks, CrashSticks
<1> QED BY <1>1, <1>2, <1>3, <1>4, <1>5, <1>6, <1>7 DEF Next, Program, Progress, Others

\* When nobody else touches the directory, a restored object is not renamed again by the
\* worker on its own: when a restore's operation is over, whatever cut it and however recovery
\* settled it, the object is not at the name the worker renames, or the hold names it there.
THEOREM RestoresStick == Spec => []RestoreSticks
<1> DEFINE Stuck == Retired /\ Named /\ Kindred /\ (env = 0 => Sticking)
<1>1. Init => Stuck
  BY InitRetired, InitNamed, InitKin, InitSticks
<1>2. Once /\ Stuck /\ Next => Stuck'
  <2> SUFFICES ASSUME Once, Stuck, Next PROVE Stuck'
    OBVIOUS
  <2>1. Retired' /\ Named' /\ Kindred'
    BY NextRetires, NextNamed, NextKin
  <2>2. env' = 0 => Sticking'
    BY EnvGrows, NextSticks DEF Known, Named, Once
  <2> QED BY <2>1, <2>2
<1>3. Stuck /\ UNCHANGED vars => Stuck'
  BY StutterRetires, StutterNamed, StutterKin, StutterSticks DEF vars, budget
<1>4. Stuck => RestoreSticks
  BY DEF Sticking, Reverted, Newest, Suppressed, RestoreSticks, Restored
<1> HIDE DEF Stuck
<1> QED BY OnceAlways, <1>1, <1>2, <1>3, <1>4, PTL DEF Spec

----------------------------------------------------------------------------
(* A durable success record is never ahead of the durable name.            *)

\* Either the machine never loses power, or no call fails and no process dies: a move cut
\* off before its directory was synced is then never taken for a finished one and undone.
Steady == "power" \notin Crashes \/ ("process" \notin Crashes /\ MaxFaults = 0)

\* On the way to the new name, and there.
Trying == pc \in {"check", "intend", "move"} \cup Guarded \cup Landings
Arriving ==
  pc \in {"complete", "emit", "reemit"} \/ (pc \in {"unmark", "finalize"} /\ task = "complete")

\* Only while a move is to be synced, or the object is hidden, may a power failure bring another
\* directory back; and what is recorded, or is about to be, has arrived.
Placing ==
  /\ "power" \notin Crashes => disk = {dir}
  /\ pc \notin Landings \cup {"adopt"} /\ dir["temp"] = Empty => disk = {dir}
  /\ pc = "adopt" /\ leg = "unspell" => dir["temp"] # Empty
  /\ Trying => Unrecorded
  /\ Arriving => dir[New(op)] # Empty
  /\ \A i \in DOMAIN journal : journal[i].n = begun => dir[New(journal[i])] # Empty
  /\ ~Unrecorded => ~pending.rollback
Firm == Once /\ Retired /\ Kindred /\ Placing /\ env = 0 /\ Steady

LEMMA NewOfKind == ASSUME NEW o, NEW p, o.kind = p.kind PROVE New(o) = New(p) /\ Old(o) = Old(p)
BY DEF New, Old

LEMMA NewNames == ASSUME NEW o PROVE New(o) \in Names \ {"temp"} /\ Old(o) \in Names \ {New(o), "temp"}
BY DEF New, Old, Names, Spellings

USE DEF Firm, Trying, Arriving, Kindred, Retired, Marking, Once, Ready, Traced, Recording, Settlings,
        Sound, Records, Numbered, Fresh, Abandoning, Active, Control, Guarded, Landings, Typed, TypeOK,
        MemoryTyped, StateTyped, Keep, Goto, Forget, Fail, FailStep, Save, Move, Still, Sync,
        disks, state, budget

\* Where the object of a recorded operation is.
LEMMA WhereRecorded ==
  ASSUME Firm, ~Unrecorded
  PROVE  /\ ~Trying /\ ~pending.rollback /\ dir["temp"] = Empty /\ disk = {dir}
         /\ pending # NoOp => dir[New(pending)] # Empty
         /\ begun > 0
<1>1. PICK i \in DOMAIN journal : journal[i].n = begun
  BY DEF Unrecorded
<1>2. ~Trying /\ ~pending.rollback /\ dir[New(journal[i])] # Empty
  BY <1>1 DEF Placing
<1> HIDE DEF Firm
<1>3. \E n \in Names, o \in Objs : At(dir, n, o)
  <2>1. Lone
    BY DEF Firm
  <2> QED BY <2>1, Zenon DEF Lone
<1>4. dir["temp"] = Empty
  BY <1>2, <1>3, NewNames DEF At, Names
<1>5. disk = {dir}
  BY <1>2, <1>4 DEF Firm, Placing
<1>6. pending # NoOp => dir[New(pending)] # Empty
  BY <1>1, <1>2, NewOfKind DEF Firm
<1>7. begun > 0
  BY <1>1 DEF Firm, CountsTyped
<1> QED BY <1>2, <1>4, <1>5, <1>6, <1>7

\* A step that leaves the directory and the journal alone.
LEMMA StillPlaces ==
  ASSUME Firm, dir' = dir, disk' \in {disk, {dir}}, UNCHANGED <<journal, begun>>,
         \/ pc \notin Landings \cup {"adopt"} \/ pc' \in Landings \/ disk' = {dir}
         \/ dir["temp"] # Empty,
         pc' # "adopt",
         Trying' => Unrecorded,
         Arriving' => dir[New(op')] # Empty,
         Unrecorded \/ pending' = NoOp \/ pending'.rollback = pending.rollback
  PROVE  Placing'
<1>1. Unrecorded' = Unrecorded
  BY SameJournal
<1>2. ~Unrecorded' => ~pending'.rollback
  BY <1>1, WhereRecorded DEF NoOp
<1>3. pc' \notin Landings \cup {"adopt"} /\ dir'["temp"] = Empty => disk' = {dir'}
  BY DEF Placing
<1>4. "power" \notin Crashes => disk' = {dir'}
  BY DEF Placing
<1>5. \A i \in DOMAIN journal' : journal'[i].n = begun' => dir'[New(journal'[i])] # Empty
  BY DEF Placing
<1> QED BY <1>1, <1>2, <1>3, <1>4, <1>5 DEF Placing

LEMMA CheckPlaces == ASSUME Firm, Check \/ Verify PROVE Placing'
<1>1. Unrecorded
  BY DEF Placing, Check, Verify
<1> QED BY <1>1, StillPlaces DEF Check, Verify

LEMMA IntendPlaces == ASSUME Firm, Intend \/ FallBack \/ Stamp PROVE Placing'
<1>1. Unrecorded
  BY DEF Placing, Intend, FallBack, Stamp
<1> QED BY <1>1, StillPlaces DEF Intend, FallBack, Stamp

LEMMA RestartPlaces == ASSUME Firm, Restart \/ RecoverNothing \/ HandleFailure PROVE Placing'
BY StillPlaces DEF Restart, RecoverNothing, HandleFailure

LEMMA ClearPlaces == ASSUME Firm, Hold \/ Clear PROVE Placing'
BY StillPlaces DEF Hold, Clear

\* A move: only an unrecorded operation makes one, and it ends under the hidden name unless the
\* directory is synced next.
LEMMA MovedPlaces ==
  ASSUME Firm, pc \in {"move", "guarded"}, Lookup(dir, Source(leg)) # Empty,
         NEW e \in Id, e.obj = subject[begun],
         Change(With(Without(dir, Source(leg)), Target(leg), e)),
         UNCHANGED <<journal, begun, subject>>,
         pc' \in Landings \/ (pc' = "move" /\ leg = "unspell") \/ (pc' = "adopt" /\ leg' = leg)
  PROVE  Placing'
<1>1. begun # 0 /\ Source(leg) \in Names /\ Target(leg) \in Names /\ Unrecorded
  BY AtHand, LegTypes DEF Placing
<1>2. Target(leg) = "temp" => dir'["temp"] # Empty
  <2>1. e # Empty
    BY ConstantsAssumption DEF Id, Empty
  <2>2. Target(leg) = "temp" => dir'["temp"] = e
    BY <1>1, LoneMoved
  <2> QED BY <2>1, <2>2
<1>3. leg = "unspell" => Target(leg) = "temp"
  BY DEF Target
<1>4. Unrecorded'
  BY <1>1, SameJournal
<1>5. "power" \notin Crashes => disk' = {dir'}
  BY DEF Change
<1>6. pc' \notin Landings \cup {"adopt"} => dir'["temp"] # Empty
  BY <1>2, <1>3
<1>7. pc' = "adopt" /\ leg' = "unspell" => dir'["temp"] # Empty
  BY <1>2, <1>3
<1>8. \A i \in DOMAIN journal' : journal'[i].n # begun'
  BY <1>4 DEF Unrecorded
<1> QED BY <1>4, <1>5, <1>6, <1>7, <1>8 DEF Placing

LEMMA MoveExclusivePlaces == ASSUME Firm, MoveExclusive PROVE Placing'
<1>1. /\ UNCHANGED <<vol, pending, journal, begun, subject>> /\ pc = "move" /\ begun # 0
      /\ Source(leg) \in Names
  BY AtHand, LegTypes DEF MoveExclusive
<1>2. CASE FailStep
  BY <1>1, <1>2, StillPlaces
<1>3. CASE ~FailStep
  <2> DEFINE e == Lookup(dir, Source(leg))
  <2>1. /\ e # Empty /\ pc' = After(leg)
        /\ Change(With(Without(dir, Source(leg)), Target(leg), e))
        /\ leg' = IF leg = "unspell" THEN "respell" ELSE leg
    BY <1>3 DEF MoveExclusive, Blocked, Land
  <2>2. e \in Id /\ e.obj = subject[begun]
    BY <1>1, <2>1, LoneEntry
  <2>3. pc' \in Landings \/ (pc' = "move" /\ leg = "unspell")
    BY <1>1, <2>1 DEF After, Legs
  <2> HIDE DEF e
  <2> QED BY <1>1, <2>1, <2>2, <2>3, MovedPlaces DEF e
<1> QED BY <1>2, <1>3

LEMMA GuardedRenamePlaces == ASSUME Firm, GuardedRename PROVE Placing'
<1>1. /\ UNCHANGED <<vol, pending, journal, begun, subject>> /\ pc = "guarded" /\ begun # 0
      /\ Source(leg) \in Names
  BY AtHand, LegTypes DEF GuardedRename
<1>2. CASE FailStep
  BY <1>1, <1>2, StillPlaces
<1>3. CASE ~FailStep
  <2> DEFINE e == Lookup(dir, Source(leg))
  <2>1. PICK i \in Reidentified(e) :
          e # Empty /\ Change(With(Without(dir, Source(leg)), Target(leg), i))
    BY <1>3 DEF GuardedRename
  <2>2. e \in Id /\ e.obj = subject[begun]
    BY <1>1, <2>1, LoneEntry
  <2>3. i \in Id /\ i.obj = subject[begun]
    BY <2>2, ReidentifiedType
  <2>4. pc' = "adopt" /\ UNCHANGED leg
    BY <1>3 DEF GuardedRename
  <2> QED BY <1>1, <2>1, <2>3, <2>4, MovedPlaces
<1> QED BY <1>2, <1>3

\* A new identity leaves the object where it is.
LEMMA RestampPlaces ==
  ASSUME Firm, NEW i \in Id, Restamp(i), UNCHANGED <<journal, begun, pending, op, task>>,
         \/ pc = "mark" /\ pc' = "stamp"
         \/ pc = "unmark" /\ pc' = "finalize"
  PROVE  Placing'
<1>1. Unrecorded' = Unrecorded
  BY SameJournal
<1>2. \A n \in Names : dir'[n] = Empty <=> dir[n] = Empty
  BY StampedEmpty DEF Restamp, DisksTyped
<1>3. disk = {dir} => disk' = {dir'}
  BY DEF Restamp
<1>4. dir'["temp"] = Empty => disk' = {dir'}
  BY <1>2, <1>3 DEF Placing, Names
<1>5. \A k \in DOMAIN journal' : journal'[k].n = begun' => dir'[New(journal'[k])] # Empty
  BY <1>2, NewNames DEF Placing
<1>6. Arriving' => dir'[New(op')] # Empty
  BY <1>2, NewNames DEF Placing
<1>7. Trying' => Unrecorded'
  BY <1>1 DEF Placing
<1>8. ~Unrecorded' => ~pending'.rollback
  BY <1>1 DEF Placing
<1>9. "power" \notin Crashes => disk' = {dir'}
  BY <1>3 DEF Placing
<1> QED BY <1>4, <1>5, <1>6, <1>7, <1>8, <1>9 DEF Placing

LEMMA MarkPlaces == ASSUME Firm, Mark PROVE Placing'
<1> DEFINE e == Lookup(dir, Source(leg))
<1>1. /\ pc = "mark" /\ UNCHANGED <<vol, pending, journal, begun, subject>> /\ begun # 0
      /\ Source(leg) \in Names
  BY AtHand, LegTypes DEF Mark
<1>2. CASE FailStep
  BY <1>1, <1>2, StillPlaces
<1>3. Unrecorded
  BY <1>1 DEF Placing
<1>4. CASE UNCHANGED disks /\ pc' = "stamp"
  BY <1>1, <1>3, <1>4, StillPlaces
<1>5. CASE /\ e # Empty /\ \E i \in Reidentified(e) : Restamp(i)
           /\ pc' = "stamp" /\ UNCHANGED <<op, task>>
  <2>1. \E i \in Id : Restamp(i)
    BY <1>1, <1>5, LoneEntry, ReidentifiedType
  <2> QED BY <1>1, <1>5, <2>1, RestampPlaces
<1> QED BY <1>2, <1>4, <1>5 DEF Mark

LEMMA UnmarkPlaces == ASSUME Firm, Unmark PROVE Placing'
<1>1. pc = "unmark" /\ UNCHANGED <<pending, journal, begun>> /\ pending # NoOp
  BY AtHand DEF Unmark
<1>2. CASE FailStep
  BY <1>1, <1>2, StillPlaces
<1>3. CASE ~FailStep
  <2>1. op.id # Empty /\ pc' = "finalize" /\ UNCHANGED <<op, task>>
    BY <1>3 DEF Unmark
  <2>2. op.id \in Id
    BY <2>1, AtHand, PresentEntry DEF OpType
  <2>3. \E i \in Reidentified(op.id) \cup {op.id} : Restamp(i)
    BY <1>3 DEF Unmark
  <2>4. \E i \in Id : Restamp(i)
    BY <2>2, <2>3, ReidentifiedType
  <2> QED BY <1>1, <2>1, <2>4, RestampPlaces
<1> QED BY <1>2, <1>3

LEMMA AdoptPlaces == ASSUME Firm, Adopt PROVE Placing'
<1>1. /\ pc = "adopt" /\ dir' = dir /\ disk' = disk /\ UNCHANGED <<journal, begun>> /\ Unrecorded
      /\ pc' = After(leg)
  BY DEF Adopt, Land, Placing
<1>2. pc' \in Landings \/ (pc' = "move" /\ leg = "unspell")
  BY <1>1 DEF After, Legs
<1>3. leg = "unspell" => dir["temp"] # Empty
  BY <1>1 DEF Placing
<1> QED BY <1>1, <1>2, <1>3, StillPlaces

LEMMA StagedPlaces == ASSUME Firm, Staged \/ Unstaged \/ Rolled PROVE Placing'
<1>1. Unrecorded
  BY DEF Placing, Staged, Unstaged, Rolled
<1> QED BY <1>1, StillPlaces DEF Staged, Unstaged, Rolled

LEMMA PlacedPlaces == ASSUME Firm, Placed \/ Finished PROVE Placing'
<1>1. /\ pc \in {"placed", "finished"} /\ UNCHANGED <<journal, begun, pending>> /\ dir' = dir
      /\ disk' = {dir} /\ Unrecorded
  BY DEF Placing, Placed, Finished
<1>2. CASE Fail
  BY <1>1, <1>2, StillPlaces
<1>3. CASE pc' = "complete" /\ StoredAs(dir, op.id, New(op)) /\ UNCHANGED op
  BY <1>1, <1>3, StillPlaces DEF StoredAs
<1>4. CASE pc = "placed" /\ Move("unspell") /\ UNCHANGED op
  BY <1>1, <1>4, StillPlaces
<1> QED BY <1>2, <1>3, <1>4 DEF Placed, Finished

LEMMA CompletePlaces == ASSUME Firm, Complete PROVE Placing'
<1>1. /\ pc = "complete" /\ UNCHANGED <<dir, disk, journal, begun>> /\ pc' \in {"emit", "unmark", "hold"}
      /\ dir[New(op)] # Empty /\ op'.kind = op.kind
  BY CompleteMarks DEF Complete, Placing
<1>2. op = pending /\ ~op.rollback
  BY <1>1, AtHand DEF Faithful, Forward
<1>3. pending'.rollback = pending.rollback
  BY <1>2, CompleteChanges DEF Phased
<1>4. dir[New(op')] # Empty
  BY <1>1, NewOfKind
<1> QED BY <1>1, <1>3, <1>4, StillPlaces

LEMMA EmitPlaces == ASSUME Firm, Emit \/ Reemit PROVE Placing'
<1>1. /\ pc \in {"emit", "reemit"} /\ EmitSuccess /\ UNCHANGED <<dir, disk, op, pending, begun, task>>
      /\ pc' \in {"unmark", "hold"}
      /\ dir[New(op)] # Empty
  BY DEF Emit, Reemit, Placing
<1>2. op = pending /\ op.n = begun /\ begun # 0 /\ pending # NoOp /\ ~op.rollback
  BY <1>1, AtHand DEF Faithful, Forward
<1>3. /\ ~Unrecorded' /\ rec'.kind = op.kind
      /\ \A i \in DOMAIN journal' : i \in DOMAIN journal \/ i = Len(journal) + 1
      /\ journal'[Len(journal) + 1] = rec'
      /\ \A i \in DOMAIN journal : journal'[i] = journal[i]
  BY <1>1, <1>2, Appends, EmitKin
<1>4. dir[New(rec')] # Empty
  BY <1>1, <1>3, NewOfKind
<1>5. ASSUME NEW i \in DOMAIN journal', journal'[i].n = begun' PROVE dir'[New(journal'[i])] # Empty
  <2>1. CASE i \in DOMAIN journal
    <3>1. journal'[i] = journal[i] /\ journal[i].n = begun
      BY <1>1, <1>3, <1>5, <2>1
    <3> QED BY <1>1, <2>1, <3>1 DEF Placing
  <2>2. CASE i = Len(journal) + 1
    BY <1>1, <1>3, <1>4, <2>2
  <2> QED BY <1>3, <2>1, <2>2
<1>6. dir'["temp"] = Empty => disk' = {dir'}
  BY <1>1 DEF Placing
<1>7. "power" \notin Crashes => disk' = {dir'}
  BY <1>1 DEF Placing
<1>8. ~Trying' /\ pc' # "adopt"
  BY <1>1
<1> QED BY <1>1, <1>2, <1>5, <1>6, <1>7, <1>8 DEF Placing

LEMMA FinalizePlaces == ASSUME Firm, Finalize PROVE Placing'
<1>1. /\ pc = "finalize" /\ UNCHANGED <<dir, disk, journal, begun, task>>
      /\ pc' \in {"clear", "reemit", "hold"} /\ (pc' = "reemit" => task = "complete")
  BY DEF Finalize
<1>2. /\ pending' = op' /\ op'.rollback = pending.rollback /\ op'.kind = op.kind
  BY <1>1, FinalizeChanges, FinalizeMarks, AtHand
<1>3. pc' = "reemit" => dir[New(op')] # Empty
  BY <1>1, <1>2, NewOfKind DEF Placing
<1> QED BY <1>1, <1>2, <1>3, StillPlaces

LEMMA CancelPlaces == ASSUME Firm, Cancel PROVE Placing'
<1>1. /\ pc = "cancel" /\ UNCHANGED <<dir, disk, journal, begun>> /\ pc' \in {"unmark", "clear"}
      /\ task' = "cancel"
  BY DEF Cancel
<1>2. Phased("not-started")
  BY CancelChanges
<1>3. pending' = pending \/ pending'.rollback = pending.rollback
  BY <1>1, <1>2, AtHand DEF Phased
<1> QED BY <1>1, <1>3, StillPlaces

LEMMA BeginPlaces == ASSUME Firm, BeginRename \/ BeginRestore PROVE Placing'
<1>1. /\ UNCHANGED <<dir, disk, journal, pending>> /\ pending = NoOp /\ begun' = begun + 1
      /\ pc = "idle" /\ pc' = "check"
  BY DEF BeginRename, BeginRestore, Begin
<1>2. Unrecorded'
  BY <1>1 DEF Unrecorded, CountsTyped
<1>3. \A i \in DOMAIN journal' : journal'[i].n # begun'
  BY <1>2 DEF Unrecorded
<1>4. /\ "power" \notin Crashes => disk' = {dir'}
      /\ dir'["temp"] = Empty => disk' = {dir'}
  BY <1>1 DEF Placing
<1> QED BY <1>1, <1>2, <1>3, <1>4 DEF Placing

LEMMA RecoverNotStartedPlaces == ASSUME Firm, RecoverNotStarted PROVE Placing'
<1>1. /\ pc = "recover" /\ pc' \in {"clear", "unmark"} /\ (pc' = "unmark" => task' = "abandon")
      /\ UNCHANGED <<dir, disk, journal, begun, pending>>
  BY DEF RecoverNotStarted, Recovering, Onward
<1> QED BY <1>1, StillPlaces

LEMMA RecoverCommittedPlaces == ASSUME Firm, RecoverCommitted PROVE Placing'
<1>1. /\ pending # NoOp /\ pc = "recover" /\ UNCHANGED <<dir, disk, journal, begun>>
      /\ Recorded(pending) # NoRec
  BY DEF RecoverCommitted, Recovering, Settled
<1>2. ~Unrecorded
  BY <1>1, Unsettled
<1>3. dir[New(pending)] # Empty
  BY <1>1, <1>2, WhereRecorded
<1>4. CASE Marked(pending) # {} /\ Save(WithMark) /\ pc' = "complete"
  <2>1. op'.kind = pending.kind /\ pending' = op'
    BY <1>1, <1>4, WithMarkIs
  <2>2. pending'.rollback = pending.rollback
    BY <1>1, <1>4, WithMarkFields
  <2>3. dir[New(op')] # Empty
    BY <1>3, <2>1, NewOfKind
  <2> QED BY <1>1, <1>4, <2>2, <2>3, StillPlaces
<1>5. CASE op' = pending /\ UNCHANGED pending /\ pc' \in {"reemit", "hold", "clear"}
  BY <1>1, <1>3, <1>5, StillPlaces
<1>6. CASE GiveUp
  BY <1>1, <1>6, StillPlaces DEF GiveUp
<1> QED BY <1>4, <1>5, <1>6 DEF RecoverCommitted, Onward

LEMMA RecoverMovedPlaces == ASSUME Firm, RecoverMoved PROVE Placing'
<1>1. /\ pending # NoOp /\ pc = "recover" /\ UNCHANGED <<dir, disk, journal, begun>>
  BY DEF RecoverMoved, Recovering
<1>2. CASE Marked(pending) # {} /\ Save(WithMark) /\ pc' = "locate"
  <2>1. pending'.rollback = pending.rollback
    BY <1>1, <1>2, WithMarkFields
  <2> QED BY <1>1, <1>2, <2>1, StillPlaces
<1>3. CASE UNCHANGED pending /\ pc' = "locate"
  BY <1>1, <1>3, StillPlaces
<1>4. CASE dir["temp"] # Empty /\ pc' = "recover"
  <2>1. Unrecorded
    BY <1>4, WhereRecorded
  <2> QED BY <1>1, <1>4, <2>1, StillPlaces
<1>5. CASE GiveUp
  BY <1>1, <1>5, StillPlaces DEF GiveUp
<1> QED BY <1>2, <1>3, <1>4, <1>5 DEF RecoverMoved, Onward

LEMMA UndoPlaces == ASSUME Firm, Undo PROVE Placing'
<1>1. /\ pc = "locate" /\ op = pending /\ op.rollback
      /\ UNCHANGED <<dir, disk, journal, begun, pending>>
  BY AtHand DEF Undo, Locating
<1>2. Unrecorded
  BY <1>1, WhereRecorded
<1>3. CASE Fail
  BY <1>1, <1>3, StillPlaces
<1>4. CASE Move("roll")
  BY <1>1, <1>2, <1>4, StillPlaces
<1>5. CASE pc' \in {"unmark", "clear"} /\ task' = "roll"
  BY <1>1, <1>5, StillPlaces
<1> QED BY <1>3, <1>4, <1>5 DEF Undo

LEMMA RedoPlaces == ASSUME Firm, Redo PROVE Placing'
<1>1. pc = "locate" /\ op = pending /\ UNCHANGED <<dir, disk, journal, begun>>
  BY AtHand DEF Redo, Locating
<1>2. dir["temp"] # Empty => Unrecorded
  BY WhereRecorded
<1>3. CASE dir["temp"] # Empty /\ Goto("recover")
  BY <1>1, <1>2, <1>3, StillPlaces
<1>4. CASE UNCHANGED pending /\ (Fail \/ pc' = "cancel")
  BY <1>1, <1>4, StillPlaces
<1>5. CASE UNCHANGED <<pending, op>> /\ Found("temp") /\ Move("finish")
  <2>1. dir["temp"] # Empty
    BY <1>5 DEF Found
  <2> QED BY <1>1, <1>2, <1>5, <2>1, StillPlaces
<1>6. CASE UNCHANGED <<pending, op>> /\ Found(New(op)) /\ pc' = "complete"
  <2>1. dir[New(op')] # Empty
    BY <1>6 DEF Found
  <2> QED BY <1>1, <1>6, <2>1, StillPlaces
<1> QED BY <1>3, <1>4, <1>5, <1>6 DEF Redo

\* What the hypotheses are for: a call that fails, or a process that dies, between a move and
\* the sync of its directory.
LEMMA CutPlaces == ASSUME Firm, Fault \/ ProcessCrash PROVE Placing'
<1>1. /\ UNCHANGED <<dir, disk, journal, begun, pending>>
      /\ pc' \in {"failed", "down"}
  BY DEF Fault, ProcessCrash
<1>2. "power" \notin Crashes
  <2>1. CASE Fault
    <3>1. faults \in 0..MaxFaults /\ faults < MaxFaults
      BY <2>1 DEF Fault, CountsTyped
    <3>2. MaxFaults # 0
      BY <3>1
    <3> QED BY <3>2 DEF Steady
  <2>2. CASE ProcessCrash
    BY <2>2 DEF ProcessCrash, Steady
  <2> QED BY <2>1, <2>2
<1>3. disk' = {dir}
  BY <1>1, <1>2 DEF Placing
<1> QED BY <1>1, <1>3, StillPlaces

LEMMA PowerPlaces == ASSUME Firm, PowerFailure PROVE Placing'
<1>1. /\ "power" \in Crashes /\ dir' \in disk /\ disk' = {dir'} /\ pc' = "down"
      /\ UNCHANGED <<journal, begun, pending>>
  BY DEF PowerFailure, Quiet
<1>2. CASE Unrecorded
  <2>1. Unrecorded'
    BY <1>1, <1>2, SameJournal
  <2>2. \A i \in DOMAIN journal' : journal'[i].n # begun'
    BY <2>1 DEF Unrecorded
  <2> QED BY <1>1, <2>1, <2>2 DEF Placing
<1>3. CASE ~Unrecorded
  <2>1. dir' = dir
    BY <1>1, <1>3, WhereRecorded
  <2> QED BY <1>1, <2>1, StillPlaces
<1> QED BY <1>2, <1>3

HIDE DEF Firm, Trying, Arriving, Kindred, Retired, Marking, Once, Ready, Traced, Recording, Settlings,
        Sound, Records, Numbered, Fresh, Abandoning, Active, Control, Guarded, Landings, Typed, TypeOK,
        MemoryTyped, StateTyped, Keep, Goto, Forget, Fail, FailStep, Save, Move, Still, Sync,
        disks, state, budget

LEMMA InitPlaces == Init => Placing
BY DEF Init, Placing, Trying, Arriving, Guarded, Landings, Unrecorded

LEMMA StutterPlaces == ASSUME Placing, UNCHANGED vars PROVE Placing'
<1>1. UNCHANGED <<dir, disk, journal, begun, pending, pc, leg, task, op>>
  BY DEF vars, disks, state, memory
<1>2. Unrecorded' = Unrecorded
  BY <1>1, SameJournal
<1> QED BY <1>1, <1>2 DEF Placing, Trying, Arriving

LEMMA NextPlaces == ASSUME Firm, Next, env' = 0 PROVE Placing'
<1>1. CASE BeginRename \/ BeginRestore \/ Check \/ Intend
  BY <1>1, BeginPlaces, CheckPlaces, IntendPlaces
<1>2. CASE Moving
  BY <1>2, MoveExclusivePlaces, IntendPlaces, MarkPlaces, CheckPlaces, GuardedRenamePlaces,
     AdoptPlaces DEF Moving
<1>3. CASE Landing
  BY <1>3, StagedPlaces, PlacedPlaces DEF Landing
<1>4. CASE Ending
  BY <1>4, CompletePlaces, EmitPlaces, UnmarkPlaces, FinalizePlaces, ClearPlaces, CancelPlaces
     DEF Ending
<1>5. CASE HandleFailure \/ Restart \/ Recovery
  BY <1>5, RestartPlaces, RecoverNotStartedPlaces, RecoverCommittedPlaces, RecoverMovedPlaces,
     UndoPlaces, RedoPlaces DEF Recovery
<1>6. CASE \/ \E n \in Spellings, o \in Objs : EnvPut(n, o)
           \/ \E n \in Names : EnvRemove(n)
  <2>1. env' = 1
    BY <1>6 DEF EnvPut, EnvRemove, Firm
  <2> QED BY <2>1
<1>7. CASE Fault \/ ProcessCrash \/ PowerFailure
  BY <1>7, CutPlaces, PowerPlaces
<1> QED BY <1>1, <1>2, <1>3, <1>4, <1>5, <1>6, <1>7 DEF Next, Program, Progress, Others

LEMMA PlacedIsRecorded ==
  ASSUME Once, Retired, Placing, env = 0 PROVE RecordedIsPlaced
<1> SUFFICES ASSUME NEW i \in DOMAIN journal, journal[i].n = begun, NEW d \in disk \cup {dir}
             PROVE  d[New([NoOp EXCEPT !.kind = journal[i].kind])].obj = journal[i].id.obj
  BY DEF RecordedIsPlaced
<1>1. dir[New(journal[i])] # Empty /\ ~Trying
  BY DEF Placing, Unrecorded
<1>2. begun > 0 /\ Lone /\ journal[i].id.obj = subject[begun]
  BY DEF Retired, Once, Sound, Records, Numbered, RecordsSubject, Typed, TypeOK, CountsTyped
<1>3. PICK n \in Names : At(dir, n, subject[begun])
  BY <1>2, LoneDirectory
<1>4. n = New(journal[i]) /\ dir["temp"] = Empty
  BY <1>1, <1>3, NewNames DEF At, Names
<1>5. d = dir
  BY <1>1, <1>4 DEF Placing, Trying, Guarded
<1>6. New([NoOp EXCEPT !.kind = journal[i].kind]) = New(journal[i])
  BY DEF New, NoOp
<1> QED BY <1>2, <1>3, <1>4, <1>5, <1>6 DEF At

\* Where nobody else touches the directory, a success record is durable only after the name it
\* speaks of is (sync_fd before the record is emitted): whenever the machine loses power the
\* recorded object is under its recorded name.  It takes one of two hypotheses, since a recovery
\* after the death of the process or a failed call takes a move it finds done for durable.
THEOREM RecordsArePlaced ==
  ASSUME "power" \notin Crashes \/ ("process" \notin Crashes /\ MaxFaults = 0)
  PROVE  Spec => []RecordedIsPlaced
<1> DEFINE Arrived == Retired /\ Kindred /\ (env = 0 => Placing)
<1>1. Init => Arrived
  BY InitRetired, InitKin, InitPlaces
<1>2. Once /\ Arrived /\ Next => Arrived'
  <2> SUFFICES ASSUME Once, Arrived, Next PROVE Arrived'
    OBVIOUS
  <2>1. Retired' /\ Kindred'
    BY NextRetires, NextKin
  <2>2. env' = 0 => Placing'
    BY EnvGrows, NextPlaces DEF Firm, Steady, Once
  <2> QED BY <2>1, <2>2
<1>3. Arrived /\ UNCHANGED vars => Arrived'
  BY StutterRetires, StutterKin, StutterPlaces DEF vars, budget
<1>4. Once /\ Arrived => RecordedIsPlaced
  BY PlacedIsRecorded DEF RecordedIsPlaced
<1> HIDE DEF Arrived
<1> QED BY OnceAlways, <1>1, <1>2, <1>3, <1>4, PTL DEF Spec

----------------------------------------------------------------------------
(* No object is left under the hidden name.                                *)

Unbegun == env = 0 /\ begun = 0 => \A d \in disk \cup {dir} : d["temp"] = Empty

LEMMA NextUnbegun == ASSUME Sound, Unbegun, Next PROVE Unbegun'
<1> SUFFICES ASSUME env' = 0, begun' = 0 PROVE \A d \in disk' \cup {dir'} : d["temp"] = Empty
  BY DEF Unbegun
<1>1. env = 0 /\ begun \in Nat
  BY EnvGrows, ConstantsAssumption DEF Sound, Typed, TypeOK, CountsTyped
<1>2. begun = 0
  <2>1. CASE Program
    <3>1. begun' = begun \/ begun' = begun + 1
      BY <2>1, ProgressKeeps DEF Program, Keep, BeginRename, BeginRestore, Begin
    <3> QED BY <1>1, <3>1
  <2>2. CASE Others
    BY <2>2 DEF Others, EnvPut, EnvRemove, Fault, ProcessCrash, PowerFailure, Quiet
  <2> QED BY <2>1, <2>2 DEF Next
<1>3. pc \notin Active
  BY <1>2 DEF Sound, Records, Numbered
<1>4. \A d \in disk \cup {dir} : d["temp"] = Empty
  BY <1>1, <1>2 DEF Unbegun
<1>5. disk' \cup {dir'} \subseteq disk \cup {dir}
  <2>1. CASE Program
    <3>1. Resting
      BY <1>3, <2>1, ProgramRests
         DEF MoveExclusive, Mark, GuardedRename, Unmark, Active, Control, Guarded
    <3> QED BY <3>1 DEF Resting
  <2>2. CASE Fault \/ ProcessCrash \/ PowerFailure
    BY <2>2 DEF Fault, ProcessCrash, PowerFailure, Still, disks
  <2>3. CASE \/ \E n \in Spellings, o \in Objs : EnvPut(n, o)
             \/ \E n \in Names : EnvRemove(n)
    <3>1. env' = 1
      BY <1>1, <2>3 DEF EnvPut, EnvRemove
    <3> QED BY <3>1
  <2> QED BY <2>1, <2>2, <2>3 DEF Next, Others
<1> QED BY <1>4, <1>5

\* Unless the machine loses power or somebody else touches the directory, nothing at all is under
\* the hidden name without the pending record that names it, whichever calls fail and whenever the
\* process dies (pending_write before move_entry, pending_clear last).
THEOREM HiddenIsBacked ==
  ASSUME "power" \notin Crashes PROVE Spec => [](env = 0 => TempBacked)
<1> DEFINE Begun == Retired /\ Unbegun
<1>1. Init => Begun
  BY InitRetired DEF Init, Unbegun, Names, Spellings
<1>2. Once /\ Begun /\ [Next]_vars => Begun'
  <2>1. Once /\ Begun /\ Next => Begun'
    BY NextRetires, NextUnbegun DEF Once
  <2>2. Begun /\ UNCHANGED vars => Begun'
    BY StutterRetires DEF vars, disks, budget, Unbegun
  <2> QED BY <2>1, <2>2
<1>3. Once /\ Begun /\ SubjectBacked => (env = 0 => TempBacked)
  <2> SUFFICES ASSUME Once, Begun, SubjectBacked, env = 0, NEW d \in disk \cup {dir}, d["temp"] # Empty
               PROVE  pending # NoOp
    BY DEF TempBacked
  <2>1. begun > 0
    BY ConstantsAssumption DEF Unbegun, Once, Sound, Typed, TypeOK, CountsTyped
  <2>2. Lone
    BY DEF Retired
  <2>3. PICK n \in Names : At(d, n, subject[begun])
    BY <2>1, <2>2 DEF Lone
  <2>4. n = "temp"
    BY <2>3 DEF At, Names
  <2> QED BY <2>1, <2>3, <2>4 DEF At, SubjectBacked
<1> HIDE DEF Begun
<1> QED BY OnceAlways, SubjectIsBacked, <1>1, <1>2, <1>3, PTL DEF Spec
=============================================================================
