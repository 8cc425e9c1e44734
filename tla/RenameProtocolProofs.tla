----------------------- MODULE RenameProtocolProofs -----------------------
(***************************************************************************)
(* Proofs about RenameProtocol, for every number of objects and            *)
(* operations, every volume, every crash and every change by others.       *)
(*                                                                         *)
(* What the records say: a success record speaks of the object its         *)
(* operation was begun for, the protocol implements OperationLog, and no   *)
(* record is written twice.                                                *)
(*                                                                         *)
(* What happens to the directory: on volumes that support exclusive        *)
(* renames no step of the program makes an object disappear from it; on    *)
(* every volume, as long as the machine does not lose power, the object of *)
(* an operation is never left under the hidden name without the pending    *)
(* record that brings it back; and where nobody else touches the           *)
(* directory, no marker outlives its operation.                            *)
(***************************************************************************)
EXTENDS RenameProtocol, TLAPS

----------------------------------------------------------------------------
(* The helpers on directories.                                             *)

\* A name reaches an entry or nothing.
LEMMA LookupType ==
  ASSUME NEW d \in Directory, NEW n \in Names
  PROVE  Lookup(d, n) \in Entry
<1>1. CASE \E m \in Names : Twins(m, n) /\ d[m] # Empty
  BY <1>1 DEF Lookup, Directory
<1>2. CASE ~\E m \in Names : Twins(m, n) /\ d[m] # Empty
  BY <1>2 DEF Lookup, Entry
<1> QED BY <1>1, <1>2

\* Removing and putting an entry leave a directory.
LEMMA WithoutType ==
  ASSUME NEW d \in Directory, NEW n \in Names
  PROVE  Without(d, n) \in Directory
BY DEF Without, Directory, Entry

LEMMA WithType ==
  ASSUME NEW d \in Directory, NEW n \in Names, NEW e \in Entry
  PROVE  With(d, n, e) \in Directory
BY WithoutType DEF With, Directory, Names, Spellings

LEMMA StampedType ==
  ASSUME NEW d \in Directory, NEW e \in Entry
  PROVE  Stamped(d, e) \in Directory
BY DEF Stamped, Directory

\* A change of identity keeps the object.
LEMMA ReidentifiedType ==
  ASSUME NEW e \in Id, NEW i \in Reidentified(e)
  PROVE  i \in Id /\ i.obj = e.obj
<1>1. PICK v \in Nat : i = [e EXCEPT !.ver = v]
  BY DEF Reidentified, Id
<1> QED BY <1>1 DEF Id

\* An entry that is there is an identity.
LEMMA PresentEntry ==
  ASSUME NEW e \in Entry, e # Empty
  PROVE  e \in Id /\ e.obj \in Objs
BY DEF Entry, Id, Empty

----------------------------------------------------------------------------
(* The updates of an operation the steps make.                             *)

LEMMA NothingTyped == NoOp \in OpType /\ NoRec \in RecType /\ Empty \in Entry
BY DEF NoOp, NoRec, OpType, RecType, Kinds, Phases, Entry

LEMMA NewOperation ==
  ASSUME NEW n \in Nat, NEW kind \in Kinds, NEW e \in Entry
  PROVE  [NoOp EXCEPT !.n = n, !.kind = kind, !.id = e] \in OpType
<1>1. NoOp \in OpType
  BY NothingTyped
<1> QED BY <1>1 DEF OpType

LEMMA DrawnKey ==
  ASSUME NEW o \in OpType
  PROVE  [o EXCEPT !.marker = TRUE, !.gen = @ + 1, !.phase = "marker-intent"] \in OpType
<1>1. o.gen + 1 \in Nat
  BY DEF OpType
<1> QED BY <1>1 DEF OpType, Phases

LEMMA NewIdentity ==
  ASSUME NEW o \in OpType, NEW e \in Entry
  PROVE  /\ [o EXCEPT !.id = e] \in OpType
         /\ [o EXCEPT !.id = e, !.phase = "moving"] \in OpType
         /\ [o EXCEPT !.id = e, !.final = TRUE] \in OpType
         /\ [o EXCEPT !.id = e, !.rollback = TRUE] \in OpType
         /\ RollBack(o, e) \in OpType
BY DEF OpType, Phases, RollBack

LEMMA NewPhase ==
  ASSUME NEW o \in OpType, NEW p \in Phases
  PROVE  [o EXCEPT !.phase = p] \in OpType
BY DEF OpType

----------------------------------------------------------------------------
(* The step shapes.                                                        *)

\* Where a leg of a move starts, ends and continues.
LEMMA LegTypes ==
  ASSUME leg \in Legs
  PROVE  Source(leg) \in Names /\ Target(leg) \in Names /\ After(leg) \in Control
BY DEF Legs, Source, Target, After, Old, New, Names, Spellings, Control, Landings

LEMMA SpellingTypes ==
  ASSUME NEW o
  PROVE  Old(o) \in Names /\ New(o) \in Names
BY DEF Old, New, Names, Spellings

LEMMA ChangeType ==
  ASSUME DisksTyped, NEW d \in Directory, Change(d), UNCHANGED marks
  PROVE  DisksTyped'
BY DEF DisksTyped, Change

LEMMA RestampType ==
  ASSUME DisksTyped, NEW e \in Entry, Restamp(e)
  PROVE  dir' \in Directory /\ disk' \in SUBSET Directory
BY StampedType DEF DisksTyped, Restamp

LEMMA StillType == ASSUME DisksTyped, Still PROVE DisksTyped'
BY DEF DisksTyped, Still, disks

LEMMA SyncType == ASSUME DisksTyped, Sync PROVE DisksTyped'
BY DEF DisksTyped, Sync

LEMMA ForgetType ==
  ASSUME NEW l \in Control, Forget(l)
  PROVE  MemoryTyped'
BY NothingTyped DEF Forget, MemoryTyped, Legs, Tasks, Modes

LEMMA FailType == ASSUME MemoryTyped, Fail PROVE MemoryTyped'
<1>1. CASE mode = "attempt"
  BY <1>1 DEF Fail, Goto, MemoryTyped, Control
<1>2. CASE mode # "attempt"
  BY <1>2, ForgetType DEF Fail, Control
<1> QED BY <1>1, <1>2

LEMMA FailStepType ==
  ASSUME DisksTyped, StateTyped, MemoryTyped, FailStep
  PROVE  DisksTyped' /\ StateTyped' /\ MemoryTyped'
BY FailType, StillType DEF FailStep, StateTyped, state

LEMMA KeepType ==
  ASSUME TypeOK, Keep
  PROVE  vol' \in Volumes /\ CountsTyped'
BY DEF TypeOK, Keep, CountsTyped, budget

\* The latest record of an operation exists when the operation has records.
\* (Needed to type Recorded, and stated as an invariant because what holds of
\* every finite set of positions would take an induction.)
Latest ==
  \A i \in DOMAIN journal : \E k \in DOMAIN journal :
    /\ journal[k].n = journal[i].n
    /\ \A j \in DOMAIN journal : journal[j].n = journal[i].n => j <= k

LEMMA RecordedType ==
  ASSUME StateTyped, Latest, NEW o
  PROVE  Recorded(o) \in RecType
<1> DEFINE own == {i \in DOMAIN journal : journal[i].n = o.n}
<1>1. CASE own = {}
  BY <1>1, NothingTyped DEF Recorded
<1>2. CASE own # {}
  <2>1. \E k \in own : \A j \in own : j <= k
    BY <1>2 DEF Latest
  <2>2. (CHOOSE k \in own : \A j \in own : j <= k) \in DOMAIN journal
    BY <2>1
  <2>3. \A k \in DOMAIN journal : journal[k] \in RecType
    BY DEF StateTyped
  <2> QED BY <1>2, <2>2, <2>3 DEF Recorded
<1> QED BY <1>1, <1>2

\* Appending a record keeps the latest records well defined.
LEMMA LatestAppend ==
  ASSUME StateTyped, Latest, NEW r \in RecType, journal' = Append(journal, r)
  PROVE  Latest' /\ journal' \in Seq(RecType)
<1>1. journal \in Seq(RecType)
  BY DEF StateTyped
<1>2. /\ journal' \in Seq(RecType)
      /\ DOMAIN journal = 1..Len(journal) /\ DOMAIN journal' = 1..Len(journal) + 1
      /\ Len(journal) \in Nat
      /\ \A i \in DOMAIN journal : journal'[i] = journal[i]
      /\ journal'[Len(journal) + 1] = r
  BY <1>1
<1>3. ASSUME NEW i \in DOMAIN journal'
      PROVE  \E k \in DOMAIN journal' :
               /\ journal'[k].n = journal'[i].n
               /\ \A j \in DOMAIN journal' : journal'[j].n = journal'[i].n => j <= k
  <2>1. CASE journal'[i].n = r.n
    BY <1>2, <2>1
  <2>2. CASE journal'[i].n # r.n
    <3>1. i \in DOMAIN journal
      BY <1>2, <2>2
    <3>2. PICK k \in DOMAIN journal :
            /\ journal[k].n = journal[i].n
            /\ \A j \in DOMAIN journal : journal[j].n = journal[i].n => j <= k
      BY <3>1 DEF Latest
    <3> QED BY <1>2, <2>2, <3>1, <3>2
  <2> QED BY <2>1, <2>2
<1> QED BY <1>2, <1>3 DEF Latest

----------------------------------------------------------------------------
(* Type correctness.                                                       *)

Typed == TypeOK /\ Latest

\* The parts of TypeOK a step of the program can disturb.
LEMMA ProgramStep ==
  ASSUME Typed, Keep, DisksTyped', StateTyped', MemoryTyped', UNCHANGED journal
  PROVE  Typed'
BY KeepType DEF Typed, TypeOK, Latest

LEMMA BeginType ==
  ASSUME Typed, NEW kind \in Kinds, NEW e \in Id, Begin(kind, e), hold' \in Entry
  PROVE  Typed'
<1> USE DEF Begin
<1>1. DisksTyped'
  BY StillType DEF Still, Typed, TypeOK
<1>2. op' \in OpType /\ StateTyped'
  <2>1. begun + 1 \in Nat /\ e \in Entry
    BY DEF Typed, TypeOK, CountsTyped, Entry
  <2> QED BY <2>1, NewOperation DEF Typed, TypeOK, StateTyped
<1>3. MemoryTyped'
  BY <1>2 DEF Typed, TypeOK, MemoryTyped, Goto, Control, Modes
<1>4. CountsTyped'
  <2>1. begun' \in 0..MaxOps /\ begun' = begun + 1 /\ e.obj \in Objs
    BY ConstantsAssumption DEF Typed, TypeOK, CountsTyped, Id
  <2> QED BY <2>1 DEF Typed, TypeOK, CountsTyped, budget
<1> QED BY <1>1, <1>2, <1>3, <1>4 DEF Typed, TypeOK, Latest

LEMMA BeginRenameType == ASSUME Typed, BeginRename PROVE Typed'
<1>1. dir["nfd"] \in Id
  BY PresentEntry DEF BeginRename, Typed, TypeOK, DisksTyped, Directory, Names, Spellings
<1> QED BY <1>1, BeginType, NothingTyped DEF BeginRename, Kinds

LEMMA BeginRestoreType == ASSUME Typed, BeginRestore PROVE Typed'
<1> DEFINE r == journal[Len(journal)]
<1>1. /\ StoredAs(dir, r.id, "nfc") /\ Begin("reverted", r.id)
      /\ journal # <<>> /\ UNCHANGED hold
  BY DEF BeginRestore
<1>2. r.id \in Id
  <2>1. r \in RecType
    BY <1>1 DEF Typed, TypeOK, StateTyped
  <2> QED BY <1>1, <2>1, PresentEntry DEF StoredAs, RecType
<1> QED BY <1>1, <1>2, BeginType DEF Kinds, Typed, TypeOK, StateTyped

LEMMA CheckType == ASSUME Typed, Check PROVE Typed'
<1>1. MemoryTyped'
  BY FailType DEF Check, Typed, TypeOK, MemoryTyped, Goto, Control
<1> QED BY <1>1, StillType, ProgramStep DEF Check, Typed, TypeOK, StateTyped, state

LEMMA IntendType == ASSUME Typed, Intend PROVE Typed'
BY StillType, ProgramStep
   DEF Intend, Save, Move, Goto, Typed, TypeOK, StateTyped, MemoryTyped, Control, Legs

LEMMA LandType ==
  ASSUME MemoryTyped, Land, op' \in OpType
  PROVE  MemoryTyped'
BY LegTypes DEF Land, Goto, MemoryTyped, Legs

LEMMA MoveExclusiveType == ASSUME Typed, MoveExclusive PROVE Typed'
<1>1. CASE Blocked
  BY <1>1, FailStepType, ProgramStep DEF MoveExclusive, Typed, TypeOK, FailStep, state
<1>2. CASE ~Blocked
  <2> DEFINE to == With(Without(dir, Source(leg)), Target(leg), Lookup(dir, Source(leg)))
  <2>1. to \in Directory
    BY LegTypes, LookupType, WithoutType, WithType DEF Typed, TypeOK, DisksTyped, MemoryTyped
  <2>2. DisksTyped'
    BY <1>2, <2>1, ChangeType DEF MoveExclusive, Typed, TypeOK
  <2>3. MemoryTyped'
    BY <1>2, LandType DEF MoveExclusive, Typed, TypeOK, MemoryTyped
  <2> QED BY <1>2, <2>2, <2>3, ProgramStep DEF MoveExclusive, Typed, TypeOK, StateTyped, state
<1> QED BY <1>1, <1>2

LEMMA FallBackType == ASSUME Typed, FallBack PROVE Typed'
<1>1. op' \in OpType /\ pending' = op'
  BY DrawnKey DEF FallBack, Save, Typed, TypeOK, MemoryTyped
<1> QED BY <1>1, StillType, ProgramStep
        DEF FallBack, Goto, Typed, TypeOK, StateTyped, MemoryTyped, Control, Guarded

LEMMA MarkType == ASSUME Typed, Mark PROVE Typed'
<1> DEFINE e == Lookup(dir, Source(leg))
           key == <<e.obj, op.n, op.gen>>
<1>0. e \in Entry
  BY LookupType, LegTypes DEF Typed, TypeOK, DisksTyped, MemoryTyped
<1>1. CASE e # Empty /\ Goto("stamp") /\ seen' = e
            /\ Still /\ UNCHANGED <<state, leg, task, mode, op, rec>>
  BY <1>0, <1>1, StillType, ProgramStep
     DEF Mark, Goto, Typed, TypeOK, StateTyped, state, MemoryTyped, Control, Guarded
<1>2. CASE /\ e # Empty
           /\ \E id \in Reidentified(e) :
                /\ Restamp(id) /\ seen' = id
                /\ marks' = marks \cup {key}
           /\ Goto("stamp") /\ UNCHANGED <<state, leg, task, mode, op, rec>>
  <2>1. e \in Id /\ e.obj \in Objs
    BY <1>0, <1>2, PresentEntry
  <2>2. PICK id \in Reidentified(e) :
          Restamp(id) /\ seen' = id /\ marks' = marks \cup {key}
    BY <1>2
  <2>3. id \in Entry
    BY <2>1, ReidentifiedType DEF Entry
  <2>4. key \in Objs \X Nat \X Nat
    BY <2>1 DEF Typed, TypeOK, MemoryTyped, OpType
  <2>5. DisksTyped'
    BY <2>2, <2>3, <2>4, RestampType DEF Typed, TypeOK, DisksTyped
  <2> QED BY <1>2, <2>2, <2>3, <2>5, ProgramStep
          DEF Mark, Goto, Typed, TypeOK, StateTyped, state, MemoryTyped, Control, Guarded
<1>3. CASE FailStep
  BY <1>3, FailStepType, ProgramStep DEF Mark, Typed, TypeOK, FailStep, state
<1> QED BY <1>1, <1>2, <1>3 DEF Mark

LEMMA StampType == ASSUME Typed, Stamp PROVE Typed'
<1>1. op' \in OpType /\ pending' = op'
  BY NewIdentity DEF Stamp, Save, Typed, TypeOK, MemoryTyped
<1> QED BY <1>1, StillType, ProgramStep
        DEF Stamp, Goto, Typed, TypeOK, StateTyped, MemoryTyped, Control, Guarded

LEMMA VerifyType == ASSUME Typed, Verify PROVE Typed'
<1>1. MemoryTyped'
  BY FailType DEF Verify, Typed, TypeOK, MemoryTyped, Goto, Control, Guarded
<1> QED BY <1>1, StillType, ProgramStep DEF Verify, Typed, TypeOK, StateTyped, state

LEMMA GuardedRenameType == ASSUME Typed, GuardedRename PROVE Typed'
<1> DEFINE e == Lookup(dir, Source(leg))
           to(id) == With(Without(dir, Source(leg)), Target(leg), id)
<1>0. e \in Entry
  BY LookupType, LegTypes DEF Typed, TypeOK, DisksTyped, MemoryTyped
<1>1. CASE e = Empty /\ FailStep
  BY <1>1, FailStepType, ProgramStep DEF GuardedRename, Typed, TypeOK, FailStep, state
<1>2. CASE /\ e # Empty
           /\ \E id \in Reidentified(e) : Change(to(id))
           /\ Goto("adopt")
           /\ UNCHANGED <<marks, state, leg, task, mode, op, seen, rec>>
  <2>1. PICK id \in Reidentified(e) : Change(to(id))
    BY <1>2
  <2>2. id \in Entry
    BY <1>0, <1>2, PresentEntry, ReidentifiedType DEF Entry
  <2>3. to(id) \in Directory
    BY <2>2, LegTypes, WithoutType, WithType DEF Typed, TypeOK, DisksTyped, MemoryTyped
  <2>4. DisksTyped'
    BY <1>2, <2>1, <2>3, ChangeType DEF Typed, TypeOK
  <2> QED BY <1>2, <2>4, ProgramStep
          DEF GuardedRename, Goto, Typed, TypeOK, StateTyped, state, MemoryTyped, Control, Guarded
<1> QED BY <1>1, <1>2 DEF GuardedRename

LEMMA AdoptType == ASSUME Typed, Adopt PROVE Typed'
<1>1. op' \in OpType /\ pending' \in OpType
  BY NewIdentity, LookupType, LegTypes
     DEF Adopt, Save, Typed, TypeOK, DisksTyped, StateTyped, MemoryTyped
<1> QED BY <1>1, LandType, StillType, ProgramStep DEF Adopt, Typed, TypeOK, StateTyped

\* After a sync the program goes on with the operation, or fails.
LEMMA LandingType ==
  ASSUME Typed, Keep, Sync, UNCHANGED <<journal, hold>>,
         pending' \in OpType, MemoryTyped'
  PROVE  Typed'
BY SyncType, ProgramStep DEF Typed, TypeOK, StateTyped

LEMMA StagedType == ASSUME Typed, Staged PROVE Typed'
<1> USE DEF Typed, TypeOK, DisksTyped, StateTyped, MemoryTyped
<1>1. CASE dir["temp"] = Empty /\ Fail /\ UNCHANGED pending
  BY <1>1, FailType, LandingType DEF Staged
<1>2. CASE Move("place") /\ UNCHANGED <<op, pending>>
  BY <1>2, LandingType DEF Staged, Move, Goto, Control, Legs
<1>3. CASE Save(RollBack(op, dir["temp"])) /\ Move("unstage")
  <2>1. op' \in OpType /\ pending' = op'
    BY <1>3, NewIdentity DEF Save, Directory, Names
  <2> QED BY <1>3, <2>1, LandingType DEF Staged, Move, Goto, Control, Legs
<1> QED BY <1>1, <1>2, <1>3 DEF Staged

LEMMA UnstagedType == ASSUME Typed, Unstaged PROVE Typed'
BY LandingType DEF Unstaged, Goto, Control, state, Typed, TypeOK, StateTyped, MemoryTyped

LEMMA PlacedType == ASSUME Typed, Placed PROVE Typed'
<1>1. MemoryTyped'
  BY FailType DEF Placed, Move, Goto, Control, Legs, Typed, TypeOK, MemoryTyped
<1> QED BY <1>1, LandingType DEF Placed, state, Typed, TypeOK, StateTyped

LEMMA FinishedType == ASSUME Typed, Finished PROVE Typed'
<1>1. MemoryTyped'
  BY FailType DEF Finished, Goto, Control, Typed, TypeOK, MemoryTyped
<1> QED BY <1>1, LandingType DEF Finished, state, Typed, TypeOK, StateTyped

LEMMA RolledType == ASSUME Typed, Rolled PROVE Typed'
BY LandingType
   DEF Rolled, Goto, Control, Tasks, state, Typed, TypeOK, StateTyped, MemoryTyped

LEMMA CompleteType == ASSUME Typed, Complete PROVE Typed'
<1>1. op' \in OpType /\ pending' \in OpType
  BY NewPhase DEF Complete, Save, Phases, Typed, TypeOK, StateTyped, MemoryTyped
<1>2. pc' \in Control
  BY DEF Complete, Goto, Control
<1> QED BY <1>1, <1>2, StillType, ProgramStep
        DEF Complete, Tasks, Typed, TypeOK, StateTyped, MemoryTyped

\* Emitting a record.
LEMMA EmitType ==
  ASSUME Typed, EmitSuccess, Keep, Still, pc' \in Control,
         UNCHANGED <<pending, hold, leg, task, mode, op, seen>>
  PROVE  Typed'
<1> DEFINE r == [n |-> op.n, kind |-> op.kind, id |-> op.id, marker |-> op.marker]
<1>1. r \in RecType
  BY DEF Typed, TypeOK, MemoryTyped, OpType, RecType
<1>2. Latest' /\ journal' \in Seq(RecType) /\ rec' \in RecType
  BY <1>1, LatestAppend DEF EmitSuccess, Typed, TypeOK
<1> QED BY <1>2, StillType, KeepType DEF Typed, TypeOK, StateTyped, MemoryTyped

LEMMA EmitsType == ASSUME Typed, Emit \/ Reemit PROVE Typed'
BY EmitType DEF Emit, Reemit, Goto, Control

LEMMA UnmarkType == ASSUME Typed, Unmark PROVE Typed'
<1> DEFINE e == CASE task = "complete" -> Lookup(dir, New(op))
                  [] task \in {"cancel", "roll"} -> Lookup(dir, Old(op))
                  [] task = "abandon" -> op.id
           key == <<e.obj, op.n, op.gen>>
<1>0. e \in Entry
  BY LookupType, SpellingTypes, Zenon
     DEF Tasks, Typed, TypeOK, DisksTyped, MemoryTyped, OpType
<1>1. CASE FailStep
  BY <1>1, FailStepType, ProgramStep DEF Unmark, Typed, TypeOK, FailStep, state
<1>2. CASE /\ e # Empty
           /\ \E id \in IF key \in marks THEN Reidentified(e) ELSE {e} :
                Restamp(id) /\ seen' = id
           /\ marks' = marks \ {key}
           /\ Goto("finalize")
           /\ UNCHANGED <<state, leg, task, mode, op, rec>>
  <2>1. PICK id \in Reidentified(e) \cup {e} : Restamp(id) /\ seen' = id
    BY <1>2
  <2>2. id \in Entry
    BY <1>0, <1>2, PresentEntry, ReidentifiedType DEF Entry
  <2>3. DisksTyped'
    BY <1>2, <2>1, <2>2, RestampType DEF Typed, TypeOK, DisksTyped
  <2> QED BY <1>2, <2>1, <2>2, <2>3, ProgramStep
          DEF Unmark, Goto, Typed, TypeOK, StateTyped, state, MemoryTyped, Control
<1> QED BY <1>1, <1>2 DEF Unmark

LEMMA FinalizeType == ASSUME Typed, Finalize PROVE Typed'
<1>1. op' \in OpType /\ pending' = op'
  BY NewIdentity DEF Finalize, Save, Typed, TypeOK, MemoryTyped
<1>2. pc' \in Control
  BY DEF Finalize, Goto, Control
<1> QED BY <1>1, <1>2, StillType, ProgramStep
        DEF Finalize, Typed, TypeOK, StateTyped, MemoryTyped

LEMMA HoldType == ASSUME Typed, Hold PROVE Typed'
<1>1. hold' \in Entry
  BY DEF Hold, Typed, TypeOK, StateTyped, MemoryTyped, RecType
<1> QED BY <1>1, StillType, ProgramStep
        DEF Hold, Goto, Control, Typed, TypeOK, StateTyped, MemoryTyped

LEMMA ClearType == ASSUME Typed, Clear PROVE Typed'
<1>1. MemoryTyped'
  BY ForgetType DEF Clear, Control
<1> QED BY <1>1, NothingTyped, StillType, ProgramStep DEF Clear, Typed, TypeOK, StateTyped

LEMMA CancelType == ASSUME Typed, Cancel PROVE Typed'
<1>1. op' \in OpType /\ pending' \in OpType
  BY NewPhase DEF Cancel, Save, Phases, Typed, TypeOK, StateTyped, MemoryTyped
<1>2. pc' \in Control
  BY DEF Cancel, Goto, Control
<1> QED BY <1>1, <1>2, StillType, ProgramStep
        DEF Cancel, Tasks, Typed, TypeOK, StateTyped, MemoryTyped

LEMMA HandleFailureType == ASSUME Typed, HandleFailure PROVE Typed'
<1>1. MemoryTyped'
  BY ForgetType DEF HandleFailure, Goto, Control, Modes, Typed, TypeOK, MemoryTyped
<1> QED BY <1>1, StillType, ProgramStep DEF HandleFailure, state, Typed, TypeOK, StateTyped

LEMMA RestartType == ASSUME Typed, Restart PROVE Typed'
BY StillType, ProgramStep
   DEF Restart, Goto, Control, Modes, state, Typed, TypeOK, StateTyped, MemoryTyped

LEMMA RecoverNothingType == ASSUME Typed, RecoverNothing PROVE Typed'
<1>1. MemoryTyped'
  BY ForgetType DEF RecoverNothing, Control
<1> QED BY <1>1, StillType, ProgramStep DEF RecoverNothing, state, Typed, TypeOK, StateTyped

\* A step of recovery leaves the directory, the journal and the hold alone.
LEMMA RecoveringType ==
  ASSUME Typed, Keep, Still, UNCHANGED <<journal, hold>>,
         pending' \in OpType, MemoryTyped'
  PROVE  Typed'
BY StillType, ProgramStep DEF Typed, TypeOK, StateTyped

LEMMA OnwardType ==
  ASSUME Typed, NEW l \in Control, Onward(l),
         task' \in Tasks, op' \in OpType, rec' \in RecType
  PROVE  MemoryTyped'
BY DEF Onward, Goto, Typed, TypeOK, MemoryTyped

LEMMA WithMarkType ==
  ASSUME Typed, Marked(pending) # {}
  PROVE  WithMark \in OpType
<1>1. (CHOOSE n \in Marked(pending) : TRUE) \in Names
  BY DEF Marked
<1> QED BY <1>1, NewIdentity DEF WithMark, Typed, TypeOK, DisksTyped, StateTyped, Directory

LEMMA GiveUpType == ASSUME Typed, GiveUp PROVE MemoryTyped' /\ pending' \in OpType
BY ForgetType DEF GiveUp, Control, Typed, TypeOK, StateTyped

LEMMA RecoverNotStartedType == ASSUME Typed, RecoverNotStarted PROVE Typed'
<1>1. CASE Marked(pending) = {}
  BY <1>1, OnwardType, RecoveringType
     DEF RecoverNotStarted, Recovering, Control, Typed, TypeOK, StateTyped, MemoryTyped
<1>2. CASE Marked(pending) # {}
  BY <1>2, WithMarkType, OnwardType, RecoveringType
     DEF RecoverNotStarted, Recovering, Control, Tasks, Typed, TypeOK, StateTyped, MemoryTyped
<1> QED BY <1>1, <1>2

LEMMA RecoverCommittedType == ASSUME Typed, RecoverCommitted PROVE Typed'
<1> USE DEF Recovering, Control, Typed, TypeOK, StateTyped, MemoryTyped
<1>1. Recorded(pending) \in RecType
  BY RecordedType
<1>2. CASE /\ Marked(pending) # {} /\ Save(WithMark) /\ Onward("complete")
           /\ rec' = Recorded(pending) /\ UNCHANGED task
  BY <1>1, <1>2, WithMarkType, OnwardType, RecoveringType DEF RecoverCommitted, Save
<1>3. CASE /\ op' = pending /\ UNCHANGED <<pending, task>> /\ rec' = Recorded(pending)
           /\ Onward(IF rec'.id # pending.id THEN "reemit" ELSE "hold")
  BY <1>1, <1>3, OnwardType, RecoveringType DEF RecoverCommitted
<1>4. CASE GiveUp
  BY <1>4, GiveUpType, RecoveringType DEF RecoverCommitted
<1>5. CASE op' = pending /\ Onward("clear") /\ UNCHANGED <<pending, task, rec>>
  BY <1>5, OnwardType, RecoveringType DEF RecoverCommitted
<1> QED BY <1>2, <1>3, <1>4, <1>5 DEF RecoverCommitted

LEMMA RecoverMovedType == ASSUME Typed, RecoverMoved PROVE Typed'
<1> USE DEF Recovering, Control, Typed, TypeOK, StateTyped, MemoryTyped
<1>1. Recorded(pending) \in RecType
  BY RecordedType
<1>2. CASE /\ Marked(pending) # {} /\ Save(WithMark) /\ Onward("locate")
           /\ rec' = Recorded(pending) /\ UNCHANGED task
  BY <1>1, <1>2, WithMarkType, OnwardType, RecoveringType DEF RecoverMoved, Save
<1>3. CASE /\ op' = pending /\ UNCHANGED <<pending, task>>
           /\ Onward("locate") /\ rec' = Recorded(pending)
  BY <1>1, <1>3, OnwardType, RecoveringType DEF RecoverMoved
<1>4. CASE Save(RollBack(pending, dir["temp"])) /\ Onward("recover") /\ UNCHANGED <<task, rec>>
  <2>1. RollBack(pending, dir["temp"]) \in OpType
    BY NewIdentity DEF DisksTyped, Directory, Names
  <2> QED BY <1>4, <2>1, OnwardType, RecoveringType DEF RecoverMoved, Save
<1>5. CASE GiveUp
  BY <1>5, GiveUpType, RecoveringType DEF RecoverMoved
<1> QED BY <1>2, <1>3, <1>4, <1>5 DEF RecoverMoved

LEMMA UndoType == ASSUME Typed, Undo PROVE Typed'
<1>1. MemoryTyped'
  BY FailType DEF Undo, Move, Goto, Control, Legs, Tasks, Typed, TypeOK, MemoryTyped
<1> QED BY <1>1, RecoveringType DEF Undo, Locating, Typed, TypeOK, StateTyped

LEMMA RedoType == ASSUME Typed, Redo PROVE Typed'
<1> USE DEF Typed, TypeOK, DisksTyped, StateTyped, MemoryTyped
<1>1. CASE /\ Save([op EXCEPT !.id = dir["temp"], !.rollback = TRUE])
           /\ Goto("recover") /\ UNCHANGED <<leg, task, mode, seen, rec>>
  <2>1. op' \in OpType /\ pending' = op'
    BY <1>1, NewIdentity DEF Save, Directory, Names
  <2> QED BY <1>1, <2>1, RecoveringType DEF Redo, Locating, Goto, Control
<1>2. CASE UNCHANGED pending /\ Fail
  BY <1>2, FailType, RecoveringType DEF Redo, Locating
<1>3. CASE /\ UNCHANGED <<pending, op>>
           /\ \/ Goto("cancel") /\ UNCHANGED <<leg, task, mode, seen, rec>>
              \/ Move("finish")
              \/ Goto("complete") /\ UNCHANGED <<leg, task, mode, seen, rec>>
  <2>1. MemoryTyped'
    BY <1>3 DEF Move, Goto, Control, Legs
  <2> QED BY <1>3, <2>1, RecoveringType DEF Redo, Locating
<1> QED BY <1>1, <1>2, <1>3 DEF Redo

----------------------------------------------------------------------------
(* Everyone else, and the theorem.                                         *)

LEMMA EnvPutType ==
  ASSUME Typed, NEW n \in Spellings, NEW o \in Objs, EnvPut(n, o)
  PROVE  Typed'
<1>1. [obj |-> o, ver |-> 0] \in Entry /\ n \in Names
  BY DEF Entry, Id, Names
<1>2. DisksTyped'
  BY <1>1, WithType, ChangeType DEF EnvPut, Quiet, Typed, TypeOK, DisksTyped
<1>3. CountsTyped'
  BY ConstantsAssumption DEF EnvPut, Quiet, Typed, TypeOK, CountsTyped
<1> QED BY <1>2, <1>3
        DEF EnvPut, Quiet, Typed, TypeOK, Latest, state, StateTyped, memory, MemoryTyped

LEMMA EnvRemoveType ==
  ASSUME Typed, NEW n \in Names, EnvRemove(n)
  PROVE  Typed'
<1>1. DisksTyped'
  BY WithoutType, ChangeType DEF EnvRemove, Quiet, Typed, TypeOK, DisksTyped
<1>2. CountsTyped'
  BY ConstantsAssumption DEF EnvRemove, Quiet, Typed, TypeOK, CountsTyped
<1> QED BY <1>1, <1>2
        DEF EnvRemove, Quiet, Typed, TypeOK, Latest, state, StateTyped, memory, MemoryTyped

LEMMA FaultType == ASSUME Typed, Fault PROVE Typed'
<1>1. CountsTyped'
  BY ConstantsAssumption DEF Fault, Typed, TypeOK, CountsTyped
<1> QED BY <1>1, FailType, StillType DEF Fault, Typed, TypeOK, Latest, state, StateTyped

LEMMA ProcessCrashType == ASSUME Typed, ProcessCrash PROVE Typed'
<1>1. CountsTyped'
  BY ConstantsAssumption DEF ProcessCrash, Typed, TypeOK, CountsTyped
<1>2. MemoryTyped'
  BY ForgetType DEF ProcessCrash, Control
<1> QED BY <1>1, <1>2, StillType DEF ProcessCrash, Typed, TypeOK, Latest, state, StateTyped

LEMMA PowerFailureType == ASSUME Typed, PowerFailure PROVE Typed'
<1>1. CountsTyped'
  BY ConstantsAssumption DEF PowerFailure, Quiet, Typed, TypeOK, CountsTyped
<1>2. MemoryTyped'
  BY ForgetType DEF PowerFailure, Control
<1>3. DisksTyped'
  BY DEF PowerFailure, Quiet, Typed, TypeOK, DisksTyped
<1> QED BY <1>1, <1>2, <1>3 DEF PowerFailure, Quiet, Typed, TypeOK, Latest, state, StateTyped

LEMMA InitType == Init => Typed
<1> SUFFICES ASSUME Init PROVE Typed
  OBVIOUS
<1>1. DisksTyped
  BY DEF Init, DisksTyped, Directory, Entry, Id
<1>2. StateTyped /\ MemoryTyped
  BY NothingTyped
     DEF Init, StateTyped, MemoryTyped, Control, Legs, Tasks, Modes
<1>3. CountsTyped
  BY ConstantsAssumption DEF Init, CountsTyped
<1>4. Latest
  BY DEF Init, Latest
<1> QED BY <1>1, <1>2, <1>3, <1>4 DEF Init, Typed, TypeOK

LEMMA ProgramType == ASSUME Typed, Program PROVE Typed'
<1>1. CASE BeginRename \/ BeginRestore
  BY <1>1, BeginRenameType, BeginRestoreType
<1>2. CASE Check \/ Intend
  BY <1>2, CheckType, IntendType
<1>3. CASE Moving
  BY <1>3, MoveExclusiveType, FallBackType, MarkType, StampType, VerifyType,
     GuardedRenameType, AdoptType DEF Moving
<1>4. CASE Landing
  BY <1>4, StagedType, UnstagedType, PlacedType, FinishedType, RolledType DEF Landing
<1>5. CASE Ending
  BY <1>5, CompleteType, EmitsType, UnmarkType, FinalizeType, HoldType, ClearType,
     CancelType DEF Ending
<1>6. CASE HandleFailure \/ Restart
  BY <1>6, HandleFailureType, RestartType
<1>7. CASE Recovery
  BY <1>7, RecoverNothingType, RecoverNotStartedType, RecoverCommittedType,
     RecoverMovedType, UndoType, RedoType DEF Recovery
<1> QED BY <1>1, <1>2, <1>3, <1>4, <1>5, <1>6, <1>7 DEF Program, Progress

LEMMA OthersType == ASSUME Typed, Others PROVE Typed'
BY EnvPutType, EnvRemoveType, FaultType, ProcessCrashType, PowerFailureType DEF Others

LEMMA TypedStutter == ASSUME Typed, UNCHANGED vars PROVE Typed'
BY DEF vars, disks, state, memory, budget, Typed, TypeOK, Latest,
   DisksTyped, StateTyped, MemoryTyped, CountsTyped

\* In every reachable state the variables have their types and the latest
\* record of every operation is well defined.
THEOREM TypeCorrect == Spec => [](TypeOK /\ Latest)
<1>1. Typed /\ [Next]_vars => Typed'
  BY TypedStutter, ProgramType, OthersType DEF Next
<1>2. Typed => TypeOK /\ Latest
  BY DEF Typed
<1> QED BY InitType, <1>1, <1>2, PTL DEF Spec
----------------------------------------------------------------------------
(* What the records say.                                                   *)

\* Where the program works on a saved operation.
Active == Control \ {"down", "recover", "idle", "check", "intend", "failed"}
\* Where it heads for a success record.
Forward ==
  \/ pc \in {"staged", "placed", "finished", "complete", "emit", "reemit"}
  \/ pc \in {"unmark", "finalize"} /\ task = "complete"
  \/ pc \in {"move"} \cup Guarded /\ leg \in {"stage", "place", "finish", "unspell"}

\* The operation in memory, the pending record, the journal and the markers
\* belong to the operation begun last.
Fresh ==
  /\ pending = NoOp /\ op.n = begun /\ begun > 0 /\ ~op.rollback
  /\ op.id.obj = subject[begun]
  /\ \A m \in marks : m[2] # begun
  /\ \A i \in DOMAIN journal : journal[i].n # begun
\* A marker is removed without saving the identity it was found under.
Abandoning ==
  /\ pc \in {"unmark", "finalize"} /\ task = "abandon" /\ mode = "recovery"
  /\ op.rollback = pending.rollback /\ op.phase = pending.phase
Numbered ==
  /\ pending.n \in {0, begun} /\ (pending.n = 0 => pending = NoOp)
  /\ \A i \in DOMAIN journal : journal[i].n \in 1..begun
  /\ \A m \in marks : m[2] \in 1..begun
  /\ pc \in Active => op.n = begun /\ pending.n = begun /\ begun > 0
  /\ pc \in Active => op = pending \/ Abandoning
  /\ pc \in {"check", "intend"} => Fresh
  /\ pc = "failed" => pending \in {NoOp, op} /\ op.n = begun /\ begun > 0
  /\ pc \in {"idle", "down"} => op = NoOp
  /\ pc = "recover" => op \in {NoOp, pending}
  /\ pc \in {"recover", "locate"} => mode = "recovery"

\* An operation that is not to be rolled back and its markers are about its
\* subject; a rollback is never on the way to a record.
NoRecordOf(o) == \A i \in DOMAIN journal : journal[i].n # o.n
Faithful ==
  /\ pending # NoOp /\ ~pending.rollback =>
       /\ pending.id.obj = subject[begun]
       /\ \A m \in marks : m[2] = begun => m[1] = subject[begun]
  /\ pc \in Active /\ ~op.rollback => op.id.obj = subject[begun]
  /\ pending.rollback /\ pending.phase = "committed" => NoRecordOf(pending)
  /\ pc = "locate" /\ op.phase = "committed" => NoRecordOf(op)
  /\ pc \in {"stamp", "finalize"} /\ ~op.rollback => seen.obj = subject[begun]
  /\ Forward => ~op.rollback

Records == Numbered /\ Faithful /\ RecordsSubject

----------------------------------------------------------------------------
(* The invariant is kept by every step.                                    *)

Sound == Typed /\ Records

\* What the steps that neither begin an operation nor write a record leave
\* alone.
Undisturbed ==
  UNCHANGED <<journal, begun, subject>> /\ Numbered' /\ Faithful'

LEMMA Undisturbs ==
  ASSUME Sound, Undisturbed
  PROVE  Records'
BY DEF Sound, Undisturbed, Records, RecordsSubject

LEMMA NoOpFields == NoOp.n = 0 /\ ~NoOp.rollback /\ NoOp.phase = "none"
BY DEF NoOp

LEMMA RollBackFields ==
  ASSUME NEW o \in OpType, NEW e
  PROVE  /\ RollBack(o, e).n = o.n /\ RollBack(o, e).id = e
         /\ RollBack(o, e).rollback /\ RollBack(o, e).phase = "none"
BY DEF OpType, RollBack

LEMMA RedirectFields ==
  ASSUME NEW o \in OpType, NEW e
  PROVE  LET r == [o EXCEPT !.id = e, !.rollback = TRUE]
         IN  r.n = o.n /\ r.id = e /\ r.rollback /\ r.phase = o.phase
BY DEF OpType

LEMMA IdentityFields ==
  ASSUME NEW o \in OpType, NEW e
  PROVE  LET i == [o EXCEPT !.id = e]
             m == [o EXCEPT !.id = e, !.phase = "moving"]
             f == [o EXCEPT !.id = e, !.final = TRUE]
         IN  /\ {i.n, m.n, f.n} = {o.n} /\ {i.id, m.id, f.id} = {e}
             /\ i.rollback = o.rollback /\ m.rollback = o.rollback /\ f.rollback = o.rollback
             /\ i.phase = o.phase /\ m.phase = "moving" /\ f.phase = o.phase
BY DEF OpType

LEMMA PhaseFields ==
  ASSUME NEW o \in OpType, NEW p
  PROVE  LET r == [o EXCEPT !.phase = p]
         IN  r.n = o.n /\ r.id = o.id /\ r.rollback = o.rollback /\ r.phase = p
BY DEF OpType

LEMMA DrawnFields ==
  ASSUME NEW o \in OpType
  PROVE  LET r == [o EXCEPT !.marker = TRUE, !.gen = @ + 1, !.phase = "marker-intent"]
         IN  /\ r.n = o.n /\ r.id = o.id
             /\ r.rollback = o.rollback /\ r.phase = "marker-intent"
BY DEF OpType

\* The invariant and the step shapes are visible in the lemmas on single steps.
USE DEF Sound, Records, Numbered, Faithful, Forward, Active, Abandoning, Fresh,
        NoRecordOf, Control, Guarded, Landings, Typed, TypeOK, MemoryTyped, StateTyped,
        Undisturbed, Keep, Goto, Forget, Fail, FailStep, Save, Move, Still, Sync,
        disks, state, budget

LEMMA CheckSound == ASSUME Sound, Check PROVE Records'
BY Undisturbs, NoOpFields DEF Check

LEMMA IntendSound == ASSUME Sound, Intend PROVE Records'
BY Undisturbs, NoOpFields DEF Intend

LEMMA VerifySound == ASSUME Sound, Verify PROVE Records'
BY Undisturbs, NoOpFields DEF Verify

LEMMA UnstagedSound == ASSUME Sound, Unstaged PROVE Records'
BY Undisturbs, NoOpFields DEF Unstaged

LEMMA FinishedSound == ASSUME Sound, Finished PROVE Records'
BY Undisturbs, NoOpFields DEF Finished

LEMMA PlacedSound == ASSUME Sound, Placed PROVE Records'
BY Undisturbs, NoOpFields DEF Placed

LEMMA RolledSound == ASSUME Sound, Rolled PROVE Records'
BY Undisturbs, NoOpFields DEF Rolled

LEMMA RestartSound == ASSUME Sound, Restart PROVE Records'
BY Undisturbs, NoOpFields DEF Restart

LEMMA RecoverNothingSound == ASSUME Sound, RecoverNothing PROVE Records'
BY Undisturbs, NoOpFields DEF RecoverNothing

LEMMA HoldSound == ASSUME Sound, Hold PROVE Records'
BY Undisturbs, NoOpFields DEF Hold

LEMMA ClearSound == ASSUME Sound, Clear PROVE Records'
BY Undisturbs, NoOpFields DEF Clear

LEMMA HandleFailureSound == ASSUME Sound, HandleFailure PROVE Records'
BY Undisturbs, NoOpFields DEF HandleFailure

LEMMA FallBackSound == ASSUME Sound, FallBack PROVE Records'
BY Undisturbs, NoOpFields, DrawnFields DEF FallBack

LEMMA StampSound == ASSUME Sound, Stamp PROVE Records'
BY Undisturbs, NoOpFields, IdentityFields DEF Stamp

LEMMA FinalizeSound == ASSUME Sound, Finalize PROVE Records'
BY Undisturbs, NoOpFields, IdentityFields DEF Finalize

LEMMA MoveExclusiveSound == ASSUME Sound, MoveExclusive PROVE Records'
BY Undisturbs, NoOpFields DEF MoveExclusive, Land, Change, Legs, After

LEMMA GuardedRenameSound == ASSUME Sound, GuardedRename PROVE Records'
BY Undisturbs, NoOpFields DEF GuardedRename, Change

LEMMA UndoSound == ASSUME Sound, Undo PROVE Records'
BY Undisturbs, NoOpFields DEF Undo, Locating

LEMMA FaultSound == ASSUME Sound, Fault PROVE Records'
BY Undisturbs, NoOpFields DEF Fault

LEMMA ProcessCrashSound == ASSUME Sound, ProcessCrash PROVE Records'
BY Undisturbs, NoOpFields DEF ProcessCrash

LEMMA PowerFailureSound == ASSUME Sound, PowerFailure PROVE Records'
BY Undisturbs, NoOpFields DEF PowerFailure, Quiet

LEMMA StagedSound == ASSUME Sound, Staged PROVE Records'
<1>1. CASE dir["temp"] = Empty /\ Fail /\ UNCHANGED pending
  BY <1>1, Undisturbs, NoOpFields DEF Staged
<1>2. CASE Move("place") /\ UNCHANGED <<op, pending>>
  BY <1>2, Undisturbs DEF Staged
<1>3. CASE Save(RollBack(op, dir["temp"])) /\ Move("unstage")
  BY <1>3, Undisturbs, RollBackFields DEF Staged
<1> QED BY <1>1, <1>2, <1>3 DEF Staged

LEMMA CompleteSound == ASSUME Sound, Complete PROVE Records'
<1>1. CASE op.marker /\ Save([op EXCEPT !.phase = "committed"])
  <2>1. /\ op'.n = op.n /\ op'.id = op.id /\ op'.rollback = op.rollback
        /\ op'.phase = "committed" /\ pending' = op'
    BY <1>1, PhaseFields
  <2>2. /\ pc = "complete" /\ pc' \in {"emit", "unmark", "hold"} /\ task' = "complete"
        /\ UNCHANGED <<vol, begun, subject, dir, disk, marks, journal, leg, mode, seen>>
    BY DEF Complete
  <2> QED BY <2>1, <2>2, Undisturbs, NoOpFields
<1>2. CASE UNCHANGED <<op, pending>>
  BY <1>2, Undisturbs DEF Complete
<1> QED BY <1>1, <1>2 DEF Complete

LEMMA CancelSound == ASSUME Sound, Cancel PROVE Records'
<1>1. CASE Save([op EXCEPT !.phase = "not-started"]) /\ Goto("unmark")
  <2>1. /\ op'.n = op.n /\ op'.id = op.id /\ op'.rollback = op.rollback
        /\ op'.phase = "not-started" /\ pending' = op'
    BY <1>1, PhaseFields
  <2>2. /\ pc = "cancel" /\ pc' = "unmark" /\ task' = "cancel"
        /\ UNCHANGED <<vol, begun, subject, dir, disk, marks, journal, leg, mode, seen>>
    BY <1>1 DEF Cancel
  <2> QED BY <2>1, <2>2, Undisturbs, NoOpFields
<1>2. CASE UNCHANGED <<op, pending>> /\ Goto("clear")
  BY <1>2, Undisturbs DEF Cancel
<1> QED BY <1>1, <1>2 DEF Cancel

LEMMA RedoSound == ASSUME Sound, Redo PROVE Records'
<1>1. CASE /\ Save([op EXCEPT !.id = dir["temp"], !.rollback = TRUE])
           /\ Goto("recover") /\ UNCHANGED <<leg, task, mode, seen, rec>>
  <2>1. /\ op'.n = op.n /\ op'.rollback /\ op'.phase = op.phase /\ pending' = op'
    BY <1>1, RedirectFields
  <2> QED BY <1>1, <2>1, Undisturbs DEF Redo, Locating
<1>2. CASE UNCHANGED pending /\ Fail
  BY <1>2, Undisturbs, NoOpFields DEF Redo, Locating
<1>3. CASE /\ UNCHANGED <<pending, op>>
           /\ \/ Goto("cancel") /\ UNCHANGED <<leg, task, mode, seen, rec>>
              \/ Move("finish")
              \/ Goto("complete") /\ UNCHANGED <<leg, task, mode, seen, rec>>
  BY <1>3, Undisturbs DEF Redo, Locating
<1> QED BY <1>1, <1>2, <1>3 DEF Redo

LEMMA BeginSound ==
  ASSUME Sound, NEW kind \in Kinds, NEW e \in Id, Begin(kind, e)
  PROVE  Records'
<1> DEFINE o == [NoOp EXCEPT !.n = begun + 1, !.kind = kind, !.id = e]
<1>1. o.n = begun + 1 /\ o.id = e /\ ~o.rollback
  BY DEF NoOp
<1>2. /\ begun \in Nat /\ begun + 1 \in 1..MaxOps
      /\ subject' = [subject EXCEPT ![begun + 1] = e.obj]
      /\ subject'[begun + 1] = e.obj
      /\ \A n \in 1..begun : subject'[n] = subject[n]
  BY ConstantsAssumption DEF Begin, Sound, Typed, TypeOK, CountsTyped
<1>3. Numbered'
  BY <1>1, <1>2, NoOpFields DEF Begin, Goto, disks, Sound, Records, Numbered, Fresh, Active
<1>4. Faithful' /\ RecordsSubject'
  BY <1>1, <1>2, NoOpFields
     DEF Begin, Goto, disks, Sound, Records, Numbered, Faithful, RecordsSubject, Forward, Guarded
<1> QED BY <1>3, <1>4 DEF Records

LEMMA BeginsSound == ASSUME Sound, BeginRename \/ BeginRestore PROVE Records'
<1>1. CASE BeginRename
  <2>1. dir["nfd"] \in Id
    BY <1>1, PresentEntry
       DEF BeginRename, Sound, Typed, TypeOK, DisksTyped, Directory, Names, Spellings
  <2> QED BY <1>1, <2>1, BeginSound DEF BeginRename, Kinds
<1>2. CASE BeginRestore
  <2> DEFINE r == journal[Len(journal)]
  <2>1. StoredAs(dir, r.id, "nfc") /\ Begin("reverted", r.id) /\ journal # <<>>
    BY <1>2 DEF BeginRestore
  <2>2. r \in RecType
    BY <2>1 DEF Sound, Typed, TypeOK, StateTyped
  <2>3. r.id \in Id
    BY <2>1, <2>2, PresentEntry DEF StoredAs, RecType
  <2> QED BY <2>1, <2>3, BeginSound DEF Kinds
<1> QED BY <1>1, <1>2

LEMMA EmitSound ==
  ASSUME Sound, EmitSuccess, Keep, Still, pc \in {"emit", "reemit"},
         pc' \in {"unmark", "hold"}, pc' = "unmark" => pc = "emit",
         UNCHANGED <<pending, hold, leg, task, mode, op, seen>>
  PROVE  Records'
<1> USE DEF Sound, Records, Numbered, Faithful, Forward, Active, Control, Guarded
<1>1. /\ op.n = begun /\ op.id.obj = subject[begun] /\ op = pending
      /\ ~op.rollback /\ op.n \in 1..begun
  BY DEF Abandoning, Typed, TypeOK, CountsTyped
<1>2. /\ DOMAIN journal' = 1..Len(journal) + 1 /\ DOMAIN journal = 1..Len(journal)
      /\ Len(journal) \in Nat
      /\ \A i \in DOMAIN journal : journal'[i] = journal[i]
      /\ journal'[Len(journal) + 1] = [n |-> op.n, kind |-> op.kind, id |-> op.id, marker |-> op.marker]
  BY DEF EmitSuccess, Typed, TypeOK, StateTyped
<1>3. \A i \in DOMAIN journal' :
        \/ i \in DOMAIN journal /\ journal'[i] = journal[i]
        \/ journal'[i].n = op.n /\ journal'[i].id = op.id
  BY <1>2
<1>4. RecordsSubject'
  BY <1>1, <1>3 DEF RecordsSubject, Keep
<1>5. \A i \in DOMAIN journal' : journal'[i].n \in 1..begun
  BY <1>1, <1>3
<1>6. Numbered'
  BY <1>1, <1>5 DEF Keep, Still, disks, Abandoning, Fresh
<1>7. Faithful'
  BY <1>1 DEF Keep, Still, disks, Typed, TypeOK, MemoryTyped
<1> QED BY <1>4, <1>6, <1>7

LEMMA EmitsSound == ASSUME Sound, Emit \/ Reemit PROVE Records'
BY EmitSound DEF Emit, Reemit, Goto

\* A removed or added marker of the operation at hand.
LEMMA MarkSound == ASSUME Sound, Mark PROVE Records'
<1> DEFINE e == Lookup(dir, Source(leg))
           key == <<e.obj, op.n, op.gen>>
<1>0. pc = "mark" /\ op = pending /\ op.n = begun /\ begun > 0
  BY DEF Mark
<1>1. CASE FailStep
  BY <1>1, Undisturbs, NoOpFields DEF Mark
<1>2. CASE key \in marks /\ e # Empty /\ Goto("stamp") /\ seen' = e
           /\ Still /\ UNCHANGED <<state, leg, task, mode, op, rec>>
  <2>1. ~op.rollback => seen'.obj = subject[begun]
    BY <1>0, <1>2, NoOpFields
  <2> QED BY <1>2, <2>1, Undisturbs DEF Mark
<1>3. CASE /\ e = op.id /\ e # Empty
           /\ \E id \in Reidentified(e) : Restamp(id) /\ seen' = id /\ marks' = marks \cup {key}
           /\ Goto("stamp") /\ UNCHANGED <<state, leg, task, mode, op, rec>>
  <2>1. e \in Id
    BY <1>3, PresentEntry DEF OpType
  <2>2. seen'.obj = op.id.obj /\ marks' = marks \cup {key}
    BY <1>3, <2>1, ReidentifiedType
  <2>3. key[1] = op.id.obj /\ key[2] = begun /\ begun \in 1..begun
    BY <1>0, <1>3 DEF CountsTyped
  <2>4. /\ pc' = "stamp"
        /\ UNCHANGED <<vol, begun, subject, op, pending, journal, leg, task, mode>>
    BY <1>3 DEF Mark
  <2> QED BY <1>0, <2>2, <2>3, <2>4, Undisturbs, NoOpFields
<1> QED BY <1>1, <1>2, <1>3 DEF Mark

LEMMA AdoptSound == ASSUME Sound, Adopt PROVE Records'
<1> DEFINE e == Lookup(dir, Target(leg))
<1>0. pc = "adopt" /\ op = pending /\ op.n = begun /\ begun > 0
  BY DEF Adopt
<1>1. /\ op'.n = op.n /\ op'.rollback = op.rollback /\ op'.phase = op.phase
      /\ pending' = op'
      /\ ~op.rollback => op'.id.obj = subject[begun]
  <2>1. CASE <<e.obj, op.n, op.gen>> \in marks /\ Save([op EXCEPT !.id = e])
    BY <1>0, <2>1, IdentityFields, NoOpFields
  <2>2. CASE UNCHANGED <<op, pending>>
    BY <1>0, <2>2
  <2> QED BY <2>1, <2>2 DEF Adopt
<1>2. /\ UNCHANGED <<vol, begun, subject, marks, journal, task, mode, seen>>
      /\ pc' = After(leg) /\ leg' = IF leg = "unspell" THEN "respell" ELSE leg
  BY DEF Adopt, Land
<1> QED BY <1>0, <1>1, <1>2, Undisturbs, NoOpFields DEF After, Legs

LEMMA UnmarkSound == ASSUME Sound, Unmark PROVE Records'
<1> DEFINE e == CASE task = "complete" -> Lookup(dir, New(op))
                  [] task \in {"cancel", "roll"} -> Lookup(dir, Old(op))
                  [] task = "abandon" -> op.id
           key == <<e.obj, op.n, op.gen>>
<1>1. CASE FailStep
  BY <1>1, Undisturbs, NoOpFields DEF Unmark
<1>2. CASE /\ e # Empty /\ e = op.id
           /\ \E id \in IF key \in marks THEN Reidentified(e) ELSE {e} :
                Restamp(id) /\ seen' = id
           /\ marks' = marks \ {key}
           /\ Goto("finalize")
           /\ UNCHANGED <<state, leg, task, mode, op, rec>>
  <2>1. e \in Id
    BY <1>2, PresentEntry DEF OpType
  <2>2. seen'.obj = op.id.obj /\ marks' \subseteq marks
    BY <1>2, <2>1, ReidentifiedType
  <2>3. /\ pc = "unmark" /\ pc' = "finalize"
        /\ UNCHANGED <<vol, begun, subject, op, pending, journal, leg, task, mode>>
    BY <1>2 DEF Unmark
  <2> QED BY <2>2, <2>3, Undisturbs
<1> QED BY <1>1, <1>2 DEF Unmark

\* What a marker found by recovery says of the operation.
LEMMA WithMarkFields ==
  ASSUME Sound, pending # NoOp, Marked(pending) # {}
  PROVE  /\ WithMark.n = pending.n /\ WithMark.rollback = pending.rollback
         /\ WithMark.phase = pending.phase
         /\ ~pending.rollback => WithMark.id.obj = subject[begun]
<1> DEFINE n == CHOOSE n \in Marked(pending) : TRUE
<1>1. n \in Names /\ <<dir[n].obj, pending.n, pending.gen>> \in marks
  BY DEF Marked
<1>2. pending.n = begun
  BY DEF Sound, Records, Numbered
<1>3. ~pending.rollback => dir[n].obj = subject[begun]
  BY <1>1, <1>2 DEF Sound, Records, Faithful
<1> QED BY <1>3, IdentityFields DEF WithMark, Sound, Typed, TypeOK, StateTyped

LEMMA RecoverNotStartedSound == ASSUME Sound, RecoverNotStarted PROVE Records'
<1>0. pending # NoOp /\ pc = "recover" /\ pending.n = begun /\ begun > 0
  BY NoOpFields DEF RecoverNotStarted, Recovering, CountsTyped
<1>1. CASE Marked(pending) = {}
  BY <1>0, <1>1, Undisturbs DEF RecoverNotStarted, Recovering, Onward
<1>2. CASE Marked(pending) # {}
  BY <1>0, <1>2, WithMarkFields, Undisturbs DEF RecoverNotStarted, Recovering, Onward
<1> QED BY <1>1, <1>2

\* Recorded tells whether there is a record.
LEMMA RecordedMeans ==
  ASSUME Typed, NEW o, o.n # 0
  PROVE  Recorded(o) = NoRec <=> NoRecordOf(o)
<1> DEFINE own == {i \in DOMAIN journal : journal[i].n = o.n}
<1>1. CASE own = {}
  BY <1>1 DEF Recorded, NoRecordOf
<1>2. CASE own # {}
  <2>1. \E k \in own : \A j \in own : j <= k
    BY <1>2 DEF Typed, Latest
  <2>2. (CHOOSE k \in own : \A j \in own : j <= k) \in own
    BY <2>1
  <2> QED BY <1>2, <2>2 DEF Recorded, NoRecordOf, NoRec
<1> QED BY <1>1, <1>2

LEMMA RecoverCommittedSound == ASSUME Sound, RecoverCommitted PROVE Records'
<1>0. pending # NoOp /\ pc = "recover" /\ pending.n = begun /\ begun > 0
  BY NoOpFields DEF RecoverCommitted, Recovering, CountsTyped
<1>1. pending.phase = "committed" /\ ~pending.rollback
  BY <1>0, RecordedMeans DEF RecoverCommitted, Settled
<1>2. CASE /\ Marked(pending) # {} /\ Save(WithMark) /\ Onward("complete")
  BY <1>0, <1>1, <1>2, WithMarkFields, NoOpFields, Undisturbs DEF RecoverCommitted, Recovering, Onward
<1>3. CASE /\ op' = pending /\ UNCHANGED <<pending, task>>
           /\ Onward(IF rec'.id # pending.id THEN "reemit" ELSE "hold")
  BY <1>0, <1>1, <1>3, Undisturbs DEF RecoverCommitted, Recovering, Onward
<1>4. CASE GiveUp
  BY <1>0, <1>4, Undisturbs, NoOpFields DEF RecoverCommitted, Recovering, GiveUp
<1>5. CASE op' = pending /\ Onward("clear") /\ UNCHANGED <<pending, task, rec>>
  BY <1>0, <1>5, Undisturbs DEF RecoverCommitted, Recovering, Onward
<1> QED BY <1>2, <1>3, <1>4, <1>5 DEF RecoverCommitted

LEMMA RecoverMovedSound == ASSUME Sound, RecoverMoved PROVE Records'
<1>0. pending # NoOp /\ pc = "recover" /\ pending.n = begun /\ begun > 0
  BY NoOpFields DEF RecoverMoved, Recovering, CountsTyped
<1>1. pending.phase = "committed" => NoRecordOf(pending)
  BY <1>0, RecordedMeans DEF RecoverMoved, Settled
<1>2. CASE Marked(pending) # {} /\ Save(WithMark) /\ Onward("locate")
  BY <1>0, <1>1, <1>2, WithMarkFields, NoOpFields, Undisturbs DEF RecoverMoved, Recovering, Onward
<1>3. CASE op' = pending /\ UNCHANGED <<pending, task>> /\ Onward("locate")
  BY <1>0, <1>1, <1>3, Undisturbs DEF RecoverMoved, Recovering, Onward
<1>4. CASE Save(RollBack(pending, dir["temp"])) /\ Onward("recover")
  BY <1>0, <1>4, Undisturbs, RollBackFields DEF RecoverMoved, Recovering, Onward
<1>5. CASE GiveUp
  BY <1>0, <1>5, Undisturbs, NoOpFields DEF RecoverMoved, Recovering, GiveUp
<1> QED BY <1>2, <1>3, <1>4, <1>5 DEF RecoverMoved

LEMMA EnvironmentSound ==
  ASSUME Sound, \/ \E n \in Spellings, o \in Objs : EnvPut(n, o)
                \/ \E n \in Names : EnvRemove(n)
  PROVE  Records'
<1>1. UNCHANGED <<marks, pending, journal, pc, leg, task, mode, op, seen, begun, subject>>
  BY DEF EnvPut, EnvRemove, Quiet, state, memory
<1> QED BY <1>1 DEF Sound, Records, Numbered, Faithful, RecordsSubject, Forward, Fresh,
        Abandoning, NoRecordOf

HIDE DEF Sound, Records, Numbered, Faithful, Forward, Active, Abandoning, Fresh,
         NoRecordOf, Control, Guarded, Landings, Typed, TypeOK, MemoryTyped, StateTyped,
         Undisturbed, Keep, Goto, Forget, Fail, FailStep, Save, Move, Still, Sync,
         disks, state, budget

LEMMA InitSound == Init => Records
BY NoOpFields DEF Init, Records, Numbered, Faithful, RecordsSubject, Forward, Active, Guarded,
   NoRecordOf

LEMMA StutterSound == ASSUME Sound, UNCHANGED vars PROVE Records'
BY DEF vars, disks, state, memory, budget, Sound, Records, Numbered, Faithful, RecordsSubject,
   Forward, Fresh, Abandoning, NoRecordOf

LEMMA NextSound == ASSUME Sound, Next PROVE Records'
<1>1. CASE BeginRename \/ BeginRestore \/ Check \/ Intend
  BY <1>1, BeginsSound, CheckSound, IntendSound
<1>2. CASE Moving
  BY <1>2, MoveExclusiveSound, FallBackSound, MarkSound, StampSound, VerifySound,
     GuardedRenameSound, AdoptSound DEF Moving
<1>3. CASE Landing
  BY <1>3, StagedSound, UnstagedSound, PlacedSound, FinishedSound, RolledSound DEF Landing
<1>4. CASE Ending
  BY <1>4, CompleteSound, EmitsSound, UnmarkSound, FinalizeSound, HoldSound, ClearSound,
     CancelSound DEF Ending
<1>5. CASE HandleFailure \/ Restart \/ Recovery
  BY <1>5, HandleFailureSound, RestartSound, RecoverNothingSound, RecoverNotStartedSound,
     RecoverCommittedSound, RecoverMovedSound, UndoSound, RedoSound DEF Recovery
<1>6. CASE Others
  BY <1>6, EnvironmentSound, FaultSound, ProcessCrashSound, PowerFailureSound DEF Others
<1> QED BY <1>1, <1>2, <1>3, <1>4, <1>5, <1>6 DEF Next, Program, Progress

LEMMA SoundAlways == Spec => []Sound
<1>1. Init => Sound
  BY InitType, InitSound DEF Sound
<1>2. Sound /\ [Next]_vars => Sound'
  BY NextSound, StutterSound, ProgramType, OthersType, TypedStutter DEF Sound, Next
<1> QED BY <1>1, <1>2, PTL DEF Spec

\* Whatever is replaced under the names of an operation, wherever it is cut and
\* however often recovery is repeated, every success record it writes speaks of
\* the object it was begun for.
THEOREM RecordsAreAboutTheirSubjects == Spec => []RecordsSubject
<1>1. Sound => RecordsSubject
  BY DEF Sound, Records
<1> QED BY SoundAlways, <1>1, PTL

----------------------------------------------------------------------------
(* The protocol implements OperationLog.                                   *)

\* A step that neither begins, opens, records nor releases an operation.
SameOperation ==
  /\ UNCHANGED <<journal, begun>> /\ pending'.n = pending.n
  /\ pending.n = 0 => op'.n = op.n
\* The operation is given up before its pending record exists.
Dropped == UNCHANGED <<journal, begun, pending>> /\ pending = NoOp /\ op' = NoOp

LEMMA PositiveBegun == ASSUME Sound, begun > 0 PROVE begun # 0
BY ConstantsAssumption DEF Sound, Typed, TypeOK, CountsTyped

LEMMA OpNumber == ASSUME Sound PROVE op.n \in {0, begun} /\ begun \in Nat
<1>1. begun \in Nat
  BY ConstantsAssumption DEF Sound, Typed, TypeOK, CountsTyped
<1> QED BY <1>1, NoOpFields
        DEF Sound, Records, Numbered, Fresh, Active, Control, Typed, TypeOK, MemoryTyped

LEMMA Held ==
  ASSUME Sound, pc \in Active \/ pending # NoOp
  PROVE  pending.n = begun /\ begun # 0
BY PositiveBegun DEF Sound, Records, Numbered

\* A step that goes on with a saved operation or leaves the record alone.
LEMMA HoldingStep ==
  ASSUME Sound, Sound', pc \in Active \/ pending # NoOp, UNCHANGED <<journal, begun>>,
         pc' \in Active \/ UNCHANGED pending
  PROVE  SameOperation
<1>1. pending.n = begun /\ begun # 0
  BY Held
<1>2. pending'.n = begun
  BY <1>1 DEF Sound, Records, Numbered
<1> QED BY <1>1, <1>2 DEF SameOperation

LEMMA ActiveStep ==
  ASSUME Sound, Sound',
         \/ MoveExclusive \/ GuardedRename \/ FallBack \/ Stamp \/ Mark \/ Verify \/ Adopt
         \/ Staged \/ Unstaged \/ Placed \/ Finished \/ Rolled
         \/ Complete \/ Cancel \/ Unmark \/ Finalize \/ Hold
  PROVE  SameOperation
<1> USE DEF Active, Control, Guarded, Landings, Keep, Goto, Forget, Fail, FailStep, Save, Move,
            state
<1>1. CASE MoveExclusive \/ GuardedRename \/ Adopt
  BY <1>1, HoldingStep DEF MoveExclusive, GuardedRename, Adopt, Land, After, Legs, Sound, Typed, TypeOK, MemoryTyped
<1>2. CASE FallBack \/ Stamp \/ Mark \/ Verify
  BY <1>2, HoldingStep DEF FallBack, Stamp, Mark, Verify
<1>3. CASE Staged \/ Unstaged \/ Placed \/ Finished \/ Rolled
  BY <1>3, HoldingStep DEF Staged, Unstaged, Placed, Finished, Rolled
<1>4. CASE Complete \/ Cancel \/ Unmark \/ Finalize \/ Hold
  BY <1>4, HoldingStep DEF Complete, Cancel, Unmark, Finalize, Hold
<1> QED BY <1>1, <1>2, <1>3, <1>4

LEMMA EarlyStep ==
  ASSUME Sound, Sound', Check \/ HandleFailure \/ Restart \/ RecoverNothing
  PROVE  SameOperation \/ Dropped
<1> USE DEF Active, Control, Guarded, Landings, Keep, Goto, Forget, Fail, FailStep, Save, Move,
            state
<1>1. CASE Check
  BY <1>1 DEF Check, SameOperation, Dropped, Sound, Records, Numbered, Fresh
<1>2. CASE HandleFailure
  <2>1. pending # NoOp => pending.n # 0
    BY Held
  <2> QED BY <1>2, <2>1 DEF HandleFailure, SameOperation, Dropped
<1>3. CASE Restart \/ RecoverNothing
  BY <1>3, NoOpFields DEF Restart, RecoverNothing, SameOperation, Dropped
<1> QED BY <1>1, <1>2, <1>3

LEMMA RecoverStep ==
  ASSUME Sound, Sound', RecoverNotStarted \/ RecoverCommitted \/ RecoverMoved
  PROVE  SameOperation
<1> USE DEF Active, Control, Guarded, Landings, Keep, Goto, Forget, Fail, FailStep, Save, Move,
            state
<1> USE DEF Recovering, Onward, GiveUp
<1>1. CASE RecoverNotStarted
  BY <1>1, HoldingStep DEF RecoverNotStarted
<1>2. CASE RecoverCommitted
  BY <1>2, HoldingStep DEF RecoverCommitted
<1>3. CASE RecoverMoved
  <2>1. CASE pc' = "recover"
    <3>1. pending'.n = pending.n
      BY <1>3, <2>1, RollBackFields DEF RecoverMoved, Sound, Typed, TypeOK, StateTyped
    <3> QED BY <1>3, <3>1, Held DEF RecoverMoved, SameOperation
  <2>2. CASE pc' # "recover"
    BY <1>3, <2>2, HoldingStep DEF RecoverMoved
  <2> QED BY <2>1, <2>2
<1> QED BY <1>1, <1>2, <1>3

LEMMA LocateStep == ASSUME Sound, Sound', Undo \/ Redo PROVE SameOperation
<1> USE DEF Active, Control, Guarded, Landings, Keep, Goto, Forget, Fail, FailStep, Save, Move,
            state
<1> USE DEF Locating
<1>1. CASE Undo
  BY <1>1, HoldingStep DEF Undo
<1>2. CASE Redo
  <2>1. CASE pc' = "recover"
    <3>1. op \in OpType /\ pending.n = begun /\ op.n = begun /\ begun # 0
      BY <1>2, Held DEF Redo, Sound, Records, Numbered, Typed, TypeOK, MemoryTyped
    <3>2. pending'.n = op.n
      <4>1. \/ Save([op EXCEPT !.id = dir["temp"], !.rollback = TRUE])
            \/ UNCHANGED pending
        BY <1>2 DEF Redo
      <4>2. CASE Save([op EXCEPT !.id = dir["temp"], !.rollback = TRUE])
        BY <3>1, <4>2, RedirectFields
      <4> QED BY <3>1, <4>1, <4>2
    <3> QED BY <1>2, <3>1, <3>2 DEF Redo, SameOperation
  <2>2. CASE pc' # "recover"
    BY <1>2, <2>2, HoldingStep DEF Redo
  <2> QED BY <2>1, <2>2
<1> QED BY <1>1, <1>2

LEMMA OthersStep == ASSUME Sound, Sound', Others PROVE SameOperation \/ Dropped
<1> USE DEF Forget, state, memory
<1>1. CASE \/ \E n \in Spellings, o \in Objs : EnvPut(n, o)
           \/ \E n \in Names : EnvRemove(n)
  BY <1>1 DEF EnvPut, EnvRemove, Quiet, SameOperation
<1>2. CASE Fault \/ ProcessCrash \/ PowerFailure
  <2>1. UNCHANGED <<journal, begun, pending>> /\ (op' = op \/ op' = NoOp)
    BY <1>2 DEF Fault, Fail, ProcessCrash, PowerFailure, Quiet
  <2>2. pending # NoOp => pending.n # 0
    BY Held
  <2> QED BY <2>1, <2>2 DEF SameOperation, Dropped
<1> QED BY <1>1, <1>2 DEF Others

\* What such steps do to the outcomes.
outcomes == [n \in 1..MaxOps |-> Outcome(n)]

LEMMA SameOperationLog ==
  ASSUME Sound, Sound', SameOperation
  PROVE  UNCHANGED <<outcomes, pending.n>>
<1>1. pending.n \in {0, begun} /\ op.n \in {0, begun} /\ op'.n \in {0, begun}
  <2>1. op'.n \in {0, begun'}
    BY NoOpFields
       DEF Sound, Records, Numbered, Fresh, Active, Control, Typed, TypeOK, MemoryTyped
  <2> QED BY <2>1, OpNumber DEF Sound, Records, Numbered, SameOperation
<1>2. ASSUME NEW n \in 1..MaxOps PROVE Outcome(n)' = Outcome(n)
  BY <1>1 DEF Outcome, SameOperation
<1> QED BY <1>2 DEF outcomes, SameOperation

LEMMA DroppedLog ==
  ASSUME Sound, Sound', Dropped
  PROVE  [Log!LogNext]_<<outcomes, pending.n>>
<1>1. CASE op.n = 0 \/ \E i \in DOMAIN journal : journal[i].n = op.n
  <2>1. ASSUME NEW n \in 1..MaxOps PROVE Outcome(n)' = Outcome(n)
    BY <1>1, OpNumber, NoOpFields DEF Outcome, Dropped
  <2> QED BY <2>1 DEF outcomes, Dropped
<1>2. CASE op.n # 0 /\ ~\E i \in DOMAIN journal : journal[i].n = op.n
  <2>1. op.n = begun /\ begun \in 1..MaxOps
    BY <1>2, OpNumber DEF Sound, Typed, TypeOK, CountsTyped
  <2>2. Outcome(begun) = "begun" /\ Outcome(begun)' = "dropped"
    BY <1>2, <2>1, NoOpFields DEF Outcome, Dropped
  <2>3. \A n \in 1..MaxOps : n # begun => Outcome(n)' = Outcome(n)
    BY <2>1, NoOpFields DEF Outcome, Dropped
  <2>4. Log!Abandon(begun)
    BY <2>1, <2>2, <2>3 DEF Log!Abandon, Log!Settle, outcomes, Dropped
  <2> QED BY <2>1, <2>4 DEF Log!LogNext, Log!ops
<1> QED BY <1>1, <1>2

LEMMA BeginLog ==
  ASSUME Sound, Sound', BeginRename \/ BeginRestore
  PROVE  Log!Begin(begun + 1) /\ begun + 1 \in 1..MaxOps
<1>1. /\ pc = "idle" /\ pending = NoOp /\ begun < MaxOps /\ begun' = begun + 1
      /\ UNCHANGED <<pending, journal>> /\ op'.n = begun + 1
  BY NoOpFields DEF BeginRename, BeginRestore, Begin, NoOp
<1>2. begun \in Nat /\ MaxOps \in Nat /\ begun + 1 \in 1..MaxOps
  BY <1>1, OpNumber, ConstantsAssumption
<1>3. op.n = 0 /\ pending.n = 0 /\ \A i \in DOMAIN journal : journal[i].n \in 1..begun
  BY <1>1, NoOpFields DEF Sound, Records, Numbered
<1>4. PICK k \in 1..MaxOps : k = begun + 1
  BY <1>2
<1>5. \A m \in 1..MaxOps : m < k => Outcome(m) \in {"done", "dropped"}
  BY <1>2, <1>3, <1>4 DEF Outcome
<1>6. Outcome(k) = "none" /\ Outcome(k)' = "begun"
  BY <1>1, <1>2, <1>3, <1>4 DEF Outcome
<1>7. \A m \in 1..MaxOps : m # k => Outcome(m)' = Outcome(m)
  BY <1>1, <1>2, <1>3, <1>4 DEF Outcome
<1>8. outcomes' = [outcomes EXCEPT ![k] = "begun"]
  BY <1>6, <1>7 DEF outcomes
<1>9. Log!Begin(k)
  BY <1>1, <1>3, <1>4, <1>5, <1>6, <1>8 DEF Log!Begin, Log!Settle, Log!ops, outcomes
<1> QED BY <1>4, <1>9

LEMMA IntendLog ==
  ASSUME Sound, Sound', Intend
  PROVE  Log!Open(begun) /\ begun \in 1..MaxOps
<1>1. /\ pending = NoOp /\ op.n = begun /\ begun # 0 /\ NoRecordOf(op)
      /\ UNCHANGED <<journal, begun, op>> /\ pending' = op
  BY PositiveBegun DEF Intend, Keep, Save, Sound, Records, Numbered, Fresh, NoRecordOf
<1>2. begun \in 1..MaxOps
  BY <1>1, OpNumber DEF Sound, Typed, TypeOK, CountsTyped
<1>3. Outcome(begun) = "begun" /\ Outcome(begun)' = "open"
  BY <1>1, <1>2, NoOpFields DEF Outcome, NoRecordOf
<1>4. \A n \in 1..MaxOps : n # begun => Outcome(n)' = Outcome(n)
  BY <1>1, <1>2, NoOpFields DEF Outcome
<1>5. outcomes' = [outcomes EXCEPT ![begun] = "open"]
  BY <1>1, <1>2, <1>3, <1>4 DEF outcomes
<1> QED BY <1>1, <1>2, <1>3, <1>5, NoOpFields DEF Log!Open, Log!Settle, outcomes

LEMMA EmitLog ==
  ASSUME Sound, Sound', Emit \/ Reemit
  PROVE  [Log!LogNext]_<<outcomes, pending.n>>
<1>1. /\ pending.n = begun /\ begun # 0 /\ op.n = begun
      /\ UNCHANGED <<pending, op, begun>>
      /\ journal' = Append(journal, [n |-> op.n, kind |-> op.kind, id |-> op.id, marker |-> op.marker])
  BY Held DEF Emit, Reemit, EmitSuccess, Keep, Active, Control, Sound, Records, Numbered
<1>2. begun \in 1..MaxOps
  BY <1>1, OpNumber DEF Sound, Typed, TypeOK, CountsTyped
<1>3. /\ \E i \in DOMAIN journal' : journal'[i].n = begun
      /\ \A n \in 1..MaxOps : n # begun =>
           ((\E i \in DOMAIN journal' : journal'[i].n = n)
              <=> \E i \in DOMAIN journal : journal[i].n = n)
  <2>1. /\ DOMAIN journal' = 1..Len(journal) + 1 /\ DOMAIN journal = 1..Len(journal)
        /\ Len(journal) \in Nat
        /\ \A i \in DOMAIN journal : journal'[i] = journal[i]
        /\ journal'[Len(journal) + 1].n = begun
    BY <1>1 DEF Sound, Typed, TypeOK, StateTyped
  <2> QED BY <2>1
<1>4. Outcome(begun)' = "done"
  BY <1>1, <1>2, <1>3 DEF Outcome
<1>5. \A n \in 1..MaxOps : n # begun => Outcome(n)' = Outcome(n)
  BY <1>1, <1>2, <1>3 DEF Outcome
<1>6. CASE Outcome(begun) = "done"
  BY <1>1, <1>4, <1>5, <1>6 DEF outcomes
<1>7. CASE Outcome(begun) # "done"
  <2>1. Outcome(begun) = "open"
    BY <1>1, <1>2, <1>7 DEF Outcome
  <2>2. Log!Commit(begun)
    BY <1>1, <1>2, <1>4, <1>5, <2>1 DEF Log!Commit, Log!Settle, outcomes
  <2> QED BY <1>2, <2>2 DEF Log!LogNext, Log!ops
<1> QED BY <1>6, <1>7

LEMMA ClearLog ==
  ASSUME Sound, Sound', Clear
  PROVE  Log!Release(begun) /\ begun \in 1..MaxOps
<1>1. /\ pending.n = begun /\ begun # 0
      /\ UNCHANGED <<journal, begun>> /\ pending' = NoOp /\ op' = NoOp
  BY Held DEF Clear, Forget, Keep, Active, Control
<1>2. begun \in 1..MaxOps
  BY <1>1, OpNumber DEF Sound, Typed, TypeOK, CountsTyped
<1>3. \A n \in 1..MaxOps : n # begun => Outcome(n)' = Outcome(n)
  BY <1>1, <1>2, OpNumber, NoOpFields DEF Outcome
<1>4. CASE \E i \in DOMAIN journal : journal[i].n = begun
  <2>1. Outcome(begun) = "done" /\ Outcome(begun)' = "done"
    BY <1>1, <1>2, <1>4 DEF Outcome
  <2> QED BY <1>1, <1>2, <1>3, <2>1, NoOpFields DEF Log!Release, outcomes
<1>5. CASE ~\E i \in DOMAIN journal : journal[i].n = begun
  <2>1. Outcome(begun) = "open" /\ Outcome(begun)' = "dropped"
    BY <1>1, <1>2, <1>5, NoOpFields DEF Outcome
  <2>2. outcomes' = [outcomes EXCEPT ![begun] = "dropped"]
    BY <1>1, <1>2, <1>3, <2>1 DEF outcomes
  <2> QED BY <1>1, <1>2, <2>1, <2>2, NoOpFields DEF Log!Release, Log!Settle, outcomes
<1> QED BY <1>4, <1>5

\* The protocol implements the operation log: through every crash, recovery and
\* interference operations run one at a time, are settled once, and become done
\* only while they hold the pending record.
THEOREM ProtocolImplementsLog == Spec => ImplementsLog
<1> DEFINE view == <<outcomes, pending.n>>
<1>1. Init => Log!LogInit
  BY NoOpFields DEF Init, Log!LogInit, Log!ops, Outcome
<1>2. ASSUME Sound, Sound', Next PROVE [Log!LogNext]_view
  <2>1. CASE SameOperation \/ Dropped
    BY <1>2, <2>1, SameOperationLog, DroppedLog
  <2>2. CASE BeginRename \/ BeginRestore
    BY <1>2, <2>2, BeginLog DEF Log!LogNext, Log!ops
  <2>3. CASE Intend
    BY <1>2, <2>3, IntendLog DEF Log!LogNext, Log!ops
  <2>4. CASE Emit \/ Reemit
    BY <1>2, <2>4, EmitLog
  <2>5. CASE Clear
    BY <1>2, <2>5, ClearLog DEF Log!LogNext, Log!ops
  <2>6. Next => \/ BeginRename \/ BeginRestore \/ Intend \/ Emit \/ Reemit \/ Clear
                \/ SameOperation \/ Dropped
    BY <1>2, ActiveStep, EarlyStep, RecoverStep, LocateStep, OthersStep
       DEF Next, Program, Progress, Moving, Landing, Ending, Recovery
  <2> QED BY <1>2, <2>1, <2>2, <2>3, <2>4, <2>5, <2>6
<1>3. UNCHANGED vars => UNCHANGED view
  BY DEF vars, state, memory, outcomes, Outcome
<1>4. Sound /\ Sound' /\ [Next]_vars => [Log!LogNext]_view
  BY <1>2, <1>3
<1> QED BY SoundAlways, <1>1, <1>4, PTL DEF Spec, ImplementsLog, Log!LogSpec, outcomes

----------------------------------------------------------------------------
(* No record is written twice.                                             *)

\* What the journal says of the latest operation: nothing, at most once, and at last.
Unrecorded == \A i \in DOMAIN journal : journal[i].n # begun
Single ==
  \A i, j \in DOMAIN journal : journal[i].n = begun /\ journal[j].n = begun => i = j
Last == Recorded([NoOp EXCEPT !.n = begun])
\* Its marker is still on an object.
Keyed == \E m \in marks : m[2] = begun /\ m[3] = pending.gen

\* Until it is closed the operation has one record at most, which is the record at hand,
\* and its identity is not final unless it is rolled back.
Settlings == {"committed", "not-started"}
Recording ==
  /\ pc \in Active \ {"reemit", "hold", "clear", "cancel"}
  /\ pc \in {"unmark", "finalize"} => task \in {"complete", "roll"}
Traced ==
  Recording =>
    /\ Single /\ rec \in {NoRec, Last} /\ (rec = NoRec => Unrecorded)
    /\ op.final => op.rollback

\* What the steps that write a record, and those after them, rely on.
Ready ==
  /\ pc \in {"idle", "check", "intend"} => rec = NoRec
  /\ pc \in {"check", "intend"} => ~op.final
  /\ pc = "emit" => rec = NoRec /\ task = "complete" /\ (op.marker => op.phase = "committed")
  /\ pc \in {"move"} \cup Guarded /\ leg = "roll" => op.rollback
  /\ pc = "rolled" => op.rollback
  /\ pc \in {"unmark", "finalize"} =>
       /\ task = "complete" => op.phase = "committed" /\ rec # NoRec
       /\ task = "roll" => op.rollback
       /\ task \in {"cancel", "abandon"} => op.phase = "not-started"
  /\ pc \in {"unmark", "finalize"} => op.gen = pending.gen
  /\ pc = "finalize" /\ task = "complete" => ~Keyed
  /\ pc = "reemit" =>
       /\ Single /\ ~Unrecorded /\ Last.id # op.id
       /\ op.phase = "committed" /\ op.final /\ ~op.rollback /\ ~Keyed

\* A second record is written for the final identity of an operation that is committed,
\* and its marker is gone for good.
Lasting ==
  pending # NoOp =>
    /\ Single \/ pending.phase = "not-started"
       \/ (pending.phase = "committed" /\ pending.final /\ ~Keyed /\ Last.id = pending.id)
    /\ pending.final => pending.phase \in Settlings \/ pending.rollback
    /\ pending.final /\ pending.phase = "committed" /\ ~pending.rollback => ~Keyed /\ ~Unrecorded

Once == Sound /\ Traced /\ Ready /\ Lasting /\ RecordedOnce

LEMMA SameJournal ==
  ASSUME UNCHANGED <<journal, begun>>
  PROVE  /\ Single' = Single /\ Unrecorded' = Unrecorded /\ Last' = Last
         /\ RecordedOnce' = RecordedOnce
BY DEF Single, Unrecorded, Last, Recorded, RecordedOnce

LEMMA SameKeys ==
  ASSUME UNCHANGED <<marks, begun>>, pending'.gen = pending.gen
  PROVE  Keyed' = Keyed
BY DEF Keyed

LEMMA LastIsRecorded == ASSUME NEW o, o.n = begun PROVE Recorded(o) = Last
BY DEF Recorded, Last, NoOp

LEMMA LastMeans ==
  ASSUME Typed, begun # 0
  PROVE  /\ Last = NoRec <=> Unrecorded
         /\ Last # NoRec => Last.n = begun
<1> DEFINE o == [NoOp EXCEPT !.n = begun]
           own == {i \in DOMAIN journal : journal[i].n = o.n}
<1>1. o.n = begun
  BY DEF NoOp
<1>2. Last = NoRec <=> Unrecorded
  BY <1>1, RecordedMeans DEF Last, Unrecorded, NoRecordOf
<1>3. CASE own # {}
  <2>1. \E k \in own : \A j \in own : j <= k
    BY <1>3 DEF Typed, Latest
  <2>2. (CHOOSE k \in own : \A j \in own : j <= k) \in own
    BY <2>1
  <2> QED BY <1>1, <1>2, <1>3, <2>2 DEF Last, Recorded
<1>4. CASE own = {}
  BY <1>2, <1>4 DEF Last, Recorded
<1> QED BY <1>2, <1>3, <1>4

\* A record of the operation, where there is one at most, is the last.
LEMMA OnlyLast ==
  ASSUME Typed, Single, NEW i \in DOMAIN journal, journal[i].n = begun
  PROVE  journal[i] = Last
<1> DEFINE o == [NoOp EXCEPT !.n = begun]
           own == {j \in DOMAIN journal : journal[j].n = o.n}
<1>1. o.n = begun
  BY DEF NoOp
<1>2. own = {i}
  BY <1>1 DEF Single
<1>3. i <= i
  BY DEF Typed, TypeOK, StateTyped
<1> QED BY <1>2, <1>3 DEF Last, Recorded

\* Which changes of an operation leave its marker alone.
LEMMA MarkerKept ==
  ASSUME NEW o \in OpType, NEW e, NEW p
  PROVE  LET i == [o EXCEPT !.id = e]
             c == [o EXCEPT !.phase = p]
             m == [o EXCEPT !.id = e, !.phase = "moving"]
             f == [o EXCEPT !.id = e, !.final = TRUE]
             r == [o EXCEPT !.id = e, !.rollback = TRUE]
         IN  /\ i.marker = o.marker /\ i.gen = o.gen
             /\ c.marker = o.marker /\ c.gen = o.gen
             /\ m.marker = o.marker /\ m.gen = o.gen
             /\ f.marker = o.marker /\ f.gen = o.gen
             /\ r.marker = o.marker /\ r.gen = o.gen
BY DEF OpType

LEMMA MarkerDrawn ==
  ASSUME NEW o \in OpType
  PROVE  LET d == [o EXCEPT !.marker = TRUE, !.gen = @ + 1, !.phase = "marker-intent"]
         IN  d.marker /\ d.gen = o.gen + 1
BY DEF OpType

LEMMA MarkerDropped ==
  ASSUME NEW o \in OpType, NEW e PROVE ~RollBack(o, e).marker /\ RollBack(o, e).gen = o.gen
BY DEF OpType, RollBack

\* What they leave alone otherwise.
LEMMA FinalKept ==
  ASSUME NEW o \in OpType, NEW e, NEW p
  PROVE  LET i == [o EXCEPT !.id = e]
             c == [o EXCEPT !.phase = p]
             m == [o EXCEPT !.id = e, !.phase = "moving"]
             f == [o EXCEPT !.id = e, !.final = TRUE]
             r == [o EXCEPT !.id = e, !.rollback = TRUE]
             d == [o EXCEPT !.marker = TRUE, !.gen = @ + 1, !.phase = "marker-intent"]
         IN  /\ i.final = o.final /\ c.final = o.final /\ m.final = o.final
             /\ r.final = o.final /\ d.final = o.final /\ f.final = TRUE
             /\ RollBack(o, e).final = o.final
BY DEF OpType, RollBack

\* What the invariant says of the operation at hand.
LEMMA AtHand ==
  ASSUME Sound
  PROVE  /\ op \in OpType /\ pending \in OpType /\ seen \in Entry
         /\ begun > 0 => begun # 0
         /\ pc \in Active => /\ op.n = begun /\ pending.n = begun /\ begun > 0
                             /\ op.n # 0 /\ pending # NoOp
                             /\ op = pending \/ Abandoning
BY ConstantsAssumption, NoOpFields
   DEF Sound, Typed, TypeOK, MemoryTyped, StateTyped, CountsTyped, Records, Numbered

LEMMA NoOpFinal == NoOp.final = FALSE
BY DEF NoOp

\* What the single steps do to the operation.
LEMMA StampChanges ==
  ASSUME Sound, Stamp
  PROVE  /\ op = pending /\ pending' = op' /\ op'.n = op.n /\ op'.gen = op.gen
         /\ op'.rollback = op.rollback /\ op'.phase = "moving" /\ op'.final = op.final
BY AtHand, IdentityFields, MarkerKept, FinalKept
   DEF Stamp, Goto, Save, Active, Control, Guarded, Abandoning

LEMMA FinalizeChanges ==
  ASSUME Sound, Finalize
  PROVE  /\ pending' = op' /\ op'.n = op.n /\ op'.gen = op.gen /\ op'.id = seen
         /\ op'.rollback = op.rollback /\ op'.phase = op.phase /\ op'.final = TRUE
BY AtHand, IdentityFields, MarkerKept, FinalKept DEF Finalize, Goto, Save

\* A phase of its own, for an operation with a marker.
Phased(p) ==
  /\ op = pending /\ pending' = op' /\ op'.n = op.n /\ op'.gen = op.gen /\ op'.id = op.id
  /\ op'.rollback = op.rollback /\ op'.final = op.final /\ op'.marker = op.marker
  /\ op.marker => op'.phase = p
  /\ ~op.marker => op' = op

LEMMA PhaseChanges ==
  ASSUME Sound, NEW p, op = pending,
         IF op.marker THEN Save([op EXCEPT !.phase = p]) ELSE UNCHANGED <<op, pending>>
  PROVE  Phased(p)
<1>1. CASE op.marker /\ op' = [op EXCEPT !.phase = p] /\ pending' = op'
  <2> DEFINE c == [op EXCEPT !.phase = p]
  <2>1. op \in OpType
    BY AtHand
  <2>2. c.marker = op.marker /\ c.gen = op.gen /\ c.final = op.final
    BY <2>1 DEF OpType
  <2>3. c.n = op.n /\ c.id = op.id /\ c.rollback = op.rollback /\ c.phase = p
    BY <2>1 DEF OpType
  <2> HIDE DEF c
  <2>4. op' = c
    BY <1>1 DEF c
  <2> QED BY <1>1, <2>2, <2>3, <2>4 DEF Phased
<1>2. CASE ~op.marker /\ UNCHANGED <<op, pending>>
  BY <1>2 DEF Phased
<1> QED BY <1>1, <1>2 DEF Save

LEMMA CompleteChanges == ASSUME Sound, Complete PROVE Phased("committed")
<1>1. op = pending
  BY AtHand DEF Complete, Active, Control, Abandoning
<1> QED BY <1>1, PhaseChanges DEF Complete

LEMMA CancelChanges == ASSUME Sound, Cancel PROVE Phased("not-started")
<1>1. op = pending
  BY AtHand DEF Cancel, Active, Control, Abandoning
<1> QED BY <1>1, PhaseChanges DEF Cancel

LEMMA FallBackChanges ==
  ASSUME Sound, FallBack
  PROVE  /\ op = pending /\ pending' = op' /\ op'.n = op.n /\ op'.rollback = op.rollback
         /\ op'.final = op.final /\ (op' = op \/ op'.phase = "marker-intent")
<1>1. op = pending
  BY AtHand DEF FallBack, Active, Control, Abandoning
<1>2. CASE Save(op)
  BY <1>1, <1>2 DEF Save
<1>3. CASE Save([op EXCEPT !.marker = TRUE, !.gen = @ + 1, !.phase = "marker-intent"])
  BY <1>1, <1>3, AtHand, DrawnFields, FinalKept DEF Save
<1> QED BY <1>2, <1>3 DEF FallBack

LEMMA AdoptChanges ==
  ASSUME Sound, Adopt
  PROVE  /\ op = pending /\ pending' = op' /\ op'.n = op.n /\ op'.rollback = op.rollback
         /\ op'.phase = op.phase /\ op'.gen = op.gen /\ op'.final = op.final
<1> DEFINE e == Lookup(dir, Target(leg))
<1>1. op = pending
  BY AtHand DEF Adopt, Active, Control, Guarded, Abandoning
<1>2. CASE Save([op EXCEPT !.id = e])
  BY <1>1, <1>2, AtHand, IdentityFields, MarkerKept, FinalKept DEF Save
<1>3. CASE UNCHANGED <<op, pending>>
  BY <1>1, <1>3
<1> QED BY <1>2, <1>3 DEF Adopt

\* The marker found by recovery.
LEMMA WithMarkChanges ==
  ASSUME Sound, pending # NoOp, Marked(pending) # {}
  PROVE  Keyed /\ WithMark.gen = pending.gen /\ WithMark.final = pending.final
<1>1. \E n \in Names : <<dir[n].obj, pending.n, pending.gen>> \in marks
  BY DEF Marked
<1>2. pending.n = begun
  BY DEF Sound, Records, Numbered
<1>3. Keyed
  BY <1>1, <1>2 DEF Keyed
<1> QED BY <1>3, AtHand, MarkerKept, FinalKept DEF WithMark

\* The invariant and the step shapes are visible in the lemmas on single steps.
StillOnce == Traced' /\ Ready' /\ Lasting' /\ RecordedOnce'

USE DEF Once, Traced, Ready, Lasting, Recording, Settlings, StillOnce,
        Sound, Records, Numbered, Faithful, Forward, Active, Abandoning, Fresh,
        Control, Guarded, Landings, Typed, TypeOK, MemoryTyped, StateTyped,
        Keep, Goto, Forget, Fail, FailStep, Save, Move, Still, Sync, disks, state, budget

LEMMA CheckOnce == ASSUME Once, Check PROVE StillOnce
BY SameJournal, SameKeys DEF Check

LEMMA IntendOnce == ASSUME Once, Intend PROVE StillOnce
<1>1. Unrecorded => Single
  BY DEF Unrecorded, Single
<1>2. Unrecorded
  BY DEF Unrecorded, NoRecordOf, Intend
<1> QED BY <1>1, <1>2, SameJournal DEF Intend

LEMMA VerifyOnce == ASSUME Once, Verify PROVE StillOnce
BY SameJournal, SameKeys DEF Verify

LEMMA UnstagedOnce == ASSUME Once, Unstaged PROVE StillOnce
BY SameJournal, SameKeys DEF Unstaged

LEMMA RolledOnce == ASSUME Once, Rolled PROVE StillOnce
BY SameJournal, SameKeys DEF Rolled

LEMMA PlacedOnce == ASSUME Once, Placed \/ Finished PROVE StillOnce
BY SameJournal, SameKeys DEF Placed, Finished

LEMMA RestartOnce == ASSUME Once, Restart PROVE StillOnce
BY SameJournal, SameKeys DEF Restart

LEMMA RecoverNothingOnce == ASSUME Once, RecoverNothing PROVE StillOnce
BY SameJournal, SameKeys DEF RecoverNothing

LEMMA HoldOnce == ASSUME Once, Hold PROVE StillOnce
BY SameJournal, SameKeys DEF Hold

LEMMA ClearOnce == ASSUME Once, Clear PROVE StillOnce
BY SameJournal, NoOpFinal DEF Clear

LEMMA HandleFailureOnce == ASSUME Once, HandleFailure PROVE StillOnce
BY SameJournal, SameKeys DEF HandleFailure

LEMMA UndoOnce == ASSUME Once, Undo PROVE StillOnce
BY SameJournal, SameKeys DEF Undo, Locating

LEMMA FaultOnce == ASSUME Once, Fault PROVE StillOnce
BY SameJournal, SameKeys DEF Fault

LEMMA ProcessCrashOnce == ASSUME Once, ProcessCrash PROVE StillOnce
BY SameJournal, SameKeys DEF ProcessCrash

LEMMA PowerFailureOnce == ASSUME Once, PowerFailure PROVE StillOnce
BY SameJournal, SameKeys DEF PowerFailure, Quiet

LEMMA EnvironmentOnce ==
  ASSUME Once, \/ \E n \in Spellings, o \in Objs : EnvPut(n, o)
               \/ \E n \in Names : EnvRemove(n)
  PROVE  StillOnce
<1>1. UNCHANGED <<marks, pending, journal, begun, memory>>
  BY DEF EnvPut, EnvRemove, Quiet
<1> QED BY <1>1, SameJournal, SameKeys DEF memory

LEMMA MoveExclusiveOnce == ASSUME Once, MoveExclusive PROVE StillOnce
<1>1. UNCHANGED <<marks, pending, journal, begun>>
  BY DEF MoveExclusive
<1> QED BY <1>1, SameJournal, SameKeys DEF MoveExclusive, Land, After, Legs

LEMMA GuardedRenameOnce == ASSUME Once, GuardedRename PROVE StillOnce
<1>1. UNCHANGED <<marks, pending, journal, begun>>
  BY DEF GuardedRename
<1> QED BY <1>1, SameJournal, SameKeys DEF GuardedRename

LEMMA MarkOnce == ASSUME Once, Mark PROVE StillOnce
<1>1. UNCHANGED <<pending, journal, begun, op, leg, task>> \/ Fail
  BY DEF Mark
<1>2. pc = "mark" /\ op = pending /\ pc' \in {"stamp", "failed", "down"} /\ UNCHANGED <<pending, journal, begun>>
  BY AtHand DEF Mark
<1>3. op.final => op.rollback
  BY <1>2
<1>4. CASE pc' = "stamp" /\ UNCHANGED <<op, leg, task, rec>>
  BY <1>2, <1>3, <1>4, SameJournal
<1>5. CASE pc' # "stamp"
  BY <1>2, <1>3, <1>5, SameJournal
<1> QED BY <1>2, <1>4, <1>5 DEF Mark

LEMMA BeginsOnce == ASSUME Once, BeginRename \/ BeginRestore PROVE StillOnce
<1>1. /\ pc' = "check" /\ pending' = NoOp /\ rec' = NoRec /\ op'.final = FALSE
      /\ UNCHANGED journal
  BY DEF BeginRename, BeginRestore, Begin, NoOp
<1> QED BY <1>1 DEF RecordedOnce

LEMMA FallBackOnce == ASSUME Once, FallBack PROVE StillOnce
<1>1. /\ pc = "move" /\ pc' \in {"mark", "down", "failed"} /\ UNCHANGED <<journal, begun, leg, task, rec>>
  BY DEF FallBack
<1>2. op.final => op.rollback
  BY <1>1, FallBackChanges DEF FallBack
<1>3. CASE pc' = "mark" /\ op' = op
  BY <1>1, <1>2, <1>3, FallBackChanges, SameJournal
<1>4. CASE pc' = "mark" /\ op'.phase = "marker-intent"
  BY <1>1, <1>2, <1>4, FallBackChanges, SameJournal
<1> QED BY <1>1, <1>3, <1>4, FallBackChanges DEF FallBack

LEMMA StampOnce == ASSUME Once, Stamp PROVE StillOnce
<1>1. pc = "stamp" /\ pc' = "verify" /\ UNCHANGED <<marks, journal, begun, leg, task, rec>>
  BY DEF Stamp
<1> QED BY <1>1, StampChanges, SameJournal

LEMMA AdoptOnce == ASSUME Once, Adopt PROVE StillOnce
<1>1. /\ pc = "adopt" /\ pc' = After(leg) /\ leg' = IF leg = "unspell" THEN "respell" ELSE leg
      /\ UNCHANGED <<marks, journal, begun, task, rec>>
  BY DEF Adopt, Land
<1> QED BY <1>1, AdoptChanges, SameJournal DEF After, Legs

LEMMA StagedOnce == ASSUME Once, Staged PROVE StillOnce
<1>a. pc = "staged" /\ UNCHANGED <<journal, begun>> /\ marks' = marks
  BY DEF Staged
<1>b. op = pending
  BY <1>a, AtHand
<1>c. ~op.rollback
  BY <1>a, <1>b
<1>d. Single /\ ~op.final /\ rec \in {NoRec, Last} /\ (rec = NoRec => Unrecorded)
  BY <1>a, <1>c
<1>1. pc = "staged" /\ op = pending /\ ~op.rollback /\ ~op.final /\ Single
      /\ UNCHANGED <<marks, journal, begun>>
  BY <1>a, <1>b, <1>c, <1>d
<1>2. CASE Fail /\ UNCHANGED pending
  BY <1>1, <1>2, SameJournal, SameKeys DEF Staged
<1>3. CASE Move("place") /\ UNCHANGED <<op, pending>>
  BY <1>1, <1>3, SameJournal, SameKeys DEF Staged
<1>4. CASE Save(RollBack(op, dir["temp"])) /\ Move("unstage")
  <2>1. op'.final = op.final /\ op'.rollback /\ op'.phase = "none" /\ pending' = op'
    BY <1>4, AtHand, RollBackFields, FinalKept
  <2>2. pc' = "move" /\ leg' = "unstage" /\ rec' = rec
    BY <1>4
  <2> QED BY <1>1, <2>1, <2>2, SameJournal
<1> QED BY <1>2, <1>3, <1>4 DEF Staged

LEMMA CompleteOnce == ASSUME Once, Complete PROVE StillOnce
<1>1. /\ pc = "complete" /\ task' = "complete"
      /\ pc' = IF rec = NoRec THEN "emit" ELSE IF op.marker THEN "unmark" ELSE "hold"
      /\ UNCHANGED <<marks, journal, begun, rec>>
  BY DEF Complete
<1> QED BY <1>1, CompleteChanges, SameJournal, SameKeys DEF Phased

LEMMA CancelOnce == ASSUME Once, Cancel PROVE StillOnce
<1>1. /\ pc = "cancel" /\ task' = "cancel" /\ pc' = IF op.marker THEN "unmark" ELSE "clear"
      /\ UNCHANGED <<marks, journal, begun, rec>>
  BY DEF Cancel
<1> QED BY <1>1, CancelChanges, SameJournal, SameKeys DEF Phased

LEMMA RecoverNotStartedOnce == ASSUME Once, RecoverNotStarted PROVE StillOnce
<1>1. pending # NoOp /\ pending.phase = "not-started" /\ UNCHANGED <<marks, journal, begun, pending>>
  BY DEF RecoverNotStarted, Recovering
<1>2. CASE pc' = "clear"
  BY <1>1, <1>2, SameJournal, SameKeys
<1>3. CASE pc' = "unmark" /\ op' = WithMark /\ task' = "abandon" /\ Marked(pending) # {}
  BY <1>1, <1>3, WithMarkFields, WithMarkChanges, SameJournal, SameKeys
<1> QED BY <1>2, <1>3 DEF RecoverNotStarted, Onward

LEMMA RedoOnce == ASSUME Once, Redo PROVE StillOnce
<1>1. /\ pc = "locate" /\ op = pending /\ ~op.rollback /\ ~op.final /\ Single
      /\ UNCHANGED <<marks, journal, begun>>
  BY AtHand DEF Redo, Locating
<1>2. CASE /\ Save([op EXCEPT !.id = dir["temp"], !.rollback = TRUE])
           /\ Goto("recover") /\ UNCHANGED <<leg, task, mode, seen, rec>>
  <2>1. op'.final = op.final /\ pending' = op'
    BY <1>2, AtHand, FinalKept
  <2> QED BY <1>1, <1>2, <2>1, SameJournal
<1>3. CASE UNCHANGED pending /\ Fail
  BY <1>1, <1>3, SameJournal, SameKeys
<1>4. CASE UNCHANGED <<pending, op>>
  BY <1>1, <1>4, SameJournal, SameKeys DEF Redo
<1> QED BY <1>2, <1>3, <1>4 DEF Redo

\* What recovery finds recorded.
LEMMA Unsettled ==
  ASSUME Once, pending # NoOp
  PROVE  /\ pending.n = begun /\ begun # 0 /\ Recorded(pending) = Last /\ (Last = NoRec <=> Unrecorded)
         /\ Unrecorded => Single
         /\ pending.rollback /\ pending.phase = "committed" => Unrecorded
<1>1. pending.n = begun /\ begun # 0
  BY NoOpFields
<1>2. Unrecorded => Single
  BY DEF Unrecorded, Single
<1>3. pending.rollback /\ pending.phase = "committed" => Unrecorded
  BY <1>1 DEF NoRecordOf, Unrecorded
<1> QED BY <1>1, <1>2, <1>3, LastIsRecorded, LastMeans

LEMMA RecoverCommittedOnce == ASSUME Once, RecoverCommitted PROVE StillOnce
<1>1. /\ pending # NoOp /\ pending.phase = "committed" /\ Last # NoRec /\ pc = "recover"
      /\ UNCHANGED <<marks, journal, begun>>
  BY Unsettled DEF RecoverCommitted, Recovering, Settled
<1>2. ~Unrecorded /\ ~pending.rollback /\ Recorded(pending) = Last
  BY <1>1, Unsettled
<1>3. CASE Marked(pending) # {} /\ Save(WithMark) /\ Onward("complete") /\ rec' = Recorded(pending)
  <2>1. Single /\ ~pending.final
    BY <1>1, <1>2, <1>3, WithMarkChanges
  <2> QED BY <1>1, <1>2, <1>3, <2>1, WithMarkFields, WithMarkChanges, SameJournal, SameKeys DEF Onward
<1>4. CASE /\ pending.final /\ op' = pending /\ UNCHANGED <<pending, task>> /\ rec' = Recorded(pending)
           /\ Onward(IF rec'.id # pending.id THEN "reemit" ELSE "hold")
  BY <1>1, <1>2, <1>4, SameJournal, SameKeys DEF Onward
<1>5. CASE GiveUp
  BY <1>1, <1>5, SameJournal, SameKeys DEF GiveUp
<1>6. CASE op' = pending /\ Onward("clear") /\ UNCHANGED <<pending, task, rec>>
  BY <1>1, <1>6, SameJournal, SameKeys DEF Onward
<1> QED BY <1>3, <1>4, <1>5, <1>6 DEF RecoverCommitted

LEMMA RecoverMovedOnce == ASSUME Once, RecoverMoved PROVE StillOnce
<1>1. /\ pending # NoOp /\ pending.phase # "not-started" /\ pc = "recover"
      /\ pending.phase = "committed" => Unrecorded
      /\ UNCHANGED <<marks, journal, begun>>
  BY Unsettled DEF RecoverMoved, Recovering, Settled
<1>2. Recorded(pending) = Last /\ (Last = NoRec => Unrecorded)
  BY <1>1, Unsettled
<1>3. Single /\ (pending.final => pending.rollback)
  BY <1>1, Unsettled
<1>4. CASE Marked(pending) # {} /\ Save(WithMark) /\ Onward("locate") /\ rec' = Recorded(pending)
  BY <1>1, <1>2, <1>3, <1>4, WithMarkFields, WithMarkChanges, SameJournal, SameKeys DEF Onward
<1>5. CASE op' = pending /\ UNCHANGED <<pending, task>> /\ Onward("locate") /\ rec' = Recorded(pending)
  BY <1>1, <1>2, <1>3, <1>5, SameJournal, SameKeys DEF Onward
<1>6. CASE Save(RollBack(pending, dir["temp"])) /\ Onward("recover")
  <2>1. pending'.final = pending.final /\ pending'.rollback /\ pending'.phase = "none"
    BY <1>6, AtHand, RollBackFields, FinalKept
  <2> QED BY <1>1, <1>3, <1>6, <2>1, SameJournal DEF Onward
<1>7. CASE GiveUp
  BY <1>1, <1>7, SameJournal, SameKeys DEF GiveUp
<1> QED BY <1>4, <1>5, <1>6, <1>7 DEF RecoverMoved

\* A record is written.
LEMMA Appends ==
  ASSUME Sound, EmitSuccess, op.n = begun, begun # 0, UNCHANGED begun
  PROVE  /\ rec' # NoRec /\ rec'.n = begun /\ rec'.id = op.id /\ Last' = rec' /\ ~Unrecorded'
         /\ \A i \in DOMAIN journal' : i \in DOMAIN journal \/ i = Len(journal) + 1
         /\ journal'[Len(journal) + 1] = rec'
         /\ \A i \in DOMAIN journal : journal'[i] = journal[i]
<1> DEFINE last == Len(journal) + 1
           o == [NoOp EXCEPT !.n = begun]
           own == {i \in DOMAIN journal' : journal'[i].n = o.n}
<1>1. rec'.n = begun /\ rec'.id = op.id /\ journal' = Append(journal, rec')
  BY DEF EmitSuccess
<1>2. /\ DOMAIN journal' = 1..last /\ DOMAIN journal = 1..Len(journal) /\ Len(journal) \in Nat
      /\ \A i \in DOMAIN journal : journal'[i] = journal[i]
      /\ journal'[last] = rec'
  BY <1>1
<1>3. o.n = begun
  BY DEF NoOp
<1>4. last \in own /\ \A j \in own : j <= last
  BY <1>1, <1>2, <1>3
<1>5. (CHOOSE k \in own : \A j \in own : j <= k) = last
  <2>1. \A k \in own : k \in Nat /\ k <= last
    BY <1>2, <1>4
  <2>2. \A k \in own : (\A j \in own : j <= k) => k = last
    BY <1>2, <1>4, <2>1
  <2> QED BY <1>4, <2>2
<1>6. Last' = IF own = {} THEN NoRec ELSE journal'[CHOOSE k \in own : \A j \in own : j <= k]
  BY DEF Last, Recorded
<1>7. Last' = rec'
  BY <1>2, <1>4, <1>5, <1>6
<1>8. rec' # NoRec
  BY <1>1 DEF NoRec
<1>9. last \in DOMAIN journal' /\ journal'[last].n = begun
  BY <1>1, <1>2
<1>10. ~Unrecorded'
  BY <1>9 DEF Unrecorded
<1> QED BY <1>1, <1>2, <1>7, <1>8, <1>10

LEMMA EmitOnce == ASSUME Once, Emit PROVE StillOnce
<1> DEFINE last == Len(journal) + 1
<1>1. /\ pc = "emit" /\ EmitSuccess /\ pc' = IF op.marker THEN "unmark" ELSE "hold"
      /\ UNCHANGED <<marks, begun, pending, op, leg, task>>
  BY DEF Emit
<1>2. op = pending /\ op.n = begun /\ begun # 0 /\ pending # NoOp
  BY <1>1, AtHand
<1>3. Unrecorded /\ ~op.rollback /\ ~op.final /\ task = "complete"
      /\ (op.marker => op.phase = "committed")
  BY <1>1, <1>2
<1>4. Last' = rec' /\ rec' # NoRec
  BY <1>1, <1>2, Appends
<1>5. \A i \in DOMAIN journal' :
        (i \in DOMAIN journal /\ journal'[i] = journal[i]) \/ (i = last /\ journal'[i].n = begun)
  BY <1>1, <1>2, Appends
<1>6. Single' /\ RecordedOnce'
  BY <1>1, <1>3, <1>5 DEF Single, Unrecorded, RecordedOnce
<1>7. CASE op.marker
  BY <1>1, <1>2, <1>3, <1>4, <1>6, <1>7
<1>8. CASE ~op.marker
  BY <1>1, <1>2, <1>3, <1>4, <1>6, <1>8
<1> QED BY <1>7, <1>8

LEMMA ReemitOnce == ASSUME Once, Reemit PROVE StillOnce
<1> DEFINE last == Len(journal) + 1
<1>1. pc = "reemit" /\ EmitSuccess /\ pc' = "hold" /\ UNCHANGED <<marks, begun, pending, op, leg, task>>
  BY DEF Reemit
<1>2. op = pending /\ op.n = begun /\ begun # 0 /\ pending # NoOp
  BY <1>1, AtHand
<1>3. /\ Single /\ Last.id # op.id /\ op.phase = "committed" /\ op.final /\ ~op.rollback /\ ~Keyed
  BY <1>1
<1>4. Last' = rec' /\ rec'.id = op.id /\ ~Unrecorded'
  BY <1>1, <1>2, Appends
<1>5. \A i \in DOMAIN journal' :
        (i \in DOMAIN journal /\ journal'[i] = journal[i])
        \/ (i = last /\ journal'[i].n = begun /\ journal'[i].id = op.id)
  BY <1>1, <1>2, Appends
<1>6. \A i \in DOMAIN journal : journal[i].n = begun => journal[i].id # op.id
  BY <1>3, OnlyLast
<1>7. RecordedOnce'
  BY <1>5, <1>6 DEF RecordedOnce
<1>8. Keyed' = Keyed
  BY <1>1, SameKeys
<1> QED BY <1>1, <1>2, <1>3, <1>4, <1>7, <1>8

LEMMA UnmarkOnce == ASSUME Once, Unmark PROVE StillOnce
<1> DEFINE e == CASE task = "complete" -> Lookup(dir, New(op))
                  [] task \in {"cancel", "roll"} -> Lookup(dir, Old(op))
                  [] task = "abandon" -> op.id
           key == <<e.obj, op.n, op.gen>>
<1>1. CASE FailStep
  BY <1>1, SameJournal, SameKeys DEF Unmark
<1>2. CASE /\ e = op.id /\ marks' = marks \ {key} /\ pc' = "finalize"
           /\ UNCHANGED <<state, leg, task, mode, op, rec>>
  <2>1. pc = "unmark" /\ UNCHANGED <<begun, pending, journal, op, task, rec>>
    BY <1>2 DEF Unmark
  <2>2. Keyed' => Keyed
    BY <1>2, <2>1 DEF Keyed
  <2>3. ASSUME task = "complete" PROVE ~Keyed'
    <3>1. /\ op = pending /\ op.n = begun /\ pending # NoOp /\ ~op.rollback
          /\ op.id.obj = subject[begun] /\ op.gen = pending.gen
      BY <2>1, <2>3, AtHand
    <3>2. key = <<subject[begun], begun, pending.gen>>
      BY <1>2, <3>1
    <3>3. \A m \in marks : m = <<m[1], m[2], m[3]>> /\ (m[2] = begun => m[1] = subject[begun])
      BY <3>1 DEF DisksTyped
    <3>4. \A m \in marks : m[2] = begun /\ m[3] = pending.gen => m = key
      BY <3>2, <3>3
    <3> QED BY <1>2, <2>1, <3>4 DEF Keyed
  <2>4. Single' = Single /\ Unrecorded' = Unrecorded /\ Last' = Last /\ RecordedOnce' = RecordedOnce
    BY <2>1, SameJournal
  <2> QED BY <1>2, <2>1, <2>2, <2>3, <2>4
<1> QED BY <1>1, <1>2 DEF Unmark

LEMMA FinalizesOnce ==
  ASSUME Once, Finalize PROVE StillOnce
<1>1. /\ pc = "finalize" /\ UNCHANGED <<marks, begun, journal, rec, task>>
      /\ pc' = IF task # "complete" THEN "clear" ELSE IF rec.id # seen THEN "reemit" ELSE "hold"
  BY DEF Finalize
<1>2. /\ pending' = op' /\ op'.gen = pending.gen /\ op'.id = seen
      /\ op'.rollback = op.rollback /\ op'.phase = op.phase /\ op'.final
      /\ pending # NoOp
  BY <1>1, FinalizeChanges, AtHand
<1>3. /\ Single' = Single /\ Unrecorded' = Unrecorded /\ Last' = Last
      /\ RecordedOnce' = RecordedOnce /\ Keyed' = Keyed
  BY <1>1, <1>2, SameJournal, SameKeys
<1>4. CASE task = "complete"
  <2>1. Single /\ rec = Last /\ rec # NoRec /\ op.phase = "committed" /\ ~op.rollback /\ ~Keyed
    BY <1>1, <1>4
  <2>2. ~Unrecorded
    BY <1>1, <2>1, AtHand, LastMeans
  <2> QED BY <1>1, <1>2, <1>3, <1>4, <2>1, <2>2
<1>5. CASE task = "roll"
  BY <1>1, <1>2, <1>3, <1>5
<1>6. CASE task \in {"cancel", "abandon"}
  BY <1>1, <1>2, <1>3, <1>6
<1> QED BY <1>4, <1>5, <1>6 DEF Tasks

HIDE DEF Once, Traced, Ready, Lasting, Recording, Settlings, StillOnce,
         Sound, Records, Numbered, Faithful, Forward, Active, Abandoning, Fresh,
         Control, Guarded, Landings, Typed, TypeOK, MemoryTyped, StateTyped,
         Keep, Goto, Forget, Fail, FailStep, Save, Move, Still, Sync, disks, state, budget

LEMMA InitOnce == Init => Traced /\ Ready /\ Lasting /\ RecordedOnce
BY DEF Init, Traced, Ready, Lasting, RecordedOnce, Recording, Active, Guarded

LEMMA StutterOnce == ASSUME Once, UNCHANGED vars PROVE StillOnce
<1>1. UNCHANGED <<marks, pending, journal, begun, op, pc, leg, task, rec>>
  BY DEF vars, disks, state, memory
<1> QED BY <1>1, SameJournal, SameKeys DEF Once, StillOnce, Traced, Ready, Lasting, Recording

LEMMA NextOnce == ASSUME Once, Next PROVE StillOnce
<1>1. CASE BeginRename \/ BeginRestore \/ Check \/ Intend
  BY <1>1, BeginsOnce, CheckOnce, IntendOnce
<1>2. CASE Moving
  BY <1>2, MoveExclusiveOnce, FallBackOnce, MarkOnce, StampOnce, VerifyOnce, GuardedRenameOnce,
     AdoptOnce DEF Moving
<1>3. CASE Landing
  BY <1>3, StagedOnce, UnstagedOnce, PlacedOnce, RolledOnce DEF Landing
<1>4. CASE Ending
  BY <1>4, CompleteOnce, EmitOnce, ReemitOnce, UnmarkOnce, FinalizesOnce, HoldOnce, ClearOnce,
     CancelOnce DEF Ending
<1>5. CASE HandleFailure \/ Restart \/ Recovery
  BY <1>5, HandleFailureOnce, RestartOnce, RecoverNothingOnce, RecoverNotStartedOnce,
     RecoverCommittedOnce, RecoverMovedOnce, UndoOnce, RedoOnce DEF Recovery
<1>6. CASE Others
  BY <1>6, EnvironmentOnce, FaultOnce, ProcessCrashOnce, PowerFailureOnce DEF Others
<1> QED BY <1>1, <1>2, <1>3, <1>4, <1>5, <1>6 DEF Next, Program, Progress

LEMMA OnceAlways == Spec => []Once
<1>1. Init => Traced /\ Ready /\ Lasting /\ RecordedOnce
  BY InitOnce
<1>2. Sound /\ Traced /\ Ready /\ Lasting /\ RecordedOnce /\ [Next]_vars
      => Traced' /\ Ready' /\ Lasting' /\ RecordedOnce'
  BY NextOnce, StutterOnce DEF Once, StillOnce
<1>3. Sound /\ Traced /\ Ready /\ Lasting /\ RecordedOnce => Once
  BY DEF Once
<1> QED BY SoundAlways, <1>1, <1>2, <1>3, PTL DEF Spec

\* Wherever an operation is cut, and however often recovery completes it again, no
\* record is written twice: the second record an operation may get, for the identity
\* that removing its marker gave, differs from the first.
THEOREM RecordsAreWrittenOnce == Spec => []RecordedOnce
<1>1. Once => RecordedOnce
  BY DEF Once
<1> QED BY OnceAlways, <1>1, PTL
----------------------------------------------------------------------------
(* What happens to the directory.                                          *)

\* An aliasing volume holds one spelling of a name.
OneSpelling(d) == vol.alias => d["nfd"] = Empty \/ d["nfc"] = Empty
\* The guarded fallback is never taken.
Unguarded == ~vol.guarded => pc \notin Guarded
Exclusive == Typed /\ Unguarded /\ \A d \in disk \cup {dir} : OneSpelling(d)

LEMMA VolumeFields == ASSUME TypeOK PROVE vol.keeps \/ vol.alias
BY ConstantsAssumption DEF TypeOK, VolumeType

----------------------------------------------------------------------------
(* Directories.                                                            *)

LEMMA WithoutOne ==
  ASSUME NEW d \in Directory, NEW n \in Names, OneSpelling(d)
  PROVE  OneSpelling(Without(d, n))
BY DEF OneSpelling, Without, Names, Spellings

LEMMA WithOne ==
  ASSUME TypeOK, NEW d \in Directory, NEW n \in Names, NEW e \in Entry, OneSpelling(d)
  PROVE  OneSpelling(With(d, n, e))
<1>1. CASE n = "temp"
  BY <1>1 DEF OneSpelling, With, Without, Names, Spellings, Twins
<1>2. CASE n # "temp" /\ vol.alias
  BY <1>2 DEF OneSpelling, With, Without, Names, Spellings, Twins
<1> QED BY <1>1, <1>2 DEF OneSpelling

LEMMA StampedOne ==
  ASSUME NEW d \in Directory, NEW e \in Id, OneSpelling(d)
  PROVE  OneSpelling(Stamped(d, e))
<1>1. e.obj # NoObj
  BY ConstantsAssumption DEF Id
<1> QED BY <1>1 DEF OneSpelling, Stamped, Directory, Names, Spellings, Empty

\* A new identity of an object leaves the objects where they are.
LEMMA StampedPresent ==
  ASSUME NEW d \in Directory, NEW e \in Entry
  PROVE  Present(d) \subseteq Present(Stamped(d, e))
<1> SUFFICES ASSUME NEW n \in Names, d[n].obj # NoObj
             PROVE  d[n].obj \in Present(Stamped(d, e))
  BY DEF Present
<1>1. Stamped(d, e)[n].obj = d[n].obj
  BY DEF Stamped
<1> QED BY <1>1 DEF Present

\* A name that reaches nothing has no twin that is there, and a name with a twin
\* that is there reaches it.
LEMMA LookupTwin ==
  ASSUME NEW d \in Directory, OneSpelling(d), NEW s \in Names, NEW n \in Names,
         Twins(n, s), d[n] # Empty
  PROVE  Lookup(d, s) = d[n]
<1>1. \A m \in Names : Twins(m, s) /\ d[m] # Empty => m = n
  BY DEF OneSpelling, Twins, Names, Spellings
<1> QED BY <1>1 DEF Lookup

\* An exclusive move keeps every object.
LEMMA MovePresent ==
  ASSUME TypeOK, NEW d \in Directory, OneSpelling(d), NEW s \in Names, NEW t \in Names,
         Lookup(d, s) # Empty, Lookup(d, t) = Empty
  PROVE  Present(d) \subseteq Present(With(Without(d, s), t, Lookup(d, s)))
<1> DEFINE e == Lookup(d, s)
           slot == IF t = "nfc" /\ ~vol.keeps THEN "nfd" ELSE t
           r == With(Without(d, s), t, e)
<1>1. slot \in Names /\ Twins(slot, t)
  BY VolumeFields DEF Names, Spellings, Twins
<1>2. r[slot] = e
  BY <1>1 DEF With, Without
<1>3. \A n \in Names : ~Twins(n, s) /\ ~Twins(n, t) => r[n] = d[n]
  BY <1>1 DEF With, Without
<1> SUFFICES ASSUME NEW n \in Names, d[n].obj # NoObj
             PROVE  d[n].obj \in Present(r)
  BY DEF Present
<1>4. d[n] # Empty
  BY DEF Empty
<1>5. CASE Twins(n, s)
  BY <1>1, <1>2, <1>4, <1>5, LookupTwin DEF Present
<1>6. CASE ~Twins(n, s)
  <2>1. ~Twins(n, t)
    BY <1>4, LookupTwin
  <2> QED BY <1>3, <1>6, <2>1 DEF Present
<1> QED BY <1>5, <1>6

----------------------------------------------------------------------------
(* Steps.                                                                  *)

\* The directory, and what a power failure can leave of it, is as it was.
Resting == vol' = vol /\ dir' = dir /\ disk' \in {disk, {dir}}

\* Every other step of the program leaves the directory alone.
LEMMA ProgramRests ==
  ASSUME Program PROVE Resting \/ MoveExclusive \/ Mark \/ GuardedRename \/ Unmark
<1> USE DEF Resting, Keep, Still, Sync, FailStep, disks, state
<1>1. CASE BeginRename \/ BeginRestore
  BY <1>1 DEF BeginRename, BeginRestore, Begin
<1>2. CASE Check \/ Intend
  BY <1>2 DEF Check, Intend
<1>3. CASE Moving
  BY <1>3 DEF Moving, FallBack, Stamp, Verify, Adopt
<1>4. CASE Landing
  BY <1>4 DEF Landing, Staged, Unstaged, Placed, Finished, Rolled
<1>5. CASE Ending
  BY <1>5 DEF Ending, Complete, Emit, Reemit, Finalize, Hold, Clear, Cancel
<1>6. CASE HandleFailure \/ Restart
  BY <1>6 DEF HandleFailure, Restart
<1>7. CASE Recovery
  BY <1>7 DEF Recovery, RecoverNothing, RecoverNotStarted, RecoverCommitted, RecoverMoved,
     Recovering, Undo, Redo, Locating
<1> QED BY <1>1, <1>2, <1>3, <1>4, <1>5, <1>6, <1>7 DEF Program, Progress

\* What the moves and the attribute changes do to the directory.
LEMMA MoveKeeps ==
  ASSUME Exclusive, MoveExclusive
  PROVE  /\ Present(dir) \subseteq Present(dir')
         /\ \A d \in disk' \cup {dir'} : OneSpelling(d)
<1> USE DEF Exclusive, Typed, TypeOK, DisksTyped, MemoryTyped
<1>1. CASE Blocked
  BY <1>1 DEF MoveExclusive, FailStep, Still, disks
<1>2. CASE ~Blocked
  <2> DEFINE e == Lookup(dir, Source(leg))
             to == With(Without(dir, Source(leg)), Target(leg), e)
  <2>1. dir' = to /\ disk' \subseteq disk \cup {to}
    BY <1>2 DEF MoveExclusive, Change
  <2>2. Source(leg) \in Names /\ Target(leg) \in Names /\ e \in Entry
    BY LegTypes, LookupType
  <2>3. OneSpelling(to)
    BY <2>2, WithoutOne, WithoutType, WithOne
  <2>4. Present(dir) \subseteq Present(to)
    BY <1>2, <2>2, MovePresent DEF Blocked
  <2> QED BY <2>1, <2>3, <2>4
<1> QED BY <1>1, <1>2

LEMMA RestampKeeps ==
  ASSUME Exclusive, NEW e \in Id, Restamp(e)
  PROVE  /\ Present(dir) \subseteq Present(dir')
         /\ \A d \in disk' \cup {dir'} : OneSpelling(d)
BY StampedPresent, StampedOne DEF Restamp, Exclusive, Typed, TypeOK, DisksTyped, Entry

LEMMA UnmarkKeeps ==
  ASSUME Exclusive, Unmark
  PROVE  /\ Present(dir) \subseteq Present(dir')
         /\ \A d \in disk' \cup {dir'} : OneSpelling(d)
<1>1. CASE FailStep
  BY <1>1 DEF FailStep, Still, disks, Exclusive
<1>2. CASE \E e \in Entry : /\ e # Empty /\ e = op.id
                            /\ \E id \in Reidentified(e) \cup {e} : Restamp(id)
  <2>1. PICK e \in Id : \E id \in Reidentified(e) \cup {e} : Restamp(id)
    BY <1>2, PresentEntry
  <2>2. \E id \in Id : Restamp(id)
    BY <2>1, ReidentifiedType
  <2> QED BY <2>2, RestampKeeps
<1>3. op.id \in Entry
  BY DEF Exclusive, Typed, TypeOK, MemoryTyped, OpType
<1> QED BY <1>1, <1>2, <1>3 DEF Unmark

\* No step of the program enters the fallback on a volume that needs none.
LEMMA ProgramUnguarded ==
  ASSUME Exclusive, ~vol.guarded, Program
  PROVE  pc' \notin Guarded
<1> USE DEF Guarded, Goto, Fail, FailStep, Forget, Move, Onward, GiveUp, Exclusive, Unguarded
<1>1. CASE BeginRename \/ BeginRestore \/ Check \/ Intend
  BY <1>1 DEF BeginRename, BeginRestore, Begin, Check, Intend
<1>2. CASE MoveExclusive
  <2>1. leg \in Legs
    BY DEF Typed, TypeOK, MemoryTyped
  <2> QED BY <1>2, <2>1 DEF MoveExclusive, Land, After, Legs
<1>3. CASE FallBack \/ Mark \/ Stamp \/ Verify \/ GuardedRename \/ Adopt
  BY <1>3 DEF FallBack, Mark, Stamp, Verify, GuardedRename, Adopt
<1>4. CASE Landing
  BY <1>4 DEF Landing, Staged, Unstaged, Placed, Finished, Rolled
<1>5. CASE Ending
  BY <1>5 DEF Ending, Complete, Emit, Reemit, Unmark, Finalize, Hold, Clear, Cancel
<1>6. CASE HandleFailure \/ Restart
  BY <1>6 DEF HandleFailure, Restart
<1>7. CASE Recovery
  BY <1>7 DEF Recovery, RecoverNothing, RecoverNotStarted, RecoverCommitted, RecoverMoved,
     Undo, Redo
<1> QED BY <1>1, <1>2, <1>3, <1>4, <1>5, <1>6, <1>7 DEF Program, Progress, Moving

LEMMA ProgramKeeps ==
  ASSUME Exclusive, ~vol.guarded, Program
  PROVE  /\ Present(dir) \subseteq Present(dir')
         /\ \A d \in disk' \cup {dir'} : OneSpelling(d)
<1>1. ~Mark /\ ~GuardedRename
  BY DEF Exclusive, Unguarded, Guarded, Mark, GuardedRename
<1>2. CASE Resting
  BY <1>2 DEF Resting, Exclusive
<1> QED BY <1>1, <1>2, ProgramRests, MoveKeeps, UnmarkKeeps

\* Others keep the shape of the directory.
LEMMA OthersExclusive ==
  ASSUME Exclusive, Others
  PROVE  vol' = vol /\ Unguarded' /\ \A d \in disk' \cup {dir'} : OneSpelling(d)
<1> USE DEF Exclusive, Typed, TypeOK, DisksTyped
<1>1. CASE \E n \in Spellings, o \in Objs : EnvPut(n, o)
  <2>1. PICK n \in Spellings, o \in Objs : EnvPut(n, o)
    BY <1>1
  <2>2. [obj |-> o, ver |-> 0] \in Entry /\ n \in Names
    BY DEF Entry, Id, Names
  <2> QED BY <2>1, <2>2, WithOne DEF EnvPut, Change, Quiet, memory, Unguarded
<1>2. CASE \E n \in Names : EnvRemove(n)
  BY <1>2, WithoutOne DEF EnvRemove, Change, Quiet, memory, Unguarded
<1>3. CASE Fault \/ ProcessCrash \/ PowerFailure
  BY <1>3 DEF Fault, Fail, Goto, Forget, ProcessCrash, PowerFailure, Quiet, Still, disks,
     Unguarded, Guarded
<1> QED BY <1>1, <1>2, <1>3 DEF Others

\* On volumes with exclusive renames no step of the program, of its error
\* handling or of its recovery makes an object disappear from the directory.
THEOREM ExclusiveNeverOverwrites ==
  ASSUME \A v \in Volumes : ~v.guarded
  PROVE  Spec => NoOverwrite
<1>1. Init => Exclusive
  BY InitType DEF Init, Exclusive, Unguarded, Guarded, OneSpelling, Names, Spellings
<1>2. ASSUME Exclusive, [Next]_vars
      PROVE  Exclusive' /\ (OthersMoved \/ Present(dir) \subseteq Present(dir'))
  <2>1. ~vol.guarded
    BY <1>2 DEF Exclusive, Typed, TypeOK
  <2>2. Typed'
    BY <1>2, ProgramType, OthersType, TypedStutter DEF Exclusive, Next
  <2>3. CASE Program
    <3>1. vol' = vol
      BY <2>3, ProgramRests DEF Resting, MoveExclusive, Mark, GuardedRename, Unmark, Keep
    <3> QED BY <1>2, <2>1, <2>2, <2>3, <3>1, ProgramKeeps, ProgramUnguarded
            DEF Exclusive, Unguarded, OneSpelling
  <2>4. CASE Others
    <3>1. Exclusive'
      BY <1>2, <2>2, <2>4, OthersExclusive DEF Exclusive, OneSpelling
    <3>2. env \in Nat /\ crashes \in Nat
      BY <1>2, ConstantsAssumption DEF Exclusive, Typed, TypeOK, CountsTyped
    <3>3. env' = env + 1 \/ crashes' = crashes + 1 \/ dir' = dir
      BY <2>4 DEF Others, EnvPut, EnvRemove, Fault, ProcessCrash, PowerFailure, Still, disks
    <3>4. OthersMoved \/ dir' = dir
      BY <3>2, <3>3 DEF OthersMoved
    <3> QED BY <3>1, <3>4
  <2>5. CASE UNCHANGED vars
    BY <1>2, <2>2, <2>5 DEF vars, disks, memory, Exclusive, Unguarded, OneSpelling
  <2> QED BY <1>2, <2>3, <2>4, <2>5 DEF Next
<1>3. UNCHANGED vars => OthersMoved \/ Present(dir) \subseteq Present(dir')
  BY DEF vars, disks
<1> QED BY <1>1, <1>2, <1>3, PTL DEF Spec, NoOverwrite

----------------------------------------------------------------------------
(* The object of the latest operation is never left under the hidden name. *)

\* Without power failures the disk is the directory; an object is at one name.
OneName(d) == \A m, n \in Names : d[m].obj = d[n].obj /\ d[m].obj # NoObj => m = n
Shaped == disk = {dir} /\ OneSpelling(dir) /\ OneName(dir)

\* The operation has come to its end, one way or another.
Ended == {"complete", "emit", "reemit", "unmark", "finalize", "hold", "clear", "cancel",
          "unstaged", "rolled"}
Final == {"committed", "not-started"}

\* While its object is hidden an operation is pending and far from its end, and one that
\* is rolled back names that object, in the record, under its marker and at hand.
Hidden == begun > 0 /\ dir["temp"].obj = subject[begun]
Backed ==
  Hidden =>
    /\ pending # NoOp /\ pending.phase \notin Final /\ pc \notin Ended
    /\ pending.rollback =>
         /\ pending.id.obj = subject[begun]
         /\ pc = "stamp" => seen.obj = subject[begun]
         /\ pending.marker =>
              \A m \in marks : m[2] = begun /\ m[3] = pending.gen => m[1] = subject[begun]

\* Keys are drawn in turn, and before they are used.
Drawn ==
  /\ pending # NoOp => \A m \in marks : m[2] = begun => m[3] <= pending.gen
  /\ pc \in Guarded => op.marker
  /\ pc \in {"unmark", "finalize"} => op.gen = pending.gen

\* Only an operation that has not come to its end hides an object, and a move out of the
\* hidden name leaves nothing there.
Hides ==
  /\ \/ pc \in {"move"} \cup Guarded /\ leg \in {"stage", "place", "unspell"}
     \/ pc \in {"check", "intend", "staged", "placed"}
     => op.phase \notin Final
  /\ pc = "adopt" /\ leg \notin {"stage", "unspell"} => dir["temp"] = Empty

Whole == Sound /\ Shaped /\ Backed /\ Drawn /\ Hides

\* A step that leaves the directory as it is.
LEMMA SameDirectory ==
  ASSUME Whole, UNCHANGED <<vol, dir, begun, subject>>, disk' = disk \/ disk' = {dir}
  PROVE  Shaped' /\ Hidden' = Hidden
BY DEF Whole, Shaped, OneSpelling, OneName, Hidden

\* An object that is at a visible name is not hidden.
LEMMA Seen ==
  ASSUME Whole, NEW n \in Spellings, dir[n].obj = subject[begun]
  PROVE  ~Hidden
<1>1. begun > 0 => begun \in 1..begun /\ subject[begun] \in Objs
  BY ConstantsAssumption DEF Whole, Sound, Typed, TypeOK, CountsTyped
<1> QED BY <1>1, ConstantsAssumption DEF Whole, Shaped, OneName, Hidden, Names, Spellings

\* A name that holds an entry reaches it.
LEMMA Reached ==
  ASSUME Whole, NEW n \in Names, dir[n] # Empty
  PROVE  Lookup(dir, n) = dir[n]
BY LookupTwin DEF Whole, Shaped, Sound, Typed, TypeOK, DisksTyped, Twins

LEMMA Nothing == ASSUME Whole, dir["temp"] = Empty PROVE ~Hidden
<1>1. begun > 0 => begun \in 1..begun /\ subject[begun] \in Objs
  BY ConstantsAssumption DEF Whole, Sound, Typed, TypeOK, CountsTyped
<1> QED BY <1>1, ConstantsAssumption DEF Hidden, Empty

LEMMA Spelled == ASSUME NEW o PROVE Old(o) \in Spellings /\ New(o) \in Spellings
BY DEF Old, New, Spellings

\* What the invariant says of the operation at hand.
LEMMA InHand ==
  ASSUME Whole
  PROVE  /\ op \in OpType /\ pending \in OpType /\ seen \in Entry
         /\ begun > 0 => begun # 0
         /\ pc \in Active => /\ op.n = begun /\ pending.n = begun /\ begun > 0
                             /\ op.n # 0 /\ pending # NoOp
                             /\ op = pending \/ Abandoning
BY AtHand DEF Whole

\* What the single steps do to the operation.
LEMMA StampDoes ==
  ASSUME Whole, Stamp
  PROVE  /\ pc = "stamp" /\ pc' = "verify" /\ op = pending /\ pending' = op' /\ leg' = leg
         /\ op'.n = op.n /\ op'.id = seen /\ op'.rollback = op.rollback /\ op'.phase = "moving"
         /\ op'.marker = op.marker /\ op'.gen = op.gen
BY InHand, IdentityFields, MarkerKept DEF Stamp, Goto, Save, Active, Control, Guarded, Abandoning

LEMMA FinalizeDoes ==
  ASSUME Whole, Finalize
  PROVE  /\ pc = "finalize" /\ pc' \in {"clear", "reemit", "hold"} /\ pending' = op' /\ leg' = leg
         /\ op'.n = op.n /\ op'.rollback = op.rollback /\ op'.phase = op.phase
         /\ op'.marker = op.marker /\ op'.gen = op.gen
BY InHand, IdentityFields, MarkerKept DEF Finalize, Goto, Save

LEMMA CompleteDoes ==
  ASSUME Whole, Complete
  PROVE  /\ pc = "complete" /\ pc' \in {"emit", "unmark", "hold"} /\ op = pending
         /\ pending' = op' /\ op'.gen = op.gen /\ op'.n = op.n
<1>1. CASE op.marker /\ Save([op EXCEPT !.phase = "committed"])
  <2>1. op' = [op EXCEPT !.phase = "committed"] /\ pending' = op'
    BY <1>1 DEF Save
  <2> QED BY <2>1, InHand, PhaseFields, MarkerKept
          DEF Complete, Goto, Active, Control, Abandoning
<1>2. CASE UNCHANGED <<op, pending>>
  BY <1>2, InHand DEF Complete, Goto, Active, Control, Abandoning
<1> QED BY <1>1, <1>2 DEF Complete

LEMMA CancelDoes ==
  ASSUME Whole, Cancel
  PROVE  /\ pc = "cancel" /\ pc' \in {"unmark", "clear"} /\ op = pending
         /\ pending' = op' /\ op'.gen = op.gen /\ op'.n = op.n
<1>1. CASE op.marker /\ Save([op EXCEPT !.phase = "not-started"]) /\ Goto("unmark")
  <2>1. op' = [op EXCEPT !.phase = "not-started"] /\ pending' = op'
    BY <1>1 DEF Save
  <2> QED BY <1>1, <2>1, InHand, PhaseFields, MarkerKept
          DEF Cancel, Goto, Active, Control, Abandoning
<1>2. CASE UNCHANGED <<op, pending>> /\ Goto("clear")
  BY <1>2, InHand DEF Cancel, Goto, Active, Control, Abandoning
<1> QED BY <1>1, <1>2 DEF Cancel

LEMMA AdoptDoes ==
  ASSUME Whole, Adopt
  PROVE  /\ op = pending /\ pending' = op' /\ op'.n = op.n /\ op'.rollback = op.rollback
         /\ op'.phase = op.phase /\ op'.marker = op.marker /\ op'.gen = op.gen
         /\ op'.id = op.id \/ <<op'.id.obj, op.n, op.gen>> \in marks
<1> DEFINE e == Lookup(dir, Target(leg))
<1>1. op = pending
  BY InHand DEF Adopt, Active, Control, Guarded, Abandoning
<1>2. CASE <<e.obj, op.n, op.gen>> \in marks /\ Save([op EXCEPT !.id = e])
  <2>1. op' = [op EXCEPT !.id = e] /\ pending' = op'
    BY <1>2 DEF Save
  <2> QED BY <1>1, <1>2, <2>1, InHand, IdentityFields, MarkerKept
<1>3. CASE UNCHANGED <<op, pending>>
  BY <1>1, <1>3
<1> QED BY <1>2, <1>3 DEF Adopt

\* The identity of what is hidden is recorded, and it is to be moved back.
Redirected ==
  /\ pending' = op' /\ op'.n = pending.n /\ op'.id = dir["temp"] /\ op'.rollback
  /\ op'.phase \notin Final /\ op'.gen = pending.gen
  /\ op'.marker => pending.marker /\ ~pending.rollback

LEMMA StagedDoes ==
  ASSUME Whole, Staged, Save(RollBack(op, dir["temp"])) PROVE Redirected
<1>1. op = pending
  BY InHand DEF Staged, Active, Control, Landings, Abandoning
<1> QED BY <1>1, InHand, RollBackFields, MarkerDropped DEF Redirected, Save, Final

LEMMA RecoverDoes ==
  ASSUME Whole, Save(RollBack(pending, dir["temp"])) PROVE Redirected
BY InHand, RollBackFields, MarkerDropped DEF Redirected, Save, Final

LEMMA RedoDoes ==
  ASSUME Whole, Redo, Save([op EXCEPT !.id = dir["temp"], !.rollback = TRUE]),
         op.phase \notin Final
  PROVE  Redirected
<1>1. op = pending /\ ~op.rollback
  BY InHand DEF Redo, Locating, Active, Control, Abandoning
<1> QED BY <1>1, InHand, RedirectFields, MarkerKept DEF Redirected, Save

\* The marker found by recovery is that of the object, if it is hidden.
LEMMA WithMarkKeeps ==
  ASSUME Whole, pending # NoOp, Marked(pending) # {}
  PROVE  /\ WithMark.gen = pending.gen /\ WithMark.marker = pending.marker /\ WithMark # NoOp
         /\ Hidden /\ pending.rollback => WithMark.id.obj = subject[begun]
<1> DEFINE n == CHOOSE n \in Marked(pending) : TRUE
<1>1. n \in Names /\ <<dir[n].obj, pending.n, pending.gen>> \in marks /\ pending.marker
  BY DEF Marked
<1>2. pending.n = begun
  BY DEF Whole, Sound, Records, Numbered
<1>3. WithMark.id = dir[n] /\ WithMark.gen = pending.gen /\ WithMark.marker = pending.marker
  BY InHand, IdentityFields, MarkerKept DEF WithMark
<1>4. NoOp.marker = FALSE
  BY DEF NoOp
<1>5. WithMark.marker = TRUE
  BY <1>1, <1>3, InHand DEF OpType
<1>6. Hidden /\ pending.rollback => dir[n].obj = subject[begun]
  BY <1>1, <1>2 DEF Whole, Backed
<1> QED BY <1>3, <1>4, <1>5, <1>6

\* What the changes of the directory do to its shape.
LEMMA LookupAt ==
  ASSUME NEW d, NEW s, Lookup(d, s) # Empty
  PROVE  \E k \in Names : Twins(k, s) /\ Lookup(d, s) = d[k]
BY DEF Lookup

LEMMA MovedShape ==
  ASSUME TypeOK, NEW d \in Directory, OneSpelling(d), OneName(d), NEW s \in Names, NEW t \in Names,
         Lookup(d, s) # Empty, NEW e \in Entry, e.obj = Lookup(d, s).obj
  PROVE  LET r == With(Without(d, s), t, e)
         IN  /\ OneSpelling(r) /\ OneName(r)
             /\ t = "temp" => r["temp"] = e
             /\ s = "temp" /\ t # "temp" => r["temp"] = Empty
<1> DEFINE slot == IF t = "nfc" /\ ~vol.keeps THEN "nfd" ELSE t
           r == With(Without(d, s), t, e)
<1>1. slot \in Names /\ Twins(slot, t)
  BY VolumeFields DEF Names, Spellings, Twins
<1>2. r[slot] = e
  BY <1>1 DEF With, Without
<1>3. \A n \in Names : n # slot => r[n] = IF Twins(n, s) \/ Twins(n, t) THEN Empty ELSE d[n]
  BY <1>1 DEF With, Without
<1>4. OneSpelling(r)
  BY WithoutOne, WithoutType, WithOne
<1>5. PICK k \in Names : Twins(k, s) /\ Lookup(d, s) = d[k]
  BY LookupAt
<1>6. \A n \in Names : n # slot /\ r[n].obj # NoObj => ~Twins(n, s) /\ r[n].obj = d[n].obj
  BY <1>3 DEF Empty
<1>7. OneName(r)
  BY <1>2, <1>5, <1>6 DEF OneName
<1>8. t = "temp" => slot = "temp"
  OBVIOUS
<1>9. s = "temp" /\ t # "temp" => slot # "temp" /\ Twins("temp", s)
  BY DEF Twins
<1> QED BY <1>2, <1>3, <1>4, <1>7, <1>8, <1>9 DEF Names

LEMMA PutShape ==
  ASSUME TypeOK, NEW d \in Directory, OneSpelling(d), OneName(d), NEW n \in Spellings,
         NEW e \in Entry, e.obj \notin Present(d)
  PROVE  OneSpelling(With(d, n, e)) /\ OneName(With(d, n, e)) /\ With(d, n, e)["temp"] = d["temp"]
<1> DEFINE slot == IF n = "nfc" /\ ~vol.keeps THEN "nfd" ELSE n
           r == With(d, n, e)
<1>1. slot \in Spellings /\ n \in Names
  BY DEF Names, Spellings
<1>2. r[slot] = e /\ \A m \in Names : m # slot => r[m] = IF Twins(m, n) THEN Empty ELSE d[m]
  BY <1>1 DEF With, Without, Names
<1>3. \A m \in Names : m # slot /\ r[m].obj # NoObj => r[m].obj = d[m].obj /\ r[m].obj # e.obj
  BY <1>2 DEF Empty, Present
<1>4. OneName(r)
  BY <1>2, <1>3 DEF OneName
<1>5. OneSpelling(r)
  BY <1>1, WithOne
<1>6. ~Twins("temp", n) /\ slot # "temp"
  BY <1>1 DEF Twins, Spellings
<1> QED BY <1>2, <1>4, <1>5, <1>6 DEF Names

LEMMA RemoveShape ==
  ASSUME NEW d \in Directory, OneSpelling(d), OneName(d), NEW n \in Names
  PROVE  /\ OneSpelling(Without(d, n)) /\ OneName(Without(d, n))
         /\ Without(d, n)["temp"] \in {Empty, d["temp"]}
<1>1. \A m \in Names : Without(d, n)[m] = IF Twins(m, n) THEN Empty ELSE d[m]
  BY DEF Without
<1>2. OneName(Without(d, n))
  BY <1>1 DEF OneName, Empty
<1> QED BY <1>1, <1>2, WithoutOne DEF Names

LEMMA StampedShape ==
  ASSUME NEW d \in Directory, OneSpelling(d), OneName(d), NEW e \in Id
  PROVE  /\ OneSpelling(Stamped(d, e)) /\ OneName(Stamped(d, e))
         /\ \A n \in Names : Stamped(d, e)[n].obj = d[n].obj
<1>1. \A n \in Names : Stamped(d, e)[n].obj = d[n].obj
  BY DEF Stamped
<1>2. OneName(Stamped(d, e))
  BY <1>1 DEF OneName
<1> QED BY <1>1, <1>2, StampedOne

\* What is set up for the next lemmas on single steps.
Kept == Backed' /\ Drawn' /\ Hides'

USE DEF Whole, Sound, Records, Numbered, Faithful, Forward, Active, Abandoning, Fresh,
        Control, Guarded, Landings, Typed, TypeOK, MemoryTyped, StateTyped,
        Keep, Goto, Forget, Fail, FailStep, Save, Move, Still, Sync, disks, state, budget,
        Ended, Final, Backed, Drawn, Hides, Kept

LEMMA CheckKept == ASSUME Whole, Check PROVE Kept
BY SameDirectory, NoOpFields DEF Check

LEMMA VerifyKept == ASSUME Whole, Verify PROVE Kept
BY SameDirectory, NoOpFields DEF Verify

LEMMA UnstagedKept == ASSUME Whole, Unstaged PROVE Kept
BY SameDirectory, NoOpFields DEF Unstaged

LEMMA RolledKept == ASSUME Whole, Rolled PROVE Kept
BY SameDirectory, NoOpFields DEF Rolled

LEMMA RestartKept == ASSUME Whole, Restart PROVE Kept
BY SameDirectory, NoOpFields DEF Restart

LEMMA RecoverNothingKept == ASSUME Whole, RecoverNothing PROVE Kept
BY SameDirectory, NoOpFields DEF RecoverNothing

LEMMA HoldKept == ASSUME Whole, Hold PROVE Kept
BY SameDirectory, NoOpFields DEF Hold

LEMMA ClearKept == ASSUME Whole, Clear PROVE Kept
BY SameDirectory, NoOpFields DEF Clear

LEMMA FaultKept == ASSUME Whole, Fault PROVE Kept
BY SameDirectory, NoOpFields DEF Fault

LEMMA ProcessCrashKept == ASSUME Whole, ProcessCrash PROVE Kept
BY SameDirectory, NoOpFields DEF ProcessCrash

LEMMA PlacedKept == ASSUME Whole, Placed \/ Finished PROVE Kept
<1>1. StoredAs(dir, op.id, New(op)) => ~Hidden
  BY Seen, Spelled DEF StoredAs, Placed, Finished
<1> QED BY <1>1, SameDirectory, NoOpFields DEF Placed, Finished

LEMMA HandleFailureKept == ASSUME Whole, HandleFailure PROVE Kept
BY Nothing, SameDirectory, NoOpFields DEF HandleFailure, Untouched

LEMMA UndoKept == ASSUME Whole, Undo PROVE Kept
<1>1. StoredAs(dir, op.id, Old(op)) => ~Hidden
  BY Seen, Spelled DEF StoredAs, Undo, Locating
<1> QED BY <1>1, SameDirectory, NoOpFields DEF Undo, Locating

LEMMA IntendKept == ASSUME Whole, Intend PROVE Kept
BY SameDirectory, NoOpFields DEF Intend

LEMMA EmitKept == ASSUME Whole, Emit \/ Reemit PROVE Kept
BY SameDirectory, NoOpFields DEF Emit, Reemit, EmitSuccess

LEMMA FallBackKept == ASSUME Whole, FallBack PROVE Kept
<1>1. pending = op /\ pending # NoOp /\ pc = "move" /\ pc' = "mark" /\ op'.marker /\ pending' = op'
      /\ UNCHANGED <<vol, dir, disk, marks, begun, subject, leg>>
  BY NoOpFields, MarkerDrawn, InHand DEF FallBack
<1>2. CASE op.marker /\ op' = op
  BY <1>1, <1>2, SameDirectory
<1>3. CASE op' = [op EXCEPT !.marker = TRUE, !.gen = @ + 1, !.phase = "marker-intent"]
  <2>1. /\ op'.n = op.n /\ op'.id = op.id /\ op'.rollback = op.rollback
        /\ op'.phase = "marker-intent" /\ op'.gen = op.gen + 1
    BY <1>3, DrawnFields, MarkerDrawn
  <2>2. \A m \in marks : m[2] = begun => m[3] \in Nat /\ m[3] <= op.gen /\ op.gen \in Nat
    BY <1>1 DEF DisksTyped, OpType
  <2> QED BY <1>1, <2>1, <2>2, SameDirectory, NoOpFields
<1> QED BY <1>2, <1>3 DEF FallBack

LEMMA StampKept == ASSUME Whole, Stamp PROVE Kept
<1>1. UNCHANGED <<vol, dir, disk, marks, begun, subject>>
  BY DEF Stamp
<1>2. op'.n # 0
  BY StampDoes, InHand
<1> QED BY <1>1, <1>2, StampDoes, SameDirectory, NoOpFields

LEMMA FinalizeKept == ASSUME Whole, Finalize PROVE Kept
<1>1. UNCHANGED <<vol, dir, disk, marks, begun, subject>>
  BY DEF Finalize
<1>2. pending # NoOp /\ op.gen = pending.gen
  BY FinalizeDoes, InHand DEF Drawn
<1> QED BY <1>1, <1>2, FinalizeDoes, SameDirectory, NoOpFields

LEMMA CompleteKept == ASSUME Whole, Complete PROVE Kept
<1>1. UNCHANGED <<vol, dir, disk, marks, begun, subject, leg>>
  BY DEF Complete
<1> QED BY <1>1, CompleteDoes, SameDirectory, NoOpFields

LEMMA CancelKept == ASSUME Whole, Cancel PROVE Kept
<1>1. UNCHANGED <<vol, dir, disk, marks, begun, subject, leg>>
  BY DEF Cancel
<1> QED BY <1>1, CancelDoes, SameDirectory, NoOpFields

LEMMA RedirectedKept ==
  ASSUME Whole, Redirected, pending # NoOp,
         \/ pc' = "move" /\ leg' = "unstage"
         \/ pc' = "recover",
         UNCHANGED <<vol, dir, marks, begun, subject>>, disk' = disk \/ disk' = {dir}
  PROVE  Kept
<1>1. pending'.n # 0 /\ Hidden' = Hidden
  BY SameDirectory DEF Redirected
<1>2. Backed'
  BY <1>1, NoOpFields DEF Redirected, Hidden
<1>3. Drawn' /\ Hides'
  BY <1>1 DEF Redirected
<1> QED BY <1>2, <1>3

LEMMA StagedKept == ASSUME Whole, Staged PROVE Kept
<1>1. CASE dir["temp"] = Empty /\ Fail /\ UNCHANGED pending
  BY <1>1, SameDirectory, NoOpFields DEF Staged
<1>2. CASE Move("place") /\ UNCHANGED <<op, pending>>
  BY <1>2, SameDirectory DEF Staged
<1>3. CASE Save(RollBack(op, dir["temp"])) /\ Move("unstage")
  BY <1>3, StagedDoes, RedirectedKept, InHand DEF Staged
<1> QED BY <1>1, <1>2, <1>3 DEF Staged

LEMMA AdoptKept == ASSUME Whole, Adopt PROVE Kept
<1>1. /\ pc = "adopt" /\ op.n = begun /\ op.n # 0 /\ pending # NoOp /\ pc' = After(leg)
      /\ UNCHANGED <<vol, dir, disk, marks, begun, subject>>
      /\ leg' = IF leg = "unspell" THEN "respell" ELSE leg
  BY InHand DEF Adopt, Land
<1>2. leg \notin {"stage", "unspell"} => ~Hidden
  BY <1>1, Nothing
<1>3. Hidden /\ pending'.rollback => pending'.id.obj = subject[begun]
  BY <1>1, AdoptDoes
<1> QED BY <1>1, <1>2, <1>3, AdoptDoes, NoOpFields, SameDirectory DEF After, Legs

LEMMA RedoKept == ASSUME Whole, Redo PROVE Kept
<1>0. pc = "locate" /\ op = pending /\ ~op.rollback /\ pending # NoOp
      /\ UNCHANGED <<vol, dir, disk, marks, begun, subject>>
  BY InHand DEF Redo, Locating
<1>1. CASE /\ Save([op EXCEPT !.id = dir["temp"], !.rollback = TRUE])
           /\ Goto("recover") /\ UNCHANGED <<leg, task, mode, seen, rec>>
  <2>1. CASE op.phase \notin Final
    BY <1>0, <1>1, <2>1, RedoDoes, RedirectedKept
  <2>2. CASE op.phase \in Final
    <3>1. ~Hidden /\ pending'.gen = pending.gen
      BY <1>0, <1>1, <2>2, InHand, MarkerKept
    <3> QED BY <1>0, <1>1, <3>1, SameDirectory
  <2> QED BY <2>1, <2>2
<1>2. CASE UNCHANGED pending /\ Fail
  BY <1>0, <1>2, SameDirectory, NoOpFields
<1>3. ASSUME NEW n \in Spellings, Found(n)
      PROVE  ~Hidden
  BY <1>0, <1>3, Reached, Seen DEF Found, Names
<1>4. CASE UNCHANGED <<pending, op>>
  BY <1>0, <1>3, <1>4, Spelled, SameDirectory, NoOpFields DEF Redo
<1> QED BY <1>1, <1>2, <1>4 DEF Redo

LEMMA RecoverNotStartedKept == ASSUME Whole, RecoverNotStarted PROVE Kept
BY WithMarkKeeps, SameDirectory, NoOpFields DEF RecoverNotStarted, Recovering, Onward

LEMMA RecoverCommittedKept == ASSUME Whole, RecoverCommitted PROVE Kept
<1>1. CASE Marked(pending) # {} /\ Save(WithMark) /\ Onward("complete")
  BY <1>1, WithMarkFields, WithMarkKeeps, SameDirectory, NoOpFields
     DEF RecoverCommitted, Recovering, Onward, Settled
<1>2. CASE UNCHANGED pending
  BY <1>2, SameDirectory, NoOpFields DEF RecoverCommitted, Recovering, Onward, Settled, GiveUp
<1> QED BY <1>1, <1>2 DEF RecoverCommitted, GiveUp

LEMMA RecoverMovedKept == ASSUME Whole, RecoverMoved PROVE Kept
<1>0. pending # NoOp /\ pc = "recover" /\ pending.n = begun
      /\ UNCHANGED <<vol, dir, disk, marks, begun, subject>>
  BY DEF RecoverMoved, Recovering
<1>1. CASE Marked(pending) # {} /\ Save(WithMark) /\ Onward("locate")
  BY <1>0, <1>1, WithMarkFields, WithMarkKeeps, SameDirectory, NoOpFields
     DEF Onward
<1>2. CASE op' = pending /\ UNCHANGED <<pending, task>> /\ Onward("locate")
  BY <1>0, <1>2, SameDirectory DEF Onward
<1>3. CASE Save(RollBack(pending, dir["temp"])) /\ Onward("recover")
  BY <1>0, <1>3, RecoverDoes, RedirectedKept DEF Onward
<1>4. CASE GiveUp
  BY <1>0, <1>4, SameDirectory, NoOpFields DEF GiveUp
<1> QED BY <1>1, <1>2, <1>3, <1>4 DEF RecoverMoved

\* A new operation is for an object at a visible name.
LEMMA BeginKept ==
  ASSUME Whole, NEW kind \in Kinds, NEW n \in Spellings, dir[n] # Empty, Begin(kind, dir[n])
  PROVE  Kept
<1>1. /\ pending = NoOp /\ pending' = NoOp /\ pc' = "check" /\ begun' = begun + 1
      /\ UNCHANGED <<vol, dir, disk, marks>> /\ op'.phase = "none"
      /\ subject' = [subject EXCEPT ![begun + 1] = dir[n].obj] /\ begun < MaxOps
  BY NoOpFields DEF Begin, NoOp
<1>2. subject'[begun'] = dir[n].obj
  BY <1>1, ConstantsAssumption DEF CountsTyped
<1>3. dir[n].obj # NoObj
  BY PresentEntry, ConstantsAssumption DEF DisksTyped, Directory, Names, Id
<1>4. ~Hidden'
  BY <1>1, <1>2, <1>3 DEF Hidden, Shaped, OneName, Names, Spellings
<1> QED BY <1>1, <1>4

LEMMA BeginsKept == ASSUME Whole, BeginRename \/ BeginRestore PROVE Kept
<1>1. CASE BeginRename
  BY <1>1, BeginKept DEF BeginRename, Kinds, Spellings
<1>2. CASE BeginRestore
  BY <1>2, BeginKept DEF BeginRestore, StoredAs, Kinds, Spellings
<1> QED BY <1>1, <1>2

\* A new identity leaves what is hidden where it is.
LEMMA RestampKept ==
  ASSUME Whole, NEW e \in Id, Restamp(e), UNCHANGED <<vol, begun, subject>>
  PROVE  Shaped' /\ Hidden' = Hidden
<1>1. dir' = Stamped(dir, e) /\ disk' = {Stamped(dir, e)}
  BY DEF Restamp, Shaped
<1>2. OneSpelling(Stamped(dir, e)) /\ OneName(Stamped(dir, e)) /\ dir'["temp"].obj = dir["temp"].obj
  BY <1>1, StampedShape DEF Shaped, DisksTyped, OneSpelling, Names
<1> QED BY <1>1, <1>2 DEF Shaped, OneSpelling, OneName, Hidden

LEMMA MarkKept == ASSUME Whole, Mark PROVE Kept /\ Shaped'
<1> DEFINE e == Lookup(dir, Source(leg))
           key == <<e.obj, op.n, op.gen>>
<1>0. pc = "mark" /\ op = pending /\ op.n = begun /\ pending # NoOp /\ op.marker
  BY InHand DEF Mark
<1>1. CASE FailStep
  BY <1>1, SameDirectory, NoOpFields DEF Mark
<1>2. CASE key \in marks /\ e # Empty /\ Goto("stamp") /\ seen' = e
           /\ Still /\ UNCHANGED <<state, leg, task, mode, op, rec>>
  <2>1. Hidden /\ op.rollback => seen'.obj = subject[begun]
    BY <1>0, <1>2
  <2> QED BY <1>0, <1>2, <2>1, SameDirectory DEF Mark
<1>3. CASE /\ e = op.id /\ e # Empty
           /\ \E id \in Reidentified(e) : Restamp(id) /\ seen' = id
           /\ marks' = marks \cup {key}
           /\ Goto("stamp") /\ UNCHANGED <<state, leg, task, mode, op, rec>>
  <2>1. e \in Id
    BY <1>3, InHand, PresentEntry DEF OpType
  <2>2. PICK id \in Id : Restamp(id) /\ seen' = id /\ id.obj = op.id.obj
    BY <1>3, <2>1, ReidentifiedType
  <2>3. UNCHANGED <<vol, begun, subject>>
    BY DEF Mark
  <2>4. Shaped' /\ Hidden' = Hidden
    BY <2>2, <2>3, RestampKept
  <2>5. key[1] = op.id.obj /\ key[2] = begun /\ key[3] = op.gen /\ op.gen \in Nat
    BY <1>0, <1>3, InHand DEF OpType
  <2>6. \A m \in marks' : m[2] = begun => m[3] <= op.gen
    BY <1>0, <1>3, <2>5
  <2>7. Backed'
    BY <1>0, <1>3, <2>2, <2>3, <2>4, <2>5
  <2> QED BY <1>0, <1>3, <2>3, <2>4, <2>6, <2>7
<1> QED BY <1>1, <1>2, <1>3 DEF Mark

LEMMA UnmarkKept == ASSUME Whole, Unmark PROVE Kept /\ Shaped'
<1>1. CASE FailStep
  BY <1>1, SameDirectory, NoOpFields DEF Unmark
<1>2. CASE \E e \in Entry : /\ e # Empty /\ e = op.id
                            /\ \E id \in Reidentified(e) \cup {e} : Restamp(id)
  <2>1. PICK e \in Id : \E id \in Reidentified(e) \cup {e} : Restamp(id)
    BY <1>2, PresentEntry
  <2>2. PICK id \in Id : Restamp(id)
    BY <2>1, ReidentifiedType
  <2>3. pc = "unmark" /\ UNCHANGED <<vol, begun, subject>>
    BY DEF Unmark
  <2>4. Shaped' /\ Hidden' = Hidden
    BY <2>2, <2>3, RestampKept
  <2>5. CASE pc' = "finalize" /\ marks' \subseteq marks /\ UNCHANGED <<pending, op>>
    BY <2>3, <2>4, <2>5
  <2>6. CASE FailStep
    BY <2>6, <1>1
  <2> QED BY <2>5, <2>6 DEF Unmark
<1>3. op.id \in Entry
  BY InHand DEF OpType
<1> QED BY <1>1, <1>2, <1>3 DEF Unmark

\* A move into the hidden name starts from an operation that is under way, and one out
\* of it leaves nothing there.
LEMMA LandedKept ==
  ASSUME Whole, pc \in {"move", "guarded"},
         leg \in {"stage", "unspell"} \/ dir'["temp"] = Empty,
         \/ pc' = After(leg) /\ leg' = IF leg = "unspell" THEN "respell" ELSE leg
         \/ pc' = "adopt" /\ leg' = leg /\ pc = "guarded",
         UNCHANGED <<marks, begun, subject, op, pending>>
  PROVE  Kept
<1>1. op = pending /\ pending # NoOp
  BY InHand
<1>2. begun > 0 => begun \in 1..begun /\ subject[begun] \in Objs
  BY ConstantsAssumption DEF CountsTyped
<1>3. CASE leg \in {"stage", "unspell"}
  <2>1. ~op.rollback /\ op.phase \notin Final
    BY <1>3
  <2>2. pc' \in {"staged", "move", "adopt"} /\ (pc' = "move" => leg' = "respell")
        /\ (pc' = "adopt" => leg' \in {"stage", "unspell"} /\ op.marker)
    BY <1>3 DEF After
  <2> QED BY <1>1, <2>1, <2>2
<1>4. CASE leg \notin {"stage", "unspell"}
  <2>1. dir'["temp"] = Empty /\ ~Hidden'
    BY <1>2, <1>4, ConstantsAssumption DEF Hidden, Empty
  <2>2. /\ pc' \in {"placed", "finished", "unstaged", "rolled", "adopt"} /\ leg' = leg
        /\ pc' = "placed" => leg = "place" /\ op.phase \notin Final
        /\ pc' = "adopt" => op.marker /\ (leg = "place" => op.phase \notin Final)
    BY <1>4 DEF After, Legs
  <2> QED BY <1>1, <1>4, <2>1, <2>2
<1> QED BY <1>3, <1>4

LEMMA MovedKept ==
  ASSUME Whole, pc \in {"move", "guarded"}, Lookup(dir, Source(leg)) # Empty, NEW e \in Entry,
         e.obj = Lookup(dir, Source(leg)).obj, "power" \notin Crashes,
         Change(With(Without(dir, Source(leg)), Target(leg), e)), vol' = vol
  PROVE  /\ leg \in {"stage", "unspell"} \/ dir'["temp"] = Empty
         /\ Shaped'
<1> DEFINE r == With(Without(dir, Source(leg)), Target(leg), e)
<1>1. Source(leg) \in Names /\ Target(leg) \in Names
  BY LegTypes, InHand
<1>2. OneSpelling(r) /\ OneName(r) /\ (Target(leg) = "temp" => r["temp"] = e)
      /\ (Source(leg) = "temp" /\ Target(leg) # "temp" => r["temp"] = Empty)
  BY <1>1, MovedShape DEF Shaped, DisksTyped
<1>3. dir' = r /\ disk' = {r}
  BY DEF Change
<1>4. Shaped'
  BY <1>2, <1>3 DEF Shaped, OneSpelling, OneName
<1>5. leg \notin {"stage", "unspell"} => Source(leg) = "temp" /\ Target(leg) # "temp"
  BY Spelled DEF Source, Target, Legs, Spellings
<1> QED BY <1>2, <1>3, <1>4, <1>5

LEMMA MoveExclusiveKept ==
  ASSUME Whole, MoveExclusive, "power" \notin Crashes PROVE Kept /\ Shaped'
<1>1. CASE FailStep
  BY <1>1, SameDirectory, NoOpFields DEF MoveExclusive
<1>2. CASE ~FailStep
  <2>1. Lookup(dir, Source(leg)) \in Entry
    BY LegTypes, LookupType DEF DisksTyped
  <2>2. Shaped' /\ (leg \in {"stage", "unspell"} \/ dir'["temp"] = Empty)
    BY <1>2, <2>1, MovedKept DEF MoveExclusive, Blocked
  <2>3. /\ pc = "move" /\ pc' = After(leg) /\ leg' = IF leg = "unspell" THEN "respell" ELSE leg
        /\ UNCHANGED <<marks, begun, subject, op, pending>>
    BY <1>2 DEF MoveExclusive, Land
  <2> QED BY <2>2, <2>3, LandedKept
<1> QED BY <1>1, <1>2

LEMMA GuardedRenameKept ==
  ASSUME Whole, GuardedRename, "power" \notin Crashes PROVE Kept /\ Shaped'
<1> DEFINE e == Lookup(dir, Source(leg))
<1>1. CASE FailStep
  BY <1>1, SameDirectory, NoOpFields DEF GuardedRename
<1>2. CASE ~FailStep
  <2>1. e \in Id
    BY <1>2, LegTypes, LookupType, PresentEntry DEF DisksTyped, GuardedRename
  <2>2. PICK id \in Reidentified(e) : Change(With(Without(dir, Source(leg)), Target(leg), id))
    BY <1>2 DEF GuardedRename
  <2>3. id \in Entry /\ id.obj = e.obj
    BY <2>1, ReidentifiedType DEF Entry
  <2>4. /\ pc = "guarded" /\ e # Empty /\ pc' = "adopt"
        /\ UNCHANGED <<vol, leg, marks, begun, subject, op, pending>>
    BY <1>2 DEF GuardedRename
  <2>5. Shaped' /\ (leg \in {"stage", "unspell"} \/ dir'["temp"] = Empty)
    BY <2>2, <2>3, <2>4, MovedKept
  <2> QED BY <2>4, <2>5, LandedKept
<1> QED BY <1>1, <1>2

\* Others put nothing under the hidden name.
LEMMA EnvironmentKept ==
  ASSUME Whole, "power" \notin Crashes,
         \/ \E n \in Spellings, o \in Objs : EnvPut(n, o)
         \/ \E n \in Names : EnvRemove(n)
  PROVE  Kept /\ Shaped'
<1>1. UNCHANGED <<vol, marks, pending, pc, leg, op, seen, begun, subject>>
  BY DEF EnvPut, EnvRemove, Quiet, memory
<1>2. Shaped' /\ dir'["temp"] \in {Empty, dir["temp"]}
  <2>1. CASE \E n \in Spellings, o \in Objs : EnvPut(n, o)
    <3>1. PICK n \in Spellings, o \in Objs : EnvPut(n, o)
      BY <2>1
    <3>2. [obj |-> o, ver |-> 0] \in Entry
      BY DEF Entry, Id
    <3> QED BY <1>1, <3>1, <3>2, PutShape DEF EnvPut, Change, Shaped, DisksTyped, OneSpelling, OneName
  <2>2. CASE \E n \in Names : EnvRemove(n)
    BY <1>1, <2>2, RemoveShape DEF EnvRemove, Change, Shaped, DisksTyped, OneSpelling, OneName
  <2> QED BY <2>1, <2>2
<1>3. begun > 0 => begun \in 1..begun /\ subject[begun] \in Objs
  BY ConstantsAssumption DEF CountsTyped
<1>4. Hidden' => Hidden
  BY <1>1, <1>2, <1>3, ConstantsAssumption DEF Hidden, Empty
<1> QED BY <1>1, <1>2, <1>4

HIDE DEF Whole, Sound, Records, Numbered, Faithful, Forward, Active, Abandoning, Fresh,
         Control, Guarded, Landings, Typed, TypeOK, MemoryTyped, StateTyped,
         Keep, Goto, Forget, Fail, FailStep, Save, Move, Still, Sync, disks, state, budget,
         Ended, Final, Backed, Drawn, Hides, Kept

LEMMA NextKept ==
  ASSUME Whole, Next, "power" \notin Crashes PROVE Kept /\ Shaped'
<1>1. CASE MoveExclusive \/ Mark \/ GuardedRename \/ Unmark
  BY <1>1, MoveExclusiveKept, MarkKept, GuardedRenameKept, UnmarkKept
<1>2. CASE \/ \E n \in Spellings, o \in Objs : EnvPut(n, o)
           \/ \E n \in Names : EnvRemove(n)
  BY <1>2, EnvironmentKept
<1>3. ~PowerFailure
  BY DEF PowerFailure
<1>4. ASSUME Resting PROVE Shaped'
  BY <1>4 DEF Resting, Whole, Shaped, OneSpelling, OneName
<1>5. CASE Program /\ Resting
  <2>1. CASE Moving \/ Check \/ Intend
    BY <2>1, <1>1, <1>4, <1>5, CheckKept, IntendKept, FallBackKept, StampKept, VerifyKept, AdoptKept
       DEF Moving
  <2>2. CASE Landing \/ HandleFailure \/ Restart
    BY <2>2, <1>4, <1>5, StagedKept, UnstagedKept, PlacedKept, RolledKept, HandleFailureKept,
       RestartKept DEF Landing
  <2>3. CASE Ending
    BY <2>3, <1>1, <1>4, <1>5, CompleteKept, EmitKept, FinalizeKept, HoldKept, ClearKept, CancelKept
       DEF Ending
  <2>4. CASE Recovery
    BY <2>4, <1>4, <1>5, RecoverNothingKept, RecoverNotStartedKept, RecoverCommittedKept,
       RecoverMovedKept, UndoKept, RedoKept DEF Recovery
  <2>5. CASE BeginRename \/ BeginRestore
    BY <2>5, <1>4, <1>5, BeginsKept
  <2> QED BY <1>5, <2>1, <2>2, <2>3, <2>4, <2>5 DEF Program, Progress
<1>6. CASE Fault \/ ProcessCrash
  <2>1. Resting
    BY <1>6 DEF Fault, ProcessCrash, Resting, Still, disks
  <2> QED BY <1>4, <1>6, <2>1, FaultKept, ProcessCrashKept
<1> QED BY <1>1, <1>2, <1>3, <1>5, <1>6, ProgramRests DEF Next, Others

LEMMA InitWhole == Init => Whole
<1> SUFFICES ASSUME Init PROVE Whole
  OBVIOUS
<1>1. Sound
  BY InitType, InitSound DEF Sound
<1>2. Shaped
  BY DEF Init, Shaped, OneSpelling, OneName, Names, Spellings, Empty
<1>3. Backed /\ Drawn /\ Hides
  BY DEF Init, Backed, Hidden, Drawn, Hides, Guarded
<1> QED BY <1>1, <1>2, <1>3 DEF Whole

LEMMA StutterWhole == ASSUME Whole, UNCHANGED vars PROVE Kept /\ Shaped'
BY DEF vars, disks, state, memory, Kept, Whole, Shaped, OneSpelling, OneName, Backed, Hidden,
   Drawn, Hides

\* As long as the machine does not lose power, the object of an operation is never left
\* under the hidden name without the pending record that brings it back: on volumes with and
\* without exclusive renames, with identities that change, whatever other applications do to
\* the directory, whichever calls fail and whenever the process dies.
THEOREM SubjectIsBacked ==
  ASSUME "power" \notin Crashes PROVE Spec => []SubjectBacked
<1>1. Init => Whole
  BY InitWhole
<1>2. Sound /\ Sound' /\ Whole /\ [Next]_vars => Whole'
  BY NextKept, StutterWhole DEF Kept, Whole
<1>3. Whole => SubjectBacked
  BY DEF Whole, Shaped, Backed, Hidden, SubjectBacked
<1> QED BY SoundAlways, <1>1, <1>2, <1>3, PTL DEF Spec
----------------------------------------------------------------------------
(* No marker outlives its operation.                                       *)

\* One object is all there is in a directory.
At(d, n, o) == d[n] # Empty /\ d[n].obj = o /\ \A m \in Names \ {n} : d[m] = Empty
Lone ==
  \E o \in Objs :
    /\ begun > 0 => subject[begun] = o
    /\ \A d \in disk \cup {dir} : \E n \in Names : At(d, n, o)

\* The one key there is, and where it is on the object or off it.
Key == <<subject[begun], begun, pending.gen>>
Keys ==
  /\ \A m \in marks : m = Key
  /\ marks # {} => pending # NoOp /\ pending.marker
  /\ pc \in {"stamp", "verify", "guarded", "adopt"} => marks # {}
  /\ pc \in {"finalize", "reemit", "hold", "clear"} => marks = {}

\* Which operations have a marker.
Marking ==
  /\ pc \in {"check", "intend"} => ~op.marker /\ op.phase = "none"
  /\ pc \in Guarded \cup {"unmark", "finalize"} => op.marker
  /\ pc \in Active => op.marker = pending.marker /\ op.gen = pending.gen
  /\ pending # NoOp /\ ~pending.marker => pending.phase = "none"

\* What an operation stages is what it adopts.
Staging ==
  /\ pc = "move" /\ leg = "stage" => ~op.marker
  /\ pc = "adopt" /\ leg = "stage" => dir["temp"] # Empty
  /\ pc = "staged" /\ op.marker => op.id = dir["temp"]

Retired == Marking /\ (env = 0 => Lone /\ Keys /\ Staging)

LEMMA LoneDirectory ==
  ASSUME Lone, begun > 0 PROVE \E n \in Names : At(dir, n, subject[begun])
BY DEF Lone

LEMMA LonePresent ==
  ASSUME Lone, begun > 0, NEW o \in Present(dir) PROVE o = subject[begun]
<1>1. PICK n \in Names : At(dir, n, subject[begun])
  BY DEF Lone
<1>2. PICK m \in Names : dir[m].obj = o /\ o # NoObj
  BY DEF Present
<1>3. m = n
  BY <1>1, <1>2 DEF At, Empty
<1> QED BY <1>1, <1>2, <1>3 DEF At

\* A directory with one object: what a name reaches, what a move and a new identity leave.
LEMMA AtLookup ==
  ASSUME NEW d, NEW n \in Names, NEW o, At(d, n, o), NEW s \in Names
  PROVE  /\ Lookup(d, s) # Empty => Lookup(d, s) = d[n] /\ Twins(n, s)
         /\ Lookup(d, n) = d[n]
<1>1. \A m \in Names : d[m] # Empty => m = n
  BY DEF At
<1>2. Twins(n, n)
  BY DEF Twins
<1> QED BY <1>1, <1>2 DEF Lookup, At

LEMMA AtOnce ==
  ASSUME NEW d, NEW m \in Names, NEW n \in Names, NEW o, At(d, n, o), d[m] # Empty
  PROVE  m = n
BY DEF At

LEMMA AtMoved ==
  ASSUME TypeOK, NEW d \in Directory, NEW n \in Names, NEW o, At(d, n, o),
         NEW s \in Names, NEW t \in Names, Lookup(d, s) # Empty, NEW e, e # Empty, e.obj = o
  PROVE  LET r == With(Without(d, s), t, e)
         IN  /\ \E k \in Names : At(r, k, o) /\ r[k] = e
             /\ t \in {"temp", "nfd"} => r[t] = e
<1> DEFINE slot == IF t = "nfc" /\ ~vol.keeps THEN "nfd" ELSE t
           r == With(Without(d, s), t, e)
<1>1. slot \in Names /\ (t \in {"temp", "nfd"} => slot = t)
  BY DEF Names, Spellings
<1>2. r[slot] = e
  BY <1>1 DEF With, Without
<1>3. Twins(n, s)
  BY AtLookup
<1>4. \A m \in Names : m # slot => r[m] = IF Twins(m, s) \/ Twins(m, t) THEN Empty ELSE d[m]
  BY <1>1 DEF With, Without
<1>5. \A m \in Names \ {slot} : r[m] = Empty
  BY <1>3, <1>4 DEF At
<1> QED BY <1>1, <1>2, <1>5 DEF At

LEMMA AtStamped ==
  ASSUME NEW d \in Directory, NEW n \in Names, NEW o, At(d, n, o), NEW i \in Id
  PROVE  At(Stamped(d, i), n, o) /\ (i.obj = o => Stamped(d, i)[n] = i)
<1>1. i.obj # NoObj /\ i # Empty
  BY ConstantsAssumption DEF Id, Empty
<1>2. \A m \in Names : Stamped(d, i)[m] = IF d[m].obj = i.obj THEN i ELSE d[m]
  BY DEF Stamped
<1> QED BY <1>1, <1>2 DEF At, Empty

\* An identity the program gives the object is of the object.
LEMMA LoneEntry ==
  ASSUME Typed, Lone, begun # 0, NEW d \in disk \cup {dir}, NEW s \in Names, Lookup(d, s) # Empty
  PROVE  /\ Lookup(d, s).obj = subject[begun] /\ Lookup(d, s) \in Id
         /\ \E n \in Names : At(d, n, subject[begun]) /\ Lookup(d, s) = d[n] /\ Twins(n, s)
<1>1. begun > 0
  BY ConstantsAssumption DEF Typed, TypeOK, CountsTyped
<1>2. PICK n \in Names : At(d, n, subject[begun])
  BY <1>1 DEF Lone
<1>3. d[n] \in Id
  BY <1>2, PresentEntry DEF At, Typed, TypeOK, DisksTyped, Directory
<1> QED BY <1>2, <1>3, AtLookup DEF At

\* What a move does where there is one object.
LEMMA LoneMoved ==
  ASSUME Typed, Lone, begun # 0, NEW s \in Names, NEW t \in Names, Lookup(dir, s) # Empty,
         NEW e \in Id, e.obj = subject[begun], Change(With(Without(dir, s), t, e)),
         UNCHANGED <<begun, subject>>
  PROVE  Lone' /\ (t \in {"temp", "nfd"} => dir'[t] = e)
<1> DEFINE r == With(Without(dir, s), t, e)
<1>1. begun > 0 /\ e # Empty /\ dir \in Directory /\ TypeOK
  BY ConstantsAssumption DEF Typed, TypeOK, CountsTyped, Id, Empty, DisksTyped
<1>2. PICK n \in Names : At(dir, n, subject[begun])
  BY <1>1 DEF Lone
<1>3. (\E k \in Names : At(r, k, subject[begun])) /\ (t \in {"temp", "nfd"} => r[t] = e)
  BY <1>1, <1>2, AtMoved
<1>4. dir' = r /\ disk' \subseteq disk \cup {r}
  BY DEF Change
<1> HIDE DEF r
<1> QED BY <1>1, <1>3, <1>4 DEF Lone

LEMMA LoneStamped ==
  ASSUME Typed, Lone, NEW i \in Id, Restamp(i), UNCHANGED <<begun, subject>>
  PROVE  Lone'
<1>1. PICK o \in Objs :
        /\ begun > 0 => subject[begun] = o
        /\ \A d \in disk \cup {dir} : \E n \in Names : At(d, n, o)
  BY DEF Lone
<1>2. \A d \in disk \cup {dir} : \E n \in Names : At(Stamped(d, i), n, o)
  BY <1>1, AtStamped DEF Typed, TypeOK, DisksTyped
<1>3. \A d \in disk' \cup {dir'} : \E n \in Names : At(d, n, o)
  BY <1>2 DEF Restamp
<1> QED BY <1>1, <1>3 DEF Lone

LEMMA LoneRests ==
  ASSUME Lone, dir' \in disk \cup {dir}, disk' \in {disk, {dir}, {dir'}},
         UNCHANGED <<begun, subject>>
  PROVE  Lone'
<1>1. \A d \in disk' \cup {dir'} : d \in disk \cup {dir}
  OBVIOUS
<1> QED BY <1>1 DEF Lone

LEMMA LoneBegins ==
  ASSUME Typed, Lone, NEW n \in Names, NEW e \in Id, dir[n] = e, NEW kind \in Kinds, Begin(kind, e)
  PROVE  Lone'
<1>1. /\ begun + 1 \in 1..MaxOps /\ subject' = [subject EXCEPT ![begun + 1] = e.obj]
      /\ begun' = begun + 1 /\ UNCHANGED <<dir, disk>> /\ subject \in [1..MaxOps -> Objs \cup {NoObj}]
  BY ConstantsAssumption DEF Begin, Typed, TypeOK, CountsTyped, disks
<1>2. subject'[begun'] = e.obj /\ e # Empty
  BY <1>1, ConstantsAssumption DEF Id, Empty
<1>3. PICK o \in Objs : \A d \in disk \cup {dir} : \E k \in Names : At(d, k, o)
  BY DEF Lone
<1>4. e.obj = o
  BY <1>2, <1>3 DEF At
<1> QED BY <1>1, <1>2, <1>3, <1>4 DEF Lone

LEMMA BeginsAt ==
  ASSUME Typed, BeginRename \/ BeginRestore
  PROVE  \E n \in Spellings, kind \in Kinds : dir[n] \in Id /\ Begin(kind, dir[n])
<1>1. CASE BeginRename
  <2>1. dir["nfd"] \in Id
    BY <1>1, PresentEntry DEF BeginRename, Typed, TypeOK, DisksTyped, Directory, Names, Spellings
  <2> QED BY <1>1, <2>1 DEF BeginRename, Kinds, Spellings
<1>2. CASE BeginRestore
  <2> DEFINE r == journal[Len(journal)]
  <2>1. StoredAs(dir, r.id, "nfc") /\ Begin("reverted", r.id)
    BY <1>2 DEF BeginRestore
  <2>2. dir["nfc"] \in Id /\ dir["nfc"] = r.id
    BY <2>1, PresentEntry DEF StoredAs, Typed, TypeOK, DisksTyped, Directory, Names, Spellings
  <2> QED BY <2>1, <2>2 DEF Kinds, Spellings
<1> QED BY <1>1, <1>2

\* The program's changes of the directory.
LEMMA MoveExclusiveLone ==
  ASSUME Sound, Lone, MoveExclusive
  PROVE  Lone' /\ (pc' = "staged" => dir'["temp"] # Empty)
<1>1. begun # 0 /\ Source(leg) \in Names /\ Target(leg) \in Names /\ leg \in Legs
  BY AtHand, LegTypes DEF MoveExclusive, Sound, Typed, TypeOK, MemoryTyped, Active, Control
<1>2. CASE FailStep
  <2>1. dir' = dir /\ disk' = disk /\ UNCHANGED <<begun, subject>> /\ pc' # "staged"
    BY <1>2 DEF MoveExclusive, FailStep, Still, disks, Keep, Fail, Goto, Forget
  <2> QED BY <2>1, LoneRests
<1>3. CASE ~Blocked
  <2> DEFINE e == Lookup(dir, Source(leg))
  <2>1. e # Empty /\ Change(With(Without(dir, Source(leg)), Target(leg), e))
        /\ UNCHANGED <<begun, subject>> /\ pc' = After(leg)
    BY <1>3 DEF MoveExclusive, Blocked, Keep, Land, Goto
  <2>2. e \in Id /\ e.obj = subject[begun]
    BY <1>1, <2>1, LoneEntry DEF Sound
  <2>3. Lone' /\ (Target(leg) \in {"temp", "nfd"} => dir'[Target(leg)] = e)
    BY <1>1, <2>1, <2>2, LoneMoved DEF Sound
  <2>4. pc' = "staged" => Target(leg) = "temp"
    BY <1>1, <2>1 DEF After, Target, Legs
  <2> QED BY <2>1, <2>3, <2>4
<1> QED BY <1>2, <1>3 DEF MoveExclusive

LEMMA GuardedRenameLone ==
  ASSUME Sound, Lone, GuardedRename
  PROVE  Lone' /\ (pc' = "adopt" /\ leg = "stage" => dir'["temp"] # Empty)
<1>1. begun # 0 /\ Source(leg) \in Names /\ Target(leg) \in Names /\ leg \in Legs
  BY AtHand, LegTypes DEF GuardedRename, Sound, Typed, TypeOK, MemoryTyped, Active, Control, Guarded
<1>2. CASE FailStep
  <2>1. dir' = dir /\ disk' = disk /\ UNCHANGED <<begun, subject>> /\ pc' # "adopt"
    BY <1>2 DEF GuardedRename, FailStep, Still, disks, Keep, Fail, Goto, Forget
  <2> QED BY <2>1, LoneRests
<1>3. CASE ~FailStep
  <2> DEFINE e == Lookup(dir, Source(leg))
  <2>1. PICK id \in Reidentified(e) :
          e # Empty /\ Change(With(Without(dir, Source(leg)), Target(leg), id))
    BY <1>3 DEF GuardedRename
  <2>2. e \in Id /\ e.obj = subject[begun]
    BY <1>1, <2>1, LoneEntry DEF Sound
  <2>3. id \in Id /\ id.obj = subject[begun] /\ id # Empty
    BY <2>2, ReidentifiedType, ConstantsAssumption DEF Id, Empty
  <2>4. Lone' /\ (Target(leg) \in {"temp", "nfd"} => dir'[Target(leg)] = id)
    BY <1>1, <2>1, <2>3, LoneMoved DEF Sound, GuardedRename, Keep
  <2>5. leg = "stage" => Target(leg) = "temp"
    BY DEF Target
  <2> QED BY <2>3, <2>4, <2>5
<1> QED BY <1>2, <1>3

LEMMA MarkLone == ASSUME Sound, Lone, Mark PROVE Lone'
<1>1. begun # 0 /\ Source(leg) \in Names
  BY AtHand, LegTypes DEF Mark, Sound, Typed, TypeOK, MemoryTyped, Active, Control, Guarded
<1>2. CASE Still
  BY <1>2, LoneRests DEF Still, disks, Mark, Keep
<1>3. CASE ~Still
  <2> DEFINE e == Lookup(dir, Source(leg))
  <2>1. PICK id \in Reidentified(e) : e # Empty /\ Restamp(id)
    BY <1>3 DEF Mark, FailStep
  <2>2. id \in Id
    BY <1>1, <2>1, LoneEntry, ReidentifiedType DEF Sound
  <2> QED BY <2>1, <2>2, LoneStamped DEF Mark, Keep, Sound
<1> QED BY <1>2, <1>3

LEMMA UnmarkLone == ASSUME Sound, Lone, Unmark PROVE Lone'
<1>1. op.id \in Entry
  BY DEF Sound, Typed, TypeOK, MemoryTyped, OpType
<1>2. CASE FailStep
  BY <1>2, LoneRests DEF Still, disks, Unmark, Keep, FailStep
<1>3. CASE ~FailStep
  <2>1. op.id # Empty /\ \E id \in Reidentified(op.id) \cup {op.id} : Restamp(id)
    BY <1>3 DEF Unmark
  <2>2. \E id \in Id : Restamp(id)
    BY <1>1, <2>1, PresentEntry, ReidentifiedType
  <2> QED BY <2>2, LoneStamped DEF Unmark, Keep, Sound
<1> QED BY <1>2, <1>3

\* No step of the program counts as a change by others.
LEMMA ProgressKeeps == ASSUME Progress PROVE Keep
<1>1. CASE Check \/ Intend \/ HandleFailure \/ Restart
  BY <1>1 DEF Check, Intend, HandleFailure, Restart
<1>2. CASE Moving
  BY <1>2 DEF Moving, MoveExclusive, FallBack, Mark, Stamp, Verify, GuardedRename, Adopt
<1>3. CASE Landing
  BY <1>3 DEF Landing, Staged, Unstaged, Placed, Finished, Rolled
<1>4. CASE Ending
  BY <1>4 DEF Ending, Complete, Emit, Reemit, Unmark, Finalize, Hold, Clear, Cancel
<1>5. CASE Recovery
  BY <1>5 DEF Recovery, RecoverNothing, RecoverNotStarted, RecoverCommitted, RecoverMoved,
     Recovering, Undo, Redo, Locating
<1> QED BY <1>1, <1>2, <1>3, <1>4, <1>5 DEF Progress

LEMMA EnvGrows == ASSUME Sound, Next, env' = 0 PROVE env = 0 /\ UNCHANGED env
<1>1. env \in Nat
  BY ConstantsAssumption DEF Sound, Typed, TypeOK, CountsTyped
<1>2. env' # env + 1
  BY <1>1
<1>3. CASE Progress
  BY <1>3, ProgressKeeps DEF Keep, budget
<1>4. CASE BeginRename \/ BeginRestore
  BY <1>4 DEF BeginRename, BeginRestore, Begin, budget
<1>5. CASE Others
  BY <1>2, <1>5 DEF Others, EnvPut, EnvRemove, Fault, ProcessCrash, PowerFailure
<1> QED BY <1>3, <1>4, <1>5 DEF Next, Program

LEMMA LoneKept ==
  ASSUME Sound, Lone, Next, env' = 0
  PROVE  Lone'
<1>1. env \in Nat
  BY ConstantsAssumption DEF Sound, Typed, TypeOK, CountsTyped
<1>2. ~(\E n \in Spellings, o \in Objs : EnvPut(n, o)) /\ ~(\E n \in Names : EnvRemove(n))
  <2>1. env' # env + 1
    BY <1>1
  <2> QED BY <2>1 DEF EnvPut, EnvRemove
<1>3. CASE Fault \/ ProcessCrash \/ PowerFailure
  BY <1>3, LoneRests DEF Fault, ProcessCrash, PowerFailure, Quiet, Still, disks
<1>4. CASE BeginRename \/ BeginRestore
  <2>1. PICK n \in Spellings, kind \in Kinds : dir[n] \in Id /\ Begin(kind, dir[n])
    BY <1>4, BeginsAt DEF Sound
  <2> QED BY <2>1, LoneBegins DEF Sound, Names
<1>5. CASE MoveExclusive \/ Mark \/ GuardedRename \/ Unmark
  BY <1>5, MoveExclusiveLone, MarkLone, GuardedRenameLone, UnmarkLone
<1>6. CASE Program /\ Resting /\ ~(BeginRename \/ BeginRestore)
  <2>1. UNCHANGED <<begun, subject>>
    BY <1>6, ProgressKeeps DEF Program, Keep
  <2> QED BY <1>6, <2>1, LoneRests DEF Resting
<1> QED BY <1>2, <1>3, <1>4, <1>5, <1>6, ProgramRests DEF Next, Others

\* The other fields of an operation.
LEMMA KindKept ==
  ASSUME NEW o \in OpType, NEW e, NEW p
  PROVE  LET i == [o EXCEPT !.id = e]
             c == [o EXCEPT !.phase = p]
             m == [o EXCEPT !.id = e, !.phase = "moving"]
             f == [o EXCEPT !.id = e, !.final = TRUE]
             r == [o EXCEPT !.id = e, !.rollback = TRUE]
             d == [o EXCEPT !.marker = TRUE, !.gen = @ + 1, !.phase = "marker-intent"]
         IN  /\ i.kind = o.kind /\ c.kind = o.kind /\ m.kind = o.kind /\ f.kind = o.kind
             /\ r.kind = o.kind /\ d.kind = o.kind /\ RollBack(o, e).kind = o.kind
BY DEF OpType, RollBack

LEMMA StampMarks ==
  ASSUME Sound, Stamp
  PROVE  op'.marker = op.marker /\ op'.kind = op.kind /\ op'.id = seen
BY AtHand, IdentityFields, MarkerKept, KindKept DEF Stamp, Save

LEMMA FinalizeMarks ==
  ASSUME Sound, Finalize PROVE op'.marker = op.marker /\ op'.kind = op.kind
BY AtHand, MarkerKept, KindKept DEF Finalize, Save

LEMMA FallBackMarks ==
  ASSUME Sound, FallBack
  PROVE  /\ op'.marker /\ op'.kind = op.kind /\ op'.id = op.id
         /\ op.marker => op' = op
         /\ ~op.marker => op'.phase = "marker-intent"
<1> DEFINE d == [op EXCEPT !.marker = TRUE, !.gen = @ + 1, !.phase = "marker-intent"]
<1>1. op \in OpType
  BY AtHand
<1>2. CASE op.marker /\ op' = op
  BY <1>2
<1>3. CASE ~op.marker /\ op' = d
  BY <1>1, <1>3, DrawnFields, MarkerDrawn, KindKept
<1> QED BY <1>2, <1>3 DEF FallBack, Save

LEMMA AdoptMarks ==
  ASSUME Sound, Adopt
  PROVE  /\ op'.marker = op.marker /\ op'.kind = op.kind
         /\ LET e == Lookup(dir, Target(leg))
            IN  IF <<e.obj, op.n, op.gen>> \in marks THEN op'.id = e ELSE op' = op
<1> DEFINE e == Lookup(dir, Target(leg))
<1>1. CASE <<e.obj, op.n, op.gen>> \in marks /\ op' = [op EXCEPT !.id = e]
  BY <1>1, AtHand, IdentityFields, MarkerKept, KindKept
<1>2. CASE <<e.obj, op.n, op.gen>> \notin marks /\ op' = op
  BY <1>2
<1> QED BY <1>1, <1>2 DEF Adopt, Save

LEMMA CompleteMarks == ASSUME Sound, Complete PROVE op'.kind = op.kind
<1>1. CASE op' = [op EXCEPT !.phase = "committed"]
  BY <1>1, AtHand, KindKept
<1> QED BY <1>1 DEF Complete, Save

LEMMA CancelMarks == ASSUME Sound, Cancel PROVE op'.kind = op.kind
<1>1. CASE op' = [op EXCEPT !.phase = "not-started"]
  BY <1>1, AtHand, KindKept
<1> QED BY <1>1 DEF Cancel, Save

LEMMA RedirectMarks ==
  ASSUME Sound, Save([op EXCEPT !.id = dir["temp"], !.rollback = TRUE])
  PROVE  /\ pending' = op' /\ op'.marker = op.marker /\ op'.kind = op.kind /\ op'.gen = op.gen
         /\ op'.rollback /\ op'.phase = op.phase /\ op'.final = op.final
BY AtHand, RedirectFields, MarkerKept, KindKept, FinalKept DEF Save

LEMMA RollBackMarks ==
  ASSUME Sound, NEW o \in OpType, Save(RollBack(o, dir["temp"]))
  PROVE  /\ pending' = op' /\ ~op'.marker /\ op'.kind = o.kind /\ op'.gen = o.gen
         /\ op'.rollback /\ op'.phase = "none" /\ op'.final = o.final
BY RollBackFields, MarkerDropped, KindKept, FinalKept DEF Save

LEMMA WithMarkIs ==
  ASSUME Sound, pending # NoOp, Marked(pending) # {}
  PROVE  /\ WithMark.marker = pending.marker /\ WithMark.kind = pending.kind
         /\ pending.marker /\ marks # {}
         /\ \E n \in Names : WithMark.id = dir[n] /\ <<dir[n].obj, pending.n, pending.gen>> \in marks
<1> DEFINE n == CHOOSE n \in Marked(pending) : TRUE
<1>1. n \in Marked(pending)
  OBVIOUS
<1>2. n \in Names /\ pending.marker /\ <<dir[n].obj, pending.n, pending.gen>> \in marks
  BY <1>1 DEF Marked
<1>3. WithMark = [pending EXCEPT !.id = dir[n]] /\ pending \in OpType
  BY AtHand DEF WithMark
<1>4. WithMark.marker = pending.marker /\ WithMark.kind = pending.kind /\ WithMark.id = dir[n]
  BY <1>3, IdentityFields, MarkerKept, KindKept
<1> QED BY <1>2, <1>4

\* An operation whose marker is not found has none.
LEMMA Unmarked ==
  ASSUME Sound, Lone, Keys, pending # NoOp, Marked(pending) = {}
  PROVE  marks = {}
<1>1. SUFFICES ASSUME NEW m \in marks PROVE FALSE
  OBVIOUS
<1>2. pending.marker /\ m = Key /\ pending.n = begun
  BY <1>1 DEF Keys, Sound, Records, Numbered
<1>3. begun > 0 /\ begun # 0
  <2>1. m[2] \in 1..begun /\ begun \in Nat
    BY ConstantsAssumption DEF Sound, Records, Numbered, Typed, TypeOK, CountsTyped
  <2> QED BY <2>1
<1>4. PICK n \in Names : At(dir, n, subject[begun])
  BY <1>3 DEF Lone
<1>5. <<dir[n].obj, pending.n, pending.gen>> = m
  BY <1>2, <1>4 DEF At, Key
<1> QED BY <1>1, <1>2, <1>5 DEF Marked

\* The marker of the operation is all there is to remove.
LEMMA Keyless ==
  ASSUME Keys, UNCHANGED <<begun, subject>>, pending'.gen = pending.gen
  PROVE  Key' = Key
BY DEF Key

Retiring == Marking' /\ (env' = 0 => Keys' /\ Staging')

USE DEF Retired, Retiring, Marking, Keys, Staging, Once, Ready, Settlings,
        Sound, Records, Numbered, Abandoning, Active, Control, Guarded, Landings, Typed, TypeOK,
        MemoryTyped, StateTyped, Keep, Goto, Forget, Fail, FailStep, Save, Move, Still, Sync,
        disks, state, budget

LEMMA NoOpMarks == NoOp.marker = FALSE /\ NoOp.phase = "none"
BY DEF NoOp

LEMMA CheckRetires == ASSUME Once, Retired, Check PROVE Retiring
BY Keyless, NoOpMarks DEF Check

LEMMA IntendRetires == ASSUME Once, Retired, Intend PROVE Retiring
<1>1. pc = "intend" /\ pending = NoOp /\ ~op.marker /\ op.phase = "none" /\ pending' = op /\ op' = op
  BY DEF Intend, Fresh
<1> QED BY <1>1, NoOpMarks, Keyless DEF Intend

LEMMA VerifyRetires == ASSUME Once, Retired, Verify PROVE Retiring
BY Keyless, NoOpMarks DEF Verify

LEMMA UnstagedRetires == ASSUME Once, Retired, Unstaged PROVE Retiring
BY Keyless, NoOpMarks DEF Unstaged

LEMMA LandedRetires == ASSUME Once, Retired, Placed \/ Finished PROVE Retiring
BY Keyless, NoOpMarks DEF Placed, Finished

LEMMA RolledRetires == ASSUME Once, Retired, Rolled PROVE Retiring
BY Keyless, NoOpMarks DEF Rolled

LEMMA RestartRetires == ASSUME Once, Retired, Restart PROVE Retiring
BY Keyless, NoOpMarks DEF Restart

LEMMA RecoverNothingRetires == ASSUME Once, Retired, RecoverNothing PROVE Retiring
BY Keyless, NoOpMarks DEF RecoverNothing

LEMMA EmitRetires == ASSUME Once, Retired, Emit \/ Reemit PROVE Retiring
BY Keyless, NoOpMarks DEF Emit, Reemit

LEMMA HoldRetires == ASSUME Once, Retired, Hold PROVE Retiring
BY Keyless, NoOpMarks DEF Hold

LEMMA ClearRetires == ASSUME Once, Retired, Clear PROVE Retiring
BY NoOpMarks DEF Clear

LEMMA HandleFailureRetires == ASSUME Once, Retired, HandleFailure PROVE Retiring
BY Keyless, NoOpMarks DEF HandleFailure

LEMMA UndoRetires == ASSUME Once, Retired, Undo PROVE Retiring
BY Keyless, NoOpMarks DEF Undo, Locating

LEMMA FaultRetires == ASSUME Once, Retired, Fault PROVE Retiring
BY Keyless, NoOpMarks DEF Fault

LEMMA CrashRetires == ASSUME Once, Retired, ProcessCrash \/ PowerFailure PROVE Retiring
BY Keyless, NoOpMarks DEF ProcessCrash, PowerFailure, Quiet

LEMMA BeginRetires == ASSUME Once, Retired, BeginRename \/ BeginRestore PROVE Retiring
<1>1. /\ pc' = "check" /\ pending' = NoOp /\ pending = NoOp /\ marks' = marks /\ env' = env
      /\ ~op'.marker /\ op'.phase = "none"
  BY DEF BeginRename, BeginRestore, Begin, NoOp
<1> QED BY <1>1

LEMMA MoveExclusiveRetires == ASSUME Once, Retired, MoveExclusive PROVE Retiring
<1>1. UNCHANGED <<marks, pending, journal, begun, subject, env>> /\ pc = "move"
  BY DEF MoveExclusive
<1>2. CASE FailStep
  BY <1>1, <1>2, Keyless
<1>3. CASE Land /\ op' = op
  BY <1>1, <1>3, Keyless DEF Land, After, Legs
<1> QED BY <1>2, <1>3 DEF MoveExclusive

LEMMA FallBackRetires == ASSUME Once, Retired, FallBack PROVE Retiring
<1>1. pc' = "mark" /\ UNCHANGED <<marks, begun, subject, env>> /\ pc = "move"
  BY DEF FallBack
<1>2. CASE op.marker
  BY <1>1, <1>2, FallBackMarks, FallBackChanges, Keyless
<1>3. CASE ~op.marker
  BY <1>1, <1>3, FallBackMarks, FallBackChanges
<1> QED BY <1>2, <1>3

LEMMA MarkRetires == ASSUME Once, Retired, Mark PROVE Retiring
<1> DEFINE e == Lookup(dir, Source(leg))
           key == <<e.obj, op.n, op.gen>>
<1>1. pc = "mark" /\ op = pending /\ UNCHANGED <<pending, begun, subject, env>> /\ begun # 0
      /\ pending # NoOp /\ op.n = begun /\ op.marker /\ Source(leg) \in Names
  BY AtHand, LegTypes DEF Mark
<1>2. CASE FailStep
  BY <1>1, <1>2, Keyless
<1>3. CASE key \in marks /\ pc' = "stamp" /\ marks' = marks /\ UNCHANGED <<op, leg>>
  BY <1>1, <1>3, Keyless
<1>4. CASE e # Empty /\ pc' = "stamp" /\ marks' = marks \cup {key} /\ UNCHANGED <<op, leg>>
  <2>1. env = 0 => key = Key
    BY <1>1, <1>4, LoneEntry DEF Key
  <2>2. Key' = Key
    BY <1>1 DEF Key
  <2> QED BY <1>1, <1>4, <2>1, <2>2
<1> QED BY <1>2, <1>3, <1>4 DEF Mark

LEMMA StampRetires == ASSUME Once, Retired, Stamp PROVE Retiring
<1>1. pc = "stamp" /\ pc' = "verify" /\ UNCHANGED <<marks, begun, subject, env>>
  BY DEF Stamp
<1> QED BY <1>1, StampMarks, StampChanges, Keyless, AtHand, NoOpMarks

LEMMA GuardedRenameRetires == ASSUME Once, Retired, GuardedRename PROVE Retiring
<1>1. UNCHANGED <<marks, pending, begun, subject, env>> /\ pc = "guarded"
  BY DEF GuardedRename
<1>2. CASE FailStep
  BY <1>1, <1>2, Keyless
<1>3. CASE pc' = "adopt" /\ UNCHANGED <<op, leg>>
  BY <1>1, <1>3, Keyless, GuardedRenameLone
<1> QED BY <1>2, <1>3 DEF GuardedRename

LEMMA AdoptRetires == ASSUME Once, Retired, Adopt PROVE Retiring
<1>1. /\ pc = "adopt" /\ pc' = After(leg) /\ leg' = IF leg = "unspell" THEN "respell" ELSE leg
      /\ UNCHANGED <<dir, marks, begun, subject, env>> /\ pending # NoOp /\ begun > 0 /\ op = pending
      /\ op.n = begun
  BY AtHand DEF Adopt, Land
<1>2. pc' = "staged" => leg = "stage"
  BY <1>1 DEF After, Legs
<1>3. ASSUME env = 0, leg = "stage" PROVE op'.id = dir["temp"]
  <2>1. dir["temp"] # Empty /\ marks # {}
    BY <1>1, <1>3
  <2>2. PICK n \in Names : At(dir, n, subject[begun])
    BY <1>1, <1>3, LoneDirectory
  <2>3. n = "temp"
    BY <2>1, <2>2, AtOnce DEF Names
  <2>4. Lookup(dir, Target(leg)) = dir["temp"] /\ dir["temp"].obj = subject[begun]
    BY <1>3, <2>2, <2>3, AtLookup DEF Target, At
  <2>5. <<dir["temp"].obj, op.n, op.gen>> \in marks
    BY <1>1, <1>3, <2>1, <2>4 DEF Key
  <2> QED BY <2>4, <2>5, AdoptMarks
<1>4. pc' \notin Guarded \cup {"check", "intend", "unmark", "finalize", "reemit", "hold", "clear"}
  BY <1>1 DEF After, Legs
<1>5. pc' = "move" => leg' # "stage"
  BY <1>1 DEF After, Legs
<1>6. /\ pending' = op' /\ op'.n = op.n /\ op'.gen = op.gen /\ op'.marker = op.marker
      /\ op'.phase = op.phase
  BY AdoptMarks, AdoptChanges
<1>7. op.marker /\ op'.marker /\ op'.gen = pending.gen /\ pending' = op' /\ op' # NoOp
  BY <1>1, <1>6, NoOpMarks
<1>9. Marking'
  BY <1>1, <1>4, <1>7
<1>10. env = 0 => Keys'
  BY <1>1, <1>4, <1>7, Keyless
<1>8. env' = 0 => Staging'
  BY <1>1, <1>2, <1>3, <1>4, <1>5
<1> QED BY <1>1, <1>8, <1>9, <1>10

LEMMA StagedRetires == ASSUME Once, Retired, Staged PROVE Retiring
<1>1. /\ pc = "staged" /\ op = pending /\ pending # NoOp /\ dir' = dir
      /\ UNCHANGED <<marks, begun, subject, env>>
  BY AtHand DEF Staged
<1>2. CASE Fail /\ UNCHANGED pending
  BY <1>1, <1>2, Keyless DEF Staged
<1>3. CASE Move("place") /\ UNCHANGED <<op, pending>>
  BY <1>1, <1>3, Keyless DEF Staged
<1>4. CASE Save(RollBack(op, dir["temp"])) /\ Move("unstage") /\ dir["temp"] # op.id
  <2>1. op \in OpType
    BY AtHand
  <2>2. /\ pending' = op' /\ ~op'.marker /\ op'.gen = op.gen /\ op'.phase = "none"
    BY <1>4, <2>1, RollBackMarks
  <2>3. env = 0 => marks = {}
    BY <1>1, <1>4
  <2>4. pc' = "move" /\ leg' = "unstage"
    BY <1>4
  <2> QED BY <1>1, <2>2, <2>3, <2>4
<1> QED BY <1>2, <1>3, <1>4 DEF Staged

LEMMA CompleteRetires == ASSUME Once, Retired, Complete PROVE Retiring
<1>1. /\ pc = "complete" /\ pc' = IF rec = NoRec THEN "emit" ELSE IF op.marker THEN "unmark" ELSE "hold"
      /\ UNCHANGED <<marks, begun, subject, env>> /\ pending # NoOp
  BY AtHand DEF Complete
<1> QED BY <1>1, CompleteChanges, Keyless, NoOpMarks DEF Phased

LEMMA CancelRetires == ASSUME Once, Retired, Cancel PROVE Retiring
<1>1. /\ pc = "cancel" /\ pc' = IF op.marker THEN "unmark" ELSE "clear"
      /\ UNCHANGED <<marks, begun, subject, env>> /\ pending # NoOp
  BY AtHand DEF Cancel
<1> QED BY <1>1, CancelChanges, Keyless, NoOpMarks DEF Phased

LEMMA UnmarkRetires == ASSUME Once, Retired, Unmark PROVE Retiring
<1> DEFINE e == CASE task = "complete" -> Lookup(dir, New(op))
                  [] task \in {"cancel", "roll"} -> Lookup(dir, Old(op))
                  [] task = "abandon" -> op.id
           key == <<e.obj, op.n, op.gen>>
<1>1. /\ pc = "unmark" /\ UNCHANGED <<pending, begun, subject, env>> /\ op.n = begun /\ begun > 0
      /\ op.gen = pending.gen
  BY AtHand DEF Unmark
<1>2. CASE FailStep
  BY <1>1, <1>2, Keyless DEF Unmark
<1>3. CASE /\ e # Empty /\ e.obj \in Present(dir) /\ marks' = marks \ {key} /\ pc' = "finalize"
           /\ UNCHANGED op
  <2>1. ASSUME env = 0 PROVE marks' = {}
    <3>4. e.obj = subject[begun]
      BY <1>1, <1>3, <2>1, LonePresent
    <3>5. key = Key
      BY <1>1, <3>4 DEF Key
    <3> QED BY <1>3, <2>1, <3>5
  <2> QED BY <1>1, <1>3, <2>1
<1> QED BY <1>2, <1>3 DEF Unmark

LEMMA FinalizeRetires == ASSUME Once, Retired, Finalize PROVE Retiring
<1>1. /\ pc = "finalize" /\ pc' \in {"clear", "reemit", "hold"}
      /\ UNCHANGED <<marks, begun, subject, env>> /\ pending # NoOp
  BY AtHand DEF Finalize
<1> QED BY <1>1, FinalizeMarks, FinalizeChanges, Keyless

LEMMA RedoRetires == ASSUME Once, Retired, Redo PROVE Retiring
<1>1. /\ pc = "locate" /\ op = pending /\ pending # NoOp
      /\ UNCHANGED <<marks, begun, subject, env>>
  BY AtHand DEF Redo, Locating
<1>2. CASE /\ Save([op EXCEPT !.id = dir["temp"], !.rollback = TRUE])
           /\ Goto("recover") /\ UNCHANGED <<leg, task, mode, seen, rec>>
  BY <1>1, <1>2, RedirectMarks, Keyless, NoOpMarks
<1>3. CASE UNCHANGED pending /\ Fail
  BY <1>1, <1>3, Keyless
<1>4. CASE UNCHANGED <<pending, op>>
  BY <1>1, <1>4, Keyless DEF Redo
<1> QED BY <1>2, <1>3, <1>4 DEF Redo

LEMMA RecoverNotStartedRetires == ASSUME Once, Retired, RecoverNotStarted PROVE Retiring
<1>1. pending # NoOp /\ UNCHANGED <<marks, begun, subject, env, pending>>
  BY DEF RecoverNotStarted, Recovering
<1>2. CASE pc' = "clear" /\ op' = pending /\ Marked(pending) = {}
  BY <1>1, <1>2, Unmarked, Keyless
<1>3. CASE pc' = "unmark" /\ op' = WithMark /\ Marked(pending) # {}
  BY <1>1, <1>3, WithMarkIs, WithMarkChanges, Keyless
<1> QED BY <1>2, <1>3 DEF RecoverNotStarted, Onward

LEMMA RecoverCommittedRetires == ASSUME Once, Retired, RecoverCommitted PROVE Retiring
<1>1. pending # NoOp /\ UNCHANGED <<marks, begun, subject, env>>
  BY DEF RecoverCommitted, Recovering
<1>2. CASE Marked(pending) # {} /\ Save(WithMark) /\ pc' = "complete"
  BY <1>1, <1>2, WithMarkIs, WithMarkChanges, WithMarkFields, Keyless, NoOpMarks
<1>3. CASE Marked(pending) = {} /\ op' = pending /\ UNCHANGED pending /\ pc' \in {"reemit", "hold", "clear"}
  BY <1>1, <1>3, Unmarked, Keyless
<1>4. CASE GiveUp
  BY <1>1, <1>4, Keyless DEF GiveUp
<1> QED BY <1>2, <1>3, <1>4 DEF RecoverCommitted, Onward

LEMMA RecoverMovedRetires == ASSUME Once, Retired, RecoverMoved PROVE Retiring
<1>1. pending # NoOp /\ UNCHANGED <<marks, begun, subject, env>>
  BY DEF RecoverMoved, Recovering
<1>2. CASE Marked(pending) # {} /\ Save(WithMark) /\ pc' = "locate"
  BY <1>1, <1>2, WithMarkIs, WithMarkChanges, WithMarkFields, Keyless, NoOpMarks
<1>3. CASE op' = pending /\ UNCHANGED pending /\ pc' = "locate"
  BY <1>1, <1>3, Keyless
<1>4. CASE Marked(pending) = {} /\ Save(RollBack(pending, dir["temp"])) /\ pc' = "recover"
  <2>1. pending \in OpType
    BY AtHand
  <2> QED BY <1>1, <1>4, <2>1, RollBackMarks, Unmarked
<1>5. CASE GiveUp
  BY <1>1, <1>5, Keyless DEF GiveUp
<1> QED BY <1>2, <1>3, <1>4, <1>5 DEF RecoverMoved, Onward

LEMMA EnvironmentRetires ==
  ASSUME Once, Retired, \/ \E n \in Spellings, o \in Objs : EnvPut(n, o)
                        \/ \E n \in Names : EnvRemove(n)
  PROVE  Retiring
<1>1. UNCHANGED <<pending, memory>> /\ env' = env + 1
  BY DEF EnvPut, EnvRemove, Quiet
<1>2. env' # 0
  BY <1>1, ConstantsAssumption DEF CountsTyped
<1> QED BY <1>1, <1>2 DEF memory

HIDE DEF Retired, Retiring, Marking, Keys, Staging, Once, Ready, Settlings,
        Sound, Records, Numbered, Abandoning, Active, Control, Guarded, Landings, Typed, TypeOK,
        MemoryTyped, StateTyped, Keep, Goto, Forget, Fail, FailStep, Save, Move, Still, Sync,
        disks, state, budget

LEMMA InitRetired == Init => Retired
<1> SUFFICES ASSUME Init PROVE Retired
  OBVIOUS
<1>1. PICK o \in Objs :
        dir = [n \in Names |-> IF n = "nfd" THEN [obj |-> o, ver |-> 0] ELSE Empty]
  BY DEF Init
<1>2. At(dir, "nfd", o) /\ "nfd" \in Names /\ disk = {dir}
  BY <1>1, ConstantsAssumption DEF At, Empty, Names, Spellings, Init
<1>3. Lone
  <2>1. \A d \in disk \cup {dir} : \E n \in Names : At(d, n, o)
    BY <1>2
  <2>2. ~(begun > 0)
    BY DEF Init
  <2> QED BY <2>1, <2>2 DEF Lone
<1> QED BY <1>3 DEF Init, Retired, Marking, Keys, Staging, Guarded, Active

LEMMA StutterRetires == ASSUME Retired, UNCHANGED vars PROVE Retired'
BY DEF vars, disks, state, memory, budget, Retired, Marking, Keys, Staging, Key, Lone

LEMMA NextRetires == ASSUME Once, Retired, Next PROVE Retired'
<1>a. env' = 0 => env = 0
  BY EnvGrows DEF Once
<1>b. env' = 0 => Lone'
  BY <1>a, LoneKept DEF Retired, Once
<1> SUFFICES Retiring
  BY <1>b DEF Retiring, Retired
<1>1. CASE BeginRename \/ BeginRestore \/ Check \/ Intend
  BY <1>1, BeginRetires, CheckRetires, IntendRetires
<1>2. CASE Moving
  BY <1>2, MoveExclusiveRetires, FallBackRetires, MarkRetires, StampRetires, VerifyRetires,
     GuardedRenameRetires, AdoptRetires DEF Moving
<1>3. CASE Landing
  BY <1>3, StagedRetires, UnstagedRetires, LandedRetires, RolledRetires DEF Landing
<1>4. CASE Ending
  BY <1>4, CompleteRetires, EmitRetires, UnmarkRetires, FinalizeRetires, HoldRetires, ClearRetires,
     CancelRetires DEF Ending
<1>5. CASE HandleFailure \/ Restart \/ Recovery
  BY <1>5, HandleFailureRetires, RestartRetires, RecoverNothingRetires, RecoverNotStartedRetires,
     RecoverCommittedRetires, RecoverMovedRetires, UndoRetires, RedoRetires DEF Recovery
<1>6. CASE Others
  BY <1>6, EnvironmentRetires, FaultRetires, CrashRetires DEF Others
<1> QED BY <1>1, <1>2, <1>3, <1>4, <1>5, <1>6 DEF Next, Program, Progress

\* When nobody else touches the directory, no marker is left behind: not by an
\* operation that ends, is cancelled, rolled back or abandoned by recovery, at whatever
\* step it is cut and on whatever volume.
THEOREM MarkersAreRetired == Spec => []MarkersRetired
<1>1. Init => Retired
  BY InitRetired
<1>2. Once /\ Retired /\ [Next]_vars => Retired'
  BY NextRetires, StutterRetires
<1>3. Retired => MarkersRetired
  BY DEF Retired, Keys, MarkersRetired
<1> QED BY OnceAlways, <1>1, <1>2, <1>3, PTL DEF Spec
----------------------------------------------------------------------------
(* Which identity the directory holds is known.                            *)

\* All that the directories have is one identity.
AreAll(ds, e) == \A d \in ds : \A n \in Names : d[n] \in {Empty, e}
Uniform(e) == AreAll(disk \cup {dir}, e)

\* Without a marker every directory has the same identity, which an operation that has
\* not come to its closing steps names.
Identified ==
  /\ marks = {} => \E e \in Id : Uniform(e)
  /\ pc \in {"check", "intend"} => Uniform(op.id)
  /\ pc = "finalize" => Uniform(seen)
  /\ pending # NoOp /\ ~pending.rollback =>
       /\ pending.phase = "moving" => marks # {}
       /\ pending.phase \in {"none", "marker-intent"} /\ marks = {} => Uniform(pending.id)
       /\ pending.phase = "committed" /\ pending.final => Uniform(pending.id)
  /\ pc = "locate" /\ ~op.rollback /\ (op.phase = "committed" => marks # {}) =>
       \E n \in Names : dir[n] = op.id /\ op.id # Empty
Named == env = 0 => Identified

LEMMA FewerAreAll ==
  ASSUME NEW ds, NEW fs, fs \subseteq ds, NEW e, AreAll(ds, e) PROVE AreAll(fs, e)
BY DEF AreAll

\* A directory that rests, or that a power failure leaves.
Quieter == dir' \in disk \cup {dir} /\ disk' \in {disk, {dir}, {dir'}}

LEMMA UniformRests ==
  ASSUME Quieter PROVE \A e : Uniform(e) => AreAll(disk' \cup {dir'}, e)
<1>1. disk' \cup {dir'} \subseteq disk \cup {dir}
  BY DEF Quieter
<1> QED BY <1>1, FewerAreAll DEF Uniform

LEMMA UniformEntry ==
  ASSUME Typed, Lone, NEW e, Uniform(e), NEW s \in Names, Lookup(dir, s) # Empty
  PROVE  Lookup(dir, s) = e
<1>1. PICK n \in Names : Lookup(dir, s) = dir[n]
  BY LookupAt
<1> QED BY <1>1 DEF Uniform, AreAll

LEMMA UniformHere ==
  ASSUME Lone, NEW e, Uniform(e) PROVE \E n \in Names : dir[n] = e /\ e # Empty
BY DEF Lone, At, Uniform, AreAll

LEMMA UniformMoved ==
  ASSUME Typed, Lone, begun # 0, NEW e, Uniform(e),
         NEW s \in Names, NEW t \in Names, Lookup(dir, s) # Empty,
         Change(With(Without(dir, s), t, Lookup(dir, s)))
  PROVE  AreAll(disk' \cup {dir'}, e)
<1> DEFINE r == With(Without(dir, s), t, e)
<1>1. Lookup(dir, s) = e
  BY UniformEntry
<1>2. PICK n \in Names : At(dir, n, subject[begun])
  BY ConstantsAssumption, LoneDirectory DEF Typed, TypeOK, CountsTyped
<1>3. e.obj = subject[begun] /\ e # Empty
  BY <1>1, LoneEntry
<1>4. dir \in Directory /\ TypeOK
  BY DEF Typed, TypeOK, DisksTyped
<1>5. PICK k \in Names : At(r, k, subject[begun]) /\ r[k] = e
  BY <1>1, <1>2, <1>3, <1>4, AtMoved
<1>6. \A m \in Names : r[m] \in {Empty, e}
  BY <1>5 DEF At
<1>7. disk' \cup {dir'} \subseteq disk \cup {dir} \cup {r}
  BY <1>1 DEF Change
<1> HIDE DEF r
<1> QED BY <1>6, <1>7 DEF Uniform, AreAll

LEMMA UniformStamped ==
  ASSUME Typed, Lone, begun > 0, NEW i \in Id, i.obj = subject[begun], Restamp(i)
  PROVE  AreAll(disk' \cup {dir'}, i)
<1>1. \A d \in disk \cup {dir} : d \in Directory /\ \E n \in Names : At(d, n, subject[begun])
  BY DEF Lone, Typed, TypeOK, DisksTyped
<1>2. \A d \in disk \cup {dir} : \E n \in Names :
        At(Stamped(d, i), n, subject[begun]) /\ Stamped(d, i)[n] = i
  BY <1>1, AtStamped
<1>3. \A d \in disk' \cup {dir'} : \E n \in Names : At(d, n, subject[begun]) /\ d[n] = i
  BY <1>2 DEF Restamp
<1> QED BY <1>3 DEF At, AreAll

\* A marker that is there is the operation's.
LEMMA KeyedMarks == ASSUME Keys, marks # {} PROVE Keyed
BY DEF Keys, Keyed, Key

USE DEF Named, Identified, Uniform, Retired, Marking, Keys, Once, Ready, Lasting, Traced, Recording,
        Settlings, Sound, Records, Numbered, Abandoning, Active, Control, Guarded, Landings, Typed,
        TypeOK, MemoryTyped, StateTyped, Keep, Goto, Forget, Fail, FailStep, Save, Move, Still, Sync,
        disks, state, budget, Quieter

\* A step that leaves the operation and the identities as they are.
LEMMA SameNames ==
  ASSUME Named, Quieter, UNCHANGED <<marks, pending, env>>,
         pc' \notin {"check", "intend", "finalize", "locate"}
  PROVE  Named'
BY UniformRests

LEMMA CheckNamed == ASSUME Once, Retired, Named, Check PROVE Named'
BY UniformRests, SameNames DEF Check

LEMMA PlainNamed ==
  ASSUME Once, Retired, Named,
         Verify \/ Unstaged \/ Placed \/ Finished \/ Rolled \/ Restart \/ RecoverNothing
  PROVE  Named'
BY SameNames DEF Verify, Unstaged, Placed, Finished, Rolled, Restart, RecoverNothing

LEMMA EndingNamed ==
  ASSUME Once, Retired, Named, Emit \/ Reemit \/ Hold \/ HandleFailure
  PROVE  Named'
BY SameNames DEF Emit, Reemit, Hold, HandleFailure

LEMMA OthersNamed ==
  ASSUME Once, Retired, Named, Fault \/ ProcessCrash \/ PowerFailure \/ Undo PROVE Named'
BY SameNames DEF Fault, ProcessCrash, PowerFailure, Quiet, Undo, Locating

LEMMA ClearNamed == ASSUME Once, Retired, Named, Clear PROVE Named'
BY UniformRests DEF Clear

LEMMA EnvironmentNamed ==
  ASSUME Once, Retired, Named, \/ \E n \in Spellings, o \in Objs : EnvPut(n, o)
                               \/ \E n \in Names : EnvRemove(n)
  PROVE  Named'
<1>1. env' = env + 1
  BY DEF EnvPut, EnvRemove
<1> QED BY <1>1, ConstantsAssumption DEF CountsTyped

LEMMA BeginNamed == ASSUME Once, Retired, Named, BeginRename \/ BeginRestore PROVE Named'
<1>1. PICK n \in Spellings, kind \in Kinds : dir[n] \in Id /\ Begin(kind, dir[n])
  BY BeginsAt
<1>2. /\ pending = NoOp /\ pending' = NoOp /\ pc' = "check" /\ op'.id = dir[n]
      /\ UNCHANGED <<vol, dir, disk, marks, env>>
  BY <1>1 DEF Begin, NoOp
<1>3. SUFFICES ASSUME env = 0 PROVE Identified'
  BY <1>2
<1>4. PICK e \in Id : Uniform(e)
  BY <1>2, <1>3
<1>5. dir[n] = e
  <2>1. dir[n] # Empty
    BY <1>1, ConstantsAssumption DEF Id, Empty
  <2> QED BY <1>4, <2>1 DEF AreAll, Names
<1> QED BY <1>2, <1>4, <1>5

LEMMA IntendNamed == ASSUME Once, Retired, Named, Intend PROVE Named'
BY DEF Intend, Fresh

LEMMA MoveExclusiveNamed == ASSUME Once, Retired, Named, MoveExclusive PROVE Named'
<1>1. /\ UNCHANGED <<marks, pending, env>> /\ pc = "move" /\ begun # 0
      /\ Source(leg) \in Names /\ Target(leg) \in Names
  BY AtHand, LegTypes DEF MoveExclusive
<1>2. CASE FailStep
  BY <1>1, <1>2, SameNames
<1>3. CASE ~FailStep
  <2>1. /\ Lookup(dir, Source(leg)) # Empty /\ pc' = After(leg)
        /\ Change(With(Without(dir, Source(leg)), Target(leg), Lookup(dir, Source(leg))))
    BY <1>3 DEF MoveExclusive, Blocked, Land
  <2>2. env = 0 => \A e : Uniform(e) => AreAll(disk' \cup {dir'}, e)
    BY <1>1, <2>1, UniformMoved
  <2>3. pc' \notin {"check", "intend", "finalize", "locate"}
    BY <2>1 DEF After, Legs
  <2> QED BY <1>1, <2>2, <2>3
<1> QED BY <1>2, <1>3

LEMMA FallBackNamed == ASSUME Once, Retired, Named, FallBack PROVE Named'
<1>1. pc' = "mark" /\ UNCHANGED <<dir, disk, marks, env>> /\ pc = "move" /\ pending # NoOp
  BY AtHand DEF FallBack
<1>2. CASE op.marker
  BY <1>1, <1>2, FallBackMarks, FallBackChanges
<1>3. CASE ~op.marker
  BY <1>1, <1>3, FallBackMarks, FallBackChanges
<1> QED BY <1>2, <1>3

LEMMA MarkNamed == ASSUME Once, Retired, Named, Mark PROVE Named'
<1>1. pc = "mark" /\ op = pending /\ UNCHANGED <<pending, env>>
  BY AtHand DEF Mark
<1>2. CASE FailStep
  BY <1>1, <1>2, SameNames DEF Mark
<1>3. CASE UNCHANGED disks /\ pc' = "stamp"
  BY <1>1, <1>3, SameNames
<1>4. CASE op.phase = "marker-intent" /\ pc' = "stamp" /\ marks' # {}
  BY <1>1, <1>4
<1> QED BY <1>2, <1>3, <1>4 DEF Mark

LEMMA StampNamed == ASSUME Once, Retired, Named, Stamp PROVE Named'
<1>1. pc = "stamp" /\ pc' = "verify" /\ UNCHANGED <<marks, env>>
  BY DEF Stamp
<1> QED BY <1>1, StampChanges

\* An operation that is closed for good has no marker.
LEMMA MarkedOpen ==
  ASSUME Once, Keys, marks # {}, pending # NoOp, pending.phase = "committed", pending.final
  PROVE  pending.rollback
BY KeyedMarks

LEMMA GuardedRenameNamed == ASSUME Once, Retired, Named, GuardedRename PROVE Named'
<1>1. UNCHANGED <<marks, pending, env>> /\ pc = "guarded" /\ pending # NoOp
  BY AtHand DEF GuardedRename
<1>2. CASE FailStep
  BY <1>1, <1>2, SameNames
<1>3. CASE pc' = "adopt"
  BY <1>1, <1>3, MarkedOpen
<1> QED BY <1>2, <1>3 DEF GuardedRename

LEMMA AdoptNamed == ASSUME Once, Retired, Named, Adopt PROVE Named'
<1>1. /\ UNCHANGED <<marks, env>> /\ pc = "adopt" /\ pending # NoOp /\ pc' = After(leg)
  BY AtHand DEF Adopt, Land
<1>2. pc' \notin {"check", "intend", "finalize", "locate"}
  BY <1>1 DEF After, Legs
<1> QED BY <1>1, <1>2, AdoptChanges, MarkedOpen

LEMMA StagedNamed == ASSUME Once, Retired, Named, Staged PROVE Named'
<1>1. /\ pc = "staged" /\ UNCHANGED <<dir, marks, env>> /\ disk' = {dir}
  BY DEF Staged
<1>2. CASE UNCHANGED pending /\ (Fail \/ pc' = "move")
  BY <1>1, <1>2, SameNames
<1>3. CASE Save(RollBack(op, dir["temp"])) /\ pc' = "move"
  <2>1. op \in OpType
    BY AtHand
  <2>2. pending'.rollback
    BY <1>3, <2>1, RollBackMarks
  <2> QED BY <1>1, <1>3, <2>2, UniformRests
<1> QED BY <1>2, <1>3 DEF Staged

LEMMA CompleteNamed == ASSUME Once, Retired, Named, Complete PROVE Named'
<1>1. /\ pc = "complete" /\ UNCHANGED <<dir, disk, marks, env>> /\ pc' \in {"emit", "unmark", "hold"}
      /\ pending # NoOp
  BY AtHand DEF Complete
<1> QED BY <1>1, CompleteChanges DEF Phased

LEMMA CancelNamed == ASSUME Once, Retired, Named, Cancel PROVE Named'
<1>1. /\ pc = "cancel" /\ UNCHANGED <<dir, disk, marks, env>> /\ pc' \in {"unmark", "clear"}
      /\ pending # NoOp
  BY AtHand DEF Cancel
<1> QED BY <1>1, CancelChanges DEF Phased

LEMMA UnmarkNamed == ASSUME Once, Retired, Named, Unmark PROVE Named'
<1>1. /\ pc = "unmark" /\ UNCHANGED <<pending, begun, subject, env>> /\ begun > 0 /\ pending # NoOp
  BY AtHand DEF Unmark
<1>2. CASE FailStep
  BY <1>1, <1>2, SameNames
<1>3. CASE ~FailStep
  <2>1. op.id # Empty /\ op.id.obj \in Present(dir) /\ pc' = "finalize"
    BY <1>3 DEF Unmark
  <2>2. op.id \in Id
    BY <2>1, AtHand, PresentEntry DEF OpType
  <2>3. PICK i \in Reidentified(op.id) \cup {op.id} : Restamp(i) /\ seen' = i
    BY <1>3 DEF Unmark
  <2>4. i \in Id /\ i.obj = op.id.obj
    BY <2>2, ReidentifiedType
  <2>5. env = 0 => AreAll(disk' \cup {dir'}, i)
    BY <1>1, <2>1, <2>3, <2>4, LonePresent, UniformStamped
  <2>6. pending.phase \in Settlings \/ pending.rollback
    BY <1>1 DEF Tasks
  <2>7. pending.phase = "committed" /\ pending.final => pending.rollback
    BY <1>1 DEF Tasks
  <2> QED BY <1>1, <2>1, <2>3, <2>4, <2>5, <2>6, <2>7
<1> QED BY <1>2, <1>3

LEMMA FinalizeNamed == ASSUME Once, Retired, Named, Finalize PROVE Named'
<1>1. /\ pc = "finalize" /\ UNCHANGED <<dir, disk, marks, env>> /\ pc' \in {"clear", "reemit", "hold"}
  BY DEF Finalize
<1>2. op.phase \in Settlings \/ op.rollback
  BY <1>1 DEF Tasks
<1> QED BY <1>1, <1>2, FinalizeChanges

LEMMA RecoverNotStartedNamed == ASSUME Once, Retired, Named, RecoverNotStarted PROVE Named'
BY SameNames DEF RecoverNotStarted, Recovering, Onward

LEMMA RecoverCommittedNamed == ASSUME Once, Retired, Named, RecoverCommitted PROVE Named'
<1>1. pending # NoOp /\ pending.phase = "committed" /\ UNCHANGED <<dir, disk, marks, env>>
  BY DEF RecoverCommitted, Recovering, Settled
<1>2. CASE Marked(pending) # {} /\ Save(WithMark) /\ pc' = "complete"
  BY <1>1, <1>2, WithMarkIs, WithMarkFields, WithMarkChanges
<1>3. CASE UNCHANGED pending /\ pc' \in {"reemit", "hold", "clear", "down"}
  BY <1>1, <1>3, SameNames
<1> QED BY <1>2, <1>3 DEF RecoverCommitted, Onward, GiveUp

LEMMA RecoverMovedNamed == ASSUME Once, Retired, Named, RecoverMoved PROVE Named'
<1>1. pending # NoOp /\ pending.phase # "not-started" /\ UNCHANGED <<dir, disk, marks, env>>
  BY DEF RecoverMoved, Recovering
<1>2. CASE Marked(pending) # {} /\ Save(WithMark) /\ pc' = "locate"
  <2>1. \E n \in Names : dir[n] = op'.id /\ op'.id # Empty
    <3>1. PICK n \in Names : WithMark.id = dir[n] /\ <<dir[n].obj, pending.n, pending.gen>> \in marks
      BY <1>1, <1>2, WithMarkIs
    <3>2. dir[n].obj \in Objs
      BY <3>1 DEF DisksTyped
    <3> QED BY <1>2, <3>1, <3>2, ConstantsAssumption DEF Empty
  <2> QED BY <1>1, <1>2, <2>1, WithMarkIs, WithMarkFields, WithMarkChanges
<1>3. CASE /\ Marked(pending) = {} /\ pending.phase # "moving" /\ op' = pending
           /\ UNCHANGED pending /\ pc' = "locate"
  <2>1. ASSUME env = 0, ~pending.rollback, pending.phase # "committed"
        PROVE  \E n \in Names : dir[n] = pending.id /\ pending.id # Empty
    <3>1. pending.phase \in {"none", "marker-intent"} /\ marks = {}
      BY <1>1, <1>3, <2>1, AtHand, Unmarked DEF OpType, Phases
    <3> QED BY <1>1, <2>1, <3>1, UniformHere
  <2> QED BY <1>1, <1>3, <2>1, Unmarked
<1>4. CASE Save(RollBack(pending, dir["temp"])) /\ pc' = "recover"
  <2>1. pending \in OpType
    BY AtHand
  <2>2. pending'.rollback
    BY <1>4, <2>1, RollBackMarks
  <2> QED BY <1>1, <1>4, <2>2
<1>5. CASE GiveUp
  BY <1>1, <1>5, SameNames DEF GiveUp
<1> QED BY <1>2, <1>3, <1>4, <1>5 DEF RecoverMoved, Onward

LEMMA RedoNamed == ASSUME Once, Retired, Named, Redo PROVE Named'
<1>1. /\ pc = "locate" /\ pending # NoOp /\ UNCHANGED <<dir, disk, marks, env>>
  BY AtHand DEF Redo, Locating
<1>2. CASE /\ Save([op EXCEPT !.id = dir["temp"], !.rollback = TRUE])
           /\ Goto("recover") /\ UNCHANGED <<leg, task, mode, seen, rec>>
  BY <1>1, <1>2, RedirectMarks
<1>3. CASE UNCHANGED pending /\ Fail
  BY <1>1, <1>3, SameNames
<1>4. CASE UNCHANGED pending /\ pc' \in {"cancel", "move", "complete"}
  BY <1>1, <1>4, SameNames
<1> QED BY <1>2, <1>3, <1>4 DEF Redo

HIDE DEF Named, Identified, Uniform, Retired, Marking, Keys, Once, Ready, Lasting, Traced, Recording,
        Settlings, Sound, Records, Numbered, Abandoning, Active, Control, Guarded, Landings, Typed,
        TypeOK, MemoryTyped, StateTyped, Keep, Goto, Forget, Fail, FailStep, Save, Move, Still, Sync,
        disks, state, budget, Quieter

LEMMA InitNamed == Init => Named
<1> SUFFICES ASSUME Init PROVE Named
  OBVIOUS
<1>1. PICK o \in Objs :
        dir = [n \in Names |-> IF n = "nfd" THEN [obj |-> o, ver |-> 0] ELSE Empty]
  BY DEF Init
<1>2. [obj |-> o, ver |-> 0] \in Id /\ Uniform([obj |-> o, ver |-> 0])
  BY <1>1 DEF Init, Uniform, AreAll, Id
<1> QED BY <1>2 DEF Init, Named, Identified

LEMMA StutterNamed == ASSUME Named, UNCHANGED vars PROVE Named'
BY DEF vars, disks, state, memory, budget, Named, Identified, Uniform, AreAll

LEMMA NextNamed == ASSUME Once, Retired, Named, Next PROVE Named'
<1>1. CASE BeginRename \/ BeginRestore \/ Check \/ Intend
  BY <1>1, BeginNamed, CheckNamed, IntendNamed
<1>2. CASE Moving
  BY <1>2, MoveExclusiveNamed, FallBackNamed, MarkNamed, StampNamed, PlainNamed,
     GuardedRenameNamed, AdoptNamed DEF Moving
<1>3. CASE Landing
  BY <1>3, StagedNamed, PlainNamed DEF Landing
<1>4. CASE Ending
  BY <1>4, CompleteNamed, EndingNamed, UnmarkNamed, FinalizeNamed, ClearNamed, CancelNamed DEF Ending
<1>5. CASE HandleFailure \/ Restart \/ Recovery
  BY <1>5, EndingNamed, PlainNamed, RecoverNotStartedNamed, RecoverCommittedNamed,
     RecoverMovedNamed, OthersNamed, RedoNamed DEF Recovery
<1>6. CASE Others
  BY <1>6, EnvironmentNamed, OthersNamed DEF Others
<1> QED BY <1>1, <1>2, <1>3, <1>4, <1>5, <1>6 DEF Next, Program, Progress
=============================================================================
