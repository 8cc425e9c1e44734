--------------------------- MODULE JournalArchive ---------------------------
(***************************************************************************)
(* The files of the rename journal: the live log, its rotation into        *)
(* archive segments, the diagnostics beside it, and the maintenance that   *)
(* expires old segments and keeps the evidence that recovery still needs   *)
(* (native/src/journal.rs).  The worker emits the records of one operation *)
(* after another, as RenameProtocol has them; it may be killed between any *)
(* two changes of a file, a write may stop half way, and a sync or the     *)
(* compression may fail.                                                   *)
(*                                                                         *)
(* A record is kept with its place n in the order of emission (diagnostics *)
(* are counted by themselves), which the code does not store.  Every step  *)
(* is taken under the journal's lock.                                      *)
(***************************************************************************)
EXTENDS Naturals, Sequences, FiniteSets, SequencesExt

CONSTANTS
  SegCap,       \* records at which the live log is rotated (8 MiB)
  ArchiveCap,   \* records the retained segments may hold (16 MiB)
  DiagCap,      \* records at which the diagnostics are rotated (1 MiB)
  MaxOps, MaxRecs, MaxMishaps     \* bounds, see README

ASSUME CapsAssumption ==
  /\ {SegCap, ArchiveCap, DiagCap} \subseteq Nat \ {0}
  /\ {MaxOps, MaxRecs, MaxMishaps} \subseteq Nat

ops == 1..MaxOps
\* required: an error that asks for recovery; failed: one that does not; settled: rolled back.
Kinds == {"renamed", "reverted", "required", "failed", "settled"}
\* of: restores_operation_id, 0 when there is none; cut: history_retention_incomplete.
Record == [op: ops, kind: Kinds, of: 0..MaxOps, cut: BOOLEAN, n: 1..MaxRecs]

Committed(r) == r.kind \in {"renamed", "reverted"}
\* What emit writes to the journal; the rest are diagnostics.
Journalled(r) == Committed(r) \/ r.kind = "required"

VARIABLES
  segs,     \* the archive, by name; raw and gz: which of its two forms exist
  log,      \* the live log; tail: how its last line ends
  diag,     \* the diagnostics and their backup
  recov,    \* the recovery file
  handle,   \* what the worker's open Journal writes to
  pc, who,  \* where the worker is, and for whom it rotates
  todo,     \* expired segments still to be removed
  cur,      \* the operation of the pending record
  opened, wanted,   \* operations begun; those named by a queued request
  count, dcount,    \* records emitted to the journal, and beside it
  mishaps   \* calls that failed and crashes

files == <<segs, log, diag, recov>>
control == <<handle, pc, who, todo>>
journalVars == <<files, control, cur, opened, wanted, count, dcount, mishaps>>

\* Where and with how many records the history cache has a file (this path and
\* this inode number) among its sources.
Known == [at: Nat, size: Nat]
Unknown == [at |-> 0, size |-> 0]

\* wrote: the kinds of record the operation has so far.
NoOp == [n |-> 0, of |-> 0, wrote |-> {}]
FreshLog == [there |-> TRUE, known |-> Unknown, recs |-> <<>>, tail |-> "clean"]

JournalTypeOK ==
  /\ segs \in Seq([recs: Seq(Record), raw: BOOLEAN, gz: BOOLEAN, known: Known, bad: BOOLEAN])
  /\ log \in [there: BOOLEAN, known: Known, recs: Seq(Record),
              tail: {"clean", "unended", "torn", "bad"}]
  /\ diag \in [known: Known, recs: Seq(Record), back: Seq(Record), backKnown: Known]
  /\ recov \in [there: BOOLEAN, known: Known, recs: SUBSET Record]
  /\ handle \in {"none", "log", "moved"}
  /\ pc \in {"idle", "full", "moved", "twin", "reopen", "select", "remove", "clear"}
  /\ who \in {"emit", "maintain"} /\ todo \in 0..Len(segs)
  /\ cur \in [n: 0..MaxOps, of: 0..MaxOps, wrote: SUBSET Kinds]
  /\ opened \in 0..MaxOps /\ wanted \subseteq ops
  /\ {count, dcount} \subseteq 0..MaxRecs
  /\ mishaps \in 0..MaxMishaps

JournalInit ==
  /\ segs = <<>> /\ log = FreshLog
  /\ diag = [known |-> Unknown, recs |-> <<>>, back |-> <<>>, backKnown |-> Unknown]
  /\ recov = [there |-> FALSE, known |-> Unknown, recs |-> {}]
  /\ handle = "none" /\ pc = "idle" /\ who = "emit" /\ todo = 0
  /\ cur = NoOp /\ opened = 0 /\ wanted = {}
  /\ count = 0 /\ dcount = 0 /\ mishaps = 0

Mishap == mishaps < MaxMishaps /\ mishaps' = mishaps + 1
Go(place) == pc' = place /\ UNCHANGED <<handle, who, todo>>

----------------------------------------------------------------------------
(* What can be read: record_sources, visit_source.                          *)

Live == IF log.there THEN <<log.recs>> ELSE <<>>
\* A raw segment hides its compressed twin.
Archived == [i \in DOMAIN segs |-> segs[i].recs]
\* The recovery file has one record of an operation, by operation.
InOrder(S) ==
  CHOOSE s \in [1..Cardinality(S) -> S] : \A i, j \in DOMAIN s : i < j => s[i].op < s[j].op
Evidence == IF recov.there THEN <<InOrder(recov.recs)>> ELSE <<>>
Readable == /\ \A i \in DOMAIN segs : ~segs[i].bad
            /\ log.there => log.tail \in {"clean", "unended"}

Journal == FlattenSeq(Archived \o Live)
Visible == Range(Journal) \cup (IF recov.there THEN recov.recs ELSE {})

----------------------------------------------------------------------------
(* Operations, as the rename protocol runs them: the pending record names  *)
(* one until it is settled.                                                 *)

Renamed(o) == \E r \in Visible : r.op = o /\ r.kind = "renamed"

Begin(of) ==
  /\ cur.n = 0 /\ opened < MaxOps /\ handle # "none" /\ pc = "idle"
  /\ of # 0 => Renamed(of)
  /\ opened' = opened + 1
  /\ cur' = [n |-> opened + 1, of |-> of, wrote |-> {}]
  /\ UNCHANGED <<files, control, wanted, count, dcount, mishaps>>

\* pending_clear: after a success record, or with nothing done.
Settle ==
  /\ cur.n # 0 /\ pc = "idle" /\ handle # "none"
  /\ cur' = NoOp
  /\ UNCHANGED <<files, control, opened, wanted, count, dcount, mishaps>>

\* The mailbox is locked while maintenance looks at it and removes segments.
Maintaining == pc \in {"select", "remove"} \/ (pc # "idle" /\ who = "maintain")
\* A request is made for what the history shows; what has expired is refused.
Want(o) ==
  /\ ~Maintaining /\ Renamed(o)
  /\ o \notin wanted /\ wanted' = wanted \cup {o}
  /\ UNCHANGED <<files, control, cur, opened, count, dcount, mishaps>>
Answered(o) ==
  /\ o \in wanted /\ wanted' = wanted \ {o}
  /\ handle = "none" /\ pc = "idle"
  /\ UNCHANGED <<files, control, cur, opened, count, dcount, mishaps>>

----------------------------------------------------------------------------
(* Journal::new, emit, rotate.                                              *)

OpenJournal ==
  /\ handle = "none" /\ pc = "idle"
  /\ log.there => log.tail # "torn"
  /\ handle' = "log" /\ UNCHANGED <<pc, who, todo>>
  /\ IF log.there
     THEN log' = [log EXCEPT !.tail = IF @ = "unended" THEN "clean" ELSE @]
     ELSE log' = FreshLog
  /\ UNCHANGED <<segs, diag, recov, cur, opened, wanted, count, dcount, mishaps>>

CloseJournal ==
  /\ handle # "none" /\ pc = "idle"
  /\ handle' = "none" /\ UNCHANGED <<pc, who, todo>>
  /\ UNCHANGED <<files, cur, opened, wanted, count, dcount, mishaps>>

\* A line after an unfinished one makes both unreadable.
Written(tail) == IF tail = "clean" THEN "clean" ELSE "bad"
Line(kind, n) == [op |-> cur.n, kind |-> kind, of |-> cur.of, cut |-> FALSE, n |-> n]
Newest == Len(segs)

\* One attempt leaves at most one diagnostic that asks for recovery.
MayWrite(kind) ==
  /\ cur.n # 0 /\ pc = "idle" /\ count + dcount < MaxRecs
  /\ kind = "renamed" => cur.of = 0
  /\ kind = "reverted" => cur.of # 0
  /\ kind \in {"renamed", "reverted"} \/ kind \notin cur.wrote

Emit(kind) ==
  /\ handle # "none" /\ MayWrite(kind)
  /\ count' = count + 1
  /\ cur' = [cur EXCEPT !.wrote = @ \cup {kind}]
  /\ LET r == Line(kind, count + 1) IN
     IF handle = "log"
     THEN /\ log' = [log EXCEPT !.recs = Append(@, r), !.tail = Written(@)]
          /\ IF Len(log'.recs) >= SegCap
             THEN pc' = "full" /\ who' = "emit" /\ UNCHANGED <<handle, todo>>
             ELSE UNCHANGED control
          /\ UNCHANGED segs
     ELSE \* the descriptor still names the archived file
          /\ segs' = [segs EXCEPT ![Newest].recs = Append(@, r)]
          /\ UNCHANGED <<log, control>>   \* rotate: there is no log to rename
  /\ UNCHANGED <<diag, recov, opened, wanted, dcount, mishaps>>

\* write_all stops before the end of the line, or fsync fails after it.
EmitFails(kind) ==
  /\ handle = "log" /\ MayWrite(kind) /\ Mishap
  /\ \/ /\ log.tail = "clean"
        /\ log' = [log EXCEPT !.tail = "torn"] /\ UNCHANGED <<count, cur>>
     \/ /\ log' = [log EXCEPT !.recs = Append(@, Line(kind, count + 1)),
                              !.tail = IF @ = "clean" THEN "unended" ELSE "bad"]
        /\ count' = count + 1 /\ cur' = [cur EXCEPT !.wrote = @ \cup {kind}]
  /\ UNCHANGED <<segs, diag, recov, control, opened, wanted, dcount>>

Diagnose(kind) ==
  /\ handle # "none" /\ MayWrite(kind)
  /\ kind = "failed" => cur.wrote = {} /\ log.tail # "torn"   \* nothing was moved
  /\ dcount' = dcount + 1 /\ cur' = NoOp
  /\ IF Len(diag.recs) + 1 >= DiagCap /\ Len(diag.recs) > 0
     THEN /\ diag' = [known |-> Unknown, recs |-> <<Line(kind, dcount + 1)>>,
                      back |-> diag.recs, backKnown |-> Unknown]
     ELSE diag' = [diag EXCEPT !.recs = Append(@, Line(kind, dcount + 1))]
  /\ UNCHANGED <<segs, log, recov, control, opened, wanted, count, mishaps>>

\* The log becomes the newest segment; its name is later than every other's.
Rotate ==
  /\ pc = "full"
  /\ segs' = Append(segs, [recs |-> log.recs, raw |-> TRUE, gz |-> FALSE, known |-> Unknown,
                           bad |-> log.tail \in {"torn", "bad"}])
  /\ log' = [log EXCEPT !.there = FALSE, !.recs = <<>>, !.tail = "clean"]
  /\ \/ pc' = "moved" /\ UNCHANGED mishaps
     \/ pc' = "idle" /\ Mishap                 \* a directory cannot be synced
  /\ handle' = IF who = "emit" THEN "moved" ELSE "none"
  /\ UNCHANGED <<diag, recov, who, todo, cur, opened, wanted, count, dcount>>

Compress ==
  /\ pc = "moved"
  /\ \/ segs' = [segs EXCEPT ![Newest].gz = TRUE] /\ Go("twin") /\ UNCHANGED mishaps
     \/ Mishap /\ Go("reopen") /\ UNCHANGED segs
  /\ UNCHANGED <<log, diag, recov, cur, opened, wanted, count, dcount>>

DropRaw ==
  /\ pc = "twin"
  /\ \/ segs' = [segs EXCEPT ![Newest].raw = FALSE, ![Newest].known = Unknown]
        /\ UNCHANGED mishaps
     \/ Mishap /\ UNCHANGED segs
  /\ Go("reopen")
  /\ UNCHANGED <<log, diag, recov, cur, opened, wanted, count, dcount>>

Reopen ==
  /\ pc = "reopen"
  /\ log' = FreshLog
  /\ IF who = "emit" THEN pc' = "idle" /\ handle' = "log"
                     ELSE pc' = "select" /\ handle' = "none"
  /\ UNCHANGED <<segs, diag, recov, who, todo, cur, opened, wanted, count, dcount, mishaps>>

----------------------------------------------------------------------------
(* maintain_archives, called by the worker between operations.              *)

Maintain ==
  /\ handle = "none" /\ pc = "idle"
  /\ IF log.there /\ Len(log.recs) >= SegCap
     THEN log.tail # "torn" /\ pc' = "full" /\ who' = "maintain" /\ UNCHANGED <<handle, todo>>
     ELSE Go("select")
  /\ UNCHANGED <<files, cur, opened, wanted, count, dcount, mishaps>>

\* The newest two segments, or one when two are too large.
Kept == IF Len(segs) >= 1 /\ Len(segs[Newest].recs) > ArchiveCap THEN 0
        ELSE IF Len(segs) <= 1 THEN Len(segs)
        ELSE IF Len(segs[Newest].recs) + Len(segs[Newest - 1].recs) > ArchiveCap THEN 1 ELSE 2
Expired == Len(segs) - Kept

\* mutant: the pending record is not consulted
RequestsOnly == wanted
Protected == wanted \cup (IF cur.n = 0 THEN {} ELSE {cur.n})

\* One record read: what the evidence kept so far becomes.
Weigh(kept, r) ==
  LET others == {k \in kept : k.op # r.op}
      before == kept \ others
  IN  IF r.op \in Protected \/ ~Committed(r)
      THEN IF ~Committed(r) /\ \E k \in before : Committed(k) THEN kept
           ELSE others \cup {[r EXCEPT !.cut = TRUE]}
      ELSE others

Retained ==
  LET read == FlattenSeq(Evidence \o SubSeq(Archived, 1, Expired))
      later == FlattenSeq(SubSeq(Archived, Expired + 1, Len(segs)) \o Live)
  IN  {k \in FoldLeft(Weigh, {}, read) :
         \A r \in Range(later) : Committed(r) => r.op # k.op}

\* The evidence is published before anything is removed.
Publish ==
  /\ pc = "select"
  /\ IF ~Readable \/ (Expired = 0 /\ ~recov.there)
     THEN Go("idle") /\ UNCHANGED recov
     ELSE /\ IF recov.there /\ recov.recs = Retained
             THEN UNCHANGED recov
             ELSE /\ recov' = [there |-> TRUE, known |-> Unknown, recs |-> Retained]
          /\ todo' = Expired /\ pc' = "remove" /\ UNCHANGED <<handle, who>>
  /\ UNCHANGED <<segs, log, diag, cur, opened, wanted, count, dcount, mishaps>>

\* mutant: the newest of the expired goes first
NewestFirst ==
  /\ pc = "remove" /\ todo > 0
  /\ segs' = SubSeq(segs, 1, todo - 1) \o SubSeq(segs, todo + 1, Newest) /\ todo' = todo - 1
  /\ UNCHANGED <<log, diag, recov, handle, pc, who, cur, opened, wanted, count, dcount, mishaps>>
\* Oldest first; of twins, the raw form first.
Discard ==
  /\ pc = "remove" /\ todo > 0
  /\ IF segs[1].raw /\ segs[1].gz
     THEN /\ segs' = [segs EXCEPT ![1].raw = FALSE, ![1].known = Unknown]
          /\ UNCHANGED todo
     ELSE segs' = Tail(segs) /\ todo' = todo - 1
  /\ UNCHANGED <<log, diag, recov, handle, pc, who, cur, opened, wanted, count, dcount, mishaps>>

Clear ==
  /\ pc = "remove" /\ todo = 0
  /\ recov' = IF recov.recs = {} THEN [recov EXCEPT !.there = FALSE] ELSE recov
  /\ Go("idle")
  /\ UNCHANGED <<segs, log, diag, cur, opened, wanted, count, dcount, mishaps>>

----------------------------------------------------------------------------
\* The worker is killed; the lock goes with it, the pending record stays.
Crash ==
  /\ Mishap
  /\ pc # "idle" \/ handle # "none"
  /\ pc' = "idle" /\ handle' = "none" /\ todo' = 0 /\ who' = "emit"
  /\ UNCHANGED <<files, cur, opened, wanted, count, dcount>>

JournalNext ==
  \/ \E of \in 0..MaxOps : Begin(of)
  \/ \E o \in ops : Want(o) \/ Answered(o)
  \/ Settle \/ OpenJournal \/ CloseJournal
  \/ \E kind \in {"renamed", "reverted", "required"} : Emit(kind) \/ EmitFails(kind)
  \/ \E kind \in {"failed", "settled"} : Diagnose(kind)
  \/ Rotate \/ Compress \/ DropRaw \/ Reopen
  \/ Maintain \/ Publish \/ Discard \/ Clear
  \/ Crash
=============================================================================
