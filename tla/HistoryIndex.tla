---------------------------- MODULE HistoryIndex ----------------------------
(***************************************************************************)
(* The history cache of native/src/history.rs over the journal's files: a   *)
(* database that is brought up to date before every use, from the grown    *)
(* tail of a file when nothing else changed, from the beginning otherwise. *)
(* Journals are authoritative; what a page or a restore is decided on is    *)
(* the cache.                                                               *)
(***************************************************************************)
EXTENDS JournalArchive

VARIABLES
  prior,     \* how many sources the cache was made from (see Known)
  rows,      \* history_operations
  restores   \* history_restores: the operation that restored each other one

cache == <<prior, rows, restores>>
historyVars == <<journalVars, cache>>

Row == [rec: Record, seq: Nat, confirmed: BOOLEAN, day: Nat, ev: Nat, event: BOOLEAN]
HistoryTypeOK ==
  /\ JournalTypeOK
  /\ prior \in Nat /\ DOMAIN rows \subseteq ops /\ Range(rows) \subseteq Row
  /\ DOMAIN restores \subseteq ops /\ Range(restores) \subseteq ops

----------------------------------------------------------------------------
(* sources(): diagnostics first, then recovery evidence, archives, the log. *)

File(known, recs) == [known |-> known, recs |-> recs]
HasBackup == Len(diag.back) > 0
AtErrors == IF HasBackup THEN 2 ELSE 1
AtSegments == IF recov.there THEN AtErrors + 1 ELSE AtErrors
Sources ==
  (IF HasBackup THEN <<File(diag.backKnown, diag.back)>> ELSE <<>>)
  \o <<File(diag.known, diag.recs)>>
  \o (IF recov.there THEN <<File(recov.known, InOrder(recov.recs))>> ELSE <<>>)
  \o [i \in DOMAIN segs |-> File(segs[i].known, segs[i].recs)]
  \o (IF log.there THEN <<File(log.known, log.recs)>> ELSE <<>>)

Same(now, i) == now[i].known = [at |-> i, size |-> Len(now[i].recs)]
\* Only the live log and the live diagnostics may have grown.
Grown(now, i) ==
  /\ i = AtErrors \/ (log.there /\ i = Len(now))
  /\ now[i].known.at = i /\ Len(now[i].recs) > now[i].known.size

Current(now) == Len(now) = prior /\ \A i \in DOMAIN now : Same(now, i)
Incremental(now) == Len(now) = prior /\ \A i \in DOMAIN now : Same(now, i) \/ Grown(now, i)

\* The lines to be read: what a file has beyond what the cache has of it.
Unread(now) ==
  [i \in DOMAIN now |->
     IF ~Incremental(now) THEN now[i].recs
     ELSE SubSeq(now[i].recs, now[i].known.size + 1, Len(now[i].recs))]

----------------------------------------------------------------------------
(* One record in the table.                                                 *)

Confirmed(r) == r.kind = "renamed"
Listed(r) == r.kind \in {"renamed", "reverted", "required", "failed"}
\* A restore is shown at what it restored.
Shown(row) == row.rec.kind # "reverted" \/ row.rec.of = 0

\* Confirmation is monotonic: only a confirmed record replaces a confirmed one.
Insert(t, r) ==
  LET seq == t.seq + 1
      c == Confirmed(r)
      row == IF r.op \in DOMAIN t.rows THEN t.rows[r.op]
             ELSE [rec |-> r, seq |-> seq, confirmed |-> FALSE, day |-> r.n, ev |-> 0, event |-> FALSE]
      wins == c \/ ~row.confirmed
      new == [rec |-> IF wins THEN r ELSE row.rec,
              seq |-> IF wins THEN seq ELSE row.seq,
              confirmed |-> row.confirmed \/ c,
              day |-> IF c /\ ~row.confirmed THEN r.n ELSE row.day,
              ev |-> seq, event |-> ~wins]
  IN  IF ~Listed(r) THEN [t EXCEPT !.seq = seq]
      ELSE [seq |-> seq,
            rows |-> [o \in DOMAIN t.rows \cup {r.op} |-> IF o = r.op THEN new ELSE t.rows[o]],
            restores |-> IF r.kind = "reverted" /\ r.of # 0
                         THEN [o \in DOMAIN t.restores \cup {r.of} |->
                                 IF o = r.of THEN r.op ELSE t.restores[o]]
                         ELSE t.restores]

EmptyTable == [seq |-> 0, rows |-> <<>>, restores |-> <<>>]
Filled(t, lines) == FoldLeft(Insert, t, FlattenSeq(lines))

\* Numbers are kept as ranks: only their order is ever looked at.
Numbers(rs) == {rs[o].seq : o \in DOMAIN rs} \cup {rs[o].ev : o \in DOMAIN rs}
Ranked(rs) ==
  LET rank(s) == Cardinality({u \in Numbers(rs) : u <= s})
  IN  [o \in DOMAIN rs |-> [rs[o] EXCEPT !.seq = rank(@), !.ev = rank(@)]]

\* mutant: a rebuild starts from the rows that are there
KeepOldRows(now) ==
  Filled([seq |-> Cardinality(Numbers(rows)), rows |-> rows, restores |-> restores], Unread(now))
Refreshed(now) ==
  LET old == [seq |-> Cardinality(Numbers(rows)), rows |-> rows, restores |-> restores]
  IN  Filled(IF Incremental(now) THEN old ELSE EmptyTable, Unread(now))

\* index(): under the journal's lock, in one transaction.
Refresh ==
  /\ handle = "none" /\ pc = "idle" /\ Readable
  /\ ~Current(Sources)
  /\ LET t == Refreshed(Sources) IN rows' = Ranked(t.rows) /\ restores' = t.restores
  /\ prior' = Len(Sources)
  /\ LET K(i, recs) == [at |-> i, size |-> Len(recs)] IN
     /\ diag' = [diag EXCEPT !.known = K(AtErrors, diag.recs),
                             !.backKnown = IF HasBackup THEN K(1, diag.back) ELSE Unknown]
     /\ recov' = [recov EXCEPT !.known = IF recov.there THEN [at |-> AtSegments, size |-> Cardinality(recov.recs)] ELSE Unknown]
     /\ segs' = [i \in DOMAIN segs |-> [segs[i] EXCEPT !.known = K(AtSegments + i, segs[i].recs)]]
     /\ log' = [log EXCEPT !.known = IF log.there THEN K(Len(Sources), log.recs) ELSE Unknown]
  /\ UNCHANGED <<control, cur, opened, wanted, count, dcount, mishaps>>

----------------------------------------------------------------------------
(* What is shown of the cache.                                              *)

\* item(); the filter of list() repeats it in its query.
ResultOf(o) ==
  LET kind == rows[o].rec.kind
  IN  IF o \in DOMAIN restores THEN "restored"
      ELSE IF kind \in {"renamed", "reverted"} THEN kind
      ELSE IF kind = "required" THEN "recovery_required" ELSE "failed"
\* list(): one page of what has the result, the latest first.
Matching(result) == {o \in DOMAIN rows : Shown(rows[o]) /\ ResultOf(o) = result}
Page(result, limit, offset) ==
  LET all == SetToSortSeq(Matching(result), LAMBDA a, b : rows[a].seq > rows[b].seq)
  IN  SubSeq(all, offset + 1, IF offset + limit < Len(all) THEN offset + limit ELSE Len(all))
\* today_from(): operations, by the day of their first confirmation.
Today(day) == Cardinality({o \in DOMAIN rows : rows[o].confirmed /\ rows[o].day = day})

HistoryInit ==
  /\ JournalInit
  /\ prior = 0 /\ rows = <<>> /\ restores = <<>>
HistoryNext ==
  \/ JournalNext /\ UNCHANGED cache
  \/ Refresh
HistorySpec == HistoryInit /\ [][HistoryNext]_historyVars

----------------------------------------------------------------------------
(* Properties. *)

\* What can be read of the journal itself is always the whole end of what was
\* emitted, in order and each record once, wherever a rotation or a pass of
\* maintenance was interrupted: a restore relies on it to see every later rename.
SuffixKept == \A i \in DOMAIN Journal : Journal[i].n + Len(Journal) = count + i

\* Maintenance takes no evidence away that somebody still needs: the success of the
\* operation whose pending record is on disk (recovery looks for it so as not to
\* record it twice), its call for recovery, and what a queued request is about.
EvidenceKept ==
  /\ \A o \in wanted : Renamed(o)
  /\ \A kind \in cur.wrote : \E r \in Visible :
        r.op = cur.n /\ (Committed(r) \/ r.kind = kind)

\* Whenever the cache is used as it is, it says what one made anew from the
\* journals would say: which record stands for each operation, the day it counts
\* for, what was restored by what, and which of two operations is the later.
\* What is shown of it follows from the records alone: each rename is counted once and
\* on a day it was recorded for, however often one can be read, what is
\* restored or renamed is never shown as failed for what was reported after it, and
\* the pages of the results have each operation once.
Essence(row) == <<row.rec, row.confirmed, row.day, row.event>>
Told == {r \in UNION {Range(Sources[i].recs) : i \in DOMAIN Sources} : Listed(r)}
Done(o, kind) == \E r \in Told : r.kind = kind /\ r.op = o
DoneOn(o, day) == \E r \in Told : r.kind = "renamed" /\ r.op = o /\ r.n = day
Restored(o) == \E r \in Told : r.kind = "reverted" /\ r.of = o
Results == {"restored", "renamed", "reverted", "recovery_required", "failed"}
ShownExactly ==
  /\ MapThenSumSet(Today, 1..MaxRecs) = Cardinality({o \in ops : Done(o, "renamed")})
  /\ \A d \in 1..MaxRecs : Today(d) <= Cardinality({o \in ops : DoneOn(o, d)})
  /\ \A o \in DOMAIN rows :
       /\ ResultOf(o) = "restored" <=> Restored(o)
       /\ ResultOf(o) = "renamed" <=> Done(o, "renamed") /\ ~Restored(o)
  /\ LET page(result) == Page(result, 1, 0) \o Page(result, MaxOps, 1)
     IN  \A o \in {r.op : r \in {q \in Told : q.of = 0}} :
           \E result \in Results : {i \in DOMAIN page(result) : page(result)[i] = o} # {}
CacheExact ==
  Current(Sources) =>
    LET t == Filled(EmptyTable, [i \in DOMAIN Sources |-> Sources[i].recs])
        known == {o \in DOMAIN rows : Journalled(rows[o].rec)}
    IN  /\ restores = t.restores /\ DOMAIN rows = DOMAIN t.rows
        /\ \A o \in DOMAIN rows : Essence(rows[o]) = Essence(t.rows[o])
        /\ \A o, q \in known : /\ rows[o].seq < rows[q].seq <=> t.rows[o].seq < t.rows[q].seq
                               /\ rows[o].seq < rows[q].ev <=> t.rows[o].seq < t.rows[q].ev
        /\ ShownExactly
=============================================================================
