--------------------------- MODULE RestoreRequests ---------------------------
(***************************************************************************)
(* Restore requests of native/src/history.rs: clients put a request file   *)
(* into a mailbox and wake the worker; the worker takes a batch of them at *)
(* every turn of its loop, paused or not, lets recovery finish, restores   *)
(* the old name through the rename protocol, writes a result beside the    *)
(* request and archives both; a client polls for the result meanwhile,     *)
(* without a lock.  The worker may be killed between any two of these, a   *)
(* client after it wrote its request, and recovery may fail for a time.    *)
(*                                                                         *)
(* A restore is what RenameProtocol makes of it: a pending record, a move, *)
(* a journal record, and the pending record removed; recovery completes    *)
(* what was moved and cancels what was not.                                *)
(***************************************************************************)
EXTENDS Naturals, Sequences, FiniteSets, SequencesExt

CONSTANTS
  Requests,     \* request ids, each used for one operation
  Operations,   \* operation ids
  About,        \* the operation a request is about
  NoReq,        \* of an operation that no request asked for
  Batch,        \* requests taken at a turn (8)
  Capacity,     \* requests that may be outstanding (64)
  Keep,         \* completed requests that are kept (128)
  MaxOutside    \* how many things happen from outside, of whatever kind

ASSUME RequestsAssumption ==
  /\ About \in [Requests -> Operations] /\ NoReq \notin Requests
  /\ {Batch, Capacity} \subseteq Nat \ {0} /\ {Keep, MaxOutside} \subseteq Nat

Final == {"restored", "rejected"}
States == {"none", "required"} \cup Final
Places == {"none", "mail", "done"}

VARIABLES
  request,   \* where the request file is: mailbox, completed, or nowhere
  inMail, inDone,    \* the result file in either directory
  at,        \* the file of an operation: under its new name, restored, or not what was seen
  records,   \* journal records of restores: <<operation, request>>
  pending,   \* the pending record
  sick,      \* the directory of what is pending cannot be reached
  paused,    \* normalization is paused
  fifo,      \* the wake FIFO holds a byte
  pc, checked, due, batch, more, failing, cur, answer,   \* the worker in process_requests
  client,    \* what the client of a request has done
  reader,    \* one poll: request and step
  written,   \* completed results, oldest first
  pruned, blurred,   \* history: requests whose files were removed; answered after an error
  left       \* how much may still happen from outside

mailbox == <<request, inMail, inDone, written>>
world == <<at, records, pending, sick, paused>>
worker == <<pc, checked, due, batch, more, failing, cur, answer>>
people == <<client, reader>>
past == <<pruned, blurred>>
vars == <<mailbox, world, fifo, worker, people, past, left>>

NoPending == [op |-> "none", req |-> NoReq, moved |-> FALSE]
Outside == left > 0 /\ left' = left - 1
Mail == {r \in Requests : request[r] = "mail"}
Restored(o) == \E r \in Requests \cup {NoReq} : <<o, r>> \in records
Outcome(r) == IF inMail[r] # "none" THEN inMail[r] ELSE inDone[r]

Steps == {"down", "prune", "prune2", "top", "scan", "archive", "archive2", "recover",
          "serve", "open", "move", "record", "clear", "answer", "next", "loop", "wait"}
Polls == {"idle", "request", "archived", "path", "mail", "done", "read", "reread", "error"}

TypeOK ==
  /\ request \in [Requests -> Places] /\ {inMail, inDone} \subseteq [Requests -> States]
  /\ at \in [Operations -> {"new", "old", "changed"}]
  /\ records \subseteq Operations \X Requests
  /\ pending = NoPending \/ pending \in [op: Operations, req: Requests \cup {NoReq}, moved: BOOLEAN]
  /\ {sick, paused, fifo, checked, more, failing} \subseteq BOOLEAN
  /\ pc \in Steps /\ due \subseteq Requests /\ batch \in Seq(Requests)
  /\ cur \in Requests \cup {NoReq} /\ answer \in States
  /\ client \in [Requests -> {"idle", "posted", "told", "killed"}]
  /\ reader \in [req: Requests \cup {NoReq}, at: Polls]
  /\ written \in Seq(Requests)
  /\ {pruned, blurred} \subseteq SUBSET Requests /\ left \in 0..MaxOutside

\* What a process starts with, and a turn ends with.
Idle == /\ checked = FALSE /\ due = {} /\ batch = <<>> /\ more = FALSE /\ failing = FALSE
        /\ cur = NoReq /\ answer = "none"

Init ==
  /\ request = [r \in Requests |-> "none"]
  /\ inMail = [r \in Requests |-> "none"] /\ inDone = inMail
  /\ at = [o \in Operations |-> "new"]
  /\ records = {} /\ fifo = FALSE
  \* An earlier rename may have been cut.
  /\ pending \in {NoPending, [op |-> CHOOSE o \in Operations : TRUE, req |-> NoReq, moved |-> FALSE]}
  /\ sick = (pending # NoPending) /\ paused \in BOOLEAN
  /\ pc = "down" /\ Idle
  /\ client = [r \in Requests |-> "idle"] /\ reader = [req |-> NoReq, at |-> "idle"]
  /\ written = <<>> /\ pruned = {} /\ blurred = {} /\ left = MaxOutside

\* The mailbox lock: the worker removes and archives under it, a client holds it
\* until it has signalled.
Locked == pc \in {"prune2", "archive2"}
ClientHolds == \E r \in Requests : client[r] = "posted"

----------------------------------------------------------------------------
(* Clients: request_restore, restore_result.                                *)

\* A request that is there already is only looked up. The file appears whole; a
\* directory that is being read may or may not show it.
Post(r) ==
  /\ client[r] = "idle" /\ ~Locked /\ ~ClientHolds
  /\ request[r] = "none" /\ Cardinality(Mail) < Capacity
  /\ request' = [request EXCEPT ![r] = "mail"]
  /\ due' \in {due} \cup (IF pc = "scan" THEN {due \cup {r}} ELSE {})
  /\ client' = [client EXCEPT ![r] = "posted"]
  /\ UNCHANGED <<inMail, inDone, written, world, fifo, pc, checked, batch, more, failing, cur, answer,
                 reader, past, left>>

Signal(r) ==
  /\ client[r] = "posted" /\ client' = [client EXCEPT ![r] = "told"]
  /\ fifo' = (fifo \/ pc # "down")     \* without a reader the write fails
  /\ UNCHANGED <<mailbox, world, worker, reader, past, left>>

Killed(r) ==
  /\ client[r] = "posted" /\ Outside /\ client' = [client EXCEPT ![r] = "killed"]
  /\ UNCHANGED <<mailbox, world, fifo, worker, reader, past>>

Poll(r) ==
  /\ reader.at = "idle" /\ client[r] = "told" /\ r \notin pruned
  /\ reader' = [req |-> r, at |-> "request"]
  /\ UNCHANGED <<mailbox, world, fifo, worker, client, past, left>>

\* mutant: an archived request is not looked for
NoFallback(step, r) == step = "request" /\ request[r] # "mail"
\* read_saved: the mailbox, then what is completed; restore_result's two exists.
Missing(step, r) ==
  CASE step = "archived" -> request[r] # "done"
    [] step = "reread" -> inDone[r] = "none"
    [] OTHER -> FALSE
Looked(step, r) ==
  CASE step = "request" -> IF request[r] = "mail" THEN "path" ELSE "archived"
    [] step = "archived" -> "path"
    [] step = "path" -> IF inMail[r] # "none" THEN "mail" ELSE "done"
    [] step = "mail" -> IF inMail[r] # "none" THEN "read" ELSE "idle"
    [] step = "done" -> IF inDone[r] # "none" THEN "read" ELSE "idle"
    [] step = "read" -> IF inMail[r] # "none" THEN "idle" ELSE "reread"
    [] step = "reread" -> "idle"

Look ==
  /\ reader.at \notin {"idle", "error"}
  /\ LET next == IF Missing(reader.at, reader.req) THEN "error" ELSE Looked(reader.at, reader.req)
     IN  reader' = IF next = "idle" THEN [req |-> NoReq, at |-> "idle"] ELSE [reader EXCEPT !.at = next]
  /\ UNCHANGED <<mailbox, world, fifo, worker, client, past, left>>

----------------------------------------------------------------------------
(* The worker: startup, and process_requests at every turn of its loop.     *)

Restart ==
  /\ pc = "down" /\ pc' = "prune" /\ fifo' = FALSE
  /\ UNCHANGED <<mailbox, world, checked, due, batch, more, failing, cur, answer, people, past, left>>

\* prune_completed_requests: the oldest beyond what is kept, the request first. A
\* result alone is nobody's any more and is never counted again.
Prunable == SelectSeq(written, LAMBDA r : request[r] = "done")
Prune ==
  /\ pc = "prune" /\ ~ClientHolds
  /\ IF Len(Prunable) <= Keep THEN pc' = "top" /\ UNCHANGED <<request, cur, pruned>>
     ELSE LET r == Head(Prunable) IN
          /\ request' = [request EXCEPT ![r] = "none"] /\ pruned' = pruned \cup {r}
          /\ cur' = r /\ pc' = "prune2"
  /\ UNCHANGED <<inMail, inDone, written, world, fifo, checked, due, batch, more, failing, answer,
                 people, blurred, left>>
PruneResult ==
  /\ pc = "prune2" /\ pc' = "prune" /\ cur' = NoReq
  /\ inDone' = [inDone EXCEPT ![cur] = "none"] /\ written' = SelectSeq(written, LAMBDA r : r # cur)
  /\ UNCHANGED <<request, inMail, world, fifo, checked, due, batch, more, failing, answer,
                 people, past, left>>

\* The wake is cleared before the mailbox is read.
Top ==
  /\ pc = "top" /\ pc' = "scan" /\ fifo' = FALSE /\ due' = Mail
  /\ UNCHANGED <<mailbox, world, checked, batch, more, failing, cur, answer, people, past, left>>

Scan(r) ==
  /\ pc = "scan" /\ r \in due
  /\ IF inMail[r] \in Final
     THEN pc' = "archive" /\ cur' = r /\ due' = due \ {r} /\ UNCHANGED <<batch, more>>
     ELSE IF Len(batch) = Batch THEN more' = TRUE /\ due' = {} /\ UNCHANGED <<pc, batch, cur>>
     ELSE batch' = Append(batch, r) /\ due' = due \ {r} /\ UNCHANGED <<pc, more, cur>>
  /\ UNCHANGED <<mailbox, world, fifo, checked, failing, answer, people, past, left>>

Scanned ==
  /\ pc = "scan" /\ due = {} /\ pc' = IF batch = <<>> THEN "loop" ELSE "recover"
  /\ UNCHANGED <<mailbox, world, fifo, checked, due, batch, more, failing, cur, answer, people, past, left>>

\* Recovery completes what was moved and cancels what was not; RenameProtocol shows it.
Resolve ==
  /\ pending' = NoPending
  /\ records' = IF pending.moved THEN records \cup {<<pending.op, pending.req>>} ELSE records
Recoverable == pending = NoPending \/ ~sick

\* Its failure is the answer to the whole batch.
Recover ==
  /\ pc = "recover" /\ pc' = "serve" /\ failing' = ~Recoverable
  /\ IF Recoverable THEN Resolve ELSE UNCHANGED <<pending, records>>
  /\ UNCHANGED <<mailbox, at, sick, paused, fifo, checked, due, batch, more, cur, answer, people, past, left>>

Turn(step, a) == pc' = step /\ answer' = a
Served == UNCHANGED <<mailbox, sick, paused, fifo, checked, due, batch, more, failing, cur, people>>
Subject == About[Head(batch)]
AnswerTo(error) == IF pending # NoPending THEN "required" ELSE error

\* mutant: what an earlier attempt of this request recorded is not looked for
NotResumed ==
  IF failing THEN "required"
  ELSE IF at[Subject] # "new" \/ pending # NoPending THEN "rejected"
  ELSE "none"
\* The request may have been served already, before a crash took its answer.
Verdict ==
  IF failing THEN "required"
  ELSE IF <<Subject, Head(batch)>> \in records THEN "restored"
  ELSE IF Restored(Subject) \/ at[Subject] # "new" \/ pending # NoPending THEN "rejected"
  ELSE "none"

Serve ==
  /\ pc = "serve"
  /\ IF Verdict = "none" THEN Turn("open", "none") ELSE Turn("answer", Verdict)
  /\ Served /\ UNCHANGED <<at, records, pending, past, left>>

\* The history cannot be read: what happened before is not known.
ServeBlind ==
  /\ pc = "serve" /\ ~failing /\ Outside
  /\ Turn("answer", AnswerTo("rejected")) /\ blurred' = blurred \cup {Head(batch)}
  /\ Served /\ UNCHANGED <<at, records, pending, pruned>>

\* restore_history_record; an error is answered by what it left behind.
OpenRestore ==
  /\ pc = "open"
  /\ IF sick THEN Turn("answer", AnswerTo("rejected")) /\ UNCHANGED pending
     ELSE /\ pending' = [op |-> Subject, req |-> Head(batch), moved |-> FALSE]
          /\ Turn("move", "none")
  /\ Served /\ UNCHANGED <<at, records, past, left>>

MoveRestore ==
  /\ pc = "move"
  /\ CASE sick -> Turn("answer", AnswerTo("rejected")) /\ UNCHANGED <<at, pending>>
       [] ~sick /\ at[Subject] # "new" ->
            Turn("answer", "rejected") /\ pending' = NoPending /\ UNCHANGED at
       [] OTHER ->
            /\ at' = [at EXCEPT ![Subject] = "old"] /\ pending' = [pending EXCEPT !.moved = TRUE]
            /\ Turn("record", "none")
  /\ Served /\ UNCHANGED <<records, past, left>>

RecordRestore ==
  /\ pc = "record"
  /\ IF sick THEN Turn("answer", AnswerTo("rejected")) /\ UNCHANGED records
     ELSE records' = records \cup {<<Subject, Head(batch)>>} /\ Turn("clear", "none")
  /\ Served /\ UNCHANGED <<at, pending, past, left>>

ClearRestore ==
  /\ pc = "clear" /\ pending' = NoPending /\ Turn("answer", "restored")
  /\ Served /\ UNCHANGED <<at, records, past, left>>

\* The result appears beside the request; a final one sends both to the completed.
Answer ==
  /\ pc = "answer"
  /\ inMail' = [inMail EXCEPT ![Head(batch)] = answer]
  /\ IF answer \in Final THEN pc' = "archive" /\ cur' = Head(batch) ELSE pc' = "next" /\ UNCHANGED cur
  /\ UNCHANGED <<request, inDone, written, world, fifo, checked, due, batch, more, failing, answer,
                 people, past, left>>

\* archive_request, from the scan and from the answer.
Archive ==
  /\ pc = "archive" /\ ~ClientHolds /\ pc' = "archive2"
  /\ request' = [request EXCEPT ![cur] = "done"]
  /\ UNCHANGED <<inMail, inDone, written, world, fifo, checked, due, batch, more, failing, cur, answer,
                 people, past, left>>
ArchiveResult ==
  /\ pc = "archive2" /\ pc' = IF answer = "none" THEN "scan" ELSE "next"
  /\ inMail' = [inMail EXCEPT ![cur] = "none"] /\ inDone' = [inDone EXCEPT ![cur] = inMail[cur]]
  /\ written' = Append(written, cur) /\ cur' = NoReq
  /\ UNCHANGED <<request, world, fifo, checked, due, batch, more, failing, answer, people, past, left>>

\* mutant: nobody is told that the batch was full
NoMore ==
  /\ fifo' = fifo /\ more' = FALSE
Told ==
  /\ fifo' = (fifo \/ more) /\ more' = FALSE
Following ==
  /\ pc = "next" /\ answer' = "none" /\ batch' = Tail(batch)
  /\ IF Len(batch) > 1 THEN pc' = "serve" /\ UNCHANGED <<fifo, more, failing>>
     ELSE pc' = "loop" /\ failing' = FALSE /\ Told
  /\ UNCHANGED <<mailbox, world, checked, due, cur, people, past, left>>

\* The rest of a turn: a paused worker waits; an active one recovers at its first
\* turn, and at others when there is work; a recovery that fails ends it.
Rest ==
  /\ pc = "loop"
  /\ \/ (paused \/ checked)
        /\ pc' = "wait" /\ UNCHANGED <<checked, pending, records>>
     \/ ~paused /\ Recoverable
        /\ pc' = "wait" /\ checked' = TRUE /\ Resolve
     \/ ~paused /\ ~Recoverable
        /\ pc' = "down" /\ checked' = FALSE /\ UNCHANGED <<pending, records>>
  /\ UNCHANGED <<mailbox, at, sick, paused, fifo, due, batch, more, failing, cur, answer, people, past, left>>

Wake ==
  /\ pc = "wait" /\ fifo /\ pc' = "top"
  /\ UNCHANGED <<mailbox, world, fifo, checked, due, batch, more, failing, cur, answer, people, past, left>>

----------------------------------------------------------------------------
(* What happens to them. *)

Crash ==
  /\ pc # "down" /\ Outside /\ pc' = "down" /\ fifo' = FALSE
  /\ checked' = FALSE /\ due' = {} /\ batch' = <<>> /\ more' = FALSE /\ failing' = FALSE
  /\ cur' = NoReq /\ answer' = "none"
  /\ UNCHANGED <<mailbox, world, people, past>>

Elsewhere == UNCHANGED <<mailbox, records, pending, worker, people, past>>
Sicken == ~sick /\ Outside /\ sick' = TRUE /\ Elsewhere /\ UNCHANGED <<at, paused, fifo>>
Heal == sick /\ sick' = FALSE /\ Elsewhere /\ UNCHANGED <<at, paused, fifo, left>>
Change(o) ==
  /\ at[o] = "new" /\ Outside /\ at' = [at EXCEPT ![o] = "changed"]
  /\ Elsewhere /\ UNCHANGED <<sick, paused, fifo>>

Worker ==
  \/ Prune \/ PruneResult \/ Top \/ (\E r \in Requests : Scan(r)) \/ Scanned
  \/ Recover \/ Serve \/ OpenRestore \/ MoveRestore \/ RecordRestore \/ ClearRestore
  \/ Answer \/ Archive \/ ArchiveResult \/ Following \/ Rest \/ Wake
Next ==
  \/ \E r \in Requests : Post(r) \/ Signal(r) \/ Killed(r) \/ Poll(r)
  \/ Look \/ Restart \/ Worker \/ ServeBlind
  \/ Crash \/ Sicken \/ Heal \/ \E o \in Operations : Change(o)
Spec == Init /\ [][Next]_vars
\* The worker runs, launchd starts it again, a client that has the lock goes on, and
\* the directory comes back. Nothing else need ever wake the worker.
FairSpec ==
  /\ Spec /\ WF_vars(Worker) /\ WF_vars(Restart) /\ WF_vars(Heal)
  /\ \A r \in Requests : WF_vars(Signal(r))

----------------------------------------------------------------------------
(* Properties. *)

\* An operation is restored at most once, however often its requests are taken up
\* again after a crash; a request is answered "restored" when the journal says that
\* this very request restored it, and "rejected" only when it never did. The answer
\* given when the history could not be read promises less.
RestoredOnce ==
  /\ \A a, b \in records : a[1] = b[1] => a = b
  /\ \A r \in Requests :
       /\ Outcome(r) = "restored" => <<About[r], r>> \in records
       /\ Outcome(r) = "rejected" /\ r \notin blurred => <<About[r], r>> \notin records

\* A client that asks without a lock, while the worker moves the files, is never told
\* that its request does not exist, until the completed request is removed.
PollFinds == reader.at = "error" => reader.req \in pruned

\* A request whose client signalled is answered: restored, rejected, or that recovery
\* is required, even when more wait than a turn takes and the worker is killed.
Acknowledged == \A r \in Requests : client[r] = "told" ~> (Outcome(r) # "none" \/ r \in pruned)
=============================================================================
