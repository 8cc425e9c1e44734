------------------------ MODULE RestoreRequestsProofs ------------------------
(***************************************************************************)
(* Proofs about RestoreRequests, for any requests, operations, batches,    *)
(* crashes and clients.                                                    *)
(***************************************************************************)
EXTENDS RestoreRequests, SequenceTheorems, TLAPS

----------------------------------------------------------------------------
(* The inductive invariant. *)

Typed ==
  /\ request \in [Requests -> Places]
  /\ inMail \in [Requests -> States] /\ inDone \in [Requests -> States]
  /\ client \in [Requests -> {"idle", "posted", "told", "killed"}]
  /\ pc \in Steps /\ failing \in BOOLEAN /\ answer \in States
  /\ due \subseteq Requests /\ batch \in Seq(Requests)
  /\ reader \in [req: Requests \cup {NoReq}, at: Polls]

Recorded(r) == <<About[r], r>> \in records
\* What is recorded is a restore of the operation the request was about, and one
\* request at most restored it.
Journal ==
  /\ records \subseteq {<<About[r], r>> : r \in Requests}
  /\ \A q, r \in Requests : Recorded(q) /\ Recorded(r) /\ About[q] = About[r] => q = r

\* What is pending is a restore by its request, or an earlier rename; a restore is
\* begun only for an operation that no other request restored.
Begun ==
  /\ pending.req \in Requests \cup {NoReq} /\ pending.moved \in BOOLEAN
  /\ pending.moved => pending.req \in Requests
  /\ pending.req \in Requests =>
       /\ pending.op = About[pending.req]
       /\ \A q \in Requests : Recorded(q) /\ About[q] = pending.op => q = pending.req

\* Where the worker has a batch, no request of which comes twice.
Resting == {"down", "prune", "prune2", "top", "loop", "wait"}
Restoring == {"open", "move", "record", "clear"}
Handing == {"archive", "archive2"}
Batched ==
  /\ \A i, j \in 1..Len(batch) : batch[i] = batch[j] => i = j
  /\ pc \in Resting => batch = <<>>
  /\ pc \in {"recover", "serve", "answer", "next"} \cup Restoring => batch # <<>>
  /\ pc \in Handing /\ answer # "none" => batch # <<>>
  /\ pc \notin Handing \cup {"answer", "next"} => answer = "none"
  /\ pc \in {"answer", "next"} => answer # "none"

\* The first request has its answer; those behind it, or all, wait for theirs.
Answered == pc = "next" \/ (pc \in Handing /\ answer # "none")
Waiting(r) == request[r] = "mail" /\ inMail[r] \notin Final
Held ==
  /\ \A i \in 1..Len(batch) : i > 1 \/ ~Answered => Waiting(batch[i])
  /\ \A r \in due : request[r] = "mail" /\ \A i \in 1..Len(batch) : batch[i] # r
  /\ due # {} => pc \in {"scan"} \cup Handing /\ answer = "none"

\* What is being archived or removed.
Handed ==
  /\ pc \in Handing =>
       /\ cur \in Requests /\ inMail[cur] \in Final
       /\ answer # "none" => cur = batch[1]
       /\ answer = "none" => cur \notin due /\ \A i \in 1..Len(batch) : batch[i] # cur
  /\ pc = "archive2" => request[cur] = "done"
  /\ pc = "prune2" => cur \in pruned

\* The request being restored, step by step.
Underway ==
  /\ pc \in Restoring => ~failing
  /\ pc \in {"open", "move", "record"} =>
       \A q \in Requests : About[q] = Subject => ~Recorded(q)
  /\ pc = "open" => pending = NoPending
  /\ pc = "move" => pending = [op |-> Subject, req |-> batch[1], moved |-> FALSE]
  /\ pc \in {"record", "clear"} => pending = [op |-> Subject, req |-> batch[1], moved |-> TRUE]
  /\ pc = "clear" => Recorded(batch[1])

\* What an answer says is so, and stays so: of what is not recorded nothing is pending.
Truly(r, a) ==
  /\ a = "restored" => Recorded(r)
  /\ a = "rejected" /\ r \notin blurred => ~Recorded(r) /\ pending.req # r
Truthful ==
  /\ \A r \in Requests : Truly(r, inMail[r]) /\ Truly(r, inDone[r])
  /\ pc = "answer" => Truly(batch[1], answer)

\* What is pending after a recovery is of no request that still waits.
Behind(i) == pc = "serve" \/ (i > 1 /\ (pc \in Restoring \cup {"answer"} \/ Answered))
Apart == ~failing => \A i \in 1..Len(batch) : Behind(i) => pending.req # batch[i]

\* A request is posted once, and its files are there until it is pruned.
Filed ==
  \A r \in Requests :
    /\ client[r] = "idle" => request[r] = "none" /\ inMail[r] = "none" /\ inDone[r] = "none"
    /\ client[r] # "idle" => request[r] # "none" \/ r \in pruned
    /\ request[r] = "mail" => inDone[r] = "none"

\* What a poll has seen stays to be found.
Found ==
  LET r == reader.req IN
  /\ reader.at # "idle" => r \in Requests /\ client[r] # "idle"
  /\ reader.at = "archived" => request[r] # "mail"
  /\ reader.at = "read" => inMail[r] # "none" \/ inDone[r] # "none" \/ r \in pruned
  /\ reader.at = "reread" => inDone[r] # "none" \/ r \in pruned
  /\ reader.at = "error" => r \in pruned

Inv == /\ Typed /\ Journal /\ Begun /\ Batched /\ Held /\ Handed
       /\ Underway /\ Truthful /\ Apart /\ Filed /\ Found
----------------------------------------------------------------------------
(* A part of the invariant is kept by what leaves its variables alone.      *)

LEMMA TypedFrame ==
  ASSUME Typed, UNCHANGED <<request, inMail, inDone, client, pc, failing, answer, due, batch, reader>>
  PROVE  Typed'
BY DEF Typed

LEMMA JournalFrame ==
  ASSUME Journal, UNCHANGED <<records>>
  PROVE  Journal'
BY DEF Journal, Recorded

LEMMA BegunFrame ==
  ASSUME Begun, UNCHANGED <<pending, records>>
  PROVE  Begun'
BY DEF Begun, Recorded

LEMMA BatchedFrame ==
  ASSUME Batched, UNCHANGED <<batch, pc, answer>>
  PROVE  Batched'
BY DEF Batched

LEMMA HeldFrame ==
  ASSUME Held, UNCHANGED <<batch, pc, answer, request, inMail, due>>
  PROVE  Held'
BY DEF Held, Waiting, Answered

LEMMA HandedFrame ==
  ASSUME Handed, UNCHANGED <<pc, cur, inMail, answer, batch, due, request, pruned>>
  PROVE  Handed'
BY DEF Handed

LEMMA UnderwayFrame ==
  ASSUME Underway, UNCHANGED <<pc, failing, records, batch, pending>>
  PROVE  Underway'
BY DEF Underway, Recorded, Subject

LEMMA TruthfulFrame ==
  ASSUME Truthful, UNCHANGED <<inMail, inDone, records, blurred, pending, pc, answer, batch>>
  PROVE  Truthful'
BY DEF Truthful, Truly, Recorded

LEMMA ApartFrame ==
  ASSUME Apart, UNCHANGED <<pending, pc, answer, failing, batch>>
  PROVE  Apart'
BY DEF Apart, Behind, Answered

LEMMA FiledFrame ==
  ASSUME Filed, UNCHANGED <<client, request, inMail, inDone, pruned>>
  PROVE  Filed'
BY DEF Filed

LEMMA FoundFrame ==
  ASSUME Found, UNCHANGED <<reader, request, client, inMail, inDone, pruned>>
  PROVE  Found'
BY DEF Found

----------------------------------------------------------------------------
(* Sequences, the journal, and what a verdict means. *)

\* What the head and the tail of a batch are.
LEMMA HeadTail ==
  ASSUME NEW S, NEW s \in Seq(S), s # <<>>
  PROVE  /\ Len(s) \in Nat /\ Len(s) >= 1 /\ Head(s) = s[1] /\ s[1] \in S
         /\ Tail(s) \in Seq(S) /\ Len(Tail(s)) = Len(s) - 1
         /\ Tail(s) = <<>> <=> Len(s) = 1
         /\ \A i \in 1..Len(Tail(s)) : Tail(s)[i] = s[i + 1]
<1>1. Len(s) \in Nat /\ Len(s) # 0
  BY EmptySeq
<1>2. Tail(s) = <<>> <=> Len(Tail(s)) = 0
  BY EmptySeq, HeadTailProperties
<1> QED BY <1>1, <1>2, HeadTailProperties

\* What a request is put behind.
LEMMA Appended ==
  ASSUME NEW S, NEW s \in Seq(S), NEW e \in S
  PROVE  /\ Append(s, e) \in Seq(S) /\ Append(s, e) # <<>> /\ Len(s) \in Nat
         /\ Len(Append(s, e)) = Len(s) + 1
         /\ \A i \in 1..Len(s) : Append(s, e)[i] = s[i]
         /\ Append(s, e)[Len(s) + 1] = e
OBVIOUS

\* A restore that no other request made is one more record.
LEMMA RecordOne ==
  ASSUME Journal, NEW r \in Requests, records' = records \cup {<<About[r], r>>},
         \A q \in Requests : Recorded(q) /\ About[q] = About[r] => q = r
  PROVE  Journal' /\ \A q \in Requests : Recorded(q)' <=> Recorded(q) \/ q = r
<1>1. \A q \in Requests : Recorded(q)' <=> Recorded(q) \/ q = r
  BY DEF Recorded
<1>2. records' \subseteq {<<About[q], q>> : q \in Requests}
  BY DEF Journal
<1> QED BY <1>1, <1>2 DEF Journal

\* Recovery records what was moved, and nothing is pending after it.
LEMMA Resolved ==
  ASSUME Journal, Begun, Resolve
  PROVE  /\ Journal' /\ Begun' /\ pending' = NoPending
         /\ \A q \in Requests : Recorded(q) => Recorded(q)'
         /\ \A q \in Requests : Recorded(q)' => Recorded(q) \/ q = pending.req
<1>1. pending' = NoPending
  BY DEF Resolve
<1>2. CASE pending.moved
  <2>1. pending.req \in Requests /\ pending.op = About[pending.req]
    BY <1>2 DEF Begun
  <2>2. records' = records \cup {<<About[pending.req], pending.req>>}
    BY <1>2, <2>1 DEF Resolve
  <2> QED BY <1>1, <2>1, <2>2, RecordOne, RequestsAssumption DEF Begun, NoPending
<1>3. CASE ~pending.moved
  <2>1. records' = records
    BY <1>3 DEF Resolve
  <2> QED BY <1>1, <2>1, RequestsAssumption DEF Journal, Begun, Recorded, NoPending
<1> QED BY <1>2, <1>3

\* The answers that are given stay true: what becomes recorded or pending was pending
\* before, or is of a request that has no final answer.
LEMMA AnswersStand ==
  ASSUME Truthful, UNCHANGED <<inMail, inDone>>, blurred \subseteq blurred',
         \A r \in Requests : Recorded(r) => Recorded(r)',
         \A r \in Requests : (Recorded(r)' /\ ~Recorded(r)) \/ pending'.req = r =>
            r = pending.req \/ (inMail[r] \notin Final /\ inDone[r] \notin Final)
  PROVE  \A r \in Requests : Truly(r, inMail[r])' /\ Truly(r, inDone[r])'
BY DEF Truthful, Truly, Final

\* A request that waits has no final answer in either directory.
LEMMA NoAnswer ==
  ASSUME Inv, NEW r \in Requests, Waiting(r)
  PROVE  inMail[r] \notin Final /\ inDone[r] \notin Final
BY DEF Inv, Filed, Waiting, Final

\* An operation is restored exactly when a request about it is recorded.
LEMMA RestoredBy ==
  ASSUME Journal, NEW o
  PROVE  Restored(o) <=> \E r \in Requests : About[r] = o /\ Recorded(r)
BY DEF Journal, Restored, Recorded

\* A verdict is true of the journal, and lets a restore begin only where none was.
LEMMA VerdictTrue ==
  ASSUME Inv, pc = "serve"
  PROVE  /\ Verdict \in {"required", "restored", "rejected", "none"}
         /\ Verdict = "required" <=> failing
         /\ Verdict = "restored" => Recorded(batch[1])
         /\ Verdict = "rejected" => ~Recorded(batch[1])
         /\ Verdict = "none" => ~failing /\ pending = NoPending
         /\ Verdict = "none" => \A q \in Requests : About[q] = Subject => ~Recorded(q)
<1>1. batch # <<>> /\ Head(batch) = batch[1] /\ batch[1] \in Requests
  BY HeadTail DEF Inv, Typed, Batched
<1>2. Restored(Subject) <=> \E r \in Requests : About[r] = Subject /\ Recorded(r)
  BY RestoredBy DEF Inv
<1>3. <<Subject, Head(batch)>> \in records <=> Recorded(batch[1])
  BY <1>1 DEF Subject, Recorded
<1> QED BY <1>1, <1>2, <1>3 DEF Verdict, Inv

----------------------------------------------------------------------------
(* One lemma per action. *)

LEMMA PostKeeps ==
  ASSUME Inv, NEW r \in Requests, Post(r)
  PROVE  Inv'
<1> USE DEF Post, world, past
<1>1. Journal' /\ Begun' /\ Batched' /\ Underway' /\ Truthful' /\ Apart'
  BY JournalFrame, BegunFrame, BatchedFrame, UnderwayFrame, TruthfulFrame, ApartFrame DEF Inv
<1>2. Typed'
  BY DEF Inv, Typed, Places
<1>3. Held'
  BY DEF Inv, Typed, Held, Batched, Waiting, Answered, Handing
<1>4. Handed'
  BY DEF Inv, Handed, Handing
<1>5. Filed'
  BY DEF Inv, Typed, Filed
<1>6. Found'
  BY DEF Inv, Found
<1> QED BY <1>1, <1>2, <1>3, <1>4, <1>5, <1>6 DEF Inv

LEMMA SignalKeeps ==
  ASSUME Inv, NEW r \in Requests, Signal(r)
  PROVE  Inv'
<1> USE DEF Signal, mailbox, world, worker, past
<1>1. Journal' /\ Begun' /\ Batched' /\ Held' /\ Handed' /\ Underway' /\ Truthful' /\ Apart'
  BY JournalFrame, BegunFrame, BatchedFrame, HeldFrame, HandedFrame, UnderwayFrame, TruthfulFrame, ApartFrame DEF Inv
<1>2. Typed'
  BY DEF Inv, Typed
<1>3. Filed'
  BY DEF Inv, Filed
<1>4. Found'
  BY DEF Inv, Found
<1> QED BY <1>1, <1>2, <1>3, <1>4 DEF Inv

LEMMA KilledKeeps ==
  ASSUME Inv, NEW r \in Requests, Killed(r)
  PROVE  Inv'
<1> USE DEF Killed, mailbox, world, worker, past, Outside
<1>1. Journal' /\ Begun' /\ Batched' /\ Held' /\ Handed' /\ Underway' /\ Truthful' /\ Apart'
  BY JournalFrame, BegunFrame, BatchedFrame, HeldFrame, HandedFrame, UnderwayFrame, TruthfulFrame, ApartFrame DEF Inv
<1>2. Typed'
  BY DEF Inv, Typed
<1>3. Filed'
  BY DEF Inv, Filed
<1>4. Found'
  BY DEF Inv, Found
<1> QED BY <1>1, <1>2, <1>3, <1>4 DEF Inv

LEMMA PollKeeps ==
  ASSUME Inv, NEW r \in Requests, Poll(r)
  PROVE  Inv'
<1> USE DEF Poll, mailbox, world, worker, past
<1>1. Journal' /\ Begun' /\ Batched' /\ Held' /\ Handed' /\ Underway' /\ Truthful' /\ Apart' /\ Filed'
  BY JournalFrame, BegunFrame, BatchedFrame, HeldFrame, HandedFrame, UnderwayFrame, TruthfulFrame, ApartFrame, FiledFrame DEF Inv
<1>2. Typed'
  BY DEF Inv, Typed, Polls
<1>3. Found'
  BY DEF Inv, Found
<1> QED BY <1>1, <1>2, <1>3 DEF Inv

LEMMA LookKeeps ==
  ASSUME Inv, Look
  PROVE  Inv'
<1> DEFINE r == reader.req
<1> DEFINE next == IF Missing(reader.at, r) THEN "error" ELSE Looked(reader.at, r)
<1>seen. /\ next \in Polls
         /\ next = "error" => (reader.at = "archived" /\ request[r] # "done")
                                \/ (reader.at = "reread" /\ inDone[r] = "none")
         /\ next = "archived" => request[r] # "mail"
         /\ next = "read" => inMail[r] # "none" \/ inDone[r] # "none"
         /\ next = "reread" => reader.at = "read" /\ inMail[r] = "none"
  <2>1. reader.at \in Polls \ {"idle", "error"}
    BY DEF Inv, Typed, Look
  <2>2. CASE reader.at = "request"
    BY <2>2 DEF Polls, Missing, Looked
  <2>3. CASE reader.at = "archived"
    BY <2>3 DEF Polls, Missing, Looked
  <2>4. CASE reader.at = "path"
    BY <2>4 DEF Polls, Missing, Looked
  <2>5. CASE reader.at \in {"mail", "done", "read", "reread"}
    BY <2>5 DEF Polls, Missing, Looked
  <2> QED BY <2>1, <2>2, <2>3, <2>4, <2>5 DEF Polls
<1>is. \/ next = "idle" /\ reader' = [req |-> NoReq, at |-> "idle"]
       \/ next # "idle" /\ reader' = [req |-> r, at |-> next]
  BY DEF Look, Inv, Typed
<1> HIDE DEF next
<1> USE DEF Look, mailbox, world, worker, past
<1>1. Journal' /\ Begun' /\ Batched' /\ Held' /\ Handed' /\ Underway' /\ Truthful' /\ Apart' /\ Filed'
  BY JournalFrame, BegunFrame, BatchedFrame, HeldFrame, HandedFrame, UnderwayFrame, TruthfulFrame, ApartFrame, FiledFrame DEF Inv
<1>2. Typed'
  BY <1>seen, <1>is DEF Inv, Typed
<1>3. Found'
  BY <1>seen, <1>is DEF Inv, Typed, Places, Filed, Found, Look
<1> QED BY <1>1, <1>2, <1>3 DEF Inv

LEMMA RestartKeeps ==
  ASSUME Inv, Restart
  PROVE  Inv'
<1> USE DEF Restart, mailbox, world, people, past
<1>1. Journal' /\ Begun' /\ Filed' /\ Found'
  BY JournalFrame, BegunFrame, FiledFrame, FoundFrame DEF Inv
<1>2. Typed'
  BY DEF Inv, Typed, Steps
<1>3. Batched'
  BY DEF Inv, Batched, Resting, Restoring
<1>4. Held'
  BY DEF Inv, Held, Waiting, Answered, Handing
<1>5. Handed'
  BY DEF Inv, Handed, Handing
<1>6. Underway'
  BY DEF Inv, Underway, Restoring, Subject
<1>7. Truthful'
  BY DEF Inv, Truthful, Truly, Recorded
<1>8. Apart'
  BY DEF Inv, Batched, Apart, Behind, Answered, Restoring
<1> QED BY <1>1, <1>2, <1>3, <1>4, <1>5, <1>6, <1>7, <1>8 DEF Inv

LEMMA PruneKeeps ==
  ASSUME Inv, Prune
  PROVE  Inv'
<1> USE DEF Prune, world, people
<1>1. Journal' /\ Begun'
  BY JournalFrame, BegunFrame DEF Inv
<1>2. Typed'
  BY DEF Inv, Typed, Places, Steps
<1>3. Batched'
  BY DEF Inv, Batched, Resting, Restoring
<1>4. Held'
  BY DEF Inv, Held, Batched, Resting, Handing
<1>5. Handed'
  BY DEF Inv, Handed, Handing
<1>6. Underway'
  BY DEF Inv, Underway, Restoring, Subject
<1>7. Truthful'
  BY DEF Inv, Truthful, Truly, Recorded
<1>8. Apart'
  BY DEF Inv, Batched, Apart, Behind, Answered, Restoring
<1>9. Filed'
  BY DEF Inv, Typed, Filed
<1>10. Found'
  BY DEF Inv, Typed, Found
<1> QED BY <1>1, <1>2, <1>3, <1>4, <1>5, <1>6, <1>7, <1>8, <1>9, <1>10 DEF Inv

LEMMA PruneResultKeeps ==
  ASSUME Inv, PruneResult
  PROVE  Inv'
<1> USE DEF PruneResult, world, people, past
<1>1. Journal' /\ Begun'
  BY JournalFrame, BegunFrame DEF Inv
<1>2. Typed'
  BY DEF Inv, Typed, States, Steps
<1>3. Batched'
  BY DEF Inv, Batched, Resting, Restoring
<1>4. Held'
  BY DEF Inv, Held, Waiting, Answered, Handing
<1>5. Handed'
  BY DEF Inv, Handed, Handing
<1>6. Underway'
  BY DEF Inv, Underway, Restoring, Subject
<1>7. Truthful'
  BY DEF Inv, Truthful, Truly, Recorded
<1>8. Apart'
  BY DEF Inv, Batched, Apart, Behind, Answered, Restoring
<1>9. Filed'
  BY DEF Inv, Filed
<1>10. Found'
  BY DEF Inv, Found, Handed
<1> QED BY <1>1, <1>2, <1>3, <1>4, <1>5, <1>6, <1>7, <1>8, <1>9, <1>10 DEF Inv

LEMMA TopKeeps ==
  ASSUME Inv, Top
  PROVE  Inv'
<1> USE DEF Top, mailbox, world, people, past
<1>1. Journal' /\ Begun' /\ Filed' /\ Found'
  BY JournalFrame, BegunFrame, FiledFrame, FoundFrame DEF Inv
<1>2. Typed'
  BY DEF Inv, Typed, Steps, Mail
<1>3. Batched'
  BY DEF Inv, Batched, Resting, Restoring
<1>4. Held'
  BY DEF Inv, Held, Batched, Resting, Mail
<1>5. Handed'
  BY DEF Inv, Handed, Handing
<1>6. Underway'
  BY DEF Inv, Underway, Restoring, Subject
<1>7. Truthful'
  BY DEF Inv, Truthful, Truly, Recorded
<1>8. Apart'
  BY DEF Inv, Batched, Apart, Behind, Answered, Restoring
<1> QED BY <1>1, <1>2, <1>3, <1>4, <1>5, <1>6, <1>7, <1>8 DEF Inv

LEMMA ScanKeeps ==
  ASSUME Inv, NEW r \in Requests, Scan(r)
  PROVE  Inv'
<1> USE DEF Scan, mailbox, world, people, past
<1>len. /\ Len(batch) \in Nat /\ 1..Len(batch) \subseteq Nat
        /\ \A i \in 1..Len(batch) : batch[i] \in Requests
  BY DEF Inv, Typed
<1>ways. \/ pc' = "archive" /\ cur' = r /\ due' = due \ {r} /\ batch' = batch /\ inMail[r] \in Final
         \/ pc' = pc /\ due' = {} /\ batch' = batch /\ cur' = cur
         \/ pc' = pc /\ due' = due \ {r} /\ batch' = Append(batch, r) /\ cur' = cur /\ inMail[r] \notin Final
  <2>1. CASE inMail[r] \in Final
    BY <2>1
  <2>2. CASE inMail[r] \notin Final /\ Len(batch) = Batch
    BY <2>2
  <2>3. CASE inMail[r] \notin Final /\ Len(batch) # Batch
    BY <2>3
  <2> QED BY <2>1, <2>2, <2>3
<1>more. /\ Append(batch, r) \in Seq(Requests) /\ Append(batch, r) # <<>>
         /\ Len(Append(batch, r)) = Len(batch) + 1
         /\ \A i \in 1..Len(batch) : Append(batch, r)[i] = batch[i]
         /\ Append(batch, r)[Len(batch) + 1] = r
  BY Appended DEF Inv, Typed
<1>1. Journal' /\ Begun' /\ Filed' /\ Found'
  BY JournalFrame, BegunFrame, FiledFrame, FoundFrame DEF Inv
<1>2. Typed'
  BY <1>ways, <1>more, <1>len DEF Inv, Typed, Steps
<1>3. Batched'
  <2>1. CASE batch' = batch
    BY <1>ways, <2>1 DEF Inv, Batched, Resting, Restoring, Handing
  <2>2. CASE batch' # batch
    <3>1. \A i \in 1..Len(batch) : batch[i] # r
      BY DEF Inv, Held
    <3>2. \A i \in 1..Len(batch') : i \in 1..Len(batch) \/ i = Len(batch) + 1
      BY <1>ways, <1>more, <1>len, <2>2
    <3>3. \A i, j \in 1..Len(batch') : batch'[i] = batch'[j] => i = j
      BY <1>ways, <1>more, <1>len, <2>2, <3>1, <3>2 DEF Inv, Batched
    <3> QED BY <1>ways, <1>more, <2>2, <3>3 DEF Inv, Batched, Resting
  <2> QED BY <2>1, <2>2
<1>4. Held'
  <2>1. UNCHANGED <<request, inMail, answer>> /\ pc' \in {"scan", "archive"} /\ pc = "scan"
    BY <1>ways
  <2>2. answer = "none" /\ ~Answered /\ ~Answered'
    BY <2>1 DEF Inv, Batched, Handing, Answered
  <2>3. /\ Waiting(r) \/ inMail[r] \in Final
        /\ \A i \in 1..Len(batch) : batch[i] # r /\ Waiting(batch[i])
    BY <2>2 DEF Inv, Held, Waiting
  <2>4. \A i \in 1..Len(batch') : Waiting(batch'[i]) /\ batch'[i] \notin due'
    <3>1. CASE batch' = batch
      BY <1>ways, <2>3, <3>1 DEF Inv, Held
    <3>2. CASE batch' # batch
      <4>1. \A i \in 1..Len(batch') : i \in 1..Len(batch) \/ i = Len(batch) + 1
        BY <1>ways, <1>more, <1>len, <3>2
      <4> QED BY <1>ways, <1>more, <2>3, <3>2, <4>1 DEF Inv, Held
    <3> QED BY <3>1, <3>2
  <2>5. due' \subseteq due
    BY <1>ways
  <2> QED BY <2>1, <2>2, <2>4, <2>5 DEF Inv, Held, Waiting, Handing
<1>5. Handed'
  BY <1>ways, <1>more, <1>len DEF Inv, Handed, Held
<1>6. Underway'
  BY <1>ways, <1>more, <1>len DEF Inv, Underway, Restoring, Subject
<1>7. Truthful'
  BY <1>ways, <1>more, <1>len DEF Inv, Truthful, Truly, Recorded
<1>8. Apart'
  BY <1>ways, <1>more, <1>len DEF Inv, Batched, Apart, Behind, Answered, Restoring, Handing
<1> QED BY <1>1, <1>2, <1>3, <1>4, <1>5, <1>6, <1>7, <1>8 DEF Inv

LEMMA ScannedKeeps ==
  ASSUME Inv, Scanned
  PROVE  Inv'
<1> USE DEF Scanned, mailbox, world, people, past
<1>1. Journal' /\ Begun' /\ Filed' /\ Found'
  BY JournalFrame, BegunFrame, FiledFrame, FoundFrame DEF Inv
<1>2. Typed'
  BY DEF Inv, Typed, Steps
<1>3. Batched'
  BY DEF Inv, Batched, Resting, Restoring, Handing
<1>4. Held'
  BY DEF Inv, Held, Waiting, Answered, Handing
<1>5. Handed'
  BY DEF Inv, Handed, Handing
<1>6. Underway'
  BY DEF Inv, Underway, Restoring, Subject
<1>7. Truthful'
  BY DEF Inv, Truthful, Truly, Recorded
<1>8. Apart'
  BY DEF Inv, Batched, Apart, Behind, Answered, Restoring
<1> QED BY <1>1, <1>2, <1>3, <1>4, <1>5, <1>6, <1>7, <1>8 DEF Inv

LEMMA RecoverKeeps ==
  ASSUME Inv, Recover
  PROVE  Inv'
<1> USE DEF Recover, mailbox, worker, people, past
<1>ways. \/ /\ Journal' /\ Begun' /\ pending' = NoPending /\ ~failing'
            /\ \A q \in Requests : Recorded(q) => Recorded(q)'
            /\ \A q \in Requests : Recorded(q)' => Recorded(q) \/ q = pending.req
         \/ pending' = pending /\ records' = records /\ failing'
  BY Resolved DEF Inv
<1>batch. \A i \in 1..Len(batch) : batch[i] \in Requests
  BY DEF Inv, Typed
<1>1. Filed' /\ Found'
  BY FiledFrame, FoundFrame DEF Inv
<1>2. Typed'
  BY DEF Inv, Typed, Steps
<1>3. Journal'
  BY <1>ways, JournalFrame, BegunFrame DEF Inv
<1>4. Begun'
  BY <1>ways, JournalFrame, BegunFrame DEF Inv
<1>5. Batched'
  BY DEF Inv, Batched, Resting, Handing
<1>6. Held'
  BY DEF Inv, Held, Waiting, Answered, Handing
<1>7. Handed'
  BY DEF Inv, Handed, Handing
<1>8. Underway'
  BY DEF Inv, Underway, Restoring, Subject
<1>9. Truthful'
  <2>1. CASE pending' = NoPending
    <3>1. \A r \in Requests : pending'.req # r
      BY <2>1, RequestsAssumption DEF NoPending
    <3>2. CASE records' = records
      BY <3>1, <3>2, AnswersStand DEF Inv, Recorded, Truthful
    <3> QED BY <1>ways, <3>1, <3>2, AnswersStand DEF Inv, Truthful
  <2>2. CASE pending' = pending /\ records' = records
    BY <1>ways, <2>2 DEF Inv, Truthful, Truly, Recorded
  <2> QED BY <1>ways, <2>1, <2>2
<1>10. Apart'
  BY <1>ways, <1>batch, RequestsAssumption DEF Inv, Apart, NoPending
<1> QED BY <1>1, <1>2, <1>3, <1>4, <1>5, <1>6, <1>7, <1>8, <1>9, <1>10 DEF Inv

LEMMA ServeKeeps ==
  ASSUME Inv, Serve
  PROVE  Inv'
<1> USE DEF Serve, mailbox, world, people, past, Turn, Served
<1>head. /\ batch # <<>> /\ Head(batch) = batch[1] /\ batch[1] \in Requests
         /\ Len(batch) \in Nat /\ Len(batch) >= 1
  BY HeadTail DEF Inv, Typed, Batched
<1>1. Journal' /\ Begun' /\ Filed' /\ Found'
  BY JournalFrame, BegunFrame, FiledFrame, FoundFrame DEF Inv
<1>2. Typed'
  BY VerdictTrue DEF Inv, Typed, States, Final, Steps
<1>3. Batched'
  BY DEF Inv, Batched, Resting
<1>4. Held'
  BY DEF Inv, Held, Waiting, Answered, Handing
<1>5. Handed'
  BY DEF Inv, Handed, Handing
<1>6. Underway'
  BY <1>head, VerdictTrue DEF Inv, Underway, Subject, Recorded, Restoring
<1>7. Truthful'
  <2>1. pc' = "answer" => answer' = Verdict /\ Verdict # "none"
    OBVIOUS
  <2>2. ~failing => pending.req # batch[1]
    BY <1>head DEF Inv, Apart, Behind
  <2>3. Verdict = "rejected" => ~failing
    BY VerdictTrue
  <2> QED BY <1>head, <2>1, <2>2, <2>3, VerdictTrue DEF Inv, Truthful, Truly, Recorded
<1>8. Apart'
  BY DEF Inv, Apart, Behind
<1> QED BY <1>1, <1>2, <1>3, <1>4, <1>5, <1>6, <1>7, <1>8 DEF Inv

LEMMA ServeBlindKeeps ==
  ASSUME Inv, ServeBlind
  PROVE  Inv'
<1> USE DEF ServeBlind, mailbox, world, people, Turn, Served, AnswerTo, Outside
<1>1. Journal' /\ Begun' /\ Filed' /\ Found'
  BY JournalFrame, BegunFrame, FiledFrame, FoundFrame DEF Inv
<1>2. Typed'
  BY DEF Inv, Typed, States, Final, Steps
<1>3. Batched'
  BY DEF Inv, Batched, Resting
<1>4. Held'
  BY DEF Inv, Held, Waiting, Answered, Handing
<1>5. Handed'
  BY DEF Inv, Handed, Handing
<1>6. Underway'
  BY DEF Inv, Underway, Subject
<1>7. Truthful'
  BY DEF Inv, Truthful, Truly, Recorded
<1>8. Apart'
  BY DEF Inv, Apart, Behind
<1> QED BY <1>1, <1>2, <1>3, <1>4, <1>5, <1>6, <1>7, <1>8 DEF Inv

LEMMA OpenRestoreKeeps ==
  ASSUME Inv, OpenRestore
  PROVE  Inv'
<1> USE DEF OpenRestore, mailbox, people, past, Turn, Served, AnswerTo
<1>head. /\ batch # <<>> /\ Head(batch) = batch[1] /\ batch[1] \in Requests
         /\ Len(batch) \in Nat /\ Len(batch) >= 1 /\ Subject = About[batch[1]]
  BY HeadTail DEF Inv, Typed, Batched, Restoring, Subject
<1>wait. inMail[batch[1]] \notin Final /\ inDone[batch[1]] \notin Final
  BY <1>head, NoAnswer DEF Inv, Held, Answered, Handing
<1>ways. \/ pc' = "answer" /\ answer' = "rejected" /\ pending' = pending
         \/ /\ pending' = [op |-> Subject, req |-> batch[1], moved |-> FALSE]
            /\ pc' = "move" /\ answer' = "none"
  BY <1>head DEF Inv, Underway
<1>none. /\ pending = NoPending /\ NoPending.req = NoReq /\ NoReq # batch[1]
         /\ \A q \in Requests : About[q] = Subject => ~Recorded(q)
  BY <1>head, RequestsAssumption DEF Inv, Underway, NoPending
<1>1. Journal' /\ Filed' /\ Found'
  BY JournalFrame, FiledFrame, FoundFrame DEF Inv
<1>2. Typed'
  BY DEF Inv, Typed, States, Final, Steps
<1>3. Begun'
  <2>1. CASE pending' = pending
    BY <2>1, BegunFrame DEF Inv
  <2>2. CASE pending' = [op |-> Subject, req |-> batch[1], moved |-> FALSE]
    BY <1>head, <1>none, <2>2 DEF Begun, Recorded
  <2> QED BY <1>ways, <2>1, <2>2
<1>4. Batched'
  BY DEF Inv, Batched, Resting, Restoring
<1>5. Held'
  BY DEF Inv, Held, Waiting, Answered, Handing
<1>6. Handed'
  BY DEF Inv, Handed, Handing
<1>7. Underway'
  BY DEF Inv, Underway, Restoring, Recorded, Subject
<1>8. Truthful'
  <2>1. \A r \in Requests : pending'.req = r => r = pending.req \/ r = batch[1]
    BY <1>ways
  <2>2. \A r \in Requests : Truly(r, inMail[r])' /\ Truly(r, inDone[r])'
    BY <1>wait, <2>1, AnswersStand DEF Inv, Recorded
  <2>3. pc' = "answer" => Truly(batch[1], answer)'
    BY <1>head, <1>ways, <1>none DEF Truly, Recorded
  <2> QED BY <2>2, <2>3 DEF Truthful
<1>9. Apart'
  BY DEF Inv, Batched, Apart, Behind, Restoring
<1> QED BY <1>1, <1>2, <1>3, <1>4, <1>5, <1>6, <1>7, <1>8, <1>9 DEF Inv

LEMMA MoveRestoreKeeps ==
  ASSUME Inv, MoveRestore
  PROVE  Inv'
<1> USE DEF MoveRestore, mailbox, people, past, Turn, Served, AnswerTo
<1>head. /\ batch # <<>> /\ Head(batch) = batch[1] /\ batch[1] \in Requests
         /\ Len(batch) \in Nat /\ Len(batch) >= 1 /\ Subject = About[batch[1]]
  BY HeadTail DEF Inv, Typed, Batched, Restoring, Subject
<1>wait. inMail[batch[1]] \notin Final /\ inDone[batch[1]] \notin Final
  BY <1>head, NoAnswer DEF Inv, Held, Answered, Handing
<1>ways. \/ pc' = "answer" /\ answer' = "required" /\ pending' = pending
         \/ pc' = "answer" /\ answer' = "rejected" /\ pending' = NoPending
         \/ /\ pending' = [op |-> Subject, req |-> batch[1], moved |-> TRUE]
            /\ pc' = "record" /\ answer' = "none"
  BY <1>head DEF Inv, Underway
<1>none. /\ pending = [op |-> Subject, req |-> batch[1], moved |-> FALSE]
         /\ NoPending.req = NoReq /\ NoReq \notin Requests
         /\ \A q \in Requests : About[q] = Subject => ~Recorded(q)
  BY <1>head, RequestsAssumption DEF Inv, Underway, NoPending
<1>1. Journal' /\ Filed' /\ Found'
  BY JournalFrame, FiledFrame, FoundFrame DEF Inv
<1>2. Typed'
  BY DEF Inv, Typed, States, Final, Steps
<1>3. Begun'
  <2>1. CASE pending' = pending
    BY <2>1, BegunFrame DEF Inv
  <2>2. CASE pending' = NoPending
    BY <1>none, <2>2 DEF Begun, NoPending
  <2>3. CASE pending' = [op |-> Subject, req |-> batch[1], moved |-> TRUE]
    BY <1>head, <1>none, <2>3 DEF Begun, Recorded
  <2> QED BY <1>ways, <2>1, <2>2, <2>3
<1>4. Batched'
  BY DEF Inv, Batched, Resting, Restoring
<1>5. Held'
  BY DEF Inv, Held, Waiting, Answered, Handing
<1>6. Handed'
  BY DEF Inv, Handed, Handing
<1>7. Underway'
  BY DEF Inv, Underway, Restoring, Recorded, Subject
<1>8. Truthful'
  <2>1. \A r \in Requests : pending'.req = r => r = pending.req \/ r = batch[1]
    BY <1>ways, <1>none
  <2>2. \A r \in Requests : Truly(r, inMail[r])' /\ Truly(r, inDone[r])'
    BY <1>wait, <2>1, AnswersStand DEF Inv, Recorded
  <2>3. pc' = "answer" => Truly(batch[1], answer)'
    BY <1>head, <1>ways, <1>none DEF Truly, Recorded
  <2> QED BY <2>2, <2>3 DEF Truthful
<1>9. Apart'
  <2>1. \A i \in 1..Len(batch) : i > 1 => batch[i] \in Requests /\ batch[i] # batch[1]
    BY <1>head DEF Inv, Typed, Batched
  <2> QED BY <1>none, <1>ways, <2>1 DEF Apart, Behind
<1> QED BY <1>1, <1>2, <1>3, <1>4, <1>5, <1>6, <1>7, <1>8, <1>9 DEF Inv

LEMMA RecordRestoreKeeps ==
  ASSUME Inv, RecordRestore
  PROVE  Inv'
<1> USE DEF RecordRestore, mailbox, people, past, Turn, Served, AnswerTo
<1>head. /\ batch # <<>> /\ Head(batch) = batch[1] /\ batch[1] \in Requests
         /\ Len(batch) \in Nat /\ Len(batch) >= 1 /\ Subject = About[batch[1]]
  BY HeadTail DEF Inv, Typed, Batched, Restoring, Subject
<1>wait. inMail[batch[1]] \notin Final /\ inDone[batch[1]] \notin Final
  BY <1>head, NoAnswer DEF Inv, Held, Answered, Handing
<1>ways. \/ pc' = "answer" /\ answer' = "required" /\ records' = records
         \/ /\ records' = records \cup {<<About[batch[1]], batch[1]>>}
            /\ pc' = "clear" /\ answer' = "none"
  BY <1>head DEF Inv, Underway, NoPending
<1>none. /\ pending = [op |-> Subject, req |-> batch[1], moved |-> TRUE]
         /\ \A q \in Requests : About[q] = Subject => ~Recorded(q)
  BY DEF Inv, Underway
<1>more. /\ Journal'
         /\ \A q \in Requests : Recorded(q) => Recorded(q)'
         /\ \A q \in Requests : Recorded(q)' => Recorded(q) \/ q = batch[1]
         /\ pc' = "clear" => Recorded(batch[1])'
  <2>1. CASE records' = records
    BY <1>ways, <2>1, JournalFrame DEF Inv, Recorded
  <2>2. CASE records' = records \cup {<<About[batch[1]], batch[1]>>}
    BY <1>head, <1>none, <2>2, RecordOne DEF Inv
  <2> QED BY <1>ways, <2>1, <2>2
<1>1. Filed' /\ Found'
  BY FiledFrame, FoundFrame DEF Inv
<1>2. Typed'
  BY DEF Inv, Typed, States, Final, Steps
<1>3. Journal'
  BY <1>more
<1>4. Begun'
  BY <1>head, <1>none, <1>more DEF Inv, Begun
<1>5. Batched'
  BY DEF Inv, Batched, Resting, Restoring
<1>6. Held'
  BY DEF Inv, Held, Waiting, Answered, Handing
<1>7. Handed'
  BY DEF Inv, Handed, Handing
<1>8. Underway'
  BY DEF Inv, Underway, Restoring, Recorded, Subject
<1>9. Truthful'
  <2>1. \A r \in Requests : Truly(r, inMail[r])' /\ Truly(r, inDone[r])'
    BY <1>wait, <1>more, AnswersStand DEF Inv
  <2>2. pc' = "answer" => Truly(batch[1], answer)'
    BY <1>ways DEF Truly
  <2> QED BY <2>1, <2>2 DEF Truthful
<1>10. Apart'
  BY DEF Inv, Apart, Behind, Restoring
<1> QED BY <1>1, <1>2, <1>3, <1>4, <1>5, <1>6, <1>7, <1>8, <1>9, <1>10 DEF Inv

LEMMA ClearRestoreKeeps ==
  ASSUME Inv, ClearRestore
  PROVE  Inv'
<1> USE DEF ClearRestore, mailbox, people, past, Turn, Served
<1>head. /\ batch # <<>> /\ Head(batch) = batch[1] /\ batch[1] \in Requests
         /\ Len(batch) \in Nat /\ Len(batch) >= 1 /\ Subject = About[batch[1]]
  BY HeadTail DEF Inv, Typed, Batched, Restoring, Subject
<1>wait. inMail[batch[1]] \notin Final /\ inDone[batch[1]] \notin Final
  BY <1>head, NoAnswer DEF Inv, Held, Answered, Handing
<1>1. Journal' /\ Filed' /\ Found'
  BY JournalFrame, FiledFrame, FoundFrame DEF Inv
<1>2. Typed'
  BY DEF Inv, Typed, States, Final, Steps
<1>3. Begun'
  BY RequestsAssumption DEF Inv, Begun, NoPending
<1>4. Batched'
  BY DEF Inv, Batched, Resting, Restoring
<1>5. Held'
  BY DEF Inv, Held, Waiting, Answered, Handing
<1>6. Handed'
  BY DEF Inv, Handed, Handing
<1>7. Underway'
  BY DEF Inv, Underway, Restoring, Subject
<1>8. Truthful'
  <2>1. \A r \in Requests : pending'.req # r
    BY RequestsAssumption DEF NoPending
  <2>2. \A r \in Requests : Truly(r, inMail[r])' /\ Truly(r, inDone[r])'
    BY <2>1, AnswersStand DEF Inv, Recorded
  <2>3. Truly(batch[1], answer)'
    BY DEF Inv, Underway, Truly, Recorded
  <2> QED BY <2>2, <2>3 DEF Truthful
<1>9. Apart'
  BY RequestsAssumption DEF Inv, Typed, Apart, NoPending
<1> QED BY <1>1, <1>2, <1>3, <1>4, <1>5, <1>6, <1>7, <1>8, <1>9 DEF Inv

LEMMA AnswerKeeps ==
  ASSUME Inv, Answer
  PROVE  Inv'
<1> USE DEF Answer, world, people, past
<1>head. /\ batch # <<>> /\ Head(batch) = batch[1] /\ batch[1] \in Requests
         /\ Len(batch) \in Nat /\ Len(batch) >= 1
  BY HeadTail DEF Inv, Typed, Batched
<1>1. Journal' /\ Begun'
  BY JournalFrame, BegunFrame DEF Inv
<1>2. Typed'
  BY DEF Inv, Typed, Steps
<1>3. Batched'
  BY DEF Inv, Batched, Resting, Handing
<1>4. Held'
  BY DEF Inv, Held, Batched, Waiting, Answered, Handing
<1>5. Handed'
  BY DEF Inv, Typed, Handed, Batched, Handing
<1>6. Underway'
  BY DEF Inv, Underway, Restoring, Subject
<1>7. Truthful'
  <2>1. \A r \in Requests : inMail'[r] = IF r = batch[1] THEN answer ELSE inMail[r]
    BY <1>head DEF Inv, Typed
  <2>2. Truly(batch[1], answer)
    BY DEF Inv, Truthful
  <2> QED BY <2>1, <2>2 DEF Inv, Truthful, Truly, Recorded
<1>8. Apart'
  BY DEF Inv, Apart, Behind
<1>9. Filed'
  BY <1>head DEF Inv, Filed, Held, Waiting, Answered, Handing
<1>10. Found'
  BY <1>head DEF Inv, Found, Batched
<1> QED BY <1>1, <1>2, <1>3, <1>4, <1>5, <1>6, <1>7, <1>8, <1>9, <1>10 DEF Inv

LEMMA ArchiveKeeps ==
  ASSUME Inv, Archive
  PROVE  Inv'
<1> USE DEF Archive, world, people, past
<1>1. Journal' /\ Begun'
  BY JournalFrame, BegunFrame DEF Inv
<1>2. Typed'
  BY DEF Inv, Typed, Places, Steps
<1>3. Batched'
  BY DEF Inv, Batched, Resting, Restoring, Handing
<1>4. Held'
  <2>1. cur \in Requests /\ cur \notin due' /\ inMail[cur] \in Final
    BY DEF Inv, Handed, Held, Handing
  <2>2. \A i \in 1..Len(batch) : i > 1 \/ ~Answered => batch[i] # cur
    BY DEF Inv, Handed, Handing, Batched, Answered
  <2> QED BY <2>1, <2>2 DEF Inv, Held, Waiting, Answered, Handing
<1>5. Handed'
  BY DEF Inv, Typed, Handed, Handing
<1>6. Underway'
  BY DEF Inv, Underway, Restoring, Subject
<1>7. Truthful'
  BY DEF Inv, Truthful, Truly, Recorded
<1>8. Apart'
  BY DEF Inv, Batched, Apart, Behind, Answered, Restoring
<1>9. Filed'
  BY DEF Inv, Filed, Handed, Handing, Final
<1>10. Found'
  BY DEF Inv, Found
<1> QED BY <1>1, <1>2, <1>3, <1>4, <1>5, <1>6, <1>7, <1>8, <1>9, <1>10 DEF Inv

LEMMA ArchiveResultKeeps ==
  ASSUME Inv, ArchiveResult
  PROVE  Inv'
<1> USE DEF ArchiveResult, world, people, past
<1>1. Journal' /\ Begun'
  BY JournalFrame, BegunFrame DEF Inv
<1>2. Typed'
  BY DEF Inv, Typed, States, Steps
<1>3. Batched'
  BY DEF Inv, Batched, Resting, Restoring
<1>4. Held'
  BY DEF Inv, Held, Waiting, Answered, Final
<1>5. Handed'
  BY DEF Inv, Handed, Handing
<1>6. Underway'
  BY DEF Inv, Underway, Restoring, Subject
<1>7. Truthful'
  BY DEF Inv, Truthful, Truly, Recorded
<1>8. Apart'
  BY DEF Inv, Batched, Apart, Behind, Answered, Restoring
<1>9. Filed'
  BY DEF Inv, Handed, Filed
<1>10. Found'
  BY DEF Inv, Typed, Found, Handed, Handing, Final
<1> QED BY <1>1, <1>2, <1>3, <1>4, <1>5, <1>6, <1>7, <1>8, <1>9, <1>10 DEF Inv

LEMMA FollowingKeeps ==
  ASSUME Inv, Following
  PROVE  Inv'
<1> USE DEF Following, mailbox, world, people, past, Told
<1>tail. /\ Len(batch) \in Nat /\ Len(batch) >= 1 /\ batch[1] \in Requests
         /\ Tail(batch) \in Seq(Requests) /\ Len(Tail(batch)) = Len(batch) - 1
         /\ Tail(batch) = <<>> <=> Len(batch) = 1
         /\ \A i \in 1..Len(Tail(batch)) : Tail(batch)[i] = batch[i + 1]
  BY HeadTail DEF Inv, Typed, Batched
<1>1. Journal' /\ Begun' /\ Filed' /\ Found'
  BY JournalFrame, BegunFrame, FiledFrame, FoundFrame DEF Inv
<1>2. Typed'
  BY <1>tail DEF Inv, Typed, States, Steps
<1>3. Batched'
  <2>1. \A i, j \in 1..Len(batch') : batch'[i] = batch'[j] => i = j
    BY <1>tail DEF Inv, Batched
  <2>2. CASE Len(batch) > 1
    <3>1. batch' # <<>>
      BY <1>tail, <2>2
    <3> QED BY <2>1, <2>2, <3>1 DEF Batched, Resting
  <2>3. CASE ~(Len(batch) > 1)
    <3>1. batch' = <<>>
      BY <1>tail, <2>3
    <3> QED BY <2>1, <2>3, <3>1 DEF Batched, Restoring
  <2> QED BY <2>2, <2>3
<1>4. Held'
  BY DEF Inv, Held, Batched, Waiting
<1>5. Handed'
  BY DEF Inv, Handed, Handing
<1>6. Underway'
  BY DEF Inv, Underway, Restoring, Subject
<1>7. Truthful'
  BY DEF Inv, Truthful, Truly, Recorded
<1>8. Apart'
  BY DEF Inv, Apart, Behind, Answered
<1> QED BY <1>1, <1>2, <1>3, <1>4, <1>5, <1>6, <1>7, <1>8 DEF Inv

LEMMA RestKeeps ==
  ASSUME Inv, Rest
  PROVE  Inv'
<1> USE DEF Rest, mailbox, people, past
<1>1. Filed' /\ Found'
  BY FiledFrame, FoundFrame DEF Inv
<1>2. Typed'
  BY DEF Inv, Typed, Steps
<1>3. Journal'
  BY Resolved, JournalFrame DEF Inv
<1>4. Begun'
  BY Resolved, BegunFrame DEF Inv
<1>5. Batched'
  BY DEF Inv, Batched, Resting, Restoring
<1>6. Held'
  BY DEF Inv, Held, Waiting, Answered, Handing
<1>7. Handed'
  BY DEF Inv, Handed, Handing
<1>8. Underway'
  BY DEF Inv, Underway, Restoring, Subject
<1>9. Truthful'
  <2>1. CASE Resolve
    <3>1. \A r \in Requests : pending'.req # r
      BY <2>1, RequestsAssumption DEF Resolve, NoPending
    <3> QED BY <2>1, <3>1, Resolved, AnswersStand DEF Inv, Truthful
  <2>2. CASE pending' = pending /\ records' = records
    BY <2>2 DEF Inv, Truthful, Truly, Recorded
  <2> QED BY <2>1, <2>2
<1>10. Apart'
  BY DEF Inv, Apart, Behind, Answered, Restoring, Handing
<1> QED BY <1>1, <1>2, <1>3, <1>4, <1>5, <1>6, <1>7, <1>8, <1>9, <1>10 DEF Inv

LEMMA WakeKeeps ==
  ASSUME Inv, Wake
  PROVE  Inv'
<1> USE DEF Wake, mailbox, world, people, past
<1>1. Journal' /\ Begun' /\ Filed' /\ Found'
  BY JournalFrame, BegunFrame, FiledFrame, FoundFrame DEF Inv
<1>2. Typed'
  BY DEF Inv, Typed, Steps
<1>3. Batched'
  BY DEF Inv, Batched, Resting, Restoring
<1>4. Held'
  BY DEF Inv, Held, Waiting, Answered, Handing
<1>5. Handed'
  BY DEF Inv, Handed, Handing
<1>6. Underway'
  BY DEF Inv, Underway, Restoring, Subject
<1>7. Truthful'
  BY DEF Inv, Truthful, Truly, Recorded
<1>8. Apart'
  BY DEF Inv, Batched, Apart, Behind, Answered, Restoring
<1> QED BY <1>1, <1>2, <1>3, <1>4, <1>5, <1>6, <1>7, <1>8 DEF Inv

LEMMA CrashKeeps ==
  ASSUME Inv, Crash
  PROVE  Inv'
<1> USE DEF Crash, mailbox, world, people, past, Outside
<1>1. Journal' /\ Begun' /\ Filed' /\ Found'
  BY JournalFrame, BegunFrame, FiledFrame, FoundFrame DEF Inv
<1>2. Typed'
  <2>1. batch' \in Seq(Requests) /\ answer' \in States /\ pc' \in Steps
    BY DEF States, Steps
  <2> QED BY <2>1 DEF Inv, Typed
<1>3. Batched'
  BY DEF Inv, Batched, Restoring
<1>4. Held'
  BY DEF Inv, Held
<1>5. Handed'
  BY DEF Inv, Handed, Handing
<1>6. Underway'
  BY DEF Inv, Underway, Subject
<1>7. Truthful'
  BY DEF Inv, Truthful, Truly, Recorded
<1>8. Apart'
  BY DEF Inv, Apart
<1> QED BY <1>1, <1>2, <1>3, <1>4, <1>5, <1>6, <1>7, <1>8 DEF Inv

LEMMA SickenKeeps ==
  ASSUME Inv, Sicken
  PROVE  Inv'
<1> USE DEF Sicken, mailbox, worker, people, past, Outside, Elsewhere
<1>1. Typed' /\ Journal' /\ Begun' /\ Batched' /\ Held' /\ Handed' /\ Underway' /\ Truthful' /\ Apart' /\ Filed' /\ Found'
  BY TypedFrame, JournalFrame, BegunFrame, BatchedFrame, HeldFrame, HandedFrame, UnderwayFrame, TruthfulFrame, ApartFrame, FiledFrame, FoundFrame DEF Inv
<1> QED BY <1>1 DEF Inv

LEMMA HealKeeps ==
  ASSUME Inv, Heal
  PROVE  Inv'
<1> USE DEF Heal, mailbox, worker, people, past, Elsewhere
<1>1. Typed' /\ Journal' /\ Begun' /\ Batched' /\ Held' /\ Handed' /\ Underway' /\ Truthful' /\ Apart' /\ Filed' /\ Found'
  BY TypedFrame, JournalFrame, BegunFrame, BatchedFrame, HeldFrame, HandedFrame, UnderwayFrame, TruthfulFrame, ApartFrame, FiledFrame, FoundFrame DEF Inv
<1> QED BY <1>1 DEF Inv

LEMMA ChangeKeeps ==
  ASSUME Inv, NEW o \in Operations, Change(o)
  PROVE  Inv'
<1> USE DEF Change, mailbox, worker, people, past, Outside, Elsewhere
<1>1. Typed' /\ Journal' /\ Begun' /\ Batched' /\ Held' /\ Handed' /\ Underway' /\ Truthful' /\ Apart' /\ Filed' /\ Found'
  BY TypedFrame, JournalFrame, BegunFrame, BatchedFrame, HeldFrame, HandedFrame, UnderwayFrame, TruthfulFrame, ApartFrame, FiledFrame, FoundFrame DEF Inv
<1> QED BY <1>1 DEF Inv

----------------------------------------------------------------------------
(* The theorems. *)

LEMMA InitInv == Init => Inv
<1> SUFFICES ASSUME Init PROVE Inv
  OBVIOUS
<1> USE DEF Init, Idle, NoPending
<1>1. Typed
  <2>1. /\ request \in [Requests -> Places] /\ inMail \in [Requests -> States]
        /\ inDone \in [Requests -> States]
        /\ client \in [Requests -> {"idle", "posted", "told", "killed"}]
    BY DEF Places, States
  <2>2. pc \in Steps /\ answer \in States /\ batch \in Seq(Requests)
    BY DEF Steps, States
  <2>3. reader \in [req: Requests \cup {NoReq}, at: Polls]
    BY DEF Polls
  <2> QED BY <2>1, <2>2, <2>3 DEF Typed
<1>2. Journal /\ Begun
  <2>1. pending.req = NoReq /\ pending.moved = FALSE
    OBVIOUS
  <2> QED BY <2>1, RequestsAssumption DEF Journal, Begun, Recorded
<1>3. Batched /\ Held /\ Handed /\ Underway /\ Apart
  BY DEF Batched, Held, Handed, Underway, Apart, Handing, Restoring
<1>4. Truthful
  BY DEF Truthful, Truly
<1>5. Filed /\ Found
  BY DEF Filed, Found
<1> QED BY <1>1, <1>2, <1>3, <1>4, <1>5 DEF Inv

LEMMA WorkerKeeps ==
  ASSUME Inv, Worker
  PROVE  Inv'
BY PruneKeeps, PruneResultKeeps, TopKeeps, ScanKeeps, ScannedKeeps, RecoverKeeps,
   ServeKeeps, OpenRestoreKeeps, MoveRestoreKeeps, RecordRestoreKeeps, ClearRestoreKeeps, AnswerKeeps,
   ArchiveKeeps, ArchiveResultKeeps, FollowingKeeps, RestKeeps, WakeKeeps DEF Worker

LEMMA StepKeeps ==
  ASSUME Inv, [Next]_vars
  PROVE  Inv'
<1>1. CASE \E r \in Requests : Post(r) \/ Signal(r) \/ Killed(r) \/ Poll(r)
  BY <1>1, PostKeeps, SignalKeeps, KilledKeeps, PollKeeps
<1>2. CASE Look \/ Restart \/ ServeBlind \/ Crash \/ Sicken \/ Heal
  BY <1>2, LookKeeps, RestartKeeps, ServeBlindKeeps, CrashKeeps, SickenKeeps, HealKeeps
<1>3. CASE \E o \in Operations : Change(o)
  BY <1>3, ChangeKeeps
<1>4. CASE Worker
  BY <1>4, WorkerKeeps
<1>5. CASE UNCHANGED vars
  BY <1>5, TypedFrame, JournalFrame, BegunFrame, BatchedFrame, HeldFrame, HandedFrame, UnderwayFrame,
     TruthfulFrame, ApartFrame, FiledFrame, FoundFrame
     DEF vars, mailbox, world, worker, people, past, Inv
<1> QED BY <1>1, <1>2, <1>3, <1>4, <1>5 DEF Next

\* Every reachable state is one of the invariant: what the journal, the mailbox, the
\* pending record and the worker's place say of a request agrees.
THEOREM InvHolds == Spec => []Inv
BY InitInv, StepKeeps, PTL DEF Spec

\* No operation is restored twice, and no final answer of process_requests is false,
\* wherever the worker was killed and whatever a client did meanwhile.
THEOREM RestoresOnce == Spec => []RestoredOnce
<1>1. ASSUME Inv PROVE RestoredOnce
  <2>1. ASSUME NEW a \in records, NEW b \in records, a[1] = b[1]
        PROVE  a = b
    <3>1. PICK q \in Requests : a = <<About[q], q>>
      BY <1>1 DEF Inv, Journal
    <3>2. PICK r \in Requests : b = <<About[r], r>>
      BY <1>1 DEF Inv, Journal
    <3> QED BY <1>1, <2>1, <3>1, <3>2 DEF Inv, Journal, Recorded
  <2>2. ASSUME NEW r \in Requests
        PROVE  Truly(r, Outcome(r))
    BY <1>1 DEF Inv, Truthful, Outcome
  <2> QED BY <2>1, <2>2 DEF RestoredOnce, Truly, Recorded
<1> QED BY <1>1, InvHolds, PTL

\* A poll without the lock finds every request that has not been pruned, in whatever
\* order the worker moves its two files.
THEOREM PollsFind == Spec => []PollFinds
<1>1. Inv => PollFinds
  BY DEF Inv, Found, PollFinds
<1> QED BY <1>1, InvHolds, PTL
=============================================================================
