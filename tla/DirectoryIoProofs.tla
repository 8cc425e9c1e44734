-------------------------- MODULE DirectoryIoProofs --------------------------
(***************************************************************************)
(* Proofs about DirectoryIo, for every number of threads, tokens and       *)
(* nested or forgotten guards, and every signal mask.                      *)
(***************************************************************************)
EXTENDS DirectoryIo, TLAPS

----------------------------------------------------------------------------
(* The inductive invariant, thread by thread. *)

\* The depth of a record is the number of guards that will be dropped or were
\* forgotten; there is no record before the watchdog runs.
Counted(t) ==
  /\ active[t].depth = guards[t] + leaks[t]
  /\ ~Ready => ~Recorded(t)

\* Where a thread has guards, and where there is room for one more.
Located(t) ==
  /\ place[t] \in {"armed", "checking", "inside", "reading"} => guards[t] > 0
  /\ place[t] \in {"outside", "gone"} => guards[t] = 0
  /\ place[t] = "gone" => leaks[t] = 0
  /\ place[t] = "entering" => guards[t] + leaks[t] < Depth[t]
  /\ place[t] = "leaving" => Recorded(t) /\ (goal[t] # "exit" => guards[t] > 0)
  /\ goal[t] = "exit" => place[t] \in {"leaving", "left"} /\ guards[t] = 0
  /\ goal[t] = "exit" /\ place[t] = "left" => leaks[t] = 0

\* A signal is pending only for a record that the watchdog has marked.
Marked(t) ==
  /\ pending[t] => Recorded(t) /\ active[t].expired
  /\ cut[t] => place[t] = "checking" /\ active[t].expired

\* The thread's own mask is in its record, or else at hand where it returns.
Restorable(t) ==
  /\ Recorded(t) => active[t].mask = own[t]
  /\ ~Recorded(t) /\ place[t] \in {"entering", "left"} => saved[t] = own[t]
  /\ ~Recorded(t) /\ place[t] = "outside" => blocked[t] = own[t]

ThreadInv(t) == Counted(t) /\ Located(t) /\ Marked(t) /\ Restorable(t)
Inv == TypeOK /\ \A t \in Threads : ThreadInv(t)

LEMMA NothingRecorded == NoRecord \in Record /\ NoRecord.depth = 0
BY DEF NoRecord, Record

LEMMA InitInv == Init => Inv
<1> SUFFICES ASSUME Init PROVE Inv
  OBVIOUS
<1>1. TypeOK
  BY NothingRecorded, DepthAssumption
     DEF Init, TypeOK, Watching, Places, Goals
<1>2. ASSUME NEW t \in Threads PROVE ThreadInv(t)
  BY NothingRecorded
     DEF Init, ThreadInv, Counted, Located, Marked, Restorable, Recorded
<1> QED BY <1>1, <1>2 DEF Inv

----------------------------------------------------------------------------
(* What a step may leave alone. *)

\* A thread whose own state is as before is as right as before.
LEMMA OthersKept ==
  ASSUME Inv, NEW u \in Threads,
         active'[u] = active[u], guards'[u] = guards[u], leaks'[u] = leaks[u],
         place'[u] = place[u], goal'[u] = goal[u], pending'[u] = pending[u],
         cut'[u] = cut[u], own'[u] = own[u], saved'[u] = saved[u],
         blocked'[u] = blocked[u], Ready => Ready'
  PROVE  ThreadInv(u)'
BY DEF Inv, ThreadInv, Counted, Located, Marked, Restorable, Recorded

\* A notification neither starts nor ends the watchdog.
LEMMA NotifyKeeps ==
  ASSUME watchdog \in Watching, NotifyAll
  PROVE  watchdog' \in Watching /\ (Ready' <=> Ready)
BY DEF NotifyAll, Watching, Ready

----------------------------------------------------------------------------
(* One lemma per action. *)

\* The changes a step makes to a record leave a record.
LEMMA RecordKept ==
  ASSUME NEW r \in Record
  PROVE  /\ [r EXCEPT !.expired = TRUE] \in Record
         /\ [r EXCEPT !.due = TRUE] \in Record
         /\ [r EXCEPT !.expired = TRUE, !.due = FALSE] \in Record
         /\ \A d \in Nat : [r EXCEPT !.depth = d] \in Record
BY DEF Record

LEMMA BeginKeeps ==
  ASSUME Inv, NEW t \in Threads, Begin(t)
  PROVE  Inv'
<1> USE DEF Begin, Go, shared, masks, Masked
<1>1. TypeOK'
  BY DepthAssumption DEF Inv, TypeOK, Places, Goals, Record
<1>2. ThreadInv(t)'
  BY DepthAssumption
     DEF Inv, TypeOK, ThreadInv, Counted, Located, Marked, Restorable, Recorded, Ready, Record
<1>3. ASSUME NEW u \in Threads, u # t PROVE ThreadInv(u)'
  BY <1>3, OthersKept DEF Inv, TypeOK, Ready
<1> QED BY <1>1, <1>2, <1>3 DEF Inv

LEMMA StartRuntimeKeeps ==
  ASSUME Inv, NEW t \in Threads, StartRuntime(t)
  PROVE  Inv'
<1> USE DEF StartRuntime, Go, shared, masks, Watching
<1>1. TypeOK'
  BY DepthAssumption DEF Inv, TypeOK, Places, Goals, Record
<1>2. ThreadInv(t)'
  BY DepthAssumption
     DEF Inv, TypeOK, ThreadInv, Counted, Located, Marked, Restorable, Recorded, Ready, Record
<1>3. ASSUME NEW u \in Threads, u # t PROVE ThreadInv(u)'
  BY <1>3, OthersKept DEF Inv, TypeOK, Ready
<1> QED BY <1>1, <1>2, <1>3 DEF Inv

LEMMA RefuseKeeps ==
  ASSUME Inv, NEW t \in Threads, Refuse(t)
  PROVE  Inv'
<1> USE DEF Refuse, Go, shared, masks, Unmasked
<1>1. ~Recorded(t) /\ guards[t] = 0
  <2>1. active[t].depth \in Nat /\ guards[t] \in Nat /\ leaks[t] \in Nat
    BY DEF Inv, TypeOK, Record
  <2>2. ~Recorded(t) /\ active[t].depth = guards[t] + leaks[t]
    BY DEF Inv, ThreadInv, Counted, Ready
  <2> QED BY <2>1, <2>2 DEF Recorded
<1>2. TypeOK'
  BY DEF Inv, TypeOK, Places, Goals
<1>3. ThreadInv(t)'
  BY <1>1 DEF Inv, TypeOK, ThreadInv, Counted, Located, Marked, Restorable, Recorded, Ready
<1>4. ASSUME NEW u \in Threads, u # t PROVE ThreadInv(u)'
  BY <1>4, OthersKept DEF Inv, TypeOK, Ready
<1> QED BY <1>2, <1>3, <1>4 DEF Inv

LEMMA InsertKeeps ==
  ASSUME Inv, NEW t \in Threads, Insert(t)
  PROVE  Inv'
<1> USE DEF Insert, Go, shared, masks
<1>1. active[t] \in Record /\ active[t].depth = guards[t] + leaks[t]
      /\ guards[t] + leaks[t] < Depth[t] /\ guards[t] \in Nat /\ leaks[t] \in Nat
  BY DEF Inv, TypeOK, ThreadInv, Counted, Located
<1>2. /\ Armed(t) \in Record /\ Armed(t).depth = active[t].depth + 1
      /\ Armed(t).mask = IF Recorded(t) THEN active[t].mask ELSE saved[t]
      /\ Recorded(t) => Armed(t).expired = active[t].expired
  <2>1. CASE Recorded(t)
    BY <1>1, <2>1 DEF Armed, Record
  <2>2. CASE ~Recorded(t)
    <3>1. active[t].depth = 0 /\ scope[t] \in Tokens \cup {NoToken} /\ saved[t] \in BOOLEAN
      BY <1>1, <2>2 DEF Inv, TypeOK, Recorded, Record
    <3>2. Armed(t) = [depth |-> 1, token |-> scope[t], mask |-> saved[t],
                      expired |-> FALSE, due |-> FALSE]
      BY <2>2 DEF Armed, NoRecord
    <3>3. Armed(t) \in Record /\ Armed(t).depth = active[t].depth + 1
      BY <3>1, <3>2 DEF Record
    <3>4. Armed(t).mask = saved[t]
      BY <3>2
    <3> QED BY <2>2, <3>3, <3>4
  <2> QED BY <2>1, <2>2
<1>3. active'[t] = Armed(t) /\ active' \in [Threads -> Record]
  BY <1>2 DEF Inv, TypeOK
<1>4. TypeOK'
  <2>1. \A u \in Threads : active'[u].depth <= Depth[u]
    BY <1>1, <1>2, <1>3, DepthAssumption DEF Inv, TypeOK, Record
  <2> QED BY <2>1, <1>3 DEF Inv, TypeOK, Places, Goals
<1>5. ThreadInv(t)'
  BY <1>1, <1>2, <1>3
     DEF Inv, TypeOK, ThreadInv, Counted, Located, Marked, Restorable, Recorded, Ready
<1>6. ASSUME NEW u \in Threads, u # t PROVE ThreadInv(u)'
  BY <1>6, OthersKept DEF Inv, TypeOK, Ready
<1> QED BY <1>4, <1>5, <1>6 DEF Inv

LEMMA AnnounceKeeps ==
  ASSUME Inv, NEW t \in Threads, Announce(t)
  PROVE  Inv'
<1> USE DEF Announce, Go, shared, masks
<1>1. watchdog' \in Watching /\ (Ready' <=> Ready)
  BY NotifyKeeps DEF Inv, TypeOK
<1>2. TypeOK'
  BY <1>1, DepthAssumption DEF Inv, TypeOK, Places, Goals, Record
<1>3. ThreadInv(t)'
  BY <1>1, DepthAssumption
     DEF Inv, TypeOK, ThreadInv, Counted, Located, Marked, Restorable, Recorded, Record
<1>4. ASSUME NEW u \in Threads, u # t PROVE ThreadInv(u)'
  BY <1>1, <1>4, OthersKept DEF Inv, TypeOK
<1> QED BY <1>2, <1>3, <1>4 DEF Inv

LEMMA UpdateKeeps ==
  ASSUME Inv, NEW t \in Threads, Update(t)
  PROVE  Inv'
<1> USE DEF Update, Go, shared, masks
<1>1. watchdog' \in Watching /\ (Ready' <=> Ready)
  BY NotifyKeeps DEF Inv, TypeOK, Ready
<1>2. /\ active' \in [Threads -> Record]
      /\ \A u \in Threads : u # t => active'[u] = active[u]
      /\ active'[t].depth = active[t].depth /\ active'[t].mask = active[t].mask
      /\ active[t].expired => active'[t].expired
  <2>1. CASE active' = [active EXCEPT ![t].expired = TRUE]
    <3>1. active[t] \in Record /\ active'[t] = [active[t] EXCEPT !.expired = TRUE]
      BY <2>1 DEF Inv, TypeOK
    <3>2. active'[t] \in Record /\ active'[t].depth = active[t].depth
          /\ active'[t].mask = active[t].mask /\ active'[t].expired
      BY <3>1 DEF Record
    <3> QED BY <2>1, <3>2 DEF Inv, TypeOK
  <2>2. CASE UNCHANGED active
    BY <2>2 DEF Inv, TypeOK
  <2> QED BY <2>1, <2>2
<1>3. goal' \in [Threads -> Goals] /\ goal'[t] # "exit"
      /\ \A u \in Threads : u # t => goal'[u] = goal[u]
  BY DEF Inv, TypeOK, Goals
<1>4. TypeOK'
  <2>1. \A u \in Threads : active'[u].depth <= Depth[u]
    BY <1>2 DEF Inv, TypeOK
  <2> QED BY <1>1, <1>2, <1>3, <2>1 DEF Inv, TypeOK, Places
<1>5. ThreadInv(t)'
  BY <1>1, <1>2, <1>3
     DEF Inv, TypeOK, ThreadInv, Counted, Located, Marked, Restorable, Recorded
<1>6. ASSUME NEW u \in Threads, u # t PROVE ThreadInv(u)'
  BY <1>1, <1>2, <1>3, <1>6, OthersKept DEF Inv, TypeOK
<1> QED BY <1>4, <1>5, <1>6 DEF Inv

LEMMA ReadKeeps ==
  ASSUME Inv, NEW t \in Threads, Read(t)
  PROVE  Inv'
<1> USE DEF Read, Go, shared, masks
<1>1. TypeOK'
  BY DepthAssumption DEF Inv, TypeOK, Places, Goals, Record
<1>2. ThreadInv(t)'
  BY DepthAssumption
     DEF Inv, TypeOK, ThreadInv, Counted, Located, Marked, Restorable, Recorded, Ready, Record
<1>3. ASSUME NEW u \in Threads, u # t PROVE ThreadInv(u)'
  BY <1>3, OthersKept DEF Inv, TypeOK, Ready
<1> QED BY <1>1, <1>2, <1>3 DEF Inv

LEMMA AnswerKeeps ==
  ASSUME Inv, NEW t \in Threads, Answer(t)
  PROVE  Inv'
<1> USE DEF Answer, Go, shared, masks
<1>1. TypeOK'
  BY DepthAssumption DEF Inv, TypeOK, Places, Goals, Record
<1>2. ThreadInv(t)'
  BY DepthAssumption
     DEF Inv, TypeOK, ThreadInv, Counted, Located, Marked, Restorable, Recorded, Ready, Record
<1>3. ASSUME NEW u \in Threads, u # t PROVE ThreadInv(u)'
  BY <1>3, OthersKept DEF Inv, TypeOK, Ready
<1> QED BY <1>1, <1>2, <1>3 DEF Inv

LEMMA DeliverKeeps ==
  ASSUME Inv, NEW t \in Threads, Deliver(t)
  PROVE  Inv'
<1> USE DEF Deliver, Go, shared, masks
<1>1. TypeOK'
  BY DepthAssumption DEF Inv, TypeOK, Places, Goals, Record
<1>2. ThreadInv(t)'
  BY DepthAssumption
     DEF Inv, TypeOK, ThreadInv, Counted, Located, Marked, Restorable, Recorded, Ready, Record
<1>3. ASSUME NEW u \in Threads, u # t PROVE ThreadInv(u)'
  BY <1>3, OthersKept DEF Inv, TypeOK, Ready
<1> QED BY <1>1, <1>2, <1>3 DEF Inv

LEMMA ForgetKeeps ==
  ASSUME Inv, NEW t \in Threads, Forget(t)
  PROVE  Inv'
<1> USE DEF Forget, Go, shared, masks
<1>1. guards[t] \in Nat /\ guards[t] > 0 /\ leaks[t] \in Nat
      /\ active[t].depth = guards[t] + leaks[t]
  BY DEF Inv, TypeOK, ThreadInv, Counted, Located
<1>2. guards' \in [Threads -> Nat] /\ leaks' \in [Threads -> Nat]
      /\ guards'[t] = guards[t] - 1 /\ leaks'[t] = leaks[t] + 1
  BY <1>1 DEF Inv, TypeOK
<1>3. TypeOK'
  BY <1>2 DEF Inv, TypeOK, Places
<1>4. ThreadInv(t)'
  <2>1. place'[t] = (IF guards[t] = 1 THEN "outside" ELSE "inside")
    BY DEF Inv, TypeOK
  <2>2. Counted(t)'
    BY <1>1, <1>2 DEF Inv, ThreadInv, Counted, Recorded, Ready
  <2>4. Located(t)'
    BY <1>1, <1>2, <2>1 DEF Inv, ThreadInv, Located
  <2>3. Marked(t)' /\ Restorable(t)'
    BY <1>1, <2>1 DEF Inv, TypeOK, ThreadInv, Marked, Restorable, Recorded
  <2> QED BY <2>2, <2>4, <2>3 DEF ThreadInv
<1>5. ASSUME NEW u \in Threads, u # t PROVE ThreadInv(u)'
  BY <1>5, OthersKept DEF Inv, TypeOK, Ready
<1> QED BY <1>3, <1>4, <1>5 DEF Inv

LEMMA LeaveKeeps ==
  ASSUME Inv, NEW t \in Threads, Leave(t)
  PROVE  Inv'
<1> USE DEF Leave, Go, shared, masks, Leaving, Masked
<1>1. TypeOK'
  BY DepthAssumption DEF Inv, TypeOK, Places, Goals, Record
<1>2. ThreadInv(t)'
  BY DepthAssumption
     DEF Inv, TypeOK, ThreadInv, Counted, Located, Marked, Restorable, Recorded, Ready, Record
<1>3. ASSUME NEW u \in Threads, u # t PROVE ThreadInv(u)'
  BY <1>3, OthersKept DEF Inv, TypeOK, Ready
<1> QED BY <1>1, <1>2, <1>3 DEF Inv

LEMMA ExitKeeps ==
  ASSUME Inv, NEW t \in Threads, Exit(t)
  PROVE  Inv'
<1> USE DEF Exit, Go, shared, masks, Leaving, Masked
<1>1. TypeOK'
  BY DepthAssumption DEF Inv, TypeOK, Places, Goals, Record
<1>2. ThreadInv(t)'
  BY DepthAssumption
     DEF Inv, TypeOK, ThreadInv, Counted, Located, Marked, Restorable, Recorded, Ready, Record
<1>3. ASSUME NEW u \in Threads, u # t PROVE ThreadInv(u)'
  BY <1>3, OthersKept DEF Inv, TypeOK, Ready
<1> QED BY <1>1, <1>2, <1>3 DEF Inv

LEMMA FinishKeeps ==
  ASSUME Inv, NEW t \in Threads, Finish(t)
  PROVE  Inv'
<1> USE DEF Finish, Go, shared, masks
<1>1. /\ active[t] \in Record /\ guards[t] \in Nat /\ leaks[t] \in Nat
      /\ active[t].depth = guards[t] + leaks[t] /\ active[t].depth > 0
      /\ goal[t] # "exit" => guards[t] > 0
      /\ goal[t] = "exit" => guards[t] = 0
      /\ active[t].mask = own[t] /\ ~cut[t] /\ active[t].depth <= Depth[t]
  BY DEF Inv, TypeOK, ThreadInv, Counted, Located, Marked, Restorable, Recorded
<1>2. /\ guards' \in [Threads -> Nat] /\ leaks' \in [Threads -> Nat]
      /\ guards'[t] = IF goal[t] = "exit" THEN 0 ELSE guards[t] - 1
      /\ leaks'[t] = IF goal[t] = "exit" THEN 0 ELSE leaks[t]
  BY <1>1 DEF Inv, TypeOK
<1>3. Remaining(t) = guards'[t] + leaks'[t] /\ Remaining(t) \in Nat
      /\ Remaining(t) <= active[t].depth
  BY <1>1, <1>2 DEF Remaining, Record
<1>4. /\ active' \in [Threads -> Record]
      /\ active'[t].depth = Remaining(t)
      /\ \A u \in Threads : u # t => active'[u] = active[u]
      /\ Remaining(t) > 0 => /\ active'[t].mask = own[t]
                             /\ active'[t].expired = active[t].expired
  <2>1. CASE active' = [active EXCEPT ![t].depth = Remaining(t)] /\ Remaining(t) > 0
    <3>1. [active[t] EXCEPT !.depth = Remaining(t)] \in Record
      BY <1>1, <1>3, RecordKept
    <3> QED BY <1>1, <2>1, <3>1 DEF Inv, TypeOK, Record
  <2>2. CASE active' = [active EXCEPT ![t] = NoRecord] /\ Remaining(t) = 0
    BY <2>2, NothingRecorded DEF Inv, TypeOK
  <2> QED BY <2>1, <2>2
<1>5. /\ saved' \in [Threads -> BOOLEAN] /\ pending' \in [Threads -> BOOLEAN]
      /\ \A u \in Threads : u # t => saved'[u] = saved[u] /\ pending'[u] = pending[u]
      /\ Remaining(t) = 0 => saved'[t] = own[t] /\ ~pending'[t]
      /\ Remaining(t) > 0 => pending'[t] = pending[t]
  <2>1. active[t].mask \in BOOLEAN /\ saved[t] \in BOOLEAN
    BY <1>1 DEF Inv, TypeOK, Record
  <2>2. CASE Remaining(t) > 0
    BY <1>3, <2>2 DEF Inv, TypeOK
  <2>3. CASE Remaining(t) = 0
    <3>1. saved' = [saved EXCEPT ![t] = active[t].mask] /\ pending' = [pending EXCEPT ![t] = FALSE]
      BY <2>3 DEF Drained
    <3> QED BY <1>1, <2>1, <2>3, <3>1 DEF Inv, TypeOK
  <2> QED BY <1>3, <2>2, <2>3
<1>6. TypeOK'
  <2>1. \A u \in Threads : active'[u].depth <= Depth[u]
    <3>1. \A u \in Threads : u # t => active'[u].depth <= Depth[u]
      BY <1>4 DEF Inv, TypeOK
    <3>2. active'[t].depth <= Depth[t]
      BY <1>1, <1>3, <1>4, DepthAssumption DEF Record
    <3> QED BY <3>1, <3>2
  <2> QED BY <1>2, <1>4, <1>5, <2>1 DEF Inv, TypeOK, Places
<1>7. ThreadInv(t)'
  <2>1. Counted(t)' /\ Located(t)'
    BY <1>1, <1>2, <1>3, <1>4
       DEF Inv, TypeOK, ThreadInv, Counted, Located, Recorded, Ready
  <2>2. Marked(t)' /\ Restorable(t)'
    BY <1>1, <1>3, <1>4, <1>5
       DEF Inv, TypeOK, ThreadInv, Marked, Restorable, Recorded
  <2> QED BY <2>1, <2>2 DEF ThreadInv
<1>8. ASSUME NEW u \in Threads, u # t PROVE ThreadInv(u)'
  BY <1>4, <1>5, <1>8, OthersKept DEF Inv, TypeOK, Ready
<1> QED BY <1>6, <1>7, <1>8 DEF Inv

LEMMA RestoreKeeps ==
  ASSUME Inv, NEW t \in Threads, Restore(t)
  PROVE  Inv'
<1> USE DEF Restore, Go, shared, masks, Unmasked
<1>1. watchdog' \in Watching /\ (Ready' <=> Ready)
  BY NotifyKeeps DEF Inv, TypeOK
<1>2. TypeOK'
  BY <1>1, DepthAssumption DEF Inv, TypeOK, Places, Goals, Record
<1>3. ThreadInv(t)'
  BY <1>1, DepthAssumption
     DEF Inv, TypeOK, ThreadInv, Counted, Located, Marked, Restorable, Recorded, Record
<1>4. ASSUME NEW u \in Threads, u # t PROVE ThreadInv(u)'
  BY <1>1, <1>4, OthersKept DEF Inv, TypeOK
<1> QED BY <1>2, <1>3, <1>4 DEF Inv

LEMMA OpenScopeKeeps ==
  ASSUME Inv, NEW t \in Threads, OpenScope(t)
  PROVE  Inv'
<1> USE DEF OpenScope, Go, shared, masks
<1>1. TypeOK'
  BY DepthAssumption DEF Inv, TypeOK, Places, Goals, Record
<1>2. ThreadInv(t)'
  BY DepthAssumption
     DEF Inv, TypeOK, ThreadInv, Counted, Located, Marked, Restorable, Recorded, Ready, Record
<1>3. ASSUME NEW u \in Threads, u # t PROVE ThreadInv(u)'
  BY <1>3, OthersKept DEF Inv, TypeOK, Ready
<1> QED BY <1>1, <1>2, <1>3 DEF Inv

LEMMA CloseScopeKeeps ==
  ASSUME Inv, NEW t \in Threads, CloseScope(t)
  PROVE  Inv'
<1> USE DEF CloseScope, Go, shared, masks
<1>1. TypeOK'
  BY DepthAssumption DEF Inv, TypeOK, Places, Goals, Record
<1>2. ThreadInv(t)'
  BY DepthAssumption
     DEF Inv, TypeOK, ThreadInv, Counted, Located, Marked, Restorable, Recorded, Ready, Record
<1>3. ASSUME NEW u \in Threads, u # t PROVE ThreadInv(u)'
  BY <1>3, OthersKept DEF Inv, TypeOK, Ready
<1> QED BY <1>1, <1>2, <1>3 DEF Inv

LEMMA SpawnKeeps ==
  ASSUME Inv, NEW t \in Threads, Spawn(t)
  PROVE  Inv'
<1> USE DEF Spawn, Go, shared, masks
<1>1. PICK m \in Masks[t] : own' = [own EXCEPT ![t] = m] /\ blocked' = [blocked EXCEPT ![t] = m]
  OBVIOUS
<1>2. m \in BOOLEAN
  BY <1>1, MaskAssumption
<1>3. own' \in [Threads -> BOOLEAN] /\ blocked' \in [Threads -> BOOLEAN]
  BY <1>1, <1>2 DEF Inv, TypeOK
<1>4. TypeOK'
  BY <1>3 DEF Inv, TypeOK, Places
<1>5. ~Recorded(t) /\ guards[t] = 0
  BY DEF Inv, TypeOK, ThreadInv, Counted, Located, Recorded, Record
<1>6. own'[t] = m /\ blocked'[t] = m
  BY <1>1 DEF Inv, TypeOK
<1>7. ThreadInv(t)'
  BY <1>5, <1>6
     DEF Inv, TypeOK, ThreadInv, Counted, Located, Marked, Restorable, Recorded, Ready
<1>8. ASSUME NEW u \in Threads, u # t PROVE ThreadInv(u)'
  BY <1>1, <1>8, OthersKept DEF Inv, TypeOK, Ready
<1> QED BY <1>4, <1>7, <1>8 DEF Inv

LEMMA ElapseKeeps ==
  ASSUME Inv, NEW t \in Threads, Elapse(t)
  PROVE  Inv'
<1> USE DEF Elapse, Local, shared, masks
<1>1. /\ active' \in [Threads -> Record]
      /\ \A u \in Threads : u # t => active'[u] = active[u]
      /\ active'[t].depth = active[t].depth /\ active'[t].mask = active[t].mask
      /\ active'[t].expired = active[t].expired
  <2>1. active[t] \in Record /\ active'[t] = [active[t] EXCEPT !.due = TRUE]
    BY DEF Inv, TypeOK
  <2>2. active'[t] \in Record /\ active'[t].depth = active[t].depth
        /\ active'[t].mask = active[t].mask /\ active'[t].expired = active[t].expired
    <3>1. active'[t] \in Record
      BY <2>1, RecordKept
    <3>2. active'[t].depth = active[t].depth /\ active'[t].mask = active[t].mask
          /\ active'[t].expired = active[t].expired
      BY <2>1, Zenon DEF Record
    <3> QED BY <3>1, <3>2
  <2> QED BY <2>2 DEF Inv, TypeOK
<1>2. TypeOK'
  <2>1. \A u \in Threads : active'[u].depth <= Depth[u]
    BY <1>1 DEF Inv, TypeOK
  <2> QED BY <1>1, <2>1 DEF Inv, TypeOK
<1>3. ThreadInv(t)'
  BY <1>1 DEF Inv, ThreadInv, Counted, Located, Marked, Restorable, Recorded, Ready
<1>4. ASSUME NEW u \in Threads, u # t PROVE ThreadInv(u)'
  BY <1>1, <1>4, OthersKept DEF Inv, TypeOK, Ready
<1> QED BY <1>2, <1>3, <1>4 DEF Inv

\* Cancelling, and the watchdog's own steps that leave every thread alone.
LEMMA QuietKeeps ==
  ASSUME Inv, UNCHANGED <<active, pending>>, Local, Ready => Ready',
         watchdog' \in Watching, cancelled' \in SUBSET Tokens, notices' \in SUBSET Tokens
  PROVE  Inv'
<1>1. TypeOK'
  BY DEF Inv, TypeOK, Local, masks
<1>2. ASSUME NEW u \in Threads PROVE ThreadInv(u)'
  BY OthersKept DEF Inv, Local, masks
<1> QED BY <1>1, <1>2 DEF Inv

LEMMA CancelKeeps ==
  ASSUME Inv, NEW k \in Tokens, Cancel(k) \/ NotifyCancellation(k)
  PROVE  Inv'
<1>1. watchdog' \in Watching /\ (Ready' <=> Ready)
  BY NotifyKeeps DEF Inv, TypeOK, Cancel, NotifyCancellation, Ready
<1>2. cancelled' \in SUBSET Tokens /\ notices' \in SUBSET Tokens
  BY DEF Inv, TypeOK, Cancel, NotifyCancellation
<1> QED BY <1>1, <1>2, QuietKeeps DEF Cancel, NotifyCancellation

LEMMA RestKeeps ==
  ASSUME Inv, Wake \/ Sleep
  PROVE  Inv'
<1>1. watchdog' \in Watching /\ Ready'
  BY DEF Wake, Sleep, Watching, Ready
<1>2. cancelled' \in SUBSET Tokens /\ notices' \in SUBSET Tokens
  BY DEF Inv, TypeOK, Wake, Sleep
<1> QED BY <1>1, <1>2, QuietKeeps DEF Wake, Sleep

\* The watchdog marks the records of all threads it signals.
LEMMA ScanKeeps ==
  ASSUME Inv, Scan
  PROVE  Inv'
<1> USE DEF Scan, Local, masks
<1>1. ASSUME NEW u \in Threads
      PROVE  /\ active'[u] \in Record
             /\ active'[u].depth = active[u].depth /\ active'[u].mask = active[u].mask
             /\ active[u].expired \/ Target(u) => active'[u].expired
             /\ pending'[u] = (pending[u] \/ Target(u))
  <2>1. active'[u] = IF Target(u) THEN [active[u] EXCEPT !.expired = TRUE, !.due = FALSE]
                     ELSE active[u]
    OBVIOUS
  <2>2. active[u] \in Record
    BY DEF Inv, TypeOK
  <2> QED BY <2>1, <2>2, RecordKept DEF Record
<1>2. TypeOK'
  <2>1. active' \in [Threads -> Record] /\ \A u \in Threads : active'[u].depth <= Depth[u]
    BY <1>1 DEF Inv, TypeOK
  <2>2. pending' \in [Threads -> BOOLEAN]
    BY Zenon DEF Inv, TypeOK, Target
  <2> QED BY <2>1, <2>2 DEF Inv, TypeOK, Watching
<1>3. ASSUME NEW u \in Threads PROVE ThreadInv(u)'
  BY <1>1 DEF Inv, ThreadInv, Counted, Located, Marked, Restorable, Recorded, Ready, Target
<1> QED BY <1>2, <1>3 DEF Inv


----------------------------------------------------------------------------
(* Theorems. *)

LEMMA StepKeeps == Inv /\ [Next]_vars => Inv'
<1> SUFFICES ASSUME Inv, [Next]_vars PROVE Inv'
  OBVIOUS
<1>1. ASSUME NEW t \in Threads, Run(t) PROVE Inv'
  BY <1>1, BeginKeeps, StartRuntimeKeeps, RefuseKeeps, InsertKeeps, AnnounceKeeps,
     UpdateKeeps, ReadKeeps, LeaveKeeps, FinishKeeps, RestoreKeeps DEF Run
<1>2. ASSUME NEW t \in Threads, Other(t) PROVE Inv'
  BY <1>2, BeginKeeps, AnswerKeeps, ForgetKeeps, ExitKeeps, SpawnKeeps,
     OpenScopeKeeps, CloseScopeKeeps DEF Other
<1>3. CASE UNCHANGED vars
  <2>1. Local /\ UNCHANGED <<active, pending>> /\ UNCHANGED <<watchdog, cancelled, notices>>
    BY <1>3 DEF vars, shared, masks, Local
  <2>2. /\ watchdog' \in Watching /\ (Ready => Ready')
        /\ cancelled' \in SUBSET Tokens /\ notices' \in SUBSET Tokens
    BY <2>1 DEF Inv, TypeOK, Ready
  <2> QED BY <2>1, <2>2, QuietKeeps
<1> QED
  BY <1>1, <1>2, <1>3, DeliverKeeps, ElapseKeeps, CancelKeeps, RestKeeps, ScanKeeps DEF Next

\* The inductive invariant holds of every state of the guards and the watchdog.
THEOREM InvHolds == Spec => []Inv
BY InitInv, StepKeeps, PTL DEF Spec

\* Every variable has its type, and no thread has more guards than it may.
THEOREM DirectoryTypeCorrect == Spec => []TypeOK
<1>1. Inv => TypeOK
  BY DEF Inv
<1> QED BY <1>1, InvHolds, PTL

\* A record goes, and what is pending with it, before its thread leaves its
\* guards: no signal waits for a thread that is outside.
THEOREM SignalsAreConfined == Spec => []SignalsConfined
<1>1. Inv => SignalsConfined
  <2> SUFFICES ASSUME Inv, NEW t \in Threads, pending[t]
               PROVE  Recorded(t) /\ (place[t] = "outside" => leaks[t] > 0)
    BY DEF SignalsConfined
  <2>1. Recorded(t)
    BY DEF Inv, ThreadInv, Marked
  <2>2. ASSUME place[t] = "outside" PROVE leaks[t] > 0
    BY <2>1, <2>2 DEF Inv, TypeOK, ThreadInv, Counted, Located, Recorded
  <2> QED BY <2>1, <2>2
<1> QED BY <1>1, InvHolds, PTL

\* The clean-up at the end of a thread removes what forgotten guards left.
THEOREM DeadThreadsAreNoTargets == Spec => []NoDeadTarget
<1>1. Inv => NoDeadTarget
  <2> SUFFICES ASSUME Inv, NEW t \in Threads, place[t] = "gone"
               PROVE  ~Recorded(t) /\ ~pending[t]
    BY DEF NoDeadTarget
  <2>1. ~Recorded(t)
    BY DEF Inv, TypeOK, ThreadInv, Counted, Located, Recorded
  <2> QED BY <2>1 DEF Inv, ThreadInv, Marked
<1> QED BY <1>1, InvHolds, PTL

\* The mask is kept by the record of the outermost guard alone.
THEOREM MasksAreRestored == Spec => []MaskRestored
<1>1. Inv => MaskRestored
  <2> SUFFICES ASSUME Inv, NEW t \in Threads, place[t] = "outside", leaks[t] = 0
               PROVE  blocked[t] = own[t]
    BY DEF MaskRestored
  <2>1. ~Recorded(t)
    BY DEF Inv, TypeOK, ThreadInv, Counted, Located, Recorded
  <2> QED BY <2>1 DEF Inv, ThreadInv, Restorable
<1> QED BY <1>1, InvHolds, PTL

\* The watchdog marks a record before it signals, and only the end of the
\* outermost guard forgets the mark.
THEOREM InterruptionsExpire == Spec => []InterruptedIsExpired
<1>1. Inv => InterruptedIsExpired
  BY DEF Inv, ThreadInv, Marked, InterruptedIsExpired
<1> QED BY <1>1, InvHolds, PTL
=============================================================================
