--------------------------- MODULE SyntheticFeeder ----------------------------
(***************************************************************************)
(* The synthetic feeder (feeders/inst/synthetic) with synchronization on:  *)
(* THREAD_MGMT_CLASS feeds every thread a spin-lock routine, and lets the  *)
(* memory value model decide who gets the lock.  The outcome of a load or  *)
(* compare-exchange is kept by iteration number (SYNCH_STATUS_CLASS) and   *)
(* steers the conditional branch fetched after it.                         *)
(*                                                                         *)
(* External: the performance model.  It fetches along predicted paths,     *)
(* squashes with Kill, executes in order, semaphores at the head of its    *)
(* pipe, holds the lock's cache line from a semaphore's read to its write, *)
(* writes a store once it cannot be squashed, commits in order and drops   *)
(* no-ops without a call.                                                  *)
(***************************************************************************)
EXTENDS MemoryValues, FiniteSetsExt

CONSTANTS
    Window,          \* bound: instructions of a thread in flight
    History,         \* SYNCH_STATUS_HISTORY
    Wraps,           \* may a thread use up the iterations, and start over
    WrongPathLimit,  \* WRONG_PATH_LIMIT
    NumToCommit,     \* getSynth_Num_Instr_To_Commit, by thread; 0 for no limit
    MaxTraps,        \* bound: traps
    MaxLocal         \* bound: locally visible stores of one thread

ASSUME FeederAssumption ==
    /\ {Window, History, WrongPathLimit} \subseteq Nat \ {0}
    /\ Wraps \in BOOLEAN
    /\ NumToCommit \in [Cpus -> Nat]
    /\ {MaxTraps, MaxLocal} \subseteq Nat
    /\ CellBytes >= 4 /\ 1 \in Values         \* the cell holds the word of the lock

Threads == Cpus

\* make_synchronization_routine: test the lock, take it, release it, start
\* over.  The compares, the delays and all no-ops but one are left out: the
\* feeder treats them like the no-op, but for their commit.
Routine == <<"load", "nop", "cbranch", "cmpxchg", "cbranch", "store", "branch">>

Start == 1
Outside == Len(Routine) + 1       \* any address that is not in_range
Pcs == 0 .. Outside
Tests == {"load", "cmpxchg"}
Branches == {"jump", "cbranch", "branch"}

\* The lock: two bytes at address 0, and get_value32 looks at four.
LockAddr == 0
LockSize == 2
LockIsFree(val) == \A b \in Element(LockAddr, 4) : val[b] = 0

Uids == Nat \ {0}
Unreachable == 0                  \* pointer to a memop that nothing keeps
Fresh == -1                       \* pointer to a memop just made

VARIABLES
    cell,        \* the memory value model's MEM_CELL of the lock
    memopMap,    \* asim_inst_to_memop_map: uids with a memop
    issued,      \* issued lists: uid, type and iteration
    iteration,   \* SYNCH_STATUS_CLASS::iteration
    status,      \* SYNCH_STATUS_CLASS::array
    needJump,    \* needJumpToNextPC
    wrongPath,   \* calls of Fetch since the last one on the path
    committed,   \* num_committed_inst of a thread with a limit
    ended,       \* ThreadEnd has been called
    error,       \* an ASIMERROR, ASSERT, assert or exit has been reached
    pipe,        \* performance model: the instructions in flight, oldest first
    fetchPc,     \* where it fetches next
    senior,      \* its committed stores that are still to be written
    owner,       \* the threads that hold the lock's line exclusively
    traps,
    holds,       \* history: has the thread written the lock and not released it
    lastTest     \* history: what the last test the thread committed found

feeder == <<memopMap, issued, iteration, status, needJump, wrongPath, committed, ended>>
model == <<pipe, fetchPc, senior, owner, traps, lastTest>>
vars == <<cell, feeder, error, model, holds>>

Statuses == {"invalid", "entering", "blocked"}
NoPc == -1

TypeOK ==
    /\ cell.global \in Words /\ cell.has \subseteq Bytes
    /\ memopMap \in [Threads -> SUBSET Uids]
    /\ \A t \in Threads :
         /\ Len(cell.local[t]) <= MaxLocal
         /\ issued[t] \in Seq([uid : Uids, kind : Tests \cup Branches \cup {"nop", "store"},
                               iter : 0 .. History - 1])
         /\ pipe[t] \in Seq([uid : Uids, pc : Pcs, next : Pcs, actual : Pcs \cup {NoPc},
                             kind : Tests \cup Branches \cup {"nop", "store", "junk"},
                             found : Statuses, spec : BOOLEAN, wrote : BOOLEAN])
         /\ senior[t] \in SUBSET [uid : Uids, spec : BOOLEAN]
    /\ iteration \in [Threads -> 0 .. History - 1]
    /\ status \in [Threads -> [0 .. History - 1 -> Statuses]]
    /\ {needJump, ended, holds} \subseteq [Threads -> BOOLEAN]
    /\ wrongPath \in [Threads -> 0 .. WrongPathLimit]
    /\ committed \in [Threads -> Nat]
    /\ error \in {"none", "wrongPath", "issue", "commit", "iteration", "emptied"}
    /\ fetchPc \in [Threads -> Pcs]
    /\ owner \subseteq Threads
    /\ traps \in 0 .. MaxTraps
    /\ lastTest \in [Threads -> Statuses]

Init ==
    /\ cell = NewCell
    /\ memopMap = [t \in Threads |-> {}]
    /\ issued = [t \in Threads |-> <<>>]
    /\ iteration = [t \in Threads |-> 0]
    /\ status = [t \in Threads |-> [i \in 0 .. History - 1 |-> "invalid"]]
    /\ needJump = [t \in Threads |-> TRUE]
    /\ wrongPath = [t \in Threads |-> 0]
    /\ committed = [t \in Threads |-> 0]
    /\ ended = [t \in Threads |-> FALSE]
    /\ error = "none"
    /\ pipe = [t \in Threads |-> <<>>]
    /\ fetchPc = [t \in Threads |-> 0]
    /\ senior = [t \in Threads |-> {}]
    /\ owner = {}
    /\ traps = 0
    /\ holds = [t \in Threads |-> FALSE]
    /\ lastTest = [t \in Threads |-> "invalid"]

Running(t) == error = "none" /\ ~ended[t]

\* Uids grow with every fetch, and only those in use are compared.
FreshUid(t) ==
    1 + Max({0} \cup memopMap[t] \cup {s.uid : s \in senior[t]}
                \cup {issued[t][k].uid : k \in DOMAIN issued[t]}
                \cup {pipe[t][k].uid : k \in DOMAIN pipe[t]})

\* find_si.  The map is never cleaned up, but only instructions in flight are
\* looked up, and those are on the issued list (IssuedIsPipe).
FindSI(t, uid) == {s \in Range(issued[t]) : s.uid = uid}

-----------------------------------------------------------------------------
(* Fetch: generate_asim_inst, assemble_inst_from_program.  The replay list *)
(* only ever holds the one instruction that is being fetched.              *)

NextIteration_NoWrap(t, kind) ==
    IF kind \in Tests THEN iteration[t] + 1 ELSE iteration[t]

\* inc_iteration_count, for the tests alone; it clears the new iteration's status.
NextIteration(t, kind) ==
    IF kind \in Tests THEN (iteration[t] + 1) % History ELSE iteration[t]

Fetched_RangeTooShort(t, pc) ==
    IF needJump[t] THEN "jump" ELSE IF pc \in 1 .. Len(Routine) - 2 THEN Routine[pc] ELSE "junk"

\* emit_first_branch, correct_path_programmed or wrong_path, by the address.
Fetched(t, pc) ==
    IF needJump[t] THEN "jump" ELSE IF pc \in DOMAIN Routine THEN Routine[pc] ELSE "junk"

\* External: where the performance model may go on.
Predictions(kind, pc) ==
    CASE kind = "jump" -> {Start, Outside}
      [] kind \in Branches -> {Start, pc + 1}
      [] OTHER -> {IF pc = Outside THEN Outside ELSE pc + 1}

Fetch(t) ==
    /\ Running(t)
    /\ Len(pipe[t]) < Window
    /\ LET pc == fetchPc[t]
           kind == Fetched(t, pc)
           uid == FreshUid(t)
           iter == NextIteration(t, kind)
       IN  /\ Wraps \/ kind \notin Tests \/ iter # 0
           /\ \E next \in Predictions(kind, pc) :
                /\ pipe' = [pipe EXCEPT ![t] = Append(@,
                     [uid |-> uid, pc |-> pc, next |-> next, actual |-> NoPc, kind |-> kind,
                      found |-> "invalid", spec |-> FALSE, wrote |-> FALSE])]
                /\ fetchPc' = [fetchPc EXCEPT ![t] = next]
           /\ iteration' = [iteration EXCEPT ![t] = iter]
           /\ issued' = [issued EXCEPT ![t] = IF kind = "junk" THEN @ ELSE
                Append(@, [uid |-> uid, kind |-> kind,
                           iter |-> IF kind \in Tests \cup {"cbranch"} THEN iter ELSE 0])]
           /\ wrongPath' = [wrongPath EXCEPT ![t] = IF kind = "junk" THEN @ + 1 ELSE 0]
           /\ status' = [status EXCEPT ![t][iter] = IF kind \in Tests THEN "invalid" ELSE @]
           /\ error' = IF wrongPath'[t] >= WrongPathLimit THEN "wrongPath" ELSE error
    /\ needJump' = [needJump EXCEPT ![t] = FALSE]
    /\ UNCHANGED <<cell, memopMap, committed, ended, senior, owner, traps, lastTest, holds>>

-----------------------------------------------------------------------------
(* Issue and DoRead.                                                       *)

IterationStatus_Latest(t, s) == status[t][iteration[t]]

\* get_iteration_status: what has been found for the iteration of s.
IterationStatus(t, s) == status[t][s.iter]

\* External: instructions are executed in order.
Executed(e) ==
    /\ e.kind \in Branches => e.actual # NoPc
    /\ e.kind \in Tests => e.found # "invalid"
ItsTurn(t, i) == \A k \in 1 .. i - 1 : Executed(pipe[t][k])

\* Issue sets the direction of a conditional branch.  The other branches are
\* taken, whatever the feeder says of them (external).
Issue(t, i) ==
    /\ Running(t)
    /\ pipe[t][i].kind \in Branches
    /\ pipe[t][i].actual = NoPc
    /\ ItsTurn(t, i)
    /\ LET e == pipe[t][i]
           blocked == \E s \in FindSI(t, e.uid) : IterationStatus(t, s) = "blocked"
           target == IF e.kind # "cbranch" \/ blocked THEN Start ELSE e.pc + 1
       IN  /\ pipe' = [pipe EXCEPT ![t][i].actual = target]
           /\ error' = IF e.kind = "cbranch" /\ FindSI(t, e.uid) = {} THEN "issue" ELSE error
    /\ UNCHANGED <<cell, feeder, fetchPc, senior, owner, traps, lastTest, holds>>

\* handle_mvm_read.
DoRead(t, i) ==
    /\ Running(t)
    /\ pipe[t][i].kind \in Tests
    /\ pipe[t][i].found = "invalid"
    /\ ItsTurn(t, i)
    /\ pipe[t][i].kind = "cmpxchg" => i = 1 /\ senior[t] = {} /\ owner = {}
    /\ LET e == pipe[t][i]
           found == IF LockIsFree(ReadValue(cell, t, LockAddr, LockSize))
                    THEN "entering" ELSE "blocked"
           iters == {s.iter : s \in FindSI(t, e.uid)}
       IN  /\ pipe' = [pipe EXCEPT ![t][i].found = found]
           /\ status' = [status EXCEPT ![t] = [k \in DOMAIN @ |-> IF k \in iters THEN found
                                                                  ELSE @[k]]]
           /\ owner' = IF e.kind = "cmpxchg" THEN {t} ELSE owner
    /\ UNCHANGED <<cell, memopMap, issued, iteration, needJump, wrongPath, committed, ended,
                   error, fetchPc, senior, traps, lastTest, holds>>

-----------------------------------------------------------------------------
(* DoSpecWrite and DoWrite: handle_mvm_writes, handle_mvm_one_write.       *)

\* The value is the one the routine gives the store: a2v_map.
StoreMemop(id, v) == Memop(id, LockAddr, LockSize, Put(LockAddr, LockSize, v))

\* The flag found is set whether or not the memop was.
Found(t, uid) == TRUE

\* A store becomes locally visible; semaphores never do.
DoSpecWrite(t, i) ==
    /\ Running(t)
    /\ pipe[t][i].kind = "store" /\ ~pipe[t][i].spec /\ ~pipe[t][i].wrote
    /\ ItsTurn(t, i)
    /\ Len(cell.local[t]) < MaxLocal
    /\ LET uid == pipe[t][i].uid
       IN  /\ cell' = StoreLocally(cell, t,
                         StoreMemop(IF Found(t, uid) THEN Unreachable ELSE uid, 0))
           /\ memopMap' = IF Found(t, uid) THEN memopMap
                          ELSE [memopMap EXCEPT ![t] = @ \cup {uid}]
    /\ pipe' = [pipe EXCEPT ![t][i].spec = TRUE]
    /\ UNCHANGED <<issued, iteration, status, needJump, wrongPath, committed, ended, error,
                   fetchPc, senior, owner, traps, lastTest, holds>>

\* Globally visible: the memop that is remembered for uid, or a new one.
WriteGlobally(t, uid, v) ==
    /\ cell' = StoreGlobally(cell, t,
                 StoreMemop(IF uid \in memopMap[t] THEN uid ELSE Fresh, v))
    /\ memopMap' = [memopMap EXCEPT ![t] = @ \ {uid}]

ConditionalStore_Always(t, uid) == TRUE

\* doing_conditional_store: the compare-exchange found the lock free.
ConditionalStore(t, uid) ==
    \E s \in FindSI(t, uid) : IterationStatus(t, s) = "entering"

DoWriteSemaphore(t) ==
    /\ Running(t)
    /\ pipe[t] # <<>>
    /\ LET e == pipe[t][1]
       IN  /\ e.kind = "cmpxchg" /\ e.found # "invalid" /\ ~e.wrote
           /\ IF ConditionalStore(t, e.uid)
              THEN WriteGlobally(t, e.uid, 1) /\ holds' = [holds EXCEPT ![t] = TRUE]
              ELSE /\ memopMap' = [memopMap EXCEPT ![t] = @ \ {e.uid}]
                   /\ UNCHANGED <<cell, holds>>
    /\ pipe' = [pipe EXCEPT ![t][1].wrote = TRUE]
    /\ owner' = {}
    /\ UNCHANGED <<issued, iteration, status, needJump, wrongPath, committed, ended, error,
                   fetchPc, senior, traps, lastTest>>

\* The release, before or after it is committed.
DoWriteStore(t) ==
    /\ error = "none"
    /\ owner \subseteq {t}
    /\ \/ /\ Running(t)
          /\ pipe[t] # <<>>
          /\ pipe[t][1].kind = "store" /\ ~pipe[t][1].wrote
          /\ WriteGlobally(t, pipe[t][1].uid, 0)
          /\ pipe' = [pipe EXCEPT ![t][1].wrote = TRUE]
          /\ UNCHANGED senior
       \/ \E s \in senior[t] :
          /\ WriteGlobally(t, s.uid, 0)
          /\ senior' = [senior EXCEPT ![t] = {}]
          /\ UNCHANGED pipe
    /\ holds' = [holds EXCEPT ![t] = FALSE]
    /\ UNCHANGED <<issued, iteration, status, needJump, wrongPath, committed, ended, error,
                   fetchPc, owner, traps, lastTest>>

-----------------------------------------------------------------------------
(* Commit and Kill.                                                        *)

CommitPlaces_NoSkip(t, uid) == {k \in DOMAIN issued[t] : k = 1 /\ issued[t][k].uid = uid}

\* commit_skipping_nops: the place of uid on the issued list, if only no-ops
\* are before it.
CommitPlaces(t, uid) ==
    {k \in DOMAIN issued[t] : /\ issued[t][k].uid = uid
                              /\ \A j \in 1 .. k - 1 : issued[t][j].kind = "nop"}

\* Uids are counted from the last instruction that has left, and of them only
\* the order matters.
Recount(seq, base) == [k \in DOMAIN seq |-> [seq[k] EXCEPT !.uid = @ - base]]

\* External: an instruction is committed once it has done its work.
Done(e) ==
    CASE e.kind \in Branches -> e.actual = e.next
      [] e.kind = "load" -> e.found # "invalid"
      [] e.kind = "cmpxchg" -> e.wrote
      [] OTHER -> e.kind = "store"

Commit(t, i) ==
    /\ Running(t)
    /\ Done(pipe[t][i])
    /\ \A k \in 1 .. i - 1 : pipe[t][k].kind = "nop"
    /\ pipe[t][i].kind = "store" => senior[t] = {}
    /\ LET e == pipe[t][i]
           places == CommitPlaces(t, e.uid)
           count == IF NumToCommit[t] = 0 THEN 0 ELSE committed[t] + Cardinality(places)
           base == IF senior'[t] = {} /\ memopMap[t] = {} THEN e.uid ELSE 0
       IN  /\ senior' = [senior EXCEPT ![t] = IF e.kind # "store" \/ e.wrote THEN @
                                              ELSE {[uid |-> e.uid, spec |-> e.spec]}]
           /\ pipe' = [pipe EXCEPT ![t] = Recount(SubSeq(@, i + 1, Len(@)), base)]
           /\ issued' = [issued EXCEPT ![t] =
                IF places = {} THEN <<>> ELSE Recount(SubSeq(@, Max(places) + 1, Len(@)), base)]
           /\ error' = IF places = {} /\ \E s \in Range(issued[t]) : s.kind # "nop"
                       THEN "commit" ELSE error
           /\ committed' = [committed EXCEPT ![t] = count]
           /\ ended' = [ended EXCEPT ![t] = NumToCommit[t] # 0 /\ count = NumToCommit[t]]
           /\ lastTest' = [lastTest EXCEPT ![t] = IF e.kind \in Tests THEN e.found ELSE @]
    /\ UNCHANGED <<cell, memopMap, iteration, status, needJump, wrongPath, fetchPc, owner,
                   traps, holds>>

Squashed_YoungerOnly(t, uid, killMe) == {s \in Range(issued[t]) : s.uid > uid}

\* The instructions on the issued list that a Kill of uid reaches.
Squashed(t, uid, killMe) ==
    {s \in Range(issued[t]) : s.uid > uid \/ (killMe /\ s.uid = uid)}

\* find_new_iteration_count: one before the first iteration that is squashed.
NewIteration(t, uid, killMe) ==
    LET iters == {s.iter : s \in {x \in Squashed(t, uid, killMe) : x.kind \in Tests}}
    IN  IF iters = {} THEN iteration[t] ELSE Min(iters) - 1

\* copy_to_replay_queue, kill_and_replay_this_inst: squashed instructions are
\* removed from the back of the list.
Popped(list, gone) ==
    SubSeq(list, 1, Max({0} \cup {k \in DOMAIN list : list[k] \notin gone}))

\* copy_to_replay_queue reads the last element of the list after each removal.
Emptied(t, uid) ==
    issued[t] # <<>> /\ \A s \in Range(issued[t]) : s.uid > uid

\* kill: kill_memops, then the iteration count, then the issued list; what is
\* squashed is deleted, because the routine can be fetched again.
Kill(t, uid, killMe) ==
    LET gone == Squashed(t, uid, killMe)
        dead == {s.uid : s \in gone} \cap memopMap[t]
    IN  /\ cell' = [cell EXCEPT !.local[t] = Without(@, dead)]
        /\ iteration' = [iteration EXCEPT ![t] = Max({0, NewIteration(t, uid, killMe)})]
        /\ issued' = [issued EXCEPT ![t] = Popped(@, gone)]
        /\ error' = IF NewIteration(t, uid, killMe) < 0 THEN "iteration"
                    ELSE IF Emptied(t, uid) THEN "emptied" ELSE error

\* A branch was mispredicted: Kill with fetchNext.
Resteer(t, i) ==
    /\ Running(t)
    /\ pipe[t][i].actual \notin {NoPc, pipe[t][i].next}
    /\ Kill(t, pipe[t][i].uid, FALSE)
    /\ pipe' = [pipe EXCEPT ![t] = Append(SubSeq(@, 1, i - 1),
                                          [@[i] EXCEPT !.next = pipe[t][i].actual])]
    /\ fetchPc' = [fetchPc EXCEPT ![t] = pipe[t][i].actual]
    /\ UNCHANGED <<memopMap, status, needJump, wrongPath, committed, ended, senior, owner,
                   traps, lastTest, holds>>

\* A memory access traps: Kill with killMe, and it is fetched again.  What has
\* been written cannot be squashed.
Trap(t, i) ==
    /\ Running(t)
    /\ traps < MaxTraps
    /\ pipe[t][i].kind \in Tests \cup {"store"}
    /\ \A k \in i .. Len(pipe[t]) : ~pipe[t][k].wrote
    /\ Kill(t, pipe[t][i].uid, TRUE)
    /\ pipe' = [pipe EXCEPT ![t] = SubSeq(@, 1, i - 1)]
    /\ fetchPc' = [fetchPc EXCEPT ![t] = pipe[t][i].pc]
    /\ traps' = traps + 1
    /\ owner' = IF i = 1 THEN owner \ {t} ELSE owner
    /\ UNCHANGED <<memopMap, status, needJump, wrongPath, committed, ended, senior,
                   lastTest, holds>>

-----------------------------------------------------------------------------
\* What the performance model does to get on with a thread.
Proceed(t) ==
    \/ Fetch(t) \/ DoWriteSemaphore(t) \/ DoWriteStore(t)
    \/ \E i \in DOMAIN pipe[t] : Issue(t, i) \/ DoRead(t, i) \/ Commit(t, i) \/ Resteer(t, i)

Next ==
    \E t \in Threads :
      \/ Proceed(t)
      \/ \E i \in DOMAIN pipe[t] : DoSpecWrite(t, i) \/ Trap(t, i)

Spec == Init /\ [][Next]_vars

\* The performance model gets on with every thread; nothing makes it write
\* speculatively or trap.
Fairness == \A t \in Threads : WF_vars(Proceed(t))

FairSpec == Spec /\ Fairness

-----------------------------------------------------------------------------
(* Properties.                                                             *)

\* The issued list is the part of the pipe the feeder vouches for, and what is
\* fetched outside the routine comes behind it: every Commit, Kill and Issue
\* finds its instruction there, and nothing squashed stays behind.
IssuedIsPipe ==
    \A t \in Threads :
      /\ Len(issued[t]) <= Len(pipe[t])
      /\ \A k \in DOMAIN pipe[t] :
           IF k <= Len(issued[t])
           THEN issued[t][k].uid = pipe[t][k].uid /\ issued[t][k].kind = pipe[t][k].kind
           ELSE pipe[t][k].kind = "junk"

\* What the test a branch depends on has found: the test is the last one
\* before it in the pipe, or else the last one committed.
TestOf(t, i) ==
    LET tests == {k \in 1 .. i - 1 : pipe[t][k].kind \in Tests}
    IN  IF tests = {} THEN lastTest[t] ELSE pipe[t][Max(tests)].found

\* Issue sends a conditional branch back exactly when its own load or
\* compare-exchange was blocked, although outcomes are looked up by iteration
\* numbers that squashes hand out again.
BranchFollowsItsTest ==
    \A t \in Threads, i \in 1 .. Window :
      (/\ i \in DOMAIN pipe[t]
       /\ pipe[t][i].kind = "cbranch"
       /\ pipe[t][i].actual # NoPc)
      => (pipe[t][i].actual = Start <=> TestOf(t, i) = "blocked")

\* A locally visible store of t is left over: the instruction that made it is
\* neither in flight nor waiting to be written.
LeftOver(t) ==
    Len(cell.local[t]) > Cardinality({e \in Range(pipe[t]) : e.spec /\ ~e.wrote})
                         + Cardinality({s \in senior[t] : s.spec})

\* As long as no locally visible store is left over, the lock word is set
\* exactly while one thread is between its compare-exchange and its release,
\* and never two are.
LockHeldByOne ==
    (\A t \in Threads : ~LeftOver(t)) =>
      Cardinality({t \in Threads : holds[t]}) = IF LockIsFree(cell.global) THEN 0 ELSE 1

\* No ASIMERROR, ASSERT or assert of the feeder is reached.
NoFeederError == error = "none"

\* What Fetch, Issue, Commit and Kill keep true of a thread's lists: they are
\* the instructions in flight, and no assertion about them fails.
FeederInvariant ==
    /\ TypeOK
    /\ IssuedIsPipe
    /\ NoFeederError

\* A thread that has taken the lock releases it, unless the feeder has ended
\* it before: no squash makes it miss the release or go round without it.
HolderReleases == \A t \in Threads : holds[t] ~> (~holds[t] \/ ended[t])
===============================================================================
