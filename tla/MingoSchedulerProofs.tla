------------------------ MODULE MingoSchedulerProofs ------------------------
(***************************************************************************)
(* Proofs about the Mingo scheduler, for every number of threads, hardware *)
(* contexts and slots, every program, every length of the pipeline and     *)
(* every period of the polls, and whenever the events of the application   *)
(* arrive, in the middle of a decision too, but for a new thread's first   *)
(* one, which is assumed to come in time (PromptStart).                    *)
(***************************************************************************)
EXTENDS MingoScheduler, FiniteSetTheorems, Integers, WellFoundedInduction, TLAPS

LEMMA LeastNat ==
    ASSUME NEW T, T \subseteq Nat, T # {}
    PROVE  \E x \in T : \A y \in T : x <= y
<1>1. PICK x \in T : \A y \in T : ~(<<y, x>> \in OpToRel(<, Nat))
  BY WFMin, NatLessThanWellFounded
<1>2. ASSUME NEW y \in T PROVE x <= y
  <2>1. ~(<<y, x>> \in OpToRel(<, Nat))
    BY <1>1
  <2>2. ~(y < x)
    BY <2>1 DEF OpToRel
  <2> QED
    BY <2>2
<1> QED
  BY <1>2

-----------------------------------------------------------------------------
(* The states a scheduling decision that meets no error goes through.      *)

Contexts ==
    [mapped : BOOLEAN, hwc : Hwcs, runnable : BOOLEAN, deschedule : BOOLEAN,
     delete : BOOLEAN, timed : BOOLEAN, left : Int, preceding : Nat,
     pending : BOOLEAN, ended : BOOLEAN, outstanding : Int,
     switch : {"none", "requested", "sent", "committed"}]

Packets ==
    [state : {"empty", "ready", "consumed", "ack", "dead"},
     hint : BOOLEAN, pseudo : BOOLEAN]

NoError == {""}

States ==
    [list : [Slots -> Threads \cup {None}], next : Slots,
     ctx : [Threads -> Contexts], run : [Hwcs -> Threads \cup {None}],
     ipc : [Threads -> Packets], sent : [Threads -> Nat],
     picked : Threads \cup {None}, error : NoError]

LEMMA Sizes ==
    /\ NThreads \in Nat /\ NumHwcs \in Nat /\ NumHwcs > 0
    /\ MAX_NUM_SWCS \in Nat /\ MAX_NUM_SWCS > 0
    /\ None \notin Threads /\ 0 \in Hwcs /\ 0 \in Slots
  BY MingoAssumption DEF None, Threads, Hwcs, Slots

\* What RunSoftwareContext and the resumption of a stream do to a context.
Runnable(c) == [c EXCEPT !.runnable = TRUE]
Placed(c, h) == [c EXCEPT !.mapped = TRUE, !.hwc = h]

\* What a decision leaves as it is in a context, and in the contexts it does
\* not take off their hardware context.
Kept(c, d) ==
    /\ d.outstanding = c.outstanding /\ d.pending = c.pending
    /\ d.switch = c.switch /\ d.ended = c.ended

Persists(c, d) ==
    /\ Kept(c, d) /\ d.deschedule = c.deschedule
    /\ c.mapped => d.mapped /\ d.hwc = c.hwc

LEMMA PersistsTransitive ==
    ASSUME NEW c, NEW d, NEW e, Persists(c, d), Persists(d, e)
    PROVE  Persists(c, e)
  BY DEF Persists, Kept

LEMMA RunnableContext ==
    ASSUME NEW c \in Contexts
    PROVE  /\ Runnable(c) \in Contexts
           /\ Runnable(c).runnable
           /\ Runnable(c).mapped = c.mapped /\ Runnable(c).hwc = c.hwc
           /\ Runnable(c).deschedule = c.deschedule /\ Runnable(c).timed = c.timed
           /\ Runnable(c).preceding = c.preceding /\ Runnable(c).pending = c.pending
           /\ Persists(c, Runnable(c))
  BY DEF Runnable, Contexts, Persists, Kept

LEMMA PlacedContext ==
    ASSUME NEW c \in Contexts, NEW h \in Hwcs
    PROVE  /\ Placed(c, h) \in Contexts
           /\ Placed(c, h).mapped /\ Placed(c, h).hwc = h
           /\ Placed(c, h).runnable = c.runnable
           /\ Placed(c, h).deschedule = c.deschedule /\ Placed(c, h).timed = c.timed
           /\ Placed(c, h).preceding = c.preceding /\ Placed(c, h).pending = c.pending
           /\ ~c.mapped => Persists(c, Placed(c, h))
  BY DEF Placed, Contexts, Persists, Kept

\* The members of a state.
LEMMA StateMembers ==
    ASSUME NEW s \in States
    PROVE  /\ s.list \in [Slots -> Threads \cup {None}] /\ s.next \in Slots
           /\ s.ctx \in [Threads -> Contexts]
           /\ s.run \in [Hwcs -> Threads \cup {None}]
           /\ s.ipc \in [Threads -> Packets] /\ s.sent \in [Threads -> Nat]
           /\ s.picked \in Threads \cup {None} /\ s.error \in NoError
           /\ \A i \in Occupied(s) : i \in Slots /\ s.list[i] \in Threads
  BY DEF States, Occupied

-----------------------------------------------------------------------------
(* Events that arrive in the middle of a decision.                         *)

LEMMA PacketsTyped ==
    ASSUME NEW p \in Packets, NEW e \in Event
    PROVE  /\ Posted(p, e) \in Packets /\ Posted(p, e).state = "ready"
           /\ Received(p) \in Packets /\ Answered(p) \in Packets
  BY DEF Packets, Event, Posted, Received, Answered

\* A thread that runs, or has been told to go on, may have sent an event.
Came(s, r, t) ==
    /\ s.ipc[t].state \in {"empty", "ack"} /\ s.sent[t] < Len(Program[t])
    /\ r.ipc[t] \in Packets /\ r.ipc[t].state = "ready"
    /\ r.sent[t] = s.sent[t] + 1

Delivers(s, r) ==
    \A t \in Threads : \/ r.ipc[t] = s.ipc[t] /\ r.sent[t] = s.sent[t]
                       \/ Came(s, r, t)

LEMMA DeliversTransitive ==
    ASSUME NEW s, NEW r, NEW q, Delivers(s, r), Delivers(r, q)
    PROVE  Delivers(s, q)
<1>1. ASSUME NEW t \in Threads
      PROVE  \/ q.ipc[t] = s.ipc[t] /\ q.sent[t] = s.sent[t]
             \/ Came(s, q, t)
  <2>1. /\ (r.ipc[t] = s.ipc[t] /\ r.sent[t] = s.sent[t]) \/ Came(s, r, t)
        /\ (q.ipc[t] = r.ipc[t] /\ q.sent[t] = r.sent[t]) \/ Came(r, q, t)
    BY DEF Delivers
  <2> QED
    BY <2>1 DEF Came
<1> QED
  BY <1>1 DEF Delivers

LEMMA DeliversSame ==
    ASSUME NEW s, NEW r, r.ipc = s.ipc, r.sent = s.sent
    PROVE  Delivers(s, r)
  BY DEF Delivers

\* What the arrival of an event changes.
LEMMA ArrivedDelivers ==
    ASSUME NEW s \in States, NEW t \in Threads, MayHaveEvents(s, t),
           NEW r, r = Arrived(s, t)
    PROVE  /\ r \in States /\ Delivers(s, r)
           /\ r.list = s.list /\ r.ctx = s.ctx /\ r.run = s.run
           /\ r.error = s.error
<1>1. CASE FeederHasEvents(s, t)
  <2>1. r = s
    BY <1>1 DEF Arrived
  <2> QED
    BY <2>1, DeliversSame
<1>2. CASE ~FeederHasEvents(s, t)
  <2>1. s.ipc[t].state \in {"empty", "ack"} /\ s.sent[t] < Len(Program[t])
    BY <1>2 DEF MayHaveEvents, OnItsWay
  <2>2. /\ s.ipc \in [Threads -> Packets] /\ s.sent \in [Threads -> Nat]
        /\ s.sent[t] \in Nat /\ s.ipc[t] \in Packets
    BY StateMembers
  <2>3. Program[t][s.sent[t] + 1] \in Event
    <3>1. Program[t] \in Seq(Event) /\ Len(Program[t]) \in Nat
      BY MingoAssumption
    <3>2. s.sent[t] + 1 \in 1 .. Len(Program[t])
      BY <2>1, <2>2, <3>1
    <3> QED
      BY <3>1, <3>2
  <2>4. PICK p \in Packets : /\ p = Posted(s.ipc[t], Program[t][s.sent[t] + 1])
                             /\ p.state = "ready"
    BY <2>2, <2>3, PacketsTyped
  <2>5. PICK n \in Nat : n = s.sent[t] + 1
    BY <2>2
  <2>6. PICK f \in [Threads -> Packets] : f = [s.ipc EXCEPT ![t] = p]
    BY <2>2
  <2>7. PICK g \in [Threads -> Nat] : g = [s.sent EXCEPT ![t] = n]
    BY <2>2
  <2>8. r = [s EXCEPT !.ipc = f, !.sent = g]
    <3>1. r = [s EXCEPT !.ipc[t] = Posted(@, Program[t][s.sent[t] + 1]),
                        !.sent[t] = @ + 1]
      BY <1>2 DEF Arrived
    <3>2. [s EXCEPT !.ipc[t] = Posted(@, Program[t][s.sent[t] + 1]), !.sent[t] = @ + 1]
            = [s EXCEPT !.ipc = [s.ipc EXCEPT ![t] = p],
                        !.sent = [s.sent EXCEPT ![t] = n]]
      BY <2>4, <2>5 DEF States
    <3> QED
      BY <2>6, <2>7, <3>1, <3>2
  <2>9. /\ r \in States /\ r.ipc = f /\ r.sent = g
        /\ r.list = s.list /\ r.ctx = s.ctx /\ r.run = s.run
        /\ r.error = s.error
    BY <2>8 DEF States
  <2>10. Delivers(s, r)
    <3>1. \A u \in Threads : u # t => r.ipc[u] = s.ipc[u] /\ r.sent[u] = s.sent[u]
      BY <2>2, <2>6, <2>7, <2>9
    <3>2. Came(s, r, t)
      BY <2>1, <2>2, <2>4, <2>5, <2>6, <2>7, <2>9 DEF Came
    <3> QED
      BY <3>1, <3>2 DEF Delivers
  <2> QED
    BY <2>9, <2>10
<1> QED
  BY <1>1, <1>2

-----------------------------------------------------------------------------
(* What a scheduling decision keeps.                                       *)

NoHole == -1

\* Contexts and hardware contexts are mapped one to one, but for a hardware
\* context x that a context is leaving: it still points to some context, so
\* that it is not taken for a free one.
Fit(s, x) ==
    /\ s.error = ""
    /\ \A t \in Threads :
         s.ctx[t].mapped => s.ctx[t].hwc # x /\ s.run[s.ctx[t].hwc] = t
    /\ \A h \in Hwcs :
         h # x /\ s.run[h] # None => s.ctx[s.run[h]].mapped /\ s.ctx[s.run[h]].hwc = h
    /\ x \in Hwcs => s.run[x] # None
    /\ \A t \in Threads : s.ctx[t].deschedule => s.ctx[t].mapped

Listed(s) == {t \in Threads : \E i \in Slots : s.list[i] = t}

\* The contexts that a hardware context could be given to.
Idlers(s) ==
    {t \in Listed(s) : ~s.ctx[t].mapped /\ (s.ctx[t].runnable \/ s.ctx[t].timed)}

\* When nothing runs, none of them waits but those of X.
Conserves(s, X) == Free(s) = Hwcs => Idlers(s) \subseteq X

\* A decision does not touch the list, delivers events, touches no context
\* that is not in the list, and takes none off its hardware context.
Keeps(s, r) ==
    /\ r.list = s.list
    /\ \A t \in Threads : Persists(s.ctx[t], r.ctx[t])
    /\ Delivers(s, r)
    /\ \A t \in Threads \ Listed(s) : r.ctx[t] = s.ctx[t]

LEMMA KeepsTransitive ==
    ASSUME NEW s, NEW r, NEW q, Keeps(s, r), Keeps(r, q)
    PROVE  Keeps(s, q)
<1>1. \A t \in Threads : Persists(s.ctx[t], q.ctx[t])
  BY PersistsTransitive DEF Keeps
<1>2. Delivers(s, q)
  BY DeliversTransitive DEF Keeps
<1> QED
  BY <1>1, <1>2 DEF Keeps, Listed

LEMMA KeepsReflexive ==
    ASSUME NEW s PROVE Keeps(s, s)
  BY DEF Keeps, Persists, Kept, Delivers

LEMMA KeepsSame ==
    ASSUME NEW s \in States, NEW r \in States, r.list = s.list, Delivers(s, r),
           \A t \in Threads : \/ r.ctx[t] = s.ctx[t]
                              \/ r.ctx[t] = Runnable(s.ctx[t]) /\ t \in Listed(s)
                              \/ \E h \in Hwcs : r.ctx[t] = Placed(s.ctx[t], h)
                                                 /\ t \in Listed(s) /\ ~s.ctx[t].mapped
    PROVE  Keeps(s, r)
<1>1. ASSUME NEW t \in Threads PROVE Persists(s.ctx[t], r.ctx[t])
  <2>1. s.ctx[t] \in Contexts
    BY StateMembers
  <2>2. CASE r.ctx[t] = s.ctx[t]
    BY <2>2 DEF Persists, Kept
  <2>3. CASE r.ctx[t] # s.ctx[t]
    BY <2>1, <2>3, RunnableContext, PlacedContext
  <2> QED
    BY <2>2, <2>3
<1> QED
  BY <1>1 DEF Keeps

\* A change of something else leaves the mapping as it is.
LEMMA FitSame ==
    ASSUME NEW s \in States, NEW r \in States, NEW x, Fit(s, x),
           r.run = s.run, r.error = s.error,
           \A t \in Threads : /\ r.ctx[t].mapped = s.ctx[t].mapped
                              /\ r.ctx[t].hwc = s.ctx[t].hwc
                              /\ r.ctx[t].deschedule => r.ctx[t].mapped
    PROVE  Fit(r, x)
<1>1. ASSUME NEW t \in Threads, r.ctx[t].mapped
      PROVE  r.ctx[t].hwc # x /\ r.run[r.ctx[t].hwc] = t
  <2>1. s.ctx[t].mapped
    BY <1>1
  <2>2. s.ctx[t].hwc # x /\ s.run[s.ctx[t].hwc] = t
    BY <2>1 DEF Fit
  <2>3. r.ctx[t].hwc = s.ctx[t].hwc
    OBVIOUS
  <2> QED
    BY <2>2, <2>3
<1>2. ASSUME NEW h \in Hwcs, h # x, r.run[h] # None
      PROVE  r.ctx[r.run[h]].mapped /\ r.ctx[r.run[h]].hwc = h
  <2>1. PICK t : t = s.run[h]
    OBVIOUS
  <2>2. t \in Threads /\ t # None /\ r.run[h] = t
    BY <1>2, <2>1, StateMembers
  <2>3. s.ctx[t].mapped /\ s.ctx[t].hwc = h
    BY <1>2, <2>1, <2>2 DEF Fit
  <2> QED
    BY <2>2, <2>3
<1>3. x \in Hwcs => r.run[x] # None
  BY DEF Fit
<1>4. r.error = ""
  BY DEF Fit
<1> QED
  BY <1>1, <1>2, <1>3, <1>4 DEF Fit

\* Events that arrive change neither the mapping nor what waits.
LEMMA ArrivedFits ==
    ASSUME NEW s \in States, NEW x, Fit(s, x), NEW t \in Threads,
           MayHaveEvents(s, t), NEW r, r = Arrived(s, t)
    PROVE  /\ r \in States /\ Fit(r, x) /\ Keeps(s, r)
           /\ r.list = s.list /\ r.ctx = s.ctx /\ r.run = s.run
<1>1. /\ r \in States /\ Delivers(s, r)
      /\ r.list = s.list /\ r.ctx = s.ctx /\ r.run = s.run
      /\ r.error = s.error
  BY ArrivedDelivers
<1>2. \A u \in Threads : r.ctx[u].deschedule => r.ctx[u].mapped
  BY <1>1 DEF Fit
<1>3. Fit(r, x)
  BY <1>1, <1>2, FitSame
<1>4. Keeps(s, r)
  BY <1>1, KeepsSame
<1> QED
  BY <1>1, <1>3, <1>4

-----------------------------------------------------------------------------
(* The searches.                                                           *)

LEMMA NearestIsAccepted ==
    ASSUME NEW s \in States, NEW A, A \subseteq Slots, A # {}
    PROVE  Nearest(s, A) \in A
<1> DEFINE D == {Distance(s, i) : i \in A}
<1>1. \A i \in A : Distance(s, i) \in Nat
  <2> SUFFICES ASSUME NEW i \in A PROVE Distance(s, i) \in Nat
    OBVIOUS
  <2>1. i \in Nat /\ s.next \in Nat /\ s.next < MAX_NUM_SWCS
    BY Sizes DEF States, Slots
  <2>2. i + MAX_NUM_SWCS - s.next \in Nat
    BY <2>1, Sizes
  <2> QED
    BY <2>2, Sizes DEF Distance
<1>2. D \subseteq Nat /\ D # {}
  BY <1>1
<1>3. PICK d \in D : \A e \in D : d <= e
  <2> HIDE DEF D
  <2> QED
    BY <1>2, LeastNat
<1>4. PICK i \in A : Distance(s, i) = d
  OBVIOUS
<1>5. \A j \in A : Distance(s, i) <= Distance(s, j)
  BY <1>3, <1>4
<1> QED
  BY <1>4, <1>5 DEF Nearest

\* Pick changes the index and makes the context it picks runnable.
LEMMA PickOne ==
    ASSUME NEW s \in States, NEW i \in Occupied(s), NEW r, r = Pick(s, i)
    PROVE  /\ r \in States
           /\ r.list = s.list /\ r.run = s.run /\ r.error = s.error
           /\ r.ipc = s.ipc /\ r.sent = s.sent
           /\ r.picked = s.list[i] /\ r.picked \in Threads
           /\ \A t \in Threads :
                r.ctx[t] = IF t = r.picked THEN Runnable(s.ctx[t]) ELSE s.ctx[t]
<1>1. PICK u \in Threads : u = s.list[i]
  BY StateMembers
<1>2. PICK n \in Slots : n = After(i)
  BY Sizes, StateMembers DEF After, Slots
<1>3. r = [s EXCEPT !.next = n, !.picked = u, !.ctx[u].runnable = TRUE]
  BY <1>1, <1>2 DEF Pick
<1>4. PICK c \in [Threads -> Contexts] : c = [s.ctx EXCEPT ![u] = Runnable(@)]
  BY StateMembers, RunnableContext
<1>5. r = [s EXCEPT !.next = n, !.picked = u, !.ctx = c]
  BY <1>3, <1>4 DEF Runnable
<1>6. \A t \in Threads : c[t] = IF t = u THEN Runnable(s.ctx[t]) ELSE s.ctx[t]
  BY <1>4, StateMembers
<1>7. /\ r \in States
      /\ r.list = s.list /\ r.run = s.run /\ r.error = s.error
      /\ r.ipc = s.ipc /\ r.sent = s.sent
      /\ r.picked = u /\ r.ctx = c
  BY <1>5 DEF States
<1> QED
  BY <1>1, <1>6, <1>7

\* The slots the searches accept hold contexts that are not mapped.
LEMMA Accepted ==
    ASSUME NEW s \in States
    PROVE  /\ \A b \in BOOLEAN : /\ Active(s, b) \subseteq Occupied(s)
                                 /\ \A i \in Active(s, b) : s.list[i] \in Idlers(s)
           /\ Waiting(s) \subseteq Occupied(s)
           /\ \A i \in Waiting(s) : s.list[i] \in Idlers(s)
           /\ Active(s, FALSE) = {} /\ Waiting(s) = {} => Idlers(s) = {}
<1>1. \A i \in Occupied(s) : i \in Slots /\ s.list[i] \in Threads /\ s.list[i] \in Listed(s)
  BY StateMembers DEF Listed
<1>2. \A b \in BOOLEAN : /\ Active(s, b) \subseteq Occupied(s)
                         /\ \A i \in Active(s, b) : s.list[i] \in Idlers(s)
  BY <1>1 DEF Active, Idlers
<1>3. /\ Waiting(s) \subseteq Occupied(s)
      /\ \A i \in Waiting(s) : s.list[i] \in Idlers(s)
  BY <1>1 DEF Waiting, Idlers
<1>4. ASSUME Active(s, FALSE) = {}, Waiting(s) = {}, NEW t \in Idlers(s) PROVE FALSE
  <2>1. PICK i \in Slots : s.list[i] = t
    BY DEF Idlers, Listed
  <2>2. i \in Occupied(s)
    BY <2>1, Sizes DEF Occupied, Idlers, Listed
  <2> QED
    BY <1>4, <2>1, <2>2 DEF Idlers, Active, Waiting
<1> QED
  BY <1>2, <1>3, <1>4

\* What a search that finds a context leaves.
Picks(s, r) ==
    /\ r.picked \in Idlers(s) /\ r.picked \in Idlers(r)
    /\ r.ctx[r.picked].runnable /\ ~r.ctx[r.picked].deschedule

\* Picking changes no mapping, and nothing else waits afterwards.
LEMMA PickFits ==
    ASSUME NEW s \in States, NEW x, Fit(s, x),
           NEW i \in Occupied(s), s.list[i] \in Idlers(s), NEW r, r = Pick(s, i)
    PROVE  /\ r \in States /\ Fit(r, x) /\ Keeps(s, r) /\ r.run = s.run
           /\ Picks(s, r) /\ Idlers(r) \subseteq Idlers(s)
<1>1. /\ r \in States
      /\ r.list = s.list /\ r.run = s.run /\ r.error = s.error
      /\ r.ipc = s.ipc /\ r.sent = s.sent
      /\ r.picked = s.list[i] /\ r.picked \in Threads
      /\ \A t \in Threads :
           r.ctx[t] = IF t = r.picked THEN Runnable(s.ctx[t]) ELSE s.ctx[t]
  BY PickOne
<1>2. PICK u \in Threads : u = r.picked
  BY <1>1
<1>3. ~s.ctx[u].mapped /\ u \in Listed(s) /\ u \in Idlers(s)
  BY <1>1, <1>2 DEF Idlers
<1>4. \A t \in Threads : s.ctx[t] \in Contexts
  BY StateMembers
<1>5. \A t \in Threads : /\ r.ctx[t].mapped = s.ctx[t].mapped
                         /\ r.ctx[t].hwc = s.ctx[t].hwc
                         /\ r.ctx[t].deschedule = s.ctx[t].deschedule
  BY <1>1, <1>4, RunnableContext
<1>6. r.ctx[u].runnable
  BY <1>1, <1>2, <1>4, RunnableContext
<1>7. Delivers(s, r)
  BY <1>1, DeliversSame
<1>8. Keeps(s, r)
  <2>1. \A t \in Threads : \/ r.ctx[t] = s.ctx[t]
                           \/ r.ctx[t] = Runnable(s.ctx[t]) /\ t \in Listed(s)
    BY <1>1, <1>2, <1>3
  <2> QED
    BY <1>1, <1>7, <2>1, KeepsSame
<1>9. Fit(r, x)
  <2>1. \A t \in Threads : r.ctx[t].deschedule => r.ctx[t].mapped
    BY <1>5 DEF Fit
  <2> QED
    BY <1>1, <1>5, <2>1, FitSame
<1>10. ~r.ctx[u].mapped /\ ~r.ctx[u].deschedule
  BY <1>3, <1>5, <1>9 DEF Fit
<1>11. Listed(r) = Listed(s)
  BY <1>1 DEF Listed
<1>12. Idlers(r) \subseteq Idlers(s)
  <2> SUFFICES ASSUME NEW t \in Idlers(r), t # u PROVE t \in Idlers(s)
    BY <1>3
  <2>1. t \in Listed(s) /\ t \in Threads
    BY <1>11 DEF Idlers, Listed
  <2>2. r.ctx[t] = s.ctx[t]
    BY <1>1, <1>2, <2>1
  <2> QED
    BY <2>1, <2>2 DEF Idlers
<1>13. u \in Idlers(r)
  BY <1>3, <1>6, <1>10, <1>11 DEF Idlers
<1>14. Picks(s, r)
  BY <1>2, <1>3, <1>6, <1>10, <1>13 DEF Picks
<1> QED
  BY <1>1, <1>8, <1>9, <1>12, <1>14

\* FindActiveSoftwareContext, when it finds a context with an event.
LEMMA PickActiveFits ==
    ASSUME NEW s \in States, NEW x, Fit(s, x), NEW r \in PickActive(s)
    PROVE  /\ r \in States /\ Fit(r, x) /\ Keeps(s, r) /\ r.run = s.run
           /\ Picks(s, r) /\ Idlers(r) \subseteq Idlers(s)
<1>1. PICK i \in Found(s) : r = Pick(Arrived(s, s.list[i]), i)
  BY DEF PickActive
<1>2. i \in Active(s, FALSE) /\ MayHaveEvents(s, s.list[i])
  BY DEF Found
<1>3. i \in Occupied(s) /\ s.list[i] \in Idlers(s)
  BY <1>2, Accepted
<1>4. PICK t \in Threads : t = s.list[i]
  BY <1>3, StateMembers
<1>5. PICK p : p = Arrived(s, t)
  OBVIOUS
<1>6. /\ p \in States /\ Fit(p, x) /\ Keeps(s, p)
      /\ p.list = s.list /\ p.ctx = s.ctx /\ p.run = s.run
  BY <1>2, <1>4, <1>5, ArrivedFits
<1>7. Idlers(p) = Idlers(s) /\ Occupied(p) = Occupied(s)
  BY <1>6 DEF Idlers, Listed, Occupied
<1>8. r = Pick(p, i) /\ i \in Occupied(p) /\ p.list[i] \in Idlers(p)
  BY <1>1, <1>3, <1>4, <1>5, <1>6, <1>7
<1>9. /\ r \in States /\ Fit(r, x) /\ Keeps(p, r) /\ r.run = p.run
      /\ Picks(p, r) /\ Idlers(r) \subseteq Idlers(p)
  BY <1>6, <1>8, PickFits
<1>10. Keeps(s, r)
  BY <1>6, <1>9, KeepsTransitive
<1>11. Picks(s, r)
  BY <1>7, <1>9 DEF Picks
<1> QED
  BY <1>6, <1>7, <1>9, <1>10, <1>11

LEMMA RunFits ==
    ASSUME NEW s \in States, NEW x, Fit(s, x), NEW t \in Threads, NEW h \in Hwcs,
           ~s.ctx[t].mapped, ~s.ctx[t].deschedule, s.ctx[t].runnable,
           s.run[h] = None \/ h = x, NEW r, r = RunSoftwareContext(s, t, h)
    PROVE  /\ r \in States /\ r.list = s.list /\ Delivers(s, r)
           /\ r.ipc = s.ipc /\ r.sent = s.sent
           /\ \A u \in Threads :
                r.ctx[u] = IF u = t THEN Placed(s.ctx[u], h) ELSE s.ctx[u]
           /\ \A g \in Hwcs : r.run[g] = IF g = h THEN t ELSE s.run[g]
           /\ Fit(r, IF h = x THEN NoHole ELSE x)
           /\ t \in Listed(s) => Keeps(s, r)
           /\ Free(r) \subseteq Free(s) /\ h \notin Free(r)
<1>1. r = [s EXCEPT !.ctx[t].mapped = TRUE, !.ctx[t].hwc = h, !.run[h] = t]
  BY DEF RunSoftwareContext
<1>2. PICK c \in [Threads -> Contexts] : c = [s.ctx EXCEPT ![t] = Placed(@, h)]
  BY StateMembers, PlacedContext
<1>3. PICK n \in [Hwcs -> Threads \cup {None}] : n = [s.run EXCEPT ![h] = t]
  BY StateMembers
<1>4. r = [s EXCEPT !.ctx = c, !.run = n]
  <2>1. [s EXCEPT !.ctx[t].mapped = TRUE, !.ctx[t].hwc = h, !.run[h] = t]
          = [s EXCEPT !.ctx = [s.ctx EXCEPT ![t] = Placed(@, h)],
                      !.run = [s.run EXCEPT ![h] = t]]
    BY DEF Placed, States
  <2> QED
    BY <1>1, <1>2, <1>3, <2>1
<1>6. /\ r \in States /\ r.list = s.list /\ r.ipc = s.ipc /\ r.sent = s.sent
      /\ r.error = s.error /\ r.ctx = c /\ r.run = n
  BY <1>4 DEF States
<1>7. \A u \in Threads : r.ctx[u] = IF u = t THEN Placed(s.ctx[u], h) ELSE s.ctx[u]
  BY <1>2, <1>6, StateMembers
<1>8. \A g \in Hwcs : r.run[g] = IF g = h THEN t ELSE s.run[g]
  BY <1>3, <1>6, StateMembers
<1>9. Fit(r, IF h = x THEN NoHole ELSE x)
  <2> DEFINE y == IF h = x THEN NoHole ELSE x
  <2>1. NoHole \notin Hwcs
    BY Sizes DEF NoHole, Hwcs
  <2>2. \A u \in Threads : s.ctx[u] \in Contexts /\ s.ctx[u].hwc \in Hwcs
    BY StateMembers DEF Contexts
  <2>3. r.ctx[t].mapped /\ r.ctx[t].hwc = h /\ r.ctx[t].deschedule = s.ctx[t].deschedule
    BY <1>7, <2>2, PlacedContext
  <2>4. \A u \in Threads : u # t => r.ctx[u] = s.ctx[u]
    BY <1>7
  <2>5. \A u \in Threads : r.ctx[u].mapped => r.ctx[u].hwc # y /\ r.run[r.ctx[u].hwc] = u
    <3> SUFFICES ASSUME NEW u \in Threads, r.ctx[u].mapped
                 PROVE  r.ctx[u].hwc # y /\ r.run[r.ctx[u].hwc] = u
      OBVIOUS
    <3>1. CASE u = t
      BY <1>8, <2>1, <2>3, <3>1
    <3>2. CASE u # t
      <4>1. s.ctx[u].mapped /\ r.ctx[u] = s.ctx[u]
        BY <2>4, <3>2
      <4>2. s.ctx[u].hwc # x /\ s.run[s.ctx[u].hwc] = u /\ s.ctx[u].hwc \in Hwcs
        BY <2>2, <4>1 DEF Fit
      <4>3. s.ctx[u].hwc # h
        BY <4>2, Sizes
      <4> QED
        BY <1>8, <2>1, <4>1, <4>2, <4>3
    <3> QED
      BY <3>1, <3>2
  <2>6. \A g \in Hwcs : g # y /\ r.run[g] # None
                           => r.ctx[r.run[g]].mapped /\ r.ctx[r.run[g]].hwc = g
    <3> SUFFICES ASSUME NEW g \in Hwcs, g # y, r.run[g] # None
                 PROVE  r.ctx[r.run[g]].mapped /\ r.ctx[r.run[g]].hwc = g
      OBVIOUS
    <3>1. CASE g = h
      BY <1>8, <2>3, <3>1
    <3>2. CASE g # h
      <4>1. r.run[g] = s.run[g] /\ g # x
        BY <1>8, <2>1, <3>2
      <4>0. s.run[g] # None /\ s.run[g] \in Threads
        BY <4>1, StateMembers
      <4>2. s.ctx[s.run[g]].mapped /\ s.ctx[s.run[g]].hwc = g /\ s.run[g] \in Threads
        BY <4>0, <4>1 DEF Fit
      <4>3. s.run[g] # t
        BY <4>2
      <4> QED
        BY <2>4, <4>1, <4>2, <4>3
    <3> QED
      BY <3>1, <3>2
  <2>7. y \in Hwcs => r.run[y] # None
    BY <1>8, <2>1, Sizes DEF Fit
  <2>8. \A u \in Threads : r.ctx[u].deschedule => r.ctx[u].mapped
    BY <2>3, <2>4 DEF Fit
  <2>9. r.error = ""
    BY <1>6 DEF Fit
  <2> QED
    BY <2>5, <2>6, <2>7, <2>8, <2>9 DEF Fit
<1>10. Delivers(s, r)
  BY <1>6, DeliversSame
<1>11. t \in Listed(s) => Keeps(s, r)
  <2> SUFFICES ASSUME t \in Listed(s) PROVE Keeps(s, r)
    OBVIOUS
  <2>1. \A u \in Threads : \/ r.ctx[u] = s.ctx[u]
                           \/ \E g \in Hwcs : r.ctx[u] = Placed(s.ctx[u], g)
                                              /\ u \in Listed(s) /\ ~s.ctx[u].mapped
    BY <1>7
  <2> QED
    BY <1>6, <1>10, <2>1, KeepsSame
<1>12. Free(r) \subseteq Free(s) /\ h \notin Free(r)
  BY <1>8, Sizes DEF Free
<1> QED
  BY <1>6, <1>7, <1>8, <1>9, <1>10, <1>11, <1>12

LEMMA FindFreeFinds ==
    ASSUME NEW s, Free(s) # {}
    PROVE  FindFreeHardwareContext(s) \in Free(s)
<1>1. Free(s) \subseteq Nat
  BY Sizes DEF Free, Hwcs
<1>2. \E h \in Free(s) : \A g \in Free(s) : h <= g
  BY <1>1, LeastNat
<1> QED
  BY <1>2 DEF FindFreeHardwareContext

-----------------------------------------------------------------------------
(* Streams that resume.                                                    *)

\* What a decision leaves: it gives hardware contexts away, and takes none.
Decided(s, r, x) ==
    r \in States /\ Fit(r, x) /\ Keeps(s, r) /\ Free(r) \subseteq Free(s)

LEMMA DecidedTransitive ==
    ASSUME NEW s, NEW r, NEW q, NEW x, NEW y, Decided(s, r, x), Decided(r, q, y)
    PROVE  Decided(s, q, y)
<1>1. Keeps(s, q)
  BY KeepsTransitive DEF Decided
<1> QED
  BY <1>1 DEF Decided

LEMMA DecidedReflexive ==
    ASSUME NEW s \in States, NEW x, Fit(s, x)
    PROVE  Decided(s, s, x)
  BY KeepsReflexive DEF Decided

\* With a hardware context in use nothing is asked of those that wait.
LEMMA BusyConserves ==
    ASSUME NEW s, NEW X, NEW h \in Hwcs, h \notin Free(s)
    PROVE  Conserves(s, X)
  BY DEF Conserves

\* TryRunningSoftwareContext of a stream that has resumed.
LEMMA TryResumedFits ==
    ASSUME NEW s \in States, NEW x, Fit(s, x), NEW t \in Listed(s),
           Conserves(s, {t}), NEW r \in TryResumed(s, t)
    PROVE  Decided(s, r, x) /\ Conserves(r, {})
<1>1. CASE Free(s) = {}
  <2>1. r = s
    BY <1>1 DEF TryResumed
  <2>2. Decided(s, s, x)
    BY DecidedReflexive
  <2>3. Conserves(s, {})
    BY <1>1, Sizes, BusyConserves
  <2> QED
    BY <2>1, <2>2, <2>3
<1>2. CASE Free(s) # {}
  <2>1. PICK h \in Free(s) : h = FindFreeHardwareContext(s)
    BY <1>2, FindFreeFinds
  <2>2. PICK p \in PickActive(s) : r = RunIfPicked(p, t, h)
    BY <1>2, <2>1 DEF TryResumed
  <2>3. /\ p \in States /\ Fit(p, x) /\ Keeps(s, p) /\ p.run = s.run
        /\ Picks(s, p) /\ Idlers(p) \subseteq Idlers(s)
    BY PickActiveFits
  <2>4. Free(p) = Free(s)
    BY <2>3 DEF Free
  <2>5. h \in Hwcs /\ p.run[h] = None /\ h # x
    <3>1. h \in Hwcs /\ s.run[h] = None
      BY DEF Free
    <3>2. h # x
      BY <3>1 DEF Fit
    <3> QED
      BY <2>3, <3>1, <3>2
  <2>6. Decided(s, p, x)
    BY <2>3, <2>4 DEF Decided
  <2>7. CASE p.picked = t
    <3>1. r = RunSoftwareContext(p, t, h)
      BY <2>2, <2>7 DEF RunIfPicked
    <3>2. /\ t \in Threads /\ t \in Listed(p)
          /\ ~p.ctx[t].mapped /\ p.ctx[t].runnable /\ ~p.ctx[t].deschedule
      BY <2>3, <2>7 DEF Picks, Idlers, Listed
    <3>3. /\ r \in States /\ Fit(r, x) /\ Keeps(p, r)
          /\ Free(r) \subseteq Free(p) /\ h \notin Free(r)
      BY <2>3, <2>5, <3>1, <3>2, RunFits
    <3>4. Decided(p, r, x)
      BY <3>3 DEF Decided
    <3> QED
      BY <2>5, <2>6, <3>3, <3>4, DecidedTransitive, BusyConserves
  <2>8. CASE p.picked # t
    <3>1. r = p
      BY <2>2, <2>8 DEF RunIfPicked
    <3>2. Free(p) # Hwcs
      BY <2>3, <2>4, <2>8 DEF Conserves, Picks
    <3> QED
      BY <2>6, <3>1, <3>2 DEF Conserves
  <2> QED
    BY <2>7, <2>8
<1> QED
  BY <1>1, <1>2

LEMMA ResumedFits ==
    ASSUME NEW s \in States, NEW x, Fit(s, x), NEW t \in Listed(s), Conserves(s, {}),
           MayHaveEvents(s, t), ~s.ctx[t].deschedule, NEW r, r = Resumed(s, t)
    PROVE  Decided(s, r, x) /\ Conserves(r, {t}) /\ Listed(r) = Listed(s)
<1>1. t \in Threads
  BY DEF Listed
<1>2. PICK p : p = Arrived(s, t)
  OBVIOUS
<1>3. /\ p \in States /\ Fit(p, x) /\ Keeps(s, p)
      /\ p.list = s.list /\ p.ctx = s.ctx /\ p.run = s.run
  BY <1>1, <1>2, ArrivedFits
<1>4. PICK c \in [Threads -> Contexts] : c = [p.ctx EXCEPT ![t] = Runnable(@)]
  <2>1. p.ctx \in [Threads -> Contexts] /\ p.ctx[t] \in Contexts
    BY <1>1, <1>3, StateMembers
  <2>2. Runnable(p.ctx[t]) \in Contexts
    BY <2>1, RunnableContext
  <2> QED
    BY <2>1, <2>2
<1>5. r = [p EXCEPT !.ctx = c]
  BY <1>2, <1>4 DEF Resumed, Runnable
<1>6. /\ r \in States /\ r.list = p.list /\ r.run = p.run /\ r.error = p.error
      /\ r.ipc = p.ipc /\ r.sent = p.sent /\ r.ctx = c
  BY <1>3, <1>5 DEF States
<1>7. \A u \in Threads : r.ctx[u] = IF u = t THEN Runnable(p.ctx[u]) ELSE p.ctx[u]
  BY <1>3, <1>4, <1>6, StateMembers
<1>8. \A u \in Threads : /\ r.ctx[u].mapped = p.ctx[u].mapped
                         /\ r.ctx[u].hwc = p.ctx[u].hwc
                         /\ r.ctx[u].deschedule = p.ctx[u].deschedule
  <2>1. \A u \in Threads : p.ctx[u] \in Contexts
    BY <1>3, StateMembers
  <2> QED
    BY <1>7, <2>1, RunnableContext
<1>9. Fit(r, x)
  <2>1. \A u \in Threads : r.ctx[u].deschedule => r.ctx[u].mapped
    BY <1>3, <1>8 DEF Fit
  <2> QED
    BY <1>3, <1>6, <1>8, <2>1, FitSame
<1>10. Keeps(p, r)
  <2>1. t \in Listed(p)
    BY <1>3 DEF Listed
  <2>2. \A u \in Threads : \/ r.ctx[u] = p.ctx[u]
                           \/ r.ctx[u] = Runnable(p.ctx[u]) /\ u \in Listed(p)
    BY <1>7, <2>1
  <2>3. Delivers(p, r)
    BY <1>6, DeliversSame
  <2> QED
    BY <1>3, <1>6, <2>2, <2>3, KeepsSame
<1>11. Keeps(s, r)
  BY <1>3, <1>10, KeepsTransitive
<1>12. Free(r) = Free(s) /\ Listed(r) = Listed(s)
  BY <1>3, <1>6 DEF Free, Listed
<1>13. Conserves(r, {t})
  <2>1. ASSUME NEW u \in Idlers(r), u # t PROVE u \in Idlers(s)
    <3>1. u \in Listed(s) /\ u \in Threads
      BY <1>12 DEF Idlers, Listed
    <3>2. r.ctx[u] = s.ctx[u]
      BY <1>3, <1>7, <2>1, <3>1
    <3> QED
      BY <3>1, <3>2 DEF Idlers
  <2> QED
    BY <1>12, <2>1 DEF Conserves
<1> QED
  BY <1>6, <1>9, <1>11, <1>12, <1>13 DEF Decided

LEMMA ResumeSlotFits ==
    ASSUME NEW s \in States, NEW x, Fit(s, x), NEW i \in Slots,
           Conserves(s, {}), NEW r \in ResumeSlot(s, i)
    PROVE  Decided(s, r, x) /\ Conserves(r, {})
<1> DEFINE t == s.list[i]
           asked == i \in Occupied(s) /\ Asleep(s, t)
<1>1. CASE r = s
  BY <1>1, DecidedReflexive
<1>2. CASE r # s
  <2>1. asked /\ MayHaveEvents(s, t) /\ r \in Then({Resumed(s, t)}, LAMBDA q : TryResumed(q, t))
    BY <1>2 DEF ResumeSlot
  <2>2. PICK p : p = Resumed(s, t) /\ r \in TryResumed(p, t)
    BY <2>1 DEF Then
  <2>3. t \in Listed(s) /\ ~s.ctx[t].deschedule
    BY <2>1, StateMembers DEF Listed, Asleep
  <2>4. Decided(s, p, x) /\ Conserves(p, {t}) /\ Listed(p) = Listed(s)
    BY <2>1, <2>2, <2>3, ResumedFits
  <2>5. p \in States /\ Fit(p, x) /\ t \in Listed(p)
    BY <2>3, <2>4 DEF Decided
  <2>6. Decided(p, r, x) /\ Conserves(r, {})
    BY <2>2, <2>4, <2>5, TryResumedFits
  <2> QED
    BY <2>4, <2>6, DecidedTransitive
<1> QED
  BY <1>1, <1>2

-----------------------------------------------------------------------------
(* The two loops of a scheduling decision.  Sets that hold the states they *)
(* start from and are closed under their body hold the states they end in. *)

\* One turn, from any of the states the turns before it may leave.
Turn(S, i) == UNION {ResumeSlot(r, i) : r \in S}
Admit(S, n) == UNION {AddSoftwareContext(r, n) : r \in S}

LEMMA ResumptionLoop ==
    ASSUME NEW G, NEW s \in G, \A r \in G : \A i \in Slots : ResumeSlot(r, i) \subseteq G
    PROVE  CheckStreamResumption(s) \subseteq G
<1> DEFINE N == MAX_NUM_SWCS
           Meets(f, k) == f = [n \in 0 .. k |-> IF n = 0 THEN {s}
                                              ELSE Turn(f[n - 1], n - 1)]
           upTo[n \in 0..MAX_NUM_SWCS] ==
             IF n = 0 THEN {s} ELSE Then(upTo[n - 1], LAMBDA r : ResumeSlot(r, n - 1))
<1>1. N \in Nat /\ \A n \in 1 .. N : n - 1 \in Slots
  BY Sizes DEF Slots
<1>2. CheckStreamResumption(s) = upTo[N]
  BY DEF CheckStreamResumption
<1>3. \E f : Meets(f, N)
  <2> DEFINE Short == {k \in 0 .. N : ~\E f : Meets(f, k)}
  <2>1. Short \subseteq Nat
    BY <1>1
  <2> SUFFICES ASSUME Short # {} PROVE FALSE
    <3>1. N \in 0 .. N
      BY <1>1
    <3> HIDE DEF Meets
    <3> QED
      BY <3>1
  <2>2. PICK k \in Short : \A j \in Short : k <= j
    <3> HIDE DEF Short
    <3> QED
      BY <2>1, LeastNat
  <2>3. k \in 0 .. N /\ ~\E f : Meets(f, k)
    OBVIOUS
  <2>4. k # 0
    <3>1. PICK f : f = [n \in 0 .. 0 |-> {s}]
      OBVIOUS
    <3>2. Meets(f, 0)
      BY <3>1
    <3> QED
      BY <2>3, <3>2
  <2>5. k - 1 \in 0 .. N /\ k - 1 \notin Short
    <3>1. k - 1 \in 0 .. N /\ ~(k <= k - 1)
      BY <1>1, <2>3, <2>4
    <3> HIDE DEF Short
    <3> QED
      BY <2>2, <3>1
  <2>6. PICK f : Meets(f, k - 1)
    BY <2>5
  <2>7. PICK g : g = [n \in 0 .. k |-> IF n < k THEN f[n] ELSE Turn(f[k - 1], k - 1)]
    OBVIOUS
  <2>8. \A n \in 0 .. k - 1 : f[n] = IF n = 0 THEN {s} ELSE Turn(f[n - 1], n - 1)
    BY <2>6
  <2>9. \A n \in 0 .. k : g[n] = IF n = 0 THEN {s} ELSE Turn(g[n - 1], n - 1)
    <3> SUFFICES ASSUME NEW n \in 0 .. k
                 PROVE  g[n] = IF n = 0 THEN {s} ELSE Turn(g[n - 1], n - 1)
      OBVIOUS
    <3>1. \A m \in 0 .. k - 1 : g[m] = f[m]
      BY <2>3, <2>7
    <3>2. CASE n = k
      <4>1. k - 1 \in 0 .. k - 1 /\ k \in 0 .. k
        BY <1>1, <2>3, <2>4
      <4>2. g[k] = Turn(f[k - 1], k - 1)
        BY <2>7, <4>1
      <4> QED
        BY <2>4, <3>1, <3>2, <4>1, <4>2
    <3>3. CASE n # k
      <4>1. n \in 0 .. k - 1 /\ (n # 0 => n - 1 \in 0 .. k - 1)
        BY <2>3, <3>3
      <4> QED
        BY <2>8, <3>1, <4>1
    <3> QED
      BY <3>2, <3>3
  <2>10. Meets(g, k)
    BY <2>7, <2>9
  <2> QED
    BY <2>3, <2>10
<1>4. \A n \in 0 .. N : upTo[n] = IF n = 0 THEN {s} ELSE Turn(upTo[n - 1], n - 1)
  <2>1. Meets(upTo, N)
    <3>1. upTo = CHOOSE f : f = [n \in 0 .. N |-> IF n = 0 THEN {s}
                                   ELSE Then(f[n - 1], LAMBDA r : ResumeSlot(r, n - 1))]
      OBVIOUS
    <3>2. \E f : f = [n \in 0 .. N |-> IF n = 0 THEN {s}
                         ELSE Then(f[n - 1], LAMBDA r : ResumeSlot(r, n - 1))]
      <4>1. PICK f : Meets(f, N)
        BY <1>3
      <4>2. f = [n \in 0 .. N |-> IF n = 0 THEN {s}
                   ELSE Then(f[n - 1], LAMBDA r : ResumeSlot(r, n - 1))]
        BY <4>1 DEF Then, Turn
      <4> QED
        BY <4>2
    <3>3. upTo = [n \in 0 .. N |-> IF n = 0 THEN {s}
                    ELSE Then(upTo[n - 1], LAMBDA r : ResumeSlot(r, n - 1))]
      <4> HIDE DEF upTo
      <4> QED
        BY <3>1, <3>2
    <3> HIDE DEF upTo
    <3> QED
      BY <3>3 DEF Then, Turn
  <2> HIDE DEF upTo
  <2> QED
    BY <2>1
<1> HIDE DEF upTo, Meets
<1> DEFINE Astray == {n \in 0 .. N : ~(upTo[n] \subseteq G)}
<1>5. Astray = {}
  <2> SUFFICES ASSUME Astray # {} PROVE FALSE
    OBVIOUS
  <2>1. Astray \subseteq Nat
    BY <1>1
  <2>2. PICK n \in Astray : \A j \in Astray : n <= j
    <3> HIDE DEF Astray
    <3> QED
      BY <2>1, LeastNat
  <2>3. n \in 0 .. N /\ ~(upTo[n] \subseteq G)
    OBVIOUS
  <2>4. n # 0
    BY <1>4, <2>3
  <2>5. n - 1 \in 0 .. N /\ n \in 1 .. N /\ ~(n <= n - 1)
    BY <1>1, <2>3, <2>4
  <2>6. upTo[n - 1] \subseteq G
    BY <2>2, <2>5
  <2>7. upTo[n] = Turn(upTo[n - 1], n - 1)
    BY <1>4, <2>3, <2>4
  <2>8. Turn(upTo[n - 1], n - 1) \subseteq G
    BY <1>1, <2>5, <2>6 DEF Turn
  <2> QED
    BY <2>3, <2>7, <2>8
<1> QED
  BY <1>1, <1>2, <1>5

LEMMA NewStreamLoop ==
    ASSUME known \in Nat, started \in Nat, known <= started,
           NEW G, NEW s \in G[known],
           \A n \in known + 1 .. started : \A r \in G[n - 1] :
             AddSoftwareContext(r, n) \subseteq G[n]
    PROVE  CheckForNewStream(s) \subseteq G[started]
<1> DEFINE Meets(f, k) == f = [n \in known .. k |->
                                 IF n = known THEN {s}
                                 ELSE Admit(f[n - 1], n)]
           upTo[n \in known..started] ==
             IF n = known THEN {s}
             ELSE Then(upTo[n - 1], LAMBDA r : AddSoftwareContext(r, n))
<1>2. CheckForNewStream(s) = upTo[started]
  BY DEF CheckForNewStream
<1>3. \E f : Meets(f, started)
  <2> DEFINE Short == {k \in known .. started : ~\E f : Meets(f, k)}
  <2>1. Short \subseteq Nat
    OBVIOUS
  <2> SUFFICES ASSUME Short # {} PROVE FALSE
    <3>1. started \in known .. started
      OBVIOUS
    <3> HIDE DEF Meets
    <3> QED
      BY <3>1
  <2>2. PICK k \in Short : \A j \in Short : k <= j
    <3> HIDE DEF Short
    <3> QED
      BY <2>1, LeastNat
  <2>3. k \in known .. started /\ ~\E f : Meets(f, k)
    OBVIOUS
  <2>4. k # known
    <3>1. PICK f : f = [n \in known .. known |-> {s}]
      OBVIOUS
    <3>2. Meets(f, known)
      BY <3>1
    <3> QED
      BY <2>3, <3>2
  <2>5. k - 1 \in known .. started /\ k - 1 \notin Short
    <3>1. k - 1 \in known .. started /\ ~(k <= k - 1)
      BY <2>3, <2>4
    <3> HIDE DEF Short
    <3> QED
      BY <2>2, <3>1
  <2>6. PICK f : Meets(f, k - 1)
    BY <2>5
  <2>7. PICK g : g = [n \in known .. k |-> IF n < k THEN f[n]
                                           ELSE Admit(f[k - 1], k)]
    OBVIOUS
  <2>8. \A n \in known .. k - 1 : f[n] = IF n = known THEN {s}
                                         ELSE Admit(f[n - 1], n)
    BY <2>6
  <2>9. \A n \in known .. k : g[n] = IF n = known THEN {s}
                                     ELSE Admit(g[n - 1], n)
    <3> SUFFICES ASSUME NEW n \in known .. k
                 PROVE  g[n] = IF n = known THEN {s} ELSE Admit(g[n - 1], n)
      OBVIOUS
    <3>1. \A m \in known .. k - 1 : g[m] = f[m]
      BY <2>3, <2>7
    <3>2. CASE n = k
      <4>1. k - 1 \in known .. k - 1 /\ k \in known .. k
        BY <2>3, <2>4
      <4>2. g[k] = Admit(f[k - 1], k)
        BY <2>7, <4>1
      <4> QED
        BY <2>4, <3>1, <3>2, <4>1, <4>2
    <3>3. CASE n # k
      <4>1. n \in known .. k - 1 /\ (n # known => n - 1 \in known .. k - 1)
        BY <2>3, <3>3
      <4> QED
        BY <2>8, <3>1, <4>1
    <3> QED
      BY <3>2, <3>3
  <2>10. Meets(g, k)
    BY <2>7, <2>9
  <2> QED
    BY <2>3, <2>10
<1>4. \A n \in known .. started :
        upTo[n] = IF n = known THEN {s} ELSE Admit(upTo[n - 1], n)
  <2>1. Meets(upTo, started)
    <3>1. upTo = CHOOSE f : f = [n \in known .. started |-> IF n = known THEN {s}
                                   ELSE Then(f[n - 1], LAMBDA r : AddSoftwareContext(r, n))]
      OBVIOUS
    <3>2. \E f : f = [n \in known .. started |-> IF n = known THEN {s}
                         ELSE Then(f[n - 1], LAMBDA r : AddSoftwareContext(r, n))]
      BY <1>3 DEF Then, Admit
    <3>3. upTo = [n \in known .. started |-> IF n = known THEN {s}
                    ELSE Then(upTo[n - 1], LAMBDA r : AddSoftwareContext(r, n))]
      <4> HIDE DEF upTo
      <4> QED
        BY <3>1, <3>2
    <3> HIDE DEF upTo
    <3> QED
      BY <3>3 DEF Then, Admit
  <2> HIDE DEF upTo
  <2> QED
    BY <2>1
<1> HIDE DEF upTo, Meets
<1> DEFINE Astray == {n \in known .. started : ~(upTo[n] \subseteq G[n])}
<1>5. Astray = {}
  <2> SUFFICES ASSUME Astray # {} PROVE FALSE
    OBVIOUS
  <2>1. Astray \subseteq Nat
    OBVIOUS
  <2>2. PICK n \in Astray : \A j \in Astray : n <= j
    <3> HIDE DEF Astray
    <3> QED
      BY <2>1, LeastNat
  <2>3. n \in known .. started /\ ~(upTo[n] \subseteq G[n])
    OBVIOUS
  <2>4. n # known
    BY <1>4, <2>3
  <2>5. n - 1 \in known .. started /\ n \in known + 1 .. started /\ ~(n <= n - 1)
    BY <2>3, <2>4
  <2>6. upTo[n - 1] \subseteq G[n - 1]
    BY <2>2, <2>5
  <2>7. upTo[n] = Admit(upTo[n - 1], n)
    BY <1>4, <2>3, <2>4
  <2>8. Admit(upTo[n - 1], n) \subseteq G[n]
    BY <2>5, <2>6 DEF Admit
  <2> QED
    BY <2>3, <2>7, <2>8
<1> QED
  BY <1>2, <1>5

-----------------------------------------------------------------------------
(* A whole scheduling decision.                                            *)

LEMMA ResumptionFits ==
    ASSUME NEW s \in States, NEW x, Fit(s, x), Conserves(s, {}),
           NEW r \in CheckStreamResumption(s)
    PROVE  Decided(s, r, x) /\ Conserves(r, {})
<1> DEFINE G == {q \in States : Decided(s, q, x) /\ Conserves(q, {})}
<1>1. s \in G
  BY DecidedReflexive
<1>2. ASSUME NEW q \in G, NEW i \in Slots PROVE ResumeSlot(q, i) \subseteq G
  <2> SUFFICES ASSUME NEW p \in ResumeSlot(q, i) PROVE p \in G
    OBVIOUS
  <2>1. q \in States /\ Fit(q, x) /\ Decided(s, q, x) /\ Conserves(q, {})
    BY DEF Decided
  <2>2. Decided(q, p, x) /\ Conserves(p, {})
    BY <2>1, ResumeSlotFits
  <2>3. Decided(s, p, x) /\ p \in States
    BY <2>1, <2>2, DecidedTransitive DEF Decided
  <2> QED
    BY <2>2, <2>3
<1>3. CheckStreamResumption(s) \subseteq G
  <2> HIDE DEF G
  <2> QED
    BY <1>1, <1>2, ResumptionLoop
<1> QED
  BY <1>3

\* A context is picked, or none could be.
Outcome(r) ==
    /\ r.picked = None => Idlers(r) = {}
    /\ r.picked # None => /\ r.picked \in Idlers(r)
                          /\ r.ctx[r.picked].runnable
                          /\ ~r.ctx[r.picked].deschedule

LEMMA PicksOutcome ==
    ASSUME NEW s, NEW r, Picks(s, r) PROVE Outcome(r)
  BY Sizes DEF Picks, Outcome, Idlers, Listed

LEMMA PickConserves ==
    ASSUME NEW s, NEW r, r.run = s.run, Idlers(r) \subseteq Idlers(s),
           NEW X, Conserves(s, X)
    PROVE  Conserves(r, X)
  BY DEF Conserves, Free

LEMMA PickWithoutEventsFits ==
    ASSUME NEW s \in States, NEW x, Fit(s, x), Conserves(s, {}),
           NEW r, r = PickWithoutEvents(s)
    PROVE  Decided(s, r, x) /\ Conserves(r, {}) /\ Outcome(r)
<1>1. ASSUME NEW A, A # {}, A \subseteq Occupied(s), r = Pick(s, Nearest(s, A)),
             \A i \in A : s.list[i] \in Idlers(s)
      PROVE  Decided(s, r, x) /\ Conserves(r, {}) /\ Outcome(r)
  <2>1. PICK i \in A : i = Nearest(s, A)
    BY <1>1, NearestIsAccepted DEF Occupied
  <2>2. i \in Occupied(s) /\ s.list[i] \in Idlers(s) /\ r = Pick(s, i)
    BY <1>1, <2>1
  <2>3. /\ r \in States /\ Fit(r, x) /\ Keeps(s, r) /\ r.run = s.run
        /\ Picks(s, r) /\ Idlers(r) \subseteq Idlers(s)
    BY <2>2, PickFits
  <2>4. Decided(s, r, x)
    BY <2>3 DEF Decided, Free
  <2> QED
    BY <2>3, <2>4, PicksOutcome, PickConserves
<1>2. CASE Waiting(s) # {}
  BY <1>1, <1>2, Accepted DEF PickWithoutEvents
<1>3. CASE Waiting(s) = {} /\ Active(s, FALSE) # {}
  BY <1>1, <1>3, Accepted DEF PickWithoutEvents
<1>4. CASE Waiting(s) = {} /\ Active(s, FALSE) = {}
  <2>1. PICK n \in Slots : n = After(s.next)
    BY Sizes DEF States, After, Slots
  <2>2. r = [s EXCEPT !.next = n, !.picked = None]
    BY <1>4, <2>1 DEF PickWithoutEvents
  <2>3. /\ r \in States /\ r.picked = None
        /\ r.list = s.list /\ r.ctx = s.ctx /\ r.run = s.run /\ r.error = s.error
        /\ r.ipc = s.ipc /\ r.sent = s.sent
    BY <2>2 DEF States
  <2>4. Idlers(r) = {}
    <3>1. Idlers(r) = Idlers(s)
      BY <2>3 DEF Idlers, Listed
    <3> QED
      BY <1>4, <3>1, Accepted
  <2>5. Fit(r, x)
    <3>1. \A t \in Threads : r.ctx[t].deschedule => r.ctx[t].mapped
      BY <2>3 DEF Fit
    <3> QED
      BY <2>3, <3>1, FitSame
  <2>6. Keeps(s, r)
    BY <2>3, DeliversSame, KeepsSame
  <2>7. Decided(s, r, x)
    BY <2>3, <2>5, <2>6 DEF Decided, Free
  <2> QED
    BY <2>3, <2>4, <2>7 DEF Conserves, Outcome
<1> QED
  BY <1>2, <1>3, <1>4

LEMMA PickActiveDecides ==
    ASSUME NEW s \in States, NEW x, Fit(s, x), Conserves(s, {}),
           NEW r \in PickActive(s)
    PROVE  Decided(s, r, x) /\ Conserves(r, {}) /\ Outcome(r)
<1>1. /\ r \in States /\ Fit(r, x) /\ Keeps(s, r) /\ r.run = s.run
      /\ Picks(s, r) /\ Idlers(r) \subseteq Idlers(s)
  BY PickActiveFits
<1>2. Decided(s, r, x)
  BY <1>1 DEF Decided, Free
<1> QED
  BY <1>1, <1>2, PicksOutcome, PickConserves

LEMMA PickSoftwareContextFits ==
    ASSUME NEW s \in States, NEW x, Fit(s, x), Conserves(s, {}),
           NEW r \in PickSoftwareContext(s)
    PROVE  Decided(s, r, x) /\ Conserves(r, {}) /\ Outcome(r)
<1>1. CASE r \in PickActive(s)
  BY <1>1, PickActiveDecides
<1>2. CASE r \notin PickActive(s)
  <2>1. PICK p \in CheckStreamResumption(s) : r \in PickAfterResumption(p)
    BY <1>2 DEF PickSoftwareContext, Then, NoneFound
  <2>2. Decided(s, p, x) /\ Conserves(p, {}) /\ p \in States /\ Fit(p, x)
    BY ResumptionFits DEF Decided
  <2>3. Decided(p, r, x) /\ Conserves(r, {}) /\ Outcome(r)
    <3>1. CASE r \in PickActive(p)
      BY <2>2, <3>1, PickActiveDecides
    <3>2. CASE r \notin PickActive(p)
      <4>1. r = PickWithoutEvents(p)
        BY <2>1, <3>2 DEF PickAfterResumption, NoneFound
      <4> QED
        BY <2>2, <4>1, PickWithoutEventsFits
    <3> QED
      BY <3>1, <3>2
  <2> QED
    BY <2>2, <2>3, DecidedTransitive
<1> QED
  BY <1>1, <1>2

-----------------------------------------------------------------------------
(* New streams and completed context switches.                             *)

LEMMA NewContextTyped ==
    /\ NewContext \in Contexts
    /\ ~NewContext.mapped /\ ~NewContext.deschedule /\ NewContext.runnable
    /\ ~NewContext.timed
  BY Sizes DEF NewContext, Contexts

\* TryRunningSoftwareContext of a stream that has just been listed and whose
\* first event is there: the first search finds some context.
LEMMA TryListedFits ==
    ASSUME NEW s \in States, Fit(s, NoHole), NEW t \in Listed(s), Conserves(s, {t}),
           ~s.ctx[t].mapped, s.ctx[t].runnable, FeederHasEvents(s, t),
           NEW r \in TryRunningSoftwareContext(s, t)
    PROVE  Decided(s, r, NoHole) /\ Conserves(r, {})
<1>1. CASE Free(s) = {}
  <2>1. r = s
    BY <1>1 DEF TryRunningSoftwareContext
  <2>2. Decided(s, s, NoHole)
    BY DecidedReflexive
  <2>3. Conserves(s, {})
    BY <1>1, Sizes, BusyConserves
  <2> QED
    BY <2>1, <2>2, <2>3
<1>2. CASE Free(s) # {}
  <2>1. Active(s, TRUE) # {}
    <3>1. PICK i \in Slots : s.list[i] = t
      BY DEF Listed
    <3>2. i \in Occupied(s)
      BY <3>1, Sizes DEF Occupied, Listed
    <3> QED
      BY <3>1, <3>2 DEF Active
  <2>2. NoneFound(s) = {}
    BY <2>1 DEF NoneFound
  <2>3. PickSoftwareContext(s) = PickActive(s)
    BY <2>2 DEF PickSoftwareContext, Then
  <2>4. r \in TryResumed(s, t)
    BY <1>2, <2>3 DEF TryRunningSoftwareContext, TryResumed
  <2> QED
    BY <2>4, TryResumedFits
<1> QED
  BY <1>1, <1>2

\* A stream that finds the list full is dropped: another one may be picked,
\* but none is run.
LEMMA TryDroppedFits ==
    ASSUME NEW s \in States, Fit(s, NoHole), Conserves(s, {}),
           NEW t \in Threads, t \notin Listed(s),
           NEW r \in TryRunningSoftwareContext(s, t)
    PROVE  Decided(s, r, NoHole) /\ Conserves(r, {})
<1>1. CASE Free(s) = {}
  <2>1. r = s
    BY <1>1 DEF TryRunningSoftwareContext
  <2> QED
    BY <2>1, DecidedReflexive
<1>2. CASE Free(s) # {}
  <2>1. PICK p \in PickSoftwareContext(s) :
               r = RunIfPicked(p, t, FindFreeHardwareContext(s))
    BY <1>2 DEF TryRunningSoftwareContext
  <2>2. Decided(s, p, NoHole) /\ Conserves(p, {}) /\ Outcome(p)
    BY PickSoftwareContextFits
  <2>3. p.picked # t
    BY <2>2, Sizes DEF Idlers, Decided, Keeps, Listed, Outcome
  <2>4. r = p
    BY <2>1, <2>3 DEF RunIfPicked
  <2> QED
    BY <2>2, <2>4
<1> QED
  BY <1>1, <1>2

LEMMA AddFits ==
    ASSUME NEW s \in States, Fit(s, NoHole), Conserves(s, {}),
           NEW t \in Threads, t \notin Listed(s), s.ctx[t] = NewContext,
           s.ipc[t].state = "ready",
           NEW r \in AddSoftwareContext(s, t)
    PROVE  /\ r \in States /\ Fit(r, NoHole) /\ Conserves(r, {})
           /\ \A u \in Threads : u \notin Listed(s) /\ u # t =>
                                   r.ctx[u] = s.ctx[u] /\ u \notin Listed(r)
           /\ \A u \in Threads : Persists(s.ctx[u], r.ctx[u])
           /\ Delivers(s, r)
<1> DEFINE free == Slots \ Occupied(s)
<1>1. CASE free = {}
  <2>1. r \in TryRunningSoftwareContext(s, t)
    BY <1>1 DEF AddSoftwareContext, Then
  <2>2. Decided(s, r, NoHole) /\ Conserves(r, {})
    BY <2>1, TryDroppedFits
  <2> QED
    BY <2>2 DEF Decided, Keeps, Listed
<1>2. CASE free # {}
  <2>1. PICK j \in free : j = CHOOSE i \in free : \A k \in free : i <= k
    <3>1. free \subseteq Nat
      BY Sizes DEF Slots
    <3> HIDE DEF free
    <3>2. \E i \in free : \A k \in free : i <= k
      BY <1>2, <3>1, LeastNat
    <3> QED
      BY <3>2
  <2>2. j \in Slots /\ s.list[j] = None
    BY DEF Occupied
  <2>3. PICK l \in [Slots -> Threads \cup {None}] : l = [s.list EXCEPT ![j] = t]
    BY StateMembers
  <2>4. PICK q : q = [s EXCEPT !.list = l]
    OBVIOUS
  <2>5. r \in TryRunningSoftwareContext(q, t)
    <3>1. [s EXCEPT !.list[j] = t] = q
      BY <2>3, <2>4
    <3> QED
      BY <1>2, <2>1, <3>1 DEF AddSoftwareContext, Then
  <2>6. /\ q \in States /\ q.list = l /\ q.ctx = s.ctx /\ q.run = s.run
        /\ q.error = s.error /\ q.ipc = s.ipc /\ q.sent = s.sent
    BY <2>4 DEF States
  <2>7. \A i \in Slots : q.list[i] = IF i = j THEN t ELSE s.list[i]
    BY <2>3, <2>6, StateMembers
  <2>8. Listed(q) = Listed(s) \cup {t}
    BY <2>2, <2>7, Sizes DEF Listed
  <2>9. Fit(q, NoHole)
    <3>1. \A u \in Threads : q.ctx[u].deschedule => q.ctx[u].mapped
      BY <2>6 DEF Fit
    <3> QED
      BY <2>6, <3>1, FitSame
  <2>10. Conserves(q, {t})
    BY <2>6, <2>8 DEF Conserves, Free, Idlers
  <2>11. ~q.ctx[t].mapped /\ q.ctx[t].runnable /\ FeederHasEvents(q, t)
    BY <2>6, NewContextTyped DEF FeederHasEvents
  <2>12. Decided(q, r, NoHole) /\ Conserves(r, {})
    BY <2>5, <2>6, <2>8, <2>9, <2>10, <2>11, TryListedFits
  <2>13. r \in States /\ Fit(r, NoHole) /\ Keeps(q, r)
    BY <2>12 DEF Decided
  <2>14. \A u \in Threads : u \notin Listed(s) /\ u # t =>
                              r.ctx[u] = s.ctx[u] /\ u \notin Listed(r)
    <3>1. Listed(r) = Listed(q)
      BY <2>13 DEF Keeps, Listed
    <3> QED
      BY <2>6, <2>8, <2>13, <3>1 DEF Keeps
  <2>15. \A u \in Threads : Persists(s.ctx[u], r.ctx[u])
    BY <2>6, <2>13 DEF Keeps
  <2>16. Delivers(s, r)
    <3>1. Delivers(s, q)
      BY <2>6, DeliversSame
    <3>2. Delivers(q, r)
      BY <2>13 DEF Keeps
    <3> QED
      BY <3>1, <3>2, DeliversTransitive
  <2> QED
    BY <2>12, <2>13, <2>14, <2>15, <2>16
<1> QED
  BY <1>1, <1>2

\* Threads the scheduler has not been told of, and their first events.
Untouched(s, n) ==
    \A t \in Threads : t > n => s.ctx[t] = NewContext /\ t \notin Listed(s)

FirstEvents(s, n, m) ==
    \A t \in Threads : t > n /\ t <= m => s.ipc[t].state = "ready"

LEMMA FirstEventsStay ==
    ASSUME NEW s, NEW r, Delivers(s, r), NEW n, NEW m, FirstEvents(s, n, m)
    PROVE  FirstEvents(r, n, m)
  BY DEF Delivers, FirstEvents, Came

\* A decision that may also have put new streams into the list.
Extended(s, r) ==
    /\ r \in States /\ Fit(r, NoHole) /\ Conserves(r, {})
    /\ \A u \in Threads : Persists(s.ctx[u], r.ctx[u])
    /\ Delivers(s, r)

LEMMA NewStreamsFit ==
    ASSUME known \in Nat, started \in Nat, known <= started, started <= NThreads,
           NEW s \in States, Fit(s, NoHole), Conserves(s, {}),
           Untouched(s, known), FirstEvents(s, known, started),
           NEW r \in CheckForNewStream(s)
    PROVE  Extended(s, r) /\ Untouched(r, started)
<1> DEFINE Good(n) == {q \in States : Extended(s, q) /\ Untouched(q, n)}
           G == [n \in known .. started |-> Good(n)]
<1>2. \A n \in known .. started : G[n] = Good(n)
  OBVIOUS
<1>3. known \in known .. started /\ started \in known .. started
  OBVIOUS
<1>4. s \in G[known]
  BY <1>2, <1>3, KeepsReflexive DEF Keeps, Extended
<1>5. ASSUME NEW n \in known + 1 .. started, NEW p \in G[n - 1]
      PROVE  AddSoftwareContext(p, n) \subseteq G[n]
  <2> SUFFICES ASSUME NEW q \in AddSoftwareContext(p, n) PROVE q \in G[n]
    OBVIOUS
  <2>1. n \in known .. started /\ n - 1 \in known .. started /\ n \in Threads
        /\ n > known /\ n <= started /\ n > n - 1
    BY Sizes DEF Threads
  <2>2. p \in Good(n - 1)
    BY <1>2, <2>1
  <2>3. /\ p \in States /\ Fit(p, NoHole) /\ Conserves(p, {})
        /\ Untouched(p, n - 1)
        /\ \A u \in Threads : Persists(s.ctx[u], p.ctx[u])
        /\ Delivers(s, p)
    BY <2>2 DEF Extended
  <2>4. p.ipc[n].state = "ready"
    BY <2>1, <2>3, FirstEventsStay DEF FirstEvents
  <2>5. n \notin Listed(p) /\ p.ctx[n] = NewContext
    BY <2>1, <2>3 DEF Untouched
  <2>6. /\ q \in States /\ Fit(q, NoHole) /\ Conserves(q, {})
        /\ \A u \in Threads : u \notin Listed(p) /\ u # n =>
                                q.ctx[u] = p.ctx[u] /\ u \notin Listed(q)
        /\ \A u \in Threads : Persists(p.ctx[u], q.ctx[u])
        /\ Delivers(p, q)
    BY <2>1, <2>3, <2>4, <2>5, AddFits
  <2>7. Untouched(q, n)
    <3> SUFFICES ASSUME NEW u \in Threads, u > n
                 PROVE  q.ctx[u] = NewContext /\ u \notin Listed(q)
      BY DEF Untouched
    <3>1. u > n - 1 /\ u # n
      BY DEF Threads
    <3> QED
      BY <2>3, <2>6, <3>1 DEF Untouched
  <2>8. Extended(s, q)
    <3>1. \A u \in Threads : Persists(s.ctx[u], q.ctx[u])
      BY <2>3, <2>6, PersistsTransitive
    <3>2. Delivers(s, q)
      BY <2>3, <2>6, DeliversTransitive
    <3> QED
      BY <2>6, <3>1, <3>2 DEF Extended
  <2> QED
    BY <1>2, <2>1, <2>6, <2>7, <2>8
<1>6. CheckForNewStream(s) \subseteq G[started]
  <2> HIDE DEF G
  <2> QED
    BY <1>4, <1>5, NewStreamLoop
<1>7. r \in Good(started)
  BY <1>2, <1>3, <1>6
<1> QED
  BY <1>7

\* What a context is when it has left its hardware context.
Departed(c) == [c EXCEPT !.deschedule = FALSE, !.mapped = FALSE, !.hwc = 0]

LEMMA DepartedContext ==
    ASSUME NEW c \in Contexts
    PROVE  /\ Departed(c) \in Contexts
           /\ ~Departed(c).deschedule /\ ~Departed(c).mapped
           /\ Kept(c, Departed(c))
  BY Sizes DEF Departed, Contexts, Kept

\* Unmapped takes one context off its hardware context, and at most that one
\* out of the list.
LEMMA UnmappedFits ==
    ASSUME NEW s \in States, Fit(s, NoHole), NEW t \in Threads, s.ctx[t].mapped
    PROVE  LET r == Unmapped(s, t)
           IN  /\ r \in States /\ Fit(r, s.ctx[t].hwc) /\ Delivers(s, r)
               /\ s.run[s.ctx[t].hwc] = t /\ r.run = s.run
               /\ Listed(r) \subseteq Listed(s)
               /\ \A u \in Threads : u # t => r.ctx[u] = s.ctx[u]
               /\ Kept(s.ctx[t], r.ctx[t])
<1>1. PICK h : h = s.ctx[t].hwc
  OBVIOUS
<1>2. h \in Hwcs /\ s.run[h] = t
  BY <1>1, StateMembers DEF Fit, Contexts
<1>3. PICK c \in [Threads -> Contexts] : c = [s.ctx EXCEPT ![t] = Departed(@)]
  BY StateMembers, DepartedContext
<1>4. PICK l \in [Slots -> Threads \cup {None}] :
        l = [i \in Slots |-> IF s.ctx[t].delete /\ s.list[i] = t THEN None ELSE s.list[i]]
  BY StateMembers
<1>5. PICK r : r = Unmapped(s, t)
  OBVIOUS
<1>6. r = [s EXCEPT !.ctx = c, !.list = l]
  <2>1. r = [s EXCEPT !.ctx[t].deschedule = FALSE, !.ctx[t].mapped = FALSE,
                      !.ctx[t].hwc = 0, !.list = l]
    BY <1>4, <1>5 DEF Unmapped
  <2>2. [s EXCEPT !.ctx[t].deschedule = FALSE, !.ctx[t].mapped = FALSE,
                  !.ctx[t].hwc = 0, !.list = l]
          = [s EXCEPT !.ctx = [s.ctx EXCEPT ![t] = Departed(@)], !.list = l]
    BY DEF Departed, States
  <2> QED
    BY <1>3, <2>1, <2>2
<1>7. /\ r \in States /\ r.ctx = c /\ r.list = l /\ r.run = s.run /\ r.error = s.error
  BY <1>6 DEF States
<1>8. \A u \in Threads : r.ctx[u] = IF u = t THEN Departed(s.ctx[u]) ELSE s.ctx[u]
  BY <1>3, <1>7, StateMembers
<1>9. ~r.ctx[t].deschedule /\ ~r.ctx[t].mapped /\ Kept(s.ctx[t], r.ctx[t])
  BY <1>8, StateMembers, DepartedContext
<1>10. Listed(r) \subseteq Listed(s)
  BY <1>4, <1>7, Sizes DEF Listed
<1>11. Fit(r, h)
  <2>1. ASSUME NEW u \in Threads, r.ctx[u].mapped
        PROVE  r.ctx[u].hwc # h /\ r.run[r.ctx[u].hwc] = u
    <3>1. u # t /\ r.ctx[u] = s.ctx[u]
      BY <1>8, <1>9, <2>1
    <3>2. s.run[s.ctx[u].hwc] = u
      BY <2>1, <3>1 DEF Fit
    <3> QED
      BY <1>2, <1>7, <3>1, <3>2
  <2>2. ASSUME NEW g \in Hwcs, g # h, r.run[g] # None
        PROVE  r.ctx[r.run[g]].mapped /\ r.ctx[r.run[g]].hwc = g
    <3>1. PICK u \in Threads : u = s.run[g]
      BY <1>7, <2>2, StateMembers
    <3>2. g # NoHole
      BY Sizes DEF NoHole, Hwcs
    <3>3. s.ctx[u].mapped /\ s.ctx[u].hwc = g
      BY <1>7, <2>2, <3>1, <3>2 DEF Fit
    <3>4. u # t
      BY <1>1, <2>2, <3>3
    <3> QED
      BY <1>7, <1>8, <3>1, <3>3, <3>4
  <2>3. r.run[h] # None
    BY <1>2, <1>7, Sizes
  <2>4. \A u \in Threads : r.ctx[u].deschedule => r.ctx[u].mapped
    BY <1>8, <1>9 DEF Fit
  <2>5. r.error = ""
    BY <1>7 DEF Fit
  <2> QED
    BY <2>1, <2>2, <2>3, <2>4, <2>5 DEF Fit
<1>12. Delivers(s, r)
  <2>1. r.ipc = s.ipc /\ r.sent = s.sent
    BY <1>6 DEF States
  <2> QED
    BY <2>1, DeliversSame
<1> QED
  BY <1>1, <1>2, <1>5, <1>7, <1>8, <1>9, <1>10, <1>11, <1>12

LEMMA SwitchFits ==
    ASSUME NEW s \in States, Fit(s, NoHole),
           NEW t \in Threads, s.ctx[t].mapped, s.ctx[t].deschedule,
           NEW r \in ContextSwitchCompleted(s, t)
    PROVE  /\ r \in States /\ Fit(r, NoHole) /\ Conserves(r, {})
           /\ Listed(r) \subseteq Listed(s)
           /\ \A u \in Threads : u \notin Listed(s) /\ u # t =>
                                   r.ctx[u] = s.ctx[u]
           /\ \A u \in Threads : u # t => Persists(s.ctx[u], r.ctx[u])
           /\ Kept(s.ctx[t], r.ctx[t])
           /\ Delivers(s, r)
<1>1. PICK h \in Hwcs : h = s.ctx[t].hwc
  BY StateMembers DEF Contexts
<1>2. PICK q : q = Unmapped(s, t)
  OBVIOUS
<1>3. /\ q \in States /\ Fit(q, h) /\ Delivers(s, q)
      /\ q.run[h] = t
      /\ Listed(q) \subseteq Listed(s)
      /\ \A u \in Threads : u # t => q.ctx[u] = s.ctx[u]
      /\ Kept(s.ctx[t], q.ctx[t])
  BY <1>1, <1>2, UnmappedFits
<1>4. Conserves(q, {})
  <2>1. h \notin Free(q)
    BY <1>3, Sizes DEF Free
  <2> QED
    BY <2>1, BusyConserves
<1>5. PICK p \in PickSoftwareContext(q) : r = RunPicked(p, h)
  BY <1>1, <1>2 DEF ContextSwitchCompleted, Then
<1>6. /\ p \in States /\ Fit(p, h) /\ Keeps(q, p) /\ Outcome(p) /\ Delivers(s, p)
  <2>1. Decided(q, p, h) /\ Outcome(p)
    BY <1>3, <1>4, PickSoftwareContextFits
  <2>2. Delivers(s, p)
    BY <1>3, <2>1, DeliversTransitive DEF Decided, Keeps
  <2> QED
    BY <2>1, <2>2 DEF Decided
<1>7. Listed(p) = Listed(q)
  BY <1>6 DEF Keeps, Listed
<1>8. \A u \in Threads : u \notin Listed(s) /\ u # t => p.ctx[u] = s.ctx[u]
  BY <1>3, <1>6 DEF Keeps
<1>9. /\ \A u \in Threads : u # t => Persists(s.ctx[u], p.ctx[u])
      /\ Kept(s.ctx[t], p.ctx[t])
  <2>1. \A u \in Threads : Persists(q.ctx[u], p.ctx[u])
    BY <1>6 DEF Keeps
  <2>2. Kept(s.ctx[t], p.ctx[t])
    BY <1>3, <2>1 DEF Persists, Kept
  <2> QED
    BY <1>3, <2>1, <2>2
<1>10. CASE p.picked # None
  <2>1. PICK k : k = p.picked
    OBVIOUS
  <2>2. /\ k \in Threads /\ k \in Idlers(p) /\ k \in Listed(p)
        /\ ~p.ctx[k].mapped /\ p.ctx[k].runnable /\ ~p.ctx[k].deschedule
    BY <1>6, <1>10, <2>1 DEF Outcome, Idlers, Listed
  <2>3. r = RunSoftwareContext(p, k, h)
    BY <1>5, <1>10, <2>1 DEF RunPicked
  <2>4. /\ r \in States /\ r.list = p.list /\ Delivers(p, r)
        /\ \A u \in Threads :
             r.ctx[u] = IF u = k THEN Placed(p.ctx[u], h) ELSE p.ctx[u]
        /\ Fit(r, NoHole) /\ Keeps(p, r) /\ h \notin Free(r)
    BY <1>6, <2>2, <2>3, RunFits
  <2>5. Conserves(r, {})
    BY <2>4, BusyConserves
  <2>6. Listed(r) = Listed(p)
    BY <2>4 DEF Listed
  <2>7. \A u \in Threads : Persists(p.ctx[u], r.ctx[u])
    BY <2>4 DEF Keeps
  <2>8. /\ \A u \in Threads : u # t => Persists(s.ctx[u], r.ctx[u])
        /\ Kept(s.ctx[t], r.ctx[t])
    <3>1. \A u \in Threads : u # t => Persists(s.ctx[u], r.ctx[u])
      BY <1>9, <2>7, PersistsTransitive
    <3>2. Kept(s.ctx[t], r.ctx[t])
      BY <1>9, <2>7 DEF Persists, Kept
    <3> QED
      BY <3>1, <3>2
  <2>9. Delivers(s, r)
    BY <1>6, <2>4, DeliversTransitive
  <2>10. \A u \in Threads : u \notin Listed(s) /\ u # t => r.ctx[u] = s.ctx[u]
    BY <1>3, <1>7, <1>8, <2>2, <2>4
  <2> QED
    BY <1>3, <1>7, <2>4, <2>5, <2>6, <2>8, <2>9, <2>10
<1>11. CASE p.picked = None
  <2>1. PICK n \in [Hwcs -> Threads \cup {None}] : n = [p.run EXCEPT ![h] = None]
    BY <1>6, StateMembers
  <2>2. r = [p EXCEPT !.run = n]
    BY <1>5, <1>11, <2>1 DEF RunPicked
  <2>3. /\ r \in States /\ r.list = p.list /\ r.ctx = p.ctx /\ r.run = n
        /\ r.error = p.error /\ r.ipc = p.ipc /\ r.sent = p.sent
    BY <1>6, <2>2 DEF States
  <2>4. \A g \in Hwcs : r.run[g] = IF g = h THEN None ELSE p.run[g]
    BY <1>6, <2>1, <2>3, StateMembers
  <2>5. Idlers(r) = {} /\ Listed(r) = Listed(p)
    BY <1>6, <1>11, <2>3 DEF Outcome, Idlers, Listed
  <2>6. Fit(r, NoHole)
    <3>1. ASSUME NEW u \in Threads, r.ctx[u].mapped
          PROVE  r.ctx[u].hwc # NoHole /\ r.run[r.ctx[u].hwc] = u
      <4>1. p.ctx[u].hwc \in Hwcs
        BY <1>6, StateMembers DEF Contexts
      <4>2. p.ctx[u].hwc # h /\ p.run[p.ctx[u].hwc] = u
        BY <1>6, <2>3, <3>1 DEF Fit
      <4> QED
        BY <2>3, <2>4, <4>1, <4>2, Sizes DEF NoHole, Hwcs
    <3>2. ASSUME NEW g \in Hwcs, r.run[g] # None
          PROVE  r.ctx[r.run[g]].mapped /\ r.ctx[r.run[g]].hwc = g
      <4>1. g # h /\ r.run[g] = p.run[g]
        BY <2>4, <3>2
      <4> QED
        BY <1>6, <2>3, <3>2, <4>1 DEF Fit
    <3>3. NoHole \notin Hwcs
      BY Sizes DEF NoHole, Hwcs
    <3>4. r.error = "" /\ \A u \in Threads : r.ctx[u].deschedule => r.ctx[u].mapped
      BY <1>6, <2>3 DEF Fit
    <3> QED
      BY <3>1, <3>2, <3>3, <3>4 DEF Fit
  <2>7. Delivers(s, r)
    <3>1. Delivers(p, r)
      BY <2>3, DeliversSame
    <3> QED
      BY <1>6, <3>1, DeliversTransitive
  <2> QED
    BY <1>3, <1>7, <1>8, <1>9, <2>3, <2>5, <2>6, <2>7 DEF Conserves
<1> QED
  BY <1>10, <1>11

-----------------------------------------------------------------------------
(* The inductive invariant of the mapping.                                 *)

\* A packet that is not empty was made from an event of its thread's program.
PacketsFit(s) ==
    \A t \in Threads : /\ s.sent[t] <= Len(Program[t])
                       /\ s.ipc[t].state # "empty" => s.sent[t] >= 1

\* Contexts and hardware contexts are mapped one to one, no context waits when
\* nothing runs, and of the m threads that have started those after the n-th,
\* which the scheduler does not know yet, have their first event there.
Sound(s, n, m) ==
    /\ s \in States /\ Fit(s, NoHole) /\ Conserves(s, {})
    /\ PacketsFit(s) /\ Untouched(s, n) /\ FirstEvents(s, n, m)

Entries == [op : {"switch", "op", "anonymous"}, t : Threads]

PipeKnown ==
    /\ pipe \in [Hwcs -> Seq(Entries)]
    /\ \A h \in Hwcs : \A i \in 1 .. Len(pipe[h]) : pipe[h][i].t <= known

Counted ==
    /\ known \in Nat /\ started \in Nat /\ known <= started
    /\ setup \in Setups /\ started <= setup.threads

\* The fetch that waits for an event is of a context that is mapped.
AskingMapped ==
    asking \in Threads \cup {None} /\ (asking # None => ctx[asking].mapped)

MapInv ==
    /\ Sound(State, known, started)
    /\ PipeKnown /\ Counted /\ AskingMapped

-----------------------------------------------------------------------------
(* What the parts of a step leave of it.                                   *)

LEMMA SetupTyped ==
    ASSUME Counted
    PROVE  /\ setup.threads \in 0 .. NThreads /\ setup.depth \in Nat \ {0}
           /\ started <= NThreads
  BY MingoAssumption, Sizes DEF Counted

LEMMA StateIs ==
    /\ State.ctx = ctx /\ State.list = list /\ State.run = run
    /\ State.ipc = ipc /\ State.sent = sent
    /\ State.next = nextSWCToTry /\ State.error = "" /\ State.picked = None
  BY DEF State

LEMMA StateWillBe ==
    /\ State'.ctx = ctx' /\ State'.list = list' /\ State'.run = run'
    /\ State'.ipc = ipc' /\ State'.sent = sent'
    /\ State'.next = nextSWCToTry' /\ State'.error = "" /\ State'.picked = None
  BY DEF State

\* States that differ in what is picked and in the error only.
Alias(s, r) ==
    /\ r.list = s.list /\ r.next = s.next /\ r.ctx = s.ctx /\ r.run = s.run
    /\ r.ipc = s.ipc /\ r.sent = s.sent

LEMMA AliasSound ==
    ASSUME NEW s, NEW r, NEW n, NEW m, Sound(s, n, m), Alias(s, r),
           r \in States
    PROVE  Sound(r, n, m)
<1>1. r.error = s.error
  BY DEF Sound, States, NoError
<1>2. Listed(r) = Listed(s) /\ Free(r) = Free(s) /\ Idlers(r) = Idlers(s)
  BY DEF Alias, Listed, Free, Idlers
<1>3. Fit(r, NoHole)
  BY <1>1 DEF Sound, Fit, Alias
<1>4. Conserves(r, {})
  BY <1>2 DEF Sound, Conserves
<1>5. PacketsFit(r) /\ Untouched(r, n) /\ FirstEvents(r, n, m)
  BY <1>2 DEF Sound, PacketsFit, Untouched, FirstEvents, Alias
<1> QED
  BY <1>3, <1>4, <1>5 DEF Sound

LEMMA StateWillBeSound ==
    ASSUME NEW s, NEW n, NEW m, Sound(s, n, m), Alias(s, State')
    PROVE  Sound(State', n, m)
<1>1. PICK z : z = State'
  OBVIOUS
<1>2. /\ z.list = s.list /\ z.next = s.next /\ z.ctx = s.ctx /\ z.run = s.run
      /\ z.ipc = s.ipc /\ z.sent = s.sent
  BY <1>1 DEF Alias
<1>3. s \in States
  BY DEF Sound
<1>4. /\ list' \in [Slots -> Threads \cup {None}] /\ nextSWCToTry' \in Slots
      /\ ctx' \in [Threads -> Contexts] /\ run' \in [Hwcs -> Threads \cup {None}]
      /\ ipc' \in [Threads -> Packets] /\ sent' \in [Threads -> Nat]
  BY <1>1, <1>2, <1>3, StateMembers, StateWillBe
<1>5. z \in States
  BY <1>1, <1>4 DEF State, States, NoError
<1> QED
  BY <1>1, <1>2, <1>5, AliasSound DEF Alias

LEMMA Together ==
    ASSUME NEW s, Sound(s, known', started'), Alias(s, State'),
           PipeKnown', Counted', AskingMapped'
    PROVE  MapInv'
  BY StateWillBeSound DEF MapInv


\* Contexts between which nothing makes a difference that is decided by.
Replaces(c, d) ==
    /\ c.mapped = d.mapped /\ c.hwc = d.hwc
    /\ c.deschedule => c.mapped
    /\ c.mapped \/ (c.runnable = d.runnable /\ c.timed = d.timed)

WithContext(s, t, c) == [s EXCEPT !.ctx[t] = c]

LEMMA WithContextIs ==
    ASSUME NEW s \in States, NEW t \in Threads, NEW c \in Contexts,
           NEW r, r = WithContext(s, t, c)
    PROVE  /\ r \in States /\ r.list = s.list /\ r.next = s.next /\ r.run = s.run
           /\ r.ipc = s.ipc /\ r.sent = s.sent /\ r.error = s.error
<1>1. PICK f \in [Threads -> Contexts] : f = [s.ctx EXCEPT ![t] = c]
  BY StateMembers
<1>2. r = [s EXCEPT !.ctx = f]
  BY <1>1 DEF WithContext
<1> QED
  BY <1>2 DEF States

LEMMA WithContextHas ==
    ASSUME NEW s \in States, NEW t \in Threads, NEW c \in Contexts,
           NEW r, r = WithContext(s, t, c), NEW u \in Threads
    PROVE  r.ctx[u] = IF u = t THEN c ELSE s.ctx[u]
<1>1. PICK f \in [Threads -> Contexts] : f = [s.ctx EXCEPT ![t] = c]
  BY StateMembers
<1>2. r = [s EXCEPT !.ctx = f]
  BY <1>1 DEF WithContext
<1>3. r.ctx = f
  BY <1>2 DEF States
<1> QED
  BY <1>1, <1>3, StateMembers

LEMMA WithContextFunction ==
    ASSUME NEW s \in States, NEW t \in Threads, NEW c \in Contexts
    PROVE  WithContext(s, t, c).ctx = [s.ctx EXCEPT ![t] = c]
<1>1. PICK f \in [Threads -> Contexts] : f = [s.ctx EXCEPT ![t] = c]
  BY StateMembers
<1>2. WithContext(s, t, c) = [s EXCEPT !.ctx = f]
  BY <1>1 DEF WithContext
<1>3. WithContext(s, t, c).ctx = f
  BY <1>2 DEF States
<1> QED
  BY <1>1, <1>3

LEMMA ReplaceSound ==
    ASSUME NEW s, NEW n \in Nat, NEW m, Sound(s, n, m),
           NEW t \in Threads, t <= n, NEW c \in Contexts, Replaces(c, s.ctx[t]),
           NEW r, r = WithContext(s, t, c)
    PROVE  Sound(r, n, m)
<1>1. s \in States /\ Fit(s, NoHole) /\ Conserves(s, {})
  BY DEF Sound
<1>4. /\ r \in States /\ r.list = s.list /\ r.run = s.run
      /\ r.ipc = s.ipc /\ r.sent = s.sent /\ r.error = s.error /\ r.next = s.next
  BY <1>1, WithContextIs
<1>5. \A u \in Threads : r.ctx[u] = IF u = t THEN c ELSE s.ctx[u]
  BY <1>1, WithContextHas
<1>6. Fit(r, NoHole)
  <2>1. \A u \in Threads : /\ r.ctx[u].mapped = s.ctx[u].mapped
                           /\ r.ctx[u].hwc = s.ctx[u].hwc
                           /\ r.ctx[u].deschedule => r.ctx[u].mapped
    <3> SUFFICES ASSUME NEW u \in Threads
                 PROVE  /\ r.ctx[u].mapped = s.ctx[u].mapped
                        /\ r.ctx[u].hwc = s.ctx[u].hwc
                        /\ r.ctx[u].deschedule => r.ctx[u].mapped
      OBVIOUS
    <3>1. CASE u = t
      BY <1>5, <3>1 DEF Replaces
    <3>2. CASE u # t
      <4>1. r.ctx[u] = s.ctx[u]
        BY <1>5, <3>2
      <4>2. s.ctx[u].deschedule => s.ctx[u].mapped
        BY <1>1 DEF Fit
      <4> QED
        BY <4>1, <4>2
    <3> QED
      BY <3>1, <3>2
  <2> QED
    BY ONLY <1>1, <1>4, <2>1, FitSame
<1>7. Listed(r) = Listed(s) /\ Free(r) = Free(s)
  BY <1>4 DEF Listed, Free
<1>8. Conserves(r, {})
  <2>1. ASSUME NEW u \in Idlers(r) PROVE u \in Idlers(s)
    <3>1. /\ u \in Threads /\ u \in Listed(s) /\ ~r.ctx[u].mapped
          /\ r.ctx[u].runnable \/ r.ctx[u].timed
      BY <1>7 DEF Idlers, Listed
    <3> QED
      BY <1>5, <3>1 DEF Idlers, Replaces
  <2> QED
    BY <1>1, <1>7, <2>1 DEF Conserves
<1>9. Untouched(r, n)
  <2>1. ASSUME NEW u \in Threads, u > n PROVE r.ctx[u] = NewContext /\ u \notin Listed(r)
    <3>1. u # t
      BY <2>1, Sizes DEF Threads
    <3> QED
      BY <1>5, <1>7, <2>1, <3>1 DEF Untouched, Sound
  <2> QED
    BY <2>1 DEF Untouched
<1>10. PacketsFit(r) /\ FirstEvents(r, n, m)
  BY <1>4 DEF Sound, PacketsFit, FirstEvents
<1> QED
  BY <1>4, <1>6, <1>8, <1>9, <1>10 DEF Sound

\* The packet of a thread that is known changes.
LEMMA PacketSound ==
    ASSUME NEW s, NEW n \in Nat, NEW m, Sound(s, n, m),
           NEW t \in Threads, t <= n, NEW p \in Packets, s.ipc[t].state # "empty",
           NEW f, f = [s.ipc EXCEPT ![t] = p], NEW r, r = [s EXCEPT !.ipc = f]
    PROVE  /\ Sound(r, n, m)
           /\ r.ipc = f
           /\ \A u \in Threads : r.ipc[u] = IF u = t THEN p ELSE s.ipc[u]
           /\ r.list = s.list /\ r.next = s.next /\ r.run = s.run
           /\ r.ctx = s.ctx /\ r.sent = s.sent /\ r.error = s.error
<1>1. s \in States
  BY DEF Sound
<1>2. f \in [Threads -> Packets]
  BY <1>1, StateMembers
<1>3. r = [s EXCEPT !.ipc = f]
  OBVIOUS
<1>4. /\ r \in States /\ r.ctx = s.ctx /\ r.list = s.list /\ r.run = s.run
      /\ r.ipc = f /\ r.sent = s.sent /\ r.error = s.error /\ r.next = s.next
  BY <1>1, <1>3 DEF States
<1>5. \A u \in Threads : r.ipc[u] = IF u = t THEN p ELSE s.ipc[u]
  BY <1>1, <1>2, <1>4, StateMembers
<1>6. Listed(r) = Listed(s) /\ Free(r) = Free(s) /\ Idlers(r) = Idlers(s)
  BY <1>4 DEF Listed, Free, Idlers
<1>7. Fit(r, NoHole) /\ Conserves(r, {}) /\ Untouched(r, n)
  <2>1. Fit(r, NoHole)
    <3>1. /\ Fit(s, NoHole)
          /\ \A u \in Threads : r.ctx[u].deschedule => r.ctx[u].mapped
      BY <1>4 DEF Sound, Fit
    <3> QED
      BY <1>1, <1>4, <3>1, FitSame
  <2>2. Conserves(r, {})
    BY <1>6 DEF Sound, Conserves
  <2>3. Untouched(r, n)
    BY <1>4, <1>6 DEF Sound, Untouched
  <2> QED
    BY <2>1, <2>2, <2>3
<1>8. PacketsFit(r)
  BY <1>4, <1>5 DEF Sound, PacketsFit
<1>9. FirstEvents(r, n, m)
  <2>1. ASSUME NEW u \in Threads, u > n, u <= m PROVE r.ipc[u].state = "ready"
    <3>1. u # t
      BY <2>1, Sizes DEF Threads
    <3> QED
      BY <1>5, <2>1, <3>1 DEF Sound, FirstEvents
  <2> QED
    BY <2>1 DEF FirstEvents
<1> QED
  BY <1>2, <1>4, <1>5, <1>7, <1>8, <1>9 DEF Sound

\* AllowSoftwareThreadProgress.
LEMMA AllowedSound ==
    ASSUME NEW s, NEW n \in Nat, NEW m, Sound(s, n, m),
           NEW t \in Threads, t <= n, NEW r, r = Allowed(s, t)
    PROVE  \/ /\ s.ipc[t].state = "consumed" /\ r.error = "" /\ Sound(r, n, m)
              /\ r = [s EXCEPT !.ipc[t] = Answered(s.ipc[t])]
              /\ r.ipc = [s.ipc EXCEPT ![t] = Answered(s.ipc[t])]
              /\ r.list = s.list /\ r.next = s.next /\ r.run = s.run
              /\ r.ctx = s.ctx /\ r.sent = s.sent
           \/ /\ s.ipc[t].state # "consumed"
              /\ r.error = "Packet response error" /\ Alias(s, r)
<1>1. s \in States /\ s.error = ""
  BY DEF Sound, Fit
<1>2. CASE s.ipc[t].state = "consumed"
  <2>1. s.ipc[t] \in Packets
    BY <1>1, StateMembers
  <2>2. PICK p \in Packets : p = Answered(s.ipc[t])
    BY <2>1 DEF Packets, Answered
  <2>3. PICK f : f = [s.ipc EXCEPT ![t] = p]
    OBVIOUS
  <2>4. r = [s EXCEPT !.ipc = f]
    BY <1>2, <2>2, <2>3 DEF Allowed
  <2>5. s.ipc[t].state # "empty"
    BY <1>2
  <2>6. /\ Sound(r, n, m) /\ r.ipc = f
        /\ r.list = s.list /\ r.next = s.next /\ r.run = s.run
        /\ r.ctx = s.ctx /\ r.sent = s.sent /\ r.error = s.error
    BY <2>3, <2>4, <2>5, PacketSound
  <2> QED
    BY <1>1, <1>2, <2>2, <2>3, <2>4, <2>6
<1>3. CASE s.ipc[t].state # "consumed"
  <2>1. r = [s EXCEPT !.error = "Packet response error"]
    BY <1>3 DEF Allowed
  <2> QED
    BY <1>1, <1>3, <2>1 DEF States, Alias
<1> QED
  BY <1>2, <1>3

LEMMA BecomesAlias ==
    ASSUME NEW r, Becomes(r) PROVE Alias(r, State')
  BY StateWillBe DEF Becomes, Alias

LEMMA Known ==
    ASSUME MapInv
    PROVE  /\ ctx \in [Threads -> Contexts] /\ ipc \in [Threads -> Packets]
           /\ \A t \in Threads : /\ ctx[t] \in Contexts /\ ctx[t].hwc \in Hwcs
                                 /\ ctx[t].mapped => t <= known /\ run[ctx[t].hwc] = t
                                 /\ ipc[t] \in Packets
           /\ \A h \in Hwcs : run[h] # None =>
                /\ run[h] \in Threads /\ ctx[run[h]].mapped /\ ctx[run[h]].hwc = h
                /\ run[h] <= known
<1>1. State \in States /\ Fit(State, NoHole)
  BY DEF MapInv, Sound
<1>2. /\ ctx \in [Threads -> Contexts]
      /\ run \in [Hwcs -> Threads \cup {None}] /\ ipc \in [Threads -> Packets]
  BY <1>1, StateMembers, StateIs
<1>3. \A t \in Threads : /\ ctx[t] \in Contexts /\ ctx[t].hwc \in Hwcs
                         /\ ctx[t].mapped => run[ctx[t].hwc] = t
                         /\ ipc[t] \in Packets
  BY <1>1, <1>2, StateIs DEF Contexts, Fit
<1>4. ASSUME NEW t \in Threads, ctx[t].mapped PROVE t <= known
  <2>1. ctx[t] # NewContext
    BY <1>4, NewContextTyped
  <2>2. t > known => ctx[t] = NewContext
    BY StateIs DEF MapInv, Sound, Untouched
  <2>3. t \in Nat /\ known \in Nat
    BY Sizes DEF Threads, MapInv, Counted
  <2> QED
    BY <2>1, <2>2, <2>3
<1>5. ASSUME NEW h \in Hwcs, run[h] # None
      PROVE  run[h] \in Threads /\ ctx[run[h]].mapped /\ ctx[run[h]].hwc = h
  <2>1. h # NoHole
    BY Sizes DEF NoHole, Hwcs
  <2> QED
    BY <1>1, <1>2, <1>5, <2>1, StateIs DEF Fit
<1> QED
  BY <1>2, <1>3, <1>4, <1>5

\* The event a packet was made from.
LEMMA EventSent ==
    ASSUME MapInv, NEW t \in Threads, ipc[t].state = "ready"
    PROVE  Program[t][sent[t]] \in Event
<1>1. State \in States /\ PacketsFit(State)
  BY DEF MapInv, Sound
<1>2. sent[t] \in Nat /\ sent[t] >= 1 /\ sent[t] <= Len(Program[t])
  BY <1>1, StateIs, StateMembers DEF PacketsFit
<1>3. Program[t] \in Seq(Event)
  BY MingoAssumption
<1> QED
  BY <1>2, <1>3


-----------------------------------------------------------------------------
(* The steps of the application.                                           *)

LEMMA InitMap ==
    ASSUME Init PROVE MapInv
<1>0. /\ known = 0 /\ started = 0 /\ pipe = [h \in Hwcs |-> <<>>]
      /\ ctx = [t \in Threads |-> NewContext] /\ list = [i \in Slots |-> None]
      /\ run = [h \in Hwcs |-> None] /\ nextSWCToTry \in Slots
      /\ ipc = [t \in Threads |-> NewPacket] /\ sent = [t \in Threads |-> 0]
      /\ setup \in Setups
  BY DEF Init
<1>1. PICK s : s = State
  OBVIOUS
<1>2. /\ \A t \in Threads : s.ctx[t] = NewContext /\ s.ipc[t] = NewPacket /\ s.sent[t] = 0
      /\ \A i \in Slots : s.list[i] = None
      /\ \A h \in Hwcs : s.run[h] = None
      /\ s.error = ""
  <2>1. /\ s.ctx = ctx /\ s.list = list /\ s.run = run /\ s.ipc = ipc /\ s.sent = sent
        /\ s.error = ""
    BY <1>1, StateIs
  <2>2. ASSUME NEW t \in Threads
        PROVE  s.ctx[t] = NewContext /\ s.ipc[t] = NewPacket /\ s.sent[t] = 0
    <3>1. ctx[t] = NewContext /\ ipc[t] = NewPacket /\ sent[t] = 0
      BY ONLY <1>0, t \in Threads
    <3> QED
      BY <2>1, <3>1
  <2>3. /\ \A i \in Slots : s.list[i] = None
        /\ \A h \in Hwcs : s.run[h] = None
    BY <1>0, <2>1
  <2> QED
    BY <2>1, <2>2, <2>3
<1>3. NewPacket \in Packets /\ NewPacket.state = "empty"
  BY DEF NewPacket, Packets
<1>4. s \in States
  <2>1. /\ ctx \in [Threads -> Contexts] /\ list \in [Slots -> Threads \cup {None}]
        /\ run \in [Hwcs -> Threads \cup {None}]
        /\ ipc \in [Threads -> Packets] /\ sent \in [Threads -> Nat]
    BY <1>0, <1>3, NewContextTyped
  <2>2. nextSWCToTry \in Slots
    BY <1>0
  <2> QED
    BY <1>1, <2>1, <2>2 DEF State, States, NoError
<1>5. Listed(s) = {} /\ Idlers(s) = {}
  BY <1>2, Sizes DEF Listed, Idlers
<1>6. Fit(s, NoHole)
  <2>1. NoHole \notin Hwcs
    BY Sizes DEF NoHole, Hwcs
  <2> QED
    BY <1>2, <2>1, NewContextTyped DEF Fit
<1>7. PacketsFit(s)
  <2>1. \A t \in Threads : Len(Program[t]) \in Nat
    BY MingoAssumption
  <2>2. \A t \in Threads : s.sent[t] <= Len(Program[t]) /\ s.ipc[t].state = "empty"
    <3> SUFFICES ASSUME NEW t \in Threads
                 PROVE  s.sent[t] <= Len(Program[t]) /\ s.ipc[t].state = "empty"
      OBVIOUS
    <3>1. s.sent[t] = 0 /\ Len(Program[t]) \in Nat /\ s.ipc[t] = NewPacket
      BY <1>2, <2>1
    <3>2. s.sent[t] <= Len(Program[t])
      BY ONLY <3>1
    <3> QED
      BY <1>3, <3>1, <3>2
  <2> QED
    BY <2>2 DEF PacketsFit
<1>8. Untouched(s, 0) /\ FirstEvents(s, 0, 0)
  <2>1. Untouched(s, 0)
    BY <1>2, <1>5 DEF Untouched
  <2>2. \A t \in Threads : ~(t > 0 /\ t <= 0)
    BY Sizes DEF Threads
  <2> QED
    BY <2>1, <2>2 DEF FirstEvents
<1>9. Sound(s, 0, 0)
  BY <1>4, <1>5, <1>6, <1>7, <1>8 DEF Sound, Conserves
<1>10. PipeKnown
  BY <1>0 DEF PipeKnown
<1>11. Counted
  <2>1. setup.threads \in 0 .. NThreads
    BY <1>0, MingoAssumption
  <2> QED
    BY <1>0, <2>1, Sizes DEF Counted
<1>12. AskingMapped
  BY DEF Init, AskingMapped
<1> QED
  BY <1>0, <1>1, <1>9, <1>10, <1>11, <1>12 DEF MapInv

\* What is left to show of a step of the application.
LEMMA ApplicationKeeps ==
    ASSUME MapInv, UNCHANGED simulator, setup' = setup,
           started' \in Nat, known <= started', started' <= setup.threads,
           ipc' \in [Threads -> Packets], sent' \in [Threads -> Nat],
           \A u \in Threads : /\ sent'[u] <= Len(Program[u])
                              /\ ipc'[u].state # "empty" => sent'[u] >= 1
                              /\ u > known /\ u <= started' => ipc'[u].state = "ready"
    PROVE  MapInv'
<1>1. UNCHANGED <<known, list, nextSWCToTry, ctx, run, pipe, asking>>
  BY DEF simulator
<1>2. PICK s : s = State /\ Sound(s, known, started)
  BY DEF MapInv
<1>3. PICK z : z = State'
  OBVIOUS
<1>4. /\ z.list = s.list /\ z.ctx = s.ctx /\ z.run = s.run /\ z.next = s.next
      /\ z.error = "" /\ s.error = "" /\ z.ipc = ipc' /\ z.sent = sent'
  BY <1>1, <1>2, <1>3, StateIs, StateWillBe
<1>5. s \in States /\ Fit(s, NoHole) /\ Conserves(s, {}) /\ Untouched(s, known)
  BY <1>2 DEF Sound
<1>6. z \in States
  <2>1. /\ list' \in [Slots -> Threads \cup {None}] /\ nextSWCToTry' \in Slots
        /\ ctx' \in [Threads -> Contexts] /\ run' \in [Hwcs -> Threads \cup {None}]
    BY <1>1, <1>2, <1>5, StateMembers, StateIs
  <2> QED
    BY <1>3, <2>1 DEF State, States, NoError
<1>7. Listed(z) = Listed(s) /\ Free(z) = Free(s) /\ Idlers(z) = Idlers(s)
  BY <1>4 DEF Listed, Free, Idlers
<1>8. Fit(z, NoHole)
  <2>1. \A u \in Threads : s.ctx[u].deschedule => s.ctx[u].mapped
    BY <1>5 DEF Fit
  <2> QED
    BY ONLY <1>4, <1>5, <1>6, <2>1, FitSame
<1>9. Conserves(z, {}) /\ Untouched(z, known)
  BY <1>4, <1>5, <1>7 DEF Conserves, Untouched
<1>10. PacketsFit(z) /\ FirstEvents(z, known, started')
  BY <1>4 DEF PacketsFit, FirstEvents
<1>11. Sound(z, known, started')
  BY <1>6, <1>8, <1>9, <1>10 DEF Sound
<1>12. PipeKnown' /\ Counted' /\ AskingMapped'
  BY <1>1 DEF MapInv, PipeKnown, Counted, AskingMapped
<1> QED
  BY <1>1, <1>3, <1>11, <1>12 DEF MapInv

\* What MapInv says of the packets.
LEMMA PacketsKnown ==
    ASSUME MapInv
    PROVE  /\ ipc \in [Threads -> Packets] /\ sent \in [Threads -> Nat]
           /\ \A u \in Threads : /\ sent[u] <= Len(Program[u])
                                 /\ ipc[u].state # "empty" => sent[u] >= 1
                                 /\ u > known /\ u <= started => ipc[u].state = "ready"
           /\ known \in Nat /\ started \in Nat /\ known <= started
           /\ started <= setup.threads
           /\ \A u \in Threads : /\ Program[u] \in Seq(Event) /\ Program[u] # <<>>
                                 /\ Len(Program[u]) \in Nat
<1>1. PICK s : s = State /\ Sound(s, known, started)
  BY DEF MapInv
<1>2. ipc \in [Threads -> Packets] /\ sent \in [Threads -> Nat]
  BY <1>1, StateMembers, StateIs DEF Sound
<1>3. PacketsFit(s) /\ FirstEvents(s, known, started) /\ s.ipc = ipc /\ s.sent = sent
  BY <1>1, StateIs DEF Sound
<1>4. \A u \in Threads : /\ Program[u] \in Seq(Event) /\ Program[u] # <<>>
                         /\ Len(Program[u]) \in Nat
  BY MingoAssumption
<1> QED
  BY <1>2, <1>3, <1>4 DEF PacketsFit, FirstEvents, MapInv, Counted

LEMMA SendKeeps ==
    ASSUME MapInv, NEW t \in Threads, SendMessage(t)
    PROVE  MapInv'
<1>1. sent[t] \in Nat /\ sent[t] < Len(Program[t]) /\ Program[t] \in Seq(Event)
  BY PacketsKnown DEF SendMessage
<1>2. PICK p \in Packets : p = Posted(ipc[t], Program[t][sent[t] + 1]) /\ p.state = "ready"
  <2>1. Program[t][sent[t] + 1] \in Event
    BY <1>1
  <2> QED
    BY <2>1, PacketsKnown, PacketsTyped
<1>3. ipc' = [ipc EXCEPT ![t] = p] /\ sent' = [sent EXCEPT ![t] = sent[t] + 1]
  BY <1>2, PacketsKnown DEF SendMessage
<1>4. /\ \A u \in Threads : ipc'[u] = IF u = t THEN p ELSE ipc[u]
      /\ \A u \in Threads : sent'[u] = IF u = t THEN sent[u] + 1 ELSE sent[u]
      /\ ipc' \in [Threads -> Packets] /\ sent' \in [Threads -> Nat]
  BY <1>1, <1>3, PacketsKnown
<1>5. UNCHANGED simulator /\ started' = started /\ setup' = setup
  BY DEF SendMessage
<1>6. ASSUME NEW u \in Threads
      PROVE  /\ sent'[u] <= Len(Program[u])
             /\ ipc'[u].state # "empty" => sent'[u] >= 1
             /\ u > known /\ u <= started' => ipc'[u].state = "ready"
  <2>1. CASE u = t
    BY <1>1, <1>2, <1>4, <2>1
  <2>2. CASE u # t
    BY <1>4, <1>5, <2>2, PacketsKnown
  <2> QED
    BY <2>1, <2>2
<1> QED
  BY <1>4, <1>5, <1>6, PacketsKnown, ApplicationKeeps

LEMMA StartKeeps ==
    ASSUME PromptStart, MapInv, ThreadStart
    PROVE  MapInv'
<1>1. /\ known \in Nat /\ started \in Nat /\ known <= started
      /\ started < setup.threads /\ setup.threads \in 0 .. NThreads
  BY PacketsKnown, SetupTyped DEF ThreadStart, MapInv
<1>2. PICK t \in Threads : t = started + 1 /\ started' = t
  BY <1>1, Sizes DEF ThreadStart, Threads
<1>3. Program[t][1] \in Event /\ Len(Program[t]) \in Nat /\ 1 <= Len(Program[t])
  <2>1. Program[t] \in Seq(Event) /\ Program[t] # <<>>
    BY PacketsKnown
  <2> QED
    BY <2>1
<1>4. PICK p \in Packets : p = Posted(ipc[t], Program[t][1]) /\ p.state = "ready"
  BY <1>3, PacketsKnown, PacketsTyped
<1>5. ipc' = [ipc EXCEPT ![t] = p] /\ sent' = [sent EXCEPT ![t] = 1]
  BY <1>2, <1>4, PacketsKnown DEF ThreadStart
<1>6. /\ \A u \in Threads : ipc'[u] = IF u = t THEN p ELSE ipc[u]
      /\ \A u \in Threads : sent'[u] = IF u = t THEN 1 ELSE sent[u]
      /\ ipc' \in [Threads -> Packets] /\ sent' \in [Threads -> Nat]
  BY <1>5, PacketsKnown
<1>7. UNCHANGED simulator /\ setup' = setup
  BY DEF ThreadStart
<1>8. ASSUME NEW u \in Threads
      PROVE  /\ sent'[u] <= Len(Program[u])
             /\ ipc'[u].state # "empty" => sent'[u] >= 1
             /\ u > known /\ u <= started' => ipc'[u].state = "ready"
  <2>1. CASE u = t
    BY <1>3, <1>4, <1>6, <2>1
  <2>2. CASE u # t
    <3>1. u <= started' => u <= started
      BY <1>1, <1>2, <2>2, Sizes DEF Threads
    <3> QED
      BY <1>6, <2>2, <3>1, PacketsKnown
  <2> QED
    BY <2>1, <2>2
<1>9. started' \in Nat /\ known <= started' /\ started' <= setup.threads
  BY <1>1, <1>2
<1> QED
  BY <1>6, <1>7, <1>8, <1>9, ApplicationKeeps

LEMMA ProceedKeeps ==
    ASSUME MapInv, NEW t \in Threads, Proceed(t)
    PROVE  MapInv'
<1>1. PICK p : p = [ipc[t] EXCEPT !.state =
                      IF sent[t] = Len(Program[t]) THEN "dead" ELSE "empty"]
  OBVIOUS
<1>2. ipc[t] \in Packets
  BY PacketsKnown
<1>3. p \in Packets
  BY <1>1, <1>2 DEF Packets
<1>4. ipc' = [ipc EXCEPT ![t] = p]
  BY <1>1, PacketsKnown DEF Proceed
<1>5. /\ ipc[t].state = "ack" /\ UNCHANGED simulator /\ started' = started
      /\ sent' = sent /\ setup' = setup
  BY DEF Proceed
<1>6. /\ \A u \in Threads : ipc'[u] = IF u = t THEN p ELSE ipc[u]
      /\ ipc' \in [Threads -> Packets]
  BY <1>3, <1>4, PacketsKnown
<1>7. ASSUME NEW u \in Threads
      PROVE  /\ sent'[u] <= Len(Program[u])
             /\ ipc'[u].state # "empty" => sent'[u] >= 1
             /\ u > known /\ u <= started' => ipc'[u].state = "ready"
  <2>1. CASE u = t
    <3>1. ~(u > known /\ u <= started)
      BY <1>5, <2>1, PacketsKnown
    <3>2. sent[u] >= 1 /\ sent[u] <= Len(Program[u])
      BY <1>5, <2>1, PacketsKnown
    <3> QED
      BY <1>5, <3>1, <3>2
  <2>2. CASE u # t
    BY <1>5, <1>6, <2>2, PacketsKnown
  <2> QED
    BY <2>1, <2>2
<1> QED
  BY <1>5, <1>6, <1>7, PacketsKnown, ApplicationKeeps

-----------------------------------------------------------------------------
(* Fetching.                                                               *)

LEMMA Appended ==
    ASSUME PipeKnown, NEW h \in Hwcs, NEW e \in Entries, e.t <= known,
           pipe' = [pipe EXCEPT ![h] = Append(@, e)], known' = known
    PROVE  PipeKnown'
<1>1. \A g \in Hwcs : pipe[g] \in Seq(Entries)
  BY DEF PipeKnown
<1>2. pipe' \in [Hwcs -> Seq(Entries)]
  BY <1>1 DEF PipeKnown
<1>3. ASSUME NEW g \in Hwcs, NEW i \in 1 .. Len(pipe'[g]) PROVE pipe'[g][i].t <= known
  <2>1. CASE g = h
    <3>1. pipe'[g] = Append(pipe[h], e) /\ Len(pipe'[g]) = Len(pipe[h]) + 1
          /\ Len(pipe[h]) \in Nat
      BY <1>1, <2>1 DEF PipeKnown
    <3>2. CASE i = Len(pipe[h]) + 1
      BY <1>1, <3>1, <3>2
    <3>3. CASE i # Len(pipe[h]) + 1
      <4>1. i \in 1 .. Len(pipe[h])
        BY <3>1, <3>3
      <4>2. pipe'[g][i] = pipe[h][i]
        BY <1>1, <3>1, <4>1, SMTT(30)
      <4> QED
        BY <4>1, <4>2 DEF PipeKnown
    <3> QED
      BY <3>2, <3>3
  <2>2. CASE g # h
    <3>1. pipe'[g] = pipe[g]
      BY <2>2 DEF PipeKnown
    <3> QED
      BY <3>1 DEF PipeKnown
  <2> QED
    BY <2>1, <2>2
<1> QED
  BY <1>2, <1>3 DEF PipeKnown

\* The packet of a thread stays, or it is answered or received.
PacketMoves(t) ==
    \/ ipc' = ipc
    \/ \E p \in Packets : ipc[t].state # "empty" /\ ipc' = [ipc EXCEPT ![t] = p]

\* A step in which one context changes that stays on its hardware context.
LEMMA ContextStep ==
    ASSUME MapInv, NEW t \in Threads, ctx[t].mapped, NEW c \in Contexts,
           c.mapped, c.hwc = ctx[t].hwc,
           ctx' = [ctx EXCEPT ![t] = c], PacketMoves(t),
           UNCHANGED <<sent, started, setup, known, list, nextSWCToTry, run>>,
           PipeKnown', asking' \in {None, asking, t}
    PROVE  MapInv'
<1>1. PICK s : s = State
  OBVIOUS
<1>2. Sound(s, known, started) /\ known \in Nat /\ t <= known
  BY <1>1, Known DEF MapInv, Counted
<1>3. /\ s.ctx = ctx /\ s.list = list /\ s.run = run /\ s.next = nextSWCToTry
      /\ s.ipc = ipc /\ s.sent = sent /\ ctx \in [Threads -> Contexts]
  BY <1>1, StateIs, Known
<1>5. PICK q : q = WithContext(s, t, c)
  OBVIOUS
<1>6. Replaces(c, s.ctx[t])
  <2>1. c.mapped \in BOOLEAN /\ s.ctx[t].mapped \in BOOLEAN
    BY <1>3 DEF Contexts
  <2> QED
    BY <1>3, <2>1 DEF Replaces
<1>4. Sound(q, known, started)
  BY <1>2, <1>5, <1>6, ReplaceSound
<1>7. /\ q.ctx = ctx' /\ q.list = s.list /\ q.next = s.next /\ q.run = s.run
      /\ q.ipc = s.ipc /\ q.sent = s.sent
  <2>1. s \in States
    BY <1>2 DEF Sound
  <2>2. q.ctx = [s.ctx EXCEPT ![t] = c]
    BY <1>5, <2>1, WithContextFunction
  <2>3. /\ q.list = s.list /\ q.next = s.next /\ q.run = s.run
        /\ q.ipc = s.ipc /\ q.sent = s.sent
    BY <1>5, <2>1, WithContextIs
  <2> QED
    BY <1>3, <2>2, <2>3
<1>8. \A u \in Threads : ctx'[u] = IF u = t THEN c ELSE ctx[u]
  BY <1>3
<1>9. PICK z : /\ Sound(z, known, started) /\ z.ctx = ctx' /\ z.ipc = ipc'
               /\ z.list = list /\ z.next = nextSWCToTry /\ z.run = run /\ z.sent = sent
  <2>1. CASE ipc' = ipc
    BY <1>3, <1>4, <1>7, <2>1
  <2>2. CASE ipc' # ipc
    <3>1. PICK p \in Packets : ipc[t].state # "empty" /\ ipc' = [ipc EXCEPT ![t] = p]
      BY <2>2 DEF PacketMoves
    <3>2. PICK g : g = [q.ipc EXCEPT ![t] = p]
      OBVIOUS
    <3>3. PICK z : z = [q EXCEPT !.ipc = g]
      OBVIOUS
    <3>4. q.ipc[t].state # "empty"
      BY <1>3, <1>7, <3>1
    <3>5. /\ Sound(z, known, started) /\ z.ipc = g
          /\ z.list = q.list /\ z.next = q.next /\ z.run = q.run
          /\ z.ctx = q.ctx /\ z.sent = q.sent
      BY ONLY <1>2, <1>4, <3>2, <3>3, <3>4, t \in Threads, p \in Packets, PacketSound
    <3> QED
      BY <1>3, <1>7, <3>1, <3>2, <3>5
  <2> QED
    BY <2>1, <2>2
<1>10. Alias(z, State')
  BY <1>9, StateWillBe DEF Alias
<1>11. known' = known /\ started' = started
  OBVIOUS
<1>12. Counted'
  BY DEF MapInv, Counted
<1>13. AskingMapped'
  <2>1. asking' # None => asking' \in Threads /\ ctx[asking'].mapped
    BY Sizes DEF MapInv, AskingMapped
  <2> QED
    BY <1>8, <2>1 DEF AskingMapped
<1>14. Sound(z, known', started')
  BY <1>9, <1>11
<1> QED
  BY <1>10, <1>12, <1>13, <1>14, Together

LEMMA PrepareToSendContext ==
    ASSUME NEW c \in Contexts
    PROVE  /\ PrepareToSend(c) \in Contexts
           /\ PrepareToSend(c).mapped = c.mapped /\ PrepareToSend(c).hwc = c.hwc
<1>1. CASE c.preceding > 0
  <2>1. PICK n \in Nat : n = c.preceding - 1
    BY <1>1 DEF Contexts
  <2>2. PrepareToSend(c) = [c EXCEPT !.preceding = n]
    BY <1>1, <2>1 DEF PrepareToSend
  <2> QED
    BY <2>2 DEF Contexts
<1>2. CASE ~(c.preceding > 0)
  <2>1. PICK n \in Int : n = c.outstanding + 1
    BY DEF Contexts
  <2>2. PrepareToSend(c) = [c EXCEPT !.pending = FALSE, !.outstanding = n]
    BY <1>2, <2>1 DEF PrepareToSend
  <2> QED
    BY <2>2 DEF Contexts
<1> QED
  BY <1>1, <1>2

\* An operation of a mapped context enters the pipeline.
LEMMA FeedStep ==
    ASSUME MapInv, NEW t \in Threads, ctx[t].mapped,
           NEW op \in {"switch", "op", "anonymous"}, NEW h \in Hwcs,
           pipe' = [pipe EXCEPT ![h] = Append(@, [op |-> op, t |-> t])],
           known' = known
    PROVE  PipeKnown'
<1>1. t <= known
  BY Known
<1>2. PICK e \in Entries : e = [op |-> op, t |-> t] /\ e.t <= known
  BY <1>1 DEF Entries
<1>3. pipe' = [pipe EXCEPT ![h] = Append(@, e)]
  BY <1>2
<1> QED
  BY <1>2, <1>3, Appended DEF MapInv

LEMMA FeedKeeps ==
    ASSUME MapInv, NEW t \in Threads, ctx[t].mapped, NEW h \in Hwcs,
           NEW d \in Contexts, d.mapped, d.hwc = ctx[t].hwc,
           Feed(t, h, d) \/ FeedSwitch(t, h, d), PacketMoves(t),
           UNCHANGED <<sent, started, setup, known, list, nextSWCToTry, run>>,
           asking' \in {None, asking, t}
    PROVE  MapInv'
<1>1. CASE Feed(t, h, d)
  <2>1. PICK c : c = PrepareToSend(d)
    OBVIOUS
  <2>2. c \in Contexts /\ c.mapped /\ c.hwc = ctx[t].hwc
    BY <2>1, PrepareToSendContext
  <2>3. PICK op \in {"switch", "op", "anonymous"} : op = Operation(d)
    BY DEF Operation
  <2>4. /\ pipe' = [pipe EXCEPT ![h] = Append(@, [op |-> op, t |-> t])]
        /\ ctx' = [ctx EXCEPT ![t] = c]
    BY <1>1, <2>1, <2>3 DEF Feed
  <2>5. PipeKnown'
    BY <2>4, FeedStep
  <2> QED
    BY <2>2, <2>4, <2>5, ContextStep
<1>2. CASE FeedSwitch(t, h, d)
  <2>1. PICK c : c = [d EXCEPT !.switch = "sent"]
    OBVIOUS
  <2>2. c \in Contexts /\ c.mapped /\ c.hwc = ctx[t].hwc
    BY <2>1 DEF Contexts
  <2>3. PICK op \in {"switch", "op", "anonymous"} : op = "switch"
    OBVIOUS
  <2>4. /\ pipe' = [pipe EXCEPT ![h] = Append(@, [op |-> op, t |-> t])]
        /\ ctx' = [ctx EXCEPT ![t] = c]
    BY <1>2, <2>1, <2>3 DEF FeedSwitch
  <2>5. PipeKnown'
    BY <2>4, FeedStep
  <2> QED
    BY <2>2, <2>4, <2>5, ContextStep
<1> QED
  BY <1>1, <1>2

\* What the scheduler keeps when a fetch leaves the contexts and the pipeline.
LEMMA PacketStep ==
    ASSUME MapInv, NEW t \in Threads, ctx[t].mapped, PacketMoves(t),
           UNCHANGED <<sent, started, setup, known, list, nextSWCToTry, run, ctx, pipe>>,
           asking' \in {None, asking, t}
    PROVE  MapInv'
<1>1. PICK c \in Contexts : c = ctx[t] /\ c.mapped /\ c.hwc = ctx[t].hwc
  BY Known
<1>2. ctx' = [ctx EXCEPT ![t] = c]
  BY <1>1, Known
<1>3. PipeKnown'
  BY DEF MapInv, PipeKnown
<1> QED
  BY <1>1, <1>2, <1>3, ContextStep

LEMMA FetchSwitchKeeps ==
    ASSUME MapInv, NEW h \in Hwcs, FetchSwitch(h) \/ FetchBuffered(h)
    PROVE  MapInv'
<1>1. PICK t \in Threads : t = run[h] /\ ctx[t].mapped /\ ctx[t] \in Contexts
  BY Known DEF FetchSwitch, FetchBuffered, Fetching
<1>2. PICK d \in Contexts : d = ctx[t] /\ d.mapped /\ d.hwc = ctx[t].hwc
  BY <1>1
<1>3. Feed(t, h, d) \/ FeedSwitch(t, h, d)
  BY <1>1, <1>2 DEF FetchSwitch, FetchBuffered
<1>4. /\ UNCHANGED <<sent, started, setup, known, list, nextSWCToTry, run>>
      /\ asking' \in {None, asking, t} /\ PacketMoves(t)
  BY DEF FetchSwitch, FetchBuffered, PacketMoves
<1> QED
  BY <1>1, <1>2, <1>3, <1>4, FeedKeeps

LEMMA FetchAsksKeeps ==
    ASSUME MapInv, NEW h \in Hwcs, FetchAsks(h)
    PROVE  MapInv'
<1>1. PICK t \in Threads : t = run[h] /\ ctx[t].mapped /\ t <= known
  BY Known DEF FetchAsks, Fetching
<1>2. PICK s : s = State
  OBVIOUS
<1>3. Sound(s, known, started) /\ known \in Nat
  BY <1>2 DEF MapInv, Counted
<1>4. PICK r : r = IF ctx[t].outstanding > 0 THEN Allowed(s, t) ELSE s
  OBVIOUS
<1>5. Becomes(r) /\ asking' = t /\ UNCHANGED <<started, setup, known, pipe>>
  BY <1>1, <1>2, <1>4 DEF FetchAsks
<1>6. /\ r.list = s.list /\ r.next = s.next /\ r.run = s.run /\ r.ctx = s.ctx
      /\ r.sent = s.sent
      /\ \/ r.ipc = s.ipc
         \/ /\ s.ipc[t].state = "consumed"
            /\ r.ipc = [s.ipc EXCEPT ![t] = Answered(s.ipc[t])]
  <2>1. CASE r = s
    BY <2>1
  <2>2. CASE r # s
    <3>1. r = Allowed(s, t)
      BY <1>4, <2>2
    <3>2. \/ /\ s.ipc[t].state = "consumed"
             /\ r.ipc = [s.ipc EXCEPT ![t] = Answered(s.ipc[t])]
             /\ r.list = s.list /\ r.next = s.next /\ r.run = s.run
             /\ r.ctx = s.ctx /\ r.sent = s.sent
          \/ Alias(s, r)
      BY ONLY <1>1, <1>3, <3>1, t \in Threads, AllowedSound
    <3> QED
      BY <3>2 DEF Alias
  <2> QED
    BY <2>1, <2>2
<1>7. /\ s.ctx = ctx /\ s.list = list /\ s.run = run /\ s.ipc = ipc /\ s.sent = sent
      /\ s.next = nextSWCToTry
  BY <1>2, StateIs
<1>8. UNCHANGED <<sent, started, setup, known, list, nextSWCToTry, run, ctx, pipe>>
  BY <1>5, <1>6, <1>7 DEF Becomes
<1>9. PacketMoves(t)
  <2>1. CASE r.ipc = s.ipc
    BY <1>5, <1>7, <2>1 DEF Becomes, PacketMoves
  <2>2. CASE r.ipc # s.ipc
    <3>1. PICK p \in Packets : p = Answered(ipc[t])
      BY Known DEF Packets, Answered
    <3>2. ipc' = [ipc EXCEPT ![t] = p] /\ ipc[t].state # "empty"
      BY <1>5, <1>6, <1>7, <2>2, <3>1 DEF Becomes
    <3> QED
      BY <3>2 DEF PacketMoves
  <2> QED
    BY <2>1, <2>2
<1> QED
  BY <1>1, <1>5, <1>8, <1>9, PacketStep

\* What a pause, a timed wait and an exit make of a context.
LEMMA LeavingContext ==
    ASSUME NEW c \in Contexts, NEW e \in Event, e.kind \in {"syscall", "wait", "end"}
    PROVE  /\ Paused(c) \in Contexts /\ Paused(c).mapped = c.mapped
           /\ Paused(c).hwc = c.hwc
           /\ InTimedWait(c, e.count) \in Contexts
           /\ InTimedWait(c, e.count).mapped = c.mapped
           /\ InTimedWait(c, e.count).hwc = c.hwc
           /\ Left(c, e) \in Contexts /\ Left(c, e).mapped = c.mapped
           /\ Left(c, e).hwc = c.hwc
<1>1. \A d \in Contexts : /\ Paused(d) \in Contexts /\ Paused(d).mapped = d.mapped
                          /\ Paused(d).hwc = d.hwc
  BY DEF Paused, StartDeschedule, Contexts
<1>2. e.count \in Nat
  BY DEF Event
<1>3. PICK n \in Int : n = e.count + 1
  BY <1>2
<1>4. PICK w : w = InTimedWait(c, e.count)
  OBVIOUS
<1>5. w = [c EXCEPT !.timed = TRUE, !.left = n]
  BY <1>3, <1>4 DEF InTimedWait
<1>6. w \in Contexts /\ w.mapped = c.mapped /\ w.hwc = c.hwc
  BY <1>5 DEF Contexts
<1>7. Left(c, e) \in Contexts /\ Left(c, e).mapped = c.mapped /\ Left(c, e).hwc = c.hwc
  <2>1. CASE e.kind = "syscall"
    <3>1. PICK m \in Nat : m = c.preceding + e.count
      BY <1>2 DEF Contexts
    <3>2. PICK d : d = [c EXCEPT !.preceding = m]
      OBVIOUS
    <3>3. d \in Contexts /\ d.mapped = c.mapped /\ d.hwc = c.hwc
      BY <3>2 DEF Contexts
    <3>4. Left(c, e) = Paused(d)
      BY <2>1, <3>1, <3>2 DEF Left
    <3> QED
      BY <1>1, <3>3, <3>4
  <2>2. CASE e.kind = "wait"
    <3>1. Left(c, e) = Paused(w)
      BY <1>4, <2>2 DEF Left
    <3> QED
      BY <1>1, <1>6, <3>1
  <2>3. CASE e.kind = "end"
    <3>1. Left(c, e) = [Exited(c) EXCEPT !.ended = TRUE]
      BY <2>3 DEF Left
    <3> QED
      BY <3>1 DEF Exited, StartDeschedule, Contexts
  <2> QED
    BY <2>1, <2>2, <2>3
<1> QED
  BY <1>1, <1>4, <1>6, <1>7

LEMMA FetchTimesOutKeeps ==
    ASSUME MapInv, FetchTimesOut
    PROVE  MapInv'
<1>1. PICK t \in Threads : t = asking /\ ctx[t].mapped /\ ctx[t] \in Contexts
  BY Known DEF FetchTimesOut, MapInv, AskingMapped
<1>2. PICK h \in Hwcs : h = ctx[t].hwc
  BY Known
<1>3. PICK d : d = Paused(ctx[t])
  OBVIOUS
<1>4. d \in Contexts /\ d.mapped /\ d.hwc = ctx[t].hwc
  BY <1>1, <1>3 DEF Paused, StartDeschedule, Contexts
<1>5. /\ FeedSwitch(t, h, d) /\ asking' \in {None, asking, t} /\ PacketMoves(t)
      /\ UNCHANGED <<sent, started, setup, known, list, nextSWCToTry, run>>
  BY <1>1, <1>2, <1>3 DEF FetchTimesOut, PacketMoves
<1> QED
  BY <1>1, <1>4, <1>5, FeedKeeps

LEMMA FetchReceivesKeeps ==
    ASSUME MapInv, FetchReceives
    PROVE  MapInv'
<1>1. PICK t \in Threads : /\ t = asking /\ ctx[t].mapped /\ ctx[t] \in Contexts
                           /\ ipc[t].state = "ready" /\ ipc[t] \in Packets
  BY Known DEF FetchReceives, MapInv, AskingMapped
<1>2. PICK e \in Event : e = Program[t][sent[t]]
  BY <1>1, EventSent
<1>3. PICK h \in Hwcs : h = ctx[t].hwc
  BY Known
<1>4. UNCHANGED <<sent, started, setup, known, list, nextSWCToTry, run>>
  BY DEF FetchReceives
<1>5. PICK p \in Packets : p = Received(ipc[t])
  BY <1>1, <1>2, PacketsTyped
<1>6. PICK q \in Packets : q = Answered(p)
  BY <1>2, <1>5, PacketsTyped
<1>7. ASSUME NEW m \in Packets, ipc' = [ipc EXCEPT ![t] = m] PROVE PacketMoves(t)
  BY <1>1, <1>7 DEF PacketMoves
<1>8. CASE ReceiveHint(t)
  <2>1. ipc' = [ipc EXCEPT ![t] = q] /\ UNCHANGED <<ctx, pipe, asking>>
    BY <1>5, <1>6, <1>8 DEF ReceiveHint
  <2>2. PacketMoves(t)
    BY <1>7, <2>1
  <2> QED
    BY <1>1, <1>4, <2>1, <2>2, PacketStep
<1>9. CASE ReceiveOperation(t, e)
  <2>1. PICK n \in Nat : n = ctx[t].preceding + e.count
    BY <1>1 DEF Contexts, Event
  <2>2. PICK d : d = [ctx[t] EXCEPT !.preceding = n, !.pending = TRUE]
    OBVIOUS
  <2>3. d \in Contexts /\ d.mapped /\ d.hwc = ctx[t].hwc
    BY <1>1, <2>2 DEF Contexts
  <2>4. Feed(t, h, d) /\ ipc' = [ipc EXCEPT ![t] = p] /\ asking' = None
    BY <1>3, <1>5, <1>9, <2>1, <2>2 DEF ReceiveOperation
  <2>5. PacketMoves(t)
    BY <1>7, <2>4
  <2> QED
    BY <1>1, <1>4, <2>3, <2>4, <2>5, FeedKeeps
<1>10. CASE ReceiveLeave(t, e)
  <2>1. ipc' = [ipc EXCEPT ![t] = q]
    BY <1>5, <1>6, <1>10 DEF ReceiveLeave
  <2>2. PacketMoves(t)
    BY <1>7, <2>1
  <2>3. CASE e.kind = "wait" /\ ctx[t].switch # "none"
    <3>1. UNCHANGED <<ctx, pipe, asking>>
      BY <1>10, <2>3 DEF ReceiveLeave
    <3> QED
      BY <1>1, <1>4, <2>2, <3>1, PacketStep
  <2>4. CASE ~(e.kind = "wait" /\ ctx[t].switch # "none")
    <3>1. PICK d : d = Left(ctx[t], e)
      OBVIOUS
    <3>2. e.kind \in {"syscall", "wait", "end"}
      BY <1>10 DEF ReceiveLeave
    <3>3. d \in Contexts /\ d.mapped /\ d.hwc = ctx[t].hwc
      BY <1>1, <3>1, <3>2, LeavingContext
    <3>4. FeedSwitch(t, h, d) /\ asking' = None
      BY <1>3, <1>10, <2>4, <3>1 DEF ReceiveLeave
    <3> QED
      BY <1>1, <1>4, <2>2, <3>3, <3>4, FeedKeeps
  <2> QED
    BY <2>3, <2>4
<1>11. CASE ReceiveWait(t, e)
  <2>1. PICK c : c = InTimedWait(ctx[t], e.count)
    OBVIOUS
  <2>2. e.kind \in {"syscall", "wait", "end"}
    BY <1>11 DEF ReceiveWait
  <2>3. c \in Contexts /\ c.mapped /\ c.hwc = ctx[t].hwc
    BY <1>1, <2>1, <2>2, LeavingContext
  <2>4. /\ ctx' = [ctx EXCEPT ![t] = c]
        /\ ipc' = [ipc EXCEPT ![t] = q]
        /\ asking' = None /\ pipe' = pipe
    BY <1>5, <1>6, <1>11, <2>1, Known DEF ReceiveWait
  <2>5. PacketMoves(t)
    BY <1>7, <2>4
  <2>6. PipeKnown'
    BY <1>4, <2>4 DEF MapInv, PipeKnown
  <2> QED
    BY <1>1, <1>4, <2>3, <2>4, <2>5, <2>6, ContextStep
<1> QED
  BY <1>1, <1>2, <1>8, <1>9, <1>10, <1>11 DEF FetchReceives

-----------------------------------------------------------------------------
(* Committing.                                                             *)

LEMMA CommittedContext ==
    ASSUME NEW c \in Contexts, NEW op \in {"switch", "op", "anonymous"}
    PROVE  LET d == Committed(c, op)
           IN  /\ d \in Contexts /\ d.mapped = c.mapped /\ d.hwc = c.hwc
               /\ d.deschedule = c.deschedule
               /\ d.runnable = c.runnable /\ d.timed = c.timed
<1>1. CASE op = "switch"
  <2>1. Committed(c, op) = [c EXCEPT !.switch = "committed"]
    BY <1>1 DEF Committed
  <2> QED
    BY <2>1 DEF Contexts
<1>2. CASE op = "op"
  <2>1. PICK n \in Int : n = c.outstanding - 1
    BY DEF Contexts
  <2>2. Committed(c, op) = [c EXCEPT !.outstanding = n]
    BY <1>2, <2>1 DEF Committed
  <2> QED
    BY <2>2 DEF Contexts
<1>3. CASE op = "anonymous"
  <2>1. Committed(c, op) = c
    BY <1>3 DEF Committed
  <2> QED
    BY <2>1
<1> QED
  BY <1>1, <1>2, <1>3

LEMMA PacketsFitStay ==
    ASSUME NEW s \in States, NEW r, Delivers(s, r), PacketsFit(s)
    PROVE  PacketsFit(r)
<1> SUFFICES ASSUME NEW t \in Threads
             PROVE  /\ r.sent[t] <= Len(Program[t])
                    /\ r.ipc[t].state # "empty" => r.sent[t] >= 1
  BY DEF PacketsFit
<1>1. s.sent[t] \in Nat /\ Len(Program[t]) \in Nat
  BY StateMembers, MingoAssumption
<1>2. CASE r.ipc[t] = s.ipc[t] /\ r.sent[t] = s.sent[t]
  BY <1>2 DEF PacketsFit
<1>3. CASE Came(s, r, t)
  BY <1>1, <1>3 DEF Came
<1> QED
  BY <1>2, <1>3 DEF Delivers

\* ContextSwitchCompleted.
LEMMA SwitchSound ==
    ASSUME NEW s, NEW n \in Nat, NEW m, Sound(s, n, m), NEW t \in Threads, t <= n,
           NEW r \in ContextSwitchCompleted(s, t)
    PROVE  Sound(r, n, m) \/ Alias(s, r)
<1>1. s \in States /\ Fit(s, NoHole)
  BY DEF Sound
<1>2. CASE ~s.ctx[t].mapped \/ ~s.ctx[t].deschedule
  <2>1. r = [s EXCEPT !.error = "context is not being descheduled"]
    BY <1>2 DEF ContextSwitchCompleted
  <2> QED
    BY <1>1, <2>1 DEF States, Alias
<1>3. CASE s.ctx[t].mapped /\ s.ctx[t].deschedule
  <2>1. /\ r \in States /\ Fit(r, NoHole) /\ Conserves(r, {})
        /\ Listed(r) \subseteq Listed(s)
        /\ \A u \in Threads : u \notin Listed(s) /\ u # t => r.ctx[u] = s.ctx[u]
        /\ Delivers(s, r)
    BY <1>1, <1>3, SwitchFits
  <2>2. PacketsFit(r) /\ FirstEvents(r, n, m)
    BY <1>1, <2>1, PacketsFitStay, FirstEventsStay DEF Sound
  <2>3. ASSUME NEW u \in Threads, u > n PROVE r.ctx[u] = NewContext /\ u \notin Listed(r)
    <3>1. u # t
      BY <2>3, Sizes DEF Threads
    <3>2. s.ctx[u] = NewContext /\ u \notin Listed(s)
      BY <2>3 DEF Untouched, Sound
    <3> QED
      BY <2>1, <3>1, <3>2
  <2> QED
    BY <2>1, <2>2, <2>3 DEF Sound, Untouched
<1> QED
  BY <1>2, <1>3

LEMMA CommitKeeps ==
    ASSUME MapInv, NEW h \in Hwcs, Commit(h)
    PROVE  MapInv'
<1>1. pipe[h] \in Seq(Entries) /\ pipe[h] # <<>> /\ known \in Nat /\ asking = None
  BY DEF MapInv, PipeKnown, Counted, Commit, Idle
<1>2. PICK t : t = pipe[h][1].t
  OBVIOUS
<1>3. PICK op : op = pipe[h][1].op
  OBVIOUS
<1>4. t \in Threads /\ t <= known /\ op \in {"switch", "op", "anonymous"}
  <2>1. pipe[h][1] \in Entries /\ 1 \in 1 .. Len(pipe[h])
    BY <1>1
  <2>2. pipe[h][1].t <= known
    BY <2>1 DEF MapInv, PipeKnown
  <2> QED
    BY <1>2, <1>3, <2>1, <2>2 DEF Entries
<1>5. PICK z : z = State
  OBVIOUS
<1>6. Sound(z, known, started) /\ z \in States /\ z.ctx = ctx
  BY <1>5, StateIs DEF MapInv, Sound
<1>7. PICK c : c = Committed(ctx[t], op)
  OBVIOUS
<1>8. c \in Contexts /\ Replaces(c, z.ctx[t])
  <2>1. /\ c \in Contexts /\ c.mapped = ctx[t].mapped /\ c.hwc = ctx[t].hwc
        /\ c.deschedule = ctx[t].deschedule
        /\ c.runnable = ctx[t].runnable /\ c.timed = ctx[t].timed
    BY <1>4, <1>7, Known, CommittedContext
  <2>2. ctx[t].deschedule => ctx[t].mapped
    BY <1>4, <1>6 DEF Sound, Fit
  <2> QED
    BY <1>6, <2>1, <2>2 DEF Replaces
<1>9. PICK s : s = WithContext(z, t, c)
  OBVIOUS
<1>10. Sound(s, known, started)
  BY <1>1, <1>4, <1>6, <1>8, <1>9, ReplaceSound
<1>11. PICK a : /\ a = IF Settles(c, op) /\ op # "switch" /\ ~c.ended
                       THEN Allowed(s, t) ELSE s
                /\ \E r \in IF a.error = "" /\ Settles(c, op) /\ c.switch = "committed"
                            THEN ContextSwitchCompleted(
                                    [a EXCEPT !.ctx[t].switch = "none"], t)
                            ELSE {a} :
                      Becomes(r)
  BY <1>2, <1>3, <1>5, <1>7, <1>9 DEF Commit, WithContext
<1>12. \/ a.error = "" /\ Sound(a, known, started) /\ a.ctx = s.ctx
       \/ a.error # "" /\ Alias(s, a)
  <2>1. CASE a = s
    BY <1>10, <2>1 DEF Sound, Fit
  <2>2. CASE a # s
    <3>1. a = Allowed(s, t)
      BY <1>11, <2>2
    <3>2. \/ a.error = "" /\ Sound(a, known, started) /\ a.ctx = s.ctx
          \/ a.error = "Packet response error" /\ Alias(s, a)
      BY ONLY <1>1, <1>4, <1>10, <3>1, AllowedSound
    <3> QED
      BY <3>2
  <2> QED
    BY <2>1, <2>2
<1>13. PICK r : /\ Becomes(r)
                /\ r \in IF a.error = "" /\ Settles(c, op) /\ c.switch = "committed"
                         THEN ContextSwitchCompleted(
                                 [a EXCEPT !.ctx[t].switch = "none"], t)
                         ELSE {a}
  BY <1>11
<1>14. PICK q : Sound(q, known, started) /\ Alias(q, r)
  <2>1. CASE r = a
    <3>1. CASE Sound(a, known, started)
      BY <2>1, <3>1 DEF Alias
    <3>2. CASE ~Sound(a, known, started)
      BY <1>10, <1>12, <2>1, <3>2
    <3> QED
      BY <3>1, <3>2
  <2>2. CASE r # a
    <3>1. /\ a.error = ""
          /\ r \in ContextSwitchCompleted([a EXCEPT !.ctx[t].switch = "none"], t)
      BY <1>13, <2>2
    <3>2. Sound(a, known, started) /\ a \in States /\ a.ctx[t] \in Contexts
      BY <1>4, <1>12, <3>1, StateMembers DEF Sound
    <3>3. PICK d : d = [a.ctx[t] EXCEPT !.switch = "none"]
      OBVIOUS
    <3>4. d \in Contexts /\ Replaces(d, a.ctx[t])
      <4>1. a.ctx[t].deschedule => a.ctx[t].mapped
        BY <1>4, <3>2 DEF Sound, Fit
      <4> QED
        BY <3>2, <3>3, <4>1 DEF Contexts, Replaces
    <3>5. PICK q : q = WithContext(a, t, d)
      OBVIOUS
    <3>6. Sound(q, known, started)
      BY <1>1, <1>4, <3>2, <3>4, <3>5, ReplaceSound
    <3>7. [a EXCEPT !.ctx[t].switch = "none"] = q
      BY <3>3, <3>5 DEF WithContext
    <3>8. r \in ContextSwitchCompleted(q, t)
      BY <3>1, <3>7
    <3>9. Sound(r, known, started) \/ Alias(q, r)
      BY ONLY <1>1, <1>4, <3>6, <3>8, SwitchSound
    <3>10. Alias(r, r)
      BY DEF Alias
    <3> QED
      BY <3>6, <3>9, <3>10
  <2> QED
    BY <2>1, <2>2
<1>15. Alias(q, State')
  <2>1. Alias(r, State')
    BY <1>13, BecomesAlias
  <2> QED
    BY <1>14, <2>1 DEF Alias
<1>16. UNCHANGED <<known, started, setup>> /\ asking' = None
       /\ pipe' = [pipe EXCEPT ![h] = Tail(@)]
  BY <1>1 DEF Commit
<1>17. PipeKnown'
  <2>1. Tail(pipe[h]) \in Seq(Entries) /\ Len(Tail(pipe[h])) = Len(pipe[h]) - 1
        /\ \A i \in 1 .. Len(pipe[h]) - 1 : Tail(pipe[h])[i] = pipe[h][i + 1]
    BY <1>1
  <2>2. pipe' \in [Hwcs -> Seq(Entries)]
    BY <1>16, <2>1 DEF MapInv, PipeKnown
  <2>3. ASSUME NEW g \in Hwcs, NEW i \in 1 .. Len(pipe'[g]) PROVE pipe'[g][i].t <= known
    <3>1. CASE g = h
      <4>1. pipe'[g] = Tail(pipe[h])
        BY <1>16, <3>1 DEF MapInv, PipeKnown
      <4>2. i \in 1 .. Len(pipe[h]) - 1 /\ i + 1 \in 1 .. Len(pipe[h])
        BY <1>1, <2>1, <4>1
      <4> QED
        BY <2>1, <4>1, <4>2 DEF MapInv, PipeKnown
    <3>2. CASE g # h
      <4>1. pipe'[g] = pipe[g]
        BY <1>16, <3>2 DEF MapInv, PipeKnown
      <4> QED
        BY <4>1 DEF MapInv, PipeKnown
    <3> QED
      BY <3>1, <3>2
  <2> QED
    BY <1>16, <2>2, <2>3 DEF PipeKnown
<1>18. AskingMapped' /\ Counted'
  BY <1>16 DEF AskingMapped, MapInv, Counted
<1>19. Sound(q, known', started')
  BY <1>14, <1>16
<1> QED
  BY <1>15, <1>17, <1>18, <1>19, Together

-----------------------------------------------------------------------------
(* The scheduler's clock.                                                  *)

\* Every context may change that is listed or mapped, but it stays where it is
\* and does not begin to wait.
LEMMA ContextsSound ==
    ASSUME NEW s, NEW n, NEW m, Sound(s, n, m),
           NEW f \in [Threads -> Contexts],
           \A u \in Threads :
              /\ f[u].mapped = s.ctx[u].mapped /\ f[u].hwc = s.ctx[u].hwc
              /\ f[u].deschedule => f[u].mapped
              /\ (f[u].runnable \/ f[u].timed) =>
                    (f[u].mapped \/ s.ctx[u].runnable \/ s.ctx[u].timed)
              /\ u > n => f[u] = s.ctx[u],
           NEW r, r = [s EXCEPT !.ctx = f]
    PROVE  Sound(r, n, m)
<1>1. s \in States /\ Fit(s, NoHole) /\ Conserves(s, {})
  BY DEF Sound
<1>2. /\ r \in States /\ r.ctx = f /\ r.list = s.list /\ r.run = s.run
      /\ r.ipc = s.ipc /\ r.sent = s.sent /\ r.error = s.error /\ r.next = s.next
  BY <1>1 DEF States
<1>3. Fit(r, NoHole)
  <2>1. \A u \in Threads : /\ r.ctx[u].mapped = s.ctx[u].mapped
                           /\ r.ctx[u].hwc = s.ctx[u].hwc
                           /\ r.ctx[u].deschedule => r.ctx[u].mapped
    BY <1>2
  <2> QED
    BY ONLY <1>1, <1>2, <2>1, FitSame
<1>4. Listed(r) = Listed(s) /\ Free(r) = Free(s)
  BY <1>2 DEF Listed, Free
<1>5. Conserves(r, {})
  <2>1. ASSUME NEW u \in Idlers(r) PROVE u \in Idlers(s)
    <3>1. /\ u \in Threads /\ u \in Listed(s) /\ ~f[u].mapped
          /\ f[u].runnable \/ f[u].timed
      BY <1>2, <1>4 DEF Idlers, Listed
    <3>2. ~s.ctx[u].mapped /\ (s.ctx[u].runnable \/ s.ctx[u].timed)
      BY <3>1
    <3> QED
      BY <3>1, <3>2 DEF Idlers
  <2> QED
    BY <1>1, <1>4, <2>1 DEF Conserves
<1>6. Untouched(r, n)
  BY <1>2, <1>4 DEF Untouched, Sound
<1>7. PacketsFit(r) /\ FirstEvents(r, n, m)
  BY <1>2 DEF Sound, PacketsFit, FirstEvents
<1> QED
  BY <1>2, <1>3, <1>5, <1>6, <1>7 DEF Sound

LEMMA TimedWaitSound ==
    ASSUME NEW s, NEW n, NEW m, Sound(s, n, m), NEW r, r = UpdateTimedWait(s)
    PROVE  Sound(r, n, m)
<1>1. s \in States /\ \A u \in Threads : s.ctx[u].deschedule => s.ctx[u].mapped
  BY DEF Sound, Fit
<1>2. \A u \in Threads : s.ctx[u] \in Contexts
  BY <1>1, StateMembers
<1> DEFINE Ticked(u) == [s.ctx[u] EXCEPT !.left = @ - 1, !.timed = s.ctx[u].left > 1]
           Due(u) == s.ctx[u].timed /\ \E i \in Occupied(s) : s.list[i] = u
<1>3. ASSUME NEW u \in Threads
      PROVE  /\ Ticked(u) \in Contexts /\ Ticked(u).mapped = s.ctx[u].mapped
             /\ Ticked(u).hwc = s.ctx[u].hwc
             /\ Ticked(u).deschedule = s.ctx[u].deschedule
             /\ Ticked(u).runnable = s.ctx[u].runnable
  <2>1. s.ctx[u] \in Contexts
    BY <1>2
  <2>2. PICK k \in Int : k = s.ctx[u].left - 1
    BY <2>1 DEF Contexts
  <2>3. PICK x \in Int : x = s.ctx[u].left
    BY <2>1 DEF Contexts
  <2>4. PICK b \in BOOLEAN : b = (s.ctx[u].left > 1)
    <3>1. (x > 1) \in BOOLEAN
      OBVIOUS
    <3> QED
      BY <2>3, <3>1
  <2>5. Ticked(u) = [s.ctx[u] EXCEPT !.left = k, !.timed = b]
    BY <2>2, <2>4
  <2> HIDE DEF Ticked
  <2> QED
    BY <2>1, <2>5 DEF Contexts
<1>4. PICK f : f = [u \in Threads |-> IF Due(u) THEN Ticked(u) ELSE s.ctx[u]]
  OBVIOUS
<1>5. r = [s EXCEPT !.ctx = f]
  <2>1. r = [s EXCEPT !.ctx = [u \in Threads |-> IF Due(u) THEN Ticked(u) ELSE s.ctx[u]]]
    BY DEF UpdateTimedWait
  <2> HIDE DEF Ticked, Due
  <2> QED
    BY <1>4, <2>1
<1> HIDE DEF Ticked
<1>6. f \in [Threads -> Contexts]
  BY <1>2, <1>3, <1>4
<1>7. ASSUME NEW u \in Threads
      PROVE  /\ f[u].mapped = s.ctx[u].mapped /\ f[u].hwc = s.ctx[u].hwc
             /\ f[u].deschedule => f[u].mapped
             /\ (f[u].runnable \/ f[u].timed) =>
                   (f[u].mapped \/ s.ctx[u].runnable \/ s.ctx[u].timed)
             /\ u > n => f[u] = s.ctx[u]
  <2>1. CASE Due(u)
    <3>1. f[u] = Ticked(u) /\ s.ctx[u].timed
      BY <1>4, <2>1
    <3>2. u \in Listed(s)
      BY <2>1 DEF Listed, Occupied
    <3>3. ~(u > n)
      BY <3>2 DEF Sound, Untouched
    <3> QED
      BY <1>1, <1>3, <3>1, <3>3
  <2>2. CASE ~Due(u)
    <3>1. f[u] = s.ctx[u]
      BY <1>4, <2>2
    <3> QED
      BY <1>1, <3>1
  <2> QED
    BY <2>1, <2>2
<1> QED
  BY ONLY <1>5, <1>6, <1>7, Sound(s, n, m), ContextsSound

LEMMA IntervalTimerSound ==
    ASSUME NEW s, NEW n, NEW m, Sound(s, n, m), NEW r, r = IntervalTimer(s)
    PROVE  Sound(r, n, m)
<1>1. s \in States /\ \A u \in Threads : s.ctx[u].deschedule => s.ctx[u].mapped
  BY DEF Sound, Fit
<1>2. \A u \in Threads : s.ctx[u] \in Contexts
  BY <1>1, StateMembers
<1> DEFINE Asked(u) == StartDeschedule([s.ctx[u] EXCEPT !.switch = "requested"])
           Due(u) == (\E h \in Hwcs : s.run[h] = u) /\ ~s.ctx[u].deschedule
<1>3. ASSUME NEW u \in Threads
      PROVE  /\ Asked(u) \in Contexts /\ Asked(u).mapped = s.ctx[u].mapped
             /\ Asked(u).hwc = s.ctx[u].hwc
  BY <1>2 DEF StartDeschedule, Contexts
<1>4. PICK f : f = [u \in Threads |-> IF Due(u) THEN Asked(u) ELSE s.ctx[u]]
  OBVIOUS
<1>5. r = [s EXCEPT !.ctx = f]
  BY <1>4 DEF IntervalTimer
<1> HIDE DEF Asked
<1>6. f \in [Threads -> Contexts]
  BY <1>2, <1>3, <1>4
<1>7. ASSUME NEW u \in Threads
      PROVE  /\ f[u].mapped = s.ctx[u].mapped /\ f[u].hwc = s.ctx[u].hwc
             /\ f[u].deschedule => f[u].mapped
             /\ (f[u].runnable \/ f[u].timed) =>
                   (f[u].mapped \/ s.ctx[u].runnable \/ s.ctx[u].timed)
             /\ u > n => f[u] = s.ctx[u]
  <2>1. CASE Due(u)
    <3>1. f[u] = Asked(u)
      BY <1>4, <2>1
    <3>2. PICK h \in Hwcs : s.run[h] = u
      BY <2>1
    <3>3. h # NoHole /\ u # None
      BY Sizes DEF NoHole, Hwcs
    <3>4. s.ctx[u].mapped
      BY <3>2, <3>3 DEF Sound, Fit
    <3>5. ~(u > n)
      BY <3>4, NewContextTyped DEF Sound, Untouched
    <3> QED
      BY <1>3, <3>1, <3>4, <3>5
  <2>2. CASE ~Due(u)
    <3>1. f[u] = s.ctx[u]
      BY <1>4, <2>2
    <3> QED
      BY <1>1, <3>1
  <2> QED
    BY <2>1, <2>2
<1> QED
  BY ONLY <1>5, <1>6, <1>7, Sound(s, n, m), ContextsSound

LEMMA PolledSound ==
    ASSUME Counted, NEW s, Sound(s, known, started), NEW due, NEW r \in Polled(s, due)
    PROVE  Sound(r, IF "new" \in due THEN started ELSE known, started)
<1>1. known \in Nat /\ started \in Nat /\ known <= started /\ started <= NThreads
  BY SetupTyped DEF Counted
<1>2. PICK p \in IF "resumed" \in due THEN Then({s}, CheckStreamResumption) ELSE {s} :
         r \in IF "new" \in due THEN CheckForNewStream(p) ELSE {p}
  BY DEF Polled, Then
<1>3. Sound(p, known, started)
  <2>1. CASE "resumed" \in due
    <3>1. p \in CheckStreamResumption(s)
      BY <1>2, <2>1 DEF Then
    <3>2. s \in States /\ Fit(s, NoHole) /\ Conserves(s, {})
      BY DEF Sound
    <3>3. Decided(s, p, NoHole) /\ Conserves(p, {})
      BY <3>1, <3>2, ResumptionFits
    <3>4. p \in States /\ Fit(p, NoHole) /\ Keeps(s, p)
      BY <3>3 DEF Decided
    <3>5. Untouched(p, known)
      <4>1. Listed(p) = Listed(s)
        BY <3>4 DEF Keeps, Listed
      <4> QED
        BY <3>4, <4>1 DEF Untouched, Sound, Keeps
    <3>6. PacketsFit(p) /\ FirstEvents(p, known, started)
      BY <3>2, <3>4, PacketsFitStay, FirstEventsStay DEF Keeps, Sound
    <3> QED
      BY <3>3, <3>4, <3>5, <3>6 DEF Sound
  <2>2. CASE "resumed" \notin due
    BY <1>2, <2>2
  <2> QED
    BY <2>1, <2>2
<1>4. CASE "new" \in due
  <2>1. r \in CheckForNewStream(p)
    BY <1>2, <1>4
  <2>2. /\ p \in States /\ Fit(p, NoHole) /\ Conserves(p, {})
        /\ Untouched(p, known) /\ FirstEvents(p, known, started)
    BY <1>3 DEF Sound
  <2>3. Extended(p, r) /\ Untouched(r, started)
    BY <1>1, <2>1, <2>2, NewStreamsFit
  <2>4. PacketsFit(r)
    BY <1>3, <2>2, <2>3, PacketsFitStay DEF Extended, Sound
  <2>5. FirstEvents(r, started, started)
    <3>1. \A u \in Threads : ~(u > started /\ u <= started)
      BY <1>1, Sizes DEF Threads
    <3> QED
      BY <3>1 DEF FirstEvents
  <2>6. Sound(r, started, started)
    BY <2>3, <2>4, <2>5 DEF Sound, Extended
  <2> QED
    BY <1>4, <2>6
<1>5. CASE "new" \notin due
  BY <1>2, <1>3, <1>5
<1> QED
  BY <1>4, <1>5

LEMMA ClockKeeps ==
    ASSUME MapInv, NEW due \in Polls, Clock(due)
    PROVE  MapInv'
<1>1. PICK z : z = State /\ Sound(z, known, started)
  BY DEF MapInv
<1>2. PICK w : w = UpdateTimedWait(z)
  OBVIOUS
<1>3. Sound(w, known, started) /\ Counted
  BY <1>1, <1>2, TimedWaitSound DEF MapInv
<1>4. PICK s \in Polled(w, due) :
         \E r \in {IF "timer" \in due THEN IntervalTimer(s) ELSE s} : Becomes(r)
  BY <1>1, <1>2 DEF Clock
<1>5. PICK r : r = (IF "timer" \in due THEN IntervalTimer(s) ELSE s) /\ Becomes(r)
  BY <1>4
<1>6. PICK n : n = IF "new" \in due THEN started ELSE known
  OBVIOUS
<1>7. Sound(s, n, started)
  BY <1>3, <1>6, PolledSound
<1>8. Sound(r, n, started)
  <2>1. CASE "timer" \in due
    <3>1. r = IntervalTimer(s)
      BY <1>5, <2>1
    <3> QED
      BY <1>7, <3>1, IntervalTimerSound
  <2>2. CASE "timer" \notin due
    BY <1>5, <1>7, <2>2
  <2> QED
    BY <2>1, <2>2
<1>9. known' = n /\ UNCHANGED <<started, setup, pipe>> /\ asking' = None
  BY <1>6 DEF Clock, Idle
<1>10. Sound(r, known', started')
  BY <1>8, <1>9
<1>11. Alias(r, State')
  BY <1>5, BecomesAlias
<1>12. /\ known \in Nat /\ started \in Nat /\ known <= started
       /\ n \in Nat /\ known <= n /\ n <= started
  BY <1>3, <1>6 DEF Counted
<1>13. Counted'
  BY <1>9, <1>12 DEF MapInv, Counted
<1>14. PipeKnown'
  <2>1. ASSUME NEW h \in Hwcs, NEW i \in 1 .. Len(pipe[h]) PROVE pipe[h][i].t <= n
    <3>1. pipe[h] \in Seq(Entries)
      BY DEF MapInv, PipeKnown
    <3>2. pipe[h][i] \in Entries
      BY <3>1
    <3>3. pipe[h][i].t \in Nat /\ pipe[h][i].t <= known
      <4>1. pipe[h][i].t \in Threads
        BY <3>2 DEF Entries
      <4>2. pipe[h][i].t <= known
        BY DEF MapInv, PipeKnown
      <4> QED
        BY <4>1, <4>2, Sizes DEF Threads
    <3> QED
      BY <1>12, <3>3
  <2> QED
    BY <1>9, <2>1 DEF MapInv, PipeKnown
<1>15. AskingMapped'
  BY <1>9 DEF AskingMapped
<1> QED
  BY <1>10, <1>11, <1>13, <1>14, <1>15, Together

-----------------------------------------------------------------------------
(* The theorems of the mapping.                                            *)

LEMMA StutterKeeps ==
    ASSUME MapInv, UNCHANGED vars PROVE MapInv'
<1>1. UNCHANGED simulator /\ UNCHANGED <<ipc, sent, started, setup>>
  BY DEF vars, simulator
<1> QED
  BY <1>1, PacketsKnown, ApplicationKeeps

LEMMA NextKeeps ==
    ASSUME PromptStart, MapInv, [Next]_vars PROVE MapInv'
  BY StartKeeps, SendKeeps, ProceedKeeps, FetchSwitchKeeps, FetchAsksKeeps,
     CommitKeeps, FetchTimesOutKeeps, FetchReceivesKeeps, ClockKeeps,
     StutterKeeps DEF Next, Stopped

\* MapInv is an invariant: the contexts and the hardware contexts stay mapped
\* one to one through the decisions RunSoftwareContext, CheckStreamResumption,
\* CheckForNewStream and ContextSwitchCompleted make, nested in each other and
\* interrupted by events, when the first event of a new thread arrives within
\* the wait, however many operations the model holds.
THEOREM MapInvariant ==
    ASSUME PromptStart PROVE Spec => []MapInv
<1>1. Init => MapInv
  BY InitMap
<1>2. MapInv /\ [Next]_vars => MapInv'
  BY NextKeeps
<1> QED
  BY <1>1, <1>2, PTL DEF Spec

LEMMA MapInvMapsOneToOne ==
    ASSUME MapInv PROVE MappedOneToOne
<1>1. Fit(State, NoHole)
  BY DEF MapInv, Sound
<1>2. State.ctx = ctx /\ State.run = run
  BY StateIs
<1>3. \A t \in Threads : ctx[t].mapped => run[ctx[t].hwc] = t
  BY <1>1, <1>2 DEF Fit
<1>4. \A h \in Hwcs : run[h] # None => ctx[run[h]].mapped /\ ctx[run[h]].hwc = h
  BY Known
<1> QED
  BY <1>3, <1>4 DEF MappedOneToOne

\* MappedOneToOne: RunSoftwareContext, TryRunningSoftwareContext and
\* ContextSwitchCompleted keep the context and the hardware context pointing
\* to each other, for every application and every configuration in which a
\* new thread's first event arrives within the wait, whenever the other
\* events arrive.
THEOREM ContextsMapOneToOne ==
    ASSUME PromptStart PROVE Spec => []MappedOneToOne
<1>1. MapInv => MappedOneToOne
  BY MapInvMapsOneToOne
<1> QED
  BY <1>1, MapInvariant, PTL

LEMMA MapInvPicksLater ==
    ASSUME MapInv PROVE PassedOverIsPickedLater
<1>1. PICK s \in States : s = State /\ Conserves(s, {})
  BY DEF MapInv, Sound
<1>2. Active(s, FALSE) # {} => Idlers(s) # {}
  BY <1>1, Accepted
<1>3. Free(s) = Hwcs => Active(s, FALSE) = {}
  BY <1>1, <1>2 DEF Conserves
<1> QED
  BY <1>1, <1>3 DEF PassedOverIsPickedLater

\* PassedOverIsPickedLater: a decision that passes a runnable context over
\* beside a free hardware context (TryRunningSoftwareContext only warns) leaves
\* some context running, whose switch looks for the next one, so the comment
\* "it will be run eventually" does not rest on a poll that never comes.
THEOREM PassedOverPickedLater ==
    ASSUME PromptStart PROVE Spec => []PassedOverIsPickedLater
<1>1. MapInv => PassedOverIsPickedLater
  BY MapInvPicksLater
<1> QED
  BY <1>1, MapInvariant, PTL

-----------------------------------------------------------------------------
(* What is in flight.                                                      *)

\* The counted operations of a pipeline.
Ops(q) == {i \in 1 .. Len(q) : q[i].op = "op"}

LEMMA OpsFinite ==
    ASSUME NEW q \in Seq(Entries)
    PROVE  /\ IsFiniteSet(Ops(q)) /\ Cardinality(Ops(q)) \in Nat
           /\ Cardinality(Ops(q)) <= Len(q)
           /\ Cardinality(Ops(q)) = 0 <=> Ops(q) = {}
<1>1. Len(q) \in Nat
  OBVIOUS
<1>2. IsFiniteSet(1 .. Len(q)) /\ Cardinality(1 .. Len(q)) = Len(q)
  <2>1. IsFiniteSet(1 .. Len(q))
        /\ Cardinality(1 .. Len(q)) = IF 1 > Len(q) THEN 0 ELSE Len(q) - 1 + 1
    BY <1>1, FS_Interval
  <2> QED
    BY <1>1, <2>1
<1>3. Ops(q) \in SUBSET (1 .. Len(q))
  BY DEF Ops
<1>4. IsFiniteSet(Ops(q)) /\ Cardinality(Ops(q)) <= Cardinality(1 .. Len(q))
  BY <1>2, <1>3, FS_Subset
<1>5. Cardinality(Ops(q)) \in Nat
  BY <1>4, FS_CardinalityType
<1>6. Cardinality(Ops(q)) = 0 <=> Ops(q) = {}
  BY <1>4, FS_EmptySet
<1> QED
  BY <1>2, <1>4, <1>5, <1>6

Ones(op) == IF op = "op" THEN 1 ELSE 0

LEMMA OpsAppend ==
    ASSUME NEW q \in Seq(Entries), NEW e \in Entries, NEW r, r = Append(q, e)
    PROVE  Cardinality(Ops(r)) = Cardinality(Ops(q)) + Ones(e.op)
<1>1. /\ r \in Seq(Entries) /\ Len(r) = Len(q) + 1 /\ Len(q) \in Nat
      /\ r[Len(q) + 1] = e
  OBVIOUS
<1>2. ASSUME NEW i \in 1 .. Len(q) PROVE r[i] = q[i]
  OBVIOUS
<1>3. Len(q) + 1 \notin Ops(q)
  BY <1>1 DEF Ops
<1>4. IsFiniteSet(Ops(q)) /\ Cardinality(Ops(q)) \in Nat
  BY OpsFinite
<1>5. \A i : i \in 1 .. Len(r) <=> i \in 1 .. Len(q) \/ i = Len(q) + 1
  BY <1>1
<1>6. CASE e.op = "op"
  <2>1. Ops(r) = Ops(q) \cup {Len(q) + 1}
    <3>1. \A i : i \in Ops(r) <=> i \in Ops(q) \/ i = Len(q) + 1
      BY <1>1, <1>2, <1>5, <1>6 DEF Ops
    <3> QED
      BY <3>1
  <2>2. Cardinality(Ops(r)) = IF Len(q) + 1 \in Ops(q) THEN Cardinality(Ops(q))
                              ELSE Cardinality(Ops(q)) + 1
    BY ONLY <2>1, <1>4, FS_AddElement
  <2> QED
    BY <2>2, <1>3, <1>6 DEF Ones
<1>7. CASE e.op # "op"
  <2>1. Ops(r) = Ops(q)
    <3>1. \A i : i \in Ops(r) <=> i \in Ops(q)
      BY <1>1, <1>2, <1>5, <1>7 DEF Ops
    <3> QED
      BY <3>1
  <2> QED
    BY <2>1, <1>4, <1>7 DEF Ones
<1> QED
  BY <1>6, <1>7

LEMMA OpsTail ==
    ASSUME NEW q \in Seq(Entries), q # <<>>, NEW r, r = Tail(q)
    PROVE  Cardinality(Ops(r)) = Cardinality(Ops(q)) - Ones(q[1].op)
<1>1. /\ r \in Seq(Entries) /\ Len(r) = Len(q) - 1 /\ Len(q) \in Nat /\ Len(q) >= 1
  OBVIOUS
<1>2. \A i \in 1 .. Len(r) : r[i] = q[i + 1]
  OBVIOUS
<1>3. PICK S : S = Ops(q) \ {1}
  OBVIOUS
<1>4. /\ IsFiniteSet(Ops(q)) /\ Cardinality(Ops(q)) \in Nat
      /\ IsFiniteSet(Ops(r)) /\ Cardinality(Ops(r)) \in Nat
  BY <1>1, OpsFinite
<1>5. Cardinality(S) = IF 1 \in Ops(q) THEN Cardinality(Ops(q)) - 1 ELSE Cardinality(Ops(q))
  BY ONLY <1>3, <1>4, FS_RemoveElement
<1>6. 1 \in Ops(q) <=> q[1].op = "op"
  BY <1>1 DEF Ops
<1>7. Cardinality(S) = Cardinality(Ops(q)) - Ones(q[1].op)
  BY <1>4, <1>5, <1>6 DEF Ones
<1>8. \A i : i \in S <=> i \in 2 .. Len(q) /\ q[i].op = "op"
  BY <1>1, <1>3 DEF Ops
<1>9. ExistsBijection(Ops(r), S)
  <2>1. PICK f : f = [i \in Ops(r) |-> i + 1]
    OBVIOUS
  <2>2. ASSUME NEW i \in Ops(r) PROVE f[i] = i + 1 /\ f[i] \in S /\ i \in Nat
    <3>1. i \in 1 .. Len(r) /\ r[i].op = "op" /\ f[i] = i + 1
      BY <2>1 DEF Ops
    <3>2. q[i + 1].op = "op" /\ i + 1 \in 2 .. Len(q)
      BY <3>1, <1>1, <1>2
    <3> QED
      BY <3>1, <3>2, <1>8
  <2>3. f \in [Ops(r) -> S]
    BY <2>1, <2>2
  <2>4. \A i, j \in Ops(r) : f[i] = f[j] => i = j
    BY <2>2
  <2>5. ASSUME NEW k \in S PROVE \E i \in Ops(r) : f[i] = k
    <3>1. k \in 2 .. Len(q) /\ q[k].op = "op"
      BY <1>8
    <3>2. PICK i : i = k - 1
      OBVIOUS
    <3>3. i \in 1 .. Len(r) /\ i + 1 = k
      BY <3>1, <3>2, <1>1
    <3>4. i \in Ops(r)
      BY <3>1, <3>3, <1>2 DEF Ops
    <3> QED
      BY <3>3, <3>4, <2>2
  <2>6. f \in Bijection(Ops(r), S)
    BY <2>3, <2>4, <2>5 DEF Bijection, Injection, Surjection, IsInjective
  <2> QED
    BY <2>6 DEF ExistsBijection
<1>10. Cardinality(S) = Cardinality(Ops(r))
  BY ONLY <1>4, <1>9, FS_Bijection
<1> QED
  BY <1>7, <1>10

Pipes == [Hwcs -> Seq(Entries)]

\* A counted operation belongs to a context that is mapped where it flies.
Homed(f, q) ==
    \A h \in Hwcs : \A i \in Ops(q[h]) : /\ q[h][i].t \in Threads
                                         /\ f[q[h][i].t].mapped
                                         /\ f[q[h][i].t].hwc = h

\* What a context counts is what flies on its hardware context.
Tallied(f, q) ==
    \A t \in Threads :
        f[t].outstanding = IF f[t].mapped THEN Cardinality(Ops(q[f[t].hwc])) ELSE 0

Seated(f, w) ==
    \A t \in Threads : f[t].mapped => f[t].hwc \in Hwcs /\ w[f[t].hwc] = t

\* A decision takes no context off its hardware context that counts something,
\* and puts none where something flies.
LEMMA DecisionFlies ==
    ASSUME NEW q \in Pipes, NEW f, Homed(f, q), Tallied(f, q), NEW v, Seated(f, v),
           NEW g, NEW w, Seated(g, w),
           \A u \in Threads : /\ g[u].outstanding = f[u].outstanding
                              /\ f[u].outstanding # 0 => g[u].mapped /\ g[u].hwc = f[u].hwc
    PROVE  Homed(g, q) /\ Tallied(g, q)
<1>1. ASSUME NEW h \in Hwcs, NEW i \in Ops(q[h])
      PROVE  \E t \in Threads : /\ t = q[h][i].t /\ f[t].outstanding # 0
                                /\ g[t].mapped /\ g[t].hwc = h
  <2>1. PICK t \in Threads : t = q[h][i].t /\ f[t].mapped /\ f[t].hwc = h
    BY <1>1 DEF Homed
  <2>2. q[h] \in Seq(Entries)
    BY DEF Pipes
  <2>3. Cardinality(Ops(q[h])) # 0
    BY <1>1, <2>2, OpsFinite
  <2>4. f[t].outstanding # 0
    BY <2>1, <2>3 DEF Tallied
  <2> QED
    BY <2>1, <2>4
<1>2. Homed(g, q)
  BY <1>1 DEF Homed
<1>3. ASSUME NEW t \in Threads
      PROVE  g[t].outstanding = IF g[t].mapped THEN Cardinality(Ops(q[g[t].hwc])) ELSE 0
  <2>1. CASE f[t].outstanding # 0
    <3>1. f[t].mapped /\ f[t].outstanding = Cardinality(Ops(q[f[t].hwc]))
      BY <2>1 DEF Tallied
    <3> QED
      BY <2>1, <3>1
  <2>2. CASE f[t].outstanding = 0 /\ ~g[t].mapped
    BY <2>2
  <2>3. CASE f[t].outstanding = 0 /\ g[t].mapped
    <3>1. PICK h \in Hwcs : h = g[t].hwc /\ w[h] = t
      BY <2>3 DEF Seated
    <3>2. Ops(q[h]) = {}
      <4> SUFFICES ASSUME NEW i \in Ops(q[h]) PROVE FALSE
        OBVIOUS
      <4>1. PICK u \in Threads : f[u].outstanding # 0 /\ g[u].mapped /\ g[u].hwc = h
        BY <1>1
      <4>2. w[h] = u
        BY <4>1 DEF Seated
      <4> QED
        BY <2>3, <3>1, <4>1, <4>2
    <3>3. Cardinality(Ops(q[h])) = 0
      BY <3>2, FS_EmptySet
    <3> QED
      BY <2>3, <3>1, <3>3
  <2> QED
    BY <2>1, <2>2, <2>3
<1>4. Tallied(g, q)
  BY <1>3 DEF Tallied
<1> QED
  BY <1>2, <1>4

\* The contexts but t, and the pipelines but that of h, stay.
OthersStay(f, g, t) == \A u \in Threads : u # t => g[u] = f[u]
PipesStay(q, r, h) == \A k \in Hwcs : k # h => r[k] = q[k]

AllOf(p, t) == \A i \in Ops(p) : p[i].t = t

\* The pipeline of the hardware context of a context t changes, and with it what
\* t counts.
LEMMA OneFlies ==
    ASSUME NEW q \in Pipes, NEW f, Homed(f, q), Tallied(f, q), NEW w, Seated(f, w),
           NEW t \in Threads, NEW h \in Hwcs, f[t].mapped, f[t].hwc = h,
           NEW g, OthersStay(f, g, t), g[t].mapped, g[t].hwc = h,
           NEW r, PipesStay(q, r, h), AllOf(r[h], t),
           g[t].outstanding = Cardinality(Ops(r[h]))
    PROVE  Homed(g, r) /\ Tallied(g, r)
<1> USE DEF OthersStay, PipesStay, AllOf
<1>1. Homed(g, r)
  <2> SUFFICES ASSUME NEW k \in Hwcs, NEW i \in Ops(r[k])
               PROVE  r[k][i].t \in Threads /\ g[r[k][i].t].mapped /\ g[r[k][i].t].hwc = k
    BY DEF Homed
  <2>1. CASE k = h
    BY <2>1
  <2>2. CASE k # h
    <3>1. r[k] = q[k]
      BY <2>2
    <3>2. PICK u \in Threads : u = r[k][i].t /\ f[u].mapped /\ f[u].hwc = k
      BY <3>1 DEF Homed
    <3>3. u # t
      BY <2>2, <3>2
    <3> QED
      BY <3>2, <3>3
  <2> QED
    BY <2>1, <2>2
<1>2. Tallied(g, r)
  <2> SUFFICES ASSUME NEW u \in Threads
               PROVE  g[u].outstanding = IF g[u].mapped THEN Cardinality(Ops(r[g[u].hwc])) ELSE 0
    BY DEF Tallied
  <2>1. CASE u = t
    BY <2>1
  <2>2. CASE u # t
    <3>1. g[u] = f[u] /\ f[u].outstanding = IF f[u].mapped THEN Cardinality(Ops(q[f[u].hwc])) ELSE 0
      BY <2>2 DEF Tallied
    <3>2. f[u].mapped => f[u].hwc # h /\ f[u].hwc \in Hwcs
      BY <2>2 DEF Seated
    <3>3. f[u].mapped => r[f[u].hwc] = q[f[u].hwc]
      BY <3>2
    <3> QED
      BY <3>1, <3>3
  <2> QED
    BY <2>1, <2>2
<1> QED
  BY <1>1, <1>2

LEMMA HereIsMine ==
    ASSUME NEW q \in Pipes, NEW f, Homed(f, q), NEW w, Seated(f, w), NEW h \in Hwcs,
           NEW t \in Threads, w[h] = t, NEW i \in Ops(q[h])
    PROVE  q[h][i].t = t
  BY DEF Homed, Seated

\* An entry of t joins.
LEMMA AppendFlies ==
    ASSUME NEW q \in Pipes, NEW f, Homed(f, q), Tallied(f, q), NEW w, Seated(f, w),
           NEW t \in Threads, f[t].mapped, NEW h \in Hwcs, h = f[t].hwc,
           NEW e \in Entries, e.t = t, NEW r, r = [q EXCEPT ![h] = Append(q[h], e)],
           NEW g, OthersStay(f, g, t),
           g[t].mapped, g[t].hwc = h,
           g[t].outstanding = f[t].outstanding + Ones(e.op)
    PROVE  Homed(g, r) /\ Tallied(g, r)
<1>1. q[h] \in Seq(Entries) /\ w[h] = t /\ DOMAIN q = Hwcs
  BY DEF Pipes, Seated
<1>2. PICK p : p = Append(q[h], e)
  OBVIOUS
<1>3. r[h] = p /\ PipesStay(q, r, h)
  BY <1>1, <1>2 DEF PipesStay
<1>4. g[t].outstanding = Cardinality(Ops(r[h]))
  <2>1. f[t].outstanding = Cardinality(Ops(q[h]))
    BY DEF Tallied
  <2>2. Cardinality(Ops(p)) = Cardinality(Ops(q[h])) + Ones(e.op)
    BY ONLY <1>1, <1>2, e \in Entries, OpsAppend
  <2> QED
    BY <1>3, <2>1, <2>2
<1>5. ASSUME NEW i \in Ops(r[h]) PROVE r[h][i].t = t
  <2>1. i \in 1 .. Len(p) /\ p[i].op = "op"
    BY <1>3 DEF Ops
  <2>2. Len(p) = Len(q[h]) + 1 /\ Len(q[h]) \in Nat /\ p[Len(q[h]) + 1] = e
    BY <1>1, <1>2
  <2>3. CASE i = Len(q[h]) + 1
    BY <1>3, <2>2, <2>3
  <2>4. CASE i # Len(q[h]) + 1
    <3>1. i \in 1 .. Len(q[h])
      BY <2>1, <2>2, <2>4
    <3>2. p[i] = q[h][i]
      BY <1>1, <1>2, <3>1
    <3>3. i \in Ops(q[h])
      BY <2>1, <3>1, <3>2 DEF Ops
    <3>4. q[h][i].t = t
      BY <1>1, <3>3, HereIsMine
    <3> QED
      BY <1>3, <3>2, <3>4
  <2> QED
    BY <2>3, <2>4
<1>6. AllOf(r[h], t)
  BY <1>5 DEF AllOf
<1> QED
  BY <1>3, <1>4, <1>6, OneFlies

\* The oldest entry leaves.  If it was counted it is one of the context t that
\* is mapped there.
LEMMA TailFlies ==
    ASSUME NEW q \in Pipes, NEW f, Homed(f, q), Tallied(f, q), NEW w, Seated(f, w),
           NEW h \in Hwcs, q[h] # <<>>, q[h][1].op = "op",
           NEW t \in Threads, t = q[h][1].t,
           NEW r, r = [q EXCEPT ![h] = Tail(q[h])],
           NEW g, OthersStay(f, g, t),
           g[t].mapped = f[t].mapped, g[t].hwc = f[t].hwc,
           g[t].outstanding = f[t].outstanding - 1
    PROVE  Homed(g, r) /\ Tallied(g, r) /\ f[t].outstanding \in Nat /\ f[t].outstanding >= 1
<1>1. q[h] \in Seq(Entries) /\ DOMAIN q = Hwcs /\ Len(q[h]) \in Nat /\ Len(q[h]) >= 1
  BY DEF Pipes
<1>2. 1 \in Ops(q[h])
  BY <1>1 DEF Ops
<1>3. f[t].mapped /\ f[t].hwc = h
  BY <1>2 DEF Homed
<1>4. w[h] = t
  BY <1>3 DEF Seated
<1>5. PICK p : p = Tail(q[h])
  OBVIOUS
<1>6. r[h] = p /\ PipesStay(q, r, h)
  BY <1>1, <1>5 DEF PipesStay
<1>7. f[t].outstanding = Cardinality(Ops(q[h]))
  BY <1>3 DEF Tallied
<1>8. Cardinality(Ops(q[h])) \in Nat /\ Cardinality(Ops(q[h])) # 0
  BY <1>1, <1>2, OpsFinite
<1>9. g[t].outstanding = Cardinality(Ops(r[h]))
  <2>1. Cardinality(Ops(p)) = Cardinality(Ops(q[h])) - Ones(q[h][1].op)
    BY ONLY <1>1, <1>5, q[h] # <<>>, OpsTail
  <2> QED
    BY <1>6, <1>7, <2>1 DEF Ones
<1>10. ASSUME NEW i \in Ops(r[h]) PROVE r[h][i].t = t
  <2>1. i \in 1 .. Len(p) /\ p[i].op = "op" /\ Len(p) = Len(q[h]) - 1
    BY <1>1, <1>5, <1>6 DEF Ops
  <2>2. i + 1 \in 1 .. Len(q[h]) /\ p[i] = q[h][i + 1]
    BY <1>1, <1>5, <2>1
  <2>3. i + 1 \in Ops(q[h])
    BY <2>1, <2>2 DEF Ops
  <2>4. q[h][i + 1].t = t
    BY <1>4, <2>3, HereIsMine
  <2> QED
    BY <1>6, <2>2, <2>4
<1>11. Homed(g, r) /\ Tallied(g, r)
  <2>1. AllOf(r[h], t)
    BY <1>10 DEF AllOf
  <2>2. g[t].mapped /\ g[t].hwc = h
    BY <1>3
  <2> QED
    BY <1>3, <1>6, <1>9, <2>1, <2>2, OneFlies
<1> QED
  BY <1>7, <1>8, <1>11

\* An entry that is not counted leaves.
StillTallied(f, g) ==
    \A u \in Threads : /\ g[u].mapped = f[u].mapped /\ g[u].hwc = f[u].hwc
                       /\ g[u].outstanding = f[u].outstanding

LEMMA OtherTailFlies ==
    ASSUME NEW q \in Pipes, NEW f, Homed(f, q), Tallied(f, q), NEW w, Seated(f, w),
           NEW h \in Hwcs, q[h] # <<>>, q[h][1].op # "op",
           NEW r, r = [q EXCEPT ![h] = Tail(q[h])],
           NEW g, StillTallied(f, g)
    PROVE  Homed(g, r) /\ Tallied(g, r)
<1> USE DEF StillTallied
<1>1. q[h] \in Seq(Entries) /\ DOMAIN q = Hwcs /\ Len(q[h]) \in Nat /\ Len(q[h]) >= 1
  BY DEF Pipes
<1>2. PICK p : p = Tail(q[h])
  OBVIOUS
<1>3. r[h] = p /\ \A k \in Hwcs : k # h => r[k] = q[k]
  BY <1>1, <1>2
<1>4. Cardinality(Ops(p)) = Cardinality(Ops(q[h]))
  <2>1. Cardinality(Ops(p)) = Cardinality(Ops(q[h])) - Ones(q[h][1].op)
    BY ONLY <1>1, <1>2, q[h] # <<>>, OpsTail
  <2>2. Cardinality(Ops(q[h])) \in Nat
    BY <1>1, OpsFinite
  <2> QED
    BY <2>1, <2>2 DEF Ones
<1>5. \A k \in Hwcs : Cardinality(Ops(r[k])) = Cardinality(Ops(q[k]))
  BY <1>3, <1>4
<1>6. ASSUME NEW i \in Ops(p) PROVE i + 1 \in Ops(q[h]) /\ p[i] = q[h][i + 1]
  <2>1. i \in 1 .. Len(p) /\ p[i].op = "op" /\ Len(p) = Len(q[h]) - 1
    BY <1>1, <1>2 DEF Ops
  <2>2. i + 1 \in 1 .. Len(q[h]) /\ p[i] = q[h][i + 1]
    BY <1>1, <1>2, <2>1
  <2> QED
    BY <2>1, <2>2 DEF Ops
<1>7. Homed(g, r)
  <2> SUFFICES ASSUME NEW k \in Hwcs, NEW i \in Ops(r[k])
               PROVE  r[k][i].t \in Threads /\ g[r[k][i].t].mapped /\ g[r[k][i].t].hwc = k
    BY DEF Homed
  <2>1. PICK j \in Ops(q[k]) : r[k][i] = q[k][j]
    <3>1. CASE k = h
      BY <1>3, <1>6, <3>1
    <3>2. CASE k # h
      BY <1>3, <3>2
    <3> QED
      BY <3>1, <3>2
  <2>2. PICK u \in Threads : u = q[k][j].t /\ f[u].mapped /\ f[u].hwc = k
    BY <2>1 DEF Homed
  <2> QED
    BY <2>1, <2>2
<1>8. Tallied(g, r)
  <2> SUFFICES ASSUME NEW u \in Threads
               PROVE  g[u].outstanding = IF g[u].mapped THEN Cardinality(Ops(r[g[u].hwc])) ELSE 0
    BY DEF Tallied
  <2>1. f[u].outstanding = IF f[u].mapped THEN Cardinality(Ops(q[f[u].hwc])) ELSE 0
    BY DEF Tallied
  <2>2. f[u].mapped => f[u].hwc \in Hwcs
    BY DEF Seated
  <2>3. f[u].mapped => Cardinality(Ops(r[f[u].hwc])) = Cardinality(Ops(q[f[u].hwc]))
    BY <1>5, <2>2
  <2> QED
    BY <2>1, <2>3
<1> QED
  BY <1>7, <1>8

\* A thread that waits for an answer has an operation to come; one whose context
\* has ended has had its last answer.
Answers(c, p, n, t) ==
    /\ p.state = "consumed" => c.pending \/ c.outstanding > 0
    /\ c.ended => p.state \in {"ack", "dead"} /\ n = Len(Program[t])

Carries(q, h) == q[h] # <<>> /\ q[h][1].op = "switch"

\* With one operation in flight, for a context c, its thread's packet p and the
\* pipelines q: a thread with an operation waits for its answer; a context that
\* is in a switch is mapped and being descheduled, and the switch instruction
\* that was sent is in the pipeline.
Quiet(c, p, q) ==
    /\ c.pending \/ c.outstanding > 0 => p.state = "consumed"
    /\ c.outstanding > 0 => ~c.pending
    /\ c.switch \in {"none", "requested", "sent"}
    /\ c.switch # "none" => c.mapped /\ c.deschedule
    /\ c.switch = "sent" => Carries(q, c.hwc)

SwitchesSent(f, q) ==
    \A h \in Hwcs : Carries(q, h) => /\ f[q[h][1].t].mapped /\ f[q[h][1].t].hwc = h
                                     /\ f[q[h][1].t].switch = "sent"

Serial(f, p, q) == (\A t \in Threads : Quiet(f[t], p[t], q)) /\ SwitchesSent(f, q)

AnswersAll(f, p, n) == \A t \in Threads : Answers(f[t], p[t], n[t], t)

Few(q, d) == \A h \in Hwcs : Len(q[h]) <= d

AskingRoom == asking # None => /\ Len(pipe[ctx[asking].hwc]) < setup.depth
                               /\ ~ctx[asking].pending

Errors == {"", "Packet response error", "context is not being descheduled"}

FlightInv ==
    /\ Few(pipe, setup.depth) /\ Homed(ctx, pipe) /\ Tallied(ctx, pipe)
    /\ AnswersAll(ctx, ipc, sent)
    /\ error \in Errors /\ (setup.depth = 1 => Serial(ctx, ipc, pipe) /\ error = "")
    /\ AskingRoom /\ timers \in 0 .. MaxTimers

LEMMA NothingFlies ==
    /\ ~NewContext.mapped /\ NewContext.outstanding = 0 /\ ~NewContext.pending
    /\ ~NewContext.ended /\ NewContext.switch = "none" /\ NewPacket.state = "empty"
    /\ Ops(<<>>) = {} /\ Len(<<>>) = 0
<1>1. \A i : i \notin 1 .. Len(<<>>)
  OBVIOUS
<1>2. Ops(<<>>) = {}
  BY <1>1 DEF Ops
<1> QED
  BY <1>2 DEF NewContext, NewPacket

LEMMA InitFlies ==
    ASSUME Init PROVE FlightInv
<1>1. \A t \in Threads : ctx[t] = NewContext
  BY DEF Init
<1>2. \A t \in Threads : ipc[t] = NewPacket
  BY DEF Init
<1>3. \A h \in Hwcs : pipe[h] = <<>>
  BY DEF Init
<1>4. asking = None /\ error = "" /\ timers = 0
  BY DEF Init
<1>5. \A h \in Hwcs : Ops(pipe[h]) = {} /\ Len(pipe[h]) = 0
  <2> SUFFICES ASSUME NEW h \in Hwcs PROVE Ops(pipe[h]) = {} /\ Len(pipe[h]) = 0
    OBVIOUS
  <2>1. pipe[h] = <<>>
    BY <1>3
  <2> QED
    BY ONLY <2>1, NothingFlies
<1>6. \A h \in Hwcs : ~Carries(pipe, h)
  BY <1>3 DEF Carries
<1>7. Homed(ctx, pipe)
  BY <1>5 DEF Homed
<1>8. Tallied(ctx, pipe)
  BY <1>1, NothingFlies DEF Tallied
<1>9. AnswersAll(ctx, ipc, sent)
  <2> SUFFICES ASSUME NEW t \in Threads PROVE Answers(ctx[t], ipc[t], sent[t], t)
    BY DEF AnswersAll
  <2>1. ctx[t] = NewContext /\ ipc[t] = NewPacket
    BY <1>1, <1>2
  <2>2. ~ctx[t].ended /\ ipc[t].state = "empty"
    BY <2>1, NothingFlies
  <2> QED
    BY <2>2 DEF Answers
<1>10. Few(pipe, setup.depth)
  <2>1. setup.depth \in Nat
    BY MingoAssumption DEF Init
  <2> QED
    BY <1>5, <2>1 DEF Few
<1>11. Serial(ctx, ipc, pipe)
  <2>1. \A t \in Threads : Quiet(ctx[t], ipc[t], pipe)
    <3> SUFFICES ASSUME NEW t \in Threads PROVE Quiet(ctx[t], ipc[t], pipe)
      OBVIOUS
    <3>1. ctx[t].outstanding = 0 /\ ~ctx[t].pending /\ ctx[t].switch = "none"
      BY <1>1, NothingFlies
    <3> QED
      BY <3>1 DEF Quiet
  <2>2. SwitchesSent(ctx, pipe)
    BY <1>6 DEF SwitchesSent
  <2> QED
    BY <2>1, <2>2 DEF Serial
<1>12. timers \in 0 .. MaxTimers
  <2>1. MaxTimers \in Nat
    BY MingoAssumption
  <2>2. timers = 0
    BY <1>4
  <2> QED
    BY ONLY <2>1, <2>2
<1> QED
  BY <1>4, <1>7, <1>8, <1>9, <1>10, <1>11, <1>12 DEF FlightInv, AskingRoom, Errors

\* A step of the application: a packet changes that was not consumed, or one of a
\* context that is not known yet.
LEMMA ApplicationFlies ==
    ASSUME FlightInv, UNCHANGED simulator, setup' = setup,
           \A u \in Threads :
              \/ ipc'[u] = ipc[u] /\ sent'[u] = sent[u]
              \/ /\ ipc[u].state # "consumed" \/ ctx[u] = NewContext
                 /\ Answers(ctx[u], ipc'[u], sent'[u], u)
    PROVE  FlightInv'
<1>1. UNCHANGED <<ctx, pipe, asking, error, timers>>
  BY DEF simulator
<1>2. AnswersAll(ctx, ipc', sent')
  BY DEF AnswersAll, FlightInv
<1>3. ASSUME Serial(ctx, ipc, pipe) PROVE Serial(ctx, ipc', pipe)
  <2> SUFFICES ASSUME NEW u \in Threads PROVE Quiet(ctx[u], ipc'[u], pipe)
    BY <1>3 DEF Serial
  <2>1. Quiet(ctx[u], ipc[u], pipe)
    BY <1>3 DEF Serial
  <2>2. CASE ipc'[u] = ipc[u]
    BY <2>1, <2>2
  <2>3. CASE ipc[u].state # "consumed"
    BY <2>1, <2>3 DEF Quiet
  <2>4. CASE ctx[u] = NewContext
    BY <2>4 DEF Quiet, NewContext
  <2> QED
    BY <2>2, <2>3, <2>4
<1> QED
  BY <1>1, <1>2, <1>3 DEF FlightInv, AskingRoom

LEMMA SendFlies ==
    ASSUME MapInv, FlightInv, NEW t \in Threads, SendMessage(t)
    PROVE  FlightInv'
<1>1. ipc[t].state = "empty" /\ UNCHANGED simulator /\ setup' = setup
  BY DEF SendMessage
<1>2. PICK e : e = Program[t][sent[t] + 1]
  OBVIOUS
<1>3. /\ ipc' = [ipc EXCEPT ![t] = Posted(ipc[t], e)]
      /\ sent' = [sent EXCEPT ![t] = sent[t] + 1]
  BY <1>2 DEF SendMessage
<1>4. \A u \in Threads : u # t => ipc'[u] = ipc[u] /\ sent'[u] = sent[u]
  BY <1>3, PacketsKnown
<1>5. ipc'[t].state = "ready"
  BY <1>3, PacketsKnown DEF Posted, Packets
<1>6. ~ctx[t].ended
  BY <1>1 DEF FlightInv, AnswersAll, Answers
<1>7. Answers(ctx[t], ipc'[t], sent'[t], t)
  BY <1>5, <1>6 DEF Answers
<1>8. ASSUME NEW u \in Threads
      PROVE  \/ ipc'[u] = ipc[u] /\ sent'[u] = sent[u]
             \/ /\ ipc[u].state # "consumed" \/ ctx[u] = NewContext
                /\ Answers(ctx[u], ipc'[u], sent'[u], u)
  BY <1>1, <1>4, <1>7
<1> QED
  BY <1>1, <1>8, ApplicationFlies

LEMMA ProceedFlies ==
    ASSUME MapInv, FlightInv, NEW t \in Threads, Proceed(t)
    PROVE  FlightInv'
<1>1. ipc[t].state = "ack" /\ UNCHANGED simulator /\ setup' = setup /\ sent' = sent
  BY DEF Proceed
<1>2. PICK p : p = [ipc[t] EXCEPT !.state = IF sent[t] = Len(Program[t]) THEN "dead" ELSE "empty"]
  OBVIOUS
<1>3. ipc' = [ipc EXCEPT ![t] = p]
  BY <1>2 DEF Proceed
<1>4. \A u \in Threads : u # t => ipc'[u] = ipc[u]
  BY <1>3, PacketsKnown
<1>5. ipc'[t].state = IF sent[t] = Len(Program[t]) THEN "dead" ELSE "empty"
  BY <1>2, <1>3, PacketsKnown DEF Packets
<1>6. ctx[t].ended => sent[t] = Len(Program[t])
  BY DEF FlightInv, AnswersAll, Answers
<1>7. Answers(ctx[t], ipc'[t], sent'[t], t)
  BY <1>1, <1>5, <1>6 DEF Answers
<1>8. ASSUME NEW u \in Threads
      PROVE  \/ ipc'[u] = ipc[u] /\ sent'[u] = sent[u]
             \/ /\ ipc[u].state # "consumed" \/ ctx[u] = NewContext
                /\ Answers(ctx[u], ipc'[u], sent'[u], u)
  BY <1>1, <1>4, <1>7
<1> QED
  BY <1>1, <1>8, ApplicationFlies

LEMMA StartFlies ==
    ASSUME PromptStart, MapInv, FlightInv, ThreadStart
    PROVE  FlightInv'
<1>1. /\ UNCHANGED simulator /\ setup' = setup /\ started' = started + 1
      /\ started < setup.threads
  BY DEF ThreadStart
<1>2. PICK t : t = started'
  OBVIOUS
<1>3. t \in Threads /\ t > known
  BY <1>1, <1>2, SetupTyped, Sizes DEF MapInv, Counted, Threads
<1>4. PICK e : e = Program[t][1]
  OBVIOUS
<1>5. /\ ipc' = [ipc EXCEPT ![t] = Posted(ipc[t], e)]
      /\ sent' = [sent EXCEPT ![t] = 1]
  BY <1>2, <1>4 DEF ThreadStart
<1>6. \A u \in Threads : u # t => ipc'[u] = ipc[u] /\ sent'[u] = sent[u]
  BY <1>5, PacketsKnown
<1>7. ipc'[t].state = "ready"
  BY <1>3, <1>5, PacketsKnown DEF Posted, Packets
<1>8. ctx[t] = NewContext
  BY <1>3, StateIs DEF MapInv, Sound, Untouched
<1>9. Answers(ctx[t], ipc'[t], sent'[t], t)
  BY <1>7, <1>8 DEF Answers, NewContext
<1>10. ASSUME NEW u \in Threads
      PROVE  \/ ipc'[u] = ipc[u] /\ sent'[u] = sent[u]
             \/ /\ ipc[u].state # "consumed" \/ ctx[u] = NewContext
                /\ Answers(ctx[u], ipc'[u], sent'[u], u)
  BY <1>6, <1>8, <1>9
<1> QED
  BY <1>1, <1>10, ApplicationFlies

LEMMA SeatedHere ==
    ASSUME MapInv
    PROVE  /\ Seated(ctx, run) /\ pipe \in Pipes
           /\ \A t \in Threads : ctx[t].outstanding \in Int
  BY Known DEF Seated, MapInv, PipeKnown, Pipes, Contexts

LEMMA Unaffected ==
    ASSUME NEW c, NEW p, NEW q, NEW r, NEW h, PipesStay(q, r, h), Quiet(c, p, q),
           c.mapped => c.hwc \in Hwcs /\ c.hwc # h
    PROVE  Quiet(c, p, r)
<1>1. c.switch = "sent" => c.mapped /\ Carries(q, c.hwc)
  BY DEF Quiet
<1>2. c.switch = "sent" => Carries(r, c.hwc)
  BY <1>1 DEF PipesStay, Carries
<1> QED
  BY <1>2 DEF Quiet

\* What is counted is in the pipeline, so nothing is when it is empty.
LEMMA EmptyIsQuiet ==
    ASSUME MapInv, FlightInv, NEW t \in Threads, ctx[t].mapped,
           setup.depth = 1, Len(pipe[ctx[t].hwc]) < setup.depth
    PROVE  /\ pipe[ctx[t].hwc] = <<>> /\ ctx[t].outstanding = 0
           /\ ctx[t].switch \in {"none", "requested"}
<1>1. PICK h \in Hwcs : h = ctx[t].hwc /\ pipe[h] \in Seq(Entries)
  BY Known DEF MapInv, PipeKnown
<1>2. pipe[h] = <<>>
  BY <1>1
<1>3. Ops(pipe[h]) = {}
  BY ONLY <1>2, NothingFlies
<1>4. ctx[t].outstanding = 0
  <2>1. ctx[t].outstanding = Cardinality(Ops(pipe[h]))
    BY <1>1 DEF FlightInv, Tallied
  <2> QED
    BY <2>1, <1>3, FS_EmptySet
<1>5. Quiet(ctx[t], ipc[t], pipe)
  BY DEF FlightInv, Serial
<1>6. ctx[t].switch \in {"none", "requested"}
  BY <1>1, <1>2, <1>5 DEF Quiet, Carries
<1> QED
  BY <1>1, <1>2, <1>4, <1>6

LEMMA CountIsNatural ==
    ASSUME MapInv, FlightInv, NEW t \in Threads
    PROVE  ctx[t].outstanding \in Nat
<1>1. ctx[t].outstanding = IF ctx[t].mapped THEN Cardinality(Ops(pipe[ctx[t].hwc])) ELSE 0
  BY DEF FlightInv, Tallied
<1>2. ctx[t].mapped => pipe[ctx[t].hwc] \in Seq(Entries)
  BY SeatedHere DEF Seated, Pipes
<1>3. ctx[t].mapped => Cardinality(Ops(pipe[ctx[t].hwc])) \in Nat
  BY <1>2, OpsFinite
<1> QED
  BY <1>1, <1>3

\* An operation of t is put into the pipeline.
Suits(c, p, op) ==
    /\ (c.pending \/ c.outstanding > 0) => p.state = "consumed"
    /\ c.outstanding > 0 => ~c.pending
    /\ c.switch \in {"none", "requested", "sent"}
    /\ c.switch # "none" => c.deschedule
    /\ (c.switch = "sent") <=> (op = "switch")

LEMMA FeedFlies ==
    ASSUME MapInv, FlightInv, NEW t \in Threads, ctx[t].mapped,
           NEW h \in Hwcs, h = ctx[t].hwc, Len(pipe[h]) < setup.depth,
           NEW c \in Contexts, c.mapped, c.hwc = h, ctx' = [ctx EXCEPT ![t] = c],
           NEW op \in {"switch", "op", "anonymous"},
           c.outstanding = ctx[t].outstanding + Ones(op),
           pipe' = [pipe EXCEPT ![h] = Append(@, [op |-> op, t |-> t])],
           NEW p, ipc' = [ipc EXCEPT ![t] = p], Answers(c, p, sent[t], t),
           setup.depth = 1 => Suits(c, p, op),
           UNCHANGED <<sent, setup, timers, error>>, asking' = None
    PROVE  FlightInv'
<1>1. /\ pipe \in Pipes /\ Homed(ctx, pipe) /\ Tallied(ctx, pipe) /\ Seated(ctx, run)
      /\ ctx \in [Threads -> Contexts] /\ ipc \in [Threads -> Packets]
      /\ setup.depth \in Nat
  BY SeatedHere, Known, SetupTyped DEF FlightInv, MapInv
<1>2. PICK e \in Entries : e = [op |-> op, t |-> t]
  BY DEF Entries
<1>3. e.t = t /\ e.op = op
  BY <1>2
<1>4. PICK g : g = ctx'
  OBVIOUS
<1>5. PICK r : r = pipe'
  OBVIOUS
<1>6. g[t] = c /\ OthersStay(ctx, g, t)
  BY <1>1, <1>4 DEF OthersStay
<1>7. r = [pipe EXCEPT ![h] = Append(pipe[h], e)]
  BY <1>2, <1>5
<1>8. r[h] = Append(pipe[h], e) /\ PipesStay(pipe, r, h) /\ pipe[h] \in Seq(Entries)
  BY <1>1, <1>7 DEF PipesStay, Pipes
<1>9. Homed(g, r) /\ Tallied(g, r)
  <2>1. g[t].outstanding = ctx[t].outstanding + Ones(e.op)
    BY <1>3, <1>6
  <2>2. g[t].mapped /\ g[t].hwc = h
    BY <1>6
  <2> QED
    BY <1>1, <1>3, <1>6, <1>7, <2>1, <2>2, AppendFlies
<1>10. Few(r, setup.depth)
  <2>1. Len(r[h]) = Len(pipe[h]) + 1 /\ Len(pipe[h]) \in Nat
    BY <1>8
  <2>2. Len(r[h]) <= setup.depth
    BY <1>1, <2>1
  <2> QED
    BY <1>8, <2>2 DEF FlightInv, Few, PipesStay
<1>11. AnswersAll(ctx', ipc', sent')
  <2> SUFFICES ASSUME NEW u \in Threads PROVE Answers(ctx'[u], ipc'[u], sent'[u], u)
    BY DEF AnswersAll
  <2>1. CASE u = t
    BY <1>1, <2>1
  <2>2. CASE u # t
    <3>1. ctx'[u] = ctx[u] /\ ipc'[u] = ipc[u]
      BY <1>1, <2>2
    <3> QED
      BY <3>1 DEF FlightInv, AnswersAll
  <2> QED
    BY <2>1, <2>2
<1>12. ASSUME setup.depth = 1 PROVE Serial(ctx', ipc', pipe')
  <2>1. r[h] = <<e>>
    <3>1. pipe[h] = <<>>
      BY <1>12, EmptyIsQuiet
    <3> QED
      BY <3>1, <1>8
  <2>2. Carries(r, h) <=> op = "switch"
    BY <2>1, <1>3 DEF Carries
  <2>3. Suits(c, p, op)
    BY <1>12
  <2>4. Serial(ctx, ipc, pipe)
    BY <1>12 DEF FlightInv
  <2>5. ASSUME NEW u \in Threads PROVE Quiet(ctx'[u], ipc'[u], r)
    <3>1. CASE u = t
      <4>1. ctx'[u] = c /\ ipc'[u] = p
        BY <1>1, <3>1
      <4> QED
        BY <4>1, <2>2, <2>3 DEF Suits, Quiet
    <3>2. CASE u # t
      <4>1. ctx'[u] = ctx[u] /\ ipc'[u] = ipc[u]
        BY <1>1, <3>2
      <4>2. ctx[u].mapped => ctx[u].hwc \in Hwcs /\ ctx[u].hwc # h
        BY <1>1, <3>2 DEF Seated
      <4>3. Quiet(ctx[u], ipc[u], pipe)
        BY <2>4 DEF Serial
      <4> QED
        BY <1>8, <4>1, <4>2, <4>3, Unaffected
    <3> QED
      BY <3>1, <3>2
  <2>6. ASSUME NEW k \in Hwcs, Carries(r, k)
        PROVE  g[r[k][1].t].mapped /\ g[r[k][1].t].hwc = k /\ g[r[k][1].t].switch = "sent"
    <3>1. CASE k = h
      <4>1. r[k][1].t = t /\ op = "switch"
        BY <2>1, <2>2, <2>6, <3>1, <1>3
      <4> QED
        BY <4>1, <3>1, <1>6, <2>3 DEF Suits
    <3>2. CASE k # h
      <4>1. r[k] = pipe[k] /\ Carries(pipe, k)
        BY <1>8, <2>6, <3>2 DEF PipesStay, Carries
      <4>2. PICK u : u = pipe[k][1].t
        OBVIOUS
      <4>3. ctx[u].mapped /\ ctx[u].hwc = k /\ ctx[u].switch = "sent"
        BY <2>4, <4>1, <4>2 DEF Serial, SwitchesSent
      <4>4. u \in Threads
        <5>1. pipe[k] \in Seq(Entries) /\ pipe[k] # <<>>
          BY <1>1, <4>1 DEF Pipes, Carries
        <5>2. pipe[k][1] \in Entries
          BY <5>1
        <5> QED
          BY <5>2, <4>2 DEF Entries
      <4>5. g[u] = ctx[u]
        BY <3>2, <4>3, <4>4, <1>6 DEF OthersStay
      <4> QED
        BY <4>1, <4>2, <4>3, <4>5
    <3> QED
      BY <3>1, <3>2
  <2> QED
    BY <2>5, <2>6, <1>4, <1>5 DEF Serial, SwitchesSent
<1>13. AskingRoom'
  BY DEF AskingRoom
<1> QED
  BY <1>4, <1>5, <1>9, <1>10, <1>11, <1>12, <1>13 DEF FlightInv

\* Contexts that differ in nothing of this.
Still(c, d) ==
    /\ d.mapped = c.mapped /\ d.hwc = c.hwc /\ d.deschedule = c.deschedule
    /\ d.outstanding = c.outstanding /\ d.pending = c.pending
    /\ d.ended = c.ended /\ d.switch = c.switch

\* A fetch asks, or receives what is no operation for the model.
LEMMA StayFlies ==
    ASSUME MapInv, FlightInv, NEW t \in Threads, ctx[t].mapped,
           NEW c \in Contexts, Still(ctx[t], c), ctx' = [ctx EXCEPT ![t] = c],
           NEW p, ipc' = [ipc EXCEPT ![t] = p], Answers(c, p, sent[t], t),
           setup.depth = 1 => ((c.pending \/ c.outstanding > 0) => p.state = "consumed"),
           UNCHANGED <<sent, setup, timers, pipe>>,
           error' \in Errors, setup.depth = 1 => error' = error,
           \/ asking' \in {None, asking} /\ asking \in {None, t}
           \/ asking' = t /\ Len(pipe[ctx[t].hwc]) < setup.depth /\ ~c.pending
    PROVE  FlightInv'
<1>1. /\ pipe \in Pipes /\ Homed(ctx, pipe) /\ Tallied(ctx, pipe)
      /\ ctx \in [Threads -> Contexts] /\ ipc \in [Threads -> Packets]
  BY SeatedHere, Known DEF FlightInv
<1>2. \A u \in Threads : Still(ctx[u], ctx'[u])
  BY <1>1 DEF Still
<1>3. Homed(ctx', pipe)
  <2> SUFFICES ASSUME NEW h \in Hwcs, NEW i \in Ops(pipe[h])
               PROVE  /\ pipe[h][i].t \in Threads /\ ctx'[pipe[h][i].t].mapped
                      /\ ctx'[pipe[h][i].t].hwc = h
    BY DEF Homed
  <2>1. PICK u \in Threads : u = pipe[h][i].t /\ ctx[u].mapped /\ ctx[u].hwc = h
    BY <1>1 DEF Homed
  <2> QED
    BY <2>1, <1>2 DEF Still
<1>4. Tallied(ctx', pipe)
  <2> SUFFICES ASSUME NEW u \in Threads
               PROVE  ctx'[u].outstanding = IF ctx'[u].mapped
                                            THEN Cardinality(Ops(pipe[ctx'[u].hwc])) ELSE 0
    BY DEF Tallied
  <2>1. ctx[u].outstanding = IF ctx[u].mapped THEN Cardinality(Ops(pipe[ctx[u].hwc])) ELSE 0
    BY <1>1 DEF Tallied
  <2> QED
    BY <2>1, <1>2 DEF Still
<1>5. AnswersAll(ctx', ipc', sent')
  <2> SUFFICES ASSUME NEW u \in Threads PROVE Answers(ctx'[u], ipc'[u], sent'[u], u)
    BY DEF AnswersAll
  <2>1. CASE u = t
    BY <1>1, <2>1
  <2>2. CASE u # t
    <3>1. ctx'[u] = ctx[u] /\ ipc'[u] = ipc[u]
      BY <1>1, <2>2
    <3> QED
      BY <3>1 DEF FlightInv, AnswersAll
  <2> QED
    BY <2>1, <2>2
<1>6. ASSUME setup.depth = 1 PROVE Serial(ctx', ipc', pipe')
  <2>1. Serial(ctx, ipc, pipe)
    BY <1>6 DEF FlightInv
  <2>2. ASSUME NEW u \in Threads PROVE Quiet(ctx'[u], ipc'[u], pipe)
    <3>1. Quiet(ctx[u], ipc[u], pipe) /\ Still(ctx[u], ctx'[u])
      BY <2>1, <1>2 DEF Serial
    <3>2. ctx'[u].pending \/ ctx'[u].outstanding > 0 => ipc'[u].state = "consumed"
      <4>1. CASE u = t
        BY <1>1, <1>6, <4>1
      <4>2. CASE u # t
        <5>1. ctx'[u] = ctx[u] /\ ipc'[u] = ipc[u]
          BY <1>1, <4>2
        <5> QED
          BY <5>1, <3>1 DEF Quiet
      <4> QED
        BY <4>1, <4>2
    <3> QED
      BY <3>1, <3>2 DEF Quiet, Still
  <2>3. SwitchesSent(ctx', pipe)
    <3> SUFFICES ASSUME NEW h \in Hwcs, Carries(pipe, h)
                 PROVE  /\ ctx'[pipe[h][1].t].mapped /\ ctx'[pipe[h][1].t].hwc = h
                        /\ ctx'[pipe[h][1].t].switch = "sent"
      BY DEF SwitchesSent
    <3>1. PICK u : u = pipe[h][1].t
      OBVIOUS
    <3>2. u \in Threads
      <4>1. pipe[h] \in Seq(Entries) /\ pipe[h] # <<>>
        BY <1>1 DEF Pipes, Carries
      <4>2. pipe[h][1] \in Entries
        BY <4>1
      <4> QED
        BY <4>2, <3>1 DEF Entries
    <3>3. ctx[u].mapped /\ ctx[u].hwc = h /\ ctx[u].switch = "sent"
      BY <2>1, <3>1 DEF Serial, SwitchesSent
    <3> QED
      BY <1>2, <3>1, <3>2, <3>3 DEF Still
  <2> QED
    BY <2>2, <2>3 DEF Serial
<1>7. AskingRoom'
  <2>1. CASE asking' = None
    BY <2>1 DEF AskingRoom
  <2>2. CASE asking' = t
    <3>1. Len(pipe[ctx[t].hwc]) < setup.depth /\ ~c.pending
      <4>1. CASE asking = t /\ t # None
        BY <4>1 DEF FlightInv, AskingRoom, Still
      <4>2. CASE ~(asking = t)
        BY <2>2, <4>2, Sizes
      <4> QED
        BY <4>1, <4>2, Sizes
    <3>2. ctx'[t] = c /\ c.hwc = ctx[t].hwc
      BY <1>1 DEF Still
    <3> QED
      BY <2>2, <3>1, <3>2 DEF AskingRoom
  <2> QED
    BY <2>1, <2>2
<1>8. setup.depth = 1 => error' = ""
  BY DEF FlightInv
<1> QED
  BY <1>3, <1>4, <1>5, <1>6, <1>7, <1>8 DEF FlightInv

-----------------------------------------------------------------------------
(* What a fetch does to what is in flight.                                 *)

\* Contexts with the same place and operations.
Alike(c, d) ==
    /\ d.mapped = c.mapped /\ d.hwc = c.hwc
    /\ d.outstanding = c.outstanding /\ d.switch = c.switch

LEMMA SwitchInstructionFlies ==
    ASSUME MapInv, FlightInv, NEW t \in Threads, ctx[t].mapped,
           NEW h \in Hwcs, h = ctx[t].hwc, Len(pipe[h]) < setup.depth,
           NEW d \in Contexts, Alike(ctx[t], d), FeedSwitch(t, h, d),
           NEW p, ipc' = [ipc EXCEPT ![t] = p], Answers(d, p, sent[t], t),
           setup.depth = 1 => /\ d.deschedule
                              /\ d.pending => p.state = "consumed",
           UNCHANGED <<sent, setup, timers, error>>, asking' = None
    PROVE  FlightInv'
<1>1. PICK c : c = [d EXCEPT !.switch = "sent"]
  OBVIOUS
<1>2. /\ c \in Contexts /\ c.mapped /\ c.hwc = h /\ c.outstanding = ctx[t].outstanding
      /\ c.pending = d.pending /\ c.ended = d.ended /\ c.switch = "sent"
      /\ c.deschedule = d.deschedule /\ c.outstanding = d.outstanding
  BY <1>1 DEF Contexts, Alike
<1>3. ctx' = [ctx EXCEPT ![t] = c]
  BY <1>1 DEF FeedSwitch
<1>4. PICK op \in {"switch", "op", "anonymous"} : op = "switch"
  OBVIOUS
<1>5. pipe' = [pipe EXCEPT ![h] = Append(@, [op |-> op, t |-> t])]
  BY <1>4 DEF FeedSwitch
<1>6. c.outstanding = ctx[t].outstanding + Ones(op)
  <2>1. ctx[t].outstanding \in Int
    BY SeatedHere
  <2> QED
    BY <1>2, <1>4, <2>1 DEF Ones
<1>7. Answers(c, p, sent[t], t)
  BY <1>2 DEF Answers
<1>8. setup.depth = 1 => Suits(c, p, op)
  <2> SUFFICES ASSUME setup.depth = 1 PROVE Suits(c, p, op)
    OBVIOUS
  <2>1. c.outstanding = 0
    BY <1>2, EmptyIsQuiet
  <2> QED
    BY <1>2, <1>4, <2>1 DEF Suits
<1> QED
  BY <1>2, <1>3, <1>5, <1>6, <1>7, <1>8, FeedFlies

LEMMA SentContext ==
    ASSUME NEW d \in Contexts, NEW c, c = PrepareToSend(d)
    PROVE  /\ c.outstanding = d.outstanding + Ones(Operation(d))
           /\ Operation(d) \in {"op", "anonymous"}
           /\ c.mapped = d.mapped /\ c.hwc = d.hwc /\ c.switch = d.switch
           /\ c.deschedule = d.deschedule /\ c.ended = d.ended
           /\ Operation(d) = "anonymous" => c.pending = d.pending
           /\ Operation(d) = "op" => ~c.pending /\ d.preceding = 0
<1>1. CASE d.preceding > 0
  <2>1. PICK n \in Nat : n = d.preceding - 1
    BY <1>1 DEF Contexts
  <2>2. c = [d EXCEPT !.preceding = n]
    BY <1>1, <2>1 DEF PrepareToSend
  <2>3. d.outstanding \in Int
    BY DEF Contexts
  <2>4. Operation(d) = "anonymous"
    BY <1>1 DEF Operation
  <2>5. /\ c.outstanding = d.outstanding /\ c.pending = d.pending
        /\ c.mapped = d.mapped /\ c.hwc = d.hwc /\ c.switch = d.switch
        /\ c.deschedule = d.deschedule /\ c.ended = d.ended
    BY <2>2 DEF Contexts
  <2> QED
    BY <2>3, <2>4, <2>5 DEF Ones
<1>2. CASE ~(d.preceding > 0)
  <2>1. PICK n \in Int : n = d.outstanding + 1
    BY DEF Contexts
  <2>2. c = [d EXCEPT !.pending = FALSE, !.outstanding = n]
    BY <1>2, <2>1 DEF PrepareToSend
  <2>3. Operation(d) = "op"
    BY <1>2 DEF Operation
  <2>4. /\ c.outstanding = n /\ ~c.pending
        /\ c.mapped = d.mapped /\ c.hwc = d.hwc /\ c.switch = d.switch
        /\ c.deschedule = d.deschedule /\ c.ended = d.ended
    BY <2>2 DEF Contexts
  <2>5. d.preceding = 0
    BY <1>2 DEF Contexts
  <2> QED
    BY <2>1, <2>3, <2>4, <2>5 DEF Ones
<1> QED
  BY <1>1, <1>2

LEMMA OperationFlies ==
    ASSUME MapInv, FlightInv, NEW t \in Threads, ctx[t].mapped,
           NEW h \in Hwcs, h = ctx[t].hwc, Len(pipe[h]) < setup.depth,
           NEW d \in Contexts, Alike(ctx[t], d), ~d.ended, HasBuffered(d),
           d.deschedule = ctx[t].deschedule, Feed(t, h, d),
           NEW p, ipc' = [ipc EXCEPT ![t] = p],
           p.state = "consumed" => d.pending \/ d.outstanding > 0,
           setup.depth = 1 => (d.pending => p.state = "consumed"),
           UNCHANGED <<sent, setup, timers, error>>, asking' = None
    PROVE  FlightInv'
<1>1. PICK c : c = PrepareToSend(d)
  OBVIOUS
<1>2. PICK op \in {"switch", "op", "anonymous"} :
         op = Operation(d) /\ op # "switch"
  BY DEF Operation
<1>3. /\ c \in Contexts /\ c.mapped /\ c.hwc = h /\ c.switch = ctx[t].switch
      /\ c.deschedule = ctx[t].deschedule /\ ~c.ended
      /\ c.outstanding = ctx[t].outstanding + Ones(op)
  <2>1. /\ d.mapped = ctx[t].mapped /\ d.hwc = ctx[t].hwc
        /\ d.outstanding = ctx[t].outstanding /\ d.switch = ctx[t].switch
    BY DEF Alike
  <2>2. c \in Contexts
    BY <1>1, PrepareToSendContext
  <2>3. /\ c.outstanding = d.outstanding + Ones(op)
        /\ c.mapped = d.mapped /\ c.hwc = d.hwc /\ c.switch = d.switch
        /\ c.deschedule = d.deschedule /\ c.ended = d.ended
    BY <1>1, <1>2, SentContext
  <2> QED
    BY <2>1, <2>2, <2>3
<1>4. /\ ctx' = [ctx EXCEPT ![t] = c]
      /\ pipe' = [pipe EXCEPT ![h] = Append(@, [op |-> op, t |-> t])]
  BY <1>1, <1>2 DEF Feed
<1>5. ctx[t].outstanding \in Nat /\ d.outstanding = ctx[t].outstanding
  BY CountIsNatural DEF Alike
<1>6. op = "op" => c.outstanding > 0 /\ ~c.pending /\ d.pending
  <2> SUFFICES ASSUME op = "op" PROVE c.outstanding > 0 /\ ~c.pending /\ d.pending
    OBVIOUS
  <2>1. ~c.pending /\ d.preceding = 0
    BY <1>1, <1>2, SentContext
  <2>2. c.outstanding = ctx[t].outstanding + 1
    BY <1>3 DEF Ones
  <2> QED
    BY <1>5, <2>1, <2>2 DEF HasBuffered
<1>7. op # "op" => c.outstanding = d.outstanding /\ c.pending = d.pending
  <2> SUFFICES ASSUME op # "op" PROVE c.outstanding = d.outstanding /\ c.pending = d.pending
    OBVIOUS
  <2>1. c.outstanding = ctx[t].outstanding + 0
    BY <1>3 DEF Ones
  <2> QED
    BY <1>1, <1>2, <1>5, <2>1, SentContext
<1>8. Answers(c, p, sent[t], t)
  BY <1>3, <1>6, <1>7 DEF Answers
<1>9. setup.depth = 1 => Suits(c, p, op)
  <2> SUFFICES ASSUME setup.depth = 1 PROVE Suits(c, p, op)
    OBVIOUS
  <2>1. ctx[t].outstanding = 0 /\ ctx[t].switch \in {"none", "requested"}
    BY EmptyIsQuiet
  <2>2. ctx[t].switch # "none" => ctx[t].deschedule
    BY DEF FlightInv, Serial, Quiet
  <2>3. c.pending \/ c.outstanding > 0 => p.state = "consumed"
    BY <1>5, <1>6, <1>7, <2>1
  <2>4. c.outstanding > 0 => ~c.pending
    BY <1>5, <1>6, <1>7, <2>1
  <2> QED
    BY <1>2, <1>3, <2>1, <2>2, <2>3, <2>4 DEF Suits
<1> QED
  BY <1>3, <1>4, <1>8, <1>9, FeedFlies

LEMMA FetchSwitchFlies ==
    ASSUME MapInv, FlightInv, NEW h \in Hwcs, FetchSwitch(h)
    PROVE  FlightInv'
<1>1. PICK t \in Threads : t = run[h] /\ ctx[t].mapped /\ ctx[t].hwc = h
  BY Known DEF FetchSwitch, Fetching
<1>2. PICK d \in Contexts : d = ctx[t]
  BY Known
<1>3. PICK p : p = ipc[t]
  OBVIOUS
<1>4. ipc' = [ipc EXCEPT ![t] = p]
  BY <1>3, Known DEF FetchSwitch
<1>5. /\ Len(pipe[h]) < setup.depth /\ FeedSwitch(t, h, d)
      /\ UNCHANGED <<sent, setup, timers, error>> /\ asking' = None
      /\ d.switch = "requested"
  BY <1>1, <1>2 DEF FetchSwitch, Fetching, Idle
<1>6. Answers(d, p, sent[t], t)
  BY <1>2, <1>3 DEF FlightInv, AnswersAll
<1>7. setup.depth = 1 => d.deschedule /\ (d.pending => p.state = "consumed")
  BY <1>2, <1>3, <1>5 DEF FlightInv, Serial, Quiet
<1>8. Alike(ctx[t], d)
  BY <1>2 DEF Alike
<1> QED
  BY ONLY MapInv, FlightInv, <1>1, <1>2, <1>4, <1>5, <1>6, <1>7, <1>8, h \in Hwcs,
     SwitchInstructionFlies

LEMMA FetchBufferedFlies ==
    ASSUME MapInv, FlightInv, NEW h \in Hwcs, FetchBuffered(h)
    PROVE  FlightInv'
<1>1. PICK t \in Threads : t = run[h] /\ ctx[t].mapped /\ ctx[t].hwc = h
  BY Known DEF FetchBuffered, Fetching
<1>2. PICK d \in Contexts : d = ctx[t]
  BY Known
<1>3. PICK p : p = ipc[t]
  OBVIOUS
<1>4. ipc' = [ipc EXCEPT ![t] = p]
  BY <1>3, Known DEF FetchBuffered
<1>5. /\ Len(pipe[h]) < setup.depth /\ Feed(t, h, d)
      /\ UNCHANGED <<sent, setup, timers, error>> /\ asking' = None
      /\ ~d.ended /\ HasBuffered(d)
  BY <1>1, <1>2 DEF FetchBuffered, Fetching, Idle, Feedable
<1>6. p.state = "consumed" => d.pending \/ d.outstanding > 0
  BY <1>2, <1>3 DEF FlightInv, AnswersAll, Answers
<1>7. setup.depth = 1 => (d.pending => p.state = "consumed")
  BY <1>2, <1>3 DEF FlightInv, Serial, Quiet
<1>8. Alike(ctx[t], d) /\ d.deschedule = ctx[t].deschedule
  BY <1>2 DEF Alike
<1> QED
  BY ONLY MapInv, FlightInv, <1>1, <1>2, <1>4, <1>5, <1>6, <1>7, <1>8, h \in Hwcs,
     OperationFlies

LEMMA FetchAsksFlies ==
    ASSUME MapInv, FlightInv, NEW h \in Hwcs, FetchAsks(h)
    PROVE  FlightInv'
<1>1. PICK t \in Threads : t = run[h] /\ ctx[t].mapped /\ ctx[t].hwc = h /\ t <= known
  BY Known DEF FetchAsks, Fetching
<1>2. PICK s : s = State
  OBVIOUS
<1>3. Sound(s, known, started) /\ known \in Nat
  BY <1>2 DEF MapInv, Counted
<1>4. PICK r : r = IF ctx[t].outstanding > 0 THEN Allowed(s, t) ELSE s
  OBVIOUS
<1>5. /\ Becomes(r) /\ asking' = t /\ UNCHANGED <<setup, pipe, timers>>
      /\ asking = None /\ error = "" /\ Len(pipe[h]) < setup.depth
      /\ ~ctx[t].ended /\ ~ctx[t].pending
  BY <1>1, <1>2, <1>4 DEF FetchAsks, Fetching, Idle, Feedable, HasBuffered
<1>6. /\ s.ctx = ctx /\ s.ipc = ipc /\ s.sent = sent /\ s.error = ""
  BY <1>2, StateIs
<1>7. PICK c \in Contexts : c = ctx[t]
  BY Known
<1>8. PICK p : p = r.ipc[t]
  OBVIOUS
<1>9. Answers(c, ipc[t], sent[t], t)
  BY <1>7 DEF FlightInv, AnswersAll
<1>10. CASE ctx[t].outstanding > 0
  <2>1. r = Allowed(s, t)
    BY <1>4, <1>10
  <2>2. \/ /\ ipc[t].state = "consumed" /\ r.error = ""
           /\ r.ipc = [ipc EXCEPT ![t] = Answered(ipc[t])]
           /\ r.ctx = s.ctx /\ r.sent = s.sent
        \/ r.error = "Packet response error" /\ Alias(s, r)
    <3>1. \/ /\ s.ipc[t].state = "consumed" /\ r.error = ""
             /\ r.ipc = [s.ipc EXCEPT ![t] = Answered(s.ipc[t])]
             /\ r.ctx = s.ctx /\ r.sent = s.sent
          \/ r.error = "Packet response error" /\ Alias(s, r)
      <4>1. t <= known
        BY <1>1
      <4> QED
        BY ONLY <4>1, <1>3, <2>1, t \in Threads, AllowedSound
    <3> QED
      BY <1>6, <3>1
  <2>3. /\ r.ipc = [ipc EXCEPT ![t] = p] /\ r.ctx = ctx /\ r.sent = sent
        /\ r.error \in Errors
    <3>1. CASE r.error = ""
      <4>1. r.ipc = [ipc EXCEPT ![t] = Answered(ipc[t])]
        BY <2>2, <3>1
      <4>2. p = Answered(ipc[t])
        BY <1>8, <4>1, Known
      <4> QED
        BY <1>6, <2>2, <3>1, <4>1, <4>2 DEF Errors
    <3>2. CASE r.error # ""
      <4>1. r.ipc = ipc /\ r.ctx = ctx /\ r.sent = sent
        BY <1>6, <2>2, <3>2 DEF Alias
      <4> QED
        BY <1>8, <2>2, <3>2, <4>1, Known DEF Errors
    <3> QED
      BY <3>1, <3>2
  <2>4. Answers(c, p, sent[t], t)
    BY <1>5, <1>7, <1>10 DEF Answers
  <2>5. setup.depth # 1
    <3> SUFFICES ASSUME setup.depth = 1 PROVE FALSE
      OBVIOUS
    <3>1. Len(pipe[ctx[t].hwc]) < setup.depth /\ ctx[t].mapped
      BY <1>1, <1>5
    <3>2. ctx[t].outstanding = 0
      BY <3>1, EmptyIsQuiet
    <3> QED
      BY ONLY <1>10, <3>2
  <2>6. /\ ctx' = [ctx EXCEPT ![t] = c] /\ ipc' = [ipc EXCEPT ![t] = p]
        /\ sent' = sent /\ error' \in Errors
    <3>1. ctx' = r.ctx /\ ipc' = r.ipc /\ sent' = r.sent /\ error' = r.error
      BY <1>5 DEF Becomes
    <3>2. ctx' = [ctx EXCEPT ![t] = c]
      BY <1>7, <2>3, <3>1, Known
    <3> QED
      BY <2>3, <3>1, <3>2
  <2>7. Still(ctx[t], c)
    BY <1>7 DEF Still
  <2> QED
    BY ONLY MapInv, FlightInv, t \in Threads, c \in Contexts,
       <1>1, <1>5, <1>7, <2>4, <2>5, <2>6, <2>7, StayFlies
<1>11. CASE ~(ctx[t].outstanding > 0)
  <2>1. r = s
    BY <1>4, <1>11
  <2>2. /\ ctx' = [ctx EXCEPT ![t] = c] /\ ipc' = [ipc EXCEPT ![t] = p]
        /\ sent' = sent /\ error' = error /\ error' \in Errors /\ p = ipc[t]
    BY <1>5, <1>6, <1>7, <1>8, <2>1, Known DEF Becomes, Errors
  <2>3. Answers(c, p, sent[t], t)
    BY <1>9, <2>2
  <2>4. Still(ctx[t], c)
    BY <1>7 DEF Still
  <2>5. ~(c.pending \/ c.outstanding > 0)
    BY <1>5, <1>7, <1>11
  <2> QED
    BY ONLY MapInv, FlightInv, t \in Threads, c \in Contexts,
       <1>1, <1>5, <1>7, <2>2, <2>3, <2>4, <2>5, StayFlies
<1> QED
  BY <1>10, <1>11

\* What a pause, a timed wait and an exit make of what is in flight.
LEMMA LeavingFlies ==
    ASSUME NEW c \in Contexts, NEW e, NEW n
    PROVE  /\ Alike(c, Paused(c)) /\ Paused(c).deschedule
           /\ Paused(c).pending = c.pending /\ Paused(c).ended = c.ended
           /\ Still(c, InTimedWait(c, n))
           /\ e.kind \in {"syscall", "wait", "end"} =>
                /\ Alike(c, Left(c, e)) /\ Left(c, e).deschedule
                /\ Left(c, e).pending = c.pending
                /\ Left(c, e).ended => c.ended \/ e.kind = "end"
<1> USE DEF Alike, Still
<1>1. ASSUME NEW d, d = [c EXCEPT !.preceding = c.preceding + e.count]
      PROVE  /\ Alike(c, Paused(d)) /\ Paused(d).deschedule
             /\ Paused(d).pending = c.pending /\ Paused(d).ended = c.ended
  BY <1>1 DEF Paused, StartDeschedule, Contexts
<1>2. ASSUME NEW d, d = InTimedWait(c, e.count)
      PROVE  /\ Alike(c, Paused(d)) /\ Paused(d).deschedule
             /\ Paused(d).pending = c.pending /\ Paused(d).ended = c.ended
  BY <1>2 DEF InTimedWait, Paused, StartDeschedule, Contexts
<1>3. ASSUME NEW d, d = [Exited(c) EXCEPT !.ended = TRUE]
      PROVE  /\ Alike(c, d) /\ d.deschedule /\ d.pending = c.pending
  BY <1>3 DEF Exited, StartDeschedule, Contexts
<1>4. /\ Alike(c, Paused(c)) /\ Paused(c).deschedule
      /\ Paused(c).pending = c.pending /\ Paused(c).ended = c.ended
  BY DEF Paused, StartDeschedule, Contexts
<1>5. Still(c, InTimedWait(c, n))
  BY DEF InTimedWait, Contexts
<1>6. ASSUME e.kind \in {"syscall", "wait", "end"}
      PROVE  /\ Alike(c, Left(c, e)) /\ Left(c, e).deschedule
             /\ Left(c, e).pending = c.pending
             /\ Left(c, e).ended => c.ended \/ e.kind = "end"
  <2> HIDE DEF Alike, Still
  <2>1. CASE e.kind = "syscall"
    <3>1. PICK d : d = [c EXCEPT !.preceding = c.preceding + e.count]
      OBVIOUS
    <3>2. Left(c, e) = Paused(d)
      BY <2>1, <3>1 DEF Left
    <3> QED
      BY <1>1, <3>1, <3>2
  <2>2. CASE e.kind = "wait"
    <3>1. PICK d : d = InTimedWait(c, e.count)
      OBVIOUS
    <3>2. Left(c, e) = Paused(d)
      BY <2>2, <3>1 DEF Left
    <3> QED
      BY <1>2, <3>1, <3>2
  <2>3. CASE e.kind = "end"
    <3>1. PICK d : d = [Exited(c) EXCEPT !.ended = TRUE]
      OBVIOUS
    <3>2. Left(c, e) = d
      BY <2>3, <3>1 DEF Left
    <3> QED
      BY <1>3, <2>3, <3>1, <3>2
  <2> QED
    BY <1>6, <2>1, <2>2, <2>3
<1> QED
  BY <1>4, <1>5, <1>6

\* A fetch that waits is of a mapped context with room in the pipeline.
LEMMA AskingHas ==
    ASSUME MapInv, FlightInv, asking # None
    PROVE  \E t \in Threads : /\ t = asking /\ ctx[t].mapped /\ ctx[t] \in Contexts
                              /\ ctx[t].hwc \in Hwcs /\ ipc[t] \in Packets
                              /\ Len(pipe[ctx[t].hwc]) < setup.depth
                              /\ ~ctx[t].pending /\ ctx[t].outstanding \in Nat
<1>1. PICK t \in Threads : t = asking /\ ctx[t].mapped
  BY DEF MapInv, AskingMapped
<1>2. ctx[t] \in Contexts /\ ctx[t].hwc \in Hwcs /\ ipc[t] \in Packets
  BY Known
<1>3. Len(pipe[ctx[t].hwc]) < setup.depth /\ ~ctx[t].pending
  BY <1>1 DEF FlightInv, AskingRoom
<1>4. ctx[t].outstanding \in Nat
  BY CountIsNatural
<1> QED
  BY <1>1, <1>2, <1>3, <1>4

LEMMA FetchTimesOutFlies ==
    ASSUME MapInv, FlightInv, FetchTimesOut
    PROVE  FlightInv'
<1>1. PICK t \in Threads : /\ t = asking /\ ctx[t].mapped /\ ctx[t] \in Contexts
                           /\ ctx[t].hwc \in Hwcs
                           /\ Len(pipe[ctx[t].hwc]) < setup.depth /\ ~ctx[t].pending
  BY AskingHas DEF FetchTimesOut
<1>2. PICK h \in Hwcs : h = ctx[t].hwc
  BY <1>1
<1>3. PICK d : d = Paused(ctx[t])
  OBVIOUS
<1>4. d \in Contexts
  BY <1>1, <1>3 DEF Paused, StartDeschedule, Contexts
<1>5. /\ Alike(ctx[t], d) /\ d.deschedule
      /\ d.pending = ctx[t].pending /\ d.ended = ctx[t].ended
  BY <1>1, <1>3, LeavingFlies
<1>6. PICK p : p = ipc[t]
  OBVIOUS
<1>7. ipc' = [ipc EXCEPT ![t] = p]
  BY <1>6, Known DEF FetchTimesOut
<1>8. /\ FeedSwitch(t, h, d) /\ asking' = None
      /\ UNCHANGED <<sent, setup, timers, error>>
  BY <1>1, <1>2, <1>3 DEF FetchTimesOut
<1>9. Answers(d, p, sent[t], t)
  <2>1. Answers(ctx[t], ipc[t], sent[t], t)
    BY DEF FlightInv, AnswersAll
  <2> QED
    BY <1>5, <1>6, <2>1 DEF Answers, Alike
<1>10. ~d.pending
  BY <1>1, <1>5
<1>11. ctx[t].mapped /\ Len(pipe[h]) < setup.depth
  BY <1>1, <1>2
<1> QED
  BY ONLY MapInv, FlightInv, t \in Threads, h \in Hwcs, <1>2, <1>4, <1>5, <1>7, <1>8,
     <1>9, <1>10, <1>11, SwitchInstructionFlies

\* A context whose thread's event has come counts nothing that is not answered.
LEMMA ReadyIsNotDue ==
    ASSUME FlightInv, NEW t \in Threads, ipc[t].state = "ready"
    PROVE  /\ ~ctx[t].ended
           /\ setup.depth = 1 => ~ctx[t].pending /\ ~(ctx[t].outstanding > 0)
<1>1. Answers(ctx[t], ipc[t], sent[t], t)
  BY DEF FlightInv, AnswersAll
<1>2. ~ctx[t].ended
  BY <1>1 DEF Answers
<1>3. ASSUME setup.depth = 1 PROVE ~ctx[t].pending /\ ~(ctx[t].outstanding > 0)
  <2>1. Quiet(ctx[t], ipc[t], pipe)
    BY <1>3 DEF FlightInv, Serial
  <2> QED
    BY <2>1 DEF Quiet
<1> QED
  BY <1>2, <1>3

\* The last event of a program is that of its end.
LEMMA EndIsLast ==
    ASSUME MapInv, NEW t \in Threads, ipc[t].state = "ready",
           Program[t][sent[t]].kind = "end"
    PROVE  sent[t] = Len(Program[t])
<1>1. /\ sent[t] \in Nat /\ sent[t] <= Len(Program[t]) /\ sent[t] >= 1
      /\ Len(Program[t]) \in Nat
  BY PacketsKnown
<1>2. sent[t] \in 1 .. Len(Program[t])
  BY <1>1
<1>3. Program[t][sent[t]].kind = "end" <=> sent[t] = Len(Program[t])
  BY <1>2, MingoAssumption
<1> QED
  BY <1>3

\* The packets of a fetch that receives.
LEMMA ReceivedPackets ==
    ASSUME NEW m \in Packets
    PROVE  /\ Received(m).state = "consumed"
           /\ m.hint => Answered(Received(m)).state = "ready"
           /\ ~m.hint => Answered(Received(m)).state = "ack"
<1>1. PICK p : p = Received(m)
  OBVIOUS
<1>2. p = [state |-> "consumed", hint |-> FALSE, pseudo |-> m.hint]
  BY <1>1 DEF Received
<1>3. p.state = "consumed" /\ p.pseudo = m.hint
  BY <1>2
<1>4. m.hint => Answered(p).state = "ready"
  BY <1>2, <1>3 DEF Answered
<1>5. ~m.hint => Answered(p).state = "ack"
  BY <1>2, <1>3 DEF Answered
<1> QED
  BY <1>1, <1>3, <1>4, <1>5

LEMMA FetchReceivesFlies ==
    ASSUME MapInv, FlightInv, FetchReceives
    PROVE  FlightInv'
<1>1. PICK t \in Threads : /\ t = asking /\ ctx[t].mapped /\ ctx[t] \in Contexts
                           /\ ctx[t].hwc \in Hwcs /\ ipc[t] \in Packets
                           /\ Len(pipe[ctx[t].hwc]) < setup.depth /\ ~ctx[t].pending
                           /\ ctx[t].outstanding \in Nat
  BY AskingHas DEF FetchReceives
<1>2. ipc[t].state = "ready" /\ ~ctx[t].ended
  BY <1>1, ReadyIsNotDue DEF FetchReceives
<1>3. PICK e : e = Program[t][sent[t]]
  OBVIOUS
<1>4. UNCHANGED <<sent, setup, timers, error>> /\ error = ""
  BY DEF FetchReceives
<1>5. setup.depth = 1 => ~ctx[t].pending /\ ~(ctx[t].outstanding > 0)
  BY <1>2, ReadyIsNotDue
<1>6. PICK p : p = Received(ipc[t])
  OBVIOUS
<1>7. PICK q : q = Answered(p)
  OBVIOUS
<1>8. /\ p.state = "consumed" /\ q.state \in {"ready", "ack"}
      /\ ~ipc[t].hint => q.state = "ack"
  BY <1>1, <1>6, <1>7, ReceivedPackets
<1>9. PICK h \in Hwcs : h = ctx[t].hwc
  BY <1>1
<1>10. ctx[t].mapped /\ Len(pipe[h]) < setup.depth
  BY <1>1, <1>9
\* Nothing changes but the packet and the wait.
<1>11. ASSUME NEW c \in Contexts, Still(ctx[t], c), ctx' = [ctx EXCEPT ![t] = c],
              ipc' = [ipc EXCEPT ![t] = q], pipe' = pipe, asking' \in {None, asking}
       PROVE  FlightInv'
  <2>1. Answers(c, q, sent[t], t)
    BY <1>2, <1>8, <1>11 DEF Answers, Still
  <2>2. setup.depth = 1 => ~(c.pending \/ c.outstanding > 0)
    BY <1>5, <1>11 DEF Still
  <2>3. error' \in Errors /\ error' = error /\ asking \in {None, t}
    BY <1>1, <1>4 DEF Errors
  <2> QED
    BY ONLY MapInv, FlightInv, t \in Threads, <1>10, <1>11, c \in Contexts,
       <2>1, <2>2, <2>3, <1>4, StayFlies
<1>12. CASE ReceiveHint(t)
  <2>1. ipc' = [ipc EXCEPT ![t] = q] /\ UNCHANGED <<ctx, pipe, asking>>
    BY <1>6, <1>7, <1>12 DEF ReceiveHint
  <2>2. PICK c \in Contexts : c = ctx[t]
    BY <1>1
  <2>3. ctx' = [ctx EXCEPT ![t] = c] /\ Still(ctx[t], c)
    BY <2>1, <2>2, Known DEF Still
  <2> QED
    BY <1>11, <2>1, <2>3
<1>13. CASE ReceiveOperation(t, e)
  <2>1. PICK n \in Nat : n = ctx[t].preceding + e.count
    <3>1. e \in Event
      BY <1>2, <1>3, EventSent
    <3> QED
      BY <1>1, <3>1 DEF Contexts, Event
  <2>2. PICK d : d = [ctx[t] EXCEPT !.preceding = n, !.pending = TRUE]
    OBVIOUS
  <2>3. /\ d \in Contexts /\ d.pending /\ d.ended = ctx[t].ended
        /\ Alike(ctx[t], d) /\ d.deschedule = ctx[t].deschedule
    BY <1>1, <2>2 DEF Contexts, Alike
  <2>4. Feed(t, h, d) /\ ipc' = [ipc EXCEPT ![t] = p] /\ asking' = None
    BY <1>6, <1>9, <1>13, <2>1, <2>2 DEF ReceiveOperation
  <2>5. ~d.ended /\ HasBuffered(d)
    BY <1>2, <2>3 DEF HasBuffered
  <2> QED
    BY ONLY MapInv, FlightInv, t \in Threads, h \in Hwcs, <1>4, <1>8, <1>9, <1>10,
       <2>3, <2>4, <2>5, OperationFlies
<1>14. CASE ~ipc[t].hint /\ ReceiveLeave(t, e)
  <2>1. ipc' = [ipc EXCEPT ![t] = q] /\ e.kind \in {"syscall", "wait", "end"}
    BY <1>6, <1>7, <1>14 DEF ReceiveLeave
  <2>2. CASE e.kind = "wait" /\ ctx[t].switch # "none"
    <3>1. UNCHANGED <<ctx, pipe, asking>>
      BY <1>14, <2>2 DEF ReceiveLeave
    <3>2. PICK c \in Contexts : c = ctx[t]
      BY <1>1
    <3>3. ctx' = [ctx EXCEPT ![t] = c] /\ Still(ctx[t], c)
      BY <3>1, <3>2, Known DEF Still
    <3> QED
      BY <1>11, <2>1, <3>1, <3>3
  <2>3. CASE ~(e.kind = "wait" /\ ctx[t].switch # "none")
    <3>1. PICK d : d = Left(ctx[t], e)
      OBVIOUS
    <3>2. d \in Contexts
      BY <1>1, <1>2, <1>3, <2>1, <3>1, EventSent, LeavingContext
    <3>3. /\ Alike(ctx[t], d) /\ d.deschedule /\ d.pending = ctx[t].pending
          /\ d.ended => ctx[t].ended \/ e.kind = "end"
      BY <1>1, <2>1, <3>1, LeavingFlies
    <3>4. FeedSwitch(t, h, d) /\ asking' = None
      BY <1>9, <1>14, <2>3, <3>1 DEF ReceiveLeave
    <3>5. Answers(d, q, sent[t], t)
      <4>1. d.ended => sent[t] = Len(Program[t])
        BY <1>2, <1>3, <3>3, EndIsLast
      <4>2. q.state = "ack"
        BY <1>8, <1>14
      <4> QED
        BY <4>1, <4>2 DEF Answers
    <3>6. ~d.pending
      BY <1>1, <3>3
    <3> QED
      BY ONLY MapInv, FlightInv, t \in Threads, h \in Hwcs, <1>4, <1>9, <1>10, <2>1,
         <3>2, <3>3, <3>4, <3>5, <3>6, SwitchInstructionFlies
  <2> QED
    BY <2>2, <2>3
<1>15. CASE ReceiveWait(t, e)
  <2>1. PICK c : c = InTimedWait(ctx[t], e.count)
    OBVIOUS
  <2>2. e.kind \in {"syscall", "wait", "end"}
    BY <1>15 DEF ReceiveWait
  <2>3. c \in Contexts
    BY <1>1, <1>2, <1>3, <2>1, <2>2, EventSent, LeavingContext
  <2>4. Still(ctx[t], c)
    BY <1>1, <2>1, LeavingFlies
  <2>5. /\ ctx' = [ctx EXCEPT ![t] = c]
        /\ ipc' = [ipc EXCEPT ![t] = q]
        /\ asking' = None /\ pipe' = pipe
    BY <1>1, <1>6, <1>7, <1>15, <2>1, Known DEF ReceiveWait
  <2> QED
    BY <1>11, <2>3, <2>4, <2>5
<1>16. \/ ReceiveHint(t) \/ ReceiveOperation(t, e) \/ ReceiveWait(t, e)
       \/ ~ipc[t].hint /\ ReceiveLeave(t, e)
  BY <1>1, <1>3 DEF FetchReceives
<1> QED
  BY <1>12, <1>13, <1>14, <1>15, <1>16

-----------------------------------------------------------------------------
(* What a commit does to what is in flight.                                *)

LEMMA CommittedCounts ==
    ASSUME NEW b \in Contexts, NEW op \in {"switch", "op", "anonymous"},
           NEW c, c = Committed(b, op)
    PROVE  /\ c.outstanding = b.outstanding - Ones(op)
           /\ c.pending = b.pending /\ c.ended = b.ended
           /\ c.switch = IF op = "switch" THEN "committed" ELSE b.switch
<1>1. b.outstanding \in Int
  BY DEF Contexts
<1>2. CASE op = "switch"
  <2>1. c = [b EXCEPT !.switch = "committed"]
    BY <1>2 DEF Committed
  <2>2. /\ c.outstanding = b.outstanding /\ c.pending = b.pending
        /\ c.ended = b.ended /\ c.switch = "committed"
    BY <2>1 DEF Contexts
  <2> QED
    BY <1>1, <1>2, <2>2 DEF Ones
<1>3. CASE op = "op"
  <2>1. PICK n \in Int : n = b.outstanding - 1
    BY <1>1
  <2>2. c = [b EXCEPT !.outstanding = n]
    BY <1>3, <2>1 DEF Committed
  <2>3. /\ c.outstanding = n /\ c.pending = b.pending
        /\ c.ended = b.ended /\ c.switch = b.switch
    BY <2>2 DEF Contexts
  <2> QED
    BY <1>3, <2>1, <2>3 DEF Ones
<1>4. CASE op = "anonymous"
  <2>1. c = b
    BY <1>4 DEF Committed
  <2> QED
    BY <1>1, <1>4, <2>1 DEF Ones
<1> QED
  BY <1>2, <1>3, <1>4

\* The oldest entry of a pipeline and what is left of the pipelines.
Leaves(h, t, op) ==
    /\ pipe[h] # <<>> /\ t = pipe[h][1].t /\ op = pipe[h][1].op
    /\ pipe' = [pipe EXCEPT ![h] = Tail(@)]

LEMMA LeavesTallied ==
    ASSUME MapInv, FlightInv, NEW h \in Hwcs, NEW t \in Threads,
           NEW op \in {"switch", "op", "anonymous"}, Leaves(h, t, op),
           NEW g, OthersStay(ctx, g, t),
           g[t].mapped = ctx[t].mapped, g[t].hwc = ctx[t].hwc,
           g[t].outstanding = ctx[t].outstanding - Ones(op)
    PROVE  /\ Homed(g, pipe') /\ Tallied(g, pipe') /\ Few(pipe', setup.depth)
           /\ op = "op" => /\ ctx[t].mapped /\ ctx[t].hwc = h
                           /\ ctx[t].outstanding >= 1
           /\ ctx[t].outstanding \in Nat /\ g[t].outstanding \in Nat
<1>1. /\ pipe \in Pipes /\ Homed(ctx, pipe) /\ Tallied(ctx, pipe) /\ Seated(ctx, run)
      /\ ctx[t].outstanding \in Nat
  BY SeatedHere, CountIsNatural DEF FlightInv
<1>2. /\ pipe[h] \in Seq(Entries) /\ pipe[h] # <<>> /\ Len(pipe[h]) \in Nat
      /\ Len(pipe[h]) >= 1
  BY <1>1 DEF Leaves, Pipes
<1>3. PICK r : r = pipe'
  OBVIOUS
<1>4. r = [pipe EXCEPT ![h] = Tail(pipe[h])]
  BY <1>3 DEF Leaves
<1>5. t = pipe[h][1].t /\ op = pipe[h][1].op
  BY DEF Leaves
<1>6. ASSUME op = "op"
      PROVE  /\ Homed(g, r) /\ Tallied(g, r) /\ ctx[t].mapped /\ ctx[t].hwc = h
             /\ ctx[t].outstanding >= 1 /\ g[t].outstanding \in Nat
  <2>1. g[t].outstanding = ctx[t].outstanding - 1
    BY <1>6 DEF Ones
  <2>2. pipe[h][1].op = "op"
    BY <1>5, <1>6
  <2>3. Homed(g, r) /\ Tallied(g, r) /\ ctx[t].outstanding \in Nat /\ ctx[t].outstanding >= 1
    BY ONLY <1>1, <1>2, <1>4, <1>5, <2>1, <2>2, h \in Hwcs, t \in Threads,
       OthersStay(ctx, g, t), g[t].mapped = ctx[t].mapped, g[t].hwc = ctx[t].hwc, TailFlies
  <2>4. 1 \in Ops(pipe[h])
    BY <1>2, <2>2 DEF Ops
  <2>5. ctx[t].mapped /\ ctx[t].hwc = h
    BY <1>1, <1>5, <2>4 DEF Homed
  <2> QED
    BY <2>1, <2>3, <2>5
<1>7. ASSUME op # "op"
      PROVE  Homed(g, r) /\ Tallied(g, r) /\ g[t].outstanding \in Nat
  <2>1. g[t].outstanding = ctx[t].outstanding
    BY <1>1, <1>7 DEF Ones
  <2>2. StillTallied(ctx, g)
    BY <2>1 DEF OthersStay, StillTallied
  <2>3. pipe[h][1].op # "op"
    BY <1>5, <1>7
  <2>4. Homed(g, r) /\ Tallied(g, r)
    BY ONLY <1>1, <1>2, <1>4, <2>2, <2>3, h \in Hwcs, OtherTailFlies
  <2> QED
    BY <1>1, <2>1, <2>4
<1>8. Few(r, setup.depth)
  <2>1. /\ DOMAIN pipe = Hwcs /\ Len(Tail(pipe[h])) = Len(pipe[h]) - 1
        /\ setup.depth \in Nat
    BY <1>1, <1>2, SetupTyped DEF Pipes, MapInv
  <2>2. r[h] = Tail(pipe[h]) /\ \A k \in Hwcs : k # h => r[k] = pipe[k]
    BY <1>4, <2>1
  <2>3. Len(r[h]) <= setup.depth
    <3>1. PICK n \in Nat : n = Len(pipe[h]) /\ n <= setup.depth /\ n >= 1
      BY <1>2 DEF FlightInv, Few
    <3>2. Len(r[h]) = n - 1
      BY <2>1, <2>2, <3>1
    <3>3. PICK d \in Nat : d = setup.depth
      BY <2>1
    <3>4. n <= d
      BY <3>1, <3>3
    <3> QED
      BY ONLY <3>2, <3>3, <3>4, n \in Nat, d \in Nat
  <2> QED
    BY <2>2, <2>3 DEF FlightInv, Few
<1>9. \/ op = "op" \/ op # "op"
  OBVIOUS
<1> QED
  BY <1>1, <1>3, <1>6, <1>7, <1>8, <1>9

\* With one operation in flight: what the entry that leaves tells of its context.
LEMMA LeavesAlone ==
    ASSUME MapInv, FlightInv, setup.depth = 1, NEW h \in Hwcs, NEW t \in Threads,
           NEW op \in {"switch", "op", "anonymous"}, Leaves(h, t, op)
    PROVE  /\ pipe'[h] = <<>> /\ PipesStay(pipe, pipe', h)
           /\ Carries(pipe, h) <=> op = "switch"
           /\ op = "switch" => /\ ctx[t].mapped /\ ctx[t].hwc = h
                               /\ ctx[t].switch = "sent" /\ ctx[t].deschedule
                               /\ ctx[t].outstanding = 0
           /\ op = "op" => ipc[t].state = "consumed" /\ ~ctx[t].pending
           /\ ctx[t].switch \in {"none", "requested", "sent"}
<1>1. /\ pipe \in Pipes /\ Tallied(ctx, pipe)
      /\ SwitchesSent(ctx, pipe) /\ Quiet(ctx[t], ipc[t], pipe)
  BY SeatedHere DEF FlightInv, Serial
<1>2. /\ pipe[h] \in Seq(Entries) /\ pipe[h] # <<>> /\ DOMAIN pipe = Hwcs
      /\ Len(pipe[h]) <= 1 /\ t = pipe[h][1].t /\ op = pipe[h][1].op
  BY <1>1 DEF Leaves, Pipes, FlightInv, Few
<1>3. Len(pipe[h]) = 1 /\ Tail(pipe[h]) = <<>>
  <2>1. PICK q : q = pipe[h]
    OBVIOUS
  <2>2. q \in Seq(Entries) /\ q # <<>> /\ Len(q) <= 1
    BY <1>2, <2>1
  <2>3. Len(q) = 1 /\ Tail(q) = <<>>
    <3>1. Len(q) \in Nat /\ Len(q) # 0
      BY ONLY <2>2
    <3>2. Len(q) = 1
      BY ONLY <2>2, <3>1
    <3>3. PICK p : p = Tail(q)
      OBVIOUS
    <3>4. p \in Seq(Entries) /\ Len(p) = 0
      BY ONLY <2>2, <3>2, <3>3
    <3>5. p = <<>>
      BY ONLY <3>4
    <3> QED
      BY <3>2, <3>3, <3>5
  <2> QED
    BY <2>1, <2>3
<1>4. pipe'[h] = <<>> /\ PipesStay(pipe, pipe', h)
  BY <1>2, <1>3 DEF Leaves, PipesStay
<1>5. Carries(pipe, h) <=> op = "switch"
  BY <1>2 DEF Carries
<1>6. ASSUME op = "switch"
      PROVE  /\ ctx[t].mapped /\ ctx[t].hwc = h
             /\ ctx[t].switch = "sent" /\ ctx[t].deschedule
             /\ ctx[t].outstanding = 0
  <2>1. ctx[t].mapped /\ ctx[t].hwc = h /\ ctx[t].switch = "sent"
    BY <1>1, <1>2, <1>5, <1>6 DEF SwitchesSent
  <2>2. ctx[t].deschedule
    BY <1>1, <2>1 DEF Quiet
  <2>3. Ops(pipe[h]) = {}
    <3> SUFFICES ASSUME NEW i \in 1 .. Len(pipe[h]) PROVE pipe[h][i].op # "op"
      BY DEF Ops
    <3>1. i = 1
      BY <1>3
    <3> QED
      BY <1>2, <1>6, <3>1
  <2>4. ctx[t].outstanding = Cardinality(Ops(pipe[h]))
    BY <1>1, <2>1 DEF Tallied
  <2>5. ctx[t].outstanding = 0
    BY <2>3, <2>4, FS_EmptySet
  <2> QED
    BY <2>1, <2>2, <2>5
<1>7. ASSUME op = "op" PROVE ipc[t].state = "consumed" /\ ~ctx[t].pending
  <2>1. 1 \in Ops(pipe[h])
    <3>1. 1 \in 1 .. Len(pipe[h])
      BY <1>3
    <3> QED
      BY <1>2, <1>7, <3>1 DEF Ops
  <2>2. ctx[t].mapped /\ ctx[t].hwc = h
    BY <1>2, <2>1 DEF FlightInv, Homed
  <2>3. Cardinality(Ops(pipe[h])) \in Nat /\ Cardinality(Ops(pipe[h])) # 0
    BY <1>2, <2>1, OpsFinite
  <2>4. ctx[t].outstanding = Cardinality(Ops(pipe[h]))
    BY <1>1, <2>2 DEF Tallied
  <2>5. ctx[t].outstanding > 0
    BY <2>3, <2>4
  <2> QED
    BY <1>1, <2>5 DEF Quiet
<1>8. ctx[t].switch \in {"none", "requested", "sent"}
  BY <1>1 DEF Quiet
<1> QED
  BY <1>4, <1>5, <1>6, <1>7, <1>8

LEMMA LeavesSerial ==
    ASSUME MapInv, FlightInv, setup.depth = 1, NEW h \in Hwcs, NEW t \in Threads,
           NEW op \in {"switch", "op", "anonymous"}, Leaves(h, t, op),
           NEW g, OthersStay(ctx, g, t), NEW m, OthersStay(ipc, m, t),
           NEW d, d = g[t],
           d.mapped = ctx[t].mapped, d.hwc = ctx[t].hwc,
           d.deschedule = ctx[t].deschedule, d.pending = ctx[t].pending,
           d.outstanding > 0 => ctx[t].outstanding > 0,
           d.switch = IF op = "switch" THEN "none" ELSE ctx[t].switch,
           (d.pending \/ d.outstanding > 0) => m[t].state = "consumed"
    PROVE  Serial(g, m, pipe')
<1>1. /\ pipe \in Pipes /\ Seated(ctx, run) /\ SwitchesSent(ctx, pipe)
      /\ \A u \in Threads : Quiet(ctx[u], ipc[u], pipe)
  BY SeatedHere DEF FlightInv, Serial
<1>2. PICK r : r = pipe'
  OBVIOUS
<1>3. /\ r[h] = <<>> /\ PipesStay(pipe, r, h)
      /\ Carries(pipe, h) <=> op = "switch"
      /\ op = "switch" => ctx[t].mapped /\ ctx[t].hwc = h
      /\ ctx[t].switch \in {"none", "requested", "sent"}
  BY <1>2, LeavesAlone
<1>4. ASSUME NEW u \in Threads, u # t PROVE Quiet(g[u], m[u], r)
  <2>1. g[u] = ctx[u] /\ m[u] = ipc[u] /\ Quiet(ctx[u], ipc[u], pipe)
    BY <1>1, <1>4 DEF OthersStay
  <2>2. ASSUME ctx[u].switch = "sent" PROVE Carries(r, ctx[u].hwc)
    <3>1. ctx[u].mapped /\ Carries(pipe, ctx[u].hwc) /\ ctx[u].hwc \in Hwcs
      BY <1>1, <2>1, <2>2 DEF Quiet, Seated
    <3>2. ctx[u].hwc # h
      BY <1>1, <1>3, <1>4, <3>1 DEF Seated
    <3> QED
      BY <1>3, <3>1, <3>2 DEF PipesStay, Carries
  <2> QED
    BY <2>1, <2>2 DEF Quiet
<1>5. Quiet(d, m[t], r)
  <2>1. Quiet(ctx[t], ipc[t], pipe)
    BY <1>1
  <2>2. d.outstanding > 0 => ~d.pending
    BY <2>1 DEF Quiet
  <2>3. d.switch \in {"none", "requested", "sent"}
    BY <1>3
  <2>4. d.switch # "none" => d.mapped /\ d.deschedule
    BY <2>1 DEF Quiet
  <2>5. ASSUME d.switch = "sent" PROVE Carries(r, d.hwc)
    <3>1. op # "switch" /\ ctx[t].switch = "sent"
      BY <2>5
    <3>2. ctx[t].mapped /\ Carries(pipe, ctx[t].hwc) /\ ctx[t].hwc \in Hwcs
      BY <1>1, <2>1, <3>1 DEF Quiet, Seated
    <3>3. ctx[t].hwc # h
      BY <1>3, <3>1, <3>2
    <3> QED
      BY <1>3, <3>2, <3>3 DEF PipesStay, Carries
  <2> QED
    BY <2>2, <2>3, <2>4, <2>5 DEF Quiet
<1>6. ASSUME NEW k \in Hwcs, Carries(r, k)
      PROVE  /\ g[r[k][1].t].mapped /\ g[r[k][1].t].hwc = k
             /\ g[r[k][1].t].switch = "sent"
  <2>1. k # h
    BY <1>3, <1>6 DEF Carries
  <2>2. r[k] = pipe[k] /\ Carries(pipe, k)
    BY <1>3, <1>6, <2>1 DEF PipesStay, Carries
  <2>3. PICK u : u = pipe[k][1].t
    OBVIOUS
  <2>4. ctx[u].mapped /\ ctx[u].hwc = k /\ ctx[u].switch = "sent"
    BY <1>1, <2>2, <2>3 DEF SwitchesSent
  <2>5. u \in Threads
    <3>1. pipe[k] \in Seq(Entries) /\ pipe[k] # <<>>
      BY <1>1, <2>2 DEF Pipes, Carries
    <3>2. pipe[k][1] \in Entries
      BY <3>1
    <3> QED
      BY <2>3, <3>2 DEF Entries
  <2>6. CASE u = t
    <3>1. op # "switch"
      BY <1>3, <2>1, <2>4, <2>6
    <3> QED
      BY <2>2, <2>3, <2>4, <2>6, <3>1
  <2>7. CASE u # t
    <3>1. g[u] = ctx[u]
      BY <2>5, <2>7 DEF OthersStay
    <3> QED
      BY <2>2, <2>3, <2>4, <3>1
  <2> QED
    BY <2>6, <2>7
<1>7. \A u \in Threads : Quiet(g[u], m[u], r)
  <2> SUFFICES ASSUME NEW u \in Threads PROVE Quiet(g[u], m[u], r)
    OBVIOUS
  <2>1. CASE u = t
    BY <1>5, <2>1
  <2>2. CASE u # t
    BY <1>4, <2>2
  <2> QED
    BY <2>1, <2>2
<1>8. SwitchesSent(g, r)
  BY <1>6 DEF SwitchesSent
<1> QED
  BY <1>2, <1>7, <1>8 DEF Serial

-----------------------------------------------------------------------------
(* What a decision of the scheduler does to what is in flight.             *)

Stays(c, d) == d.mapped /\ d.hwc = c.hwc /\ d.deschedule = c.deschedule

\* A decision delivers events, counts nothing, and takes no context off its
\* hardware context that has something in flight.
Follows(s, r) ==
    /\ Delivers(s, r)
    /\ \A u \in Threads :
         /\ Kept(s.ctx[u], r.ctx[u])
         /\ s.ctx[u].mapped /\ (s.ctx[u].outstanding # 0 \/ s.ctx[u].switch # "none")
              => Stays(s.ctx[u], r.ctx[u])

LEMMA PersistsFollow ==
    ASSUME NEW s, NEW r, Delivers(s, r), \A u \in Threads : Persists(s.ctx[u], r.ctx[u])
    PROVE  Follows(s, r)
  BY DEF Follows, Persists, Stays

LEMMA FollowsTallied ==
    ASSUME NEW q \in Pipes, NEW s, NEW r, Follows(s, r),
           Homed(s.ctx, q), Tallied(s.ctx, q),
           Seated(s.ctx, s.run), Seated(r.ctx, r.run)
    PROVE  Homed(r.ctx, q) /\ Tallied(r.ctx, q)
<1>1. ASSUME NEW u \in Threads
      PROVE  /\ r.ctx[u].outstanding = s.ctx[u].outstanding
             /\ s.ctx[u].outstanding # 0 => r.ctx[u].mapped /\ r.ctx[u].hwc = s.ctx[u].hwc
  <2>1. s.ctx[u].outstanding # 0 => s.ctx[u].mapped
    BY DEF Tallied
  <2>2. r.ctx[u].outstanding = s.ctx[u].outstanding
    BY DEF Follows, Kept
  <2> QED
    BY <2>1, <2>2 DEF Follows, Stays
<1> QED
  BY <1>1, DecisionFlies

LEMMA FollowsAnswers ==
    ASSUME NEW s, NEW r, Follows(s, r), AnswersAll(s.ctx, s.ipc, s.sent)
    PROVE  AnswersAll(r.ctx, r.ipc, r.sent)
<1> SUFFICES ASSUME NEW u \in Threads
             PROVE  Answers(r.ctx[u], r.ipc[u], r.sent[u], u)
  BY DEF AnswersAll
<1>1. Answers(s.ctx[u], s.ipc[u], s.sent[u], u) /\ Kept(s.ctx[u], r.ctx[u])
  BY DEF AnswersAll, Follows
<1>2. CASE r.ipc[u] = s.ipc[u] /\ r.sent[u] = s.sent[u]
  BY <1>1, <1>2 DEF Answers, Kept
<1>3. CASE Came(s, r, u)
  <2>1. s.sent[u] < Len(Program[u]) /\ r.ipc[u].state = "ready"
    BY <1>3 DEF Came
  <2>2. s.sent[u] # Len(Program[u])
    <3>1. Len(Program[u]) \in Nat
      BY MingoAssumption
    <3> QED
      BY <2>1, <3>1
  <2> QED
    BY <1>1, <2>1, <2>2 DEF Answers, Kept
<1> QED
  BY <1>2, <1>3 DEF Follows, Delivers

LEMMA FollowsSerial ==
    ASSUME NEW q \in Pipes, NEW s, NEW r, Follows(s, r), Serial(s.ctx, s.ipc, q)
    PROVE  Serial(r.ctx, r.ipc, q)
<1>1. ASSUME NEW u \in Threads PROVE Quiet(r.ctx[u], r.ipc[u], q)
  <2>1. Quiet(s.ctx[u], s.ipc[u], q) /\ Kept(s.ctx[u], r.ctx[u])
    BY DEF Serial, Follows
  <2>2. s.ipc[u].state = "consumed" => r.ipc[u].state = "consumed"
    BY DEF Follows, Delivers, Came
  <2>3. s.ctx[u].switch # "none" =>
          r.ctx[u].mapped /\ r.ctx[u].deschedule /\ r.ctx[u].hwc = s.ctx[u].hwc
    BY <2>1 DEF Quiet, Follows, Stays
  <2> QED
    BY <2>1, <2>2, <2>3 DEF Quiet, Kept
<1>2. ASSUME NEW k \in Hwcs, Carries(q, k)
      PROVE  /\ r.ctx[q[k][1].t].mapped /\ r.ctx[q[k][1].t].hwc = k
             /\ r.ctx[q[k][1].t].switch = "sent"
  <2>1. PICK u : u = q[k][1].t
    OBVIOUS
  <2>2. s.ctx[u].mapped /\ s.ctx[u].hwc = k /\ s.ctx[u].switch = "sent"
    BY <1>2, <2>1 DEF Serial, SwitchesSent
  <2>3. u \in Threads
    <3>1. q[k] \in Seq(Entries) /\ q[k] # <<>>
      BY <1>2 DEF Pipes, Carries
    <3>2. q[k][1] \in Entries
      BY <3>1
    <3> QED
      BY <2>1, <3>2 DEF Entries
  <2>4. Stays(s.ctx[u], r.ctx[u]) /\ Kept(s.ctx[u], r.ctx[u])
    BY <2>2, <2>3 DEF Follows
  <2> QED
    BY <2>1, <2>2, <2>4 DEF Stays, Kept
<1> QED
  BY <1>1, <1>2 DEF Serial, SwitchesSent

LEMMA FitSeats ==
    ASSUME NEW s \in States, Fit(s, NoHole)
    PROVE  Seated(s.ctx, s.run) /\ s.ctx \in [Threads -> Contexts]
<1>1. s.ctx \in [Threads -> Contexts]
  BY StateMembers
<1>2. \A t \in Threads : s.ctx[t].hwc \in Hwcs
  BY <1>1 DEF Contexts
<1> QED
  BY <1>1, <1>2 DEF Fit, Seated

\* What is in flight, in a state of a decision.
Flies(s, q) ==
    /\ Homed(s.ctx, q) /\ Tallied(s.ctx, q)
    /\ AnswersAll(s.ctx, s.ipc, s.sent) /\ s.error \in Errors
    /\ setup.depth = 1 => Serial(s.ctx, s.ipc, q) /\ s.error = ""

LEMMA FollowsFlies ==
    ASSUME NEW q \in Pipes, NEW s \in States, Fit(s, NoHole),
           NEW r \in States, Fit(r, NoHole), Flies(s, q), Follows(s, r)
    PROVE  Flies(r, q)
<1>1. Seated(s.ctx, s.run) /\ Seated(r.ctx, r.run)
  BY FitSeats
<1>2. Homed(r.ctx, q) /\ Tallied(r.ctx, q)
  BY <1>1, FollowsTallied DEF Flies
<1>3. AnswersAll(r.ctx, r.ipc, r.sent)
  BY FollowsAnswers DEF Flies
<1>4. setup.depth = 1 => Serial(r.ctx, r.ipc, q)
  BY FollowsSerial DEF Flies
<1>5. r.error = ""
  BY DEF Fit
<1> QED
  BY <1>2, <1>3, <1>4, <1>5 DEF Flies, Errors

LEMMA BecomesFlies ==
    ASSUME NEW r, Becomes(r), Flies(r, pipe'), Few(pipe', setup.depth),
           setup' = setup, asking' = None, timers' \in 0 .. MaxTimers
    PROVE  FlightInv'
<1>1. ctx' = r.ctx /\ ipc' = r.ipc /\ sent' = r.sent /\ error' = r.error
  BY DEF Becomes
<1>2. AskingRoom'
  BY DEF AskingRoom
<1> QED
  BY <1>1, <1>2 DEF FlightInv, Flies

\* The switch of a context that has nothing in flight any more.
LEMMA SwitchFollows ==
    ASSUME NEW s \in States, Fit(s, NoHole),
           NEW t \in Threads, s.ctx[t].mapped, s.ctx[t].deschedule,
           s.ctx[t].outstanding = 0, s.ctx[t].switch = "none",
           NEW r \in ContextSwitchCompleted(s, t)
    PROVE  r \in States /\ Fit(r, NoHole) /\ Follows(s, r)
<1>1. /\ r \in States /\ Fit(r, NoHole) /\ Delivers(s, r)
      /\ Kept(s.ctx[t], r.ctx[t])
      /\ \A u \in Threads : u # t => Persists(s.ctx[u], r.ctx[u])
  BY SwitchFits
<1>2. ASSUME NEW u \in Threads
      PROVE  /\ Kept(s.ctx[u], r.ctx[u])
             /\ s.ctx[u].mapped /\ (s.ctx[u].outstanding # 0 \/ s.ctx[u].switch # "none")
                  => Stays(s.ctx[u], r.ctx[u])
  <2>1. CASE u = t
    BY <1>1, <2>1
  <2>2. CASE u # t
    BY <1>1, <2>2 DEF Persists, Stays
  <2> QED
    BY <2>1, <2>2
<1> QED
  BY <1>1, <1>2 DEF Follows

\* The answer of a commit.
LEMMA CommitAnswers ==
    ASSUME MapInv, FlightInv, NEW h \in Hwcs, NEW t \in Threads,
           NEW op \in {"switch", "op", "anonymous"}, Leaves(h, t, op),
           NEW c \in Contexts, c = Committed(ctx[t], op), c.outstanding \in Nat,
           NEW b, b = (Settles(c, op) /\ op # "switch" /\ ~c.ended),
           NEW p, p = IF b /\ ipc[t].state = "consumed" THEN Answered(ipc[t]) ELSE ipc[t]
    PROVE  /\ Answers(c, p, sent[t], t)
           /\ setup.depth = 1 =>
                /\ b => ipc[t].state = "consumed"
                /\ (c.pending \/ c.outstanding > 0) => p.state = "consumed"
<1>1. /\ ctx[t] \in Contexts /\ ipc[t] \in Packets /\ ctx[t].outstanding \in Nat
      /\ Answers(ctx[t], ipc[t], sent[t], t)
      /\ setup.depth = 1 => Quiet(ctx[t], ipc[t], pipe)
  BY Known, CountIsNatural DEF FlightInv, AnswersAll, Serial
<1>2. /\ c.outstanding = ctx[t].outstanding - Ones(op)
      /\ c.pending = ctx[t].pending /\ c.ended = ctx[t].ended
  BY <1>1, CommittedCounts
<1>3. b => op = "op" /\ c.outstanding = 0 /\ ~c.ended
  BY DEF Settles
<1>4. ~b => (c.ended \/ c.outstanding > 0 \/ c.outstanding = ctx[t].outstanding)
  <2> SUFFICES ASSUME ~b, ~c.ended, c.outstanding = 0
               PROVE  c.outstanding = ctx[t].outstanding
    OBVIOUS
  <2>1. op # "op"
    BY DEF Settles
  <2> QED
    BY <1>1, <1>2, <2>1 DEF Ones
<1>5. c.outstanding > 0 => ctx[t].outstanding > 0
  <2>1. Ones(op) \in {0, 1}
    BY DEF Ones
  <2> QED
    BY <1>1, <1>2, <2>1
<1>6. ASSUME setup.depth = 1, b PROVE ipc[t].state = "consumed" /\ ~c.pending
  BY <1>2, <1>3, <1>6, LeavesAlone
<1>7. CASE b
  <2>1. CASE ipc[t].state = "consumed"
    <3>1. p.state \in {"ready", "ack"}
      <4>1. p = Answered(ipc[t])
        BY <1>7, <2>1
      <4>2. PICK m \in Packets : m = ipc[t]
        BY <1>1
      <4>3. p = IF m.pseudo THEN [m EXCEPT !.state = "ready", !.pseudo = FALSE]
                            ELSE [m EXCEPT !.state = "ack"]
        BY <4>1, <4>2 DEF Answered
      <4> QED
        BY <4>3 DEF Packets
    <3>2. Answers(c, p, sent[t], t)
      BY <1>3, <1>7, <3>1 DEF Answers
    <3>3. setup.depth = 1 => ~(c.pending \/ c.outstanding > 0)
      BY <1>3, <1>6, <1>7
    <3> QED
      BY <2>1, <3>2, <3>3
  <2>2. CASE ipc[t].state # "consumed"
    <3>1. setup.depth # 1
      BY <1>6, <1>7, <2>2
    <3>2. Answers(c, p, sent[t], t)
      BY <1>3, <1>7, <2>2 DEF Answers
    <3> QED
      BY <3>1, <3>2
  <2> QED
    BY <2>1, <2>2
<1>8. CASE ~b
  <2>1. p = ipc[t]
    BY <1>8
  <2>2. Answers(c, p, sent[t], t)
    BY <1>1, <1>2, <1>4, <1>8, <2>1 DEF Answers
  <2>3. setup.depth = 1 => ((c.pending \/ c.outstanding > 0) => p.state = "consumed")
    BY <1>1, <1>2, <1>5, <2>1 DEF Quiet
  <2> QED
    BY <1>8, <2>2, <2>3
<1> QED
  BY <1>7, <1>8

LEMMA CommitFlies ==
    ASSUME MapInv, FlightInv, NEW h \in Hwcs, Commit(h)
    PROVE  FlightInv'
<1>1. pipe[h] \in Seq(Entries) /\ pipe[h] # <<>> /\ known \in Nat
  BY DEF MapInv, PipeKnown, Counted, Commit
<1>2. PICK t : t = pipe[h][1].t
  OBVIOUS
<1>3. PICK op : op = pipe[h][1].op
  OBVIOUS
<1>4. t \in Threads /\ t <= known /\ op \in {"switch", "op", "anonymous"}
  <2>1. pipe[h][1] \in Entries /\ 1 \in 1 .. Len(pipe[h])
    BY <1>1
  <2>2. pipe[h][1].t <= known
    BY <2>1 DEF MapInv, PipeKnown
  <2> QED
    BY <1>2, <1>3, <2>1, <2>2 DEF Entries
<1>5. Leaves(h, t, op) /\ setup' = setup /\ asking' = None /\ timers' \in 0 .. MaxTimers
  BY <1>2, <1>3 DEF Commit, Leaves, Idle, FlightInv
<1>6. PICK z : z = State
  OBVIOUS
<1>7. /\ Sound(z, known, started) /\ z \in States
      /\ z.ctx = ctx /\ z.ipc = ipc /\ z.sent = sent
  BY <1>6, StateIs DEF MapInv, Sound
<1>8. PICK c : c = Committed(ctx[t], op)
  OBVIOUS
<1>9. /\ c \in Contexts /\ c.mapped = ctx[t].mapped /\ c.hwc = ctx[t].hwc
      /\ c.deschedule = ctx[t].deschedule
      /\ c.runnable = ctx[t].runnable /\ c.timed = ctx[t].timed
  BY <1>4, <1>8, Known, CommittedContext
<1>10. /\ c.outstanding = ctx[t].outstanding - Ones(op)
       /\ c.pending = ctx[t].pending /\ c.ended = ctx[t].ended
       /\ c.switch = IF op = "switch" THEN "committed" ELSE ctx[t].switch
  BY <1>4, <1>8, Known, CommittedCounts
<1>11. PICK s : s = WithContext(z, t, c)
  OBVIOUS
<1>12. Sound(s, known, started) /\ s \in States
  <2>1. Replaces(c, z.ctx[t])
    <3>1. ctx[t].deschedule => ctx[t].mapped
      BY <1>4, <1>7 DEF Sound, Fit
    <3> QED
      BY <1>7, <1>9, <3>1 DEF Replaces
  <2> QED
    BY <1>1, <1>4, <1>7, <1>9, <1>11, <2>1, ReplaceSound DEF Sound
<1>13. /\ OthersStay(ctx, s.ctx, t) /\ s.ctx[t] = c
       /\ s.ipc = ipc /\ s.sent = sent
  <2>1. s.ipc = ipc /\ s.sent = sent
    BY <1>4, <1>7, <1>9, <1>11, WithContextIs
  <2>2. \A u \in Threads : s.ctx[u] = IF u = t THEN c ELSE ctx[u]
    BY <1>4, <1>7, <1>9, <1>11, WithContextHas
  <2> QED
    BY <1>4, <2>1, <2>2 DEF OthersStay
<1>14. Few(pipe', setup.depth) /\ c.outstanding \in Nat
  <2>1. /\ s.ctx[t].mapped = ctx[t].mapped /\ s.ctx[t].hwc = ctx[t].hwc
        /\ s.ctx[t].outstanding = ctx[t].outstanding - Ones(op)
    BY <1>9, <1>10, <1>13
  <2>2. Few(pipe', setup.depth) /\ s.ctx[t].outstanding \in Nat
    BY <1>4, <1>5, <1>13, <2>1, LeavesTallied
  <2> QED
    BY <1>13, <2>2
<1>15. PICK b : b = (Settles(c, op) /\ op # "switch" /\ ~c.ended)
  OBVIOUS
<1>16. PICK a : /\ a = IF b THEN Allowed(s, t) ELSE s
                /\ \E r \in IF a.error = "" /\ Settles(c, op) /\ c.switch = "committed"
                            THEN ContextSwitchCompleted(
                                    [a EXCEPT !.ctx[t].switch = "none"], t)
                            ELSE {a} :
                      Becomes(r)
  BY <1>2, <1>3, <1>6, <1>8, <1>11, <1>15 DEF Commit, WithContext
<1>17. PICK p : p = IF b /\ ipc[t].state = "consumed" THEN Answered(ipc[t]) ELSE ipc[t]
  OBVIOUS
<1>18. /\ Answers(c, p, sent[t], t)
       /\ setup.depth = 1 =>
            /\ b => ipc[t].state = "consumed"
            /\ (c.pending \/ c.outstanding > 0) => p.state = "consumed"
  BY <1>4, <1>5, <1>8, <1>9, <1>14, <1>15, <1>17, CommitAnswers
\* The answer.
<1>19. /\ a.ctx = s.ctx /\ a.sent = sent
       /\ OthersStay(ipc, a.ipc, t) /\ a.ipc[t] = p
       /\ a.error \in {"", "Packet response error"}
       /\ a.error = "" => Sound(a, known, started)
       /\ setup.depth = 1 => a.error = ""
  <2>1. CASE b
    <3>1. a = Allowed(s, t)
      BY <1>16, <2>1
    <3>2. \/ /\ s.ipc[t].state = "consumed" /\ a.error = "" /\ Sound(a, known, started)
             /\ a.ipc = [s.ipc EXCEPT ![t] = Answered(s.ipc[t])]
             /\ a.ctx = s.ctx /\ a.sent = s.sent
          \/ /\ s.ipc[t].state # "consumed"
             /\ a.error = "Packet response error" /\ Alias(s, a)
      BY ONLY <1>1, <1>4, <1>12, <3>1, AllowedSound
    <3>3. CASE ipc[t].state = "consumed"
      <4>1. /\ a.error = "" /\ Sound(a, known, started)
            /\ a.ipc = [ipc EXCEPT ![t] = Answered(ipc[t])]
            /\ a.ctx = s.ctx /\ a.sent = s.sent
        BY <1>13, <3>2, <3>3
      <4>2. p = Answered(ipc[t])
        BY <1>17, <2>1, <3>3
      <4>3. OthersStay(ipc, a.ipc, t) /\ a.ipc[t] = p
        BY <1>4, <4>1, <4>2, Known DEF OthersStay
      <4> QED
        BY <1>13, <4>1, <4>3
    <3>4. CASE ipc[t].state # "consumed"
      <4>1. /\ a.error = "Packet response error"
            /\ a.ipc = ipc /\ a.ctx = s.ctx /\ a.sent = s.sent
        BY <1>13, <3>2, <3>4 DEF Alias
      <4>2. p = ipc[t]
        BY <1>17, <3>4
      <4>3. setup.depth # 1
        BY <1>18, <2>1, <3>4
      <4> QED
        BY <1>13, <4>1, <4>2, <4>3 DEF OthersStay
    <3> QED
      BY <3>3, <3>4
  <2>2. CASE ~b
    <3>1. a = s /\ p = ipc[t]
      BY <1>16, <1>17, <2>2
    <3>2. s.error = ""
      BY <1>12 DEF Sound, Fit
    <3> QED
      BY <1>12, <1>13, <3>1, <3>2 DEF OthersStay
  <2> QED
    BY <2>1, <2>2
\* A state with the context d after the answer, which has no switch any more if
\* the switch instruction has left.
<1>20. ASSUME NEW x, NEW d, x.ctx[t] = d, OthersStay(ctx, x.ctx, t),
              x.ipc = a.ipc, x.sent = a.sent, x.error \in Errors,
              setup.depth = 1 => x.error = "",
              d.mapped = c.mapped, d.hwc = c.hwc, d.deschedule = c.deschedule,
              d.pending = c.pending, d.outstanding = c.outstanding, d.ended = c.ended,
              setup.depth = 1 =>
                d.switch = IF op = "switch" THEN "none" ELSE ctx[t].switch
       PROVE  Flies(x, pipe')
  <2>1. Homed(x.ctx, pipe') /\ Tallied(x.ctx, pipe')
    <3>1. /\ x.ctx[t].mapped = ctx[t].mapped /\ x.ctx[t].hwc = ctx[t].hwc
          /\ x.ctx[t].outstanding = ctx[t].outstanding - Ones(op)
      BY <1>9, <1>10, <1>20
    <3> QED
      BY <1>4, <1>5, <1>20, <3>1, LeavesTallied
  <2>2. AnswersAll(x.ctx, x.ipc, x.sent)
    <3> SUFFICES ASSUME NEW u \in Threads
                 PROVE  Answers(x.ctx[u], x.ipc[u], x.sent[u], u)
      BY DEF AnswersAll
    <3>1. CASE u = t
      <4>1. Answers(d, p, sent[t], t)
        BY <1>18, <1>20 DEF Answers
      <4> QED
        BY <1>19, <1>20, <3>1, <4>1
    <3>2. CASE u # t
      <4>1. x.ctx[u] = ctx[u] /\ x.ipc[u] = ipc[u] /\ x.sent[u] = sent[u]
        BY <1>19, <1>20, <3>2 DEF OthersStay
      <4> QED
        BY <4>1 DEF FlightInv, AnswersAll
    <3> QED
      BY <3>1, <3>2
  <2>3. ASSUME setup.depth = 1 PROVE Serial(x.ctx, x.ipc, pipe')
    <3>1. /\ d.mapped = ctx[t].mapped /\ d.hwc = ctx[t].hwc
          /\ d.deschedule = ctx[t].deschedule /\ d.pending = ctx[t].pending
          /\ d.switch = IF op = "switch" THEN "none" ELSE ctx[t].switch
          /\ (d.pending \/ d.outstanding > 0) => x.ipc[t].state = "consumed"
      BY <1>9, <1>10, <1>18, <1>19, <1>20, <2>3
    <3>2. d.outstanding > 0 => ctx[t].outstanding > 0
      <4>1. Ones(op) \in {0, 1} /\ d.outstanding = ctx[t].outstanding - Ones(op)
        BY <1>10, <1>20 DEF Ones
      <4>2. ctx[t].outstanding \in Nat
        BY <1>4, CountIsNatural
      <4> QED
        BY <4>1, <4>2
    <3>3. OthersStay(ipc, x.ipc, t)
      BY <1>19, <1>20
    <3> QED
      BY ONLY MapInv, FlightInv, <2>3, h \in Hwcs, <1>4, <1>5, <1>20, <3>1, <3>2, <3>3,
         LeavesSerial
  <2> QED
    BY <1>20, <2>1, <2>2, <2>3 DEF Flies
<1>21. PICK r : /\ Becomes(r)
                /\ r \in IF a.error = "" /\ Settles(c, op) /\ c.switch = "committed"
                         THEN ContextSwitchCompleted(
                                 [a EXCEPT !.ctx[t].switch = "none"], t)
                         ELSE {a}
  BY <1>16
<1>22. CASE a.error = "" /\ Settles(c, op) /\ c.switch = "committed"
  <2>1. r \in ContextSwitchCompleted([a EXCEPT !.ctx[t].switch = "none"], t)
    BY <1>21, <1>22
  <2>2. Sound(a, known, started) /\ a \in States /\ a.ctx[t] = c
    BY <1>13, <1>19, <1>22 DEF Sound
  <2>3. PICK d : d = [c EXCEPT !.switch = "none"]
    OBVIOUS
  <2>4. /\ d \in Contexts /\ d.mapped = c.mapped /\ d.hwc = c.hwc
        /\ d.deschedule = c.deschedule /\ d.runnable = c.runnable /\ d.timed = c.timed
        /\ d.pending = c.pending /\ d.outstanding = c.outstanding
        /\ d.ended = c.ended /\ d.switch = "none"
    BY <1>9, <2>3 DEF Contexts
  <2>5. PICK x : x = WithContext(a, t, d)
    OBVIOUS
  <2>6. [a EXCEPT !.ctx[t].switch = "none"] = x
    BY <2>2, <2>3, <2>5 DEF WithContext
  <2>7. Sound(x, known, started) /\ x \in States /\ Fit(x, NoHole)
    <3>1. a.ctx[t].deschedule => a.ctx[t].mapped
      BY <1>4, <2>2 DEF Sound, Fit
    <3>2. Replaces(d, a.ctx[t])
      BY <2>2, <2>4, <3>1 DEF Replaces
    <3> QED
      BY <1>1, <1>4, <2>2, <2>4, <2>5, <3>2, ReplaceSound DEF Sound
  <2>8. x.ipc = a.ipc /\ x.sent = a.sent /\ x.error = ""
    BY <1>4, <1>22, <2>2, <2>4, <2>5, WithContextIs
  <2>9. x.ctx[t] = d /\ OthersStay(ctx, x.ctx, t)
    <3>1. \A u \in Threads : x.ctx[u] = IF u = t THEN d ELSE a.ctx[u]
      BY <1>4, <2>2, <2>4, <2>5, WithContextHas
    <3> QED
      BY <1>4, <1>13, <1>19, <3>1 DEF OthersStay
  <2>10. ASSUME setup.depth = 1 PROVE op = "switch"
    <3>1. ctx[t].switch \in {"none", "requested", "sent"}
      BY <1>4, <1>5, <2>10, LeavesAlone
    <3> QED
      BY <1>10, <1>22, <3>1
  <2>11. Flies(x, pipe')
    <3>1. x.error \in Errors
      BY <2>8 DEF Errors
    <3>2. setup.depth = 1 => d.switch = IF op = "switch" THEN "none" ELSE ctx[t].switch
      BY <2>4, <2>10
    <3> QED
      BY ONLY <1>20, <2>4, <2>8, <2>9, <3>1, <3>2
  <2>12. CASE ~d.mapped \/ ~d.deschedule
    <3>1. setup.depth # 1
      <4> SUFFICES ASSUME setup.depth = 1 PROVE FALSE
        OBVIOUS
      <4>1. ctx[t].mapped /\ ctx[t].deschedule
        BY <1>4, <1>5, <2>10, LeavesAlone
      <4> QED
        BY <1>9, <2>4, <2>12, <4>1
    <3>2. r = [x EXCEPT !.error = "context is not being descheduled"]
      BY <2>1, <2>6, <2>9, <2>12 DEF ContextSwitchCompleted
    <3>3. /\ r.ctx = x.ctx /\ r.ipc = x.ipc /\ r.sent = x.sent
          /\ r.error = "context is not being descheduled"
      BY <2>7, <3>2 DEF States
    <3>4. Flies(r, pipe')
      BY <2>11, <3>1, <3>3 DEF Flies, Errors
    <3> QED
      BY <1>5, <1>14, <1>21, <3>4, BecomesFlies
  <2>13. CASE d.mapped /\ d.deschedule
    <3>1. r \in ContextSwitchCompleted(x, t)
      BY <2>1, <2>6
    <3>2. /\ x.ctx[t].mapped /\ x.ctx[t].deschedule
          /\ x.ctx[t].outstanding = 0 /\ x.ctx[t].switch = "none"
      BY <1>22, <2>4, <2>9, <2>13 DEF Settles
    <3>3. r \in States /\ Fit(r, NoHole) /\ Follows(x, r)
      BY <1>4, <2>7, <3>1, <3>2, SwitchFollows
    <3>4. pipe' \in Pipes
      BY CommitKeeps DEF MapInv, PipeKnown, Pipes
    <3>5. Flies(r, pipe')
      BY <2>7, <2>11, <3>3, <3>4, FollowsFlies
    <3> QED
      BY <1>5, <1>14, <1>21, <3>5, BecomesFlies
  <2> QED
    BY <2>12, <2>13
<1>23. CASE ~(a.error = "" /\ Settles(c, op) /\ c.switch = "committed")
  <2>1. r = a
    BY <1>21, <1>23
  <2>2. ASSUME setup.depth = 1 PROVE op # "switch" /\ c.switch = ctx[t].switch
    <3> SUFFICES ASSUME op = "switch" PROVE FALSE
      BY <1>10
    <3>1. ctx[t].outstanding = 0
      BY <1>4, <1>5, <2>2, LeavesAlone
    <3>2. c.outstanding = 0
      BY <1>10, <3>1 DEF Ones
    <3>3. Settles(c, op) /\ c.switch = "committed"
      BY <1>10, <3>2 DEF Settles
    <3> QED
      BY <1>19, <1>23, <2>2, <3>3
  <2>3. a.ctx[t] = c /\ OthersStay(ctx, a.ctx, t) /\ a.error \in Errors
    BY <1>13, <1>19 DEF Errors
  <2>4. setup.depth = 1 => c.switch = IF op = "switch" THEN "none" ELSE ctx[t].switch
    BY <2>2
  <2>5. Flies(a, pipe')
    BY ONLY <1>19, <1>20, <2>3, <2>4
  <2> QED
    BY <1>5, <1>14, <1>21, <2>1, <2>5, BecomesFlies
<1> QED
  BY <1>22, <1>23

-----------------------------------------------------------------------------
(* What the clock does to what is in flight.                               *)

LEMMA TimedWaitFollows ==
    ASSUME NEW s \in States, NEW r, r = UpdateTimedWait(s)
    PROVE  Follows(s, r)
<1>1. \A u \in Threads : s.ctx[u] \in Contexts
  BY StateMembers
<1> DEFINE Ticked(u) == [s.ctx[u] EXCEPT !.left = @ - 1, !.timed = s.ctx[u].left > 1]
           Due(u) == s.ctx[u].timed /\ \E i \in Occupied(s) : s.list[i] = u
<1>2. ASSUME NEW u \in Threads PROVE Persists(s.ctx[u], Ticked(u))
  <2>1. s.ctx[u] \in Contexts
    BY <1>1
  <2> QED
    BY <2>1 DEF Persists, Kept, Contexts
<1>3. PICK f : f = [u \in Threads |-> IF Due(u) THEN Ticked(u) ELSE s.ctx[u]]
  OBVIOUS
<1>4. r = [s EXCEPT !.ctx = f]
  <2>1. r = [s EXCEPT !.ctx = [u \in Threads |-> IF Due(u) THEN Ticked(u) ELSE s.ctx[u]]]
    BY DEF UpdateTimedWait
  <2> HIDE DEF Ticked, Due
  <2> QED
    BY <1>3, <2>1
<1> HIDE DEF Ticked, Due
<1>5. r.ctx = f /\ r.ipc = s.ipc /\ r.sent = s.sent
  BY <1>4 DEF States
<1>6. \A u \in Threads : Persists(s.ctx[u], r.ctx[u])
  BY <1>2, <1>3, <1>5 DEF Persists, Kept
<1>7. Delivers(s, r)
  BY <1>5, DeliversSame
<1> QED
  BY <1>6, <1>7, PersistsFollow

LEMMA PolledFollows ==
    ASSUME Counted, NEW s, Sound(s, known, started), NEW due, NEW r \in Polled(s, due)
    PROVE  Follows(s, r)
<1>1. known \in Nat /\ started \in Nat /\ known <= started /\ started <= NThreads
  BY SetupTyped DEF Counted
<1>2. PICK p \in IF "resumed" \in due THEN Then({s}, CheckStreamResumption) ELSE {s} :
         r \in IF "new" \in due THEN CheckForNewStream(p) ELSE {p}
  BY DEF Polled, Then
<1>3. Sound(p, known, started) /\ Delivers(s, p)
      /\ \A u \in Threads : Persists(s.ctx[u], p.ctx[u])
  <2>1. CASE "resumed" \in due
    <3>1. p \in CheckStreamResumption(s)
      BY <1>2, <2>1 DEF Then
    <3>2. s \in States /\ Fit(s, NoHole) /\ Conserves(s, {})
      BY DEF Sound
    <3>3. Decided(s, p, NoHole)
      BY <3>1, <3>2, ResumptionFits
    <3>4. Delivers(s, p) /\ \A u \in Threads : Persists(s.ctx[u], p.ctx[u])
      BY <3>3 DEF Decided, Keeps
    <3>5. p \in Polled(s, {"resumed"})
      <4>1. "resumed" \in {"resumed"} /\ "new" \notin {"resumed"}
        OBVIOUS
      <4> QED
        BY <3>1, <4>1 DEF Polled, Then
    <3>6. Sound(p, IF "new" \in {"resumed"} THEN started ELSE known, started)
      BY <3>5, PolledSound
    <3>7. Sound(p, known, started)
      BY <3>6
    <3> QED
      BY <3>4, <3>7
  <2>2. CASE "resumed" \notin due
    <3>1. p = s
      BY <1>2, <2>2
    <3>2. Delivers(s, p) /\ \A u \in Threads : Persists(s.ctx[u], p.ctx[u])
      BY <3>1, DeliversSame DEF Persists, Kept
    <3> QED
      BY <3>1, <3>2
  <2> QED
    BY <2>1, <2>2
<1>4. Delivers(p, r) /\ \A u \in Threads : Persists(p.ctx[u], r.ctx[u])
  <2>1. CASE "new" \in due
    <3>1. r \in CheckForNewStream(p)
      BY <1>2, <2>1
    <3>2. /\ p \in States /\ Fit(p, NoHole) /\ Conserves(p, {})
          /\ Untouched(p, known) /\ FirstEvents(p, known, started)
      BY <1>3 DEF Sound
    <3>3. Extended(p, r)
      BY <1>1, <3>1, <3>2, NewStreamsFit
    <3> QED
      BY <3>3 DEF Extended
  <2>2. CASE "new" \notin due
    <3>1. r = p
      BY <1>2, <2>2
    <3> QED
      BY <3>1, DeliversSame DEF Persists, Kept
  <2> QED
    BY <2>1, <2>2
<1>5. Delivers(s, r)
  BY <1>3, <1>4, DeliversTransitive
<1>6. \A u \in Threads : Persists(s.ctx[u], r.ctx[u])
  BY <1>3, <1>4, PersistsTransitive
<1> QED
  BY <1>5, <1>6, PersistsFollow

LEMMA IntervalTimerFlies ==
    ASSUME NEW q \in Pipes, NEW s, NEW n, NEW m, Sound(s, n, m), Flies(s, q),
           NEW r, r = IntervalTimer(s)
    PROVE  Flies(r, q)
<1>1. s \in States /\ Fit(s, NoHole) /\ Sound(r, n, m)
  BY IntervalTimerSound DEF Sound
<1>2. /\ Seated(s.ctx, s.run) /\ s.ctx \in [Threads -> Contexts]
      /\ Seated(r.ctx, r.run)
  BY <1>1, FitSeats DEF Sound
<1> DEFINE Asked(u) == StartDeschedule([s.ctx[u] EXCEPT !.switch = "requested"])
           Due(u) == (\E h \in Hwcs : s.run[h] = u) /\ ~s.ctx[u].deschedule
<1>3. ASSUME NEW u \in Threads
      PROVE  /\ Asked(u).mapped = s.ctx[u].mapped /\ Asked(u).hwc = s.ctx[u].hwc
             /\ Asked(u).outstanding = s.ctx[u].outstanding
             /\ Asked(u).pending = s.ctx[u].pending /\ Asked(u).ended = s.ctx[u].ended
             /\ Asked(u).switch = "requested" /\ Asked(u).deschedule
  BY <1>2 DEF StartDeschedule, Contexts
<1>4. PICK f : f = [u \in Threads |-> IF Due(u) THEN Asked(u) ELSE s.ctx[u]]
  OBVIOUS
<1>5. r = [s EXCEPT !.ctx = f]
  BY <1>4 DEF IntervalTimer
<1>6. r.ctx = f /\ r.ipc = s.ipc /\ r.sent = s.sent /\ r.error = s.error
  BY <1>1, <1>5 DEF States
<1>7. ASSUME NEW u \in Threads, Due(u) PROVE s.ctx[u].mapped
  <2>1. PICK h \in Hwcs : s.run[h] = u
    BY <1>7
  <2>2. h # NoHole /\ u # None
    BY Sizes DEF NoHole, Hwcs
  <2> QED
    BY <1>1, <2>1, <2>2 DEF Fit
<1> HIDE DEF Asked
<1>8. ASSUME NEW u \in Threads
      PROVE  /\ r.ctx[u].mapped = s.ctx[u].mapped /\ r.ctx[u].hwc = s.ctx[u].hwc
             /\ r.ctx[u].outstanding = s.ctx[u].outstanding
             /\ r.ctx[u].pending = s.ctx[u].pending /\ r.ctx[u].ended = s.ctx[u].ended
             /\ \/ /\ r.ctx[u].switch = s.ctx[u].switch
                   /\ r.ctx[u].deschedule = s.ctx[u].deschedule
                \/ /\ r.ctx[u].switch = "requested" /\ r.ctx[u].deschedule
                   /\ s.ctx[u].mapped /\ ~s.ctx[u].deschedule
  <2>1. CASE Due(u)
    <3>1. r.ctx[u] = Asked(u) /\ s.ctx[u].mapped /\ ~s.ctx[u].deschedule
      BY <1>4, <1>6, <1>7, <2>1
    <3> QED
      BY <1>3, <3>1
  <2>2. CASE ~Due(u)
    <3>1. r.ctx[u] = s.ctx[u]
      BY <1>4, <1>6, <2>2
    <3> QED
      BY <3>1
  <2> QED
    BY <2>1, <2>2
<1> HIDE DEF Due
<1>9. Homed(r.ctx, q) /\ Tallied(r.ctx, q)
  <2>1. Homed(s.ctx, q) /\ Tallied(s.ctx, q)
    BY DEF Flies
  <2>2. ASSUME NEW u \in Threads
        PROVE  /\ r.ctx[u].outstanding = s.ctx[u].outstanding
               /\ s.ctx[u].outstanding # 0 =>
                    r.ctx[u].mapped /\ r.ctx[u].hwc = s.ctx[u].hwc
    <3>1. s.ctx[u].outstanding # 0 => s.ctx[u].mapped
      BY <2>1 DEF Tallied
    <3> QED
      BY <1>8, <3>1
  <2> QED
    BY ONLY q \in Pipes, <1>2, <2>1, <2>2, DecisionFlies
<1>10. AnswersAll(r.ctx, r.ipc, r.sent)
  <2> SUFFICES ASSUME NEW u \in Threads
               PROVE  Answers(r.ctx[u], r.ipc[u], r.sent[u], u)
    BY DEF AnswersAll
  <2>1. Answers(s.ctx[u], s.ipc[u], s.sent[u], u)
    BY DEF Flies, AnswersAll
  <2> QED
    BY <1>6, <1>8, <2>1 DEF Answers
<1>11. ASSUME setup.depth = 1 PROVE Serial(r.ctx, r.ipc, q)
  <2>1. Serial(s.ctx, s.ipc, q)
    BY <1>11 DEF Flies
  <2>2. ASSUME NEW u \in Threads PROVE Quiet(r.ctx[u], r.ipc[u], q)
    <3>1. Quiet(s.ctx[u], s.ipc[u], q) /\ r.ipc = s.ipc
      BY <1>6, <2>1 DEF Serial
    <3>2. \/ /\ r.ctx[u].switch = s.ctx[u].switch
             /\ r.ctx[u].deschedule = s.ctx[u].deschedule
          \/ /\ r.ctx[u].switch = "requested" /\ r.ctx[u].deschedule
             /\ s.ctx[u].mapped /\ ~s.ctx[u].deschedule
      BY <1>8
    <3>3. /\ r.ctx[u].mapped = s.ctx[u].mapped /\ r.ctx[u].hwc = s.ctx[u].hwc
          /\ r.ctx[u].outstanding = s.ctx[u].outstanding
          /\ r.ctx[u].pending = s.ctx[u].pending
      BY <1>8
    <3>4. (r.ctx[u].pending \/ r.ctx[u].outstanding > 0) => r.ipc[u].state = "consumed"
      BY <3>1, <3>3 DEF Quiet
    <3>5. r.ctx[u].outstanding > 0 => ~r.ctx[u].pending
      BY <3>1, <3>3 DEF Quiet
    <3>6. /\ r.ctx[u].switch \in {"none", "requested", "sent"}
          /\ r.ctx[u].switch # "none" => r.ctx[u].mapped /\ r.ctx[u].deschedule
          /\ r.ctx[u].switch = "sent" => Carries(q, r.ctx[u].hwc)
      BY <3>1, <3>2, <3>3 DEF Quiet
    <3> QED
      BY <3>4, <3>5, <3>6 DEF Quiet
  <2>3. ASSUME NEW k \in Hwcs, Carries(q, k)
        PROVE  /\ r.ctx[q[k][1].t].mapped /\ r.ctx[q[k][1].t].hwc = k
               /\ r.ctx[q[k][1].t].switch = "sent"
    <3>1. PICK u : u = q[k][1].t
      OBVIOUS
    <3>2. s.ctx[u].mapped /\ s.ctx[u].hwc = k /\ s.ctx[u].switch = "sent"
      BY <2>1, <2>3, <3>1 DEF Serial, SwitchesSent
    <3>3. u \in Threads
      <4>1. q[k] \in Seq(Entries) /\ q[k] # <<>>
        BY <2>3 DEF Pipes, Carries
      <4>2. q[k][1] \in Entries
        BY <4>1
      <4> QED
        BY <3>1, <4>2 DEF Entries
    <3>4. s.ctx[u].deschedule
      BY <2>1, <3>2, <3>3 DEF Serial, Quiet
    <3> QED
      BY <1>8, <3>1, <3>2, <3>3, <3>4
  <2> QED
    BY <2>2, <2>3 DEF Serial, SwitchesSent
<1>12. r.error \in Errors /\ (setup.depth = 1 => r.error = "")
  BY <1>6 DEF Flies
<1> QED
  BY <1>9, <1>10, <1>11, <1>12 DEF Flies

LEMMA ClockFlies ==
    ASSUME MapInv, FlightInv, NEW due \in Polls, Clock(due)
    PROVE  FlightInv'
<1>1. PICK z : z = State /\ Sound(z, known, started)
  BY DEF MapInv
<1>2. PICK w : w = UpdateTimedWait(z)
  OBVIOUS
<1>3. Sound(w, known, started) /\ Counted
  BY <1>1, <1>2, TimedWaitSound DEF MapInv
<1>4. PICK s \in Polled(w, due) :
         \E r \in {IF "timer" \in due THEN IntervalTimer(s) ELSE s} : Becomes(r)
  BY <1>1, <1>2 DEF Clock
<1>5. PICK r : r = (IF "timer" \in due THEN IntervalTimer(s) ELSE s) /\ Becomes(r)
  BY <1>4
<1>6. PICK n : n = IF "new" \in due THEN started ELSE known
  OBVIOUS
<1>7. Sound(s, n, started)
  BY <1>3, <1>6, PolledSound
<1>8. pipe \in Pipes
  BY SeatedHere
<1>9. Flies(z, pipe)
  <2>1. z.ctx = ctx /\ z.ipc = ipc /\ z.sent = sent /\ z.error = ""
    BY <1>1, StateIs
  <2> QED
    BY <2>1 DEF Flies, FlightInv, Errors
<1>10. /\ z \in States /\ Fit(z, NoHole) /\ w \in States /\ Fit(w, NoHole)
       /\ s \in States /\ Fit(s, NoHole)
  BY <1>1, <1>3, <1>7 DEF Sound
<1>11. Flies(w, pipe)
  BY <1>2, <1>8, <1>9, <1>10, TimedWaitFollows, FollowsFlies
<1>12. Flies(s, pipe)
  BY <1>3, <1>4, <1>8, <1>10, <1>11, PolledFollows, FollowsFlies
<1>13. Flies(r, pipe)
  <2>1. CASE "timer" \in due
    <3>1. r = IntervalTimer(s)
      BY <1>5, <2>1
    <3> QED
      BY <1>7, <1>8, <1>12, <3>1, IntervalTimerFlies
  <2>2. CASE "timer" \notin due
    BY <1>5, <1>12, <2>2
  <2> QED
    BY <2>1, <2>2
<1>14. pipe' = pipe /\ setup' = setup /\ asking' = None
  BY DEF Clock, Idle
<1>15. timers' \in 0 .. MaxTimers
  <2>1. timers \in 0 .. MaxTimers /\ MaxTimers \in Nat
    BY MingoAssumption DEF FlightInv
  <2>2. \/ timers' = timers
        \/ timers < MaxTimers /\ timers' = timers + 1
    BY DEF Clock
  <2> QED
    BY <2>1, <2>2
<1>16. Few(pipe', setup.depth)
  BY <1>14 DEF FlightInv
<1> QED
  BY <1>5, <1>13, <1>14, <1>15, <1>16, BecomesFlies

-----------------------------------------------------------------------------
(* The theorems of the handshake.                                          *)

LEMMA NextFlies ==
    ASSUME PromptStart, MapInv, FlightInv, [Next]_vars PROVE FlightInv'
<1>1. CASE UNCHANGED vars
  BY <1>1 DEF vars, FlightInv, AskingRoom
<1>2. CASE Next
  BY <1>1, <1>2, StartFlies, SendFlies, ProceedFlies, FetchSwitchFlies,
     FetchBufferedFlies, FetchAsksFlies, CommitFlies, FetchTimesOutFlies,
     FetchReceivesFlies, ClockFlies DEF Next, Stopped
<1> QED
  BY <1>1, <1>2

\* FlightInv is an invariant: what a software context counts is what of it is in
\* the pipeline of its hardware context, through Fetch, Commit, the interval
\* timer and the decisions in between, and, when the model holds one operation at
\* a time, the answers wait for the commits.
THEOREM FlightInvariant ==
    ASSUME PromptStart PROVE Spec => []FlightInv
<1>1. Init => MapInv /\ FlightInv
  BY InitMap, InitFlies
<1>2. MapInv /\ FlightInv /\ [Next]_vars => MapInv' /\ FlightInv'
  BY NextKeeps, NextFlies
<1> QED
  BY <1>1, <1>2, PTL DEF Spec

LEMMA FlightIsAnswered ==
    ASSUME FlightInv PROVE AnsweredByCommit
<1>1. ASSUME NEW t \in Threads
      PROVE  /\ ipc[t].state = "consumed" => (ctx[t].pending \/ ctx[t].outstanding > 0)
             /\ setup.depth = 1 /\ (ctx[t].pending \/ ctx[t].outstanding > 0)
                  => ipc[t].state = "consumed"
  BY DEF FlightInv, AnswersAll, Answers, Serial, Quiet
<1> QED
  BY <1>1 DEF AnsweredByCommit

\* AnsweredByCommit: AllowSoftwareThreadProgress leaves no thread without its
\* answer, for every number of operations in flight, and with one in flight the
\* answer never overtakes the commit.
THEOREM AnswersHaveCommits ==
    ASSUME PromptStart PROVE Spec => []AnsweredByCommit
<1>1. FlightInv => AnsweredByCommit
  BY FlightIsAnswered
<1> QED
  BY <1>1, FlightInvariant, PTL

LEMMA FlightIsSound ==
    ASSUME MapInv, FlightInv PROVE SchedulerSound
<1>1. /\ Counted /\ AskingMapped /\ setup.depth \in Nat /\ setup.threads \in Nat
      /\ State \in States
  BY SetupTyped DEF MapInv, Sound
<1>2. /\ list \in [Slots -> Threads \cup {None}] /\ nextSWCToTry \in Slots
      /\ run \in [Hwcs -> Threads \cup {None}]
  BY <1>1, StateMembers, StateIs
<1>3. ASSUME NEW t \in Threads
      PROVE  /\ ipc[t] \in [state : {"empty", "ready", "consumed", "ack", "dead"},
                            hint : BOOLEAN, pseudo : BOOLEAN]
             /\ sent[t] \in 0 .. Len(Program[t])
             /\ ctx[t].hwc \in Hwcs /\ ctx[t].outstanding \in 0 .. setup.depth
             /\ ctx[t].switch \in {"none", "requested", "sent", "committed"}
  <2>1. ipc[t] \in Packets /\ ctx[t] \in Contexts
    BY Known
  <2>2. sent[t] \in 0 .. Len(Program[t])
    <3>1. sent[t] \in Nat /\ sent[t] <= Len(Program[t]) /\ Len(Program[t]) \in Nat
      BY PacketsKnown
    <3> QED
      BY <3>1
  <2>3. ctx[t].outstanding \in 0 .. setup.depth
    <3>1. CASE ctx[t].mapped
      <4>1. PICK h \in Hwcs : h = ctx[t].hwc /\ pipe[h] \in Seq(Entries)
        BY <3>1, SeatedHere DEF Seated, Pipes
      <4>2. ctx[t].outstanding = Cardinality(Ops(pipe[h]))
        BY <3>1, <4>1 DEF FlightInv, Tallied
      <4>3. PICK k \in Nat : k = Cardinality(Ops(pipe[h])) /\ k <= Len(pipe[h])
        BY <4>1, OpsFinite
      <4>4. PICK n \in Nat : n = Len(pipe[h]) /\ n <= setup.depth
        <5>1. Len(pipe[h]) \in Nat
          BY ONLY <4>1
        <5>2. Few(pipe, setup.depth)
          BY DEF FlightInv
        <5>3. Len(pipe[h]) <= setup.depth
          BY ONLY <5>2, h \in Hwcs DEF Few
        <5> QED
          BY ONLY <5>1, <5>3
      <4>5. PICK d \in Nat : d = setup.depth
        BY <1>1
      <4>6. k <= n /\ n <= d
        BY <4>3, <4>4, <4>5
      <4>7. k \in 0 .. d
        BY ONLY <4>6, k \in Nat, n \in Nat, d \in Nat
      <4> QED
        BY <4>2, <4>3, <4>5, <4>7
    <3>2. CASE ~ctx[t].mapped
      <4>1. ctx[t].outstanding = 0
        BY <3>2 DEF FlightInv, Tallied
      <4> QED
        BY <1>1, <4>1
    <3> QED
      BY <3>1, <3>2
  <2>4. ctx[t].hwc \in Hwcs /\ ctx[t].switch \in {"none", "requested", "sent", "committed"}
    BY <2>1 DEF Contexts
  <2> QED
    BY <2>1, <2>2, <2>3, <2>4 DEF Packets
<1>4. started \in 0 .. setup.threads /\ known \in 0 .. started
  BY <1>1 DEF Counted
<1>5. /\ setup \in Setups /\ asking \in Threads \cup {None} /\ timers \in 0 .. MaxTimers
      /\ \A h \in Hwcs : Len(pipe[h]) <= setup.depth
  BY <1>1 DEF Counted, AskingMapped, FlightInv, Few
<1>6. TypeOK
  BY <1>2, <1>3, <1>4, <1>5 DEF TypeOK
<1>7. error # "not fit to be scheduled" /\ (setup.depth = 1 => error = "")
  BY DEF FlightInv, Errors
<1> QED
  BY <1>6, <1>7 DEF SchedulerSound

\* SchedulerSound: the state keeps its type, no context is run that
\* RunSoftwareContext finds unfit, and, when the model holds one operation at a
\* time, neither AllowSoftwareThreadProgress nor ContextSwitchCompleted stops the
\* simulator, whenever events and commits arrive.
THEOREM SchedulerIsSound ==
    ASSUME PromptStart PROVE Spec => []SchedulerSound
<1>1. MapInv /\ FlightInv => SchedulerSound
  BY FlightIsSound
<1> QED
  BY <1>1, MapInvariant, FlightInvariant, PTL
=============================================================================
