-------------------------- MODULE PiperQueueProofs --------------------------
(***************************************************************************)
(* Proofs about the synthesis queue of PiperQueue.tla, for every number of *)
(* sentences, files and cores and for every fault.                         *)
(***************************************************************************)
EXTENDS PiperQueue, SequenceTheorems, WellFoundedInduction, TLAPS

\* What the counting of slots needs to know of the state.
Counting ==
  /\ slots \in Nat
  /\ \E S : polls \in Seq(S)
  /\ SlotsHaveOwners

\* A scheduled poll makes the list of polls one longer.
LEMMA AppendCounts ==
  ASSUME NEW s, NEW e, \E S : s \in Seq(S)
  PROVE  /\ \E S : Append(s, e) \in Seq(S)
         /\ Len(s) \in Nat
         /\ Len(Append(s, e)) = Len(s) + 1
<1>1. PICK S : s \in Seq(S)
  OBVIOUS
<1>2. s \in Seq(S \union {e}) /\ e \in S \union {e}
  BY <1>1
<1>3. Append(s, e) \in Seq(S \union {e}) /\ Len(Append(s, e)) = Len(s) + 1
  BY <1>2, AppendProperties
<1> QED
  BY <1>1, <1>3

\* A poll that ends makes it one shorter.
LEMMA RemoveCounts ==
  ASSUME NEW s, \E S : s \in Seq(S), NEW i \in 1..Len(s)
  PROVE  /\ \E S : RemoveAt(s, i) \in Seq(S)
         /\ Len(s) \in Nat
         /\ Len(RemoveAt(s, i)) = Len(s) - 1
<1>1. PICK S : s \in Seq(S)
  OBVIOUS
<1>2. Len(s) \in Nat
  BY <1>1
<1> DEFINE before == SubSeq(s, 1, i - 1)
           after == SubSeq(s, i + 1, Len(s))
<1>3. before \in Seq(S) /\ Len(before) = i - 1
  BY <1>1, <1>2, SubSeqProperties
<1>4. after \in Seq(S) /\ Len(after) = Len(s) - i
  BY <1>1, <1>2, SubSeqProperties
<1>5. before \o after \in Seq(S) /\ Len(before \o after) = Len(before) + Len(after)
  BY <1>3, <1>4, ConcatProperties
<1>6. RemoveAt(s, i) = before \o after
  BY DEF RemoveAt
<1>7. (i - 1) + (Len(s) - i) = Len(s) - 1
  BY <1>2
<1> HIDE DEF before, after
<1>8. Len(RemoveAt(s, i)) = Len(s) - 1
  BY <1>3, <1>4, <1>5, <1>6, <1>7
<1> QED
  BY <1>1, <1>2, <1>5, <1>6, <1>8

\* Freeing floors at zero: at most one slot less, never a negative number.
LEMMA FreedCounts ==
  ASSUME slots \in Nat
  PROVE  /\ Freed \in Nat /\ Freed <= slots
         /\ \A n \in Nat : slots <= n /\ n > 0 => Freed <= n - 1
  BY DEF Freed

\* Every step of the queue keeps the count.
LEMMA CountingStep ==
  ASSUME Counting, [Next]_vars
  PROVE  Counting'
<1> USE DEF Counting, SlotsHaveOwners
<1>0. Len(polls) \in Nat
  BY LenProperties
<1>1. ASSUME UNCHANGED <<slots, polls>>
      PROVE  Counting'
  BY <1>1
<1>2. ASSUME slots' = 0, UNCHANGED polls
      PROVE  Counting'
  BY <1>0, <1>2
<1>3. ASSUME slots' = Freed, UNCHANGED polls
      PROVE  Counting'
  BY <1>0, <1>3, FreedCounts
<1>4. ASSUME NEW e, polls' = Append(polls, e), slots' = slots + 1 \/ slots' = 1
      PROVE  Counting'
  <2>1. (\E S : polls' \in Seq(S)) /\ Len(polls') = Len(polls) + 1
    BY <1>4, AppendCounts
  <2>2. slots' \in Nat /\ slots' <= Len(polls) + 1
    BY <1>0, <1>4
  <2> QED
    BY <2>1, <2>2
<1>5. ASSUME NEW i \in 1..Len(polls), PollEnds(i)
      PROVE  Counting'
  <2>1. polls' = RemoveAt(polls, i) /\ slots' = Freed
    BY <1>5 DEF PollEnds
  <2>2. (\E S : polls' \in Seq(S)) /\ Len(polls') = Len(polls) - 1
    BY <2>1, RemoveCounts
  <2>3. slots' \in Nat /\ slots' <= Len(polls) - 1
    BY <1>0, <2>1, FreedCounts
  <2> QED
    BY <2>2, <2>3
<1>6. CASE Caller
  <2>1. ASSUME NEW t \in Texts, enqueue(t) \/ prioritize(t)
        PROVE  Counting'
    BY <1>1, <2>1 DEF enqueue, prioritize
  <2>2. ASSUME NEW t \in Texts, peek(t) \/ useReady(t)
        PROVE  Counting'
    BY <1>1, <1>3, <2>2 DEF peek, useReady
  <2>3. CASE kick \/ killOrphanProcesses \/ unabandon
    BY <1>1, <2>3 DEF kick, killOrphanProcesses, unabandon
  <2>4. ASSUME NEW f \in Files, played(f)
        PROVE  Counting'
    BY <1>1, <2>4 DEF played
  <2>5. CASE cleanQueue \/ stopServers
    BY <1>2, <2>5 DEF cleanQueue, stopServers, EmptyQueue
  <2>6. CASE setRate \/ shutdown \/ abandon
    BY <1>2, <2>6 DEF setRate, shutdown, abandon, StopAndClean, EmptyQueue
  <2> QED
    BY <1>6, <2>1, <2>2, <2>3, <2>4, <2>5, <2>6 DEF Caller
<1>7. CASE Launch
  <2>1. CASE LaunchRefused \/ startServers \/ LaunchNothing
    BY <1>1, <2>1 DEF LaunchRefused, startServers, LaunchNothing, Returns
  <2>2. CASE LaunchFallback
    BY <1>4, <2>2 DEF LaunchFallback, LaunchProcess
  <2>3. CASE LaunchBatch
    BY <1>4, <2>3 DEF LaunchBatch
  <2>4. CASE LaunchAfterFailure
    BY <1>4, <2>4 DEF LaunchAfterFailure, LaunchProcess
  <2> QED
    BY <1>7, <2>1, <2>2, <2>3, <2>4 DEF Launch
<1>8. CASE PollStep
  <2>1. PICK i \in 1..Len(polls) : PollAt(i)
    BY <1>8 DEF PollStep
  <2>2. PollEnds(i)
    BY <2>1 DEF PollAt, PollGone, PollTimeout, PollServer, PollProcess
  <2> QED
    BY <1>5, <2>2
<1>9. CASE Check
  BY <1>1, <1>9 DEF Check, ServersReady, StartTimeout
<1>10. CASE Work
  BY <1>1, <1>10 DEF Work, ServerUp, ServerDies, ServerDone, ProcessDone, World
<1>11. CASE UNCHANGED vars
  BY <1>1, <1>11 DEF vars
<1> QED
  BY <1>6, <1>7, <1>8, <1>9, <1>10, <1>11 DEF Next

\* Whatever stops, cleans, rescues and settles early, every slot that counts
\* as busy has a scheduled poll that will free it, so launchNext is never
\* refused for good.
THEOREM SlotsOwned == Spec => []SlotsHaveOwners
<1>1. Init => Counting
  <2> SUFFICES ASSUME Init PROVE Counting
    OBVIOUS
  <2>1. polls = <<>> /\ slots = 0
    BY DEF Init
  <2>2. polls \in Seq({}) /\ Len(polls) = 0
    BY <2>1
  <2> QED
    BY <2>1, <2>2 DEF Counting, SlotsHaveOwners
<1>2. Counting /\ [Next]_vars => Counting'
  BY CountingStep
<1>3. Counting => SlotsHaveOwners
  BY DEF Counting
<1> QED
  BY <1>1, <1>2, <1>3, PTL DEF Spec

-----------------------------------------------------------------------------
(* Sequences: an element is taken out, and what the others become.         *)

\* A set of naturals that is not empty has a least element, which is its Min.
LEMMA LeastNat ==
  ASSUME NEW T, T \subseteq Nat, T # {}
  PROVE  Min(T) \in T
<1> DEFINE R == OpToRel(<, Nat)
<1>1. IsWellFoundedOn(R, Nat)
  BY NatLessThanWellFounded
<1>2. \A x, y \in Nat : <<x, y>> \in R <=> x < y
  BY DEF OpToRel
<1> HIDE DEF R
<1>3. PICK x \in T : \A y \in T : ~ (<<y, x>> \in R)
  BY <1>1, WFMin
<1>4. \A y \in T : x <= y
  <2> SUFFICES ASSUME NEW y \in T PROVE x <= y
    OBVIOUS
  <2>1. x \in Nat /\ y \in Nat /\ ~ (y < x)
    BY <1>2, <1>3
  <2> QED
    BY <2>1
<1>5. \E z \in T : \A y \in T : z =< y
  BY <1>4
<1> QED
  BY <1>5 DEF Min

\* Where the elements of a sequence are after one was taken out.
LEMMA RemoveAtProperties ==
  ASSUME NEW S, NEW s \in Seq(S), NEW i \in 1..Len(s)
  PROVE  /\ RemoveAt(s, i) \in Seq(S)
         /\ Len(RemoveAt(s, i)) = Len(s) - 1
         /\ \A j \in 1..Len(s) - 1 :
              RemoveAt(s, i)[j] = IF j < i THEN s[j] ELSE s[j + 1]
<1>1. Len(s) \in Nat /\ \A j \in 1..Len(s) : s[j] \in S
  BY LenProperties, ElementOfSeq
<1> DEFINE before == SubSeq(s, 1, i - 1)
           after == SubSeq(s, i + 1, Len(s))
<1>2. /\ before \in Seq(S) /\ Len(before) = i - 1
      /\ \A j \in 1..i - 1 : before[j] = s[j]
  <2>1. \A j \in 1..i - 1 : s[j] \in S
    BY <1>1
  <2>2. /\ before \in Seq(S)
        /\ Len(before) = IF 1 <= i - 1 THEN (i - 1) - 1 + 1 ELSE 0
        /\ \A j \in 1..(i - 1) - 1 + 1 : before[j] = s[1 + j - 1]
    BY <1>1, <2>1, SubSeqProperties
  <2> HIDE DEF before
  <2> QED
    BY <1>1, <2>2
<1>3. /\ after \in Seq(S) /\ Len(after) = Len(s) - i
      /\ \A j \in 1..Len(s) - i : after[j] = s[i + j]
  <2>1. \A j \in i + 1..Len(s) : s[j] \in S
    BY <1>1
  <2>2. /\ after \in Seq(S)
        /\ Len(after) = IF i + 1 <= Len(s) THEN Len(s) - (i + 1) + 1 ELSE 0
        /\ \A j \in 1..Len(s) - (i + 1) + 1 : after[j] = s[(i + 1) + j - 1]
    BY <1>1, <2>1, SubSeqProperties
  <2> HIDE DEF after
  <2>3. \A j \in 1..Len(s) - i : (i + 1) + j - 1 = i + j
    BY <1>1
  <2>4. Len(s) - (i + 1) + 1 = Len(s) - i
    BY <1>1
  <2>5. \A j \in 1..Len(s) - i : after[j] = s[i + j]
    BY <2>2, <2>3, <2>4
  <2>6. Len(after) = Len(s) - i
    BY <1>1, <2>2
  <2> QED
    BY <2>2, <2>5, <2>6
<1>4. /\ before \o after \in Seq(S)
      /\ Len(before \o after) = Len(before) + Len(after)
      /\ \A j \in 1..Len(before) + Len(after) : (before \o after)[j] =
           IF j <= Len(before) THEN before[j] ELSE after[j - Len(before)]
  BY <1>2, <1>3, ConcatProperties
<1>5. RemoveAt(s, i) = before \o after
  BY DEF RemoveAt
<1> HIDE DEF before, after
<1>6. Len(RemoveAt(s, i)) = Len(s) - 1
  <2>1. i \in Nat /\ (i - 1) + (Len(s) - i) = Len(s) - 1
    BY <1>1
  <2> QED
    BY <1>2, <1>3, <1>4, <1>5, <2>1
<1>7. ASSUME NEW j \in 1..Len(s) - 1
      PROVE  RemoveAt(s, i)[j] = IF j < i THEN s[j] ELSE s[j + 1]
  <2>1. j \in 1..Len(before) + Len(after)
    BY <1>1, <1>2, <1>3
  <2>2. CASE j < i
    BY <1>1, <1>2, <1>4, <1>5, <2>1, <2>2
  <2>3. CASE ~ (j < i)
    <3>1. ~ (j <= Len(before)) /\ j - Len(before) = j - i + 1
      BY <1>1, <1>2, <2>3
    <3>2. j - i + 1 \in 1..Len(s) - i /\ i + (j - i + 1) = j + 1
      BY <1>1, <2>3
    <3> QED
      BY <1>3, <1>4, <1>5, <2>1, <2>3, <3>1, <3>2
  <2> QED
    BY <2>2, <2>3
<1> QED
  BY <1>4, <1>5, <1>6, <1>7

\* Taking out the first occurrence, as the loops that break do.
LEMMA RemoveFirstSeq ==
  ASSUME NEW S, NEW s \in Seq(S), NEW e
  PROVE  RemoveFirst(s, e) \in Seq(S)
<1> DEFINE I == {i \in 1..Len(s) : s[i] = e}
<1>1. CASE \E i \in 1..Len(s) : s[i] = e
  <2>1. Len(s) \in Nat
    BY LenProperties
  <2>2. I \subseteq Nat /\ I # {}
    BY <1>1, <2>1
  <2>3. Min(I) \in I
    <3> HIDE DEF I
    <3> QED
      BY <2>2, LeastNat
  <2>4. Min(I) \in 1..Len(s)
    BY <2>3
  <2>5. RemoveFirst(s, e) = RemoveAt(s, Min(I))
    BY <1>1, <2>2 DEF RemoveFirst, SelectInSeq
  <2> HIDE DEF I
  <2> QED
    BY <2>4, <2>5, RemoveAtProperties
<1>2. CASE ~ \E i \in 1..Len(s) : s[i] = e
  BY <1>2 DEF RemoveFirst
<1> QED
  BY <1>1, <1>2

-----------------------------------------------------------------------------
(* The types, one group of variables at a time.                            *)

QueueTypes ==
  /\ queue \in [Texts -> Files \union {NoFile}]
  /\ order \in Seq(Texts)
  /\ status \in [Files -> {"none", "queued", "pending", "ready", "failed"}]
  /\ marker \in [Files -> BOOLEAN]
CountTypes ==
  /\ cores \in Cores
  /\ attempts \in 0..START_ATTEMPTS + 1 /\ rr \in 0..Pool /\ checks \in Nat
  /\ slots \in Nat
FlagTypes ==
  /\ running \in BOOLEAN /\ starting \in BOOLEAN
  /\ abandoned \in BOOLEAN /\ launching \in BOOLEAN
WorkTypes ==
  /\ server \in [Servers -> {"down", "booting", "up", "dead"}]
  /\ requests \in [Servers -> Seq(Request)] /\ procs \in Seq(Process)
DiskTypes ==
  /\ wav \in [Files -> SUBSET Texts] /\ done \in [Files -> BOOLEAN]
  /\ taken \subseteq Files

LEMMA TypeGroups ==
  TypeOK <=> /\ QueueTypes /\ CountTypes /\ FlagTypes /\ WorkTypes
             /\ DiskTypes /\ polls \in Seq(Poll)
  BY DEF TypeOK, QueueTypes, CountTypes, FlagTypes, WorkTypes, DiskTypes

\* The entry of a queued text has a file.
LEMMA QueuedFile ==
  ASSUME QueueTypes, NEW t \in Texts, Queued(t)
  PROVE  queue[t] \in Files
  BY DEF QueueTypes, Queued

LEMMA StatusQueued ==
  ASSUME NEW t \in Texts, StatusOf(t) # "none"
  PROVE  Queued(t) /\ StatusOf(t) = status[queue[t]]
  BY DEF StatusOf

LEMMA PoolTypes ==
  ASSUME Limits, cores \in Cores
  PROVE  /\ Pool \in Nat \ {0} /\ (rr \in 0..Pool => PickServer \in 0..Pool)
         /\ BATCH_SIZE \in {1, 3} /\ (cores > 1 => BATCH_SIZE = 1)
<1>1. Pool \in {1, 2}
  BY DEF Pool
<1>2. cores \in Nat
  BY DEF Limits
<1>3. BATCH_SIZE \in {1, 3} /\ (cores > 1 => BATCH_SIZE = 1)
  BY <1>2 DEF BATCH_SIZE
<1>4. rr \in 0..Pool => PickServer \in 0..Pool
  BY <1>1 DEF PickServer
<1> QED
  BY <1>1, <1>3, <1>4

\* What a batch holds: queued positions, at least one and at most n.
LEMMA BatchTypes ==
  ASSUME QueueTypes, NEW n \in Nat, NEW at \in Batches(n)
  PROVE  /\ Len(at) \in 1..n
         /\ \A k \in 1..Len(at) : at[k] \in 1..Len(order)
         /\ TextsAt(at) \in Seq(Texts) /\ Len(TextsAt(at)) = Len(at)
         /\ \A k \in 1..Len(at) : TextsAt(at)[k] = order[at[k]]
         /\ \A k \in 1..Len(at) : StatusOf(order[at[k]]) = "queued"
         /\ FilesOf(TextsAt(at)) \in Seq(Files)
         /\ Len(FilesOf(TextsAt(at))) = Len(at)
         /\ \A k \in 1..Len(at) :
              FilesOf(TextsAt(at))[k] = queue[TextsAt(at)[k]]
<1>1. PICK m \in 1..n : at \in [1..m -> Waiting]
  BY DEF Batches
<1>2. at \in Seq(Waiting) /\ Len(at) = m
  BY <1>1
<1>3. ASSUME NEW k \in 1..m
      PROVE  /\ at[k] \in 1..Len(order) /\ StatusOf(order[at[k]]) = "queued"
             /\ order[at[k]] \in Texts /\ queue[order[at[k]]] \in Files
  <2>1. at[k] \in Waiting
    BY <1>1
  <2>2. at[k] \in 1..Len(order) /\ StatusOf(order[at[k]]) = "queued"
    BY <2>1 DEF Waiting
  <2>3. order[at[k]] \in Texts
    BY <2>2, ElementOfSeq DEF QueueTypes
  <2> QED
    BY <2>2, <2>3, QueuedFile, StatusQueued
<1>4. TextsAt(at) = [k \in 1..m |-> order[at[k]]]
  BY <1>2 DEF TextsAt
<1>5. TextsAt(at) \in Seq(Texts) /\ Len(TextsAt(at)) = m
  BY <1>3, <1>4
<1>6. FilesOf(TextsAt(at)) = [k \in 1..m |-> queue[order[at[k]]]]
  BY <1>4, <1>5 DEF FilesOf
<1>7. FilesOf(TextsAt(at)) \in Seq(Files) /\ Len(FilesOf(TextsAt(at))) = m
  BY <1>3, <1>6
<1> QED
  BY <1>2, <1>3, <1>4, <1>5, <1>6, <1>7

\* Adding to a list and taking from it.
LEMMA AppendTypes ==
  ASSUME NEW S, NEW s \in Seq(S), NEW e \in S
  PROVE  Append(s, e) \in Seq(S)
  BY AppendProperties

LEMMA KilledTypes ==
  ASSUME procs \in Seq(Process)
  PROVE  Killed \in Seq(Process)
<1>1. Len(procs) \in Nat
  BY LenProperties
<1>2. \A i \in 1..Len(procs) : [procs[i] EXCEPT !.killed = TRUE] \in Process
  <2> SUFFICES ASSUME NEW i \in 1..Len(procs)
               PROVE  [procs[i] EXCEPT !.killed = TRUE] \in Process
    OBVIOUS
  <2>1. procs[i] \in Process
    BY ElementOfSeq
  <2> QED
    BY <2>1 DEF Process
<1> QED
  BY <1>1, <1>2 DEF Killed

LEMMA CountTypesStep ==
  ASSUME Limits, CountTypes, [Next]_vars
  PROVE  CountTypes'
<1> USE DEF CountTypes
<1>1. Freed \in Nat
  BY DEF Freed
<1>2. Attempted \in 0..START_ATTEMPTS + 1
  BY DEF Attempted, START_ATTEMPTS
<1>3. PickServer \in 0..Pool /\ 0 \in 0..Pool
  BY PoolTypes
<1>4. cores' = cores /\ Pool' = Pool
  <2>1. cores' = cores
    BY DEF Next, vars, Caller, Launch, PollStep, PollAt, Check, Work,
      enqueue, prioritize, peek, useReady, kick, played, cleanQueue,
      killOrphanProcesses, stopServers, setRate, shutdown, abandon,
      StopAndClean, unabandon, LaunchRefused, Returns, startServers,
      LaunchNothing, LaunchFallback, LaunchBatch, LaunchAfterFailure,
      PollGone, PollTimeout, PollServer, PollProcess, PollEnds,
      ServersReady, StartTimeout, ServerUp, ServerDies, ServerDone,
      ProcessDone, World
  <2> QED
    BY <2>1 DEF Pool
<1>5. CASE Caller
  <2>1. ASSUME NEW t \in Texts, enqueue(t) \/ prioritize(t)
        PROVE  CountTypes'
    BY <1>4, <2>1 DEF enqueue, prioritize, serverVars
  <2>2. ASSUME NEW t \in Texts, peek(t) \/ useReady(t)
        PROVE  CountTypes'
    BY <1>1, <1>4, <2>2 DEF peek, useReady, serverVars
  <2>3. CASE kick \/ killOrphanProcesses \/ unabandon \/ cleanQueue \/ stopServers
    BY <1>4, <2>3 DEF kick, killOrphanProcesses, unabandon, cleanQueue,
      stopServers, StopServers, EmptyQueue, serverVars
  <2>4. ASSUME NEW f \in Files, played(f)
        PROVE  CountTypes'
    BY <1>4, <2>4 DEF played, serverVars
  <2>5. CASE setRate \/ shutdown \/ abandon
    BY <1>4, <2>5 DEF setRate, shutdown, abandon, StopAndClean, EmptyQueue,
      StopServers
  <2> QED
    BY <1>5, <2>1, <2>2, <2>3, <2>4, <2>5 DEF Caller
<1>6. CASE Launch
  <2>1. CASE LaunchRefused \/ LaunchNothing
    BY <1>2, <1>4, <2>1 DEF LaunchRefused, LaunchNothing, Returns
  <2>2. CASE startServers
    BY <1>2, <1>3, <1>4, <2>2 DEF startServers
  <2>3. CASE LaunchFallback
    BY <1>2, <1>4, <2>3 DEF LaunchFallback, LaunchProcess
  <2>4. CASE LaunchBatch
    BY <1>3, <1>4, <2>4 DEF LaunchBatch
  <2>5. CASE LaunchAfterFailure
    BY <1>3, <1>4, <2>5 DEF LaunchAfterFailure, LaunchProcess
  <2> QED
    BY <1>6, <2>1, <2>2, <2>3, <2>4, <2>5 DEF Launch
<1>7. CASE PollStep
  <2>1. PICK i \in 1..Len(polls) : PollAt(i)
    BY <1>7 DEF PollStep
  <2>2. PollEnds(i)
    BY <2>1 DEF PollAt, PollGone, PollTimeout, PollServer, PollProcess
  <2> QED
    BY <1>1, <1>4, <2>2 DEF PollEnds, serverVars
<1>8. CASE Check
  BY <1>4, <1>8 DEF Check, ServersReady, StartTimeout, START_ATTEMPTS
<1>9. CASE Work
  BY <1>4, <1>9 DEF Work, ServerUp, ServerDies, ServerDone, ProcessDone, World,
    serverVars
<1>10. CASE UNCHANGED vars
  BY <1>4, <1>10 DEF vars, serverVars
<1> QED
  BY <1>5, <1>6, <1>7, <1>8, <1>9, <1>10 DEF Next

LEMMA FlagTypesStep ==
  ASSUME FlagTypes, [Next]_vars
  PROVE  FlagTypes'
<1> USE DEF FlagTypes
<1>1. CASE Caller
  <2>1. ASSUME NEW t \in Texts, enqueue(t) \/ prioritize(t)
        PROVE  FlagTypes'
    BY <2>1 DEF enqueue, prioritize, serverVars
  <2>2. ASSUME NEW t \in Texts, peek(t) \/ useReady(t)
        PROVE  FlagTypes'
    BY <2>2 DEF peek, useReady, serverVars
  <2>3. CASE kick \/ killOrphanProcesses \/ unabandon \/ cleanQueue \/ stopServers
    BY <2>3 DEF kick, killOrphanProcesses, unabandon, cleanQueue,
      stopServers, StopServers, EmptyQueue, serverVars
  <2>4. ASSUME NEW f \in Files, played(f)
        PROVE  FlagTypes'
    BY <2>4 DEF played, serverVars
  <2>5. CASE setRate \/ shutdown \/ abandon
    BY <2>5 DEF setRate, shutdown, abandon, StopAndClean, EmptyQueue,
      StopServers
  <2> QED
    BY <1>1, <2>1, <2>2, <2>3, <2>4, <2>5 DEF Caller
<1>2. CASE Launch
  <2>1. CASE LaunchRefused \/ LaunchNothing
    BY <2>1 DEF LaunchRefused, LaunchNothing, Returns
  <2>2. CASE startServers
    BY <2>2 DEF startServers
  <2>3. CASE LaunchFallback
    BY <2>3 DEF LaunchFallback, LaunchProcess
  <2>4. CASE LaunchBatch
    BY <2>4 DEF LaunchBatch
  <2>5. CASE LaunchAfterFailure
    BY <2>5 DEF LaunchAfterFailure, LaunchProcess
  <2> QED
    BY <1>2, <2>1, <2>2, <2>3, <2>4, <2>5 DEF Launch
<1>3. CASE PollStep
  <2>1. PICK i \in 1..Len(polls) : PollAt(i)
    BY <1>3 DEF PollStep
  <2>2. PollEnds(i)
    BY <2>1 DEF PollAt, PollGone, PollTimeout, PollServer, PollProcess
  <2> QED
    BY <2>2 DEF PollEnds, serverVars
<1>4. CASE Check
  BY <1>4 DEF Check, ServersReady, StartTimeout, START_ATTEMPTS
<1>5. CASE Work
  BY <1>5 DEF Work, ServerUp, ServerDies, ServerDone, ProcessDone, World,
    serverVars
<1>6. CASE UNCHANGED vars
  BY <1>6 DEF vars, serverVars
<1> QED
  BY <1>1, <1>2, <1>3, <1>4, <1>5, <1>6 DEF Next

\* The outcome of setting a status on the entries of some texts.
LEMMA MarkedTypes ==
  ASSUME QueueTypes, NEW st \in {"none", "queued", "pending", "ready", "failed"},
         NEW texts
  PROVE  Marked(texts, st) \in
           [Files -> {"none", "queued", "pending", "ready", "failed"}]
  BY DEF Marked, QueueTypes

LEMMA QueueTypesStep ==
  ASSUME Limits, QueueTypes, polls \in Seq(Poll), [Next]_vars
  PROVE  QueueTypes'
<1> DEFINE Statuses == {"none", "queued", "pending", "ready", "failed"}
<1>1. ASSUME UNCHANGED queueVars
      PROVE  QueueTypes'
  BY <1>1 DEF QueueTypes, queueVars
<1>2. ASSUME UNCHANGED <<queue, order, marker>>, status' \in [Files -> Statuses]
      PROVE  QueueTypes'
  BY <1>2 DEF QueueTypes
<1>3. Rescued(status) \in [Files -> Statuses]
  BY DEF QueueTypes, Rescued
<1>4. \A f : Outcome(f) \in Statuses
  BY DEF Outcome
<1>5. \A t \in Texts : RemoveFirst(order, t) \in Seq(Texts)
  BY RemoveFirstSeq DEF QueueTypes
<1>6. /\ [t \in Texts |-> NoFile] \in [Texts -> Files \union {NoFile}]
      /\ <<>> \in Seq(Texts)
      /\ [f \in Files |-> "none"] \in [Files -> Statuses]
      /\ [f \in Files |-> FALSE] \in [Files -> BOOLEAN]
  BY EmptySeq
<1>7. CASE Caller
  <2>1. ASSUME NEW t \in Texts, enqueue(t)
        PROVE  QueueTypes'
    <3>1. PICK f \in Files : /\ queue' = [queue EXCEPT ![t] = f]
                             /\ status' = [status EXCEPT ![f] = "queued"]
                             /\ marker' = [marker EXCEPT ![f] = TRUE]
      BY <2>1 DEF enqueue
    <3>2. order' \in Seq(Texts)
      BY <2>1, AppendTypes DEF enqueue, QueueTypes
    <3>3. /\ queue' \in [Texts -> Files \union {NoFile}]
          /\ status' \in [Files -> Statuses]
      BY <3>1 DEF QueueTypes
    <3>4. marker' \in [Files -> BOOLEAN]
      BY <3>1 DEF QueueTypes
    <3> QED
      BY <3>2, <3>3, <3>4 DEF QueueTypes
  <2>2. ASSUME NEW t \in Texts, prioritize(t)
        PROVE  QueueTypes'
    <3>1. order' = <<t>> \o RemoveFirst(order, t) /\ UNCHANGED <<queue, status, marker>>
      BY <2>2 DEF prioritize
    <3>2. order' \in Seq(Texts)
      BY <1>5, <3>1, ConcatProperties
    <3> QED
      BY <3>1, <3>2 DEF QueueTypes
  <2>3. ASSUME NEW t \in Texts, peek(t)
        PROVE  QueueTypes'
    <3>1. UNCHANGED <<queue, order, marker>> /\ status' = Marked({t}, Outcome(queue[t]))
      BY <2>3 DEF peek
    <3>2. status' \in [Files -> Statuses]
      BY <1>4, <3>1, MarkedTypes
    <3> QED
      BY <1>2, <3>1, <3>2
  <2>4. ASSUME NEW t \in Texts, useReady(t)
        PROVE  QueueTypes'
    <3>1. /\ queue' = [queue EXCEPT ![t] = NoFile]
          /\ order' = RemoveFirst(order, t)
          /\ status' = [status EXCEPT ![queue[t]] = "none"]
          /\ marker' = [marker EXCEPT ![queue[t]] = FALSE]
      BY <2>4 DEF useReady
    <3>2. queue' \in [Texts -> Files \union {NoFile}] /\ order' \in Seq(Texts)
      BY <1>5, <3>1 DEF QueueTypes
    <3>3. status' \in [Files -> Statuses]
      BY <3>1 DEF QueueTypes
    <3>4. marker' \in [Files -> BOOLEAN]
      BY <3>1 DEF QueueTypes
    <3> QED
      BY <3>2, <3>3, <3>4 DEF QueueTypes
  <2>5. CASE kick \/ killOrphanProcesses \/ unabandon
    BY <1>1, <2>5 DEF kick, killOrphanProcesses, unabandon
  <2>6. ASSUME NEW f \in Files, played(f)
        PROVE  QueueTypes'
    BY <1>1, <2>6 DEF played
  <2>7. CASE cleanQueue
    BY <1>6, <2>7 DEF cleanQueue, EmptyQueue, NoEntries, QueueTypes
  <2>8. CASE stopServers
    <3>1. /\ UNCHANGED <<queue, order>> /\ status' = Rescued(status)
          /\ marker' = [f \in Files |-> marker[f] \/ status[f] = "pending"]
      BY <2>8 DEF stopServers, StopServers
    <3>2. marker' \in [Files -> BOOLEAN]
      BY <3>1
    <3> QED
      BY <1>3, <3>1, <3>2 DEF QueueTypes
  <2>9. ASSUME NEW mark, StopAndClean(mark)
        PROVE  QueueTypes'
    <3> DEFINE none == [f \in Files |-> "none"]
    <3>1. /\ queue' = [t \in Texts |-> NoFile] /\ order' = <<>>
          /\ status' = Rescued(none)
          /\ marker' = [f \in Files |-> [g \in Files |-> FALSE][f] \/ none[f] = "pending"]
      BY <2>9 DEF StopAndClean, StopServers, EmptyQueue
    <3>2. status' \in [Files -> Statuses] /\ marker' \in [Files -> BOOLEAN]
      BY <3>1 DEF Rescued
    <3> QED
      BY <1>6, <3>1, <3>2 DEF QueueTypes
  <2>10. CASE setRate \/ shutdown \/ abandon
    BY <2>9, <2>10 DEF setRate, shutdown, abandon
  <2> QED
    BY <1>7, <2>1, <2>2, <2>3, <2>4, <2>5, <2>6, <2>7, <2>8, <2>10 DEF Caller
<1>8. CASE Launch
  <2>1. CASE LaunchRefused \/ startServers \/ LaunchNothing
    BY <1>1, <2>1 DEF LaunchRefused, startServers, LaunchNothing, Returns
  <2>2. CASE LaunchFallback
    <3>1. UNCHANGED <<queue, order, marker>>
      BY <2>2 DEF LaunchFallback
    <3>2. PICK at : status' = Marked({order[at[1]]}, "pending")
      BY <2>2 DEF LaunchFallback
    <3> QED
      BY <1>2, <3>1, <3>2, MarkedTypes
  <2>3. CASE LaunchBatch
    <3>1. UNCHANGED <<queue, order>>
      BY <2>3 DEF LaunchBatch
    <3>2. PICK n, at : /\ status' = Marked(Range(TextsAt(at)), "pending")
                       /\ marker' = Unmarked(FilesOf(TextsAt(at)))
      BY <2>3 DEF LaunchBatch
    <3>3. status' \in [Files -> Statuses]
      BY <3>2, MarkedTypes
    <3>4. marker' \in [Files -> BOOLEAN]
      BY <3>2 DEF Unmarked
    <3> QED
      BY <3>1, <3>3, <3>4 DEF QueueTypes
  <2>4. CASE LaunchAfterFailure
    <3>1. /\ UNCHANGED <<queue, order>> /\ status' = Rescued(status)
          /\ marker' = [f \in Files |-> marker[f] \/ status[f] = "pending"]
      BY <2>4 DEF LaunchAfterFailure
    <3>2. marker' \in [Files -> BOOLEAN]
      BY <3>1
    <3> QED
      BY <1>3, <3>1, <3>2 DEF QueueTypes
  <2> QED
    BY <1>8, <2>1, <2>2, <2>3, <2>4 DEF Launch
<1>9. CASE PollStep
  <2>1. PICK i \in 1..Len(polls) : PollAt(i)
    BY <1>9 DEF PollStep
  <2>2. UNCHANGED <<queue, order, marker>>
    BY <2>1 DEF PollAt, PollGone, PollTimeout, PollServer, PollProcess, PollEnds
  <2>3. CASE PollGone(i)
    BY <1>1, <2>2, <2>3 DEF PollGone, queueVars
  <2>4. CASE PollTimeout(i) \/ PollProcess(i)
    <3>1. \E texts, st : st \in Statuses /\ status' = Marked(texts, st)
      BY <1>4, <2>4 DEF PollTimeout, PollProcess
    <3> QED
      BY <1>2, <2>2, <3>1, MarkedTypes
  <2>5. CASE PollServer(i)
    <3> DEFINE p == polls[i]
    <3>1. CASE \E texts : status' = Marked(texts, "failed") \/ status' = Marked(texts, "ready")
      BY <1>2, <2>2, <3>1, MarkedTypes
    <3>2. CASE status' = ClosureReady(Primary(p))
      <4>1. status' \in [Files -> Statuses]
        BY <3>2 DEF ClosureReady, QueueTypes
      <4> QED
        BY <1>2, <2>2, <4>1
    <3>3. CASE status' = [f \in Files |->
             IF \E t \in Range(p.texts) \ {p.texts[1]} : queue[t] = f THEN "failed"
             ELSE IF f = Primary(p) /\ InQueue(f) THEN "ready" ELSE status[f]]
      <4>1. status' \in [Files -> Statuses]
        BY <3>3 DEF QueueTypes
      <4> QED
        BY <1>2, <2>2, <4>1
    <3> QED
      BY <2>5, <3>1, <3>2, <3>3 DEF PollServer
  <2> QED
    BY <2>1, <2>3, <2>4, <2>5 DEF PollAt
<1>10. CASE Check
  BY <1>1, <1>10 DEF Check, ServersReady, StartTimeout
<1>11. CASE Work
  BY <1>1, <1>11 DEF Work, ServerUp, ServerDies, ServerDone, ProcessDone, World
<1>12. CASE UNCHANGED vars
  BY <1>1, <1>12 DEF vars
<1> QED
  BY <1>7, <1>8, <1>9, <1>10, <1>11, <1>12 DEF Next

\* A poll of a process closes over one text and one file.
LEMMA ProcessPoll ==
  ASSUME QueueTypes, NEW at \in Batches(1)
  PROVE  /\ order[at[1]] \in Texts /\ StatusOf(order[at[1]]) = "queued"
         /\ queue[order[at[1]]] \in Files
         /\ [kind |-> "process", texts |-> <<order[at[1]]>>,
             files |-> <<queue[order[at[1]]]>>] \in Poll
<1> DEFINE t == order[at[1]]
<1>1. 1 \in 1..Len(at) /\ Len(at) \in 1..1
  BY BatchTypes
<1>2. at[1] \in 1..Len(order) /\ StatusOf(t) = "queued"
  BY <1>1, BatchTypes
<1>3. t \in Texts
  BY <1>2, ElementOfSeq DEF QueueTypes
<1>4. queue[t] \in Files
  BY <1>2, <1>3, QueuedFile, StatusQueued
<1> HIDE DEF t
<1>5. <<t>> \in Seq(Texts) /\ <<queue[t]>> \in Seq(Files)
  BY <1>3, <1>4
<1>6. [kind |-> "process", texts |-> <<t>>, files |-> <<queue[t]>>] \in Poll
  BY <1>5 DEF Poll
<1> QED
  BY <1>2, <1>3, <1>4, <1>6 DEF t

LEMMA BatchSizeTypes ==
  ASSUME Limits, CountTypes, NEW n \in BatchSizes
  PROVE  n \in {1, 3} /\ (cores > 1 => n = 1)
  BY PoolTypes DEF BatchSizes, CountTypes

LEMMA PollTypesStep ==
  ASSUME Limits, QueueTypes, CountTypes, polls \in Seq(Poll), [Next]_vars
  PROVE  polls' \in Seq(Poll)
<1>1. CASE UNCHANGED polls
  BY <1>1
<1>2. ASSUME NEW e \in Poll, polls' = Append(polls, e)
      PROVE  polls' \in Seq(Poll)
  BY <1>2, AppendTypes
<1>3. CASE Caller
  BY <1>1, <1>3 DEF Caller, enqueue, prioritize, peek, useReady, kick, played,
    cleanQueue, killOrphanProcesses, stopServers, setRate, shutdown, abandon,
    StopAndClean, unabandon
<1>4. CASE Launch
  <2>1. CASE LaunchRefused \/ startServers \/ LaunchNothing
    BY <1>1, <2>1 DEF LaunchRefused, startServers, LaunchNothing, Returns
  <2>2. CASE LaunchFallback \/ LaunchAfterFailure
    <3>1. PICK at \in Batches(1) : \E others : LaunchProcess(others, order[at[1]])
      BY <2>2 DEF LaunchFallback, LaunchAfterFailure
    <3>2. PICK others : LaunchProcess(others, order[at[1]])
      BY <3>1
    <3> QED
      BY <1>2, <3>2, ProcessPoll DEF LaunchProcess
  <2>3. CASE LaunchBatch
    <3>1. PICK n \in BatchSizes : \E at \in Batches(n) :
            polls' = Append(polls, [kind |-> "server", texts |-> TextsAt(at),
                                     files |-> FilesOf(TextsAt(at))])
      BY <2>3 DEF LaunchBatch
    <3>2. n \in Nat
      BY BatchSizeTypes
    <3>5. PICK at \in Batches(n) :
            polls' = Append(polls, [kind |-> "server", texts |-> TextsAt(at),
                                     files |-> FilesOf(TextsAt(at))])
      BY <3>1
    <3>3. TextsAt(at) \in Seq(Texts) /\ FilesOf(TextsAt(at)) \in Seq(Files)
      BY <3>2, BatchTypes
    <3>4. [kind |-> "server", texts |-> TextsAt(at),
           files |-> FilesOf(TextsAt(at))] \in Poll
      BY <3>3 DEF Poll
    <3> QED
      BY <1>2, <3>4, <3>5
  <2> QED
    BY <1>4, <2>1, <2>2, <2>3 DEF Launch
<1>5. CASE PollStep
  <2>1. PICK i \in 1..Len(polls) : polls' = RemoveAt(polls, i)
    BY <1>5 DEF PollStep, PollAt, PollGone, PollTimeout, PollServer, PollProcess,
      PollEnds
  <2> QED
    BY <2>1, RemoveAtProperties
<1>6. CASE Check
  BY <1>1, <1>6 DEF Check, ServersReady, StartTimeout
<1>7. CASE Work
  BY <1>1, <1>7 DEF Work, ServerUp, ServerDies, ServerDone, ProcessDone, World
<1>8. CASE UNCHANGED vars
  BY <1>1, <1>8 DEF vars
<1> QED
  BY <1>3, <1>4, <1>5, <1>6, <1>7, <1>8 DEF Next

\* Killed processes, no request left, and some state for each server.
LEMMA Down ==
  ASSUME WorkTypes, Pool' = Pool,
         server' \in [Servers -> {"down", "booting", "up", "dead"}],
         requests' = [i \in Servers |-> <<>>], procs' \in Seq(Process)
  PROVE  WorkTypes'
<1>1. Servers' = Servers
  BY DEF Servers
<1>2. requests' \in [Servers -> Seq(Request)]
  BY EmptySeq
<1> QED
  BY <1>1, <1>2 DEF WorkTypes

LEMMA WorkTypesStep ==
  ASSUME Limits, QueueTypes, CountTypes, CountTypes', WorkTypes, [Next]_vars
  PROVE  WorkTypes'
<1> DEFINE States == {"down", "booting", "up", "dead"}
<1>1. Pool' = Pool /\ Servers' = Servers
  <2>1. cores' = cores
    BY DEF Next, vars, Caller, Launch, PollStep, PollAt, Check, Work,
      enqueue, prioritize, peek, useReady, kick, played, cleanQueue,
      killOrphanProcesses, stopServers, setRate, shutdown, abandon,
      StopAndClean, unabandon, LaunchRefused, Returns, startServers,
      LaunchNothing, LaunchFallback, LaunchBatch, LaunchAfterFailure,
      PollGone, PollTimeout, PollServer, PollProcess, PollEnds,
      ServersReady, StartTimeout, ServerUp, ServerDies, ServerDone,
      ProcessDone, World
  <2> QED
    BY <2>1 DEF Pool, Servers
<1>2. ASSUME UNCHANGED workVars
      PROVE  WorkTypes'
  BY <1>1, <1>2 DEF WorkTypes, workVars
<1>3. Killed \in Seq(Process)
  BY KilledTypes DEF WorkTypes
<1>4. /\ [i \in Servers |-> "down"] \in [Servers -> States]
      /\ [i \in Servers |-> "booting"] \in [Servers -> States]
  OBVIOUS
<1>5. ASSUME KillOrphans
      PROVE  WorkTypes'
  <2>1. CASE running
    BY <1>2, <1>5, <2>1 DEF KillOrphans
  <2>2. CASE ~running
    <3>1. /\ server' \in [Servers -> {"down", "dead"}]
          /\ requests' = [i \in Servers |-> <<>>] /\ procs' = Killed
      BY <1>5, <2>2 DEF KillOrphans
    <3>2. server' \in [Servers -> States]
      BY <3>1
    <3> QED
      BY <1>1, <1>3, <3>1, <3>2, Down
  <2> QED
    BY <2>1, <2>2
<1>6. ASSUME NEW stat, NEW mark, StopServers(stat, mark)
      PROVE  WorkTypes'
  BY <1>1, <1>3, <1>4, <1>6, Down DEF StopServers
<1>7. CASE Caller
  <2>1. ASSUME NEW t \in Texts, enqueue(t) \/ prioritize(t) \/ peek(t) \/ useReady(t)
        PROVE  WorkTypes'
    BY <1>2, <2>1 DEF enqueue, prioritize, peek, useReady
  <2>2. ASSUME NEW f \in Files, played(f)
        PROVE  WorkTypes'
    BY <1>2, <2>2 DEF played
  <2>3. CASE kick \/ unabandon
    BY <1>2, <2>3 DEF kick, unabandon
  <2>4. CASE cleanQueue \/ killOrphanProcesses
    BY <1>5, <2>4 DEF cleanQueue, killOrphanProcesses
  <2>5. CASE stopServers
    BY <1>6, <2>5 DEF stopServers
  <2>6. CASE setRate \/ shutdown \/ abandon
    BY <1>6, <2>6 DEF setRate, shutdown, abandon, StopAndClean
  <2> QED
    BY <1>7, <2>1, <2>2, <2>3, <2>4, <2>5, <2>6 DEF Caller
<1>8. CASE Launch
  <2>1. CASE LaunchRefused \/ LaunchNothing
    BY <1>2, <2>1 DEF LaunchRefused, LaunchNothing, Returns
  <2>2. CASE startServers
    BY <1>1, <1>3, <1>4, <2>2, Down DEF startServers
  <2>3. ASSUME NEW others \in Seq(Process), NEW at \in Batches(1),
               LaunchProcess(others, order[at[1]])
        PROVE  procs' \in Seq(Process)
    <3> DEFINE e == [file |-> queue[order[at[1]]], text |-> order[at[1]],
                     killed |-> FALSE]
    <3>1. e \in Process
      BY ProcessPoll DEF Process
    <3>2. procs' = Append(others, e)
      BY <2>3 DEF LaunchProcess
    <3> HIDE DEF e
    <3> QED
      BY <3>1, <3>2, AppendTypes
  <2>4. CASE LaunchFallback
    <3>1. PICK at \in Batches(1) : LaunchProcess(procs, order[at[1]])
      BY <2>4 DEF LaunchFallback
    <3>2. procs' \in Seq(Process)
      BY <2>3, <3>1 DEF WorkTypes
    <3>3. UNCHANGED <<server, requests>>
      BY <2>4 DEF LaunchFallback
    <3> QED
      BY <1>1, <3>2, <3>3 DEF WorkTypes
  <2>5. CASE LaunchBatch
    <3>1. UNCHANGED <<server, procs>>
      BY <2>5 DEF LaunchBatch
    <3>13. PICK n \in BatchSizes : \E j \in Servers, at \in Batches(n) :
            requests' = [requests EXCEPT ![j] =
              Append(@, [file |-> FilesOf(TextsAt(at))[1],
                         texts |-> Range(TextsAt(at))])]
      BY <2>5 DEF LaunchBatch
    <3>2. PICK j \in Servers, at \in Batches(n) :
            requests' = [requests EXCEPT ![j] =
              Append(@, [file |-> FilesOf(TextsAt(at))[1],
                         texts |-> Range(TextsAt(at))])]
      BY <3>13
    <3> DEFINE e == [file |-> FilesOf(TextsAt(at))[1], texts |-> Range(TextsAt(at))]
    <3>3. n \in Nat
      BY BatchSizeTypes
    <3>4. /\ TextsAt(at) \in Seq(Texts) /\ FilesOf(TextsAt(at)) \in Seq(Files)
          /\ Len(FilesOf(TextsAt(at))) = Len(at) /\ Len(at) \in 1..n
      BY <3>3, BatchTypes
    <3>5. 1 \in 1..Len(FilesOf(TextsAt(at)))
      BY <3>3, <3>4
    <3>6. FilesOf(TextsAt(at))[1] \in Files
      BY <3>4, <3>5, ElementOfSeq
    <3>7. Range(TextsAt(at)) \subseteq Texts
      BY <3>4 DEF Range
    <3>8. e \in Request
      BY <3>6, <3>7 DEF Request
    <3>9. requests[j] \in Seq(Request)
      BY DEF WorkTypes
    <3> HIDE DEF e
    <3>10. Append(requests[j], e) \in Seq(Request)
      BY <3>8, <3>9, AppendTypes
    <3>11. requests' = [requests EXCEPT ![j] = Append(requests[j], e)]
      BY <3>2 DEF e
    <3>12. requests' \in [Servers -> Seq(Request)]
      BY <3>10, <3>11 DEF WorkTypes
    <3> QED
      BY <1>1, <3>1, <3>12 DEF WorkTypes
  <2>6. CASE LaunchAfterFailure
    <3>1. PICK at \in Batches(1) : LaunchProcess(Killed, order[at[1]])
      BY <2>6 DEF LaunchAfterFailure
    <3>2. procs' \in Seq(Process)
      BY <1>3, <2>3, <3>1
    <3> QED
      BY <1>1, <1>4, <2>6, <3>2, Down DEF LaunchAfterFailure
  <2> QED
    BY <1>8, <2>1, <2>2, <2>4, <2>5, <2>6 DEF Launch
<1>9. CASE PollStep
  BY <1>2, <1>9 DEF PollStep, PollAt, PollGone, PollTimeout, PollServer,
    PollProcess, PollEnds
<1>10. CASE Check
  BY <1>2, <1>10 DEF Check, ServersReady, StartTimeout
<1>11. CASE Work
  <2>1. ASSUME NEW i \in Servers, ServerUp(i)
        PROVE  WorkTypes'
    BY <1>1, <2>1 DEF ServerUp, WorkTypes
  <2>2. ASSUME NEW i \in Servers, ServerDies(i)
        PROVE  WorkTypes'
    <3>1. requests' \in [Servers -> Seq(Request)]
      BY <2>2, EmptySeq DEF ServerDies, WorkTypes
    <3>2. server' \in [Servers -> States] /\ UNCHANGED procs
      BY <2>2 DEF ServerDies, WorkTypes
    <3> QED
      BY <1>1, <3>1, <3>2 DEF WorkTypes
  <2>3. ASSUME NEW i \in Servers, ServerDone(i)
        PROVE  WorkTypes'
    <3>1. requests[i] \in Seq(Request) /\ requests[i] # <<>>
      BY <2>3 DEF ServerDone, WorkTypes
    <3>2. Tail(requests[i]) \in Seq(Request)
      BY <3>1, HeadTailProperties
    <3>3. requests' \in [Servers -> Seq(Request)]
      BY <2>3, <3>2 DEF ServerDone, WorkTypes
    <3>4. UNCHANGED <<server, procs>>
      BY <2>3 DEF ServerDone
    <3> QED
      BY <1>1, <3>3, <3>4 DEF WorkTypes
  <2>4. ASSUME NEW i \in 1..Len(procs), ProcessDone(i)
        PROVE  WorkTypes'
    <3>1. procs' \in Seq(Process)
      BY <2>4, RemoveAtProperties DEF ProcessDone, WorkTypes
    <3>2. UNCHANGED <<server, requests>>
      BY <2>4 DEF ProcessDone
    <3> QED
      BY <1>1, <3>1, <3>2 DEF WorkTypes
  <2> QED
    BY <1>11, <2>1, <2>2, <2>3, <2>4 DEF Work
<1>12. CASE UNCHANGED vars
  BY <1>2, <1>12 DEF vars
<1> QED
  BY <1>7, <1>8, <1>9, <1>10, <1>11, <1>12 DEF Next

\* The WAVs a synthesis or a poll leaves hold sentences of the book.
LEMMA SynthesisedTypes ==
  ASSUME DiskTypes, NEW f, NEW texts \in SUBSET Texts, NEW failed
  PROVE  Synthesised(f, texts, failed) \in [Files -> SUBSET Texts]
  BY DEF Synthesised, DiskTypes

LEMMA DiskTypesStep ==
  ASSUME QueueTypes, WorkTypes, DiskTypes, polls \in Seq(Poll), [Next]_vars
  PROVE  DiskTypes'
<1>1. ASSUME UNCHANGED <<diskVars, taken>>
      PROVE  DiskTypes'
  BY <1>1 DEF DiskTypes, diskVars
<1>2. ASSUME NEW f, done' = [done EXCEPT ![f] = FALSE] \/ done' = [done EXCEPT ![f] = TRUE]
      PROVE  done' \in [Files -> BOOLEAN]
  BY <1>2 DEF DiskTypes
<1>3. ASSUME NEW f, wav' = [wav EXCEPT ![f] = {}]
      PROVE  wav' \in [Files -> SUBSET Texts]
  BY <1>3 DEF DiskTypes
<1>4. ASSUME NEW mark, EmptyQueue(mark)
      PROVE  /\ wav' \in [Files -> SUBSET Texts]
             /\ done' \in [Files -> BOOLEAN]
  <2>1. wav' \in [Files -> SUBSET Texts]
    BY <1>4 DEF EmptyQueue, DiskTypes
  <2>2. done' \in [Files -> BOOLEAN]
    BY <1>4 DEF EmptyQueue
  <2> QED
    BY <2>1, <2>2
<1>5. CASE Caller
  <2>1. ASSUME NEW t \in Texts, enqueue(t) \/ prioritize(t)
        PROVE  DiskTypes'
    BY <1>1, <2>1 DEF enqueue, prioritize
  <2>2. ASSUME NEW t \in Texts, peek(t)
        PROVE  DiskTypes'
    <3>1. done' \in [Files -> BOOLEAN]
      BY <1>2, <2>2 DEF peek
    <3>2. UNCHANGED <<wav, taken>>
      BY <2>2 DEF peek
    <3> QED
      BY <3>1, <3>2 DEF DiskTypes
  <2>3. ASSUME NEW t \in Texts, useReady(t)
        PROVE  DiskTypes'
    <3>1. StatusOf(t) # "none"
      BY <2>3 DEF useReady, CanFinalize
    <3>2. queue[t] \in Files
      BY <3>1, QueuedFile, StatusQueued
    <3>3. UNCHANGED wav /\ taken' = taken \union {queue[t]}
      BY <2>3 DEF useReady
    <3>4. CASE UNCHANGED done
      BY <3>2, <3>3, <3>4 DEF DiskTypes
    <3>5. CASE done' = [done EXCEPT ![queue[t]] = FALSE]
      <4>1. done' \in [Files -> BOOLEAN]
        BY <1>2, <3>5
      <4> QED
        BY <3>2, <3>3, <4>1 DEF DiskTypes
    <3> QED
      BY <2>3, <3>4, <3>5 DEF useReady
  <2>4. CASE kick \/ killOrphanProcesses \/ unabandon \/ stopServers
    BY <1>1, <2>4 DEF kick, killOrphanProcesses, unabandon, stopServers
  <2>5. ASSUME NEW f \in Files, played(f)
        PROVE  DiskTypes'
    <3>1. wav' \in [Files -> SUBSET Texts]
      BY <1>3, <2>5 DEF played
    <3>2. taken' = taken \ {f} /\ UNCHANGED done
      BY <2>5 DEF played
    <3> QED
      BY <3>1, <3>2 DEF DiskTypes
  <2>6. CASE cleanQueue
    BY <1>4, <2>6 DEF cleanQueue, DiskTypes
  <2>7. CASE setRate \/ shutdown \/ abandon
    <3>1. PICK mark : StopAndClean(mark)
      BY <2>7 DEF setRate, shutdown, abandon
    <3> QED
      BY <1>4, <3>1 DEF StopAndClean, DiskTypes
  <2> QED
    BY <1>5, <2>1, <2>2, <2>3, <2>4, <2>5, <2>6, <2>7 DEF Caller
<1>6. CASE Launch
  BY <1>1, <1>6 DEF Launch, LaunchRefused, startServers, LaunchNothing, Returns,
    LaunchFallback, LaunchBatch, LaunchAfterFailure
<1>7. CASE PollStep
  <2>1. PICK i \in 1..Len(polls) : PollAt(i)
    BY <1>7 DEF PollStep
  <2>2. UNCHANGED taken
    BY <2>1 DEF PollAt, PollGone, PollTimeout, PollServer, PollProcess, PollEnds
  <2>3. CASE PollGone(i)
    <3>1. /\ wav' = [wav EXCEPT ![Primary(polls[i])] = {}]
          /\ done' = [done EXCEPT ![Primary(polls[i])] = FALSE]
      BY <2>3 DEF PollGone
    <3> QED
      BY <1>2, <1>3, <2>2, <3>1 DEF DiskTypes
  <2>4. CASE PollTimeout(i)
    BY <1>1, <2>2, <2>4 DEF PollTimeout
  <2>5. CASE PollProcess(i)
    <3>1. UNCHANGED wav /\ done' = [done EXCEPT ![Primary(polls[i])] = FALSE]
      BY <2>5 DEF PollProcess
    <3>2. done' \in [Files -> BOOLEAN]
      BY <1>2, <3>1
    <3> QED
      BY <2>2, <3>1, <3>2 DEF DiskTypes
  <2>6. CASE PollServer(i)
    <3> DEFINE p == polls[i]
               heard == wav[Primary(p)]
    <3>1. done' \in [Files -> BOOLEAN]
      BY <1>2, <2>6 DEF PollServer
    <3>5. p \in Poll
      BY ElementOfSeq
    <3>2. p.texts \in Seq(Texts) /\ p.files \in Seq(Files)
      BY <3>5 DEF Poll
    <3>3. CASE UNCHANGED wav
      BY <2>2, <3>1, <3>3 DEF DiskTypes
    <3>4. CASE wav' = [f \in Files |->
             IF f \in Range(p.files)
             THEN IF heard = Range(p.texts) THEN Piece(p, f) ELSE heard
             ELSE wav[f]]
      <4>1. ASSUME NEW f \in Files, f \in Range(p.files)
            PROVE  Piece(p, f) \subseteq Texts
        BY <3>2, ElementOfSeq DEF Piece
      <4>2. ASSUME NEW f \in Files, f \in Range(p.files)
            PROVE  heard = Range(p.texts) \/ heard \subseteq Texts
        <5>1. CASE Primary(p) \in Files
          BY <5>1 DEF DiskTypes
        <5>2. CASE Primary(p) \notin Files
          <6>1. 1 \in 1..Len(p.files)
            BY <3>2, <4>2 DEF Range
          <6> QED
            BY <3>2, <5>2, <6>1, ElementOfSeq DEF Primary
        <5> QED
          BY <5>1, <5>2
      <4> HIDE DEF heard, p
      <4>3. \A f \in Files : wav[f] \subseteq Texts
        BY DEF DiskTypes
      <4>4. wav' \in [Files -> SUBSET Texts]
        BY <3>4, <4>1, <4>2, <4>3
      <4> QED
        BY <2>2, <3>1, <4>4 DEF DiskTypes
    <3> QED
      BY <2>6, <3>3, <3>4 DEF PollServer
  <2> QED
    BY <2>1, <2>3, <2>4, <2>5, <2>6 DEF PollAt
<1>8. CASE Check
  BY <1>1, <1>8 DEF Check, ServersReady, StartTimeout
<1>9. CASE Work
  <2>1. ASSUME NEW i \in Servers, ServerUp(i) \/ ServerDies(i)
        PROVE  DiskTypes'
    BY <1>1, <2>1 DEF ServerUp, ServerDies, World
  <2>2. ASSUME NEW i \in Servers, ServerDone(i)
        PROVE  DiskTypes'
    <3>1. requests[i] \in Seq(Request) /\ requests[i] # <<>>
      BY <2>2 DEF ServerDone, WorkTypes
    <3>6. Head(requests[i]) \in Request
      BY <3>1, HeadTailProperties
    <3>2. Head(requests[i]).texts \in SUBSET Texts
      BY <3>6 DEF Request
    <3>7. PICK failed : wav' = Synthesised(Head(requests[i]).file, Head(requests[i]).texts, failed)
      BY <2>2 DEF ServerDone
    <3>3. wav' \in [Files -> SUBSET Texts]
      BY <3>2, <3>7, SynthesisedTypes
    <3>4. done' \in [Files -> BOOLEAN]
      BY <1>2, <2>2 DEF ServerDone
    <3>5. UNCHANGED taken
      BY <2>2 DEF ServerDone, World
    <3> QED
      BY <3>3, <3>4, <3>5 DEF DiskTypes
  <2>3. ASSUME NEW i \in 1..Len(procs), ProcessDone(i)
        PROVE  DiskTypes'
    <3>5. procs[i] \in Process
      BY ElementOfSeq DEF WorkTypes
    <3>1. procs[i].text \in Texts
      BY <3>5 DEF Process
    <3>2. wav' \in [Files -> SUBSET Texts]
      <4>1. CASE UNCHANGED wav
        BY <4>1 DEF DiskTypes
      <4>2. CASE \E failed : wav' = Synthesised(procs[i].file, {procs[i].text}, failed)
        <5>1. {procs[i].text} \in SUBSET Texts
          BY <3>1
        <5> QED
          BY <4>2, <5>1, SynthesisedTypes
      <4> QED
        BY <2>3, <4>1, <4>2 DEF ProcessDone
    <3>3. done' \in [Files -> BOOLEAN]
      BY <1>2, <2>3 DEF ProcessDone
    <3>4. UNCHANGED taken
      BY <2>3 DEF ProcessDone, World
    <3> QED
      BY <3>2, <3>3, <3>4 DEF DiskTypes
  <2> QED
    BY <1>9, <2>1, <2>2, <2>3 DEF Work
<1>10. CASE UNCHANGED vars
  BY <1>1, <1>10 DEF vars
<1> QED
  BY <1>5, <1>6, <1>7, <1>8, <1>9, <1>10 DEF Next

LEMMA TypeStep ==
  ASSUME Limits, TypeOK, [Next]_vars
  PROVE  TypeOK'
<1>1. QueueTypes /\ CountTypes /\ FlagTypes /\ WorkTypes /\ DiskTypes /\ polls \in Seq(Poll)
  BY TypeGroups
<1>2. QueueTypes'
  BY <1>1, QueueTypesStep
<1>3. CountTypes'
  BY <1>1, CountTypesStep
<1>4. FlagTypes'
  BY <1>1, FlagTypesStep
<1>5. WorkTypes'
  BY <1>1, <1>3, WorkTypesStep
<1>6. DiskTypes'
  BY <1>1, DiskTypesStep
<1>7. (polls \in Seq(Poll))'
  BY <1>1, PollTypesStep
<1> QED
  BY <1>2, <1>3, <1>4, <1>5, <1>6, <1>7, TypeGroups
  DEF TypeOK, QueueTypes, CountTypes, FlagTypes, WorkTypes, DiskTypes

-----------------------------------------------------------------------------
(* Who settles a pending entry.  File names are never used twice, so what  *)
(* a poll closed over still tells whose entry a file is: the argument is   *)
(* about the set of scheduled polls, not about their order.                *)

Scheduled == {polls[i] : i \in 1..Len(polls)}

\* A poll closes over one file for each text: one for a process, and one on
\* devices with several cores.
Matched ==
  \A p \in Scheduled :
    /\ p \in Poll /\ Len(p.files) = Len(p.texts) /\ 1 \in 1..Len(p.files)
    /\ p.kind = "process" \/ cores > 1 =>
         \A k \in 1..Len(p.files) : k = 1

\* A file a poll closed over is still that text's, or no entry's.
OwnTexts ==
  \A p \in Scheduled : \A k \in 1..Len(p.files) :
    \A t \in Texts : queue[t] = p.files[k] => t = p.texts[k]

\* No two texts share a file.
OwnFiles == \A t, u \in Texts : Queued(t) /\ queue[t] = queue[u] => t = u

\* The two safety properties, on the set of polls.
Settlers ==
  \A t \in Texts : StatusOf(t) = "pending" /\ marker[queue[t]] =>
    \E p \in Scheduled : p.kind = "process" /\ p.files[1] = queue[t]
Owners ==
  cores > 1 => \A t \in Texts : StatusOf(t) = "pending" =>
    \E p \in Scheduled : p.files[1] = queue[t]

Ownership == Matched /\ OwnTexts /\ OwnFiles /\ Settlers /\ Owners
IInv == TypeOK /\ Ownership

\* The set of scheduled polls when one is scheduled and when one ends.
LEMMA ScheduledAppend ==
  ASSUME polls \in Seq(Poll), NEW e \in Poll, polls' = Append(polls, e)
  PROVE  Scheduled' = Scheduled \union {e}
<1>1. Len(polls) \in Nat
  BY LenProperties
<1>2. /\ Len(polls') = Len(polls) + 1
      /\ \A i \in 1..Len(polls) : polls'[i] = polls[i]
      /\ polls'[Len(polls) + 1] = e
  BY AppendProperties
<1>3. \A i \in 1..Len(polls) + 1 : i \in 1..Len(polls) \/ i = Len(polls) + 1
  BY <1>1
<1>4. \A i \in 1..Len(polls) : i \in 1..Len(polls) + 1
  BY <1>1
<1>5. Len(polls) + 1 \in 1..Len(polls) + 1
  BY <1>1
<1>6. Scheduled' = {polls'[i] : i \in 1..Len(polls) + 1}
  BY <1>2 DEF Scheduled
<1> QED
  BY <1>2, <1>3, <1>4, <1>5, <1>6 DEF Scheduled

LEMMA ScheduledRemove ==
  ASSUME polls \in Seq(Poll), NEW i \in 1..Len(polls),
         polls' = RemoveAt(polls, i)
  PROVE  /\ Scheduled' \subseteq Scheduled
         /\ Scheduled \subseteq Scheduled' \union {polls[i]}
<1> DEFINE n == Len(polls) - 1
<1>1. Len(polls) \in Nat
  BY LenProperties
<1>2. /\ Len(polls') = n
      /\ \A j \in 1..n : polls'[j] = IF j < i THEN polls[j] ELSE polls[j + 1]
  BY RemoveAtProperties
<1>3. Scheduled' = {polls'[j] : j \in 1..n}
  BY <1>2 DEF Scheduled
<1>4. ASSUME NEW j \in 1..n PROVE polls'[j] \in Scheduled
  <2>1. j \in 1..Len(polls) /\ j + 1 \in 1..Len(polls)
    BY <1>1
  <2>2. polls'[j] = polls[j] \/ polls'[j] = polls[j + 1]
    BY <1>2
  <2> HIDE DEF n
  <2> QED
    BY <2>1, <2>2 DEF Scheduled
<1>5. ASSUME NEW j \in 1..Len(polls), j # i PROVE polls[j] \in Scheduled'
  <2>1. CASE j < i
    <3>1. j \in 1..n
      BY <1>1, <2>1
    <3>2. polls'[j] = polls[j]
      BY <1>2, <2>1, <3>1
    <3> HIDE DEF n
    <3> QED
      BY <1>3, <3>1, <3>2
  <2>2. CASE i < j
    <3>1. j - 1 \in 1..n /\ ~ (j - 1 < i) /\ (j - 1) + 1 = j
      BY <1>1, <2>2
    <3>2. polls'[j - 1] = polls[j]
      BY <1>2, <3>1
    <3> HIDE DEF n
    <3> QED
      BY <1>3, <3>1, <3>2
  <2> QED
    BY <1>1, <1>5, <2>1, <2>2
<1> HIDE DEF n
<1> QED
  BY <1>3, <1>4, <1>5 DEF Scheduled

\* The entries of the queue may go, polls may end, statuses may change to
\* anything but pending, and no pending entry gets its marker back or loses
\* the poll that is to settle it: nothing more is owed.
LEMMA Quieter ==
  ASSUME Limits, Ownership, UNCHANGED cores, Scheduled' \subseteq Scheduled,
         \A t \in Texts : queue'[t] = queue[t] \/ queue'[t] = NoFile,
         \A t \in Texts : StatusOf(t)' = "pending" =>
           /\ queue'[t] = queue[t] /\ StatusOf(t) = "pending"
           /\ marker'[queue[t]] => marker[queue[t]]
           /\ \A p \in Scheduled \ Scheduled' : p.files[1] = queue[t] =>
                p.kind # "process" /\ ~ (cores > 1)
  PROVE  Ownership'
<1>1. NoFile \notin Files
  BY DEF Limits, NoFile
<1>2. Matched'
  BY DEF Ownership, Matched
<1>3. ASSUME NEW p \in Scheduled', NEW k \in 1..Len(p.files), NEW t \in Texts,
             queue'[t] = p.files[k]
      PROVE  t = p.texts[k]
  <2>1. p \in Scheduled /\ p \in Poll
    BY DEF Ownership, Matched
  <2>2. p.files \in Seq(Files)
    BY <2>1 DEF Poll
  <2>3. p.files[k] \in Files
    BY <2>2, ElementOfSeq
  <2>4. queue[t] = p.files[k]
    BY <1>1, <1>3, <2>3
  <2> QED
    BY <2>1, <2>4 DEF Ownership, OwnTexts
<1>4. OwnTexts'
  BY <1>3 DEF OwnTexts
<1>5. OwnFiles'
  BY DEF Ownership, OwnFiles, Queued
<1>6. Settlers'
  BY DEF Ownership, Settlers
<1>7. Owners'
  BY DEF Ownership, Owners
<1> QED
  BY <1>2, <1>4, <1>5, <1>6, <1>7 DEF Ownership

\* A poll is scheduled for entries the queue has now: they may become
\* pending, without their markers unless the poll is a process's.
LEMMA Louder ==
  ASSUME Limits, Ownership, UNCHANGED <<cores, queue>>, NEW e \in Poll,
         Scheduled' = Scheduled \union {e},
         Len(e.files) = Len(e.texts), 1 \in 1..Len(e.files),
         e.kind = "process" \/ cores > 1 => \A k \in 1..Len(e.files) : k = 1,
         \A k \in 1..Len(e.files) :
           e.texts[k] \in Texts /\ Queued(e.texts[k]) /\ queue[e.texts[k]] = e.files[k],
         \A t \in Texts : StatusOf(t)' = "pending" =>
           \/ /\ StatusOf(t) = "pending"
              /\ marker'[queue[t]] => marker[queue[t]]
           \/ \E k \in 1..Len(e.files) :
                t = e.texts[k] /\ (e.kind = "process" \/ ~ marker'[queue[t]])
  PROVE  Ownership'
<1>1. Matched'
  BY DEF Ownership, Matched
<1>2. ASSUME NEW p \in Scheduled', NEW k \in 1..Len(p.files), NEW t \in Texts,
             queue'[t] = p.files[k]
      PROVE  t = p.texts[k]
  <2>1. CASE p \in Scheduled
    BY <1>2, <2>1 DEF Ownership, OwnTexts
  <2>2. CASE p = e
    <3>1. e.texts[k] \in Texts /\ Queued(e.texts[k]) /\ queue[e.texts[k]] = queue[t]
      BY <1>2, <2>2
    <3>2. \A u \in Texts : Queued(u) /\ queue[u] = queue[t] => u = t
      BY DEF Ownership, OwnFiles
    <3> QED
      BY <2>2, <3>1, <3>2
  <2> QED
    BY <2>1, <2>2
<1>3. OwnTexts'
  BY <1>2 DEF OwnTexts
<1>4. OwnFiles'
  BY DEF Ownership, OwnFiles, Queued
<1>5. ASSUME NEW t \in Texts, StatusOf(t)' = "pending", marker'[queue[t]]
      PROVE  \E p \in Scheduled' : p.kind = "process" /\ p.files[1] = queue[t]
  <2>1. CASE StatusOf(t) = "pending" /\ marker[queue[t]]
    BY <2>1 DEF Ownership, Settlers
  <2>2. CASE \E k \in 1..Len(e.files) : t = e.texts[k] /\ e.kind = "process"
    BY <2>2
  <2> QED
    BY <1>5, <2>1, <2>2
<1>6. Settlers'
  BY <1>5 DEF Settlers
<1>7. ASSUME cores > 1, NEW t \in Texts, StatusOf(t)' = "pending"
      PROVE  \E p \in Scheduled' : p.files[1] = queue[t]
  <2>1. CASE StatusOf(t) = "pending"
    BY <1>7, <2>1 DEF Ownership, Owners
  <2>2. CASE \E k \in 1..Len(e.files) : t = e.texts[k]
    BY <1>7, <2>2
  <2> QED
    BY <1>7, <2>1, <2>2
<1>8. Owners'
  BY <1>7 DEF Owners
<1> QED
  BY <1>1, <1>3, <1>4, <1>6, <1>8 DEF Ownership

\* A text is queued in a file nothing knows.
LEMMA EnqueueOwns ==
  ASSUME Limits, TypeOK, Ownership, NEW t \in Texts, enqueue(t)
  PROVE  Ownership'
<1>1. PICK f \in Files : /\ Fresh(f)
                         /\ queue' = [queue EXCEPT ![t] = f]
                         /\ status' = [status EXCEPT ![f] = "queued"]
                         /\ marker' = [marker EXCEPT ![f] = TRUE]
  BY DEF enqueue
<1>2. UNCHANGED <<cores, polls>> /\ Scheduled' = Scheduled
  BY DEF enqueue, Scheduled
<1>3. f # NoFile /\ NoFile \notin Files
  BY DEF Limits, NoFile
<1>4. \A u \in Texts : queue[u] # f
  BY <1>1 DEF Fresh, InUse, TypeOK, Range
<1>5. ASSUME NEW p \in Scheduled, NEW k \in 1..Len(p.files)
      PROVE  p.files[k] # f
  <2>1. PICK i \in 1..Len(polls) : p = polls[i]
    BY DEF Scheduled
  <2>2. f \notin Range(p.files)
    BY <1>1, <2>1 DEF Fresh, InUse
  <2>3. p.files \in Seq(Files)
    <3>1. p \in Poll
      BY DEF Ownership, Matched
    <3> QED
      BY <3>1 DEF Poll
  <2>4. DOMAIN p.files = 1..Len(p.files)
    BY <2>3, LenProperties
  <2> QED
    BY <2>2, <2>4 DEF Range
<1>6. \A u \in Texts : queue'[u] = IF u = t THEN f ELSE queue[u]
  BY <1>1 DEF TypeOK
<1>7. ASSUME NEW u \in Texts, StatusOf(u)' = "pending"
      PROVE  u # t /\ StatusOf(u) = "pending" /\ marker'[queue[u]] = marker[queue[u]]
  <2>1. queue'[u] # NoFile /\ status'[queue'[u]] = "pending"
    BY <1>7 DEF StatusOf, Queued
  <2>2. status'[f] = "queued"
    BY <1>1 DEF TypeOK
  <2>3. u # t /\ queue'[u] = queue[u] /\ queue[u] # f
    BY <1>4, <1>6, <2>1, <2>2
  <2>4. queue[u] \in Files
    BY <2>1, <2>3 DEF TypeOK
  <2>5. status'[queue[u]] = status[queue[u]]
    BY <1>1, <2>3, <2>4 DEF TypeOK
  <2>6. marker'[queue[u]] = marker[queue[u]]
    BY <1>1, <2>3, <2>4 DEF TypeOK
  <2> QED
    BY <2>1, <2>3, <2>5, <2>6 DEF StatusOf, Queued
<1>8. Matched'
  BY <1>2 DEF Ownership, Matched
<1>9. ASSUME NEW p \in Scheduled, NEW k \in 1..Len(p.files), NEW u \in Texts,
             queue'[u] = p.files[k]
      PROVE  u = p.texts[k]
  BY <1>5, <1>6, <1>9 DEF Ownership, OwnTexts
<1>10. OwnTexts'
  BY <1>2, <1>9 DEF OwnTexts
<1>11. OwnFiles'
  BY <1>3, <1>4, <1>6 DEF Ownership, OwnFiles, Queued
<1>12. Settlers'
  BY <1>2, <1>6, <1>7 DEF Ownership, Settlers
<1>13. Owners'
  BY <1>2, <1>6, <1>7 DEF Ownership, Owners
<1> QED
  BY <1>8, <1>10, <1>11, <1>12, <1>13 DEF Ownership

\* Whose status Marked sets: the entries the texts have now.
LEMMA MarkedStatus ==
  ASSUME Limits, TypeOK, UNCHANGED queue, NEW texts, NEW st,
         status' = Marked(texts, st), NEW t \in Texts, StatusOf(t)' = "pending"
  PROVE  /\ Queued(t)
         /\ (\E u \in texts : queue[u] = queue[t]) => st = "pending"
         /\ ~ (\E u \in texts : queue[u] = queue[t]) => StatusOf(t) = "pending"
<1>1. Queued(t) /\ status'[queue[t]] = "pending"
  BY DEF StatusOf, Queued
<1>2. queue[t] \in Files
  BY <1>1 DEF TypeOK, Queued
<1>3. status'[queue[t]] = IF \E u \in texts : queue[u] = queue[t] THEN st
                          ELSE status[queue[t]]
  BY <1>2 DEF Marked
<1> QED
  BY <1>1, <1>3 DEF StatusOf

\* After a rescue, and in an empty queue, nothing is pending.
LEMMA NothingPending ==
  ASSUME Limits, TypeOK, UNCHANGED queue, NEW stat, status' = Rescued(stat),
         NEW t \in Texts
  PROVE  StatusOf(t)' # "pending"
<1>1. CASE Queued(t)
  <2>1. queue[t] \in Files
    BY <1>1 DEF TypeOK, Queued
  <2>2. status'[queue[t]] # "pending"
    BY <2>1 DEF Rescued
  <2> QED
    BY <2>2 DEF StatusOf
<1>2. CASE ~Queued(t)
  BY <1>2 DEF StatusOf, Queued
<1> QED
  BY <1>1, <1>2

LEMMA EmptyPending ==
  ASSUME queue' = [t \in Texts |-> NoFile], NEW t \in Texts
  PROVE  StatusOf(t)' # "pending" /\ queue'[t] = NoFile
  BY DEF StatusOf, Queued

\* A poll that ends leaves no entry it was to settle pending, save the rest
\* of a batch whose first text has left the queue.
LEMMA PollSettles ==
  ASSUME Limits, TypeOK, Ownership, NEW i \in 1..Len(polls), PollAt(i)
  PROVE  Ownership'
<1> DEFINE p == polls[i]
<1>1. /\ PollEnds(i)
      /\ UNCHANGED <<queue, marker, cores>> /\ polls' = RemoveAt(polls, i)
  BY DEF PollAt, PollGone, PollTimeout, PollServer, PollProcess, PollEnds
<1>2. polls \in Seq(Poll)
  BY DEF TypeOK
<1>3. Scheduled' \subseteq Scheduled /\ Scheduled \ Scheduled' \subseteq {p}
  BY <1>1, <1>2, ScheduledRemove
<1>4. p \in Scheduled /\ p \in Poll /\ Len(p.files) = Len(p.texts) /\ 1 \in 1..Len(p.files)
  BY DEF Scheduled, Ownership, Matched
<1>5. p.texts \in Seq(Texts)
  BY <1>4 DEF Poll
<1>6. p.texts[1] \in Range(p.texts)
  <2>1. DOMAIN p.texts = 1..Len(p.texts)
    BY <1>5, LenProperties
  <2> QED
    BY <1>4, <2>1 DEF Range
<1>7. \A t \in Texts : queue[t] = p.files[1] => t = p.texts[1]
  BY <1>4 DEF Ownership, OwnTexts
<1>8. p.kind = "process" \/ cores > 1 => Len(p.texts) = 1
  <2>1. p.kind = "process" \/ cores > 1 => \A k \in 1..Len(p.texts) : k = 1
    BY <1>4 DEF Ownership, Matched
  <2>2. Len(p.texts) \in Nat
    BY <1>5, LenProperties
  <2>3. Len(p.texts) \in 1..Len(p.texts)
    BY <1>4, <2>2
  <2> QED
    BY <2>1, <2>3
<1> HIDE DEF p
<1>9. ASSUME NEW texts, NEW st, st # "pending", status' = Marked(texts, st),
             p.texts[1] \in texts
      PROVE  Ownership'
  <2>1. ASSUME NEW t \in Texts, StatusOf(t)' = "pending"
        PROVE  StatusOf(t) = "pending" /\ queue[t] # p.files[1]
    BY <1>1, <1>7, <1>9, <2>1, MarkedStatus
  <2> QED
    BY <1>1, <1>3, <2>1, Quieter
<1>10. CASE PollGone(i)
  <2>1. ~ Queued(p.texts[1]) /\ UNCHANGED status
    BY <1>10 DEF PollGone, p
  <2>2. ASSUME NEW t \in Texts, StatusOf(t)' = "pending"
        PROVE  StatusOf(t) = "pending" /\ queue[t] # p.files[1]
    <3>1. StatusOf(t) = "pending"
      BY <1>1, <2>1, <2>2 DEF StatusOf, Queued
    <3> QED
      BY <1>7, <2>1, <3>1, StatusQueued
  <2> QED
    BY <1>1, <1>3, <2>2, Quieter
<1>11. CASE PollTimeout(i)
  BY <1>6, <1>9, <1>11 DEF PollTimeout, p
<1>12. CASE PollProcess(i)
  <2>1. status' = Marked({p.texts[1]}, Outcome(Primary(p))) /\ Outcome(Primary(p)) # "pending"
    BY <1>12 DEF PollProcess, Outcome, p
  <2> QED
    BY <1>9, <2>1
<1>13. CASE PollServer(i)
  <2>1. CASE status' = Marked(Range(p.texts), "failed")
    BY <1>6, <1>9, <2>1
  <2>2. CASE status' = Marked(Range(p.texts), "ready")
    BY <1>6, <1>9, <2>2
  <2>3. CASE status' = ClosureReady(Primary(p))
    <3>1. ASSUME NEW t \in Texts, StatusOf(t)' = "pending"
          PROVE  StatusOf(t) = "pending" /\ queue[t] # p.files[1]
      <4>1. Queued(t) /\ status'[queue[t]] = "pending"
        BY <1>1, <3>1 DEF StatusOf, Queued
      <4>2. queue[t] \in Files /\ InQueue(queue[t])
        BY <4>1 DEF TypeOK, Queued, InQueue, Range
      <4>3. status'[queue[t]] = IF queue[t] = p.files[1] THEN "ready" ELSE status[queue[t]]
        BY <2>3, <4>2 DEF ClosureReady, TypeOK, Primary
      <4> QED
        BY <4>1, <4>3 DEF StatusOf
    <3> QED
      BY <1>1, <1>3, <3>1, Quieter
  <2>4. CASE /\ Len(p.texts) > 1
             /\ status' = [f \in Files |->
                  IF \E t \in Range(p.texts) \ {p.texts[1]} : queue[t] = f
                  THEN "failed"
                  ELSE IF f = Primary(p) /\ InQueue(f) THEN "ready" ELSE status[f]]
    <3>1. ASSUME NEW t \in Texts, StatusOf(t)' = "pending"
          PROVE  StatusOf(t) = "pending"
      <4>1. Queued(t) /\ status'[queue[t]] = "pending"
        BY <1>1, <3>1 DEF StatusOf, Queued
      <4>2. queue[t] \in Files
        BY <4>1 DEF TypeOK, Queued
      <4>3. status'[queue[t]] = status[queue[t]]
        BY <2>4, <4>1, <4>2
      <4> QED
        BY <4>1, <4>3 DEF StatusOf
    <3>3. Len(p.texts) # 1
      <4>1. Len(p.texts) \in Nat
        BY <1>5, LenProperties
      <4>2. Len(p.texts) > 1
        BY <2>4
      <4>3. \A n \in Nat : n > 1 => n # 1
        OBVIOUS
      <4> QED
        BY <4>1, <4>2, <4>3, Zenon
    <3>2. p.kind # "process" /\ ~ (cores > 1)
      BY <1>8, <3>3, Zenon
    <3> QED
      BY <1>1, <1>3, <3>1, <3>2, Quieter
  <2> QED
    BY <1>13, <2>1, <2>2, <2>3, <2>4 DEF PollServer, p
<1> QED
  BY <1>10, <1>11, <1>12, <1>13 DEF PollAt

\* A process is started for the first queued entry, beside a queue in which
\* nothing else becomes pending.
LEMMA ProcessOwns ==
  ASSUME Limits, TypeOK, Ownership, UNCHANGED <<cores, queue>>, NEW others,
         NEW at \in Batches(1), LaunchProcess(others, order[at[1]]),
         \A t \in Texts : StatusOf(t)' = "pending" =>
           \/ StatusOf(t) = "pending" /\ (marker'[queue[t]] => marker[queue[t]])
           \/ t = order[at[1]]
  PROVE  Ownership'
<1> DEFINE t == order[at[1]]
           e == [kind |-> "process", texts |-> <<t>>, files |-> <<queue[t]>>]
<1>1. t \in Texts /\ StatusOf(t) = "queued" /\ queue[t] \in Files /\ e \in Poll
  BY ProcessPoll, TypeGroups
<1>2. Queued(t)
  BY <1>1, StatusQueued
<1>3. polls' = Append(polls, e) /\ polls \in Seq(Poll)
  BY DEF LaunchProcess, TypeOK
<1>4. Scheduled' = Scheduled \union {e}
  <2> HIDE DEF e
  <2> QED
    BY <1>1, <1>3, ScheduledAppend
<1> HIDE DEF t
<1>5. /\ e.kind = "process" /\ Len(e.files) = 1 /\ Len(e.texts) = 1
      /\ e.texts[1] = t /\ e.files[1] = queue[t]
  OBVIOUS
<1>6. \A k \in 1..Len(e.files) : k = 1
  BY <1>5
<1>7. \A u \in Texts : StatusOf(u)' = "pending" =>
           \/ StatusOf(u) = "pending" /\ (marker'[queue[u]] => marker[queue[u]])
           \/ u = t
  BY DEF t
<1>8. 1 \in 1..Len(e.files)
  BY <1>5
<1> HIDE DEF e
<1>9. \A k \in 1..Len(e.files) :
           e.texts[k] \in Texts /\ Queued(e.texts[k]) /\ queue[e.texts[k]] = e.files[k]
  BY <1>1, <1>2, <1>5, <1>6
<1>10. \A u \in Texts : StatusOf(u)' = "pending" =>
           \/ /\ StatusOf(u) = "pending"
              /\ marker'[queue[u]] => marker[queue[u]]
           \/ \E k \in 1..Len(e.files) :
                u = e.texts[k] /\ (e.kind = "process" \/ ~ marker'[queue[u]])
  BY <1>5, <1>7, <1>8
<1> QED
  BY <1>1, <1>4, <1>5, <1>6, <1>8, <1>9, <1>10, Louder

\* A batch is sent to a server: its entries lose their markers.
LEMMA BatchOwns ==
  ASSUME Limits, TypeOK, Ownership, LaunchBatch
  PROVE  Ownership'
<1>0. QueueTypes /\ CountTypes /\ polls \in Seq(Poll)
  BY TypeGroups
<1>1. UNCHANGED <<cores, queue>>
  BY DEF LaunchBatch
<1>2. PICK n \in BatchSizes : \E at \in Batches(n) :
        /\ status' = Marked(Range(TextsAt(at)), "pending")
        /\ marker' = Unmarked(FilesOf(TextsAt(at)))
        /\ polls' = Append(polls, [kind |-> "server", texts |-> TextsAt(at),
                                    files |-> FilesOf(TextsAt(at))])
  BY DEF LaunchBatch
<1>3. PICK at \in Batches(n) :
        /\ status' = Marked(Range(TextsAt(at)), "pending")
        /\ marker' = Unmarked(FilesOf(TextsAt(at)))
        /\ polls' = Append(polls, [kind |-> "server", texts |-> TextsAt(at),
                                    files |-> FilesOf(TextsAt(at))])
  BY <1>2
<1> DEFINE texts == TextsAt(at)
           files == FilesOf(texts)
           e == [kind |-> "server", texts |-> texts, files |-> files]
<1>4. n \in Nat /\ (cores > 1 => n = 1)
  BY <1>0, BatchSizeTypes
<1>5. /\ Len(at) \in 1..n
      /\ \A k \in 1..Len(at) : at[k] \in 1..Len(order)
      /\ texts \in Seq(Texts) /\ Len(texts) = Len(at)
      /\ \A k \in 1..Len(at) : texts[k] = order[at[k]]
      /\ \A k \in 1..Len(at) : StatusOf(order[at[k]]) = "queued"
      /\ files \in Seq(Files) /\ Len(files) = Len(at)
      /\ \A k \in 1..Len(at) : files[k] = queue[texts[k]]
  BY <1>0, <1>4, BatchTypes
<1> HIDE DEF texts, files
<1>6. e \in Poll
  BY <1>5 DEF Poll
<1>7. e.kind = "server" /\ e.texts = texts /\ e.files = files
  OBVIOUS
<1>8. Scheduled' = Scheduled \union {e}
  <2>1. polls' = Append(polls, e)
    BY <1>3 DEF texts, files
  <2> HIDE DEF e
  <2> QED
    BY <1>0, <1>6, <2>1, ScheduledAppend
<1> HIDE DEF e
<1>9. 1 \in 1..Len(e.files) /\ Len(e.files) = Len(e.texts)
  BY <1>4, <1>5, <1>7
<1>10. e.kind = "process" \/ cores > 1 => \A k \in 1..Len(e.files) : k = 1
  <2>1. n = 1 => \A k \in 1..Len(files) : k = 1
    BY <1>5
  <2> QED
    BY <1>4, <1>7, <2>1
<1>11. ASSUME NEW k \in 1..Len(e.files)
       PROVE  e.texts[k] \in Texts /\ Queued(e.texts[k]) /\ queue[e.texts[k]] = e.files[k]
  <2>1. k \in 1..Len(texts) /\ k \in 1..Len(at)
    BY <1>5, <1>7
  <2>2. texts[k] \in Texts
    BY <1>5, <2>1, ElementOfSeq
  <2>3. StatusOf(texts[k]) = "queued" /\ files[k] = queue[texts[k]]
    BY <1>5, <2>1
  <2> QED
    BY <1>7, <2>2, <2>3, StatusQueued
<1>12. ASSUME NEW t \in Texts, StatusOf(t)' = "pending"
       PROVE  \/ /\ StatusOf(t) = "pending"
                 /\ marker'[queue[t]] => marker[queue[t]]
              \/ \E k \in 1..Len(e.files) :
                   t = e.texts[k] /\ (e.kind = "process" \/ ~ marker'[queue[t]])
  <2>1. /\ Queued(t)
        /\ ~ (\E u \in Range(texts) : queue[u] = queue[t]) => StatusOf(t) = "pending"
    BY <1>1, <1>3, <1>12, MarkedStatus DEF texts
  <2>2. queue[t] \in Files
    BY <2>1 DEF TypeOK, Queued
  <2>3. marker'[queue[t]] => marker[queue[t]] /\ queue[t] \notin Range(files)
    BY <1>3, <2>2 DEF Unmarked, files, texts
  <2>4. ASSUME NEW u \in Range(texts), queue[u] = queue[t]
        PROVE  \E k \in 1..Len(e.files) : t = e.texts[k] /\ ~ marker'[queue[t]]
    <3>1. DOMAIN texts = 1..Len(texts) /\ DOMAIN files = 1..Len(files)
      BY <1>5, LenProperties
    <3>2. PICK k \in 1..Len(e.files) : u = e.texts[k]
      BY <1>5, <1>7, <3>1 DEF Range
    <3>3. u \in Texts /\ Queued(u) /\ queue[u] = files[k]
      BY <1>7, <1>11, <3>2
    <3>4. u = t
      BY <2>4, <3>3 DEF Ownership, OwnFiles
    <3>5. files[k] \in Range(files)
      BY <1>7, <3>1 DEF Range
    <3> QED
      BY <2>3, <3>2, <3>3, <3>4, <3>5
  <2> QED
    BY <2>1, <2>3, <2>4
<1> QED
  BY <1>1, <1>6, <1>8, <1>9, <1>10, <1>11, <1>12, Louder

\* Every step of the queue keeps the ownership of pending entries.
LEMMA OwnershipStep ==
  ASSUME Limits, TypeOK, Ownership, [Next]_vars
  PROVE  Ownership'
<1>0. QueueTypes
  BY TypeGroups
<1>1. ASSUME UNCHANGED <<cores, queue, status, marker, polls>>
      PROVE  Ownership'
  <2>1. Scheduled' = Scheduled /\ \A t \in Texts : StatusOf(t)' = StatusOf(t)
    BY <1>1 DEF Scheduled, StatusOf, Queued
  <2> QED
    BY <1>1, <2>1, Quieter
<1>2. ASSUME UNCHANGED <<cores, polls>>, queue' = [t \in Texts |-> NoFile]
      PROVE  Ownership'
  <2>1. Scheduled' = Scheduled /\ \A t \in Texts : queue'[t] = NoFile
    BY <1>2 DEF Scheduled
  <2>2. \A t \in Texts : StatusOf(t)' # "pending"
    BY <1>2, EmptyPending
  <2> QED
    BY <1>2, <2>1, <2>2, Quieter
<1>3. CASE Caller
  <2>1. ASSUME NEW t \in Texts, enqueue(t)
        PROVE  Ownership'
    BY <2>1, EnqueueOwns
  <2>2. ASSUME NEW t \in Texts, prioritize(t)
        PROVE  Ownership'
    BY <1>1, <2>2 DEF prioritize
  <2>3. ASSUME NEW t \in Texts, peek(t)
        PROVE  Ownership'
    <3>1. /\ UNCHANGED <<cores, queue, marker, polls>>
          /\ status' = Marked({t}, Outcome(queue[t])) /\ Outcome(queue[t]) # "pending"
      BY <2>3 DEF peek, serverVars, Outcome
    <3>2. Scheduled' = Scheduled
      BY <3>1 DEF Scheduled
    <3>3. \A u \in Texts : StatusOf(u)' = "pending" => StatusOf(u) = "pending"
      BY <3>1, MarkedStatus
    <3> QED
      BY <3>1, <3>2, <3>3, Quieter
  <2>4. ASSUME NEW t \in Texts, useReady(t)
        PROVE  Ownership'
    <3>1. /\ UNCHANGED <<cores, polls>> /\ queue' = [queue EXCEPT ![t] = NoFile]
          /\ status' = [status EXCEPT ![queue[t]] = "none"]
          /\ marker' = [marker EXCEPT ![queue[t]] = FALSE]
      BY <2>4 DEF useReady
    <3>2. Scheduled' = Scheduled
      BY <3>1 DEF Scheduled
    <3>3. \A u \in Texts : queue'[u] = IF u = t THEN NoFile ELSE queue[u]
      BY <3>1 DEF TypeOK
    <3>4. ASSUME NEW u \in Texts, StatusOf(u)' = "pending"
          PROVE  /\ queue'[u] = queue[u] /\ StatusOf(u) = "pending"
                 /\ marker'[queue[u]] => marker[queue[u]]
      <4>1. queue'[u] # NoFile /\ status'[queue'[u]] = "pending"
        BY <3>4 DEF StatusOf, Queued
      <4>2. u # t /\ queue'[u] = queue[u] /\ queue[u] \in Files
        BY <3>3, <4>1 DEF TypeOK
      <4>3. status'[queue[u]] = status[queue[u]]
        BY <3>1, <4>1, <4>2 DEF TypeOK
      <4>4. marker'[queue[u]] => marker[queue[u]]
        BY <3>1, <4>2 DEF TypeOK
      <4> QED
        BY <4>1, <4>2, <4>3, <4>4 DEF StatusOf, Queued
    <3> QED
      BY <3>1, <3>2, <3>3, <3>4, Quieter
  <2>5. CASE kick \/ killOrphanProcesses \/ unabandon
    BY <1>1, <2>5 DEF kick, killOrphanProcesses, unabandon, queueVars
  <2>6. ASSUME NEW f \in Files, played(f)
        PROVE  Ownership'
    BY <1>1, <2>6 DEF played, queueVars
  <2>7. CASE cleanQueue
    BY <1>2, <2>7 DEF cleanQueue, EmptyQueue
  <2>8. CASE stopServers
    <3>1. UNCHANGED <<cores, queue, polls>> /\ status' = Rescued(status)
      BY <2>8 DEF stopServers, StopServers
    <3>2. Scheduled' = Scheduled
      BY <3>1 DEF Scheduled
    <3>3. \A t \in Texts : StatusOf(t)' # "pending"
      BY <3>1, NothingPending
    <3> QED
      BY <3>1, <3>2, <3>3, Quieter
  <2>9. CASE setRate \/ shutdown \/ abandon
    BY <1>2, <2>9 DEF setRate, shutdown, abandon, StopAndClean, EmptyQueue
  <2> QED
    BY <1>3, <2>1, <2>2, <2>3, <2>4, <2>5, <2>6, <2>7, <2>8, <2>9 DEF Caller
<1>4. CASE Launch
  <2>1. CASE LaunchRefused \/ startServers \/ LaunchNothing
    BY <1>1, <2>1 DEF LaunchRefused, startServers, LaunchNothing, Returns, queueVars
  <2>2. CASE LaunchFallback
    <3>1. UNCHANGED <<cores, queue, marker>>
      BY <2>2 DEF LaunchFallback
    <3>2. PICK at \in Batches(1) : /\ status' = Marked({order[at[1]]}, "pending")
                                   /\ LaunchProcess(procs, order[at[1]])
      BY <2>2 DEF LaunchFallback
    <3>3. order[at[1]] \in Texts /\ Queued(order[at[1]])
      BY <1>0, ProcessPoll, StatusQueued
    <3>4. ASSUME NEW u \in Texts, StatusOf(u)' = "pending"
          PROVE  StatusOf(u) = "pending" \/ u = order[at[1]]
      <4>1. queue[order[at[1]]] = queue[u] \/ StatusOf(u) = "pending"
        BY <3>1, <3>2, <3>4, MarkedStatus
      <4> QED
        BY <3>3, <4>1 DEF Ownership, OwnFiles
    <3> QED
      BY <3>1, <3>2, <3>4, ProcessOwns
  <2>3. CASE LaunchBatch
    BY <2>3, BatchOwns
  <2>4. CASE LaunchAfterFailure
    <3>1. UNCHANGED <<cores, queue>> /\ status' = Rescued(status)
      BY <2>4 DEF LaunchAfterFailure
    <3>2. PICK at \in Batches(1) : LaunchProcess(Killed, order[at[1]])
      BY <2>4 DEF LaunchAfterFailure
    <3>3. \A t \in Texts : StatusOf(t)' # "pending"
      BY <3>1, NothingPending
    <3> QED
      BY <3>1, <3>2, <3>3, ProcessOwns
  <2> QED
    BY <1>4, <2>1, <2>2, <2>3, <2>4 DEF Launch
<1>5. CASE PollStep
  BY <1>5, PollSettles DEF PollStep
<1>6. CASE Check
  BY <1>1, <1>6 DEF Check, ServersReady, StartTimeout, queueVars
<1>7. CASE Work
  BY <1>1, <1>7 DEF Work, ServerUp, ServerDies, ServerDone, ProcessDone, World,
    queueVars
<1>8. CASE UNCHANGED vars
  BY <1>1, <1>8 DEF vars, queueVars
<1> QED
  BY <1>3, <1>4, <1>5, <1>6, <1>7, <1>8 DEF Next

LEMMA Initially ==
  ASSUME Limits, Init
  PROVE  IInv
<1>1. QueueTypes
  BY DEF Init, QueueTypes
<1>2. CountTypes
  <2>2. cores \in Cores
    BY DEF Init
  <2>1. Pool \in Nat
    BY <2>2, PoolTypes
  <2> QED
    BY <2>1 DEF Init, CountTypes, START_ATTEMPTS
<1>3. FlagTypes /\ DiskTypes
  BY DEF Init, FlagTypes, DiskTypes
<1>4. WorkTypes
  BY EmptySeq DEF Init, WorkTypes
<1>5. polls \in Seq(Poll) /\ Len(polls) = 0
  BY EmptySeq DEF Init
<1>6. TypeOK
  BY <1>1, <1>2, <1>3, <1>4, <1>5, TypeGroups
<1>7. Scheduled = {}
  BY <1>5 DEF Scheduled
<1>8. \A t \in Texts : ~Queued(t) /\ StatusOf(t) = "none"
  BY DEF Init, Queued, StatusOf
<1>9. Ownership
  BY <1>7, <1>8 DEF Ownership, Matched, OwnTexts, OwnFiles, Settlers, Owners
<1> QED
  BY <1>6, <1>9 DEF IInv

\* The inductive invariant holds throughout.
LEMMA Invariance == Spec => []IInv
<1>1. Init => IInv
  BY Initially, Limits
<1>2. IInv /\ [Next]_vars => IInv'
  BY TypeStep, OwnershipStep, Limits DEF IInv
<1> QED
  BY <1>1, <1>2, PTL DEF Spec

\* Every variable keeps its type through stops, rescues, cleanups and late
\* polls: the count of busy slots never goes below zero, every WAV holds
\* sentences of the book, and every closure is one of texts and their files.
THEOREM Types == Spec => []TypeOK
<1>1. IInv => TypeOK
  BY DEF IInv
<1> QED
  BY <1>1, Invariance, PTL

\* Only an entry with a process of its own may be settled early, by
\* tryFinalize: a rescued entry, which has its marker back, is not pending
\* again before it has lost it to a batch or has such a process.
THEOREM FinalizesProcesses == Spec => []FinalizeIsForProcesses
<1>1. IInv => FinalizeIsForProcesses
  BY DEF IInv, Ownership, Settlers, FinalizeIsForProcesses, Scheduled, Primary
<1> QED
  BY <1>1, Invariance, PTL

\* With several cores, whatever was stopped, cleaned or queued again, a
\* pending entry has a scheduled poll over its own file.
THEOREM PendingOwned == Spec => []PendingIsOwned
<1>1. ASSUME IInv, cores > 1, NEW t \in Texts, StatusOf(t) = "pending"
      PROVE  \E i \in 1..Len(polls) : queue[t] \in Range(polls[i].files)
  <2>1. PICK p \in Scheduled : p.files[1] = queue[t]
    BY <1>1 DEF IInv, Ownership, Owners
  <2>2. PICK i \in 1..Len(polls) : p = polls[i]
    BY DEF Scheduled
  <2>3. p \in Poll /\ 1 \in 1..Len(p.files)
    BY <1>1 DEF IInv, Ownership, Matched
  <2>4. p.files \in Seq(Files)
    BY <2>3 DEF Poll
  <2>5. DOMAIN p.files = 1..Len(p.files)
    BY <2>4, LenProperties
  <2> QED
    BY <2>1, <2>2, <2>3, <2>5 DEF Range
<1>2. IInv => PendingIsOwned
  BY <1>1 DEF PendingIsOwned
<1> QED
  BY <1>2, Invariance, PTL

=============================================================================
