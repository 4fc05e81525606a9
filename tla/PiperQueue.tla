---------------------------- MODULE PiperQueue -----------------------------
(***************************************************************************)
(* The synthesis queue of piperqueue.lua: sentences queued by text,        *)
(* dispatched in batches to persistent servers or one at a time to a       *)
(* process of their own, and collected by polls of marker files.           *)
(*                                                                         *)
(* The Lua code runs on one UI thread.  A call of launchNext is always the *)
(* last thing a handler does, so `launching` says that one is due and no   *)
(* other handler runs before it returns; its recursion is the same flag    *)
(* left up.  Servers and processes run beside it.                          *)
(*                                                                         *)
(* What outlives a handler is a scheduled callback: a poll, which closes   *)
(* over the texts and files of its batch and is never cancelled, and       *)
(* checkServersReady.  Stopping servers or cleaning the queue leaves both. *)
(***************************************************************************)
EXTENDS Integers, Sequences, SequencesExt

CONSTANTS
  Texts,               \* sentences
  Watched,     \* the sentences whose progress is followed
  Cores,       \* numbers of cores a device may have
  OneServer,   \* the backend is sanoTTS, which runs one server
  Faults,      \* "lowmem", "die", "synth", "split": what may go wrong
  Files,       \* WAV names in use at a time: a bound for checking
  MaxResets    \* stops, cleanups and deaths of servers: a bound

ASSUME Limits ==
  /\ Cores \subseteq Nat \ {0}
  /\ Watched \subseteq Texts
  /\ OneServer \in BOOLEAN
  /\ Files \subseteq Nat \ {0}
  /\ MaxResets \in Nat

PROCESSES == 2         \* concurrent syntheses without servers
START_ATTEMPTS == 2

NoFile == 0

VARIABLES
  cores,      \* _cpu_cores, read once when the plugin is loaded
  queue,      \* _queue: the entry of a text, named by its file, or NoFile
  order,      \* _queue_order
  status,     \* entry.status of the entries in the queue
  marker,     \* does the entry have its done_marker
  running, starting, attempts, rr,   \* _servers_running .. _server_rr
  slots,      \* _slots_busy
  abandoned,  \* _abandoned
  launching,  \* a launchNext call is due
  polls,      \* scheduled pollDone closures, in the order of their dispatch
  checks,     \* scheduled checkServersReady closures
  server,     \* state of each server process and its FIFO
  requests,   \* requests in each FIFO
  procs,      \* per-process syntheses still running
  wav,        \* the sentences heard in each WAV file; {} when there is none
  done,       \* the .done markers on disk
  taken,      \* files handed to the player
  resets      \* history: for MaxResets

queueVars  == <<queue, order, status, marker>>
serverVars == <<running, starting, attempts, rr, checks>>
workVars   == <<server, requests, procs>>
diskVars   == <<wav, done>>
vars == <<cores, queueVars, serverVars, slots, abandoned, launching, polls,
          workVars, diskVars, taken, resets>>

\* kind: a request to a server, or a process.  Its first text and file are
\* the primary ones, the rest those of the batch.
Request == [file: Files, texts: SUBSET Texts]
Process == [file: Files, text: Texts, killed: BOOLEAN]
Poll == [kind: {"server", "process"}, texts: Seq(Texts), files: Seq(Files)]

\* Single-core devices batch sentences and do not pipeline requests.
BATCH_SIZE == IF cores = 1 THEN 3 ELSE 1
MAX_PIPELINE_DEPTH == IF cores = 1 THEN 1 ELSE 2
Pool == IF OneServer \/ cores = 1 THEN 1 ELSE 2
Servers == 1..Pool

Init ==
  /\ cores \in Cores
  /\ queue = [t \in Texts |-> NoFile] /\ order = <<>>
  /\ status = [f \in Files |-> "none"] /\ marker = [f \in Files |-> FALSE]
  /\ running = FALSE /\ starting = FALSE /\ attempts = 0 /\ rr = 0 /\ checks = 0
  /\ slots = 0 /\ abandoned = FALSE /\ launching = FALSE /\ polls = <<>>
  /\ server = [i \in Servers |-> "down"]
  /\ requests = [i \in Servers |-> <<>>]
  /\ procs = <<>>
  /\ wav = [f \in Files |-> {}] /\ done = [f \in Files |-> FALSE]
  /\ taken = {} /\ resets = 0

-----------------------------------------------------------------------------
(* Reading the queue.                                                      *)

Queued(t) == queue[t] # NoFile
StatusOf(t) == IF Queued(t) THEN status[queue[t]] ELSE "none"

\* File names are never used twice; the model takes one nothing knows.
InUse(f) ==
  \/ f \in Range(queue) \/ f \in taken \/ wav[f] # {} \/ done[f]
  \/ \E i \in 1..Len(polls) : f \in Range(polls[i].files)
  \/ \E i \in Servers : \E k \in 1..Len(requests[i]) : requests[i][k].file = f
  \/ \E i \in 1..Len(procs) : procs[i].file = f
Fresh(f) == ~InUse(f) /\ \A g \in Files : g < f => InUse(g)

\* Sets the status of the entries that texts have now, whichever they are.
Marked(texts, st) ==
  [f \in Files |-> IF \E t \in texts : queue[t] = f THEN st ELSE status[f]]

\* The freed slot, floored at zero.  Mutant: without the floor.
FreedUnfloored == slots - 1

Freed == IF slots > 0 THEN slots - 1 ELSE 0

\* The positions of the queued entries in the order of dispatch.
Waiting == {i \in 1..Len(order) : StatusOf(order[i]) = "queued"}

\* The positions gathered for a batch of n: in order, and an entry is passed
\* over only when the batch is full.
Batches(n) ==
  {at \in UNION {[1..k -> Waiting] : k \in 1..n} :
     /\ \A j, k \in DOMAIN at : j < k => at[j] < at[k]
     /\ \A i \in Waiting : i \notin Range(at) => Len(at) = n /\ at[n] < i}

TextsAt(at) == [k \in 1..Len(at) |-> order[at[k]]]

MaxConcurrent == IF running THEN Pool * MAX_PIPELINE_DEPTH ELSE PROCESSES

-----------------------------------------------------------------------------
(* Stopping and killing.                                                   *)

\* killall: a killed process still has its shell write the marker.
Killed == [i \in 1..Len(procs) |-> [procs[i] EXCEPT !.killed = TRUE]]

\* The entries of requests that died are queued again.
Rescued(stat) ==
  [f \in Files |-> IF stat[f] = "pending" THEN "queued" ELSE stat[f]]

\* stopServers, up to the rescue of the pending entries.
StopServers(stat, mark) ==
  /\ server' = [i \in Servers |-> "down"]
  /\ requests' = [i \in Servers |-> <<>>]
  /\ procs' = Killed
  /\ running' = FALSE /\ starting' = FALSE
  /\ status' = Rescued(stat)
  /\ marker' = [f \in Files |-> mark[f] \/ stat[f] = "pending"]

\* killOrphanProcesses: nothing while servers run.  A wrapper shell killed
\* before it could clean up leaves its FIFO behind, without a reader.
KillOrphans ==
  IF running
  THEN UNCHANGED workVars
  ELSE /\ server' \in [Servers -> {"down", "dead"}]
       /\ \A i \in Servers :
            /\ server[i] \in {"down", "booting"} => server'[i] = "down"
            /\ server[i] = "dead" => server'[i] = "dead"
       /\ requests' = [i \in Servers |-> <<>>]
       /\ procs' = Killed

InQueue(f) == f \in Range(queue)

\* cleanQueue: the entries and their files go, polls and servers stay.
EmptyQueue(mark) ==
  /\ queue' = [t \in Texts |-> NoFile] /\ order' = <<>>
  /\ wav' = [f \in Files |-> IF InQueue(f) THEN {} ELSE wav[f]]
  /\ done' = [f \in Files |-> done[f] /\ ~(InQueue(f) /\ mark[f])]
  /\ slots' = 0

NoEntries ==
  /\ status' = [f \in Files |-> "none"]
  /\ marker' = [f \in Files |-> FALSE]

Reset == ~launching /\ resets < MaxResets /\ resets' = resets + 1

cleanQueue ==
  /\ Reset /\ KillOrphans /\ EmptyQueue(marker) /\ NoEntries
  /\ UNCHANGED <<serverVars, abandoned, launching, polls, taken, cores>>

\* stop() of the engine kills orphans before anything is cleaned.
killOrphanProcesses ==
  /\ Reset /\ KillOrphans
  /\ UNCHANGED <<queueVars, serverVars, slots, abandoned, launching, polls,
                 diskVars, taken, cores>>

\* stopServers alone: a new sanoTTS voice or phonemizer.
stopServers ==
  /\ Reset /\ StopServers(status, marker) /\ slots' = 0
  /\ UNCHANGED <<queue, order, attempts, rr, checks, abandoned, launching,
                 polls, diskVars, taken, cores>>

\* Both at once, in the order that decides which markers are removed.
StopAndClean(mark) ==
  /\ Reset
  /\ StopServers([f \in Files |-> "none"], [f \in Files |-> FALSE])
  /\ EmptyQueue(mark)
  /\ UNCHANGED <<attempts, rr, checks, launching, polls, taken, cores>>

\* setModel, and setRate when there are servers: the rescue restores the
\* markers first.
setRate == StopAndClean([f \in Files |-> TRUE]) /\ UNCHANGED abandoned
shutdown == StopAndClean(marker) /\ UNCHANGED abandoned
\* The controller gives Piper up for the session.
abandon == ~abandoned /\ StopAndClean(marker) /\ abandoned' = TRUE

\* The controller's stop() gives Piper another try.
unabandon ==
  /\ ~launching /\ abandoned /\ abandoned' = FALSE
  /\ UNCHANGED <<queueVars, serverVars, slots, launching, polls, workVars,
                 diskVars, taken, cores, resets>>

-----------------------------------------------------------------------------
(* The caller's operations.                                                *)

enqueue(t) ==
  /\ ~launching /\ ~abandoned /\ ~Queued(t)
  /\ \E f \in Files :
       /\ Fresh(f)
       /\ queue' = [queue EXCEPT ![t] = f]
       /\ status' = [status EXCEPT ![f] = "queued"]
       /\ marker' = [marker EXCEPT ![f] = TRUE]
  /\ order' = Append(order, t)
  /\ launching' = running
  /\ UNCHANGED <<serverVars, slots, abandoned, polls, workVars, diskVars,
                 taken, cores, resets>>

\* The controller kicks the launcher after it has queued a page.
kick ==
  /\ ~launching /\ launching' = TRUE
  /\ UNCHANGED <<queueVars, serverVars, slots, abandoned, polls, workVars,
                 diskVars, taken, cores, resets>>

prioritize(t) ==
  /\ ~launching /\ StatusOf(t) = "queued"
  /\ order' = <<t>> \o RemoveFirst(order, t)
  /\ UNCHANGED <<queue, status, marker, serverVars, slots, abandoned,
                 launching, polls, workVars, diskVars, taken, cores, resets>>

\* tryFinalize: a pending entry whose marker is there is settled at once.
CanFinalize(t) ==
  StatusOf(t) = "pending" /\ marker[queue[t]] /\ done[queue[t]]

Outcome(f) == IF wav[f] # {} THEN "ready" ELSE "failed"

\* peek; without a marker it changes nothing.
peek(t) ==
  /\ ~launching /\ CanFinalize(t)
  /\ status' = Marked({t}, Outcome(queue[t]))
  /\ done' = [done EXCEPT ![queue[t]] = FALSE]
  /\ slots' = Freed /\ launching' = TRUE
  /\ UNCHANGED <<queue, order, marker, serverVars, abandoned, polls,
                 workVars, wav, taken, cores, resets>>

\* useReady, and the consume that follows a peek which returned a file.
useReady(t) ==
  /\ ~launching
  /\ \/ StatusOf(t) = "ready" /\ UNCHANGED <<done, slots, launching>>
     \/ /\ CanFinalize(t) /\ Outcome(queue[t]) = "ready"
        /\ done' = [done EXCEPT ![queue[t]] = FALSE]
        /\ slots' = Freed /\ launching' = TRUE
  /\ taken' = taken \union {queue[t]}
  /\ queue' = [queue EXCEPT ![t] = NoFile]
  /\ order' = RemoveFirst(order, t)
  /\ status' = [status EXCEPT ![queue[t]] = "none"]
  /\ marker' = [marker EXCEPT ![queue[t]] = FALSE]
  /\ UNCHANGED <<serverVars, abandoned, polls, workVars, wav, resets, cores>>

\* The player deletes a file it is through with.
played(f) ==
  /\ ~launching /\ f \in taken /\ taken' = taken \ {f}
  /\ wav' = [wav EXCEPT ![f] = {}]
  /\ UNCHANGED <<queueVars, serverVars, slots, abandoned, launching, polls,
                 workVars, done, resets, cores>>

-----------------------------------------------------------------------------
(* launchNext.                                                             *)

\* The call returns without launching anything.
Returns ==
  /\ launching' = FALSE
  /\ UNCHANGED <<queueVars, running, starting, rr, checks, slots, abandoned,
                 polls, workVars, diskVars, taken, cores, resets>>

NothingToLaunch == slots >= MaxConcurrent \/ Waiting = {}

LaunchRefused ==
  /\ launching
  /\ \/ abandoned
     \/ ~running /\ starting
     \/ running /\ NothingToLaunch
  /\ Returns /\ UNCHANGED attempts

\* startServers is called and does not return early.
TriesToStart == launching /\ ~abandoned /\ ~running /\ ~starting
Attempted == IF attempts > START_ATTEMPTS THEN attempts ELSE attempts + 1
\* It starts no server: no attempt left, or little memory.
NoStart == Attempted > START_ATTEMPTS \/ "lowmem" \in Faults

startServers ==
  /\ TriesToStart /\ Attempted <= START_ATTEMPTS
  /\ attempts' = Attempted
  /\ starting' = TRUE /\ rr' = 0 /\ checks' = checks + 1
  /\ server' = [i \in Servers |-> "booting"]
  /\ requests' = [i \in Servers |-> <<>>]
  /\ procs' = Killed
  /\ launching' = FALSE
  /\ UNCHANGED <<queueVars, running, slots, abandoned, polls, diskVars,
                 taken, cores, resets>>

LaunchNothing ==
  /\ TriesToStart /\ NoStart /\ NothingToLaunch
  /\ attempts' = Attempted
  /\ Returns

\* "Prevent tryFinalize from racing with our poll".  Mutant: it may.
UnmarkedNone(files) == marker

Unmarked(files) == [f \in Files |-> marker[f] /\ f \notin Range(files)]

FilesOf(texts) == [i \in 1..Len(texts) |-> queue[texts[i]]]

\* The per-process path, for the first text of the batch, beside the
\* processes there are.
LaunchProcess(others, t) ==
  /\ procs' = Append(others, [file |-> queue[t], text |-> t, killed |-> FALSE])
  /\ polls' = Append(polls, [kind |-> "process", texts |-> <<t>>,
                              files |-> <<queue[t]>>])
  /\ launching' = FALSE

LaunchFallback ==
  /\ TriesToStart /\ NoStart /\ ~NothingToLaunch
  /\ attempts' = Attempted
  /\ \E at \in Batches(1) :
       /\ status' = Marked({order[at[1]]}, "pending")
       /\ LaunchProcess(procs, order[at[1]])
  /\ slots' = slots + 1
  /\ UNCHANGED <<queue, order, marker, running, starting, rr, checks,
                 abandoned, server, requests, diskVars, taken, cores,
                 resets>>

\* _batchSize: one sentence in low-resource mode.
BatchSizes == {1, BATCH_SIZE}

\* Round robin, then any other server whose FIFO still has a reader.
PickServer == (rr % Pool) + 1
Accepting == {i \in Servers : server[i] = "up"}
Target(i) ==
  i \in Accepting /\ (PickServer \in Accepting =>  i = PickServer)
  /\ (PickServer \notin Accepting => \A j \in Accepting : i <= j)

LaunchBatch ==
  /\ launching /\ ~abandoned /\ running /\ ~NothingToLaunch
  /\ rr' = PickServer
  /\ \E n \in BatchSizes, i \in Servers : \E at \in Batches(n) :
       LET texts == TextsAt(at)
           files == FilesOf(texts) IN
       /\ Target(i)
       /\ requests' = [requests EXCEPT ![i] =
              Append(@, [file |-> files[1], texts |-> Range(texts)])]
       /\ status' = Marked(Range(texts), "pending")
       /\ marker' = Unmarked(files)
       /\ polls' = Append(polls, [kind |-> "server", texts |-> texts,
                                   files |-> files])
  /\ slots' = slots + 1
  /\ UNCHANGED <<queue, order, running, starting, attempts, checks,
                 abandoned, launching, server, procs, diskVars, taken, cores,
                 resets>>

\* No FIFO takes the batch: its entries are queued again, the servers are
\* stopped, and the same call goes on to the per-process path, where the
\* entry keeps the status "queued" while its process runs.
LaunchAfterFailure ==
  /\ launching /\ ~abandoned /\ running /\ ~NothingToLaunch /\ Accepting = {}
  /\ rr' = PickServer
  /\ server' = [i \in Servers |-> "down"]
  /\ requests' = [i \in Servers |-> <<>>]
  /\ running' = FALSE /\ starting' = FALSE
  /\ status' = Rescued(status)
  /\ marker' = [f \in Files |-> marker[f] \/ status[f] = "pending"]
  /\ \E at \in Batches(1) : LaunchProcess(Killed, order[at[1]])
  /\ slots' = 1
  /\ UNCHANGED <<queue, order, attempts, checks, abandoned, diskVars, taken,
                 cores, resets>>

-----------------------------------------------------------------------------
(* Scheduled callbacks.                                                    *)

\* Mutants: the slot is kept; nothing is launched after it.
PollEndsKeepingSlot(i) ==
  /\ polls' = RemoveAt(polls, i)
  /\ launching' = TRUE
  /\ UNCHANGED <<queue, order, marker, serverVars, slots, abandoned,
                 workVars, taken, cores, resets>>

PollEndsQuietly(i) ==
  /\ polls' = RemoveAt(polls, i)
  /\ slots' = Freed
  /\ UNCHANGED <<queue, order, marker, serverVars, launching, abandoned,
                 workVars, taken, cores, resets>>

\* Every way a poll ends: it is not rescheduled, frees a slot and launches.
PollEnds(i) ==
  /\ polls' = RemoveAt(polls, i)
  /\ slots' = Freed /\ launching' = TRUE
  /\ UNCHANGED <<queue, order, marker, serverVars, abandoned, workVars,
                 taken, cores, resets>>

Primary(p) == p.files[1]

\* The primary text has left the queue: the files of the batch go.
PollGone(i) ==
  LET p == polls[i] IN
  /\ ~launching /\ ~Queued(p.texts[1])
  /\ wav' = [wav EXCEPT ![Primary(p)] = {}]
  /\ done' = [done EXCEPT ![Primary(p)] = FALSE]
  /\ PollEnds(i) /\ UNCHANGED status

\* Mutant: polls without a limit.
PollForever(i) == FALSE

PollTimeout(i) ==
  LET p == polls[i] IN
  /\ ~launching /\ Queued(p.texts[1]) /\ ~done[Primary(p)]
  /\ status' = Marked(Range(p.texts), "failed")
  /\ PollEnds(i) /\ UNCHANGED diskVars

\* Mutant: the status is set on a copy.
ClosureLost(f) == status

\* The entry of the closure, not the one the text has now.
ClosureReady(f) == [status EXCEPT ![f] = IF InQueue(f) THEN "ready" ELSE @]

\* The sentence of the batch that was to go to a file.
Piece(p, f) ==
  {p.texts[k] : k \in {m \in 1..Len(p.texts) : p.files[m] = f}}

\* The marker of a batch is there.  Status is set on the entries the texts
\* have now, the cut pieces go to the files the batch was made with.
PollServer(i) ==
  LET p == polls[i]
      heard == wav[Primary(p)]
      rest == Range(p.texts) \ {p.texts[1]} IN
  /\ ~launching /\ p.kind = "server" /\ Queued(p.texts[1]) /\ done[Primary(p)]
  /\ done' = [done EXCEPT ![Primary(p)] = FALSE]
  /\ \/ /\ heard = {}
        /\ status' = Marked(Range(p.texts), "failed")
        /\ UNCHANGED wav
     \/ /\ heard # {} /\ Len(p.texts) = 1
        /\ status' = ClosureReady(Primary(p))
        /\ UNCHANGED wav
     \/ /\ heard # {} /\ Len(p.texts) > 1
        /\ status' = Marked(Range(p.texts), "ready")
        /\ wav' = [f \in Files |->
             IF f \in Range(p.files)
             THEN IF heard = Range(p.texts) THEN Piece(p, f) ELSE heard
             ELSE wav[f]]
     \/ /\ heard # {} /\ Len(p.texts) > 1 /\ "split" \in Faults
        /\ status' = [f \in Files |->
             IF \E t \in rest : queue[t] = f THEN "failed"
             ELSE IF f = Primary(p) /\ InQueue(f) THEN "ready" ELSE status[f]]
        /\ UNCHANGED wav
  /\ PollEnds(i)

\* A process is done: the entry the text has now is settled by the file of
\* the entry the process was started for.
PollProcess(i) ==
  LET p == polls[i] IN
  /\ ~launching /\ p.kind = "process" /\ Queued(p.texts[1]) /\ done[Primary(p)]
  /\ done' = [done EXCEPT ![Primary(p)] = FALSE]
  /\ status' = Marked({p.texts[1]}, Outcome(Primary(p)))
  /\ PollEnds(i) /\ UNCHANGED wav

\* A server counts as ready when its FIFO and pid file exist.
AllReady == \A i \in Servers : server[i] \in {"up", "dead"}

ServersReady ==
  /\ ~launching /\ checks > 0 /\ AllReady
  /\ running' = TRUE /\ starting' = FALSE /\ attempts' = 0
  /\ checks' = checks - 1 /\ launching' = TRUE
  /\ UNCHANGED <<queueVars, rr, slots, abandoned, polls, workVars, diskVars,
                 taken, cores, resets>>

StartTimeout ==
  /\ ~launching /\ checks > 0 /\ ~AllReady
  /\ starting' = FALSE /\ checks' = checks - 1 /\ launching' = TRUE
  /\ UNCHANGED <<queueVars, running, attempts, rr, slots, abandoned, polls,
                 workVars, diskVars, taken, cores, resets>>

-----------------------------------------------------------------------------
(* Servers and processes.                                                  *)

World == <<cores, queueVars, serverVars, slots, abandoned, launching, polls,
           taken>>

ServerUp(i) ==
  /\ server[i] = "booting" /\ server' = [server EXCEPT ![i] = "up"]
  /\ UNCHANGED <<World, requests, procs, diskVars, resets>>

\* The wrapper shell of a server that died removes its FIFO.
ServerDies(i) ==
  /\ "die" \in Faults /\ running /\ server[i] = "up" /\ resets < MaxResets
  /\ resets' = resets + 1
  /\ server' = [server EXCEPT ![i] = "down"]
  /\ requests' = [requests EXCEPT ![i] = <<>>]
  /\ UNCHANGED <<World, procs, diskVars>>

\* What a synthesis leaves: its WAV, or nothing.
Synthesised(f, texts, failed) ==
  [wav EXCEPT ![f] = IF failed THEN {} ELSE texts]

ServerDone(i) ==
  /\ server[i] = "up" /\ requests[i] # <<>>
  /\ \E failed \in {FALSE, "synth" \in Faults} :
       LET r == Head(requests[i]) IN
       wav' = Synthesised(r.file, r.texts, failed)
  /\ done' = [done EXCEPT ![Head(requests[i]).file] = TRUE]
  /\ requests' = [requests EXCEPT ![i] = Tail(@)]
  /\ UNCHANGED <<World, server, procs, resets>>

ProcessDone(i) ==
  /\ IF procs[i].killed
     THEN UNCHANGED wav
     ELSE \E failed \in {FALSE, "synth" \in Faults} :
            wav' = Synthesised(procs[i].file, {procs[i].text}, failed)
  /\ done' = [done EXCEPT ![procs[i].file] = TRUE]
  /\ procs' = RemoveAt(procs, i)
  /\ UNCHANGED <<World, server, requests, resets>>

-----------------------------------------------------------------------------
Caller ==
  \/ \E t \in Texts : enqueue(t) \/ prioritize(t) \/ peek(t) \/ useReady(t)
  \/ kick
  \/ \E f \in Files : played(f)
  \/ cleanQueue \/ killOrphanProcesses \/ stopServers
  \/ setRate \/ shutdown \/ abandon \/ unabandon

Launch ==
  \/ LaunchRefused \/ startServers \/ LaunchNothing
  \/ LaunchFallback \/ LaunchBatch \/ LaunchAfterFailure

PollAt(i) == PollGone(i) \/ PollTimeout(i) \/ PollServer(i) \/ PollProcess(i)
PollStep == \E i \in 1..Len(polls) : PollAt(i)

Check == ServersReady \/ StartTimeout

Work ==
  \/ \E i \in Servers : ServerUp(i) \/ ServerDies(i) \/ ServerDone(i)
  \/ \E i \in 1..Len(procs) : ProcessDone(i)

Next == Caller \/ Launch \/ PollStep \/ Check \/ Work

Spec == Init /\ [][Next]_vars

\* launchNext returns; a poll, which reschedules itself at most 900 times,
\* ends, and so does the oldest one.  Servers and processes owe nothing.
OldestPoll == polls # <<>> /\ PollAt(1)
Fairness == WF_vars(Launch) /\ SF_vars(OldestPoll)

LiveSpec == Spec /\ Fairness

-----------------------------------------------------------------------------
(* Properties.                                                             *)

\* The types of the queue's state.  A slot is freed once too often when a
\* poll ends after tryFinalize settled its entry, or after a cleanup reset
\* the count: the floor of _slots_busy is what keeps it a number of slots.
TypeOK ==
  /\ cores \in Cores
  /\ queue \in [Texts -> Files \union {NoFile}]
  /\ order \in Seq(Texts)
  /\ status \in [Files -> {"none", "queued", "pending", "ready", "failed"}]
  /\ marker \in [Files -> BOOLEAN]
  /\ running \in BOOLEAN /\ starting \in BOOLEAN
  /\ attempts \in 0..START_ATTEMPTS + 1 /\ rr \in 0..Pool /\ checks \in Nat
  /\ slots \in Nat /\ abandoned \in BOOLEAN /\ launching \in BOOLEAN
  /\ polls \in Seq(Poll)
  /\ server \in [Servers -> {"down", "booting", "up", "dead"}]
  /\ requests \in [Servers -> Seq(Request)] /\ procs \in Seq(Process)
  /\ wav \in [Files -> SUBSET Texts] /\ done \in [Files -> BOOLEAN]
  /\ taken \subseteq Files

\* _slots_busy never counts a slot that no scheduled poll will free, whatever
\* was cleaned, stopped or settled early: the pool is not full for good.
SlotsHaveOwners == slots <= Len(polls)

\* An entry that tryFinalize may settle (pending, with its done_marker) is
\* one a process of its own synthesises: it never takes a server's batch
\* away from the poll that has to cut it, rescued entries included.
FinalizeIsForProcesses ==
  \A t \in Texts : StatusOf(t) = "pending" /\ marker[queue[t]] =>
    \E i \in 1..Len(polls) :
      polls[i].kind = "process" /\ Primary(polls[i]) = queue[t]

\* On devices that synthesise one sentence at a time a pending sentence
\* always has a poll that will settle it, through stops, rescues, cleanups
\* and re-queueing of the same text.
PendingIsOwned ==
  cores > 1 => \A t \in Texts : StatusOf(t) = "pending" =>
    \E i \in 1..Len(polls) : queue[t] \in Range(polls[i].files)

\* On those devices every pending sentence is settled, queued again or
\* dropped, whether or not the server or the process ever answers.
PendingResolves ==
  \A t \in Watched :
    cores > 1 /\ StatusOf(t) = "pending" ~> StatusOf(t) # "pending"

\* While servers run a queued sentence gets its turn.
QueuedIsLaunched ==
  \A t \in Watched :
    StatusOf(t) = "queued" /\ running ~> StatusOf(t) # "queued" \/ ~running

=============================================================================
