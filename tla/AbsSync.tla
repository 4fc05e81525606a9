------------------------------ MODULE AbsSync -------------------------------
(***************************************************************************)
(* Audiobookshelf progress sync: the journal of abssync.lua, the code of   *)
(* main.lua and absbrowse.lua that drives it, the progress kept by the     *)
(* server, and the other devices of the same user.                         *)
(*                                                                         *)
(* The plugin runs on KOReader's single UI thread and its HTTP calls       *)
(* block, so one operation runs at a time; `pc` is how far it got.  What   *)
(* can happen between two of its steps is a crash, another device's        *)
(* update, and the loss of a request or of its reply.                      *)
(*                                                                         *)
(* Two journals exist in memory: the one main.lua loads at start-up and    *)
(* keeps, and the one absbrowse.lua loads for each "Sync progress now".    *)
(* Both save to the same file.  os.time() is the clock of the device and,  *)
(* in this model, of the server.                                           *)
(***************************************************************************)
EXTENDS Integers, Sequences, FiniteSetsExt

CONSTANTS
  Items,         \* library items
  Positions,     \* positions playback, and other devices, are found at
  JOURNAL_MAX,   \* entries kept by the pruning of recordProgress
  DEBOUNCE,      \* smallest change of position worth an entry
  STOP_MIN,      \* a stop at or before this position records nothing
  RESUME_MIN,    \* positions up to here are not offered for resuming
  RESUME_GAP,    \* difference above which the remote position is offered
  Faults,        \* "crash", "torn", "tie": see Restart and MayRecord
  Uses,          \* "manual", "device": what else touches the state
  MaxClock, MaxRecords   \* bounds for model checking

ASSUME Limits ==
  /\ JOURNAL_MAX \in Nat \ {0}
  /\ DEBOUNCE \in Nat /\ STOP_MIN \in Nat
  /\ RESUME_MIN \in Nat /\ RESUME_GAP \in Nat
  /\ Positions \subseteq Nat
  /\ IsFiniteSet(Items)

VARIABLES
  clock,      \* os.time()
  pc,         \* "idle", or the step the running operation is at
  who,        \* whose journal it works on: "main" or "manual"
  next,       \* what follows the save in progress
  todo,       \* syncAllLocalItems: the items not compared yet
  sending,    \* flush: the entries of the request under way
  journal,    \* self.journal of either instance, as a function of `who`
  file,       \* abs_sync_journal.json; a file that does not decode is <<>>
  saved,      \* main.lua's audio_positions, per item
  playing,    \* the item playing, or NoItem
  at,         \* position of the player
  server,     \* the server's progress, per item: position and lastUpdate
  recorded,   \* history: entries recorded so far, the newest entry's id
  newest,     \* history: id of the newest entry saved to the file, per item
  delivered   \* history: id of the entry the server took last, per item

opVars   == <<pc, who, next, todo, sending>>
diskVars == <<journal, file>>
playVars == <<playing, at>>
history  == <<recorded, newest, delivered>>
vars == <<clock, opVars, diskVars, saved, playVars, server, history>>

NoItem == "none"

Entry == [id: Nat, item: Items, pos: Nat, ts: Nat, synced: BOOLEAN]

Abs(n) == IF n < 0 THEN -n ELSE n

-----------------------------------------------------------------------------
Init ==
  /\ clock = 1
  /\ pc = "idle" /\ who = "main" /\ next = "idle" /\ todo = {} /\ sending = {}
  /\ journal = [i \in {"main", "manual"} |-> <<>>]
  /\ file = <<>>
  /\ saved = [i \in Items |-> [pos |-> 0, ts |-> 0]]
  /\ playing = NoItem /\ at = 0
  /\ server = [i \in Items |-> [pos |-> 0, lastUpdate |-> 0]]
  /\ recorded = 0
  /\ newest = [i \in Items |-> 0]
  /\ delivered = [i \in Items |-> 0]

-----------------------------------------------------------------------------
(* The journal.                                                            *)

EntriesOf(j, item) == {i \in 1..Len(j) : j[i].item = item}

\* _findLastEntry, as the set of its index: empty when it returns nil.
LastOf(j, item) ==
  {i \in EntriesOf(j, item) : \A k \in EntriesOf(j, item) : k <= i}

Debounced(j, item, pos) ==
  \E i \in LastOf(j, item) : Abs(j[i].pos - pos) < DEBOUNCE

\* The last entries of the journal.  Mutant: all of them.
PrunedNever(j) == j

Pruned(j) ==
  IF Len(j) > JOURNAL_MAX THEN SubSeq(j, Len(j) - JOURNAL_MAX + 1, Len(j)) ELSE j

\* Two entries of one second: a seek and a stop, or a clock set back.
MayRecord ==
  recorded < MaxRecords
  /\ ("tie" \in Faults \/ \A i \in 1..Len(journal.main) : journal.main[i].ts < clock)

\* Within the bounds the player is only where the next record is possible.
Recordable(item, pos) == Debounced(journal.main, item, pos) \/ MayRecord

\* recordProgress on main's journal: in memory first, then the save.
recordProgress(item, pos) ==
  IF Debounced(journal.main, item, pos)
  THEN pc' = "flush" /\ UNCHANGED <<next, journal, recorded>>
  ELSE /\ MayRecord
       /\ recorded' = recorded + 1
       /\ journal' = [journal EXCEPT !.main =
            Pruned(Append(@, [id |-> recorded', item |-> item, pos |-> pos,
                              ts |-> clock, synced |-> FALSE]))]
       /\ pc' = "save" /\ next' = "flush"

\* _saveJournal: opening the file for writing empties it.
SaveOpen ==
  /\ pc = "save"
  /\ file' = <<>>
  /\ pc' = "write"
  /\ UNCHANGED <<clock, who, next, todo, sending, journal, saved, playVars, server,
                 history>>

SaveWrite ==
  /\ pc = "write"
  /\ file' = journal[who]
  /\ pc' = next
  /\ next' = "idle"
  /\ newest' = [i \in Items |->
       Max({newest[i]} \cup {e.id : e \in {file'[k] : k \in EntriesOf(file', i)}})]
  /\ UNCHANGED <<clock, who, todo, sending, journal, saved, playVars, server,
                 recorded, delivered>>

-----------------------------------------------------------------------------
(* flush                                                                   *)

\* The entry flush keeps for an item: the first of those with the greatest
\* timestamp.  Mutant: the first that waits.
Oldest(j, i) ==
  /\ ~j[i].synced
  /\ \A k \in EntriesOf(j, j[i].item) : j[k].synced \/ k >= i

Latest(j, i) ==
  /\ ~j[i].synced
  /\ \A k \in EntriesOf(j, j[i].item) :
       \/ j[k].synced
       \/ j[k].ts < j[i].ts
       \/ j[k].ts = j[i].ts /\ k >= i

LatestEntries(j) == {j[i] : i \in {k \in 1..Len(j) : Latest(j, k)}}

FlushCollect ==
  /\ pc = "flush"
  /\ sending' = LatestEntries(journal[who])
  /\ pc' = IF sending' = {} THEN "idle" ELSE "request"
  /\ UNCHANGED <<clock, who, next, todo, diskVars, saved, playVars, server,
                 history>>

\* The request reaches the server: one update, or one batch.
ServerTakes ==
  /\ pc = "request"
  /\ server' = [i \in Items |->
       IF \E e \in sending : e.item = i
       THEN [pos |-> (CHOOSE e \in sending : e.item = i).pos, lastUpdate |-> clock]
       ELSE server[i]]
  /\ delivered' = [i \in Items |->
       IF \E e \in sending : e.item = i
       THEN (CHOOSE e \in sending : e.item = i).id
       ELSE delivered[i]]
  /\ pc' = "reply"
  /\ UNCHANGED <<clock, who, next, todo, sending, diskVars, saved, playVars,
                 recorded, newest>>

\* Every entry of the items sent is marked.  Mutant: the entries sent are.
MarkSent(j) ==
  [i \in 1..Len(j) |->
    [j[i] EXCEPT !.synced = @ \/ \E e \in sending : e.id = j[i].id]]

Marked(j) ==
  [i \in 1..Len(j) |->
    [j[i] EXCEPT !.synced = @ \/ \E e \in sending : e.item = j[i].item]]

\* Mutant: the error is not looked at.
FlushFailsMarked ==
  /\ pc \in {"request", "reply"}
  /\ journal' = [journal EXCEPT ![who] = Marked(@)]
  /\ pc' = "save" /\ next' = "idle" /\ sending' = {}
  /\ UNCHANGED <<clock, who, todo, file, saved, playVars, server, history>>

\* No network, no server, an error status, a reply that never comes, or a
\* plugin that is not logged in: flush fails and the entries stay unsynced.
FlushFails ==
  /\ pc \in {"request", "reply"}
  /\ pc' = "idle" /\ sending' = {}
  /\ UNCHANGED <<clock, who, next, todo, diskVars, saved, playVars, server, history>>

FlushSucceeds ==
  /\ pc = "reply"
  /\ journal' = [journal EXCEPT ![who] = Marked(@)]
  /\ pc' = "save" /\ next' = "idle" /\ sending' = {}
  /\ UNCHANGED <<clock, who, todo, file, saved, playVars, server, history>>

-----------------------------------------------------------------------------
(* main.lua                                                                *)

\* _savePosition, for the item's audio file.
savePosition(item, pos) == saved' = [saved EXCEPT ![item] = [pos |-> pos, ts |-> clock]]

\* The 60 s timer while an item is playing or paused.
TimerTick ==
  /\ pc = "idle" /\ playing # NoItem
  /\ who' = "main"
  /\ savePosition(playing, at)
  /\ recordProgress(playing, at)
  /\ UNCHANGED <<clock, todo, sending, file, playVars, server, newest, delivered>>

\* The 60 s timer with nothing playing: only the flush.
TimerTickIdle ==
  /\ pc = "idle" /\ playing = NoItem
  /\ who' = "main"
  /\ pc' = "flush"
  /\ UNCHANGED <<clock, next, todo, sending, diskVars, saved, playVars, server,
                 history>>

\* stopReadAlong
StopPlaying ==
  /\ pc = "idle" /\ playing # NoItem
  /\ playing' = NoItem /\ at' = 0
  /\ who' = "main"
  /\ IF at > STOP_MIN
     THEN savePosition(playing, at) /\ recordProgress(playing, at)
     ELSE UNCHANGED <<pc, next, journal, saved, recorded>>
  /\ UNCHANGED <<clock, todo, sending, file, server, newest, delivered>>

\* The position _playAbsItem offers; online is whether the server answered.
Offered(item, online) ==
  LET mine   == saved[item].pos
      theirs == server[item].pos
  IN  IF /\ online /\ theirs > RESUME_MIN
         /\ (mine <= RESUME_MIN \/ Abs(theirs - mine) > RESUME_GAP)
      THEN theirs
      ELSE IF mine > RESUME_MIN THEN mine ELSE 0

\* _playAbsItem: the user accepts the offer or starts over.
PlayItem(item, online, accept) ==
  /\ pc = "idle" /\ playing = NoItem
  /\ playing' = item
  /\ at' = IF accept THEN Offered(item, online) ELSE 0
  /\ Recordable(item, at')
  /\ saved' = IF accept \/ Offered(item, online) = 0 THEN saved
              ELSE [saved EXCEPT ![item] = [pos |-> 0, ts |-> 0]]
  /\ UNCHANGED <<clock, opVars, diskVars, server, history>>

\* Playback goes on, or the user seeks.
Listen(pos) ==
  /\ pc = "idle" /\ playing # NoItem
  /\ Recordable(playing, pos)
  /\ at' = pos
  /\ UNCHANGED <<clock, opVars, diskVars, saved, playing, server, history>>

-----------------------------------------------------------------------------
(* absbrowse.lua "Sync progress now": an instance of its own, freshly      *)
(* loaded, that compares every cached item and then flushes.               *)

ManualSync ==
  /\ pc = "idle" /\ "manual" \in Uses
  /\ who' = "manual"
  /\ journal' = [journal EXCEPT !.manual = file]
  /\ todo' = Items
  /\ pc' = "compare"
  /\ UNCHANGED <<clock, next, sending, file, saved, playVars, server, history>>

RemoteIsNewer(item) ==
  /\ server[item].lastUpdate > 0
  /\ \A i \in LastOf(journal.manual, item) :
       server[item].lastUpdate > journal.manual[i].ts

\* One item of syncAllLocalItems; online is whether getProgress answered.
CompareItem(item, online) ==
  /\ pc = "compare" /\ item \in todo
  /\ todo' = todo \ {item}
  /\ IF online /\ RemoteIsNewer(item)
     THEN savePosition(item, server[item].pos)
     ELSE UNCHANGED saved
  /\ pc' = IF todo' = {} THEN "flush" ELSE "compare"
  /\ UNCHANGED <<clock, who, next, sending, diskVars, playVars, server, history>>

-----------------------------------------------------------------------------
(* Everything else.                                                        *)

Advance ==
  /\ clock < MaxClock
  /\ clock' = clock + 1
  /\ UNCHANGED <<opVars, diskVars, saved, playVars, server, history>>

\* Another device of the user reports progress, at any time.
OtherDevice(item, pos) ==
  /\ "device" \in Uses
  /\ server[item].lastUpdate < clock /\ server[item].pos # pos
  /\ server' = [server EXCEPT ![item] = [pos |-> pos, lastUpdate |-> clock]]
  /\ UNCHANGED <<clock, opVars, diskVars, saved, playVars, history>>

\* KOReader ends and starts again; _loadJournal reads what the file has.
\* With "torn" it may also end between the opening and the writing of the
\* file, whose content is then gone.
Restart ==
  /\ "crash" \in Faults
  /\ pc # "write" \/ "torn" \in Faults
  /\ journal' = [i \in {"main", "manual"} |-> IF i = "main" THEN file ELSE <<>>]
  /\ pc' = "idle" /\ who' = "main" /\ next' = "idle" /\ todo' = {} /\ sending' = {}
  /\ playing' = NoItem /\ at' = 0
  /\ UNCHANGED <<clock, file, saved, server, history>>

Save == SaveOpen \/ SaveWrite

Flush == FlushCollect \/ ServerTakes \/ FlushSucceeds \/ FlushFails

Player ==
  \/ StopPlaying
  \/ \E item \in Items, online \in BOOLEAN, accept \in BOOLEAN :
       PlayItem(item, online, accept)
  \/ \E pos \in Positions : Listen(pos)

Timer == TimerTick \/ TimerTickIdle

Manual ==
  \/ ManualSync
  \/ \E item \in Items, online \in BOOLEAN : CompareItem(item, online)

Device == \E item \in Items, pos \in Positions : OtherDevice(item, pos)

Next == Save \/ Flush \/ Player \/ Timer \/ Manual \/ Advance \/ Device \/ Restart

Spec == Init /\ [][Next]_vars

\* The timer and a started operation go on, and a server that is tried
\* again and again answers some time.
Fairness ==
  /\ WF_vars(Save) /\ WF_vars(FlushCollect) /\ WF_vars(Timer)
  /\ SF_vars(ServerTakes) /\ SF_vars(FlushSucceeds)
  /\ WF_vars(Advance)

FairSpec == Spec /\ Fairness

-----------------------------------------------------------------------------
(* Properties.                                                             *)

\* Every variable stays in its range, and the journal within its limit.
TypeOK ==
  /\ clock \in Nat
  /\ pc \in {"idle", "save", "write", "flush", "request", "reply", "compare"}
  /\ who \in {"main", "manual"} /\ next \in {"idle", "flush"}
  /\ todo \subseteq Items /\ sending \subseteq Entry
  /\ journal \in [{"main", "manual"} -> Seq(Entry)] /\ file \in Seq(Entry)
  /\ \A i \in {"main", "manual"} : Len(journal[i]) <= JOURNAL_MAX
  /\ saved \in [Items -> [pos: Nat, ts: Nat]]
  /\ playing \in Items \cup {NoItem} /\ at \in Nat
  /\ server \in [Items -> [pos: Nat, lastUpdate: Nat]]
  /\ recorded \in Nat
  /\ newest \in [Items -> Nat] /\ delivered \in [Items -> Nat]

\* An older position never overwrites a newer one of the same device: after
\* a lost reply, a restart or a failed flush, what is sent again is the
\* newest entry.
DeliveriesInOrder == [][ \A i \in Items : delivered'[i] >= delivered[i] ]_vars

\* "This ensures progress is never lost": the newest position recorded for
\* an item is in the journal file or has reached the server, whenever no
\* save is under way.
ProgressNotLost ==
  \A item \in Items :
    (pc \notin {"save", "write"} /\ newest[item] > delivered[item])
      => \E i \in 1..Len(file) : file[i].id = newest[item] /\ ~file[i].synced

\* The newest position of every item reaches the server.
EventuallyDelivered ==
  \A n \in 1..MaxRecords, item \in Items :
    newest[item] = n ~> (delivered[item] >= n \/ newest[item] > n)

=============================================================================
