------------------------------ MODULE Updater ------------------------------
(***************************************************************************)
(* The self-updater of updater.lua: a release is offered, its zip fetched  *)
(* with HTTP Range requests into a file that outlives the attempt, probed, *)
(* and unpacked over the installed plugin, of which a copy is kept aside   *)
(* until the new one is verified.                                          *)
(*                                                                         *)
(* The whole of it runs in one callback on KOReader's UI thread; `pc` is   *)
(* how far the attempt got.  Between two steps, and in the middle of most, *)
(* the device may lose power: what Crash leaves on the disk is the point   *)
(* of the module.  The zip is a sequence of chunks, each named by the      *)
(* release whose bytes it holds, Junk for anything else (an error page     *)
(* that went into the file, a body that starts again at its first byte).   *)
(* Returns that leave everything as it was (no network, no release, no     *)
(* space, a file that cannot be created) are stuttering.                   *)
(***************************************************************************)
EXTENDS Integers, Sequences

CONSTANTS
  Size,              \* chunks in the zip of each release, one after the other
  Stale,             \* releases whose zip names the version before theirs
  Tools,             \* the system's unzip: "unzip", or "none"
  MAX_RETRIES,       \* max_retries of downloadFile
  MAX_TOTAL,         \* max_total_attempts of downloadFile
  Faults,            \* kinds of fault: see Fault
  MAX_FAULTS         \* bound for model checking: faults in one behaviour

Releases == DOMAIN Size

ASSUME SizeAssumption ==
  /\ Size \in Seq(Nat \ {0}) /\ Len(Size) > 0
  /\ Stale \subseteq Releases
  /\ MAX_RETRIES \in Nat /\ MAX_TOTAL \in Nat /\ MAX_FAULTS \in Nat

VARIABLES
  tool,      \* whether this device has an unzip
  latest,    \* the newest release on the server
  rel,       \* release: the one this attempt installs
  pc,        \* "idle", or the step the attempt is at
  dir,       \* the plugin's directory, see Dir
  backup,    \* the copy aside, NoDir without one (or with part of one)
  kept,      \* backup_dir is not nil
  zip,       \* chunks of the downloaded file
  marker,    \* the size in the .expected file, 0 without one
  retries, total,   \* retry_count, total_attempts
  left,      \* files the extraction or the copy has not written yet
  good,      \* extract_ok
  loaded,    \* the plugin runs: KOReader has not restarted since it was sound
  faults,    \* faults so far
  said,      \* how the last attempt ended
  before,    \* history: the directory when the attempt began
  short,     \* history: what the fallback copied is not the whole release
  owed       \* history: a copy was made that nothing has replaced yet

diskVars == <<dir, backup, zip, marker>>
getVars  == <<zip, marker, retries, total>>
putVars  == <<dir, backup, kept, left, good>>
history  == <<before, short, owed>>
vars == <<tool, latest, rel, pc, dir, backup, kept, zip, marker, retries, total,
          left, good, loaded, faults, said, history>>

Junk  == 0
Gone  == 0    \* no such file
Cut   == -1   \* a file that ends early
Empty == -2   \* a file of no bytes, as opening for writing leaves it

\* _meta.lua; what CRITICAL_FILES lists besides; everything it does not list.
Files    == {"meta", "core", "extra"}
Critical == {"meta", "core"}

\* Each file by the release it comes from, and the version _meta.lua names.
Fields == Files \cup {"ver"}
Dir == [Fields -> Releases \cup {Gone, Cut, Empty}]

NoDir == [f \in Fields |-> Gone]

Says(r) == IF r \in Stale /\ r > 1 THEN r - 1 ELSE r

Installed(r) == [f \in Fields |-> IF f = "ver" THEN Says(r) ELSE r]

\* A file of d overwritten, by that of release r or by what is not whole.
Put(d, f, r) ==
  [g \in Fields |-> IF g = f THEN r
                    ELSE IF g = "ver" /\ f = "meta" THEN IF r > 0 THEN Says(r) ELSE 0
                    ELSE d[g]]

Pinned(d, r) == [d EXCEPT !["ver"] = r]

Init ==
  /\ tool \in Tools
  /\ latest = 1 /\ rel = 1 /\ pc = "idle" /\ said = "nothing"
  \* An installation, or one that an earlier accident left without a file.
  /\ dir \in {Installed(1), Put(Installed(1), "core", Gone)}
  /\ backup = NoDir /\ kept = FALSE
  /\ zip = <<>> /\ marker = 0 /\ retries = 0 /\ total = 0
  /\ left = {} /\ good = FALSE /\ loaded = TRUE /\ faults = 0
  /\ before = dir /\ short = FALSE /\ owed = FALSE

\* Something goes wrong: counted, so that it does not go wrong for ever.
Fault(kind) == kind \in Faults /\ faults < MAX_FAULTS /\ faults' = faults + 1

\* The attempt is over, with a message.
Ends(how) ==
  /\ pc' = "idle" /\ said' = how
  /\ retries' = 0 /\ total' = 0 /\ left' = {} /\ good' = FALSE /\ kept' = FALSE

Goes(step) == pc' = step /\ UNCHANGED <<said, retries, total, left, good, kept>>

-----------------------------------------------------------------------------
(* The check for an update, and the download.                              *)

Publish ==
  /\ latest < Len(Size)
  /\ latest' = latest + 1
  /\ UNCHANGED <<tool, rel, pc, diskVars, kept, retries, total, left, good,
                 loaded, faults, said, history>>

\* KOReader loads the plugin only when its files can be read.
Loads(d) == d["meta"] \notin {Gone, Cut} /\ d["core"] # Cut

\* checkForUpdate, and the user agrees: dofile of _meta.lua gives the version.
checkForUpdate ==
  /\ pc = "idle" /\ loaded
  /\ dir["meta"] \notin {Gone, Cut} /\ dir["ver"] < latest
  /\ rel' = latest
  /\ pc' = "guard" /\ said' = "nothing"
  /\ before' = dir /\ short' = FALSE /\ owed' = FALSE
  /\ UNCHANGED <<tool, latest, diskVars, kept, retries, total, left, good, loaded, faults>>

\* A partial file is resumed only if the marker names the expected size.
\* Mutant: if there is a marker.
GuardAnyMarker ==
  /\ pc = "guard"
  /\ IF marker # 0 THEN Goes("get") /\ UNCHANGED zip ELSE Goes("mark") /\ zip' = <<>>
  /\ UNCHANGED <<tool, latest, rel, dir, backup, marker, loaded, faults, history>>

Guard ==
  /\ pc = "guard"
  /\ IF marker = Size[rel] THEN Goes("get") /\ UNCHANGED zip
                           ELSE Goes("mark") /\ zip' = <<>>
  /\ UNCHANGED <<tool, latest, rel, dir, backup, marker, loaded, faults, history>>

Mark ==
  /\ pc = "mark"
  /\ marker' = Size[rel]
  /\ Goes("get")
  /\ UNCHANGED <<tool, latest, rel, dir, backup, zip, loaded, faults, history>>

Chunks(n, c) == [i \in 1..n |-> c]
Missing == Size[rel] - Len(zip)

downloadVars == <<tool, latest, rel, dir, backup, loaded, history>>

\* The file is long enough, before a request or after one that went well.
Downloaded(bytes) ==
  /\ zip' = bytes /\ marker' = 0
  /\ pc' = "check" /\ UNCHANGED <<said, retries, total, left, good, kept>>

HasAll ==
  /\ pc = "get" /\ Missing <= 0
  /\ Downloaded(zip)
  /\ UNCHANGED <<downloadVars, faults>>

Asks == pc = "get" /\ Missing > 0

\* 200 to the first request, 206 to one that resumes.
ReplyWhole ==
  /\ Asks
  /\ Downloaded(zip \o Chunks(Missing, rel))
  /\ UNCHANGED <<downloadVars, faults>>

\* The counters after a request of this kind, and whether that was the last.
\* Mutant: one retry more.
CountedLate(r, t) ==
  IF r > MAX_RETRIES + 1 \/ t > MAX_TOTAL
  THEN Ends("failed")
  ELSE retries' = r /\ total' = t /\ UNCHANGED <<pc, said, left, good, kept>>

Counted(r, t) ==
  IF r > MAX_RETRIES \/ t > MAX_TOTAL
  THEN Ends("failed")
  ELSE retries' = r /\ total' = t /\ UNCHANGED <<pc, said, left, good, kept>>

\* 200 to a request that resumes: the whole zip follows the part.
RangeIgnored ==
  /\ Asks /\ zip # <<>>
  /\ zip' = <<>>
  /\ Counted(retries + 1, total)
  /\ UNCHANGED <<downloadVars, marker, faults>>

\* A reply said to be complete that is not: progress forgives the earlier
\* failures here too, and max_total_attempts does not count such replies.
ReplyShort ==
  /\ Asks
  /\ \E n \in 0..(Missing - 1) :
       /\ zip' = zip \o Chunks(n, rel)
       /\ Counted(IF n > 0 THEN 0 ELSE retries + 1, total)
  /\ UNCHANGED <<downloadVars, marker, faults>>

\* An error after n chunks, which stay in the file: progress forgives the
\* earlier failures, but for the limit on all.  Mutant: that count starts again, too.
FailedForgotten(n) ==
  IF n > 0 THEN Counted(0, 0) ELSE Counted(retries + 1, total + 1)

Failed(n) == Counted(IF n > 0 THEN 0 ELSE retries + 1, total + 1)

Drops ==
  /\ Asks
  /\ \E n \in 0..Missing : zip' = zip \o Chunks(n, rel) /\ Failed(n)
  /\ UNCHANGED <<downloadVars, marker, faults>>

\* The sink takes the body of an error as well.
Spoils ==
  /\ Asks /\ Fault("junk")
  /\ \E n \in 1..2 : zip' = zip \o Chunks(n, Junk) /\ Failed(n)
  /\ UNCHANGED <<downloadVars, marker>>

DiskFull ==
  /\ Asks /\ Fault("space")
  /\ \E n \in 0..(Missing - 1) : zip' = zip \o Chunks(n, rel)
  /\ Ends("failed")
  /\ UNCHANGED <<downloadVars, marker>>

-----------------------------------------------------------------------------
(* The installation.                                                       *)

\* A file of another size would be taken for complete ever after: removed.
Check ==
  /\ pc = "check"
  /\ IF Len(zip) = Size[rel] THEN Goes("probe") /\ UNCHANGED zip
                             ELSE Ends("failed") /\ zip' = <<>>
  /\ marker' = 0
  /\ UNCHANGED <<downloadVars, faults>>

Intact == zip = Chunks(Size[rel], rel)

\* Where `unzip -t` rejects the zip, for its bytes or for lack of the option,
\* `unzip -l` is asked, which reads the directory at the end of the archive:
\* that decides.  Without unzip nothing is probed.
Probed == tool = "none" \/ zip[Len(zip)] = rel

Probe ==
  /\ pc = "probe"
  /\ IF Probed THEN Goes("backup") /\ UNCHANGED zip
               ELSE Ends("failed") /\ zip' = <<>>
  /\ UNCHANGED <<downloadVars, marker, faults>>

\* The old copy is removed and a new one made; without it the update goes on.
Backup ==
  /\ pc = "backup"
  /\ \/ backup' = dir /\ kept' = TRUE /\ owed' = TRUE /\ UNCHANGED faults
     \/ Fault("backup") /\ backup' = NoDir /\ kept' = FALSE /\ UNCHANGED owed
  /\ pc' = "unpack" /\ left' = Files
  /\ UNCHANGED <<tool, latest, rel, dir, getVars, good, loaded, said, before, short>>

installVars == <<tool, latest, rel, backup, kept, getVars, loaded, said, before, owed>>

\* Device:unpackArchive and cp: the files are overwritten one by one.  Only
\* the first of them refuses a zip that is not whole.
WriteFile ==
  /\ pc \in {"unpack", "copy"}
  /\ \E f \in left, c \in {rel, Cut} :
       /\ pc = "unpack" => c = rel /\ (left = {f} => Intact)
       /\ Intact => c = rel
       /\ dir' = Put(dir, f, c) /\ left' = left \ {f}
  /\ UNCHANGED <<installVars, pc, good, faults, short>>

Unpacked ==
  /\ pc = "unpack" /\ left = {}
  /\ pc' = "verify" /\ good' = TRUE
  /\ UNCHANGED <<installVars, dir, left, faults, short>>

\* archive_read_extract2 stops in the middle of a file, or refuses the archive.
UnpackFails ==
  /\ pc = "unpack" /\ left # {}
  /\ IF Intact THEN Fault("unpack") ELSE UNCHANGED faults
  /\ dir' \in {dir} \cup {Put(dir, f, Cut) : f \in left}
  /\ pc' = "unzip" /\ left' = {}
  /\ UNCHANGED <<installVars, good, short>>

\* The fallback: unzip aside, its exit code ignored, and copy what there is.
Unzip ==
  /\ pc = "unzip"
  /\ \E S \in SUBSET Files :
       /\ tool = "none" => S = {}
       /\ IF tool # "none" /\ Intact /\ S # Files THEN Fault("unzip") ELSE UNCHANGED faults
       /\ left' = S
       \* Nothing to copy is a failure, unless the zip's own directory is there.
       /\ \/ S = {} /\ pc' = "clean" /\ good' = FALSE /\ UNCHANGED short
          \/ tool # "none" /\ pc' = "copy" /\ good' = TRUE /\ short' = ~(Intact /\ S = Files)
  /\ UNCHANGED <<installVars, dir>>

Copied ==
  /\ pc = "copy" /\ left = {}
  /\ pc' = "verify"
  /\ UNCHANGED <<installVars, dir, left, good, faults, short>>

\* cp stops: nobody looks at its exit code.
CopyStops ==
  /\ pc = "copy" /\ left # {} /\ Fault("copy")
  /\ dir' \in {dir} \cup {Put(dir, f, Cut) : f \in left}
  /\ short' = TRUE
  /\ pc' = "verify" /\ left' = {}
  /\ UNCHANGED <<installVars, good>>

\* verifyPluginDir: the files of the list can be opened.
Verify ==
  /\ pc = "verify"
  /\ good' = (\A f \in Critical : dir[f] # Gone)
  /\ pc' = "clean"
  /\ UNCHANGED <<installVars, dir, left, faults, short>>

\* The zip and its marker go; then, of a plugin that was verified, the copy.
\* Mutant: the copy goes either way.
CleanDropsCopy ==
  /\ pc = "clean"
  /\ zip' = <<>> /\ marker' = 0
  /\ IF good THEN Goes("pin") ELSE IF kept THEN Goes("restore") ELSE Ends("failed")
  /\ backup' = (IF kept THEN NoDir ELSE backup)
  /\ owed' = (owed /\ ~good)
  /\ UNCHANGED <<tool, latest, rel, dir, loaded, faults, before, short>>

Clean ==
  /\ pc = "clean"
  /\ zip' = <<>> /\ marker' = 0
  /\ IF good
     THEN Goes("pin") /\ backup' = (IF kept THEN NoDir ELSE backup)
     ELSE /\ IF kept THEN Goes("restore") ELSE Ends("failed")
          /\ UNCHANGED backup
  /\ owed' = (owed /\ ~good)
  /\ UNCHANGED <<tool, latest, rel, dir, loaded, faults, before, short>>

\* Mutant: what was unpacked stays.
RestoreNothing ==
  /\ pc = "restore"
  /\ Ends("failed")
  /\ UNCHANGED <<tool, latest, rel, diskVars, loaded, faults, history>>

Removed(d, S) ==
  [f \in Fields |-> IF f \in S \/ (f = "ver" /\ "meta" \in S) THEN Gone ELSE d[f]]

\* rm -rf of the directory and mv of the copy, on one file system; or one of
\* the two fails, which nobody looks at: rm leaves some of the files, and mv
\* then puts the copy inside the directory, or mv leaves it where it was.
Restore ==
  /\ pc = "restore"
  /\ \/ /\ dir' = backup /\ backup' = NoDir
        /\ Ends("failed") /\ UNCHANGED faults
     \/ /\ Fault("restore")
        /\ \E S \in SUBSET Files : dir' = Removed(dir, S)
        /\ Ends("unrestored") /\ UNCHANGED backup
  /\ UNCHANGED <<tool, latest, rel, zip, marker, loaded, history>>

Unpinned == dir["meta"] > 0 /\ dir["ver"] # rel

\* The version of _meta.lua becomes that of the release, where it has one.
\* Mutant: the version of the zip stays.
PinForgotten ==
  /\ pc = "pin"
  /\ Ends("updated")
  /\ UNCHANGED <<tool, latest, rel, diskVars, loaded, faults, history>>

Pin ==
  /\ pc = "pin"
  /\ \/ /\ dir' = IF Unpinned THEN Pinned(dir, rel) ELSE dir
        /\ Ends("updated") /\ UNCHANGED faults
     \/ Unpinned /\ Fault("pin") /\ Ends("unpinned") /\ UNCHANGED dir
  /\ UNCHANGED <<tool, latest, rel, backup, zip, marker, loaded, history>>

-----------------------------------------------------------------------------
(* Losing power, and starting again.                                       *)

\* What may be found in the directory, by the step that was under way.
Torn ==
  CASE pc \in {"unpack", "copy"} -> {dir} \cup {Put(dir, f, Cut) : f \in left}
    [] pc = "restore"            -> {dir, NoDir}
    [] pc = "pin" /\ Unpinned    -> {dir, Put(dir, "meta", Empty)}
    [] OTHER                     -> {dir}

Crash ==
  /\ pc # "idle" /\ Fault("crash")
  /\ dir' \in Torn
  /\ backup' = IF pc = "backup" THEN NoDir ELSE backup
  /\ zip' \in {zip} \cup (IF Asks THEN {Append(zip, c) : c \in {rel, Junk}} ELSE {})
  /\ marker' \in {marker} \cup (IF pc = "mark" THEN {0} ELSE {})
  /\ loaded' = Loads(dir')
  /\ Ends("crashed")
  /\ UNCHANGED <<tool, latest, rel, history>>

\* "Restart now", or another day.
Restart ==
  /\ pc = "idle"
  /\ loaded' = Loads(dir)
  /\ UNCHANGED <<tool, latest, rel, pc, diskVars, kept, retries, total, left, good,
                 faults, said, history>>

\* One request of the download with its effect on the file.
Request == ReplyWhole \/ RangeIgnored \/ ReplyShort \/ Drops

Step ==
  \/ checkForUpdate \/ Guard \/ Mark \/ HasAll \/ Request
  \/ Check \/ Probe \/ Backup \/ WriteFile \/ Unpacked \/ Unzip \/ Copied
  \/ Verify \/ Clean \/ Restore \/ Pin
  \/ UnpackFails

Next ==
  \/ Step \/ Publish \/ Restart
  \/ Spoils \/ DiskFull \/ CopyStops \/ Crash

Spec == Init /\ [][Next]_vars

\* The callback runs on, and the user asks again until there is no update.
FairSpec == Spec /\ WF_vars(Step)

-----------------------------------------------------------------------------
(* Properties.                                                             *)

TypeAttempt ==
  /\ tool \in Tools /\ latest \in Releases /\ rel \in Releases
  /\ pc \in {"idle", "guard", "mark", "get", "check", "probe", "backup", "unpack",
             "unzip", "copy", "verify", "clean", "restore", "pin"}
  /\ left \subseteq Files
  /\ said \in {"nothing", "failed", "updated", "unpinned", "unrestored", "crashed"}

TypeFlags ==
  /\ kept \in BOOLEAN /\ good \in BOOLEAN /\ loaded \in BOOLEAN
  /\ short \in BOOLEAN /\ owed \in BOOLEAN

TypeCounters ==
  /\ retries \in 0..MAX_RETRIES /\ total \in 0..MAX_TOTAL /\ faults \in 0..MAX_FAULTS

TypeDisk ==
  /\ dir \in Dir /\ backup \in Dir /\ before \in Dir
  /\ zip \in Seq(Releases \cup {Junk}) /\ marker \in Nat

\* The state is of its types, and the counters of the download within limits.
TypeOK == TypeAttempt /\ TypeFlags /\ TypeCounters /\ TypeDisk

\* The partial file that an attempt goes on with, left there by an earlier one
\* that failed or crashed, is never a part of another release's zip
\* (downloadFile, the .expected marker), for releases of different sizes.
OneRelease ==
  pc \notin {"idle", "guard"} => zip \in Seq({rel, Junk})

\* From the copy on to the end of the attempt, and after a crash until the
\* next attempt replaces the copy, the plugin as it was before is on the disk:
\* in its place or aside (_performUpdate, backup and restore).
CopyKept == owed => dir = before \/ backup = before

Replacing == pc \in {"unpack", "unzip", "copy", "verify", "clean", "restore"}

\* How an attempt may end: the step relation of UpdateIsAtomic.
EndsWhole ==
  pc # "idle" /\ pc' = "idle" =>
    /\ said' = "failed"   => dir' = before \/ (pc = "clean" /\ ~kept)
    /\ said' = "updated"  => short \/ dir' = Pinned(Installed(rel), rel)
    /\ said' = "unpinned" => short \/ dir' = Installed(rel)
    /\ said' = "crashed"  => dir' = before \/ Replacing \/ pc = "pin"

\* An attempt that fails leaves the plugin as it found it; one that reports
\* the update has installed every file of the release and its version, so that
\* it is not offered again; a crash does harm only while files are replaced.
\* Excepted are the failures the code does not look at: a copy aside that could
\* not be made, a fallback that did not copy the whole release, a restore whose
\* rm or mv fails, and a version that could not be written, which is reported as
\* an update although the version is still that of the zip ("unpinned").
UpdateIsAtomic == [][EndsWhole]_vars

\* A server that again and again takes a request to resume for one of the whole
\* file, and again and again ends a reply before its end.
Alternates ==
  []<><<RangeIgnored>>_vars /\ []<><<ReplyShort /\ zip' # zip>>_vars

\* A download ends, whatever the connection does that is not Alternates: each
\* kind of request may make progress, which forgives earlier failures, and each
\* is limited by something else - errors by their number, early ends by the
\* growing file, ignored Range headers by the retries (downloadFile, retry_count
\* and max_total_attempts).  Early ends and ignored headers by turns are not: the
\* one forgives the other's retry, the other takes the one's progress away.
DownloadEnds == Alternates \/ []<>(pc # "get")

Current == \E v \in {latest} :
  dir \in {Installed(v), Pinned(Installed(v), v)} /\ dir["ver"] = v

\* Nothing the plugin can do: it does not load, or takes itself for current.
Stuck == ~loaded \/ dir["meta"] \in {Gone, Cut} \/ (dir["ver"] >= latest /\ ~Current)

\* Where downloads are tried for ever, they succeed for ever.
NetworkRecovers == []<>(pc = "get") => []<><<ReplyWhole>>_vars

\* Whatever earlier attempts left behind - a spoilt or partial file, a stale
\* marker, an emptied _meta.lua, a version that was not pinned - a user who
\* asks again gets the release, unless the plugin no longer runs or reports
\* the version of files it has not got.
EventuallyCurrent == NetworkRecovers => <>[](Current \/ Stuck)
=============================================================================
