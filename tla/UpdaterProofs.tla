--------------------------- MODULE UpdaterProofs ---------------------------
(***************************************************************************)
(* What is proved about Updater for every number and size of releases,     *)
(* every device and every limit on retries and faults.                     *)
(***************************************************************************)
EXTENDS Updater, TLAPS, SequenceTheorems

-----------------------------------------------------------------------------
(* What all else rests on.                                                 *)

Basics == latest \in Releases /\ rel \in Releases /\ left \subseteq Files

\* Releases are numbered, and no zip is empty.
LEMMA Sized == Releases = 1..Len(Size) /\ \A r \in Releases : Size[r] \in Nat \ {0}
  BY SizeAssumption DEF Releases

\* Basics is inductive.
LEMMA BasicsInit == Init => Basics
  BY Sized, SizeAssumption DEF Init, Basics

\* Only Publish and checkForUpdate choose a release, the newest there is.
LEMMA BasicsStep ==
  ASSUME Basics, [Next]_vars
  PROVE  Basics'
<1>1. CASE Step
  BY <1>1 DEF Basics, Step, Request, checkForUpdate, Guard, Mark, HasAll, ReplyWhole,
     RangeIgnored, ReplyShort, Drops, Check, Probe, Backup, WriteFile, Unpacked, Unzip,
     Copied, Verify, Clean, Restore, Pin, UnpackFails, Goes, Ends, Downloaded, Counted, Failed,
     downloadVars, installVars
<1>2. CASE Publish
  <2>1. latest' \in Releases
    BY <1>2, Sized, SizeAssumption DEF Publish, Basics
  <2> QED
    BY <1>2, <2>1 DEF Publish, Basics
<1>3. CASE Restart \/ Spoils \/ DiskFull \/ CopyStops \/ Crash
  BY <1>3 DEF Basics, Restart, Spoils, DiskFull, CopyStops, Crash,
     Counted, Failed, Ends, downloadVars, installVars
<1>4. CASE UNCHANGED vars
  BY <1>4 DEF Basics, vars
<1> QED
  BY <1>1, <1>2, <1>3, <1>4 DEF Next

-----------------------------------------------------------------------------
(* The copy aside.                                                         *)

\* CopyKept with what it rests on: until the copy is made the directory has
\* not been touched; from then on `kept` tells whether there is one, and the
\* copy outlives everything but an installation that was verified.
CopyInv ==
  /\ owed => dir = before \/ backup = before
  /\ ~Replacing /\ pc \notin {"idle", "pin"} => dir = before /\ ~owed
  /\ pc \in {"unpack", "unzip", "copy", "verify", "clean"} =>
       (owed => kept) /\ (kept => backup = before)
  /\ pc = "restore" => kept /\ backup = before
  /\ pc = "pin" => ~owed

\* Before the first attempt no copy is owed.
LEMMA CopyInit == Init => CopyInv
  BY DEF Init, Replacing, CopyInv

\* Every step keeps CopyInv, by that step's own guard and assignments.
LEMMA CopyStep ==
  ASSUME CopyInv, [Next]_vars
  PROVE  CopyInv'
<1>1. CASE checkForUpdate
  BY <1>1 DEF checkForUpdate, diskVars, Replacing, CopyInv
<1>2. CASE Guard
  BY <1>2 DEF Guard, Goes, history, Replacing, CopyInv
<1>3. CASE Mark
  BY <1>3 DEF Mark, Goes, history, Replacing, CopyInv
<1>4. CASE HasAll
  BY <1>4 DEF HasAll, Downloaded, downloadVars, history, Replacing, CopyInv
<1>5. CASE ReplyWhole
  BY <1>5 DEF ReplyWhole, Asks, Downloaded, downloadVars, history, Replacing, CopyInv
<1>6. CASE RangeIgnored
  BY <1>6 DEF RangeIgnored, Asks, Counted, Ends, downloadVars, history, Replacing,
     CopyInv
<1>7. CASE Drops
  BY <1>7 DEF Drops, Asks, Failed, Counted, Ends, downloadVars, history, Replacing,
     CopyInv
<1>8. CASE Check
  BY <1>8 DEF Check, Goes, Ends, downloadVars, history, Replacing, CopyInv
<1>9. CASE Probe
  BY <1>9 DEF Probe, Goes, Ends, downloadVars, history, Replacing, CopyInv
<1>10. CASE Backup
  BY <1>10 DEF Backup, Replacing, CopyInv
<1>11. CASE WriteFile
  BY <1>11 DEF WriteFile, installVars, Replacing, CopyInv
<1>12. CASE Unpacked
  BY <1>12 DEF Unpacked, installVars, Replacing, CopyInv
<1>13. CASE Unzip
  BY <1>13 DEF Unzip, installVars, Replacing, CopyInv
<1>14. CASE Copied
  BY <1>14 DEF Copied, installVars, Replacing, CopyInv
<1>15. CASE Verify
  BY <1>15 DEF Verify, installVars, Replacing, CopyInv
<1>16. CASE Clean
  BY <1>16 DEF Clean, Goes, Ends, Replacing, CopyInv
<1>17. CASE Restore
  BY <1>17 DEF Restore, Ends, history, Replacing, CopyInv
<1>18. CASE Pin
  BY <1>18 DEF Pin, Ends, history, Replacing, CopyInv
<1>19. CASE UnpackFails
  BY <1>19 DEF UnpackFails, installVars, Replacing, CopyInv
<1>20. CASE Publish
  BY <1>20 DEF Publish, diskVars, history, Replacing, CopyInv
<1>21. CASE Restart
  BY <1>21 DEF Restart, diskVars, history, Replacing, CopyInv
<1>22. CASE ReplyShort
  BY <1>22 DEF ReplyShort, Asks, Counted, Ends, downloadVars, history, Replacing,
     CopyInv
<1>23. CASE Spoils
  BY <1>23 DEF Spoils, Asks, Failed, Counted, Ends, downloadVars, history,
     Replacing, CopyInv
<1>24. CASE DiskFull
  BY <1>24 DEF DiskFull, Asks, Ends, downloadVars, history, Replacing, CopyInv
<1>25. CASE CopyStops
  BY <1>25 DEF CopyStops, installVars, Replacing, CopyInv
<1>26. CASE Crash
  BY <1>26 DEF Crash, Ends, Torn, history, Replacing, CopyInv
<1>27. CASE UNCHANGED vars
  BY <1>27 DEF vars, history, Replacing, CopyInv
<1> QED
  BY <1>1, <1>2, <1>3, <1>4, <1>5, <1>6, <1>7, <1>8, <1>9, <1>10, <1>11, <1>12,
     <1>13, <1>14, <1>15, <1>16, <1>17, <1>18, <1>19, <1>20, <1>21, <1>22, <1>23,
     <1>24, <1>25, <1>26, <1>27 DEF Next, Step, Request

\* The copy made before the installation is never lost before the attempt has
\* succeeded, or put it back: not by failures, nor by a crash at any step.
THEOREM CopyIsKept == Spec => []CopyKept
<1>1. CopyInv => CopyKept
  BY DEF CopyInv, CopyKept
<1> QED
  BY <1>1, CopyInit, CopyStep, PTL DEF Spec

-----------------------------------------------------------------------------
(* The partial file.                                                       *)

\* Releases of one size cannot be told apart by the marker.
Distinct == \A r, s \in Releases : Size[r] = Size[s] => r = s

\* n more chunks of the release, or of junk.
LEMMA Appended ==
  ASSUME NEW r, NEW z \in Seq({r, Junk}), NEW n \in Nat, NEW c \in {r, Junk}
  PROVE  z \o Chunks(n, c) \in Seq({r, Junk})
<1>1. Chunks(n, c) \in [1..n -> {r, Junk}]
  BY DEF Chunks
<1>2. Chunks(n, c) \in Seq({r, Junk})
  BY <1>1, SeqDef
<1> QED
  BY <1>2, ConcatProperties

\* The chunk that a crash leaves at the end of the file.
LEMMA OneMore ==
  ASSUME NEW r, NEW z \in Seq({r, Junk}), NEW c \in {r, Junk}
  PROVE  Append(z, c) \in Seq({r, Junk})
  OBVIOUS

\* What is left between two attempts: a file for the release of this size.
Resumable ==
  marker # 0 => \E r \in Releases : Size[r] = marker /\ zip \in Seq({r, Junk})

\* The marker is written when the file is empty, and is there while it grows.
ZipInv ==
  /\ pc \in {"idle", "guard", "mark"} => Resumable
  /\ pc \notin {"idle", "guard"} => zip \in Seq({rel, Junk})
  /\ pc = "mark" => zip = <<>>
  /\ pc = "get" => marker = Size[rel]
  /\ pc \notin {"idle", "guard", "mark", "get"} => marker = 0

\* Every step keeps ZipInv: Guard by Distinct, the requests by Appended.
LEMMA ZipStep ==
  ASSUME Distinct, Basics, ZipInv, [Next]_vars
  PROVE  ZipInv'
<1>a. pc = "get" => zip \in Seq({rel, Junk}) /\ marker = Size[rel] /\ rel \in Releases
  BY DEF ZipInv, Basics
<1>1. CASE checkForUpdate
  BY <1>1 DEF checkForUpdate, diskVars, Basics, ZipInv, Resumable
<1>2. CASE Guard
  <2>1. pc = "guard" /\ Size[rel] # 0 /\ rel \in Releases /\ Resumable
    BY <1>2, Sized DEF Guard, Basics, ZipInv
  <2>2. CASE marker = Size[rel]
    <3>1. PICK r \in Releases : Size[r] = marker /\ zip \in Seq({r, Junk})
      BY <2>1, <2>2 DEF Resumable
    <3>2. r = rel
      BY <2>1, <2>2, <3>1 DEF Distinct
    <3> QED
      BY <1>2, <2>1, <2>2, <3>1, <3>2 DEF Guard, Goes, ZipInv
  <2>3. CASE marker # Size[rel]
    <3>1. \A r : zip' \in Seq({r, Junk})
      BY <1>2, <2>3, EmptySeq DEF Guard
    <3> QED
      BY <1>2, <2>1, <2>3, <3>1 DEF Guard, Goes, Basics, ZipInv, Resumable
  <2> QED
    BY <2>2, <2>3
<1>3. CASE Mark
  BY <1>3 DEF Mark, Goes, Basics, ZipInv, Resumable
<1>4. CASE HasAll
  BY <1>4 DEF HasAll, Downloaded, downloadVars, Basics, ZipInv, Resumable
<1>5. CASE ReplyWhole
  <2>1. Missing \in Nat /\ pc = "get"
    BY <1>5, <1>a, Sized DEF ReplyWhole, Asks, Missing
  <2>2. zip' \in Seq({rel, Junk})
    BY <1>5, <1>a, <2>1, Appended DEF ReplyWhole, Downloaded
  <2> QED
    BY <1>5, <2>1, <2>2 DEF ReplyWhole, Downloaded, downloadVars, ZipInv
<1>6. CASE RangeIgnored
  BY <1>6 DEF RangeIgnored, Asks, Counted, Ends, downloadVars, Basics, ZipInv, Resumable
<1>7. CASE Drops
  <2>1. PICK n \in 0..Missing : zip' = zip \o Chunks(n, rel) /\ Failed(n)
    BY <1>7 DEF Drops
  <2>2. zip' \in Seq({rel, Junk}) /\ pc = "get"
    BY <1>7, <1>a, <2>1, Appended DEF Drops, Asks
  <2> QED
    BY <1>7, <2>1, <2>2 DEF Drops, Failed, Counted, Ends, downloadVars, Basics,
       ZipInv, Resumable
<1>8. CASE Check
  BY <1>8 DEF Check, Goes, Ends, downloadVars, Basics, ZipInv, Resumable
<1>9. CASE Probe
  BY <1>9 DEF Probe, Goes, Ends, downloadVars, Basics, ZipInv, Resumable
<1>10. CASE Backup
  BY <1>10 DEF Backup, getVars, Basics, ZipInv, Resumable
<1>11. CASE WriteFile
  BY <1>11 DEF WriteFile, installVars, getVars, Basics, ZipInv, Resumable
<1>12. CASE Unpacked
  BY <1>12 DEF Unpacked, installVars, getVars, Basics, ZipInv, Resumable
<1>13. CASE Unzip
  BY <1>13 DEF Unzip, installVars, getVars, Basics, ZipInv, Resumable
<1>14. CASE Copied
  BY <1>14 DEF Copied, installVars, getVars, Basics, ZipInv, Resumable
<1>15. CASE Verify
  BY <1>15 DEF Verify, installVars, getVars, Basics, ZipInv, Resumable
<1>16. CASE Clean
  BY <1>16 DEF Clean, Goes, Ends, Basics, ZipInv, Resumable
<1>17. CASE Restore
  BY <1>17 DEF Restore, Ends, Basics, ZipInv, Resumable
<1>18. CASE Pin
  BY <1>18 DEF Pin, Ends, Basics, ZipInv, Resumable
<1>19. CASE UnpackFails
  BY <1>19 DEF UnpackFails, installVars, getVars, Basics, ZipInv, Resumable
<1>20. CASE Publish
  BY <1>20 DEF Publish, diskVars, Basics, ZipInv, Resumable
<1>21. CASE Restart
  BY <1>21 DEF Restart, diskVars, Basics, ZipInv, Resumable
<1>22. CASE ReplyShort
  <2>1. PICK n \in 0..(Missing - 1) :
          /\ zip' = zip \o Chunks(n, rel)
          /\ Counted(IF n > 0 THEN 0 ELSE retries + 1, total)
    BY <1>22 DEF ReplyShort
  <2>2. zip' \in Seq({rel, Junk}) /\ pc = "get"
    BY <1>22, <1>a, <2>1, Appended DEF ReplyShort, Asks
  <2> QED
    BY <1>22, <2>1, <2>2 DEF ReplyShort, Counted, Ends, downloadVars, Basics,
       ZipInv, Resumable
<1>23. CASE Spoils
  <2>1. PICK n \in 1..2 : zip' = zip \o Chunks(n, Junk) /\ Failed(n)
    BY <1>23 DEF Spoils
  <2>2. pc = "get" /\ n \in Nat
    BY <1>23 DEF Spoils, Asks
  <2>3. zip \o Chunks(n, Junk) \in Seq({rel, Junk})
    BY <1>a, <2>2, Appended
  <2> QED
    BY <1>23, <2>1, <2>2, <2>3 DEF Spoils, Failed, Counted, Ends, downloadVars,
       Basics, ZipInv, Resumable
<1>24. CASE DiskFull
  <2>1. PICK n \in 0..(Missing - 1) : zip' = zip \o Chunks(n, rel)
    BY <1>24 DEF DiskFull
  <2>2. zip' \in Seq({rel, Junk}) /\ pc = "get"
    BY <1>24, <1>a, <2>1, Appended DEF DiskFull, Asks
  <2> QED
    BY <1>24, <2>1, <2>2 DEF DiskFull, Ends, downloadVars, Basics, ZipInv, Resumable
<1>25. CASE CopyStops
  BY <1>25 DEF CopyStops, installVars, getVars, Basics, ZipInv, Resumable
<1>26. CASE Crash
  <2>1. CASE pc \in {"guard", "mark"}
    BY <1>26, <2>1 DEF Crash, Ends, Asks, Basics, ZipInv, Resumable
  <2>2. CASE pc = "get"
    <3>1. zip' \in Seq({rel, Junk})
      BY <1>26, <1>a, <2>2, OneMore DEF Crash, Asks
    <3> QED
      BY <1>26, <2>2, <3>1 DEF Crash, Ends, Basics, ZipInv, Resumable
  <2>3. CASE pc \notin {"guard", "mark", "get"}
    BY <1>26, <2>3 DEF Crash, Ends, Asks, Basics, ZipInv, Resumable
  <2> QED
    BY <2>1, <2>2, <2>3
<1>27. CASE UNCHANGED vars
  BY <1>27 DEF vars, Basics, ZipInv, Resumable
<1> QED
  BY <1>1, <1>2, <1>3, <1>4, <1>5, <1>6, <1>7, <1>8, <1>9, <1>10, <1>11, <1>12,
     <1>13, <1>14, <1>15, <1>16, <1>17, <1>18, <1>19, <1>20, <1>21, <1>22, <1>23,
     <1>24, <1>25, <1>26, <1>27 DEF Next, Step, Request

\* A download never resumes the part of another release's zip, whatever
\* failures and crashes left on the disk, if the releases differ in size.
THEOREM PartsAreOfOneRelease ==
  ASSUME Distinct
  PROVE  Spec => []OneRelease
<1>1. Init => ZipInv
  BY DEF Init, ZipInv, Resumable
<1>2. Basics /\ ZipInv /\ [Next]_vars => ZipInv'
  BY ZipStep
<1>3. ZipInv => OneRelease
  BY DEF ZipInv, OneRelease
<1> QED
  BY <1>1, <1>2, <1>3, BasicsInit, BasicsStep, PTL DEF Spec

-----------------------------------------------------------------------------
(* The directory.                                                          *)

Types == rel \in Nat \ {0} /\ dir \in [Fields -> Int] /\ backup \in [Fields -> Int]

\* What has been written since the unpacking, or the copying, began.
Written ==
  /\ \A f \in Files \ left : dir[f] = rel
  /\ "meta" \notin left => dir["ver"] = Says(rel)

\* Where no fallback stopped short, the files not in `left` are the release's,
\* and once none is left the directory is the release.
WholeInv ==
  /\ Types
  /\ pc = "unpack" \/ (pc = "copy" /\ ~short) => Written
  /\ pc = "copy" /\ ~short => Intact
  /\ pc = "verify" /\ ~short => dir = Installed(rel)
  /\ pc = "clean" /\ good /\ ~short => dir = Installed(rel)
  /\ pc = "pin" /\ ~short => dir = Installed(rel)

\* What a directory holds is numbers, however it came to be.
LEMMA SaysInt == \A r \in Nat : Says(r) \in Int
  BY DEF Says

\* The same of an installed release.
LEMMA InstalledInt == \A r \in Nat : Installed(r) \in [Fields -> Int]
  BY SaysInt DEF Installed

\* The same of a directory that is gone.
LEMMA NoDirInt == NoDir \in [Fields -> Int]
  BY DEF NoDir, Gone

\* The same of a file overwritten.
LEMMA PutInt ==
  ASSUME NEW d \in [Fields -> Int], NEW f \in Files, NEW r \in Int
  PROVE  Put(d, f, r) \in [Fields -> Int]
<1>1. r > 0 => Says(r) \in Int
  BY SaysInt
<1> QED
  BY <1>1 DEF Put, Fields

\* The same of files removed.
LEMMA RemovedInt ==
  ASSUME NEW d \in [Fields -> Int], NEW S \in SUBSET Files
  PROVE  Removed(d, S) \in [Fields -> Int]
  BY DEF Removed, Gone

\* A file that is written stays, and the last one makes the release.
LEMMA WriteKeeps ==
  ASSUME Types, Written, left \subseteq Files, NEW f \in left
  PROVE  /\ \A g \in Files \ (left \ {f}) : Put(dir, f, rel)[g] = rel
         /\ "meta" \notin left \ {f} => Put(dir, f, rel)["ver"] = Says(rel)
<1>1. ASSUME NEW g \in Files \ (left \ {f}) PROVE Put(dir, f, rel)[g] = rel
  <2>1. g = f \/ dir[g] = rel
    BY <1>1 DEF Written
  <2>2. g \in Fields /\ g # "ver"
    BY <1>1 DEF Fields, Files
  <2> QED
    BY <2>1, <2>2 DEF Put
<1>2. ASSUME "meta" \notin left \ {f} PROVE Put(dir, f, rel)["ver"] = Says(rel)
  <2>1. f = "meta" \/ dir["ver"] = Says(rel)
    BY <1>2 DEF Written
  <2>2. f # "ver" /\ rel > 0
    BY DEF Types, Files
  <2> QED
    BY <2>1, <2>2 DEF Put, Fields
<1> QED
  BY <1>1, <1>2

\* Once every file is written the directory is the release.
LEMMA NothingLeft ==
  ASSUME Types, Written, left = {}
  PROVE  dir = Installed(rel)
<1>1. Installed(rel) \in [Fields -> Int]
  BY InstalledInt DEF Types
<1>2. \A f \in Fields : dir[f] = Installed(rel)[f]
  BY DEF Types, Written, Installed, Fields, Files
<1> QED
  BY <1>1, <1>2 DEF Types

\* Every step keeps WholeInv; the files are those of WriteKeeps.
LEMMA WholeStep ==
  ASSUME Basics, WholeInv, [Next]_vars
  PROVE  WholeInv'
<1>a. left \subseteq Files
  BY DEF Basics
<1>1. CASE checkForUpdate
  <2>1. rel' \in Nat \ {0}
    BY <1>1, Sized DEF checkForUpdate, Basics
  <2> QED
    BY <1>1, <2>1 DEF checkForUpdate, diskVars, WholeInv, Types
<1>2. CASE Guard
  BY <1>2 DEF Guard, Goes, WholeInv, Types
<1>3. CASE Mark
  BY <1>3 DEF Mark, Goes, WholeInv, Types
<1>4. CASE HasAll
  BY <1>4 DEF HasAll, Downloaded, downloadVars, WholeInv, Types
<1>5. CASE ReplyWhole
  BY <1>5 DEF ReplyWhole, Asks, Downloaded, downloadVars, WholeInv, Types
<1>6. CASE RangeIgnored
  BY <1>6 DEF RangeIgnored, Asks, Counted, Ends, downloadVars, WholeInv, Types
<1>7. CASE Drops
  BY <1>7 DEF Drops, Asks, Failed, Counted, Ends, downloadVars, WholeInv, Types
<1>8. CASE Check
  BY <1>8 DEF Check, Goes, Ends, downloadVars, WholeInv, Types
<1>9. CASE Probe
  BY <1>9 DEF Probe, Goes, Ends, downloadVars, WholeInv, Types
<1>10. CASE Backup
  <2>1. left' = Files /\ pc' = "unpack" /\ dir' = dir /\ rel' = rel
    BY <1>10 DEF Backup
  <2>2. backup' \in [Fields -> Int]
    BY <1>10, NoDirInt DEF Backup, WholeInv, Types
  <2>3. Types' /\ Written'
    BY <2>1, <2>2 DEF WholeInv, Types, Written, Files
  <2> QED
    BY <2>1, <2>3 DEF WholeInv
<1>11. CASE WriteFile
  <2>1. PICK f \in left, c \in {rel, Cut} :
          /\ pc = "unpack" \/ Intact => c = rel
          /\ dir' = Put(dir, f, c) /\ left' = left \ {f}
    BY <1>11 DEF WriteFile
  <2>2. rel' = rel /\ backup' = backup /\ pc' = pc /\ short' = short /\ pc \in {"unpack", "copy"}
    BY <1>11 DEF WriteFile, installVars
  <2>3. f \in Files /\ c \in Int
    BY <1>a, <2>1 DEF WholeInv, Types, Cut
  <2>4. Types'
    BY <2>1, <2>2, <2>3, PutInt DEF WholeInv, Types
  <2>5. zip' = zip
    BY <1>11 DEF WriteFile, installVars, getVars
  <2>6. Intact' <=> Intact
    BY <2>2, <2>5 DEF Intact, Chunks
  <2>7. CASE pc = "unpack" \/ (pc = "copy" /\ ~short)
    <3>1. dir' = Put(dir, f, rel)
      BY <2>1, <2>7 DEF WholeInv
    <3>2. Written'
      BY <1>a, <2>1, <2>2, <2>7, <3>1, WriteKeeps DEF WholeInv, Written
    <3> QED
      BY <2>2, <2>4, <2>6, <3>2 DEF WholeInv
  <2> QED
    BY <2>2, <2>4, <2>7 DEF WholeInv
<1>12. CASE Unpacked
  <2>1. dir = Installed(rel)
    BY <1>12, NothingLeft DEF Unpacked, WholeInv
  <2> QED
    BY <1>12, <2>1 DEF Unpacked, installVars, WholeInv, Types
<1>13. CASE Unzip
  <2>1. dir' = dir /\ rel' = rel /\ backup' = backup
    BY <1>13 DEF Unzip, installVars
  <2>2. Types'
    BY <2>1 DEF WholeInv, Types
  <2>3. CASE pc' = "clean" /\ ~good'
    BY <2>2, <2>3 DEF WholeInv
  <2>4. CASE pc' = "copy" /\ (short' \/ (Intact /\ left' = Files))
    <3>1. left' = Files => Written'
      BY <2>1 DEF Written, Files
    <3>2. Intact' <=> Intact
      BY <1>13, <2>1 DEF Unzip, installVars, getVars, Intact, Chunks
    <3> QED
      BY <2>2, <2>4, <3>1, <3>2 DEF WholeInv
  <2> QED
    BY <1>13, <2>3, <2>4 DEF Unzip
<1>14. CASE Copied
  <2>1. ~short => dir = Installed(rel)
    BY <1>14, NothingLeft DEF Copied, WholeInv
  <2> QED
    BY <1>14, <2>1 DEF Copied, installVars, WholeInv, Types
<1>15. CASE Verify
  BY <1>15 DEF Verify, installVars, WholeInv, Types
<1>16. CASE Clean
  <2>1. backup' \in [Fields -> Int] /\ dir' = dir /\ rel' = rel /\ short' = short
    BY <1>16, NoDirInt DEF Clean, WholeInv, Types
  <2>2. pc' = "pin" => good
    BY <1>16 DEF Clean, Goes, Ends
  <2>3. pc' \in {"pin", "restore", "idle"} /\ pc = "clean"
    BY <1>16 DEF Clean, Goes, Ends
  <2> QED
    BY <2>1, <2>2, <2>3 DEF WholeInv, Types
<1>17. CASE Restore
  <2>1. \A S \in SUBSET Files : Removed(dir, S) \in [Fields -> Int]
    BY RemovedInt DEF WholeInv, Types
  <2>2. dir' \in [Fields -> Int] /\ backup' \in [Fields -> Int]
    BY <1>17, <2>1, NoDirInt DEF Restore, WholeInv, Types
  <2> QED
    BY <1>17, <2>2 DEF Restore, Ends, WholeInv, Types
<1>18. CASE Pin
  <2>1. dir' \in [Fields -> Int] /\ rel' = rel /\ backup' = backup /\ pc' = "idle"
    BY <1>18 DEF Pin, Ends, Pinned, WholeInv, Types
  <2> QED
    BY <2>1 DEF WholeInv, Types
<1>19. CASE UnpackFails
  <2>1. dir' \in [Fields -> Int]
    BY <1>19, <1>a, PutInt DEF UnpackFails, WholeInv, Types, Cut
  <2>2. pc' = "unzip" /\ rel' = rel /\ backup' = backup
    BY <1>19 DEF UnpackFails, installVars
  <2> QED
    BY <2>1, <2>2 DEF WholeInv, Types
<1>20. CASE Publish
  BY <1>20 DEF Publish, diskVars, history, WholeInv, Types, Written, Intact, Chunks
<1>21. CASE Restart
  BY <1>21 DEF Restart, diskVars, WholeInv, Types
<1>22. CASE ReplyShort
  BY <1>22 DEF ReplyShort, Asks, Counted, Ends, downloadVars, WholeInv, Types
<1>23. CASE Spoils
  BY <1>23 DEF Spoils, Asks, Failed, Counted, Ends, downloadVars, WholeInv, Types
<1>24. CASE DiskFull
  BY <1>24 DEF DiskFull, Asks, Ends, downloadVars, WholeInv, Types
<1>25. CASE CopyStops
  <2>1. dir' \in [Fields -> Int]
    BY <1>25, <1>a, PutInt DEF CopyStops, WholeInv, Types, Cut
  <2> QED
    BY <1>25, <2>1 DEF CopyStops, installVars, WholeInv, Types
<1>26. CASE Crash
  <2>1. \A f \in Files : Put(dir, f, Cut) \in [Fields -> Int]
    BY PutInt DEF WholeInv, Types, Cut
  <2>2. Put(dir, "meta", Empty) \in [Fields -> Int]
    BY PutInt DEF WholeInv, Types, Empty, Files
  <2>3. \A d \in Torn : d \in [Fields -> Int]
    BY <1>a, <2>1, <2>2, NoDirInt DEF Torn, WholeInv, Types
  <2>4. dir' \in [Fields -> Int] /\ backup' \in [Fields -> Int]
    BY <1>26, <2>3, NoDirInt DEF Crash, WholeInv, Types
  <2>5. pc' = "idle" /\ rel' = rel
    BY <1>26 DEF Crash, Ends
  <2> QED
    BY <2>4, <2>5 DEF WholeInv, Types
<1>27. CASE UNCHANGED vars
  BY <1>27 DEF vars, history, WholeInv, Types, Written, Intact, Chunks
<1> QED
  BY <1>1, <1>2, <1>3, <1>4, <1>5, <1>6, <1>7, <1>8, <1>9, <1>10, <1>11, <1>12,
     <1>13, <1>14, <1>15, <1>16, <1>17, <1>18, <1>19, <1>20, <1>21, <1>22, <1>23,
     <1>24, <1>25, <1>26, <1>27 DEF Next, Step, Request

\* An attempt that reports the update has installed the release; one that
\* fails has put the plugin back; a crash outside the replacement does no harm.
THEOREM UpdatesAreAtomic == Spec => UpdateIsAtomic
<1>1. Init => CopyInv /\ WholeInv
  <2> SUFFICES ASSUME Init PROVE Types
    BY CopyInit DEF Init, WholeInv
  <2>1. rel = 1 /\ backup = NoDir
    BY DEF Init
  <2>2. Installed(1) \in [Fields -> Int]
    BY InstalledInt
  <2>3. Put(Installed(1), "core", Gone) \in [Fields -> Int]
    BY <2>2, PutInt DEF Files, Gone
  <2>4. dir \in [Fields -> Int]
    BY <2>2, <2>3 DEF Init
  <2> QED
    BY <2>1, <2>4, NoDirInt DEF Types
<1>2. CopyInv /\ WholeInv /\ [Next]_vars => [EndsWhole]_vars
  <2> SUFFICES ASSUME CopyInv, WholeInv, Next, pc # "idle", pc' = "idle" PROVE EndsWhole
    BY DEF EndsWhole
  <2>1. CASE RangeIgnored \/ Drops \/ ReplyShort \/ Spoils \/ DiskFull
    BY <2>1 DEF RangeIgnored, Drops, ReplyShort, Spoils, DiskFull, Failed,
       Counted, Ends, Asks,
       downloadVars, Replacing, CopyInv, EndsWhole
  <2>2. CASE Check \/ Probe
    BY <2>2 DEF Check, Probe, Goes, Ends, downloadVars, Replacing, CopyInv, EndsWhole
  <2>3. CASE Clean
    BY <2>3 DEF Clean, Goes, Ends, EndsWhole
  <2>4. CASE Restore
    BY <2>4 DEF Restore, Ends, Replacing, CopyInv, EndsWhole
  <2>5. CASE Pin
    <3>1. ~short => dir = Installed(rel) /\ rel \in Nat \ {0}
      BY <2>5 DEF Pin, WholeInv, Types
    <3>2. ASSUME ~short, said' = "updated" PROVE dir' = Pinned(Installed(rel), rel)
      <4>1. CASE Unpinned
        BY <2>5, <3>1, <3>2, <4>1 DEF Pin, Ends
      <4>2. CASE ~Unpinned
        <5>1. dir' = dir /\ dir["ver"] = rel
          BY <2>5, <3>1, <3>2, <4>2 DEF Pin, Unpinned, Ends, Installed, Fields, Files
        <5>2. Pinned(dir, rel) = dir
          BY <5>1 DEF Pinned, WholeInv, Types
        <5> QED
          BY <3>1, <3>2, <5>1, <5>2
      <4> QED
        BY <4>1, <4>2
    <3>3. ~short /\ said' = "unpinned" => dir' = Installed(rel)
      BY <2>5, <3>1 DEF Pin, Ends
    <3>4. said' \in {"updated", "unpinned"}
      BY <2>5 DEF Pin, Ends
    <3> QED
      BY <3>2, <3>3, <3>4 DEF EndsWhole
  <2>6. CASE Crash
    <3>1. said' = "crashed" /\ dir' \in Torn
      BY <2>6 DEF Crash, Ends
    <3>2. CASE Replacing \/ pc = "pin"
      BY <3>1, <3>2 DEF EndsWhole
    <3>3. CASE ~Replacing /\ pc # "pin"
      <4>1. dir' = dir
        BY <3>1, <3>3 DEF Torn, Replacing
      <4> QED
        BY <3>1, <3>3, <4>1 DEF CopyInv, EndsWhole
    <3> QED
      BY <3>2, <3>3
  <2>7. CASE checkForUpdate \/ Guard \/ Mark \/ HasAll \/ ReplyWhole \/ Backup \/ WriteFile
             \/ Unpacked \/ Unzip \/ Copied \/ Verify \/ UnpackFails \/ CopyStops
             \/ Publish \/ Restart
    BY <2>7 DEF checkForUpdate, Guard, Mark, HasAll, ReplyWhole, Backup,
       WriteFile, Unpacked,
       Unzip, Copied, Verify, UnpackFails, CopyStops, Publish, Restart, Goes, Downloaded
  <2> QED
    BY <2>1, <2>2, <2>3, <2>4, <2>5, <2>6, <2>7 DEF Next, Step, Request
<1> QED
  BY <1>1, <1>2, BasicsInit, BasicsStep, CopyStep, WholeStep, PTL DEF Spec,
     UpdateIsAtomic

-----------------------------------------------------------------------------
(* Types.                                                                  *)

\* The version a zip names is a release's.
LEMMA SaysRelease == \A r \in Releases : Says(r) \in Releases
  BY Sized, SizeAssumption DEF Says

\* Installing, overwriting, pinning and removing yield directories.
LEMMA DirectoryOps ==
  ASSUME NEW d \in Dir, NEW f \in Files, NEW r \in Releases,
         NEW c \in Releases \cup {Gone, Cut, Empty}
  PROVE  /\ NoDir \in Dir /\ Installed(r) \in Dir /\ Put(d, f, c) \in Dir /\ Pinned(d, r) \in Dir
         /\ \A S \in SUBSET Files : Removed(d, S) \in Dir
<1>1. NoDir \in Dir
  BY DEF NoDir, Dir, Gone
<1>2. Installed(r) \in Dir
  BY SaysRelease DEF Installed, Dir
<1>3. Put(d, f, c) \in Dir
  <2>1. c > 0 => c \in Releases
    BY Sized DEF Gone, Cut, Empty
  <2>2. (IF c > 0 THEN Says(c) ELSE 0) \in Releases \cup {Gone}
    BY <2>1, SaysRelease DEF Gone
  <2> QED
    BY <2>2 DEF Put, Dir, Fields
<1>4. Pinned(d, r) \in Dir
  BY DEF Pinned, Dir
<1>5. \A S \in SUBSET Files : Removed(d, S) \in Dir
  BY DEF Removed, Dir, Gone
<1> QED
  BY <1>1, <1>2, <1>3, <1>4, <1>5

\* The first of the parts of TypeOK, which are independent but for the disk.
LEMMA AttemptStep ==
  ASSUME TypeAttempt, [Next]_vars
  PROVE  TypeAttempt'
<1>1. CASE checkForUpdate \/ Guard \/ Mark \/ HasAll \/ ReplyWhole \/ Check \/ Probe
  BY <1>1 DEF checkForUpdate, Guard, Mark, HasAll, ReplyWhole, Check, Probe, Goes, Ends,
     Downloaded, downloadVars, TypeAttempt
<1>2. CASE RangeIgnored \/ Drops \/ ReplyShort \/ Spoils \/ DiskFull
  BY <1>2 DEF RangeIgnored, Drops, ReplyShort, Spoils, DiskFull, Counted, Failed, Ends,
     downloadVars, TypeAttempt
<1>3. CASE Backup \/ WriteFile \/ Unpacked \/ UnpackFails \/ Unzip \/ Copied \/ CopyStops \/ Verify
  BY <1>3 DEF Backup, WriteFile, Unpacked, UnpackFails, Unzip, Copied, CopyStops, Verify,
     installVars, TypeAttempt
<1>4. CASE Clean \/ Restore \/ Pin \/ Crash \/ Restart
  BY <1>4 DEF Clean, Restore, Pin, Crash, Restart, Goes, Ends, TypeAttempt
<1>5. CASE Publish
  <2>1. latest' \in Releases
    BY <1>5, Sized, SizeAssumption DEF Publish, TypeAttempt
  <2> QED
    BY <1>5, <2>1 DEF Publish, TypeAttempt
<1>6. CASE UNCHANGED vars
  BY <1>6 DEF vars, TypeAttempt
<1> QED
  BY <1>1, <1>2, <1>3, <1>4, <1>5, <1>6 DEF Next, Step, Request

\* The flags are set to truth values only.
LEMMA FlagsStep ==
  ASSUME TypeFlags, [Next]_vars
  PROVE  TypeFlags'
<1>1. CASE checkForUpdate \/ Guard \/ Mark \/ HasAll \/ ReplyWhole \/ Check \/ Probe
  BY <1>1 DEF checkForUpdate, Guard, Mark, HasAll, ReplyWhole, Check, Probe, Goes, Ends,
     Downloaded, downloadVars, history, TypeFlags
<1>2. CASE RangeIgnored \/ Drops \/ ReplyShort \/ Spoils \/ DiskFull
  BY <1>2 DEF RangeIgnored, Drops, ReplyShort, Spoils, DiskFull, Counted, Failed, Ends,
     downloadVars, history, TypeFlags
<1>3. CASE Backup \/ WriteFile \/ Unpacked \/ UnpackFails \/ Copied \/ CopyStops \/ Verify
  BY <1>3 DEF Backup, WriteFile, Unpacked, UnpackFails, Copied, CopyStops, Verify,
     installVars, TypeFlags
<1>4. CASE Unzip
  BY <1>4, Zenon DEF Unzip, installVars, TypeFlags
<1>5. CASE Clean \/ Restore \/ Pin
  BY <1>5 DEF Clean, Restore, Pin, Goes, Ends, history, TypeFlags
<1>6. CASE Crash \/ Restart \/ Publish
  BY <1>6 DEF Crash, Restart, Publish, Loads, Ends, history, TypeFlags
<1>7. CASE UNCHANGED vars
  BY <1>7 DEF vars, history, TypeFlags
<1> QED
  BY <1>1, <1>2, <1>3, <1>4, <1>5, <1>6, <1>7 DEF Next, Step, Request

\* A count above its limit ends the download, and the counters are reset.
LEMMA CountedWithin ==
  ASSUME NEW r \in Nat, NEW t \in Nat, Counted(r, t)
  PROVE  retries' \in 0..MAX_RETRIES /\ total' \in 0..MAX_TOTAL
  BY SizeAssumption DEF Counted, Ends

\* Faults are counted up to their bound.
LEMMA FaultWithin ==
  ASSUME TypeCounters, NEW kind, Fault(kind)
  PROVE  faults' \in 0..MAX_FAULTS
  BY SizeAssumption DEF Fault, TypeCounters

\* Every counter stays within its limit: a step leaves it, counts, or resets.
LEMMA CountersStep ==
  ASSUME TypeCounters, [Next]_vars
  PROVE  TypeCounters'
<1>a. retries \in Nat /\ total \in Nat /\ faults \in Nat /\ retries + 1 \in Nat /\ total + 1 \in Nat
  BY SizeAssumption DEF TypeCounters
<1>b. ASSUME NEW n \in Nat PROVE (IF n > 0 THEN 0 ELSE retries + 1) \in Nat
  BY <1>a
<1>z. 0 \in 0..MAX_RETRIES /\ 0 \in 0..MAX_TOTAL
  BY SizeAssumption
<1>1. CASE checkForUpdate \/ Guard \/ Mark \/ HasAll \/ ReplyWhole \/ Check \/ Probe
  BY <1>1, <1>z DEF checkForUpdate, Guard, Mark, HasAll, ReplyWhole, Check, Probe, Goes, Ends,
     Downloaded, downloadVars, TypeCounters
<1>2. CASE RangeIgnored
  BY <1>2, <1>a, CountedWithin DEF RangeIgnored, TypeCounters
<1>3. CASE Drops
  <2>1. PICK n \in 0..Missing : Failed(n)
    BY <1>3 DEF Drops
  <2>2. n \in Nat
    OBVIOUS
  <2>3. Counted(IF n > 0 THEN 0 ELSE retries + 1, total + 1)
    BY <2>1 DEF Failed
  <2> QED
    BY <1>3, <1>a, <1>b, <2>2, <2>3, CountedWithin DEF Drops, TypeCounters
<1>4. CASE ReplyShort
  <2>1. PICK n \in 0..(Missing - 1) : Counted(IF n > 0 THEN 0 ELSE retries + 1, total)
    BY <1>4 DEF ReplyShort
  <2>2. n \in Nat
    OBVIOUS
  <2> QED
    BY <1>4, <1>a, <1>b, <2>1, <2>2, CountedWithin DEF ReplyShort, TypeCounters
<1>5. CASE Spoils
  <2>1. PICK n \in 1..2 : Failed(n)
    BY <1>5 DEF Spoils
  <2>2. n \in Nat
    OBVIOUS
  <2>3. Counted(IF n > 0 THEN 0 ELSE retries + 1, total + 1)
    BY <2>1 DEF Failed
  <2> QED
    BY <1>5, <1>a, <1>b, <2>2, <2>3, CountedWithin, FaultWithin DEF Spoils, TypeCounters
<1>6. CASE DiskFull \/ Crash
  BY <1>6, <1>z, FaultWithin DEF DiskFull, Crash, Ends, TypeCounters
<1>7. CASE Backup \/ WriteFile \/ Unpacked \/ UnpackFails \/ Unzip \/ Copied \/ CopyStops \/ Verify
  <2>1. retries' = retries /\ total' = total
    BY <1>7 DEF Backup, WriteFile, Unpacked, UnpackFails, Unzip, Copied, CopyStops, Verify,
       installVars, getVars
  <2>2. faults' = faults \/ \E kind : Fault(kind)
    BY <1>7 DEF Backup, WriteFile, Unpacked, UnpackFails, Unzip, Copied, CopyStops, Verify
  <2> QED
    BY <2>1, <2>2, FaultWithin DEF TypeCounters
<1>8. CASE Clean \/ Publish \/ Restart
  BY <1>8, <1>z DEF Clean, Publish, Restart, Goes, Ends, TypeCounters
<1>9. CASE Restore \/ Pin
  BY <1>9, <1>z, FaultWithin DEF Restore, Pin, Ends, TypeCounters
<1>10. CASE UNCHANGED vars
  BY <1>10 DEF vars, TypeCounters
<1> QED
  BY <1>1, <1>2, <1>3, <1>4, <1>5, <1>6, <1>7, <1>8, <1>9, <1>10 DEF Next, Step, Request

\* n more chunks of a release, or of junk.
LEMMA Lengthened ==
  ASSUME NEW z \in Seq(Releases \cup {Junk}), NEW n \in Nat, NEW c \in Releases \cup {Junk}
  PROVE  z \o Chunks(n, c) \in Seq(Releases \cup {Junk})
<1>1. Chunks(n, c) \in [1..n -> Releases \cup {Junk}]
  BY DEF Chunks
<1>2. Chunks(n, c) \in Seq(Releases \cup {Junk})
  BY <1>1, SeqDef
<1> QED
  BY <1>2, ConcatProperties

\* What is written to the disk is directories and chunks.
LEMMA DiskStep ==
  ASSUME TypeAttempt, TypeDisk, [Next]_vars
  PROVE  TypeDisk'
<1>a. rel \in Releases /\ left \subseteq Files /\ Size[rel] \in Nat
  BY Sized DEF TypeAttempt
<1>b. \A f \in Files, c \in Releases \cup {Gone, Cut, Empty} : Put(dir, f, c) \in Dir
  BY <1>a, DirectoryOps DEF TypeDisk
<1>c. NoDir \in Dir /\ Pinned(dir, rel) \in Dir /\ \A S \in SUBSET Files : Removed(dir, S) \in Dir
  BY <1>a, DirectoryOps DEF TypeDisk, Files
<1>d. <<>> \in Seq(Releases \cup {Junk})
  BY EmptySeq
<1>1. CASE checkForUpdate
  BY <1>1 DEF checkForUpdate, diskVars, TypeDisk
<1>2. CASE Guard \/ Mark
  BY <1>2, <1>a, <1>d DEF Guard, Mark, history, TypeDisk
<1>2a. CASE HasAll
  BY <1>2a DEF HasAll, Downloaded, downloadVars, history, TypeDisk
<1>2b. CASE Check \/ Probe
  <2>1. zip' = zip \/ zip' = <<>>
    BY <1>2b DEF Check, Probe
  <2>2. marker' \in Nat /\ dir' = dir /\ backup' = backup /\ before' = before
    BY <1>2b DEF Check, Probe, downloadVars, history, TypeDisk
  <2> QED
    BY <1>d, <2>1, <2>2 DEF TypeDisk
<1>3. CASE ReplyWhole
  <2>1. Missing \in Nat
    BY <1>3, <1>a, LenProperties DEF ReplyWhole, Asks, Missing, TypeDisk
  <2>2. zip' \in Seq(Releases \cup {Junk})
    BY <1>3, <1>a, <2>1, Lengthened DEF ReplyWhole, Downloaded, TypeDisk
  <2> QED
    BY <1>3, <2>2 DEF ReplyWhole, Downloaded, downloadVars, history, TypeDisk
<1>4. CASE RangeIgnored
  BY <1>4, <1>d DEF RangeIgnored, downloadVars, history, TypeDisk
<1>5. CASE Drops \/ ReplyShort \/ Spoils \/ DiskFull
  <2>1. PICK n \in Nat, c \in {rel, Junk} : zip' = zip \o Chunks(n, c)
    <3>1. CASE Drops
      BY <3>1 DEF Drops
    <3>2. CASE ReplyShort \/ DiskFull
      BY <3>2 DEF ReplyShort, DiskFull
    <3>3. CASE Spoils
      BY <3>3 DEF Spoils
    <3> QED
      BY <1>5, <3>1, <3>2, <3>3
  <2>2. zip' \in Seq(Releases \cup {Junk})
    BY <1>a, <2>1, Lengthened DEF TypeDisk
  <2> QED
    BY <1>5, <2>2 DEF Drops, ReplyShort, Spoils, DiskFull, downloadVars, history, TypeDisk
<1>6. CASE Backup
  BY <1>6, <1>c DEF Backup, getVars, TypeDisk
<1>7. CASE WriteFile
  <2>1. PICK f \in left, c \in {rel, Cut} : dir' = Put(dir, f, c)
    BY <1>7 DEF WriteFile
  <2>2. dir' \in Dir
    BY <1>a, <1>b, <2>1
  <2> QED
    BY <1>7, <2>2 DEF WriteFile, installVars, getVars, TypeDisk
<1>8. CASE UnpackFails \/ CopyStops
  <2>b. \A f \in left : Put(dir, f, Cut) \in Dir
    BY <1>a, <1>b
  <2>1. dir' \in Dir
    BY <1>8, <2>b DEF UnpackFails, CopyStops, TypeDisk
  <2> QED
    BY <1>8, <2>1 DEF UnpackFails, CopyStops, installVars, getVars, TypeDisk
<1>9. CASE Unpacked \/ Unzip \/ Copied \/ Verify
  BY <1>9 DEF Unpacked, Unzip, Copied, Verify, installVars, getVars, TypeDisk
<1>10. CASE Clean
  BY <1>10, <1>c, <1>d DEF Clean, TypeDisk
<1>11. CASE Restore
  BY <1>11, <1>c DEF Restore, history, TypeDisk
<1>12. CASE Pin
  BY <1>12, <1>c DEF Pin, history, TypeDisk
<1>13. CASE Crash
  <2>a. Put(dir, "meta", Empty) \in Dir
    BY <1>b DEF Files
  <2>b. \A f \in left : Put(dir, f, Cut) \in Dir
    BY <1>a, <1>b
  <2>1. \A d \in Torn : d \in Dir
    BY <1>c, <2>a, <2>b DEF Torn, TypeDisk
  <2>2. zip' \in Seq(Releases \cup {Junk})
    <3>1. CASE zip' = zip
      BY <3>1 DEF TypeDisk
    <3>2. ASSUME NEW c \in {rel, Junk}, zip' = Append(zip, c) PROVE zip' \in Seq(Releases \cup {Junk})
      BY <1>a, <3>2, AppendProperties DEF TypeDisk
    <3> QED
      BY <1>13, <3>1, <3>2 DEF Crash
  <2>3. dir' \in Dir /\ backup' \in Dir
    BY <1>13, <1>c, <2>1 DEF Crash, TypeDisk
  <2>4. marker' \in Nat /\ before' = before
    BY <1>13 DEF Crash, history, TypeDisk
  <2> QED
    BY <2>2, <2>3, <2>4 DEF TypeDisk
<1>14. CASE Publish \/ Restart
  BY <1>14 DEF Publish, Restart, diskVars, history, TypeDisk
<1>15. CASE UNCHANGED vars
  BY <1>15 DEF vars, history, TypeDisk
<1> QED
  BY <1>1, <1>2, <1>2a, <1>2b, <1>3, <1>4, <1>5, <1>6, <1>7, <1>8, <1>9, <1>10, <1>11, <1>12, <1>13,
     <1>14, <1>15 DEF Next, Step, Request

\* Every variable keeps its type; the counters that end a download, and that of
\* the faults, stay within their limits.
THEOREM TypesHold == Spec => []TypeOK
<1>1. Init => TypeOK
  <2> SUFFICES ASSUME Init PROVE TypeOK
    OBVIOUS
  <2>1. 1 \in Releases
    BY Sized, SizeAssumption
  <2>2. TypeAttempt
    BY <2>1 DEF Init, TypeAttempt
  <2>3. TypeFlags
    BY DEF Init, TypeFlags
  <2>4. TypeCounters
    BY SizeAssumption DEF Init, TypeCounters
  <2>5. NoDir \in Dir /\ Installed(1) \in Dir
    BY <2>1, SaysRelease DEF NoDir, Installed, Dir, Gone
  <2>6. Put(Installed(1), "core", Gone) \in Dir
    BY <2>1, <2>5, DirectoryOps DEF Files
  <2>7. TypeDisk
    BY <2>5, <2>6, EmptySeq DEF Init, TypeDisk
  <2> QED
    BY <2>2, <2>3, <2>4, <2>7 DEF TypeOK
<1>2. TypeOK /\ [Next]_vars => TypeOK'
  BY AttemptStep, FlagsStep, CountersStep, DiskStep DEF TypeOK
<1> QED
  BY <1>1, <1>2, PTL DEF Spec

=============================================================================
