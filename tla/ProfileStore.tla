----------------------------- MODULE ProfileStore -----------------------------
(***************************************************************************)
(* The profile file across sessions: load, migration of legacy plaintext,  *)
(* save, the save on exit, and the lock that keeps an unread file from     *)
(* being overwritten (pmx_profile.c, pmx_engine.c, gui_app.c, gui_main.c). *)
(*                                                                         *)
(* One thread, which may die at any step of a save; what is on disk stays. *)
(* Between sessions a user may remove the file or put another one there.   *)
(* Losing power is not modelled: only the process dies.                    *)
(***************************************************************************)
EXTENDS Naturals

CONSTANTS
  Data,           \* profiles, as far as this module tells them apart
  Seeded,         \* the seeded defaults a session starts from
  Provider,       \* pmx_protect_available(): at-rest encryption exists
  Faults          \* what may go wrong on this machine: "open", "flush"

ASSUME StoreAssumption ==
  /\ Seeded \in Data
  /\ Provider \in BOOLEAN
  /\ Faults \subseteq {"open", "flush"}

\* A file: sealed or plaintext JSON, complete or not, ours to unseal or not.
Contents  == [form: {"sealed", "plain"}, data: Data, whole: BOOLEAN, ours: BOOLEAN]
Absent    == [form |-> "none"]
DiskFiles == Contents \cup {Absent}

VARIABLES
  faults,    \* which of Faults this behaviour has: "open": an existing file may
             \* for a while refuse to be opened; "flush": the last buffered
             \* bytes may not reach the disk
  disk,      \* the file at the profile path
  tmp,       \* the file at <path>.tmp
  held,      \* the profile cannot be opened at the moment
  pc,        \* "dead", "idle", or the next step of a save
  why,       \* what the save is for: "user", "exit", "migrate"
  mem,       \* engine.profile
  locked,    \* engine.profile_locked
  running,   \* engine.running
  known      \* history: this session read or wrote what is on disk, or saw nothing there

storeVars == <<faults, disk, tmp, held, pc, why, mem, locked, running, known>>
sessionVars == <<mem, locked, running>>

-----------------------------------------------------------------------------
Whole(d) == [form |-> IF Provider THEN "sealed" ELSE "plain",
             data |-> d, whole |-> TRUE, ours |-> TRUE]

\* Sealed needs the provider and the key; either form needs all its bytes.
Readable(f) == f.whole /\ (f.form = "sealed" => Provider /\ f.ours)

CanOpen == disk # Absent /\ ~held

-----------------------------------------------------------------------------
\* pmx_engine_load_profile, into a profile of its own.  PMX_ERR_IO is taken for
\* "no file"; any other failure locks saving.  Plaintext is re-sealed in place.
Load_NeverLocks ==
  \/ /\ ~(CanOpen /\ Readable(disk))
     /\ locked' = FALSE /\ known' = (disk = Absent)
     /\ pc' = "idle" /\ UNCHANGED <<why, mem>>
  \/ /\ CanOpen /\ Readable(disk)
     /\ mem' = disk.data /\ locked' = FALSE /\ known' = TRUE
     /\ IF disk.form = "plain" /\ Provider
          THEN pc' = "seal" /\ why' = "migrate"
          ELSE pc' = "idle" /\ UNCHANGED why
Load_MigratesBeforeAdopting ==
  \/ /\ ~CanOpen
     /\ locked' = FALSE /\ known' = (disk = Absent)
     /\ pc' = "idle" /\ UNCHANGED <<why, mem>>
  \/ /\ CanOpen /\ ~Readable(disk)
     /\ locked' = TRUE /\ known' = FALSE
     /\ pc' = "idle" /\ UNCHANGED <<why, mem>>
  \/ /\ CanOpen /\ Readable(disk)
     /\ locked' = FALSE /\ known' = TRUE
     /\ IF disk.form = "plain" /\ Provider
          THEN pc' = "seal" /\ why' = "migrate" /\ UNCHANGED mem
          ELSE pc' = "idle" /\ mem' = disk.data /\ UNCHANGED why
Load ==
  \/ /\ ~CanOpen
     /\ locked' = FALSE /\ known' = (disk = Absent)
     /\ pc' = "idle" /\ UNCHANGED <<why, mem>>
  \/ /\ CanOpen /\ ~Readable(disk)
     /\ locked' = TRUE /\ known' = FALSE
     /\ pc' = "idle" /\ UNCHANGED <<why, mem>>
  \/ /\ CanOpen /\ Readable(disk)
     /\ mem' = disk.data /\ locked' = FALSE /\ known' = TRUE
     /\ IF disk.form = "plain" /\ Provider
          THEN pc' = "seal" /\ why' = "migrate"
          ELSE pc' = "idle" /\ UNCHANGED why

\* The program starts: an engine on seeded defaults, then the working profile.
Launch ==
  /\ pc = "dead"
  /\ mem' = Seeded /\ locked' = FALSE /\ running' = FALSE /\ known' = FALSE
  /\ pc' = "load" /\ why' = "user"
  /\ UNCHANGED <<disk, tmp, held>>

LoadAtStart == pc = "load" /\ Load /\ UNCHANGED <<disk, tmp, held, running>>

\* "Reload from disk", refused while the engine runs.
ReloadFromDisk ==
  /\ pc = "idle" /\ ~running
  /\ Load
  /\ UNCHANGED <<disk, tmp, held, running>>

EditProfile(d) ==
  /\ pc = "idle" /\ mem' = d
  /\ UNCHANGED <<disk, tmp, held, pc, why, locked, running, known>>

StartOrStop ==
  /\ pc = "idle" /\ running' = ~running
  /\ UNCHANGED <<disk, tmp, held, pc, why, mem, locked, known>>

-----------------------------------------------------------------------------
\* pmx_engine_save_profile: refused while locked.  Exiting saves, best effort.
SaveProfile(reason) ==
  /\ pc = "idle"
  /\ why' = reason
  /\ pc' = IF ~locked THEN "seal" ELSE IF reason = "exit" THEN "dead" ELSE "idle"
  /\ UNCHANGED <<disk, tmp, held, sessionVars, known>>

\* The save is over, one way or the other; a failed migration fails no load.
Done == pc' = IF why = "exit" THEN "dead" ELSE "idle"

\* The contents to write.  A seal that fails writes nothing.
Seal_FallsBack ==
  /\ pc = "seal"
  /\ \/ pc' = "open" /\ UNCHANGED tmp
     \/ Provider /\ pc' = "rename" /\ tmp' = [Whole(mem) EXCEPT !.form = "plain"]
  /\ UNCHANGED <<disk, held, why, sessionVars, known>>
Seal ==
  /\ pc = "seal"
  /\ pc' = "open" \/ (Provider /\ Done)
  /\ UNCHANGED <<disk, tmp, held, why, sessionVars, known>>

OpenTmp ==
  /\ pc = "open"
  /\ \/ tmp' = [Whole(mem) EXCEPT !.whole = FALSE] /\ pc' = "write"
     \/ Done /\ UNCHANGED tmp
  /\ UNCHANGED <<disk, held, why, sessionVars, known>>

\* fwrite, fflush, fclose: a short write removes the temporary file, but what
\* the flush and the close return is not looked at.
WriteTmp ==
  /\ pc = "write"
  /\ \/ tmp' = Whole(mem) /\ pc' = "rename"
     \/ "flush" \in faults /\ pc' = "rename" /\ UNCHANGED tmp
     \/ tmp' = Absent /\ Done
  /\ UNCHANGED <<disk, held, why, sessionVars, known>>

\* One step replaces the target; if it fails both files stay.
Rename_RemovesFirst ==
  /\ pc = "rename"
  /\ \/ disk' = tmp /\ tmp' = Absent /\ known' = TRUE
     \/ disk' = Absent /\ UNCHANGED <<tmp, known>>
  /\ Done
  /\ UNCHANGED <<held, why, sessionVars>>
Rename ==
  /\ pc = "rename"
  /\ \/ disk' = tmp /\ tmp' = Absent /\ known' = TRUE
     \/ UNCHANGED <<disk, tmp, known>>
  /\ Done
  /\ UNCHANGED <<held, why, sessionVars>>

-----------------------------------------------------------------------------
\* The process dies; another program holds the file; the user deals with it.
Crash ==
  /\ pc # "dead" /\ pc' = "dead"
  /\ UNCHANGED <<disk, tmp, held, why, sessionVars, known>>

HoldOrLetGo ==
  /\ "open" \in faults /\ held' = ~held
  /\ UNCHANGED <<disk, tmp, pc, why, sessionVars, known>>

UserPuts(f) ==
  /\ pc = "dead" \/ (pc = "idle" /\ locked)
  /\ disk' = f /\ known' = FALSE
  /\ UNCHANGED <<tmp, held, pc, why, sessionVars>>

StoreInit ==
  /\ faults \in SUBSET Faults
  /\ disk \in DiskFiles /\ tmp = Absent /\ held = FALSE
  /\ pc = "dead" /\ why = "user"
  /\ mem = Seeded /\ locked = FALSE /\ running = FALSE /\ known = FALSE

Program ==
  \/ Launch \/ LoadAtStart \/ ReloadFromDisk
  \/ \E d \in Data : EditProfile(d)
  \/ StartOrStop
  \/ \E reason \in {"user", "exit"} : SaveProfile(reason)
  \/ Seal \/ OpenTmp \/ WriteTmp \/ Rename

World == Crash \/ HoldOrLetGo \/ (\E f \in DiskFiles : UserPuts(f))

StoreNext == (Program \/ World) /\ UNCHANGED faults

StoreSpec == StoreInit /\ [][StoreNext]_storeVars

-----------------------------------------------------------------------------
(***************************************************************************)
(* Types; a save in progress is never a locked session's, and without an   *)
(* encryption provider there is nothing to migrate.                        *)
(***************************************************************************)
StoreTypeOK ==
  /\ faults \subseteq Faults
  /\ disk \in DiskFiles /\ tmp \in DiskFiles
  /\ held \in BOOLEAN /\ known \in BOOLEAN /\ running \in BOOLEAN /\ locked \in BOOLEAN
  /\ pc \in {"dead", "load", "idle", "seal", "open", "write", "rename"}
  /\ why \in {"user", "exit", "migrate"}
  /\ mem \in Data
  /\ pc \in {"seal", "open", "write", "rename"} => ~locked /\ (why = "migrate" => Provider)

(***************************************************************************)
(* A complete profile on disk is never lost to a save: whatever else fails *)
(* and wherever the process dies, the program leaves a complete profile at *)
(* the path -- the old one or the new one -- as long as flushes succeed.   *)
(***************************************************************************)
SavesAreAtomic ==
  [][disk # Absent /\ disk.whole /\ ~(\E f \in DiskFiles : UserPuts(f)) /\ "flush" \notin faults
       => disk' # Absent /\ disk'.whole]_storeVars

(***************************************************************************)
(* With an encryption provider the program never puts credentials on disk  *)
(* in cleartext, temporary file included: not when sealing fails, not on   *)
(* exit, not while migrating.                                              *)
(***************************************************************************)
NoCleartextWritten ==
  [][Provider /\ ~(\E f \in DiskFiles : UserPuts(f)) =>
       /\ disk' # disk => disk'.form # "plain"
       /\ tmp' # tmp => tmp'.form # "plain"]_storeVars

(***************************************************************************)
(* What one save may not do to the secrets and the data it is trusted      *)
(* with: tear the file, or write it in cleartext.                          *)
(***************************************************************************)
SavesAreSafe == SavesAreAtomic /\ NoCleartextWritten

(***************************************************************************)
(* Merely opening the program loses nothing: a load that migrates the file *)
(* in the middle of itself leaves a file with the data it has just read,   *)
(* and one the next load can read -- as long as flushes succeed; where one *)
(* fails the migration may tear the file (see WritesAreAtomic).            *)
(***************************************************************************)
LoadKeepsData ==
  [][why = "migrate" /\ disk' # disk /\ ~(\E f \in DiskFiles : UserPuts(f)) =>
       /\ disk' # Absent /\ disk'.data = disk.data
       /\ "flush" \notin faults => Readable(disk')]_storeVars

(***************************************************************************)
(* The program replaces the file only in a session that read it, wrote it  *)
(* or saw that there was none -- while existing files can be opened.       *)
(***************************************************************************)
NeverClobbersOpenable ==
  [][disk' # disk /\ ~(\E f \in DiskFiles : UserPuts(f)) /\ "open" \notin faults => known]_storeVars

-----------------------------------------------------------------------------
\* "If a profile exists but can't be read ... ProxiMight refuses to save, so it
\* never clobbers the file you couldn't open" (PRIVACY-SECURITY.md).
NeverClobbersUnread ==
  [][disk' # disk /\ ~(\E f \in DiskFiles : UserPuts(f)) => known]_storeVars

\* "Write `len` bytes atomically: temp file + flush + rename" (pmx_profile.c).
WritesAreAtomic ==
  [][disk # Absent /\ disk.whole /\ ~(\E f \in DiskFiles : UserPuts(f))
       => disk' # Absent /\ disk'.whole]_storeVars
=============================================================================
