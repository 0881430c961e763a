------------------------------ MODULE FlatFile ------------------------------
(***************************************************************************)
(* userdb/flatfile.rs: the users map of userdb.yaml, reloaded by a watcher *)
(* thread whenever something happens in the file's directory.              *)
(*                                                                         *)
(* The file's contents are the number of the save they come from and what  *)
(* part of it is there: all, a beginning that still parses as a users map, *)
(* or nothing read_users accepts (torn, a typing error, backend: ldap).    *)
(***************************************************************************)
EXTENDS Naturals

CONSTANTS
  EarlySaves,  \* the file may change between load's read and its watch
  MaxSaves, MaxFaults, MaxEvents   \* bounds; MaxEvents: events told apart in the queue

ASSUME EarlySavesType == EarlySaves \in BOOLEAN
ASSUME FlatFileBounds == MaxSaves \in Nat /\ MaxFaults \in Nat /\ MaxEvents \in Nat \ {0}

VARIABLES file,    \* what the file holds
          writing, \* an editor is in the middle of rewriting it
          pc,      \* load: "off", "read", "up"
          state,   \* the map behind the RwLock
          events,  \* events waiting for the watcher thread
          cb,      \* the callback: "idle", "called", "read"
          users,   \* what the callback's read_users returned
          missed,  \* an event was lost to a watcher error, and none came since
          faults

fileVars     == <<file, writing>>
watchVars    == <<state, events, cb, users, missed>>
flatFileVars == <<file, writing, pc, state, events, cb, users, missed, faults>>

Contents == [save: Nat, part: {"all", "some", "none"}]
Empty    == [save |-> 0, part |-> "all"]

\* Something happened in the directory: the watcher hears of it once it watches.
\* A full queue stands for one that the new event is merged into.
Announce ==
  /\ events' = IF pc = "up" /\ events < MaxEvents THEN events + 1 ELSE events
  /\ missed' = (missed /\ pc # "up")

-----------------------------------------------------------------------------
(* load. *)

\* Mutant of ReadUsers: an error puts the map of the first load back.
ReadUsersOrFirst(old) == IF file.part = "none" THEN Empty ELSE file

\* read_users, and what becomes of the map: an error keeps the old one.
ReadUsers(old) == IF file.part = "none" THEN old ELSE file

\* The first read_users; an error ends load, and with it the process.
Load ==
  /\ pc = "off"
  /\ file.part # "none"
  /\ pc' = "read"
  /\ state' = file
  /\ UNCHANGED <<fileVars, events, cb, users, missed, faults>>

\* watcher.watch.
Watch ==
  /\ pc = "read"
  /\ pc' = "up"
  /\ UNCHANGED <<fileVars, watchVars, faults>>

-----------------------------------------------------------------------------
(* The callback, on the watcher's one thread. *)

Call ==
  /\ events > 0 /\ cb = "idle"
  /\ events' = events - 1
  /\ cb' = "called"
  /\ UNCHANGED <<fileVars, pc, state, users, missed, faults>>

\* The watcher reports an error where an event should have been: the callback
\* returns at once.
CallWithError ==
  /\ events > 0 /\ cb = "idle"
  /\ faults < MaxFaults
  /\ faults' = faults + 1
  /\ events' = events - 1
  /\ missed' = TRUE
  /\ UNCHANGED <<fileVars, pc, state, cb, users>>

Read ==
  /\ cb = "called"
  /\ cb' = "read"
  /\ users' = ReadUsers(state)
  /\ UNCHANGED <<fileVars, pc, state, events, missed, faults>>

\* Mutant of Swap: what was queued meanwhile is taken as read.
SwapAndDrain ==
  /\ cb = "read"
  /\ cb' = "idle"
  /\ state' = users
  /\ events' = 0
  /\ UNCHANGED <<fileVars, pc, users, missed, faults>>

\* The write lock, and the new map behind it.
Swap ==
  /\ cb = "read"
  /\ cb' = "idle"
  /\ state' = users
  /\ UNCHANGED <<fileVars, pc, events, users, missed, faults>>

-----------------------------------------------------------------------------
(* Editors, the directory and the process. *)

MayTouch == EarlySaves \/ pc # "read"
MaySave  == MayTouch /\ file.save < MaxSaves /\ ~writing

\* A save in one step, by renaming a new file onto the old one.  What is saved
\* may be nothing read_users accepts.
RenameOnto ==
  /\ MaySave
  /\ \E part \in {"all", "none"} : file' = [save |-> file.save + 1, part |-> part]
  /\ Announce
  /\ UNCHANGED <<writing, pc, state, cb, users, faults>>

\* A save in two steps: the file is truncated and partly written, then whole.
BeginRewrite ==
  /\ MaySave
  /\ writing' = TRUE
  /\ \E part \in {"some", "none"} : file' = [save |-> file.save + 1, part |-> part]
  /\ Announce
  /\ UNCHANGED <<pc, state, cb, users, faults>>

EndRewrite ==
  /\ writing /\ MayTouch
  /\ writing' = FALSE
  /\ file' = [file EXCEPT !.part = "all"]
  /\ Announce
  /\ UNCHANGED <<pc, state, cb, users, faults>>

\* Another file in the directory, or somebody reading this one.
OtherEvent ==
  /\ pc = "up" /\ events < MaxEvents
  /\ Announce
  /\ UNCHANGED <<fileVars, pc, state, cb, users, faults>>

\* The process dies and is started again.
Crash ==
  /\ pc # "off"
  /\ faults < MaxFaults
  /\ faults' = faults + 1
  /\ pc' = "off" /\ events' = 0 /\ cb' = "idle" /\ missed' = FALSE
  /\ UNCHANGED <<fileVars, state, users>>

-----------------------------------------------------------------------------
FlatFileInit ==
  /\ file = Empty /\ writing = FALSE
  /\ pc = "off" /\ state = Empty /\ users = Empty
  /\ events = 0 /\ cb = "idle" /\ missed = FALSE /\ faults = 0

Watcher == Call \/ Read \/ Swap

FlatFileNext ==
  \/ Load \/ Watch \/ Watcher \/ CallWithError
  \/ RenameOnto \/ BeginRewrite \/ EndRewrite \/ OtherEvent \/ Crash

FlatFileSpec == FlatFileInit /\ [][FlatFileNext]_flatFileVars

\* The process and its watcher thread run on, and an editor that began to rewrite
\* the file finishes.
FlatFileFairness ==
  /\ WF_flatFileVars(Load \/ Watch)
  /\ WF_flatFileVars(Watcher)
  /\ WF_flatFileVars(EndRewrite)

FlatFileFairSpec == FlatFileSpec /\ FlatFileFairness

-----------------------------------------------------------------------------
\* The file, the map and the watcher's queue stay well typed.
FlatFileTypeOK ==
  /\ file \in Contents /\ file.save <= MaxSaves
  /\ writing \in BOOLEAN
  /\ pc \in {"off", "read", "up"} /\ cb \in {"idle", "called", "read"}
  /\ state \in Contents /\ users \in Contents
  /\ state.part # "none"
  /\ events \in 0..MaxEvents /\ faults \in 0..MaxFaults /\ missed \in BOOLEAN

\* Whatever the editors do, and however often the callback reads the file at a
\* bad moment, answers come from a map that was in the file and never from an
\* older one than before.
Promise == INSTANCE HotReload WITH saved <- file.save, shown <- state.save
FollowsFile == Promise!HotReloadSpec

\* Nothing is known to have gone wrong: the file is whole and the watcher reported
\* no error since its last event.
Settled == pc = "up" /\ file.part = "all" /\ ~writing /\ ~missed

\* In the end answers come from the file as it is.
HotReloads == <>[](Settled => state = file)
=============================================================================
