------------------------------- MODULE Update -------------------------------
(***************************************************************************)
(* Installing, replacing and rolling back the rcodex executable            *)
(* (src/update.rs, and run_update, automatic_update and run_remote_tui in  *)
(* src/main.rs), by several rcodex processes that share one installation:  *)
(* the executable, its backup, the settings file and the update lock.      *)
(*                                                                         *)
(* A process runs one command, step by step; pc names the step it is at:   *)
(*   tui       load -> lock auto -> mark -> find auto -> download auto     *)
(*             -> back up auto -> swap auto -> restart, then starts over   *)
(*             as the new executable; or, whatever stops the update,       *)
(*             enter -> session                                            *)
(*   broker    enter -> session                                            *)
(*   install   find -> lock install -> download -> back up -> swap         *)
(*   rollback  lock rollback -> disable first -> restore                   *)
(*   enable    lock enable -> enable                                       *)
(*   disable   lock disable -> disable                                     *)
(* Between two steps any other process may run, and any process may crash; *)
(* the operating system then releases its lock.  Nobody waits for the lock:*)
(* who does not get it gives up.                                           *)
(*                                                                         *)
(* Abstractions.  A version is a number, and the releases come out in the  *)
(* order of theirs.  Verified bytes of a version are the version; a binary *)
(* that fails verification is a failed step (StepFails).  A day is a       *)
(* number; an update is due a day after the last check.  atomic_write is   *)
(* atomic, its rename being so.                                            *)
(***************************************************************************)
EXTENDS Naturals, FiniteSetsExt, Sequences

CONSTANTS
  Procs,       \* the rcodex processes
  Commands,    \* the commands they are started with
  Catalogs,    \* what the releases may be like
  MaxVersion,  \* bound on the versions released
  MaxDay,      \* bound on the clock
  MaxStarts    \* bound on the commands started

ASSUME BoundsAssumption ==
  /\ MaxVersion \in Nat \ {0} /\ MaxDay \in Nat \ {0} /\ MaxStarts \in Nat
  /\ Commands \subseteq {"tui", "broker", "install", "rollback", "enable", "disable"}

Versions == 1 .. MaxVersion
None == 0

(* A release fits if its signed manifest names it, supports the Codex here *)
(* and on the host, and has a listed binary for this machine.              *)
Kinds == {
  "fits",
  "draft",         \* a draft or a prerelease
  "no manifest",   \* none is among its assets
  "unsupported",   \* the manifest does not support this Codex or this machine
  "unverified"}    \* not what was signed, or malformed, or without its binary

ASSUME CatalogsAssumption ==
  \A c \in Catalogs : c \in [Versions -> Kinds] /\ c[1] = "fits"

Never == 0            \* last_checked is None; days start at 1
Nobody == "nobody"

ASSUME ProcsAssumption == Nobody \notin Procs

FirstStep ==
  [tui |-> "load", broker |-> "enter", install |-> "find",
   rollback |-> "lock rollback", enable |-> "lock enable", disable |-> "lock disable"]

(* The steps that try the exclusive lock, and what follows if it is free.  *)
Locking == {"lock auto", "lock install", "lock rollback", "lock enable", "lock disable"}

AfterLock(step) ==
  CASE step = "lock auto"     -> "mark"
    [] step = "lock install"  -> "download"
    [] step = "lock rollback" -> "disable first"
    [] step = "lock enable"   -> "enable"
    [] step = "lock disable"  -> "disable"

Automatic == {"load", "lock auto", "mark", "find auto", "download auto", "back up auto", "swap auto"}

UnderLock ==
  {"mark", "find auto", "download auto", "back up auto", "swap auto", "download",
   "back up", "swap", "disable first", "restore", "enable", "disable"}

Steps == {"idle", "load", "find", "restart", "enter", "session"} \cup Locking \cup UnderLock

VARIABLES
  exe,         \* the version of the installed executable
  backup,      \* rcodex.previous, None if there is none
  settings,    \* update.json: enabled and last_checked
  exclusive,   \* who holds the update lock exclusively
  sessions,    \* who holds it shared
  pc,          \* the step each process is at
  runs,        \* CARGO_PKG_VERSION of the executable each process runs
  plan,        \* the version each process is about to install
  memory,      \* the settings each process has read
  catalog,     \* what each release is like
  now, released, starts,  \* the clock, the newest release, commands so far
  restored,    \* history: rolled back, and neither enabled nor installed since
  checkDays,   \* history: days of automatic checks since updates were enabled
  lastChange   \* history: what changed the executable last

disk == <<exe, backup, settings>>
locks == <<exclusive, sessions>>
processes == <<pc, runs, plan, memory>>
outside == <<catalog, now, released, starts>>
history == <<restored, checkDays, lastChange>>
vars == <<disk, locks, processes, outside, history>>

Settings == [enabled : BOOLEAN, last : Never .. MaxDay]

TypeOK ==
  /\ exe \in Versions /\ backup \in Versions \cup {None} /\ settings \in Settings
  /\ exclusive \in Procs \cup {Nobody} /\ sessions \subseteq Procs
  /\ pc \in [Procs -> Steps] /\ runs \in [Procs -> Versions]
  /\ plan \in [Procs -> Versions \cup {None}] /\ memory \in [Procs -> Settings]
  /\ catalog \in Catalogs
  /\ now \in 1 .. MaxDay /\ released \in Versions /\ starts \in 0 .. MaxStarts
  /\ restored \in BOOLEAN /\ checkDays \in Seq(1 .. MaxDay)
  /\ lastChange \in {"none", "install", "rollback"}

Init ==
  /\ exe = 1 /\ backup = None /\ settings = [enabled |-> FALSE, last |-> Never]
  /\ exclusive = Nobody /\ sessions = {}
  /\ pc = [p \in Procs |-> "idle"] /\ runs = [p \in Procs |-> 1]
  /\ plan = [p \in Procs |-> None] /\ memory = [p \in Procs |-> settings]
  /\ catalog \in Catalogs /\ now = 1 /\ released = 1 /\ starts = 0
  /\ restored = FALSE /\ checkDays = <<>> /\ lastChange = "none"

-----------------------------------------------------------------------------
(* Outside the program.                                                    *)

DayPasses ==
  /\ now < MaxDay /\ now' = now + 1
  /\ UNCHANGED <<disk, locks, processes, catalog, released, starts, history>>

Release ==
  /\ released < MaxVersion /\ released' = released + 1
  /\ UNCHANGED <<disk, locks, processes, catalog, now, starts, history>>

-----------------------------------------------------------------------------
Goto(p, step) == pc' = [pc EXCEPT ![p] = step]

AtStep(p, step) == pc[p] = step

Unlock(p) ==
  /\ exclusive' = IF exclusive = p THEN Nobody ELSE exclusive
  /\ sessions' = sessions \ {p}

(* A tui goes on to its session when an automatic update comes to nothing; *)
(* any other command ends.                                                 *)
GiveUp(p) ==
  /\ Goto(p, IF pc[p] \in Automatic THEN "enter" ELSE "idle")
  /\ Unlock(p)
  /\ UNCHANGED <<runs, plan, memory>>

Start(p, command) ==
  /\ AtStep(p, "idle") /\ starts < MaxStarts
  /\ starts' = starts + 1
  /\ Goto(p, FirstStep[command])
  /\ runs' = [runs EXCEPT ![p] = exe]
  /\ UNCHANGED <<disk, locks, plan, memory, catalog, now, released, history>>

Due(s) == s.enabled /\ (s.last = Never \/ now >= s.last + 1)

(* automatic_update looks at the settings before it takes the lock.        *)
LoadSettings(p) ==
  /\ AtStep(p, "load")
  /\ memory' = [memory EXCEPT ![p] = settings]
  /\ Goto(p, IF Due(settings) THEN "lock auto" ELSE "enter")
  /\ UNCHANGED <<disk, locks, runs, plan, outside, history>>

(* The slip of a lock that sessions do not stand in the way of.            *)
LockIgnoringSessions(p) ==
  /\ pc[p] \in Locking
  /\ exclusive = Nobody
  /\ exclusive' = p
  /\ Goto(p, AfterLock(pc[p]))
  /\ UNCHANGED <<disk, sessions, runs, plan, memory, outside, history>>

(* try_lock_exclusive.                                                     *)
Lock(p) ==
  /\ pc[p] \in Locking
  /\ exclusive = Nobody /\ sessions = {}
  /\ exclusive' = p
  /\ Goto(p, AfterLock(pc[p]))
  /\ UNCHANGED <<disk, sessions, runs, plan, memory, outside, history>>

LockFails(p) ==
  /\ pc[p] \in Locking
  /\ ~ (exclusive = Nobody /\ sessions = {})
  /\ GiveUp(p)
  /\ UNCHANGED <<disk, outside, history>>

(* The slip of trusting the settings read before the lock.                 *)
MarkWithoutReading(p) ==
  /\ AtStep(p, "mark")
  /\ settings' = [memory[p] EXCEPT !.last = now]
  /\ checkDays' = Append(checkDays, now)
  /\ Goto(p, "find auto")
  /\ UNCHANGED <<exe, backup, locks, runs, plan, memory, outside, restored, lastChange>>

(* Under the lock the settings are read again, and the check is recorded   *)
(* before it is made.                                                      *)
Mark(p) ==
  /\ AtStep(p, "mark") /\ Due(settings)
  /\ settings' = [settings EXCEPT !.last = now]
  /\ checkDays' = Append(checkDays, now)
  /\ memory' = [memory EXCEPT ![p] = settings']
  /\ Goto(p, "find auto")
  /\ UNCHANGED <<exe, backup, locks, runs, plan, outside, restored, lastChange>>

MarkNotDue(p) ==
  /\ AtStep(p, "mark") /\ ~ Due(settings)
  /\ GiveUp(p)
  /\ UNCHANGED <<disk, outside, history>>

(* Repository::find.                                                       *)

(* The releases that are newer than the version this process runs ...      *)
Candidates(p) == {v \in runs[p] + 1 .. released : catalog[v] # "draft"}

(* ... less those passed over: the newest of these decides, and one that   *)
(* cannot be verified ends the search though an older one may fit.         *)
Deciding(p) == {v \in Candidates(p) : catalog[v] \notin {"no manifest", "unsupported"}}

(* The slip of not looking at what the newest release is.                  *)
FindNewest(p) ==
  /\ pc[p] \in {"find", "find auto"}
  /\ Candidates(p) # {}
  /\ plan' = [plan EXCEPT ![p] = Max(Candidates(p))]
  /\ Goto(p, IF pc[p] = "find" THEN "lock install" ELSE "download auto")
  /\ UNCHANGED <<disk, locks, runs, memory, outside, history>>

Find(p) ==
  /\ pc[p] \in {"find", "find auto"}
  /\ Deciding(p) # {} /\ catalog[Max(Deciding(p))] = "fits"
  /\ plan' = [plan EXCEPT ![p] = Max(Deciding(p))]
  /\ Goto(p, IF pc[p] = "find" THEN "lock install" ELSE "download auto")
  /\ UNCHANGED <<disk, locks, runs, memory, outside, history>>

FindNothing(p) ==
  /\ pc[p] \in {"find", "find auto"}
  /\ \/ Deciding(p) = {}
     \/ Deciding(p) # {} /\ catalog[Max(Deciding(p))] # "fits"
  /\ GiveUp(p)
  /\ UNCHANGED <<disk, outside, history>>

Download(p) ==
  /\ pc[p] \in {"download", "download auto"}
  /\ Goto(p, IF pc[p] = "download" THEN "back up" ELSE "back up auto")
  /\ UNCHANGED <<disk, locks, runs, plan, memory, outside, history>>

(* A request, a verification, a file access or gh fails, be it only after *)
(* the step's write, or the 45 seconds an automatic update may take run    *)
(* out: its future is dropped, and the lock with it.                       *)
StepFails(p) ==
  /\ pc[p] \notin {"idle", "session"}
  /\ GiveUp(p)
  /\ UNCHANGED <<disk, outside, history>>

-----------------------------------------------------------------------------
(* Installation::replace, in its two writes.                               *)

(* The slip of a backup that is made once and for all.                     *)
BackUpOnce(p) ==
  /\ pc[p] \in {"back up", "back up auto"}
  /\ backup' = IF backup = None THEN exe ELSE backup
  /\ Goto(p, IF pc[p] = "back up" THEN "swap" ELSE "swap auto")
  /\ UNCHANGED <<exe, settings, locks, runs, plan, memory, outside, history>>

BackUp(p) ==
  /\ pc[p] \in {"back up", "back up auto"}
  /\ backup' = exe
  /\ Goto(p, IF pc[p] = "back up" THEN "swap" ELSE "swap auto")
  /\ UNCHANGED <<exe, settings, locks, runs, plan, memory, outside, history>>

Swap(p) ==
  /\ AtStep(p, "swap")
  /\ exe' = plan[p]
  /\ Goto(p, "idle") /\ Unlock(p)
  /\ restored' = FALSE /\ lastChange' = "install"
  /\ UNCHANGED <<backup, settings, runs, plan, memory, outside, checkDays>>

(* automatic_update returns, and the lock is let go: the process restarts, *)
(* or goes on as it is when the error came after the write.                *)
SwapAuto(p) ==
  /\ AtStep(p, "swap auto")
  /\ exe' = plan[p]
  /\ \E step \in {"restart", "enter"} : Goto(p, step)
  /\ Unlock(p)
  /\ lastChange' = "install"
  /\ UNCHANGED <<backup, settings, runs, plan, memory, outside, restored, checkDays>>

(* It becomes the executable there is by then.                             *)
Restart(p) ==
  /\ AtStep(p, "restart")
  /\ runs' = [runs EXCEPT ![p] = exe]
  /\ Goto(p, "load")
  /\ UNCHANGED <<disk, locks, plan, memory, outside, history>>

-----------------------------------------------------------------------------
(* The slip of a rollback that leaves automatic updates as they are.       *)
DisableFirstNot(p) ==
  /\ AtStep(p, "disable first")
  /\ Goto(p, "restore")
  /\ UNCHANGED <<disk, locks, runs, plan, memory, outside, history>>

DisableFirst(p) ==
  /\ AtStep(p, "disable first")
  /\ settings' = [settings EXCEPT !.enabled = FALSE]
  /\ Goto(p, "restore")
  /\ UNCHANGED <<exe, backup, locks, runs, plan, memory, outside, history>>

Restore(p) ==
  /\ AtStep(p, "restore") /\ backup # None
  /\ exe' = backup
  /\ Goto(p, "idle") /\ Unlock(p)
  /\ restored' = TRUE /\ lastChange' = "rollback"
  /\ UNCHANGED <<backup, settings, runs, plan, memory, outside, checkDays>>

NothingToRestore(p) ==
  /\ AtStep(p, "restore") /\ backup = None
  /\ GiveUp(p)
  /\ UNCHANGED <<disk, outside, history>>

Enable(p) ==
  /\ AtStep(p, "enable")
  /\ settings' = [enabled |-> TRUE, last |-> Never]
  /\ restored' = FALSE /\ checkDays' = <<>>
  /\ Goto(p, "idle") /\ Unlock(p)
  /\ UNCHANGED <<exe, backup, runs, plan, memory, outside, lastChange>>

Disable(p) ==
  /\ AtStep(p, "disable")
  /\ settings' = [settings EXCEPT !.enabled = FALSE]
  /\ Goto(p, "idle") /\ Unlock(p)
  /\ UNCHANGED <<exe, backup, runs, plan, memory, outside, history>>

-----------------------------------------------------------------------------
(* Sessions hold the lock shared, and are refused while it is exclusive.   *)
EnterSession(p) ==
  /\ AtStep(p, "enter") /\ exclusive = Nobody
  /\ sessions' = sessions \cup {p}
  /\ Goto(p, "session")
  /\ UNCHANGED <<disk, exclusive, runs, plan, memory, outside, history>>

SessionRefused(p) ==
  /\ AtStep(p, "enter") /\ exclusive # Nobody
  /\ GiveUp(p)
  /\ UNCHANGED <<disk, outside, history>>

LeaveSession(p) ==
  /\ AtStep(p, "session")
  /\ GiveUp(p)
  /\ UNCHANGED <<disk, outside, history>>

Crash(p) ==
  /\ ~ AtStep(p, "idle")
  /\ Goto(p, "idle") /\ Unlock(p)
  /\ UNCHANGED <<runs, plan, memory, disk, outside, history>>

Step(p) ==
  \/ LoadSettings(p) \/ Lock(p) \/ LockFails(p) \/ Mark(p) \/ MarkNotDue(p)
  \/ Find(p) \/ FindNothing(p) \/ Download(p) \/ StepFails(p)
  \/ BackUp(p) \/ Swap(p) \/ SwapAuto(p) \/ Restart(p)
  \/ DisableFirst(p) \/ Restore(p) \/ NothingToRestore(p)
  \/ Enable(p) \/ Disable(p)
  \/ EnterSession(p) \/ SessionRefused(p) \/ LeaveSession(p)

Next ==
  \/ \E p \in Procs : Step(p) \/ Crash(p)
  \/ \E p \in Procs, c \in Commands : Start(p, c)
  \/ DayPasses
  \/ Release

Spec == Init /\ [][Next]_vars

-----------------------------------------------------------------------------
(* "Active TUI and broker sessions hold an installation lock": while one   *)
(* does, neither the executable nor its backup changes, whatever the other *)
(* processes are in the middle of.                                         *)
ReplacedBetweenSessions == [][UNCHANGED <<exe, backup>> \/ sessions = {}]_vars

(* "Rollback restores it and disables automatic updates": until updates    *)
(* are enabled again or somebody installs, they stay disabled and the      *)
(* restored executable stays in its place, whichever processes were in the *)
(* middle of an automatic update when the rollback came.                   *)
RollbackSticks ==
  [][restored' => ~ settings'.enabled /\ (restored => exe' = exe)]_vars

(* "at most once per day": since updates were enabled no two automatic     *)
(* checks were made on one day, by however many sessions.                  *)
OneCheckADay == \A i, j \in DOMAIN checkDays : i < j => checkDays[i] < checkDays[j]

(* What an installation replaces is in the backup when it does so, and     *)
(* still is when the process has died between the two writes.              *)
ReplacedIsBackedUp ==
  [][exe' # exe /\ lastChange' = "install" => backup = exe /\ backup' = exe]_vars

(* "Both local and remote Codex must match a version supported by the      *)
(* signed release": whatever updates, crashes and rollbacks have come      *)
(* together, the executable and the one to roll back to are releases that  *)
(* fit.                                                                    *)
OnlyFittingInstalled == \A v \in {exe, backup} \ {None} : catalog[v] = "fits"

-----------------------------------------------------------------------------
(* What the documentation says, and the code does not always do.           *)

(* "Run `rcodex update rollback` to restore the previous version": after   *)
(* an installation, when nobody is in the middle of another, there is a    *)
(* previous version to go back to.                                         *)
RollbackGoesBack == lastChange = "install" /\ exclusive = Nobody => backup < exe

-----------------------------------------------------------------------------
(* What one might expect, and does not hold: no run checks it.             *)

(* An update installs a newer release: only a rollback takes the           *)
(* executable back to an older version.  TLC refutes it with two processes *)
(* updating: what one found before the other installed is older.           *)
UpdatesGoForward == [][exe' < exe => lastChange' = "rollback"]_vars
=============================================================================
