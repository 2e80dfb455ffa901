---------------------------- MODULE UpdateProofs ----------------------------
(***************************************************************************)
(* Proofs about Update, for any processes, commands, catalogs and bounds.  *)
(***************************************************************************)
EXTENDS Update, Integers, SequenceTheorems, WellFoundedInduction, TLAPS

Less == OpToRel(<, Nat)

(* A set of natural numbers that is not empty has a least element.         *)
LEMMA LeastExists ==
  ASSUME NEW T, T \subseteq Nat, T # {}
  PROVE  \E x \in T : \A y \in T : x <= y
<1>1. IsWellFoundedOn(Less, Nat)
  BY ONLY NatLessThanWellFounded DEF Less
<1>2. PICK x \in T : \A y \in T : ~ (<<y, x>> \in Less)
  BY <1>1, WFMin
<1>3. \A m, n \in Nat : <<m, n>> \in Less <=> m < n
  BY DEF Less, OpToRel
<1>4. ASSUME NEW y \in T
      PROVE  x <= y
  <2>1. x \in Nat /\ y \in Nat /\ ~ (y < x)
    BY <1>2, <1>3
  <2> QED
    BY <2>1
<1> QED
  BY <1>4

(* A set of version numbers that is not empty has a greatest.              *)
LEMMA MaxIsMember ==
  ASSUME NEW n \in Nat, NEW S, S \subseteq 1 .. n, S # {}
  PROVE  Max(S) \in S
<1> DEFINE T == {n - v : v \in S}
<1>1. T \subseteq Nat /\ T # {}
  <2>1. \A v \in S : n - v \in Nat
    OBVIOUS
  <2> QED
    BY <2>1
<1>2. PICK x \in T : \A y \in T : x <= y
  <2> HIDE DEF T
  <2> QED
    BY <1>1, LeastExists
<1>3. PICK v \in S : x = n - v
  BY <1>2
<1>4. ASSUME NEW w \in S
      PROVE  v >= w
  <2>1. x <= n - w
    BY <1>2
  <2>2. v \in 1 .. n /\ w \in 1 .. n
    OBVIOUS
  <2> QED
    BY <1>3, <2>1, <2>2
<1> QED
  BY <1>4 DEF Max

-----------------------------------------------------------------------------
(* The steps at which a process has chosen what it installs.               *)
Planned ==
  {"lock install", "download", "download auto", "back up", "back up auto", "swap", "swap auto"}

(* What is about to be installed is a release, and one that fits.          *)
PlanInv == \A p \in Procs : pc[p] \in Planned => plan[p] \in Versions /\ catalog[plan[p]] = "fits"

(* The lock is had throughout the steps under it, and not beside sessions. *)
LockInv ==
  /\ \A p \in Procs : pc[p] \in UnderLock => exclusive = p
  /\ exclusive # Nobody => sessions = {}

(* A rollback restores only once updates are disabled.                     *)
RestoreInv == \A p \in Procs : AtStep(p, "restore") => ~ settings.enabled

(* Then they are disabled, and the backup is in the executable's place.    *)
RestoredInv == restored => ~ settings.enabled /\ exe = backup

(* An automatic update goes on only while updates are enabled.             *)
AutoSteps == {"find auto", "download auto", "back up auto", "swap auto"}
AutoInv == \A p \in Procs : pc[p] \in AutoSteps => settings.enabled

(* The day on file is no earlier than any check made since updates were    *)
(* enabled.                                                                *)
CheckInv == \A i \in DOMAIN checkDays : checkDays[i] <= settings.last

(* Between the two writes of an installation the backup is the executable. *)
BackupInv == \A p \in Procs : pc[p] \in {"swap", "swap auto"} => backup = exe

-----------------------------------------------------------------------------
(* Steps that quit: the process ends, or goes on to its session, without   *)
(* the lock, and nothing else changes.                                     *)
Quits(p) ==
  /\ \E step \in {"idle", "enter"} : Goto(p, step)
  /\ Unlock(p)
  /\ UNCHANGED <<runs, plan, memory, disk, outside, history>>

(* Every step quits, goes on, writes under the lock, or writes and unlocks.*)
LEMMA StepCases ==
  ASSUME NEW p \in Procs, Step(p) \/ Crash(p)
  PROVE  \/ Quits(p)
         \/ LoadSettings(p) \/ Find(p) \/ Download(p) \/ Lock(p) \/ EnterSession(p)
         \/ Mark(p) \/ BackUp(p) \/ DisableFirst(p)
         \/ Swap(p) \/ SwapAuto(p) \/ Restart(p) \/ Restore(p) \/ Enable(p) \/ Disable(p)
<1>1. GiveUp(p) /\ UNCHANGED <<disk, outside, history>> => Quits(p)
  BY DEF GiveUp, Quits
<1>2. Crash(p) => Quits(p)
  BY DEF Crash, Quits
<1> QED
  BY <1>1, <1>2
     DEF Step, LockFails, MarkNotDue, FindNothing, StepFails, NothingToRestore, SessionRefused, LeaveSession

(* What Find finds is a release that fits.                                 *)
LEMMA FindFits ==
  ASSUME TypeOK, NEW p \in Procs, Find(p)
  PROVE  \E v \in Versions : catalog[v] = "fits" /\ plan' = [plan EXCEPT ![p] = v]
<1> DEFINE S == Deciding(p)
<1>1. S \subseteq 1 .. MaxVersion /\ MaxVersion \in Nat
  <2>1. runs[p] \in 1 .. MaxVersion /\ released \in 1 .. MaxVersion /\ MaxVersion \in Nat
    BY BoundsAssumption DEF TypeOK, Versions
  <2>2. \A v \in runs[p] + 1 .. released : v \in 1 .. MaxVersion
    BY <2>1
  <2> QED
    BY <2>1, <2>2 DEF Deciding, Candidates
<1>2. Max(S) \in S
  BY <1>1, MaxIsMember DEF Find
<1> QED
  BY <1>1, <1>2 DEF Find, Versions

-----------------------------------------------------------------------------
(* Types.                                                                  *)

LEMMA GotoTyped ==
  ASSUME TypeOK, NEW p \in Procs, NEW step \in Steps, Goto(p, step)
  PROVE  pc' \in [Procs -> Steps]
BY DEF TypeOK, Goto

LEMMA UnlockTyped ==
  ASSUME TypeOK, NEW p \in Procs, Unlock(p)
  PROVE  exclusive' \in Procs \cup {Nobody} /\ sessions' \subseteq Procs
BY DEF TypeOK, Unlock

LEMMA InitTyped == Init => TypeOK
<1> SUFFICES ASSUME Init
             PROVE  TypeOK
  OBVIOUS
<1>1. 1 \in Versions /\ 1 \in 1 .. MaxDay /\ 0 \in 0 .. MaxStarts /\ Never \in Never .. MaxDay
  BY BoundsAssumption DEF Versions, Never
<1>2. settings \in Settings
  BY <1>1 DEF Init, Settings
<1>3. pc \in [Procs -> Steps] /\ memory \in [Procs -> Settings]
  BY <1>2 DEF Init, Steps
<1>4. plan \in [Procs -> Versions \cup {None}] /\ runs \in [Procs -> Versions]
  BY <1>1 DEF Init
<1>5. checkDays \in Seq(1 .. MaxDay)
  BY DEF Init
<1> QED
  BY <1>1, <1>2, <1>3, <1>4, <1>5 DEF Init, TypeOK

LEMMA StepTyped ==
  ASSUME TypeOK, PlanInv, NEW p \in Procs, Step(p) \/ Crash(p)
  PROVE  TypeOK'
<1> USE DEF disk, locks, outside, history
<1>1. CASE Quits(p)
  <2>1. pc' \in [Procs -> Steps]
    BY <1>1, GotoTyped DEF Quits, Steps
  <2> QED
    BY <1>1, <2>1, UnlockTyped DEF Quits, TypeOK
<1>2. CASE LoadSettings(p)
  <2>1. pc' \in [Procs -> Steps]
    BY <1>2, GotoTyped DEF LoadSettings, Steps, Locking
  <2> QED
    BY <1>2, <2>1 DEF LoadSettings, TypeOK
<1>3. CASE Find(p)
  <2>1. pc' \in [Procs -> Steps]
    BY <1>3, GotoTyped DEF Find, Steps, Locking, UnderLock
  <2>2. plan' \in [Procs -> Versions \cup {None}]
    BY <1>3, FindFits DEF TypeOK
  <2> QED
    BY <1>3, <2>1, <2>2 DEF Find, TypeOK
<1>4. CASE Download(p)
  <2>1. pc' \in [Procs -> Steps]
    BY <1>4, GotoTyped DEF Download, Steps, UnderLock
  <2> QED
    BY <1>4, <2>1 DEF Download, TypeOK
<1>5. CASE Lock(p)
  <2>1. AfterLock(pc[p]) \in Steps
    BY <1>5 DEF Lock, AfterLock, Steps, Locking, UnderLock
  <2>2. pc' \in [Procs -> Steps]
    BY <1>5, <2>1, GotoTyped DEF Lock
  <2> QED
    BY <1>5, <2>2 DEF Lock, TypeOK
<1>6. CASE EnterSession(p)
  <2>1. pc' \in [Procs -> Steps]
    BY <1>6, GotoTyped DEF EnterSession, Steps
  <2> QED
    BY <1>6, <2>1 DEF EnterSession, TypeOK
<1>7. CASE Mark(p)
  <2>1. pc' \in [Procs -> Steps]
    BY <1>7, GotoTyped DEF Mark, Steps, UnderLock
  <2>2. now \in 1 .. MaxDay /\ now \in Never .. MaxDay
    BY BoundsAssumption DEF TypeOK, Never
  <2>3. settings' \in Settings
    BY <1>7, <2>2 DEF Mark, TypeOK, Settings
  <2>4. memory' \in [Procs -> Settings]
    BY <1>7, <2>3 DEF Mark, TypeOK
  <2>5. checkDays' \in Seq(1 .. MaxDay)
    BY <1>7, <2>2, AppendProperties DEF Mark, TypeOK
  <2> QED
    BY <1>7, <2>1, <2>3, <2>4, <2>5 DEF Mark, TypeOK
<1>8. CASE BackUp(p)
  <2>1. pc' \in [Procs -> Steps]
    BY <1>8, GotoTyped DEF BackUp, Steps, UnderLock
  <2> QED
    BY <1>8, <2>1 DEF BackUp, TypeOK
<1>9. CASE DisableFirst(p)
  <2>1. pc' \in [Procs -> Steps]
    BY <1>9, GotoTyped DEF DisableFirst, Steps, UnderLock
  <2>2. settings' \in Settings
    BY <1>9 DEF DisableFirst, TypeOK, Settings
  <2> QED
    BY <1>9, <2>1, <2>2 DEF DisableFirst, TypeOK
<1>10. CASE Swap(p)
  <2>1. pc' \in [Procs -> Steps]
    BY <1>10, GotoTyped DEF Swap, Steps
  <2>2. plan[p] \in Versions
    BY <1>10 DEF Swap, AtStep, PlanInv, Planned
  <2> QED
    BY <1>10, <2>1, <2>2, UnlockTyped DEF Swap, TypeOK
<1>11. CASE SwapAuto(p)
  <2>1. pc' \in [Procs -> Steps]
    BY <1>11, GotoTyped DEF SwapAuto, Steps
  <2>2. plan[p] \in Versions
    BY <1>11 DEF SwapAuto, AtStep, PlanInv, Planned
  <2> QED
    BY <1>11, <2>1, <2>2, UnlockTyped DEF SwapAuto, TypeOK
<1>12. CASE Restore(p)
  <2>1. pc' \in [Procs -> Steps]
    BY <1>12, GotoTyped DEF Restore, Steps
  <2> QED
    BY <1>12, <2>1, UnlockTyped DEF Restore, TypeOK
<1>13. CASE Enable(p)
  <2>1. pc' \in [Procs -> Steps]
    BY <1>13, GotoTyped DEF Enable, Steps
  <2>2. settings' \in Settings
    BY <1>13, BoundsAssumption DEF Enable, Settings, Never
  <2>3. checkDays' \in Seq(1 .. MaxDay)
    BY <1>13 DEF Enable
  <2> QED
    BY <1>13, <2>1, <2>2, <2>3, UnlockTyped DEF Enable, TypeOK
<1>14. CASE Disable(p)
  <2>1. pc' \in [Procs -> Steps]
    BY <1>14, GotoTyped DEF Disable, Steps
  <2>2. settings' \in Settings
    BY <1>14 DEF Disable, TypeOK, Settings
  <2> QED
    BY <1>14, <2>1, <2>2, UnlockTyped DEF Disable, TypeOK
<1>15. CASE Restart(p)
  <2>1. pc' \in [Procs -> Steps]
    BY <1>15, GotoTyped DEF Restart, Steps, UnderLock
  <2> QED
    BY <1>15, <2>1 DEF Restart, TypeOK
<1> QED
  BY <1>1, <1>2, <1>3, <1>4, <1>5, <1>6, <1>7, <1>8, <1>9, <1>10, <1>11, <1>12, <1>13, <1>14, <1>15, StepCases

LEMMA NextTyped ==
  ASSUME TypeOK, PlanInv, [Next]_vars
  PROVE  TypeOK'
<1> USE DEF disk, locks, processes, outside, history
<1>1. ASSUME NEW p \in Procs, Step(p) \/ Crash(p)
      PROVE  TypeOK'
  BY <1>1, StepTyped
<1>2. ASSUME NEW p \in Procs, NEW c \in Commands, Start(p, c)
      PROVE  TypeOK'
  <2>1. FirstStep[c] \in Steps
    <3>1. c \in {"tui", "broker", "install", "rollback", "enable", "disable"}
      BY BoundsAssumption
    <3>2. FirstStep["tui"] \in Steps /\ FirstStep["broker"] \in Steps /\ FirstStep["install"] \in Steps
      BY DEF FirstStep, Steps
    <3>3. FirstStep["rollback"] \in Steps /\ FirstStep["enable"] \in Steps /\ FirstStep["disable"] \in Steps
      BY DEF FirstStep, Steps, Locking
    <3> QED
      BY <3>1, <3>2, <3>3
  <2>2. pc' \in [Procs -> Steps]
    BY <1>2, <2>1, GotoTyped DEF Start
  <2>3. starts' \in 0 .. MaxStarts
    BY <1>2, BoundsAssumption DEF Start, TypeOK
  <2>4. runs' \in [Procs -> Versions]
    BY <1>2 DEF Start, TypeOK
  <2> QED
    BY <1>2, <2>2, <2>3, <2>4 DEF Start, TypeOK
<1>3. CASE DayPasses
  BY <1>3, BoundsAssumption DEF DayPasses, TypeOK
<1>4. CASE Release
  BY <1>4, BoundsAssumption DEF Release, TypeOK, Versions
<1>5. CASE UNCHANGED vars
  BY <1>5 DEF vars, TypeOK
<1> QED
  BY <1>1, <1>2, <1>3, <1>4, <1>5 DEF Next

-----------------------------------------------------------------------------
(* What a step leaves alone.                                               *)

(* A process moves itself only, and plans for itself only.                 *)
LEMMA OthersStay ==
  ASSUME TypeOK, NEW p \in Procs, Step(p) \/ Crash(p),
         NEW q \in Procs \ {p}
  PROVE  pc'[q] = pc[q] /\ plan'[q] = plan[q]
<1>1. \A step : Goto(p, step) => pc'[q] = pc[q]
  BY DEF TypeOK, Goto
<1>2. CASE Find(p)
  BY <1>1, <1>2 DEF TypeOK, Find
<1> QED
  BY <1>1, <1>2, StepCases
     DEF Quits, LoadSettings, Restart, Download, Lock, EnterSession, Mark, BackUp, DisableFirst,
         Swap, SwapAuto, Restore, Enable, Disable

(* Steps that change neither what is on disk nor the history of it: all but*)
(* those taken at a step under the lock.                                   *)
LEMMA WritesAreUnderLock ==
  ASSUME NEW p \in Procs, Step(p) \/ Crash(p)
  PROVE  UNCHANGED <<disk, history>> \/ pc[p] \in UnderLock
BY StepCases
   DEF Quits, LoadSettings, Restart, Find, Download, Lock, EnterSession, Mark, BackUp, DisableFirst,
       Swap, SwapAuto, Restore, Enable, Disable, AtStep, UnderLock

(* No other process is at a step under the lock while one is.              *)
LEMMA OneUnderLock ==
  ASSUME LockInv, NEW p \in Procs, pc[p] \in UnderLock, NEW q \in Procs \ {p}
  PROVE  pc[q] \notin UnderLock
BY DEF LockInv

-----------------------------------------------------------------------------
LEMMA StepKeepsLockInv ==
  ASSUME TypeOK, LockInv, NEW p \in Procs, Step(p) \/ Crash(p)
  PROVE  LockInv'
<1> USE DEF locks
<1>1. \A step : Goto(p, step) => pc'[p] = step
  BY DEF TypeOK, Goto
(* Who unlocks has left the steps under the lock.                          *)
<1>2. ASSUME Unlock(p), pc'[p] \notin UnderLock
      PROVE  LockInv'
  <2>1. ASSUME NEW q \in Procs, pc'[q] \in UnderLock
        PROVE  exclusive' = q
    <3>1. q # p /\ exclusive = q
      BY <1>2, <2>1, OthersStay DEF LockInv
    <3> QED
      BY <1>2, <3>1 DEF Unlock
  <2>2. exclusive' # Nobody => sessions' = {}
    BY <1>2 DEF Unlock, LockInv
  <2> QED
    BY <2>1, <2>2 DEF LockInv
(* Who keeps it was under it before, or is not now.                        *)
<1>3. ASSUME UNCHANGED locks, pc'[p] \notin UnderLock \/ pc[p] \in UnderLock
      PROVE  LockInv'
  BY <1>3, OthersStay DEF LockInv
<1>4. CASE Lock(p)
  <2>1. ASSUME NEW q \in Procs, pc'[q] \in UnderLock
        PROVE  q = p
    <3>1. q # p => exclusive = q
      BY <2>1, OthersStay DEF LockInv
    <3> QED
      BY <1>4, <3>1, ProcsAssumption DEF Lock
  <2> QED
    BY <1>4, <2>1 DEF Lock, LockInv
<1>5. CASE EnterSession(p)
  <2>1. pc'[p] \notin UnderLock
    BY <1>1, <1>5 DEF EnterSession, UnderLock
  <2> QED
    BY <1>5, <2>1, OthersStay DEF EnterSession, LockInv
<1>6. CASE Quits(p)
  <2>1. pc'[p] \notin UnderLock
    BY <1>1, <1>6 DEF Quits, UnderLock
  <2> QED
    BY <1>2, <1>6, <2>1 DEF Quits
<1>7. CASE LoadSettings(p)
  <2>1. pc'[p] \notin UnderLock
    BY <1>1, <1>7 DEF LoadSettings, UnderLock
  <2> QED
    BY <1>3, <1>7, <2>1 DEF LoadSettings
<1>8. CASE Find(p)
  <2>1. pc'[p] \notin UnderLock \/ pc[p] \in UnderLock
    BY <1>1, <1>8 DEF Find, UnderLock
  <2> QED
    BY <1>3, <1>8, <2>1 DEF Find
<1>9. CASE Download(p) \/ Mark(p) \/ BackUp(p) \/ DisableFirst(p)
  BY <1>3, <1>9 DEF Download, Mark, BackUp, DisableFirst, AtStep, UnderLock
<1>10. CASE Swap(p) \/ SwapAuto(p) \/ Restore(p) \/ Enable(p) \/ Disable(p)
  <2>1. pc'[p] \in {"idle", "restart", "enter"}
    BY <1>1, <1>10 DEF Swap, SwapAuto, Restore, Enable, Disable
  <2>2. pc'[p] \notin UnderLock
    BY <2>1 DEF UnderLock
  <2> QED
    BY <1>2, <1>10, <2>2 DEF Swap, SwapAuto, Restore, Enable, Disable
<1>11. CASE Restart(p)
  <2>1. pc'[p] \notin UnderLock
    BY <1>1, <1>11 DEF Restart, UnderLock
  <2> QED
    BY <1>3, <1>11, <2>1 DEF Restart
<1> QED
  BY <1>4, <1>5, <1>6, <1>7, <1>8, <1>9, <1>10, <1>11, StepCases

(* Only the process's own steps under the lock can disturb what is known of*)
(* the disk at a step under the lock.                                      *)
LEMMA StepKeepsRestoreInv ==
  ASSUME TypeOK, LockInv, RestoreInv, NEW p \in Procs, Step(p) \/ Crash(p)
  PROVE  RestoreInv'
<1> USE DEF disk, AtStep
<1>1. \A step : Goto(p, step) => pc'[p] = step
  BY DEF TypeOK, Goto
<1>2. ASSUME UNCHANGED settings, pc'[p] # "restore"
      PROVE  RestoreInv'
  BY <1>2, OthersStay DEF RestoreInv
<1>3. CASE Lock(p)
  <2>1. pc'[p] # "restore"
    BY <1>1, <1>3 DEF Lock, AfterLock, Locking
  <2> QED
    BY <1>2, <1>3, <2>1 DEF Lock
<1>4. CASE DisableFirst(p) \/ Disable(p)
  <2>1. ~ settings'.enabled
    BY <1>4 DEF DisableFirst, Disable, TypeOK, Settings
  <2> QED
    BY <2>1 DEF RestoreInv
(* Who enables updates is under the lock, and so nobody restores.          *)
<1>5. CASE Mark(p) \/ Enable(p)
  <2>1. pc[p] \in UnderLock /\ pc'[p] # "restore"
    BY <1>1, <1>5 DEF Mark, Enable, UnderLock
  <2>2. \A q \in Procs : pc'[q] # "restore"
    BY <2>1, OneUnderLock, OthersStay DEF UnderLock
  <2> QED
    BY <2>2 DEF RestoreInv
<1>6. CASE Quits(p) \/ LoadSettings(p) \/ Find(p) \/ Download(p) \/ EnterSession(p) \/ BackUp(p)
           \/ Swap(p) \/ SwapAuto(p) \/ Restart(p) \/ Restore(p)
  <2>1. pc'[p] # "restore" /\ UNCHANGED settings
    BY <1>1, <1>6
       DEF Quits, LoadSettings, Find, Download, EnterSession, BackUp, Swap, SwapAuto, Restart, Restore
  <2> QED
    BY <1>2, <2>1
<1> QED
  BY <1>3, <1>4, <1>5, <1>6, StepCases

(* Updates are enabled when an automatic one begins, and whoever would     *)
(* disable them waits for its end.                                         *)
LEMMA StepKeepsAutoInv ==
  ASSUME TypeOK, LockInv, AutoInv, NEW p \in Procs, Step(p) \/ Crash(p)
  PROVE  AutoInv'
<1> USE DEF disk, AtStep
<1>1. \A step : Goto(p, step) => pc'[p] = step
  BY DEF TypeOK, Goto
<1>2. ASSUME UNCHANGED settings, pc'[p] \notin AutoSteps \/ pc[p] \in AutoSteps
      PROVE  AutoInv'
  BY <1>2, OthersStay DEF AutoInv
<1>3. CASE Lock(p)
  <2>1. pc'[p] \notin AutoSteps
    BY <1>1, <1>3 DEF Lock, AfterLock, Locking, AutoSteps
  <2> QED
    BY <1>2, <1>3, <2>1 DEF Lock
<1>4. CASE Mark(p) \/ Enable(p)
  <2>1. settings'.enabled
    <3>1. CASE Mark(p)
      <4>1. settings \in Settings /\ settings.enabled /\ settings' = [settings EXCEPT !.last = now]
        BY <3>1 DEF Mark, Due, TypeOK
      <4> QED
        BY <4>1 DEF Settings
    <3>2. CASE Enable(p)
      BY <3>2 DEF Enable
    <3> QED
      BY <1>4, <3>1, <3>2
  <2> QED
    BY <2>1 DEF AutoInv
<1>5. CASE DisableFirst(p) \/ Disable(p)
  <2>1. pc[p] \in UnderLock /\ pc'[p] \notin AutoSteps
    BY <1>1, <1>5 DEF DisableFirst, Disable, UnderLock, AutoSteps
  <2>2. \A q \in Procs : pc'[q] \notin AutoSteps
    BY <2>1, OneUnderLock, OthersStay DEF UnderLock, AutoSteps
  <2> QED
    BY <2>2 DEF AutoInv
<1>6. CASE Find(p) \/ Download(p) \/ BackUp(p)
  <2>1. UNCHANGED settings /\ (pc'[p] \notin AutoSteps \/ pc[p] \in AutoSteps)
    BY <1>1, <1>6 DEF Find, Download, BackUp, AutoSteps
  <2> QED
    BY <1>2, <2>1
<1>7. CASE Quits(p) \/ LoadSettings(p) \/ EnterSession(p)
           \/ Swap(p) \/ SwapAuto(p) \/ Restart(p) \/ Restore(p)
  <2>1. pc'[p] \notin AutoSteps /\ UNCHANGED settings
    BY <1>1, <1>7
       DEF Quits, LoadSettings, EnterSession, Swap, SwapAuto, Restart, Restore, AutoSteps
  <2> QED
    BY <1>2, <2>1
<1> QED
  BY <1>3, <1>4, <1>5, <1>6, <1>7, StepCases

(* No automatic update is at its second write while a rollback holds.      *)
LEMMA StepKeepsRestoredInv ==
  ASSUME TypeOK, AutoInv, RestoreInv, RestoredInv, NEW p \in Procs, Step(p) \/ Crash(p)
  PROVE  RestoredInv' /\ (restored /\ restored' => exe' = exe)
<1> USE DEF disk, history, AtStep
<1>1. CASE Quits(p) \/ LoadSettings(p) \/ Find(p) \/ Download(p) \/ Lock(p) \/ EnterSession(p) \/ Restart(p)
  <2>1. UNCHANGED <<exe, backup, settings, restored>>
    BY <1>1 DEF Quits, LoadSettings, Find, Download, Lock, EnterSession, Restart
  <2> QED
    BY <2>1 DEF RestoredInv
<1>2. CASE Mark(p) \/ Swap(p) \/ SwapAuto(p) \/ Enable(p)
  <2>1. ~ restored'
    BY <1>2 DEF Mark, Due, Swap, SwapAuto, Enable, AutoInv, AutoSteps, RestoredInv
  <2> QED
    BY <2>1 DEF RestoredInv
<1>3. CASE DisableFirst(p) \/ Disable(p)
  <2>1. ~ settings'.enabled /\ UNCHANGED <<exe, backup, restored>>
    BY <1>3 DEF DisableFirst, Disable, TypeOK, Settings
  <2> QED
    BY <2>1 DEF RestoredInv
<1>4. CASE BackUp(p)
  BY <1>4 DEF BackUp, RestoredInv
<1>5. CASE Restore(p)
  BY <1>5 DEF Restore, RestoreInv, RestoredInv
<1> QED
  BY <1>1, <1>2, <1>3, <1>4, <1>5, StepCases

LEMMA StepKeepsCheckInv ==
  ASSUME TypeOK, CheckInv, OneCheckADay, NEW p \in Procs, Step(p) \/ Crash(p)
  PROVE  CheckInv' /\ OneCheckADay'
<1> USE DEF disk, history
<1>1. CASE UNCHANGED <<checkDays, settings>>
  BY <1>1 DEF CheckInv, OneCheckADay
<1>2. CASE Mark(p)
  <2> DEFINE n == Len(checkDays)
  <2>1. checkDays \in Seq(1 .. MaxDay) /\ now \in 1 .. MaxDay /\ settings.last \in Nat
    BY BoundsAssumption DEF TypeOK, Settings, Never
  <2>2. /\ checkDays' = Append(checkDays, now) /\ settings'.last = now
        /\ settings.last = Never \/ settings.last < now
    <3>1. settings' = [settings EXCEPT !.last = now] /\ Due(settings) /\ checkDays' = Append(checkDays, now)
      BY <1>2 DEF Mark
    <3>2. settings'.last = now
      BY <3>1 DEF TypeOK, Settings
    <3>3. settings.last = Never \/ settings.last < now
      BY <2>1, <3>1 DEF Due
    <3> QED
      BY <3>1, <3>2, <3>3
  <2>3. /\ n \in Nat /\ DOMAIN checkDays = 1 .. n /\ DOMAIN checkDays' = 1 .. n + 1
        /\ \A i \in 1 .. n : checkDays'[i] = checkDays[i] /\ checkDays[i] \in 1 .. MaxDay
        /\ checkDays'[n + 1] = now
    <3>1. n \in Nat /\ DOMAIN checkDays = 1 .. n /\ \A i \in 1 .. n : checkDays[i] \in 1 .. MaxDay
      BY <2>1, LenProperties
    <3>2. /\ checkDays' \in Seq(1 .. MaxDay) /\ Len(checkDays') = n + 1
          /\ \A i \in 1 .. n : checkDays'[i] = checkDays[i]
          /\ checkDays'[n + 1] = now
      BY <2>1, <2>2, AppendProperties
    <3>3. DOMAIN checkDays' = 1 .. n + 1
      BY <3>2, LenProperties
    <3> QED
      BY <3>1, <3>2, <3>3
  <2>4. \A i \in 1 .. n : checkDays[i] < now
    <3> SUFFICES ASSUME NEW i \in 1 .. n
                 PROVE  checkDays[i] < now
      OBVIOUS
    <3>1. checkDays[i] <= settings.last /\ checkDays[i] \in 1 .. MaxDay
      BY <2>3 DEF CheckInv
    <3> QED
      BY <2>1, <2>2, <3>1, BoundsAssumption DEF Never
  <2>5. CheckInv'
    BY <2>1, <2>2, <2>3, <2>4, BoundsAssumption DEF CheckInv
  <2>6. ASSUME NEW i \in 1 .. n + 1, NEW j \in 1 .. n + 1, i < j
        PROVE  checkDays'[i] < checkDays'[j]
    <3>1. CASE j = n + 1
      BY <2>3, <2>4, <2>6, <3>1
    <3>2. CASE j \in 1 .. n
      <4>1. i \in 1 .. n
        BY <2>3, <2>6, <3>2
      <4> QED
        BY <2>3, <2>6, <3>2, <4>1 DEF OneCheckADay
    <3> QED
      BY <2>3, <3>1, <3>2
  <2> QED
    BY <2>3, <2>5, <2>6 DEF OneCheckADay
<1>3. CASE DisableFirst(p) \/ Disable(p)
  BY <1>3 DEF DisableFirst, Disable, TypeOK, Settings, CheckInv, OneCheckADay
<1>4. CASE Enable(p)
  BY <1>4 DEF Enable, CheckInv, OneCheckADay
<1>5. CASE LoadSettings(p) \/ Find(p) \/ Download(p) \/ Lock(p) \/ EnterSession(p) \/ Quits(p)
           \/ BackUp(p) \/ Swap(p) \/ SwapAuto(p) \/ Restart(p) \/ Restore(p)
  BY <1>1, <1>5
     DEF LoadSettings, Restart, Find, Download, Lock, EnterSession, Quits, BackUp, Swap, SwapAuto, Restore
<1> QED
  BY <1>2, <1>3, <1>4, <1>5, StepCases

LEMMA StepKeepsBackupInv ==
  ASSUME TypeOK, LockInv, BackupInv, NEW p \in Procs, Step(p) \/ Crash(p)
  PROVE  BackupInv'
<1> USE DEF disk
<1>1. \A step : Goto(p, step) => pc'[p] = step
  BY DEF TypeOK, Goto
<1>2. ASSUME UNCHANGED <<exe, backup>>, pc'[p] \notin {"swap", "swap auto"}
      PROVE  BackupInv'
  BY <1>2, OthersStay DEF BackupInv
<1>3. CASE UNCHANGED <<exe, backup>> /\ ~ BackUp(p)
  <2>1. pc'[p] \notin {"swap", "swap auto"}
    BY <1>1, <1>3, StepCases
       DEF Quits, LoadSettings, Restart, Find, Download, Lock, AfterLock, Locking, EnterSession,
           Mark, DisableFirst, Swap, SwapAuto, Restore, Enable, Disable
  <2> QED
    BY <1>2, <1>3, <2>1
<1>4. CASE BackUp(p)
  <2>1. backup' = exe'
    BY <1>4 DEF BackUp
  <2> QED
    BY <2>1 DEF BackupInv
<1>5. CASE Swap(p) \/ SwapAuto(p) \/ Restore(p)
  <2>1. pc[p] \in UnderLock /\ pc'[p] \notin {"swap", "swap auto"}
    BY <1>1, <1>5 DEF Swap, SwapAuto, Restore, AtStep, UnderLock
  <2>2. \A q \in Procs \ {p} : pc'[q] \notin {"swap", "swap auto"}
    BY <2>1, OneUnderLock, OthersStay DEF UnderLock
  <2> QED
    BY <2>1, <2>2 DEF BackupInv
<1>6. BackUp(p) \/ Swap(p) \/ SwapAuto(p) \/ Restore(p) \/ UNCHANGED <<exe, backup>>
  BY StepCases
     DEF Quits, LoadSettings, Restart, Find, Download, Lock, EnterSession, Mark, DisableFirst, Enable, Disable
<1> QED
  BY <1>3, <1>4, <1>5, <1>6

LEMMA StepKeepsPlanInv ==
  ASSUME TypeOK, PlanInv, OnlyFittingInstalled, NEW p \in Procs, Step(p) \/ Crash(p)
  PROVE  PlanInv' /\ OnlyFittingInstalled'
<1> USE DEF disk, outside
<1>1. \A step : Goto(p, step) => pc'[p] = step
  BY DEF TypeOK, Goto
<1>2. UNCHANGED catalog
  BY StepCases
     DEF Quits, LoadSettings, Restart, Find, Download, Lock, EnterSession, Mark, BackUp, DisableFirst,
         Swap, SwapAuto, Restore, Enable, Disable
<1>3. PlanInv'
  <2>1. SUFFICES ASSUME pc'[p] \in Planned
                 PROVE  plan'[p] \in Versions /\ catalog[plan'[p]] = "fits"
    BY <1>2, OthersStay DEF PlanInv
  <2>2. CASE Find(p)
    BY <2>2, FindFits DEF TypeOK
  <2>3. CASE Download(p) \/ Lock(p) \/ BackUp(p)
    <3>1. pc[p] \in Planned /\ UNCHANGED plan
      BY <1>1, <2>1, <2>3 DEF Download, Lock, AfterLock, Locking, BackUp, Planned
    <3> QED
      BY <3>1 DEF PlanInv
  <2>4. CASE Quits(p) \/ LoadSettings(p) \/ EnterSession(p) \/ Mark(p) \/ DisableFirst(p)
             \/ Swap(p) \/ SwapAuto(p) \/ Restart(p) \/ Restore(p) \/ Enable(p) \/ Disable(p)
    BY <1>1, <2>1, <2>4
       DEF Quits, LoadSettings, Restart, EnterSession, Mark, DisableFirst,
           Swap, SwapAuto, Restore, Enable, Disable, Planned
  <2> QED
    BY <2>2, <2>3, <2>4, StepCases
<1>4. OnlyFittingInstalled'
  <2>1. CASE UNCHANGED <<exe, backup>>
    BY <1>2, <2>1 DEF OnlyFittingInstalled
  <2>2. CASE BackUp(p)
    BY <1>2, <2>2 DEF BackUp, OnlyFittingInstalled
  <2>3. CASE Swap(p) \/ SwapAuto(p)
    <3>1. catalog[plan[p]] = "fits"
      BY <2>3 DEF Swap, SwapAuto, AtStep, PlanInv, Planned
    <3> QED
      BY <1>2, <2>3, <3>1 DEF Swap, SwapAuto, OnlyFittingInstalled
  <2>4. CASE Restore(p)
    BY <1>2, <2>4 DEF Restore, OnlyFittingInstalled
  <2> QED
    BY <2>1, <2>2, <2>3, <2>4, StepCases
       DEF Quits, LoadSettings, Restart, Find, Download, Lock, EnterSession, Mark, DisableFirst, Enable, Disable
<1> QED
  BY <1>3, <1>4

-----------------------------------------------------------------------------
(* The inductive invariant: types and plans, the lock, and what is known of*)
(* the disk at the steps under it.                                         *)
IInv ==
  /\ TypeOK /\ PlanInv /\ OnlyFittingInstalled
  /\ LockInv
  /\ RestoreInv /\ AutoInv /\ RestoredInv
  /\ CheckInv /\ OneCheckADay
  /\ BackupInv

LEMMA InitIInv == Init => IInv
<1> SUFFICES ASSUME Init
             PROVE  IInv
  OBVIOUS
<1>1. \A p \in Procs : pc[p] = "idle"
  BY DEF Init
<1>2. PlanInv /\ LockInv /\ RestoreInv /\ AutoInv /\ BackupInv
  BY <1>1 DEF Init, PlanInv, Planned, LockInv, UnderLock, RestoreInv, AutoInv, AutoSteps, AtStep, BackupInv
<1>3. catalog[1] = "fits"
  BY CatalogsAssumption DEF Init
<1>4. OnlyFittingInstalled
  BY <1>3 DEF Init, OnlyFittingInstalled
<1>5. RestoredInv /\ CheckInv /\ OneCheckADay
  BY DEF Init, RestoredInv, CheckInv, OneCheckADay
<1> QED
  BY <1>2, <1>4, <1>5, InitTyped DEF IInv

(* A command that starts is at none of the steps the invariant is about.   *)
LEMMA StartKeepsIInv ==
  ASSUME IInv, NEW p \in Procs, NEW c \in Commands, Start(p, c)
  PROVE  IInv'
<1> USE DEF disk, locks, history
<1>1. TypeOK'
  BY NextTyped DEF IInv, Next
<1>2. FirstStep[c] \notin UnderLock /\ FirstStep[c] # "lock install"
  <2>1. c \in {"tui", "broker", "install", "rollback", "enable", "disable"}
    BY BoundsAssumption
  <2>2. /\ FirstStep["tui"] = "load" /\ FirstStep["broker"] = "enter" /\ FirstStep["install"] = "find"
        /\ FirstStep["rollback"] = "lock rollback" /\ FirstStep["enable"] = "lock enable"
        /\ FirstStep["disable"] = "lock disable"
    BY DEF FirstStep
  <2> QED
    BY <2>1, <2>2 DEF UnderLock
<1>3. pc'[p] = FirstStep[c] /\ \A q \in Procs \ {p} : pc'[q] = pc[q]
  BY DEF Start, Goto, IInv, TypeOK
<1>4. pc'[p] \notin UnderLock \cup Planned
  BY <1>2, <1>3 DEF UnderLock, Planned
<1>5. UNCHANGED <<exe, backup, settings, exclusive, sessions, plan, catalog, restored, checkDays>>
  BY DEF Start
<1>6. PlanInv' /\ LockInv' /\ RestoreInv' /\ AutoInv' /\ BackupInv'
  BY <1>3, <1>4, <1>5
     DEF IInv, PlanInv, LockInv, RestoreInv, AutoInv, AutoSteps, AtStep, BackupInv, UnderLock, Planned
<1>7. OnlyFittingInstalled' /\ RestoredInv' /\ CheckInv' /\ OneCheckADay'
  BY <1>5 DEF IInv, OnlyFittingInstalled, RestoredInv, CheckInv, OneCheckADay
<1> QED
  BY <1>1, <1>6, <1>7 DEF IInv

LEMMA NextKeepsIInv == IInv /\ [Next]_vars => IInv'
<1> SUFFICES ASSUME IInv, [Next]_vars
             PROVE  IInv'
  OBVIOUS
<1> USE DEF disk, locks, processes, history
<1>1. TypeOK'
  BY NextTyped DEF IInv
<1>2. ASSUME NEW p \in Procs, Step(p) \/ Crash(p)
      PROVE  IInv'
  BY <1>1, <1>2, StepKeepsPlanInv, StepKeepsLockInv, StepKeepsRestoreInv, StepKeepsAutoInv,
     StepKeepsRestoredInv, StepKeepsCheckInv, StepKeepsBackupInv
     DEF IInv
<1>3. ASSUME NEW p \in Procs, NEW c \in Commands, Start(p, c)
      PROVE  IInv'
  BY <1>3, StartKeepsIInv
<1>4. CASE DayPasses \/ Release \/ UNCHANGED vars
  <2>1. UNCHANGED <<exe, backup, settings, exclusive, sessions, pc, plan, catalog, restored, checkDays>>
    BY <1>4 DEF DayPasses, Release, vars, outside
  <2>2. PlanInv' /\ OnlyFittingInstalled' /\ LockInv' /\ RestoreInv' /\ AutoInv' /\ BackupInv'
    BY <2>1 DEF IInv, PlanInv, OnlyFittingInstalled, LockInv, RestoreInv, AutoInv, AtStep, BackupInv
  <2>3. RestoredInv' /\ CheckInv' /\ OneCheckADay'
    BY <2>1 DEF IInv, RestoredInv, CheckInv, OneCheckADay
  <2> QED
    BY <1>1, <2>2, <2>3 DEF IInv
<1> QED
  BY <1>2, <1>3, <1>4 DEF Next

THEOREM InstallationIInv == Spec => []IInv
BY InitIInv, NextKeepsIInv, PTL DEF Spec

-----------------------------------------------------------------------------
(* The files, the lock and the processes' steps are what Update says.      *)
THEOREM InstallationTyped == Spec => []TypeOK
<1>1. IInv => TypeOK
  BY DEF IInv
<1> QED
  BY <1>1, InstallationIInv, PTL

(* However many processes were in the middle of an update, a rollback      *)
(* leaves updates disabled and its executable in place until somebody      *)
(* enables or installs (run_update, automatic_update).                     *)
THEOREM RollbackAlwaysSticks == Spec => RollbackSticks
<1> DEFINE A == restored' => ~ settings'.enabled /\ (restored => exe' = exe)
<1>1. ASSUME IInv, IInv', [Next]_vars
      PROVE  A
  <2>1. restored' => ~ settings'.enabled
    BY <1>1 DEF IInv, RestoredInv
  <2>2. ASSUME NEW p \in Procs, Step(p) \/ Crash(p)
        PROVE  restored /\ restored' => exe' = exe
    BY <1>1, <2>2, StepKeepsRestoredInv DEF IInv
  <2>3. CASE UNCHANGED vars
    BY <2>1, <2>3 DEF vars, disk
  <2> QED
    BY <1>1, <2>1, <2>2, <2>3 DEF Next, Start, DayPasses, Release, disk
<1>2. IInv /\ IInv' /\ [Next]_vars => [A]_vars
  BY <1>1
<1> QED
  BY <1>2, InstallationIInv, PTL DEF Spec, RollbackSticks

(* However many sessions start on one day, one of them makes the check.    *)
THEOREM AlwaysOneCheckADay == Spec => []OneCheckADay
<1>1. IInv => OneCheckADay
  BY DEF IInv
<1> QED
  BY <1>1, InstallationIInv, PTL

(* Neither the executable nor its backup is ever a release that does not   *)
(* fit, whatever the catalog has beside the first.                         *)
THEOREM AlwaysFitting == Spec => []OnlyFittingInstalled
<1>1. IInv => OnlyFittingInstalled
  BY DEF IInv
<1> QED
  BY <1>1, InstallationIInv, PTL

(* A step that writes the executable or the backup is one under the lock,  *)
(* and then there is no session.                                           *)
THEOREM AlwaysReplacedBetweenSessions == Spec => ReplacedBetweenSessions
<1>1. ASSUME IInv, [Next]_vars
      PROVE  UNCHANGED <<exe, backup>> \/ sessions = {}
  <2> USE DEF disk
  <2>1. ASSUME NEW p \in Procs, Step(p) \/ Crash(p)
        PROVE  UNCHANGED <<exe, backup>> \/ sessions = {}
    <3>1. CASE pc[p] \in UnderLock
      BY <1>1, <3>1, ProcsAssumption DEF IInv, LockInv
    <3> QED
      BY <2>1, <3>1, WritesAreUnderLock
  <2>2. CASE UNCHANGED vars
    BY <2>2 DEF vars
  <2> QED
    BY <1>1, <2>1, <2>2 DEF Next, Start, DayPasses, Release
<1>2. IInv /\ [Next]_vars => [UNCHANGED <<exe, backup>> \/ sessions = {}]_vars
  BY <1>1
<1> QED
  BY <1>2, InstallationIInv, PTL DEF Spec, ReplacedBetweenSessions

(* Only the second write of an installation changes the executable without *)
(* rolling back, and the first has backed up what it replaces.             *)
THEOREM AlwaysReplacedIsBackedUp == Spec => ReplacedIsBackedUp
<1> DEFINE A == exe' # exe /\ lastChange' = "install" => backup = exe /\ backup' = exe
<1>1. ASSUME IInv, [Next]_vars
      PROVE  A
  <2> USE DEF disk
  <2>1. ASSUME NEW p \in Procs, Step(p) \/ Crash(p)
        PROVE  A
    <3>1. CASE Swap(p) \/ SwapAuto(p)
      <4>1. backup = exe
        BY <1>1, <3>1 DEF Swap, SwapAuto, AtStep, IInv, BackupInv
      <4> QED
        BY <3>1, <4>1 DEF Swap, SwapAuto
    <3>2. CASE Restore(p)
      BY <3>2 DEF Restore
    <3> QED
      BY <2>1, <3>1, <3>2, StepCases
         DEF Quits, LoadSettings, Restart, Find, Download, Lock, EnterSession, Mark, BackUp, DisableFirst,
             Enable, Disable
  <2>2. CASE UNCHANGED vars
    BY <2>2 DEF vars
  <2> QED
    BY <1>1, <2>1, <2>2 DEF Next, Start, DayPasses, Release
<1>2. IInv /\ [Next]_vars => [A]_vars
  BY <1>1
<1> QED
  BY <1>2, InstallationIInv, PTL DEF Spec, ReplacedIsBackedUp

=============================================================================
